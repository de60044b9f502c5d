----------------------------- MODULE MLRsearch -----------------------------
(***************************************************************************)
(* Multiple Loss Ratio search (MultipleLossRatioSearch.py): the search for *)
(* the NDR and the PDR interval of a system under test by trials of        *)
(* growing duration.                                                       *)
(*                                                                         *)
(* Rates are points of a logarithmic grid, the quantity the code bisects   *)
(* in: a relative width is a number of grid points, doubling it multiplies *)
(* it by 2, half_step_up goes to the point in the middle (rounded down).   *)
(* The loss fraction of a trial is abstracted to what the code compares:   *)
(* "zero" (<= 0.0), "low" (above it and <= packet_loss_ratio) and "high".  *)
(* A duration is the number of the phase that uses it: 0 for the initial   *)
(* duration, Phases for the final one.                                     *)
(*                                                                         *)
(* The recursion of ndrpdr runs the phases in order 0, ..., Phases, each   *)
(* on the intervals the previous one left, so phase says which call is in  *)
(* its loop.                                                               *)
(***************************************************************************)
EXTENDS Integers

CONSTANTS Phases,      \* number_of_intermediate_phases
          WidthGoal,   \* WidthGoal[k]: width_goal of phase k
          Doublings,   \* doublings of an external search step
          MinRate,     \* minimum_transmit_rate
          MaxRate,     \* maximum_transmit_rate
          CanTimeOut,  \* TRUE: the search may exceed its timeout
          None

double_relative_width(relative_width) == 2 * relative_width

ASSUME RatesAssumption ==
  /\ MinRate \in Nat /\ MaxRate \in Nat
  /\ MinRate < MaxRate

ASSUME PhasesAssumption == Phases \in Nat \ {0}

\* Earlier phases use goals doubled once per phase.
ASSUME WidthGoalAssumption ==
  /\ WidthGoal \in [0 .. Phases -> Nat \ {0}]
  /\ \A k \in 0 .. Phases - 1 :
       WidthGoal[k] = double_relative_width(WidthGoal[k + 1])

ASSUME DoublingsAssumption == Doublings \in Nat /\ 2 ^ Doublings \in Nat \ {0}

ASSUME NoneAssumption == None \notin Int

ASSUME CanTimeOutAssumption == CanTimeOut \in BOOLEAN

VARIABLES pc,     \* the next trial of the initial phase, or the loop of ndrpdr
          phase,  \* the phase whose loop is running
          line,   \* line_measurement
          mrr,    \* mrr_measurement
          ndr,    \* state.result.ndr_interval
          pdr,    \* state.result.pdr_interval
          sut     \* the system under test: its loss-free and low-loss rates

vars == <<pc, phase, line, mrr, ndr, pdr, sut>>

Rates     == MinRate .. MaxRate
Durations == 0 .. Phases
Losses    == {"zero", "low", "high"}

ReceiveRateMeasurement == [target_tr : Rates, duration : Durations, loss : Losses]
ReceiveRateInterval    == [lo : ReceiveRateMeasurement, hi : ReceiveRateMeasurement]

\* Loss fractions above 0.0 and above packet_loss_ratio.
OverNdr == {"low", "high"}
OverPdr == {"high"}

\* The target rates up to which trials of duration d lose nothing, and little.
\* Longer trials lose as much or more.  A noisy system, for which sut is None, may
\* do anything in any trial.
Systems ==
  {s \in [Durations -> (MinRate - 1 .. MaxRate) \X (MinRate - 1 .. MaxRate)] :
     /\ \A d \in Durations : s[d][1] <= s[d][2]
     /\ \A d, e \in Durations : d <= e => s[e][1] <= s[d][1] /\ s[e][2] <= s[d][2]}

\* What the traffic generator may report for a trial.
Outcomes(tr, d) ==
  IF sut = None THEN Losses
  ELSE {IF tr <= sut[d][1] THEN "zero" ELSE IF tr <= sut[d][2] THEN "low" ELSE "high"}

Smaller(a, b) == IF a <= b THEN a ELSE b
Larger(a, b)  == IF a >= b THEN a ELSE b

-----------------------------------------------------------------------------
(* The arithmetic of widths.                                               *)

Width(i) == i.hi.target_tr - i.lo.target_tr

expand_down(width, bound) == bound - width * 2 ^ Doublings
expand_up(width, bound)   == bound + width * 2 ^ Doublings
half_step_up(width, bound) == bound + width \div 2

\* Constructor of ReceiveRateInterval, with its sort.
Interval(low, high) ==
  IF low.target_tr > high.target_tr THEN [lo |-> high, hi |-> low]
                                    ELSE [lo |-> low, hi |-> high]

\* Mutant: a bound measured again at its own rate is not replaced first.
NewIntervalNoReplace(old, m, over) ==
  LET old_lo == old.lo
      old_hi == old.hi
      tr     == m.target_tr
  IN  IF old_lo.loss \in over
      THEN IF tr < old_lo.target_tr THEN Interval(m, old_lo) ELSE old
      ELSE IF tr < old_lo.target_tr
      THEN IF m.loss \in over THEN Interval(m, old_hi) ELSE old
      ELSE IF tr > old_hi.target_tr
      THEN IF old_hi.loss \notin over THEN Interval(old_hi, m) ELSE old
      ELSE IF m.loss \in over THEN Interval(old_lo, m) ELSE Interval(m, old_hi)

\* Mutant: the lower bound does not follow an upper bound that moves up.
NewIntervalLowerStays(old, m, over) ==
  LET old_lo == old.lo
      old_hi == old.hi
      tr     == m.target_tr
  IN  IF tr = old_lo.target_tr THEN Interval(m, old_hi)
      ELSE IF tr = old_hi.target_tr THEN Interval(old_lo, m)
      ELSE IF old_lo.loss \in over
      THEN IF tr < old_lo.target_tr THEN Interval(m, old_lo) ELSE old
      ELSE IF tr < old_lo.target_tr
      THEN IF m.loss \in over THEN Interval(m, old_hi) ELSE old
      ELSE IF tr > old_hi.target_tr
      THEN IF old_hi.loss \notin over THEN Interval(old_lo, m) ELSE old
      ELSE IF m.loss \in over THEN Interval(old_lo, m) ELSE Interval(m, old_hi)

\* The interval updated with measurement m, for the losses above its ratio.
_new_interval(old, m, over) ==
  LET old_lo == old.lo
      old_hi == old.hi
      tr     == m.target_tr
  IN  IF tr = old_lo.target_tr THEN Interval(m, old_hi)
      ELSE IF tr = old_hi.target_tr THEN Interval(old_lo, m)
      ELSE IF old_lo.loss \in over
      THEN IF tr < old_lo.target_tr THEN Interval(m, old_lo) ELSE old
      ELSE IF tr < old_lo.target_tr
      THEN IF m.loss \in over THEN Interval(m, old_hi) ELSE old
      ELSE IF tr > old_hi.target_tr
      THEN IF old_hi.loss \notin over THEN Interval(old_hi, m) ELSE old
      ELSE IF m.loss \in over THEN Interval(old_lo, m) ELSE Interval(m, old_hi)

-----------------------------------------------------------------------------
(* Which rate the loop of ndrpdr measures next; None if there is none.     *)

\* max(width_goal, rel_tr_width) of an interval.
RelWidth(i) == Larger(WidthGoal[phase], Width(i))

\* Mutant: an invalid lower bound at the minimum is measured again and again.
LowExternalAgain(i, over) ==
  IF i.lo.loss \in over /\ i.lo.target_tr > MinRate
  THEN Larger(MinRate, expand_down(RelWidth(i), i.lo.target_tr))
  ELSE IF i.lo.loss \in over THEN MinRate ELSE None

\* An invalid lower bound is moved down, or re-measured at the minimum.
LowExternal(i, over) ==
  IF i.lo.loss \in over /\ i.lo.target_tr > MinRate
  THEN Larger(MinRate, expand_down(RelWidth(i), i.lo.target_tr))
  ELSE IF i.lo.loss \in over /\ i.lo.duration < phase THEN MinRate ELSE None

\* An invalid upper bound is moved up, or re-measured at the maximum.
HighExternal(i, over) ==
  IF i.hi.loss \notin over /\ i.hi.target_tr < MaxRate
  THEN Smaller(MaxRate, expand_up(RelWidth(i), i.hi.target_tr))
  ELSE IF i.hi.loss \notin over /\ i.hi.duration < phase THEN MaxRate ELSE None

FirstOf(a, b) == IF a # None THEN a ELSE b

_ndrpdr_loss_fraction ==
  FirstOf(LowExternal(ndr, OverNdr),
  FirstOf(LowExternal(pdr, OverPdr),
  FirstOf(HighExternal(ndr, OverNdr),
          HighExternal(pdr, OverPdr))))

\* The minimal rate is not a valid lower bound: narrowing is given up.
GivenUp(i, over) == i.lo.target_tr <= MinRate /\ i.lo.loss \in over

NdrWide == ~GivenUp(ndr, OverNdr) /\ RelWidth(ndr) > WidthGoal[phase]
PdrWide == ~GivenUp(pdr, OverPdr) /\ RelWidth(pdr) > WidthGoal[phase]

_ndrpdr_width_goal ==
  IF NdrWide THEN half_step_up(RelWidth(ndr), ndr.lo.target_tr)
  ELSE IF PdrWide THEN half_step_up(RelWidth(pdr), pdr.lo.target_tr)
  ELSE None

\* Mutant: upper bounds are not measured again.
DurationLowerOnly ==
  IF ndr.lo.duration < phase THEN ndr.lo.target_tr
  ELSE IF pdr.lo.duration < phase THEN pdr.lo.target_tr
  ELSE None

\* Mutant: lower bounds are not measured again.
DurationUpperOnly ==
  IF ndr.hi.duration < phase /\ ~GivenUp(ndr, OverNdr)
  THEN ndr.hi.target_tr
  ELSE IF pdr.hi.duration < phase /\ ~GivenUp(pdr, OverPdr)
  THEN pdr.hi.target_tr
  ELSE None

\* Bounds measured with a shorter duration are measured again.
_ndrpdr_duration ==
  IF ndr.lo.duration < phase THEN ndr.lo.target_tr
  ELSE IF pdr.lo.duration < phase THEN pdr.lo.target_tr
  ELSE IF ndr.hi.duration < phase /\ ~GivenUp(ndr, OverNdr) THEN ndr.hi.target_tr
  ELSE IF pdr.hi.duration < phase /\ ~GivenUp(pdr, OverPdr) THEN pdr.hi.target_tr
  ELSE None

-----------------------------------------------------------------------------
Init ==
  /\ pc = "line"
  /\ phase = 0
  /\ line = None /\ mrr = None
  /\ ndr = None /\ pdr = None
  /\ sut \in Systems \cup {None}

Trial(tr, d, loss) == [target_tr |-> tr, duration |-> d, loss |-> loss]

\* The trial at the maximal rate.
LineTrial ==
  /\ pc = "line"
  /\ \E loss \in Outcomes(MaxRate, 0) : line' = Trial(MaxRate, 0, loss)
  /\ pc' = "mrr"
  /\ UNCHANGED <<phase, mrr, ndr, pdr, sut>>

\* The trial at the rate received in it, but at least the initial width goal
\* below the maximal rate.  The received rate may be anything.
MrrTrial ==
  /\ pc = "mrr"
  /\ \E receive_rate \in 0 .. MaxRate :
       LET max_lo == MaxRate - WidthGoal[0]
           tr == Larger(MinRate, Smaller(max_lo, receive_rate))
       IN  \E loss \in Outcomes(tr, 0) : mrr' = Trial(tr, 0, loss)
  /\ pc' = "mrr2"
  /\ UNCHANGED <<phase, line, ndr, pdr, sut>>

\* The intervals the phases start from.
Start(low, high) ==
  /\ ndr' = Interval(low, high)
  /\ pdr' = Interval(low, high)
  /\ pc' = "loop"
  /\ UNCHANGED <<phase, line, mrr, sut>>

\* "Attempt to get narrower width": a third trial, below the second if that one
\* had losses, above it otherwise, unless it would leave the allowed rates.
Mrr2Trial ==
  /\ pc = "mrr2"
  /\ \E receive_rate \in 0 .. MaxRate :
       LET mrr2 == IF mrr.loss \in OverNdr
                   THEN Smaller(mrr.target_tr - WidthGoal[0], receive_rate)
                   ELSE mrr.target_tr + WidthGoal[0]
       IN  IF MinRate < mrr2 /\ mrr2 < MaxRate
           THEN \E loss \in Outcomes(mrr2, 0) :
                  IF mrr2 > mrr.target_tr
                  THEN Start(mrr, Trial(mrr2, 0, loss))
                  ELSE Start(Trial(mrr2, 0, loss), mrr)
           ELSE Start(mrr, line)

\* Mutant: the loss ratios of the two intervals are mixed up.
MeasureMixedUp(tr) ==
  /\ \E loss \in Outcomes(tr, phase) :
       /\ ndr' = _new_interval(ndr, Trial(tr, phase, loss), OverPdr)
       /\ pdr' = _new_interval(pdr, Trial(tr, phase, loss), OverNdr)
  /\ UNCHANGED <<pc, phase, line, mrr, sut>>

\* _measure_and_update_state: a trial of the current phase updates both
\* intervals.
Measure(tr) ==
  /\ \E loss \in Outcomes(tr, phase) :
       /\ ndr' = _new_interval(ndr, Trial(tr, phase, loss), OverNdr)
       /\ pdr' = _new_interval(pdr, Trial(tr, phase, loss), OverPdr)
  /\ UNCHANGED <<pc, phase, line, mrr, sut>>

LossFractionTrial ==
  /\ pc = "loop"
  /\ _ndrpdr_loss_fraction # None
  /\ Measure(_ndrpdr_loss_fraction)

WidthGoalTrial ==
  /\ pc = "loop"
  /\ _ndrpdr_loss_fraction = None
  /\ _ndrpdr_width_goal # None
  /\ Measure(_ndrpdr_width_goal)

DurationTrial ==
  /\ pc = "loop"
  /\ _ndrpdr_loss_fraction = None
  /\ _ndrpdr_width_goal = None
  /\ _ndrpdr_duration # None
  /\ Measure(_ndrpdr_duration)

\* "phase done": the call returns to the next phase, or the search is over.
PhaseDone ==
  /\ pc = "loop"
  /\ _ndrpdr_loss_fraction = None
  /\ _ndrpdr_width_goal = None
  /\ _ndrpdr_duration = None
  /\ IF phase < Phases
     THEN phase' = phase + 1 /\ UNCHANGED pc
     ELSE pc' = "done" /\ UNCHANGED phase
  /\ UNCHANGED <<line, mrr, ndr, pdr, sut>>

\* "Optimized search takes too long.", checked before every trial of a phase.
TimeOut ==
  /\ CanTimeOut
  /\ pc = "loop"
  /\ pc' = "timeout"
  /\ UNCHANGED <<phase, line, mrr, ndr, pdr, sut>>

Search ==
  \/ LineTrial \/ MrrTrial \/ Mrr2Trial
  \/ LossFractionTrial \/ WidthGoalTrial \/ DurationTrial \/ PhaseDone

Next == Search \/ TimeOut

Spec == Init /\ [][Next]_vars

\* The search is one sequential program: it does not stop by itself.
FairSpec == Spec /\ WF_vars(Search)

-----------------------------------------------------------------------------
(* Properties.                                                             *)

TypeOK ==
  /\ pc \in {"line", "mrr", "mrr2", "loop", "done", "timeout"}
  /\ phase \in 0 .. Phases
  /\ line \in ReceiveRateMeasurement \cup {None}
  /\ mrr \in ReceiveRateMeasurement \cup {None}
  /\ ndr \in ReceiveRateInterval \cup {None}
  /\ pdr \in ReceiveRateInterval \cup {None}
  /\ pc = "mrr" => line \in ReceiveRateMeasurement
  /\ pc = "mrr2" => /\ line \in ReceiveRateMeasurement
                    /\ mrr \in ReceiveRateMeasurement
  /\ pc \in {"loop", "done", "timeout"} =>
       ndr \in ReceiveRateInterval /\ pdr \in ReceiveRateInterval

\* Whatever the trials report, both intervals stay proper: the lower bound is
\* strictly below the upper one, so widths are positive, a bisection point lies
\* strictly between the bounds, and the sort of ReceiveRateInterval never swaps.
ProperIntervals ==
  pc = "loop" => Width(ndr) > 0 /\ Width(pdr) > 0

\* The system under test does not depend on the duration.
Steady == sut # None /\ \A d \in Durations : sut[d] = sut[0]

\* The lower bounds are what a test reports as its NDR and PDR.  On a steady
\* system the NDR never exceeds the PDR, although each trial updates the two
\* intervals by different rules.
NdrBelowPdr ==
  pc \in {"loop", "done"} /\ Steady =>
    ndr.lo.target_tr <= pdr.lo.target_tr

\* What narrow_down_ndr_and_pdr returns for an interval: the minimum if it is not
\* a valid lower bound, or bounds measured for the full duration, the lower one
\* valid, the upper one valid or the maximum, not more than the goal apart.
Narrowed(i, over) ==
  \/ GivenUp(i, over) /\ i.lo.duration = Phases
  \/ /\ i.lo.duration = Phases /\ i.hi.duration = Phases
     /\ i.lo.loss \notin over
     /\ i.hi.loss \in over \/ i.hi.target_tr = MaxRate
     /\ Width(i) <= WidthGoal[Phases]

ResultNarrowed ==
  pc = "done" => Narrowed(ndr, OverNdr) /\ Narrowed(pdr, OverPdr)

\* Unless the system is noisy, the result brackets the rates the system really
\* has at the full duration.
Brackets(i, rate) ==
  \/ i.lo.target_tr = MinRate /\ rate < MinRate
  \/ i.lo.target_tr <= rate /\ (rate < i.hi.target_tr \/ i.hi.target_tr = MaxRate)

ResultBrackets ==
  pc = "done" /\ sut # None =>
    Brackets(ndr, sut[Phases][1]) /\ Brackets(pdr, sut[Phases][2])

\* Unless the system is noisy the search ends: no phase moves or re-measures
\* bounds forever, although a longer trial may undo what a shorter one found.
Terminates == sut # None => <>(pc \in {"done", "timeout"})

\* What an interval may still cost in this phase.  A lower bound that may be found
\* invalid costs more than one that is being moved down, and that more than one
\* that is valid for good; an upper bound that is being moved up costs more than a
\* valid one; then the way the bounds have to go, and what is to be re-measured.
Span == 3 * (MaxRate - MinRate + 1)

LowerCost(i, over) ==
  IF i.lo.loss \in over THEN 2 * Span
  ELSE IF i.lo.duration < phase THEN 4 * Span ELSE 0

UpperCost(i, over) == IF i.hi.loss \in over THEN 0 ELSE Span

Way(i, over) ==
  IF i.lo.loss \in over THEN i.lo.target_tr - MinRate
  ELSE IF i.hi.loss \in over THEN Width(i) ELSE MaxRate - i.lo.target_tr

Again(m) == IF m.duration < phase THEN 1 ELSE 0

Cost(i, over) ==
  LowerCost(i, over) + UpperCost(i, over) + 3 * Way(i, over) + Again(i.lo) + Again(i.hi)

Remaining == Cost(ndr, OverNdr) + Cost(pdr, OverPdr)

\* Unless the system is noisy no trial of the loop is wasted: each one lowers what
\* the phase may still cost, although what it tells one interval may be ignored for
\* the other, and although a longer trial may undo what a shorter one found.  This
\* bounds the trials of a phase.  (_ndrpdr_loss_fraction, _new_interval)
TrialsProgress ==
  [][sut # None /\ pc = "loop" /\ pc' = "loop" /\ phase' = phase =>
       Remaining' \in 0 .. Remaining - 1]_vars
=============================================================================
