--------------------------- MODULE MLRsearchProofs ---------------------------
(***************************************************************************)
(* Proofs about MLRsearch, for every grid of rates, number of phases, width*)
(* goals, number of doublings and system under test, the noisy one         *)
(* included: the intervals stay within the allowed rates and proper, and a *)
(* search that returns has narrowed both of them.  Unless the system is    *)
(* noisy the result brackets the rates it really has, and on a steady one  *)
(* the NDR found is not above the PDR; each trial of a phase lowers what   *)
(* the phase may still cost.                                               *)
(***************************************************************************)
EXTENDS MLRsearch, TLAPS

Intervals == {i \in ReceiveRateInterval : Width(i) > 0}

\* The loss of a measurement is one its trial can have had.
Truthful(m) == m.loss \in Outcomes(m.target_tr, m.duration)

Searching == pc \in {"loop", "done", "timeout"}

\* The second trial of the initial phase is below the first.
SecondBelowFirst == pc = "mrr2" => mrr.target_tr < line.target_tr

\* The search uses the intervals only once they are set, and they are proper.
BoundsProper == Searching => ndr \in Intervals /\ pdr \in Intervals

LineIsMax == pc \in {"mrr", "mrr2"} => line.target_tr = MaxRate

\* The inductive invariant.
IInv == TypeOK /\ LineIsMax /\ SecondBelowFirst /\ BoundsProper /\ ResultNarrowed

-----------------------------------------------------------------------------
(* Lemmas about the operators.                                             *)

\* Naturals are closed under multiplication (the products of doublings and widths).
LEMMA ProductNat == ASSUME NEW a \in Nat, NEW b \in Nat PROVE a * b \in Nat
  OBVIOUS

\* A trial reports one of the three loss classes, whatever the system is.
LEMMA OutcomesAreLosses ==
  ASSUME NEW tr, NEW d PROVE Outcomes(tr, d) \subseteq Losses
  BY DEF Outcomes, Losses

\* measure: a trial at an allowed rate gives a measurement of that rate.
LEMMA TrialType ==
  ASSUME NEW tr \in Rates, NEW d \in Durations, NEW l \in Losses
  PROVE  /\ Trial(tr, d, l) \in ReceiveRateMeasurement
         /\ Trial(tr, d, l).target_tr = tr
  BY DEF Trial, ReceiveRateMeasurement

\* The report of a trial is kept with the rate and the duration it is about.
LEMMA TrialTruthful ==
  ASSUME NEW tr, NEW k, NEW loss \in Outcomes(tr, k)
  PROVE  Truthful(Trial(tr, k, loss))
  BY DEF Truthful, Trial

\* The constructor of an interval gives a proper one from two different rates.
LEMMA IntervalProper ==
  ASSUME NEW a \in ReceiveRateMeasurement, NEW b \in ReceiveRateMeasurement,
         a.target_tr # b.target_tr
  PROVE  Interval(a, b) \in Intervals
<1>1. a.target_tr \in Int /\ b.target_tr \in Int
  BY RatesAssumption DEF ReceiveRateMeasurement, Rates
<1>2. CASE a.target_tr > b.target_tr
  <2>1. Interval(a, b) = [lo |-> b, hi |-> a]
    BY <1>2 DEF Interval
  <2> QED  BY <1>1, <1>2, <2>1 DEF Intervals, ReceiveRateInterval, Width
<1>3. CASE ~(a.target_tr > b.target_tr)
  <2>1. Interval(a, b) = [lo |-> a, hi |-> b]
    BY <1>3 DEF Interval
  <2> QED  BY <1>1, <1>3, <2>1 DEF Intervals, ReceiveRateInterval, Width
<1> QED  BY <1>2, <1>3

\* An interval updated with any measurement stays proper.
LEMMA NewIntervalProper ==
  ASSUME NEW i \in Intervals, NEW m \in ReceiveRateMeasurement, NEW over
  PROVE  _new_interval(i, m, over) \in Intervals
<1>1. /\ i.lo \in ReceiveRateMeasurement /\ i.hi \in ReceiveRateMeasurement
      /\ i.lo.target_tr \in Int /\ i.hi.target_tr \in Int
      /\ m.target_tr \in Int
      /\ i.lo.target_tr < i.hi.target_tr
  BY RatesAssumption
  DEF Intervals, ReceiveRateInterval, ReceiveRateMeasurement, Rates, Width
<1>2. CASE m.target_tr = i.lo.target_tr
  <2>1. _new_interval(i, m, over) = Interval(m, i.hi)
    BY <1>1, <1>2 DEF _new_interval
  <2> QED  BY <1>1, <1>2, <2>1, IntervalProper
<1>3. CASE m.target_tr = i.hi.target_tr
  <2>1. _new_interval(i, m, over) = Interval(i.lo, m)
    BY <1>1, <1>3 DEF _new_interval
  <2> QED  BY <1>1, <1>3, <2>1, IntervalProper
<1>4. CASE m.target_tr # i.lo.target_tr /\ m.target_tr # i.hi.target_tr
  <2>1. _new_interval(i, m, over) \in
          {i, Interval(m, i.lo), Interval(m, i.hi), Interval(i.hi, m), Interval(i.lo, m)}
    BY <1>4 DEF _new_interval
  <2>2. {Interval(m, i.lo), Interval(m, i.hi), Interval(i.hi, m), Interval(i.lo, m)}
          \subseteq Intervals
    BY <1>1, <1>4, IntervalProper
  <2> QED  BY <2>1, <2>2
<1> QED  BY <1>2, <1>3, <1>4

\* An external step is at least as wide as the goal and stays an integer.
LEMMA RelWidthNat ==
  ASSUME phase \in 0 .. Phases, NEW i \in Intervals
  PROVE  /\ RelWidth(i) \in Nat
         /\ RelWidth(i) * 2 ^ Doublings \in Nat
         /\ Width(i) \in Nat
         /\ RelWidth(i) > WidthGoal[phase] => RelWidth(i) = Width(i)
         /\ Width(i) <= RelWidth(i)
         /\ WidthGoal[phase] \in Nat \ {0}
<1>1. Width(i) \in Nat
  BY RatesAssumption
  DEF Intervals, ReceiveRateInterval, ReceiveRateMeasurement, Rates, Width
<1>2. WidthGoal[phase] \in Nat \ {0}
  BY WidthGoalAssumption
<1>3. RelWidth(i) \in Nat
  BY <1>1, <1>2 DEF RelWidth, Larger
<1>4. RelWidth(i) * 2 ^ Doublings \in Nat
  BY <1>3, DoublingsAssumption, ProductNat
<1> QED  BY <1>1, <1>2, <1>3, <1>4 DEF RelWidth, Larger

\* The bounds of a proper interval are allowed rates, in order.
LEMMA BoundsAreRates ==
  ASSUME NEW i \in Intervals
  PROVE  /\ i.lo.target_tr \in Rates /\ i.hi.target_tr \in Rates
         /\ i.lo.target_tr < i.hi.target_tr
         /\ Width(i) = i.hi.target_tr - i.lo.target_tr
         /\ i.lo.duration \in Durations /\ i.hi.duration \in Durations
         /\ Rates \subseteq Int /\ MinRate \in Rates /\ MaxRate \in Rates
         /\ None \notin Rates
  BY RatesAssumption, NoneAssumption
  DEF Intervals, ReceiveRateInterval, ReceiveRateMeasurement, Rates, Width, Durations

\* A step down or up stays within the allowed rates.
LEMMA LowExternalRate ==
  ASSUME phase \in 0 .. Phases, NEW i \in Intervals, NEW over
  PROVE  LowExternal(i, over) \in Rates \cup {None}
<1> DEFINE step == RelWidth(i) * 2 ^ Doublings
<1>1. step \in Nat
  BY RelWidthNat
<1>2. Larger(MinRate, expand_down(RelWidth(i), i.lo.target_tr)) \in Rates
  <2>1. expand_down(RelWidth(i), i.lo.target_tr) = i.lo.target_tr - step
    BY DEF expand_down
  <2> HIDE DEF step
  <2> QED  BY <1>1, <2>1, BoundsAreRates, RatesAssumption DEF Larger, Rates
<1>3. MinRate \in Rates
  BY RatesAssumption DEF Rates
<1> QED  BY <1>2, <1>3 DEF LowExternal

\* The step above an invalid upper bound is within the rates, or there is none.
LEMMA HighExternalRate ==
  ASSUME phase \in 0 .. Phases, NEW i \in Intervals, NEW over
  PROVE  HighExternal(i, over) \in Rates \cup {None}
<1> DEFINE step == RelWidth(i) * 2 ^ Doublings
<1>1. step \in Nat
  BY RelWidthNat
<1>2. Smaller(MaxRate, expand_up(RelWidth(i), i.hi.target_tr)) \in Rates
  <2>1. expand_up(RelWidth(i), i.hi.target_tr) = i.hi.target_tr + step
    BY DEF expand_up
  <2> HIDE DEF step
  <2> QED  BY <1>1, <2>1, BoundsAreRates, RatesAssumption DEF Smaller, Rates
<1>3. MaxRate \in Rates
  BY RatesAssumption DEF Rates
<1> QED  BY <1>2, <1>3 DEF HighExternal

\* A bisection point of a wide interval is strictly inside it.
LEMMA HalfStepInside ==
  ASSUME phase \in 0 .. Phases, NEW i \in Intervals,
         RelWidth(i) > WidthGoal[phase]
  PROVE  half_step_up(RelWidth(i), i.lo.target_tr) \in Rates
<1>1. RelWidth(i) = i.hi.target_tr - i.lo.target_tr
  BY RelWidthNat, BoundsAreRates
<1> QED  BY <1>1, BoundsAreRates, RatesAssumption DEF half_step_up, Rates

-----------------------------------------------------------------------------
(* The three choices of a rate.                                            *)

\* The bound _ndrpdr_loss_fraction wants measured next is an allowed rate.
LEMMA LossFractionRate ==
  ASSUME phase \in 0 .. Phases, ndr \in Intervals, pdr \in Intervals
  PROVE  _ndrpdr_loss_fraction \in Rates \cup {None}
  BY LowExternalRate, HighExternalRate DEF _ndrpdr_loss_fraction, FirstOf

\* The middle _ndrpdr_width_goal wants measured next is an allowed rate.
LEMMA WidthGoalRate ==
  ASSUME phase \in 0 .. Phases, ndr \in Intervals, pdr \in Intervals
  PROVE  _ndrpdr_width_goal \in Rates \cup {None}
  BY HalfStepInside DEF _ndrpdr_width_goal, NdrWide, PdrWide

\* The bound _ndrpdr_duration wants measured again is an allowed rate.
LEMMA DurationRate ==
  ASSUME ndr \in Intervals, pdr \in Intervals
  PROVE  _ndrpdr_duration \in Rates \cup {None}
  BY BoundsAreRates DEF _ndrpdr_duration

\* When no choice is left in the last phase, an interval is narrowed.
LEMMA NothingLeftNarrowed ==
  ASSUME phase = Phases, NEW i \in Intervals, NEW over,
         LowExternal(i, over) = None, HighExternal(i, over) = None,
         ~(~GivenUp(i, over) /\ RelWidth(i) > WidthGoal[phase]),
         i.lo.duration >= phase,
         i.hi.duration >= phase \/ GivenUp(i, over)
  PROVE  Narrowed(i, over)
<1>1. phase \in 0 .. Phases /\ Phases \in Nat
  BY PhasesAssumption
<1>2. i.lo.duration = Phases /\ (i.hi.duration = Phases \/ GivenUp(i, over))
  BY <1>1, BoundsAreRates DEF Durations
<1>3. CASE GivenUp(i, over)
  BY <1>2, <1>3 DEF Narrowed
<1>4. CASE ~GivenUp(i, over)
  <2>1. i.lo.loss \notin over
    <3>1. SUFFICES ASSUME i.lo.loss \in over PROVE FALSE
      OBVIOUS
    <3>2. i.lo.target_tr > MinRate
      BY <1>4, <3>1, BoundsAreRates, RatesAssumption DEF GivenUp
    <3>3. LowExternal(i, over) = Larger(MinRate, expand_down(RelWidth(i), i.lo.target_tr))
      BY <3>1, <3>2, BoundsAreRates, RatesAssumption DEF LowExternal
    <3>4. Larger(MinRate, expand_down(RelWidth(i), i.lo.target_tr)) \in Int
      <4> DEFINE step == RelWidth(i) * 2 ^ Doublings
      <4>1. step \in Nat
        BY <1>1, RelWidthNat
      <4>2. expand_down(RelWidth(i), i.lo.target_tr) = i.lo.target_tr - step
        BY DEF expand_down
      <4> HIDE DEF step
      <4> QED  BY <4>1, <4>2, BoundsAreRates, RatesAssumption DEF Larger
    <3> QED  BY <3>3, <3>4, NoneAssumption
  <2>2. i.hi.loss \in over \/ i.hi.target_tr = MaxRate
    <3>1. SUFFICES ASSUME i.hi.loss \notin over, i.hi.target_tr # MaxRate PROVE FALSE
      OBVIOUS
    <3>2. i.hi.target_tr < MaxRate
      BY <3>1, BoundsAreRates, RatesAssumption DEF Rates
    <3>3. HighExternal(i, over) = Smaller(MaxRate, expand_up(RelWidth(i), i.hi.target_tr))
      BY <3>1, <3>2, BoundsAreRates, RatesAssumption DEF HighExternal
    <3>4. Smaller(MaxRate, expand_up(RelWidth(i), i.hi.target_tr)) \in Int
      <4> DEFINE step == RelWidth(i) * 2 ^ Doublings
      <4>1. step \in Nat
        BY <1>1, RelWidthNat
      <4>2. expand_up(RelWidth(i), i.hi.target_tr) = i.hi.target_tr + step
        BY DEF expand_up
      <4> HIDE DEF step
      <4> QED  BY <4>1, <4>2, BoundsAreRates, RatesAssumption DEF Smaller
    <3> QED  BY <3>3, <3>4, NoneAssumption
  <2>3. Width(i) <= WidthGoal[Phases]
    BY <1>1, <1>4, RelWidthNat
  <2> QED  BY <1>2, <1>4, <2>1, <2>2, <2>3 DEF Narrowed
<1> QED  BY <1>3, <1>4

-----------------------------------------------------------------------------
(* The initial phase.                                                      *)

\* What the assumptions say of the constants, in the form the steps below use.
LEMMA GoalFacts ==
  /\ WidthGoal[0] \in Nat \ {0}
  /\ 0 \in Durations /\ MinRate \in Rates /\ MaxRate \in Rates
  /\ Rates \subseteq Int /\ None \notin Rates
  BY WidthGoalAssumption, PhasesAssumption, RatesAssumption, NoneAssumption
  DEF Durations, Rates

\* narrow_down_ndr_and_pdr starts within the invariant.
LEMMA InitHolds == Init => IInv
  BY PhasesAssumption
  DEF Init, IInv, TypeOK, LineIsMax, SecondBelowFirst, BoundsProper, Searching,
      ResultNarrowed

\* The first trial, at the maximal rate.
LEMMA LineTrialKeeps == IInv /\ LineTrial => IInv'
<1> SUFFICES ASSUME IInv, LineTrial PROVE IInv'
  OBVIOUS
<1> USE DEF IInv
<1>1. PICK loss \in Outcomes(MaxRate, 0) : line' = Trial(MaxRate, 0, loss)
  BY DEF LineTrial
<1>2. line' \in ReceiveRateMeasurement /\ line'.target_tr = MaxRate
  BY <1>1, OutcomesAreLosses, TrialType, GoalFacts
<1>3. pc' = "mrr" /\ UNCHANGED <<phase, mrr, ndr, pdr, sut>>
  BY DEF LineTrial
<1>4. TypeOK'
  BY <1>2, <1>3 DEF TypeOK
<1> QED
  BY <1>2, <1>3, <1>4
  DEF LineIsMax, SecondBelowFirst, BoundsProper, Searching, ResultNarrowed

\* The second trial is below the maximal rate because the goal is positive.
LEMMA MrrTrialKeeps == IInv /\ MrrTrial => IInv'
<1> SUFFICES ASSUME IInv, MrrTrial PROVE IInv'
  OBVIOUS
<1> USE DEF IInv
<1> DEFINE second(r) == Larger(MinRate, Smaller(MaxRate - WidthGoal[0], r))
<1>1. PICK r \in 0 .. MaxRate :
        \E loss \in Outcomes(second(r), 0) : mrr' = Trial(second(r), 0, loss)
  BY DEF MrrTrial
<1>2. second(r) \in Rates /\ second(r) < MaxRate
  BY GoalFacts, RatesAssumption DEF Larger, Smaller, Rates
<1> HIDE DEF second
<1>3. mrr' \in ReceiveRateMeasurement /\ mrr'.target_tr = second(r)
  <2>1. PICK loss \in Outcomes(second(r), 0) : mrr' = Trial(second(r), 0, loss)
    BY <1>1
  <2>2. loss \in Losses /\ 0 \in Durations
    BY OutcomesAreLosses, GoalFacts
  <2> QED  BY <1>2, <2>1, <2>2, TrialType
<1>4. pc = "mrr" /\ pc' = "mrr2" /\ UNCHANGED <<phase, line, ndr, pdr, sut>>
  BY DEF MrrTrial
<1>5. TypeOK'
  BY <1>3, <1>4 DEF TypeOK
<1>6. LineIsMax' /\ SecondBelowFirst'
  BY <1>2, <1>3, <1>4 DEF LineIsMax, SecondBelowFirst
<1> QED  BY <1>4, <1>5, <1>6 DEF BoundsProper, Searching, ResultNarrowed

\* The two trials an interval starts from have different rates.
LEMMA StartKeeps ==
  ASSUME IInv, NEW low \in ReceiveRateMeasurement, NEW high \in ReceiveRateMeasurement,
         low.target_tr # high.target_tr, Start(low, high)
  PROVE  IInv'
<1> USE DEF IInv
<1>1. ndr' \in Intervals /\ pdr' \in Intervals
  BY IntervalProper DEF Start
<1>2. pc' = "loop" /\ UNCHANGED <<phase, line, mrr, sut>>
  BY DEF Start
<1>3. Intervals \subseteq ReceiveRateInterval
  BY DEF Intervals
<1>4. Intervals = Intervals'
  BY DEF Intervals, ReceiveRateInterval, ReceiveRateMeasurement, Width, Rates,
         Durations, Losses
<1>5. TypeOK'
  BY <1>1, <1>2, <1>3 DEF TypeOK
<1> QED
  BY <1>1, <1>2, <1>4, <1>5
  DEF LineIsMax, SecondBelowFirst, BoundsProper, ResultNarrowed

\* The intervals start from two trials at different rates, one of which may be
\* the third trial.
LEMMA Mrr2Starts ==
  ASSUME IInv, Mrr2Trial
  PROVE  \E low, high \in ReceiveRateMeasurement :
           /\ low.target_tr # high.target_tr
           /\ low \in {line, mrr} \/ (Truthful(low) /\ low.duration = 0)
           /\ high \in {line, mrr} \/ (Truthful(high) /\ high.duration = 0)
           /\ Start(low, high)
<1> DEFINE third(r) == IF mrr.loss \in OverNdr
                       THEN Smaller(mrr.target_tr - WidthGoal[0], r)
                       ELSE mrr.target_tr + WidthGoal[0]
<1>1. PICK r \in 0 .. MaxRate :
        IF MinRate < third(r) /\ third(r) < MaxRate
        THEN \E loss \in Outcomes(third(r), 0) :
               IF third(r) > mrr.target_tr
               THEN Start(mrr, Trial(third(r), 0, loss))
               ELSE Start(Trial(third(r), 0, loss), mrr)
        ELSE Start(mrr, line)
  BY DEF Mrr2Trial
<1>2. /\ pc = "mrr2"
      /\ mrr \in ReceiveRateMeasurement /\ line \in ReceiveRateMeasurement
      /\ mrr.target_tr < line.target_tr
      /\ mrr.target_tr \in Int /\ line.target_tr \in Int
  BY RatesAssumption
  DEF Mrr2Trial, IInv, TypeOK, SecondBelowFirst, ReceiveRateMeasurement, Rates
<1>3. /\ third(r) \in Int /\ third(r) # mrr.target_tr
  <2>1. /\ mrr.target_tr - WidthGoal[0] \in Int /\ mrr.target_tr + WidthGoal[0] \in Int
        /\ mrr.target_tr - WidthGoal[0] < mrr.target_tr
        /\ mrr.target_tr + WidthGoal[0] > mrr.target_tr
    BY <1>2, GoalFacts
  <2>2. /\ Smaller(mrr.target_tr - WidthGoal[0], r) \in Int
        /\ Smaller(mrr.target_tr - WidthGoal[0], r) < mrr.target_tr
    BY <1>2, <2>1, RatesAssumption DEF Smaller
  <2> QED  BY <1>2, <2>1, <2>2
<1> HIDE DEF third
<1>4. CASE ~(MinRate < third(r) /\ third(r) < MaxRate)
  <2>1. Start(mrr, line)
    BY <1>1, <1>4
  <2>2. mrr.target_tr # line.target_tr
    BY <1>2
  <2> QED  BY <1>2, <2>1, <2>2
<1>5. CASE MinRate < third(r) /\ third(r) < MaxRate
  <2>1. third(r) \in Rates
    BY <1>3, <1>5, RatesAssumption DEF Rates
  <2>2. PICK loss \in Outcomes(third(r), 0) :
          IF third(r) > mrr.target_tr
          THEN Start(mrr, Trial(third(r), 0, loss))
          ELSE Start(Trial(third(r), 0, loss), mrr)
    BY <1>1, <1>5
  <2>3. /\ Trial(third(r), 0, loss) \in ReceiveRateMeasurement
        /\ Trial(third(r), 0, loss).target_tr # mrr.target_tr
        /\ Truthful(Trial(third(r), 0, loss))
    BY <1>3, <2>1, OutcomesAreLosses, TrialType, TrialTruthful, GoalFacts
  <2>5. Trial(third(r), 0, loss).duration = 0
    BY DEF Trial
  <2>4. Start(mrr, Trial(third(r), 0, loss)) \/ Start(Trial(third(r), 0, loss), mrr)
    BY <2>2
  <2> QED  BY <1>2, <2>3, <2>4, <2>5
<1> QED  BY <1>4, <1>5

\* The third trial and the starting intervals made of the three.
LEMMA Mrr2TrialKeeps == IInv /\ Mrr2Trial => IInv'
  BY Mrr2Starts, StartKeeps

-----------------------------------------------------------------------------
(* The loop of a phase.                                                    *)

\* One trial at an allowed rate keeps both intervals proper.
LEMMA MeasureKeeps ==
  ASSUME IInv, pc = "loop", NEW tr \in Rates, Measure(tr)
  PROVE  IInv'
<1> USE DEF IInv
<1>1. PICK loss \in Outcomes(tr, phase) :
        /\ ndr' = _new_interval(ndr, Trial(tr, phase, loss), OverNdr)
        /\ pdr' = _new_interval(pdr, Trial(tr, phase, loss), OverPdr)
  BY DEF Measure
<1>2. Trial(tr, phase, loss) \in ReceiveRateMeasurement
  BY OutcomesAreLosses, TrialType DEF TypeOK, Durations
<1>3. ndr \in Intervals /\ pdr \in Intervals
  BY DEF BoundsProper, Searching
<1>4. ndr' \in Intervals /\ pdr' \in Intervals
  BY <1>1, <1>2, <1>3, NewIntervalProper
<1>5. UNCHANGED <<pc, phase, line, mrr, sut>>
  BY DEF Measure
<1>6. Intervals \subseteq ReceiveRateInterval
  BY DEF Intervals
<1>7. Intervals = Intervals'
  BY DEF Intervals, ReceiveRateInterval, ReceiveRateMeasurement, Width, Rates,
         Durations, Losses
<1>8. TypeOK'
  BY <1>4, <1>5, <1>6 DEF TypeOK
<1> QED
  BY <1>4, <1>5, <1>7, <1>8
  DEF LineIsMax, SecondBelowFirst, BoundsProper, ResultNarrowed

\* What the guards of PhaseDone say about one interval.
LEMMA PhaseDoneNarrowed ==
  ASSUME IInv, PhaseDone, phase = Phases
  PROVE  Narrowed(ndr, OverNdr) /\ Narrowed(pdr, OverPdr)
<1>1. ndr \in Intervals /\ pdr \in Intervals /\ phase \in 0 .. Phases
  BY DEF PhaseDone, IInv, BoundsProper, Searching, TypeOK
<1>2. /\ LowExternal(ndr, OverNdr) = None /\ HighExternal(ndr, OverNdr) = None
      /\ LowExternal(pdr, OverPdr) = None /\ HighExternal(pdr, OverPdr) = None
  BY DEF PhaseDone, _ndrpdr_loss_fraction, FirstOf
<1>3. ~NdrWide /\ ~PdrWide
  <2>1. NdrWide => half_step_up(RelWidth(ndr), ndr.lo.target_tr) \in Rates
    BY <1>1, HalfStepInside DEF NdrWide
  <2>2. PdrWide => half_step_up(RelWidth(pdr), pdr.lo.target_tr) \in Rates
    BY <1>1, HalfStepInside DEF PdrWide
  <2>3. _ndrpdr_width_goal = None
    BY DEF PhaseDone
  <2> QED  BY <2>1, <2>2, <2>3, GoalFacts DEF _ndrpdr_width_goal
<1>4. /\ ~(ndr.lo.duration < phase) /\ ~(pdr.lo.duration < phase)
      /\ ~(ndr.hi.duration < phase) \/ GivenUp(ndr, OverNdr)
      /\ ~(pdr.hi.duration < phase) \/ GivenUp(pdr, OverPdr)
  <2>1. _ndrpdr_duration = None
    BY DEF PhaseDone
  <2>2. None \notin {ndr.lo.target_tr, pdr.lo.target_tr, ndr.hi.target_tr, pdr.hi.target_tr}
    BY <1>1, BoundsAreRates
  <2> QED  BY <2>1, <2>2 DEF _ndrpdr_duration
<1>5. /\ ndr.lo.duration >= phase /\ pdr.lo.duration >= phase
      /\ ndr.hi.duration >= phase \/ GivenUp(ndr, OverNdr)
      /\ pdr.hi.duration >= phase \/ GivenUp(pdr, OverPdr)
  <2>1. /\ ndr.lo.duration \in Int /\ pdr.lo.duration \in Int
        /\ ndr.hi.duration \in Int /\ pdr.hi.duration \in Int
        /\ phase \in Int
    BY <1>1, BoundsAreRates, PhasesAssumption DEF Durations
  <2> QED  BY <1>4, <2>1
<1>6. Narrowed(ndr, OverNdr)
  BY <1>1, <1>2, <1>3, <1>5, NothingLeftNarrowed DEF NdrWide
<1>7. Narrowed(pdr, OverPdr)
  BY <1>1, <1>2, <1>3, <1>5, NothingLeftNarrowed DEF PdrWide
<1> QED  BY <1>6, <1>7

\* The end of a phase: the next one begins, or the result is returned.
LEMMA PhaseDoneKeeps == IInv /\ PhaseDone => IInv'
<1> SUFFICES ASSUME IInv, PhaseDone PROVE IInv'
  OBVIOUS
<1> USE DEF IInv
<1>1. UNCHANGED <<line, mrr, ndr, pdr, sut>> /\ pc = "loop"
  BY DEF PhaseDone
<1>2. Intervals = Intervals'
  BY DEF Intervals, ReceiveRateInterval, ReceiveRateMeasurement, Width, Rates,
         Durations, Losses
<1>3. ndr \in Intervals /\ pdr \in Intervals
  BY <1>1 DEF BoundsProper, Searching
<1>4. CASE phase < Phases
  <2>1. phase' = phase + 1 /\ pc' = "loop"
    BY <1>1, <1>4 DEF PhaseDone
  <2>2. phase' \in 0 .. Phases
    BY <1>4, <2>1, PhasesAssumption DEF TypeOK
  <2>3. TypeOK'
    BY <1>1, <2>1, <2>2 DEF TypeOK
  <2> QED
    BY <1>1, <1>2, <1>3, <2>1, <2>3
    DEF LineIsMax, SecondBelowFirst, BoundsProper, ResultNarrowed
<1>5. CASE ~(phase < Phases)
  <2>1. phase = Phases
    BY <1>5, PhasesAssumption DEF TypeOK
  <2>2. pc' = "done" /\ UNCHANGED phase
    BY <1>5 DEF PhaseDone
  <2>3. TypeOK'
    BY <1>1, <2>2 DEF TypeOK
  <2>4. Narrowed(ndr, OverNdr) /\ Narrowed(pdr, OverPdr)
    BY <2>1, PhaseDoneNarrowed
  <2>5. ResultNarrowed'
    BY <1>1, <2>4 DEF ResultNarrowed, Narrowed, GivenUp, Width, OverNdr, OverPdr
  <2> QED
    BY <1>1, <1>2, <1>3, <2>2, <2>3, <2>5
    DEF LineIsMax, SecondBelowFirst, BoundsProper
<1> QED  BY <1>4, <1>5

\* The timeout of the search.
LEMMA TimeOutKeeps == IInv /\ TimeOut => IInv'
<1> SUFFICES ASSUME IInv, TimeOut PROVE IInv'
  OBVIOUS
<1> USE DEF IInv
<1>1. UNCHANGED <<phase, line, mrr, ndr, pdr, sut>> /\ pc = "loop" /\ pc' = "timeout"
  BY DEF TimeOut
<1>2. Intervals = Intervals'
  BY DEF Intervals, ReceiveRateInterval, ReceiveRateMeasurement, Width, Rates,
         Durations, Losses
<1>3. TypeOK'
  BY <1>1 DEF TypeOK
<1> QED
  BY <1>1, <1>2, <1>3
  DEF LineIsMax, SecondBelowFirst, BoundsProper, Searching, ResultNarrowed

\* No step of the search breaks the invariant.
LEMMA StepKeeps == IInv /\ [Next]_vars => IInv'
<1> SUFFICES ASSUME IInv, [Next]_vars PROVE IInv'
  OBVIOUS
<1>1. pc = "loop" => /\ ndr \in Intervals /\ pdr \in Intervals
                     /\ phase \in 0 .. Phases
  BY DEF IInv, BoundsProper, Searching, TypeOK
<1>2. CASE LossFractionTrial
  <2>1. pc = "loop" /\ Measure(_ndrpdr_loss_fraction) /\ _ndrpdr_loss_fraction # None
    BY <1>2 DEF LossFractionTrial
  <2>2. _ndrpdr_loss_fraction \in Rates
    BY <1>1, <2>1, LossFractionRate
  <2> QED  BY <2>1, <2>2, MeasureKeeps
<1>3. CASE WidthGoalTrial
  <2>1. pc = "loop" /\ Measure(_ndrpdr_width_goal) /\ _ndrpdr_width_goal # None
    BY <1>3 DEF WidthGoalTrial
  <2>2. _ndrpdr_width_goal \in Rates
    BY <1>1, <2>1, WidthGoalRate
  <2> QED  BY <2>1, <2>2, MeasureKeeps
<1>4. CASE DurationTrial
  <2>1. pc = "loop" /\ Measure(_ndrpdr_duration) /\ _ndrpdr_duration # None
    BY <1>4 DEF DurationTrial
  <2>2. _ndrpdr_duration \in Rates
    BY <1>1, <2>1, DurationRate
  <2> QED  BY <2>1, <2>2, MeasureKeeps
<1>5. CASE UNCHANGED vars
  BY <1>5
  DEF vars, IInv, TypeOK, LineIsMax, SecondBelowFirst, BoundsProper, Searching,
      ResultNarrowed, Narrowed, GivenUp, Width, Intervals, ReceiveRateInterval,
      ReceiveRateMeasurement, Rates, Durations, Losses, OverNdr, OverPdr
<1> QED
  BY <1>2, <1>3, <1>4, <1>5, LineTrialKeeps, MrrTrialKeeps, Mrr2TrialKeeps,
     PhaseDoneKeeps, TimeOutKeeps
  DEF Next, Search

-----------------------------------------------------------------------------
(* The theorems.                                                           *)

\* The inductive invariant holds in every reachable state of the search.
THEOREM Invariant == Spec => []IInv
  BY InitHolds, StepKeeps, PTL DEF Spec

\* No trial leaves the allowed rates: what _ndrpdr_loss_fraction,
\* _ndrpdr_width_goal and _ndrpdr_duration return is within the minimal and the
\* maximal transmit rate, and the search state keeps its types.
THEOREM TypeCorrect == Spec => []TypeOK
<1>1. IInv => TypeOK
  BY DEF IInv
<1> QED  BY Invariant, <1>1, PTL

\* Whatever the trials report, _new_interval keeps the lower bound of both
\* intervals strictly below the upper one.
THEOREM IntervalsProper == Spec => []ProperIntervals
<1>1. IInv => ProperIntervals
  BY DEF IInv, BoundsProper, Searching, Intervals, ProperIntervals
<1> QED  BY Invariant, <1>1, PTL

\* A search that returns has done what narrow_down_ndr_and_pdr promises, even
\* on a system under test that behaves differently in every trial.
THEOREM SearchNarrows == Spec => []ResultNarrowed
<1>1. IInv => ResultNarrowed
  BY DEF IInv
<1> QED  BY Invariant, <1>1, PTL

-----------------------------------------------------------------------------
(* What the search finds on a system that is not noisy.  ResultBrackets    *)
(* needs to know that a bound carries what its trial reported, for the     *)
(* rate and the duration stored with it (Measured).  NdrBelowPdr is far    *)
(* from inductive: an external step of one interval could jump over a      *)
(* bound of the other.  It does not because an invalid bound the intervals *)
(* have in common is moved for both of them at once (InOrder).             *)

SutType == sut \in Systems \cup {None}

Measured ==
  /\ pc \in {"mrr", "mrr2"} => Truthful(line)
  /\ pc = "mrr2" => Truthful(mrr)
  /\ Searching => /\ Truthful(ndr.lo) /\ Truthful(ndr.hi)
                  /\ Truthful(pdr.lo) /\ Truthful(pdr.hi)

\* The NDR interval (a, b) and the PDR interval (c, d) of a system whose rates
\* are n and p.  A lower bound with too many losses for the PDR, and an upper
\* bound without any, is still shared.  The upper bounds are ordered too, until
\* the minimal rate has losses and the NDR interval is no longer narrowed.
InOrder(a, b, c, d, n, p) ==
  /\ a <= c
  /\ c > p => c = a
  /\ b <= n => c = a /\ d = b
  /\ (a = MinRate /\ a > n) \/ b <= d

Ordered ==
  Searching /\ Steady =>
    InOrder(ndr.lo.target_tr, ndr.hi.target_tr, pdr.lo.target_tr, pdr.hi.target_tr,
            sut[0][1], sut[0][2])

SInv == SutType /\ Measured /\ Ordered

-----------------------------------------------------------------------------
(* Rates of an updated interval.                                           *)

\* _new_interval on the rates alone, for trials valid up to rate q.
LoRate(a, b, tr, q) ==
  IF a > q THEN IF tr < a THEN tr ELSE a
  ELSE IF tr > b THEN IF b <= q THEN b ELSE a
  ELSE IF a < tr /\ tr < b /\ tr <= q THEN tr ELSE a

HiRate(a, b, tr, q) ==
  IF a > q THEN IF tr < a THEN a ELSE b
  ELSE IF tr > b THEN IF b <= q THEN tr ELSE b
  ELSE IF a < tr /\ tr < b /\ tr > q THEN tr ELSE b

\* The constructor of an interval whose arguments are in order keeps them.
LEMMA IntervalSorted ==
  ASSUME NEW a \in ReceiveRateMeasurement, NEW b \in ReceiveRateMeasurement,
         a.target_tr < b.target_tr
  PROVE  /\ Interval(a, b) = [lo |-> a, hi |-> b]
         /\ Interval(b, a) = [lo |-> a, hi |-> b]
<1>1. a.target_tr \in Int /\ b.target_tr \in Int
  BY RatesAssumption DEF ReceiveRateMeasurement, Rates
<1> QED  BY <1>1 DEF Interval

\* The bounds of an updated interval are old ones or the new measurement.
LEMMA NewIntervalBounds ==
  ASSUME NEW i, NEW m, NEW over
  PROVE  /\ _new_interval(i, m, over) = i \/ _new_interval(i, m, over).lo \in {i.lo, i.hi, m}
         /\ _new_interval(i, m, over) = i \/ _new_interval(i, m, over).hi \in {i.lo, i.hi, m}
<1>1. _new_interval(i, m, over) \in
        {i, Interval(m, i.lo), Interval(m, i.hi), Interval(i.hi, m), Interval(i.lo, m)}
  BY DEF _new_interval
<1>2. ASSUME NEW x, NEW y
      PROVE  Interval(x, y).lo \in {x, y} /\ Interval(x, y).hi \in {x, y}
  BY DEF Interval
<1> QED  BY <1>1, <1>2

\* On a system with a fixed valid rate, _new_interval computes these rates.
LEMMA NewIntervalRates ==
  ASSUME NEW i \in Intervals, NEW m \in ReceiveRateMeasurement, NEW over, NEW q \in Int,
         i.lo.loss \in over <=> i.lo.target_tr > q,
         i.hi.loss \in over <=> i.hi.target_tr > q,
         m.loss \in over <=> m.target_tr > q
  PROVE  LET r == _new_interval(i, m, over)
             a == i.lo.target_tr
             b == i.hi.target_tr
         IN  /\ r.lo.target_tr = LoRate(a, b, m.target_tr, q)
             /\ r.hi.target_tr = HiRate(a, b, m.target_tr, q)
<1> DEFINE r == _new_interval(i, m, over)
           a == i.lo.target_tr
           b == i.hi.target_tr
           tr == m.target_tr
<1>1. /\ i.lo \in ReceiveRateMeasurement /\ i.hi \in ReceiveRateMeasurement
      /\ a \in Int /\ b \in Int /\ tr \in Int /\ a < b
  BY RatesAssumption
  DEF Intervals, ReceiveRateInterval, ReceiveRateMeasurement, Rates, Width
<1>2. CASE tr = a
  <2>1. r = [lo |-> m, hi |-> i.hi]
    BY <1>1, <1>2, IntervalSorted DEF _new_interval
  <2> QED  BY <1>1, <1>2, <2>1 DEF LoRate, HiRate
<1>3. CASE tr = b
  <2>1. r = [lo |-> i.lo, hi |-> m]
    BY <1>1, <1>3, IntervalSorted DEF _new_interval
  <2> QED  BY <1>1, <1>3, <2>1 DEF LoRate, HiRate
<1>4. CASE tr < a
  <2>1. Interval(m, i.lo) = [lo |-> m, hi |-> i.lo]
    BY <1>1, <1>4, IntervalSorted
  <2>2. CASE a > q
    <3>1. r = [lo |-> m, hi |-> i.lo]
      BY <1>1, <1>4, <2>1, <2>2 DEF _new_interval
    <3> QED  BY <1>1, <1>4, <2>2, <3>1 DEF LoRate, HiRate
  <2>3. CASE ~(a > q)
    <3>1. r = i
      BY <1>1, <1>4, <2>3 DEF _new_interval
    <3> QED  BY <1>1, <1>4, <2>3, <3>1 DEF LoRate, HiRate
  <2> QED  BY <2>2, <2>3
<1>5. CASE tr > b
  <2>1. Interval(i.hi, m) = [lo |-> i.hi, hi |-> m]
    BY <1>1, <1>5, IntervalSorted
  <2>2. CASE a <= q /\ b <= q
    <3>1. r = [lo |-> i.hi, hi |-> m]
      BY <1>1, <1>5, <2>1, <2>2 DEF _new_interval
    <3> QED  BY <1>1, <1>5, <2>2, <3>1 DEF LoRate, HiRate
  <2>3. CASE ~(a <= q /\ b <= q)
    <3>1. r = i
      BY <1>1, <1>5, <2>3 DEF _new_interval
    <3> QED  BY <1>1, <1>5, <2>3, <3>1 DEF LoRate, HiRate
  <2> QED  BY <2>2, <2>3
<1>6. CASE a < tr /\ tr < b
  <2>1. /\ Interval(i.lo, m) = [lo |-> i.lo, hi |-> m]
        /\ Interval(m, i.hi) = [lo |-> m, hi |-> i.hi]
    BY <1>1, <1>6, IntervalSorted
  <2>2. CASE a > q
    <3>1. r = i
      BY <1>1, <1>6, <2>2 DEF _new_interval
    <3> QED  BY <1>1, <1>6, <2>2, <3>1 DEF LoRate, HiRate
  <2>3. CASE a <= q /\ tr > q
    <3>1. r = [lo |-> i.lo, hi |-> m]
      BY <1>1, <1>6, <2>1, <2>3 DEF _new_interval
    <3> QED  BY <1>1, <1>6, <2>3, <3>1 DEF LoRate, HiRate
  <2>4. CASE a <= q /\ tr <= q
    <3>1. r = [lo |-> m, hi |-> i.hi]
      BY <1>1, <1>6, <2>1, <2>4 DEF _new_interval
    <3> QED  BY <1>1, <1>6, <2>4, <3>1 DEF LoRate, HiRate
  <2> QED  BY <1>1, <2>2, <2>3, <2>4
<1> QED  BY <1>1, <1>2, <1>3, <1>4, <1>5, <1>6

\* One trial of both intervals keeps their order, if an invalid lower bound of
\* the NDR interval is moved before anything else is measured.
LEMMA OrderKept ==
  ASSUME NEW a \in Int, NEW b \in Int, NEW c \in Int, NEW d \in Int,
         NEW n \in Int, NEW p \in Int, NEW tr \in Int,
         a < b, c < d, n <= p,
         MinRate <= a, MinRate <= c, MinRate <= tr,
         InOrder(a, b, c, d, n, p),
         a > n /\ a > MinRate => tr < a
  PROVE  InOrder(LoRate(a, b, tr, n), HiRate(a, b, tr, n),
                 LoRate(c, d, tr, p), HiRate(c, d, tr, p), n, p)
<1>0. MinRate \in Int
  BY RatesAssumption
<1>1. CASE a > n /\ c > p
  BY <1>0, <1>1 DEF InOrder, LoRate, HiRate
<1>2. CASE a > n /\ c <= p
  BY <1>0, <1>2 DEF InOrder, LoRate, HiRate
<1>3. CASE a <= n /\ c > p
  BY <1>0, <1>3 DEF InOrder, LoRate, HiRate
<1>4. CASE a <= n /\ c <= p
  <2>1. CASE b <= n
    BY <1>0, <1>4, <2>1 DEF InOrder, LoRate, HiRate
  <2>2. CASE b > n
    BY <1>0, <1>4, <2>2 DEF InOrder, LoRate, HiRate
  <2> QED  BY <2>1, <2>2
<1> QED  BY <1>1, <1>2, <1>3, <1>4

-----------------------------------------------------------------------------
(* What the trials of a system that is not noisy say about its rates.      *)

\* The rates of a system are integers, the loss-free one not above the other.
LEMMA SystemRates ==
  ASSUME NEW s \in Systems, NEW k \in Durations
  PROVE  s[k][1] \in Int /\ s[k][2] \in Int /\ s[k][1] <= s[k][2]
<1>1. s \in [Durations -> (MinRate - 1 .. MaxRate) \X (MinRate - 1 .. MaxRate)]
  BY DEF Systems
<1>2. s[k] \in (MinRate - 1 .. MaxRate) \X (MinRate - 1 .. MaxRate)
  BY <1>1
<1>3. s[k][1] \in MinRate - 1 .. MaxRate /\ s[k][2] \in MinRate - 1 .. MaxRate
  BY <1>2
<1>4. s[k][1] <= s[k][2]
  BY DEF Systems
<1> QED  BY <1>3, <1>4, RatesAssumption

\* A trial has losses above a ratio exactly if its rate is above what the system
\* forwards with at most that ratio, in trials of that duration.
LEMMA LossTellsRate ==
  ASSUME SutType, sut # None, NEW m \in ReceiveRateMeasurement, Truthful(m)
  PROVE  /\ m.loss \in OverNdr <=> m.target_tr > sut[m.duration][1]
         /\ m.loss \in OverPdr <=> m.target_tr > sut[m.duration][2]
<1> DEFINE n == sut[m.duration][1]
           p == sut[m.duration][2]
<1>1. n \in Int /\ p \in Int /\ n <= p
  BY SystemRates DEF SutType, ReceiveRateMeasurement
<1>2. m.target_tr \in Int
  BY RatesAssumption DEF ReceiveRateMeasurement, Rates
<1>3. m.loss = IF m.target_tr <= n THEN "zero" ELSE IF m.target_tr <= p THEN "low" ELSE "high"
  BY DEF Truthful, Outcomes
<1> HIDE DEF n, p
<1>4. /\ m.loss \in OverNdr <=> m.target_tr > n
      /\ m.loss \in OverPdr <=> m.target_tr > p
  BY <1>1, <1>2, <1>3 DEF OverNdr, OverPdr
<1> QED  BY <1>4 DEF n, p

-----------------------------------------------------------------------------
(* The initial phase of the search on such a system.                       *)

\* The search starts with truthful measurements: none.
LEMMA SInit == Init => SInv
  BY DEF Init, SInv, SutType, Measured, Ordered, Searching

\* The first trial is truthful.
LEMMA SLineTrial == SInv /\ LineTrial => SInv'
<1> SUFFICES ASSUME SInv, LineTrial PROVE SInv'
  OBVIOUS
<1>1. PICK loss \in Outcomes(MaxRate, 0) : line' = Trial(MaxRate, 0, loss)
  BY DEF LineTrial
<1>2. Truthful(line')
  BY <1>1, TrialTruthful
<1>3. pc' = "mrr" /\ UNCHANGED sut
  BY DEF LineTrial
<1>4. SutType' /\ Ordered'
  BY <1>3 DEF SInv, SutType, Ordered, Searching, Systems
<1>5. Measured'
  BY <1>2, <1>3 DEF Measured, Searching, Truthful, Outcomes
<1> QED  BY <1>4, <1>5 DEF SInv

\* So is the second one, at the rate the first one received.
LEMMA SMrrTrial == SInv /\ MrrTrial => SInv'
<1> SUFFICES ASSUME SInv, MrrTrial PROVE SInv'
  OBVIOUS
<1>1. PICK tr : \E loss \in Outcomes(tr, 0) : mrr' = Trial(tr, 0, loss)
  BY DEF MrrTrial
<1>2. Truthful(mrr')
  BY <1>1, TrialTruthful
<1>3. pc = "mrr" /\ pc' = "mrr2" /\ UNCHANGED <<line, sut>>
  BY DEF MrrTrial
<1>4. SutType' /\ Ordered'
  BY <1>3 DEF SInv, SutType, Ordered, Searching, Systems
<1>5. Measured'
  BY <1>2, <1>3 DEF SInv, Measured, Searching, Truthful, Outcomes
<1> QED  BY <1>4, <1>5 DEF SInv

\* Both intervals start from the same two trials.
LEMMA SStart ==
  ASSUME SInv, NEW low \in ReceiveRateMeasurement, NEW high \in ReceiveRateMeasurement,
         low.target_tr # high.target_tr, Truthful(low), Truthful(high), Start(low, high)
  PROVE  SInv'
<1>1. pc' = "loop" /\ UNCHANGED sut /\ ndr' = Interval(low, high) /\ pdr' = ndr'
  BY DEF Start
<1>2. SutType'
  BY <1>1 DEF SInv, SutType, Systems
<1>3. ndr'.lo \in {low, high} /\ ndr'.hi \in {low, high}
  BY <1>1 DEF Interval
<1>4. Measured'
  BY <1>1, <1>3 DEF Measured, Truthful, Outcomes
<1>5. ndr' \in Intervals
  BY <1>1, IntervalProper
<1>6. Ordered'
  BY <1>1, <1>5, BoundsAreRates DEF Ordered, InOrder
<1> QED  BY <1>2, <1>4, <1>6 DEF SInv

\* And the third; the starting intervals of NDR and PDR are in order.
LEMMA SMrr2Trial == IInv /\ SInv /\ Mrr2Trial => SInv'
<1> SUFFICES ASSUME IInv, SInv, Mrr2Trial PROVE SInv'
  OBVIOUS
<1>1. PICK low \in ReceiveRateMeasurement, high \in ReceiveRateMeasurement :
        /\ low.target_tr # high.target_tr
        /\ low \in {line, mrr} \/ Truthful(low)
        /\ high \in {line, mrr} \/ Truthful(high)
        /\ Start(low, high)
  <2>1. PICK low \in ReceiveRateMeasurement, high \in ReceiveRateMeasurement :
          /\ low.target_tr # high.target_tr
          /\ low \in {line, mrr} \/ (Truthful(low) /\ low.duration = 0)
          /\ high \in {line, mrr} \/ (Truthful(high) /\ high.duration = 0)
          /\ Start(low, high)
    BY Mrr2Starts
  <2> QED  BY <2>1
<1>2. Truthful(line) /\ Truthful(mrr)
  BY DEF Mrr2Trial, SInv, Measured
<1> QED  BY <1>1, <1>2, SStart

-----------------------------------------------------------------------------
(* The loop of a phase on such a system.                                   *)

\* A product of positive numbers is positive: external steps always move a bound.
LEMMA ProductPositive ==
  ASSUME NEW a \in Nat \ {0}, NEW b \in Nat \ {0} PROVE a * b > 0 /\ a * b \in Nat
  OBVIOUS

\* An invalid lower bound above the minimal rate is moved strictly down.
LEMMA LowExternalMoves ==
  ASSUME phase \in 0 .. Phases, NEW i \in Intervals, NEW over,
         i.lo.loss \in over, i.lo.target_tr > MinRate
  PROVE  LowExternal(i, over) \in Rates /\ LowExternal(i, over) < i.lo.target_tr
<1> DEFINE step == RelWidth(i) * 2 ^ Doublings
<1>1. RelWidth(i) \in Nat \ {0}
  BY RelWidthNat, BoundsAreRates
<1>2. step \in Nat /\ step > 0
  BY <1>1, DoublingsAssumption, ProductPositive
<1>3. LowExternal(i, over) = Larger(MinRate, i.lo.target_tr - step)
  BY DEF LowExternal, expand_down
<1> HIDE DEF step
<1> QED  BY <1>2, <1>3, BoundsAreRates, RatesAssumption DEF Larger, Rates

\* Nothing is measured before such a bound of the NDR interval is moved.
LEMMA NdrBoundMovesFirst ==
  ASSUME IInv, pc = "loop", NEW tr,
         \/ tr = _ndrpdr_loss_fraction
         \/ _ndrpdr_loss_fraction = None,
         ndr.lo.loss \in OverNdr, ndr.lo.target_tr > MinRate
  PROVE  _ndrpdr_loss_fraction # None /\ tr < ndr.lo.target_tr
<1>1. ndr \in Intervals /\ phase \in 0 .. Phases
  BY DEF IInv, BoundsProper, Searching, TypeOK
<1>2. LowExternal(ndr, OverNdr) \in Rates /\ LowExternal(ndr, OverNdr) < ndr.lo.target_tr
  BY <1>1, LowExternalMoves
<1>3. _ndrpdr_loss_fraction = LowExternal(ndr, OverNdr)
  BY <1>2, GoalFacts DEF _ndrpdr_loss_fraction, FirstOf
<1> QED  BY <1>2, <1>3, GoalFacts

\* A trial keeps every bound truthful and the two intervals in order.
LEMMA SMeasure ==
  ASSUME IInv, SInv, pc = "loop", NEW tr \in Rates, Measure(tr),
         \/ tr = _ndrpdr_loss_fraction
         \/ _ndrpdr_loss_fraction = None
  PROVE  SInv'
<1>1. PICK loss \in Outcomes(tr, phase) :
        /\ ndr' = _new_interval(ndr, Trial(tr, phase, loss), OverNdr)
        /\ pdr' = _new_interval(pdr, Trial(tr, phase, loss), OverPdr)
  BY DEF Measure
<1> DEFINE m == Trial(tr, phase, loss)
<1>2. /\ m \in ReceiveRateMeasurement /\ m.target_tr = tr
      /\ Truthful(m)
  BY OutcomesAreLosses, TrialType, TrialTruthful DEF IInv, TypeOK, Durations
<1> HIDE DEF m
<1>3. /\ ndr' = _new_interval(ndr, m, OverNdr)
      /\ pdr' = _new_interval(pdr, m, OverPdr)
  BY <1>1 DEF m
<1>4. ndr \in Intervals /\ pdr \in Intervals
  BY DEF IInv, BoundsProper, Searching
<1>5. UNCHANGED <<pc, sut>>
  BY DEF Measure
<1>6. SutType'
  BY <1>5 DEF SInv, SutType, Systems
<1>7. /\ Truthful(ndr.lo) /\ Truthful(ndr.hi)
      /\ Truthful(pdr.lo) /\ Truthful(pdr.hi)
  BY DEF SInv, Measured, Searching
<1>8. Measured'
  <2>1. /\ Truthful(ndr'.lo) /\ Truthful(ndr'.hi)
        /\ Truthful(pdr'.lo) /\ Truthful(pdr'.hi)
    BY <1>2, <1>3, <1>7, NewIntervalBounds
  <2> QED  BY <1>5, <2>1 DEF Measured, Searching, Truthful, Outcomes
<1>9. Ordered'
  <2>1. SUFFICES ASSUME Steady'
                 PROVE  InOrder(ndr'.lo.target_tr, ndr'.hi.target_tr,
                                pdr'.lo.target_tr, pdr'.hi.target_tr, sut[0][1], sut[0][2])
    BY <1>5 DEF Ordered, InOrder
  <2>2. sut # None /\ \A k \in Durations : sut[k] = sut[0]
    BY <1>5, <2>1 DEF Steady
  <2> DEFINE n == sut[0][1]
             p == sut[0][2]
  <2>3. n \in Int /\ p \in Int /\ n <= p
    BY <2>2, SystemRates, GoalFacts DEF SInv, SutType
  <2>4. ASSUME NEW x \in ReceiveRateMeasurement, Truthful(x)
        PROVE  (x.loss \in OverNdr <=> x.target_tr > n) /\ (x.loss \in OverPdr <=> x.target_tr > p)
    <3>1. x.duration \in Durations
      BY DEF ReceiveRateMeasurement
    <3>2. sut[x.duration] = sut[0]
      BY <2>2, <3>1
    <3> QED  BY <2>2, <2>4, <3>2, LossTellsRate DEF SInv
  <2>5. InOrder(ndr.lo.target_tr, ndr.hi.target_tr, pdr.lo.target_tr, pdr.hi.target_tr, n, p)
    BY <2>2 DEF SInv, Ordered, Steady, Searching
  <2> HIDE DEF n, p
  <2>6. /\ ndr.lo \in ReceiveRateMeasurement /\ ndr.hi \in ReceiveRateMeasurement
        /\ pdr.lo \in ReceiveRateMeasurement /\ pdr.hi \in ReceiveRateMeasurement
    BY <1>4 DEF Intervals, ReceiveRateInterval
  <2>7. /\ ndr'.lo.target_tr = LoRate(ndr.lo.target_tr, ndr.hi.target_tr, tr, n)
        /\ ndr'.hi.target_tr = HiRate(ndr.lo.target_tr, ndr.hi.target_tr, tr, n)
    BY <1>2, <1>3, <1>4, <1>7, <2>3, <2>4, <2>6, NewIntervalRates
  <2>8. /\ pdr'.lo.target_tr = LoRate(pdr.lo.target_tr, pdr.hi.target_tr, tr, p)
        /\ pdr'.hi.target_tr = HiRate(pdr.lo.target_tr, pdr.hi.target_tr, tr, p)
    BY <1>2, <1>3, <1>4, <1>7, <2>3, <2>4, <2>6, NewIntervalRates
  <2>9. ndr.lo.target_tr > n /\ ndr.lo.target_tr > MinRate => tr < ndr.lo.target_tr
    BY <1>7, <2>4, <2>6, NdrBoundMovesFirst
  <2>10. /\ ndr.lo.target_tr \in Int /\ ndr.hi.target_tr \in Int
         /\ pdr.lo.target_tr \in Int /\ pdr.hi.target_tr \in Int /\ tr \in Int
         /\ ndr.lo.target_tr < ndr.hi.target_tr /\ pdr.lo.target_tr < pdr.hi.target_tr
         /\ MinRate <= ndr.lo.target_tr /\ MinRate <= pdr.lo.target_tr /\ MinRate <= tr
    BY <1>4, BoundsAreRates, RatesAssumption DEF Rates
  <2>11. InOrder(ndr'.lo.target_tr, ndr'.hi.target_tr, pdr'.lo.target_tr, pdr'.hi.target_tr, n, p)
    <3> DEFINE a == ndr.lo.target_tr
               b == ndr.hi.target_tr
               c == pdr.lo.target_tr
               d == pdr.hi.target_tr
    <3>1. InOrder(a, b, c, d, n, p) /\ (a > n /\ a > MinRate => tr < a)
      BY <2>5, <2>9
    <3>2. /\ a \in Int /\ b \in Int /\ c \in Int /\ d \in Int /\ tr \in Int
          /\ a < b /\ c < d /\ MinRate <= a /\ MinRate <= c /\ MinRate <= tr
      BY <2>10
    <3> HIDE DEF a, b, c, d
    <3>3. InOrder(LoRate(a, b, tr, n), HiRate(a, b, tr, n),
                  LoRate(c, d, tr, p), HiRate(c, d, tr, p), n, p)
      BY <2>3, <3>1, <3>2, OrderKept
    <3> QED  BY <2>7, <2>8, <3>3 DEF a, b, c, d
  <2> QED  BY <2>11 DEF n, p
<1> QED  BY <1>6, <1>8, <1>9 DEF SInv

\* The other steps of the loop leave the measurements alone.
LEMMA SNoTrial ==
  ASSUME SInv, UNCHANGED <<line, mrr, ndr, pdr, sut>>,
         \/ pc = "loop" /\ pc' \in {"loop", "done", "timeout"}
         \/ pc' = pc
  PROVE  SInv'
<1>1. SutType'
  BY DEF SInv, SutType, Systems
<1>2. Measured'
  BY DEF SInv, Measured, Searching, Truthful, Outcomes
<1>3. Ordered'
  BY DEF SInv, Ordered, Searching, Steady, InOrder
<1> QED  BY <1>1, <1>2, <1>3 DEF SInv

\* No step of the search on a steady system breaks the order of the two intervals.
LEMMA SStep == IInv /\ SInv /\ [Next]_vars => SInv'
<1> SUFFICES ASSUME IInv, SInv, [Next]_vars PROVE SInv'
  OBVIOUS
<1>1. pc = "loop" => /\ ndr \in Intervals /\ pdr \in Intervals
                     /\ phase \in 0 .. Phases
  BY DEF IInv, BoundsProper, Searching, TypeOK
<1>2. CASE LossFractionTrial
  <2>1. pc = "loop" /\ Measure(_ndrpdr_loss_fraction) /\ _ndrpdr_loss_fraction # None
    BY <1>2 DEF LossFractionTrial
  <2>2. _ndrpdr_loss_fraction \in Rates
    BY <1>1, <2>1, LossFractionRate
  <2> QED  BY <2>1, <2>2, SMeasure
<1>3. CASE WidthGoalTrial
  <2>1. /\ pc = "loop" /\ Measure(_ndrpdr_width_goal) /\ _ndrpdr_width_goal # None
        /\ _ndrpdr_loss_fraction = None
    BY <1>3 DEF WidthGoalTrial
  <2>2. _ndrpdr_width_goal \in Rates
    BY <1>1, <2>1, WidthGoalRate
  <2> QED  BY <2>1, <2>2, SMeasure
<1>4. CASE DurationTrial
  <2>1. /\ pc = "loop" /\ Measure(_ndrpdr_duration) /\ _ndrpdr_duration # None
        /\ _ndrpdr_loss_fraction = None
    BY <1>4 DEF DurationTrial
  <2>2. _ndrpdr_duration \in Rates
    BY <1>1, <2>1, DurationRate
  <2> QED  BY <2>1, <2>2, SMeasure
<1>5. CASE PhaseDone
  BY <1>5, SNoTrial DEF PhaseDone
<1>6. CASE TimeOut
  BY <1>6, SNoTrial DEF TimeOut
<1>7. CASE UNCHANGED vars
  BY <1>7, SNoTrial DEF vars
<1> QED
  BY <1>2, <1>3, <1>4, <1>5, <1>6, <1>7, SLineTrial, SMrrTrial, SMrr2Trial
  DEF Next, Search

\* A narrowed interval whose bounds are truthful brackets the rate of the system.
LEMMA NarrowedBrackets ==
  ASSUME SutType, sut # None, NEW i \in Intervals, Truthful(i.lo), Truthful(i.hi),
         NEW over, NEW rate \in Int,
         \A m \in ReceiveRateMeasurement :
           Truthful(m) /\ m.duration = Phases => (m.loss \in over <=> m.target_tr > rate),
         Narrowed(i, over)
  PROVE  Brackets(i, rate)
<1>1. i.lo \in ReceiveRateMeasurement /\ i.hi \in ReceiveRateMeasurement
  BY DEF Intervals, ReceiveRateInterval
<1>2. CASE GivenUp(i, over) /\ i.lo.duration = Phases
  BY <1>1, <1>2, BoundsAreRates, RatesAssumption DEF GivenUp, Brackets, Rates
<1>3. CASE ~(GivenUp(i, over) /\ i.lo.duration = Phases)
  <2>1. /\ i.lo.duration = Phases /\ i.hi.duration = Phases
        /\ i.lo.loss \notin over
        /\ i.hi.loss \in over \/ i.hi.target_tr = MaxRate
    BY <1>3 DEF Narrowed
  <2> QED  BY <1>1, <2>1, BoundsAreRates DEF Brackets
<1> QED  BY <1>2, <1>3

-----------------------------------------------------------------------------
(* The theorems about systems that are not noisy.                          *)

\* Both invariants hold in every reachable state of the search.
THEOREM SteadyInvariant == Spec => [](IInv /\ SInv)
<1>1. Init => IInv /\ SInv
  BY InitHolds, SInit
<1>2. (IInv /\ SInv) /\ [Next]_vars => (IInv /\ SInv)'
  BY StepKeeps, SStep
<1> QED  BY <1>1, <1>2, PTL DEF Spec

\* On a system that does not depend on the duration of a trial, the NDR that
\* narrow_down_ndr_and_pdr reports never exceeds the PDR, although
\* _new_interval updates the two intervals by different ratios.
THEOREM NdrBelowPdrHolds == Spec => []NdrBelowPdr
<1>1. IInv /\ SInv => NdrBelowPdr
  BY DEF SInv, Ordered, InOrder, Searching, NdrBelowPdr
<1> QED  BY SteadyInvariant, <1>1, PTL

\* On any system that is not noisy, the intervals that narrow_down_ndr_and_pdr
\* returns bracket what the system forwards in trials of the final duration.
THEOREM ResultBracketsHolds == Spec => []ResultBrackets
<1>1. IInv /\ SInv => ResultBrackets
  <2>1. SUFFICES ASSUME IInv, SInv, pc = "done", sut # None
                 PROVE  Brackets(ndr, sut[Phases][1]) /\ Brackets(pdr, sut[Phases][2])
    BY DEF ResultBrackets
  <2>2. /\ ndr \in Intervals /\ pdr \in Intervals
        /\ Narrowed(ndr, OverNdr) /\ Narrowed(pdr, OverPdr)
    BY <2>1 DEF IInv, BoundsProper, Searching, ResultNarrowed
  <2>3. /\ Truthful(ndr.lo) /\ Truthful(ndr.hi)
        /\ Truthful(pdr.lo) /\ Truthful(pdr.hi) /\ SutType
    BY <2>1 DEF SInv, Measured, Searching
  <2>4. Phases \in Durations
    BY PhasesAssumption DEF Durations
  <2>5. sut[Phases][1] \in Int /\ sut[Phases][2] \in Int
    BY <2>1, <2>3, <2>4, SystemRates DEF SutType
  <2>6. \A m \in ReceiveRateMeasurement :
          Truthful(m) /\ m.duration = Phases =>
            /\ m.loss \in OverNdr <=> m.target_tr > sut[Phases][1]
            /\ m.loss \in OverPdr <=> m.target_tr > sut[Phases][2]
    BY <2>1, <2>3, LossTellsRate
  <2>7. Brackets(ndr, sut[Phases][1])
    BY <2>1, <2>2, <2>3, <2>5, <2>6, NarrowedBrackets
  <2>8. Brackets(pdr, sut[Phases][2])
    BY <2>1, <2>2, <2>3, <2>5, <2>6, NarrowedBrackets
  <2> QED  BY <2>7, <2>8
<1> QED  BY SteadyInvariant, <1>1, PTL

-----------------------------------------------------------------------------
(* Every trial counts.  That a trial changes one of the intervals needs to   *)
(* know that an upper bound which is still valid as a lower one is the       *)
(* maximal rate or was measured in this phase, and that it is the former     *)
(* when the lower bound is invalid (Recent): otherwise _new_interval would   *)
(* ignore the step up.  That a change lowers the cost is then a matter of    *)
(* the seven cases of _new_interval (UpdateCost).                            *)

Recent(i, over) ==
  /\ i.lo.duration <= phase /\ i.hi.duration <= phase
  /\ i.hi.loss \in over \/ i.hi.target_tr = MaxRate \/ i.hi.duration = phase
  /\ i.lo.loss \in over => i.hi.loss \in over \/ i.hi.target_tr = MaxRate

FirstPhase ==
  /\ pc \in {"line", "mrr", "mrr2"} => phase = 0
  /\ pc \in {"mrr", "mrr2"} => line.duration = 0
  /\ pc = "mrr2" => mrr.duration = 0

RInv ==
  /\ FirstPhase
  /\ pc = "loop" /\ sut # None => Recent(ndr, OverNdr) /\ Recent(pdr, OverPdr)

\* The bounds of an interval, typed.
LEMMA IntervalFields ==
  ASSUME NEW i \in Intervals
  PROVE  /\ i.lo \in ReceiveRateMeasurement /\ i.hi \in ReceiveRateMeasurement
         /\ i = [lo |-> i.lo, hi |-> i.hi]
         /\ i.lo.target_tr \in Int /\ i.hi.target_tr \in Int
         /\ i.lo.target_tr < i.hi.target_tr
         /\ MinRate <= i.lo.target_tr /\ i.hi.target_tr <= MaxRate
         /\ MinRate \in Int /\ MaxRate \in Int
         /\ i.lo.duration \in Int /\ i.hi.duration \in Int
  BY RatesAssumption, PhasesAssumption
  DEF Intervals, ReceiveRateInterval, ReceiveRateMeasurement, Rates, Width, Durations

\* The cases of _new_interval.
LEMMA UpdateCases ==
  ASSUME NEW i \in Intervals, NEW m \in ReceiveRateMeasurement, NEW over
  PROVE  LET r  == _new_interval(i, m, over)
             tr == m.target_tr
         IN  \/ tr = i.lo.target_tr /\ r = [lo |-> m, hi |-> i.hi]
             \/ tr = i.hi.target_tr /\ r = [lo |-> i.lo, hi |-> m]
             \/ tr < i.lo.target_tr /\ i.lo.loss \in over /\ r = [lo |-> m, hi |-> i.lo]
             \/ /\ tr < i.lo.target_tr /\ i.lo.loss \notin over /\ m.loss \in over
                /\ r = [lo |-> m, hi |-> i.hi]
             \/ /\ tr > i.hi.target_tr /\ i.lo.loss \notin over /\ i.hi.loss \notin over
                /\ r = [lo |-> i.hi, hi |-> m]
             \/ /\ i.lo.target_tr < tr /\ tr < i.hi.target_tr
                /\ i.lo.loss \notin over /\ m.loss \in over /\ r = [lo |-> i.lo, hi |-> m]
             \/ /\ i.lo.target_tr < tr /\ tr < i.hi.target_tr
                /\ i.lo.loss \notin over /\ m.loss \notin over /\ r = [lo |-> m, hi |-> i.hi]
             \/ /\ r = i /\ tr # i.lo.target_tr /\ tr # i.hi.target_tr
                /\ \/ i.lo.loss \in over /\ tr > i.lo.target_tr
                   \/ i.lo.loss \notin over /\ tr < i.lo.target_tr
                   \/ i.hi.loss \in over /\ tr > i.hi.target_tr
<1> DEFINE r == _new_interval(i, m, over)
           a == i.lo.target_tr
           b == i.hi.target_tr
           tr == m.target_tr
<1>1. /\ i.lo \in ReceiveRateMeasurement /\ i.hi \in ReceiveRateMeasurement
      /\ a \in Int /\ b \in Int /\ tr \in Int /\ a < b
  BY IntervalFields, RatesAssumption DEF ReceiveRateMeasurement, Rates
<1>2. CASE tr = a
  <2>1. r = [lo |-> m, hi |-> i.hi]
    BY <1>1, <1>2, IntervalSorted DEF _new_interval
  <2> QED  BY <1>2, <2>1
<1>3. CASE tr = b
  <2>1. r = [lo |-> i.lo, hi |-> m]
    BY <1>1, <1>3, IntervalSorted DEF _new_interval
  <2> QED  BY <1>3, <2>1
<1>4. CASE tr < a
  <2>1. /\ Interval(m, i.lo) = [lo |-> m, hi |-> i.lo]
        /\ Interval(m, i.hi) = [lo |-> m, hi |-> i.hi]
    BY <1>1, <1>4, IntervalSorted
  <2>2. r = IF i.lo.loss \in over THEN [lo |-> m, hi |-> i.lo]
            ELSE IF m.loss \in over THEN [lo |-> m, hi |-> i.hi] ELSE i
    BY <1>1, <1>4, <2>1 DEF _new_interval
  <2> QED  BY <1>1, <1>4, <2>2
<1>5. CASE tr > b
  <2>1. Interval(i.hi, m) = [lo |-> i.hi, hi |-> m]
    BY <1>1, <1>5, IntervalSorted
  <2>2. r = IF i.lo.loss \in over \/ i.hi.loss \in over THEN i ELSE [lo |-> i.hi, hi |-> m]
    BY <1>1, <1>5, <2>1 DEF _new_interval
  <2> QED  BY <1>1, <1>5, <2>2
<1>6. CASE a < tr /\ tr < b
  <2>1. /\ Interval(i.lo, m) = [lo |-> i.lo, hi |-> m]
        /\ Interval(m, i.hi) = [lo |-> m, hi |-> i.hi]
    BY <1>1, <1>6, IntervalSorted
  <2>2. r = IF i.lo.loss \in over THEN i
            ELSE IF m.loss \in over THEN [lo |-> i.lo, hi |-> m] ELSE [lo |-> m, hi |-> i.hi]
    BY <1>1, <1>6, <2>1 DEF _new_interval
  <2> QED  BY <1>1, <1>6, <2>2
<1> QED  BY <1>1, <1>2, <1>3, <1>4, <1>5, <1>6

\* What an interval with bounds x and y costs.
LEMMA CostOf ==
  ASSUME NEW x, NEW y, NEW over
  PROVE  Cost([lo |-> x, hi |-> y], over) =
           (IF x.loss \in over THEN 2 * Span ELSE IF x.duration < phase THEN 4 * Span ELSE 0)
           + (IF y.loss \in over THEN 0 ELSE Span)
           + 3 * (IF x.loss \in over THEN x.target_tr - MinRate
                  ELSE IF y.loss \in over THEN y.target_tr - x.target_tr
                  ELSE MaxRate - x.target_tr)
           + (IF x.duration < phase THEN 1 ELSE 0) + (IF y.duration < phase THEN 1 ELSE 0)
  BY DEF Cost, LowerCost, UpperCost, Way, Again, Width

\* An update with a trial of this phase changes nothing or lowers the cost.  The
\* system forwards up to rate ql, qh and qm in trials as long as those of the lower
\* bound, the upper bound and the trial; it does not forward more in longer ones.
LEMMA UpdateCost ==
  ASSUME NEW i \in Intervals, NEW m \in ReceiveRateMeasurement, NEW over,
         NEW ql \in Int, NEW qh \in Int, NEW qm \in Int, phase \in Nat,
         i.lo.loss \in over <=> i.lo.target_tr > ql,
         i.hi.loss \in over <=> i.hi.target_tr > qh,
         m.loss \in over <=> m.target_tr > qm,
         qm <= ql, qm <= qh, m.duration = phase,
         i.lo.duration = phase => ql = qm,
         i.hi.duration = phase => qh = qm,
         \A x \in {i.lo, i.hi} : x.target_tr = m.target_tr /\ x.duration = phase => x = m,
         Recent(i, over)
  PROVE  LET r == _new_interval(i, m, over)
         IN  Recent(r, over) /\ Cost(r, over) \in Nat /\ (r = i \/ Cost(r, over) < Cost(i, over))
<1> DEFINE r == _new_interval(i, m, over)
           a == i.lo.target_tr
           b == i.hi.target_tr
           tr == m.target_tr
           P(s) == Recent(s, over) /\ Cost(s, over) \in Nat /\ (s = i \/ Cost(s, over) < Cost(i, over))
<1>1. /\ i.lo \in ReceiveRateMeasurement /\ i.hi \in ReceiveRateMeasurement
      /\ i = [lo |-> i.lo, hi |-> i.hi]
      /\ a \in Int /\ b \in Int /\ a < b /\ MinRate <= a /\ b <= MaxRate
      /\ MinRate \in Int /\ MaxRate \in Int
      /\ i.lo.duration \in Int /\ i.hi.duration \in Int
  BY IntervalFields
<1>2. tr \in Int /\ MinRate <= tr /\ tr <= MaxRate
  BY RatesAssumption DEF ReceiveRateMeasurement, Rates
<1>3. Span \in Int /\ Span = 3 * (MaxRate - MinRate + 1)
  BY <1>1 DEF Span
<1>4. /\ i.lo.duration <= phase /\ i.hi.duration <= phase
      /\ b > qh \/ b = MaxRate \/ i.hi.duration = phase
      /\ a > ql => b > qh \/ b = MaxRate
  BY DEF Recent
<1>5. Cost(i, over) =
           (IF a > ql THEN 2 * Span ELSE IF i.lo.duration < phase THEN 4 * Span ELSE 0)
           + (IF b > qh THEN 0 ELSE Span)
           + 3 * (IF a > ql THEN a - MinRate ELSE IF b > qh THEN b - a ELSE MaxRate - a)
           + (IF i.lo.duration < phase THEN 1 ELSE 0) + (IF i.hi.duration < phase THEN 1 ELSE 0)
  BY <1>1, CostOf
<1>6. ASSUME tr = a, r = [lo |-> m, hi |-> i.hi]
      PROVE  P(r)
  <2>1. Cost([lo |-> m, hi |-> i.hi], over) =
           (IF tr > qm THEN 2 * Span ELSE 0)
           + (IF b > qh THEN 0 ELSE Span)
           + 3 * (IF tr > qm THEN tr - MinRate ELSE IF b > qh THEN b - tr ELSE MaxRate - tr)
           + (IF i.hi.duration < phase THEN 1 ELSE 0)
    BY <1>2, <1>3, <1>1, CostOf
  <2>2. i.lo.duration = phase => r = i
    BY <1>1, <1>6
  <2>3. Cost(r, over) \in Nat /\ (i.lo.duration < phase => Cost(r, over) < Cost(i, over))
    BY <1>1, <1>2, <1>3, <1>4, <1>5, <1>6, <2>1
  <2>4. Recent([lo |-> m, hi |-> i.hi], over)
    BY <1>1, <1>2, <1>4, <1>6 DEF Recent
  <2> QED  BY <1>1, <1>4, <1>6, <2>2, <2>3, <2>4
<1>7. ASSUME tr = b, r = [lo |-> i.lo, hi |-> m]
      PROVE  P(r)
  <2>1. Cost([lo |-> i.lo, hi |-> m], over) =
           (IF a > ql THEN 2 * Span ELSE IF i.lo.duration < phase THEN 4 * Span ELSE 0)
           + (IF tr > qm THEN 0 ELSE Span)
           + 3 * (IF a > ql THEN a - MinRate ELSE IF tr > qm THEN tr - a ELSE MaxRate - a)
           + (IF i.lo.duration < phase THEN 1 ELSE 0)
    BY <1>2, <1>3, <1>1, CostOf
  <2>2. i.hi.duration = phase => r = i
    BY <1>1, <1>7
  <2>3. Cost(r, over) \in Nat /\ (i.hi.duration < phase => Cost(r, over) < Cost(i, over))
    <3>1. CASE tr > qm
      BY <1>1, <1>2, <1>3, <1>4, <1>5, <1>7, <2>1, <3>1
    <3>2. CASE ~(tr > qm)
      <4>1. ~(b > qh) /\ ~(a > ql)
        BY <1>1, <1>2, <1>7, <3>2
      <4> QED  BY <1>1, <1>2, <1>3, <1>4, <1>5, <1>7, <2>1, <3>2, <4>1
    <3> QED  BY <3>1, <3>2
  <2>4. Recent([lo |-> i.lo, hi |-> m], over)
    BY <1>1, <1>2, <1>4, <1>7 DEF Recent
  <2> QED  BY <1>1, <1>4, <1>7, <2>2, <2>3, <2>4
<1>8. ASSUME tr < a, a > ql, r = [lo |-> m, hi |-> i.lo]
      PROVE  P(r)
  <2>1. Cost([lo |-> m, hi |-> i.lo], over) =
           (IF tr > qm THEN 2 * Span ELSE 0)
           + 3 * (IF tr > qm THEN tr - MinRate ELSE a - tr)
           + (IF i.lo.duration < phase THEN 1 ELSE 0)
    BY <1>2, <1>3, <1>1, <1>8, CostOf
  <2>2. Cost(r, over) \in Nat /\ Cost(r, over) < Cost(i, over)
    BY <1>1, <1>2, <1>3, <1>4, <1>5, <1>8, <2>1
  <2>3. Recent([lo |-> m, hi |-> i.lo], over)
    BY <1>1, <1>2, <1>4, <1>8 DEF Recent
  <2> QED  BY <1>8, <2>2, <2>3
<1>9. ASSUME tr < a, ~(a > ql), tr > qm, r = [lo |-> m, hi |-> i.hi]
      PROVE  P(r)
  <2>1. Cost([lo |-> m, hi |-> i.hi], over) =
           2 * Span + (IF b > qh THEN 0 ELSE Span) + 3 * (tr - MinRate)
           + (IF i.hi.duration < phase THEN 1 ELSE 0)
    BY <1>2, <1>3, <1>1, <1>9, CostOf
  <2>2. i.lo.duration < phase
    BY <1>1, <1>2, <1>4, <1>9
  <2>3. Cost(r, over) \in Nat /\ Cost(r, over) < Cost(i, over)
    BY <1>1, <1>2, <1>3, <1>4, <1>5, <1>9, <2>1, <2>2
  <2>4. Recent([lo |-> m, hi |-> i.hi], over)
    BY <1>1, <1>2, <1>4, <1>9 DEF Recent
  <2> QED  BY <1>9, <2>3, <2>4
<1>10. ASSUME tr > b, ~(a > ql), ~(b > qh), r = [lo |-> i.hi, hi |-> m]
       PROVE  P(r)
  <2>1. i.hi.duration = phase
    BY <1>1, <1>2, <1>4, <1>10
  <2>2. Cost([lo |-> i.hi, hi |-> m], over) =
           (IF tr > qm THEN 0 ELSE Span) + 3 * (IF tr > qm THEN tr - b ELSE MaxRate - b)
    BY <1>2, <1>3, <1>1, <1>10, <2>1, CostOf
  <2>3. Cost(r, over) \in Nat /\ Cost(r, over) < Cost(i, over)
    BY <1>1, <1>2, <1>3, <1>4, <1>5, <1>10, <2>1, <2>2
  <2>4. Recent([lo |-> i.hi, hi |-> m], over)
    BY <1>1, <1>2, <1>4, <1>10 DEF Recent
  <2> QED  BY <1>10, <2>3, <2>4
<1>11. ASSUME a < tr, tr < b, ~(a > ql), tr > qm, r = [lo |-> i.lo, hi |-> m]
       PROVE  P(r)
  <2>1. Cost([lo |-> i.lo, hi |-> m], over) =
           (IF i.lo.duration < phase THEN 4 * Span ELSE 0) + 3 * (tr - a)
           + (IF i.lo.duration < phase THEN 1 ELSE 0)
    BY <1>2, <1>3, <1>1, <1>11, CostOf
  <2>2. Cost(r, over) \in Nat /\ Cost(r, over) < Cost(i, over)
    BY <1>1, <1>2, <1>3, <1>4, <1>5, <1>11, <2>1
  <2>3. Recent([lo |-> i.lo, hi |-> m], over)
    BY <1>1, <1>2, <1>4, <1>11 DEF Recent
  <2> QED  BY <1>11, <2>2, <2>3
<1>12. ASSUME a < tr, tr < b, ~(a > ql), ~(tr > qm), r = [lo |-> m, hi |-> i.hi]
       PROVE  P(r)
  <2>1. Cost([lo |-> m, hi |-> i.hi], over) =
           (IF b > qh THEN 0 ELSE Span) + 3 * (IF b > qh THEN b - tr ELSE MaxRate - tr)
           + (IF i.hi.duration < phase THEN 1 ELSE 0)
    <3>1. m.loss \notin over /\ ~(m.duration < phase) /\ (i.hi.loss \in over <=> b > qh)
      BY <1>12
    <3> QED  BY <1>2, <1>3, <1>1, <3>1, CostOf
  <2>2. Cost(r, over) \in Nat /\ Cost(r, over) < Cost(i, over)
    BY <1>1, <1>2, <1>3, <1>4, <1>5, <1>12, <2>1
  <2>3. Recent([lo |-> m, hi |-> i.hi], over)
    BY <1>1, <1>2, <1>4, <1>12 DEF Recent
  <2> QED  BY <1>12, <2>2, <2>3
<1>13. ASSUME r = i
       PROVE  P(r)
  <2>1. Cost(i, over) \in Nat
    BY <1>1, <1>2, <1>3, <1>5
  <2> QED  BY <1>13, <2>1
<1>14. P(r)
  <2>1. \/ tr = a /\ r = [lo |-> m, hi |-> i.hi]
        \/ tr = b /\ r = [lo |-> i.lo, hi |-> m]
        \/ tr < a /\ a > ql /\ r = [lo |-> m, hi |-> i.lo]
        \/ tr < a /\ ~(a > ql) /\ tr > qm /\ r = [lo |-> m, hi |-> i.hi]
        \/ tr > b /\ ~(a > ql) /\ ~(b > qh) /\ r = [lo |-> i.hi, hi |-> m]
        \/ a < tr /\ tr < b /\ ~(a > ql) /\ tr > qm /\ r = [lo |-> i.lo, hi |-> m]
        \/ a < tr /\ tr < b /\ ~(a > ql) /\ ~(tr > qm) /\ r = [lo |-> m, hi |-> i.hi]
        \/ r = i
    BY UpdateCases
  <2> HIDE DEF P, r
  <2> QED  BY <1>6, <1>7, <1>8, <1>9, <1>10, <1>11, <1>12, <1>13, <2>1
<1> QED  BY <1>14

\* A valid lower bound used as an upper one is moved strictly up.
LEMMA HighExternalMoves ==
  ASSUME phase \in 0 .. Phases, NEW i \in Intervals, NEW over,
         i.hi.loss \notin over, i.hi.target_tr < MaxRate
  PROVE  HighExternal(i, over) \in Rates /\ HighExternal(i, over) > i.hi.target_tr
<1> DEFINE step == RelWidth(i) * 2 ^ Doublings
<1>1. RelWidth(i) \in Nat \ {0}
  BY RelWidthNat, BoundsAreRates
<1>2. step \in Nat /\ step > 0
  BY <1>1, DoublingsAssumption, ProductPositive
<1>3. HighExternal(i, over) = Smaller(MaxRate, i.hi.target_tr + step)
  BY DEF HighExternal, expand_up
<1> HIDE DEF step
<1> QED  BY <1>2, <1>3, BoundsAreRates, RatesAssumption DEF Smaller, Rates

\* The trial that an interval asks for changes it.
LEMMA AskedChanges ==
  ASSUME phase \in 0 .. Phases, NEW i \in Intervals, NEW m \in ReceiveRateMeasurement, NEW over,
         m.duration = phase, Recent(i, over),
         \/ LowExternal(i, over) # None /\ m.target_tr = LowExternal(i, over)
         \/ /\ LowExternal(i, over) = None
            /\ \/ HighExternal(i, over) # None /\ m.target_tr = HighExternal(i, over)
               \/ /\ ~GivenUp(i, over) /\ RelWidth(i) > WidthGoal[phase]
                  /\ m.target_tr = half_step_up(RelWidth(i), i.lo.target_tr)
         \/ \E x \in {i.lo, i.hi} : x.duration < phase /\ m.target_tr = x.target_tr
  PROVE  _new_interval(i, m, over) # i
<1> DEFINE r == _new_interval(i, m, over)
           a == i.lo.target_tr
           b == i.hi.target_tr
           tr == m.target_tr
<1>1. /\ a \in Int /\ b \in Int /\ tr \in Int /\ a < b /\ MinRate <= a /\ b <= MaxRate
      /\ MinRate \in Int /\ MaxRate \in Int /\ phase \in Int
      /\ i.lo.duration \in Int /\ i.hi.duration \in Int
  BY IntervalFields, RatesAssumption, PhasesAssumption DEF ReceiveRateMeasurement, Rates
<1>2. ASSUME NEW x \in {i.lo, i.hi}, x.duration < phase, tr = x.target_tr
      PROVE  r # i
  <2>1. m # x
    BY <1>1, <1>2
  <2>2. \/ tr = a /\ r = [lo |-> m, hi |-> i.hi]
        \/ tr = b /\ r = [lo |-> i.lo, hi |-> m]
    BY <1>1, <1>2, UpdateCases
  <2>3. (tr = a => x = i.lo) /\ (tr = b => x = i.hi)
    BY <1>1, <1>2
  <2> HIDE DEF r
  <2>4. r.lo = m \/ r.hi = m
    BY <2>2
  <2> QED  BY <1>1, <2>1, <2>2, <2>3
<1>3. ASSUME tr # a, tr # b,
             ~(i.lo.loss \in over /\ tr > a), ~(i.lo.loss \notin over /\ tr < a),
             ~(i.hi.loss \in over /\ tr > b)
      PROVE  r # i
  <2>1. r.lo = m \/ r.hi = m
    BY <1>3, UpdateCases
  <2> QED  BY <1>3, <2>1
<1>4. CASE LowExternal(i, over) # None /\ tr = LowExternal(i, over)
  <2>1. i.lo.loss \in over
    BY <1>4 DEF LowExternal
  <2>2. CASE a > MinRate
    <3>1. tr < a
      BY <1>4, <2>1, <2>2, LowExternalMoves
    <3> QED  BY <1>1, <1>3, <2>1, <3>1
  <2>3. CASE ~(a > MinRate)
    <3>1. i.lo.duration < phase /\ tr = MinRate /\ a = MinRate
      BY <1>1, <1>4, <2>1, <2>3 DEF LowExternal
    <3> QED  BY <1>2, <3>1
  <2> QED  BY <2>2, <2>3
<1>5. CASE LowExternal(i, over) = None /\ HighExternal(i, over) # None /\ tr = HighExternal(i, over)
  <2>1. i.hi.loss \notin over
    BY <1>5 DEF HighExternal
  <2>2. CASE b < MaxRate
    <3>1. tr > b
      BY <1>5, <2>1, <2>2, HighExternalMoves
    <3>2. i.lo.loss \notin over
      BY <1>1, <2>1, <2>2 DEF Recent
    <3> QED  BY <1>1, <1>3, <2>1, <3>1, <3>2
  <2>3. CASE ~(b < MaxRate)
    <3>1. i.hi.duration < phase /\ tr = MaxRate /\ b = MaxRate
      BY <1>1, <1>5, <2>1, <2>3 DEF HighExternal
    <3> QED  BY <1>2, <3>1
  <2> QED  BY <2>2, <2>3
<1>6. CASE /\ LowExternal(i, over) = None
           /\ ~GivenUp(i, over) /\ RelWidth(i) > WidthGoal[phase]
           /\ tr = half_step_up(RelWidth(i), a)
  <2>1. i.lo.loss \notin over
    <3> SUFFICES ASSUME i.lo.loss \in over PROVE FALSE
      OBVIOUS
    <3>1. a > MinRate
      BY <1>1, <1>6 DEF GivenUp
    <3> QED  BY <1>6, <3>1, LowExternalMoves, GoalFacts
  <2>2. RelWidth(i) = b - a /\ WidthGoal[phase] >= 1 /\ WidthGoal[phase] \in Nat
    BY <1>6, RelWidthNat, BoundsAreRates
  <2>3. a < tr /\ tr < b
    BY <1>1, <1>6, <2>2 DEF half_step_up
  <2> QED  BY <1>1, <1>3, <2>1, <2>3
<1> QED  BY <1>2, <1>4, <1>5, <1>6

\* Every trial of the loop is asked for by one of the intervals.
LEMMA TrialAsked ==
  ASSUME NEW tr,
         \/ tr = _ndrpdr_loss_fraction /\ tr # None
         \/ tr = _ndrpdr_width_goal /\ tr # None /\ _ndrpdr_loss_fraction = None
         \/ tr = _ndrpdr_duration /\ tr # None
  PROVE  \E x \in {<<ndr, OverNdr>>, <<pdr, OverPdr>>} :
           \/ LowExternal(x[1], x[2]) # None /\ tr = LowExternal(x[1], x[2])
           \/ /\ LowExternal(x[1], x[2]) = None
              /\ \/ HighExternal(x[1], x[2]) # None /\ tr = HighExternal(x[1], x[2])
                 \/ /\ ~GivenUp(x[1], x[2]) /\ RelWidth(x[1]) > WidthGoal[phase]
                    /\ tr = half_step_up(RelWidth(x[1]), x[1].lo.target_tr)
           \/ \E y \in {x[1].lo, x[1].hi} : y.duration < phase /\ tr = y.target_tr
<1>1. CASE tr = _ndrpdr_loss_fraction /\ tr # None
  BY <1>1 DEF _ndrpdr_loss_fraction, FirstOf
<1>2. CASE tr = _ndrpdr_width_goal /\ tr # None /\ _ndrpdr_loss_fraction = None
  <2>1. LowExternal(ndr, OverNdr) = None /\ LowExternal(pdr, OverPdr) = None
    BY <1>2 DEF _ndrpdr_loss_fraction, FirstOf
  <2> QED  BY <1>2, <2>1 DEF _ndrpdr_width_goal, NdrWide, PdrWide
<1>3. CASE tr = _ndrpdr_duration /\ tr # None
  BY <1>3 DEF _ndrpdr_duration
<1> QED  BY <1>1, <1>2, <1>3

\* A system that is not noisy forwards no more in longer trials.
LEMMA LongerLosesMore ==
  ASSUME NEW s \in Systems, NEW d \in Durations, NEW e \in Durations, d <= e
  PROVE  s[e][1] <= s[d][1] /\ s[e][2] <= s[d][2]
  BY DEF Systems

\* Two truthful trials of the same rate and duration report the same.
LEMMA SameTrial ==
  ASSUME sut # None, NEW x \in ReceiveRateMeasurement, NEW y \in ReceiveRateMeasurement,
         Truthful(x), Truthful(y), x.target_tr = y.target_tr, x.duration = y.duration
  PROVE  x = y
<1>1. x.loss = y.loss
  BY DEF Truthful, Outcomes
<1>2. \A z \in ReceiveRateMeasurement :
        z = [target_tr |-> z.target_tr, duration |-> z.duration, loss |-> z.loss]
  BY DEF ReceiveRateMeasurement
<1> QED  BY <1>1, <1>2

\* What UpdateCost says of a truthful interval and a trial of this phase.
LEMMA TrialCost ==
  ASSUME SutType, sut # None, phase \in 0 .. Phases, NEW i \in Intervals,
         Truthful(i.lo), Truthful(i.hi),
         NEW m \in ReceiveRateMeasurement, Truthful(m), m.duration = phase,
         NEW over, NEW c \in {1, 2}, over = IF c = 1 THEN OverNdr ELSE OverPdr,
         Recent(i, over)
  PROVE  LET r == _new_interval(i, m, over)
         IN  Recent(r, over) /\ Cost(r, over) \in Nat /\ (r = i \/ Cost(r, over) < Cost(i, over))
<1>1. /\ i.lo \in ReceiveRateMeasurement /\ i.hi \in ReceiveRateMeasurement
      /\ i.lo.duration \in Durations /\ i.hi.duration \in Durations /\ phase \in Durations
  BY BoundsAreRates, IntervalFields DEF Durations
<1>2. phase \in Nat
  BY PhasesAssumption
<1> DEFINE q(d) == sut[d][c]
<1>3. \A d \in Durations : q(d) \in Int /\ (d <= phase => q(phase) <= q(d))
  BY <1>1, SystemRates, LongerLosesMore DEF SutType
<1>4. \A x \in ReceiveRateMeasurement : Truthful(x) =>
        (x.loss \in over <=> x.target_tr > q(x.duration))
  BY LossTellsRate
<1> HIDE DEF q
<1>5. i.lo.duration <= phase /\ i.hi.duration <= phase
  BY DEF Recent
<1>6. \A x \in {i.lo, i.hi} : x.target_tr = m.target_tr /\ x.duration = phase => x = m
  BY <1>1, SameTrial
<1>7. /\ i.lo.loss \in over <=> i.lo.target_tr > q(i.lo.duration)
      /\ i.hi.loss \in over <=> i.hi.target_tr > q(i.hi.duration)
      /\ m.loss \in over <=> m.target_tr > q(phase)
  BY <1>1, <1>4
<1>8. /\ q(i.lo.duration) \in Int /\ q(i.hi.duration) \in Int /\ q(phase) \in Int
      /\ q(phase) <= q(i.lo.duration) /\ q(phase) <= q(i.hi.duration)
      /\ i.lo.duration = phase => q(i.lo.duration) = q(phase)
      /\ i.hi.duration = phase => q(i.hi.duration) = q(phase)
  BY <1>1, <1>3, <1>5
<1> QED  BY <1>2, <1>6, <1>7, <1>8, UpdateCost

\* A trial of the loop lowers what remains, and keeps the intervals recent.
LEMMA TrialLowers ==
  ASSUME IInv, SInv, RInv, pc = "loop", sut # None, NEW tr \in Rates, Measure(tr),
         \/ tr = _ndrpdr_loss_fraction
         \/ tr = _ndrpdr_width_goal /\ _ndrpdr_loss_fraction = None
         \/ tr = _ndrpdr_duration
  PROVE  RInv' /\ Remaining' \in 0 .. Remaining - 1
<1>1. PICK loss \in Outcomes(tr, phase) :
        /\ ndr' = _new_interval(ndr, Trial(tr, phase, loss), OverNdr)
        /\ pdr' = _new_interval(pdr, Trial(tr, phase, loss), OverPdr)
  BY DEF Measure
<1> DEFINE m == Trial(tr, phase, loss)
<1>2. m \in ReceiveRateMeasurement /\ m.target_tr = tr /\ m.duration = phase /\ Truthful(m)
  <2>1. m.duration = phase
    BY DEF Trial
  <2> QED
    BY <2>1, OutcomesAreLosses, TrialType, TrialTruthful DEF IInv, TypeOK, Durations
<1> HIDE DEF m
<1>3. /\ ndr' = _new_interval(ndr, m, OverNdr)
      /\ pdr' = _new_interval(pdr, m, OverPdr)
  BY <1>1 DEF m
<1>4. /\ ndr \in Intervals /\ pdr \in Intervals /\ phase \in 0 .. Phases
      /\ Recent(ndr, OverNdr) /\ Recent(pdr, OverPdr)
  BY DEF IInv, TypeOK, BoundsProper, Searching, RInv
<1>5. /\ Truthful(ndr.lo) /\ Truthful(ndr.hi) /\ Truthful(pdr.lo) /\ Truthful(pdr.hi)
      /\ SutType
  BY DEF SInv, Measured, Searching
<1>6. UNCHANGED <<pc, phase, line, mrr, sut>>
  BY DEF Measure
<1>7. /\ Recent(ndr', OverNdr) /\ Cost(ndr', OverNdr) \in Nat
      /\ ndr' = ndr \/ Cost(ndr', OverNdr) < Cost(ndr, OverNdr)
  BY <1>2, <1>3, <1>4, <1>5, TrialCost
<1>8. /\ Recent(pdr', OverPdr) /\ Cost(pdr', OverPdr) \in Nat
      /\ pdr' = pdr \/ Cost(pdr', OverPdr) < Cost(pdr, OverPdr)
  BY <1>2, <1>3, <1>4, <1>5, TrialCost
<1>9. ndr' # ndr \/ pdr' # pdr
  <2>1. tr # None
    BY GoalFacts
  <2>2. PICK x \in {<<ndr, OverNdr>>, <<pdr, OverPdr>>} :
           \/ LowExternal(x[1], x[2]) # None /\ tr = LowExternal(x[1], x[2])
           \/ /\ LowExternal(x[1], x[2]) = None
              /\ \/ HighExternal(x[1], x[2]) # None /\ tr = HighExternal(x[1], x[2])
                 \/ /\ ~GivenUp(x[1], x[2]) /\ RelWidth(x[1]) > WidthGoal[phase]
                    /\ tr = half_step_up(RelWidth(x[1]), x[1].lo.target_tr)
           \/ \E y \in {x[1].lo, x[1].hi} : y.duration < phase /\ tr = y.target_tr
    BY <2>1, TrialAsked
  <2>3. x[1] \in Intervals /\ Recent(x[1], x[2])
    BY <1>4
  <2>4. _new_interval(x[1], m, x[2]) # x[1]
    BY <1>2, <1>4, <2>2, <2>3, AskedChanges
  <2> QED  BY <1>3, <2>4
<1>10. /\ Cost(ndr, OverNdr) \in Int /\ Cost(pdr, OverPdr) \in Int
  <2>1. ASSUME NEW i \in Intervals, NEW over PROVE Cost(i, over) \in Int
    BY <2>1, IntervalFields
    DEF Cost, LowerCost, UpperCost, Way, Again, Width, Span
  <2> QED  BY <1>4, <2>1
<1>11. Cost(ndr, OverNdr)' = Cost(ndr', OverNdr) /\ Cost(pdr, OverPdr)' = Cost(pdr', OverPdr)
  BY <1>6 DEF Cost, LowerCost, UpperCost, Way, Again, Width, Span, OverNdr, OverPdr
<1>12. Remaining' \in 0 .. Remaining - 1
  <2> DEFINE a == Cost(ndr, OverNdr)
             b == Cost(pdr, OverPdr)
             c == Cost(ndr', OverNdr)
             d == Cost(pdr', OverPdr)
  <2>1. a \in Int /\ b \in Int /\ c \in Nat /\ d \in Nat
    BY <1>7, <1>8, <1>10
  <2>2. (c < a /\ d < b) \/ (c = a /\ d < b) \/ (c < a /\ d = b)
    BY <1>7, <1>8, <1>9
  <2>3. Remaining = a + b /\ Remaining' = c + d
    BY <1>11 DEF Remaining
  <2> HIDE DEF a, b, c, d
  <2> QED  BY <2>1, <2>2, <2>3
<1>13. RInv'
  <2>1. FirstPhase'
    BY <1>6 DEF RInv, FirstPhase
  <2>2. Recent(ndr, OverNdr)' /\ Recent(pdr, OverPdr)'
    BY <1>6, <1>7, <1>8 DEF Recent, OverNdr, OverPdr
  <2> QED  BY <2>1, <2>2 DEF RInv
<1> QED  BY <1>12, <1>13

\* The intervals of a system that is not noisy start recent.
LEMMA RStart ==
  ASSUME RInv, SInv, pc = "mrr2", NEW low \in ReceiveRateMeasurement,
         NEW high \in ReceiveRateMeasurement, low.target_tr # high.target_tr,
         low.duration = 0, high.duration = 0, Truthful(low), Truthful(high), Start(low, high)
  PROVE  RInv'
<1>1. pc' = "loop" /\ UNCHANGED <<phase, sut>> /\ ndr' = Interval(low, high) /\ pdr' = ndr'
  BY DEF Start
<1>2. phase = 0
  BY DEF RInv, FirstPhase
<1>3. ndr' \in Intervals /\ ndr'.lo \in {low, high} /\ ndr'.hi \in {low, high}
  BY <1>1, IntervalProper DEF Interval
<1>4. /\ ndr'.lo.duration = 0 /\ ndr'.hi.duration = 0
      /\ Truthful(ndr'.lo) /\ Truthful(ndr'.hi)
  BY <1>3
<1>5. ASSUME sut # None
      PROVE  /\ ndr'.lo.loss \in OverNdr => ndr'.hi.loss \in OverNdr
             /\ ndr'.lo.loss \in OverPdr => ndr'.hi.loss \in OverPdr
  <2>1. /\ ndr'.lo \in ReceiveRateMeasurement /\ ndr'.hi \in ReceiveRateMeasurement
        /\ ndr'.lo.target_tr \in Int /\ ndr'.hi.target_tr \in Int
        /\ ndr'.lo.target_tr < ndr'.hi.target_tr
    BY <1>3, IntervalFields
  <2>2. sut[0][1] \in Int /\ sut[0][2] \in Int
    BY <1>5, SystemRates, GoalFacts DEF SInv, SutType
  <2>3. \A x \in {ndr'.lo, ndr'.hi} :
          /\ x.loss \in OverNdr <=> x.target_tr > sut[0][1]
          /\ x.loss \in OverPdr <=> x.target_tr > sut[0][2]
    BY <1>4, <1>5, <2>1, LossTellsRate DEF SInv
  <2> QED  BY <2>1, <2>2, <2>3
<1>6. sut # None => Recent(ndr', OverNdr) /\ Recent(ndr', OverPdr)
  BY <1>2, <1>4, <1>5 DEF Recent
<1>7. sut' # None => Recent(ndr, OverNdr)' /\ Recent(pdr, OverPdr)'
  BY <1>1, <1>6 DEF Recent, OverNdr, OverPdr
<1>8. FirstPhase'
  BY <1>1 DEF FirstPhase
<1> QED  BY <1>7, <1>8 DEF RInv

\* A phase is done only when its upper bounds are valid or the maximal rate.
LEMMA RPhaseDone ==
  ASSUME IInv, RInv, PhaseDone
  PROVE  RInv'
<1>1. /\ pc = "loop" /\ UNCHANGED <<line, mrr, ndr, pdr, sut>>
      /\ \/ phase' = phase + 1 /\ pc' = pc
         \/ pc' = "done" /\ phase' = phase
  BY DEF PhaseDone
<1>2. FirstPhase'
  BY <1>1 DEF FirstPhase
<1>3. CASE pc' = "loop" /\ sut # None
  <2>1. /\ ndr \in Intervals /\ pdr \in Intervals /\ phase \in 0 .. Phases
        /\ Recent(ndr, OverNdr) /\ Recent(pdr, OverPdr) /\ phase' = phase + 1
    BY <1>1, <1>3 DEF IInv, TypeOK, BoundsProper, Searching, RInv
  <2>2. HighExternal(ndr, OverNdr) = None /\ HighExternal(pdr, OverPdr) = None
    BY DEF PhaseDone, _ndrpdr_loss_fraction, FirstOf
  <2>3. ASSUME NEW i \in Intervals, NEW over, HighExternal(i, over) = None, Recent(i, over)
        PROVE  /\ i.lo.duration <= phase + 1 /\ i.hi.duration <= phase + 1
               /\ i.hi.loss \in over \/ i.hi.target_tr = MaxRate
    <3>1. i.hi.loss \notin over => ~(i.hi.target_tr < MaxRate)
      BY <2>1, <2>3, HighExternalMoves, GoalFacts
    <3>2. i.hi.target_tr \in Int /\ i.hi.target_tr <= MaxRate /\ MaxRate \in Int
      BY IntervalFields
    <3>3. i.lo.duration \in Int /\ i.hi.duration \in Int /\ phase \in Int
      BY <2>1, IntervalFields, PhasesAssumption
    <3> QED  BY <2>3, <3>1, <3>2, <3>3 DEF Recent
  <2>4. Recent(ndr, OverNdr)' /\ Recent(pdr, OverPdr)'
    BY <1>1, <2>1, <2>2, <2>3 DEF Recent, OverNdr, OverPdr
  <2> QED  BY <1>2, <2>4 DEF RInv
<1>4. CASE ~(pc' = "loop" /\ sut # None)
  BY <1>1, <1>2, <1>4 DEF RInv
<1> QED  BY <1>3, <1>4

\* The rate of a trial is allowed and asked for.
LEMMA LoopTrial ==
  ASSUME IInv, LossFractionTrial \/ WidthGoalTrial \/ DurationTrial
  PROVE  /\ pc = "loop" /\ pc' = pc /\ phase' = phase /\ sut' = sut
         /\ UNCHANGED <<line, mrr>>
         /\ \E tr \in Rates :
              /\ Measure(tr)
              /\ \/ tr = _ndrpdr_loss_fraction
                 \/ tr = _ndrpdr_width_goal /\ _ndrpdr_loss_fraction = None
                 \/ tr = _ndrpdr_duration
<1>1. pc = "loop"
  BY DEF LossFractionTrial, WidthGoalTrial, DurationTrial
<1>2. ndr \in Intervals /\ pdr \in Intervals /\ phase \in 0 .. Phases
  BY <1>1 DEF IInv, BoundsProper, Searching, TypeOK
<1>3. PICK tr \in Rates :
        /\ Measure(tr)
        /\ \/ tr = _ndrpdr_loss_fraction
           \/ tr = _ndrpdr_width_goal /\ _ndrpdr_loss_fraction = None
           \/ tr = _ndrpdr_duration
  BY <1>2, LossFractionRate, WidthGoalRate, DurationRate
  DEF LossFractionTrial, WidthGoalTrial, DurationTrial
<1>4. pc' = pc /\ phase' = phase /\ sut' = sut /\ UNCHANGED <<line, mrr>>
  BY <1>3 DEF Measure
<1> QED  BY <1>1, <1>3, <1>4

\* Every step keeps the intervals recent.
LEMMA RStep == IInv /\ SInv /\ RInv /\ [Next]_vars => RInv'
<1> SUFFICES ASSUME IInv, SInv, RInv, [Next]_vars PROVE RInv'
  OBVIOUS
<1>1. CASE LineTrial
  <2>1. PICK loss : line' = Trial(MaxRate, 0, loss)
    BY <1>1 DEF LineTrial
  <2>2. line'.duration = 0 /\ pc = "line" /\ pc' = "mrr" /\ phase' = phase
    BY <1>1, <2>1 DEF LineTrial, Trial
  <2> QED  BY <2>2 DEF RInv, FirstPhase
<1>2. CASE MrrTrial
  <2>1. PICK tr, loss : mrr' = Trial(tr, 0, loss)
    BY <1>2 DEF MrrTrial
  <2>2. mrr'.duration = 0 /\ pc = "mrr" /\ pc' = "mrr2" /\ phase' = phase /\ line' = line
    BY <1>2, <2>1 DEF MrrTrial, Trial
  <2> QED  BY <2>2 DEF RInv, FirstPhase
<1>3. CASE Mrr2Trial
  <2>1. pc = "mrr2"
    BY <1>3 DEF Mrr2Trial
  <2>2. PICK low \in ReceiveRateMeasurement, high \in ReceiveRateMeasurement :
          /\ low.target_tr # high.target_tr
          /\ low \in {line, mrr} \/ (Truthful(low) /\ low.duration = 0)
          /\ high \in {line, mrr} \/ (Truthful(high) /\ high.duration = 0)
          /\ Start(low, high)
    BY <1>3, Mrr2Starts
  <2>3. /\ Truthful(line) /\ Truthful(mrr) /\ line.duration = 0 /\ mrr.duration = 0
    BY <2>1 DEF SInv, Measured, RInv, FirstPhase
  <2> QED  BY <2>1, <2>2, <2>3, RStart
<1>4. CASE LossFractionTrial \/ WidthGoalTrial \/ DurationTrial
  <2>1. CASE sut # None
    BY <1>4, <2>1, LoopTrial, TrialLowers
  <2>2. CASE sut = None
    BY <1>4, <2>2, LoopTrial DEF RInv, FirstPhase
  <2> QED  BY <2>1, <2>2
<1>5. CASE PhaseDone
  BY <1>5, RPhaseDone
<1>6. CASE TimeOut
  BY <1>6 DEF TimeOut, RInv, FirstPhase
<1>7. CASE UNCHANGED vars
  <2>1. FirstPhase'
    BY <1>7 DEF vars, RInv, FirstPhase
  <2>2. pc = "loop" /\ sut # None => Recent(ndr, OverNdr)' /\ Recent(pdr, OverPdr)'
    BY <1>7 DEF vars, RInv, Recent, OverNdr, OverPdr
  <2> QED  BY <1>7, <2>1, <2>2 DEF vars, RInv
<1> QED  BY <1>1, <1>2, <1>3, <1>4, <1>5, <1>6, <1>7 DEF Next, Search

\* On any system that is not noisy, every trial of the loop of ndrpdr lowers a
\* natural number that depends on the two intervals only: no trial is repeated for
\* nothing, and a phase has a bounded number of them.
THEOREM TrialsProgressHolds == Spec => TrialsProgress
<1>1. Init => IInv /\ SInv /\ RInv
  BY InitHolds, SInit DEF Init, RInv, FirstPhase
<1>2. (IInv /\ SInv /\ RInv) /\ [Next]_vars => (IInv /\ SInv /\ RInv)'
  BY StepKeeps, SStep, RStep
<1>3. (IInv /\ SInv /\ RInv) /\ [Next]_vars =>
        [sut # None /\ pc = "loop" /\ pc' = "loop" /\ phase' = phase =>
           Remaining' \in 0 .. Remaining - 1]_vars
  <2> SUFFICES ASSUME IInv, SInv, RInv, Next, sut # None, pc = "loop", pc' = "loop",
                      phase' = phase
               PROVE  Remaining' \in 0 .. Remaining - 1
    OBVIOUS
  <2>1. phase \in Int
    BY PhasesAssumption DEF IInv, TypeOK
  <2>2. LossFractionTrial \/ WidthGoalTrial \/ DurationTrial
    BY <2>1 DEF Next, Search, LineTrial, MrrTrial, Mrr2Trial, PhaseDone, TimeOut
  <2> QED  BY <2>2, LoopTrial, TrialLowers
<1> QED  BY <1>1, <1>2, <1>3, PTL DEF Spec, TrialsProgress
=============================================================================
