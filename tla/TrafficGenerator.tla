-------------------------- MODULE TrafficGenerator --------------------------
(***************************************************************************)
(* resources/libraries/python/TrafficGenerator.py and the scripts it runs  *)
(* on the TG (GPL/tools/trex): suites initialise the generator, tests run  *)
(* trials on it, waiting for their end or stopping them later.  A trial    *)
(* sends one packet per direction; what matters is whose packets a result  *)
(* counts, since TRex counts on from its start and survives tests, and so  *)
(* does traffic that a failing test has left.                              *)
(***************************************************************************)
EXTENDS Integers, FiniteSets

CONSTANTS MaxSuites, MaxTrials, MaxFaults   \* bounds

ASSUME BoundAssumption ==
  MaxSuites \in Nat /\ MaxTrials \in Nat /\ MaxFaults \in Nat

VARIABLES
  pc,         \* what the Robot process does
  suites,     \* number of suites begun
  mode,       \* self._mode
  reordered,  \* self._ifaces_reordered
  config,     \* /etc/trex_cfg.yaml: is the second interface port 0?
  attempts,   \* of startup_trex,
  caller,     \* and the setup that called it
  trex,       \* the TRex process
  count,      \* its packet counters, by port
  traffic,    \* ports that send, the port of the first flow, directions asked for
  trials,     \* number of trials begun
  xstats,     \* self._xstats: reference counters for ports 0 and 1
  result,     \* self._sent and self._loss
  own,        \* what the last trial that ended really sent and lost
  faults

Modes == {"STL", "ASTF"}
Ports == {0, 1}
Other(p) == 1 - p

NoTrex     == [state |-> "none", mode |-> "STL", swapped |-> FALSE]
NoTraffic  == [from |-> {}, first |-> 0, dirs |-> 0]
Zero       == [p \in Ports |-> [tx |-> 0, rx |-> 0]]
\* Without a reference the stop script reads a counter as it is.
NoXstats   == Zero
NoResult   == [sent |-> -1, lost |-> -1]

libraryVars == <<mode, reordered, xstats, result>>
trexVars    == <<trex, count, traffic>>
startVars   == <<attempts, caller>>
vars == <<pc, suites, config, startVars, libraryVars, trexVars, trials, own, faults>>

TypeOK ==
  /\ pc \in {"suite", "kill", "start", "assert", "ready", "no_tests", "test",
             "sync", "async", "failed", "debug"}
  /\ suites \in 0..MaxSuites /\ trials \in 0..MaxTrials /\ faults \in 0..MaxFaults
  /\ mode \in Modes /\ reordered \in BOOLEAN /\ config \in BOOLEAN
  /\ attempts \in 0..3 /\ caller \in {"suite", "test"}
  /\ trex \in [state : {"none", "up", "hung"}, mode : Modes, swapped : BOOLEAN]
  /\ count \in [Ports -> [tx : 0..MaxTrials, rx : 0..MaxTrials]]
  /\ traffic \in [from : SUBSET Ports, first : Ports, dirs : 0..2]
  /\ xstats \in [Ports -> [tx : 0..MaxTrials, rx : 0..MaxTrials]]

Init ==
  /\ pc = "suite" /\ suites = 0 /\ trials = 0 /\ faults = 0
  /\ mode = "STL" /\ reordered = FALSE
  /\ xstats = NoXstats /\ result = NoResult /\ own = NoResult
  /\ config = FALSE /\ attempts = 0 /\ caller = "suite"
  \* Another job may have left a TRex.
  /\ trex \in {NoTrex} \cup [state : {"up", "hung"}, mode : Modes, swapped : BOOLEAN]
  /\ count = Zero /\ traffic = NoTraffic

Fault == faults < MaxFaults /\ faults' = faults + 1

-----------------------------------------------------------------------------
(* initialize_traffic_generator and startup_trex                           *)

\* The flag is only ever set, but each suite has a new library object.
Reorder(swapped) == swapped

\* The TG of a suite: OSI layer, and interfaces in or against PCI order.
InitializeTrafficGenerator(m, swapped) ==
  /\ pc = "suite" /\ suites < MaxSuites
  /\ suites' = suites + 1
  /\ mode' = m
  /\ reordered' = Reorder(swapped)
  /\ xstats' = NoXstats /\ result' = NoResult /\ own' = NoResult
  /\ config' = swapped
  /\ attempts' = 1 /\ caller' = "suite"
  /\ pc' = "kill"
  /\ UNCHANGED <<trexVars, trials, faults>>

\* Mutant: a TRex that answers is left alone.
KillUnlessUp ==
  /\ pc = "kill"
  /\ pc' = "start"
  /\ IF trex.state = "hung" THEN trex' = NoTrex ELSE UNCHANGED trex
  /\ UNCHANGED <<suites, config, startVars, libraryVars, count, traffic, trials, own, faults>>

\* pkill t-rex and three seconds; one that hangs may survive it.
KillTrex ==
  /\ pc = "kill"
  /\ pc' = "start"
  /\ \/ trex' = NoTrex /\ traffic' = NoTraffic
     \/ trex.state = "hung" /\ UNCHANGED <<trex, traffic>>
  /\ UNCHANGED <<suites, config, startVars, libraryVars, count, trials, own, faults>>

\* t-rex-64 in the background reads the configuration and counts from zero;
\* beside one that is left it cannot run.
StartTrex ==
  /\ pc = "start"
  /\ pc' = "assert"
  /\ IF trex.state = "none"
     THEN /\ count' = Zero
          /\ \E s \in {"up", "none", "hung"} :
               trex' = [state |-> s, mode |-> mode, swapped |-> config]
     ELSE UNCHANGED <<trex, count>>
  /\ UNCHANGED <<suites, config, startVars, libraryVars, traffic, trials, own, faults>>

\* startup_trex returns to the setup, or fails the suite or the test.
Returns == pc' = IF caller = "suite" THEN "ready" ELSE "test"
Raises  == pc' = IF caller = "suite" THEN "no_tests" ELSE "failed"

\* Mutant: there is always another attempt.
AssertAlways ==
  /\ pc = "assert"
  /\ IF trex.state = "up" /\ trex.mode = mode THEN Returns ELSE pc' = "kill"
  /\ UNCHANGED <<suites, config, startVars, libraryVars, trexVars, trials, own, faults>>

\* trex_stl_assert.py or trex_astf_assert.py, with retries; three attempts.
AssertTrex ==
  /\ pc = "assert"
  /\ IF trex.state = "up" /\ trex.mode = mode THEN Returns /\ UNCHANGED attempts
     ELSE IF attempts < 3 THEN pc' = "kill" /\ attempts' = attempts + 1
     ELSE Raises /\ UNCHANGED attempts
  /\ UNCHANGED <<suites, config, caller, libraryVars, trexVars, trials, own, faults>>

\* A command that fails or times out ends the startup without a new attempt.
StartupFails ==
  /\ pc \in {"kill", "start"}
  /\ Fault
  /\ Raises
  /\ UNCHANGED <<suites, config, startVars, libraryVars, trexVars, trials, own>>

\* Test setup: Is Trex Running only asks pgrep.
SetUpTest ==
  /\ pc = "ready" /\ trials < MaxTrials
  /\ IF trex.state # "none"
     THEN pc' = "test" /\ UNCHANGED startVars
     ELSE pc' = "kill" /\ attempts' = 1 /\ caller' = "test"
  /\ UNCHANGED <<suites, config, libraryVars, trexVars, trials, own, faults>>

-----------------------------------------------------------------------------
(* Trials                                                                  *)

\* The counters after ports "from" have sent, the packets of "lost" in vain.
After(from, lost) ==
  [p \in Ports |-> [tx |-> count[p].tx + IF p \in from THEN 1 ELSE 0,
                    rx |-> count[p].rx + IF Other(p) \in from \ lost THEN 1 ELSE 0]]

\* p_0: the transmit port of the first flow.
Port0 == IF reordered THEN 1 ELSE 0

\* The STL script starts the ports it was given, in the order it was given.
StlTraffic(d) ==
  [from |-> IF d = 2 THEN Ports ELSE {Port0}, first |-> Port0, dirs |-> d]

\* The ASTF script names no ports: clients are on port 0 of TRex and servers,
\* which answer, on port 1, whatever the order and the number of directions.
AstfTraffic(d) == [from |-> Ports, first |-> 0, dirs |-> d]

\* The profile scripts need a TRex that answers, in the mode of the suite.
Answers == trex.state = "up" /\ trex.mode = mode

\* client.reset stops what another trial has left running, which may have
\* sent until then; clear_stats comes after it; then the ports start.
StartTraffic(d) ==
  /\ Answers
  /\ \E lost \in SUBSET traffic.from : count' = After(traffic.from, lost)
  /\ traffic' = IF mode = "STL" THEN StlTraffic(d) ELSE AstfTraffic(d)
  /\ trials' = trials + 1

\* send_traffic_on_tg and measure, waiting for the end; a failed test sends
\* one trial more for debugging.
SendTraffic(d) ==
  /\ \/ pc = "test" /\ trials < MaxTrials - 1 /\ pc' = "sync"
     \/ pc = "failed" /\ d = 2 /\ trials < MaxTrials /\ pc' = "debug"
  /\ StartTraffic(d)
  /\ xstats' = xstats
  /\ UNCHANGED <<suites, config, startVars, mode, reordered, result, trex, own, faults>>

\* What the statistics say: differences of two readings of the counters,
\* summed over both ports or, for one direction, from Port0 to the other.
Result(before, after, d) ==
  LET Tx(p) == after[p].tx - before[p].tx
      Rx(p) == after[p].rx - before[p].rx
      sent     == IF d = 2 THEN Tx(0) + Tx(1) ELSE Tx(Port0)
      received == IF d = 2 THEN Rx(0) + Rx(1) ELSE Rx(Other(Port0))
  IN  [sent |-> sent, lost |-> sent - received]

Truth(lost) == [sent |-> Cardinality(traffic.from), lost |-> Cardinality(lost)]

\* A synchronous script reports and _parse_traffic_results stores it.
SyncEnds ==
  /\ pc \in {"sync", "debug"} /\ Answers
  /\ mode = "STL" \/ traffic.dirs = 2
  /\ \E lost \in SUBSET traffic.from :
       /\ count' = After(traffic.from, lost)
       /\ result' = Result(count, count', traffic.dirs)
       /\ own' = Truth(lost)
  /\ traffic' = NoTraffic
  /\ pc' = IF pc = "sync" THEN "test" ELSE "ready"
  /\ UNCHANGED <<suites, config, startVars, mode, reordered, xstats, trex, trials, faults>>

\* For one direction the ASTF script asks for the statistics of p_0 only and then
\* looks for p_1: after the trial it ends with a KeyError, and the test fails.
AstfKeyError ==
  /\ pc = "sync" /\ Answers
  /\ mode = "ASTF" /\ traffic.dirs = 1
  /\ \E lost \in SUBSET traffic.from : count' = After(traffic.from, lost)
  /\ traffic' = NoTraffic
  /\ pc' = "failed"
  /\ UNCHANGED <<suites, config, startVars, libraryVars, trex, trials, own, faults>>

\* Mutant: the references are those of the counters before the reset.
EarlySnapshot(d) ==
  [i \in Ports |-> IF i = 0 \/ d = 2 THEN count[i] ELSE Zero[i]]

\* "Xstats snapshot 0" is port 0 in the STL script but p_0 in the ASTF one;
\* there is a snapshot 1 only for two directions.
StlSnapshot(d) == [i \in Ports |-> IF i = 1 /\ d = 1 THEN Zero[i] ELSE count'[i]]

AstfSnapshot(d) ==
  [i \in Ports |-> IF i = 1 /\ d = 1 THEN Zero[i]
                   ELSE count'[IF i = 0 THEN Port0 ELSE Other(Port0)]]

Snapshot(d) == IF mode = "STL" THEN StlSnapshot(d) ELSE AstfSnapshot(d)

\* send_traffic_on_tg with async_call: no result, references are kept.
StartAsync(d) ==
  /\ pc = "test" /\ trials < MaxTrials - 1
  /\ pc' = "async"
  /\ StartTraffic(d)
  /\ xstats' = Snapshot(d)
  /\ result' = NoResult /\ own' = NoResult
  /\ UNCHANGED <<suites, config, startVars, mode, reordered, trex, faults>>

\* The stop scripts read both ports, 0 against snapshot 0 and 1 against
\* snapshot 1, and sum both directions.
StopReport(after) == Result(xstats, after, 2)

\* stop_traffic_on_tg
StopTraffic ==
  /\ pc = "async" /\ Answers
  /\ pc' = "test"
  /\ \E lost \in SUBSET traffic.from :
       /\ count' = After(traffic.from, lost)
       /\ result' = StopReport(count')
       /\ own' = Truth(lost)
  /\ traffic' = NoTraffic
  /\ UNCHANGED <<suites, config, startVars, mode, reordered, xstats, trex, trials, faults>>

\* A script fails: TRex does not answer (any more), or the SSH command times
\* out and the traffic goes on.
ScriptFails ==
  /\ pc \in {"test", "sync", "async", "failed", "debug"}
  /\ IF Answers THEN Fault ELSE UNCHANGED faults
  /\ pc' = IF pc \in {"failed", "debug"} THEN "ready" ELSE "failed"
  /\ UNCHANGED <<suites, config, startVars, libraryVars, trexVars, trials, own>>

\* Mutant: no debug trial after a failure.
TestFailsQuietly ==
  /\ pc \in {"test", "async"}
  /\ pc' = "ready"
  /\ UNCHANGED <<suites, config, startVars, libraryVars, trexVars, trials, own, faults>>

\* The test fails for another reason, a statistics action between start and
\* stop for instance.
TestFails ==
  /\ pc \in {"test", "async"}
  /\ pc' = "failed"
  /\ UNCHANGED <<suites, config, startVars, libraryVars, trexVars, trials, own, faults>>

TestPasses ==
  /\ pc = "test"
  /\ pc' = "ready"
  /\ UNCHANGED <<suites, config, startVars, libraryVars, trexVars, trials, own, faults>>

\* Suite teardown: TRex is killed, an error is ignored.
TearDownSuite ==
  /\ pc \in {"ready", "no_tests"}
  /\ pc' = "suite"
  /\ \/ trex' = NoTrex /\ traffic' = NoTraffic /\ UNCHANGED faults
     \/ Fault /\ UNCHANGED <<trex, traffic>>
  /\ UNCHANGED <<suites, config, startVars, libraryVars, count, trials, own>>

TrexFails ==
  /\ trex.state = "up"
  /\ Fault
  /\ \E s \in {"none", "hung"} : trex' = [trex EXCEPT !.state = s]
  /\ traffic' = NoTraffic
  /\ UNCHANGED <<pc, suites, config, startVars, libraryVars, count, trials, own>>

-----------------------------------------------------------------------------
Startup == KillTrex \/ StartTrex \/ AssertTrex

Next ==
  \/ \E m \in Modes, swapped \in BOOLEAN : InitializeTrafficGenerator(m, swapped)
  \/ Startup \/ StartupFails
  \/ SetUpTest
  \/ \E d \in 1..2 : SendTraffic(d) \/ StartAsync(d)
  \/ SyncEnds \/ AstfKeyError \/ StopTraffic
  \/ ScriptFails \/ TestFails \/ TestPasses
  \/ TearDownSuite
  \/ TrexFails

Spec == Init /\ [][Next]_vars

\* Robot goes on with whatever it can do next.
FairSpec == Spec /\ WF_vars(Next)

-----------------------------------------------------------------------------
(* Properties                                                              *)

\* What a trial reports is what that trial sent and lost, whatever ran or
\* was left running before it, in any port order and mode; of stopped trials
\* this is so for two directions.  (stop_traffic_on_tg, the profile scripts'
\* clear_stats and snapshots)
OwnTrial ==
  [][\/ <<result, own>>' = <<result, own>>
     \/ pc = "async" /\ traffic.dirs # 2
     \/ result' = own']_vars

\* In STL mode the first flow leaves through the first interface of the suite:
\* port order, configuration of the running TRex and the swap agree, whatever
\* TRex and traffic an earlier suite has left.  In ASTF mode nothing follows the
\* swap, and against PCI order the first flow leaves through the second
\* interface.  (initialize_traffic_generator, p_0 and p_1)
PortsInvariant ==
  traffic # NoTraffic /\ trex.mode = "STL" => (traffic.first = 1) = trex.swapped

\* Traffic left by a failed test is stopped before the next one, unless
\* something else broke.  (the debug trial of the test teardown)
QuietBetweenTests == pc = "ready" => traffic = NoTraffic \/ faults > 0

\* Starting TRex comes to an end, even on a host where it never answers or
\* cannot be killed.  (startup_trex)
StartupEnds == pc = "kill" ~> pc \notin {"kill", "start", "assert"}
=============================================================================
