----------------------- MODULE TrafficGeneratorProofs -----------------------
(***************************************************************************)
(* Proofs about TrafficGenerator, for any number of suites, trials and     *)
(* faults.                                                                 *)
(*                                                                         *)
(* None of the properties is inductive.  That a trial runs on the ports of *)
(* its suite rests on which TRex can still be alive at each point of the   *)
(* suite (Fresh): one that a previous suite or job has left is killed or,  *)
(* hanging, never answers.  That a stopped trial counts its own packets    *)
(* rests on the references (References): nothing is counted between the    *)
(* snapshot and the stop.                                                  *)
(***************************************************************************)
EXTENDS TrafficGenerator, FiniteSetTheorems, TLAPS

\* The library and the configuration file agree on the order of the ports.
Configured == reordered = config

\* Where a TRex that answers can only be one that this suite has started.
Started ==
  \/ pc \in {"assert", "ready", "test", "sync", "async", "failed", "debug"}
  \/ pc = "kill" /\ caller = "test"

Fresh ==
  /\ Started /\ trex.state = "up" => trex.swapped = config /\ trex.mode = mode
  /\ pc = "start" => trex.state # "up"

\* Only a TRex that answers sends.
TrafficNeedsTrex == traffic # NoTraffic => trex.state = "up"

\* Nothing is sent where no trial is under way, unless something broke.
Quiet ==
  /\ pc \in {"start", "assert"} => traffic = NoTraffic
  /\ pc \in {"suite", "ready", "test"} => traffic = NoTraffic \/ faults > 0

\* A trial that is waited for sends on the ports it was started on, in the
\* directions asked for.
Running ==
  pc \in {"sync", "async", "debug"} /\ Answers =>
    \/ traffic.dirs = 2 /\ traffic.from = Ports
    \/ traffic.dirs = 1 /\ traffic.from = IF mode = "STL" THEN {Port0} ELSE Ports

\* The references of a trial in two directions add up to the counters.
References ==
  pc = "async" /\ Answers /\ traffic.dirs = 2 =>
    /\ xstats[0].tx + xstats[1].tx = count[0].tx + count[1].tx
    /\ xstats[0].rx + xstats[1].rx = count[0].rx + count[1].rx

\* A packet that may still be counted belongs to a trial that was begun.
Counted ==
  \A p \in Ports :
    /\ count[p].tx + (IF p \in traffic.from THEN 1 ELSE 0) <= trials
    /\ count[p].rx + (IF Other(p) \in traffic.from THEN 1 ELSE 0) <= trials

IInv == /\ TypeOK
        /\ Counted
        /\ Configured
        /\ Fresh
        /\ TrafficNeedsTrex
        /\ Quiet
        /\ Running
        /\ References
        /\ PortsInvariant

-----------------------------------------------------------------------------
(* The counters. *)

\* Whatever of the running traffic arrives, the counters stay within the
\* trials begun.  (the counters that client.reset and clear_stats leave)
LEMMA AfterCounts ==
  ASSUME TypeOK, Counted, NEW lost \in SUBSET traffic.from
  PROVE  LET a == After(traffic.from, lost)
         IN  /\ a \in [Ports -> [tx : 0..MaxTrials, rx : 0..MaxTrials]]
             /\ \A p \in Ports : a[p].tx <= trials /\ a[p].rx <= trials
<1> DEFINE a == After(traffic.from, lost)
<1>1. ASSUME NEW p \in Ports
      PROVE  /\ a[p] = [tx |-> count[p].tx + IF p \in traffic.from THEN 1 ELSE 0,
                        rx |-> count[p].rx + IF Other(p) \in traffic.from \ lost THEN 1 ELSE 0]
             /\ a[p] \in [tx : 0..MaxTrials, rx : 0..MaxTrials]
             /\ a[p].tx <= trials /\ a[p].rx <= trials
  <2>1. a[p] = [tx |-> count[p].tx + IF p \in traffic.from THEN 1 ELSE 0,
                rx |-> count[p].rx + IF Other(p) \in traffic.from \ lost THEN 1 ELSE 0]
    BY DEF After
  <2>2. /\ count[p].tx \in Nat /\ count[p].rx \in Nat /\ trials \in Nat
        /\ trials <= MaxTrials /\ MaxTrials \in Nat
    BY BoundAssumption DEF TypeOK
  <2>3. /\ count[p].tx + (IF p \in traffic.from THEN 1 ELSE 0) <= trials
        /\ count[p].rx + (IF Other(p) \in traffic.from \ lost THEN 1 ELSE 0) <= trials
    BY <2>2 DEF Counted
  <2> HIDE DEF a
  <2> QED
    BY <2>1, <2>2, <2>3
<1>2. a = [p \in Ports |-> a[p]]
  BY DEF After
<1> HIDE DEF a
<1> QED
  BY <1>1, <1>2 DEF a

\* One or two ports send.
LEMMA PortSets ==
  /\ Cardinality(Ports) = 2
  /\ \A p \in Ports : Cardinality({p}) = 1 /\ Other(p) \in Ports /\ Other(p) # p
  /\ \A S \in SUBSET Ports : S \in {{}, {0}, {1}, Ports}
  /\ Cardinality({}) = 0
<1>1. Cardinality(Ports) = 2
  <2>1. IsFiniteSet({0}) /\ Cardinality({0}) = 1
    BY FS_Singleton
  <2>2. Cardinality({0} \cup {1}) = Cardinality({0}) + 1
    BY <2>1, FS_AddElement, 1 \notin {0}
  <2>3. Ports = {0} \cup {1}
    BY DEF Ports
  <2> QED
    BY <2>1, <2>2, <2>3
<1>2. \A p \in Ports : Cardinality({p}) = 1
  BY FS_Singleton
<1>3. \A S \in SUBSET Ports : S \in {{}, {0}, {1}, Ports}
  BY DEF Ports
<1> QED
  BY <1>1, <1>2, <1>3, FS_EmptySet DEF Ports, Other

\* The values that the variables are reset to have their types.
LEMMA Initials ==
  /\ NoTrex \in [state : {"none", "up", "hung"}, mode : Modes, swapped : BOOLEAN]
  /\ NoTraffic \in [from : SUBSET Ports, first : Ports, dirs : 0..2]
  /\ Zero \in [Ports -> [tx : 0..MaxTrials, rx : 0..MaxTrials]]
  /\ NoTrex.state = "none" /\ NoTraffic.from = {}
BY BoundAssumption DEF NoTrex, NoTraffic, Zero, Modes, Ports

-----------------------------------------------------------------------------
(* The inductive invariant. *)

\* The invariant holds at the start.
LEMMA InitIInv == Init => IInv
<1> SUFFICES ASSUME Init PROVE IInv
  OBVIOUS
<1>1. TypeOK
  <2>1. trex \in [state : {"none", "up", "hung"}, mode : Modes, swapped : BOOLEAN]
    <3>1. CASE trex = NoTrex
      BY <3>1, Initials
    <3>2. CASE trex \in [state : {"up", "hung"}, mode : Modes, swapped : BOOLEAN]
      BY <3>2
    <3> QED
      BY <3>1, <3>2 DEF Init
  <2>2. count = Zero /\ xstats = Zero
    BY DEF Init, NoXstats
  <2>3. traffic = NoTraffic
    BY DEF Init
  <2>4. /\ pc = "suite" /\ suites \in 0..MaxSuites /\ trials \in 0..MaxTrials
        /\ faults \in 0..MaxFaults /\ mode \in Modes
        /\ attempts \in 0..3 /\ caller \in {"suite", "test"}
    BY BoundAssumption DEF Init, Modes
  <2>5. reordered \in BOOLEAN /\ config \in BOOLEAN
    BY Zenon DEF Init
  <2> QED
    BY <2>1, <2>2, <2>3, <2>4, <2>5, Initials DEF TypeOK
<1>2. Counted
  BY BoundAssumption DEF Init, Counted, NoTraffic, Zero, Ports
<1>3. Configured /\ Fresh /\ TrafficNeedsTrex /\ Quiet
  BY DEF Init, Configured, Fresh, Started, TrafficNeedsTrex, Quiet
<1>4. Running /\ References /\ PortsInvariant
  BY DEF Init, Running, References, PortsInvariant
<1> QED
  BY <1>1, <1>2, <1>3, <1>4 DEF IInv

\* Every step of the Robot process, of TRex and of the scripts keeps it.
LEMMA NextIInv == IInv /\ [Next]_vars => IInv'
<1> SUFFICES ASSUME IInv, [Next]_vars PROVE IInv'
  OBVIOUS
<1>0. /\ TypeOK /\ Counted /\ Configured /\ Fresh /\ TrafficNeedsTrex /\ Quiet
      /\ Running /\ References /\ PortsInvariant
      /\ MaxSuites \in Nat /\ MaxTrials \in Nat /\ MaxFaults \in Nat
  BY BoundAssumption DEF IInv
<1> USE DEF libraryVars, trexVars, startVars
<1>1. ASSUME NEW m \in Modes, NEW swapped \in BOOLEAN, InitializeTrafficGenerator(m, swapped)
      PROVE  IInv'
  <2>1. TypeOK'
    BY <1>0, <1>1 DEF TypeOK, InitializeTrafficGenerator, Reorder, NoXstats, Zero
  <2>2. Counted'
    BY <1>0, <1>1 DEF Counted, InitializeTrafficGenerator, Reorder
  <2>3. (Configured /\ Fresh /\ TrafficNeedsTrex /\ Quiet)'
    BY <1>0, <1>1 DEF Configured, Fresh, Started, TrafficNeedsTrex, Quiet, TypeOK, InitializeTrafficGenerator, Reorder
  <2>4. (Running /\ References /\ PortsInvariant)'
    BY <1>0, <1>1 DEF Running, References, PortsInvariant, Answers, Port0, InitializeTrafficGenerator, Reorder
  <2> QED
    BY <2>1, <2>2, <2>3, <2>4 DEF IInv
<1>2. CASE KillTrex
  <2>1. TypeOK'
    BY <1>0, <1>2, Initials DEF TypeOK, KillTrex
  <2>2. Counted'
    BY <1>0, <1>2, Initials DEF Counted, KillTrex, TypeOK, Ports
  <2>3. (Configured /\ Fresh /\ TrafficNeedsTrex /\ Quiet)'
    BY <1>0, <1>2, Initials DEF Configured, Fresh, Started, TrafficNeedsTrex, Quiet, KillTrex
  <2>4. (Running /\ References /\ PortsInvariant)'
    BY <1>0, <1>2 DEF Running, References, PortsInvariant, Answers, Port0, KillTrex
  <2> QED
    BY <2>1, <2>2, <2>3, <2>4 DEF IInv
<1>3. CASE StartTrex
  <2>1. TypeOK'
    BY <1>0, <1>3, Initials DEF TypeOK, StartTrex
  <2>2. Counted'
    BY <1>0, <1>3 DEF Counted, StartTrex, Zero, NoTraffic, Quiet, TypeOK
  <2>3. (Configured /\ Fresh /\ TrafficNeedsTrex /\ Quiet)'
    BY <1>0, <1>3 DEF Configured, Fresh, Started, TrafficNeedsTrex, Quiet, StartTrex
  <2>4. (Running /\ References /\ PortsInvariant)'
    BY <1>0, <1>3 DEF Running, References, PortsInvariant, Answers, Port0, StartTrex, Quiet
  <2> QED
    BY <2>1, <2>2, <2>3, <2>4 DEF IInv
<1>4. CASE AssertTrex
  <2>1. TypeOK'
    BY <1>0, <1>4 DEF TypeOK, AssertTrex, Returns, Raises
  <2>2. Counted'
    BY <1>0, <1>4 DEF Counted, AssertTrex, Returns, Raises
  <2>3. (Configured /\ Fresh /\ TrafficNeedsTrex /\ Quiet)'
    BY <1>0, <1>4 DEF Configured, Fresh, Started, TrafficNeedsTrex, Quiet, TypeOK, AssertTrex, Returns, Raises
  <2>4. (Running /\ References /\ PortsInvariant)'
    BY <1>0, <1>4 DEF Running, References, PortsInvariant, Answers, Port0, AssertTrex, Returns, Raises
  <2> QED
    BY <2>1, <2>2, <2>3, <2>4 DEF IInv
<1>5. CASE StartupFails
  <2>1. TypeOK'
    BY <1>0, <1>5 DEF TypeOK, StartupFails, Raises, Fault
  <2>2. Counted'
    BY <1>0, <1>5 DEF Counted, StartupFails, Raises, Fault
  <2>3. (Configured /\ Fresh /\ TrafficNeedsTrex /\ Quiet)'
    BY <1>0, <1>5 DEF Configured, Fresh, Started, TrafficNeedsTrex, Quiet, TypeOK, StartupFails, Raises, Fault
  <2>4. (Running /\ References /\ PortsInvariant)'
    BY <1>0, <1>5 DEF Running, References, PortsInvariant, Answers, Port0, StartupFails, Raises, Fault
  <2> QED
    BY <2>1, <2>2, <2>3, <2>4 DEF IInv
<1>6. CASE SetUpTest
  <2>1. TypeOK'
    BY <1>0, <1>6 DEF TypeOK, SetUpTest
  <2>2. Counted'
    BY <1>0, <1>6 DEF Counted, SetUpTest
  <2>3. (Configured /\ Fresh /\ TrafficNeedsTrex /\ Quiet)'
    BY <1>0, <1>6 DEF Configured, Fresh, Started, TrafficNeedsTrex, Quiet, TypeOK, SetUpTest
  <2>4. (Running /\ References /\ PortsInvariant)'
    BY <1>0, <1>6 DEF Running, References, PortsInvariant, Answers, Port0, SetUpTest
  <2> QED
    BY <2>1, <2>2, <2>3, <2>4 DEF IInv
<1>7. ASSUME NEW d \in 1..2, SendTraffic(d)
      PROVE  IInv'
  <2>0. /\ Answers /\ trials' = trials + 1 /\ trials' <= MaxTrials
        /\ traffic' = IF mode = "STL" THEN StlTraffic(d) ELSE AstfTraffic(d)
        /\ \E lost \in SUBSET traffic.from : count' = After(traffic.from, lost)
    BY <1>0, <1>7 DEF TypeOK, StartTraffic, SendTraffic
  <2>a. /\ count' \in [Ports -> [tx : 0..MaxTrials, rx : 0..MaxTrials]]
        /\ \A p \in Ports : count'[p].tx <= trials /\ count'[p].rx <= trials
    BY <1>0, <2>0, AfterCounts
  <2>b. traffic' \in [from : SUBSET Ports, first : Ports, dirs : 0..2] /\ traffic'.from # {}
    BY <2>0 DEF StlTraffic, AstfTraffic, Port0, Ports
  <2>1. TypeOK'
    BY <1>0, <1>7, <2>0, <2>a, <2>b DEF TypeOK, SendTraffic
  <2>2. Counted'
    BY <1>0, <2>0, <2>a DEF Counted, TypeOK
  <2>3. (Configured /\ Fresh /\ TrafficNeedsTrex /\ Quiet)'
    BY <1>0, <1>7, <2>0 DEF Configured, Fresh, Started, TrafficNeedsTrex, Quiet, Answers, SendTraffic
  <2>4. (Running /\ References /\ PortsInvariant)'
    <3>1. (Running /\ References)'
      BY <1>0, <1>7, <2>0 DEF Running, References, Answers, Port0, SendTraffic, StlTraffic, AstfTraffic
    <3>2. /\ trex' = trex /\ trex.swapped = reordered /\ reordered \in BOOLEAN
          /\ trex.mode = mode
      BY <1>0, <1>7, <2>0 DEF SendTraffic, Answers, Configured, Fresh, Started, TypeOK
    <3>3. trex'.mode = "STL" => (traffic'.first = 1) = trex'.swapped
      BY <2>0, <3>2 DEF StlTraffic, Port0
    <3> QED
      BY <3>1, <3>3 DEF PortsInvariant
  <2> QED
    BY <2>1, <2>2, <2>3, <2>4 DEF IInv
<1>8. ASSUME NEW d \in 1..2, StartAsync(d)
      PROVE  IInv'
  <2>0. /\ Answers /\ trials' = trials + 1 /\ trials' <= MaxTrials
        /\ traffic' = IF mode = "STL" THEN StlTraffic(d) ELSE AstfTraffic(d)
        /\ \E lost \in SUBSET traffic.from : count' = After(traffic.from, lost)
    BY <1>0, <1>8 DEF TypeOK, StartTraffic, StartAsync
  <2>a. /\ count' \in [Ports -> [tx : 0..MaxTrials, rx : 0..MaxTrials]]
        /\ \A p \in Ports : count'[p].tx <= trials /\ count'[p].rx <= trials
    BY <1>0, <2>0, AfterCounts
  <2>b. traffic' \in [from : SUBSET Ports, first : Ports, dirs : 0..2] /\ traffic'.from # {}
    BY <2>0 DEF StlTraffic, AstfTraffic, Port0, Ports
  <2>c. /\ xstats' \in [Ports -> [tx : 0..MaxTrials, rx : 0..MaxTrials]]
        /\ d = 2 => /\ xstats'[0].tx + xstats'[1].tx = count'[0].tx + count'[1].tx
                    /\ xstats'[0].rx + xstats'[1].rx = count'[0].rx + count'[1].rx
    <3>1. Port0 \in Ports /\ Other(Port0) \in Ports /\ Zero \in [Ports -> [tx : 0..MaxTrials, rx : 0..MaxTrials]]
      BY Initials DEF Port0, Other, Ports
    <3>2. CASE mode = "STL"
      BY <1>8, <2>a, <3>1, <3>2 DEF StartAsync, Snapshot, StlSnapshot, Ports
    <3>3. CASE mode # "STL"
      <4>1. xstats' = AstfSnapshot(d)
        BY <1>8, <3>3 DEF StartAsync, Snapshot
      <4>2. xstats' \in [Ports -> [tx : 0..MaxTrials, rx : 0..MaxTrials]]
        BY <4>1, <2>a, <3>1 DEF AstfSnapshot
      <4>3. ASSUME d = 2
            PROVE  xstats'[0] = count'[Port0] /\ xstats'[1] = count'[Other(Port0)]
        BY <4>1, <4>3 DEF AstfSnapshot, Ports
      <4>4. \A p \in Ports : count'[p].tx \in Int /\ count'[p].rx \in Int
        BY <2>a
      <4> QED
        BY <4>2, <4>3, <4>4 DEF Port0, Other, Ports
    <3> QED
      BY <3>2, <3>3
  <2>1. TypeOK'
    BY <1>0, <1>8, <2>0, <2>a, <2>b, <2>c DEF TypeOK, StartAsync
  <2>2. Counted'
    BY <1>0, <2>0, <2>a DEF Counted, TypeOK
  <2>3. (Configured /\ Fresh /\ TrafficNeedsTrex /\ Quiet)'
    BY <1>0, <1>8, <2>0 DEF Configured, Fresh, Started, TrafficNeedsTrex, Quiet, Answers, StartAsync
  <2>4. (Running /\ References /\ PortsInvariant)'
    <3>1. (Running /\ References)'
      BY <1>0, <1>8, <2>0, <2>a, <2>c DEF Running, References, Answers, Port0, StartAsync, StlTraffic, AstfTraffic, Ports
    <3>2. /\ trex' = trex /\ trex.swapped = reordered /\ reordered \in BOOLEAN
          /\ trex.mode = mode
      BY <1>0, <1>8, <2>0 DEF StartAsync, Answers, Configured, Fresh, Started, TypeOK
    <3>3. trex'.mode = "STL" => (traffic'.first = 1) = trex'.swapped
      BY <2>0, <3>2 DEF StlTraffic, Port0
    <3> QED
      BY <3>1, <3>3 DEF PortsInvariant
  <2> QED
    BY <2>1, <2>2, <2>3, <2>4 DEF IInv
<1>9. CASE SyncEnds
  <2>0. /\ \E lost \in SUBSET traffic.from : count' = After(traffic.from, lost)
        /\ traffic' = NoTraffic /\ trials' = trials
    BY <1>9 DEF SyncEnds
  <2>a. /\ count' \in [Ports -> [tx : 0..MaxTrials, rx : 0..MaxTrials]]
        /\ \A p \in Ports : count'[p].tx <= trials /\ count'[p].rx <= trials
    BY <1>0, <2>0, AfterCounts
  <2>1. TypeOK'
    BY <1>0, <1>9, <2>0, <2>a, Initials DEF TypeOK, SyncEnds
  <2>2. Counted'
    BY <1>0, <2>0, <2>a, Initials DEF Counted, TypeOK
  <2>3. (Configured /\ Fresh /\ TrafficNeedsTrex /\ Quiet)'
    BY <1>0, <1>9, <2>0 DEF Configured, Fresh, Started, TrafficNeedsTrex, Quiet, Answers, SyncEnds
  <2>4. (Running /\ References /\ PortsInvariant)'
    BY <1>0, <1>9, <2>0 DEF Running, References, PortsInvariant, Answers, Port0, SyncEnds
  <2> QED
    BY <2>1, <2>2, <2>3, <2>4 DEF IInv
<1>10. CASE StopTraffic
  <2>0. /\ \E lost \in SUBSET traffic.from : count' = After(traffic.from, lost)
        /\ traffic' = NoTraffic /\ trials' = trials
    BY <1>10 DEF StopTraffic
  <2>a. /\ count' \in [Ports -> [tx : 0..MaxTrials, rx : 0..MaxTrials]]
        /\ \A p \in Ports : count'[p].tx <= trials /\ count'[p].rx <= trials
    BY <1>0, <2>0, AfterCounts
  <2>1. TypeOK'
    BY <1>0, <1>10, <2>0, <2>a, Initials DEF TypeOK, StopTraffic
  <2>2. Counted'
    BY <1>0, <2>0, <2>a, Initials DEF Counted, TypeOK
  <2>3. (Configured /\ Fresh /\ TrafficNeedsTrex /\ Quiet)'
    BY <1>0, <1>10, <2>0 DEF Configured, Fresh, Started, TrafficNeedsTrex, Quiet, Answers, StopTraffic
  <2>4. (Running /\ References /\ PortsInvariant)'
    BY <1>0, <1>10, <2>0 DEF Running, References, PortsInvariant, Answers, Port0, StopTraffic
  <2> QED
    BY <2>1, <2>2, <2>3, <2>4 DEF IInv
<1>11. CASE ScriptFails
  <2>1. TypeOK'
    BY <1>0, <1>11 DEF TypeOK, ScriptFails, Fault
  <2>2. Counted'
    BY <1>0, <1>11 DEF Counted, ScriptFails, Fault
  <2>3. (Configured /\ Fresh /\ TrafficNeedsTrex /\ Quiet)'
    BY <1>0, <1>11 DEF Configured, Fresh, Started, TrafficNeedsTrex, Quiet, TypeOK, ScriptFails, Fault, Answers
  <2>4. (Running /\ References /\ PortsInvariant)'
    BY <1>0, <1>11 DEF Running, References, PortsInvariant, Answers, Port0, ScriptFails, Fault
  <2> QED
    BY <2>1, <2>2, <2>3, <2>4 DEF IInv
<1>12. CASE TestFails
  <2>1. TypeOK'
    BY <1>0, <1>12 DEF TypeOK, TestFails
  <2>2. Counted'
    BY <1>0, <1>12 DEF Counted, TestFails
  <2>3. (Configured /\ Fresh /\ TrafficNeedsTrex /\ Quiet)'
    BY <1>0, <1>12 DEF Configured, Fresh, Started, TrafficNeedsTrex, Quiet, TypeOK, TestFails
  <2>4. (Running /\ References /\ PortsInvariant)'
    BY <1>0, <1>12 DEF Running, References, PortsInvariant, Answers, Port0, TestFails
  <2> QED
    BY <2>1, <2>2, <2>3, <2>4 DEF IInv
<1>13. CASE TestPasses
  <2>1. TypeOK'
    BY <1>0, <1>13 DEF TypeOK, TestPasses
  <2>2. Counted'
    BY <1>0, <1>13 DEF Counted, TestPasses
  <2>3. (Configured /\ Fresh /\ TrafficNeedsTrex /\ Quiet)'
    BY <1>0, <1>13 DEF Configured, Fresh, Started, TrafficNeedsTrex, Quiet, TypeOK, TestPasses
  <2>4. (Running /\ References /\ PortsInvariant)'
    BY <1>0, <1>13 DEF Running, References, PortsInvariant, Answers, Port0, TestPasses
  <2> QED
    BY <2>1, <2>2, <2>3, <2>4 DEF IInv
<1>14. CASE TearDownSuite
  <2>1. TypeOK'
    BY <1>0, <1>14, Initials DEF TypeOK, TearDownSuite, Fault
  <2>2. Counted'
    <3>1. count' = count /\ trials' = trials /\ (traffic' = traffic \/ traffic'.from = {})
      BY <1>14, Initials DEF TearDownSuite
    <3>2. \A p \in Ports : count[p].tx \in Nat /\ count[p].rx \in Nat
      BY <1>0, BoundAssumption DEF TypeOK
    <3>3. trials \in Nat
      BY <1>0, BoundAssumption DEF TypeOK
    <3>4. CASE traffic' = traffic
      BY <1>0, <3>1, <3>4 DEF Counted
    <3>5. CASE traffic'.from = {}
      <4> SUFFICES ASSUME NEW p \in Ports
                   PROVE  count[p].tx <= trials /\ count[p].rx <= trials
        BY <3>1, <3>2, <3>5 DEF Counted
      <4>1. /\ count[p].tx + (IF p \in traffic.from THEN 1 ELSE 0) <= trials
            /\ count[p].rx + (IF Other(p) \in traffic.from THEN 1 ELSE 0) <= trials
        BY <1>0 DEF Counted
      <4>2. count[p].tx \in Nat /\ count[p].rx \in Nat
        BY <3>2
      <4> QED
        BY <3>3, <4>1, <4>2
    <3> QED
      BY <3>1, <3>4, <3>5
  <2>3. (Configured /\ Fresh /\ TrafficNeedsTrex /\ Quiet)'
    BY <1>0, <1>14, Initials DEF Configured, Fresh, Started, TrafficNeedsTrex, Quiet, TearDownSuite, Fault, TypeOK
  <2>4. (Running /\ References /\ PortsInvariant)'
    BY <1>0, <1>14 DEF Running, References, PortsInvariant, Answers, Port0, TearDownSuite
  <2> QED
    BY <2>1, <2>2, <2>3, <2>4 DEF IInv
<1>15. CASE TrexFails
  <2>1. TypeOK'
    <3>1. trex' \in [state : {"none", "up", "hung"}, mode : Modes, swapped : BOOLEAN]
      BY <1>0, <1>15 DEF TypeOK, TrexFails
    <3>2. faults' \in 0..MaxFaults /\ traffic' = NoTraffic
      BY <1>0, <1>15, BoundAssumption DEF TypeOK, TrexFails, Fault
    <3> QED
      BY <1>0, <1>15, <3>1, <3>2, Initials DEF TypeOK, TrexFails
  <2>2. Counted'
    BY <1>0, <1>15, Initials DEF Counted, TrexFails, TypeOK
  <2>3. (Configured /\ Fresh /\ TrafficNeedsTrex /\ Quiet)'
    BY <1>0, <1>15, Initials DEF Configured, Fresh, Started, TrafficNeedsTrex, Quiet, TrexFails, Fault, TypeOK
  <2>4. (Running /\ References /\ PortsInvariant)'
    BY <1>0, <1>15 DEF Running, References, PortsInvariant, Answers, Port0, TrexFails, TypeOK
  <2> QED
    BY <2>1, <2>2, <2>3, <2>4 DEF IInv
<1>17. CASE AstfKeyError
  <2>0. /\ \E lost \in SUBSET traffic.from : count' = After(traffic.from, lost)
        /\ traffic' = NoTraffic /\ trials' = trials
    BY <1>17 DEF AstfKeyError
  <2>a. /\ count' \in [Ports -> [tx : 0..MaxTrials, rx : 0..MaxTrials]]
        /\ \A p \in Ports : count'[p].tx <= trials /\ count'[p].rx <= trials
    BY <1>0, <2>0, AfterCounts
  <2>1. TypeOK'
    BY <1>0, <1>17, <2>0, <2>a, Initials DEF TypeOK, AstfKeyError
  <2>2. Counted'
    BY <1>0, <2>0, <2>a, Initials DEF Counted, TypeOK
  <2>3. (Configured /\ Fresh /\ TrafficNeedsTrex /\ Quiet)'
    BY <1>0, <1>17, <2>0 DEF Configured, Fresh, Started, TrafficNeedsTrex, Quiet, Answers, AstfKeyError
  <2>4. (Running /\ References /\ PortsInvariant)'
    BY <1>0, <1>17, <2>0 DEF Running, References, PortsInvariant, Answers, Port0, AstfKeyError
  <2> QED
    BY <2>1, <2>2, <2>3, <2>4 DEF IInv
<1>16. CASE UNCHANGED vars
  BY <1>0, <1>16 DEF vars, IInv, TypeOK, Counted, Configured, Fresh, Started, TrafficNeedsTrex,
     Quiet, Running, References, PortsInvariant, Answers, Port0
<1> QED
  BY <1>1, <1>2, <1>3, <1>4, <1>5, <1>6, <1>7, <1>8, <1>9, <1>10, <1>11, <1>12,
     <1>13, <1>14, <1>15, <1>16, <1>17 DEF Next, Startup

\* The invariant holds always.
LEMMA SpecIInv == Spec => []IInv
BY InitIInv, NextIInv, PTL DEF Spec

-----------------------------------------------------------------------------
(* The theorems. *)

\* Every variable keeps its type; in particular TRex counts no more packets
\* than trials were begun.
THEOREM TypeCorrect == Spec => []TypeOK
<1>1. IInv => TypeOK
  BY DEF IInv
<1> QED
  BY <1>1, SpecIInv, PTL

\* In STL mode the first flow leaves through the first interface of the suite,
\* whatever TRex an earlier suite or job has left.
\* (initialize_traffic_generator, p_0)
THEOREM PortsAgree == Spec => []PortsInvariant
<1>1. IInv => PortsInvariant
  BY DEF IInv
<1> QED
  BY <1>1, SpecIInv, PTL

\* Without a fault nothing is sent between two tests, however the first of
\* them failed.  (the debug trial of the test teardown)
THEOREM QuietTheorem == Spec => []QuietBetweenTests
<1>1. IInv => QuietBetweenTests
  BY DEF IInv, Quiet, QuietBetweenTests
<1> QED
  BY <1>1, SpecIInv, PTL

\* Differences to references that add up to the counters.
LEMMA Differences ==
  ASSUME NEW a0 \in Int, NEW a1 \in Int, NEW b0 \in Int, NEW b1 \in Int,
         NEW c0 \in Int, NEW c1 \in Int, NEW m \in Int,
         a0 + a1 = c0 + c1 + m, b0 + b1 = c0 + c1
  PROVE  (a0 - b0) + (a1 - b1) = m
  OBVIOUS

\* The two readings of the counters differ by what the running traffic sent
\* and lost.  (the profile scripts' statistics)
LEMMA ReportIsTruth ==
  ASSUME TypeOK, NEW lost \in SUBSET traffic.from,
         NEW before, before \in [Ports -> [tx : Nat, rx : Nat]],
         \/ traffic.dirs = 1 /\ traffic.from = {Port0} /\ before = count
         \/ /\ traffic.dirs = 2 /\ traffic.from = Ports
            /\ before[0].tx + before[1].tx = count[0].tx + count[1].tx
            /\ before[0].rx + before[1].rx = count[0].rx + count[1].rx
  PROVE  Result(before, After(traffic.from, lost), traffic.dirs) = Truth(lost)
<1> DEFINE a == After(traffic.from, lost)
<1>1. \A p \in Ports :
        /\ a[p].tx = count[p].tx + IF p \in traffic.from THEN 1 ELSE 0
        /\ a[p].rx = count[p].rx + IF Other(p) \in traffic.from \ lost THEN 1 ELSE 0
        /\ count[p].tx \in Nat /\ count[p].rx \in Nat
        /\ before[p].tx \in Nat /\ before[p].rx \in Nat
  BY DEF After, TypeOK
<1> HIDE DEF a
<1>2. Port0 \in Ports /\ 0 \in Ports /\ 1 \in Ports
  BY DEF Port0, Ports
<1>3. CASE traffic.dirs = 1 /\ traffic.from = {Port0} /\ before = count
  <2>1. Cardinality(traffic.from) = 1
    BY <1>2, <1>3, PortSets
  <2>2. a[Port0].tx = count[Port0].tx + 1
    BY <1>1, <1>2, <1>3
  <2>3. a[Other(Port0)].rx =
          count[Other(Port0)].rx + IF Port0 \in lost THEN 0 ELSE 1
    <3>1. Other(Port0) \in Ports /\ Other(Other(Port0)) = Port0
      BY DEF Other, Port0, Ports
    <3> QED
      BY <1>1, <1>3, <3>1
  <2>4. Cardinality(lost) = IF Port0 \in lost THEN 1 ELSE 0
    <3>1. lost = IF Port0 \in lost THEN {Port0} ELSE {}
      BY <1>3
    <3> QED
      BY <1>2, <3>1, PortSets
  <2>5. Other(Port0) \in Ports
    BY <1>2, PortSets
  <2> QED
    BY <1>1, <1>2, <1>3, <2>1, <2>2, <2>3, <2>4, <2>5 DEF Result, Truth, a
<1>4. CASE /\ traffic.dirs = 2 /\ traffic.from = Ports
           /\ before[0].tx + before[1].tx = count[0].tx + count[1].tx
           /\ before[0].rx + before[1].rx = count[0].rx + count[1].rx
  <2>1. Cardinality(traffic.from) = 2
    BY <1>4, PortSets
  <2>2. a[0].tx = count[0].tx + 1 /\ a[1].tx = count[1].tx + 1
    BY <1>1, <1>2, <1>4
  <2>3. /\ a[0].rx = count[0].rx + IF 1 \in lost THEN 0 ELSE 1
        /\ a[1].rx = count[1].rx + IF 0 \in lost THEN 0 ELSE 1
    <3>1. Other(0) = 1 /\ Other(1) = 0
      BY DEF Other
    <3> QED
      BY <1>1, <1>2, <1>4, <3>1
  <2>4. Cardinality(lost) = (IF 0 \in lost THEN 1 ELSE 0) + (IF 1 \in lost THEN 1 ELSE 0)
    <3>1. lost \in {{}, {0}, {1}, Ports}
      BY <1>4, PortSets
    <3>2. Cardinality({0}) = 1 /\ Cardinality({1}) = 1
      BY <1>2, PortSets
    <3>3. Cardinality({}) = 0 /\ Cardinality(Ports) = 2
      BY PortSets
    <3>4. 0 \in Ports /\ 1 \in Ports /\ 0 \notin {1} /\ 1 \notin {0}
      BY <1>2
    <3>5. CASE lost = {}
      BY <3>3, <3>5
    <3>6. CASE lost = {0}
      BY <3>2, <3>4, <3>6
    <3>7. CASE lost = {1}
      BY <3>2, <3>4, <3>7
    <3>8. CASE lost = Ports
      BY <3>3, <3>4, <3>8
    <3> QED
      BY <3>1, <3>5, <3>6, <3>7, <3>8
  <2> QED
    <3>1. (a[0].tx - before[0].tx) + (a[1].tx - before[1].tx) = 2
      <4>1. /\ count[0].tx \in Int /\ count[1].tx \in Int
            /\ before[0].tx \in Int /\ before[1].tx \in Int
        BY <1>1, <1>2
      <4>2. /\ a[0].tx \in Int /\ a[1].tx \in Int
            /\ a[0].tx + a[1].tx = count[0].tx + count[1].tx + 2
        BY <2>2, <4>1
      <4> HIDE DEF a
      <4> QED
        BY <1>4, <4>1, <4>2, Differences
    <3>2. (a[0].rx - before[0].rx) + (a[1].rx - before[1].rx) = 2 - Cardinality(lost)
      <4>1. /\ count[0].rx \in Int /\ count[1].rx \in Int
            /\ before[0].rx \in Int /\ before[1].rx \in Int
        BY <1>1, <1>2
      <4>2. a[0].rx + a[1].rx = count[0].rx + count[1].rx + (2 - Cardinality(lost))
        BY <2>3, <2>4, <4>1
      <4>3. a[0].rx \in Int /\ a[1].rx \in Int /\ 2 - Cardinality(lost) \in Int
        BY <2>3, <2>4, <4>1
      <4> HIDE DEF a
      <4> QED
        BY <1>4, <4>1, <4>2, <4>3, Differences
    <3>3. Cardinality(lost) \in Int
      BY <2>4
    <3>4. Result(before, a, 2) = [sent |-> 2, lost |-> Cardinality(lost)]
      BY <3>1, <3>2, <3>3 DEF Result
    <3> QED
      BY <1>4, <2>1, <3>4 DEF Truth, a
<1> QED
  BY <1>3, <1>4

\* A step that changes a result makes it that of the trial that ends.
LEMMA OwnTrialStep ==
  ASSUME IInv, [Next]_vars
  PROVE  \/ <<result, own>>' = <<result, own>>
         \/ pc = "async" /\ traffic.dirs # 2
         \/ result' = own'
<1> USE DEF libraryVars, trexVars, startVars
<1>0. /\ TypeOK /\ Running /\ References
      /\ count \in [Ports -> [tx : Nat, rx : Nat]] /\ xstats \in [Ports -> [tx : Nat, rx : Nat]]
  BY BoundAssumption DEF IInv, TypeOK
<1>1. CASE \E m \in Modes, swapped \in BOOLEAN : InitializeTrafficGenerator(m, swapped)
  BY <1>1 DEF InitializeTrafficGenerator
<1>2. CASE \E d \in 1..2 : StartAsync(d)
  BY <1>2 DEF StartAsync
<1>3. CASE SyncEnds
  <2>1. PICK lost \in SUBSET traffic.from :
          /\ result' = Result(count, After(traffic.from, lost), traffic.dirs)
          /\ own' = Truth(lost)
    BY <1>3 DEF SyncEnds
  <2>2. \/ traffic.dirs = 2 /\ traffic.from = Ports
        \/ traffic.dirs = 1 /\ traffic.from = {Port0}
    BY <1>0, <1>3 DEF Running, SyncEnds
  <2> QED
    BY <1>0, <2>1, <2>2, ReportIsTruth
<1>4. CASE StopTraffic /\ traffic.dirs = 2
  <2>1. PICK lost \in SUBSET traffic.from :
          result' = Result(xstats, After(traffic.from, lost), 2) /\ own' = Truth(lost)
    BY <1>4 DEF StopTraffic, StopReport
  <2>2. traffic.from = Ports
    BY <1>0, <1>4 DEF Running, StopTraffic
  <2>3. /\ xstats[0].tx + xstats[1].tx = count[0].tx + count[1].tx
        /\ xstats[0].rx + xstats[1].rx = count[0].rx + count[1].rx
    BY <1>0, <1>4 DEF References, StopTraffic
  <2> QED
    BY <1>0, <1>4, <2>1, <2>2, <2>3, ReportIsTruth
<1>5. CASE StopTraffic /\ traffic.dirs # 2
  BY <1>5 DEF StopTraffic
<1>6. CASE \/ KillTrex \/ StartTrex \/ AssertTrex \/ StartupFails \/ SetUpTest
           \/ \E d \in 1..2 : SendTraffic(d)
           \/ AstfKeyError \/ ScriptFails \/ TestFails \/ TestPasses \/ TearDownSuite
           \/ TrexFails
           \/ UNCHANGED vars
  BY <1>6 DEF vars, KillTrex, StartTrex, AssertTrex, StartupFails, SetUpTest, SendTraffic,
     AstfKeyError, ScriptFails, TestFails, TestPasses, TearDownSuite, TrexFails
<1> QED
  BY <1>1, <1>2, <1>3, <1>4, <1>5, <1>6 DEF Next, Startup

\* What a trial reports is what that trial sent and lost; of stopped trials
\* this is so for two directions.  (stop_traffic_on_tg, _parse_traffic_results)
THEOREM OwnTrialTheorem == Spec => OwnTrial
<1>1. IInv /\ [Next]_vars =>
        [\/ <<result, own>>' = <<result, own>>
         \/ pc = "async" /\ traffic.dirs # 2
         \/ result' = own']_vars
  BY OwnTrialStep
<1> QED
  BY <1>1, SpecIInv, PTL DEF Spec, OwnTrial
=============================================================================
