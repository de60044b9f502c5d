---------------------- MODULE TestbedReservationProofs ----------------------
(***************************************************************************)
(* Proofs about TestbedReservation, for any jobs, testbeds, TOPOLOGIES     *)
(* arrays and number of faults.                                            *)
(*                                                                         *)
(* MutualExclusion is not inductive: it rests on the fact that a job works *)
(* on a testbed only while the reservation directory is its own (Held),    *)
(* which rests on what the commands still under way may do to a directory: *)
(* a late "rm -r" is harmless only because its job is dead and nobody else *)
(* can have reserved the testbed in the meantime (LateRm).  The last part  *)
(* is about what is left behind: a directory whose job has gone has one of *)
(* the listed causes (LeakExplained), a tag in the directory of another    *)
(* job is of one that gave its testbed back (TagNamesHolder).              *)
(***************************************************************************)
EXTENDS TestbedReservation, TLAPS

\* Outside the span between the trap and the unreservation WORKING_TOPOLOGY is
\* empty; within it, it names a testbed whose directory this job created.
Held ==
  \A j \in Jobs :
    IF pc[j] \in Working \cup Unreserve
    THEN wt[j] \in Topos /\ dir[wt[j]] = j
    ELSE wt[j] = NoTopo

\* Between the mkdir and the trap the directory is the job's own.
JustReserved ==
  \A j \in Jobs : pc[j] \in {"touch", "reserved"} => dir[Topo(j)] = j

\* A late rm finds the directory of its own, dead, job, and is the only one.
LateRm ==
  \A c \in late : c.op = "rm" =>
    /\ dir[c.topo] = c.job
    /\ pc[c.job] = "dead" /\ exit[c.job] = "unreserve"
    /\ \A d \in late : d.op = "rm" /\ d.topo = c.topo => d = c

\* The trap is installed only while there is a testbed to give back.
TrapSpan ==
  \A j \in Jobs : trap[j] => pc[j] \in {"calibrate", "test"}

IInv == /\ TypeOK
        /\ Held
        /\ TrapSpan
        /\ JustReserved
        /\ LateRm

-----------------------------------------------------------------------------
(* What the pieces shared by the actions do to the types. *)

\* The for loop of reserve_and_cleanup_testbed always points at a testbed.
LEMMA TopoType ==
  ASSUME TypeOK, NEW j \in Jobs
  PROVE  Topo(j) \in Topos
BY TopologiesAssumption DEF TypeOK, Topo

\* A fault stays within the bound.
LEMMA FaultType ==
  ASSUME TypeOK, Fault
  PROVE  faults' \in 0 .. MaxFaults
BY MaxFaultsAssumption DEF TypeOK, Fault

\* A command without reply is added to the late commands.
LEMMA NoReplyType ==
  ASSUME TypeOK, NEW j \in Jobs, NEW t \in Topos,
         NEW op \in {"mkdir", "touch", "rm"}, NoReply(j, op, t)
  PROVE  /\ faults' \in 0 .. MaxFaults
         /\ lost' \in [Jobs -> BOOLEAN]
         /\ late' \in SUBSET Cmds
<1>1. faults' \in 0 .. MaxFaults
  BY FaultType DEF NoReply
<1>2. faults + 1 \in 1 .. MaxFaults
  BY MaxFaultsAssumption DEF TypeOK, NoReply, Fault
<1>3. [op |-> op, job |-> j, topo |-> t, id |-> faults + 1] \in Cmds
  BY <1>2 DEF Cmds
<1> QED BY <1>1, <1>3 DEF TypeOK, NoReply

\* The for loop moves one job to its next testbed or to sleep.
LEMMA NextTopologyType ==
  ASSUME TypeOK, NEW j \in Jobs, NextTopology(j)
  PROVE  /\ pc' \in [Jobs -> PC]
         /\ idx' \in [Jobs -> Nat]
         /\ \A k \in Jobs : idx'[k] \in 1 .. Len(Topologies[k])
         /\ pc'[j] \in {"mkdir", "sleep"}
         /\ \A k \in Jobs \ {j} : pc'[k] = pc[k] /\ idx'[k] = idx[k]
<1>1. CASE idx[j] < Len(Topologies[j])
  <2>1. /\ idx' = [idx EXCEPT ![j] = idx[j] + 1]
        /\ pc' = [pc EXCEPT ![j] = "mkdir"]
    BY <1>1 DEF NextTopology
  <2>2. Len(Topologies[j]) \in Nat /\ idx[j] \in Nat
    BY TopologiesAssumption DEF TypeOK
  <2> QED BY <1>1, <2>1, <2>2 DEF TypeOK, PC, Trying
<1>2. CASE ~(idx[j] < Len(Topologies[j]))
  <2>1. idx' = idx /\ pc' = [pc EXCEPT ![j] = "sleep"]
    BY <1>2 DEF NextTopology
  <2> QED BY <2>1 DEF TypeOK, PC
<1> QED BY <1>1, <1>2

\* An exiting shell runs its trap or ends.
LEMMA ExitType ==
  ASSUME TypeOK, NEW j \in Jobs, NEW r \in ExitReasons, Exit(j, r)
  PROVE  /\ pc' \in [Jobs -> PC]
         /\ wt' \in [Jobs -> Topos \cup {NoTopo}]
         /\ trap' \in [Jobs -> BOOLEAN]
         /\ exit' \in [Jobs -> ExitReasons]
         /\ \/ trap[j] /\ pc'[j] = "cleanup" /\ wt' = wt
            \/ ~trap[j] /\ pc'[j] = "dead" /\ wt' = [wt EXCEPT ![j] = NoTopo]
         /\ ~trap'[j]
         /\ \A k \in Jobs \ {j} : /\ pc'[k] = pc[k]
                                  /\ trap'[k] = trap[k]
                                  /\ exit'[k] = exit[k]
<1>1. CASE trap[j]
  BY <1>1 DEF Exit, TypeOK, PC, Working
<1>2. CASE ~trap[j]
  BY <1>2 DEF Exit, TypeOK, PC, Ended
<1> QED BY <1>1, <1>2

-----------------------------------------------------------------------------
(* Every action preserves the types.  The rm of a job needs Held: its      *)
(* WORKING_TOPOLOGY is not empty.                                          *)

\* No step of a job, the network or the testbeds breaks the types.
LEMMA TypeStep == TypeOK /\ Held /\ [Next]_vars => TypeOK'
<1> SUFFICES ASSUME TypeOK, Held, [Next]_vars PROVE TypeOK'
    OBVIOUS
<1>1. ASSUME NEW j \in Jobs, Step(j) PROVE TypeOK'
  <2>0. Topo(j) \in Topos
    BY TopoType
  <2>1. CASE Mkdir(j)
    <3>1. CASE up[Topo(j)] /\ dir[Topo(j)] = NoJob
      BY <2>0, <2>1, <3>1 DEF Mkdir, TypeOK, PC, Trying
    <3>2. CASE ~(up[Topo(j)] /\ dir[Topo(j)] = NoJob)
      <4>1. NextTopology(j) /\ dir' = dir
        BY <2>1, <3>2 DEF Mkdir
      <4> QED BY <4>1, <2>1, NextTopologyType DEF Mkdir, TypeOK
    <3> QED BY <3>1, <3>2
  <2>2. CASE Touch(j)
    BY <2>0, <2>2 DEF Touch, TypeOK, remoteVars, ExitReasons,
       PC, Trying, Working, Unreserve, Ended
  <2>3. CASE TouchUnreachable(j)
    BY <2>3, NextTopologyType DEF TouchUnreachable, TypeOK
  <2>4. CASE InstallTrap(j)
    BY <2>0, <2>4 DEF InstallTrap, TypeOK, remoteVars, ExitReasons,
       PC, Trying, Working, Unreserve, Ended
  <2>5. CASE CalibrationPasses(j)
    BY <2>0, <2>5 DEF CalibrationPasses, TypeOK, remoteVars, ExitReasons,
       PC, Trying, Working, Unreserve, Ended
  <2>6. CASE Sleep(j)
    <3>1. Len(Topologies[j]) >= 1
      BY TopologiesAssumption
    <3> QED BY <2>6, <3>1, TopologiesAssumption DEF Sleep, TypeOK, remoteVars, PC, Trying
  <2>7. CASE TestsFinish(j)
    BY <2>0, <2>7 DEF TestsFinish, TypeOK, remoteVars, ExitReasons,
       PC, Trying, Working, Unreserve, Ended
  <2>8. CASE TestsDie(j)
    <3>1. "test" \in ExitReasons
      BY DEF ExitReasons
    <3> QED BY <2>8, <3>1, ExitType DEF TestsDie, TypeOK, remoteVars
  <2>9. CASE CleanupPasses(j)
    BY <2>0, <2>9 DEF CleanupPasses, TypeOK, remoteVars, ExitReasons,
       PC, Trying, Working, Unreserve, Ended
  <2>10. CASE Rm(j)
    BY <2>0, <2>10 DEF Rm, TypeOK, remoteVars, ExitReasons,
       PC, Trying, Working, Unreserve, Ended
  <2> QED BY <1>1, <2>1, <2>2, <2>3, <2>4, <2>5, <2>6, <2>7, <2>8, <2>9, <2>10 DEF Step
<1>2. ASSUME NEW j \in Jobs, Failure(j) PROVE TypeOK'
  <2>0. Topo(j) \in Topos
    BY TopoType
  <2>1. CASE MkdirNoReply(j)
    BY <2>0, <2>1, NextTopologyType, NoReplyType DEF MkdirNoReply, TypeOK
  <2>2. CASE TouchRefused(j)
    BY <2>0, <2>2, FaultType DEF TouchRefused, TypeOK, remoteVars, ExitReasons,
       PC, Trying, Working, Unreserve, Ended
  <2>10. CASE TouchConnectionLost(j)
    <3>1. late' \in SUBSET Cmds
      <4>1. faults + 1 \in 1 .. MaxFaults
        BY <2>10, MaxFaultsAssumption DEF TouchConnectionLost, TypeOK, Fault
      <4> QED BY <2>0, <2>10, <4>1 DEF TouchConnectionLost, TypeOK, Cmds
    <3> QED BY <2>10, <3>1, FaultType DEF TouchConnectionLost, TypeOK, PC, Trying
  <2>3. CASE TouchTimeout(j)
    BY <2>0, <2>3, NextTopologyType, NoReplyType DEF TouchTimeout, TypeOK
  <2>4. CASE TrapFails(j)
    BY <2>0, <2>4, FaultType DEF TrapFails, TypeOK, remoteVars, ExitReasons,
       PC, Trying, Working, Unreserve, Ended
  <2>5. CASE CalibrationFails(j)
    <3>1. "calibration" \in ExitReasons
      BY DEF ExitReasons
    <3> QED BY <2>5, <3>1, ExitType, FaultType DEF CalibrationFails, TypeOK, remoteVars
  <2>6. CASE CleanupFails(j)
    <3>1. "ansible" \in ExitReasons
      BY DEF ExitReasons
    <3> QED BY <2>6, <3>1, ExitType, FaultType DEF CleanupFails, TypeOK, remoteVars
  <2>7. CASE RmNoReply(j)
    <3>1. wt[j] \in Topos
      BY <2>7 DEF RmNoReply, Held, Unreserve
    <3> QED BY <2>7, <3>1, NoReplyType DEF RmNoReply, TypeOK, PC, Ended, ExitReasons
  <2>8. CASE Abort(j)
    <3>1. (IF trap[j] THEN "term" ELSE "untrapped") \in ExitReasons
      BY DEF ExitReasons
    <3> QED BY <2>8, <3>1, ExitType, FaultType DEF Abort, TypeOK, remoteVars
  <2>9. CASE Kill(j)
    BY <2>0, <2>9, FaultType DEF Kill, TypeOK, remoteVars, ExitReasons,
       PC, Trying, Working, Unreserve, Ended
  <2> QED BY <1>2, <2>1, <2>2, <2>3, <2>4, <2>5, <2>6, <2>7, <2>8, <2>9, <2>10 DEF Failure
<1>3. ASSUME NEW c \in late, LateCommand(c) PROVE TypeOK'
  <2>1. c.job \in Jobs /\ c.topo \in Topos
    BY DEF TypeOK, Cmds
  <2>2. dir' \in [Topos -> Jobs \cup {NoJob}]
    BY <1>3, <2>1 DEF LateCommand, TypeOK
  <2>3. tags' \in [Topos -> SUBSET Jobs]
    BY <1>3, <2>1 DEF LateCommand, TypeOK
  <2> QED BY <1>3, <2>2, <2>3 DEF LateCommand, TypeOK
<1>4. ASSUME NEW t \in Topos, TgDown(t) PROVE TypeOK'
  BY <1>4, FaultType DEF TgDown, TypeOK
<1>5. ASSUME NEW t \in Topos, TgUp(t) PROVE TypeOK'
  BY <1>5 DEF TgUp, TypeOK
<1>6. CASE UNCHANGED vars
  BY <1>6 DEF vars, TypeOK
<1> QED BY <1>1, <1>2, <1>3, <1>4, <1>5, <1>6 DEF Next

-----------------------------------------------------------------------------
(* The inductive invariant: one lemma per conjunct, one step per action. *)

\* The trap goes before the testbed does.
LEMMA TrapSpanStep == IInv /\ [Next]_vars => TrapSpan'
<1> SUFFICES ASSUME IInv, [Next]_vars PROVE TrapSpan'
    OBVIOUS
<1>0. TypeOK /\ TypeOK'
  BY TypeStep DEF IInv
<1> USE JobsAssumption DEF IInv, TypeOK, Cmds, TrapSpan, Working, Unreserve, Trying, Ended
<1>1. ASSUME NEW j \in Jobs, Step(j) PROVE TrapSpan'
  <2>0. Topo(j) \in Topos
    BY TopoType DEF IInv
  <2>1. CASE Mkdir(j)
    <3>1. CASE up[Topo(j)] /\ dir[Topo(j)] = NoJob
      BY <1>0, <2>0, <2>1, <3>1 DEF Mkdir
    <3>2. CASE ~(up[Topo(j)] /\ dir[Topo(j)] = NoJob)
      <4>1. NextTopology(j) /\ dir' = dir
        BY <2>1, <3>2 DEF Mkdir
      <4>2. /\ pc'[j] \in {"mkdir", "sleep"}
            /\ \A k \in Jobs \ {j} : pc'[k] = pc[k] /\ idx'[k] = idx[k]
        BY <1>0, <4>1, NextTopologyType
      <4> QED BY <1>0, <2>1, <4>1, <4>2 DEF Mkdir
    <3> QED BY <3>1, <3>2
  <2>2. CASE Touch(j)
    BY <1>0, <2>0, <2>2 DEF Touch
  <2>3. CASE TouchUnreachable(j)
    <3>1. /\ pc'[j] \in {"mkdir", "sleep"}
          /\ \A k \in Jobs \ {j} : pc'[k] = pc[k] /\ idx'[k] = idx[k]
      BY <1>0, <2>3, NextTopologyType DEF TouchUnreachable
    <3> QED BY <1>0, <2>0, <2>3, <3>1 DEF TouchUnreachable
  <2>4. CASE InstallTrap(j)
    BY <1>0, <2>0, <2>4 DEF InstallTrap, remoteVars
  <2>5. CASE CalibrationPasses(j)
    BY <1>0, <2>0, <2>5 DEF CalibrationPasses, remoteVars
  <2>6. CASE Sleep(j)
    BY <1>0, <2>0, <2>6 DEF Sleep, remoteVars
  <2>7. CASE TestsFinish(j)
    BY <1>0, <2>0, <2>7 DEF TestsFinish, remoteVars
  <2>8. CASE TestsDie(j)
    <3>1. "test" \in ExitReasons
      BY DEF ExitReasons
    <3>2. /\ \/ trap[j] /\ pc'[j] = "cleanup" /\ wt' = wt
             \/ ~trap[j] /\ pc'[j] = "dead" /\ wt' = [wt EXCEPT ![j] = NoTopo]
          /\ ~trap'[j]
          /\ \A k \in Jobs \ {j} : /\ pc'[k] = pc[k]
                                   /\ trap'[k] = trap[k]
                                   /\ exit'[k] = exit[k]
      BY <1>0, <2>8, <3>1, ExitType DEF TestsDie
    <3> QED BY <1>0, <2>0, <2>8, <3>2 DEF TestsDie, remoteVars
  <2>9. CASE CleanupPasses(j)
    BY <1>0, <2>0, <2>9 DEF CleanupPasses, remoteVars
  <2>10. CASE Rm(j)
    BY <1>0, <2>0, <2>10 DEF Rm
  <2> QED BY <1>1, <2>1, <2>2, <2>3, <2>4, <2>5, <2>6, <2>7, <2>8, <2>9, <2>10 DEF Step
<1>2. ASSUME NEW j \in Jobs, Failure(j) PROVE TrapSpan'
  <2>0. Topo(j) \in Topos
    BY TopoType DEF IInv
  <2>1. CASE MkdirNoReply(j)
    <3>1. /\ pc'[j] \in {"mkdir", "sleep"}
          /\ \A k \in Jobs \ {j} : pc'[k] = pc[k] /\ idx'[k] = idx[k]
      BY <1>0, <2>1, NextTopologyType DEF MkdirNoReply
    <3> QED BY <1>0, <2>0, <2>1, <3>1 DEF MkdirNoReply, NoReply
  <2>2. CASE TouchRefused(j)
    BY <1>0, <2>0, <2>2 DEF TouchRefused
  <2>10. CASE TouchConnectionLost(j)
    BY <1>0, <2>0, <2>10 DEF TouchConnectionLost
  <2>3. CASE TouchTimeout(j)
    <3>1. /\ pc'[j] \in {"mkdir", "sleep"}
          /\ \A k \in Jobs \ {j} : pc'[k] = pc[k] /\ idx'[k] = idx[k]
      BY <1>0, <2>3, NextTopologyType DEF TouchTimeout
    <3> QED BY <1>0, <2>0, <2>3, <3>1 DEF TouchTimeout, NoReply
  <2>4. CASE TrapFails(j)
    BY <1>0, <2>0, <2>4 DEF TrapFails, remoteVars
  <2>5. CASE CalibrationFails(j)
    <3>1. "calibration" \in ExitReasons
      BY DEF ExitReasons
    <3>2. /\ \/ trap[j] /\ pc'[j] = "cleanup" /\ wt' = wt
             \/ ~trap[j] /\ pc'[j] = "dead" /\ wt' = [wt EXCEPT ![j] = NoTopo]
          /\ ~trap'[j]
          /\ \A k \in Jobs \ {j} : /\ pc'[k] = pc[k]
                                   /\ trap'[k] = trap[k]
                                   /\ exit'[k] = exit[k]
      BY <1>0, <2>5, <3>1, ExitType DEF CalibrationFails
    <3> QED BY <1>0, <2>0, <2>5, <3>2 DEF CalibrationFails, remoteVars
  <2>6. CASE CleanupFails(j)
    <3>1. "ansible" \in ExitReasons
      BY DEF ExitReasons
    <3>2. /\ \/ trap[j] /\ pc'[j] = "cleanup" /\ wt' = wt
             \/ ~trap[j] /\ pc'[j] = "dead" /\ wt' = [wt EXCEPT ![j] = NoTopo]
          /\ ~trap'[j]
          /\ \A k \in Jobs \ {j} : /\ pc'[k] = pc[k]
                                   /\ trap'[k] = trap[k]
                                   /\ exit'[k] = exit[k]
      BY <1>0, <2>6, <3>1, ExitType DEF CleanupFails
    <3> QED BY <1>0, <2>0, <2>6, <3>2 DEF CleanupFails, remoteVars
  <2>7. CASE RmNoReply(j)
    BY <1>0, <2>0, <2>7 DEF RmNoReply, NoReply
  <2>8. CASE Abort(j)
    <3>1. (IF trap[j] THEN "term" ELSE "untrapped") \in ExitReasons
      BY DEF ExitReasons
    <3>2. /\ \/ trap[j] /\ pc'[j] = "cleanup" /\ wt' = wt
             \/ ~trap[j] /\ pc'[j] = "dead" /\ wt' = [wt EXCEPT ![j] = NoTopo]
          /\ ~trap'[j]
          /\ \A k \in Jobs \ {j} : /\ pc'[k] = pc[k]
                                   /\ trap'[k] = trap[k]
                                   /\ exit'[k] = exit[k]
      BY <1>0, <2>8, <3>1, ExitType DEF Abort
    <3> QED BY <1>0, <2>0, <2>8, <3>2 DEF Abort, remoteVars
  <2>9. CASE Kill(j)
    BY <1>0, <2>0, <2>9 DEF Kill, remoteVars
  <2> QED BY <1>2, <2>1, <2>2, <2>3, <2>4, <2>5, <2>6, <2>7, <2>8, <2>9, <2>10 DEF Failure
<1>3. ASSUME NEW c \in late, LateCommand(c) PROVE TrapSpan'
  BY <1>0, <1>3 DEF LateCommand
<1>4. ASSUME NEW t \in Topos, TgDown(t) \/ TgUp(t) PROVE TrapSpan'
  BY <1>4 DEF TgDown, TgUp
<1>5. CASE UNCHANGED vars
  BY <1>5 DEF vars
<1> QED BY <1>1, <1>2, <1>3, <1>4, <1>5 DEF Next

\* WORKING_TOPOLOGY keeps naming a directory of the job's own.
LEMMA HeldStep == IInv /\ [Next]_vars => Held'
<1> SUFFICES ASSUME IInv, [Next]_vars PROVE Held'
    OBVIOUS
<1>0. TypeOK /\ TypeOK'
  BY TypeStep DEF IInv
<1> USE JobsAssumption DEF IInv, TypeOK, Cmds, Held, TrapSpan, JustReserved, LateRm, Working, Unreserve, Trying, Ended
<1>1. ASSUME NEW j \in Jobs, Step(j) PROVE Held'
  <2>0. Topo(j) \in Topos
    BY TopoType DEF IInv
  <2>1. CASE Mkdir(j)
    <3>1. CASE up[Topo(j)] /\ dir[Topo(j)] = NoJob
      <4>1. /\ dir' = [dir EXCEPT ![Topo(j)] = j]
            /\ pc' = [pc EXCEPT ![j] = "touch"]
            /\ wt' = wt
        BY <2>1, <3>1 DEF Mkdir
      <4> SUFFICES ASSUME NEW k \in Jobs
                   PROVE  IF pc'[k] \in Working \cup Unreserve
                          THEN wt'[k] \in Topos /\ dir'[wt'[k]] = k
                          ELSE wt'[k] = NoTopo
        OBVIOUS
      <4>2. CASE k = j
        BY <2>1, <4>1, <4>2 DEF Mkdir
      <4>3. CASE k # j
        <5>1. pc'[k] = pc[k] /\ wt'[k] = wt[k]
          BY <4>1, <4>3
        <5>2. wt[k] \in Topos /\ dir[wt[k]] = k => wt[k] # Topo(j)
          BY <3>1
        <5> QED BY <2>0, <4>1, <5>1, <5>2
      <4> QED BY <4>2, <4>3
    <3>2. CASE ~(up[Topo(j)] /\ dir[Topo(j)] = NoJob)
      <4>1. NextTopology(j) /\ dir' = dir
        BY <2>1, <3>2 DEF Mkdir
      <4>2. /\ pc'[j] \in {"mkdir", "sleep"}
            /\ \A k \in Jobs \ {j} : pc'[k] = pc[k] /\ idx'[k] = idx[k]
        BY <1>0, <4>1, NextTopologyType
      <4> QED BY <1>0, <2>1, <4>1, <4>2 DEF Mkdir
    <3> QED BY <3>1, <3>2
  <2>2. CASE Touch(j)
    BY <1>0, <2>0, <2>2 DEF Touch
  <2>3. CASE TouchUnreachable(j)
    <3>1. /\ pc'[j] \in {"mkdir", "sleep"}
          /\ \A k \in Jobs \ {j} : pc'[k] = pc[k] /\ idx'[k] = idx[k]
      BY <1>0, <2>3, NextTopologyType DEF TouchUnreachable
    <3> QED BY <1>0, <2>0, <2>3, <3>1 DEF TouchUnreachable
  <2>4. CASE InstallTrap(j)
    BY <1>0, <2>0, <2>4 DEF InstallTrap, remoteVars
  <2>5. CASE CalibrationPasses(j)
    BY <1>0, <2>0, <2>5 DEF CalibrationPasses, remoteVars
  <2>6. CASE Sleep(j)
    BY <1>0, <2>0, <2>6 DEF Sleep, remoteVars
  <2>7. CASE TestsFinish(j)
    BY <1>0, <2>0, <2>7 DEF TestsFinish, remoteVars
  <2>8. CASE TestsDie(j)
    <3>1. "test" \in ExitReasons
      BY DEF ExitReasons
    <3>2. /\ \/ trap[j] /\ pc'[j] = "cleanup" /\ wt' = wt
             \/ ~trap[j] /\ pc'[j] = "dead" /\ wt' = [wt EXCEPT ![j] = NoTopo]
          /\ \A k \in Jobs \ {j} : pc'[k] = pc[k]
      BY <1>0, <2>8, <3>1, ExitType DEF TestsDie
    <3>3. dir' = dir
      BY <2>8 DEF TestsDie, remoteVars
    <3>4. trap[j] => wt[j] \in Topos /\ dir[wt[j]] = j
      OBVIOUS
    <3> SUFFICES ASSUME NEW k \in Jobs
                 PROVE  IF pc'[k] \in Working \cup Unreserve
                        THEN wt'[k] \in Topos /\ dir'[wt'[k]] = k
                        ELSE wt'[k] = NoTopo
      OBVIOUS
    <3>5. CASE k = j
      BY <3>2, <3>3, <3>4, <3>5
    <3>6. CASE k # j
      BY <3>2, <3>3, <3>6
    <3> QED BY <3>5, <3>6
  <2>9. CASE CleanupPasses(j)
    BY <1>0, <2>0, <2>9 DEF CleanupPasses, remoteVars
  <2>10. CASE Rm(j)
    BY <1>0, <2>0, <2>10 DEF Rm
  <2> QED BY <1>1, <2>1, <2>2, <2>3, <2>4, <2>5, <2>6, <2>7, <2>8, <2>9, <2>10 DEF Step
<1>2. ASSUME NEW j \in Jobs, Failure(j) PROVE Held'
  <2>0. Topo(j) \in Topos
    BY TopoType DEF IInv
  <2>1. CASE MkdirNoReply(j)
    <3>1. /\ pc'[j] \in {"mkdir", "sleep"}
          /\ \A k \in Jobs \ {j} : pc'[k] = pc[k] /\ idx'[k] = idx[k]
      BY <1>0, <2>1, NextTopologyType DEF MkdirNoReply
    <3> QED BY <1>0, <2>0, <2>1, <3>1 DEF MkdirNoReply, NoReply
  <2>2. CASE TouchRefused(j)
    BY <1>0, <2>0, <2>2 DEF TouchRefused
  <2>10. CASE TouchConnectionLost(j)
    BY <1>0, <2>0, <2>10 DEF TouchConnectionLost
  <2>3. CASE TouchTimeout(j)
    <3>1. /\ pc'[j] \in {"mkdir", "sleep"}
          /\ \A k \in Jobs \ {j} : pc'[k] = pc[k] /\ idx'[k] = idx[k]
      BY <1>0, <2>3, NextTopologyType DEF TouchTimeout
    <3>2. dir' = dir /\ wt' = wt /\ pc[j] = "touch"
      BY <2>3 DEF TouchTimeout
    <3> QED BY <3>1, <3>2
  <2>4. CASE TrapFails(j)
    BY <1>0, <2>0, <2>4 DEF TrapFails, remoteVars
  <2>5. CASE CalibrationFails(j)
    <3>1. "calibration" \in ExitReasons
      BY DEF ExitReasons
    <3>2. /\ \/ trap[j] /\ pc'[j] = "cleanup" /\ wt' = wt
             \/ ~trap[j] /\ pc'[j] = "dead" /\ wt' = [wt EXCEPT ![j] = NoTopo]
          /\ \A k \in Jobs \ {j} : pc'[k] = pc[k]
      BY <1>0, <2>5, <3>1, ExitType DEF CalibrationFails
    <3>3. dir' = dir
      BY <2>5 DEF CalibrationFails, remoteVars
    <3>4. trap[j] => wt[j] \in Topos /\ dir[wt[j]] = j
      OBVIOUS
    <3> SUFFICES ASSUME NEW k \in Jobs
                 PROVE  IF pc'[k] \in Working \cup Unreserve
                        THEN wt'[k] \in Topos /\ dir'[wt'[k]] = k
                        ELSE wt'[k] = NoTopo
      OBVIOUS
    <3>5. CASE k = j
      BY <3>2, <3>3, <3>4, <3>5
    <3>6. CASE k # j
      BY <3>2, <3>3, <3>6
    <3> QED BY <3>5, <3>6
  <2>6. CASE CleanupFails(j)
    <3>1. "ansible" \in ExitReasons
      BY DEF ExitReasons
    <3>2. /\ \/ trap[j] /\ pc'[j] = "cleanup" /\ wt' = wt
             \/ ~trap[j] /\ pc'[j] = "dead" /\ wt' = [wt EXCEPT ![j] = NoTopo]
          /\ \A k \in Jobs \ {j} : pc'[k] = pc[k]
      BY <1>0, <2>6, <3>1, ExitType DEF CleanupFails
    <3>3. dir' = dir
      BY <2>6 DEF CleanupFails, remoteVars
    <3>4. trap[j] => wt[j] \in Topos /\ dir[wt[j]] = j
      OBVIOUS
    <3> SUFFICES ASSUME NEW k \in Jobs
                 PROVE  IF pc'[k] \in Working \cup Unreserve
                        THEN wt'[k] \in Topos /\ dir'[wt'[k]] = k
                        ELSE wt'[k] = NoTopo
      OBVIOUS
    <3>5. CASE k = j
      BY <3>2, <3>3, <3>4, <3>5
    <3>6. CASE k # j
      BY <3>2, <3>3, <3>6
    <3> QED BY <3>5, <3>6
  <2>7. CASE RmNoReply(j)
    BY <1>0, <2>0, <2>7 DEF RmNoReply, NoReply
  <2>8. CASE Abort(j)
    <3>1. (IF trap[j] THEN "term" ELSE "untrapped") \in ExitReasons
      BY DEF ExitReasons
    <3>2. /\ \/ trap[j] /\ pc'[j] = "cleanup" /\ wt' = wt
             \/ ~trap[j] /\ pc'[j] = "dead" /\ wt' = [wt EXCEPT ![j] = NoTopo]
          /\ \A k \in Jobs \ {j} : pc'[k] = pc[k]
      BY <1>0, <2>8, <3>1, ExitType DEF Abort
    <3>3. dir' = dir
      BY <2>8 DEF Abort, remoteVars
    <3>4. trap[j] => wt[j] \in Topos /\ dir[wt[j]] = j
      OBVIOUS
    <3> SUFFICES ASSUME NEW k \in Jobs
                 PROVE  IF pc'[k] \in Working \cup Unreserve
                        THEN wt'[k] \in Topos /\ dir'[wt'[k]] = k
                        ELSE wt'[k] = NoTopo
      OBVIOUS
    <3>5. CASE k = j
      BY <3>2, <3>3, <3>4, <3>5
    <3>6. CASE k # j
      BY <3>2, <3>3, <3>6
    <3> QED BY <3>5, <3>6
  <2>9. CASE Kill(j)
    BY <1>0, <2>0, <2>9 DEF Kill, remoteVars
  <2> QED BY <1>2, <2>1, <2>2, <2>3, <2>4, <2>5, <2>6, <2>7, <2>8, <2>9, <2>10 DEF Failure
<1>3. ASSUME NEW c \in late, LateCommand(c) PROVE Held'
  BY <1>0, <1>3 DEF LateCommand
<1>4. ASSUME NEW t \in Topos, TgDown(t) \/ TgUp(t) PROVE Held'
  BY <1>4 DEF TgDown, TgUp
<1>5. CASE UNCHANGED vars
  BY <1>5 DEF vars
<1> QED BY <1>1, <1>2, <1>3, <1>4, <1>5 DEF Next

\* The directory stays the job's own until the trap is installed.
LEMMA JustReservedStep == IInv /\ [Next]_vars => JustReserved'
<1> SUFFICES ASSUME IInv, [Next]_vars PROVE JustReserved'
    OBVIOUS
<1>0. TypeOK /\ TypeOK'
  BY TypeStep DEF IInv
<1> USE JobsAssumption DEF IInv, TypeOK, Cmds, Held, JustReserved, LateRm, Topo, Working, Unreserve, Ended
<1>1. ASSUME NEW j \in Jobs, Step(j) PROVE JustReserved'
  <2>0. Topo(j) \in Topos
    BY TopoType DEF IInv
  <2>1. CASE Mkdir(j)
    <3>1. CASE up[Topo(j)] /\ dir[Topo(j)] = NoJob
      <4>1. /\ dir' = [dir EXCEPT ![Topo(j)] = j]
            /\ pc' = [pc EXCEPT ![j] = "touch"]
            /\ idx' = idx
        BY <2>1, <3>1 DEF Mkdir
      <4> SUFFICES ASSUME NEW k \in Jobs, pc'[k] \in {"touch", "reserved"}
                   PROVE  dir'[Topologies[k][idx'[k]]] = k
        OBVIOUS
      <4>2. CASE k = j
        BY <2>0, <4>1, <4>2
      <4>3. CASE k # j
        <5>1. Topo(k) \in Topos /\ dir[Topo(k)] = k
          BY <1>0, <4>1, <4>3, TopoType
        <5> QED BY <2>0, <3>1, <4>1, <5>1
      <4> QED BY <4>2, <4>3
    <3>2. CASE ~(up[Topo(j)] /\ dir[Topo(j)] = NoJob)
      <4>1. NextTopology(j) /\ dir' = dir
        BY <2>1, <3>2 DEF Mkdir
      <4>2. /\ pc'[j] \in {"mkdir", "sleep"}
            /\ \A k \in Jobs \ {j} : pc'[k] = pc[k] /\ idx'[k] = idx[k]
        BY <1>0, <4>1, NextTopologyType
      <4> QED BY <1>0, <2>1, <4>1, <4>2 DEF Mkdir
    <3> QED BY <3>1, <3>2
  <2>2. CASE Touch(j)
    BY <1>0, <2>0, <2>2 DEF Touch
  <2>3. CASE TouchUnreachable(j)
    <3>1. /\ pc'[j] \in {"mkdir", "sleep"}
          /\ \A k \in Jobs \ {j} : pc'[k] = pc[k] /\ idx'[k] = idx[k]
      BY <1>0, <2>3, NextTopologyType DEF TouchUnreachable
    <3> QED BY <1>0, <2>0, <2>3, <3>1 DEF TouchUnreachable
  <2>4. CASE InstallTrap(j)
    BY <1>0, <2>0, <2>4 DEF InstallTrap, remoteVars
  <2>5. CASE CalibrationPasses(j)
    BY <1>0, <2>0, <2>5 DEF CalibrationPasses, remoteVars
  <2>6. CASE Sleep(j)
    BY <1>0, <2>0, <2>6 DEF Sleep, remoteVars
  <2>7. CASE TestsFinish(j)
    BY <1>0, <2>0, <2>7 DEF TestsFinish, remoteVars
  <2>8. CASE TestsDie(j)
    <3>1. "test" \in ExitReasons
      BY DEF ExitReasons
    <3>2. /\ \/ trap[j] /\ pc'[j] = "cleanup" /\ wt' = wt
             \/ ~trap[j] /\ pc'[j] = "dead" /\ wt' = [wt EXCEPT ![j] = NoTopo]
          /\ ~trap'[j]
          /\ \A k \in Jobs \ {j} : /\ pc'[k] = pc[k]
                                   /\ trap'[k] = trap[k]
                                   /\ exit'[k] = exit[k]
      BY <1>0, <2>8, <3>1, ExitType DEF TestsDie
    <3> QED BY <1>0, <2>0, <2>8, <3>2 DEF TestsDie, remoteVars
  <2>9. CASE CleanupPasses(j)
    BY <1>0, <2>0, <2>9 DEF CleanupPasses, remoteVars
  <2>10. CASE Rm(j)
    <3>1. /\ wt[j] \in Topos /\ dir[wt[j]] = j
          /\ dir' = dir \/ dir' = [dir EXCEPT ![wt[j]] = NoJob]
          /\ idx' = idx
          /\ pc'[j] \in {"done", "dead"}
          /\ \A k \in Jobs \ {j} : pc'[k] = pc[k]
      BY <2>10 DEF Rm
    <3> SUFFICES ASSUME NEW k \in Jobs, pc'[k] \in {"touch", "reserved"}
                 PROVE  dir'[Topologies[k][idx'[k]]] = k
      OBVIOUS
    <3>2. k # j
      BY <3>1
    <3>3. Topo(k) \in Topos /\ dir[Topo(k)] = k
      BY <1>0, <3>1, <3>2, TopoType
    <3> QED BY <3>1, <3>2, <3>3
  <2> QED BY <1>1, <2>1, <2>2, <2>3, <2>4, <2>5, <2>6, <2>7, <2>8, <2>9, <2>10 DEF Step
<1>2. ASSUME NEW j \in Jobs, Failure(j) PROVE JustReserved'
  <2>0. Topo(j) \in Topos
    BY TopoType DEF IInv
  <2>1. CASE MkdirNoReply(j)
    <3>1. /\ pc'[j] \in {"mkdir", "sleep"}
          /\ \A k \in Jobs \ {j} : pc'[k] = pc[k] /\ idx'[k] = idx[k]
      BY <1>0, <2>1, NextTopologyType DEF MkdirNoReply
    <3> QED BY <1>0, <2>0, <2>1, <3>1 DEF MkdirNoReply, NoReply
  <2>2. CASE TouchRefused(j)
    BY <1>0, <2>0, <2>2 DEF TouchRefused
  <2>10. CASE TouchConnectionLost(j)
    BY <1>0, <2>0, <2>10 DEF TouchConnectionLost
  <2>3. CASE TouchTimeout(j)
    <3>1. /\ pc'[j] \in {"mkdir", "sleep"}
          /\ \A k \in Jobs \ {j} : pc'[k] = pc[k] /\ idx'[k] = idx[k]
      BY <1>0, <2>3, NextTopologyType DEF TouchTimeout
    <3> QED BY <1>0, <2>0, <2>3, <3>1 DEF TouchTimeout, NoReply
  <2>4. CASE TrapFails(j)
    BY <1>0, <2>0, <2>4 DEF TrapFails, remoteVars
  <2>5. CASE CalibrationFails(j)
    <3>1. "calibration" \in ExitReasons
      BY DEF ExitReasons
    <3>2. /\ \/ trap[j] /\ pc'[j] = "cleanup" /\ wt' = wt
             \/ ~trap[j] /\ pc'[j] = "dead" /\ wt' = [wt EXCEPT ![j] = NoTopo]
          /\ ~trap'[j]
          /\ \A k \in Jobs \ {j} : /\ pc'[k] = pc[k]
                                   /\ trap'[k] = trap[k]
                                   /\ exit'[k] = exit[k]
      BY <1>0, <2>5, <3>1, ExitType DEF CalibrationFails
    <3> QED BY <1>0, <2>0, <2>5, <3>2 DEF CalibrationFails, remoteVars
  <2>6. CASE CleanupFails(j)
    <3>1. "ansible" \in ExitReasons
      BY DEF ExitReasons
    <3>2. /\ \/ trap[j] /\ pc'[j] = "cleanup" /\ wt' = wt
             \/ ~trap[j] /\ pc'[j] = "dead" /\ wt' = [wt EXCEPT ![j] = NoTopo]
          /\ ~trap'[j]
          /\ \A k \in Jobs \ {j} : /\ pc'[k] = pc[k]
                                   /\ trap'[k] = trap[k]
                                   /\ exit'[k] = exit[k]
      BY <1>0, <2>6, <3>1, ExitType DEF CleanupFails
    <3> QED BY <1>0, <2>0, <2>6, <3>2 DEF CleanupFails, remoteVars
  <2>7. CASE RmNoReply(j)
    BY <1>0, <2>0, <2>7 DEF RmNoReply, NoReply
  <2>8. CASE Abort(j)
    <3>1. (IF trap[j] THEN "term" ELSE "untrapped") \in ExitReasons
      BY DEF ExitReasons
    <3>2. /\ \/ trap[j] /\ pc'[j] = "cleanup" /\ wt' = wt
             \/ ~trap[j] /\ pc'[j] = "dead" /\ wt' = [wt EXCEPT ![j] = NoTopo]
          /\ ~trap'[j]
          /\ \A k \in Jobs \ {j} : /\ pc'[k] = pc[k]
                                   /\ trap'[k] = trap[k]
                                   /\ exit'[k] = exit[k]
      BY <1>0, <2>8, <3>1, ExitType DEF Abort
    <3> QED BY <1>0, <2>0, <2>8, <3>2 DEF Abort, remoteVars
  <2>9. CASE Kill(j)
    BY <1>0, <2>0, <2>9 DEF Kill, remoteVars
  <2> QED BY <1>2, <2>1, <2>2, <2>3, <2>4, <2>5, <2>6, <2>7, <2>8, <2>9, <2>10 DEF Failure
<1>3. ASSUME NEW c \in late, LateCommand(c) PROVE JustReserved'
  <2> SUFFICES ASSUME NEW k \in Jobs, pc'[k] \in {"touch", "reserved"}
               PROVE  dir'[Topologies[k][idx'[k]]] = k
    OBVIOUS
  <2>1. pc'[k] = pc[k] /\ idx'[k] = idx[k]
    BY <1>3 DEF LateCommand
  <2>2. Topo(k) \in Topos /\ dir[Topo(k)] = k
    BY <1>0, <2>1, TopoType
  <2>3. CASE c.op = "mkdir" \/ c.op = "touch"
    <3>1. \A t \in Topos : dir[t] # NoJob => dir'[t] = dir[t]
      BY <1>3, <2>3 DEF LateCommand
    <3> QED BY <2>1, <2>2, <3>1
  <2>4. CASE c.op = "rm"
    <3>1. Topo(k) # c.topo
      BY <2>1, <2>2, <2>4
    <3>2. dir' = [dir EXCEPT ![c.topo] = NoJob]
      BY <1>3, <2>4 DEF LateCommand
    <3> QED BY <2>1, <2>2, <3>1, <3>2
  <2> QED BY <1>3, <2>3, <2>4 DEF LateCommand
<1>4. ASSUME NEW t \in Topos, TgDown(t) \/ TgUp(t) PROVE JustReserved'
  BY <1>4 DEF TgDown, TgUp
<1>5. CASE UNCHANGED vars
  BY <1>5 DEF vars
<1> QED BY <1>1, <1>2, <1>3, <1>4, <1>5 DEF Next

\* A late rm keeps finding the directory of its dead job.
LEMMA LateRmStep == IInv /\ [Next]_vars => LateRm'
<1> SUFFICES ASSUME IInv, [Next]_vars PROVE LateRm'
    OBVIOUS
<1>0. TypeOK /\ TypeOK'
  BY TypeStep DEF IInv
<1> USE JobsAssumption DEF IInv, TypeOK, Cmds, Held, LateRm, Working, Unreserve, Ended
<1>1. ASSUME NEW j \in Jobs, Step(j) PROVE LateRm'
  <2>0. Topo(j) \in Topos
    BY TopoType DEF IInv
  <2>1. CASE Mkdir(j)
    <3>1. CASE up[Topo(j)] /\ dir[Topo(j)] = NoJob
      BY <1>0, <2>0, <2>1, <3>1 DEF Mkdir
    <3>2. CASE ~(up[Topo(j)] /\ dir[Topo(j)] = NoJob)
      <4>1. NextTopology(j) /\ dir' = dir
        BY <2>1, <3>2 DEF Mkdir
      <4>2. /\ pc'[j] \in {"mkdir", "sleep"}
            /\ \A k \in Jobs \ {j} : pc'[k] = pc[k] /\ idx'[k] = idx[k]
        BY <1>0, <4>1, NextTopologyType
      <4> QED BY <1>0, <2>1, <4>1, <4>2 DEF Mkdir
    <3> QED BY <3>1, <3>2
  <2>2. CASE Touch(j)
    BY <1>0, <2>0, <2>2 DEF Touch
  <2>3. CASE TouchUnreachable(j)
    <3>1. /\ pc'[j] \in {"mkdir", "sleep"}
          /\ \A k \in Jobs \ {j} : pc'[k] = pc[k] /\ idx'[k] = idx[k]
      BY <1>0, <2>3, NextTopologyType DEF TouchUnreachable
    <3> QED BY <1>0, <2>0, <2>3, <3>1 DEF TouchUnreachable
  <2>4. CASE InstallTrap(j)
    BY <1>0, <2>0, <2>4 DEF InstallTrap, remoteVars
  <2>5. CASE CalibrationPasses(j)
    BY <1>0, <2>0, <2>5 DEF CalibrationPasses, remoteVars
  <2>6. CASE Sleep(j)
    BY <1>0, <2>0, <2>6 DEF Sleep, remoteVars
  <2>7. CASE TestsFinish(j)
    BY <1>0, <2>0, <2>7 DEF TestsFinish, remoteVars
  <2>8. CASE TestsDie(j)
    <3>1. "test" \in ExitReasons
      BY DEF ExitReasons
    <3>2. /\ \/ trap[j] /\ pc'[j] = "cleanup" /\ wt' = wt
             \/ ~trap[j] /\ pc'[j] = "dead" /\ wt' = [wt EXCEPT ![j] = NoTopo]
          /\ ~trap'[j]
          /\ \A k \in Jobs \ {j} : /\ pc'[k] = pc[k]
                                   /\ trap'[k] = trap[k]
                                   /\ exit'[k] = exit[k]
      BY <1>0, <2>8, <3>1, ExitType DEF TestsDie
    <3> QED BY <1>0, <2>0, <2>8, <3>2 DEF TestsDie, remoteVars
  <2>9. CASE CleanupPasses(j)
    BY <1>0, <2>0, <2>9 DEF CleanupPasses, remoteVars
  <2>10. CASE Rm(j)
    BY <1>0, <2>0, <2>10 DEF Rm
  <2> QED BY <1>1, <2>1, <2>2, <2>3, <2>4, <2>5, <2>6, <2>7, <2>8, <2>9, <2>10 DEF Step
<1>2. ASSUME NEW j \in Jobs, Failure(j) PROVE LateRm'
  <2>0. Topo(j) \in Topos
    BY TopoType DEF IInv
  <2>1. CASE MkdirNoReply(j)
    <3>1. /\ pc'[j] \in {"mkdir", "sleep"}
          /\ \A k \in Jobs \ {j} : pc'[k] = pc[k] /\ idx'[k] = idx[k]
      BY <1>0, <2>1, NextTopologyType DEF MkdirNoReply
    <3> QED BY <1>0, <2>0, <2>1, <3>1 DEF MkdirNoReply, NoReply
  <2>2. CASE TouchRefused(j)
    BY <1>0, <2>0, <2>2 DEF TouchRefused
  <2>10. CASE TouchConnectionLost(j)
    BY <1>0, <2>0, <2>10 DEF TouchConnectionLost
  <2>3. CASE TouchTimeout(j)
    <3>1. /\ pc'[j] \in {"mkdir", "sleep"}
          /\ \A k \in Jobs \ {j} : pc'[k] = pc[k] /\ idx'[k] = idx[k]
      BY <1>0, <2>3, NextTopologyType DEF TouchTimeout
    <3> QED BY <1>0, <2>0, <2>3, <3>1 DEF TouchTimeout, NoReply
  <2>4. CASE TrapFails(j)
    BY <1>0, <2>0, <2>4 DEF TrapFails, remoteVars
  <2>5. CASE CalibrationFails(j)
    <3>1. "calibration" \in ExitReasons
      BY DEF ExitReasons
    <3>2. /\ \/ trap[j] /\ pc'[j] = "cleanup" /\ wt' = wt
             \/ ~trap[j] /\ pc'[j] = "dead" /\ wt' = [wt EXCEPT ![j] = NoTopo]
          /\ ~trap'[j]
          /\ \A k \in Jobs \ {j} : /\ pc'[k] = pc[k]
                                   /\ trap'[k] = trap[k]
                                   /\ exit'[k] = exit[k]
      BY <1>0, <2>5, <3>1, ExitType DEF CalibrationFails
    <3> QED BY <1>0, <2>0, <2>5, <3>2 DEF CalibrationFails, remoteVars
  <2>6. CASE CleanupFails(j)
    <3>1. "ansible" \in ExitReasons
      BY DEF ExitReasons
    <3>2. /\ \/ trap[j] /\ pc'[j] = "cleanup" /\ wt' = wt
             \/ ~trap[j] /\ pc'[j] = "dead" /\ wt' = [wt EXCEPT ![j] = NoTopo]
          /\ ~trap'[j]
          /\ \A k \in Jobs \ {j} : /\ pc'[k] = pc[k]
                                   /\ trap'[k] = trap[k]
                                   /\ exit'[k] = exit[k]
      BY <1>0, <2>6, <3>1, ExitType DEF CleanupFails
    <3> QED BY <1>0, <2>0, <2>6, <3>2 DEF CleanupFails, remoteVars
  <2>7. CASE RmNoReply(j)
    BY <1>0, <2>0, <2>7 DEF RmNoReply, NoReply
  <2>8. CASE Abort(j)
    <3>1. (IF trap[j] THEN "term" ELSE "untrapped") \in ExitReasons
      BY DEF ExitReasons
    <3>2. /\ \/ trap[j] /\ pc'[j] = "cleanup" /\ wt' = wt
             \/ ~trap[j] /\ pc'[j] = "dead" /\ wt' = [wt EXCEPT ![j] = NoTopo]
          /\ ~trap'[j]
          /\ \A k \in Jobs \ {j} : /\ pc'[k] = pc[k]
                                   /\ trap'[k] = trap[k]
                                   /\ exit'[k] = exit[k]
      BY <1>0, <2>8, <3>1, ExitType DEF Abort
    <3> QED BY <1>0, <2>0, <2>8, <3>2 DEF Abort, remoteVars
  <2>9. CASE Kill(j)
    BY <1>0, <2>0, <2>9 DEF Kill, remoteVars
  <2> QED BY <1>2, <2>1, <2>2, <2>3, <2>4, <2>5, <2>6, <2>7, <2>8, <2>9, <2>10 DEF Failure
<1>3. ASSUME NEW c \in late, LateCommand(c) PROVE LateRm'
  BY <1>0, <1>3 DEF LateCommand
<1>4. ASSUME NEW t \in Topos, TgDown(t) \/ TgUp(t) PROVE LateRm'
  BY <1>4 DEF TgDown, TgUp
<1>5. CASE UNCHANGED vars
  BY <1>5 DEF vars
<1> QED BY <1>1, <1>2, <1>3, <1>4, <1>5 DEF Next

-----------------------------------------------------------------------------
(* The theorems. *)

\* The invariant holds initially.
LEMMA InitHolds == Init => IInv
<1> SUFFICES ASSUME Init PROVE IInv
  OBVIOUS
<1>1. TypeOK
  <2>1. \A j \in Jobs : Len(Topologies[j]) \in Nat /\ Len(Topologies[j]) >= 1
    BY TopologiesAssumption
  <2> QED BY <2>1, MaxFaultsAssumption DEF Init, TypeOK, PC, Trying, ExitReasons
<1> QED BY <1>1 DEF Init, IInv, Held, TrapSpan, JustReserved, LateRm,
                    Working, Unreserve

\* Every step preserves it.
LEMMA StepHolds == IInv /\ [Next]_vars => IInv'
<1> SUFFICES ASSUME IInv, [Next]_vars PROVE IInv'
  OBVIOUS
<1>1. TypeOK'
  BY TypeStep DEF IInv
<1> QED BY <1>1, HeldStep, TrapSpanStep, JustReservedStep, LateRmStep DEF IInv

\* The invariant holds in every reachable state.
THEOREM Invariant == Spec => []IInv
BY InitHolds, StepHolds, PTL DEF Spec

\* The variables of the two scripts keep their types.
THEOREM TypeCorrect == Spec => []TypeOK
<1>1. IInv => TypeOK
  BY DEF IInv
<1> QED BY <1>1, Invariant, PTL

\* No two jobs ever clean, calibrate or test the same testbed, whatever remote
\* commands are lost or late and wherever jobs are aborted or killed.
THEOREM MutualExclusionHolds == Spec => []MutualExclusion
<1>1. IInv => MutualExclusion
  BY DEF IInv, Held, MutualExclusion
<1> QED BY <1>1, Invariant, PTL

-----------------------------------------------------------------------------
(* The lock. *)

\* The only steps that make a directory disappear are the rm of a job and a
\* late rm, and by Held and LateRm both meet the directory of their own job.
THEOREM OnlyCreatorRemovesHolds == Spec => OnlyCreatorRemoves
<1> DEFINE A == \A t \in Topos : dir[t] # NoJob /\ dir'[t] # dir[t] =>
                  /\ dir'[t] = NoJob
                  /\ \/ pc[dir[t]] = "rm" /\ wt[dir[t]] = t
                     \/ pc[dir[t]] = "dead" /\ exit[dir[t]] = "unreserve"
<1>1. IInv /\ [Next]_vars => [A]_vars
  <2> SUFFICES ASSUME IInv, Next, NEW t \in Topos,
                      dir[t] # NoJob, dir'[t] # dir[t]
               PROVE  /\ dir'[t] = NoJob
                      /\ \/ pc[dir[t]] = "rm" /\ wt[dir[t]] = t
                         \/ pc[dir[t]] = "dead" /\ exit[dir[t]] = "unreserve"
    OBVIOUS
  <2>0. TypeOK
    BY DEF IInv
  <2>1. ASSUME NEW j \in Jobs, Step(j) PROVE Mkdir(j) \/ Rm(j)
    BY <2>1 DEF Step, Touch, TouchUnreachable, InstallTrap, CalibrationPasses,
                Sleep, TestsFinish, TestsDie, CleanupPasses, remoteVars
  <2>2. ASSUME NEW j \in Jobs, Mkdir(j) PROVE FALSE
    BY <2>0, <2>2 DEF Mkdir, TypeOK
  <2>3. ASSUME NEW j \in Jobs, Rm(j)
        PROVE  dir'[t] = NoJob /\ pc[dir[t]] = "rm" /\ wt[dir[t]] = t
    <3>1. wt[j] \in Topos /\ dir[wt[j]] = j
      BY <2>3 DEF IInv, Held, Unreserve, Rm
    <3>2. dir' = [dir EXCEPT ![wt[j]] = NoJob]
      BY <2>3 DEF Rm
    <3> QED BY <2>0, <2>3, <3>1, <3>2 DEF TypeOK, Rm
  <2>4. ASSUME NEW j \in Jobs, Failure(j) PROVE FALSE
    BY <2>4 DEF Failure, MkdirNoReply, TouchRefused, TouchConnectionLost, TouchTimeout,
                TrapFails, CalibrationFails, CleanupFails, RmNoReply, Abort, Kill, remoteVars
  <2>5. ASSUME NEW c \in late, LateCommand(c)
        PROVE  /\ dir'[t] = NoJob
               /\ pc[dir[t]] = "dead" /\ exit[dir[t]] = "unreserve"
    <3>1. c.op = "rm"
      BY <2>0, <2>5 DEF LateCommand, TypeOK
    <3>2. dir' = [dir EXCEPT ![c.topo] = NoJob]
      BY <2>5, <3>1 DEF LateCommand
    <3>3. t = c.topo
      BY <2>0, <3>2 DEF TypeOK
    <3> QED BY <2>0, <3>1, <3>2, <3>3 DEF TypeOK, IInv, LateRm
  <2>6. ASSUME NEW u \in Topos, TgDown(u) \/ TgUp(u) PROVE FALSE
    BY <2>6 DEF TgDown, TgUp
  <2> QED BY <2>1, <2>2, <2>3, <2>4, <2>5, <2>6 DEF Next
<1> QED BY <1>1, Invariant, PTL DEF Spec, OnlyCreatorRemoves

\* The scripts implement the lock of TestbedLock: every step of a job, of a late
\* command or of a TG is a step of the lock or leaves it alone.
THEOREM ImplementsLock == Spec => LockSpec
<1> DEFINE working == [j \in Jobs |-> IF pc[j] \in Working THEN wt[j] ELSE NoTopo]
<1>1. Init => Lock!LockInit
  BY DEF Init, Lock!LockInit, Working
<1>2. IInv /\ IInv' /\ [Next]_vars => [Lock!LockNext]_(Lock!lockVars)
  <2> SUFFICES ASSUME IInv, IInv', [Next]_vars
               PROVE  [Lock!LockNext]_(Lock!lockVars)
    OBVIOUS
  <2>0. TypeOK /\ TypeOK'
    BY DEF IInv
  <2>a. ASSUME dir' = dir, working' = working
        PROVE  [Lock!LockNext]_(Lock!lockVars)
    BY <2>a DEF Lock!lockVars
  <2>b. ASSUME NEW j \in Jobs, dir' = dir,
               pc[j] \notin Working, pc'[j] \notin Working,
               \A k \in Jobs \ {j} : pc'[k] = pc[k] /\ wt'[k] = wt[k]
        PROVE  [Lock!LockNext]_(Lock!lockVars)
    <3>1. \A k \in Jobs : working'[k] = working[k]
      BY <2>b
    <3>2. working' = working
      BY <3>1
    <3> QED BY <2>a, <2>b, <3>2
  <2>c. ASSUME NEW j \in Jobs, dir' = dir,
               pc[j] \in Working, pc'[j] \in Working,
               \A k \in Jobs : wt'[k] = wt[k],
               \A k \in Jobs \ {j} : pc'[k] = pc[k]
        PROVE  [Lock!LockNext]_(Lock!lockVars)
    <3>1. \A k \in Jobs : working'[k] = working[k]
      BY <2>c
    <3>2. working' = working
      BY <3>1
    <3> QED BY <2>a, <2>c, <3>2
  <2>d. ASSUME NEW j \in Jobs, dir' = dir, pc'[j] \notin Working,
               \A k \in Jobs \ {j} : pc'[k] = pc[k] /\ wt'[k] = wt[k]
        PROVE  [Lock!LockNext]_(Lock!lockVars)
    <3>1. CASE pc[j] \in Working
      <4>1. wt[j] \in Topos /\ wt[j] # NoTopo
        BY <3>1, JobsAssumption DEF IInv, Held
      <4>2. working[j] # NoTopo
        BY <3>1, <4>1
      <4>3. working' = [working EXCEPT ![j] = NoTopo]
        BY <2>d
      <4>4. Lock!End(j)
        BY <2>d, <4>2, <4>3 DEF Lock!End
      <4> QED BY <4>4 DEF Lock!LockNext
    <3>2. CASE pc[j] \notin Working
      BY <2>b, <2>d, <3>2
    <3> QED BY <3>1, <3>2
  <2>e. ASSUME NEW j \in Jobs, dir' = dir,
               pc[j] = "reserved", pc'[j] \in Working, wt'[j] = Topo(j),
               \A k \in Jobs \ {j} : pc'[k] = pc[k] /\ wt'[k] = wt[k]
        PROVE  [Lock!LockNext]_(Lock!lockVars)
    <3>1. PICK t \in Topos : t = Topo(j)
      BY <2>0, TopoType
    <3>2. dir[t] = j
      BY <2>e, <3>1 DEF IInv, JustReserved
    <3>3. working[j] = NoTopo
      BY <2>e DEF Working
    <3>4. working' = [working EXCEPT ![j] = t]
      BY <2>e, <3>1
    <3>5. Lock!Begin(j, t)
      BY <2>e, <3>2, <3>3, <3>4 DEF Lock!Begin
    <3> QED BY <3>5 DEF Lock!LockNext
  <2>1. ASSUME NEW j \in Jobs, Step(j) PROVE [Lock!LockNext]_(Lock!lockVars)
    <3>1. CASE Mkdir(j)
      <4>1. CASE up[Topo(j)] /\ dir[Topo(j)] = NoJob
        <5>1. \A k \in Jobs : working'[k] = working[k]
          BY <2>0, <3>1, <4>1 DEF Mkdir, TypeOK, Working
        <5>2. working' = working
          BY <5>1
        <5>3. Lock!Acquire(j, Topo(j))
          BY <3>1, <4>1, <5>2 DEF Mkdir, Lock!Acquire
        <5> QED BY <2>0, <5>3, TopoType DEF Lock!LockNext
      <4>2. CASE ~(up[Topo(j)] /\ dir[Topo(j)] = NoJob)
        <5>1. NextTopology(j) /\ dir' = dir /\ wt' = wt
          BY <3>1, <4>2 DEF Mkdir
        <5>2. pc'[j] \in {"mkdir", "sleep"} /\ \A k \in Jobs \ {j} : pc'[k] = pc[k]
          BY <2>0, <5>1, NextTopologyType
        <5> QED BY <2>d, <5>1, <5>2 DEF Working
      <4> QED BY <4>1, <4>2
    <3>2. CASE Touch(j)
      BY <2>0, <2>d, <3>2 DEF Touch, TypeOK, Working
    <3>3. CASE TouchUnreachable(j)
      <4>1. pc'[j] \in {"mkdir", "sleep"} /\ \A k \in Jobs \ {j} : pc'[k] = pc[k]
        BY <2>0, <3>3, NextTopologyType DEF TouchUnreachable
      <4> QED BY <2>d, <3>3, <4>1 DEF TouchUnreachable, Working
    <3>4. CASE InstallTrap(j)
      BY <2>0, <2>e, <3>4 DEF InstallTrap, remoteVars, TypeOK, Working
    <3>5. CASE CalibrationPasses(j)
      BY <2>0, <2>c, <3>5 DEF CalibrationPasses, remoteVars, TypeOK, Working
    <3>6. CASE Sleep(j)
      BY <2>0, <2>d, <3>6 DEF Sleep, remoteVars, TypeOK, Working
    <3>7. CASE TestsFinish(j)
      BY <2>0, <2>c, <3>7 DEF TestsFinish, remoteVars, TypeOK, Working
    <3>8. CASE TestsDie(j)
      <4>1. "test" \in ExitReasons
        BY DEF ExitReasons
      <4>2. /\ \/ trap[j] /\ pc'[j] = "cleanup" /\ wt' = wt
               \/ ~trap[j] /\ pc'[j] = "dead" /\ wt' = [wt EXCEPT ![j] = NoTopo]
            /\ \A k \in Jobs \ {j} : pc'[k] = pc[k]
        BY <2>0, <3>8, <4>1, ExitType DEF TestsDie
      <4>3. dir' = dir
        BY <3>8 DEF TestsDie, remoteVars
      <4>4. CASE trap[j]
        <5>1. pc[j] \in Working
          BY <4>4 DEF IInv, TrapSpan, Working
        <5> QED BY <2>c, <4>2, <4>3, <4>4, <5>1 DEF Working
      <4>5. CASE ~trap[j]
        BY <2>0, <2>d, <4>2, <4>3, <4>5 DEF TypeOK, Working
      <4> QED BY <4>4, <4>5
    <3>9. CASE CleanupPasses(j)
      BY <2>0, <2>d, <3>9 DEF CleanupPasses, remoteVars, TypeOK, Working
    <3>10. CASE Rm(j)
      <4>1. wt[j] \in Topos /\ dir[wt[j]] = j /\ working[j] = NoTopo
        BY <3>10 DEF Rm, IInv, Held, Unreserve, Working
      <4>2. /\ pc'[j] \notin Working
            /\ \A k \in Jobs \ {j} : pc'[k] = pc[k] /\ wt'[k] = wt[k]
        BY <2>0, <3>10 DEF Rm, TypeOK, Working
      <4>3. CASE dir' = dir
        BY <2>d, <4>2, <4>3
      <4>4. CASE dir' = [dir EXCEPT ![wt[j]] = NoJob]
        <5>1. \A k \in Jobs : working'[k] = working[k]
          BY <3>10, <4>1, <4>2 DEF Working
        <5>2. working' = working
          BY <5>1
        <5>3. Lock!Release(j, wt[j])
          BY <4>1, <4>4, <5>2 DEF Lock!Release
        <5> QED BY <4>1, <5>3 DEF Lock!LockNext
      <4> QED BY <3>10, <4>3, <4>4 DEF Rm
    <3> QED BY <2>1, <3>1, <3>2, <3>3, <3>4, <3>5, <3>6, <3>7, <3>8, <3>9, <3>10 DEF Step
  <2>2. ASSUME NEW j \in Jobs, Failure(j) PROVE [Lock!LockNext]_(Lock!lockVars)
    <3>1. CASE MkdirNoReply(j)
      <4>1. pc'[j] \in {"mkdir", "sleep"} /\ \A k \in Jobs \ {j} : pc'[k] = pc[k]
        BY <2>0, <3>1, NextTopologyType DEF MkdirNoReply
      <4> QED BY <2>d, <3>1, <4>1 DEF MkdirNoReply, Working
    <3>2. CASE TouchRefused(j)
      BY <2>0, <2>d, <3>2 DEF TouchRefused, TypeOK, Working
    <3>10. CASE TouchConnectionLost(j)
      BY <2>0, <2>d, <3>10 DEF TouchConnectionLost, TypeOK, Working
    <3>3. CASE TouchTimeout(j)
      <4>1. pc'[j] \in {"mkdir", "sleep"} /\ \A k \in Jobs \ {j} : pc'[k] = pc[k]
        BY <2>0, <3>3, NextTopologyType DEF TouchTimeout
      <4> QED BY <2>d, <3>3, <4>1 DEF TouchTimeout, Working
    <3>4. CASE TrapFails(j)
      BY <2>0, <2>e, <3>4 DEF TrapFails, remoteVars, TypeOK, Working
    <3>5. CASE CalibrationFails(j)
      <4>1. "calibration" \in ExitReasons
        BY DEF ExitReasons
      <4>2. /\ \/ trap[j] /\ pc'[j] = "cleanup" /\ wt' = wt
               \/ ~trap[j] /\ pc'[j] = "dead" /\ wt' = [wt EXCEPT ![j] = NoTopo]
            /\ \A k \in Jobs \ {j} : pc'[k] = pc[k]
        BY <2>0, <3>5, <4>1, ExitType DEF CalibrationFails
      <4>3. dir' = dir
        BY <3>5 DEF CalibrationFails, remoteVars
      <4>4. CASE trap[j]
        <5>1. pc[j] \in Working
          BY <4>4 DEF IInv, TrapSpan, Working
        <5> QED BY <2>c, <4>2, <4>3, <4>4, <5>1 DEF Working
      <4>5. CASE ~trap[j]
        BY <2>0, <2>d, <4>2, <4>3, <4>5 DEF TypeOK, Working
      <4> QED BY <4>4, <4>5
    <3>6. CASE CleanupFails(j)
      <4>1. "ansible" \in ExitReasons
        BY DEF ExitReasons
      <4>2. /\ \/ trap[j] /\ pc'[j] = "cleanup" /\ wt' = wt
               \/ ~trap[j] /\ pc'[j] = "dead" /\ wt' = [wt EXCEPT ![j] = NoTopo]
            /\ \A k \in Jobs \ {j} : pc'[k] = pc[k]
        BY <2>0, <3>6, <4>1, ExitType DEF CleanupFails
      <4>3. dir' = dir
        BY <3>6 DEF CleanupFails, remoteVars
      <4>4. CASE trap[j]
        <5>1. pc[j] \in Working
          BY <4>4 DEF IInv, TrapSpan, Working
        <5> QED BY <2>c, <4>2, <4>3, <4>4, <5>1 DEF Working
      <4>5. CASE ~trap[j]
        BY <2>0, <2>d, <4>2, <4>3, <4>5 DEF TypeOK, Working
      <4> QED BY <4>4, <4>5
    <3>7. CASE RmNoReply(j)
      BY <2>0, <2>d, <3>7 DEF RmNoReply, TypeOK, Working
    <3>8. CASE Abort(j)
      <4>1. (IF trap[j] THEN "term" ELSE "untrapped") \in ExitReasons
        BY DEF ExitReasons
      <4>2. /\ \/ trap[j] /\ pc'[j] = "cleanup" /\ wt' = wt
               \/ ~trap[j] /\ pc'[j] = "dead" /\ wt' = [wt EXCEPT ![j] = NoTopo]
            /\ \A k \in Jobs \ {j} : pc'[k] = pc[k]
        BY <2>0, <3>8, <4>1, ExitType DEF Abort
      <4>3. dir' = dir
        BY <3>8 DEF Abort, remoteVars
      <4>4. CASE trap[j]
        <5>1. pc[j] \in Working
          BY <4>4 DEF IInv, TrapSpan, Working
        <5> QED BY <2>c, <4>2, <4>3, <4>4, <5>1 DEF Working
      <4>5. CASE ~trap[j]
        BY <2>0, <2>d, <4>2, <4>3, <4>5 DEF TypeOK, Working
      <4> QED BY <4>4, <4>5
    <3>9. CASE Kill(j)
      BY <2>0, <2>d, <3>9 DEF Kill, remoteVars, TypeOK, Working
    <3> QED BY <2>2, <3>1, <3>2, <3>3, <3>4, <3>5, <3>6, <3>7, <3>8, <3>9, <3>10 DEF Failure
  <2>3. ASSUME NEW c \in late, LateCommand(c)
        PROVE  [Lock!LockNext]_(Lock!lockVars)
    <3>1. c.job \in Jobs /\ c.topo \in Topos
      BY <2>0 DEF TypeOK, Cmds
    <3>2. working' = working
      BY <2>3 DEF LateCommand
    <3>3. CASE dir' = dir
      BY <2>a, <3>2, <3>3
    <3>4. CASE c.op = "mkdir" /\ dir' # dir
      <4>1. dir[c.topo] = NoJob /\ dir' = [dir EXCEPT ![c.topo] = c.job]
        BY <2>0, <2>3, <3>1, <3>4 DEF LateCommand, TypeOK
      <4>2. Lock!Acquire(c.job, c.topo)
        BY <3>2, <4>1 DEF Lock!Acquire
      <4> QED BY <3>1, <4>2 DEF Lock!LockNext
    <3>5. CASE c.op = "rm"
      <4>1. dir' = [dir EXCEPT ![c.topo] = NoJob]
        BY <2>3, <3>5 DEF LateCommand
      <4>2. dir[c.topo] = c.job /\ pc[c.job] = "dead"
        BY <3>5 DEF IInv, LateRm
      <4>3. working[c.job] = NoTopo
        BY <3>1, <4>2 DEF Working
      <4>4. Lock!Release(c.job, c.topo)
        BY <3>2, <4>1, <4>2, <4>3 DEF Lock!Release
      <4> QED BY <3>1, <4>4 DEF Lock!LockNext
    <3> QED BY <2>3, <3>3, <3>4, <3>5 DEF LateCommand
  <2>4. ASSUME NEW t \in Topos, TgDown(t) \/ TgUp(t)
        PROVE  [Lock!LockNext]_(Lock!lockVars)
    BY <2>a, <2>4 DEF TgDown, TgUp
  <2>5. CASE UNCHANGED vars
    BY <2>a, <2>5 DEF vars
  <2> QED BY <2>1, <2>2, <2>3, <2>4, <2>5 DEF Next
<1> QED BY <1>1, <1>2, Invariant, PTL DEF Spec, LockSpec, Lock!LockSpec

-----------------------------------------------------------------------------
(* Testbeds left behind.  LeakExplained speaks about jobs that have ended; *)
(* it holds because a job that always got its replies never loses sight of *)
(* a directory it created while it runs, and has its trap installed        *)
(* wherever its shell may die with a testbed in its hands.                 *)

\* What job j knows of the directories it created.
Accounted(j) ==
  \A t \in Topos : dir[t] = j =>
    \/ lost[j]
    \/ pc[j] \in {"touch", "reserved"} /\ t = Topo(j)
    \/ pc[j] \in Working \cup Unreserve /\ t = wt[j]
    \/ pc[j] \in Ended /\ exit[j] \in {"kill", "untrapped", "ansible", "unreserve"}

TrapInstalled(j) == pc[j] \in {"calibrate", "test"} => trap[j]

\* Only a job that missed a reply has commands under way that it does not wait for,
\* but for the touch after which the script goes on.
LateLost == \A c \in late : c.op # "touch" => lost[c.job]

LInv == LateLost /\ \A j \in Jobs : Accounted(j) /\ TrapInstalled(j)

\* Nothing of the other jobs changes, and none of them gets a directory.
OthersKept(j) ==
  \A k \in Jobs \ {j} :
    /\ pc'[k] = pc[k] /\ idx'[k] = idx[k] /\ wt'[k] = wt[k]
    /\ trap'[k] = trap[k] /\ exit'[k] = exit[k] /\ lost'[k] = lost[k]
    /\ \A t \in Topos : dir'[t] = k => dir[t] = k

\* A step of job j has to be looked at for job j only.
LEMMA OthersAccounted ==
  ASSUME LInv, NEW j \in Jobs, OthersKept(j), LateLost',
         Accounted(j)', TrapInstalled(j)'
  PROVE  LInv'
<1>1. ASSUME NEW k \in Jobs \ {j} PROVE Accounted(k)' /\ TrapInstalled(k)'
  BY <1>1 DEF LInv, OthersKept, Accounted, TrapInstalled, Topo
<1> QED BY <1>1 DEF LInv

\* A job whose call got no reply is accounted for whatever it does next.
LEMMA LostAccounted ==
  ASSUME NEW j \in Jobs, lost'[j] PROVE Accounted(j)'
BY DEF Accounted

\* The command a job stops waiting for is its own.
LEMMA NoReplyLost ==
  ASSUME TypeOK, LateLost, NEW j \in Jobs, NEW op, NEW t, NoReply(j, op, t)
  PROVE  LateLost' /\ lost'[j] /\ \A k \in Jobs \ {j} : lost'[k] = lost[k]
<1>1. lost' = [lost EXCEPT ![j] = TRUE]
  BY DEF NoReply
<1>2. \A k \in Jobs : lost[k] => lost'[k]
  BY <1>1 DEF TypeOK
<1>3. lost'[j] /\ \A k \in Jobs \ {j} : lost'[k] = lost[k]
  BY <1>1 DEF TypeOK
<1>4. \A c \in late' : c \in late \/ c.job = j
  BY DEF NoReply
<1>5. \A c \in late : c.job \in Jobs
  BY DEF TypeOK, Cmds
<1> QED BY <1>2, <1>3, <1>4, <1>5 DEF LateLost

\* Every step of a job keeps its own directories accounted for.
LEMMA JobAccounted ==
  ASSUME IInv, LInv, NEW j \in Jobs, Step(j) \/ Failure(j)
  PROVE  LInv'
<1> USE DEF IInv
<1>0. Topo(j) \in Topos
  BY TopoType
<1>a. Accounted(j) /\ TrapInstalled(j) /\ LateLost
  BY DEF LInv
<1>b. pc[j] \in {"mkdir", "sleep"} /\ ~lost[j] => \A t \in Topos : dir[t] # j
  BY <1>a DEF Accounted, Working, Unreserve, Ended
<1>1. CASE Mkdir(j)
  <2>1. UNCHANGED <<late, wt, trap, exit, lost>>
    BY <1>1 DEF Mkdir
  <2>2. CASE up[Topo(j)] /\ dir[Topo(j)] = NoJob
    <3>1. /\ dir' = [dir EXCEPT ![Topo(j)] = j]
          /\ pc' = [pc EXCEPT ![j] = "touch"]
          /\ UNCHANGED idx
      BY <1>1, <2>2 DEF Mkdir
    <3>2. OthersKept(j)
      BY <1>0, <2>1, <3>1 DEF OthersKept, TypeOK
    <3>3. Accounted(j)' /\ TrapInstalled(j)'
      BY <1>0, <1>1, <1>b, <2>1, <3>1
      DEF Mkdir, Accounted, TrapInstalled, TypeOK, Topo
    <3> QED BY <1>a, <2>1, <3>2, <3>3, OthersAccounted DEF LateLost
  <2>3. CASE ~(up[Topo(j)] /\ dir[Topo(j)] = NoJob)
    <3>1. NextTopology(j) /\ UNCHANGED dir
      BY <1>1, <2>3 DEF Mkdir
    <3>2. /\ pc'[j] \in {"mkdir", "sleep"}
          /\ \A k \in Jobs \ {j} : pc'[k] = pc[k] /\ idx'[k] = idx[k]
      BY <3>1, NextTopologyType
    <3>3. OthersKept(j)
      BY <2>1, <3>1, <3>2 DEF OthersKept
    <3>4. Accounted(j)' /\ TrapInstalled(j)'
      BY <1>1, <1>b, <2>1, <3>1, <3>2 DEF Mkdir, Accounted, TrapInstalled
    <3> QED BY <1>a, <2>1, <3>3, <3>4, OthersAccounted DEF LateLost
  <2> QED BY <2>2, <2>3
<1>2. CASE Touch(j)
  <2>1. OthersKept(j)
    BY <1>0, <1>2 DEF Touch, remoteVars, OthersKept, TypeOK
  <2>2. Accounted(j)' /\ TrapInstalled(j)'
    BY <1>0, <1>a, <1>2 DEF Touch, remoteVars, Accounted, TrapInstalled,
        Topo, TypeOK, Working, Unreserve, Ended
  <2>3. LateLost'
    BY <1>a, <1>2 DEF Touch, remoteVars, LateLost
  <2> QED BY <2>1, <2>2, <2>3, OthersAccounted
<1>3. CASE TouchUnreachable(j)
  <2>1. NextTopology(j) /\ UNCHANGED <<dir, wt, trap, exit>>
    BY <1>3 DEF TouchUnreachable
  <2>2. /\ pc'[j] \in {"mkdir", "sleep"}
        /\ \A k \in Jobs \ {j} : pc'[k] = pc[k] /\ idx'[k] = idx[k]
    BY <2>1, NextTopologyType
  <2>3. LateLost' /\ lost'[j] /\ \A k \in Jobs \ {j} : lost'[k] = lost[k]
    <3>1. lost' = [lost EXCEPT ![j] = TRUE] /\ late' = late
      BY <1>3 DEF TouchUnreachable
    <3>2. lost'[j] /\ \A k \in Jobs : lost[k] => lost'[k]
      BY <3>1 DEF TypeOK
    <3>3. \A c \in late : c.job \in Jobs
      BY DEF TypeOK, Cmds
    <3> QED BY <1>a, <3>1, <3>2, <3>3 DEF LateLost, TypeOK
  <2>4. OthersKept(j)
    BY <2>1, <2>2, <2>3 DEF OthersKept
  <2>5. Accounted(j)' /\ TrapInstalled(j)'
    BY <2>2, <2>3, LostAccounted DEF TrapInstalled
  <2> QED BY <2>3, <2>4, <2>5, OthersAccounted
<1>4. CASE InstallTrap(j)
  <2>1. OthersKept(j)
    BY <1>0, <1>4 DEF InstallTrap, remoteVars, OthersKept, TypeOK
  <2>2. Accounted(j)' /\ TrapInstalled(j)'
    BY <1>0, <1>a, <1>4 DEF InstallTrap, remoteVars, Accounted, TrapInstalled,
        Topo, TypeOK, Working, Unreserve, Ended
  <2>3. LateLost'
    BY <1>a, <1>4 DEF InstallTrap, remoteVars, LateLost
  <2> QED BY <2>1, <2>2, <2>3, OthersAccounted
<1>5. CASE CalibrationPasses(j)
  <2>1. OthersKept(j)
    BY <1>0, <1>5 DEF CalibrationPasses, remoteVars, OthersKept, TypeOK
  <2>2. Accounted(j)' /\ TrapInstalled(j)'
    BY <1>0, <1>a, <1>5 DEF CalibrationPasses, remoteVars, Accounted, TrapInstalled,
        Topo, TypeOK, Working, Unreserve, Ended
  <2>3. LateLost'
    BY <1>a, <1>5 DEF CalibrationPasses, remoteVars, LateLost
  <2> QED BY <2>1, <2>2, <2>3, OthersAccounted
<1>6. CASE Sleep(j)
  <2>1. OthersKept(j)
    BY <1>0, <1>6 DEF Sleep, remoteVars, OthersKept, TypeOK
  <2>2. Accounted(j)' /\ TrapInstalled(j)'
    BY <1>0, <1>a, <1>6, <1>b DEF Sleep, remoteVars, Accounted, TrapInstalled,
        Topo, TypeOK, Working, Unreserve, Ended
  <2>3. LateLost'
    BY <1>a, <1>6 DEF Sleep, remoteVars, LateLost
  <2> QED BY <2>1, <2>2, <2>3, OthersAccounted
<1>7. CASE TestsFinish(j)
  <2>1. OthersKept(j)
    BY <1>0, <1>7 DEF TestsFinish, remoteVars, OthersKept, TypeOK
  <2>2. Accounted(j)' /\ TrapInstalled(j)'
    BY <1>0, <1>a, <1>7 DEF TestsFinish, remoteVars, Accounted, TrapInstalled,
        Topo, TypeOK, Working, Unreserve, Ended
  <2>3. LateLost'
    BY <1>a, <1>7 DEF TestsFinish, remoteVars, LateLost
  <2> QED BY <2>1, <2>2, <2>3, OthersAccounted
<1>8. CASE TestsDie(j)
  <2>1. OthersKept(j)
    BY <1>0, <1>8 DEF TestsDie, remoteVars, Exit, OthersKept, TypeOK
  <2>2. Accounted(j)' /\ TrapInstalled(j)'
    BY <1>0, <1>a, <1>8 DEF TestsDie, remoteVars, Exit, Accounted, TrapInstalled,
        Topo, TypeOK, Working, Unreserve, Ended
  <2>3. LateLost'
    BY <1>a, <1>8 DEF TestsDie, remoteVars, Exit, LateLost
  <2> QED BY <2>1, <2>2, <2>3, OthersAccounted
<1>9. CASE CleanupPasses(j)
  <2>1. OthersKept(j)
    BY <1>0, <1>9 DEF CleanupPasses, remoteVars, OthersKept, TypeOK
  <2>2. Accounted(j)' /\ TrapInstalled(j)'
    BY <1>0, <1>a, <1>9 DEF CleanupPasses, remoteVars, Accounted, TrapInstalled,
        Topo, TypeOK, Working, Unreserve, Ended
  <2>3. LateLost'
    BY <1>a, <1>9 DEF CleanupPasses, remoteVars, LateLost
  <2> QED BY <2>1, <2>2, <2>3, OthersAccounted
<1>10. CASE Rm(j)
  <2>1. /\ wt[j] \in Topos /\ dir[wt[j]] = j
        /\ dir' = dir \/ dir' = [dir EXCEPT ![wt[j]] = NoJob]
    BY <1>10 DEF Rm, Held, Unreserve
  <2>2. \A t \in Topos, k \in Jobs : dir'[t] = k => dir[t] = k
    BY <2>1, JobsAssumption DEF TypeOK
  <2>3. OthersKept(j)
    <3>1. \A k \in Jobs \ {j} : pc'[k] = pc[k] /\ exit'[k] = exit[k] /\ wt'[k] = wt[k]
      BY <1>10 DEF Rm, TypeOK
    <3> QED BY <1>10, <2>2, <3>1 DEF Rm, OthersKept
  <2>4. Accounted(j)' /\ TrapInstalled(j)'
    BY <1>0, <1>a, <1>10, <2>1
    DEF Rm, Accounted, TrapInstalled,
        Topo, TypeOK, Working, Unreserve, Ended
  <2>5. LateLost'
    BY <1>a, <1>10 DEF Rm, LateLost
  <2> QED BY <2>3, <2>4, <2>5, OthersAccounted
<1>11. CASE MkdirNoReply(j)
  <2>1. NextTopology(j) /\ UNCHANGED <<dir, wt, trap, exit>>
    BY <1>11 DEF MkdirNoReply
  <2>2. /\ pc'[j] \in {"mkdir", "sleep"}
        /\ \A k \in Jobs \ {j} : pc'[k] = pc[k] /\ idx'[k] = idx[k]
    BY <2>1, NextTopologyType
  <2>3. LateLost' /\ lost'[j] /\ \A k \in Jobs \ {j} : lost'[k] = lost[k]
    BY <1>a, <1>11, NoReplyLost DEF MkdirNoReply
  <2>4. OthersKept(j)
    BY <2>1, <2>2, <2>3 DEF OthersKept
  <2>5. Accounted(j)' /\ TrapInstalled(j)'
    BY <2>2, <2>3, LostAccounted DEF TrapInstalled
  <2> QED BY <2>3, <2>4, <2>5, OthersAccounted
<1>12. CASE TouchRefused(j)
  <2>1. OthersKept(j)
    BY <1>0, <1>12 DEF TouchRefused, remoteVars, OthersKept, TypeOK
  <2>2. Accounted(j)' /\ TrapInstalled(j)'
    BY <1>0, <1>a, <1>12 DEF TouchRefused, remoteVars, Accounted, TrapInstalled,
        Topo, TypeOK, Working, Unreserve, Ended
  <2>3. LateLost'
    BY <1>a, <1>12 DEF TouchRefused, remoteVars, LateLost
  <2> QED BY <2>1, <2>2, <2>3, OthersAccounted
<1>20. CASE TouchConnectionLost(j)
  <2>1. OthersKept(j)
    BY <1>0, <1>20 DEF TouchConnectionLost, OthersKept, TypeOK
  <2>2. Accounted(j)' /\ TrapInstalled(j)'
    BY <1>0, <1>a, <1>20 DEF TouchConnectionLost, Accounted, TrapInstalled,
        Topo, TypeOK, Working, Unreserve, Ended
  <2>3. LateLost'
    BY <1>a, <1>20 DEF TouchConnectionLost, LateLost
  <2> QED BY <2>1, <2>2, <2>3, OthersAccounted
<1>13. CASE TouchTimeout(j)
  <2>1. NextTopology(j) /\ UNCHANGED <<dir, wt, trap, exit>>
    BY <1>13 DEF TouchTimeout
  <2>2. /\ pc'[j] \in {"mkdir", "sleep"}
        /\ \A k \in Jobs \ {j} : pc'[k] = pc[k] /\ idx'[k] = idx[k]
    BY <2>1, NextTopologyType
  <2>3. LateLost' /\ lost'[j] /\ \A k \in Jobs \ {j} : lost'[k] = lost[k]
    BY <1>a, <1>13, NoReplyLost DEF TouchTimeout
  <2>4. OthersKept(j)
    BY <2>1, <2>2, <2>3 DEF OthersKept
  <2>5. Accounted(j)' /\ TrapInstalled(j)'
    BY <2>2, <2>3, LostAccounted DEF TrapInstalled
  <2> QED BY <2>3, <2>4, <2>5, OthersAccounted
<1>14. CASE TrapFails(j)
  <2>1. OthersKept(j)
    BY <1>0, <1>14 DEF TrapFails, remoteVars, OthersKept, TypeOK
  <2>2. Accounted(j)' /\ TrapInstalled(j)'
    BY <1>0, <1>a, <1>14 DEF TrapFails, remoteVars, Accounted, TrapInstalled,
        Topo, TypeOK, Working, Unreserve, Ended
  <2>3. LateLost'
    BY <1>a, <1>14 DEF TrapFails, remoteVars, LateLost
  <2> QED BY <2>1, <2>2, <2>3, OthersAccounted
<1>15. CASE CalibrationFails(j)
  <2>1. OthersKept(j)
    BY <1>0, <1>15 DEF CalibrationFails, remoteVars, Exit, OthersKept, TypeOK
  <2>2. Accounted(j)' /\ TrapInstalled(j)'
    BY <1>0, <1>a, <1>15 DEF CalibrationFails, remoteVars, Exit, Accounted, TrapInstalled,
        Topo, TypeOK, Working, Unreserve, Ended
  <2>3. LateLost'
    BY <1>a, <1>15 DEF CalibrationFails, remoteVars, Exit, LateLost
  <2> QED BY <2>1, <2>2, <2>3, OthersAccounted
<1>16. CASE CleanupFails(j)
  <2>1. OthersKept(j)
    BY <1>0, <1>16 DEF CleanupFails, remoteVars, Exit, OthersKept, TypeOK
  <2>2. Accounted(j)' /\ TrapInstalled(j)'
    BY <1>0, <1>a, <1>16 DEF CleanupFails, remoteVars, Exit, Accounted, TrapInstalled,
        Topo, TypeOK, Working, Unreserve, Ended
  <2>3. LateLost'
    BY <1>a, <1>16 DEF CleanupFails, remoteVars, Exit, LateLost
  <2> QED BY <2>1, <2>2, <2>3, OthersAccounted
<1>17. CASE RmNoReply(j)
  <2>1. LateLost' /\ lost'[j] /\ \A k \in Jobs \ {j} : lost'[k] = lost[k]
    BY <1>a, <1>17, NoReplyLost DEF RmNoReply
  <2>2. OthersKept(j)
    BY <1>17, <2>1 DEF RmNoReply, OthersKept, TypeOK
  <2>3. Accounted(j)' /\ TrapInstalled(j)'
    BY <1>17, <2>1, LostAccounted DEF RmNoReply, TrapInstalled, TypeOK
  <2> QED BY <2>1, <2>2, <2>3, OthersAccounted
<1>18. CASE Abort(j)
  <2>1. OthersKept(j)
    BY <1>0, <1>18 DEF Abort, remoteVars, Exit, OthersKept, TypeOK
  <2>2. Accounted(j)' /\ TrapInstalled(j)'
    <3>1. UNCHANGED <<dir, idx, lost>>
      BY <1>18 DEF Abort, remoteVars
    <3>2. CASE trap[j]
      <4>1. pc' = [pc EXCEPT ![j] = "cleanup"] /\ UNCHANGED wt
        BY <1>18, <3>2 DEF Abort, Exit
      <4>2. pc[j] \in {"calibrate", "test"}
        BY <3>2 DEF TrapSpan
      <4>3. \A t \in Topos : dir[t] = j => lost[j] \/ t = wt[j]
        BY <1>a, <4>2 DEF Accounted, Ended
      <4> QED BY <3>1, <4>1, <4>3 DEF Accounted, TrapInstalled, TypeOK, Working
    <3>3. CASE ~trap[j]
      <4>1. /\ pc' = [pc EXCEPT ![j] = "dead"]
            /\ exit' = [exit EXCEPT ![j] = "untrapped"]
        BY <1>18, <3>3 DEF Abort, Exit
      <4> QED BY <4>1 DEF Accounted, TrapInstalled, TypeOK, Ended
    <3> QED BY <3>2, <3>3
  <2>3. LateLost'
    BY <1>a, <1>18 DEF Abort, remoteVars, LateLost
  <2> QED BY <2>1, <2>2, <2>3, OthersAccounted
<1>19. CASE Kill(j)
  <2>1. OthersKept(j)
    BY <1>0, <1>19 DEF Kill, remoteVars, OthersKept, TypeOK
  <2>2. Accounted(j)' /\ TrapInstalled(j)'
    BY <1>0, <1>a, <1>19 DEF Kill, remoteVars, Accounted, TrapInstalled,
        Topo, TypeOK, Working, Unreserve, Ended
  <2>3. LateLost'
    BY <1>a, <1>19 DEF Kill, remoteVars, LateLost
  <2> QED BY <2>1, <2>2, <2>3, OthersAccounted
<1> QED BY <1>1, <1>2, <1>3, <1>4, <1>5, <1>6, <1>7, <1>8, <1>9, <1>10, <1>11, <1>12, <1>13, <1>14, <1>15, <1>16, <1>17, <1>18, <1>19, <1>20
        DEF Step, Failure

\* So does everything that happens around the jobs.
LEMMA StepAccounted == IInv /\ LInv /\ [Next]_vars => LInv'
<1> SUFFICES ASSUME IInv, LInv, [Next]_vars PROVE LInv'
  OBVIOUS
<1> USE DEF IInv
<1>1. ASSUME NEW c \in late, LateCommand(c) PROVE LInv'
  <2>1. UNCHANGED <<pc, idx, wt, trap, exit, lost>> /\ late' \subseteq late
    BY <1>1 DEF LateCommand
  <2>2. c.job \in Jobs /\ c.topo \in Topos /\ (c.op # "touch" => lost[c.job])
    BY DEF TypeOK, Cmds, LInv, LateLost
  <2>3. \A t \in Topos : dir'[t] \in {dir[t], NoJob} \/ (dir'[t] = c.job /\ c.op # "touch")
    BY <1>1, <2>2 DEF LateCommand, TypeOK
  <2>4. ASSUME NEW j \in Jobs PROVE Accounted(j)'
    <3>1. SUFFICES ASSUME ~lost[j] PROVE Accounted(j)'
      BY <2>1, LostAccounted
    <3>2. \A t \in Topos : dir'[t] = j => dir[t] = j
      BY <2>2, <2>3, <3>1, JobsAssumption
    <3> QED BY <2>1, <3>2 DEF LInv, Accounted, Topo
  <2> QED BY <2>1, <2>4 DEF LInv, LateLost, TrapInstalled
<1>2. ASSUME UNCHANGED <<dir, late, pc, idx, wt, trap, exit, lost>> PROVE LInv'
  BY <1>2 DEF LInv, LateLost, Accounted, TrapInstalled, Topo
<1>3. ASSUME NEW t \in Topos, TgDown(t) \/ TgUp(t) PROVE LInv'
  BY <1>2, <1>3 DEF TgDown, TgUp
<1>4. CASE UNCHANGED vars
  BY <1>2, <1>4 DEF vars
<1> QED BY <1>1, <1>3, <1>4, JobAccounted DEF Next

\* A job that has ended leaves a testbed reserved only if it was killed, was
\* signalled before its trap was installed or after it was removed, got no reply
\* to a remote command, or died in untrap_and_unreserve_testbed itself.
THEOREM LeakExplainedHolds == Spec => []LeakExplained
<1>1. Init => IInv /\ LInv
  <2>1. Init => LInv
    BY JobsAssumption DEF Init, LInv, LateLost, Accounted, TrapInstalled
  <2> QED BY <2>1, InitHolds
<1>2. (IInv /\ LInv) /\ [Next]_vars => (IInv /\ LInv)'
  BY StepHolds, StepAccounted
<1>3. LInv => LeakExplained
  BY DEF LInv, Accounted, LeakExplained, Working, Unreserve, Ended
<1>4. (IInv /\ LInv) => LeakExplained
  BY <1>3
<1> QED BY <1>1, <1>2, <1>4, PTL DEF Spec
-----------------------------------------------------------------------------
(* Run tags.  A touch that is under way names a job that holds the         *)
(* directory or has given it back (LateTouch), since a job lets go of a    *)
(* directory only in the last step of its life, and for a reason that was  *)
(* settled before (Reasons).                                               *)

Gone(j) == pc[j] \in Ended /\ exit[j] \in GaveBack

Named(j, t) == dir[t] = j \/ Gone(j)

\* Why a job that is cleaning up will have ended.
Reasons ==
  \A j \in Jobs :
    /\ pc[j] \in {"cleanup", "rm"} => exit[j] \in {"none", "trap", "calibration", "test", "term"}
    /\ pc[j] \notin Ended \cup {"cleanup", "rm"} => exit[j] = "none"

LateTouch == \A c \in late : c.op = "touch" => Named(c.job, c.topo)

TInv == Reasons /\ LateTouch /\ TagNamesHolder

\* What a step does to the other jobs: nothing.
LEMMA OthersStay ==
  ASSUME TypeOK, NEW j \in Jobs, Step(j) \/ Failure(j), NEW k \in Jobs, k # j
  PROVE  pc'[k] = pc[k] /\ exit'[k] = exit[k]
<1>1. NextTopology(j) => pc'[k] = pc[k]
  BY NextTopologyType
<1>2. ASSUME NEW r, Exit(j, r) PROVE pc'[k] = pc[k] /\ exit'[k] = exit[k]
  BY <1>2 DEF Exit, TypeOK
<1>3. CASE Step(j)
  BY <1>1, <1>2, <1>3 DEF Step, Mkdir, Touch, TouchUnreachable, InstallTrap, CalibrationPasses,
     Sleep, TestsFinish, TestsDie, CleanupPasses, Rm, TypeOK
<1>4. CASE Failure(j)
  BY <1>1, <1>2, <1>4 DEF Failure, MkdirNoReply, TouchRefused, TouchConnectionLost,
     TouchTimeout, TrapFails, CalibrationFails, CleanupFails, RmNoReply, Abort, Kill, TypeOK
<1> QED BY <1>3, <1>4

\* A job that has ended does nothing any more.
LEMMA EndedStays ==
  ASSUME IInv, Next, NEW j \in Jobs, pc[j] \in Ended
  PROVE  pc'[j] = pc[j] /\ exit'[j] = exit[j]
<1>0. TypeOK
  BY DEF IInv
<1>1. ~Step(j)
  BY DEF Ended, Step, Mkdir, Touch, TouchUnreachable, InstallTrap, CalibrationPasses,
     Sleep, TestsFinish, TestsDie, CleanupPasses, Rm
<1>2. ~Failure(j)
  BY DEF Ended, Failure, MkdirNoReply, TouchRefused, TouchConnectionLost,
     TouchTimeout, TrapFails, CalibrationFails, CleanupFails, RmNoReply, Abort, Kill
<1> QED BY <1>0, <1>1, <1>2, OthersStay DEF Next, LateCommand, TgDown, TgUp

\* The reason is settled when the shell begins to exit.
LEMMA ReasonsStep == IInv /\ Reasons /\ [Next]_vars => Reasons'
<1> SUFFICES ASSUME IInv, Reasons, [Next]_vars PROVE Reasons'
  OBVIOUS
<1>0. TypeOK
  BY DEF IInv
<1> DEFINE R(j) == /\ pc[j] \in {"cleanup", "rm"} =>
                        exit[j] \in {"none", "trap", "calibration", "test", "term"}
                   /\ pc[j] \notin Ended \cup {"cleanup", "rm"} => exit[j] = "none"
<1>1. ASSUME NEW j \in Jobs, Step(j) \/ Failure(j) PROVE Reasons'
  <2>1. R(j)
    BY DEF Reasons
  <2>2. ASSUME NextTopology(j), exit' = exit, pc[j] \in {"mkdir", "touch"} PROVE R(j)'
    <3>1. pc'[j] \in {"mkdir", "sleep"} /\ exit[j] = "none"
      BY <1>0, <2>1, <2>2, NextTopologyType DEF Ended
    <3> QED BY <2>2, <3>1
  <2>3. ASSUME NEW r \in {"calibration", "test"}, Exit(j, r) PROVE R(j)'
    BY <1>0, <2>3 DEF Exit, TypeOK, Ended
  <2>4. ASSUME Step(j) PROVE R(j)'
    <3>1. CASE Mkdir(j)
      BY <1>0, <2>1, <2>2, <3>1 DEF Mkdir, TypeOK, Ended
    <3>2. CASE TouchUnreachable(j)
      BY <2>2, <3>2 DEF TouchUnreachable
    <3>3. CASE TestsDie(j)
      BY <2>3, <3>3 DEF TestsDie
    <3>4. CASE Rm(j)
      BY <1>0, <3>4 DEF Rm, TypeOK, Ended
    <3>5. CASE Touch(j) \/ InstallTrap(j) \/ CalibrationPasses(j) \/ Sleep(j)
      BY <1>0, <2>1, <3>5 DEF Touch, InstallTrap, CalibrationPasses, Sleep, TypeOK, Ended
    <3>6. CASE TestsFinish(j) \/ CleanupPasses(j)
      BY <1>0, <2>1, <3>6 DEF TestsFinish, CleanupPasses, TypeOK, Ended
    <3> QED BY <2>4, <3>1, <3>2, <3>3, <3>4, <3>5, <3>6 DEF Step
  <2>5. ASSUME Failure(j) PROVE R(j)'
    <3>1. CASE MkdirNoReply(j) \/ TouchTimeout(j)
      BY <2>2, <3>1 DEF MkdirNoReply, TouchTimeout
    <3>2. CASE TouchRefused(j) \/ TouchConnectionLost(j)
      BY <1>0, <2>1, <3>2 DEF TouchRefused, TouchConnectionLost, TypeOK, Ended
    <3>3. CASE TrapFails(j)
      BY <1>0, <3>3 DEF TrapFails, TypeOK, Ended
    <3>4. CASE CalibrationFails(j)
      BY <2>3, <3>4 DEF CalibrationFails
    <3>5. CASE CleanupFails(j)
      <4>1. ~trap[j]
        BY <3>5 DEF CleanupFails, IInv, TrapSpan
      <4> QED BY <1>0, <3>5, <4>1 DEF CleanupFails, Exit, TypeOK, Ended
    <3>6. CASE RmNoReply(j) \/ Kill(j)
      BY <1>0, <3>6 DEF RmNoReply, Kill, TypeOK, Ended
    <3>7. CASE Abort(j)
      BY <1>0, <3>7 DEF Abort, Exit, TypeOK, Ended
    <3> QED BY <2>5, <3>1, <3>2, <3>3, <3>4, <3>5, <3>6, <3>7 DEF Failure
  <2>6. R(j)'
    BY <1>1, <2>4, <2>5
  <2>7. \A k \in Jobs : k # j => R(k)'
    <3> SUFFICES ASSUME NEW k \in Jobs, k # j PROVE R(k)'
      OBVIOUS
    <3>1. R(k) /\ pc'[k] = pc[k] /\ exit'[k] = exit[k]
      BY <1>0, <1>1, OthersStay DEF Reasons
    <3> QED BY <3>1
  <2> QED BY <2>6, <2>7 DEF Reasons
<1>2. ASSUME UNCHANGED <<pc, exit>> PROVE Reasons'
  BY <1>2 DEF Reasons
<1>3. ASSUME NEW c \in late, LateCommand(c) PROVE Reasons'
  BY <1>2, <1>3 DEF LateCommand
<1>4. ASSUME NEW t \in Topos, TgDown(t) \/ TgUp(t) PROVE Reasons'
  BY <1>2, <1>4 DEF TgDown, TgUp
<1>5. CASE UNCHANGED vars
  BY <1>2, <1>5 DEF vars
<1> QED BY <1>1, <1>3, <1>4, <1>5 DEF Next

\* Who is named rightly stays so: a directory is taken from a job by its own rm only.
LEMMA NamedStays ==
  ASSUME IInv, Reasons, Next, NEW j \in Jobs, NEW t \in Topos, Named(j, t)
  PROVE  Named(j, t)'
<1>0. TypeOK
  BY DEF IInv
<1>1. CASE Gone(j)
  BY <1>1, EndedStays DEF Gone, Named
<1>2. CASE dir[t] = j /\ dir'[t] # j
  <2>1. ASSUME NEW k \in Jobs, Step(k) PROVE Gone(j)'
    <3>1. Rm(k)
      BY <1>0, <1>2, <2>1, JobsAssumption
      DEF Step, Mkdir, Touch, TouchUnreachable, InstallTrap, CalibrationPasses,
          Sleep, TestsFinish, TestsDie, CleanupPasses, remoteVars, TypeOK
    <3>2. wt[k] \in Topos /\ dir[wt[k]] = k /\ dir' = [dir EXCEPT ![wt[k]] = NoJob]
      BY <1>2, <3>1 DEF IInv, Held, Unreserve, Rm
    <3>3. k = j /\ dir[wt[k]] # NoJob /\ up[wt[k]]
      BY <1>0, <1>2, <3>1, <3>2, JobsAssumption DEF TypeOK, Rm
    <3>4. exit[j] \in {"none", "trap", "calibration", "test", "term"}
      BY <3>1, <3>3 DEF Rm, Reasons
    <3> QED BY <1>0, <3>1, <3>3, <3>4 DEF Rm, Gone, GaveBack, Ended, TypeOK
  <2>2. ASSUME NEW k \in Jobs, Failure(k) PROVE FALSE
    BY <1>2, <2>2 DEF Failure, MkdirNoReply, TouchRefused, TouchConnectionLost, TouchTimeout,
       TrapFails, CalibrationFails, CleanupFails, RmNoReply, Abort, Kill, remoteVars
  <2>3. ASSUME NEW c \in late, LateCommand(c) PROVE Gone(j)'
    <3>1. c.op = "rm"
      BY <1>0, <1>2, <2>3, JobsAssumption DEF LateCommand, TypeOK
    <3>2. dir' = [dir EXCEPT ![c.topo] = NoJob] /\ UNCHANGED <<pc, exit>>
      BY <2>3, <3>1 DEF LateCommand
    <3>3. t = c.topo
      BY <1>0, <1>2, <3>2 DEF TypeOK
    <3> QED BY <1>2, <3>1, <3>2, <3>3 DEF IInv, LateRm, Gone, GaveBack, Ended
  <2>4. ASSUME NEW u \in Topos, TgDown(u) \/ TgUp(u) PROVE FALSE
    BY <1>2, <2>4 DEF TgDown, TgUp
  <2> QED BY <2>1, <2>2, <2>3, <2>4 DEF Next, Named
<1> QED BY <1>1, <1>2 DEF Named

\* Only a job that holds the directory begins to write its tag there.
LEMMA TouchersNamed ==
  ASSUME IInv, TInv, Next
  PROVE  /\ \A c \in late' : c.op = "touch" => c \in late \/ dir'[c.topo] = c.job
         /\ \A t \in Topos : \A j \in tags'[t] :
              j \in tags[t] \/ dir'[t] = j \/ Named(j, t)
<1>0. TypeOK
  BY DEF IInv
<1>1. ASSUME NEW j \in Jobs, Step(j)
      PROVE  /\ late' = late
             /\ \A t \in Topos : \A k \in tags'[t] : k \in tags[t] \/ dir'[t] = k
  <2>1. late' = late
    BY <1>1 DEF Step, Mkdir, Touch, TouchUnreachable, InstallTrap, CalibrationPasses,
       Sleep, TestsFinish, TestsDie, CleanupPasses, Rm, remoteVars
  <2>2. CASE Touch(j)
    <3>1. Topo(j) \in Topos /\ dir[Topo(j)] = j
      BY <1>0, <2>2, TopoType DEF Touch, IInv, JustReserved
    <3> QED BY <1>0, <2>1, <2>2, <3>1 DEF Touch, TypeOK
  <2>3. CASE Rm(j)
    <3>1. tags' = tags \/ tags' = [tags EXCEPT ![wt[j]] = {}]
      BY <2>3 DEF Rm
    <3> QED BY <1>0, <2>1, <3>1 DEF TypeOK
  <2>4. CASE ~Touch(j) /\ ~Rm(j)
    <3>1. tags' = tags
      BY <1>1, <2>4 DEF Step, Mkdir, TouchUnreachable, InstallTrap, CalibrationPasses,
         Sleep, TestsFinish, TestsDie, CleanupPasses, remoteVars
    <3> QED BY <2>1, <3>1
  <2> QED BY <2>2, <2>3, <2>4
<1>2. ASSUME NEW j \in Jobs, Failure(j)
      PROVE  /\ \A c \in late' : c.op = "touch" => c \in late \/ dir'[c.topo] = c.job
             /\ tags' = tags
  <2>1. tags' = tags
    BY <1>2 DEF Failure, MkdirNoReply, TouchRefused, TouchConnectionLost, TouchTimeout,
       TrapFails, CalibrationFails, CleanupFails, RmNoReply, Abort, Kill, remoteVars
  <2>2. CASE TouchTimeout(j) \/ TouchConnectionLost(j)
    <3>1. dir[Topo(j)] = j
      BY <2>2 DEF TouchTimeout, TouchConnectionLost, IInv, JustReserved
    <3>2. /\ late' = late \cup {[op |-> "touch", job |-> j, topo |-> Topo(j), id |-> faults + 1]}
          /\ dir' = dir
      BY <2>2 DEF TouchTimeout, TouchConnectionLost, NoReply
    <3> QED BY <2>1, <3>1, <3>2
  <2>3. CASE MkdirNoReply(j) \/ RmNoReply(j)
    <3>1. \A c \in late' : c \in late \/ c.op \in {"mkdir", "rm"}
      BY <2>3 DEF MkdirNoReply, RmNoReply, NoReply
    <3> QED BY <2>1, <3>1
  <2>4. CASE late' = late
    BY <2>1, <2>4
  <2> QED BY <1>2, <2>2, <2>3, <2>4 DEF Failure, TouchRefused, TrapFails,
             CalibrationFails, CleanupFails, Abort, Kill, remoteVars
<1>3. ASSUME NEW d \in late, LateCommand(d)
      PROVE  /\ late' \subseteq late
             /\ \A t \in Topos : \A k \in tags'[t] : k \in tags[t] \/ Named(k, t)
  <2>1. late' \subseteq late
    BY <1>3 DEF LateCommand
  <2>2. CASE d.op = "touch"
    <3>1. Named(d.job, d.topo)
      BY <2>2 DEF TInv, LateTouch
    <3>2. \A t \in Topos : \A k \in tags'[t] : k \in tags[t] \/ (k = d.job /\ t = d.topo)
      BY <1>0, <1>3, <2>2 DEF LateCommand, TypeOK
    <3> QED BY <2>1, <3>1, <3>2
  <2>3. CASE d.op # "touch"
    <3>1. tags' = tags \/ tags' = [tags EXCEPT ![d.topo] = {}]
      BY <1>3, <2>3 DEF LateCommand
    <3> QED BY <1>0, <2>1, <3>1 DEF TypeOK
  <2> QED BY <2>2, <2>3
<1>4. ASSUME NEW t \in Topos, TgDown(t) \/ TgUp(t) PROVE UNCHANGED <<late, tags>>
  BY <1>4 DEF TgDown, TgUp
<1> QED BY <1>1, <1>2, <1>3, <1>4 DEF Next

\* The tags go on telling the truth.
LEMMA TagsStep == IInv /\ TInv /\ [Next]_vars => TInv'
<1> SUFFICES ASSUME IInv, TInv, [Next]_vars PROVE TInv'
  OBVIOUS
<1>0. /\ \A c \in late : c.job \in Jobs /\ c.topo \in Topos
      /\ \A c \in late' : c.job \in Jobs /\ c.topo \in Topos
      /\ \A t \in Topos : tags[t] \subseteq Jobs /\ tags'[t] \subseteq Jobs
  BY StepHolds DEF IInv, TypeOK, Cmds
<1>1. CASE UNCHANGED vars
  BY <1>1 DEF vars, TInv, Reasons, LateTouch, TagNamesHolder, Named, Gone
<1>2. CASE Next
  <2>1. Reasons'
    BY ReasonsStep DEF TInv
  <2>2. ASSUME NEW j \in Jobs, NEW t \in Topos, Named(j, t) PROVE Named(j, t)'
    BY <1>2, <2>2, NamedStays DEF TInv
  <2>3. LateTouch'
    <3> SUFFICES ASSUME NEW c \in late', c.op = "touch" PROVE Named(c.job, c.topo)'
      BY DEF LateTouch
    <3>1. c \in late \/ dir'[c.topo] = c.job
      BY <1>2, TouchersNamed
    <3>2. CASE c \in late
      BY <1>0, <2>2, <3>2 DEF TInv, LateTouch
    <3> QED BY <3>1, <3>2 DEF Named
  <2>4. TagNamesHolder'
    <3> SUFFICES ASSUME NEW t \in Topos, NEW j \in tags'[t] PROVE Named(j, t)'
      BY DEF TagNamesHolder, Named, Gone
    <3>1. j \in tags[t] \/ dir'[t] = j \/ Named(j, t)
      BY <1>2, TouchersNamed
    <3>2. j \in Jobs
      BY <1>0
    <3>3. j \in tags[t] => Named(j, t)
      BY DEF TInv, TagNamesHolder, Named, Gone
    <3>4. CASE dir'[t] = j
      BY <3>4 DEF Named
    <3> QED BY <2>2, <3>1, <3>2, <3>3, <3>4
  <2> QED BY <2>1, <2>3, <2>4 DEF TInv
<1> QED BY <1>1, <1>2

\* A run tag names the holder of the testbed, or a job that is over and has given a
\* testbed back, although a touch may be executed long after its script went on.
THEOREM TagsTruthful == Spec => []TagNamesHolder
<1>1. Init => IInv /\ TInv
  <2>1. Init => TInv
    BY DEF Init, TInv, Reasons, LateTouch, TagNamesHolder, Ended
  <2> QED BY <2>1, InitHolds
<1>2. (IInv /\ TInv) /\ [Next]_vars => (IInv /\ TInv)'
  BY StepHolds, TagsStep
<1>3. (IInv /\ TInv) => TagNamesHolder
  BY DEF TInv
<1> QED BY <1>1, <1>2, <1>3, PTL DEF Spec
=============================================================================
