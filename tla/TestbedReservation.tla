------------------------- MODULE TestbedReservation -------------------------
(***************************************************************************)
(* Reservation of the physical testbeds by concurrent CSIT jobs.           *)
(*                                                                         *)
(* Every performance job runs the bash function reserve_and_cleanup_testbed*)
(* (common.sh), which tries the testbeds of its TOPOLOGIES array in order. *)
(* One attempt is a run of topo_reservation.py, which creates a directory  *)
(* on the traffic generator of the testbed over ssh: mkdir is the lock.    *)
(* The job then installs an EXIT trap, cleans the testbed, tests, and      *)
(* untrap_and_unreserve_testbed removes the directory with "rm -r".        *)
(*                                                                         *)
(* The code sees only whether the directory exists.  Who created it, the   *)
(* value of dir, is known to the model alone.                              *)
(*                                                                         *)
(* A remote command that gets no reply (timeout after 600 s, connection    *)
(* lost) may have been executed, may be executed later, or never: it goes  *)
(* to the set late, from which LateCommand may execute it at any time.     *)
(* The directory is assumed to survive as long as nobody removes it (no    *)
(* reboot of the traffic generator that clears /tmp).                      *)
(***************************************************************************)
EXTENDS Integers, Sequences, FiniteSets

CONSTANTS Jobs,        \* the jobs
          Topos,       \* the testbeds
          Topologies,  \* Topologies[j]: the TOPOLOGIES array of job j
          NoJob, NoTopo,
          MaxFaults    \* bound on the number of faults in a behaviour

ASSUME JobsAssumption == NoJob \notin Jobs /\ NoTopo \notin Topos

\* select_topology dies on an empty TOPOLOGIES array.
ASSUME TopologiesAssumption ==
  /\ Topologies \in [Jobs -> Seq(Topos)]
  /\ \A j \in Jobs : Topologies[j] # << >>

ASSUME MaxFaultsAssumption == MaxFaults \in Nat

VARIABLES
  dir,     \* dir[t]: creator of /tmp/reservation_dir on the TG of t, or NoJob
  tags,    \* tags[t]: jobs whose run tag file is in that directory
  up,      \* up[t]: the TG of t accepts ssh connections
  late,    \* remote commands nobody waits for and which may still execute
  pc,      \* pc[j]: where job j is
  idx,     \* idx[j]: position of the for loop in TOPOLOGIES
  wt,      \* wt[j]: WORKING_TOPOLOGY
  trap,    \* trap[j]: the EXIT trap is installed
  exit,    \* exit[j]: why the shell of job j is exiting or has exited
  lost,    \* lost[j]: job j gave up a testbed after a command without reply
  faults   \* number of faults so far

vars == <<dir, tags, up, late, pc, idx, wt, trap, exit, lost, faults>>
remoteVars == <<dir, tags, up, late>>

(***************************************************************************)
(* Control points.  "mkdir" covers topo_reservation.py up to the mkdir,    *)
(* "touch" the writing of the run tag, "reserved" the return of code 0 to  *)
(* bash; "calibrate" is ansible_playbook "cleanup, calibration", "test"    *)
(* everything up to run_pybot; "cleanup" and "rm" are the two halves of    *)
(* untrap_and_unreserve_testbed.                                           *)
(***************************************************************************)
Trying    == {"mkdir", "touch", "reserved"}
Working   == {"calibrate", "test", "cleanup"}
Unreserve == {"rm"}
Ended     == {"done", "dead"}
PC        == {"sleep"} \cup Trying \cup Working \cup Unreserve \cup Ended

ExitReasons == {"none", "ok", "trap", "calibration", "test", "term",
                "untrapped", "ansible", "unreserve", "kill"}

Cmds == [op : {"mkdir", "touch", "rm"}, job : Jobs, topo : Topos,
         id : 1 .. MaxFaults]

Topo(j) == Topologies[j][idx[j]]

Init ==
  /\ dir = [t \in Topos |-> NoJob]
  /\ tags = [t \in Topos |-> {}]
  /\ up \in [Topos -> BOOLEAN]
  /\ late = {}
  /\ pc = [j \in Jobs |-> "mkdir"]
  /\ idx = [j \in Jobs |-> 1]
  /\ wt = [j \in Jobs |-> NoTopo]
  /\ trap = [j \in Jobs |-> FALSE]
  /\ exit = [j \in Jobs |-> "none"]
  /\ lost = [j \in Jobs |-> FALSE]
  /\ faults = 0

-----------------------------------------------------------------------------
(* Pieces shared by the actions.                                           *)

\* One more fault, if the bound allows it.
Fault ==
  /\ faults < MaxFaults
  /\ faults' = faults + 1

\* Job j stops waiting for command op on testbed t: exec_cmd returns None or
\* -1, or raises SSHTimeout or IOError.
NoReply(j, op, t) ==
  /\ Fault
  /\ lost' = [lost EXCEPT ![j] = TRUE]
  /\ late' = late \cup {[op |-> op, job |-> j, topo |-> t, id |-> faults + 1]}

\* The for loop moves on after a non-zero return code; after the last
\* testbed the job goes to sleep before the next round.
NextTopology(j) ==
  IF idx[j] < Len(Topologies[j])
  THEN /\ idx' = [idx EXCEPT ![j] = @ + 1]
       /\ pc' = [pc EXCEPT ![j] = "mkdir"]
  ELSE /\ pc' = [pc EXCEPT ![j] = "sleep"]
       /\ UNCHANGED idx

\* The shell of job j exits for the given reason: the EXIT trap, when it is
\* installed, runs untrap_and_unreserve_testbed, which first removes the trap.
\* Otherwise the process ends and its variables are gone.
Exit(j, reason) ==
  /\ exit' = [exit EXCEPT ![j] = reason]
  /\ IF trap[j]
     THEN /\ pc' = [pc EXCEPT ![j] = "cleanup"]
          /\ trap' = [trap EXCEPT ![j] = FALSE]
          /\ UNCHANGED wt
     ELSE /\ pc' = [pc EXCEPT ![j] = "dead"]
          /\ wt' = [wt EXCEPT ![j] = NoTopo]
          /\ UNCHANGED trap

-----------------------------------------------------------------------------
(* topo_reservation.py: making a reservation.                              *)

\* Mutant: "mkdir -p", which succeeds on an existing directory.
MkdirParents(j) ==
  /\ pc[j] = "mkdir"
  /\ up[Topo(j)]
  /\ dir' = [dir EXCEPT ![Topo(j)] = j]
  /\ pc' = [pc EXCEPT ![j] = "touch"]
  /\ UNCHANGED <<tags, up, late, idx, wt, trap, exit, lost, faults>>

\* The diagnostic listing and the mkdir.  The mkdir succeeds when the
\* directory does not exist.  A failed one (return code 2), or a TG that
\* cannot be reached (return code 1), makes the caller try the next testbed.
Mkdir(j) ==
  /\ pc[j] = "mkdir"
  /\ LET t == Topo(j) IN
     IF up[t] /\ dir[t] = NoJob
     THEN /\ dir' = [dir EXCEPT ![t] = j]
          /\ pc' = [pc EXCEPT ![j] = "touch"]
          /\ UNCHANGED idx
     ELSE NextTopology(j) /\ UNCHANGED dir
  /\ UNCHANGED <<tags, up, late, wt, trap, exit, lost, faults>>

\* No reply to the mkdir: return code 1 or 2 although it may be executed.
MkdirNoReply(j) ==
  /\ pc[j] = "mkdir"
  /\ up[Topo(j)]
  /\ NoReply(j, "mkdir", Topo(j))
  /\ NextTopology(j)
  /\ UNCHANGED <<dir, tags, up, wt, trap, exit>>

\* The run tag is written.
Touch(j) ==
  /\ pc[j] = "touch"
  /\ up[Topo(j)]
  /\ tags' = [tags EXCEPT ![Topo(j)] = @ \cup {j}]
  /\ pc' = [pc EXCEPT ![j] = "reserved"]
  /\ UNCHANGED <<dir, up, late, idx, wt, trap, exit, lost, faults>>

\* The touch fails (non-zero code), or its channel cannot be opened: "Writing test
\* run info failed, but continuing anyway".
TouchRefused(j) ==
  /\ pc[j] = "touch"
  /\ up[Topo(j)]
  /\ Fault
  /\ pc' = [pc EXCEPT ![j] = "reserved"]
  /\ UNCHANGED <<dir, tags, up, late, idx, wt, trap, exit, lost>>

\* The connection is lost while the touch is under way: the code is -1, or None
\* when exec_cmd catches the SSHException.  The script goes on all the same, and
\* the touch may still be executed.
TouchConnectionLost(j) ==
  /\ pc[j] = "touch"
  /\ up[Topo(j)]
  /\ Fault
  /\ late' = late \cup {[op |-> "touch", job |-> j, topo |-> Topo(j), id |-> faults + 1]}
  /\ pc' = [pc EXCEPT ![j] = "reserved"]
  /\ UNCHANGED <<dir, tags, up, idx, wt, trap, exit, lost>>

\* The touch times out: exec_cmd does not catch SSHTimeout, so the script ends
\* with the return code 1 of an unexpected exception.
TouchTimeout(j) ==
  /\ pc[j] = "touch"
  /\ up[Topo(j)]
  /\ NoReply(j, "touch", Topo(j))
  /\ NextTopology(j)
  /\ UNCHANGED <<dir, tags, up, wt, trap, exit>>

\* The TG went away after the mkdir: SSH.connect raises IOError, which exec_cmd
\* does not catch either.  The command is never sent.
TouchUnreachable(j) ==
  /\ pc[j] = "touch"
  /\ ~up[Topo(j)]
  /\ lost' = [lost EXCEPT ![j] = TRUE]
  /\ NextTopology(j)
  /\ UNCHANGED <<dir, tags, up, late, wt, trap, exit, faults>>

-----------------------------------------------------------------------------
(* reserve_and_cleanup_testbed after a successful reservation.             *)

\* Mutant: the trap is not installed before the cleanup and calibration.
InstallTrapLater(j) ==
  /\ pc[j] = "reserved"
  /\ wt' = [wt EXCEPT ![j] = Topo(j)]
  /\ pc' = [pc EXCEPT ![j] = "calibrate"]
  /\ UNCHANGED <<remoteVars, idx, trap, exit, lost, faults>>

\* WORKING_TOPOLOGY is set and the trap installed.
InstallTrap(j) ==
  /\ pc[j] = "reserved"
  /\ wt' = [wt EXCEPT ![j] = Topo(j)]
  /\ trap' = [trap EXCEPT ![j] = TRUE]
  /\ pc' = [pc EXCEPT ![j] = "calibrate"]
  /\ UNCHANGED <<remoteVars, idx, exit, lost, faults>>

\* The trap command fails: the testbed is given back and the job dies.
TrapFails(j) ==
  /\ pc[j] = "reserved"
  /\ Fault
  /\ wt' = [wt EXCEPT ![j] = Topo(j)]
  /\ exit' = [exit EXCEPT ![j] = "trap"]
  /\ pc' = [pc EXCEPT ![j] = "cleanup"]
  /\ UNCHANGED <<remoteVars, idx, trap, lost>>

CalibrationPasses(j) ==
  /\ pc[j] = "calibrate"
  /\ pc' = [pc EXCEPT ![j] = "test"]
  /\ UNCHANGED <<remoteVars, idx, wt, trap, exit, lost, faults>>

\* ansible_playbook ends in "|| die", and die exits the shell of the caller:
\* the lines after it that would unreserve and try the next testbed are not
\* reached, the EXIT trap is run instead.
CalibrationFails(j) ==
  /\ pc[j] = "calibrate"
  /\ Fault
  /\ Exit(j, "calibration")
  /\ UNCHANGED <<remoteVars, idx, lost>>

\* Mutant: after the sleep only the last testbed is tried again.
SleepNoRestart(j) ==
  /\ pc[j] = "sleep"
  /\ pc' = [pc EXCEPT ![j] = "mkdir"]
  /\ UNCHANGED <<remoteVars, idx, wt, trap, exit, lost, faults>>

\* After the for loop found no testbed, 180 to 199 seconds pass.
Sleep(j) ==
  /\ pc[j] = "sleep"
  /\ idx' = [idx EXCEPT ![j] = 1]
  /\ pc' = [pc EXCEPT ![j] = "mkdir"]
  /\ UNCHANGED <<remoteVars, wt, trap, exit, lost, faults>>

-----------------------------------------------------------------------------
(* The entry script: tests, then untrap_and_unreserve_testbed.             *)

\* Mutant: the testbed is unreserved before it is cleaned.
UnreserveBeforeCleanup(j) ==
  /\ pc[j] = "test"
  /\ dir' = [dir EXCEPT ![wt[j]] = NoJob]
  /\ tags' = [tags EXCEPT ![wt[j]] = {}]
  /\ trap' = [trap EXCEPT ![j] = FALSE]
  /\ pc' = [pc EXCEPT ![j] = "cleanup"]
  /\ UNCHANGED <<up, late, idx, wt, exit, lost, faults>>

\* select_tags, compose_pybot_arguments and run_pybot return; the entry script
\* calls untrap_and_unreserve_testbed, which removes the trap first.
TestsFinish(j) ==
  /\ pc[j] = "test"
  /\ trap' = [trap EXCEPT ![j] = FALSE]
  /\ pc' = [pc EXCEPT ![j] = "cleanup"]
  /\ UNCHANGED <<remoteVars, idx, wt, exit, lost, faults>>

\* One of them fails and the entry script dies.
TestsDie(j) ==
  /\ pc[j] = "test"
  /\ Exit(j, "test")
  /\ UNCHANGED <<remoteVars, idx, lost, faults>>

CleanupPasses(j) ==
  /\ pc[j] = "cleanup"
  /\ pc' = [pc EXCEPT ![j] = "rm"]
  /\ UNCHANGED <<remoteVars, idx, wt, trap, exit, lost, faults>>

\* "ansible_playbook cleanup || true" does not survive a failure: die exits,
\* and the trap is no longer installed.
CleanupFails(j) ==
  /\ pc[j] = "cleanup"
  /\ Fault
  /\ Exit(j, "ansible")
  /\ UNCHANGED <<remoteVars, idx, lost>>

\* topo_reservation.py -c: "rm -r" succeeds when the directory exists.  The
\* function then empties WORKING_TOPOLOGY and returns to the entry script, or
\* the exit that ran the trap goes on.  When rm fails, the job dies.
Rm(j) ==
  /\ pc[j] = "rm"
  /\ LET removed == up[wt[j]] /\ dir[wt[j]] # NoJob
         normal  == removed /\ exit[j] = "none"
     IN  /\ IF removed
            THEN /\ dir' = [dir EXCEPT ![wt[j]] = NoJob]
                 /\ tags' = [tags EXCEPT ![wt[j]] = {}]
            ELSE UNCHANGED <<dir, tags>>
         /\ exit' = [exit EXCEPT ![j] = IF normal THEN "ok"
                                        ELSE IF removed THEN @ ELSE "unreserve"]
         /\ pc' = [pc EXCEPT ![j] = IF normal THEN "done" ELSE "dead"]
         /\ wt' = [wt EXCEPT ![j] = NoTopo]
  /\ UNCHANGED <<up, late, idx, trap, lost, faults>>

\* Mutant: the cancellation is retried when it got no reply.
RmRetried(j) ==
  /\ pc[j] = "rm"
  /\ up[wt[j]]
  /\ NoReply(j, "rm", wt[j])
  /\ UNCHANGED <<dir, tags, up, pc, idx, wt, trap, exit>>

\* No reply to the rm: "FAILED TO UNRESERVE, FIX MANUALLY."
RmNoReply(j) ==
  /\ pc[j] = "rm"
  /\ up[wt[j]]
  /\ NoReply(j, "rm", wt[j])
  /\ exit' = [exit EXCEPT ![j] = "unreserve"]
  /\ pc' = [pc EXCEPT ![j] = "dead"]
  /\ wt' = [wt EXCEPT ![j] = NoTopo]
  /\ UNCHANGED <<dir, tags, up, idx, trap>>

-----------------------------------------------------------------------------
(* The environment.                                                        *)

\* A job is aborted with a signal that lets bash run its EXIT trap.
Abort(j) ==
  /\ pc[j] \notin Ended
  /\ Fault
  /\ Exit(j, IF trap[j] THEN "term" ELSE "untrapped")
  /\ UNCHANGED <<remoteVars, idx, lost>>

\* A job, or the machine it runs on, is killed.
Kill(j) ==
  /\ pc[j] \notin Ended
  /\ Fault
  /\ exit' = [exit EXCEPT ![j] = "kill"]
  /\ pc' = [pc EXCEPT ![j] = "dead"]
  /\ wt' = [wt EXCEPT ![j] = NoTopo]
  /\ trap' = [trap EXCEPT ![j] = FALSE]
  /\ UNCHANGED <<remoteVars, idx, lost>>

\* A command nobody waits for is executed after all.
LateCommand(c) ==
  /\ up[c.topo]
  /\ late' = late \ {c}
  /\ \/ /\ c.op = "mkdir"
        /\ dir' = [dir EXCEPT ![c.topo] = IF @ = NoJob THEN c.job ELSE @]
        /\ UNCHANGED tags
     \/ /\ c.op = "touch"
        /\ tags' = [tags EXCEPT ![c.topo] =
                      IF dir[c.topo] # NoJob THEN @ \cup {c.job} ELSE @]
        /\ UNCHANGED dir
     \/ /\ c.op = "rm"
        /\ dir' = [dir EXCEPT ![c.topo] = NoJob]
        /\ tags' = [tags EXCEPT ![c.topo] = {}]
  /\ UNCHANGED <<up, pc, idx, wt, trap, exit, lost, faults>>

TgDown(t) ==
  /\ up[t]
  /\ Fault
  /\ up' = [up EXCEPT ![t] = FALSE]
  /\ UNCHANGED <<dir, tags, late, pc, idx, wt, trap, exit, lost>>

TgUp(t) ==
  /\ ~up[t]
  /\ up' = [up EXCEPT ![t] = TRUE]
  /\ UNCHANGED <<dir, tags, late, pc, idx, wt, trap, exit, lost, faults>>

-----------------------------------------------------------------------------
\* What job j does when nothing goes wrong with the ssh replies and ansible.
Step(j) ==
  \/ Mkdir(j) \/ Touch(j) \/ TouchUnreachable(j) \/ InstallTrap(j)
  \/ CalibrationPasses(j) \/ Sleep(j)
  \/ TestsFinish(j) \/ TestsDie(j) \/ CleanupPasses(j) \/ Rm(j)

\* What goes wrong in job j.
Failure(j) ==
  \/ MkdirNoReply(j) \/ TouchRefused(j) \/ TouchConnectionLost(j) \/ TouchTimeout(j)
  \/ TrapFails(j)
  \/ CalibrationFails(j) \/ CleanupFails(j) \/ RmNoReply(j)
  \/ Abort(j) \/ Kill(j)

Next ==
  \/ \E j \in Jobs : Step(j) \/ Failure(j)
  \/ \E c \in late : LateCommand(c)
  \/ \E t \in Topos : TgDown(t) \/ TgUp(t)

Spec == Init /\ [][Next]_vars

\* A job that can run does run: each is a process of its own on a Jenkins
\* executor, and its waits (ssh timeouts, sleep, ansible) are all bounded.
Fairness == \A j \in Jobs : WF_vars(Step(j))

FairSpec == Spec /\ Fairness

-----------------------------------------------------------------------------
(* Properties.                                                             *)

\* The types of the variables of the two scripts.
TypeOK ==
  /\ dir \in [Topos -> Jobs \cup {NoJob}]
  /\ tags \in [Topos -> SUBSET Jobs]
  /\ up \in [Topos -> BOOLEAN]
  /\ late \in SUBSET Cmds
  /\ pc \in [Jobs -> PC]
  /\ idx \in [Jobs -> Nat]
  /\ \A j \in Jobs : idx[j] \in 1 .. Len(Topologies[j])
  /\ wt \in [Jobs -> Topos \cup {NoTopo}]
  /\ trap \in [Jobs -> BOOLEAN]
  /\ exit \in [Jobs -> ExitReasons]
  /\ lost \in [Jobs -> BOOLEAN]
  /\ faults \in 0 .. MaxFaults

\* "Here the script knows it is the only owner of the testbed"
\* (topo_reservation.py): no two jobs clean, calibrate or test the same testbed,
\* whatever happens to the replies of the remote commands.
MutualExclusion ==
  \A j, k \in Jobs :
    j # k /\ pc[j] \in Working /\ pc[k] \in Working => wt[j] # wt[k]

\* "rm -r" does not look at who created the directory, so it must only ever
\* reach the directory of the job that issues it: a reservation disappears only
\* when its creator is in, or has died in, the cancellation.
OnlyCreatorRemoves ==
  [][\A t \in Topos : dir[t] # NoJob /\ dir'[t] # dir[t] =>
        /\ dir'[t] = NoJob
        /\ \/ pc[dir[t]] = "rm" /\ wt[dir[t]] = t
           \/ pc[dir[t]] = "dead" /\ exit[dir[t]] = "unreserve"]_vars

\* How a job ends that has cancelled its reservation, or has sent the rm at least.
GaveBack == {"ok", "trap", "calibration", "test", "term", "unreserve"}

\* By the run tag in the directory an administrator identifies "the test run holding
\* the testbed" (topo_reservation.py).  A touch may be executed long after the script
\* went on without a reply, in the directory of the next job even; but a tag that
\* does not name the holder names a job that is over and has given a testbed back,
\* never one that is at work, waits, or has left its reservation behind.
TagNamesHolder ==
  \A t \in Topos : \A j \in tags[t] :
    dir[t] = j \/ (pc[j] \in Ended /\ exit[j] \in GaveBack)

\* A job that has ended leaves a testbed reserved only if it was killed, was
\* signalled outside the span of its trap, a remote command got no reply, or
\* the teardown itself died.  All other ends (tests done, tests or calibration
\* dead, trap not installable, signal under the trap) give the testbed back.
LeakExplained ==
  \A t \in Topos, j \in Jobs :
    dir[t] = j /\ pc[j] \in Ended =>
      lost[j] \/ exit[j] \in {"kill", "untrapped", "ansible", "unreserve"}

\* The comment of untrap_and_unreserve_testbed: "Use this as a trap function to
\* ensure testbed does not remain reserved", "Topo cleanup is executed [...],
\* ignoring failures".  Hence a failed cleanup does not keep the reservation.
CleanupFailureIgnored ==
  \A t \in Topos, j \in Jobs :
    pc[j] = "dead" /\ exit[j] = "ansible" => dir[t] # j

\* A testbed nobody will give back.
Abandoned(t) == \E j \in Jobs : dir[t] = j /\ (pc[j] \in Ended \/ lost[j])

\* A job with a testbed that stays reachable and is not abandoned ends, whatever
\* goes wrong elsewhere: the retry loop of reserve_and_cleanup_testbed does not
\* wait forever for other jobs that give their testbeds back.
EveryJobServed ==
  \A j \in Jobs :
    (\E i \in 1 .. Len(Topologies[j]) :
        [](up[Topologies[j][i]] /\ ~Abandoned(Topologies[j][i])))
      => <>(pc[j] \in Ended)

\* Nothing but the directory keeps jobs apart: what a job works on is what the
\* abstract lock of TestbedLock says it may work on.
Lock == INSTANCE TestbedLock WITH
          holder  <- dir,
          working <- [j \in Jobs |-> IF pc[j] \in Working THEN wt[j] ELSE NoTopo]

LockSpec == Lock!LockSpec
=============================================================================
