----------------------------- MODULE Framework -----------------------------
(***************************************************************************)
(* resources/libraries/python/SetupFramework.py over the connections of    *)
(* ssh.py: before the suites the framework is copied to all nodes by one   *)
(* thread per node, after them it is deleted the same way.  In between the *)
(* main thread runs commands on one node, through an SSH object it keeps   *)
(* (ContainerUtils.py) and through exec_cmd calls that disconnect.         *)
(***************************************************************************)
EXTENDS SSH

CONSTANTS TG,            \* the node of type TG, it also gets a virtualenv
          Kept, Short,   \* SSH objects of the main thread
          MaxCalls       \* bound on the calls of the main thread

Threads == Users \ {Kept, Short}

ASSUME MainAssumption ==
  /\ {Kept, Short} \subseteq Users /\ Kept # Short /\ TG \in Nodes
  /\ {NodeOf[u] : u \in Threads} = Nodes
ASSUME CallAssumption == MaxCalls \in Nat

VARIABLES
  phase,    \* of the main thread
  thr,      \* what a thread does next
  results,  \* the list the threads append to, without its order
  tarball,  \* the local tarball exists
  tgz,      \* the copy of it exists on the node
  fw,       \* REMOTE_FW_DIR of the node
  broken,   \* nodes where tar failed and the shell went on
  failed,   \* how the work on a node failed: <<phase, node, what was raised>>
  calls     \* calls made by the main thread

localVars == <<phase, thr, results, tarball, failed, calls>>
nodeVars  == <<tgz, fw, broken>>
vars == <<sshVars, localVars, nodeVars>>

Phases == {"start", "setup", "tests", "raised", "cleanup", "cleaned", "dirty"}
Work   == {"copy_tarball_to_node", "extract_tarball_at_node",
           "create_env_directory_at_node", "delete_framework_dir"}

Init ==
  /\ SSHInit
  /\ phase = "start"
  /\ thr = [u \in Threads |-> "ended"]
  /\ results = {}
  /\ tarball = FALSE
  /\ tgz = [n \in Nodes |-> FALSE]
  /\ fw \in [Nodes -> {"none", "old"}]
  /\ broken = {}
  /\ failed = {}
  /\ calls = 0

-----------------------------------------------------------------------------
(* setup_framework and cleanup_framework.                                  *)

Start(first, next) ==
  /\ phase' = next
  /\ thr' = [u \in Threads |-> first]
  /\ results' = {}

\* pack_framework_dir, then a thread per node.
StartSetup ==
  /\ phase = "start"
  /\ Start("copy_tarball_to_node", "setup")
  /\ tarball' = TRUE
  /\ UNCHANGED <<sshVars, nodeVars, failed, calls>>

\* The suite teardown, after the tests or after a failed suite setup.
StartCleanup ==
  /\ phase \in {"tests", "raised"}
  /\ \A u \in Users : call[u].stage = "idle"
  /\ Start("delete_framework_dir", "cleanup")
  /\ UNCHANGED <<sshVars, nodeVars, tarball, failed, calls>>

\* thread.join for all threads.
Joined == \A u \in Threads : thr[u] \in {"ended", "died"}

\* Mutant: one node that is ready is enough.
AnyReady == \E r \in results : r[2]

\* all(results): what a thread that died did not append is not missed.
AllReady == \A r \in results : r[2]

\* delete_local_tarball comes before the results are looked at.
FinishSetup ==
  /\ phase = "setup"
  /\ Joined
  /\ tarball' = FALSE
  /\ phase' = IF AllReady THEN "tests" ELSE "raised"
  /\ UNCHANGED <<sshVars, nodeVars, thr, results, failed, calls>>

FinishCleanup ==
  /\ phase = "cleanup"
  /\ Joined
  /\ phase' = IF AllReady THEN "cleaned" ELSE "dirty"
  /\ UNCHANGED <<sshVars, nodeVars, thr, results, tarball, failed, calls>>

-----------------------------------------------------------------------------
(* setup_node and cleanup_node.                                            *)

Idle(u) == call[u].stage = "idle"

\* The SSH object of a call is gone with it.
Return(u) ==
  /\ call' = [call EXCEPT ![u] = NoCall]
  /\ ssh' = [ssh EXCEPT ![u] = 0]

ThreadCalls(u) ==
  /\ thr[u] \in Work /\ Idle(u) /\ call[u].outcome = "none"
  /\ Begin(u, thr[u])
  /\ UNCHANGED <<connVars, reach, running, faults, localVars, nodeVars>>

\* What comes after a call that succeeded.
After(u) ==
  IF thr[u] = "copy_tarball_to_node" THEN "extract_tarball_at_node"
  ELSE IF thr[u] = "extract_tarball_at_node" /\ NodeOf[u] = TG
       THEN "create_env_directory_at_node"
  ELSE "ended"

\* Mutant: whatever a call raises, the node counts as set up.
ResultForgotten(u) ==
  /\ thr[u] \in Work /\ Idle(u) /\ call[u].outcome = "RuntimeError"
  /\ thr' = [thr EXCEPT ![u] = "ended"]
  /\ results' = results \cup {<<u, TRUE>>}
  /\ failed' = failed \cup {<<phase, NodeOf[u], "RuntimeError">>}
  /\ Return(u)
  /\ UNCHANGED <<conns, made, open, link, reach, running, faults, phase, tarball, calls, nodeVars>>

\* "except RuntimeError": the result is False.
ThreadFails(u) ==
  /\ thr[u] \in Work /\ Idle(u) /\ call[u].outcome = "RuntimeError"
  /\ thr' = [thr EXCEPT ![u] = "ended"]
  /\ results' = results \cup {<<u, FALSE>>}
  /\ failed' = failed \cup {<<phase, NodeOf[u], "RuntimeError">>}
  /\ Return(u)
  /\ UNCHANGED <<conns, made, open, link, reach, running, faults, phase, tarball, calls, nodeVars>>

\* Any other exception ends the thread before it appends a result.
ThreadDies(u) ==
  /\ thr[u] \in Work /\ Idle(u) /\ call[u].outcome = "raised"
  /\ thr' = [thr EXCEPT ![u] = "died"]
  /\ failed' = failed \cup {<<phase, NodeOf[u], "raised">>}
  /\ Return(u)
  /\ UNCHANGED <<conns, made, open, link, reach, running, faults, phase, results, tarball, calls, nodeVars>>

ThreadGoesOn(u) ==
  /\ thr[u] \in Work /\ Idle(u) /\ call[u].outcome = "ok"
  /\ thr' = [thr EXCEPT ![u] = After(u)]
  /\ results' = IF After(u) = "ended" THEN results \cup {<<u, TRUE>>} ELSE results
  /\ Return(u)
  /\ UNCHANGED <<conns, made, open, link, reach, running, faults, phase, tarball, failed, calls, nodeVars>>

\* scp.put of the tarball; without it an OSError.
Copy(u) ==
  /\ call[u].stage = "copy" /\ Usable(u)
  /\ IF tarball THEN End(u, "ok") ELSE End(u, "raised")
  /\ tgz' = [tgz EXCEPT ![NodeOf[u]] = @ \/ tarball]
  /\ UNCHANGED <<connVars, reach, running, faults, localVars, fw, broken>>

-----------------------------------------------------------------------------
(* What the commands do on the nodes.                                      *)

\* "rm -rf; mkdir; tar; rm -f": the code is that of the last rm.
ExtractEnds(c) ==
  LET n == NodeOf[c.user] IN
  /\ c.op = "extract_tarball_at_node"
  /\ CommandEnds(c, 0)
  /\ \/ /\ tgz[n]
        /\ fw' = [fw EXCEPT ![n] = "new"]
        /\ UNCHANGED <<broken, faults>>
     \/ /\ tgz[n] => Fault
        /\ ~tgz[n] => UNCHANGED faults
        /\ fw' = [fw EXCEPT ![n] = "partial"]
        /\ broken' = broken \cup {n}
  /\ tgz' = [tgz EXCEPT ![n] = FALSE]

CreateEnvEnds(c) ==
  /\ c.op = "create_env_directory_at_node"
  /\ \/ fw[NodeOf[c.user]] # "none" /\ CommandEnds(c, 0) /\ UNCHANGED faults
     \/ fw[NodeOf[c.user]] # "new" /\ CommandEnds(c, 1) /\ UNCHANGED faults
     \/ fw[NodeOf[c.user]] = "new" /\ CommandEnds(c, 1) /\ Fault
  /\ UNCHANGED nodeVars

DeleteEnds(c) ==
  /\ c.op = "delete_framework_dir"
  /\ \/ /\ CommandEnds(c, 0)
        /\ fw' = [fw EXCEPT ![NodeOf[c.user]] = "none"]
        /\ UNCHANGED faults
     \/ /\ CommandEnds(c, 1)
        /\ Fault
        /\ UNCHANGED fw
  /\ UNCHANGED <<tgz, broken>>

TestCommandEnds(c) ==
  /\ c.op = "test"
  /\ \E code \in {0, 1} : CommandEnds(c, code)
  /\ UNCHANGED <<nodeVars, faults>>

RemoteStep ==
  /\ \E c \in running : ExtractEnds(c) \/ CreateEnvEnds(c) \/ DeleteEnds(c) \/ TestCommandEnds(c)
  /\ UNCHANGED <<connVars, reach, localVars>>

-----------------------------------------------------------------------------
(* The main thread during the tests: one call at a time.                   *)

MainIdle == Idle(Kept) /\ Idle(Short)

\* exec_command of an SSH object that connected some time ago.
KeptCalls ==
  /\ phase = "tests" /\ MainIdle /\ calls < MaxCalls
  /\ calls' = calls + 1
  /\ call' = [call EXCEPT ![Kept] = [op |-> "test", outcome |-> "none",
                                     stage |-> IF ssh[Kept] = 0 THEN "connect" ELSE "open"]]
  /\ UNCHANGED <<connVars, reach, running, faults, phase, thr, results, tarball, failed, nodeVars>>

\* exec_cmd(node, cmd, disconnect=True)
ShortCalls ==
  /\ phase = "tests" /\ MainIdle /\ calls < MaxCalls
  /\ call[Short].outcome = "none"
  /\ calls' = calls + 1
  /\ Begin(Short, "test")
  /\ UNCHANGED <<connVars, reach, running, faults, phase, thr, results, tarball, failed, nodeVars>>

\* "finally: if disconnect: ssh.disconnect()"
ShortDisconnects ==
  LET n == NodeOf[Short] IN
  /\ Idle(Short) /\ call[Short].outcome # "none"
  /\ conns' = [conns EXCEPT ![n] = disconnect(n)[1]]
  /\ open' = [open EXCEPT ![n] = disconnect(n)[2]]
  /\ Return(Short)
  /\ UNCHANGED <<made, link, reach, running, faults, localVars, nodeVars>>

-----------------------------------------------------------------------------
SSHStep(u) ==
  /\ \/ Connect(u, IF call[u].op = "copy_tarball_to_node" THEN "copy" ELSE "open")
     \/ OpenSession(u) \/ Exec(u) \/ ChannelLost(u) \/ CopyLost(u)
  /\ UNCHANGED <<localVars, nodeVars>>

ThreadStep(u) ==
  ThreadCalls(u) \/ ThreadFails(u) \/ ThreadDies(u) \/ ThreadGoesOn(u) \/ Copy(u)

MainStep ==
  StartSetup \/ FinishSetup \/ StartCleanup \/ FinishCleanup \/ ShortDisconnects

Environment ==
  /\ \/ \E u \in Users : Timeout(u)
     \/ \E n \in Nodes : LinkLost(n) \/ LinkNoticed(n) \/ NodeDown(n) \/ NodeUp(n)
  /\ UNCHANGED <<localVars, nodeVars>>

Next ==
  \/ MainStep \/ KeptCalls \/ ShortCalls
  \/ \E u \in Threads : ThreadStep(u)
  \/ \E u \in Users : SSHStep(u)
  \/ RemoteStep
  \/ Environment

Spec == Init /\ [][Next]_vars

\* Threads run, commands end on the nodes; nothing waits without a timeout.
FairSpec ==
  /\ Spec
  /\ WF_vars(MainStep)
  /\ WF_vars(RemoteStep)
  /\ \A u \in Threads : WF_vars(ThreadStep(u))
  /\ \A u \in Users : WF_vars(SSHStep(u))

-----------------------------------------------------------------------------
(* Properties.                                                             *)

TypeOK ==
  /\ SSHTypeOK
  /\ call \in [Users -> [op : Work \cup {"test", "none"}, stage : Stages, outcome : Outcomes]]
  /\ running \subseteq [user : Users, op : Work \cup {"test"}]
  /\ phase \in Phases
  /\ thr \in [Threads -> Work \cup {"ended", "died"}]
  /\ results \subseteq Threads \X BOOLEAN
  /\ tarball \in BOOLEAN
  /\ tgz \in [Nodes -> BOOLEAN]
  /\ fw \in [Nodes -> {"none", "old", "partial", "new"}]
  /\ broken \subseteq Nodes
  /\ failed \subseteq {"setup", "cleanup"} \X Nodes \X {"raised", "RuntimeError"}
  /\ calls \in 0 .. MaxCalls

\* When setup_framework returns, a node lacks this run's framework only because
\* its thread died of an exception that is no RuntimeError, or because tar
\* failed in the middle of the shell command; nothing is left from an old run.
ReadyExplained ==
  \A n \in Nodes :
    phase = "tests" /\ fw[n] # "new" => <<"setup", n, "raised">> \in failed \/ n \in broken

\* When cleanup_framework returns, a node still has the framework only if its
\* cleanup thread died unnoticed, or if its setup had lost sight of an extraction
\* that was still running when the directory was deleted.
CleanExplained ==
  \A n \in Nodes :
    phase = "cleaned" /\ fw[n] # "none" =>
      \E f \in failed : f[2] = n /\ (f[1] = "cleanup" => f[3] = "raised")

\* The docstring of setup_framework: ":raises RuntimeError: If setup framework
\* failed."
SetupFailureRaised == phase = "tests" => \A n \in Nodes : fw[n] = "new"

\* All threads are joined, whatever happens to their connections.
Ends == <>(phase \in {"cleaned", "dirty"})
=============================================================================
