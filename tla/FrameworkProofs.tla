-------------------------- MODULE FrameworkProofs --------------------------
(***************************************************************************)
(* Proofs about Framework and the connections of SSH, for any nodes, any   *)
(* number of threads per node, calls and faults.                           *)
(*                                                                         *)
(* What the main thread knows of a node when it goes on is only what       *)
(* "results" says.  The proofs follow a result back to the command it came *)
(* from, which needs that no call takes the end of another command for its *)
(* own (Calls), that nothing is deleted before the cleanup (NoEarlyDelete) *)
(* and that a command whose thread has given up is accounted for           *)
(* (Abandoned).                                                            *)
(***************************************************************************)
EXTENDS Framework, TLAPS

BeforeCleanup == phase \in {"start", "setup", "tests", "raised"}

\* A thread is in a call only for its current work, the main thread only to
\* run a command; a call under way has no outcome yet.
Calls ==
  /\ \A u \in Users :
       \/ call[u].op = "none" /\ call[u].stage = "idle" /\ call[u].outcome = "none"
       \/ u \in Threads /\ call[u].op = thr[u] /\ thr[u] \in Work
       \/ u \notin Threads /\ call[u].op = "test"
  /\ \A u \in Users : /\ call[u].stage = "copy" => call[u].op = "copy_tarball_to_node"
                      /\ call[u].stage # "idle" => call[u].outcome = "none"

\* What the threads work on in each phase.
WorkOfPhase ==
  \A u \in Threads :
    /\ phase \notin {"setup", "cleanup"} => thr[u] \notin Work
    /\ phase = "setup" => thr[u] # "delete_framework_dir"
    /\ phase = "cleanup" => thr[u] \notin Work \ {"delete_framework_dir"}

\* The main thread's commands are those of the tests.
CommandsOf == \A c \in running : c.op # "test" => c.user \in Threads

NoEarlyDelete == \A c \in running : c.op = "delete_framework_dir" => ~BeforeCleanup

\* An extraction that still runs is waited for, or its node counts as failed.
SetupFailed(n) == \E w \in {"raised", "RuntimeError"} : <<"setup", n, w>> \in failed

Abandoned ==
  \A c \in running : c.op = "extract_tarball_at_node" =>
    \/ /\ phase = "setup" /\ thr[c.user] = "extract_tarball_at_node"
       /\ call[c.user].op = "extract_tarball_at_node" /\ call[c.user].outcome # "ok"
    \/ SetupFailed(NodeOf[c.user])

\* A thread that is through says so, or has died of what is on record.
Reported ==
  phase # "start" => \A u \in Threads :
    /\ thr[u] \in Work => <<u, TRUE>> \notin results
    /\ thr[u] = "ended" => <<u, TRUE>> \in results \/ <<u, FALSE>> \in results
    /\ thr[u] = "died" =>
         <<IF BeforeCleanup THEN "setup" ELSE "cleanup", NodeOf[u], "raised">> \in failed

Extracted(n) == fw[n] = "new" \/ n \in broken
Deleted(n)   == fw[n] = "none" \/ SetupFailed(n)

Succeeded(u, op) == call[u].op = op /\ call[u].outcome = "ok"
Through(u)       == thr[u] = "ended" /\ <<u, TRUE>> \in results

SetUp ==
  BeforeCleanup => \A u \in Threads :
    \/ thr[u] = "create_env_directory_at_node"
    \/ Succeeded(u, "extract_tarball_at_node")
    \/ Through(u)
    => Extracted(NodeOf[u])

CleanedUp ==
  ~BeforeCleanup => \A u \in Threads :
    Succeeded(u, "delete_framework_dir") \/ Through(u) => Deleted(NodeOf[u])

IInv == /\ TypeOK
        /\ OneConnection
        /\ Calls
        /\ WorkOfPhase
        /\ CommandsOf
        /\ NoEarlyDelete
        /\ Abandoned
        /\ Reported
        /\ SetUp
        /\ CleanedUp
        /\ ReadyExplained
        /\ CleanExplained

-----------------------------------------------------------------------------
(* The connections. *)

\* The threads and the main thread's two connections are users.
LEMMA ThreadUsers == Threads \subseteq Users /\ Kept \in Users \ Threads /\ Short \in Users \ Threads
BY MainAssumption DEF Threads

\* A reconnection closes the client it replaces, a failed one leaves none.
LEMMA Reconnected ==
  ASSUME SSHTypeOK, OneConnection, NEW u \in Users, NEW n \in Nodes, NEW next,
         NewConnection(u, n, next) \/ ConnectionFails(u, n), UNCHANGED <<reach, faults>>
  PROVE  SSHTypeOK' /\ OneConnection'
<1>1. /\ made[n] \in Nat /\ conns[n] \in Nat /\ open[n] \subseteq {conns[n]} \ {0}
      /\ made[n] + 1 \in Nat /\ made[n] + 1 # 0
  BY DEF SSHTypeOK, OneConnection
<1>2. CASE NewConnection(u, n, next)
  <2>1. /\ made' = [made EXCEPT ![n] = made[n] + 1]
        /\ open' = [open EXCEPT ![n] = (open[n] \ {conns[n]}) \cup {made[n] + 1}]
        /\ conns' = [conns EXCEPT ![n] = made[n] + 1]
        /\ link' = [link EXCEPT ![n] = "active"]
        /\ ssh' = [ssh EXCEPT ![u] = made[n] + 1]
    BY <1>2 DEF NewConnection, disconnect
  <2>2. SSHTypeOK'
    BY <1>1, <2>1 DEF SSHTypeOK, LinkStates
  <2>3. OneConnection'
    BY <1>1, <2>1 DEF SSHTypeOK, OneConnection
  <2> QED
    BY <2>2, <2>3
<1>3. CASE ConnectionFails(u, n)
  <2>1. /\ open' = [open EXCEPT ![n] = open[n] \ {conns[n]}]
        /\ conns' = [conns EXCEPT ![n] = 0]
        /\ ssh' = [ssh EXCEPT ![u] = 0]
        /\ UNCHANGED <<made, link>>
    BY <1>3 DEF ConnectionFails, disconnect
  <2>2. SSHTypeOK'
    BY <1>1, <2>1 DEF SSHTypeOK
  <2>3. OneConnection'
    BY <1>1, <2>1 DEF SSHTypeOK, OneConnection
  <2> QED
    BY <2>2, <2>3
<1> QED
  BY <1>2, <1>3

-----------------------------------------------------------------------------
(* Steps that touch neither the threads nor the nodes. *)

\* The invariant holds at the start.
LEMMA InitIInv == Init => IInv
<1> SUFFICES ASSUME Init PROVE IInv
  OBVIOUS
<1>1. \A u \in Users : call[u] = NoCall
  BY DEF Init, SSHInit
<1>2. SSHTypeOK /\ OneConnection
  <2>1. /\ made \in [Nodes -> Nat] /\ conns \in [Nodes -> Nat]
        /\ open \in [Nodes -> SUBSET Nat] /\ link \in [Nodes -> LinkStates]
        /\ ssh \in [Users -> Nat]
    BY DEF Init, SSHInit, LinkStates
  <2>2. reach \in [Nodes -> BOOLEAN]
    BY DEF Init, SSHInit
  <2>3. faults \in 0 .. MaxFaults
    BY FaultAssumption DEF Init, SSHInit
  <2>4. OneConnection
    BY DEF Init, SSHInit, OneConnection
  <2> QED
    BY <2>1, <2>2, <2>3, <2>4 DEF SSHTypeOK
<1>3. TypeOK
  <2>1. /\ call \in [Users -> [op : Work \cup {"test", "none"}, stage : Stages, outcome : Outcomes]]
        /\ running = {}
    BY DEF Init, SSHInit, NoCall, Stages, Outcomes
  <2>2. /\ phase \in Phases /\ thr \in [Threads -> Work \cup {"ended", "died"}]
        /\ results = {} /\ broken = {} /\ failed = {}
        /\ fw \in [Nodes -> {"none", "old", "partial", "new"}]
    BY DEF Init, Phases
  <2>3. calls \in 0 .. MaxCalls
    BY CallAssumption DEF Init
  <2>4. tarball \in BOOLEAN /\ tgz \in [Nodes -> BOOLEAN]
    BY Zenon DEF Init
  <2> QED
    BY <1>2, <2>1, <2>2, <2>3, <2>4 DEF TypeOK
<1>4. Calls
  BY <1>1 DEF Calls, NoCall
<1>5. /\ phase = "start" /\ running = {} /\ results = {} /\ \A u \in Threads : thr[u] = "ended"
      /\ \A u \in Threads : call[u].outcome = "none"
  BY <1>1, ThreadUsers DEF Init, SSHInit, NoCall
<1>6. WorkOfPhase /\ CommandsOf /\ NoEarlyDelete /\ Abandoned /\ Reported
  BY <1>5 DEF WorkOfPhase, CommandsOf, NoEarlyDelete, Abandoned, Reported, Work
<1>7. SetUp /\ CleanedUp /\ ReadyExplained /\ CleanExplained
  BY <1>5 DEF SetUp, CleanedUp, Succeeded, Through, BeforeCleanup, ReadyExplained, CleanExplained
<1> QED
  BY <1>2, <1>3, <1>4, <1>6, <1>7 DEF IInv

\* Links and nodes come and go.
LEMMA Elsewhere ==
  ASSUME IInv, SSHTypeOK', OneConnection', UNCHANGED <<call, running, localVars, nodeVars>>
  PROVE  IInv'
<1>1. TypeOK'
  BY DEF IInv, TypeOK, localVars, nodeVars
<1>2. (Calls /\ WorkOfPhase /\ CommandsOf /\ NoEarlyDelete /\ Abandoned /\ Reported)'
  BY DEF IInv, localVars, nodeVars, Calls, WorkOfPhase, CommandsOf, NoEarlyDelete, Abandoned,
     Reported, BeforeCleanup, SetupFailed
<1>3. (SetUp /\ CleanedUp /\ ReadyExplained /\ CleanExplained)'
  BY DEF IInv, localVars, nodeVars, SetUp, CleanedUp, BeforeCleanup, Succeeded, Through,
     Extracted, Deleted, SetupFailed, ReadyExplained, CleanExplained
<1> QED
  BY <1>1, <1>2, <1>3 DEF IInv

\* A call goes to its next stage, or ends without success; a command may have
\* been started.
LEMMA CallMoves ==
  ASSUME IInv, SSHTypeOK', OneConnection', UNCHANGED <<localVars, nodeVars>>,
         NEW u \in Users, NEW s \in Stages, NEW o \in Outcomes \ {"ok"},
         call[u].stage # "idle",
         call' = [call EXCEPT ![u].stage = s, ![u].outcome = o],
         s # "idle" => o = "none",
         s = "copy" => call[u].op = "copy_tarball_to_node",
         running' \in {running, running \cup {[user |-> u, op |-> call[u].op]}}
  PROVE  IInv'
<1> USE DEF localVars, nodeVars
<1> DEFINE c == [user |-> u, op |-> call[u].op]
<1>0. TypeOK /\ Calls /\ WorkOfPhase /\ CommandsOf /\ NoEarlyDelete /\ Abandoned /\ SetUp /\ CleanedUp
  BY DEF IInv
<1>1. /\ call'[u] = [op |-> call[u].op, stage |-> s, outcome |-> o]
      /\ \A v \in Users \ {u} : call'[v] = call[v]
      /\ call[u] \in [op : Work \cup {"test", "none"}, stage : Stages, outcome : Outcomes]
  BY <1>0 DEF TypeOK
<1>2. \/ u \in Threads /\ call[u].op = thr[u] /\ thr[u] \in Work
      \/ u \notin Threads /\ call[u].op = "test"
  BY <1>0 DEF Calls
<1>3. \A v \in Users : call'[v].op = call[v].op /\ (call'[v].outcome = "ok" => call[v].outcome = "ok")
  <2>1. call'[u].op = call[u].op /\ call'[u].outcome # "ok"
    BY <1>1
  <2> QED
    BY <1>1, <2>1
<1>4. TypeOK'
  <2>1. call' \in [Users -> [op : Work \cup {"test", "none"}, stage : Stages, outcome : Outcomes]]
    BY <1>0, <1>1 DEF TypeOK
  <2>2. c \in [user : Users, op : Work \cup {"test"}]
    BY <1>2
  <2>3. running' \subseteq [user : Users, op : Work \cup {"test"}]
    BY <1>0, <2>2 DEF TypeOK
  <2> QED
    BY <1>0, <2>1, <2>3 DEF TypeOK
<1>5. Calls'
  <2>1. call'[u].op = call[u].op /\ call'[u].stage = s /\ call'[u].outcome = o
    BY <1>1
  <2> SUFFICES ASSUME NEW v \in Users
               PROVE  /\ \/ call'[v].op = "none" /\ call'[v].stage = "idle" /\ call'[v].outcome = "none"
                         \/ v \in Threads /\ call'[v].op = thr[v] /\ thr[v] \in Work
                         \/ v \notin Threads /\ call'[v].op = "test"
                      /\ call'[v].stage = "copy" => call'[v].op = "copy_tarball_to_node"
                      /\ call'[v].stage # "idle" => call'[v].outcome = "none"
    BY DEF Calls
  <2>2. CASE v = u
    BY <1>2, <2>1, <2>2
  <2>3. CASE v # u
    <3>1. call'[v] = call[v]
      BY <1>1, <2>3
    <3> HIDE DEF c
    <3> QED
      BY <1>0, <3>1 DEF Calls
  <2> QED
    BY <2>2, <2>3
<1>6. \A d \in running' : d \in running \/ d = c
  OBVIOUS
<1>7. (WorkOfPhase /\ CommandsOf)'
  BY <1>0, <1>2, <1>6 DEF WorkOfPhase, CommandsOf
<1>8. NoEarlyDelete'
  <2>1. c.op = "delete_framework_dir" => ~BeforeCleanup
    BY <1>0, <1>2 DEF WorkOfPhase, BeforeCleanup, Work
  <2> QED
    BY <1>0, <1>6, <2>1 DEF NoEarlyDelete, BeforeCleanup
<1>9. Abandoned'
  <2> SUFFICES ASSUME NEW d \in running', d.op = "extract_tarball_at_node",
                      ~SetupFailed(NodeOf[d.user])
               PROVE  /\ phase = "setup" /\ thr[d.user] = "extract_tarball_at_node"
                      /\ call'[d.user].op = "extract_tarball_at_node" /\ call'[d.user].outcome # "ok"
    BY DEF Abandoned, SetupFailed
  <2>1. CASE d = c
    BY <1>0, <1>1, <1>2, <2>1 DEF WorkOfPhase, Work
  <2>2. CASE d \in running
    <3>1. d.user \in Users
      BY <1>0, <2>2 DEF TypeOK
    <3> QED
      BY <1>0, <1>3, <2>2, <3>1 DEF Abandoned
  <2> QED
    BY <1>6, <2>1, <2>2
<1>10. Reported' /\ ReadyExplained' /\ CleanExplained'
  BY DEF IInv, Reported, BeforeCleanup, ReadyExplained, CleanExplained
<1>11. SetUp' /\ CleanedUp'
  BY <1>0, <1>3, ThreadUsers
  DEF SetUp, CleanedUp, BeforeCleanup, Succeeded, Through, Extracted, Deleted, SetupFailed
<1> QED
  BY <1>4, <1>5, <1>7, <1>8, <1>9, <1>10, <1>11 DEF IInv

\* The steps of connect, exec_command, exec_cmd and scp.
LEMMA SSHSteps ==
  ASSUME IInv, NEW u \in Users, SSHStep(u)
  PROVE  IInv'
<1>0. /\ SSHTypeOK /\ OneConnection /\ TypeOK /\ Calls /\ NodeOf[u] \in Nodes
      /\ UNCHANGED <<localVars, nodeVars>>
      /\ call[u] \in [op : Work \cup {"test", "none"}, stage : Stages, outcome : Outcomes]
  BY UserAssumption DEF IInv, TypeOK, SSHStep
<1>1. ASSUME call[u].stage # "idle", NEW s \in Stages, s # "idle", Stage(u, s)
      PROVE  /\ call' = [call EXCEPT ![u].stage = s, ![u].outcome = "none"]
             /\ "none" \in Outcomes \ {"ok"}
  <2>1. call[u].outcome = "none"
    BY <1>0, <1>1 DEF Calls
  <2>2. /\ call' = [call EXCEPT ![u] = [call[u] EXCEPT !.stage = s]]
        /\ [call[u] EXCEPT !.stage = s] = [call[u] EXCEPT !.stage = s, !.outcome = "none"]
    BY <1>0, <1>1, <2>1 DEF Stage
  <2> QED
    BY <2>2 DEF Outcomes
<1>2. ASSUME NEW o, End(u, o)
      PROVE  call' = [call EXCEPT ![u].stage = "idle", ![u].outcome = o]
  BY <1>2 DEF End
<1>3. /\ {"raised", "RuntimeError"} \subseteq Outcomes \ {"ok"}
      /\ {"copy", "open", "exec", "wait", "idle"} \subseteq Stages
  BY DEF Outcomes, Stages
<1>4. ASSUME NEW next \in {"copy", "open", "exec"}, call[u].stage # "idle", running' = running,
             next = "copy" => call[u].op = "copy_tarball_to_node",
             NewConnection(u, NodeOf[u], next) \/ ConnectionFails(u, NodeOf[u]),
             UNCHANGED <<reach, faults>>
      PROVE  IInv'
  <2>1. SSHTypeOK' /\ OneConnection'
    BY <1>0, <1>4, Reconnected
  <2>2. CASE NewConnection(u, NodeOf[u], next)
    <3>1. next \in Stages /\ next # "idle" /\ Stage(u, next)
      BY <1>3, <1>4, <2>2 DEF NewConnection
    <3>2. /\ call' = [call EXCEPT ![u].stage = next, ![u].outcome = "none"]
          /\ "none" \in Outcomes \ {"ok"}
      BY <1>1, <1>4, <3>1
    <3> QED
      BY <1>0, <1>4, <2>1, <3>1, <3>2, CallMoves
  <2>3. CASE ConnectionFails(u, NodeOf[u])
    BY <1>0, <1>2, <1>3, <1>4, <2>1, <2>3, CallMoves DEF ConnectionFails
  <2> QED
    BY <1>4, <2>2, <2>3
<1>5. ASSUME UNCHANGED <<conns, made, open, link, reach, faults>>, ssh' \in [Users -> Nat]
      PROVE  SSHTypeOK' /\ OneConnection'
  BY <1>0, <1>5 DEF SSHTypeOK, OneConnection
<1>6. CASE Connect(u, IF call[u].op = "copy_tarball_to_node" THEN "copy" ELSE "open")
  <2> DEFINE next == IF call[u].op = "copy_tarball_to_node" THEN "copy" ELSE "open"
  <2>1. /\ next \in {"copy", "open", "exec"}
        /\ next = "copy" => call[u].op = "copy_tarball_to_node"
        /\ call[u].stage # "idle" /\ UNCHANGED <<reach, running, faults>>
    BY <1>6 DEF Connect
  <2>2. CASE /\ ssh' = [ssh EXCEPT ![u] = conns[NodeOf[u]]] /\ Stage(u, next)
             /\ UNCHANGED <<conns, made, open, link>>
    <3>1. ssh' \in [Users -> Nat]
      BY <1>0, <2>2 DEF SSHTypeOK
    <3>2. SSHTypeOK' /\ OneConnection'
      BY <1>5, <2>1, <2>2, <3>1
    <3> HIDE DEF next
    <3>3. next \in Stages /\ next # "idle"
      BY <1>3, <2>1
    <3>4. /\ call' = [call EXCEPT ![u].stage = next, ![u].outcome = "none"]
          /\ "none" \in Outcomes \ {"ok"}
      BY <1>1, <2>1, <2>2, <3>3
    <3> QED
      BY <1>0, <2>1, <3>2, <3>3, <3>4, CallMoves
  <2>3. CASE NewConnection(u, NodeOf[u], next) \/ ConnectionFails(u, NodeOf[u])
    <3> HIDE DEF next
    <3> QED
      BY <1>4, <2>1, <2>3
  <2> QED
    BY <1>6, <2>2, <2>3 DEF Connect
<1>7. CASE OpenSession(u)
  <2>1. call[u].stage # "idle" /\ UNCHANGED <<reach, running, faults>>
    BY <1>7 DEF OpenSession
  <2>2. CASE Stage(u, "exec") /\ UNCHANGED <<conns, made, open, link, ssh>>
    <3>1. SSHTypeOK' /\ OneConnection'
      BY <1>0, <1>5, <2>1, <2>2 DEF SSHTypeOK
    <3> QED
      BY <1>0, <1>1, <1>3, <2>1, <2>2, <3>1, CallMoves
  <2>3. CASE NewConnection(u, NodeOf[u], "exec") \/ ConnectionFails(u, NodeOf[u])
    BY <1>4, <2>1, <2>3
  <2> QED
    BY <1>7, <2>2, <2>3 DEF OpenSession
<1>8. CASE Exec(u)
  <2>1. call[u].stage # "idle" /\ UNCHANGED <<connVars, reach, faults>>
    BY <1>8 DEF Exec
  <2>2. SSHTypeOK' /\ OneConnection'
    BY <1>0, <1>5, <2>1 DEF SSHTypeOK, connVars
  <2>3. CASE /\ running' = running \cup {[user |-> u, op |-> call[u].op]}
             /\ Stage(u, "wait")
    BY <1>0, <1>1, <1>3, <2>1, <2>2, <2>3, CallMoves
  <2>4. CASE /\ running' \in {running, running \cup {[user |-> u, op |-> call[u].op]}}
             /\ End(u, "RuntimeError")
    BY <1>0, <1>2, <1>3, <2>1, <2>2, <2>4, CallMoves
  <2> QED
    BY <1>8, <2>3, <2>4 DEF Exec, Stage, End
<1>9. CASE ChannelLost(u) \/ CopyLost(u)
  <2>1. call[u].stage # "idle" /\ UNCHANGED <<connVars, reach, faults, running>>
    BY <1>9 DEF ChannelLost, CopyLost
  <2>2. SSHTypeOK' /\ OneConnection'
    BY <1>0, <1>5, <2>1 DEF SSHTypeOK, connVars
  <2>3. End(u, "RuntimeError") \/ End(u, "raised")
    BY <1>9 DEF ChannelLost, CopyLost
  <2> QED
    BY <1>0, <1>2, <1>3, <2>1, <2>2, <2>3, CallMoves
<1> QED
  BY <1>6, <1>7, <1>8, <1>9 DEF SSHStep

\* A command takes too long, or a link or a node goes or comes back.
LEMMA EnvironmentSteps ==
  ASSUME IInv, Environment
  PROVE  IInv'
<1>0. SSHTypeOK /\ OneConnection /\ TypeOK /\ UNCHANGED <<localVars, nodeVars>>
  BY DEF IInv, TypeOK, Environment
<1>1. ASSUME NEW u \in Users, Timeout(u)
      PROVE  IInv'
  <2>1. /\ SSHTypeOK' /\ OneConnection'
    BY <1>0, <1>1, FaultAssumption DEF Timeout, Fault, SSHTypeOK, OneConnection, connVars
  <2>2. /\ call[u].stage # "idle" /\ running' = running
        /\ call' = [call EXCEPT ![u].stage = "idle", ![u].outcome = "raised"]
    BY <1>1 DEF Timeout, End
  <2>3. "raised" \in Outcomes \ {"ok"} /\ "idle" \in Stages
    BY DEF Outcomes, Stages
  <2> QED
    BY <1>0, <2>1, <2>2, <2>3, CallMoves
<1>2. ASSUME NEW n \in Nodes, LinkLost(n) \/ LinkNoticed(n) \/ NodeDown(n) \/ NodeUp(n)
      PROVE  IInv'
  <2>1. /\ UNCHANGED <<conns, made, open, ssh, call, running>> /\ faults' \in 0 .. MaxFaults
        /\ link' \in [Nodes -> LinkStates]
    BY <1>0, <1>2, FaultAssumption
    DEF LinkLost, LinkNoticed, NodeDown, NodeUp, Fault, SSHTypeOK, connVars, LinkStates
  <2>2. reach' \in [Nodes -> BOOLEAN]
    BY <1>0, <1>2, Zenon DEF LinkLost, LinkNoticed, NodeDown, NodeUp, SSHTypeOK
  <2>3. SSHTypeOK' /\ OneConnection'
    BY <1>0, <2>1, <2>2 DEF SSHTypeOK, OneConnection
  <2> QED
    BY <1>0, <2>1, <2>3, Elsewhere
<1> QED
  BY <1>1, <1>2 DEF Environment

-----------------------------------------------------------------------------
(* Steps of the main thread. *)

\* A call of the main thread begins, ends or is forgotten.
LEMMA MainCall ==
  ASSUME IInv, SSHTypeOK', OneConnection', NEW u \in Users \ Threads,
         NEW r, r.op = "test" \/ r = NoCall, r.stage \notin {"copy"},
         r.stage # "idle" => r.outcome = "none",
         r \in [op : Work \cup {"test", "none"}, stage : Stages, outcome : Outcomes],
         call' = [call EXCEPT ![u] = r], calls' \in 0 .. MaxCalls,
         UNCHANGED <<running, phase, thr, results, tarball, failed, nodeVars>>
  PROVE  IInv'
<1> USE DEF nodeVars
<1>1. call'[u] = r /\ \A v \in Users \ {u} : call'[v] = call[v]
  BY DEF IInv, TypeOK
<1>2. TypeOK'
  <2>1. call' \in [Users -> [op : Work \cup {"test", "none"}, stage : Stages, outcome : Outcomes]]
    BY DEF IInv, TypeOK
  <2> QED
    BY <2>1 DEF IInv, TypeOK
<1>3. Calls'
  BY <1>1 DEF IInv, Calls, NoCall
<1>4. \A v \in Threads : call'[v] = call[v]
  BY <1>1, ThreadUsers
<1>5. (WorkOfPhase /\ CommandsOf /\ NoEarlyDelete /\ Reported)'
  BY DEF IInv, WorkOfPhase, CommandsOf, NoEarlyDelete, Reported, BeforeCleanup
<1>6. Abandoned'
  BY <1>4 DEF IInv, CommandsOf, Abandoned, SetupFailed
<1>7. (SetUp /\ CleanedUp)'
  <2>1. \A v \in Threads : \A op : Succeeded(v, op)' <=> Succeeded(v, op)
    BY <1>4 DEF Succeeded
  <2> QED
    BY <2>1 DEF IInv, SetUp, CleanedUp, BeforeCleanup, Through, Extracted, Deleted, SetupFailed
<1>8. (ReadyExplained /\ CleanExplained)'
  BY DEF IInv, ReadyExplained, CleanExplained
<1> QED
  BY <1>2, <1>3, <1>5, <1>6, <1>7, <1>8 DEF IInv

\* Calls of the main thread on its own connections keep the invariant.
LEMMA MainCallSteps ==
  ASSUME IInv, KeptCalls \/ ShortCalls \/ ShortDisconnects
  PROVE  IInv'
<1>0. SSHTypeOK /\ OneConnection /\ TypeOK /\ NodeOf[Short] \in Nodes
  BY UserAssumption, ThreadUsers DEF IInv, TypeOK
<1>1. CASE KeptCalls
  <2> DEFINE r == [op |-> "test", outcome |-> "none",
                   stage |-> IF ssh[Kept] = 0 THEN "connect" ELSE "open"]
  <2>1. /\ r.op = "test" /\ r.stage \notin {"copy"} /\ r.outcome = "none"
        /\ r \in [op : Work \cup {"test", "none"}, stage : Stages, outcome : Outcomes]
    BY DEF Stages, Outcomes
  <2>2. call' = [call EXCEPT ![Kept] = r] /\ SSHTypeOK' /\ OneConnection'
    BY <1>0, <1>1 DEF KeptCalls, SSHTypeOK, OneConnection, connVars
  <2>3. calls' \in 0 .. MaxCalls
    BY <1>0, <1>1, CallAssumption DEF KeptCalls, TypeOK
  <2>4. UNCHANGED <<running, phase, thr, results, tarball, failed, nodeVars>>
    BY <1>1 DEF KeptCalls
  <2> HIDE DEF r
  <2> QED
    BY <2>1, <2>2, <2>3, <2>4, ThreadUsers, MainCall
<1>2. CASE ShortCalls
  <2> DEFINE r == [op |-> "test", stage |-> "connect", outcome |-> "none"]
  <2>1. /\ r.op = "test" /\ r.stage \notin {"copy"} /\ r.outcome = "none"
        /\ r \in [op : Work \cup {"test", "none"}, stage : Stages, outcome : Outcomes]
    BY DEF Stages, Outcomes
  <2>2. call' = [call EXCEPT ![Short] = r] /\ SSHTypeOK' /\ OneConnection'
    BY <1>0, <1>2 DEF ShortCalls, Begin, SSHTypeOK, OneConnection, connVars
  <2>3. calls' \in 0 .. MaxCalls
    BY <1>0, <1>2, CallAssumption DEF ShortCalls, TypeOK
  <2>4. UNCHANGED <<running, phase, thr, results, tarball, failed, nodeVars>>
    BY <1>2 DEF ShortCalls
  <2> HIDE DEF r
  <2> QED
    BY <2>1, <2>2, <2>3, <2>4, ThreadUsers, MainCall
<1>3. CASE ShortDisconnects
  <2> DEFINE n == NodeOf[Short]
  <2>1. /\ NoCall.stage = "idle"
        /\ NoCall \in [op : Work \cup {"test", "none"}, stage : Stages, outcome : Outcomes]
    BY DEF NoCall, Stages, Outcomes
  <2>2. /\ open' = [open EXCEPT ![n] = open[n] \ {conns[n]}]
        /\ conns' = [conns EXCEPT ![n] = 0]
        /\ ssh' = [ssh EXCEPT ![Short] = 0]
        /\ UNCHANGED <<made, link, reach, faults>>
        /\ call' = [call EXCEPT ![Short] = NoCall]
    BY <1>3 DEF ShortDisconnects, disconnect, Return
  <2>3. SSHTypeOK' /\ OneConnection'
    BY <1>0, <2>2 DEF SSHTypeOK, OneConnection
  <2>4. UNCHANGED <<running, phase, thr, results, tarball, failed, nodeVars>> /\ calls' = calls
    BY <1>3 DEF ShortDisconnects, localVars
  <2> QED
    BY <1>0, <2>1, <2>2, <2>3, <2>4, ThreadUsers, MainCall DEF TypeOK
<1> QED
  BY <1>1, <1>2, <1>3

\* The threads are started.
LEMMA StartSteps ==
  ASSUME IInv, StartSetup \/ StartCleanup
  PROVE  IInv'
<1> USE DEF sshVars, nodeVars
<1>0. TypeOK /\ Calls /\ WorkOfPhase /\ Threads \subseteq Users
  BY ThreadUsers DEF IInv
<1>1. /\ UNCHANGED <<sshVars, nodeVars, failed, calls>> /\ results' = {}
      /\ \/ phase = "start" /\ phase' = "setup" /\ thr' = [u \in Threads |-> "copy_tarball_to_node"]
         \/ /\ phase \in {"tests", "raised"} /\ phase' = "cleanup"
            /\ thr' = [u \in Threads |-> "delete_framework_dir"]
  BY DEF StartSetup, StartCleanup, Start
<1>2. \A u \in Threads : /\ call[u].op = "none" /\ call[u].stage = "idle" /\ call[u].outcome = "none"
                         /\ thr'[u] \in {"copy_tarball_to_node", "delete_framework_dir"}
                         /\ phase' = "setup" => thr'[u] = "copy_tarball_to_node"
                         /\ phase' = "cleanup" => thr'[u] = "delete_framework_dir"
  BY <1>0, <1>1 DEF Calls, WorkOfPhase
<1>3. TypeOK'
  <2>1. thr' \in [Threads -> Work \cup {"ended", "died"}] /\ phase' \in Phases
    BY <1>1 DEF Work, Phases
  <2>2. tarball' \in BOOLEAN
    BY <1>0, Zenon DEF StartSetup, StartCleanup, TypeOK
  <2> QED
    BY <1>0, <1>1, <2>1, <2>2 DEF TypeOK, SSHTypeOK
<1>4. OneConnection' /\ Calls'
  BY <1>0, <1>1, <1>2 DEF IInv, OneConnection, Calls
<1>5. WorkOfPhase' /\ CommandsOf' /\ NoEarlyDelete'
  BY <1>0, <1>1, <1>2 DEF IInv, WorkOfPhase, CommandsOf, NoEarlyDelete, BeforeCleanup, Work
<1>6. Abandoned'
  BY <1>1 DEF IInv, Abandoned, SetupFailed
<1>7. Reported'
  BY <1>1, <1>2 DEF Reported
<1>8. SetUp' /\ CleanedUp'
  BY <1>1, <1>2 DEF SetUp, CleanedUp, Succeeded, Through
<1>9. ReadyExplained' /\ CleanExplained'
  BY <1>1 DEF ReadyExplained, CleanExplained
<1> QED
  BY <1>3, <1>4, <1>5, <1>6, <1>7, <1>8, <1>9 DEF IInv

\* The threads are joined and their results looked at.
LEMMA FinishSteps ==
  ASSUME IInv, FinishSetup \/ FinishCleanup
  PROVE  IInv'
<1> USE DEF sshVars, nodeVars
<1>0. TypeOK /\ Calls /\ WorkOfPhase /\ Reported /\ SetUp /\ CleanedUp /\ Abandoned
  BY DEF IInv
<1>1. /\ UNCHANGED <<sshVars, nodeVars, thr, results, failed, calls>> /\ Joined
      /\ \/ phase = "setup" /\ phase' = IF AllReady THEN "tests" ELSE "raised"
         \/ phase = "cleanup" /\ phase' = IF AllReady THEN "cleaned" ELSE "dirty"
  BY DEF FinishSetup, FinishCleanup
<1>2. \A u \in Threads : thr[u] \in {"ended", "died"} /\ thr[u] \notin Work
  BY <1>1 DEF Joined, Work
<1>3. TypeOK'
  <2>1. phase' \in Phases
    BY <1>1 DEF Phases
  <2>2. tarball' \in BOOLEAN
    BY <1>0, Zenon DEF FinishSetup, FinishCleanup, TypeOK
  <2> QED
    BY <1>0, <1>1, <2>1, <2>2 DEF TypeOK, SSHTypeOK
<1>4. OneConnection' /\ Calls' /\ CommandsOf'
  BY <1>1 DEF IInv, OneConnection, Calls, CommandsOf
<1>5. WorkOfPhase' /\ (BeforeCleanup' <=> BeforeCleanup)
  BY <1>1, <1>2 DEF WorkOfPhase, BeforeCleanup
<1>6. NoEarlyDelete'
  BY <1>1, <1>5 DEF IInv, NoEarlyDelete
<1>7. Abandoned'
  <2> SUFFICES ASSUME NEW c \in running, c.op = "extract_tarball_at_node"
               PROVE  SetupFailed(NodeOf[c.user])
    BY <1>1 DEF Abandoned, SetupFailed
  <2>1. c.user \in Threads
    BY DEF IInv, CommandsOf
  <2>2. thr[c.user] # "extract_tarball_at_node"
    BY <1>2, <2>1
  <2> QED
    BY <1>0, <2>2 DEF Abandoned
<1>8. Reported'
  BY <1>0, <1>1, <1>5 DEF Reported
<1>9. SetUp' /\ CleanedUp'
  BY <1>0, <1>1, <1>5 DEF SetUp, CleanedUp, Succeeded, Through, Extracted, Deleted, SetupFailed
<1>10. ASSUME AllReady, NEW n \in Nodes
       PROVE  \/ <<IF BeforeCleanup THEN "setup" ELSE "cleanup", n, "raised">> \in failed
              \/ IF BeforeCleanup THEN Extracted(n) ELSE Deleted(n)
  <2>1. PICK u \in Threads : NodeOf[u] = n
    BY MainAssumption
  <2>2. CASE thr[u] = "died"
    BY <1>0, <1>1, <2>1, <2>2 DEF Reported
  <2>3. CASE thr[u] = "ended"
    <3>1. <<u, FALSE>> \notin results
      <4>1. <<u, FALSE>>[2] = FALSE
        OBVIOUS
      <4> QED
        BY <1>10, <4>1, Zenon DEF AllReady
    <3>2. Through(u)
      BY <1>0, <1>1, <2>3, <3>1 DEF Reported, Through
    <3> QED
      BY <1>0, <2>1, <3>2 DEF SetUp, CleanedUp
  <2> QED
    BY <1>2, <2>2, <2>3
<1>11. ReadyExplained'
  <2> SUFFICES ASSUME NEW n \in Nodes, phase' = "tests", fw[n] # "new"
               PROVE  <<"setup", n, "raised">> \in failed \/ n \in broken
    BY <1>1 DEF ReadyExplained
  <2>1. AllReady /\ BeforeCleanup
    BY <1>1 DEF BeforeCleanup
  <2> QED
    BY <1>10, <2>1 DEF Extracted
<1>12. CleanExplained'
  <2> SUFFICES ASSUME NEW n \in Nodes, phase' = "cleaned", fw[n] # "none"
               PROVE  \E f \in failed : f[2] = n /\ (f[1] = "cleanup" => f[3] = "raised")
    BY <1>1 DEF CleanExplained
  <2>1. AllReady /\ ~BeforeCleanup
    BY <1>1 DEF BeforeCleanup
  <2>2. <<"cleanup", n, "raised">> \in failed \/ SetupFailed(n)
    BY <1>10, <2>1 DEF Deleted
  <2> QED
    BY <2>2 DEF SetupFailed
<1> QED
  BY <1>3, <1>4, <1>5, <1>6, <1>7, <1>8, <1>9, <1>11, <1>12 DEF IInv

-----------------------------------------------------------------------------
(* Steps of the threads. *)

\* So does a thread that starts a call.
LEMMA ThreadCallsStep ==
  ASSUME IInv, NEW u \in Threads, ThreadCalls(u)
  PROVE  IInv'
<1> USE DEF connVars, localVars, nodeVars
<1>0. TypeOK /\ Calls /\ u \in Users
  BY ThreadUsers DEF IInv
<1>1. /\ call' = [call EXCEPT ![u] = [op |-> thr[u], stage |-> "connect", outcome |-> "none"]]
      /\ thr[u] \in Work
      /\ UNCHANGED <<connVars, reach, running, faults, localVars, nodeVars>>
  BY DEF ThreadCalls, Begin
<1>2. /\ call'[u] = [op |-> thr[u], stage |-> "connect", outcome |-> "none"]
      /\ \A v \in Users \ {u} : call'[v] = call[v]
  BY <1>0, <1>1 DEF TypeOK
<1>3. call'[u].op = thr[u] /\ call'[u].stage = "connect" /\ call'[u].outcome = "none"
  BY <1>2
<1>4. TypeOK' /\ OneConnection'
  <2>1. call' \in [Users -> [op : Work \cup {"test", "none"}, stage : Stages, outcome : Outcomes]]
    BY <1>0, <1>1 DEF TypeOK, Stages, Outcomes
  <2> QED
    BY <1>0, <1>1, <2>1 DEF IInv, TypeOK, SSHTypeOK, OneConnection
<1>5. Calls'
  BY <1>0, <1>1, <1>2, <1>3 DEF Calls
<1>6. (WorkOfPhase /\ CommandsOf /\ NoEarlyDelete /\ Reported)'
  BY <1>1 DEF IInv, WorkOfPhase, CommandsOf, NoEarlyDelete, Reported, BeforeCleanup
<1>7. Abandoned'
  <2> SUFFICES ASSUME NEW c \in running, c.op = "extract_tarball_at_node",
                      ~SetupFailed(NodeOf[c.user])
               PROVE  /\ phase = "setup" /\ thr[c.user] = "extract_tarball_at_node"
                      /\ call'[c.user].op = "extract_tarball_at_node" /\ call'[c.user].outcome # "ok"
    BY <1>1 DEF Abandoned, SetupFailed
  <2>1. /\ phase = "setup" /\ thr[c.user] = "extract_tarball_at_node"
        /\ call[c.user].op = "extract_tarball_at_node" /\ call[c.user].outcome # "ok"
    BY DEF IInv, Abandoned
  <2>2. c.user \in Users
    BY <1>0 DEF TypeOK
  <2> QED
    BY <1>2, <1>3, <2>1, <2>2
<1>8. \A v \in Threads : \A op : Succeeded(v, op)' => Succeeded(v, op)
  BY <1>2, <1>3, ThreadUsers DEF Succeeded
<1>9. SetUp' /\ CleanedUp'
  BY <1>1, <1>8 DEF IInv, SetUp, CleanedUp, BeforeCleanup, Through, Extracted, Deleted, SetupFailed
<1>10. ReadyExplained' /\ CleanExplained'
  BY <1>1 DEF IInv, ReadyExplained, CleanExplained
<1> QED
  BY <1>4, <1>5, <1>6, <1>7, <1>9, <1>10 DEF IInv

\* A thread looks at how its call has ended.
LEMMA ThreadReturns ==
  ASSUME IInv, NEW u \in Threads, ThreadFails(u) \/ ThreadDies(u) \/ ThreadGoesOn(u)
  PROVE  IInv'
<1> USE DEF nodeVars
<1>0. TypeOK /\ Calls /\ WorkOfPhase /\ u \in Users /\ NodeOf[u] \in Nodes
  BY ThreadUsers, UserAssumption DEF IInv
<1>1. /\ call' = [call EXCEPT ![u] = NoCall] /\ ssh' = [ssh EXCEPT ![u] = 0]
      /\ UNCHANGED <<conns, made, open, link, reach, running, faults, phase, tarball, calls, nodeVars>>
      /\ thr[u] \in Work /\ call[u].outcome # "none"
  BY DEF ThreadFails, ThreadDies, ThreadGoesOn, Return
<1>2. /\ call'[u] = NoCall /\ call'[u].op = "none" /\ call'[u].stage = "idle"
      /\ call'[u].outcome = "none" /\ \A v \in Users \ {u} : call'[v] = call[v]
  BY <1>0, <1>1 DEF TypeOK, NoCall
<1>3. /\ call[u].op = thr[u] /\ phase \in {"setup", "cleanup"}
  <2>1. call[u].op = thr[u]
    BY <1>0, <1>1 DEF Calls
  <2> QED
    BY <1>0, <1>1, <2>1 DEF WorkOfPhase
<1>4. /\ failed \subseteq failed' /\ results \subseteq results'
      /\ \/ /\ call[u].outcome = "RuntimeError" /\ thr' = [thr EXCEPT ![u] = "ended"]
            /\ <<u, FALSE>> \in results' /\ results' = results \cup {<<u, FALSE>>}
            /\ failed' = failed \cup {<<phase, NodeOf[u], "RuntimeError">>}
         \/ /\ call[u].outcome = "raised" /\ thr' = [thr EXCEPT ![u] = "died"] /\ results' = results
            /\ failed' = failed \cup {<<phase, NodeOf[u], "raised">>}
         \/ /\ call[u].outcome = "ok" /\ thr' = [thr EXCEPT ![u] = After(u)] /\ failed' = failed
            /\ results' = IF After(u) = "ended" THEN results \cup {<<u, TRUE>>} ELSE results
  BY DEF ThreadFails, ThreadDies, ThreadGoesOn
<1>5. /\ \A v \in Threads \ {u} : thr'[v] = thr[v]
      /\ thr'[u] \in {"ended", "died", After(u)}
      /\ \/ /\ call[u].outcome = "RuntimeError" /\ thr'[u] = "ended" /\ <<u, FALSE>> \in results'
            /\ <<phase, NodeOf[u], "RuntimeError">> \in failed'
         \/ /\ call[u].outcome = "raised" /\ thr'[u] = "died"
            /\ <<phase, NodeOf[u], "raised">> \in failed'
         \/ /\ call[u].outcome = "ok" /\ thr'[u] = After(u)
            /\ After(u) = "ended" => <<u, TRUE>> \in results'
  BY <1>0, <1>4 DEF TypeOK
<1>6. /\ After(u) \in (Work \ {"delete_framework_dir", "copy_tarball_to_node"}) \cup {"ended"}
      /\ After(u) = "create_env_directory_at_node" => thr[u] = "extract_tarball_at_node"
      /\ After(u) = "extract_tarball_at_node" => thr[u] = "copy_tarball_to_node"
      /\ After(u) = "ended" => thr[u] # "copy_tarball_to_node"
      /\ thr[u] = "delete_framework_dir" => After(u) = "ended"
  BY DEF After, Work
<1>7. TypeOK'
  <2>1. call' \in [Users -> [op : Work \cup {"test", "none"}, stage : Stages, outcome : Outcomes]]
    BY <1>0, <1>1 DEF TypeOK, NoCall, Stages, Outcomes
  <2>2. thr' \in [Threads -> Work \cup {"ended", "died"}]
    BY <1>0, <1>4, <1>6 DEF TypeOK
  <2>3. results' \subseteq Threads \X BOOLEAN
    <3>1. <<u, TRUE>> \in Threads \X BOOLEAN /\ <<u, FALSE>> \in Threads \X BOOLEAN
      OBVIOUS
    <3>2. /\ results' \subseteq results \cup {<<u, TRUE>>, <<u, FALSE>>}
          /\ results \subseteq Threads \X BOOLEAN
      BY <1>0, <1>4, Zenon DEF TypeOK
    <3> QED
      BY <3>1, <3>2, Zenon
  <2>4. failed' \subseteq {"setup", "cleanup"} \X Nodes \X {"raised", "RuntimeError"}
    <3>1. \A w \in {"raised", "RuntimeError"} :
            <<phase, NodeOf[u], w>> \in {"setup", "cleanup"} \X Nodes \X {"raised", "RuntimeError"}
      BY <1>0, <1>3
    <3>2. /\ failed' \subseteq failed \cup {<<phase, NodeOf[u], "raised">>, <<phase, NodeOf[u], "RuntimeError">>}
          /\ failed \subseteq {"setup", "cleanup"} \X Nodes \X {"raised", "RuntimeError"}
      BY <1>0, <1>4, Zenon DEF TypeOK
    <3> QED
      BY <3>1, <3>2
  <2>5. ssh' \in [Users -> Nat]
    BY <1>0, <1>1 DEF TypeOK, SSHTypeOK
  <2> QED
    BY <1>0, <1>1, <2>1, <2>2, <2>3, <2>4, <2>5 DEF TypeOK, SSHTypeOK
<1>8. Calls' /\ OneConnection'
  BY <1>0, <1>1, <1>2, <1>5 DEF IInv, Calls, OneConnection
<1>9. WorkOfPhase' /\ CommandsOf' /\ NoEarlyDelete'
  BY <1>0, <1>1, <1>3, <1>5, <1>6 DEF IInv, WorkOfPhase, CommandsOf, NoEarlyDelete, BeforeCleanup, Work
<1>10. \A n : SetupFailed(n) => SetupFailed(n)'
  BY <1>4 DEF SetupFailed
<1>11. Abandoned'
  <2> SUFFICES ASSUME NEW c \in running, c.op = "extract_tarball_at_node",
                      ~SetupFailed(NodeOf[c.user])'
               PROVE  /\ phase = "setup" /\ thr'[c.user] = "extract_tarball_at_node"
                      /\ call'[c.user].op = "extract_tarball_at_node" /\ call'[c.user].outcome # "ok"
    BY <1>1 DEF Abandoned
  <2>1. /\ phase = "setup" /\ thr[c.user] = "extract_tarball_at_node"
        /\ call[c.user].op = "extract_tarball_at_node" /\ call[c.user].outcome # "ok"
    BY <1>10 DEF IInv, Abandoned
  <2>2. c.user \in Threads
    BY DEF IInv, CommandsOf
  <2>3. c.user # u
    BY <1>5, <2>1 DEF SetupFailed
  <2> QED
    BY <1>2, <1>5, <2>1, <2>2, <2>3, ThreadUsers
<1>12. ASSUME NEW v \in Threads \ {u}
       PROVE  <<v, TRUE>> \in results' => <<v, TRUE>> \in results
  <2>1. <<v, TRUE>> # <<u, TRUE>> /\ <<v, TRUE>> # <<u, FALSE>>
    OBVIOUS
  <2> QED
    BY <1>4, <2>1, Zenon
<1>13. <<u, TRUE>> \in results' => thr'[u] = "ended" /\ call[u].outcome = "ok"
  <2>1. <<u, TRUE>> \notin results
    BY <1>1, <1>3 DEF IInv, Reported
  <2>2. <<u, TRUE>> # <<u, FALSE>>
    OBVIOUS
  <2>3. CASE results' = results \/ results' = results \cup {<<u, FALSE>>}
    BY <2>1, <2>2, <2>3, Zenon
  <2>4. CASE call[u].outcome = "ok" /\ After(u) = "ended" /\ thr' = [thr EXCEPT ![u] = After(u)]
    BY <1>0, <2>4 DEF TypeOK
  <2> QED
    BY <1>4, <2>3, <2>4, Zenon
<1>14. Reported'
  <2> SUFFICES ASSUME NEW v \in Threads
               PROVE  /\ thr'[v] \in Work => <<v, TRUE>> \notin results'
                      /\ thr'[v] = "ended" => <<v, TRUE>> \in results' \/ <<v, FALSE>> \in results'
                      /\ thr'[v] = "died" =>
                           <<IF BeforeCleanup THEN "setup" ELSE "cleanup", NodeOf[v], "raised">> \in failed'
    BY <1>1 DEF Reported, BeforeCleanup
  <2>1. CASE v = u
    <3>1. thr'[u] \in Work => <<u, TRUE>> \notin results'
      BY <1>13 DEF Work
    <3>2. thr'[u] = "ended" => <<u, TRUE>> \in results' \/ <<u, FALSE>> \in results'
      BY <1>5, Zenon
    <3>3. thr'[u] = "died" =>
            <<IF BeforeCleanup THEN "setup" ELSE "cleanup", NodeOf[u], "raised">> \in failed'
      BY <1>3, <1>5, <1>6 DEF BeforeCleanup, Work
    <3> QED
      BY <2>1, <3>1, <3>2, <3>3
  <2>2. CASE v # u
    BY <1>3, <1>4, <1>5, <1>12, <2>2 DEF IInv, Reported
  <2> QED
    BY <2>1, <2>2
<1>15. \A v \in Threads : \A op : Succeeded(v, op)' => Succeeded(v, op) /\ v # u
  BY <1>2, ThreadUsers DEF Succeeded
<1>16. /\ \A v \in Threads \ {u} : Through(v)' => Through(v)
       /\ Through(u)' => Succeeded(u, thr[u]) /\ After(u) = "ended"
  BY <1>3, <1>5, <1>12, <1>13 DEF Through, Succeeded
<1>17. SetUp'
  <2> SUFFICES ASSUME BeforeCleanup, NEW v \in Threads,
                      \/ thr'[v] = "create_env_directory_at_node"
                      \/ Succeeded(v, "extract_tarball_at_node")'
                      \/ Through(v)'
               PROVE  Extracted(NodeOf[v])
    BY <1>1 DEF SetUp, BeforeCleanup, Extracted
  <2>1. phase = "setup" /\ SetUp
    BY <1>3 DEF IInv, BeforeCleanup
  <2>2. CASE v # u
    BY <1>5, <1>15, <1>16, <2>1, <2>2 DEF SetUp
  <2>3. CASE v = u
    <3>1. /\ call[u].outcome = "ok"
          /\ thr[u] \in {"extract_tarball_at_node", "create_env_directory_at_node"}
      <4>1. CASE thr'[u] = "create_env_directory_at_node"
        BY <1>5, <1>6, <4>1
      <4>2. CASE Through(u)'
        BY <1>0, <1>1, <1>6, <1>16, <2>1, <4>2 DEF Succeeded, WorkOfPhase, Work
      <4> QED
        BY <1>15, <2>3, <4>1, <4>2
    <3> QED
      BY <1>3, <2>1, <2>3, <3>1 DEF SetUp, Succeeded
  <2> QED
    BY <2>2, <2>3
<1>18. CleanedUp'
  <2> SUFFICES ASSUME ~BeforeCleanup, NEW v \in Threads,
                      Succeeded(v, "delete_framework_dir")' \/ Through(v)'
               PROVE  Deleted(NodeOf[v])
    BY <1>1, <1>10 DEF CleanedUp, BeforeCleanup, Deleted
  <2>1. phase = "cleanup" /\ CleanedUp
    BY <1>3 DEF IInv, BeforeCleanup
  <2>2. CASE v # u
    BY <1>15, <1>16, <2>1, <2>2 DEF CleanedUp
  <2>3. CASE v = u
    <3>1. thr[u] = "delete_framework_dir"
      BY <1>0, <1>1, <2>1 DEF WorkOfPhase
    <3>2. Succeeded(u, thr[u])
      BY <1>15, <1>16, <2>3
    <3> QED
      BY <2>1, <2>3, <3>1, <3>2 DEF CleanedUp
  <2> QED
    BY <2>2, <2>3
<1>19. ReadyExplained' /\ CleanExplained'
  BY <1>1, <1>3 DEF ReadyExplained, CleanExplained
<1> QED
  BY <1>7, <1>8, <1>9, <1>11, <1>14, <1>17, <1>18, <1>19 DEF IInv

\* scp ends well, or the local tarball is not there.
LEMMA CopyStep ==
  ASSUME IInv, NEW u \in Threads, Copy(u)
  PROVE  IInv'
<1> USE DEF connVars, localVars
<1>0. TypeOK /\ Calls /\ u \in Users /\ Threads \subseteq Users
  BY ThreadUsers DEF IInv
<1>1. PICK o \in {"ok", "raised"} :
        /\ call' = [call EXCEPT ![u].stage = "idle", ![u].outcome = o]
        /\ call[u].stage = "copy"
        /\ UNCHANGED <<connVars, reach, running, faults, localVars, fw, broken>>
  BY DEF Copy, End
<1>2. /\ call'[u] = [op |-> call[u].op, stage |-> "idle", outcome |-> o]
      /\ \A v \in Users \ {u} : call'[v] = call[v]
  <2>1. call \in [Users -> [op : Work \cup {"test", "none"}, stage : Stages, outcome : Outcomes]]
    BY <1>0 DEF TypeOK
  <2> QED
    BY <1>0, <1>1, <2>1
<1>3. call'[u].op = call[u].op /\ call[u].op = "copy_tarball_to_node" /\ call'[u].stage = "idle"
  BY <1>0, <1>1, <1>2 DEF Calls
<1>4. TypeOK' /\ OneConnection'
  <2>1. call' \in [Users -> [op : Work \cup {"test", "none"}, stage : Stages, outcome : Outcomes]]
    <3>1. call'[u] \in [op : Work \cup {"test", "none"}, stage : Stages, outcome : Outcomes]
      BY <1>2, <1>3 DEF Work, Stages, Outcomes
    <3>2. call' = [v \in Users |-> call'[v]]
      BY <1>0, <1>1 DEF TypeOK
    <3>3. \A v \in Users \ {u} :
            call'[v] \in [op : Work \cup {"test", "none"}, stage : Stages, outcome : Outcomes]
      BY <1>0, <1>2 DEF TypeOK
    <3> QED
      BY <3>1, <3>2, <3>3
  <2>2. tgz' \in [Nodes -> BOOLEAN]
    BY <1>0, UserAssumption DEF Copy, TypeOK
  <2> QED
    BY <1>0, <1>1, <2>1, <2>2 DEF IInv, TypeOK, SSHTypeOK, OneConnection
<1>5. Calls'
  <2>1. call[u].op = thr[u] /\ thr[u] \in Work
    BY <1>0, <1>1 DEF Calls
  <2> SUFFICES ASSUME NEW v \in Users
               PROVE  /\ \/ call'[v].op = "none" /\ call'[v].stage = "idle" /\ call'[v].outcome = "none"
                         \/ v \in Threads /\ call'[v].op = thr[v] /\ thr[v] \in Work
                         \/ v \notin Threads /\ call'[v].op = "test"
                      /\ call'[v].stage = "copy" => call'[v].op = "copy_tarball_to_node"
                      /\ call'[v].stage # "idle" => call'[v].outcome = "none"
    BY <1>1 DEF Calls
  <2>2. CASE v = u
    BY <1>3, <2>1, <2>2
  <2>3. CASE v # u
    BY <1>0, <1>2, <2>3 DEF Calls
  <2> QED
    BY <2>2, <2>3
<1>6. (WorkOfPhase /\ CommandsOf /\ NoEarlyDelete /\ Reported)'
  BY <1>1 DEF IInv, WorkOfPhase, CommandsOf, NoEarlyDelete, Reported, BeforeCleanup
<1>7. Abandoned'
  <2> SUFFICES ASSUME NEW c \in running, c.op = "extract_tarball_at_node",
                      ~SetupFailed(NodeOf[c.user])
               PROVE  /\ phase = "setup" /\ thr[c.user] = "extract_tarball_at_node"
                      /\ call'[c.user].op = "extract_tarball_at_node" /\ call'[c.user].outcome # "ok"
    BY <1>1 DEF Abandoned, SetupFailed
  <2>1. /\ phase = "setup" /\ thr[c.user] = "extract_tarball_at_node"
        /\ call[c.user].op = "extract_tarball_at_node" /\ call[c.user].outcome # "ok"
    BY DEF IInv, Abandoned
  <2>2. c.user \in Users
    BY <1>0 DEF TypeOK
  <2> QED
    BY <1>2, <1>3, <2>1, <2>2
<1>8. \A v \in Threads : \A op \in {"extract_tarball_at_node", "delete_framework_dir"} :
        Succeeded(v, op)' => Succeeded(v, op)
  BY <1>0, <1>2, <1>3 DEF Succeeded
<1>9. SetUp' /\ CleanedUp'
  BY <1>1, <1>8 DEF IInv, SetUp, CleanedUp, BeforeCleanup, Through, Extracted, Deleted, SetupFailed
<1>10. ReadyExplained' /\ CleanExplained'
  BY <1>1 DEF IInv, ReadyExplained, CleanExplained
<1> QED
  BY <1>4, <1>5, <1>6, <1>7, <1>9, <1>10 DEF IInv

-----------------------------------------------------------------------------
(* The commands on the nodes. *)

\* What the end of a command tells the call that waits for it, if one does.
LEMMA EndOfCommand ==
  ASSUME IInv, NEW c \in running, NEW code, CommandEnds(c, code), UNCHANGED <<thr, phase>>
  PROVE  /\ running' \subseteq running /\ c \notin running' /\ c.user \in Users
         /\ call' \in [Users -> [op : Work \cup {"test", "none"}, stage : Stages, outcome : Outcomes]]
         /\ \A v \in Users : call'[v].op = call[v].op
         /\ \A v \in Users \ {c.user} : call'[v] = call[v]
         /\ call'[c.user].outcome = "ok" /\ call[c.user].outcome # "ok" =>
              call[c.user].op = c.op /\ code = 0
         /\ Calls'
<1>0. TypeOK /\ Calls
  BY DEF IInv
<1>1. running' = running \ {c} /\ c.user \in Users
  BY <1>0 DEF CommandEnds, TypeOK
<1>2. CASE UNCHANGED call
  <2>1. Calls'
    BY <1>0, <1>2 DEF Calls
  <2> QED
    BY <1>0, <1>1, <1>2, <2>1 DEF TypeOK
<1>3. CASE /\ call[c.user].stage = "wait" /\ call[c.user].op = c.op
           /\ End(c.user, IF code = 0 THEN "ok" ELSE "RuntimeError")
  <2> DEFINE u == c.user
             o == IF code = 0 THEN "ok" ELSE "RuntimeError"
  <2>1. call' = [call EXCEPT ![u].stage = "idle", ![u].outcome = o]
    BY <1>3 DEF End
  <2>2. o \in Outcomes /\ "idle" \in Stages /\ (o = "ok" => code = 0) /\ u \in Users
    BY <1>1 DEF Outcomes, Stages
  <2> HIDE DEF o, u
  <2>3. /\ call'[u] = [op |-> call[u].op, stage |-> "idle", outcome |-> o]
        /\ \A v \in Users \ {u} : call'[v] = call[v]
        /\ call[u] \in [op : Work \cup {"test", "none"}, stage : Stages, outcome : Outcomes]
        /\ call' = [v \in Users |-> call'[v]]
    <3>1. call \in [Users -> [op : Work \cup {"test", "none"}, stage : Stages, outcome : Outcomes]]
      BY <1>0 DEF TypeOK
    <3> QED
      BY <2>1, <2>2, <3>1
  <2>4. call'[u].op = call[u].op /\ call'[u].stage = "idle" /\ call'[u].outcome = o
    BY <2>3
  <2>5. call' \in [Users -> [op : Work \cup {"test", "none"}, stage : Stages, outcome : Outcomes]]
    <3>1. \A v \in Users :
            call'[v] \in [op : Work \cup {"test", "none"}, stage : Stages, outcome : Outcomes]
      BY <1>0, <2>2, <2>3 DEF TypeOK
    <3> QED
      BY <2>3, <3>1
  <2>6. Calls'
    <3> SUFFICES ASSUME NEW v \in Users
                 PROVE  /\ \/ call'[v].op = "none" /\ call'[v].stage = "idle" /\ call'[v].outcome = "none"
                           \/ v \in Threads /\ call'[v].op = thr[v] /\ thr[v] \in Work
                           \/ v \notin Threads /\ call'[v].op = "test"
                        /\ call'[v].stage = "copy" => call'[v].op = "copy_tarball_to_node"
                        /\ call'[v].stage # "idle" => call'[v].outcome = "none"
      BY DEF Calls
    <3>1. CASE v = u
      <4>1. call[u].stage # "idle"
        BY <1>3 DEF u
      <4> QED
        BY <1>0, <2>2, <2>4, <3>1, <4>1 DEF Calls
    <3>2. CASE v # u
      BY <1>0, <2>3, <3>2 DEF Calls
    <3> QED
      BY <3>1, <3>2
  <2>7. \A v \in Users : call'[v].op = call[v].op
    BY <2>3, <2>4
  <2> QED
    BY <1>1, <1>3, <2>2, <2>3, <2>4, <2>5, <2>6, <2>7 DEF u
<1> QED
  BY <1>2, <1>3 DEF CommandEnds

\* So do the steps of the commands on a node.
LEMMA RemoteSteps ==
  ASSUME IInv, RemoteStep
  PROVE  IInv'
<1> USE DEF connVars, localVars
<1>0. /\ TypeOK /\ Calls /\ WorkOfPhase /\ CommandsOf /\ NoEarlyDelete /\ Abandoned
      /\ SetUp /\ CleanedUp /\ ReadyExplained /\ CleanExplained /\ Threads \subseteq Users
      /\ UNCHANGED <<connVars, reach, localVars>>
  BY ThreadUsers DEF IInv, RemoteStep
<1>1. PICK c \in running :
        ExtractEnds(c) \/ CreateEnvEnds(c) \/ DeleteEnds(c) \/ TestCommandEnds(c)
  BY DEF RemoteStep
<1> DEFINE n == NodeOf[c.user]
<1>2. n \in Nodes /\ c.user \in Users /\ c.op \in Work \cup {"test"}
  BY <1>0, UserAssumption DEF TypeOK
<1>3. PICK code : CommandEnds(c, code)
  BY <1>1 DEF ExtractEnds, CreateEnvEnds, DeleteEnds, TestCommandEnds
<1>4. /\ running' \subseteq running /\ c \notin running'
      /\ call' \in [Users -> [op : Work \cup {"test", "none"}, stage : Stages, outcome : Outcomes]]
      /\ \A v \in Users : call'[v].op = call[v].op
      /\ \A v \in Users \ {c.user} : call'[v] = call[v]
      /\ call'[c.user].outcome = "ok" /\ call[c.user].outcome # "ok" => call[c.user].op = c.op
      /\ Calls'
  BY <1>0, <1>3, EndOfCommand
<1>5. /\ \A m \in Nodes \ {n} : fw'[m] = fw[m] /\ (m \in broken' <=> m \in broken)
      /\ broken \subseteq broken'
      /\ \/ c.op = "extract_tarball_at_node" /\ (fw'[n] = "new" \/ n \in broken')
         \/ c.op = "delete_framework_dir" /\ fw'[n] \in {fw[n], "none"} /\ broken' = broken
         \/ fw' = fw /\ broken' = broken /\ c.op \notin {"extract_tarball_at_node", "delete_framework_dir"}
  BY <1>0, <1>1, <1>2 DEF ExtractEnds, CreateEnvEnds, DeleteEnds, TestCommandEnds, nodeVars, TypeOK
<1>6. /\ c.op = "delete_framework_dir" /\ call'[c.user].outcome = "ok" /\ call[c.user].outcome # "ok"
        => fw'[n] = "none"
  <2> SUFFICES ASSUME DeleteEnds(c), call'[c.user].outcome = "ok", call[c.user].outcome # "ok"
               PROVE  fw'[n] = "none"
    BY <1>1 DEF ExtractEnds, CreateEnvEnds, TestCommandEnds
  <2>1. ~CommandEnds(c, 1)
    BY <1>0, EndOfCommand, 1 # 0
  <2> QED
    BY <1>0, <1>2, <2>1 DEF DeleteEnds, TypeOK
<1> HIDE DEF n
<1>7. TypeOK' /\ OneConnection'
  <2>1. fw' \in [Nodes -> {"none", "old", "partial", "new"}] /\ broken' \subseteq Nodes
    BY <1>0, <1>1, <1>2
    DEF ExtractEnds, CreateEnvEnds, DeleteEnds, TestCommandEnds, nodeVars, TypeOK, n
  <2>2. faults' \in 0 .. MaxFaults
    BY <1>0, <1>1, FaultAssumption
    DEF ExtractEnds, CreateEnvEnds, DeleteEnds, TestCommandEnds, Fault, TypeOK, SSHTypeOK
  <2>3. tgz' \in [Nodes -> BOOLEAN]
    <3>1. tgz' = tgz \/ tgz' = [tgz EXCEPT ![NodeOf[c.user]] = FALSE]
      BY <1>1 DEF ExtractEnds, CreateEnvEnds, DeleteEnds, TestCommandEnds, nodeVars
    <3> QED
      BY <1>0, <3>1 DEF TypeOK
  <2> QED
    BY <1>0, <1>4, <2>1, <2>2, <2>3 DEF IInv, TypeOK, SSHTypeOK, OneConnection
<1>8. (WorkOfPhase /\ CommandsOf /\ NoEarlyDelete /\ Reported)'
  BY <1>0, <1>4 DEF IInv, WorkOfPhase, CommandsOf, NoEarlyDelete, Reported, BeforeCleanup
<1>9. \A m : SetupFailed(m)' <=> SetupFailed(m)
  BY <1>0 DEF SetupFailed
<1>10. Abandoned'
  <2> SUFFICES ASSUME NEW d \in running', d.op = "extract_tarball_at_node",
                      ~SetupFailed(NodeOf[d.user])
               PROVE  /\ phase = "setup" /\ thr[d.user] = "extract_tarball_at_node"
                      /\ call'[d.user].op = "extract_tarball_at_node" /\ call'[d.user].outcome # "ok"
    BY <1>0, <1>9 DEF Abandoned
  <2>1. d \in running /\ d # c /\ d.user \in Users
    BY <1>0, <1>4 DEF TypeOK
  <2>2. /\ phase = "setup" /\ thr[d.user] = "extract_tarball_at_node"
        /\ call[d.user].op = "extract_tarball_at_node" /\ call[d.user].outcome # "ok"
    BY <1>0, <2>1 DEF Abandoned
  <2>3. call'[d.user].outcome # "ok"
    <3>1. CASE d.user = c.user
      <4>1. c.op # d.op
        <5>1. c \in [user : Users, op : Work \cup {"test"}] /\ d \in [user : Users, op : Work \cup {"test"}]
          BY <1>0, <2>1 DEF TypeOK
        <5> QED
          BY <2>1, <3>1, <5>1
      <4> QED
        BY <1>4, <2>2, <3>1, <4>1
    <3>2. CASE d.user # c.user
      BY <1>4, <2>1, <2>2, <3>2
    <3> QED
      BY <3>1, <3>2
  <2> QED
    BY <1>4, <2>1, <2>2, <2>3
<1>11. \A v \in Threads : \A op : Succeeded(v, op)' /\ ~Succeeded(v, op) =>
         /\ v = c.user /\ c.op = op
         /\ call'[c.user].outcome = "ok" /\ call[c.user].outcome # "ok"
  BY <1>0, <1>4 DEF Succeeded
<1>12. BeforeCleanup => \A m \in Nodes : Extracted(m) => Extracted(m)'
  BY <1>0, <1>5 DEF NoEarlyDelete, Extracted
<1>13. c.op = "extract_tarball_at_node" => Extracted(n)'
  BY <1>5 DEF Extracted
<1>14. ~BeforeCleanup /\ c.op = "extract_tarball_at_node" => SetupFailed(n)
  BY <1>0 DEF Abandoned, BeforeCleanup, n
<1>15. ~BeforeCleanup => \A m \in Nodes : Deleted(m) => Deleted(m)'
  <2> SUFFICES ASSUME ~BeforeCleanup, NEW m \in Nodes, fw[m] = "none", ~SetupFailed(m)
               PROVE  fw'[m] = "none"
    BY <1>9 DEF Deleted
  <2> QED
    BY <1>5, <1>14
<1>16. SetUp'
  <2> SUFFICES ASSUME BeforeCleanup, NEW v \in Threads,
                      \/ thr[v] = "create_env_directory_at_node"
                      \/ Succeeded(v, "extract_tarball_at_node")'
                      \/ Through(v)
               PROVE  Extracted(NodeOf[v])'
    BY <1>0 DEF SetUp, BeforeCleanup, Through
  <2>1. NodeOf[v] \in Nodes
    BY <1>0, UserAssumption
  <2>2. CASE Succeeded(v, "extract_tarball_at_node")' /\ ~Succeeded(v, "extract_tarball_at_node")
    BY <1>11, <1>13, <2>2 DEF n
  <2> QED
    BY <1>0, <1>12, <2>1, <2>2 DEF SetUp
<1>17. CleanedUp'
  <2> SUFFICES ASSUME ~BeforeCleanup, NEW v \in Threads,
                      Succeeded(v, "delete_framework_dir")' \/ Through(v)
               PROVE  Deleted(NodeOf[v])'
    BY <1>0 DEF CleanedUp, BeforeCleanup, Through
  <2>1. NodeOf[v] \in Nodes
    BY <1>0, UserAssumption
  <2>2. CASE Succeeded(v, "delete_framework_dir")' /\ ~Succeeded(v, "delete_framework_dir")
    BY <1>6, <1>11, <2>2 DEF n, Deleted
  <2> QED
    BY <1>0, <1>15, <2>1, <2>2 DEF CleanedUp
<1>18. ReadyExplained'
  <2> SUFFICES ASSUME NEW m \in Nodes, phase = "tests", ~Extracted(m)'
               PROVE  <<"setup", m, "raised">> \in failed
    BY <1>0 DEF ReadyExplained, Extracted
  <2>1. ~Extracted(m)
    BY <1>12 DEF BeforeCleanup
  <2> QED
    BY <1>0, <2>1 DEF ReadyExplained, Extracted
<1>19. CleanExplained'
  <2> SUFFICES ASSUME NEW m \in Nodes, phase = "cleaned", fw'[m] # "none"
               PROVE  \E f \in failed : f[2] = m /\ (f[1] = "cleanup" => f[3] = "raised")
    BY <1>0 DEF CleanExplained
  <2>1. CASE fw[m] # "none"
    BY <1>0, <2>1 DEF CleanExplained
  <2>2. CASE SetupFailed(m)
    BY <2>2 DEF SetupFailed
  <2>3. fw[m] # "none" \/ SetupFailed(m)
    BY <1>5, <1>14 DEF BeforeCleanup
  <2> QED
    BY <2>1, <2>2, <2>3
<1> QED
  BY <1>4, <1>7, <1>8, <1>10, <1>16, <1>17, <1>18, <1>19 DEF IInv

-----------------------------------------------------------------------------
(* The theorems. *)

\* Every step of the threads, the connections and the nodes keeps it.
LEMMA NextIInv == IInv /\ [Next]_vars => IInv'
<1> SUFFICES ASSUME IInv, [Next]_vars PROVE IInv'
  OBVIOUS
<1>1. CASE MainStep
  BY <1>1, StartSteps, FinishSteps, MainCallSteps DEF MainStep
<1>2. CASE KeptCalls \/ ShortCalls
  BY <1>2, MainCallSteps
<1>3. ASSUME NEW u \in Threads, ThreadStep(u)
      PROVE  IInv'
  BY <1>3, ThreadCallsStep, ThreadReturns, CopyStep DEF ThreadStep
<1>4. ASSUME NEW u \in Users, SSHStep(u)
      PROVE  IInv'
  BY <1>4, SSHSteps
<1>5. CASE RemoteStep
  BY <1>5, RemoteSteps
<1>6. CASE Environment
  BY <1>6, EnvironmentSteps
<1>7. CASE UNCHANGED vars
  <2>1. SSHTypeOK' /\ OneConnection'
    BY <1>7 DEF vars, sshVars, IInv, TypeOK, SSHTypeOK, OneConnection
  <2> QED
    BY <1>7, <2>1, Elsewhere DEF vars, sshVars
<1> QED
  BY <1>1, <1>2, <1>3, <1>4, <1>5, <1>6, <1>7 DEF Next

\* The invariant holds always.
LEMMA SpecIInv == Spec => []IInv
BY InitIInv, NextIInv, PTL DEF Spec

\* Every variable of the connections, the threads and the nodes keeps its type.
THEOREM TypeCorrect == Spec => []TypeOK
<1>1. IInv => TypeOK
  BY DEF IInv
<1> QED
  BY <1>1, SpecIInv, PTL

\* Whatever breaks and however the users interleave, the client in the cache is
\* the only one of its node that is open.  (SSH.connect, SSH.disconnect)
THEOREM OneConnectionTheorem == Spec => []OneConnection
<1>1. IInv => OneConnection
  BY DEF IInv
<1> QED
  BY <1>1, SpecIInv, PTL

\* When setup_framework has returned, each node has the framework of this run, or
\* its thread died unnoticed or tar failed unnoticed.  (setup_node, all(results))
THEOREM ReadyTheorem == Spec => []ReadyExplained
<1>1. IInv => ReadyExplained
  BY DEF IInv
<1> QED
  BY <1>1, SpecIInv, PTL

\* When cleanup_framework has returned, a node that keeps a framework had a
\* thread that died unnoticed or a setup that failed.  (cleanup_node)
THEOREM CleanTheorem == Spec => []CleanExplained
<1>1. IInv => CleanExplained
  BY DEF IInv
<1> QED
  BY <1>1, SpecIInv, PTL
============================================================================
