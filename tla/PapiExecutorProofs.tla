------------------------- MODULE PapiExecutorProofs -------------------------
(***************************************************************************)
(* Proofs about PapiExecutor, for any DUTs, commands, collections and      *)
(* bounds: the invariants its run checks, and that it implements           *)
(* CommandLog.                                                             *)
(*                                                                         *)
(* That a VPP executes a command at most twice rests on what it can have   *)
(* executed of the commands still to be sent: nothing, or, once the first  *)
(* of them is repeated, that one once (Sending).  That a fitting build is  *)
(* never complained about rests on its collection staying expected through *)
(* all scans (Fitting, Scanned).                                           *)
(***************************************************************************)
EXTENDS PapiExecutor, FiniteSetTheorems, TLAPS

-----------------------------------------------------------------------------
(* The inductive invariant.                                                *)

\* The thread is inside a "with" block, or about to be.
Open == {"connect", "block", "send", "reconnect", "exit"}
Preparing == {"download", "scan", "enter"}

\* Tunnels carry the number of their block, and that of the open block leads
\* to the DUT of its executor.
Tunnelled ==
  \A t \in tunnels : t[1] <= blocks /\ (t[1] = blocks /\ pc # "idle" => pc \in Open /\ t[2] = node)

\* The client is connected in an open block only, and to the DUT of it.
Connected ==
  /\ pc # "idle" => node \in DUTs /\ blocks > 0
  /\ pc \in Open => client.address = blocks
  /\ pc \in {"block", "send"} => client.to # None
  /\ client.to # None => pc \in {"block", "send", "exit"} /\ client.to = node

\* A directory that is left behind was paid for with a fault.
Directories ==
  /\ \A b \in dirs : b <= blocks
  /\ pc \in Open => Cardinality(dirs \ {blocks}) <= faults
  /\ pc \notin Open => Cardinality(dirs) <= faults

\* The messages of the build.
Present == {n \in Names : build[n] # None}

\* The checker has found what the files say, no message of which remains unread
\* when the client exists.
Scanned ==
  /\ crc.found \subseteq Present /\ toscan \subseteq Present
  /\ pc \in {"enter"} \cup Open => client.created
  /\ pc \in {"download", "scan"} => ~client.created
  /\ pc = "scan" => ~crc.initial /\ Present \subseteq crc.found \cup toscan
  /\ client.created => Present \subseteq crc.found

\* What the checker will not raise again has been told.
Raised == crc.initial => crc.reported \subseteq told

Used == Commands \cup {ReplyOf[n] : n \in Commands}

\* A collection that fits the build is never dropped.
Fitting ==
  \A c \in Collections :
    Fits(c, build, Used) => c \in crc.expected /\ crc.reported = {} /\ told = {}

Approved(n) == Verified(n, build) \/ n \in told

\* The history of a DUT tells of a command, or is not to tell of it.
Listed(d, id) == id \in silent \/ \E k \in DOMAIN history[d] : history[d][k] = id

\* A command that may be sent to the DUT of the executor: it is meant for it,
\* recorded if it is to be, and a test was told if it is not verified.
Ready(id) ==
  /\ id \in DOMAIN names /\ target[id] = node /\ Approved(names[id])
  /\ Listed(node, id)

Sendable(s) ==
  /\ \A k \in DOMAIN s : Ready(s[k])
  /\ \A k, l \in DOMAIN s : k < l => s[k] < s[l]

\* What a VPP has executed was numbered before.
Executed ==
  \A d \in DUTs : \A i \in DOMAIN log[d] : log[d][i] \in DOMAIN names

\* The commands in the list are new to VPP.
Queued ==
  /\ pc \in Preparing \cup {"connect"} => queue = <<>> /\ replies = <<>>
  /\ pc \in {"send", "reconnect"} => queue = <<>>
  /\ pc = "block" =>
       /\ Sendable(queue)
       /\ \A i \in DOMAIN log[node] : \A k \in DOMAIN queue : log[node][i] < queue[k]

\* Of the commands being sent VPP knows at most the first, once, and only if
\* it is sent again after an error.
Sending ==
  pc \in {"send", "reconnect"} =>
    /\ todo # <<>> /\ Sendable(todo)
    /\ \A i \in DOMAIN log[node] :
         log[node][i] < todo[1] \/ (retried /\ log[node][i] = todo[1])
    /\ retried => todo[1] \in lost
    /\ Times(todo[1], node) <= 1

\* The replies are of the last executions of commands before those to be sent.
Replied ==
  pc \in {"block", "send", "reconnect"} =>
    \A k \in DOMAIN replies :
      /\ replies[k] \in DOMAIN log[node]
      /\ \A i \in DOMAIN log[node] : i > replies[k] => log[node][i] # log[node][replies[k]]
      /\ pc # "block" => log[node][replies[k]] < todo[1]

IInv ==
  /\ TypeOK
  /\ Tunnelled /\ Connected /\ Directories
  /\ Scanned /\ Raised /\ Fitting
  /\ Executed /\ Queued /\ Sending /\ Replied
  /\ ExecutedAsRecorded /\ UnverifiedTold

-----------------------------------------------------------------------------
(* The operators of the checker.                                           *)

\* A new checker is one.
LEMMA NewCheckerType == NewChecker \in Checkers
BY DEF NewChecker, Checkers

\* What _process_crc does to each field.
LEMMA ProcessCrc ==
  ASSUME NEW s \in Checkers, NEW n \in Names, NEW b \in Builds
  PROVE  LET kept == {c \in s.expected : Known[c][n] \in {None, b[n]}}
             t    == process_crc(s, n, b) IN
         /\ t \in Checkers
         /\ t.found = s.found \cup {n} /\ t.initial = s.initial
         /\ kept # {} => t.expected = kept /\ t.reported = s.reported
         /\ kept = {} => t.expected = s.expected /\ t.reported = s.reported \cup {n}
<1> DEFINE kept == {c \in s.expected : Known[c][n] \in {None, b[n]}}
           missing == [c \in Collections |->
                         IF c \notin kept THEN {}
                         ELSE IF Known[c][n] = b[n] THEN s.missing[c] \ {n} ELSE s.missing[c]]
           A == [s EXCEPT !.found = @ \cup {n}, !.expected = kept, !.missing = missing]
           B == [s EXCEPT !.found = @ \cup {n}, !.reported = @ \cup {n}]
<1>1. missing \in [Collections -> SUBSET Names]
  BY DEF Checkers
<1>2. process_crc(s, n, b) = IF kept # {} THEN A ELSE B
  BY DEF process_crc
<1>5. kept \subseteq s.expected
  OBVIOUS
<1> HIDE DEF missing, kept
<1>3. /\ A \in Checkers /\ A.found = s.found \cup {n} /\ A.initial = s.initial
      /\ A.expected = kept /\ A.reported = s.reported
  BY <1>1, <1>5 DEF Checkers
<1>4. /\ B \in Checkers /\ B.found = s.found \cup {n} /\ B.initial = s.initial
      /\ B.expected = s.expected /\ B.reported = s.reported \cup {n}
  BY DEF Checkers
<1> HIDE DEF A, B
<1> QED BY <1>2, <1>3, <1>4 DEF kept

\* The collections that stay are among those there were, and there is a
\* reason for one to go.
LEMMA Knowing ==
  ASSUME NEW s \in Checkers, NEW n \in Names
  PROVE  /\ KnowingName(s, n) \subseteq s.expected
         /\ \A c \in s.expected : Known[c][n] # None => c \in KnowingName(s, n)
BY DEF KnowingName, Checkers

\* What report_initial_conflicts does to each field.
LEMMA ReportInitial ==
  ASSUME NEW s \in Checkers
  PROVE  LET t == report_initial_conflicts(s) IN
         /\ t \in Checkers
         /\ t.found = s.found /\ t.expected = s.expected /\ t.initial
         /\ t.reported = IF s.initial THEN s.reported ELSE {}
         /\ initial_conflicts(s) = IF s.initial THEN {} ELSE s.reported
         /\ initial_conflicts(s) \subseteq Names
<1> DEFINE A == [s EXCEPT !.initial = TRUE, !.reported = {}]
<1>1. /\ A \in Checkers /\ A.found = s.found /\ A.expected = s.expected /\ A.initial
      /\ A.reported = {}
  BY DEF Checkers
<1>2. report_initial_conflicts(s) = IF s.initial THEN s ELSE A
  BY DEF report_initial_conflicts
<1>3. /\ initial_conflicts(s) = IF s.initial THEN {} ELSE s.reported
      /\ s.reported \subseteq Names
  BY DEF initial_conflicts, Checkers
<1> HIDE DEF A
<1> QED BY <1>1, <1>2, <1>3

\* What check_api_name does to each field.
LEMMA CheckApiName ==
  ASSUME NEW s \in Checkers, NEW n \in Names, NEW b \in Builds
  PROVE  LET t == check_api_name(s, n, b) IN
         /\ t \in Checkers
         /\ t.found = s.found /\ t.initial = s.initial
         /\ t.expected = IF n \in s.reported THEN s.expected ELSE KnowingName(s, n)
         /\ t.reported = IF unmatched(s, n, b) THEN s.reported \cup {n} ELSE s.reported
<1> DEFINE m == matching(s, n, b)
           A == [s EXCEPT !.expected = KnowingName(s, n),
                          !.reported = IF m THEN @ ELSE @ \cup {n}]
<1>1. check_api_name(s, n, b) = IF n \in s.reported THEN s ELSE A
  BY DEF check_api_name
<1>2. unmatched(s, n, b) = (n \notin s.reported /\ ~m)
  BY DEF unmatched
<1> HIDE DEF m
<1>3. /\ A \in Checkers /\ A.found = s.found /\ A.initial = s.initial
      /\ A.expected = KnowingName(s, n)
      /\ A.reported = IF m THEN s.reported ELSE s.reported \cup {n}
  BY Knowing DEF Checkers
<1> HIDE DEF A
<1> QED BY <1>1, <1>2, <1>3

-----------------------------------------------------------------------------
(* Type correctness.                                                       *)

\* The replies to commands are messages too.
LEMMA NamesOf == \A n \in Commands : n \in Names /\ ReplyOf[n] \in Names
BY CommandAssumption

\* add keeps the types.
LEMMA AddType ==
  ASSUME TypeOK, pc # "idle" => node \in DUTs, NEW n \in Commands, NEW h \in BOOLEAN, Add(n, h)
  PROVE  TypeOK'
<1> DEFINE start == report_initial_conflicts(crc)
           early == initial_conflicts(crc)
           late  == IF unmatched(start, n, build) THEN {n} ELSE {}
           id    == Len(names) + 1
<1>1. /\ pc = "block" /\ id <= MaxCommands
      /\ names' = Append(names, n) /\ target' = Append(target, node)
      /\ \/ told' = told \cup early /\ crc' = start
         \/ told' = told \cup early \cup late /\ crc' = check_api_name(start, n, build)
      /\ history' = history \/ history' = [history EXCEPT ![node] = Append(@, id)]
      /\ silent' = silent \/ silent' = silent \cup {id}
      /\ queue' = queue \/ queue' = Append(queue, id)
      /\ pc' \in {"block", "exit"}
      /\ UNCHANGED <<build, fail, toscan, client, node, todo, retried, replies, log, lost,
                     tunnels, dirs, blocks, faults>>
  BY DEF Add
<1>2. n \in Names
  BY NamesOf
<1>3. start \in Checkers /\ early \subseteq Names /\ late \subseteq Names
  BY <1>2, ReportInitial DEF TypeOK
<1>4. check_api_name(start, n, build) \in Checkers
  BY <1>2, <1>3, CheckApiName DEF TypeOK
<1>5. id \in 1 .. MaxCommands /\ node \in DUTs
  BY <1>1, BoundAssumption DEF TypeOK
<1> HIDE DEF start, early, late
<1>6. crc' \in Checkers /\ told' \subseteq Names
  BY <1>1, <1>3, <1>4 DEF TypeOK
<1>7. names' \in Seq(Commands) /\ target' \in Seq(DUTs) /\ Len(names') = id /\ Len(target') = id
  <2>1. names \in Seq(Commands) /\ target \in Seq(DUTs) /\ Len(target) = Len(names)
    BY DEF TypeOK
  <2> QED BY <1>1, <1>5, <2>1
<1>9. silent' \subseteq 1 .. MaxCommands
  BY <1>1, <1>5 DEF TypeOK
<1>8. queue' \in Seq(1 .. MaxCommands) /\ history' \in [DUTs -> Seq(1 .. MaxCommands)]
  <2>1. queue \in Seq(1 .. MaxCommands) /\ history \in [DUTs -> Seq(1 .. MaxCommands)]
    BY DEF TypeOK
  <2>2. Append(queue, id) \in Seq(1 .. MaxCommands)
    BY <1>5, <2>1
  <2>3. Append(history[node], id) \in Seq(1 .. MaxCommands)
    BY <1>5, <2>1
  <2> HIDE DEF id
  <2>4. [history EXCEPT ![node] = Append(@, id)] \in [DUTs -> Seq(1 .. MaxCommands)]
    BY <1>5, <2>1, <2>3
  <2> QED BY <1>1, <2>1, <2>2, <2>4
<1> HIDE DEF id
<1> QED BY <1>1, <1>5, <1>6, <1>7, <1>8, <1>9 DEF TypeOK

\* The command to be sent next.
LEMMA NextCommand ==
  ASSUME TypeOK, Sending, pc \in {"send", "reconnect"}
  PROVE  /\ Head(todo) = todo[1] /\ 1 \in DOMAIN todo
         /\ todo[1] \in 1 .. MaxCommands /\ todo[1] \in DOMAIN names
         /\ names[todo[1]] \in Commands
         /\ names[todo[1]] \in Names /\ ReplyOf[names[todo[1]]] \in Names
         /\ Tail(todo) \in Seq(1 .. MaxCommands) /\ Len(Tail(todo)) = Len(todo) - 1
         /\ \A k \in DOMAIN Tail(todo) : k + 1 \in DOMAIN todo /\ Tail(todo)[k] = todo[k + 1]
<1>1. todo # <<>> /\ todo \in Seq(1 .. MaxCommands) /\ names \in Seq(Commands)
  BY DEF Sending, TypeOK
<1>2. 1 \in DOMAIN todo
  BY <1>1
<1>3. todo[1] \in DOMAIN names
  BY <1>2 DEF Sending, Sendable, Ready
<1>4. names[todo[1]] \in Commands
  BY <1>1, <1>3
<1>5. names[todo[1]] \in Names /\ ReplyOf[names[todo[1]]] \in Names
  BY <1>4, NamesOf
<1>6. todo[1] \in 1 .. MaxCommands
  <2> DEFINE S == 1 .. MaxCommands
  <2>1. todo \in Seq(S)
    BY <1>1
  <2> HIDE DEF S
  <2>2. todo[1] \in S
    BY <1>2, <2>1
  <2> QED BY <2>2 DEF S
<1>8. Head(todo) = todo[1]
  BY <1>1
<1>7. /\ Tail(todo) \in Seq(1 .. MaxCommands) /\ Len(Tail(todo)) = Len(todo) - 1
      /\ \A k \in DOMAIN Tail(todo) : k + 1 \in DOMAIN todo /\ Tail(todo)[k] = todo[k + 1]
  BY <1>1
<1> QED BY <1>2, <1>3, <1>4, <1>5, <1>6, <1>7, <1>8

\* A step in which a VPP executes a command, its parts named.
LEMMA AnsweredParts ==
  ASSUME TypeOK, Sending, Answered
  PROVE  LET r == ReplyOf[names[todo[1]]] IN
         /\ pc = "send" /\ client.to # None /\ r \in Names
         /\ log' = [log EXCEPT ![client.to] = Append(@, todo[1])]
         /\ crc' = check_api_name(crc, r, build)
         /\ told' = IF unmatched(crc, r, build) THEN told \cup {r} ELSE told
         /\ todo' = Tail(todo) /\ retried' = FALSE
         /\ \/ /\ ~(fail /\ unmatched(crc, r, build))
               /\ replies' = Append(replies, Len(log[client.to]) + 1)
               /\ pc' = IF Len(todo) = 1 THEN "block" ELSE "send"
               /\ faults' = faults
            \/ /\ pc' = "exit" /\ replies' = replies
               /\ faults' = faults \/ (faults < MaxFaults /\ faults' = faults + 1)
         /\ UNCHANGED <<build, fail, toscan, client, node, queue, names, target, history, silent,
                        lost, tunnels, dirs, blocks>>
<1>1. pc = "send"
  BY DEF Answered
<1>2. Head(todo) = todo[1] /\ ReplyOf[names[todo[1]]] \in Names
  BY <1>1, NextCommand
<1> QED BY <1>1, <1>2 DEF Answered, ThisReply, Fault

\* A step in which a request or a reply is lost.
LEMMA LostParts ==
  ASSUME TypeOK, Sending, Lost
  PROVE  /\ pc = "send" /\ client.to # None
         /\ faults < MaxFaults /\ faults' = faults + 1
         /\ log' = [log EXCEPT ![client.to] = Append(@, todo[1])] \/ log' = log
         /\ lost' = lost \cup {todo[1]}
         /\ \/ /\ ~retried /\ retried' = TRUE /\ pc' = "reconnect"
               /\ client' = [client EXCEPT !.to = None]
            \/ retried /\ pc' = "exit" /\ client' = client /\ retried' = retried
         /\ UNCHANGED <<checkVars, node, queue, todo, replies, names, target, history, silent,
                        tunnels, dirs, blocks>>
<1>1. pc = "send"
  BY DEF Lost
<1>2. Head(todo) = todo[1]
  BY <1>1, NextCommand
<1> QED BY <1>1, <1>2 DEF Lost, Fault, Reconnect, GiveUp

\* Counting a fault keeps the bound.
LEMMA FaultType ==
  ASSUME faults \in 0 .. MaxFaults, faults' = faults \/ Fault
  PROVE  faults' \in 0 .. MaxFaults
BY BoundAssumption DEF Fault

\* Connecting or disconnecting the client keeps its type.
LEMMA ClientType ==
  ASSUME NEW C, C = [created : BOOLEAN, address : 0 .. MaxBlocks, to : DUTs \cup {None}],
         NEW c \in C
  PROVE  /\ \A d \in DUTs \cup {None} : [c EXCEPT !.to = d] \in C
         /\ [c EXCEPT !.created = TRUE] \in C
         /\ \A a \in 0 .. MaxBlocks : [c EXCEPT !.address = a] \in C
OBVIOUS

\* A VPP that executes a command keeps the type of the log.
LEMMA LogType ==
  ASSUME log \in [DUTs -> Seq(1 .. MaxCommands)], NEW d \in DUTs, NEW id \in 1 .. MaxCommands
  PROVE  /\ [log EXCEPT ![d] = Append(@, id)] \in [DUTs -> Seq(1 .. MaxCommands)]
         /\ Len(log[d]) + 1 \in Nat
<1>1. log[d] \in Seq(1 .. MaxCommands)
  OBVIOUS
<1>2. Append(log[d], id) \in Seq(1 .. MaxCommands) /\ Len(log[d]) + 1 \in Nat
  BY <1>1
<1> QED BY <1>2

\* Every step keeps the types.
LEMMA TypeStep ==
  ASSUME TypeOK, Connected, Scanned, Sending, [Next]_vars
  PROVE  TypeOK'
<1>1. CASE UNCHANGED vars
  BY <1>1 DEF TypeOK, vars, checkVars, execVars
<1>2. ASSUME NEW d \in DUTs, NewExecutor(d) PROVE TypeOK'
  <2>1. <<>> \in Seq(1 .. MaxCommands) /\ <<>> \in Seq(Nat)
    OBVIOUS
  <2>2. blocks' \in 0 .. MaxBlocks
    BY <1>2, BoundAssumption DEF NewExecutor, TypeOK
  <2>3. pc' \in {"enter", "download"}
    BY <1>2 DEF NewExecutor
  <2> QED BY <1>2, <2>1, <2>2, <2>3 DEF NewExecutor, TypeOK, checkVars
<1>3. CASE Download
  <2>1. crc' \in Checkers /\ toscan' \subseteq Names
    BY <1>3, NewCheckerType DEF Download, TypeOK
  <2>2. faults' \in 0 .. MaxFaults
    <3>1. faults' = faults \/ (faults < MaxFaults /\ faults' = faults + 1)
      BY <1>3 DEF Download, Fault
    <3>2. faults \in 0 .. MaxFaults /\ MaxFaults \in Nat
      BY BoundAssumption DEF TypeOK
    <3> QED BY <3>1, <3>2
  <2> QED BY <1>3, <2>1, <2>2 DEF Download, TypeOK, execVars
<1>4. ASSUME NEW n \in toscan, Scan(n) PROVE TypeOK'
  <2>1. n \in Names
    BY DEF TypeOK
  <2>2. crc' \in Checkers
    BY <1>4, <2>1, ProcessCrc DEF Scan, TypeOK
  <2> QED BY <1>4, <2>2 DEF Scan, TypeOK, execVars
<1>5. CASE CreateClient
  <2>1. client' \in [created : BOOLEAN, address : 0 .. MaxBlocks, to : DUTs \cup {None}]
    BY <1>5, ClientType DEF CreateClient, TypeOK
  <2>2. faults' \in 0 .. MaxFaults
    BY <1>5, FaultType DEF CreateClient, TypeOK
  <2> QED BY <1>5, <2>1, <2>2 DEF CreateClient, TypeOK, execVars, checkVars
<1>6. CASE Enter
  <2>1. blocks \in 1 .. MaxBlocks /\ node \in DUTs
    BY <1>6 DEF Enter, TypeOK, Connected
  <2>2. client' \in [created : BOOLEAN, address : 0 .. MaxBlocks, to : DUTs \cup {None}]
    BY <1>6, <2>1, ClientType DEF Enter, TypeOK
  <2>3. faults' \in 0 .. MaxFaults
    BY <1>6, FaultType DEF Enter, TypeOK
  <2>4. tunnels' \subseteq (1 .. MaxBlocks) \X DUTs /\ dirs' \subseteq 1 .. MaxBlocks
    BY <1>6, <2>1 DEF Enter, TypeOK
  <2> QED BY <1>6, <2>2, <2>3, <2>4 DEF Enter, TypeOK, execVars, checkVars
<1>7. CASE ConnectSync
  <2>1. \A d \in Reached(client.address) : d \in DUTs
    BY DEF Reached, TypeOK
  <2>2. client' \in [created : BOOLEAN, address : 0 .. MaxBlocks, to : DUTs \cup {None}]
    BY <1>7, <2>1, ClientType DEF ConnectSync, TypeOK
  <2>3. faults' \in 0 .. MaxFaults
    BY <1>7, FaultType DEF ConnectSync, TypeOK
  <2> QED BY <1>7, <2>2, <2>3 DEF ConnectSync, TypeOK, execVars, checkVars
<1>8. CASE Exit
  BY <1>8 DEF Exit, TypeOK, execVars, checkVars
<1>9. ASSUME NEW t \in tunnels, TunnelEnds(t) PROVE TypeOK'
  BY <1>9 DEF TunnelEnds, TypeOK, execVars, checkVars
<1>10. CASE LeaveBlock
  BY <1>10 DEF LeaveBlock, TypeOK, execVars, checkVars
<1>11. ASSUME NEW n \in Commands, NEW h \in BOOLEAN, Add(n, h) PROVE TypeOK'
  BY <1>11, AddType DEF Connected
<1>12. CASE Execute
  <2>1. <<>> \in Seq(1 .. MaxCommands) /\ <<>> \in Seq(Nat)
    OBVIOUS
  <2> QED BY <1>12, <2>1 DEF Execute, TypeOK, checkVars
<1>13. CASE NoSuchMessage
  BY <1>13 DEF NoSuchMessage, TypeOK, execVars, checkVars
<1>14. CASE Answered
  <2> DEFINE r == ReplyOf[names[todo[1]]]
  <2>1. /\ todo[1] \in 1 .. MaxCommands /\ Tail(todo) \in Seq(1 .. MaxCommands)
        /\ pc = "send" /\ client.to \in DUTs /\ r \in Names
    BY <1>14, AnsweredParts, NextCommand DEF TypeOK
  <2>2. check_api_name(crc, r, build) \in Checkers
    BY <2>1, CheckApiName DEF TypeOK
  <2>3. crc' \in Checkers /\ told' \subseteq Names
    BY <1>14, <2>1, <2>2, AnsweredParts DEF TypeOK
  <2>8. /\ [log EXCEPT ![client.to] = Append(@, todo[1])] \in [DUTs -> Seq(1 .. MaxCommands)]
        /\ Len(log[client.to]) + 1 \in Nat
    <3>1. log \in [DUTs -> Seq(1 .. MaxCommands)]
      BY DEF TypeOK
    <3> QED BY <2>1, <3>1, LogType
  <2>4. log' \in [DUTs -> Seq(1 .. MaxCommands)]
    BY <1>14, <2>8, AnsweredParts
  <2>6. replies' \in Seq(Nat)
    <3>1. replies \in Seq(Nat)
      BY DEF TypeOK
    <3>2. Append(replies, Len(log[client.to]) + 1) \in Seq(Nat)
      BY <2>8, <3>1
    <3> QED BY <1>14, <3>1, <3>2, AnsweredParts
  <2>7. faults' \in 0 .. MaxFaults /\ retried' \in BOOLEAN
    BY <1>14, AnsweredParts, FaultType DEF TypeOK, Fault
  <2>5. pc' \in {"send", "block", "exit"} /\ todo' \in Seq(1 .. MaxCommands)
    BY <1>14, <2>1, AnsweredParts
  <2> QED BY <1>14, <2>3, <2>4, <2>5, <2>6, <2>7, AnsweredParts DEF TypeOK
<1>15. CASE Lost
  <2>1. todo[1] \in 1 .. MaxCommands /\ client.to \in DUTs
    BY <1>15, LostParts, NextCommand DEF TypeOK
  <2>2. log' \in [DUTs -> Seq(1 .. MaxCommands)] /\ lost' \subseteq 1 .. MaxCommands
    <3>1. log \in [DUTs -> Seq(1 .. MaxCommands)] /\ lost \subseteq 1 .. MaxCommands
      BY DEF TypeOK
    <3>2. [log EXCEPT ![client.to] = Append(@, todo[1])] \in [DUTs -> Seq(1 .. MaxCommands)]
      BY <2>1, <3>1, LogType
    <3> QED BY <1>15, <2>1, <3>1, <3>2, LostParts
  <2>3. faults' \in 0 .. MaxFaults
    BY <1>15, FaultType DEF Lost, TypeOK
  <2>4. client' \in [created : BOOLEAN, address : 0 .. MaxBlocks, to : DUTs \cup {None}]
    BY <1>15, LostParts DEF TypeOK
  <2> QED BY <1>15, <2>2, <2>3, <2>4, LostParts DEF TypeOK, checkVars
<1>16. CASE ReconnectSync
  <2>1. \A d \in Reached(client.address) : d \in DUTs
    BY DEF Reached, TypeOK
  <2>2. client' \in [created : BOOLEAN, address : 0 .. MaxBlocks, to : DUTs \cup {None}]
    BY <1>16, <2>1, ClientType DEF ReconnectSync, TypeOK
  <2>3. faults' \in 0 .. MaxFaults
    BY <1>16, FaultType DEF ReconnectSync, TypeOK
  <2> QED BY <1>16, <2>2, <2>3 DEF ReconnectSync, TypeOK, execVars, checkVars
<1> QED
  BY <1>1, <1>2, <1>3, <1>4, <1>5, <1>6, <1>7, <1>8, <1>9, <1>10, <1>11, <1>12, <1>13,
     <1>14, <1>15, <1>16 DEF Next, ExecutorStep, TestStep

-----------------------------------------------------------------------------
(* Tunnels, the client and the directories.                                *)

\* What the client may become.
LEMMA ClientFields ==
  ASSUME TypeOK, NEW d
  PROVE  /\ LET c == [client EXCEPT !.to = d] IN
            c.to = d /\ c.address = client.address /\ c.created = client.created
         /\ LET c == [client EXCEPT !.created = TRUE] IN
            c.to = client.to /\ c.address = client.address /\ c.created = TRUE
         /\ LET c == [client EXCEPT !.address = d] IN
            c.to = client.to /\ c.address = d /\ c.created = client.created
BY DEF TypeOK

\* Every step keeps tunnels and the client apart from those of other blocks.
LEMMA ConnectionStep ==
  ASSUME TypeOK, Tunnelled, Connected, Sending, [Next]_vars
  PROVE  Tunnelled' /\ Connected'
<1> USE DEF Tunnelled, Connected, Open
<1>0. /\ blocks \in Nat /\ \A t \in tunnels : t[1] \in Nat
      /\ \A d \in DUTs : d # None
  BY CommandAssumption DEF TypeOK
<1>1. CASE UNCHANGED vars
  BY <1>1 DEF vars, checkVars, execVars
<1>2. ASSUME NEW d \in DUTs, NewExecutor(d) PROVE Tunnelled' /\ Connected'
  <2>1. pc = "idle" /\ client.to = None
    BY <1>2 DEF NewExecutor
  <2> QED BY <1>0, <1>2, <2>1 DEF NewExecutor
<1>3. CASE Download
  BY <1>3 DEF Download
<1>4. ASSUME NEW n \in toscan, Scan(n) PROVE Tunnelled' /\ Connected'
  BY <1>4 DEF Scan
<1>5. CASE CreateClient
  <2>1. client'.to = client.to /\ pc' \in {"enter", "idle"} /\ pc = "scan"
    BY <1>5, ClientFields DEF CreateClient
  <2> QED BY <1>5, <2>1 DEF CreateClient
<1>6. CASE Enter
  <2>1. /\ pc = "enter" /\ client'.to = None
        /\ (pc' = "connect" /\ client'.address = blocks) \/ pc' = "idle"
    BY <1>6, ClientFields DEF Enter
  <2>2. \A t \in tunnels' : t[1] <= blocks /\ (t[1] = blocks => t[2] = node)
    BY <1>0, <1>6 DEF Enter
  <2> QED BY <1>6, <2>1, <2>2 DEF Enter
<1>7. CASE ConnectSync
  <2>1. \A d \in Reached(client.address) : d = node
    BY <1>7 DEF ConnectSync, Reached
  <2>2. /\ pc = "connect" /\ node \in DUTs
        /\ \/ pc' = "block" /\ client'.to = node /\ client'.address = client.address
           \/ pc' = "idle" /\ client'.to = None
    <3>1. \/ pc' = "block" /\ \E d \in Reached(client.address) : client' = [client EXCEPT !.to = d]
          \/ pc' = "idle" /\ client' = [client EXCEPT !.to = None]
      BY <1>7 DEF ConnectSync
    <3>2. \/ pc' = "block" /\ client' = [client EXCEPT !.to = node]
          \/ pc' = "idle" /\ client' = [client EXCEPT !.to = None]
      BY <2>1, <3>1
    <3>3. [client EXCEPT !.to = node].to = node /\ [client EXCEPT !.to = None].to = None
      BY ClientFields
    <3>4. [client EXCEPT !.to = node].address = client.address
      BY ClientFields
    <3>5. pc = "connect"
      BY <1>7 DEF ConnectSync
    <3> QED BY <3>2, <3>3, <3>4, <3>5
  <2> QED BY <1>0, <1>7, <2>2 DEF ConnectSync
<1>8. CASE Exit
  <2>1. pc' = "idle" /\ client'.to = None
    BY <1>8, ClientFields DEF Exit
  <2> QED BY <1>8, <2>1 DEF Exit
<1>9. ASSUME NEW t \in tunnels, TunnelEnds(t) PROVE Tunnelled' /\ Connected'
  BY <1>9 DEF TunnelEnds
<1>10. CASE LeaveBlock
  BY <1>10 DEF LeaveBlock
<1>11. ASSUME NEW n \in Commands, NEW h \in BOOLEAN, Add(n, h) PROVE Tunnelled' /\ Connected'
  <2>1. /\ pc = "block" /\ pc' \in {"block", "exit"}
        /\ UNCHANGED <<client, node, tunnels, blocks>>
    BY <1>11 DEF Add
  <2> QED BY <2>1
<1>12. CASE Execute
  BY <1>12 DEF Execute
<1>13. CASE NoSuchMessage
  BY <1>13 DEF NoSuchMessage
<1>14. CASE Answered
  <2>1. /\ pc = "send" /\ pc' \in {"send", "block", "exit"}
        /\ UNCHANGED <<client, node, tunnels, blocks>>
    BY <1>14 DEF Answered
  <2> QED BY <2>1
<1>15. CASE Lost
  <2>1. /\ pc = "send" /\ UNCHANGED <<node, tunnels, blocks>>
        /\ \/ pc' = "reconnect" /\ client'.to = None /\ client'.address = client.address
           \/ pc' = "exit" /\ client' = client
    BY <1>15, LostParts, ClientFields
  <2> QED BY <2>1
<1>16. CASE ReconnectSync
  <2>1. \A d \in Reached(client.address) : d = node
    BY <1>16 DEF ReconnectSync, Reached
  <2>2. /\ pc = "reconnect" /\ node \in DUTs
        /\ \/ pc' = "send" /\ client'.to = node /\ client'.address = client.address
           \/ pc' = "exit" /\ client' = client
    <3>1. \/ pc' = "send" /\ \E d \in Reached(client.address) : client' = [client EXCEPT !.to = d]
          \/ pc' = "exit" /\ client' = client
      BY <1>16 DEF ReconnectSync
    <3>2. \/ pc' = "send" /\ client' = [client EXCEPT !.to = node]
          \/ pc' = "exit" /\ client' = client
      BY <2>1, <3>1
    <3>3. [client EXCEPT !.to = node].to = node /\ [client EXCEPT !.to = None].to = None
      BY ClientFields
    <3>4. [client EXCEPT !.to = node].address = client.address
      BY ClientFields
    <3>5. pc = "reconnect"
      BY <1>16 DEF ReconnectSync
    <3> QED BY <3>2, <3>3, <3>4, <3>5
  <2> QED BY <1>0, <1>16, <2>2 DEF ReconnectSync
<1> QED
  BY <1>1, <1>2, <1>3, <1>4, <1>5, <1>6, <1>7, <1>8, <1>9, <1>10, <1>11, <1>12, <1>13,
     <1>14, <1>15, <1>16 DEF Next, ExecutorStep, TestStep

\* Cardinalities of the directories with and without that of the open block.
LEMMA DirectoryCount ==
  ASSUME TypeOK
  PROVE  /\ IsFiniteSet(dirs) /\ Cardinality(dirs) \in Nat
         /\ Cardinality(dirs \ {blocks}) \in Nat
         /\ Cardinality(dirs) <= Cardinality(dirs \ {blocks}) + 1
         /\ blocks \notin dirs => dirs \ {blocks} = dirs
         /\ Cardinality((dirs \cup {blocks}) \ {blocks}) <= Cardinality(dirs)
         /\ Cardinality(dirs \cup {blocks}) <= Cardinality(dirs) + 1
<1>1. IsFiniteSet(1 .. MaxBlocks)
  BY FS_Interval, BoundAssumption
<1>2. IsFiniteSet(dirs)
  BY <1>1, FS_Subset DEF TypeOK
<1>3. IsFiniteSet(dirs \ {blocks})
  BY <1>2, FS_Subset
<1>4. Cardinality(dirs) \in Nat /\ Cardinality(dirs \ {blocks}) \in Nat
  BY <1>2, <1>3, FS_CardinalityType
<1>5. Cardinality(dirs \cup {blocks}) =
        IF blocks \in dirs THEN Cardinality(dirs) ELSE Cardinality(dirs) + 1
  BY <1>2, FS_AddElement
<1>6. Cardinality(dirs \ {blocks}) =
        IF blocks \in dirs THEN Cardinality(dirs) - 1 ELSE Cardinality(dirs)
  BY <1>2, FS_RemoveElement
<1>7. (dirs \cup {blocks}) \ {blocks} = dirs \ {blocks}
  OBVIOUS
<1> QED BY <1>2, <1>4, <1>5, <1>6, <1>7

\* Every step keeps the count of the directories.
LEMMA DirectoriesStep ==
  ASSUME TypeOK, Connected, Directories, [Next]_vars
  PROVE  Directories'
<1> USE DEF Directories, Open
<1>0. /\ blocks \in Nat /\ faults \in Nat /\ \A b \in dirs : b \in Nat
  BY BoundAssumption DEF TypeOK
<1>1. CASE UNCHANGED vars
  BY <1>1 DEF vars, checkVars, execVars
<1>2. ASSUME NEW d \in DUTs, NewExecutor(d) PROVE Directories'
  BY <1>0, <1>2 DEF NewExecutor
<1>3. ASSUME dirs' = dirs, blocks' = blocks, faults' = faults \/ faults' = faults + 1,
             (pc \in Open) = (pc' \in Open)
      PROVE  Directories'
  BY <1>0, <1>3, DirectoryCount
<1>4. CASE Download
  BY <1>3, <1>4 DEF Download, Fault
<1>5. ASSUME NEW n \in toscan, Scan(n) PROVE Directories'
  BY <1>3, <1>5 DEF Scan
<1>6. CASE CreateClient
  BY <1>3, <1>6 DEF CreateClient, Fault
<1>7. CASE Enter
  <2>1. /\ dirs' = dirs \cup {blocks} /\ blocks' = blocks /\ pc = "enter"
        /\ \/ pc' = "connect" /\ faults' = faults
           \/ pc' = "idle" /\ faults' = faults + 1
    BY <1>7 DEF Enter, Fault
  <2>2. /\ Cardinality(dirs) <= faults /\ Cardinality(dirs) \in Nat
        /\ Cardinality(dirs' \ {blocks}) <= Cardinality(dirs)
        /\ Cardinality(dirs') <= Cardinality(dirs) + 1
        /\ Cardinality(dirs' \ {blocks}) \in Nat /\ Cardinality(dirs') \in Nat
    <3>1. IsFiniteSet(dirs') /\ IsFiniteSet(dirs' \ {blocks})
      BY <2>1, DirectoryCount, FS_AddElement, FS_Subset
    <3> QED BY <2>1, <3>1, DirectoryCount, FS_CardinalityType
  <2>3. \A b \in dirs' : b <= blocks
    BY <1>0, <2>1
  <2> QED BY <1>0, <2>1, <2>2, <2>3
<1>8. CASE ConnectSync
  <2>1. CASE pc' = "block"
    BY <1>3, <1>8, <2>1 DEF ConnectSync, Fault
  <2>2. CASE pc' # "block"
    <3>1. /\ dirs' = dirs /\ blocks' = blocks /\ pc = "connect" /\ pc' = "idle"
          /\ faults' = faults + 1
      BY <1>8, <2>2 DEF ConnectSync, Fault
    <3> QED BY <1>0, <3>1, DirectoryCount
  <2> QED BY <2>1, <2>2
<1>9. CASE Exit
  <2>1. /\ dirs' = dirs \ {blocks} /\ blocks' = blocks /\ pc = "exit" /\ pc' = "idle"
        /\ faults' = faults
    BY <1>9 DEF Exit
  <2> QED BY <1>0, <2>1
<1>10. ASSUME NEW t \in tunnels, TunnelEnds(t) PROVE Directories'
  BY <1>3, <1>10 DEF TunnelEnds
<1>11. CASE LeaveBlock \/ Execute \/ NoSuchMessage
  BY <1>3, <1>11 DEF LeaveBlock, Execute, NoSuchMessage
<1>12. ASSUME NEW n \in Commands, NEW h \in BOOLEAN, Add(n, h) PROVE Directories'
  <2>1. /\ dirs' = dirs /\ blocks' = blocks /\ faults' = faults
        /\ pc = "block" /\ pc' \in {"block", "exit"}
    BY <1>12 DEF Add
  <2> QED BY <1>3, <2>1
<1>13. CASE Answered
  <2>1. /\ dirs' = dirs /\ blocks' = blocks /\ (faults' = faults \/ faults' = faults + 1)
        /\ pc = "send" /\ pc' \in {"send", "block", "exit"}
    BY <1>13 DEF Answered, Fault
  <2> QED BY <1>3, <2>1
<1>14. CASE Lost
  <2>1. /\ dirs' = dirs /\ blocks' = blocks /\ faults' = faults + 1
        /\ pc = "send" /\ pc' \in {"reconnect", "exit"}
    BY <1>14 DEF Lost, Fault, Reconnect, GiveUp
  <2> QED BY <1>3, <2>1
<1>15. CASE ReconnectSync
  BY <1>3, <1>15 DEF ReconnectSync, Fault
<1> QED
  BY <1>1, <1>2, <1>4, <1>5, <1>6, <1>7, <1>8, <1>9, <1>10, <1>11, <1>12, <1>13,
     <1>14, <1>15 DEF Next, ExecutorStep, TestStep

-----------------------------------------------------------------------------
(* The checker.                                                            *)

\* A message of the build that a fitting collection has is never complained
\* about, and the collection stays.
LEMMA FittingName ==
  ASSUME NEW s \in Checkers, build \in Builds, NEW c \in s.expected, NEW n \in Used,
         Fits(c, build, Used), Present \subseteq s.found
  PROVE  ~unmatched(s, n, build) /\ c \in KnowingName(s, n) /\ n \in Names
<1>1. n \in Names
  BY NamesOf DEF Used
<1>2. build[n] # None /\ Known[c][n] = build[n]
  BY DEF Fits
<1>3. n \in s.found
  BY <1>1, <1>2 DEF Present
<1>4. c \in KnowingName(s, n)
  BY <1>1, <1>2, Knowing
<1> QED BY <1>1, <1>2, <1>3, <1>4 DEF unmatched, matching

\* A name that is not complained about was reported before, or its checksum is
\* in a collection.
LEMMA AcceptedName ==
  ASSUME NEW s \in Checkers, build \in Builds, NEW n \in Names, s.found \subseteq Present,
         ~unmatched(s, n, build)
  PROVE  n \in s.reported \/ Verified(n, build)
<1>1. CASE n \notin s.reported
  <2>1. n \in s.found /\ \E c \in KnowingName(s, n) : Known[c][n] = build[n]
    BY <1>1 DEF unmatched, matching
  <2>2. KnowingName(s, n) \subseteq Collections
    BY Knowing DEF Checkers
  <2> QED BY <2>1, <2>2 DEF Verified, Present
<1> QED BY <1>1

\* Checking a name finds no message.
LEMMA CheckFindsNothing ==
  ASSUME TypeOK
  PROVE  \A n \in Names : check_api_name(crc, n, build).found = crc.found
<1>1. crc \in Checkers /\ build \in Builds
  BY DEF TypeOK
<1> TAKE n \in Names
<1> QED BY <1>1, CheckApiName

\* Every step keeps what the checker has found complete.
LEMMA ScannedStep ==
  ASSUME TypeOK, Connected, Scanned, Sending, [Next]_vars
  PROVE  Scanned'
<1> USE DEF Scanned, Open
<1>0. build' = build => Present' = Present
  BY DEF Present
<1>a. ASSUME crc'.found = crc.found, toscan' = toscan, client'.created = client.created,
             build' = build, pc \in Open \cup {"enter"}, pc' \in Open \cup {"idle"}
      PROVE  Scanned'
  BY <1>0, <1>a
<1>1. CASE UNCHANGED vars
  BY <1>0, <1>1 DEF vars, checkVars, execVars
<1>2. ASSUME NEW d \in DUTs, NewExecutor(d) PROVE Scanned'
  BY <1>0, <1>2 DEF NewExecutor, checkVars
<1>3. CASE Download
  <2>1. /\ build' = build /\ client' = client /\ pc = "download"
        /\ \/ crc' = NewChecker /\ toscan' = Present /\ pc' = "scan"
           \/ pc' = "idle" /\ crc' = crc /\ toscan' = toscan
    BY <1>3 DEF Download, Present
  <2>2. NewChecker.found = {} /\ NewChecker.initial = FALSE
    BY DEF NewChecker
  <2> QED BY <1>0, <2>1, <2>2
<1>4. ASSUME NEW n \in toscan, Scan(n) PROVE Scanned'
  <2>1. n \in Names
    BY DEF TypeOK
  <2>2. crc'.found = crc.found \cup {n} /\ crc'.initial = crc.initial
    <3>1. crc \in Checkers /\ build \in Builds /\ crc' = process_crc(crc, n, build)
      BY <1>4 DEF Scan, TypeOK
    <3>2. LET t == process_crc(crc, n, build) IN
          t.found = crc.found \cup {n} /\ t.initial = crc.initial
      BY <2>1, <3>1, ProcessCrc
    <3> QED BY <3>1, <3>2
  <2>3. build' = build /\ toscan' = toscan \ {n} /\ client' = client /\ pc' = pc /\ pc = "scan"
    BY <1>4 DEF Scan
  <2> QED BY <1>0, <2>2, <2>3
<1>5. CASE CreateClient
  <2>1. /\ build' = build /\ crc' = crc /\ toscan' = {} /\ pc = "scan" /\ toscan = {}
        /\ \/ pc' = "enter" /\ client'.created = TRUE
           \/ pc' = "idle" /\ client' = client
    BY <1>5, ClientFields DEF CreateClient, checkVars
  <2> QED BY <1>0, <2>1
<1>6. CASE Enter
  BY <1>a, <1>6, ClientFields DEF Enter, checkVars
<1>7. CASE ConnectSync
  <2>1. client'.created = client.created
    <3>1. \E d : client' = [client EXCEPT !.to = d]
      BY <1>7 DEF ConnectSync
    <3> QED BY <3>1, ClientFields
  <2> QED BY <1>a, <1>7, <2>1 DEF ConnectSync, checkVars
<1>8. CASE Exit
  BY <1>a, <1>8, ClientFields DEF Exit, checkVars
<1>9. ASSUME NEW t \in tunnels, TunnelEnds(t) PROVE Scanned'
  BY <1>0, <1>9 DEF TunnelEnds, checkVars
<1>10. CASE LeaveBlock \/ Execute \/ NoSuchMessage
  BY <1>a, <1>10 DEF LeaveBlock, Execute, NoSuchMessage, checkVars
<1>11. ASSUME NEW n \in Commands, NEW h \in BOOLEAN, Add(n, h) PROVE Scanned'
  <2> DEFINE start == report_initial_conflicts(crc)
  <2>1. /\ build' = build /\ toscan' = toscan /\ client' = client
        /\ pc = "block" /\ pc' \in {"block", "exit"}
        /\ crc' = start \/ crc' = check_api_name(start, n, build)
    BY <1>11 DEF Add
  <2>2. start \in Checkers /\ start.found = crc.found
    BY ReportInitial DEF TypeOK
  <2>3. check_api_name(start, n, build).found = start.found
    BY <2>2, NamesOf, CheckApiName DEF TypeOK
  <2> HIDE DEF start
  <2> QED BY <1>a, <2>1, <2>2, <2>3
<1>12. CASE Answered
  <2>1. crc'.found = crc.found
    <3> DEFINE r == ReplyOf[names[todo[1]]]
    <3>1. r \in Names /\ crc' = check_api_name(crc, r, build)
      BY <1>12, AnsweredParts
    <3> QED BY <3>1, CheckFindsNothing
  <2>2. pc = "send" /\ pc' \in {"block", "send", "exit"}
    BY <1>12, AnsweredParts
  <2> QED BY <1>a, <1>12, <2>1, <2>2, AnsweredParts
<1>13. CASE Lost
  <2>1. client'.created = client.created
    <3>1. client' = [client EXCEPT !.to = None] \/ client' = client
      BY <1>13, LostParts
    <3>2. [client EXCEPT !.to = None].created = client.created
      BY ClientFields
    <3> QED BY <3>1, <3>2
  <2>2. /\ pc = "send" /\ pc' \in {"reconnect", "exit"}
        /\ crc' = crc /\ toscan' = toscan /\ build' = build
    BY <1>13, LostParts DEF checkVars
  <2> QED BY <1>a, <2>1, <2>2
<1>14. CASE ReconnectSync
  <2>1. client'.created = client.created
    <3>1. client' = client \/ \E d : client' = [client EXCEPT !.to = d]
      BY <1>14 DEF ReconnectSync
    <3>2. ASSUME NEW d, client' = [client EXCEPT !.to = d] PROVE client'.created = client.created
      <4>1. [client EXCEPT !.to = d].created = client.created
        BY ClientFields
      <4> QED BY <3>2, <4>1
    <3> QED BY <3>1, <3>2
  <2> QED BY <1>a, <1>14, <2>1 DEF ReconnectSync, checkVars
<1> QED
  BY <1>1, <1>2, <1>3, <1>4, <1>5, <1>6, <1>7, <1>8, <1>9, <1>10, <1>11, <1>12, <1>13,
     <1>14 DEF Next, ExecutorStep, TestStep

\* The steps that change what the checker remembers or what was told.
LEMMA CheckerActions ==
  ASSUME [Next]_vars
  PROVE  \/ UNCHANGED <<build, crc, told>>
         \/ Download \/ (\E n \in toscan : Scan(n)) \/ (\E n \in Commands, h \in BOOLEAN : Add(n, h)) \/ Answered
<1>1. CASE UNCHANGED vars
  BY <1>1 DEF vars, checkVars
<1>2. CASE Next
  <2>1. CASE CreateClient \/ Enter \/ ConnectSync \/ Exit \/ NoSuchMessage \/ Lost \/ ReconnectSync
    BY <2>1 DEF CreateClient, Enter, ConnectSync, Exit, NoSuchMessage, Lost, ReconnectSync, checkVars
  <2>2. CASE (\E d \in DUTs : NewExecutor(d)) \/ Execute \/ LeaveBlock
    BY <2>2 DEF NewExecutor, Execute, LeaveBlock, checkVars
  <2>3. CASE \E t \in tunnels : TunnelEnds(t)
    BY <2>3 DEF TunnelEnds, checkVars
  <2> QED BY <1>2, <2>1, <2>2, <2>3 DEF Next, ExecutorStep, TestStep
<1> QED BY <1>1, <1>2

\* Every step tells what the checker remembers, and forgets nothing told.
LEMMA RaisedStep ==
  ASSUME TypeOK, Scanned, Raised, Sending, [Next]_vars
  PROVE  Raised' /\ (\A n \in told : n \in told') /\ build' = build
<1> USE DEF Raised
<1>1. CASE UNCHANGED <<build, crc, told>>
  BY <1>1
<1>2. CASE Download
  <2>1. NewChecker.initial = FALSE
    BY DEF NewChecker
  <2> QED BY <1>2, <2>1 DEF Download
<1>3. ASSUME NEW n \in toscan, Scan(n) PROVE Raised' /\ told' = told /\ build' = build
  <2>1. n \in Names
    BY DEF TypeOK
  <2>2. crc'.initial = crc.initial
    BY <1>3, <2>1, ProcessCrc DEF Scan, TypeOK
  <2>3. ~crc.initial
    BY <1>3 DEF Scan, Scanned
  <2> QED BY <1>3, <2>2, <2>3 DEF Scan
<1>4. ASSUME NEW n \in Commands, NEW h \in BOOLEAN, Add(n, h)
      PROVE  Raised' /\ told \subseteq told' /\ build' = build
  <2> DEFINE start == report_initial_conflicts(crc)
             early == initial_conflicts(crc)
             late  == IF unmatched(start, n, build) THEN {n} ELSE {}
  <2>1. /\ build' = build
        /\ \/ told' = told \cup early /\ crc' = start
           \/ told' = told \cup early \cup late /\ crc' = check_api_name(start, n, build)
    BY <1>4 DEF Add
  <2>2. start \in Checkers /\ start.reported \subseteq told
    BY ReportInitial DEF TypeOK
  <2>3. check_api_name(start, n, build).reported =
          IF unmatched(start, n, build) THEN start.reported \cup {n} ELSE start.reported
    <3>1. n \in Names /\ build \in Builds
      BY NamesOf DEF TypeOK
    <3> HIDE DEF start
    <3> QED BY <2>2, <3>1, CheckApiName
  <2>4. check_api_name(start, n, build).reported \subseteq told \cup late
    BY <2>2, <2>3
  <2> HIDE DEF start, early, late
  <2> QED BY <2>1, <2>2, <2>4
<1>5. CASE Answered
  <2> DEFINE r == ReplyOf[names[todo[1]]]
  <2>1. /\ build' = build /\ crc' = check_api_name(crc, r, build) /\ r \in Names
        /\ told' = IF unmatched(crc, r, build) THEN told \cup {r} ELSE told
    BY <1>5, AnsweredParts
  <2> HIDE DEF r
  <2>2. /\ crc'.initial = crc.initial
        /\ crc'.reported = IF unmatched(crc, r, build) THEN crc.reported \cup {r}
                           ELSE crc.reported
    BY <2>1, CheckApiName DEF TypeOK
  <2> QED BY <2>1, <2>2
<1> QED BY <1>1, <1>2, <1>3, <1>4, <1>5, CheckerActions DEF Download

\* No step drops a fitting collection.
LEMMA FittingStep ==
  ASSUME TypeOK, Connected, Scanned, Fitting, Sending, [Next]_vars
  PROVE  Fitting'
<1> SUFFICES ASSUME NEW c \in Collections, Fits(c, build, Used)', build' = build
             PROVE  c \in crc'.expected /\ crc'.reported = {} /\ told' = {}
  <2>1. build' = build
    BY CheckerActions DEF Download, Scan, Add, Answered
  <2> QED BY <2>1 DEF Fitting
<1>0. /\ Fits(c, build, Used)
      /\ c \in crc.expected /\ crc.reported = {} /\ told = {}
  <2>1. Fits(c, build, Used)
    BY DEF Fits, Used
  <2> QED BY <2>1 DEF Fitting
<1>1. CASE UNCHANGED <<build, crc, told>>
  BY <1>0, <1>1
<1>2. CASE Download
  <2>1. NewChecker.expected = Collections /\ NewChecker.reported = {}
    BY DEF NewChecker
  <2> QED BY <1>0, <1>2, <2>1 DEF Download
<1>3. ASSUME NEW n \in toscan, Scan(n)
      PROVE  c \in crc'.expected /\ crc'.reported = {} /\ told' = {}
  <2> DEFINE kept == {k \in crc.expected : Known[k][n] \in {None, build[n]}}
  <2>1. n \in Names /\ build[n] # None
    BY DEF TypeOK, Scanned, Present
  <2>2. c \in kept
    BY <1>0, <2>1 DEF Fits
  <2>3. process_crc(crc, n, build).expected = kept /\ process_crc(crc, n, build).reported = {}
    <3>1. crc \in Checkers /\ build \in Builds /\ kept # {}
      BY <2>2 DEF TypeOK
    <3> QED BY <1>0, <2>1, <3>1, ProcessCrc
  <2> HIDE DEF kept
  <2> QED BY <1>0, <1>3, <2>2, <2>3 DEF Scan
<1>4. ASSUME NEW n \in Commands, NEW h \in BOOLEAN, Add(n, h)
      PROVE  c \in crc'.expected /\ crc'.reported = {} /\ told' = {}
  <2> DEFINE start == report_initial_conflicts(crc)
             early == initial_conflicts(crc)
             late  == IF unmatched(start, n, build) THEN {n} ELSE {}
  <2>1. \/ told' = told \cup early /\ crc' = start
        \/ told' = told \cup early \cup late /\ crc' = check_api_name(start, n, build)
    BY <1>4 DEF Add
  <2>2. /\ start \in Checkers /\ start.reported = {} /\ early = {}
        /\ start.expected = crc.expected /\ start.found = crc.found
    BY <1>0, ReportInitial DEF TypeOK
  <2>3. Present \subseteq start.found
    BY <1>4, <2>2 DEF Add, Scanned, Open
  <2>4. ~unmatched(start, n, build) /\ c \in KnowingName(start, n) /\ n \in Names
    <3>1. n \in Used /\ c \in start.expected
      BY <1>0, <2>2 DEF Used
    <3> QED BY <1>0, <2>2, <2>3, <3>1, FittingName DEF TypeOK
  <2>5. LET t == check_api_name(start, n, build) IN t.expected = KnowingName(start, n) /\ t.reported = {}
    <3>1. build \in Builds /\ n \notin start.reported
      BY <2>2 DEF TypeOK
    <3> HIDE DEF start, early, late
    <3> QED BY <2>2, <2>4, <3>1, CheckApiName
  <2>6. late = {}
    BY <2>4
  <2> HIDE DEF start, early, late
  <2> QED BY <1>0, <2>1, <2>2, <2>4, <2>5, <2>6
<1>5. CASE Answered
  <2> DEFINE r == ReplyOf[names[todo[1]]]
  <2>1. /\ crc' = check_api_name(crc, r, build) /\ pc = "send"
        /\ told' = IF unmatched(crc, r, build) THEN told \cup {r} ELSE told
    BY <1>5, AnsweredParts
  <2>2. r \in Used
    BY <2>1, NextCommand DEF Used
  <2> HIDE DEF r
  <2>3. Present \subseteq crc.found
    BY <2>1 DEF Scanned, Open
  <2>4. ~unmatched(crc, r, build) /\ c \in KnowingName(crc, r) /\ r \in Names
    BY <1>0, <2>2, <2>3, FittingName DEF TypeOK
  <2>5. crc'.expected = KnowingName(crc, r) /\ crc'.reported = {}
    BY <1>0, <2>1, <2>4, CheckApiName DEF TypeOK
  <2> QED BY <1>0, <2>1, <2>4, <2>5
<1> QED BY <1>1, <1>2, <1>3, <1>4, <1>5, CheckerActions

-----------------------------------------------------------------------------
(* The lists of commands and what the VPPs execute.                        *)

\* How often a command was executed is a number, zero if it was not.
LEMMA TimesType ==
  ASSUME TypeOK, NEW d \in DUTs, NEW id
  PROVE  /\ Times(id, d) \in Nat
         /\ (\A i \in DOMAIN log[d] : log[d][i] # id) => Times(id, d) = 0
<1> DEFINE S == {i \in DOMAIN log[d] : log[d][i] = id}
<1>1. IsFiniteSet(S)
  <2>1. log[d] \in Seq(1 .. MaxCommands)
    BY DEF TypeOK
  <2>2. DOMAIN log[d] = 1 .. Len(log[d]) /\ Len(log[d]) \in Nat
    BY <2>1
  <2>3. IsFiniteSet(1 .. Len(log[d]))
    <3>1. Len(log[d]) \in Int /\ 1 \in Int
      BY <2>2
    <3> HIDE DEF S
    <3> QED BY <3>1, FS_Interval
  <2>4. S \subseteq 1 .. Len(log[d])
    BY <2>2
  <2> HIDE DEF S
  <2> QED BY <2>3, <2>4, FS_Subset
<1>2. (\A i \in DOMAIN log[d] : log[d][i] # id) => S = {}
  OBVIOUS
<1>3. Times(id, d) = Cardinality(S)
  BY DEF Times
<1> HIDE DEF S
<1> QED BY <1>1, <1>2, <1>3, FS_CardinalityType, FS_EmptySet

\* A command x is appended to the log of the DUT d.
Grows(d, x) == log' = [log EXCEPT ![d] = Append(@, x)]

\* What that does to the log and to the numbers of executions.
LEMMA LogGrows ==
  ASSUME TypeOK, NEW d \in DUTs, NEW x \in 1 .. MaxCommands, Grows(d, x), NEW n, n = Len(log[d])
  PROVE  /\ n \in Nat /\ DOMAIN log[d] = 1 .. n /\ DOMAIN log'[d] = 1 .. (n + 1)
         /\ log'[d][n + 1] = x
         /\ \A i \in 1 .. n : log'[d][i] = log[d][i]
         /\ \A e \in DUTs : e # d => log'[e] = log[e]
         /\ Times(x, d)' = Times(x, d) + 1
         /\ \A y : y # x => Times(y, d)' = Times(y, d)
         /\ \A e \in DUTs : \A y : e # d => Times(y, e)' = Times(y, e)
<1>1. log[d] \in Seq(1 .. MaxCommands) /\ log \in [DUTs -> Seq(1 .. MaxCommands)]
  BY DEF TypeOK
<1>2. log'[d] = Append(log[d], x) /\ \A e \in DUTs : e # d => log'[e] = log[e]
  BY <1>1 DEF Grows
<1>3. /\ n \in Nat /\ DOMAIN log[d] = 1 .. n /\ DOMAIN log'[d] = 1 .. (n + 1)
      /\ log'[d][n + 1] = x
      /\ \A i \in 1 .. n : log'[d][i] = log[d][i]
  BY <1>1, <1>2
<1> DEFINE S(y) == {i \in DOMAIN log[d] : log[d][i] = y}
           T(y) == {i \in DOMAIN log'[d] : log'[d][i] = y}
<1>4. \A y : Times(y, d) = Cardinality(S(y)) /\ Times(y, d)' = Cardinality(T(y))
  BY DEF Times
<1>5. \A y : y # x => T(y) = S(y)
  BY <1>3
<1>6. T(x) = S(x) \cup {n + 1} /\ n + 1 \notin S(x)
  BY <1>3
<1>7. IsFiniteSet(S(x))
  <2>1. IsFiniteSet(1 .. n)
    BY <1>3, FS_Interval
  <2>2. S(x) \subseteq 1 .. n
    BY <1>3
  <2> HIDE DEF S
  <2> QED BY <2>1, <2>2, FS_Subset
<1>8. \A e \in DUTs : \A y : e # d => Times(y, e)' = Times(y, e)
  BY <1>2 DEF Times
<1> HIDE DEF S, T
<1>9. Cardinality(T(x)) = Cardinality(S(x)) + 1
  BY <1>6, <1>7, FS_AddElement
<1>10. \A y : y # x => Times(y, d)' = Times(y, d)
  BY <1>4, <1>5
<1>11. Times(x, d)' = Times(x, d) + 1
  BY <1>4, <1>9
<1> QED BY <1>2, <1>3, <1>8, <1>10, <1>11

\* What the properties say of one command in the log of a DUT.
Explained(d, id) ==
  /\ id \in DOMAIN names /\ target[id] = d
  /\ Listed(d, id)
  /\ Times(id, d) <= IF id \in lost THEN 2 ELSE 1
  /\ Approved(names[id])

Recorded ==
  \A d \in DUTs :
    /\ \A i, j \in DOMAIN log[d] : i < j => log[d][i] <= log[d][j]
    /\ \A i \in DOMAIN log[d] : \A id : id = log[d][i] => Explained(d, id)

\* Together they are the properties.
LEMMA RecordedMeans == Recorded <=> Executed /\ ExecutedAsRecorded /\ UnverifiedTold
BY DEF Recorded, Explained, Listed, Approved, Executed, ExecutedAsRecorded, UnverifiedTold

\* Nothing that was recorded or told is forgotten.
Remembered ==
  /\ build' = build /\ told \subseteq told' /\ lost \subseteq lost'
  /\ \A id \in DOMAIN names :
       id \in DOMAIN names' /\ names'[id] = names[id] /\ target'[id] = target[id]
  /\ \A d \in DUTs : \A id : Listed(d, id) => Listed(d, id)'

\* A command that may be sent is not disapproved later.
LEMMA ApprovedStays ==
  ASSUME Remembered, NEW id \in DOMAIN names, Approved(names[id])
  PROVE  Approved(names[id])'
BY DEF Remembered, Approved, Verified

\* A command that may be sent may be sent until the block is left.
LEMMA ReadyStays ==
  ASSUME Remembered, node \in DUTs, node' = node, NEW id, Ready(id)
  PROVE  Ready(id)'
<1>1. Approved(names[id])'
  BY ApprovedStays DEF Ready
<1> QED BY <1>1 DEF Ready, Remembered

\* So may a list of them.
LEMMA SendableStays ==
  ASSUME Remembered, node \in DUTs, node' = node, NEW s, Sendable(s)
  PROVE  Sendable(s)'
BY ReadyStays DEF Sendable

\* An executed command stays explained.
LEMMA ExplainedStays ==
  ASSUME TypeOK, Remembered, NEW d \in DUTs, NEW id,
         Explained(d, id), Times(id, d)' = Times(id, d)
  PROVE  Explained(d, id)'
<1>1. Times(id, d) \in Nat
  BY TimesType
<1>2. /\ id \in DOMAIN names' /\ target'[id] = d
      /\ Listed(d, id)'
  BY DEF Remembered, Explained
<1>3. Times(id, d)' <= IF id \in lost' THEN 2 ELSE 1
  BY <1>1 DEF Remembered, Explained
<1>4. Approved(names[id])'
  BY ApprovedStays DEF Explained
<1> QED BY <1>2, <1>3, <1>4 DEF Explained

\* Nothing is executed.
LEMMA RecordedKept ==
  ASSUME TypeOK, Recorded, Remembered, log' = log
  PROVE  Recorded'
<1>1. \A d \in DUTs : \A id : Times(id, d)' = Times(id, d)
  BY DEF Times
<1>2. \A d \in DUTs : \A i \in DOMAIN log[d] : \A id : id = log[d][i] => Explained(d, id)'
  BY <1>1, ExplainedStays DEF Recorded
<1> QED BY <1>2 DEF Recorded

\* The elements of a sequence.
LEMMA ElementsOf ==
  ASSUME NEW S, NEW s \in Seq(S)
  PROVE  /\ \A i \in DOMAIN s : s[i] \in S
         /\ Len(s) \in Nat /\ DOMAIN s = 1 .. Len(s)
OBVIOUS

\* The DUT of the executor executes the first of the commands to be sent.
LEMMA RecordedGrows ==
  ASSUME TypeOK, Recorded, Remembered, Sending, pc = "send", NEW d \in DUTs, d = node,
         NEW x, x = todo[1], Grows(d, x)
  PROVE  /\ Recorded'
         /\ \A i \in DOMAIN log'[d] : log'[d][i] <= x
         /\ ~retried => Times(x, d)' = 1
<1>1. x \in 1 .. MaxCommands /\ x \in DOMAIN names /\ 1 \in DOMAIN todo
  BY NextCommand
<1> PICK n : n = Len(log[d])
  OBVIOUS
<1>2. /\ n \in Nat /\ DOMAIN log[d] = 1 .. n /\ DOMAIN log'[d] = 1 .. (n + 1)
      /\ log'[d][n + 1] = x
      /\ \A i \in 1 .. n : log'[d][i] = log[d][i]
      /\ \A e \in DUTs : e # d => log'[e] = log[e]
      /\ Times(x, d)' = Times(x, d) + 1
      /\ \A y : y # x => Times(y, d)' = Times(y, d)
      /\ \A e \in DUTs : \A y : e # d => Times(y, e)' = Times(y, e)
  BY <1>1, LogGrows
<1>3. \A i \in 1 .. n : log[d][i] < x \/ (retried /\ log[d][i] = x)
  BY <1>2 DEF Sending
<1>4. \A i \in 1 .. n : log[d][i] \in Nat
  <2>1. log[d] \in Seq(1 .. MaxCommands)
    BY DEF TypeOK
  <2>2. \A i \in DOMAIN log[d] : log[d][i] \in 1 .. MaxCommands
    BY <2>1, ElementsOf
  <2> QED BY <1>2, <2>2
<1>5. \A i \in 1 .. (n + 1) : log'[d][i] <= x
  <2>1. \A i \in 1 .. n : log'[d][i] <= x
    BY <1>1, <1>2, <1>3, <1>4
  <2>2. \A i \in 1 .. (n + 1) : i \in 1 .. n \/ i = n + 1
    BY <1>2
  <2> QED BY <1>1, <1>2, <2>1, <2>2
<1>6. ~retried => Times(x, d) = 0
  <2>1. ~retried => \A i \in DOMAIN log[d] : log[d][i] # x
    BY <1>1, <1>2, <1>3, <1>4
  <2> QED BY <2>1, TimesType
<1>7. Times(x, d)' <= IF x \in lost' THEN 2 ELSE 1
  <2>1. Times(x, d) \in Nat
    BY TimesType
  <2>2. CASE retried
    BY <1>2, <2>1, <2>2 DEF Sending, Remembered
  <2>3. CASE ~retried
    BY <1>2, <1>6, <2>3
  <2> QED BY <2>2, <2>3
<1>8. Explained(d, x)'
  <2>1. Ready(x)
    BY <1>1 DEF Sending, Sendable
  <2>2. Approved(names[x])'
    BY <1>1, <2>1, ApprovedStays DEF Ready
  <2>3. /\ x \in DOMAIN names' /\ target'[x] = d
        /\ Listed(d, x)'
    BY <1>1, <2>1 DEF Ready, Remembered
  <2> QED BY <1>7, <2>2, <2>3 DEF Explained
<1>9. \A i \in 1 .. n : \A id : id = log[d][i] => Explained(d, id)'
  BY <1>2, <1>8, ExplainedStays DEF Recorded
<1>10. \A i \in DOMAIN log'[d] : \A id : id = log'[d][i] => Explained(d, id)'
  BY <1>2, <1>8, <1>9
<1>11. \A i, j \in DOMAIN log'[d] : i < j => log'[d][i] <= log'[d][j]
  <2>1. \A i, j \in 1 .. n : i < j => log[d][i] <= log[d][j]
    BY <1>2 DEF Recorded
  <2> QED BY <1>2, <1>5, <2>1
<1>12. \A e \in DUTs : e # d =>
         /\ \A i, j \in DOMAIN log'[e] : i < j => log'[e][i] <= log'[e][j]
         /\ \A i \in DOMAIN log'[e] : \A id : id = log'[e][i] => Explained(e, id)'
  BY <1>2, ExplainedStays DEF Recorded
<1>13. Recorded'
  BY <1>10, <1>11, <1>12 DEF Recorded
<1> QED BY <1>2, <1>5, <1>6, <1>13

\* The lists of commands as they are while a block is open.
Lists == Queued /\ Sending /\ Replied

\* Steps that neither add nor execute commands.
LEMMA ListsKept ==
  ASSUME TypeOK, Connected, Lists, Recorded, Remembered,
         UNCHANGED <<node, queue, todo, retried, replies, log, lost>>,
         pc' \in Preparing \cup {"connect"} => pc \in Preparing \cup {"connect"},
         pc' \in {"send", "reconnect"} => pc \in {"send", "reconnect"},
         pc' = "block" => pc \in {"block", "connect"}
  PROVE  Lists' /\ Recorded'
<1>1. Recorded'
  BY RecordedKept
<1>2. Sendable(<<>>)'
  BY DEF Sendable
<1>3. Queued'
  <2>1. pc' = "block" => node \in DUTs
    BY DEF Connected
  <2>2. pc = "block" /\ pc' = "block" => Sendable(queue)'
    BY <2>1, SendableStays DEF Lists, Queued
  <2>3. pc' = "block" => Sendable(queue)'
    BY <1>2, <2>2 DEF Lists, Queued, Preparing
  <2>4. pc' = "block" => \A i \in DOMAIN log[node] : \A k \in DOMAIN queue : log[node][i] < queue[k]
    BY DEF Lists, Queued, Preparing
  <2> QED BY <2>3, <2>4 DEF Lists, Queued, Preparing
<1>4. Sending'
  <2>1. CASE pc' \in {"send", "reconnect"}
    <3>1. Sendable(todo)' /\ node \in DUTs
      BY <2>1, SendableStays DEF Lists, Sending, Connected
    <3>2. Times(todo[1], node)' = Times(todo[1], node)
      BY DEF Times
    <3> QED BY <2>1, <3>1, <3>2 DEF Lists, Sending
  <2> QED BY <2>1 DEF Sending
<1>5. Replied'
  BY DEF Lists, Replied, Queued, Preparing
<1> QED BY <1>1, <1>3, <1>4, <1>5 DEF Lists
\* A new executor starts with empty lists.
LEMMA NewExecutorLists ==
  ASSUME TypeOK, Recorded, NEW d \in DUTs, NewExecutor(d)
  PROVE  Lists' /\ Recorded'
<1>1. Remembered /\ log' = log
  BY DEF NewExecutor, Remembered, Listed, checkVars
<1>2. Recorded'
  BY <1>1, RecordedKept
<1>3. queue' = <<>> /\ replies' = <<>> /\ pc' \in {"enter", "download"}
  BY DEF NewExecutor
<1> QED BY <1>2, <1>3 DEF Lists, Queued, Sending, Replied

\* The commands of the list are those to be sent.
LEMMA ExecuteLists ==
  ASSUME TypeOK, Connected, Lists, Recorded, Execute
  PROVE  Lists' /\ Recorded'
<1>1. Remembered /\ log' = log
  BY DEF Execute, Remembered, Listed, checkVars
<1>2. Recorded'
  BY <1>1, RecordedKept
<1>3. /\ pc = "block" /\ pc' = "send" /\ node' = node /\ queue # <<>>
      /\ todo' = queue /\ queue' = <<>> /\ replies' = <<>> /\ retried' = FALSE
  BY DEF Execute
<1>4. 1 \in DOMAIN queue
  BY <1>3 DEF TypeOK
<1>5. /\ \A i \in DOMAIN log[node] : log[node][i] < queue[1]
      /\ Sendable(queue) /\ node \in DUTs
  BY <1>3, <1>4 DEF Lists, Queued, Connected
<1>6. Sendable(todo)'
  <2>1. \A s : Sendable(s) => Sendable(s)'
    BY <1>1, <1>3, <1>5, SendableStays
  <2>2. PICK s : s = queue
    OBVIOUS
  <2>3. Sendable(s)' /\ s = todo'
    BY <1>3, <1>5, <2>1, <2>2
  <2> QED BY <2>3 DEF Sendable
<1>7. Times(todo[1], node)' <= 1
  <2>1. \A i \in DOMAIN log[node] : log[node][i] # queue[1]
    <3>1. log[node] \in Seq(1 .. MaxCommands) /\ queue \in Seq(1 .. MaxCommands)
      BY <1>5 DEF TypeOK
    <3>2. queue[1] \in 1 .. MaxCommands /\ \A i \in DOMAIN log[node] : log[node][i] \in 1 .. MaxCommands
      BY <1>4, <3>1, ElementsOf
    <3> QED BY <1>5, <3>2
  <2>2. Times(queue[1], node) = 0
    BY <1>5, <2>1, TimesType
  <2>3. Times(todo[1], node)' = Times(queue[1], node)
    BY <1>1, <1>3 DEF Times
  <2> QED BY <2>2, <2>3
<1>8. Sending'
  BY <1>1, <1>3, <1>5, <1>6, <1>7 DEF Sending
<1> QED BY <1>2, <1>3, <1>8 DEF Lists, Queued, Replied, Preparing

\* A command added is ready, and newer than all others.
LEMMA AddLists ==
  ASSUME TypeOK, Connected, Scanned, Raised, Lists, Recorded, NEW n \in Commands, NEW h \in BOOLEAN, Add(n, h)
  PROVE  Lists' /\ Recorded'
<1> DEFINE start == report_initial_conflicts(crc)
           early == initial_conflicts(crc)
           late  == IF unmatched(start, n, build) THEN {n} ELSE {}
<1> PICK id : id = Len(names) + 1
  OBVIOUS
<1>1. /\ pc = "block" /\ names' = Append(names, n) /\ target' = Append(target, node)
      /\ \/ pc' = "exit" /\ told' = told \cup early /\ history' = history /\ silent' = silent
         \/ /\ \/ history' = [history EXCEPT ![node] = Append(@, id)] /\ silent' = silent
               \/ history' = history /\ silent' = silent \cup {id}
            /\ told' = told \cup early \cup late
            /\ \/ pc' = "exit"
               \/ pc' = "block" /\ queue' = Append(queue, id)
      /\ UNCHANGED <<build, node, todo, retried, replies, log, lost>>
  BY DEF Add
<1>2. /\ node \in DUTs /\ id \in Nat \ {0} /\ DOMAIN names = 1 .. (id - 1)
      /\ DOMAIN names' = 1 .. id /\ names'[id] = n /\ target'[id] = node
      /\ \A i \in 1 .. (id - 1) : names'[i] = names[i] /\ target'[i] = target[i]
  <2>1. node \in DUTs /\ names \in Seq(Commands) /\ target \in Seq(DUTs) /\ Len(names) = Len(target)
    BY <1>1 DEF Connected, TypeOK
  <2> QED BY <1>1, <2>1
<1>3. told \subseteq told'
  BY <1>1
<1> HIDE DEF start, early, late
<1>4. \A d \in DUTs :
        \/ history'[d] = history[d]
        \/ /\ \A k \in DOMAIN history[d] : k \in DOMAIN history'[d] /\ history'[d][k] = history[d][k]
           /\ d = node /\ Len(history[d]) + 1 \in DOMAIN history'[d]
           /\ history'[d][Len(history[d]) + 1] = id
  <2>1. history \in [DUTs -> Seq(1 .. MaxCommands)]
    BY DEF TypeOK
  <2>2. \A d \in DUTs : history'[d] = history[d]
                        \/ (d = node /\ history'[d] = Append(history[d], id))
    BY <1>1, <1>2, <2>1
  <2>3. \A d \in DUTs : history[d] \in Seq(1 .. MaxCommands)
    BY <2>1
  <2> QED BY <2>2, <2>3
<1>5. Remembered
  <2>1. \A d \in DUTs : \A j : Listed(d, j) => Listed(d, j)'
    <3>1. silent \subseteq silent'
      BY <1>1
    <3> QED BY <1>4, <3>1 DEF Listed
  <2>2. \A i \in DOMAIN names :
          i \in DOMAIN names' /\ names'[i] = names[i] /\ target'[i] = target[i]
    BY <1>2
  <2>3. build' = build /\ lost' = lost
    BY <1>1
  <2> QED BY <1>3, <2>1, <2>2, <2>3 DEF Remembered
<1>6. Recorded'
  BY <1>1, <1>5, RecordedKept
<1>7. CASE pc' = "exit"
  BY <1>6, <1>7 DEF Lists, Queued, Sending, Replied, Preparing
<1>8. CASE pc' # "exit"
  <2>1. /\ pc' = "block" /\ queue' = Append(queue, id)
        /\ \/ history' = [history EXCEPT ![node] = Append(@, id)]
           \/ id \in silent'
        /\ told' = told \cup early \cup late
    BY <1>1, <1>8
  <2>2. Approved(n)'
    <3>1. n \in Names /\ crc \in Checkers /\ build \in Builds
      BY NamesOf DEF TypeOK
    <3>2. /\ start \in Checkers /\ start.found = crc.found
          /\ start.reported = IF crc.initial THEN crc.reported ELSE {}
      BY <3>1, ReportInitial DEF start
    <3>3. start.reported \subseteq told /\ start.found \subseteq Present
      BY <3>2 DEF Raised, Scanned
    <3>4. CASE unmatched(start, n, build)
      BY <2>1, <3>4 DEF late, Approved
    <3>5. CASE ~unmatched(start, n, build)
      <4>1. n \in start.reported \/ Verified(n, build)
        BY <3>1, <3>2, <3>3, <3>5, AcceptedName
      <4> QED BY <1>1, <1>3, <3>3, <4>1 DEF Approved, Verified
    <3> QED BY <3>4, <3>5
  <2>3. Ready(id)'
    <3>1. Listed(node, id)'
      <4>1. CASE id \in silent'
        BY <4>1 DEF Listed
      <4>2. CASE history' = [history EXCEPT ![node] = Append(@, id)]
        <5>1. history[node] \in Seq(1 .. MaxCommands) /\ history'[node] = Append(history[node], id)
          BY <1>2, <4>2 DEF TypeOK
        <5>2. /\ Len(history[node]) + 1 \in DOMAIN history'[node]
              /\ history'[node][Len(history[node]) + 1] = id
          BY <5>1
        <5>3. \E k \in DOMAIN history'[node] : history'[node][k] = id
          BY <5>2
        <5> QED BY <1>1, <5>3 DEF Listed
      <4> QED BY <2>1, <4>1, <4>2
    <3>2. Approved(names[id])'
      BY <1>2, <2>2 DEF Approved
    <3> QED BY <1>1, <1>2, <3>1, <3>2 DEF Ready
  <2>4. Sendable(queue) /\ \A i \in DOMAIN log[node] : \A k \in DOMAIN queue : log[node][i] < queue[k]
    BY <1>1 DEF Lists, Queued
  <2> PICK m : m = Len(queue)
    OBVIOUS
  <2>5. /\ m \in Nat /\ DOMAIN queue = 1 .. m /\ DOMAIN queue' = 1 .. (m + 1)
        /\ queue'[m + 1] = id /\ \A k \in 1 .. m : queue'[k] = queue[k]
    <3>1. queue \in Seq(1 .. MaxCommands)
      BY DEF TypeOK
    <3> QED BY <2>1, <3>1
  <2>6. \A k \in 1 .. m : queue[k] \in 1 .. (id - 1)
    BY <1>2, <2>4, <2>5 DEF Sendable, Ready
  <2>7. \A i \in DOMAIN log[node] : log[node][i] \in 1 .. (id - 1)
    BY <1>2 DEF Recorded, Explained
  <2>8. \A k \in 1 .. (m + 1) : \A j : j = queue'[k] => Ready(j)'
    <3>1. \A k \in 1 .. m : \A j : j = queue[k] => Ready(j)'
      BY <1>1, <1>2, <1>5, <2>4, <2>5, ReadyStays DEF Sendable
    <3> QED BY <2>3, <2>5, <3>1
  <2>9. \A k, l \in 1 .. (m + 1) : k < l => queue'[k] < queue'[l]
    <3>1. \A k, l \in 1 .. m : k < l => queue[k] < queue[l]
      BY <2>4, <2>5 DEF Sendable
    <3>2. \A k \in 1 .. m : queue[k] < id
      BY <1>2, <2>6
    <3> QED BY <2>5, <3>1, <3>2
  <2>10. Sendable(queue)'
    BY <2>5, <2>8, <2>9 DEF Sendable
  <2>11. \A i \in DOMAIN log[node] : \A k \in 1 .. (m + 1) : log[node][i] < queue'[k]
    <3>1. \A i \in DOMAIN log[node] : \A k \in 1 .. m : log[node][i] < queue'[k]
      BY <2>4, <2>5
    <3>2. \A i \in DOMAIN log[node] : log[node][i] < queue'[m + 1]
      BY <1>2, <2>5, <2>7
    <3>3. \A k \in 1 .. (m + 1) : k \in 1 .. m \/ k = m + 1
      BY <2>5
    <3> QED BY <3>1, <3>2, <3>3
  <2>12. Queued'
    BY <1>1, <2>1, <2>5, <2>10, <2>11 DEF Queued, Preparing
  <2>13. Sending' /\ Replied'
    BY <1>1, <2>1 DEF Lists, Sending, Replied
  <2> QED BY <1>6, <2>12, <2>13 DEF Lists
<1> QED BY <1>7, <1>8

\* An answered command is the newest execution, the next one is new to VPP.
LEMMA AnsweredLists ==
  ASSUME TypeOK, Connected, Raised, Scanned, Lists, Recorded, Answered
  PROVE  Lists' /\ Recorded'
<1>0. Sending
  BY DEF Lists
<1> PICK x, d, n : x = todo[1] /\ d = node /\ n = Len(log[node])
  OBVIOUS
<1>1. /\ pc = "send" /\ Grows(d, x) /\ d \in DUTs
      /\ todo' = Tail(todo) /\ retried' = FALSE
      /\ \/ /\ replies' = Append(replies, n + 1)
            /\ pc' = IF Len(todo) = 1 THEN "block" ELSE "send"
         \/ pc' = "exit"
      /\ UNCHANGED <<build, node, queue, names, target, history, silent, lost>>
  <2>1. pc = "send" /\ client.to = node /\ node \in DUTs
    BY <1>0, AnsweredParts DEF Connected
  <2> QED BY <1>0, <2>1, AnsweredParts DEF Grows
<1>2. Remembered
  <2>1. told \subseteq told'
    BY <1>0, AnsweredParts
  <2> QED BY <1>1, <2>1 DEF Remembered, Listed
<1>3. Recorded' /\ \A i \in DOMAIN log'[d] : log'[d][i] <= x
  BY <1>0, <1>1, <1>2, RecordedGrows
<1>4. CASE pc' = "exit"
  BY <1>3, <1>4 DEF Lists, Queued, Sending, Replied, Preparing
<1>5. CASE pc' # "exit"
  <2>1. /\ x \in 1 .. MaxCommands /\ 1 \in DOMAIN todo /\ Len(todo) \in Nat
        /\ todo' \in Seq(1 .. MaxCommands) /\ Len(todo') = Len(todo) - 1
        /\ \A k \in DOMAIN todo' : k + 1 \in DOMAIN todo /\ todo'[k] = todo[k + 1]
    <3>1. todo \in Seq(1 .. MaxCommands) /\ todo' = Tail(todo)
      BY <1>1 DEF TypeOK
    <3>2. Len(todo) \in Nat
      BY <3>1
    <3> QED BY <1>0, <1>1, <3>1, <3>2, NextCommand
  <2>2. /\ n \in Nat /\ DOMAIN log[d] = 1 .. n /\ DOMAIN log'[d] = 1 .. (n + 1)
        /\ log'[d][n + 1] = x
        /\ \A i \in 1 .. n : log'[d][i] = log[d][i]
    BY <1>1, <2>1, LogGrows
  <2>3. \A k \in DOMAIN replies :
          /\ replies[k] \in 1 .. n
          /\ \A i \in 1 .. n : i > replies[k] => log[d][i] # log[d][replies[k]]
          /\ log[d][replies[k]] < x
    BY <1>1, <2>2 DEF Lists, Replied
  <2>4. \A i \in 1 .. n : log[d][i] \in 1 .. MaxCommands
    <3>1. log[d] \in Seq(1 .. MaxCommands)
      BY <1>1 DEF TypeOK
    <3> QED BY <2>2, <3>1, ElementsOf
  <2> PICK m : m = Len(replies)
    OBVIOUS
  <2>5. /\ m \in Nat /\ DOMAIN replies = 1 .. m /\ DOMAIN replies' = 1 .. (m + 1)
        /\ replies'[m + 1] = n + 1 /\ \A k \in 1 .. m : replies'[k] = replies[k]
    <3>1. replies \in Seq(Nat) /\ replies' = Append(replies, n + 1)
      BY <1>1, <1>5 DEF TypeOK
    <3> QED BY <2>2, <3>1
  <2>6. ASSUME NEW k \in 1 .. (m + 1)
        PROVE  /\ replies'[k] \in 1 .. (n + 1)
               /\ \A i \in 1 .. (n + 1) : i > replies'[k] => log'[d][i] # log'[d][replies'[k]]
               /\ log'[d][replies'[k]] <= x
    <3>1. CASE k \in 1 .. m
      <4> PICK p : p = replies[k]
        OBVIOUS
      <4>1. /\ p \in 1 .. n /\ log[d][p] < x /\ log[d][p] \in Nat
            /\ \A i \in 1 .. n : i > p => log[d][i] # log[d][p]
        BY <2>3, <2>4, <2>5, <3>1
      <4>2. replies'[k] = p /\ log'[d][p] = log[d][p]
        BY <2>2, <2>5, <3>1, <4>1
      <4>3. \A i \in 1 .. (n + 1) : i > p => log'[d][i] # log'[d][p]
        <5>1. \A i \in 1 .. n : i > p => log'[d][i] # log'[d][p]
          BY <2>2, <4>1, <4>2
        <5>2. log'[d][n + 1] # log'[d][p]
          BY <2>1, <2>2, <4>1, <4>2
        <5>3. \A i \in 1 .. (n + 1) : i \in 1 .. n \/ i = n + 1
          BY <2>2
        <5> QED BY <5>1, <5>2, <5>3
      <4>4. p \in 1 .. (n + 1) /\ log'[d][p] <= x
        <5>1. p \in 1 .. (n + 1)
          BY <2>2, <4>1
        <5>2. log'[d][p] <= x
          BY <2>1, <4>1, <4>2
        <5> QED BY <5>1, <5>2
      <4> QED BY <4>2, <4>3, <4>4
    <3>2. CASE k = m + 1
      BY <2>1, <2>2, <2>5, <3>2
    <3> QED BY <2>5, <3>1, <3>2
  <2>7. CASE Len(todo) = 1
    <3>1. pc' = "block" /\ queue' = <<>>
      BY <1>1, <1>5, <2>7 DEF Lists, Queued
    <3>2. Queued'
      BY <3>1 DEF Queued, Sendable, Preparing
    <3>3. Sending'
      BY <3>1 DEF Sending
    <3>4. Replied'
      BY <1>1, <2>2, <2>5, <2>6, <3>1 DEF Replied
    <3> QED BY <1>3, <3>2, <3>3, <3>4 DEF Lists
  <2>8. CASE Len(todo) # 1
    <3>1. pc' = "send" /\ queue' = <<>>
      BY <1>1, <1>5, <2>8 DEF Lists, Queued
    <3>2. Queued'
      BY <3>1 DEF Queued, Preparing
    <3>3. 1 \in DOMAIN todo' /\ todo' # <<>>
      BY <2>1, <2>8
    <3>4. \A k, l \in DOMAIN todo : k < l => todo[k] < todo[l]
      BY <1>1 DEF Lists, Sending, Sendable
    <3>5. x < todo'[1] /\ todo'[1] \in 1 .. MaxCommands
      <4>1. todo'[1] = todo[2] /\ 2 \in DOMAIN todo
        BY <2>1, <3>3
      <4>2. todo'[1] \in 1 .. MaxCommands
        BY <2>1, <3>3, ElementsOf
      <4> QED BY <2>1, <3>4, <4>1, <4>2
    <3>6. \A i \in 1 .. (n + 1) : log'[d][i] < todo'[1]
      <4>1. \A i \in 1 .. (n + 1) : log'[d][i] <= x /\ log'[d][i] \in Nat
        <5>1. \A i \in 1 .. n : log'[d][i] \in Nat
          BY <2>2, <2>4
        <5>2. \A i \in 1 .. (n + 1) : i \in 1 .. n \/ i = n + 1
          BY <2>2
        <5>3. log'[d][n + 1] \in Nat
          BY <2>1, <2>2
        <5>4. \A i \in 1 .. (n + 1) : log'[d][i] \in Nat
          BY <5>1, <5>2, <5>3
        <5> QED BY <1>3, <2>2, <5>4
      <4> QED BY <2>1, <3>5, <4>1
    <3>7. Sendable(todo)'
      <4>1. \A k \in DOMAIN todo' : \A j : j = todo'[k] => Ready(j)'
        <5>1. \A k \in DOMAIN todo : \A j : j = todo[k] => Ready(j)'
          BY <1>1, <1>2, ReadyStays DEF Lists, Sending, Sendable
        <5> QED BY <2>1, <5>1
      <4>2. \A k, l \in DOMAIN todo' : k < l => todo'[k] < todo'[l]
        BY <2>1, <3>4
      <4> QED BY <4>1, <4>2 DEF Sendable
    <3>8. Times(todo[1], node)' = 0
      <4>1. {i \in DOMAIN log'[d] : log'[d][i] = todo'[1]} = {}
        <5>1. \A i \in 1 .. (n + 1) : log'[d][i] # todo'[1]
          BY <3>5, <3>6
        <5> QED BY <2>2, <5>1
      <4> QED BY <1>1, <4>1, FS_EmptySet DEF Times
    <3>9. Sending'
      <4>1. node' = d /\ ~retried' /\ \A i \in DOMAIN log'[d] : log'[d][i] < todo'[1]
        BY <1>1, <2>2, <3>6
      <4> QED BY <3>1, <3>3, <3>7, <3>8, <4>1 DEF Sending
    <3>10. Replied'
      <4>1. \A k \in 1 .. (m + 1) : log'[d][replies'[k]] < todo'[1]
        BY <2>6, <3>6
      <4> QED BY <1>1, <2>2, <2>5, <2>6, <3>1, <4>1 DEF Replied
    <3> QED BY <1>3, <3>2, <3>9, <3>10 DEF Lists
  <2> QED BY <2>7, <2>8
<1> QED BY <1>4, <1>5

\* After an error the command may have been executed, but not twice.
LEMMA LostLists ==
  ASSUME TypeOK, Connected, Lists, Recorded, Lost
  PROVE  Lists' /\ Recorded'
<1>0. Sending
  BY DEF Lists
<1> PICK x, d, n : x = todo[1] /\ d = node /\ n = Len(log[node])
  OBVIOUS
<1>1. /\ pc = "send" /\ d \in DUTs /\ (Grows(d, x) \/ log' = log)
      /\ lost' = lost \cup {x}
      /\ (~retried /\ retried' = TRUE /\ pc' = "reconnect") \/ pc' = "exit"
      /\ UNCHANGED <<build, told, node, queue, todo, replies, names, target, history, silent>>
  <2>1. pc = "send" /\ client.to = node /\ node \in DUTs
    BY <1>0, LostParts DEF Connected
  <2> QED BY <1>0, <2>1, LostParts DEF Grows, checkVars
<1>2. Remembered
  BY <1>1 DEF Remembered, Listed
<1>3. Recorded'
  BY <1>0, <1>1, <1>2, RecordedGrows, RecordedKept
<1>4. CASE pc' = "exit"
  BY <1>3, <1>4 DEF Lists, Queued, Sending, Replied, Preparing
<1>5. CASE pc' # "exit"
  <2>1. pc' = "reconnect" /\ ~retried /\ retried' = TRUE /\ queue = <<>>
    BY <1>1, <1>5 DEF Lists, Queued
  <2>2. x \in 1 .. MaxCommands /\ x \in Nat
    BY <1>0, <1>1, NextCommand
  <2>3. Queued'
    BY <1>1, <2>1 DEF Queued, Preparing
  <2>4. Sendable(todo)' /\ todo # <<>>
    BY <1>1, <1>2, SendableStays DEF Lists, Sending
  <2>5. \A i \in DOMAIN log[d] : log[d][i] < x /\ log[d][i] \in Nat
    <3>1. log[d] \in Seq(1 .. MaxCommands)
      BY <1>1 DEF TypeOK
    <3>2. \A i \in DOMAIN log[d] : log[d][i] \in 1 .. MaxCommands
      BY <3>1, ElementsOf
    <3> QED BY <1>1, <2>1, <3>2 DEF Lists, Sending
  <2>6. \A k \in DOMAIN replies :
          /\ replies[k] \in DOMAIN log[d]
          /\ \A i \in DOMAIN log[d] : i > replies[k] => log[d][i] # log[d][replies[k]]
          /\ log[d][replies[k]] < x
    BY <1>1 DEF Lists, Replied
  <2>7. CASE log' = log
    <3>1. Times(x, d)' <= 1
      <4>1. Times(x, d) = 0
        BY <1>1, <2>2, <2>5, TimesType
      <4>2. Times(x, d)' = Times(x, d)
        BY <2>7 DEF Times
      <4> QED BY <4>1, <4>2
    <3>2. Times(todo[1], node)' <= 1
      BY <1>1, <3>1 DEF Times
    <3>3. Sending'
      BY <1>1, <2>1, <2>4, <2>5, <2>7, <3>2 DEF Sending
    <3>4. Replied'
      BY <1>1, <2>1, <2>6, <2>7 DEF Replied
    <3> QED BY <1>3, <2>3, <3>3, <3>4 DEF Lists
  <2>8. CASE Grows(d, x)
    <3>1. /\ n \in Nat /\ DOMAIN log[d] = 1 .. n /\ DOMAIN log'[d] = 1 .. (n + 1)
          /\ log'[d][n + 1] = x
          /\ \A i \in 1 .. n : log'[d][i] = log[d][i]
      BY <1>1, <2>2, <2>8, LogGrows
    <3>2. Times(x, d)' = 1
      BY <1>0, <1>1, <1>2, <2>1, <2>8, RecordedGrows
    <3>3. Times(todo[1], node)' <= 1
      BY <1>1, <3>2 DEF Times
    <3>4. \A i \in DOMAIN log'[d] : log'[d][i] <= x /\ log'[d][i] \in Nat
      <4>1. \A i \in 1 .. n : log'[d][i] <= x /\ log'[d][i] \in Nat
        <5>1. \A i \in 1 .. n : log[d][i] < x /\ log[d][i] \in Nat
          BY <2>5, <3>1
        <5>2. \A i \in 1 .. n : log[d][i] <= x
          BY <2>2, <5>1
        <5> QED BY <3>1, <5>1, <5>2
      <4>2. log'[d][n + 1] <= x /\ log'[d][n + 1] \in Nat
        BY <2>2, <3>1
      <4>3. \A i \in DOMAIN log'[d] : i \in 1 .. n \/ i = n + 1
        BY <3>1
      <4> QED BY <4>1, <4>2, <4>3
    <3>5. \A i \in DOMAIN log'[d] : log'[d][i] < x \/ log'[d][i] = x
      BY <2>2, <3>4
    <3>6. Sending'
      BY <1>1, <2>1, <2>4, <3>3, <3>5 DEF Sending
    <3>7. ASSUME NEW k \in DOMAIN replies
          PROVE  /\ replies[k] \in DOMAIN log'[d]
                 /\ \A i \in DOMAIN log'[d] : i > replies[k] => log'[d][i] # log'[d][replies[k]]
                 /\ log'[d][replies[k]] < x
      <4> PICK p : p = replies[k]
        OBVIOUS
      <4>1. /\ p \in 1 .. n /\ log'[d][p] = log[d][p] /\ log[d][p] < x /\ log[d][p] \in Nat
            /\ \A i \in 1 .. n : i > p => log[d][i] # log[d][p]
        BY <2>5, <2>6, <3>1
      <4>2. \A i \in 1 .. (n + 1) : i > p => log'[d][i] # log'[d][p]
        <5>1. \A i \in 1 .. n : i > p => log'[d][i] # log'[d][p]
          BY <3>1, <4>1
        <5>2. log'[d][n + 1] # log'[d][p]
          BY <2>2, <3>1, <4>1
        <5>3. \A i \in 1 .. (n + 1) : i \in 1 .. n \/ i = n + 1
          BY <3>1
        <5> QED BY <5>1, <5>2, <5>3
      <4> QED BY <3>1, <4>1, <4>2
    <3>8. Replied'
      BY <1>1, <2>1, <3>7 DEF Replied
    <3> QED BY <1>3, <2>3, <3>6, <3>8 DEF Lists
  <2> QED BY <1>1, <2>7, <2>8
<1> QED BY <1>4, <1>5

\* Every step keeps the lists and what the VPPs execute.
LEMMA ListsStep ==
  ASSUME TypeOK, Connected, Scanned, Raised, Lists, Recorded, [Next]_vars
  PROVE  Lists' /\ Recorded'
<1>0. build' = build /\ told \subseteq told'
  BY RaisedStep DEF Lists
<1>a. ASSUME UNCHANGED <<node, execVars, log, lost>>,
             pc' \in Preparing \cup {"connect"} => pc \in Preparing \cup {"connect"},
             pc' \in {"send", "reconnect"} => pc \in {"send", "reconnect"},
             pc' = "block" => pc \in {"block", "connect"}
      PROVE  Lists' /\ Recorded'
  <2>1. Remembered
    BY <1>0, <1>a DEF Remembered, Listed, execVars
  <2>2. UNCHANGED <<node, queue, todo, retried, replies, log, lost>>
    BY <1>a DEF execVars
  <2> QED BY <1>a, <2>1, <2>2, ListsKept
<1>1. CASE UNCHANGED vars
  BY <1>a, <1>1 DEF vars
<1>2. ASSUME NEW d \in DUTs, NewExecutor(d) PROVE Lists' /\ Recorded'
  BY <1>2, NewExecutorLists
<1>3. CASE Download
  BY <1>a, <1>3 DEF Download, Preparing
<1>4. ASSUME NEW n \in toscan, Scan(n) PROVE Lists' /\ Recorded'
  BY <1>a, <1>4 DEF Scan, Preparing
<1>5. CASE CreateClient
  BY <1>a, <1>5 DEF CreateClient, Preparing
<1>6. CASE Enter
  BY <1>a, <1>6 DEF Enter, Preparing
<1>7. CASE ConnectSync
  BY <1>a, <1>7 DEF ConnectSync, Preparing
<1>8. CASE Exit
  BY <1>a, <1>8 DEF Exit, Preparing
<1>9. ASSUME NEW t \in tunnels, TunnelEnds(t) PROVE Lists' /\ Recorded'
  BY <1>a, <1>9 DEF TunnelEnds
<1>10. CASE LeaveBlock
  BY <1>a, <1>10 DEF LeaveBlock, Preparing
<1>11. ASSUME NEW n \in Commands, NEW h \in BOOLEAN, Add(n, h) PROVE Lists' /\ Recorded'
  BY <1>11, AddLists
<1>12. CASE Execute
  BY <1>12, ExecuteLists
<1>13. CASE NoSuchMessage
  BY <1>a, <1>13 DEF NoSuchMessage, Preparing
<1>14. CASE Answered
  BY <1>14, AnsweredLists
<1>15. CASE Lost
  BY <1>15, LostLists
<1>16. CASE ReconnectSync
  BY <1>a, <1>16 DEF ReconnectSync, Preparing
<1> QED
  BY <1>1, <1>2, <1>3, <1>4, <1>5, <1>6, <1>7, <1>8, <1>9, <1>10, <1>11, <1>12, <1>13,
     <1>14, <1>15, <1>16 DEF Next, ExecutorStep, TestStep

-----------------------------------------------------------------------------
(* The theorems.                                                           *)

\* The invariant holds at the start.
LEMMA InitIInv == Init => IInv
<1> SUFFICES ASSUME Init PROVE IInv
  OBVIOUS
<1>1. NewChecker \in Checkers
  BY NewCheckerType
<1>2. /\ NewChecker.found = {} /\ NewChecker.reported = {} /\ NewChecker.initial = FALSE
      /\ NewChecker.expected = Collections
  BY DEF NewChecker
<1>3. TypeOK
  <2>1. NoClient \in [created : BOOLEAN, address : 0 .. MaxBlocks, to : DUTs \cup {None}]
    BY BoundAssumption DEF NoClient
  <2>2. /\ <<>> \in Seq(1 .. MaxCommands) /\ <<>> \in Seq(Nat) /\ <<>> \in Seq(Commands)
        /\ <<>> \in Seq(DUTs) /\ Len(<<>>) = 0
    OBVIOUS
  <2>3. [d \in DUTs |-> <<>>] \in [DUTs -> Seq(1 .. MaxCommands)]
    BY <2>2
  <2>4. 0 \in 0 .. MaxFaults /\ 0 \in 0 .. MaxBlocks /\ 0 <= MaxCommands
    BY BoundAssumption
  <2> QED BY <1>1, <2>1, <2>2, <2>3, <2>4 DEF Init, TypeOK
<1>4. Tunnelled /\ Connected
  BY DEF Init, Tunnelled, Connected, NoClient, Open
<1>5. Directories
  BY FS_EmptySet DEF Init, Directories, Open
<1>6. Scanned /\ Raised /\ Fitting
  BY <1>2 DEF Init, Scanned, Raised, Fitting, Present, NoClient, Open
<1>7. Queued /\ Sending /\ Replied
  BY DEF Init, Queued, Sending, Replied, Preparing
<1>8. \A d \in DUTs : DOMAIN log[d] = {}
  BY DEF Init
<1>9. Executed /\ ExecutedAsRecorded /\ UnverifiedTold
  BY <1>8 DEF Executed, ExecutedAsRecorded, UnverifiedTold
<1> QED BY <1>3, <1>4, <1>5, <1>6, <1>7, <1>9 DEF IInv

\* Every step keeps the invariant.
LEMMA NextIInv == IInv /\ [Next]_vars => IInv'
<1> SUFFICES ASSUME IInv, [Next]_vars PROVE IInv'
  OBVIOUS
<1>1. Recorded /\ Lists
  BY RecordedMeans DEF IInv, Lists
<1>2. TypeOK'
  BY TypeStep DEF IInv
<1>3. Tunnelled' /\ Connected'
  BY ConnectionStep DEF IInv
<1>4. Directories'
  BY DirectoriesStep DEF IInv
<1>5. Scanned' /\ Raised' /\ Fitting'
  BY ScannedStep, RaisedStep, FittingStep DEF IInv
<1>6. Lists' /\ Recorded'
  BY <1>1, ListsStep DEF IInv
<1>7. (Recorded <=> Executed /\ ExecutedAsRecorded /\ UnverifiedTold)'
  BY RecordedMeans, PTL
<1> QED BY <1>2, <1>3, <1>4, <1>5, <1>6, <1>7 DEF IInv, Lists

\* The invariant holds always.
LEMMA Inductive == Spec => []IInv
BY InitIInv, NextIInv, PTL DEF Spec

\* Every variable of the executor, the checker and the VPPs keeps its type.
THEOREM TypeCorrect == Spec => []TypeOK
<1>1. IInv => TypeOK
  BY DEF IInv
<1> QED BY <1>1, Inductive, PTL

\* Whatever is lost, repeated or given up, the VPP of a DUT executes commands
\* added for it, in their order, at most twice, and twice only after an error;
\* the history of the DUT tells of each, unless it was added with history=False.
\* (_execute, add)
THEOREM ExecutedTheorem == Spec => []ExecutedAsRecorded
<1>1. IInv => ExecutedAsRecorded
  BY DEF IInv
<1> QED BY <1>1, Inductive, PTL

\* The replies a test gets are those of the last executions of its commands.
THEOREM RepliesTheorem == Spec => []RepliesAreLatest
<1>1. IInv => RepliesAreLatest
  BY DEF IInv, Replied, RepliesAreLatest
<1> QED BY <1>1, Inductive, PTL

\* A command without a known checksum is executed only after a test was told.
THEOREM UnverifiedTheorem == Spec => []UnverifiedTold
<1>1. IInv => UnverifiedTold
  BY DEF IInv
<1> QED BY <1>1, Inductive, PTL

\* The collection a build was made for survives every scan and every command,
\* so such a build is never complained about.
THEOREM FittingTheorem == Spec => []FittingBuildAccepted
<1>1. IInv => FittingBuildAccepted
  BY DEF IInv, Fitting, FittingBuildAccepted, Used
<1> QED BY <1>1, Inductive, PTL

\* Between blocks the client is not connected, and there are at most as many
\* directories as there were faults.  (__enter__, __exit__)
THEOREM LeftoversTheorem == Spec => []LeftoversExplained
<1>1. IInv => LeftoversExplained
  BY DEF IInv, Connected, Directories, LeftoversExplained, Open
<1> QED BY <1>1, Inductive, PTL

-----------------------------------------------------------------------------
(* The executor implements the log of commands.                            *)

\* The commands the history of a DUT is not to tell of.
Unrecorded == [d \in DUTs |-> {id \in silent : target[id] = d}]

\* What the history of a DUT names, or is not to name, has been numbered.
Numbered ==
  /\ \A d \in DUTs : \A k \in DOMAIN history[d] : history[d][k] \in DOMAIN names
  /\ silent \subseteq DOMAIN names

\* Only add gives commands.
LEMMA HistoryKept ==
  ASSUME IInv, [Next]_vars
  PROVE  \/ names' = names /\ target' = target /\ history' = history /\ silent' = silent
         \/ \E n \in Commands, h \in BOOLEAN : Add(n, h)
<1>1. CASE Answered
  BY <1>1, AnsweredParts DEF IInv
<1>2. CASE Lost
  BY <1>2, LostParts DEF IInv
<1>3. CASE Download \/ (\E n \in toscan : Scan(n)) \/ CreateClient \/ Enter \/ ConnectSync
           \/ Exit \/ NoSuchMessage \/ ReconnectSync
  BY <1>3 DEF Download, Scan, CreateClient, Enter, ConnectSync, Exit, NoSuchMessage,
              ReconnectSync, execVars
<1>4. CASE Execute \/ LeaveBlock \/ (\E d \in DUTs : NewExecutor(d))
  BY <1>4 DEF Execute, LeaveBlock, NewExecutor, execVars
<1>5. CASE \E t \in tunnels : TunnelEnds(t)
  BY <1>5 DEF TunnelEnds, execVars
<1>6. CASE UNCHANGED vars
  BY <1>6 DEF vars, execVars
<1> QED  BY <1>1, <1>2, <1>3, <1>4, <1>5, <1>6 DEF Next, ExecutorStep, TestStep

\* add numbers a command, and records it for its DUT, or keeps it to itself, or
\* refuses it.
LEMMA AddRecords ==
  ASSUME IInv, NEW n \in Commands, NEW h \in BOOLEAN, Add(n, h)
  PROVE  LET id == Len(names) + 1 IN
         /\ id \in 1 .. MaxCommands /\ node \in DUTs
         /\ DOMAIN names = 1 .. id - 1 /\ DOMAIN names' = 1 .. id
         /\ \/ history' = history /\ silent' = silent
            \/ history' = [history EXCEPT ![node] = Append(@, id)] /\ silent' = silent
            \/ history' = history /\ silent' = silent \cup {id}
         /\ target'[id] = node /\ \A i \in 1 .. id - 1 : target'[i] = target[i]
         /\ log' = log /\ pc = "block" /\ pc' \in {"block", "exit"}
<1> DEFINE id == Len(names) + 1
<1>1. /\ pc = "block" /\ id <= MaxCommands /\ names' = Append(names, n)
      /\ target' = Append(target, node)
      /\ \/ history' = history /\ silent' = silent
         \/ history' = [history EXCEPT ![node] = Append(@, id)] /\ silent' = silent
         \/ history' = history /\ silent' = silent \cup {id}
      /\ log' = log /\ pc' \in {"block", "exit"}
  BY DEF Add
<1>2. names \in Seq(Commands) /\ node \in DUTs /\ MaxCommands \in Nat
  BY <1>1, BoundAssumption DEF IInv, TypeOK, Connected
<1>3. id \in 1 .. MaxCommands /\ DOMAIN names = 1 .. id - 1 /\ DOMAIN names' = 1 .. id
  BY <1>1, <1>2
<1>4. target'[id] = node /\ \A i \in 1 .. id - 1 : target'[i] = target[i]
  <2>1. target \in Seq(DUTs) /\ Len(target) = id - 1
    BY <1>2 DEF IInv, TypeOK
  <2> QED BY <1>1, <1>2, <2>1
<1> QED  BY <1>1, <1>2, <1>3, <1>4

\* Every step keeps the histories below the next number.
LEMMA NumberedStep == IInv /\ Numbered /\ [Next]_vars => Numbered'
<1> SUFFICES ASSUME IInv, Numbered, [Next]_vars PROVE Numbered'
  OBVIOUS
<1>1. CASE names' = names /\ target' = target /\ history' = history /\ silent' = silent
  BY <1>1 DEF Numbered
<1>2. ASSUME NEW n \in Commands, NEW h \in BOOLEAN, Add(n, h) PROVE Numbered'
  <2> DEFINE id == Len(names) + 1
  <2>1. /\ id \in 1 .. MaxCommands /\ node \in DUTs
        /\ DOMAIN names = 1 .. id - 1 /\ DOMAIN names' = 1 .. id
        /\ \/ history' = history
           \/ history' = [history EXCEPT ![node] = Append(@, id)]
        /\ silent' \subseteq silent \cup {id}
    BY <1>2, AddRecords
  <2>2. history \in [DUTs -> Seq(1 .. MaxCommands)]
    BY DEF IInv, TypeOK
  <2> HIDE DEF id
  <2>3. ASSUME NEW d \in DUTs, NEW k \in DOMAIN history'[d] PROVE history'[d][k] \in 1 .. id
    <3>1. \A l \in DOMAIN history[d] : history[d][l] \in 1 .. id
      BY <2>1 DEF Numbered
    <3>2. CASE history'[d] = history[d]
      BY <3>1, <3>2
    <3>3. CASE history'[d] = Append(history[d], id)
      <4>1. history[d] \in Seq(1 .. MaxCommands)
        BY <2>2
      <4>2. k \in DOMAIN history[d] \/ history'[d][k] = id
        BY <3>3, <4>1
      <4>3. k \in DOMAIN history[d] => history'[d][k] = history[d][k]
        BY <3>3, <4>1
      <4>4. id \in 1 .. id
        BY <2>1
      <4> QED  BY <3>1, <4>2, <4>3, <4>4
    <3> QED  BY <2>1, <2>2, <3>2, <3>3
  <2>4. silent' \subseteq 1 .. id
    BY <2>1 DEF Numbered
  <2> QED  BY <2>1, <2>3, <2>4 DEF Numbered
<1> QED  BY <1>1, <1>2, HistoryKept

\* A step that executes and records nothing, and gives nothing to repeat.
LEMMA LogQuiet ==
  ASSUME history' = history, Unrecorded' = Unrecorded, log' = log,
         Repeating' \in {{}, Repeating}
  PROVE  [Commanded!LogNext]_(Commanded!logVars)
  BY DEF Commanded!LogNext, Commanded!GoOn, Commanded!logVars, Unrecorded

\* Nothing is repeated unless a command is being sent.
LEMMA NothingRepeats ==
  /\ pc \notin {"send", "reconnect"} \/ ~retried => Repeating = {}
  /\ pc' \notin {"send", "reconnect"} \/ ~retried' => Repeating' = {}
  BY DEF Repeating

\* Giving a command.
LEMMA AddLogs ==
  ASSUME IInv, Numbered, NEW n \in Commands, NEW h \in BOOLEAN, Add(n, h)
  PROVE  [Commanded!LogNext]_(Commanded!logVars)
<1> DEFINE id == Len(names) + 1
<1>1. /\ id \in 1 .. MaxCommands /\ node \in DUTs /\ DOMAIN names = 1 .. id - 1
      /\ \/ history' = history /\ silent' = silent
         \/ history' = [history EXCEPT ![node] = Append(@, id)] /\ silent' = silent
         \/ history' = history /\ silent' = silent \cup {id}
      /\ target'[id] = node /\ \A i \in 1 .. id - 1 : target'[i] = target[i]
      /\ log' = log /\ pc = "block" /\ pc' \in {"block", "exit"}
  BY AddRecords
<1>2. Repeating = {} /\ Repeating' = {}
  BY <1>1, NothingRepeats
<1>3. silent' = silent => Unrecorded' = Unrecorded
  BY <1>1 DEF Numbered, Unrecorded
<1>4. silent' = silent \cup {id} =>
        Unrecorded' = [Unrecorded EXCEPT ![node] = @ \cup {id}]
  BY <1>1 DEF Numbered, Unrecorded
<1>5. \A e \in DUTs : \A g \in Commanded!Given(e) : g < id
  BY <1>1 DEF Numbered, Commanded!Given
<1> HIDE DEF id
<1> PICK d \in DUTs, i \in 1 .. MaxCommands : d = node /\ i = id
  BY <1>1
<1>6. CASE history' = history /\ silent' = silent
  BY <1>1, <1>2, <1>3, <1>6, LogQuiet
<1>7. CASE history' = [history EXCEPT ![node] = Append(@, id)] /\ silent' = silent
  <2>1. Commanded!Give(d, i)
    BY <1>1, <1>2, <1>3, <1>5, <1>7 DEF Commanded!Give, Unrecorded
  <2> QED  BY <2>1 DEF Commanded!LogNext
<1>8. CASE history' = history /\ silent' = silent \cup {id}
  <2>1. Commanded!Give(d, i)
    BY <1>1, <1>2, <1>4, <1>5, <1>8 DEF Commanded!Give, Unrecorded
  <2> QED  BY <2>1 DEF Commanded!LogNext
<1> QED  BY <1>1, <1>6, <1>7, <1>8

\* Executing the command that is being sent is a new execution, or the one
\* repetition its VPP may see.
LEMMA SentLogs ==
  ASSUME IInv, pc = "send", client.to # None, history' = history, Unrecorded' = Unrecorded,
         log' = [log EXCEPT ![client.to] = Append(@, todo[1])],
         Repeating' \in {{}, {node}}, retried => Repeating' = {}
  PROVE  [Commanded!LogNext]_(Commanded!logVars)
<1>1. client.to = node /\ node \in DUTs
  BY DEF IInv, Connected
<1>2. todo[1] \in 1 .. MaxCommands /\ todo[1] \in Commanded!Given(node)
  <2>1. todo[1] \in 1 .. MaxCommands /\ 1 \in DOMAIN todo
    BY NextCommand DEF IInv
  <2>2. Ready(todo[1])
    BY <2>1 DEF IInv, Sending, Sendable
  <2> QED  BY <1>1, <2>1, <2>2 DEF Ready, Listed, Commanded!Given
<1>3. /\ log[node] \in Seq(1 .. MaxCommands)
      /\ \A i \in DOMAIN log[node] : log[node][i] \in 1 .. MaxCommands
  <2>1. log[node] \in Seq(1 .. MaxCommands)
    BY <1>1 DEF IInv, TypeOK
  <2> DEFINE S == 1 .. MaxCommands
  <2>2. log[node] \in Seq(S)
    BY <2>1
  <2> HIDE DEF S
  <2>3. \A i \in DOMAIN log[node] : log[node][i] \in S
    BY <2>2
  <2> QED  BY <2>1, <2>3 DEF S
<1>4. /\ \A i \in DOMAIN log[node] :
           log[node][i] < todo[1] \/ (retried /\ log[node][i] = todo[1])
      /\ \A i, j \in DOMAIN log[node] : i < j => log[node][i] <= log[node][j]
  BY <1>1 DEF IInv, Sending, ExecutedAsRecorded
<1>5. CASE node \in Repeating
  <2>1. retried /\ log[node][Len(log[node])] = todo[1]
    BY <1>5 DEF Repeating
  <2>2. Commanded!Repeat(node)
    <3>1. log' = [log EXCEPT ![node] = Append(log[node], log[node][Len(log[node])])]
      BY <1>1, <2>1
    <3> QED  BY <1>1, <1>5, <2>1, <3>1 DEF Commanded!Repeat, Unrecorded
  <2> QED  BY <1>1, <2>2 DEF Commanded!LogNext
<1>6. CASE node \notin Repeating
  <2>1. \A i \in DOMAIN log[node] : log[node][i] < todo[1]
    <3> SUFFICES ASSUME NEW i \in DOMAIN log[node], retried, log[node][i] = todo[1]
                 PROVE  FALSE
      BY <1>4
    <3> DEFINE n == Len(log[node])
    <3>1. n \in Nat /\ DOMAIN log[node] = 1 .. n /\ log[node] # <<>>
      BY <1>3
    <3>2. n \in DOMAIN log[node] /\ i <= n
      BY <3>1
    <3>3. log[node][n] # todo[1]
      BY <1>1, <1>6, <3>1 DEF Repeating
    <3> HIDE DEF n
    <3>4. i < n
      BY <3>1, <3>2, <3>3
    <3>5. todo[1] <= log[node][n] /\ log[node][n] < todo[1]
      BY <1>4, <3>2, <3>3, <3>4
    <3> QED  BY <1>2, <1>3, <3>2, <3>5
  <2>2. Commanded!Run(node, todo[1])
    <3>1. log' = [log EXCEPT ![node] = Append(@, todo[1])]
      BY <1>1
    <3> QED  BY <1>2, <2>1, <3>1 DEF Commanded!Run, Unrecorded
  <2> QED  BY <1>1, <1>2, <2>2 DEF Commanded!LogNext
<1> QED  BY <1>5, <1>6

\* An answered command.
LEMMA AnsweredLogs ==
  ASSUME IInv, Answered
  PROVE  [Commanded!LogNext]_(Commanded!logVars)
<1>1. /\ pc = "send" /\ client.to # None /\ history' = history /\ ~retried'
      /\ log' = [log EXCEPT ![client.to] = Append(@, todo[1])] /\ Unrecorded' = Unrecorded
  BY AnsweredParts DEF IInv, Unrecorded
<1>2. Repeating' = {}
  BY <1>1, NothingRepeats
<1> QED  BY <1>1, <1>2, SentLogs

\* A lost command: executed or not, to be repeated or given up.
LEMMA LostLogs ==
  ASSUME IInv, Lost
  PROVE  [Commanded!LogNext]_(Commanded!logVars)
<1>1. /\ pc = "send" /\ client.to # None
      /\ log' = [log EXCEPT ![client.to] = Append(@, todo[1])] \/ log' = log
      /\ \/ ~retried
         \/ retried /\ pc' = "exit"
      /\ node' = node /\ todo' = todo /\ history' = history /\ Unrecorded' = Unrecorded
  BY LostParts DEF IInv, Unrecorded
<1>2. retried => Repeating' = {}
  BY <1>1, NothingRepeats
<1>3. Repeating' \in {{}, {node}}
  BY <1>1 DEF Repeating
<1>4. CASE log' = [log EXCEPT ![client.to] = Append(@, todo[1])]
  BY <1>1, <1>2, <1>3, <1>4, SentLogs
<1>5. CASE log' = log
  <2>1. Repeating' = {}
    <3> SUFFICES ASSUME ~retried, NEW d \in Repeating' PROVE FALSE
      BY <1>2
    <3>1. d = node /\ log[d] # <<>> /\ log[d][Len(log[d])] = todo[1]
      BY <1>1, <1>5 DEF Repeating
    <3>2. node \in DUTs /\ log[node] \in Seq(1 .. MaxCommands)
      BY <1>1 DEF IInv, Connected, TypeOK
    <3>3. Len(log[node]) \in DOMAIN log[node]
      BY <3>1, <3>2
    <3>4. log[node][Len(log[node])] < todo[1]
      BY <1>1, <3>3 DEF IInv, Sending
    <3>5. todo[1] \in Int
      BY <1>1, NextCommand DEF IInv
    <3> QED  BY <3>1, <3>4, <3>5
  <2> QED  BY <1>1, <1>5, <2>1, LogQuiet
<1> QED  BY <1>1, <1>4, <1>5

\* Every step is one of the log of commands, or none of its business.
LEMMA StepLogs ==
  ASSUME IInv, Numbered, [Next]_vars
  PROVE  [Commanded!LogNext]_(Commanded!logVars)
<1>1. CASE Download \/ (\E n \in toscan : Scan(n)) \/ CreateClient \/ Enter \/ ConnectSync
           \/ Exit \/ NoSuchMessage \/ Execute \/ LeaveBlock \/ (\E d \in DUTs : NewExecutor(d))
  <2>1. /\ pc' \notin {"send", "reconnect"} \/ ~retried'
        /\ history' = history /\ log' = log /\ Unrecorded' = Unrecorded
    BY <1>1 DEF Download, Scan, CreateClient, Enter, ConnectSync, Exit, NoSuchMessage,
                Execute, LeaveBlock, NewExecutor, execVars, Unrecorded
  <2>2. Repeating' = {}
    BY <2>1, NothingRepeats
  <2> QED  BY <2>1, <2>2, LogQuiet
<1>2. CASE ReconnectSync
  <2>1. /\ pc = "reconnect" /\ pc' \in {"send", "exit"}
        /\ history' = history /\ log' = log /\ retried' = retried /\ todo' = todo /\ node' = node
        /\ Unrecorded' = Unrecorded
    BY <1>2 DEF ReconnectSync, execVars, Unrecorded
  <2>2. Repeating' \in {{}, Repeating}
    BY <2>1 DEF Repeating
  <2> QED  BY <2>1, <2>2, LogQuiet
<1>3. CASE (\E t \in tunnels : TunnelEnds(t)) \/ UNCHANGED vars
  <2>1. /\ pc' = pc /\ history' = history /\ log' = log /\ retried' = retried /\ todo' = todo
        /\ node' = node /\ Unrecorded' = Unrecorded
    BY <1>3 DEF TunnelEnds, execVars, vars, Unrecorded
  <2>2. Repeating' = Repeating
    BY <2>1 DEF Repeating
  <2> QED  BY <2>1, <2>2, LogQuiet
<1>4. CASE \E n \in Commands, h \in BOOLEAN : Add(n, h)
  BY <1>4, AddLogs
<1>5. CASE Answered \/ Lost
  BY <1>5, AnsweredLogs, LostLogs
<1> QED  BY <1>1, <1>2, <1>3, <1>4, <1>5 DEF Next, ExecutorStep, TestStep

\* Whatever is lost or repeated, a VPP sees each command given for its DUT once
\* and in the order given, or twice in a row, whether or not the history is to
\* tell of it.  (add, _execute)
THEOREM LogsTheorem == Spec => LogsCommands
<1>1. Init => Numbered /\ Commanded!LogInit
  <2> SUFFICES ASSUME Init PROVE Numbered /\ Commanded!LogInit
    OBVIOUS
  <2>1. /\ history = [d \in DUTs |-> <<>>] /\ log = [d \in DUTs |-> <<>>] /\ Repeating = {}
        /\ silent = {} /\ Unrecorded = [d \in DUTs |-> {}]
    BY DEF Init, Repeating, Unrecorded
  <2>2. \A d \in DUTs : DOMAIN history[d] = {}
    BY <2>1
  <2> QED  BY <2>1, <2>2 DEF Numbered, Commanded!LogInit, Unrecorded
<1>2. IInv /\ Numbered /\ [Next]_vars => [Commanded!LogNext]_(Commanded!logVars)
  BY StepLogs
<1> QED  BY <1>1, <1>2, Inductive, NumberedStep, PTL DEF Spec, LogsCommands, Commanded!LogSpec
=============================================================================
