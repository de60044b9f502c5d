---------------------------- MODULE PapiExecutor ----------------------------
(***************************************************************************)
(* resources/libraries/python/PapiExecutor.py, class PapiSocketExecutor:   *)
(* one Robot process sends API commands to the VPPs of its DUTs, always    *)
(* through the one client kept as a class field, over an ssh tunnel made   *)
(* for each "with" block.  Every command and every reply passes the        *)
(* checker of VppApiCrc.  Commands get numbers in the order of their add.  *)
(***************************************************************************)
EXTENDS VppApiCrc, Sequences

CONSTANTS DUTs,
          Commands,     \* message names tests use as commands
          ReplyOf,      \* the name of a command's reply
          MaxCommands,  \* bound on the commands of all tests
          MaxBlocks,    \* bound on the "with" blocks of all tests
          MaxFaults     \* bound on what goes wrong

ASSUME CommandAssumption ==
  /\ Commands \subseteq Names /\ ReplyOf \in [Commands -> Names]
  /\ None \notin DUTs
ASSUME BoundAssumption ==
  MaxCommands \in Nat /\ MaxBlocks \in Nat /\ MaxFaults \in Nat

VARIABLES
  build,    \* what the .api.json files say, of all DUTs
  fail,     \* fail_on_mismatch
  crc,      \* cls.crc_checker, or None
  toscan,   \* messages _check_dir has not come to
  client,   \* cls.vpp_instance: created?, server_address, connected to
  pc,       \* what the Robot thread does
  node,     \* self._node of the executor in use
  queue,    \* self._api_command_list
  todo,     \* the rest of local_list in _execute
  retried,  \* the command is sent for the second time
  replies,  \* positions in log the replies of this executor's _execute come from
  names,    \* the names of the commands added so far
  target,   \* the DUT each of them is meant for
  history,  \* PapiHistory of a DUT
  silent,   \* commands added with history=False
  log,      \* the commands a VPP has executed
  lost,     \* commands of which a request or reply was lost
  told,     \* names a test was told about, with the checker that did
  tunnels,  \* ssh processes: socket number -> DUT
  dirs,     \* temporary directories in /tmp
  blocks,   \* number of "with" blocks so far, names their directory
  faults

checkVars == <<build, fail, crc, toscan, told>>
execVars  == <<queue, todo, retried, replies, names, target, history, silent>>
vars == <<checkVars, client, pc, node, execVars, log, lost, tunnels, dirs, blocks, faults>>

NoClient == [created |-> FALSE, address |-> 0, to |-> None]

Init ==
  /\ build \in Builds
  /\ \A n \in Commands : build[n] # None => build[ReplyOf[n]] # None
  /\ fail \in BOOLEAN
  /\ crc = NewChecker /\ toscan = {} /\ told = {}
  /\ client = NoClient
  /\ pc = "idle" /\ node = None
  /\ queue = <<>> /\ todo = <<>> /\ retried = FALSE /\ replies = <<>>
  /\ names = <<>> /\ target = <<>>
  /\ history = [d \in DUTs |-> <<>>] /\ silent = {}
  /\ log = [d \in DUTs |-> <<>>] /\ lost = {}
  /\ tunnels = {} /\ dirs = {} /\ blocks = 0 /\ faults = 0

Fault == faults < MaxFaults /\ faults' = faults + 1

-----------------------------------------------------------------------------
(* initialize_vpp_instance                                                 *)

\* A test makes an executor for a DUT.
NewExecutor(d) ==
  /\ pc = "idle" /\ blocks < MaxBlocks
  /\ blocks' = blocks + 1
  /\ node' = d
  /\ queue' = <<>> /\ replies' = <<>>
  /\ pc' = IF client.created THEN "enter" ELSE "download"
  /\ UNCHANGED <<checkVars, client, todo, retried, names, target, history, silent, log,
                 lost, tunnels, dirs, faults>>

\* The API files are fetched and the checker is created.
Download ==
  /\ pc = "download"
  /\ \/ /\ crc' = NewChecker
        /\ toscan' = {n \in Names : build[n] # None}
        /\ pc' = "scan"
        /\ UNCHANGED faults
     \/ pc' = "idle" /\ Fault /\ UNCHANGED <<crc, toscan>>
  /\ UNCHANGED <<build, fail, told, client, node, execVars, log, lost, tunnels, dirs, blocks>>

\* _check_dir, in the order os.walk happens to give.
Scan(n) ==
  /\ pc = "scan" /\ n \in toscan
  /\ crc' = process_crc(crc, n, build)
  /\ toscan' = toscan \ {n}
  /\ UNCHANGED <<build, fail, told, client, pc, node, execVars, log, lost, tunnels, dirs,
                 blocks, faults>>

\* The client is created, or importing it fails and the next executor starts
\* over with a new checker.
CreateClient ==
  /\ pc = "scan" /\ toscan = {}
  /\ \/ client' = [client EXCEPT !.created = TRUE] /\ pc' = "enter" /\ UNCHANGED faults
     \/ pc' = "idle" /\ Fault /\ UNCHANGED client
  /\ UNCHANGED <<checkVars, node, execVars, log, lost, tunnels, dirs, blocks>>

-----------------------------------------------------------------------------
(* __enter__ and __exit__                                                  *)

\* The ssh process is started; without a local socket after ten seconds the
\* block is never entered, so nothing of it is taken down either.
Enter ==
  /\ pc = "enter"
  /\ dirs' = dirs \cup {blocks}
  /\ tunnels' = tunnels \cup {<<blocks, node>>}
  /\ \/ pc' = "connect" /\ client' = [client EXCEPT !.address = blocks] /\ UNCHANGED faults
     \/ pc' = "idle" /\ Fault /\ UNCHANGED client
  /\ UNCHANGED <<checkVars, node, execVars, log, lost, blocks>>

Reached(a) == {t[2] : t \in {u \in tunnels : u[1] = a}}

\* connect_sync, a second time if the first one fails.
ConnectSync ==
  /\ pc = "connect"
  /\ \/ /\ \E d \in Reached(client.address) : client' = [client EXCEPT !.to = d]
        /\ pc' = "block" /\ UNCHANGED faults
     \/ /\ pc' = "idle" /\ client' = [client EXCEPT !.to = None]
        /\ Fault
  /\ UNCHANGED <<checkVars, node, execVars, log, lost, tunnels, dirs, blocks>>

\* Mutant: the shared client stays connected.
ExitConnected ==
  /\ pc = "exit"
  /\ tunnels' = {t \in tunnels : t[1] # blocks}
  /\ dirs' = dirs \ {blocks}
  /\ pc' = "idle"
  /\ UNCHANGED <<checkVars, client, node, execVars, log, lost, blocks, faults>>

\* __exit__, with or without an exception.
Exit ==
  /\ pc = "exit"
  /\ client' = [client EXCEPT !.to = None]
  /\ tunnels' = {t \in tunnels : t[1] # blocks}
  /\ dirs' = dirs \ {blocks}
  /\ pc' = "idle"
  /\ UNCHANGED <<checkVars, node, execVars, log, lost, blocks, faults>>

\* "sleep 30" ends a tunnel nobody is connected through; that of an open block
\* too, if the time is over when an error closes the connection.
TunnelEnds(t) ==
  /\ ~(client.to # None /\ t[1] = client.address)
  /\ t[1] = blocks => pc \in {"idle", "reconnect"}
  /\ tunnels' = tunnels \ {t}
  /\ UNCHANGED <<checkVars, client, pc, node, execVars, log, lost, dirs, blocks, faults>>

LeaveBlock ==
  /\ pc = "block"
  /\ pc' = "exit"
  /\ UNCHANGED <<checkVars, client, node, execVars, log, lost, tunnels, dirs, blocks, faults>>

-----------------------------------------------------------------------------
(* add and _execute                                                        *)

\* add: pending conflicts are raised first, once; then the command goes to the
\* history, unless the caller said history=False (h), as the loops over routes,
\* tunnels and interfaces do; then its name is checked; only then it is queued.
Add(n, h) ==
  LET start == report_initial_conflicts(crc)
      early == initial_conflicts(crc)
      late  == IF unmatched(start, n, build) THEN {n} ELSE {}
      id    == Len(names) + 1 IN
  /\ pc = "block" /\ id <= MaxCommands
  /\ names' = Append(names, n)
  /\ target' = Append(target, node)
  /\ IF fail /\ early # {}
     THEN /\ told' = told \cup early
          /\ crc' = start
          /\ pc' = "exit"
          /\ UNCHANGED <<history, silent, queue>>
     ELSE /\ told' = told \cup early \cup late
          /\ crc' = check_api_name(start, n, build)
          /\ IF h THEN history' = [history EXCEPT ![node] = Append(@, id)] /\ UNCHANGED silent
             ELSE silent' = silent \cup {id} /\ UNCHANGED history
          /\ IF fail /\ late # {} THEN pc' = "exit" /\ UNCHANGED queue
             ELSE queue' = Append(queue, id) /\ UNCHANGED pc
  /\ UNCHANGED <<build, fail, toscan, client, node, todo, retried, replies, log, lost,
                 tunnels, dirs, blocks, faults>>

\* get_replies, get_reply, get_sw_if_index and get_details: the list is
\* cleared first, as execution may fail.
Execute ==
  /\ pc = "block" /\ queue # <<>>
  /\ todo' = queue /\ queue' = <<>> /\ replies' = <<>> /\ retried' = FALSE
  /\ pc' = "send"
  /\ UNCHANGED <<checkVars, client, node, names, target, history, silent, log, lost, tunnels,
                 dirs, blocks, faults>>

\* The client has no function of that name: AttributeError.
NoSuchMessage ==
  /\ pc = "send" /\ build[names[Head(todo)]] = None
  /\ pc' = "exit"
  /\ UNCHANGED <<checkVars, client, node, execVars, log, lost, tunnels, dirs, blocks, faults>>

\* Mutant: the answer to the first attempt is taken for the second one's.
FirstReply(d) ==
  LET before == {i \in DOMAIN log[d] : log[d][i] = Head(todo)}
  IN  IF before = {} THEN Len(log[d]) + 1 ELSE CHOOSE i \in before : TRUE

\* The reply comes from the execution this request leads to.
ThisReply(d) == Len(log[d]) + 1

\* papi_fn succeeds: VPP executes the command and its answer arrives.  The name
\* of the answer is checked, then retval; both may raise.
Answered ==
  LET id == Head(todo)
      r  == ReplyOf[names[id]]
      d  == client.to IN
  /\ pc = "send" /\ d # None /\ build[names[id]] # None
  /\ log' = [log EXCEPT ![d] = Append(@, id)]
  /\ crc' = check_api_name(crc, r, build)
  /\ told' = IF unmatched(crc, r, build) THEN told \cup {r} ELSE told
  /\ todo' = Tail(todo)
  /\ retried' = FALSE
  /\ \/ /\ ~(fail /\ unmatched(crc, r, build))
        /\ replies' = Append(replies, ThisReply(d))
        /\ pc' = IF Len(todo) = 1 THEN "block" ELSE "send"
        /\ UNCHANGED faults
     \/ /\ fail /\ unmatched(crc, r, build)
        /\ pc' = "exit" /\ UNCHANGED <<replies, faults>>
     \/ pc' = "exit" /\ Fault /\ UNCHANGED replies
  /\ UNCHANGED <<build, fail, toscan, client, node, queue, names, target, history, silent,
                 lost, tunnels, dirs, blocks>>

\* Mutant: there is no limit to the repetitions.
ReconnectAlways ==
  /\ pc = "send"
  /\ client' = [client EXCEPT !.to = None]
  /\ retried' = FALSE
  /\ pc' = "reconnect"

\* The first error of a command: disconnect and try again.
Reconnect ==
  /\ pc = "send" /\ ~retried
  /\ client' = [client EXCEPT !.to = None]
  /\ retried' = TRUE
  /\ pc' = "reconnect"

\* The second one: AssertionError.
GiveUp ==
  /\ pc = "send" /\ retried
  /\ pc' = "exit"
  /\ UNCHANGED <<client, retried>>

\* papi_fn fails with an IOError: either the request or the reply got lost.
Lost ==
  /\ pc = "send" /\ client.to # None /\ build[names[Head(todo)]] # None
  /\ Fault
  /\ \/ log' = [log EXCEPT ![client.to] = Append(@, Head(todo))]
     \/ UNCHANGED log
  /\ lost' = lost \cup {Head(todo)}
  /\ Reconnect \/ GiveUp
  /\ UNCHANGED <<checkVars, node, queue, todo, replies, names, target, history, silent,
                 tunnels, dirs, blocks>>

\* Mutant: connecting is repeated until it works.
ReconnectForever ==
  /\ pc = "reconnect"
  /\ \E d \in Reached(client.address) : client' = [client EXCEPT !.to = d]
  /\ pc' = "send"
  /\ UNCHANGED <<checkVars, node, execVars, log, lost, tunnels, dirs, blocks, faults>>

\* connect_sync to the same local socket, once.
ReconnectSync ==
  /\ pc = "reconnect"
  /\ \/ /\ \E d \in Reached(client.address) : client' = [client EXCEPT !.to = d]
        /\ pc' = "send" /\ UNCHANGED faults
     \/ /\ pc' = "exit" /\ UNCHANGED client
        /\ IF Reached(client.address) = {} THEN UNCHANGED faults ELSE Fault
  /\ UNCHANGED <<checkVars, node, execVars, log, lost, tunnels, dirs, blocks>>

-----------------------------------------------------------------------------
ExecutorStep ==
  \/ Download \/ (\E n \in toscan : Scan(n)) \/ CreateClient
  \/ Enter \/ ConnectSync \/ Exit
  \/ NoSuchMessage \/ Answered \/ Lost \/ ReconnectSync

TestStep ==
  \/ \E d \in DUTs : NewExecutor(d)
  \/ \E n \in Commands, h \in BOOLEAN : Add(n, h)
  \/ Execute \/ LeaveBlock

Next ==
  \/ ExecutorStep \/ TestStep
  \/ \E t \in tunnels : TunnelEnds(t)

Spec == Init /\ [][Next]_vars

\* The Robot thread goes on; sleep 30 ends.
FairSpec ==
  /\ Spec
  /\ WF_vars(ExecutorStep) /\ WF_vars(LeaveBlock)
  /\ WF_vars(\E t \in tunnels : TunnelEnds(t))

-----------------------------------------------------------------------------
(* Properties.                                                             *)

TypeOK ==
  /\ build \in Builds /\ fail \in BOOLEAN
  /\ crc \in Checkers /\ toscan \subseteq Names /\ told \subseteq Names
  /\ client \in [created : BOOLEAN, address : 0 .. MaxBlocks, to : DUTs \cup {None}]
  /\ node \in DUTs \cup {None}
  /\ pc \in {"idle", "download", "scan", "enter", "connect", "block", "send",
             "reconnect", "exit"}
  /\ queue \in Seq(1 .. MaxCommands) /\ todo \in Seq(1 .. MaxCommands)
  /\ retried \in BOOLEAN /\ replies \in Seq(Nat)
  /\ names \in Seq(Commands) /\ target \in Seq(DUTs)
  /\ Len(names) = Len(target) /\ Len(names) <= MaxCommands
  /\ history \in [DUTs -> Seq(1 .. MaxCommands)] /\ silent \subseteq 1 .. MaxCommands
  /\ log \in [DUTs -> Seq(1 .. MaxCommands)] /\ lost \subseteq 1 .. MaxCommands
  /\ tunnels \subseteq (1 .. MaxBlocks) \X DUTs
  /\ dirs \subseteq 1 .. MaxBlocks /\ blocks \in 0 .. MaxBlocks
  /\ faults \in 0 .. MaxFaults

Times(id, d) == Cardinality({i \in DOMAIN log[d] : log[d][i] = id})

\* A VPP gets what tests added for its DUT, in that order, none of it left over
\* from a list that failed, and the history of the DUT tells of it unless the
\* test chose that it should not; a command is executed at most twice, and
\* twice only if an error was seen ("hoping repeated command execution does not
\* lead to surprises").
ExecutedAsRecorded ==
  \A d \in DUTs :
    /\ \A i, j \in DOMAIN log[d] : i < j => log[d][i] <= log[d][j]
    /\ \A i \in DOMAIN log[d] :
         LET id == log[d][i] IN
         /\ target[id] = d
         /\ id \in silent \/ \E k \in DOMAIN history[d] : history[d][k] = id
         /\ Times(id, d) <= IF id \in lost THEN 2 ELSE 1

\* The replies a test works with (a sw_if_index, say) are those of the last
\* execution of each command, so a repeated command leaves an object behind
\* that no test knows, never a reply to something else.
RepliesAreLatest ==
  pc = "block" =>
    \A k \in DOMAIN replies :
      \A i \in DOMAIN log[node] : i > replies[k] => log[node][i] # log[node][replies[k]]

\* No test sends a command CSIT has no checksum for without a test having been
\* told, whatever collections were dropped before.
UnverifiedTold ==
  \A d \in DUTs : \A i \in DOMAIN log[d] :
    ~Verified(names[log[d][i]], build) => names[log[d][i]] \in told

\* A build that fits a collection is never complained about: the collection
\* outlives every scan and every command, in any order of the files.
FittingBuildAccepted ==
  (\E c \in Collections :
     Fits(c, build, Commands \cup {ReplyOf[n] : n \in Commands})) => told = {}

\* Directories outlive their block only if the block was never entered; a
\* client is never connected when no block is open.
LeftoversExplained ==
  pc = "idle" => /\ client.to = None
                 /\ Cardinality(dirs) <= faults

\* The DUT whose VPP may get the command it has executed last once more.
Repeating ==
  {d \in DUTs : /\ pc \in {"send", "reconnect"} /\ retried /\ d = node
                /\ log[d] # <<>> /\ log[d][Len(log[d])] = todo[1]}

Commanded == INSTANCE CommandLog WITH
  Ids <- 1 .. MaxCommands, recorded <- history, executed <- log, again <- Repeating,
  unrecorded <- [d \in DUTs |-> {id \in silent : target[id] = d}]

\* Whatever is lost, a VPP sees each command once and in order, or twice in a row.
\* (add, _execute)
LogsCommands == Commanded!LogSpec

\* Every block is left, whatever is lost, and no tunnel stays for ever.
BlocksEnd ==
  /\ []<>(pc = "idle")
  /\ (pc = "idle" /\ blocks = MaxBlocks) ~> (tunnels = {})
=============================================================================
