-------------------------------- MODULE SSH --------------------------------
(***************************************************************************)
(* resources/libraries/python/ssh.py: the connections of one Robot process *)
(* to the nodes of its testbed.  SSH.__existing_connections keeps one      *)
(* paramiko client per node; each user (an SSH object of a thread) borrows *)
(* it.  exec_cmd, exec_cmd_no_error and scp_node are calls of several      *)
(* steps, because threads run side by side and links break at any time.    *)
(***************************************************************************)
EXTENDS Naturals, FiniteSets

CONSTANTS Nodes,       \* hosts with an SSH server
          Users,       \* threads, each with one SSH object at a time
          NodeOf,      \* the node a user talks to
          MaxFaults    \* bound on what goes wrong

ASSUME UserAssumption == NodeOf \in [Users -> Nodes]
ASSUME FaultAssumption == MaxFaults \in Nat

VARIABLES
  conns,    \* SSH.__existing_connections: the cached client of a node, or 0
  made,     \* number of clients ever created for a node
  open,     \* clients that are connected and not closed
  link,     \* state of the newest client's transport
  reach,    \* the node accepts connections
  ssh,      \* self._ssh of a user, or 0
  call,     \* the call a user is in, and its stage
  running,  \* commands that execute on the nodes
  faults

connVars == <<conns, made, open, link, ssh>>
sshVars  == <<conns, made, open, link, reach, ssh, call, running, faults>>

\* "stale": the peer is gone and is_active() does not know it yet.
LinkStates == {"active", "stale", "inactive"}

Stages == {"idle", "connect", "open", "exec", "wait", "copy"}

\* How a call ends: return code 0; another one, None or an SCPException, which
\* exec_cmd_no_error and scp_node turn into a RuntimeError; or an exception
\* (IOError, SSHTimeout, SSHException from scp) they let through.
Outcomes == {"none", "ok", "RuntimeError", "raised"}

NoCall == [op |-> "none", stage |-> "idle", outcome |-> "none"]

SSHInit ==
  /\ conns = [n \in Nodes |-> 0]
  /\ made = [n \in Nodes |-> 0]
  /\ open = [n \in Nodes |-> {}]
  /\ link = [n \in Nodes |-> "active"]
  /\ reach = [n \in Nodes |-> TRUE]
  /\ ssh = [u \in Users |-> 0]
  /\ call = [u \in Users |-> NoCall]
  /\ running = {}
  /\ faults = 0

Fault == faults < MaxFaults /\ faults' = faults + 1

Stage(u, s) == call' = [call EXCEPT ![u].stage = s]

End(u, o) == call' = [call EXCEPT ![u].stage = "idle", ![u].outcome = o]

-----------------------------------------------------------------------------
(* Connections.                                                            *)

Connected(n) == conns[n] # 0

\* Mutant: the client of a broken connection is not closed.
DisconnectWithoutClose(n) == <<0, open[n]>>

\* disconnect(node): the new cache entry and the clients that stay open.
disconnect(n) == <<0, open[n] \ {conns[n]}>>

\* The part of connect() that opens a connection, after a disconnect of the
\* cached one if there is any; the call goes on at the given stage.
NewConnection(u, n, next) ==
  /\ reach[n]
  /\ made' = [made EXCEPT ![n] = @ + 1]
  /\ open' = [open EXCEPT ![n] = disconnect(n)[2] \cup {made[n] + 1}]
  /\ conns' = [conns EXCEPT ![n] = made[n] + 1]
  /\ link' = [link EXCEPT ![n] = "active"]
  /\ ssh' = [ssh EXCEPT ![u] = made[n] + 1]
  /\ Stage(u, next)

\* It raises an IOError; the callers expect an SSHException and let it through.
ConnectionFails(u, n) ==
  /\ ~reach[n]
  /\ conns' = [conns EXCEPT ![n] = disconnect(n)[1]]
  /\ open' = [open EXCEPT ![n] = disconnect(n)[2]]
  /\ ssh' = [ssh EXCEPT ![u] = 0]
  /\ End(u, "raised")
  /\ UNCHANGED <<made, link>>

\* connect(node): a cached client is used if its transport says it is active,
\* is replaced once if not, and a node without one gets a new client.
\* Looking into the cache, connecting and storing the client are one step:
\* the cache has one entry per node, and a node has one thread at a time.
Connect(u, next) ==
  LET n == NodeOf[u] IN
  /\ call[u].stage = "connect"
  /\ \/ /\ Connected(n) /\ link[n] # "inactive"
        /\ ssh' = [ssh EXCEPT ![u] = conns[n]]
        /\ Stage(u, next)
        /\ UNCHANGED <<conns, made, open, link>>
     \/ /\ ~Connected(n) \/ link[n] = "inactive"
        /\ NewConnection(u, n, next) \/ ConnectionFails(u, n)
  /\ UNCHANGED <<reach, running, faults>>

-----------------------------------------------------------------------------
(* Calls.                                                                  *)

\* Is the client the user holds open, and its peer there?
Usable(u) == ssh[u] \in open[NodeOf[u]] /\ link[NodeOf[u]] = "active"

Begin(u, op) ==
  call' = [call EXCEPT ![u] = [op |-> op, stage |-> "connect",
                               outcome |-> "none"]]

\* exec_command opens a channel; if that fails it reconnects (with attempts=0,
\* which is enough as the disconnect empties the cache) and opens it again.
OpenSession(u) ==
  LET n == NodeOf[u] IN
  /\ call[u].stage = "open"
  /\ \/ /\ Usable(u)
        /\ Stage(u, "exec")
        /\ UNCHANGED <<conns, made, open, link, ssh>>
     \/ /\ ~Usable(u)
        /\ NewConnection(u, n, "exec") \/ ConnectionFails(u, n)
  /\ UNCHANGED <<reach, running, faults>>

\* chan.exec_command.  When the link is lost under it the node may have got the
\* command or not; exec_cmd logs the SSHException and returns None.
Exec(u) ==
  /\ call[u].stage = "exec"
  /\ \/ /\ Usable(u)
        /\ running' = running \cup {[user |-> u, op |-> call[u].op]}
        /\ call' = [call EXCEPT ![u].stage = "wait"]
     \/ /\ ~Usable(u)
        /\ \/ UNCHANGED running /\ End(u, "RuntimeError")
           \/ /\ running' = running \cup {[user |-> u, op |-> call[u].op]}
              /\ call' = [call EXCEPT ![u].stage = "idle",
                                      ![u].outcome = "RuntimeError"]
  /\ UNCHANGED <<connVars, reach, faults>>

\* The node is done with command c; its user, if still waiting, gets the code.
CommandEnds(c, code) ==
  /\ running' = running \ {c}
  /\ IF call[c.user].stage = "wait" /\ call[c.user].op = c.op /\ Usable(c.user)
     THEN End(c.user, IF code = 0 THEN "ok" ELSE "RuntimeError")
     ELSE UNCHANGED call

\* Mutant: no timeout while the link is not known to be gone (timeout=None).
ChannelWaits(u) ==
  /\ call[u].stage = "wait"
  /\ ~Usable(u) /\ link[NodeOf[u]] = "inactive"
  /\ End(u, "RuntimeError")
  /\ UNCHANGED <<connVars, reach, running, faults>>

\* A channel whose link is gone reports exit status -1 once that is noticed,
\* if the time is not up before.
ChannelLost(u) ==
  /\ call[u].stage = "wait"
  /\ ~Usable(u)
  /\ End(u, "RuntimeError") \/ End(u, "raised")
  /\ UNCHANGED <<connVars, reach, running, faults>>

\* SSHTimeout of a command that takes too long: it goes on on the node, the exception is let through.
Timeout(u) ==
  /\ call[u].stage = "wait"
  /\ Fault
  /\ End(u, "raised")
  /\ UNCHANGED <<connVars, reach, running>>

\* scp on a connection that is gone: SCPException or SSHException.
CopyLost(u) ==
  /\ call[u].stage = "copy"
  /\ ~Usable(u)
  /\ End(u, "RuntimeError") \/ End(u, "raised")
  /\ UNCHANGED <<connVars, reach, running, faults>>

-----------------------------------------------------------------------------
(* The environment.                                                        *)

\* A peer goes away (the link or the machine fails).
LinkLost(n) ==
  /\ Connected(n) /\ link[n] = "active"
  /\ Fault
  /\ link' = [link EXCEPT ![n] = "stale"]
  /\ \/ UNCHANGED reach
     \/ reach' = [reach EXCEPT ![n] = FALSE]
  /\ UNCHANGED <<conns, made, open, ssh, call, running>>

\* The keepalive finds out.
LinkNoticed(n) ==
  /\ link[n] = "stale"
  /\ link' = [link EXCEPT ![n] = "inactive"]
  /\ UNCHANGED <<conns, made, open, reach, ssh, call, running, faults>>

NodeDown(n) ==
  /\ reach[n] /\ ~Connected(n)
  /\ Fault
  /\ reach' = [reach EXCEPT ![n] = FALSE]
  /\ UNCHANGED <<connVars, call, running>>

NodeUp(n) ==
  /\ ~reach[n]
  /\ reach' = [reach EXCEPT ![n] = TRUE]
  /\ UNCHANGED <<connVars, call, running, faults>>

SSHTypeOK ==
  /\ made \in [Nodes -> Nat]
  /\ conns \in [Nodes -> Nat]
  /\ open \in [Nodes -> SUBSET Nat]
  /\ link \in [Nodes -> LinkStates]
  /\ reach \in [Nodes -> BOOLEAN]
  /\ ssh \in [Users -> Nat]
  /\ faults \in 0 .. MaxFaults

\* Connections do not pile up: the only client of a node that is open is the
\* one in the cache, whoever connected, lost or reopened it.
OneConnection ==
  \A n \in Nodes : open[n] \subseteq {conns[n]} \ {0}

=============================================================================
