------------------------- MODULE DeviceReservation -------------------------
(***************************************************************************)
(* Reservation of virtual functions (VFs) for vpp_device jobs (device.sh,  *)
(* and activate_docker_topology / deactivate_docker_topology of common.sh  *)
(* in the 1n_skx and 1n_tx2 flavours).                                     *)
(*                                                                         *)
(* All jobs of a server run activate_wrapper and deactivate_wrapper over   *)
(* ssh in the same shim container, where a flock on /tmp/mutex_file        *)
(* excludes them from each other.  A VF is free when its network device is *)
(* seen in the host's namespace; a job takes it by moving the device into  *)
(* the namespace of its container, and gives it back by removing the       *)
(* container and binding the VF to its kernel driver again.                *)
(*                                                                         *)
(* The VFs of the TG side and of the DUT1 side form pairs (the DUT1 name   *)
(* is computed from the TG name).  A VF is <<side, number of the pair>>.   *)
(***************************************************************************)
EXTENDS Integers, FiniteSets

CONSTANTS Jobs,
          Pairs,       \* number of VF pairs of the server
          MaxFaults    \* bound on failing commands, exiting containers and kills

ASSUME PairsAssumption == Pairs \in Nat

ASSUME MaxFaultsAssumption == MaxFaults \in Nat

Host    == "host"      \* kernel driver, device in the host's namespace
User    == "user"      \* userspace driver, no network device
Unbound == "unbound"   \* no driver at all
Free    == "free"      \* the flock is not held

ASSUME JobsAssumption == Jobs \cap {Host, User, Unbound, Free} = {}

VARIABLES pc,       \* pc[j]: what the scripts of job j do next
          mutex,    \* holder of the flock
          at,       \* at[v]: where VF v is; a job stands for its container
          up,       \* up[j]: the sides whose container of j runs
          netdevs,  \* netdevs[j]: the two pairs of TG_NETDEVS and DUT1_NETDEVS
          pcidevs,  \* pcidevs[j]: the VFs of TG_PCIDEVS, then of DUT1_PCIDEVS
          step,     \* step[j]: which of the four interfaces a loop is at
          trapped,  \* trapped[j]: clean_environment_on_exit is the EXIT trap
          faults,
          exited    \* some container has exited by itself

vars == <<pc, mutex, at, up, netdevs, pcidevs, step, trapped, faults, exited>>

Sides == {"tg", "dut1"}
VFs   == Sides \X (1 .. Pairs)

\* Steps made while holding the flock.
Activating   == {"select", "start_tg", "start_dut1", "inspect", "bind", "export"}
Deactivating == {"rm", "rebind", "leave"}

Init ==
  /\ pc = [j \in Jobs |-> "idle"]
  /\ mutex = Free
  /\ at = [v \in VFs |-> Host]
  /\ up = [j \in Jobs |-> {}]
  /\ netdevs = [j \in Jobs |-> <<>>]
  /\ pcidevs = [j \in Jobs |-> <<>>]
  /\ step = [j \in Jobs |-> 1]
  /\ trapped = [j \in Jobs |-> FALSE]
  /\ faults = 0
  /\ exited = FALSE

Goto(j, l) == pc' = [pc EXCEPT ![j] = l]

Fault == faults < MaxFaults /\ faults' = faults + 1

\* die: the shell exits, which closes lock_fd.  If clean_environment_on_exit is
\* installed it does nothing: it tests $? after "set -exuo pipefail", which is 0.
Die(j) == Goto(j, "failed") /\ mutex' = Free

-----------------------------------------------------------------------------
(* activate_wrapper, in the shim.                                          *)

EnterMutex(j) ==
  /\ mutex = Free
  /\ \/ pc[j] = "idle" /\ Goto(j, "select")
     \/ pc[j] = "deactivate" /\ Goto(j, "rm")
  /\ mutex' = j
  /\ UNCHANGED <<at, up, netdevs, pcidevs, step, trapped, faults, exited>>

\* flock --timeout runs out while another job holds the lock.
MutexTimeout(j) ==
  /\ pc[j] \in {"idle", "deactivate"}
  /\ mutex # Free
  /\ Fault
  /\ Goto(j, "failed")
  /\ UNCHANGED <<mutex, at, up, netdevs, pcidevs, step, trapped, exited>>

FreePairs == {k \in 1 .. Pairs : at[<<"tg", k>>] = Host}

\* k and m are the first two TG devices found.
FirstTwo(k, m) ==
  /\ k \in FreePairs /\ m \in FreePairs /\ k < m
  /\ \A n \in FreePairs : n \in {k, m} \/ m < n

\* PCI_ADDR after get_pci_addr: unchanged when the device is not in the namespace.
get_pci_addr(netdev, PCI_ADDR) == IF at[netdev] = Host THEN netdev ELSE PCI_ADDR

\* get_available_interfaces: only TG devices are looked for, the DUT1 devices
\* are their partners.
get_available_interfaces(j) ==
  /\ pc[j] = "select"
  /\ \E k, m \in 1 .. Pairs :
       LET tg1   == <<"tg", k>>
           tg2   == <<"tg", m>>
           dut1a == get_pci_addr(<<"dut1", k>>, tg2)
           dut1b == get_pci_addr(<<"dut1", m>>, dut1a)
       IN  /\ FirstTwo(k, m)
           /\ netdevs' = [netdevs EXCEPT ![j] = <<k, m>>]
           /\ pcidevs' = [pcidevs EXCEPT ![j] = <<tg1, tg2, dut1a, dut1b>>]
  /\ Goto(j, "start_tg")
  /\ UNCHANGED <<mutex, at, up, step, trapped, faults, exited>>

\* "Not enough linux network interfaces found!"
NotEnoughInterfaces(j) ==
  /\ pc[j] = "select"
  /\ Cardinality(FreePairs) < 2
  /\ Die(j)
  /\ UNCHANGED <<at, up, netdevs, pcidevs, step, trapped, faults, exited>>

\* start_topology_containers: two containers, then the trap.
StartTg(j) ==
  /\ pc[j] = "start_tg"
  /\ up' = [up EXCEPT ![j] = @ \cup {"tg"}]
  /\ Goto(j, "start_dut1")
  /\ UNCHANGED <<mutex, at, netdevs, pcidevs, step, trapped, faults, exited>>

StartDut1(j) ==
  /\ pc[j] = "start_dut1"
  /\ up' = [up EXCEPT ![j] = @ \cup {"dut1"}]
  /\ trapped' = [trapped EXCEPT ![j] = TRUE]
  /\ Goto(j, "inspect")
  /\ UNCHANGED <<mutex, at, netdevs, pcidevs, step, faults, exited>>

\* docker port and docker inspect of both containers.
Inspect(j) ==
  /\ pc[j] = "inspect"
  /\ up[j] = Sides
  /\ step' = [step EXCEPT ![j] = 1]
  /\ Goto(j, "bind")
  /\ UNCHANGED <<mutex, at, up, netdevs, pcidevs, trapped, faults, exited>>

InspectFails(j) ==
  /\ pc[j] = "inspect"
  /\ up[j] # Sides
  /\ Die(j)
  /\ UNCHANGED <<at, up, netdevs, pcidevs, step, trapped, faults, exited>>

\* docker run, port or inspect fails.
DockerFails(j) ==
  /\ pc[j] \in {"start_tg", "start_dut1", "inspect"}
  /\ Fault
  /\ Die(j)
  /\ UNCHANGED <<at, up, netdevs, pcidevs, step, trapped, exited>>

\* The interface bind_interfaces_to_containers is at.
Side(i)      == IF i <= 2 THEN "tg" ELSE "dut1"
Netdev(j, i) == <<Side(i), netdevs[j][IF i <= 2 THEN i ELSE i - 2]>>

\* Mutant: a device that is not there is skipped.
MoveSkips(j) ==
  /\ pc[j] = "bind"
  /\ at' = IF at[Netdev(j, step[j])] = Host /\ Side(step[j]) \in up[j]
           THEN [at EXCEPT ![Netdev(j, step[j])] = j] ELSE at
  /\ step' = [step EXCEPT ![j] = @ + 1]
  /\ Goto(j, IF step[j] = 4 THEN "export" ELSE "bind")
  /\ UNCHANGED <<mutex, up, netdevs, pcidevs, trapped, faults, exited>>

\* bind_interfaces_to_containers: ip link set, and the link in the container.
MoveInterface(j) ==
  /\ pc[j] = "bind"
  /\ at[Netdev(j, step[j])] = Host
  /\ Side(step[j]) \in up[j]
  /\ at' = [at EXCEPT ![Netdev(j, step[j])] = j]
  /\ step' = [step EXCEPT ![j] = @ + 1]
  /\ Goto(j, IF step[j] = 4 THEN "export" ELSE "bind")
  /\ UNCHANGED <<mutex, up, netdevs, pcidevs, trapped, faults, exited>>

\* "Moving interface to namespace failed!": the device or the container is gone.
MoveImpossible(j) ==
  /\ pc[j] = "bind"
  /\ at[Netdev(j, step[j])] # Host \/ Side(step[j]) \notin up[j]
  /\ Die(j)
  /\ UNCHANGED <<at, up, netdevs, pcidevs, step, trapped, faults, exited>>

\* The move, or the link after it, fails.
MoveFails(j) ==
  /\ pc[j] = "bind"
  /\ at[Netdev(j, step[j])] = Host
  /\ Side(step[j]) \in up[j]
  /\ Fault
  /\ \/ UNCHANGED at
     \/ at' = [at EXCEPT ![Netdev(j, step[j])] = j]
  /\ Die(j)
  /\ UNCHANGED <<up, netdevs, pcidevs, step, trapped, exited>>

\* set_env_variables, print_env_variables and exit_mutex; the shell ends.
ExportAndLeave(j) ==
  /\ pc[j] = "export"
  /\ mutex' = Free
  /\ trapped' = [trapped EXCEPT ![j] = FALSE]
  /\ Goto(j, "activated")
  /\ UNCHANGED <<at, up, netdevs, pcidevs, step, faults, exited>>

-----------------------------------------------------------------------------
(* The job.                                                                *)

\* activate_docker_topology goes on: the trap, the topology file, the tests.
InstallTrap(j) ==
  /\ pc[j] = "activated"
  /\ Goto(j, "tests")
  /\ UNCHANGED <<mutex, at, up, netdevs, pcidevs, step, trapped, faults, exited>>

\* The output of ssh is lost or the job is killed without running its trap.
JobLost(j) ==
  /\ pc[j] \in {"activated", "tests"}
  /\ Fault
  /\ Goto(j, "failed")
  /\ UNCHANGED <<mutex, at, up, netdevs, pcidevs, step, trapped, exited>>

\* The PCI addresses the job was given for a node.
NodeDevs(j, side) == {pcidevs[j][i] : i \in {n \in 1 .. 4 : Side(n) = side}}

\* A test binds the VFs of a node to a userspace driver; nobody else sees a
\* difference between the steps of this loop.
BindUserDriver(j) ==
  /\ pc[j] = "tests"
  /\ \E side \in up[j] :
       /\ \E v \in NodeDevs(j, side) : at[v] # User
       /\ \A v \in NodeDevs(j, side) : at[v] # Unbound
       /\ at' = [v \in VFs |-> IF v \in NodeDevs(j, side) THEN User ELSE at[v]]
  /\ UNCHANGED <<pc, mutex, up, netdevs, pcidevs, step, trapped, faults, exited>>

\* The bind after an unbind fails.
BindUserFails(j) ==
  /\ pc[j] = "tests"
  /\ Fault
  /\ \E side \in up[j] :
       \E v \in NodeDevs(j, side) : at' = [at EXCEPT ![v] = Unbound]
  /\ UNCHANGED <<pc, mutex, up, netdevs, pcidevs, step, trapped, exited>>

\* The tests end, well or not: deactivate_docker_topology runs as the EXIT trap.
TestsEnd(j) ==
  /\ pc[j] = "tests"
  /\ Goto(j, "deactivate")
  /\ UNCHANGED <<mutex, at, up, netdevs, pcidevs, step, trapped, faults, exited>>

\* A container exits by itself and is removed (--rm): its devices come back.
Returned(j, sides) ==
  [v \in VFs |-> IF at[v] = j /\ v[1] \in sides THEN Host ELSE at[v]]

ContainerExits(j) ==
  /\ Fault
  /\ \E side \in up[j] :
       /\ up' = [up EXCEPT ![j] = @ \ {side}]
       /\ at' = Returned(j, {side})
  /\ exited' = TRUE
  /\ UNCHANGED <<pc, mutex, netdevs, pcidevs, step, trapped>>

-----------------------------------------------------------------------------
(* deactivate_wrapper, in the shim.                                        *)

\* Mutant: a container that is not there does not stop the cleanup.
RemoveForced(j) ==
  /\ pc[j] = "rm"
  /\ at' = Returned(j, up[j])
  /\ up' = [up EXCEPT ![j] = {}]
  /\ step' = [step EXCEPT ![j] = 1]
  /\ Goto(j, "rebind")
  /\ UNCHANGED <<mutex, netdevs, pcidevs, trapped, faults, exited>>

\* docker rm --force of both containers.
RemoveContainers(j) ==
  /\ pc[j] = "rm"
  /\ up[j] = Sides
  /\ at' = Returned(j, Sides)
  /\ up' = [up EXCEPT ![j] = {}]
  /\ step' = [step EXCEPT ![j] = 1]
  /\ Goto(j, "rebind")
  /\ UNCHANGED <<mutex, netdevs, pcidevs, trapped, faults, exited>>

\* "Cleanup containers failed!": one is not there; the other one is removed.
\* Whether docker rm --force fails then depends on its version; one that does
\* not goes on as RemoveForced does, and the properties it breaks are lost.
ContainerMissing(j) ==
  /\ pc[j] = "rm"
  /\ up[j] # Sides
  /\ at' = Returned(j, up[j])
  /\ up' = [up EXCEPT ![j] = {}]
  /\ Die(j)
  /\ UNCHANGED <<netdevs, pcidevs, step, trapped, faults, exited>>

\* docker rm fails and removes any of them.
RemoveFails(j) ==
  /\ pc[j] = "rm"
  /\ Fault
  /\ \E sides \in SUBSET up[j] :
       /\ at' = Returned(j, sides)
       /\ up' = [up EXCEPT ![j] = @ \ sides]
  /\ Die(j)
  /\ UNCHANGED <<netdevs, pcidevs, step, trapped, exited>>

\* Mutant: only the interfaces of TG are bound back.
RebindTgOnly(j) ==
  /\ pc[j] = "rebind"
  /\ at[pcidevs[j][step[j]]] # Unbound
  /\ at' = [at EXCEPT ![pcidevs[j][step[j]]] = Host]
  /\ step' = [step EXCEPT ![j] = @ + 1]
  /\ Goto(j, IF step[j] = 2 THEN "leave" ELSE "rebind")
  /\ UNCHANGED <<mutex, up, netdevs, pcidevs, trapped, faults, exited>>

\* bind_interfaces_to_driver: unbind, then bind to the kernel driver.
Rebind(j) ==
  /\ pc[j] = "rebind"
  /\ at[pcidevs[j][step[j]]] # Unbound
  /\ at' = [at EXCEPT ![pcidevs[j][step[j]]] = Host]
  /\ step' = [step EXCEPT ![j] = @ + 1]
  /\ Goto(j, IF step[j] = 4 THEN "leave" ELSE "rebind")
  /\ UNCHANGED <<mutex, up, netdevs, pcidevs, trapped, faults, exited>>

\* "Failed to unbind interface!": it has no driver.
RebindImpossible(j) ==
  /\ pc[j] = "rebind"
  /\ at[pcidevs[j][step[j]]] = Unbound
  /\ Die(j)
  /\ UNCHANGED <<at, up, netdevs, pcidevs, step, trapped, faults, exited>>

\* "Failed to unbind interface!" or "Failed to bind interface!"
RebindFails(j) ==
  /\ pc[j] = "rebind"
  /\ Fault
  /\ \/ UNCHANGED at
     \/ at' = [at EXCEPT ![pcidevs[j][step[j]]] = Unbound]
  /\ Die(j)
  /\ UNCHANGED <<up, netdevs, pcidevs, step, trapped, exited>>

\* Mutant: the shell stays and the flock with it.
ExitMutexForgotten(j) ==
  /\ pc[j] = "leave"
  /\ Goto(j, "done")
  /\ UNCHANGED <<mutex, at, up, netdevs, pcidevs, step, trapped, faults, exited>>

ExitMutex(j) ==
  /\ pc[j] = "leave"
  /\ mutex' = Free
  /\ Goto(j, "done")
  /\ UNCHANGED <<at, up, netdevs, pcidevs, step, trapped, faults, exited>>

-----------------------------------------------------------------------------
\* The steps the scripts take by themselves.
Script(j) ==
  \/ EnterMutex(j) \/ get_available_interfaces(j) \/ NotEnoughInterfaces(j)
  \/ StartTg(j) \/ StartDut1(j) \/ Inspect(j) \/ InspectFails(j)
  \/ MoveInterface(j) \/ MoveImpossible(j) \/ ExportAndLeave(j)
  \/ InstallTrap(j) \/ TestsEnd(j)
  \/ RemoveContainers(j) \/ ContainerMissing(j)
  \/ Rebind(j) \/ RebindImpossible(j) \/ ExitMutex(j)

Mishap(j) ==
  \/ MutexTimeout(j) \/ DockerFails(j) \/ MoveFails(j) \/ JobLost(j) \/ BindUserFails(j)
  \/ ContainerExits(j) \/ RemoveFails(j) \/ RebindFails(j)

Next == \E j \in Jobs : Script(j) \/ BindUserDriver(j) \/ Mishap(j)

Spec == Init /\ [][Next]_vars

\* Jobs are processes of their own; bash and docker go on and tests end.  A job
\* asks for the flock at most twice, so weak fairness is enough to get it.
FairSpec == Spec /\ \A j \in Jobs : WF_vars(Script(j))

-----------------------------------------------------------------------------
(* Properties.                                                             *)

PCs == {"idle", "activated", "tests", "deactivate", "done", "failed"}
         \cup Activating \cup Deactivating

TypeOK ==
  /\ pc \in [Jobs -> PCs]
  /\ mutex \in Jobs \cup {Free}
  /\ at \in [VFs -> Jobs \cup {Host, User, Unbound}]
  /\ up \in [Jobs -> SUBSET Sides]
  /\ netdevs \in [Jobs -> {<<>>} \cup (1 .. Pairs) \X (1 .. Pairs)]
  /\ pcidevs \in [Jobs -> {<<>>} \cup VFs \X VFs \X VFs \X VFs]
  /\ \A j \in Jobs : /\ netdevs[j] = <<>> <=> pcidevs[j] = <<>>
                     /\ pc[j] \in {"idle", "select"} => netdevs[j] = <<>>
                     /\ pc[j] \notin {"idle", "select", "failed"} => netdevs[j] # <<>>
  /\ step \in [Jobs -> 1 .. 5]
  /\ trapped \in [Jobs -> BOOLEAN]
  /\ faults \in 0 .. MaxFaults
  /\ exited \in BOOLEAN

Given(j) == {pcidevs[j][i] : i \in 1 .. 4}

\* Jobs that work on the VFs they were given.
Working(j) == pc[j] \in {"activated", "tests", "deactivate"} /\ up[j] = Sides

\* test_environment.rst: "Mutal exclusion ensure that no two distinct instances
\* of script will get same resource list."  Two jobs whose containers run never
\* have a VF in common, whatever has failed before.
ExclusiveVFs ==
  \A j, k \in Jobs : j # k /\ Working(j) /\ Working(k) => Given(j) \cap Given(k) = {}

\* "DUT1_PCIDEVS - List of PCI addresses allocated to DUT1 container": a job gets
\* the DUT1 VFs that are wired to its TG VFs, although get_pci_addr leaves the
\* address of another device when a partner is not there.
AddressesAllocated ==
  \A j \in Jobs : Working(j) =>
    pcidevs[j] = <<Netdev(j, 1), Netdev(j, 2), Netdev(j, 3), Netdev(j, 4)>>

\* While containers only go when a job removes them, this is so whatever fails:
\* a partner left behind by a half-finished cleanup makes the move fail.
WiredTogether == ~exited => AddressesAllocated

\* A cleanup never takes a VF out of the container of another job, and never
\* unbinds the userspace driver under it.
OthersUndisturbed ==
  [][\A j, k \in Jobs : j # k /\ Rebind(j) /\ Working(k) =>
       \A v \in Given(k) : at'[v] = at[v]]_vars

\* A job that ends well leaves nothing behind: every VF that is not free belongs
\* to a job that is still running, or to one that failed.
NothingLeftBehind ==
  \A v \in VFs : at[v] # Host =>
    \E j \in Jobs : /\ pc[j] \notin {"idle", "select", "done"} /\ netdevs[j] # <<>>
                    /\ v \in Given(j) \cup {Netdev(j, i) : i \in 1 .. 4}

\* clean_environment_on_exit: "Cleanup environment by removing topology
\* containers and binding interfaces back to original driver only if exit code
\* is not 0."
FailedActivationCleaned ==
  \A j \in Jobs : pc[j] = "failed" /\ trapped[j] => up[j] = {}

\* Every job gets the flock and ends.
EveryJobEnds == \A j \in Jobs : <>(pc[j] \in {"done", "failed"})

-----------------------------------------------------------------------------
(* The VFs a job keeps from the others: those it has moved into its          *)
(* containers, while both run, and until the job has bound them back after   *)
(* removing them itself.                                                     *)

Cleaning(j) == pc[j] \in {"rebind", "leave"}

Intact(j) ==
  \/ pc[j] \in {"bind", "export", "activated", "tests", "deactivate", "rm"} /\ up[j] = Sides
  \/ Cleaning(j)

Moved(j) == {Netdev(j, i) : i \in 1 .. (IF pc[j] = "bind" THEN step[j] - 1 ELSE 4)}

Held(j) == IF Intact(j) THEN Moved(j) ELSE {}

\* A job is granted its VFs when activate_wrapper ends with both containers up.
Phase(j) ==
  IF \/ pc[j] \in {"idle", "select", "start_tg", "start_dut1"}
     \/ pc[j] \in {"inspect", "bind", "export"} /\ up[j] = Sides
  THEN "taking"
  ELSE IF Intact(j) THEN "granted" ELSE "over"

\* The TG and DUT1 sides of two pairs.
TwoPairs ==
  {Sides \X {p[1], p[2]} : p \in {q \in (1 .. Pairs) \X (1 .. Pairs) : q[1] < q[2]}}

HeldMap  == [j \in Jobs |-> Held(j)]
PhaseMap == [j \in Jobs |-> Phase(j)]

Alloc == INSTANCE VfAllocator WITH held <- HeldMap, phase <- PhaseMap, Grants <- TwoPairs

\* Whatever fails and whichever containers exit, the jobs of a server see an
\* allocator: a VF is taken only while nobody keeps it, a job starts its tests
\* with both sides of two pairs, and keeps all of them until it has cleaned up
\* or lost a container.  (activate_wrapper, deactivate_wrapper)
AllocatesVFs == Alloc!AllocSpec
=============================================================================
