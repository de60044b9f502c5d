---------------------- MODULE DeviceReservationProofs ----------------------
(***************************************************************************)
(* Proofs about DeviceReservation, for any jobs, number of VF pairs and    *)
(* number of faults.                                                       *)
(*                                                                         *)
(* The flock only covers the selection, not the time a VF is in use, and   *)
(* get_pci_addr may hand out the address of another device.  What keeps    *)
(* jobs apart is where the VFs are: a VF that a job has moved into its     *)
(* containers is not seen on the host until that job removes them          *)
(* (MovedAway), and whatever address a job was given is one of the four it *)
(* moved (GivenIsOwn).  The last part shows that all jobs together         *)
(* implement VfAllocator.                                                  *)
(***************************************************************************)
EXTENDS DeviceReservation, TLAPS

\* Only the holder of the flock is between enter_mutex and exit_mutex.
Excluded ==
  \A j \in Jobs : pc[j] \in Activating \cup Deactivating => mutex = j

\* The loops over interfaces stop after the fourth.
InLoop == \A j \in Jobs : pc[j] \in {"bind", "rebind"} => step[j] \in 1 .. 4

\* The four devices of TG_NETDEVS and DUT1_NETDEVS.
Own(j) == {Netdev(j, i) : i \in 1 .. 4}

\* Every PCI address a job was given is that of one of its four devices.
GivenIsOwn == \A j \in Jobs : netdevs[j] # <<>> => Given(j) \subseteq Own(j)

Apart(j, k) == Intact(j) /\ Intact(k) => Moved(j) \cap Moved(k) = {}

MovedAway(j) ==
  Intact(j) /\ ~Cleaning(j) => \A v \in Moved(j) : at[v] \in {j, User, Unbound}

\* A partner that was not there when the addresses were read is not there when
\* it is to be moved.
Missing(j) ==
  ~exited /\ pc[j] \in {"start_tg", "start_dut1", "inspect", "bind"} =>
    /\ pcidevs[j][1] = Netdev(j, 1) /\ pcidevs[j][2] = Netdev(j, 2)
    /\ \A i \in 3 .. 4 : \/ pcidevs[j][i] = Netdev(j, i)
                         \/ at[Netdev(j, i)] # Host /\ (pc[j] = "bind" => step[j] <= i)

Allocated(j) ==
  ~exited /\ pc[j] \in {"export", "activated", "tests", "deactivate"} =>
    \A i \in 1 .. 4 : pcidevs[j][i] = Netdev(j, i)

\* A job that is not through with its VFs, or failed with them.
Owner(j) == pc[j] \notin {"idle", "select", "done"} /\ netdevs[j] # <<>>
Elsewhere(j, v) == \E k \in Jobs \ {j} : Owner(k) /\ v \in Own(k)

\* The devices bind_interfaces_to_driver has still to bind.
ToRebind(j) == IF pc[j] = "rebind" THEN {pcidevs[j][i] : i \in step[j] .. 4} ELSE {}

\* A moved device that a job does not find again when it cleans up is in the
\* hands of another job.
Recovered(j) ==
  Intact(j) => \A v \in Moved(j) :
    \/ ~Cleaning(j) /\ (v \in Given(j) \/ at[v] = j)
    \/ Cleaning(j) /\ (v \in ToRebind(j) \/ at[v] = Host)
    \/ Elsewhere(j, v)

Claimed == \A v \in VFs : at[v] # Host => \E j \in Jobs : Owner(j) /\ v \in Own(j)

IInv == /\ TypeOK
        /\ Excluded
        /\ InLoop
        /\ GivenIsOwn
        /\ \A j, k \in Jobs : j # k => Apart(j, k)
        /\ \A j \in Jobs : MovedAway(j) /\ Recovered(j)
        /\ \A j \in Jobs : Missing(j) /\ Allocated(j)
        /\ Claimed

-----------------------------------------------------------------------------
(* Types. *)

\* An empty list is no list of two or four.
LEMMA NotEmpty ==
  /\ \A x \in (1 .. Pairs) \X (1 .. Pairs) : x # <<>>
  /\ \A x \in VFs \X VFs \X VFs \X VFs : x # <<>>
OBVIOUS

\* A virtual function is on a side.
LEMMA VFSides == \A v \in VFs : v[1] \in Sides
BY DEF VFs

\* The devices of a job that has chosen are VFs.
LEMMA OwnVFs ==
  ASSUME TypeOK, NEW j \in Jobs, netdevs[j] # <<>>
  PROVE  /\ \A i \in 1 .. 4 : Netdev(j, i) \in VFs /\ pcidevs[j][i] \in VFs
         /\ Own(j) \subseteq VFs /\ Given(j) \subseteq VFs
<1>1. netdevs[j] \in (1 .. Pairs) \X (1 .. Pairs) /\ pcidevs[j] \in VFs \X VFs \X VFs \X VFs
  BY DEF TypeOK
<1>2. \A i \in 1 .. 4 : pcidevs[j][i] \in VFs
  <2> SUFFICES ASSUME NEW i \in 1 .. 4 PROVE pcidevs[j][i] \in VFs
    OBVIOUS
  <2>1. i = 1 \/ i = 2 \/ i = 3 \/ i = 4
    OBVIOUS
  <2> QED
    BY <1>1, <2>1
<1>3. \A i \in 1 .. 4 : Netdev(j, i) \in VFs
  <2> SUFFICES ASSUME NEW i \in 1 .. 4 PROVE Netdev(j, i) \in VFs
    OBVIOUS
  <2>1. netdevs[j][1] \in 1 .. Pairs /\ netdevs[j][2] \in 1 .. Pairs
    BY <1>1
  <2>2. netdevs[j][IF i <= 2 THEN i ELSE i - 2] \in 1 .. Pairs
    <3>1. i = 1 \/ i = 2 \/ i = 3 \/ i = 4
      OBVIOUS
    <3> QED
      BY <2>1, <3>1
  <2>3. Side(i) \in Sides
    BY DEF Side, Sides
  <2> QED
    BY <2>2, <2>3 DEF Netdev, VFs
<1> QED
  BY <1>2, <1>3 DEF Own, Given

\* What a job has moved is its own.
LEMMA MovedOwn ==
  ASSUME TypeOK, InLoop, NEW j \in Jobs
  PROVE  Moved(j) \subseteq Own(j) /\ (pc[j] # "bind" => Moved(j) = Own(j))
<1>1. CASE pc[j] = "bind"
  BY <1>1 DEF InLoop, Moved, Own
<1>2. CASE pc[j] # "bind"
  BY <1>2 DEF Moved, Own
<1> QED
  BY <1>1, <1>2

\* The invariant holds at the start.
LEMMA InitIInv == Init => IInv
<1> SUFFICES ASSUME Init PROVE IInv
  OBVIOUS
<1>1. TypeOK
  <2>1. pc \in [Jobs -> PCs] /\ mutex \in Jobs \cup {Free} /\ up \in [Jobs -> SUBSET Sides]
    BY DEF Init, PCs
  <2>2. at \in [VFs -> Jobs \cup {Host, User, Unbound}]
    BY DEF Init
  <2>3. step \in [Jobs -> 1 .. 5] /\ faults \in 0 .. MaxFaults
    BY MaxFaultsAssumption DEF Init
  <2>6. trapped \in [Jobs -> BOOLEAN] /\ exited \in BOOLEAN
    BY Zenon DEF Init
  <2>4. /\ netdevs \in [Jobs -> {<<>>} \cup (1 .. Pairs) \X (1 .. Pairs)]
        /\ pcidevs \in [Jobs -> {<<>>} \cup VFs \X VFs \X VFs \X VFs]
    BY DEF Init
  <2>5. \A j \in Jobs : pc[j] = "idle" /\ netdevs[j] = <<>> /\ pcidevs[j] = <<>>
    BY DEF Init
  <2> QED
    BY <2>1, <2>2, <2>3, <2>4, <2>5, <2>6 DEF TypeOK
<1>2. Excluded /\ InLoop /\ GivenIsOwn /\ Claimed
  BY DEF Init, Excluded, InLoop, GivenIsOwn, Claimed, Activating, Deactivating
<1>3. \A j \in Jobs : ~Intact(j)
  BY DEF Init, Intact, Cleaning
<1>4. \A j \in Jobs : Missing(j) /\ Allocated(j)
  BY DEF Init, Missing, Allocated
<1> QED
  BY <1>1, <1>2, <1>3, <1>4 DEF IInv, Apart, MovedAway, Recovered

-----------------------------------------------------------------------------
(* What a step of job j may do to the VFs, and that the others survive it. *)

Touches(j) ==
  \A v \in VFs :
    \/ at'[v] = at[v]
    \/ at[v] = Host /\ at'[v] = j /\ v \in Own(j) /\ Owner(j)'
    \/ at'[v] \in {User, Unbound} /\ v \in Given(j) /\ Owner(j)'
    \/ at[v] = j /\ at'[v] = Host
    \/ Cleaning(j) /\ v \in Given(j) /\ at'[v] = Host

Alone(j) ==
  /\ UNCHANGED <<netdevs, pcidevs>>
  /\ \A k \in Jobs \ {j} : pc'[k] = pc[k] /\ up'[k] = up[k] /\ step'[k] = step[k]

\* Nothing a job depends on is expressed by more than these.
LEMMA Frame ==
  ASSUME NEW j, Alone(j)
  PROVE  /\ \A k : Own(k)' = Own(k) /\ Given(k)' = Given(k)
         /\ \A k \in Jobs \ {j} :
              /\ Intact(k)' = Intact(k) /\ Cleaning(k)' = Cleaning(k)
              /\ Moved(k)' = Moved(k) /\ ToRebind(k)' = ToRebind(k)
              /\ Owner(k)' = Owner(k)
<1>1. \A k : Own(k)' = Own(k) /\ Given(k)' = Given(k)
  BY DEF Alone, Own, Netdev, Given
<1>2. ASSUME NEW k \in Jobs \ {j}
      PROVE  /\ Intact(k)' = Intact(k) /\ Cleaning(k)' = Cleaning(k) /\ Owner(k)' = Owner(k)
             /\ Moved(k)' = Moved(k) /\ ToRebind(k)' = ToRebind(k)
  <2>1. pc'[k] = pc[k] /\ up'[k] = up[k] /\ step'[k] = step[k] /\ netdevs' = netdevs /\ pcidevs' = pcidevs
    BY DEF Alone
  <2>2. Intact(k)' = Intact(k) /\ Cleaning(k)' = Cleaning(k) /\ Owner(k)' = Owner(k)
    BY <2>1 DEF Intact, Cleaning, Owner
  <2>3. Moved(k)' = Moved(k)
    BY <2>1 DEF Moved, Netdev
  <2>4. ToRebind(k)' = ToRebind(k)
    BY <2>1 DEF ToRebind
  <2> QED
    BY <2>2, <2>3, <2>4
<1> QED
  BY <1>1, <1>2

\* A step of job j neither takes a VF out of the containers of another job nor
\* makes it lose track of one.
LEMMA OthersKeep ==
  ASSUME IInv, NEW j \in Jobs, Alone(j), Touches(j),
         Owner(j)' \/ ~Owner(j) \/ Cleaning(j)
  PROVE  /\ \A k \in Jobs \ {j} : MovedAway(k)' /\ Recovered(k)'
         /\ \A k, l \in Jobs \ {j} : k # l => Apart(k, l)'
         /\ GivenIsOwn'
         /\ ~Cleaning(j) => Claimed'
<1>0. TypeOK /\ InLoop /\ GivenIsOwn /\ Claimed
  BY DEF IInv
<1>1. /\ \A k : Own(k)' = Own(k) /\ Given(k)' = Given(k)
      /\ \A k \in Jobs \ {j} :
           /\ Intact(k)' = Intact(k) /\ Cleaning(k)' = Cleaning(k)
           /\ Moved(k)' = Moved(k) /\ ToRebind(k)' = ToRebind(k)
           /\ Owner(k)' = Owner(k)
  BY Frame
<1>2. GivenIsOwn'
  BY <1>0, <1>1 DEF GivenIsOwn, Alone
<1>3. \A k, l \in Jobs \ {j} : k # l => Apart(k, l)'
  BY <1>1 DEF IInv, Apart
<1>4. Owner(j)' => Given(j) \subseteq Own(j)
  BY <1>0 DEF Owner, Alone, GivenIsOwn
<1>5. Cleaning(j) => netdevs[j] # <<>> /\ Given(j) \subseteq Own(j) /\ Moved(j) = Own(j) /\ Intact(j)
  BY <1>0, MovedOwn DEF Cleaning, TypeOK, GivenIsOwn, Intact
<1>6. ASSUME NEW k \in Jobs \ {j}, Intact(k), NEW v \in Moved(k)
      PROVE  v \in VFs /\ (Cleaning(j) => v \notin Own(j))
  <2>1. netdevs[k] # <<>>
    BY <1>0, <1>6 DEF Intact, Cleaning, TypeOK
  <2>2. v \in VFs
    BY <1>0, <1>6, <2>1, MovedOwn, OwnVFs
  <2>3. Cleaning(j) => Moved(j) \cap Moved(k) = {}
    BY <1>5, <1>6 DEF IInv, Apart
  <2> QED
    BY <1>5, <1>6, <2>2, <2>3
<1>7. ASSUME NEW k \in Jobs \ {j}
      PROVE  MovedAway(k)'
  <2> SUFFICES ASSUME Intact(k), ~Cleaning(k), NEW v \in Moved(k)
               PROVE  at'[v] \in {k, User, Unbound}
    BY <1>1 DEF MovedAway
  <2>1. at[v] \in {k, User, Unbound}
    BY DEF IInv, MovedAway
  <2>2. at[v] # Host /\ at[v] # j
    BY <2>1, JobsAssumption DEF Host, User, Unbound
  <2> QED
    BY <1>5, <1>6, <2>1, <2>2 DEF Touches
<1>8. ASSUME NEW k \in Jobs \ {j}
      PROVE  Recovered(k)'
  <2> SUFFICES ASSUME Intact(k), NEW v \in Moved(k)
               PROVE  \/ ~Cleaning(k) /\ (v \in Given(k) \/ at'[v] = k)
                      \/ Cleaning(k) /\ (v \in ToRebind(k) \/ at'[v] = Host)
                      \/ Elsewhere(k, v)'
    BY <1>1 DEF Recovered
  <2>1. v \in VFs /\ (Cleaning(j) => v \notin Own(j))
    BY <1>6
  <2>2. Elsewhere(k, v) => Elsewhere(k, v)'
    BY <1>1, <2>1 DEF Elsewhere
  <2>3. Owner(j)' /\ v \in Own(j) => Elsewhere(k, v)'
    BY <1>1 DEF Elsewhere
  <2>4. at[v] = k => at[v] # Host /\ at[v] # j
    BY JobsAssumption DEF Host
  <2>5. \/ ~Cleaning(k) /\ (v \in Given(k) \/ at[v] = k)
        \/ Cleaning(k) /\ (v \in ToRebind(k) \/ at[v] = Host)
        \/ Elsewhere(k, v)
    BY DEF IInv, Recovered
  <2>6. Host \notin Jobs
    BY JobsAssumption
  <2> QED
    BY <1>4, <1>5, <2>1, <2>2, <2>3, <2>4, <2>5, <2>6 DEF Touches
<1>9. ASSUME ~Cleaning(j)
      PROVE  Claimed'
  <2> SUFFICES ASSUME NEW v \in VFs, at'[v] # Host
               PROVE  \E k \in Jobs : Owner(k)' /\ v \in Own(k)
    BY <1>1 DEF Claimed
  <2>1. CASE at'[v] = at[v]
    BY <1>0, <1>1, <1>9, <2>1 DEF Claimed
  <2>2. CASE at'[v] # at[v]
    BY <1>4, <1>9, <2>2 DEF Touches
  <2> QED
    BY <2>1, <2>2
<1> QED
  BY <1>2, <1>3, <1>7, <1>8, <1>9

\* Devices turn up on the host only with the flock held or after a container
\* has exited, so a job that is activating still misses what it missed.
LEMMA OthersWired ==
  ASSUME IInv, NEW j \in Jobs, Alone(j), exited => exited',
         \/ exited'
         \/ pc[j] \in Activating \cup Deactivating
         \/ \A v \in VFs : at[v] # Host => at'[v] # Host
  PROVE  \A k \in Jobs \ {j} : Missing(k)' /\ Allocated(k)'
<1> SUFFICES ASSUME NEW k \in Jobs \ {j} PROVE Missing(k)' /\ Allocated(k)'
  OBVIOUS
<1>0. TypeOK /\ Excluded /\ Missing(k) /\ Allocated(k)
  BY DEF IInv
<1>1. /\ pc'[k] = pc[k] /\ step'[k] = step[k] /\ pcidevs' = pcidevs
      /\ \A i : Netdev(k, i)' = Netdev(k, i)
  BY DEF Alone, Netdev
<1>2. Allocated(k)'
  BY <1>0, <1>1 DEF Allocated
<1>3. Missing(k)'
  <2> SUFFICES ASSUME ~exited', pc[k] \in {"start_tg", "start_dut1", "inspect", "bind"}
               PROVE  Missing(k)'
    BY <1>1 DEF Missing
  <2>1. pc[j] \notin Activating \cup Deactivating
    BY <1>0 DEF Excluded, Activating
  <2>2. \A i \in 1 .. 4 : Netdev(k, i) \in VFs
    BY <1>0, OwnVFs DEF TypeOK
  <2>3. \A v \in VFs : at[v] # Host => at'[v] # Host
    BY <2>1
  <2>4. \A i \in 3 .. 4 : i \in 1 .. 4
    OBVIOUS
  <2> QED
    BY <1>0, <1>1, <2>2, <2>3, <2>4 DEF Missing
<1> QED
  BY <1>2, <1>3

\* So a step of j keeps the invariant when it keeps the parts about j.
LEMMA StepKeeps ==
  ASSUME IInv, NEW j \in Jobs, Alone(j), Touches(j), exited => exited',
         Owner(j)' \/ ~Owner(j) \/ Cleaning(j),
         \/ exited'
         \/ pc[j] \in Activating \cup Deactivating
         \/ \A v \in VFs : at[v] # Host => at'[v] # Host,
         TypeOK', Excluded', InLoop',
         \A k \in Jobs \ {j} : Apart(j, k)',
         MovedAway(j)', Recovered(j)', Missing(j)', Allocated(j)',
         Cleaning(j) => Claimed'
  PROVE  IInv'
<1>1. /\ \A k \in Jobs \ {j} : MovedAway(k)' /\ Recovered(k)'
      /\ \A k, l \in Jobs \ {j} : k # l => Apart(k, l)'
      /\ GivenIsOwn' /\ Claimed'
  BY OthersKeep
<1>2. \A k \in Jobs \ {j} : Missing(k)' /\ Allocated(k)'
  BY OthersWired
<1>3. \A k \in Jobs \ {j} : Apart(k, j)'
  BY DEF Apart
<1>4. \A k, l \in Jobs : k # l => Apart(k, l)'
  BY <1>1, <1>3
<1>5. \A k \in Jobs : MovedAway(k)' /\ Recovered(k)' /\ Missing(k)' /\ Allocated(k)'
  BY <1>1, <1>2
<1> QED
  BY <1>1, <1>4, <1>5 DEF IInv

\* A step that leaves the VFs where they are.
LEMMA QuietStep ==
  ASSUME IInv, NEW j \in Jobs, Alone(j), UNCHANGED <<at, exited>>,
         Owner(j)' \/ ~Owner(j),
         TypeOK', Excluded', InLoop', Missing(j)', Allocated(j)',
         Intact(j)' => \/ /\ Intact(j) /\ ~Cleaning(j) /\ ~Cleaning(j)'
                          /\ Moved(j)' = Moved(j)
                       \/ ~Cleaning(j)' /\ Moved(j)' = {}
  PROVE  IInv'
<1>1. Touches(j)
  BY DEF Touches
<1>2. /\ Given(j)' = Given(j)
      /\ \A k : Own(k)' = Own(k)
      /\ \A k \in Jobs \ {j} :
           Intact(k)' = Intact(k) /\ Moved(k)' = Moved(k) /\ Owner(k)' = Owner(k)
  BY Frame
<1>3. \A k \in Jobs \ {j} : Apart(j, k)'
  BY <1>2 DEF IInv, Apart
<1>4. MovedAway(j)'
  BY DEF IInv, MovedAway
<1>5. \A v : Elsewhere(j, v)' = Elsewhere(j, v)
  BY <1>2 DEF Elsewhere
<1>6. Recovered(j)'
  BY <1>2, <1>5 DEF IInv, Recovered
<1>7. Cleaning(j) => Claimed'
  BY <1>2 DEF IInv, Claimed
<1> QED
  BY <1>1, <1>3, <1>4, <1>6, <1>7, StepKeeps

-----------------------------------------------------------------------------
(* The actions. *)

\* Steps after which job j has failed and no VF has moved.
LEMMA FailSteps ==
  ASSUME IInv, NEW j \in Jobs,
         \/ MutexTimeout(j) \/ NotEnoughInterfaces(j) \/ InspectFails(j) \/ DockerFails(j)
         \/ MoveImpossible(j) \/ JobLost(j) \/ RebindImpossible(j)
  PROVE  IInv'
<1>0. TypeOK /\ Excluded /\ InLoop
  BY DEF IInv
<1>1. /\ pc' = [pc EXCEPT ![j] = "failed"] /\ pc[j] # "done"
      /\ UNCHANGED <<at, up, netdevs, pcidevs, step, trapped, exited>>
      /\ faults' \in 0 .. MaxFaults
      /\ \/ mutex' = mutex /\ pc[j] \notin Activating \cup Deactivating
         \/ mutex' = Free /\ pc[j] \in Activating \cup Deactivating
  BY <1>0, MaxFaultsAssumption DEF TypeOK, MutexTimeout, NotEnoughInterfaces, InspectFails, DockerFails,
     MoveImpossible, JobLost, RebindImpossible, Die, Goto, Fault, Activating, Deactivating
<1>2. pc'[j] = "failed" /\ \A k \in Jobs \ {j} : pc'[k] = pc[k]
  BY <1>0, <1>1 DEF TypeOK
<1>3. TypeOK'
  BY <1>0, <1>1, <1>2 DEF TypeOK, PCs
<1>4. Excluded' /\ InLoop'
  BY <1>0, <1>1, <1>2 DEF Excluded, InLoop, Activating, Deactivating
<1>5. Alone(j)
  BY <1>1, <1>2 DEF Alone
<1>6. Missing(j)' /\ Allocated(j)' /\ ~Intact(j)' /\ (Owner(j)' \/ ~Owner(j))
  BY <1>1, <1>2 DEF Missing, Allocated, Intact, Cleaning, Owner
<1> QED
  BY <1>1, <1>3, <1>4, <1>5, <1>6, QuietStep

\* Steps of job j that go on and move no VF.
LEMMA EnterMutexStep ==
  ASSUME IInv, NEW j \in Jobs, EnterMutex(j)
  PROVE  IInv'
<1>0. TypeOK /\ Excluded /\ InLoop
  BY DEF IInv
<1>1. /\ pc' = [pc EXCEPT ![j] = IF pc[j] = "idle" THEN "select" ELSE "rm"]
      /\ pc[j] \in {"idle", "deactivate"}
      /\ mutex = Free /\ mutex' = j
      /\ UNCHANGED <<at, up, netdevs, pcidevs, step, trapped, faults, exited>>
  BY DEF EnterMutex, Goto
<1>2. /\ pc'[j] = IF pc[j] = "idle" THEN "select" ELSE "rm"
      /\ \A k \in Jobs \ {j} : pc'[k] = pc[k]
  BY <1>0, <1>1 DEF TypeOK
<1>3. TypeOK'
  BY <1>0, <1>1, <1>2 DEF TypeOK, PCs, Activating, Deactivating
<1>4. Excluded' /\ InLoop'
  <2>1. \A k \in Jobs : pc[k] \notin Activating \cup Deactivating
    BY <1>0, <1>1, JobsAssumption DEF Excluded
  <2> QED
    BY <1>0, <1>1, <1>2, <2>1 DEF Excluded, InLoop
<1>5. Alone(j)
  BY <1>1, <1>2 DEF Alone
<1>6. Missing(j)' /\ Allocated(j)' /\ (Owner(j)' \/ ~Owner(j))
  BY <1>1, <1>2 DEF Missing, Allocated, Owner
<1>7. Intact(j)' => Intact(j) /\ ~Cleaning(j) /\ ~Cleaning(j)' /\ Moved(j)' = Moved(j)
  BY <1>1, <1>2 DEF Intact, Cleaning, Moved, Netdev
<1> QED
  BY <1>1, <1>3, <1>4, <1>5, <1>6, <1>7, QuietStep

\* Starting and inspecting the containers keeps the invariant.
LEMMA ContainerStartSteps ==
  ASSUME IInv, NEW j \in Jobs, StartTg(j) \/ StartDut1(j) \/ Inspect(j)
  PROVE  IInv'
<1>0. TypeOK /\ Excluded /\ InLoop /\ Missing(j)
  BY DEF IInv
<1>1. PICK l \in {"start_dut1", "inspect", "bind"} :
        /\ pc' = [pc EXCEPT ![j] = l]
        /\ pc[j] \in {"start_tg", "start_dut1", "inspect"}
        /\ UNCHANGED <<mutex, at, netdevs, pcidevs, faults, exited>>
        /\ \/ l # "bind" /\ step' = step
           \/ l = "bind" /\ step' = [step EXCEPT ![j] = 1] /\ UNCHANGED <<up, trapped>>
        /\ \E sides \in SUBSET Sides : up' = [up EXCEPT ![j] = sides]
        /\ \E b \in BOOLEAN : trapped' = [trapped EXCEPT ![j] = b]
  <2>1. CASE StartTg(j)
    <3>1. up[j] \cup {"tg"} \in SUBSET Sides
      BY <1>0 DEF TypeOK, Sides
    <3>2. trapped' = [trapped EXCEPT ![j] = trapped[j]] /\ trapped[j] \in BOOLEAN
      BY <1>0, <2>1 DEF TypeOK, StartTg
    <3> QED
      BY <2>1, <3>1, <3>2 DEF StartTg, Goto
  <2>2. CASE StartDut1(j)
    <3>1. up[j] \cup {"dut1"} \in SUBSET Sides
      BY <1>0 DEF TypeOK, Sides
    <3> QED
      BY <2>2, <3>1 DEF StartDut1, Goto
  <2>3. CASE Inspect(j)
    <3>1. up' = [up EXCEPT ![j] = up[j]] /\ up[j] \in SUBSET Sides
      BY <1>0, <2>3 DEF TypeOK, Inspect
    <3>2. trapped' = [trapped EXCEPT ![j] = trapped[j]] /\ trapped[j] \in BOOLEAN
      BY <1>0, <2>3 DEF TypeOK, Inspect
    <3> QED
      BY <2>3, <3>1, <3>2 DEF Inspect, Goto
  <2> QED
    BY <2>1, <2>2, <2>3
<1>2. /\ pc'[j] = l /\ (l = "bind" => step'[j] = 1)
      /\ \A k \in Jobs \ {j} : pc'[k] = pc[k] /\ up'[k] = up[k] /\ step'[k] = step[k]
  BY <1>0, <1>1 DEF TypeOK
<1>3. TypeOK'
  <2>1. step' \in [Jobs -> 1 .. 5] /\ up' \in [Jobs -> SUBSET Sides]
    BY <1>0, <1>1 DEF TypeOK
  <2>2. trapped' \in [Jobs -> BOOLEAN]
    BY <1>0, <1>1 DEF TypeOK
  <2>3. pc' \in [Jobs -> PCs]
    BY <1>0, <1>1 DEF TypeOK, PCs, Activating
  <2> QED
    BY <1>0, <1>1, <1>2, <2>1, <2>2, <2>3 DEF TypeOK
<1>4. Excluded' /\ InLoop'
  BY <1>0, <1>1, <1>2 DEF Excluded, InLoop, Activating
<1>5. Alone(j)
  BY <1>1, <1>2 DEF Alone
<1>6. Missing(j)' /\ Allocated(j)' /\ (Owner(j)' \/ ~Owner(j))
  <2>1. \A i : Netdev(j, i)' = Netdev(j, i)
    BY <1>1 DEF Netdev
  <2>2. Missing(j)'
    BY <1>0, <1>1, <1>2, <2>1 DEF Missing
  <2> QED
    BY <1>1, <1>2, <2>2 DEF Allocated, Owner
<1>7. Intact(j)' => ~Cleaning(j)' /\ Moved(j)' = {}
  <2>1. l = "bind" => Moved(j)' = {}
    BY <1>1, <1>2 DEF Moved
  <2> QED
    BY <1>1, <1>2, <2>1 DEF Intact, Cleaning
<1> QED
  BY <1>1, <1>3, <1>4, <1>5, <1>6, <1>7, QuietStep

\* So do the steps of the job itself.
LEMMA JobSteps ==
  ASSUME IInv, NEW j \in Jobs, ExportAndLeave(j) \/ InstallTrap(j) \/ TestsEnd(j)
  PROVE  IInv'
<1>0. TypeOK /\ Excluded /\ InLoop /\ Allocated(j)
  BY DEF IInv
<1>1. PICK l \in {"activated", "tests", "deactivate"} :
        /\ pc' = [pc EXCEPT ![j] = l]
        /\ pc[j] \in {"export", "activated", "tests"}
        /\ UNCHANGED <<at, up, netdevs, pcidevs, step, faults, exited>>
        /\ mutex' = mutex \/ (mutex' = Free /\ pc[j] = "export")
        /\ \E b \in BOOLEAN : trapped' = [trapped EXCEPT ![j] = b]
  <2>1. trapped = [trapped EXCEPT ![j] = trapped[j]] /\ trapped[j] \in BOOLEAN
    BY <1>0 DEF TypeOK
  <2> QED
    BY <2>1 DEF ExportAndLeave, InstallTrap, TestsEnd, Goto
<1>2. pc'[j] = l /\ \A k \in Jobs \ {j} : pc'[k] = pc[k]
  BY <1>0, <1>1 DEF TypeOK
<1>3. TypeOK'
  <2>1. trapped' \in [Jobs -> BOOLEAN]
    BY <1>0, <1>1 DEF TypeOK
  <2>2. pc' \in [Jobs -> PCs] /\ mutex' \in Jobs \cup {Free}
    BY <1>0, <1>1 DEF TypeOK, PCs
  <2> QED
    BY <1>0, <1>1, <1>2, <2>1, <2>2 DEF TypeOK
<1>4. Excluded' /\ InLoop'
  BY <1>0, <1>1, <1>2 DEF Excluded, InLoop, Activating, Deactivating
<1>5. Alone(j)
  BY <1>1, <1>2 DEF Alone
<1>6. Missing(j)' /\ Allocated(j)' /\ (Owner(j)' \/ ~Owner(j))
  <2>1. \A i : Netdev(j, i)' = Netdev(j, i)
    BY <1>1 DEF Netdev
  <2> QED
    BY <1>0, <1>1, <1>2, <2>1 DEF Missing, Allocated, Owner
<1>7. Intact(j)' => Intact(j) /\ ~Cleaning(j) /\ ~Cleaning(j)' /\ Moved(j)' = Moved(j)
  <2>1. Moved(j)' = Moved(j)
    BY <1>1, <1>2 DEF Moved, Netdev
  <2> QED
    BY <1>1, <1>2, <2>1 DEF Intact, Cleaning
<1> QED
  BY <1>1, <1>3, <1>4, <1>5, <1>6, <1>7, QuietStep

\* So does choosing interfaces under the lock.
LEMMA SelectStep ==
  ASSUME IInv, NEW j \in Jobs, get_available_interfaces(j)
  PROVE  IInv'
<1>0. TypeOK /\ Excluded /\ InLoop /\ GivenIsOwn /\ Claimed
  BY DEF IInv
<1>1. PICK k, m \in 1 .. Pairs, d, e \in VFs :
        /\ netdevs' = [netdevs EXCEPT ![j] = <<k, m>>]
        /\ pcidevs' = [pcidevs EXCEPT ![j] = <<<<"tg", k>>, <<"tg", m>>, d, e>>]
        /\ d = <<"dut1", k>> \/ (d = <<"tg", m>> /\ at[<<"dut1", k>>] # Host)
        /\ e = <<"dut1", m>> \/ (e = d /\ at[<<"dut1", m>>] # Host)
  <2>1. PICK k, m \in 1 .. Pairs :
          LET d == get_pci_addr(<<"dut1", k>>, <<"tg", m>>)
              e == get_pci_addr(<<"dut1", m>>, d)
          IN  /\ netdevs' = [netdevs EXCEPT ![j] = <<k, m>>]
              /\ pcidevs' = [pcidevs EXCEPT ![j] = <<<<"tg", k>>, <<"tg", m>>, d, e>>]
    BY DEF get_available_interfaces
  <2>2. \A n \in 1 .. Pairs : <<"tg", n>> \in VFs /\ <<"dut1", n>> \in VFs
    BY DEF VFs, Sides
  <2> QED
    BY <2>1, <2>2 DEF get_pci_addr
<1>2. /\ pc' = [pc EXCEPT ![j] = "start_tg"] /\ pc[j] = "select"
      /\ UNCHANGED <<mutex, at, up, step, trapped, faults, exited>>
  BY DEF get_available_interfaces, Goto
<1>3. /\ pc'[j] = "start_tg"
      /\ netdevs'[j] = <<k, m>>
      /\ pcidevs'[j] = <<<<"tg", k>>, <<"tg", m>>, d, e>>
      /\ \A n \in Jobs \ {j} :
           pc'[n] = pc[n] /\ netdevs'[n] = netdevs[n] /\ pcidevs'[n] = pcidevs[n]
  BY <1>0, <1>1, <1>2 DEF TypeOK
<1>4. /\ netdevs'[j] \in (1 .. Pairs) \X (1 .. Pairs)
      /\ pcidevs'[j] \in VFs \X VFs \X VFs \X VFs
  <2>1. <<"tg", k>> \in VFs /\ <<"tg", m>> \in VFs
    BY DEF VFs, Sides
  <2> QED
    BY <1>3, <2>1
<1>5. TypeOK'
  <2>1. /\ netdevs' \in [Jobs -> {<<>>} \cup (1 .. Pairs) \X (1 .. Pairs)]
        /\ pcidevs' \in [Jobs -> {<<>>} \cup VFs \X VFs \X VFs \X VFs]
    <3>1. ASSUME NEW n \in Jobs
          PROVE  /\ netdevs'[n] \in {<<>>} \cup (1 .. Pairs) \X (1 .. Pairs)
                 /\ pcidevs'[n] \in {<<>>} \cup VFs \X VFs \X VFs \X VFs
      BY <1>0, <1>3, <1>4 DEF TypeOK
    <3>2. netdevs' = [n \in Jobs |-> netdevs'[n]] /\ pcidevs' = [n \in Jobs |-> pcidevs'[n]]
      BY <1>0, <1>1 DEF TypeOK
    <3> QED
      BY <3>1, <3>2
  <2>2. netdevs'[j] # <<>> /\ pcidevs'[j] # <<>>
    BY <1>4, NotEmpty
  <2>3. pc' \in [Jobs -> PCs]
    BY <1>0, <1>2 DEF TypeOK, PCs, Activating
  <2> QED
    <3>1. \A n \in Jobs :
            /\ netdevs'[n] = <<>> <=> pcidevs'[n] = <<>>
            /\ pc'[n] \in {"idle", "select"} => netdevs'[n] = <<>>
            /\ pc'[n] \notin {"idle", "select", "failed"} => netdevs'[n] # <<>>
      BY <1>0, <1>3, <2>2 DEF TypeOK
    <3> QED
      BY <1>0, <1>2, <2>1, <2>3, <3>1 DEF TypeOK
<1>6. Excluded' /\ InLoop'
  BY <1>0, <1>2, <1>3 DEF Excluded, InLoop, Activating
<1>7. /\ Netdev(j, 1)' = <<"tg", k>> /\ Netdev(j, 2)' = <<"tg", m>>
      /\ Netdev(j, 3)' = <<"dut1", k>> /\ Netdev(j, 4)' = <<"dut1", m>>
  BY <1>3 DEF Netdev, Side
<1>8. ASSUME NEW n \in Jobs \ {j}
      PROVE  /\ Own(n)' = Own(n) /\ Given(n)' = Given(n) /\ Moved(n)' = Moved(n)
             /\ ToRebind(n)' = ToRebind(n) /\ Intact(n)' = Intact(n)
             /\ Cleaning(n)' = Cleaning(n) /\ Owner(n)' = Owner(n)
             /\ \A i : Netdev(n, i)' = Netdev(n, i)
  <2>1. \A i : Netdev(n, i)' = Netdev(n, i)
    BY <1>3 DEF Netdev
  <2>2. Own(n)' = Own(n)
    BY <2>1 DEF Own
  <2>3. Moved(n)' = Moved(n)
    BY <1>2, <1>3, <2>1 DEF Moved
  <2>4. Given(n)' = Given(n) /\ ToRebind(n)' = ToRebind(n)
    <3>1. pcidevs'[n] = pcidevs[n] /\ step'[n] = step[n] /\ pc'[n] = pc[n]
      BY <1>2, <1>3
    <3>2. Given(n)' = Given(n)
      BY <3>1 DEF Given
    <3>3. ToRebind(n)' = ToRebind(n)
      BY <3>1 DEF ToRebind
    <3> QED
      BY <3>2, <3>3
  <2>5. Intact(n)' = Intact(n) /\ Cleaning(n)' = Cleaning(n) /\ Owner(n)' = Owner(n)
    BY <1>2, <1>3 DEF Intact, Cleaning, Owner
  <2> QED
    BY <2>1, <2>2, <2>3, <2>4, <2>5
<1>9. GivenIsOwn'
  <2>1. Given(j)' \subseteq Own(j)'
    <3>1. {<<"tg", k>>, <<"tg", m>>, <<"dut1", k>>, <<"dut1", m>>} \subseteq Own(j)'
      BY <1>7 DEF Own
    <3>2. Given(j)' = {<<"tg", k>>, <<"tg", m>>, d, e}
      <4>1. \A i \in 1 .. 4 : i = 1 \/ i = 2 \/ i = 3 \/ i = 4
        OBVIOUS
      <4>2. /\ pcidevs'[j][1] = <<"tg", k>> /\ pcidevs'[j][2] = <<"tg", m>>
            /\ pcidevs'[j][3] = d /\ pcidevs'[j][4] = e
        BY <1>3
      <4> QED
        BY <4>1, <4>2 DEF Given
    <3> QED
      BY <1>1, <3>1, <3>2
  <2> QED
    BY <1>0, <1>3, <1>8, <2>1 DEF GivenIsOwn
<1>10. ~Intact(j)' /\ ~Owner(j)
  BY <1>2, <1>3 DEF Intact, Cleaning, Owner
<1>11. \A n, l \in Jobs : n # l => Apart(n, l)'
  BY <1>8, <1>10 DEF IInv, Apart
<1>12. ASSUME NEW n \in Jobs
       PROVE  MovedAway(n)' /\ Recovered(n)'
  <2>1. CASE n = j
    BY <1>10, <2>1 DEF MovedAway, Recovered
  <2>2. CASE n # j
    <3>1. \A v : Elsewhere(n, v) => Elsewhere(n, v)'
      BY <1>8, <1>10 DEF Elsewhere
    <3> QED
      BY <1>2, <1>8, <2>2, <3>1 DEF IInv, MovedAway, Recovered
  <2> QED
    BY <2>1, <2>2
<1>13. ASSUME NEW n \in Jobs
       PROVE  Missing(n)' /\ Allocated(n)'
  <2>1. CASE n = j
    <3>1. \A i \in 3 .. 4 : i = 3 \/ i = 4
      OBVIOUS
    <3>2. /\ pcidevs'[j][1] = <<"tg", k>> /\ pcidevs'[j][2] = <<"tg", m>>
          /\ pcidevs'[j][3] = d /\ pcidevs'[j][4] = e
      BY <1>3
    <3> QED
      BY <1>1, <1>2, <1>3, <1>7, <2>1, <3>1, <3>2 DEF Missing, Allocated
  <2>2. CASE n # j
    BY <1>2, <1>3, <1>8, <2>2 DEF IInv, Missing, Allocated
  <2> QED
    BY <2>1, <2>2
<1>14. Claimed'
  BY <1>0, <1>2, <1>8, <1>10 DEF Claimed
<1> QED
  BY <1>5, <1>6, <1>9, <1>11, <1>12, <1>13, <1>14 DEF IInv

\* The next interface is moved into a container, or the move succeeds and the
\* link fails: the job goes on or fails.
LEMMA MoveSteps ==
  ASSUME IInv, NEW j \in Jobs, MoveInterface(j) \/ MoveFails(j)
  PROVE  IInv'
<1>0. TypeOK /\ Excluded /\ InLoop /\ Missing(j)
  BY DEF IInv
<1> DEFINE w == Netdev(j, step[j])
<1>1. /\ pc[j] = "bind" /\ step[j] \in 1 .. 4 /\ mutex = j /\ netdevs[j] # <<>>
      /\ at[w] = Host /\ w \in VFs /\ w \in Own(j)
  <2>1. pc[j] = "bind" /\ at[w] = Host
    BY DEF MoveInterface, MoveFails
  <2>2. step[j] \in 1 .. 4 /\ mutex = j /\ netdevs[j] # <<>>
    BY <1>0, <2>1 DEF InLoop, Excluded, TypeOK, Activating
  <2> QED
    BY <1>0, <2>1, <2>2, OwnVFs DEF Own
<1>2. /\ UNCHANGED <<up, netdevs, pcidevs, trapped, exited>>
      /\ at' = [at EXCEPT ![w] = j] \/ (at' = at /\ pc' = [pc EXCEPT ![j] = "failed"])
      /\ faults' \in 0 .. MaxFaults
      /\ \/ pc' = [pc EXCEPT ![j] = "failed"] /\ step' = step /\ mutex' = Free
         \/ /\ pc' = [pc EXCEPT ![j] = IF step[j] = 4 THEN "export" ELSE "bind"]
            /\ step' = [step EXCEPT ![j] = step[j] + 1] /\ mutex' = mutex
            /\ at' = [at EXCEPT ![w] = j]
  BY <1>0, MaxFaultsAssumption DEF TypeOK, MoveInterface, MoveFails, Goto, Die, Fault
<1>3. \A k \in Jobs \ {j} : pc'[k] = pc[k] /\ up'[k] = up[k] /\ step'[k] = step[k]
  BY <1>0, <1>2 DEF TypeOK
<1>4. \/ pc'[j] = "failed" /\ mutex' = Free /\ step' = step
      \/ /\ pc'[j] = IF step[j] = 4 THEN "export" ELSE "bind"
         /\ step'[j] = step[j] + 1 /\ mutex' = mutex /\ at' = [at EXCEPT ![w] = j]
  BY <1>0, <1>2 DEF TypeOK
<1> HIDE DEF w
<1>5. TypeOK'
  <2>1. at' \in [VFs -> Jobs \cup {Host, User, Unbound}]
    BY <1>0, <1>1, <1>2 DEF TypeOK
  <2>2. step' \in [Jobs -> 1 .. 5]
    BY <1>0, <1>1, <1>2 DEF TypeOK
  <2>3. pc' \in [Jobs -> PCs] /\ mutex' \in Jobs \cup {Free}
    BY <1>0, <1>2 DEF TypeOK, PCs, Activating
  <2> QED
    BY <1>0, <1>1, <1>2, <1>3, <1>4, <2>1, <2>2, <2>3 DEF TypeOK
<1>6. Excluded' /\ InLoop'
  BY <1>0, <1>1, <1>3, <1>4 DEF Excluded, InLoop, Activating, Deactivating
<1>7. Alone(j)
  BY <1>2, <1>3 DEF Alone
<1>8. Owner(j)' /\ ~Cleaning(j) /\ ~Cleaning(j)'
  BY <1>1, <1>2, <1>4 DEF Owner, Cleaning
<1>9. /\ \A v \in VFs : at'[v] = at[v] \/ (v = w /\ at'[v] = j)
      /\ at' = [at EXCEPT ![w] = j] => at'[w] = j
  BY <1>0, <1>1, <1>2 DEF TypeOK
<1>10. Touches(j)
  BY <1>1, <1>8, <1>9 DEF Touches
<1>11. \A v \in VFs : at[v] # Host => at'[v] # Host
  BY <1>9, JobsAssumption
<1>12. /\ \A k : Own(k)' = Own(k) /\ Given(k)' = Given(k)
       /\ \A k \in Jobs \ {j} :
            /\ Intact(k)' = Intact(k) /\ Moved(k)' = Moved(k) /\ Owner(k)' = Owner(k)
  BY <1>7, Frame
<1>13. ASSUME Intact(j)'
       PROVE  /\ Intact(j) /\ Moved(j)' = Moved(j) \cup {w} /\ at'[w] = j
              /\ pc'[j] \in {"bind", "export"}
  <2>1. pc'[j] # "failed"
    BY <1>13 DEF Intact, Cleaning
  <2>2. /\ pc'[j] = IF step[j] = 4 THEN "export" ELSE "bind"
        /\ step'[j] = step[j] + 1 /\ at'[w] = j
    BY <1>4, <1>9, <2>1
  <2>3. Intact(j)
    BY <1>1, <1>2, <1>13, <2>2 DEF Intact, Cleaning
  <2>4. Moved(j)' = {Netdev(j, i) : i \in 1 .. step[j]}
    <3>1. \A i : Netdev(j, i)' = Netdev(j, i)
      BY <1>2 DEF Netdev
    <3>2. (IF pc'[j] = "bind" THEN step'[j] - 1 ELSE 4) = step[j]
      BY <1>1, <2>2
    <3> QED
      BY <3>1, <3>2 DEF Moved
  <2>5. Moved(j) = {Netdev(j, i) : i \in 1 .. step[j] - 1}
    BY <1>1 DEF Moved
  <2>6. \A i : i \in 1 .. step[j] <=> i \in 1 .. step[j] - 1 \/ i = step[j]
    BY <1>1
  <2> QED
    BY <2>2, <2>3, <2>4, <2>5, <2>6 DEF w
<1>14. ASSUME NEW k \in Jobs \ {j}
       PROVE  Apart(j, k)'
  <2> SUFFICES ASSUME Intact(j)', Intact(k)
               PROVE  (Moved(j) \cup {w}) \cap Moved(k) = {}
    BY <1>12, <1>13 DEF Apart
  <2>1. Moved(j) \cap Moved(k) = {}
    BY <1>13 DEF IInv, Apart
  <2>2. ~Cleaning(k)
    BY <1>0, <1>1 DEF Cleaning, Excluded, Deactivating
  <2>3. w \notin Moved(k)
    BY <1>1, <2>2, JobsAssumption DEF IInv, MovedAway, Host, User, Unbound
  <2> QED
    BY <2>1, <2>3
<1>15. MovedAway(j)' /\ Recovered(j)'
  <2> SUFFICES ASSUME Intact(j)', NEW v \in Moved(j) \cup {w}
               PROVE  /\ at'[v] \in {j, User, Unbound}
                      /\ v \in Given(j)' \/ at'[v] = j \/ Elsewhere(j, v)'
    BY <1>8, <1>13 DEF MovedAway, Recovered
  <2>1. CASE v = w
    BY <1>13, <2>1
  <2>2. CASE v \in Moved(j)
    <3>1. v \in VFs
      BY <1>0, <1>1, <2>2, MovedOwn, OwnVFs
    <3>2. at[v] \in {j, User, Unbound} /\ (v \in Given(j) \/ at[v] = j \/ Elsewhere(j, v))
      BY <1>8, <1>13, <2>2 DEF IInv, MovedAway, Recovered
    <3>3. Elsewhere(j, v) => Elsewhere(j, v)'
      BY <1>12 DEF Elsewhere
    <3> QED
      BY <1>9, <1>12, <3>1, <3>2, <3>3
  <2> QED
    BY <2>1, <2>2
<1>16. Missing(j)' /\ Allocated(j)'
  <2> SUFFICES ASSUME ~exited, pc'[j] # "failed"
               PROVE  Missing(j)' /\ Allocated(j)'
    BY <1>2 DEF Missing, Allocated
  <2>1. /\ pc'[j] = IF step[j] = 4 THEN "export" ELSE "bind"
        /\ step'[j] = step[j] + 1
    BY <1>4
  <2>2. \A i : Netdev(j, i)' = Netdev(j, i) /\ pcidevs' = pcidevs
    BY <1>2 DEF Netdev
  <2>3. /\ pcidevs[j][1] = Netdev(j, 1) /\ pcidevs[j][2] = Netdev(j, 2)
        /\ \A i \in 3 .. 4 : \/ pcidevs[j][i] = Netdev(j, i)
                             \/ at[Netdev(j, i)] # Host /\ step[j] <= i
    BY <1>0, <1>1 DEF Missing
  <2>4. \A i \in 3 .. 4 : \/ pcidevs[j][i] = Netdev(j, i)
                          \/ at'[Netdev(j, i)] # Host /\ step[j] + 1 <= i
    <3> SUFFICES ASSUME NEW i \in 3 .. 4, pcidevs[j][i] # Netdev(j, i)
                 PROVE  at'[Netdev(j, i)] # Host /\ step[j] + 1 <= i
      OBVIOUS
    <3>1. at[Netdev(j, i)] # Host /\ step[j] <= i
      BY <2>3
    <3>2. step[j] # i
      BY <1>1, <3>1 DEF w
    <3>3. Netdev(j, i) \in VFs
      BY <1>0, <1>1, OwnVFs, i \in 1 .. 4
    <3> QED
      BY <1>1, <1>11, <3>1, <3>2, <3>3
  <2>5. Missing(j)'
    BY <1>2, <2>1, <2>2, <2>3, <2>4 DEF Missing
  <2>6. Allocated(j)'
    <3>1. step[j] = 4 => \A i \in 1 .. 4 : pcidevs[j][i] = Netdev(j, i)
      <4>1. \A i \in 1 .. 4 : i = 1 \/ i = 2 \/ i \in 3 .. 4
        OBVIOUS
      <4>2. step[j] = 4 => \A i \in 3 .. 4 : ~(step[j] + 1 <= i)
        OBVIOUS
      <4> QED
        BY <2>3, <2>4, <4>1, <4>2
    <3> QED
      BY <2>1, <2>2, <3>1 DEF Allocated
  <2> QED
    BY <2>5, <2>6
<1> QED
  BY <1>2, <1>5, <1>6, <1>7, <1>8, <1>10, <1>11, <1>14, <1>15, <1>16, StepKeeps

\* A test binds the addresses its job was given to a userspace driver.
LEMMA UserDriverSteps ==
  ASSUME IInv, NEW j \in Jobs, BindUserDriver(j) \/ BindUserFails(j)
  PROVE  IInv'
<1>0. TypeOK /\ Excluded /\ InLoop /\ Missing(j) /\ Allocated(j)
  BY DEF IInv
<1>1. /\ pc[j] = "tests" /\ netdevs[j] # <<>>
      /\ UNCHANGED <<pc, mutex, up, netdevs, pcidevs, step, trapped, exited>>
      /\ faults' \in 0 .. MaxFaults
  BY <1>0, MaxFaultsAssumption DEF TypeOK, BindUserDriver, BindUserFails, Fault
<1>2. /\ at' \in [VFs -> Jobs \cup {Host, User, Unbound}]
      /\ \A v \in VFs : at'[v] = at[v] \/ (at'[v] \in {User, Unbound} /\ v \in Given(j))
  <2>1. \A side : NodeDevs(j, side) \subseteq Given(j)
    BY DEF NodeDevs, Given
  <2>2. CASE BindUserDriver(j)
    BY <1>0, <2>1, <2>2 DEF BindUserDriver, TypeOK
  <2>3. CASE BindUserFails(j)
    <3>1. PICK v \in Given(j) : at' = [at EXCEPT ![v] = Unbound]
      BY <2>1, <2>3 DEF BindUserFails
    <3> QED
      BY <1>0, <3>1 DEF TypeOK
  <2> QED
    BY <2>2, <2>3
<1>3. TypeOK' /\ Excluded' /\ InLoop'
  BY <1>0, <1>1, <1>2 DEF TypeOK, Excluded, InLoop
<1>4. Alone(j) /\ Owner(j)' /\ ~Cleaning(j) /\ ~Cleaning(j)' /\ Intact(j)' = Intact(j)
  BY <1>1 DEF Alone, Owner, Cleaning, Intact
<1>5. Moved(j)' = Moved(j)
  BY <1>1 DEF Moved, Netdev
<1>6. Touches(j)
  BY <1>2, <1>4 DEF Touches
<1>7. \A v \in VFs : at[v] # Host => at'[v] # Host
  BY <1>2 DEF Host, User, Unbound
<1>8. /\ \A k : Own(k)' = Own(k) /\ Given(k)' = Given(k)
      /\ \A k \in Jobs \ {j} :
           Intact(k)' = Intact(k) /\ Moved(k)' = Moved(k) /\ Owner(k)' = Owner(k)
  BY <1>4, Frame
<1>9. \A k \in Jobs \ {j} : Apart(j, k)'
  BY <1>4, <1>5, <1>8 DEF IInv, Apart
<1>10. MovedAway(j)' /\ Recovered(j)'
  <2> SUFFICES ASSUME Intact(j), NEW v \in Moved(j)
               PROVE  /\ at'[v] \in {j, User, Unbound}
                      /\ v \in Given(j) \/ at'[v] = j \/ Elsewhere(j, v)'
    BY <1>4, <1>5, <1>8 DEF MovedAway, Recovered
  <2>1. v \in VFs
    BY <1>0, <1>1, MovedOwn, OwnVFs
  <2>2. at[v] \in {j, User, Unbound} /\ (v \in Given(j) \/ at[v] = j \/ Elsewhere(j, v))
    BY <1>4 DEF IInv, MovedAway, Recovered
  <2>3. Elsewhere(j, v) => Elsewhere(j, v)'
    BY <1>8 DEF Elsewhere
  <2> QED
    BY <1>2, <2>1, <2>2, <2>3
<1>11. Missing(j)' /\ Allocated(j)'
  <2>1. \A i : Netdev(j, i)' = Netdev(j, i)
    BY <1>1 DEF Netdev
  <2> QED
    BY <1>0, <1>1, <2>1 DEF Missing, Allocated
<1> QED
  BY <1>1, <1>3, <1>4, <1>6, <1>7, <1>9, <1>10, <1>11, StepKeeps

\* What comes back to the host with the containers of a job was its own.
LEMMA ReturnedType ==
  ASSUME TypeOK, NEW j \in Jobs, NEW S
  PROVE  /\ Returned(j, S) \in [VFs -> Jobs \cup {Host, User, Unbound}]
         /\ \A v \in VFs : \/ Returned(j, S)[v] = at[v]
                           \/ at[v] = j /\ Returned(j, S)[v] = Host
BY DEF TypeOK, Returned

\* Containers exit by themselves or are removed by a cleanup that then fails.
LEMMA ContainersGone ==
  ASSUME IInv, NEW j \in Jobs, ContainerExits(j) \/ ContainerMissing(j) \/ RemoveFails(j)
  PROVE  IInv'
<1>0. TypeOK /\ Excluded /\ InLoop /\ Missing(j) /\ Allocated(j)
  BY DEF IInv
<1>1. PICK S : at' = Returned(j, S)
  BY DEF ContainerExits, ContainerMissing, RemoveFails
<1>2. /\ UNCHANGED <<netdevs, pcidevs, step, trapped>>
      /\ \E sides \in SUBSET Sides :
           /\ up' = [up EXCEPT ![j] = sides]
           /\ pc' = pc => sides # Sides
      /\ faults' \in 0 .. MaxFaults
      /\ \/ pc' = pc /\ mutex' = mutex /\ exited' = TRUE
         \/ /\ pc' = [pc EXCEPT ![j] = "failed"] /\ mutex' = Free
            /\ exited' = exited /\ pc[j] = "rm"
  <2>1. up[j] \in SUBSET Sides
    BY <1>0 DEF TypeOK
  <2>2. CASE ContainerExits(j)
    <3>1. PICK side \in up[j] : up' = [up EXCEPT ![j] = up[j] \ {side}]
      BY <2>2 DEF ContainerExits
    <3>2. up[j] \ {side} \in SUBSET Sides /\ up[j] \ {side} # Sides
      BY <2>1
    <3>3. faults' \in 0 .. MaxFaults
      BY <1>0, <2>2, MaxFaultsAssumption DEF ContainerExits, Fault, TypeOK
    <3>4. /\ UNCHANGED <<netdevs, pcidevs, step, trapped>>
          /\ pc' = pc /\ mutex' = mutex /\ exited' = TRUE
      BY <2>2 DEF ContainerExits
    <3> QED
      BY <3>1, <3>2, <3>3, <3>4
  <2>3. CASE ContainerMissing(j)
    <3>1. {} \in SUBSET Sides /\ {} # Sides
      BY DEF Sides
    <3> QED
      BY <1>0, <2>3, <3>1 DEF ContainerMissing, Die, Goto, TypeOK
  <2>4. CASE RemoveFails(j)
    <3>1. PICK sides \in SUBSET up[j] : up' = [up EXCEPT ![j] = up[j] \ sides]
      BY <2>4 DEF RemoveFails
    <3>2. pc' # pc
      <4>1. pc[j] = "rm" /\ pc'[j] = "failed"
        BY <1>0, <2>4 DEF RemoveFails, Die, Goto, TypeOK
      <4> QED
        BY <4>1
    <3>3. faults' \in 0 .. MaxFaults
      BY <1>0, <2>4, MaxFaultsAssumption DEF RemoveFails, Fault, TypeOK
    <3>4. /\ UNCHANGED <<netdevs, pcidevs, step, trapped>>
          /\ pc' = [pc EXCEPT ![j] = "failed"] /\ mutex' = Free
          /\ exited' = exited /\ pc[j] = "rm"
      BY <2>4 DEF RemoveFails, Die, Goto
    <3>5. up[j] \ sides \in SUBSET Sides
      BY <2>1
    <3> QED
      BY <3>1, <3>2, <3>3, <3>4, <3>5
  <2> QED
    BY <2>2, <2>3, <2>4
<1>3. /\ \A k \in Jobs \ {j} : pc'[k] = pc[k] /\ up'[k] = up[k] /\ step'[k] = step[k]
      /\ \/ pc'[j] = pc[j] /\ up'[j] # Sides
         \/ pc'[j] = "failed" /\ pc[j] = "rm"
  BY <1>0, <1>2 DEF TypeOK
<1>4. TypeOK'
  <2>1. up' \in [Jobs -> SUBSET Sides] /\ mutex' \in Jobs \cup {Free}
    BY <1>0, <1>2 DEF TypeOK
  <2>2. pc' \in [Jobs -> PCs]
    BY <1>0, <1>2 DEF TypeOK, PCs
  <2>3. at' \in [VFs -> Jobs \cup {Host, User, Unbound}]
    BY <1>0, <1>1, ReturnedType
  <2>4. exited' \in BOOLEAN
    BY <1>0, <1>2 DEF TypeOK
  <2> QED
    BY <1>0, <1>2, <1>3, <2>1, <2>2, <2>3, <2>4 DEF TypeOK
<1>5. Excluded' /\ InLoop'
  <2>1. pc[j] = "rm" => mutex = j
    BY <1>0 DEF Excluded, Deactivating
  <2> QED
    <3>1. CASE pc' = pc /\ mutex' = mutex
      BY <1>0, <1>2, <3>1 DEF Excluded, InLoop
    <3>2. CASE pc' = [pc EXCEPT ![j] = "failed"] /\ pc[j] = "rm"
      <4>1. pc'[j] = "failed"
        BY <1>0, <3>2 DEF TypeOK
      <4>2. \A k \in Jobs \ {j} : pc[k] \notin Activating \cup Deactivating
        BY <1>0, <2>1, <3>2 DEF Excluded
      <4> QED
        BY <1>0, <1>2, <1>3, <4>1, <4>2 DEF Excluded, InLoop, Activating, Deactivating
    <3> QED
      BY <1>2, <3>1, <3>2
<1>6. Alone(j) /\ (Owner(j)' \/ ~Owner(j))
  BY <1>2, <1>3 DEF Alone, Owner
<1>7. \A v \in VFs : at'[v] = at[v] \/ (at[v] = j /\ at'[v] = Host)
  BY <1>0, <1>1, ReturnedType
<1>8. Touches(j)
  BY <1>7 DEF Touches
<1>9. /\ \A k : Own(k)' = Own(k) /\ Given(k)' = Given(k)
      /\ \A k \in Jobs \ {j} :
           Intact(k)' = Intact(k) /\ Moved(k)' = Moved(k) /\ Owner(k)' = Owner(k)
  BY <1>6, Frame
<1>10. Intact(j)' => /\ pc'[j] = pc[j] /\ Cleaning(j) /\ Cleaning(j)' /\ Intact(j)
                     /\ Moved(j)' = Moved(j) /\ ToRebind(j)' = ToRebind(j)
  <2>1. Intact(j)' => pc'[j] = pc[j] /\ Cleaning(j) /\ Cleaning(j)' /\ Intact(j)
    BY <1>3 DEF Intact, Cleaning
  <2>2. pc'[j] = pc[j] => Moved(j)' = Moved(j)
    BY <1>2 DEF Moved, Netdev
  <2>3. pc'[j] = pc[j] => ToRebind(j)' = ToRebind(j)
    BY <1>2 DEF ToRebind
  <2> QED
    BY <2>1, <2>2, <2>3
<1>11. \A k \in Jobs \ {j} : Apart(j, k)'
  BY <1>9, <1>10 DEF IInv, Apart
<1>12. MovedAway(j)'
  BY <1>10 DEF MovedAway
<1>13. Recovered(j)'
  <2> SUFFICES ASSUME Intact(j)', NEW v \in Moved(j)
               PROVE  v \in ToRebind(j) \/ at'[v] = Host \/ Elsewhere(j, v)'
    BY <1>10 DEF Recovered
  <2>1. v \in ToRebind(j) \/ at[v] = Host \/ Elsewhere(j, v)
    BY <1>10 DEF IInv, Recovered
  <2>2. Elsewhere(j, v) => Elsewhere(j, v)'
    BY <1>9 DEF Elsewhere
  <2>3. v \in VFs
    <3>1. netdevs[j] # <<>>
      BY <1>0, <1>10 DEF Cleaning, TypeOK
    <3> QED
      BY <1>0, <3>1, MovedOwn, OwnVFs
  <2> QED
    BY <1>7, <2>1, <2>2, <2>3
<1>14. Missing(j)' /\ Allocated(j)'
  BY <1>2, <1>3 DEF Missing, Allocated
<1>15. Cleaning(j) => Claimed'
  <2> SUFFICES ASSUME Cleaning(j), NEW v \in VFs, at'[v] # Host
               PROVE  \E k \in Jobs : Owner(k)' /\ v \in Own(k)
    BY <1>9 DEF Claimed
  <2>1. at[v] # Host
    BY <1>7
  <2> QED
    BY <1>6, <1>9, <2>1 DEF IInv, Claimed
<1> QED
  BY <1>2, <1>4, <1>5, <1>6, <1>8, <1>11, <1>12, <1>13, <1>14, <1>15, StepKeeps DEF Deactivating

\* docker rm of both containers: what the job moved comes back, unless it is
\* bound to another driver and still to be bound back.
LEMMA RemoveStep ==
  ASSUME IInv, NEW j \in Jobs, RemoveContainers(j)
  PROVE  IInv'
<1>0. TypeOK /\ Excluded /\ InLoop /\ MovedAway(j) /\ Recovered(j)
  BY DEF IInv
<1>1. /\ pc[j] = "rm" /\ pc' = [pc EXCEPT ![j] = "rebind"] /\ up[j] = Sides
      /\ at' = Returned(j, Sides) /\ up' = [up EXCEPT ![j] = {}]
      /\ step' = [step EXCEPT ![j] = 1]
      /\ UNCHANGED <<mutex, netdevs, pcidevs, trapped, faults, exited>>
  BY DEF RemoveContainers, Goto
<1>2. /\ pc'[j] = "rebind" /\ step'[j] = 1 /\ netdevs[j] # <<>>
      /\ \A k \in Jobs \ {j} : pc'[k] = pc[k] /\ up'[k] = up[k] /\ step'[k] = step[k]
  BY <1>0, <1>1 DEF TypeOK
<1>3. TypeOK'
  <2>1. at' \in [VFs -> Jobs \cup {Host, User, Unbound}]
    BY <1>0, <1>1, ReturnedType
  <2>2. up' \in [Jobs -> SUBSET Sides] /\ step' \in [Jobs -> 1 .. 5]
    BY <1>0, <1>1 DEF TypeOK
  <2>3. pc' \in [Jobs -> PCs]
    BY <1>0, <1>1 DEF TypeOK, PCs, Deactivating
  <2> QED
    BY <1>0, <1>1, <1>2, <2>1, <2>2, <2>3 DEF TypeOK
<1>4. Excluded' /\ InLoop'
  BY <1>0, <1>1, <1>2 DEF Excluded, InLoop, Deactivating
<1>5. Alone(j) /\ Owner(j)' /\ Intact(j) /\ ~Cleaning(j) /\ Cleaning(j)'
  BY <1>1, <1>2 DEF Alone, Owner, Intact, Cleaning
<1>6. \A v \in VFs : at'[v] = IF at[v] = j THEN Host ELSE at[v]
  BY <1>1, VFSides DEF Returned
<1>7. Touches(j)
  BY <1>6 DEF Touches
<1>8. /\ \A k : Own(k)' = Own(k) /\ Given(k)' = Given(k)
      /\ \A k \in Jobs \ {j} :
           Intact(k)' = Intact(k) /\ Moved(k)' = Moved(k) /\ Owner(k)' = Owner(k)
  BY <1>5, Frame
<1>9. Moved(j)' = Moved(j)
  BY <1>1, <1>2 DEF Moved, Netdev
<1>10. ToRebind(j)' = Given(j)
  BY <1>1, <1>2 DEF ToRebind, Given
<1>11. \A k \in Jobs \ {j} : Apart(j, k)'
  BY <1>5, <1>8, <1>9 DEF IInv, Apart
<1>12. MovedAway(j)'
  BY <1>5 DEF MovedAway
<1>13. Recovered(j)'
  <2> SUFFICES ASSUME NEW v \in Moved(j)
               PROVE  v \in Given(j) \/ at'[v] = Host \/ Elsewhere(j, v)'
    BY <1>5, <1>9, <1>10 DEF Recovered
  <2>1. v \in Given(j) \/ at[v] = j \/ Elsewhere(j, v)
    BY <1>0, <1>5 DEF Recovered
  <2>2. Elsewhere(j, v) => Elsewhere(j, v)'
    BY <1>8 DEF Elsewhere
  <2>3. v \in VFs
    BY <1>0, <1>2, MovedOwn, OwnVFs
  <2> QED
    BY <1>6, <2>1, <2>2, <2>3
<1>14. Missing(j)' /\ Allocated(j)'
  BY <1>2 DEF Missing, Allocated
<1> QED
  BY <1>1, <1>3, <1>4, <1>5, <1>7, <1>11, <1>12, <1>13, <1>14, StepKeeps DEF Deactivating

\* One of the addresses is bound back, or left without a driver.
LEMMA RebindSteps ==
  ASSUME IInv, NEW j \in Jobs, Rebind(j) \/ RebindFails(j)
  PROVE  IInv'
<1>0. TypeOK /\ Excluded /\ InLoop /\ Recovered(j)
  BY DEF IInv
<1> DEFINE w == pcidevs[j][step[j]]
<1>1. /\ pc[j] = "rebind" /\ step[j] \in 1 .. 4 /\ netdevs[j] # <<>> /\ mutex = j
      /\ w \in VFs /\ w \in Given(j)
  <2>1. pc[j] = "rebind"
    BY DEF Rebind, RebindFails
  <2>2. step[j] \in 1 .. 4 /\ mutex = j /\ netdevs[j] # <<>>
    BY <1>0, <2>1 DEF InLoop, Excluded, TypeOK, Deactivating
  <2> QED
    BY <1>0, <2>1, <2>2, OwnVFs DEF Given
<1>2. /\ UNCHANGED <<up, netdevs, pcidevs, trapped, exited>>
      /\ faults' \in 0 .. MaxFaults
      /\ \/ /\ pc' = [pc EXCEPT ![j] = "failed"] /\ step' = step /\ mutex' = Free
            /\ at' = at \/ at' = [at EXCEPT ![w] = Unbound]
         \/ /\ pc' = [pc EXCEPT ![j] = IF step[j] = 4 THEN "leave" ELSE "rebind"]
            /\ step' = [step EXCEPT ![j] = step[j] + 1] /\ mutex' = mutex
            /\ at' = [at EXCEPT ![w] = Host]
  BY <1>0, MaxFaultsAssumption DEF TypeOK, Rebind, RebindFails, Goto, Die, Fault
<1> HIDE DEF w
<1>3. /\ \A k \in Jobs \ {j} : pc'[k] = pc[k] /\ up'[k] = up[k] /\ step'[k] = step[k]
      /\ \A v \in VFs : v # w => at'[v] = at[v]
      /\ \/ /\ pc'[j] = "failed" /\ mutex' = Free
            /\ at'[w] = at[w] \/ at'[w] = Unbound
         \/ /\ pc'[j] = IF step[j] = 4 THEN "leave" ELSE "rebind"
            /\ step'[j] = step[j] + 1 /\ mutex' = mutex /\ at'[w] = Host
  BY <1>0, <1>1, <1>2 DEF TypeOK
<1>4. TypeOK'
  <2>1. at' \in [VFs -> Jobs \cup {Host, User, Unbound}]
    BY <1>0, <1>1, <1>2 DEF TypeOK
  <2>2. step' \in [Jobs -> 1 .. 5]
    BY <1>0, <1>1, <1>2 DEF TypeOK
  <2>3. pc' \in [Jobs -> PCs] /\ mutex' \in Jobs \cup {Free}
    BY <1>0, <1>2 DEF TypeOK, PCs, Deactivating
  <2> QED
    BY <1>0, <1>1, <1>2, <1>3, <2>1, <2>2, <2>3 DEF TypeOK
<1>5. Excluded' /\ InLoop'
  BY <1>0, <1>1, <1>3 DEF Excluded, InLoop, Activating, Deactivating
<1>6. Alone(j) /\ Owner(j)' /\ Cleaning(j) /\ Intact(j)
  BY <1>1, <1>2, <1>3 DEF Alone, Owner, Cleaning, Intact
<1>7. Touches(j)
  <2> SUFFICES ASSUME NEW v \in VFs, at'[v] # at[v]
               PROVE  v = w /\ at'[v] \in {Host, Unbound}
    BY <1>1, <1>6 DEF Touches
  <2> QED
    BY <1>3
<1>8. /\ \A k : Own(k)' = Own(k) /\ Given(k)' = Given(k)
      /\ \A k \in Jobs \ {j} :
           Intact(k)' = Intact(k) /\ Moved(k)' = Moved(k) /\ Owner(k)' = Owner(k)
  BY <1>6, Frame
<1>9. Intact(j)' => /\ Cleaning(j)' /\ at'[w] = Host
                    /\ pc'[j] = IF step[j] = 4 THEN "leave" ELSE "rebind"
                    /\ step'[j] = step[j] + 1
  BY <1>3 DEF Intact, Cleaning
<1>10. Intact(j)' => Moved(j)' = Moved(j)
  BY <1>1, <1>2, <1>9 DEF Moved, Netdev, Cleaning
<1>11. \A k \in Jobs \ {j} : Apart(j, k)'
  BY <1>6, <1>8, <1>10 DEF IInv, Apart
<1>12. MovedAway(j)'
  BY <1>9 DEF MovedAway
<1>13. Recovered(j)'
  <2> SUFFICES ASSUME Intact(j)', NEW v \in Moved(j)
               PROVE  v \in ToRebind(j)' \/ at'[v] = Host \/ Elsewhere(j, v)'
    BY <1>9, <1>10 DEF Recovered
  <2>1. v \in ToRebind(j) \/ at[v] = Host \/ Elsewhere(j, v)
    BY <1>0, <1>6 DEF Recovered
  <2>2. Elsewhere(j, v) => Elsewhere(j, v)'
    BY <1>8 DEF Elsewhere
  <2>3. v \in VFs
    BY <1>0, <1>1, MovedOwn, OwnVFs
  <2>4. v \in ToRebind(j) => v = w \/ v \in ToRebind(j)'
    <3> SUFFICES ASSUME NEW i \in step[j] .. 4, i # step[j]
                 PROVE  pcidevs[j][i] \in ToRebind(j)'
      BY DEF ToRebind, w
    <3>1. i \in step[j] + 1 .. 4 /\ step[j] # 4
      BY <1>1
    <3>2. pc'[j] = "rebind" /\ step'[j] = step[j] + 1
      BY <1>9, <3>1
    <3> QED
      BY <1>2, <3>1, <3>2 DEF ToRebind
  <2> QED
    BY <1>3, <1>9, <2>1, <2>2, <2>3, <2>4
<1>14. Missing(j)' /\ Allocated(j)'
  BY <1>3 DEF Missing, Allocated
<1>15. Claimed'
  <2> SUFFICES ASSUME NEW v \in VFs, at'[v] # Host
               PROVE  \E k \in Jobs : Owner(k)' /\ v \in Own(k)
    BY <1>8 DEF Claimed
  <2>1. CASE v = w
    BY <1>1, <1>6, <2>1 DEF IInv, GivenIsOwn
  <2>2. CASE v # w
    <3>1. at[v] # Host
      BY <1>3, <2>2
    <3> QED
      BY <1>6, <1>8, <3>1 DEF IInv, Claimed
  <2> QED
    BY <2>1, <2>2
<1> QED
  BY <1>1, <1>2, <1>4, <1>5, <1>6, <1>7, <1>11, <1>12, <1>13, <1>14, <1>15, StepKeeps
  DEF Deactivating

\* A job that leaves has nothing that nobody else has.
LEMMA ExitMutexStep ==
  ASSUME IInv, NEW j \in Jobs, ExitMutex(j)
  PROVE  IInv'
<1>0. TypeOK /\ Excluded /\ InLoop /\ Recovered(j) /\ Claimed
  BY DEF IInv
<1>1. /\ pc[j] = "leave" /\ pc' = [pc EXCEPT ![j] = "done"] /\ mutex' = Free
      /\ UNCHANGED <<at, up, netdevs, pcidevs, step, trapped, faults, exited>>
  BY DEF ExitMutex, Goto
<1>2. pc'[j] = "done" /\ (\A k \in Jobs \ {j} : pc'[k] = pc[k]) /\ mutex = j
  BY <1>0, <1>1 DEF TypeOK, Excluded, Deactivating
<1>3. TypeOK' /\ Excluded' /\ InLoop'
  BY <1>0, <1>1, <1>2 DEF TypeOK, PCs, Excluded, InLoop, Activating, Deactivating
<1>4. Alone(j) /\ Cleaning(j) /\ Intact(j) /\ ~Intact(j)' /\ Touches(j)
  BY <1>1, <1>2 DEF Alone, Cleaning, Intact, Touches
<1>5. /\ \A k : Own(k)' = Own(k)
      /\ \A k \in Jobs \ {j} : Owner(k)' = Owner(k)
  BY <1>4, Frame
<1>6. Claimed'
  <2> SUFFICES ASSUME NEW v \in VFs, at[v] # Host
               PROVE  \E k \in Jobs : Owner(k)' /\ v \in Own(k)
    BY <1>1, <1>5 DEF Claimed
  <2>1. CASE v \in Own(j)
    <3>1. v \in Moved(j)
      BY <1>0, <1>1, <2>1, MovedOwn
    <3>2. Elsewhere(j, v)
      BY <1>0, <1>1, <1>4, <3>1 DEF Recovered, ToRebind
    <3> QED
      BY <1>5, <3>2 DEF Elsewhere
  <2>2. CASE v \notin Own(j)
    BY <1>0, <1>5, <2>2 DEF Claimed
  <2> QED
    BY <2>1, <2>2
<1>7. /\ \A k \in Jobs \ {j} : Apart(j, k)'
      /\ MovedAway(j)' /\ Recovered(j)' /\ Missing(j)' /\ Allocated(j)'
  BY <1>2, <1>4 DEF Apart, MovedAway, Recovered, Missing, Allocated
<1> QED
  BY <1>1, <1>3, <1>4, <1>6, <1>7, StepKeeps

\* Steps of others change nothing here.
LEMMA StutterStep ==
  ASSUME IInv, UNCHANGED vars
  PROVE  IInv'
<1>1. Alone(Free) /\ Jobs \ {Free} = Jobs
  BY JobsAssumption DEF vars, Alone
<1>2. /\ \A k : Own(k)' = Own(k) /\ Given(k)' = Given(k)
      /\ \A k \in Jobs :
           /\ Intact(k)' = Intact(k) /\ Cleaning(k)' = Cleaning(k)
           /\ Moved(k)' = Moved(k) /\ ToRebind(k)' = ToRebind(k)
           /\ Owner(k)' = Owner(k)
  BY <1>1, Frame
<1>3. TypeOK' /\ Excluded' /\ InLoop'
  BY DEF vars, IInv, TypeOK, Excluded, InLoop
<1>4. GivenIsOwn' /\ Claimed' /\ \A j, k \in Jobs : j # k => Apart(j, k)'
  BY <1>2 DEF vars, IInv, GivenIsOwn, Claimed, Apart
<1>5. ASSUME NEW j \in Jobs
      PROVE  MovedAway(j)' /\ Recovered(j)' /\ Missing(j)' /\ Allocated(j)'
  <2>1. \A v : Elsewhere(j, v)' = Elsewhere(j, v)
    BY <1>2 DEF Elsewhere
  <2>2. MovedAway(j)' /\ Recovered(j)'
    BY <1>2, <2>1 DEF vars, IInv, MovedAway, Recovered
  <2>3. \A i : Netdev(j, i)' = Netdev(j, i)
    BY DEF vars, Netdev
  <2>4. Missing(j)' /\ Allocated(j)'
    BY <2>3 DEF vars, IInv, Missing, Allocated
  <2> QED
    BY <2>2, <2>4
<1> QED
  BY <1>3, <1>4, <1>5 DEF IInv

\* Every step of the scripts, of the tests and of the containers keeps it.
LEMMA NextIInv == IInv /\ [Next]_vars => IInv'
<1> SUFFICES ASSUME IInv, [Next]_vars PROVE IInv'
  OBVIOUS
<1>1. ASSUME NEW j \in Jobs, Script(j)
      PROVE  IInv'
  BY <1>1, EnterMutexStep, SelectStep, FailSteps, ContainerStartSteps, MoveSteps, JobSteps,
     RemoveStep, ContainersGone, RebindSteps, ExitMutexStep DEF Script
<1>2. ASSUME NEW j \in Jobs, BindUserDriver(j)
      PROVE  IInv'
  BY <1>2, UserDriverSteps
<1>3. ASSUME NEW j \in Jobs, Mishap(j)
      PROVE  IInv'
  BY <1>3, FailSteps, MoveSteps, UserDriverSteps, ContainersGone, RebindSteps DEF Mishap
<1> QED
  BY <1>1, <1>2, <1>3, StutterStep DEF Next

\* The invariant holds always.
LEMMA SpecIInv == Spec => []IInv
BY InitIInv, NextIInv, PTL DEF Spec

-----------------------------------------------------------------------------
(* The theorems. *)

\* Every variable keeps its type; a job beyond the selection has four devices
\* and four addresses, all of them VFs of the server.
THEOREM TypeCorrect == Spec => []TypeOK
<1>1. IInv => TypeOK
  BY DEF IInv
<1> QED
  BY <1>1, SpecIInv, PTL

\* Two jobs that both work keep apart what they were given.
LEMMA WorkingApart ==
  ASSUME IInv, NEW j \in Jobs, NEW k \in Jobs, j # k, Working(j), Working(k)
  PROVE  Given(j) \cap Given(k) = {}
<1>1. Intact(j) /\ Intact(k) /\ pc[j] # "bind" /\ pc[k] # "bind"
  BY DEF Working, Intact
<1>2. Moved(j) = Own(j) /\ Moved(k) = Own(k)
  BY <1>1, MovedOwn DEF IInv
<1>3. Given(j) \subseteq Own(j) /\ Given(k) \subseteq Own(k)
  BY DEF IInv, TypeOK, GivenIsOwn, Working
<1> QED
  BY <1>1, <1>2, <1>3 DEF IInv, Apart

\* No two jobs whose containers run are given a common VF, although the flock is
\* released before the VFs are used.  (activate_wrapper, exit_mutex)
THEOREM ExclusiveTheorem == Spec => []ExclusiveVFs
<1>1. IInv => ExclusiveVFs
  BY WorkingApart DEF ExclusiveVFs
<1> QED
  BY <1>1, SpecIInv, PTL

\* While no container exits by itself the addresses of a job are those of the
\* devices it moved, in their order.  (get_pci_addr, bind_interfaces_to_containers)
THEOREM WiredTheorem == Spec => []WiredTogether
<1>1. ASSUME IInv
      PROVE  WiredTogether
  <2> SUFFICES ASSUME ~exited, NEW j \in Jobs, Working(j)
               PROVE  pcidevs[j] = <<Netdev(j, 1), Netdev(j, 2), Netdev(j, 3), Netdev(j, 4)>>
    BY DEF WiredTogether, AddressesAllocated
  <2>1. \A i \in 1 .. 4 : pcidevs[j][i] = Netdev(j, i)
    BY <1>1 DEF IInv, Allocated, Working
  <2>2. pcidevs[j] \in VFs \X VFs \X VFs \X VFs
    BY <1>1 DEF IInv, TypeOK, Working
  <2>3. pcidevs[j] = <<pcidevs[j][1], pcidevs[j][2], pcidevs[j][3], pcidevs[j][4]>>
    BY <2>2
  <2> QED
    BY <2>1, <2>3
<1> QED
  BY <1>1, SpecIInv, PTL

\* A VF that is not on the host belongs to a job that is not through with it or
\* has failed.  (deactivate_wrapper, bind_interfaces_to_driver)
THEOREM NothingLeftBehindTheorem == Spec => []NothingLeftBehind
<1>1. IInv => NothingLeftBehind
  BY DEF IInv, Claimed, Owner, Own, NothingLeftBehind
<1> QED
  BY <1>1, SpecIInv, PTL

\* Binding the interfaces of a job back to the kernel driver changes no VF of a
\* job that works.  (bind_interfaces_to_driver)
THEOREM OthersUndisturbedTheorem == Spec => OthersUndisturbed
<1>1. IInv /\ [Next]_vars =>
        [\A j, k \in Jobs : j # k /\ Rebind(j) /\ Working(k) =>
           \A v \in Given(k) : at'[v] = at[v]]_vars
  <2> SUFFICES ASSUME IInv, NEW j \in Jobs, NEW k \in Jobs, j # k, Rebind(j), Working(k),
                      NEW v \in Given(k)
               PROVE  at'[v] = at[v]
    OBVIOUS
  <2>1. pc[j] = "rebind" /\ at' = [at EXCEPT ![pcidevs[j][step[j]]] = Host]
    BY DEF Rebind
  <2>2. step[j] \in 1 .. 4 /\ netdevs[j] # <<>> /\ netdevs[k] # <<>>
    BY <2>1 DEF IInv, InLoop, TypeOK, Working
  <2>3. pcidevs[j][step[j]] \in Own(j)
    BY <2>2 DEF IInv, GivenIsOwn, Given
  <2>4. v \in Own(k) /\ v \in VFs
    BY <2>2, OwnVFs DEF IInv, GivenIsOwn
  <2>5. Moved(j) = Own(j) /\ Moved(k) = Own(k) /\ Intact(j) /\ Intact(k)
    BY <2>1, MovedOwn DEF IInv, Working, Intact, Cleaning
  <2>6. v # pcidevs[j][step[j]]
    BY <2>3, <2>4, <2>5 DEF IInv, Apart
  <2> QED
    BY <2>1, <2>4, <2>6 DEF IInv, TypeOK
<1> QED
  BY <1>1, SpecIInv, PTL DEF Spec, OthersUndisturbed

-----------------------------------------------------------------------------
(* The scripts implement the allocator of VfAllocator. *)

\* The first interface chosen comes before the second.
Ordered == \A j \in Jobs : netdevs[j] # <<>> => netdevs[j][1] < netdevs[j][2]

\* get_available_interfaces takes the first two TG devices in their order, and
\* nothing else writes TG_NETDEVS.
LEMMA OrderedStep == TypeOK /\ Ordered /\ [Next]_vars => Ordered'
<1> SUFFICES ASSUME TypeOK, Ordered, [Next]_vars PROVE Ordered'
  OBVIOUS
<1>1. ASSUME NEW j \in Jobs, get_available_interfaces(j)
      PROVE  Ordered'
  <2>1. PICK k, m \in 1 .. Pairs : netdevs' = [netdevs EXCEPT ![j] = <<k, m>>] /\ k < m
    BY <1>1 DEF get_available_interfaces, FirstTwo
  <2>2. netdevs'[j][1] = k /\ netdevs'[j][2] = m /\ \A i \in Jobs \ {j} : netdevs'[i] = netdevs[i]
    BY <2>1 DEF TypeOK
  <2> QED
    BY <2>1, <2>2 DEF Ordered
<1>2. ASSUME UNCHANGED netdevs
      PROVE  Ordered'
  BY <1>2 DEF Ordered
<1>3. ASSUME NEW j \in Jobs, Script(j) /\ ~get_available_interfaces(j)
      PROVE  UNCHANGED netdevs
  BY <1>3 DEF Script, EnterMutex, NotEnoughInterfaces, StartTg, StartDut1, Inspect, InspectFails,
     MoveInterface, MoveImpossible, ExportAndLeave, InstallTrap, TestsEnd, RemoveContainers,
     ContainerMissing, Rebind, RebindImpossible, ExitMutex
<1>4. ASSUME NEW j \in Jobs, Mishap(j) \/ BindUserDriver(j)
      PROVE  UNCHANGED netdevs
  BY <1>4 DEF Mishap, BindUserDriver, MutexTimeout, DockerFails, MoveFails, JobLost, BindUserFails,
     ContainerExits, RemoveFails, RebindFails
<1> QED
  BY <1>1, <1>2, <1>3, <1>4 DEF Next, vars

\* A job is not over without having given up what it held.
LEMMA OverHoldsNothing == \A j : Phase(j) = "over" => Held(j) = {}
BY DEF Phase, Held

\* The allocator sees nothing of the others in a step of job j.
LEMMA FrameMap ==
  ASSUME NEW j \in Jobs, Alone(j)
  PROVE  /\ HeldMap' = [HeldMap EXCEPT ![j] = Held(j)']
         /\ PhaseMap' = [PhaseMap EXCEPT ![j] = Phase(j)']
<1>1. ASSUME NEW k \in Jobs \ {j}
      PROVE  Held(k)' = Held(k) /\ Phase(k)' = Phase(k)
  <2>1. /\ Intact(k)' = Intact(k) /\ Moved(k)' = Moved(k)
        /\ pc'[k] = pc[k] /\ up'[k] = up[k]
    BY Frame DEF Alone
  <2> QED
    BY <2>1 DEF Held, Phase
<1> QED
  BY <1>1 DEF HeldMap, PhaseMap

\* A step that leaves the picture of job j alone is none of the allocator.
LEMMA NoAllocStep ==
  ASSUME NEW j \in Jobs, Alone(j), Held(j)' = Held(j), Phase(j)' = Phase(j)
  PROVE  [Alloc!AllocNext]_(Alloc!allocVars)
<1>1. HeldMap' = HeldMap /\ PhaseMap' = PhaseMap
  BY FrameMap DEF HeldMap, PhaseMap
<1> QED
  BY <1>1 DEF Alloc!allocVars

\* A step after which job j is over is Finish, or it was over before.
LEMMA OverStep ==
  ASSUME NEW j \in Jobs, Alone(j), Phase(j)' = "over"
  PROVE  [Alloc!AllocNext]_(Alloc!allocVars)
<1>1. Held(j)' = {}
  BY DEF Phase, Held
<1>2. CASE Phase(j) = "over"
  BY <1>1, <1>2, OverHoldsNothing, NoAllocStep
<1>3. CASE Phase(j) # "over"
  <2>1. PhaseMap[j] # "over"
    BY <1>3 DEF PhaseMap
  <2>2. Alloc!Finish(j)
    BY <1>1, <2>1, FrameMap DEF Alloc!Finish
  <2> QED
    BY <2>2 DEF Alloc!AllocNext
<1> QED
  BY <1>2, <1>3

\* Steps of job j after which it has failed or is done.
LEMMA FailAlloc ==
  ASSUME TypeOK, NEW j \in Jobs,
         \/ MutexTimeout(j) \/ NotEnoughInterfaces(j) \/ InspectFails(j) \/ DockerFails(j)
         \/ MoveImpossible(j) \/ MoveFails(j) \/ JobLost(j) \/ ContainerMissing(j)
         \/ RemoveFails(j) \/ RebindImpossible(j) \/ RebindFails(j) \/ ExitMutex(j)
  PROVE  [Alloc!AllocNext]_(Alloc!allocVars)
<1>1. PICK l \in {"failed", "done"}, sides \in SUBSET Sides :
        /\ pc' = [pc EXCEPT ![j] = l] /\ up' = [up EXCEPT ![j] = sides]
        /\ UNCHANGED <<netdevs, pcidevs, step>>
  <2>1. up[j] \in SUBSET Sides /\ up = [up EXCEPT ![j] = up[j]]
    BY DEF TypeOK
  <2>2. CASE \/ MutexTimeout(j) \/ NotEnoughInterfaces(j) \/ InspectFails(j) \/ DockerFails(j)
             \/ MoveImpossible(j) \/ MoveFails(j) \/ JobLost(j)
             \/ RebindImpossible(j) \/ RebindFails(j) \/ ExitMutex(j)
    <3>1. up' = up /\ UNCHANGED <<netdevs, pcidevs, step>>
          /\ (pc' = [pc EXCEPT ![j] = "failed"] \/ pc' = [pc EXCEPT ![j] = "done"])
      BY <2>2 DEF MutexTimeout, NotEnoughInterfaces, InspectFails, DockerFails, MoveImpossible,
         MoveFails, JobLost, RebindImpossible, RebindFails, ExitMutex, Die, Goto
    <3> QED
      BY <2>1, <3>1
  <2>3. CASE ContainerMissing(j)
    <3>1. /\ pc' = [pc EXCEPT ![j] = "failed"] /\ up' = [up EXCEPT ![j] = {}]
          /\ UNCHANGED <<netdevs, pcidevs, step>>
      BY <2>3 DEF ContainerMissing, Die, Goto
    <3>2. {} \in SUBSET Sides
      OBVIOUS
    <3> QED
      BY <3>1, <3>2
  <2>4. CASE RemoveFails(j)
    <3>1. PICK sides \in SUBSET up[j] : up' = [up EXCEPT ![j] = up[j] \ sides]
      BY <2>4 DEF RemoveFails
    <3>2. up[j] \ sides \in SUBSET Sides
      BY <2>1
    <3> QED
      BY <2>4, <3>1, <3>2 DEF RemoveFails, Die, Goto
  <2> QED
    BY <2>2, <2>3, <2>4
<1>2. Alone(j) /\ pc'[j] = l
  BY <1>1 DEF TypeOK, Alone
<1>3. Phase(j)' = "over"
  BY <1>2 DEF Phase, Intact, Cleaning
<1> QED
  BY <1>2, <1>3, OverStep

\* Steps of job j that leave its containers and its devices alone.
LEMMA QuietAlloc ==
  ASSUME TypeOK, NEW j \in Jobs,
         EnterMutex(j) \/ InstallTrap(j) \/ TestsEnd(j) \/ BindUserDriver(j) \/ BindUserFails(j)
  PROVE  [Alloc!AllocNext]_(Alloc!allocVars)
<1>1. /\ UNCHANGED <<up, netdevs, pcidevs, step>>
      /\ \/ pc' = pc
         \/ pc[j] = "idle" /\ pc' = [pc EXCEPT ![j] = "select"]
         \/ pc[j] = "deactivate" /\ pc' = [pc EXCEPT ![j] = "rm"]
         \/ pc[j] = "activated" /\ pc' = [pc EXCEPT ![j] = "tests"]
         \/ pc[j] = "tests" /\ pc' = [pc EXCEPT ![j] = "deactivate"]
  BY DEF EnterMutex, InstallTrap, TestsEnd, BindUserDriver, BindUserFails, Goto
<1>2. /\ Alone(j)
      /\ \/ pc'[j] = pc[j]
         \/ pc[j] = "idle" /\ pc'[j] = "select"
         \/ /\ pc[j] \in {"activated", "tests", "deactivate"}
            /\ pc'[j] \in {"tests", "deactivate", "rm"}
  BY <1>1 DEF TypeOK, Alone
<1>3. Intact(j)' = Intact(j) /\ Moved(j)' = Moved(j)
  BY <1>1, <1>2 DEF Intact, Cleaning, Moved, Netdev
<1>4. Held(j)' = Held(j) /\ Phase(j)' = Phase(j)
  BY <1>1, <1>2, <1>3 DEF Held, Phase
<1> QED
  BY <1>2, <1>4, NoAllocStep

\* Choosing interfaces takes nothing yet.
LEMMA SelectAlloc ==
  ASSUME TypeOK, NEW j \in Jobs, get_available_interfaces(j)
  PROVE  [Alloc!AllocNext]_(Alloc!allocVars)
<1>1. PICK p, q :
        /\ netdevs' = [netdevs EXCEPT ![j] = p] /\ pcidevs' = [pcidevs EXCEPT ![j] = q]
        /\ pc[j] = "select" /\ pc' = [pc EXCEPT ![j] = "start_tg"]
        /\ UNCHANGED <<up, step>>
  BY DEF get_available_interfaces, Goto
<1>2. ASSUME NEW k \in Jobs
      PROVE  Held(k)' = Held(k) /\ Phase(k)' = Phase(k)
  <2>1. CASE k = j
    <3>1. pc'[k] = "start_tg"
      BY <1>1, <2>1 DEF TypeOK
    <3> QED
      BY <1>1, <2>1, <3>1 DEF Held, Phase, Intact, Cleaning
  <2>2. CASE k # j
    <3>1. pc'[k] = pc[k] /\ netdevs'[k] = netdevs[k] /\ up'[k] = up[k] /\ step'[k] = step[k]
      BY <1>1, <2>2 DEF TypeOK
    <3>2. Intact(k)' = Intact(k) /\ Moved(k)' = Moved(k)
      BY <3>1 DEF Intact, Cleaning, Moved, Netdev
    <3> QED
      BY <3>1, <3>2 DEF Held, Phase
  <2> QED
    BY <2>1, <2>2
<1>3. HeldMap' = HeldMap /\ PhaseMap' = PhaseMap
  BY <1>2 DEF HeldMap, PhaseMap
<1> QED
  BY <1>3 DEF Alloc!allocVars

\* Neither does starting the containers; one that has gone meanwhile ends it.
LEMMA StartAlloc ==
  ASSUME TypeOK, NEW j \in Jobs, StartTg(j) \/ StartDut1(j) \/ Inspect(j)
  PROVE  [Alloc!AllocNext]_(Alloc!allocVars)
<1>1. CASE StartTg(j) \/ StartDut1(j)
  <2>1. PICK l \in {"start_dut1", "inspect"}, sides \in SUBSET Sides :
          /\ pc[j] \in {"start_tg", "start_dut1"} /\ pc' = [pc EXCEPT ![j] = l]
          /\ up' = [up EXCEPT ![j] = sides]
          /\ UNCHANGED <<netdevs, pcidevs, step>>
    <3>1. up[j] \cup {"tg"} \in SUBSET Sides /\ up[j] \cup {"dut1"} \in SUBSET Sides
      BY DEF TypeOK, Sides
    <3> QED
      BY <1>1, <3>1 DEF StartTg, StartDut1, Goto
  <2>2. Alone(j) /\ pc'[j] = l /\ up'[j] = sides
    BY <2>1 DEF TypeOK, Alone
  <2>3. Held(j) = {} /\ Held(j)' = {} /\ Phase(j) = "taking"
    BY <2>1, <2>2 DEF Held, Phase, Intact, Cleaning
  <2>4. Phase(j)' = "taking" \/ Phase(j)' = "over"
    BY <2>2 DEF Phase, Intact, Cleaning
  <2> QED
    BY <2>2, <2>3, <2>4, NoAllocStep, OverStep
<1>2. CASE Inspect(j)
  <2>1. /\ pc[j] = "inspect" /\ pc' = [pc EXCEPT ![j] = "bind"] /\ up[j] = Sides
        /\ step' = [step EXCEPT ![j] = 1]
        /\ UNCHANGED <<up, netdevs, pcidevs>>
    BY <1>2 DEF Inspect, Goto
  <2>2. Alone(j) /\ pc'[j] = "bind" /\ step'[j] = 1
    BY <2>1 DEF TypeOK, Alone
  <2>3. Moved(j)' = {}
    BY <2>2 DEF Moved
  <2>4. Held(j) = {} /\ Held(j)' = {} /\ Phase(j) = "taking" /\ Phase(j)' = "taking"
    BY <2>1, <2>2, <2>3 DEF Held, Phase, Intact, Cleaning
  <2> QED
    BY <2>2, <2>4, NoAllocStep
<1> QED
  BY <1>1, <1>2

\* A container that exits by itself ends the job, unless it has taken nothing yet.
LEMMA ExitAlloc ==
  ASSUME TypeOK, NEW j \in Jobs, ContainerExits(j)
  PROVE  [Alloc!AllocNext]_(Alloc!allocVars)
<1>1. PICK side \in up[j] :
        /\ up' = [up EXCEPT ![j] = @ \ {side}]
        /\ UNCHANGED <<pc, netdevs, pcidevs, step>>
  BY DEF ContainerExits
<1>2. Alone(j) /\ up'[j] # Sides
  BY <1>1 DEF TypeOK, Alone
<1>3. CASE pc[j] \in {"idle", "select", "start_tg", "start_dut1"}
  <2>1. Held(j)' = Held(j) /\ Phase(j)' = Phase(j)
    BY <1>1, <1>3 DEF Held, Phase, Intact, Cleaning
  <2> QED
    BY <1>2, <2>1, NoAllocStep
<1>4. CASE Cleaning(j)
  <2>1. Moved(j)' = Moved(j)
    BY <1>1 DEF Moved, Netdev
  <2>2. Held(j)' = Held(j) /\ Phase(j)' = Phase(j)
    BY <1>1, <1>4, <2>1 DEF Held, Phase, Intact, Cleaning
  <2> QED
    BY <1>2, <2>2, NoAllocStep
<1>5. CASE pc[j] \notin {"idle", "select", "start_tg", "start_dut1"} /\ ~Cleaning(j)
  <2>1. Phase(j)' = "over"
    BY <1>1, <1>2, <1>5 DEF Phase, Intact, Cleaning
  <2> QED
    BY <1>2, <2>1, OverStep
<1> QED
  BY <1>3, <1>4, <1>5

\* Moving an interface takes a VF that nobody keeps: what the others have moved is
\* not on the host, and a job that cleans up would hold the flock.
LEMMA MoveAlloc ==
  ASSUME IInv, NEW j \in Jobs, MoveInterface(j)
  PROVE  [Alloc!AllocNext]_(Alloc!allocVars)
<1> DEFINE v == Netdev(j, step[j])
<1>0. TypeOK /\ Excluded /\ InLoop
  BY DEF IInv
<1>1. /\ pc[j] = "bind" /\ at[v] = Host
      /\ pc' = [pc EXCEPT ![j] = IF step[j] = 4 THEN "export" ELSE "bind"]
      /\ step' = [step EXCEPT ![j] = @ + 1]
      /\ UNCHANGED <<up, netdevs, pcidevs>>
  BY DEF MoveInterface, Goto
<1>2. /\ Alone(j) /\ step[j] \in 1 .. 4 /\ step'[j] = step[j] + 1
      /\ pc'[j] = IF step[j] = 4 THEN "export" ELSE "bind"
  BY <1>0, <1>1 DEF TypeOK, Alone, InLoop
<1>3. v \in VFs
  BY <1>0, <1>1, <1>2, OwnVFs DEF TypeOK
<1>4. ASSUME NEW k \in Jobs
      PROVE  v \notin Held(k)
  <2> SUFFICES ASSUME Intact(k), v \in Moved(k)
               PROVE  FALSE
    BY DEF Held
  <2>1. ~Cleaning(k)
    <3>1. k = j => ~Cleaning(k)
      BY <1>1 DEF Cleaning
    <3>2. mutex = j /\ (Cleaning(k) => mutex = k)
      BY <1>0, <1>1 DEF Excluded, Cleaning, Activating, Deactivating
    <3> QED
      BY <3>1, <3>2
  <2>2. at[v] \in {k, User, Unbound}
    BY <2>1 DEF IInv, MovedAway
  <2> QED
    BY <1>1, <2>2, JobsAssumption DEF Host, User, Unbound
<1>5. CASE up[j] # Sides
  <2>1. Phase(j)' = "over"
    BY <1>1, <1>2, <1>5 DEF Phase, Intact, Cleaning
  <2> QED
    BY <1>2, <2>1, OverStep
<1>6. CASE up[j] = Sides
  <2>1. Intact(j) /\ Intact(j)' /\ Phase(j) = "taking" /\ Phase(j)' = "taking"
    BY <1>1, <1>2, <1>6 DEF Intact, Phase
  <2>2. Moved(j)' = Moved(j) \cup {v}
    <3>1. Moved(j) = {Netdev(j, i) : i \in 1 .. step[j] - 1}
      BY <1>1 DEF Moved
    <3>2. Moved(j)' = {Netdev(j, i) : i \in 1 .. step[j]}
      <4>1. \A i : Netdev(j, i)' = Netdev(j, i)
        BY <1>1 DEF Netdev
      <4>2. (IF pc'[j] = "bind" THEN step'[j] - 1 ELSE 4) = step[j]
        BY <1>2
      <4> QED
        BY <4>1, <4>2 DEF Moved
    <3>3. 1 .. step[j] = (1 .. step[j] - 1) \cup {step[j]}
      BY <1>2
    <3> QED
      BY <3>1, <3>2, <3>3
  <2>3. Held(j)' = Held(j) \cup {v}
    BY <2>1, <2>2 DEF Held
  <2>4. PhaseMap[j] = "taking" /\ PhaseMap' = PhaseMap
    BY <1>2, <2>1, FrameMap DEF PhaseMap
  <2>5. HeldMap' = [HeldMap EXCEPT ![j] = @ \cup {v}]
    BY <1>2, <2>3, FrameMap DEF HeldMap
  <2>6. \A k \in Jobs : v \notin HeldMap[k]
    BY <1>4 DEF HeldMap
  <2>7. Alloc!Take(j, v)
    BY <2>4, <2>5, <2>6 DEF Alloc!Take
  <2> QED
    BY <1>3, <2>7 DEF Alloc!AllocNext
<1> QED
  BY <1>5, <1>6

\* The four devices of a job are both sides of two pairs.
LEMMA OwnTwoPairs ==
  ASSUME TypeOK, Ordered, NEW j \in Jobs, netdevs[j] # <<>>
  PROVE  Own(j) \in TwoPairs
<1>1. PICK k, m \in 1 .. Pairs : netdevs[j] = <<k, m>> /\ k < m
  <2>1. netdevs[j] \in (1 .. Pairs) \X (1 .. Pairs)
    BY DEF TypeOK
  <2>2. netdevs[j] = <<netdevs[j][1], netdevs[j][2]>>
    BY <2>1
  <2>3. netdevs[j][1] \in 1 .. Pairs /\ netdevs[j][2] \in 1 .. Pairs
    BY <2>1
  <2>4. netdevs[j][1] < netdevs[j][2]
    BY DEF Ordered
  <2> QED
    BY <2>2, <2>3, <2>4
<1>2. /\ Netdev(j, 1) = <<"tg", k>> /\ Netdev(j, 2) = <<"tg", m>>
      /\ Netdev(j, 3) = <<"dut1", k>> /\ Netdev(j, 4) = <<"dut1", m>>
  BY <1>1 DEF Netdev, Side
<1>3. Own(j) = {Netdev(j, 1), Netdev(j, 2), Netdev(j, 3), Netdev(j, 4)}
  <2>1. 1 .. 4 = {1, 2, 3, 4}
    OBVIOUS
  <2> QED
    BY <2>1 DEF Own
<1>4. Own(j) = Sides \X {k, m}
  BY <1>2, <1>3 DEF Sides
<1>5. <<k, m>> \in {p \in (1 .. Pairs) \X (1 .. Pairs) : p[1] < p[2]}
  BY <1>1
<1>6. <<k, m>>[1] = k /\ <<k, m>>[2] = m
  OBVIOUS
<1> QED
  BY <1>4, <1>5, <1>6 DEF TwoPairs

\* exit_mutex after the export grants the job what it has moved.
LEMMA ExportAlloc ==
  ASSUME IInv, Ordered, NEW j \in Jobs, ExportAndLeave(j)
  PROVE  [Alloc!AllocNext]_(Alloc!allocVars)
<1>0. TypeOK /\ InLoop
  BY DEF IInv
<1>1. /\ pc[j] = "export" /\ pc' = [pc EXCEPT ![j] = "activated"]
      /\ UNCHANGED <<up, netdevs, pcidevs, step>>
  BY DEF ExportAndLeave, Goto
<1>2. Alone(j) /\ pc'[j] = "activated"
  BY <1>0, <1>1 DEF TypeOK, Alone
<1>3. CASE up[j] # Sides
  <2>1. Phase(j)' = "over"
    BY <1>1, <1>2, <1>3 DEF Phase, Intact, Cleaning
  <2> QED
    BY <1>2, <2>1, OverStep
<1>4. CASE up[j] = Sides
  <2>1. Intact(j) /\ Intact(j)' /\ Phase(j) = "taking" /\ Phase(j)' = "granted"
    BY <1>1, <1>2, <1>4 DEF Intact, Phase
  <2>2. Moved(j)' = Moved(j)
    BY <1>1, <1>2 DEF Moved, Netdev
  <2>3. Held(j)' = Held(j) /\ Held(j) = Own(j)
    BY <1>0, <1>1, <2>1, <2>2, MovedOwn DEF Held
  <2>4. HeldMap[j] \in TwoPairs
    BY <1>0, <1>1, <2>3, OwnTwoPairs DEF HeldMap, TypeOK
  <2>5. HeldMap' = HeldMap
    BY <1>2, <2>3, FrameMap DEF HeldMap
  <2>6. PhaseMap[j] = "taking" /\ PhaseMap' = [PhaseMap EXCEPT ![j] = "granted"]
    BY <1>2, <2>1, FrameMap DEF PhaseMap
  <2>7. Alloc!Grant(j)
    BY <2>4, <2>5, <2>6 DEF Alloc!Grant
  <2> QED
    BY <2>7 DEF Alloc!AllocNext
<1> QED
  BY <1>3, <1>4

\* A job keeps its VFs while it removes its containers and binds them back.
LEMMA CleanAlloc ==
  ASSUME TypeOK, NEW j \in Jobs, RemoveContainers(j) \/ Rebind(j)
  PROVE  [Alloc!AllocNext]_(Alloc!allocVars)
<1>1. PICK l \in {"rebind", "leave"} :
        /\ pc' = [pc EXCEPT ![j] = l]
        /\ UNCHANGED <<netdevs, pcidevs>>
        /\ \/ pc[j] = "rm" /\ up[j] = Sides
           \/ pc[j] = "rebind"
  BY DEF RemoveContainers, Rebind, Goto
<1>2. \E i : step' = [step EXCEPT ![j] = i]
  BY DEF RemoveContainers, Rebind
<1>3. \E sides : up' = [up EXCEPT ![j] = sides]
  <2>1. up = [up EXCEPT ![j] = up[j]]
    BY DEF TypeOK
  <2> QED
    BY <2>1 DEF RemoveContainers, Rebind
<1>4. Alone(j) /\ pc'[j] = l
  BY <1>1, <1>2, <1>3 DEF TypeOK, Alone
<1>5. /\ Intact(j) /\ Intact(j)' /\ Phase(j) = "granted" /\ Phase(j)' = "granted"
      /\ Moved(j)' = Moved(j)
  BY <1>1, <1>4 DEF Intact, Cleaning, Phase, Moved, Netdev
<1>6. Held(j)' = Held(j)
  BY <1>5 DEF Held
<1> QED
  BY <1>4, <1>5, <1>6, NoAllocStep

\* Whatever fails, the scripts of the jobs of a server implement an allocator of
\* VFs: nobody takes what another job keeps, a job works with two whole pairs and
\* keeps them until it is over.  (activate_wrapper, deactivate_wrapper)
THEOREM AllocatesTheorem == Spec => AllocatesVFs
<1>1. Init => Alloc!AllocInit /\ Ordered
  <2> SUFFICES ASSUME Init PROVE Alloc!AllocInit /\ Ordered
    OBVIOUS
  <2>1. \A j \in Jobs : pc[j] = "idle" /\ netdevs[j] = <<>>
    BY DEF Init
  <2>2. \A j \in Jobs : Held(j) = {} /\ Phase(j) = "taking"
    BY <2>1 DEF Held, Phase, Intact, Cleaning
  <2> QED
    BY <2>1, <2>2 DEF Alloc!AllocInit, HeldMap, PhaseMap, Ordered
<1>2. IInv /\ Ordered /\ [Next]_vars => [Alloc!AllocNext]_(Alloc!allocVars)
  <2> SUFFICES ASSUME IInv, Ordered, [Next]_vars
               PROVE  [Alloc!AllocNext]_(Alloc!allocVars)
    OBVIOUS
  <2>0. TypeOK
    BY DEF IInv
  <2>1. ASSUME NEW j \in Jobs, Script(j)
        PROVE  [Alloc!AllocNext]_(Alloc!allocVars)
    BY <2>0, <2>1, FailAlloc, QuietAlloc, SelectAlloc, StartAlloc, MoveAlloc, ExportAlloc,
       CleanAlloc DEF Script
  <2>2. ASSUME NEW j \in Jobs, BindUserDriver(j) \/ Mishap(j)
        PROVE  [Alloc!AllocNext]_(Alloc!allocVars)
    BY <2>0, <2>2, FailAlloc, QuietAlloc, ExitAlloc DEF Mishap
  <2>3. ASSUME UNCHANGED vars
        PROVE  [Alloc!AllocNext]_(Alloc!allocVars)
    <3>1. HeldMap' = HeldMap /\ PhaseMap' = PhaseMap
      BY <2>3 DEF vars, HeldMap, PhaseMap, Held, Phase, Intact, Cleaning, Moved, Netdev
    <3> QED
      BY <3>1 DEF Alloc!allocVars
  <2> QED
    BY <2>1, <2>2, <2>3 DEF Next
<1>3. IInv => TypeOK
  BY DEF IInv
<1> QED
  BY <1>1, <1>2, <1>3, OrderedStep, SpecIInv, PTL DEF Spec, AllocatesVFs, Alloc!AllocSpec
============================================================================
