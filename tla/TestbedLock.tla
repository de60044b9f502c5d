---------------------------- MODULE TestbedLock ----------------------------
(***************************************************************************)
(* What the reservation of physical testbeds promises to the CSIT jobs, as *)
(* the comments of topo_reservation.py put it: "Here the script knows it   *)
(* is the only owner of the testbed."                                      *)
(*                                                                         *)
(* A testbed is free or held by one job.  Only the holder may work on it,  *)
(* and only the holder gives it back, after it has stopped working.  A job *)
(* may also hold a testbed without ever working on it: nothing here        *)
(* promises that a reservation is given back.                              *)
(***************************************************************************)
CONSTANTS Jobs,     \* the Jenkins jobs competing for testbeds
          Topos,    \* the physical testbeds, one topology file each
          NoJob,    \* "nobody": the reservation directory does not exist
          NoTopo    \* "none": WORKING_TOPOLOGY is unset or empty

VARIABLES holder,   \* holder[t]: the job that holds testbed t
          working   \* working[j]: the testbed job j works on

lockVars == <<holder, working>>

LockInit ==
  /\ holder = [t \in Topos |-> NoJob]
  /\ working = [j \in Jobs |-> NoTopo]

Acquire(j, t) ==
  /\ holder[t] = NoJob
  /\ holder' = [holder EXCEPT ![t] = j]
  /\ UNCHANGED working

Begin(j, t) ==
  /\ holder[t] = j
  /\ working[j] = NoTopo
  /\ working' = [working EXCEPT ![j] = t]
  /\ UNCHANGED holder

End(j) ==
  /\ working[j] # NoTopo
  /\ working' = [working EXCEPT ![j] = NoTopo]
  /\ UNCHANGED holder

Release(j, t) ==
  /\ holder[t] = j
  /\ working[j] = NoTopo
  /\ holder' = [holder EXCEPT ![t] = NoJob]
  /\ UNCHANGED working

LockNext ==
  \E j \in Jobs :
    \/ End(j)
    \/ \E t \in Topos : Acquire(j, t) \/ Begin(j, t) \/ Release(j, t)

LockSpec == LockInit /\ [][LockNext]_lockVars
=============================================================================
