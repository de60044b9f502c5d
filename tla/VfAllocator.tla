---------------------------- MODULE VfAllocator ----------------------------
(***************************************************************************)
(* What the reservation of virtual functions promises to vpp_device jobs,  *)
(* as test_environment.rst puts it: "no two distinct instances of script   *)
(* will get same resource list."                                           *)
(*                                                                         *)
(* A job takes free VFs one by one.  When it has two whole pairs it is     *)
(* granted them, and it keeps exactly these until it is over, which is     *)
(* also how it ends when anything goes wrong.  A job that is over takes    *)
(* nothing again.  Nothing is promised about when a job is over, nor that  *)
(* what a failed job has left is found by anybody.                         *)
(***************************************************************************)
CONSTANTS Jobs, VFs,
          Grants    \* the sets of VFs a job may work with

VARIABLES held,     \* held[j]: the VFs that job j keeps from the others
          phase     \* phase[j]: "taking", "granted" or "over"

allocVars == <<held, phase>>

AllocInit ==
  /\ held = [j \in Jobs |-> {}]
  /\ phase = [j \in Jobs |-> "taking"]

Take(j, v) ==
  /\ phase[j] = "taking"
  /\ \A k \in Jobs : v \notin held[k]
  /\ held' = [held EXCEPT ![j] = @ \cup {v}]
  /\ UNCHANGED phase

Grant(j) ==
  /\ phase[j] = "taking"
  /\ held[j] \in Grants
  /\ phase' = [phase EXCEPT ![j] = "granted"]
  /\ UNCHANGED held

Finish(j) ==
  /\ phase[j] # "over"
  /\ held' = [held EXCEPT ![j] = {}]
  /\ phase' = [phase EXCEPT ![j] = "over"]

AllocNext == \E j \in Jobs : Grant(j) \/ Finish(j) \/ \E v \in VFs : Take(j, v)

AllocSpec == AllocInit /\ [][AllocNext]_allocVars
=============================================================================
