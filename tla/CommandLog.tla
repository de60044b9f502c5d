----------------------------- MODULE CommandLog -----------------------------
(***************************************************************************)
(* What PapiSocketExecutor promises about the commands of tests, as far as *)
(* a VPP and the history of its DUT can tell.                              *)
(*                                                                         *)
(* A command is given for one DUT, with a number above all before, and     *)
(* recorded in its history if the caller wants that.  A VPP executes       *)
(* commands given for its DUT in the order of their numbers, each at most  *)
(* once, except that the last one it has executed may be executed once     *)
(* more, immediately, as long as the executor has not gone on.  Nothing is *)
(* promised about which of the commands are executed.                      *)
(***************************************************************************)
EXTENDS Naturals, Sequences

CONSTANTS DUTs,
          Ids        \* the numbers of commands

VARIABLES recorded,    \* recorded[d]: the history of DUT d
          unrecorded,  \* unrecorded[d]: commands its history is not to tell of
          executed,    \* executed[d]: what its VPP has executed
          again        \* DUTs whose last command may be executed once more

logVars == <<recorded, unrecorded, executed, again>>

Given(d) == unrecorded[d] \cup {recorded[d][k] : k \in DOMAIN recorded[d]}

LogInit ==
  /\ recorded = [d \in DUTs |-> <<>>]
  /\ unrecorded = [d \in DUTs |-> {}]
  /\ executed = [d \in DUTs |-> <<>>]
  /\ again = {}

Give(d, id) ==
  /\ \A e \in DUTs : \A g \in Given(e) : g < id
  /\ \/ recorded' = [recorded EXCEPT ![d] = Append(@, id)] /\ UNCHANGED unrecorded
     \/ unrecorded' = [unrecorded EXCEPT ![d] = @ \cup {id}] /\ UNCHANGED recorded
  /\ UNCHANGED <<executed, again>>

Run(d, id) ==
  /\ id \in Given(d)
  /\ \A i \in DOMAIN executed[d] : executed[d][i] < id
  /\ executed' = [executed EXCEPT ![d] = Append(@, id)]
  /\ again' \in {{}, {d}}
  /\ UNCHANGED <<recorded, unrecorded>>

Repeat(d) ==
  /\ d \in again
  /\ executed' = [executed EXCEPT ![d] = Append(@, @[Len(@)])]
  /\ again' = {}
  /\ UNCHANGED <<recorded, unrecorded>>

GoOn ==
  /\ again' = {}
  /\ UNCHANGED <<recorded, unrecorded, executed>>

LogNext ==
  \/ GoOn
  \/ \E d \in DUTs : Repeat(d) \/ \E id \in Ids : Give(d, id) \/ Run(d, id)

LogSpec == LogInit /\ [][LogNext]_logVars
=============================================================================
