------------------------------ MODULE AllReduce ------------------------------
(***************************************************************************)
(* What an all-reduce over the tensor-parallel ranks promises: every rank  *)
(* makes the same sequence of calls, and a call returns on a rank only     *)
(* with the contributions every rank made to that very call.               *)
(***************************************************************************)
EXTENDS Integers

CONSTANT Rank

VARIABLES
  entered,   \* calls a rank has made
  finished,  \* calls that have returned on a rank
  got        \* the call whose contributions the rank's buffer sums, 0 in a call

vars == <<entered, finished, got>>

Init ==
  /\ entered = [r \in Rank |-> 0]
  /\ finished = [r \in Rank |-> 0]
  /\ got = [r \in Rank |-> 0]

Enter(r) ==
  /\ entered[r] = finished[r]
  /\ entered' = [entered EXCEPT ![r] = @ + 1]
  /\ got' = [got EXCEPT ![r] = 0]
  /\ UNCHANGED finished

Return(r) ==
  /\ entered[r] = finished[r] + 1
  /\ \A p \in Rank : entered[p] >= entered[r]
  /\ finished' = [finished EXCEPT ![r] = @ + 1]
  /\ got' = [got EXCEPT ![r] = entered[r]]
  /\ UNCHANGED entered

Next == \E r \in Rank : Enter(r) \/ Return(r)

Spec == Init /\ [][Next]_vars

=============================================================================
