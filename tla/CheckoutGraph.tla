---------------------------- MODULE CheckoutGraph ----------------------------
(***************************************************************************)
(* What a checkout sees of its graph, wherever the file lies: a version    *)
(* that only a write replaces, by one that no checkout had, and that is    *)
(* lost only when the user deletes the checkout or withdraws its           *)
(* registration, which may turn it back to an earlier one.                 *)
(***************************************************************************)
EXTENDS Naturals

CONSTANTS
  Root,        \* the checkouts
  MaxVersion   \* versions are counted up to this bound

VARIABLE graph \* the version of each, 0 for none

Init == graph = [r \in Root |-> 0]

Write(r) ==
  \E v \in 1..MaxVersion :
    /\ \A s \in Root : graph[s] < v
    /\ graph' = [graph EXCEPT ![r] = v]

Withdraw(r) == \E v \in 0..graph[r] : graph' = [graph EXCEPT ![r] = v]

Next == \E r \in Root : Write(r) \/ Withdraw(r)

Spec == Init /\ [][Next]_graph
=============================================================================
