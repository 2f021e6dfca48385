---------------------------- MODULE MCInventory ----------------------------
EXTENDS Inventory, TLC

CONSTANTS i1, l1, l2, r1, r2, none, doc

OneItem == <<i1>>
TwoLines == <<l1, l2>>
ExactFirst == (l1 :> i1) @@ (l2 :> none)
OnePackageEach == (l1 :> 1) @@ (l2 :> 2)
\* The first line counts single parts of packages of two.
Packages == (l1 :> [i \in Items |-> 1]) @@ (l2 :> [i \in Items |-> 2])
SecondUncertain == (l1 :> [i \in Items |-> "none"]) @@ (l2 :> [i \in Items |-> "unconfirmed"])

\* A snapshot dated at the first instant: as bought, and as edited later.
OneDoc == doc :> [at |-> 1, contents |->
  {i1 :> [confirmed |-> FALSE, qty |-> 1], i1 :> [confirmed |-> TRUE, qty |-> 2]}]

Doubt == {[line |-> l2, item |-> i1, says |-> "unconfirmed"]}

Few == {"receipt", "consume"}
AnyReservation == Permutations(Res)
=============================================================================
