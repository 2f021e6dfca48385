--------------------------- MODULE MCProjectSetup ---------------------------
EXTENDS ProjectSetup, TLC

CONSTANTS i1, i2, l1, l2, p1, project, none

TwoItems == <<i1, i2>>
TwoLines == <<l1, l2>>
\* l1 names i1; l2 takes either of the two, and i2 in packages of two.
ExactFirst == (l1 :> i1) @@ (l2 :> none)
OneAndTwo == (l1 :> 1) @@ (l2 :> 2)
Packages == (l1 :> [i \in Items |-> 1]) @@ (l2 :> (i1 :> 1 @@ i2 :> 2))
Alternatives == (l1 :> [i \in Items |-> "none"]) @@ (l2 :> [i \in Items |-> "confirmed"])
TwoAndOne == (i1 :> 2) @@ (i2 :> 1)
OneProject == p1 :> project

Step(l, i, q) == [line |-> l, item |-> i, qty |-> q]
\* Nothing; both lines from the one item; each line from its own.
SomePlans == {<<>>, <<Step(l1, i1, 1), Step(l2, i1, 1)>>, <<Step(l1, i1, 1), Step(l2, i2, 1)>>}
=============================================================================
