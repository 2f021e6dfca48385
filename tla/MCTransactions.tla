--------------------------- MODULE MCTransactions ---------------------------
EXTENDS Transactions, TLC

CONSTANTS c1, c2, c3, c4, x, y, alice1, nokey, none

\* A compound create, its retry, the same key for another command, and an
\* update of the item by somebody else.
FourKinds == (c1 :> "compound") @@ (c2 :> "compound") @@ (c3 :> "create") @@ (c4 :> "update")
FourTargets == (c1 :> x) @@ (c2 :> x) @@ (c3 :> y) @@ (c4 :> x)
FourKeys == (c1 :> alice1) @@ (c2 :> alice1) @@ (c3 :> alice1) @@ (c4 :> nokey)
=============================================================================
