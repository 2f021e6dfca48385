--------------------------- MODULE MCReservations ---------------------------
EXTENDS Reservations, TLC

CONSTANTS i1, p1, v1, v2, r1, r2, alice, bob, k1, none

OneRevision == [v \in {v1} |-> p1]
OneProject == [v \in {v1, v2} |-> p1]
AnyItem == [v \in Revisions |-> Items]
UpToMax == [v \in Revisions |-> MaxQty]

\* Requests without a key: nothing is ever replayed.
NoKeys == {<<alice, none>>}
\* Two clients happen to choose the same key; some requests come without one.
SameKey == {<<alice, none>>, <<alice, k1>>, <<bob, k1>>}

Everything == {"receipt", "return", "correction", "consume", "loss", "dispose",
               "allocate", "release"}
NoManualRelease == Everything \ {"release"}
Few == {"receipt", "consume", "allocate"}

AnyReservationOrRevision == Permutations(Res) \cup Permutations(Revisions)
=============================================================================
