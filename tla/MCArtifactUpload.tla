-------------------------- MODULE MCArtifactUpload --------------------------
(***************************************************************************)
(* Two uploads of the same bytes, and three requests: two for the first    *)
(* upload under keys of their own, one of which is asked again, and one    *)
(* for the second upload that carries the first key.                       *)
(***************************************************************************)
EXTENDS ArtifactUpload

MCUploads  == {"u1", "u2"}
MCDigests  == {"sha"}
MCContent  == [u \in MCUploads |-> "sha"]
MCRequests == {"c1", "c2", "c3"}
MCSession  == [c1 |-> "u1", c2 |-> "u1", c3 |-> "u2"]
MCRetried  == {"c1"}
MCKeys     == {"k1", "k2"}
MCKeyOf    == [c1 |-> "k1", c2 |-> "k2", c3 |-> "k1"]
=============================================================================
