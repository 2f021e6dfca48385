------------------------------ MODULE MCBackup ------------------------------
(***************************************************************************)
(* One upload, a request to finalise it and a second one, one crash.        *)
(***************************************************************************)
EXTENDS Backup

MCUploads  == {"u1"}
MCDigests  == {"sha"}
MCContent  == [u \in MCUploads |-> "sha"]
MCRequests == {"c1", "c2"}
MCSession  == [c1 |-> "u1", c2 |-> "u1"]
MCKeyOf    == [c \in MCRequests |-> "nokey"]
=============================================================================
