-------------------------- MODULE Artifacts_proofs --------------------------
(***************************************************************************)
(* Theorems about modules ArtifactUpload and Backup, for any uploads,      *)
(* contents and requests, with overlapping requests, retries and any       *)
(* number of crashes.                                                      *)
(*                                                                         *)
(* Of uploads: what a listing shows can be downloaded, and acknowledged    *)
(* bytes are not lost.  Whatever a record or a client relies on lies in    *)
(* one of two places, the part file or the blob; the invariant follows the *)
(* bytes through the stages of the command whose turn it is.               *)
(*                                                                         *)
(* Of backups: a backup does not change the live system, so what is proved *)
(* of uploads holds beside it.  What the backup's turn reads is remembered *)
(* in cut; the invariant follows the copy from there into the staging      *)
(* directory, the backup and the restored directory.                       *)
(***************************************************************************)
EXTENDS Backup, TLAPS

-----------------------------------------------------------------------------
(* Uploads *)

\* Only the request whose turn it is stands inside a turn.
TurnInv == \A c \in Requests : at[c] \in InTransaction \cup Undoing => owner = c

\* The bytes of an upload, wherever no turn is at work on it.
SessionInv ==
  /\ \A u \in acked : sess[u] = "open" => part[u] = "full"
  /\ \A u \in Uploads : sess[u] = "finalized" => part[u] = "full" \/ u \in records

\* The bytes of an upload at the stages of its finalisation.
Stage(c) ==
  LET u == Session[c] IN
  /\ at[c] \in {"record", "finalized"} => part[u] = "full" /\ Content[u] \in blobs
  /\ at[c] \in {"finalized", "unlink"} => u \in records
  /\ at[c] = "unlink" => sess[u] = "finalized"
  /\ at[c] \in {"unrecord", "unblob", "reopen"} => part[u] = "full"
StageInv == \A c \in Requests : Stage(c)

BytesInv == TurnInv /\ SessionInv /\ StageInv /\ BytesBehindRecords

Inv == TypeOK /\ BytesInv

-----------------------------------------------------------------------------
\* A receipt that is not held is a receipt.
LEMMA NoReceiptType == NoReceipt \in Receipts
BY DEF NoReceipt, Receipts

\* Nothing has been uploaded or asked for yet, so every part holds.
LEMMA InitInv == Init => Inv
<1> SUFFICES ASSUME Init PROVE Inv OBVIOUS
<1>1. TypeOK
  <2>1. disk \in Rows /\ work \in Rows
    BY DEF Init, Rows
  <2>2. receipt \in [Uploads -> Receipts]
    BY NoReceiptType DEF Init
  <2>3. sess \in [Uploads -> {"open", "finalized", "expired"}]
        /\ part \in [Uploads -> {"none", "empty", "full"}]
    BY DEF Init
  <2>4. at \in [Requests -> Stages]
        /\ answer \in [Requests -> {"none", "applied", "replayed", "error", "integrity_error"}]
    BY DEF Init, Stages
  <2>5. crashes \in 0..MaxCrashes
    BY UploadAssumption DEF Init
  <2>6. open = FALSE /\ owner = None /\ records = {} /\ blobs = {} /\ created = {} /\ acked = {}
        /\ again = {}
    BY DEF Init
  <2> QED BY <2>1, <2>2, <2>3, <2>4, <2>5, <2>6 DEF TypeOK
<1>2. BytesInv
  BY DEF Init, BytesInv, TurnInv, SessionInv, StageInv, Stage, BytesBehindRecords,
     InTransaction, Undoing
<1> QED BY <1>1, <1>2 DEF Inv

-----------------------------------------------------------------------------
(* Types *)

\* The rows stay rows when a command writes its metadata, its audit and its key.
LEMMA RowsType ==
  ASSUME work \in Rows, disk \in Rows, NEW c \in Requests
  PROVE  /\ WriteMeta(c) => work' \in Rows
         /\ Audit(c) => work' \in Rows
         /\ Reopen(c) => disk' \in Rows /\ work' \in Rows
<1>1. WriteMeta(c) => work' \in Rows
  BY UploadAssumption DEF WriteMeta, Rows
<1>2. Audit(c) => work' \in Rows
  <2> SUFFICES ASSUME Audit(c) PROVE work' \in Rows OBVIOUS
  <2> DEFINE record == IF KeyOf[c] = NoKey THEN work.record
                       ELSE [work.record EXCEPT ![KeyOf[c]] = c]
  <2>1. record \in [Keys -> Requests \cup {None}]
    BY UploadAssumption DEF Rows
  <2>2. work' = [meta |-> work.meta, done |-> work.done \cup {c}, record |-> record]
    BY DEF Audit, Rows
  <2> HIDE DEF record
  <2> QED BY <2>1, <2>2 DEF Rows
<1>3. Reopen(c) => disk' \in Rows /\ work' \in Rows
  BY UploadAssumption DEF Reopen, Rows
<1> QED BY <1>1, <1>2, <1>3

\* Every step of the clients, the store and the database keeps the types.
LEMMA TypeStep == TypeOK /\ [Next]_vars => TypeOK'
<1> SUFFICES ASSUME TypeOK, [Next]_vars PROVE TypeOK' OBVIOUS
<1> USE UploadAssumption
<1> USE DEF TypeOK, store, db, told
<1>1. CASE UNCHANGED vars
  BY <1>1 DEF vars
<1>2. CASE Crash
  <2>1. receipt' \in [Uploads -> Receipts]
    BY <1>2, NoReceiptType DEF Crash
  <2>2. crashes' \in 0..MaxCrashes
    BY <1>2 DEF Crash
  <2>3. at' \in [Requests -> Stages]
    BY <1>2 DEF Crash, Stages
  <2> QED BY <1>2, <2>1, <2>2, <2>3 DEF Crash, RollBack, EndTurn
<1>3. ASSUME NEW u \in Uploads, Write(u) \/ WriteTooLate(u) PROVE TypeOK'
  BY <1>3 DEF Write, WriteTooLate
<1>4. ASSUME NEW c \in Requests, Ask(c) \/ Progress(c) PROVE TypeOK'
  <2>1. CASE Ask(c)
    BY <2>1 DEF Ask, Goto, Stages, Waiting, InTransaction, Undoing
  <2>2. CASE Begin(c)
    BY <2>2 DEF Begin, Goto, Stages, Waiting, InTransaction, Undoing
  <2>3. CASE Lookup(c)
    BY <2>3 DEF Lookup, Goto, Stages, Waiting, InTransaction, Undoing
  <2>4. CASE ReadSession(c)
    BY <2>4 DEF ReadSession, Goto, Stages, Waiting, InTransaction, Undoing
  <2>5. CASE Link(c)
    BY <2>5 DEF Link, Goto, Stages, Waiting, InTransaction, Undoing, Receipts
  <2>6. CASE WriteRecord(c)
    BY <2>6 DEF WriteRecord, Goto, Stages, Waiting, InTransaction, Undoing, Receipts
  <2>7. CASE MarkFinalized(c)
    BY <2>7 DEF MarkFinalized, Goto, Stages, Waiting, InTransaction, Undoing
  <2>8. CASE UnlinkPart(c)
    BY <2>8 DEF UnlinkPart, Goto, Stages, Waiting, InTransaction, Undoing
  <2>9. CASE WriteMeta(c)
    BY <2>9, RowsType DEF WriteMeta, Goto, Stages, Waiting, InTransaction, Undoing
  <2>10. CASE Audit(c)
    BY <2>10, RowsType DEF Audit, Goto, Stages, Waiting, InTransaction, Undoing
  <2>11. CASE Commit(c)
    BY <2>11 DEF Commit, Goto, Stages, Waiting, InTransaction, Undoing, EndTurn
  <2>12. CASE Close(c)
    BY <2>12 DEF Close, Answer, Goto, Stages, Waiting, InTransaction, Undoing, Receipts, NoReceipt
  <2>13. CASE CloseFails(c)
    BY <2>13 DEF CloseFails, Answer, Goto, Stages, Waiting, InTransaction, Undoing
  <2>14. CASE Fail(c)
    BY <2>14 DEF Fail, RollBack, EndTurn, Answer, Goto, Stages, Waiting, InTransaction, Undoing
  <2>15. CASE Expire(c)
    BY <2>15 DEF Expire, RollBack, EndTurn, Answer, Goto, Stages, Waiting, InTransaction, Undoing
  <2>16. CASE FailInTurn(c)
    BY <2>16 DEF FailInTurn, Goto, Stages, Waiting, InTransaction, Undoing
  <2>17. CASE FailAround(c)
    BY <2>17 DEF FailAround, RollBack, EndTurn, Goto, Stages, Waiting, InTransaction, Undoing
  <2>18. CASE StartUndo(c)
    BY <2>18 DEF StartUndo, Answer, Goto, Stages, Waiting, InTransaction, Undoing
  <2>19. CASE Relink(c)
    BY <2>19 DEF Relink, Goto, Stages, Waiting, InTransaction, Undoing
  <2>20. CASE Unrecord(c)
    BY <2>20 DEF Unrecord, Goto, Stages, Waiting, InTransaction, Undoing
  <2>21. CASE Unblob(c)
    BY <2>21 DEF Unblob, Goto, Stages, Waiting, InTransaction, Undoing
  <2>22. CASE Reopen(c)
    BY <2>22, RowsType DEF Reopen, EndTurn, Answer, Goto, Stages, Waiting, InTransaction, Undoing, Receipts, NoReceipt
  <2>23. CASE UndoFails(c)
    BY <2>23 DEF UndoFails, RollBack, EndTurn, Answer, Goto, Stages, Waiting, InTransaction, Undoing
  <2> QED BY <1>4, <2>1, <2>2, <2>3, <2>4, <2>5, <2>6, <2>7, <2>8, <2>9, <2>10, <2>11, <2>12, <2>13, <2>14, <2>15, <2>16, <2>17, <2>18, <2>19, <2>20, <2>21, <2>22, <2>23 DEF Progress
<1> QED BY <1>1, <1>2, <1>3, <1>4 DEF Next

-----------------------------------------------------------------------------
(* Bytes *)

\* A step of one request moves no other request, and ends inside a turn only
\* as the request whose turn it is.
LEMMA TurnStep == TypeOK /\ TurnInv /\ [Next]_vars => TurnInv'
<1> SUFFICES ASSUME TypeOK, TurnInv, [Next]_vars PROVE TurnInv' OBVIOUS
<1> USE UploadAssumption
<1> USE DEF TurnInv, store, db, told, InTransaction, Undoing
<1>1. CASE UNCHANGED vars
  BY <1>1 DEF vars
<1>2. CASE Crash
  BY <1>2 DEF Crash, TypeOK
<1>3. ASSUME NEW u \in Uploads, Write(u) \/ WriteTooLate(u) PROVE TurnInv'
  BY <1>3 DEF Write, WriteTooLate
<1>4. ASSUME NEW c \in Requests, Ask(c) \/ Progress(c) PROVE TurnInv'
  <2> USE DEF TypeOK, Goto, Answer
  <2>1. CASE Ask(c)
    BY <2>1 DEF Ask
  <2>2. CASE Begin(c)
    BY <2>2 DEF Begin
  <2>3. CASE Lookup(c)
    BY <2>3 DEF Lookup
  <2>4. CASE ReadSession(c)
    BY <2>4 DEF ReadSession
  <2>5. CASE Link(c)
    BY <2>5 DEF Link
  <2>6. CASE WriteRecord(c)
    BY <2>6 DEF WriteRecord
  <2>7. CASE MarkFinalized(c)
    BY <2>7 DEF MarkFinalized
  <2>8. CASE UnlinkPart(c)
    BY <2>8 DEF UnlinkPart
  <2>9. CASE WriteMeta(c)
    BY <2>9 DEF WriteMeta
  <2>10. CASE Audit(c)
    BY <2>10 DEF Audit
  <2>11. CASE Commit(c)
    BY <2>11 DEF Commit, EndTurn
  <2>12. CASE Close(c)
    BY <2>12 DEF Close
  <2>13. CASE CloseFails(c)
    BY <2>13 DEF CloseFails
  <2>14. CASE Fail(c)
    BY <2>14 DEF Fail, RollBack, EndTurn
  <2>15. CASE Expire(c)
    BY <2>15 DEF Expire, RollBack, EndTurn
  <2>16. CASE FailInTurn(c)
    BY <2>16 DEF FailInTurn
  <2>17. CASE FailAround(c)
    BY <2>17 DEF FailAround, RollBack, EndTurn
  <2>18. CASE StartUndo(c)
    BY <2>18 DEF StartUndo
  <2>19. CASE Relink(c)
    BY <2>19 DEF Relink
  <2>20. CASE Unrecord(c)
    BY <2>20 DEF Unrecord
  <2>21. CASE Unblob(c)
    BY <2>21 DEF Unblob
  <2>22. CASE Reopen(c)
    BY <2>22 DEF Reopen, EndTurn
  <2>23. CASE UndoFails(c)
    BY <2>23 DEF UndoFails, RollBack, EndTurn
  <2> QED BY <1>4, <2>1, <2>2, <2>3, <2>4, <2>5, <2>6, <2>7, <2>8, <2>9, <2>10, <2>11, <2>12, <2>13, <2>14, <2>15, <2>16, <2>17, <2>18, <2>19, <2>20, <2>21, <2>22, <2>23 DEF Progress
<1> QED BY <1>1, <1>2, <1>3, <1>4 DEF Next

\* The bytes of every upload stay where its session, its record or the request
\* at work on it expects them.
LEMMA BytesStep ==
  ASSUME TypeOK, TypeOK', BytesInv, TurnInv', [Next]_vars
  PROVE  BytesInv'
<1> USE UploadAssumption
<1> DEFINE Bytes == SessionInv /\ StageInv /\ BytesBehindRecords
<1> USE DEF store, db, told
<1> USE DEF BytesInv, TurnInv, SessionInv, StageInv, Stage, BytesBehindRecords
<1>1. CASE UNCHANGED vars
  BY <1>1 DEF vars
<1>2. CASE Crash
  BY <1>2 DEF Crash, TypeOK
<1>3. ASSUME NEW u \in Uploads, Write(u) \/ WriteTooLate(u) PROVE Bytes'
  BY <1>3 DEF Write, WriteTooLate, TypeOK, InTransaction, Undoing
<1>4. ASSUME NEW c \in Requests, Ask(c) \/ Progress(c) PROVE Bytes'
  <2> USE DEF TypeOK, Goto, Answer, InTransaction, Undoing
  <2>1. CASE Ask(c)
    BY <2>1 DEF Ask
  <2>2. CASE Begin(c)
    BY <2>2 DEF Begin
  <2>3. CASE Lookup(c)
    BY <2>3 DEF Lookup
  <2>4. CASE ReadSession(c)
    BY <2>4 DEF ReadSession
  <2>5. CASE Link(c)
    BY <2>5 DEF Link
  <2>6. CASE WriteRecord(c)
    BY <2>6 DEF WriteRecord
  <2>7. CASE MarkFinalized(c)
    BY <2>7 DEF MarkFinalized
  <2>8. CASE UnlinkPart(c)
    BY <2>8 DEF UnlinkPart
  <2>9. CASE WriteMeta(c)
    BY <2>9 DEF WriteMeta
  <2>10. CASE Audit(c)
    BY <2>10 DEF Audit
  <2>11. CASE Commit(c)
    BY <2>11 DEF Commit, EndTurn
  <2>12. CASE Close(c)
    BY <2>12 DEF Close
  <2>13. CASE CloseFails(c)
    BY <2>13 DEF CloseFails
  <2>14. CASE Fail(c)
    BY <2>14 DEF Fail, RollBack, EndTurn
  <2>15. CASE Expire(c)
    BY <2>15 DEF Expire, RollBack, EndTurn
  <2>16. CASE FailInTurn(c)
    BY <2>16 DEF FailInTurn
  <2>17. CASE FailAround(c)
    BY <2>17 DEF FailAround, RollBack, EndTurn
  <2>18. CASE StartUndo(c)
    BY <2>18 DEF StartUndo
  <2>19. CASE Relink(c)
    BY <2>19 DEF Relink
  <2>20. CASE Unrecord(c)
    BY <2>20 DEF Unrecord
  <2>21. CASE Unblob(c)
    BY <2>21 DEF Unblob
  <2>22. CASE Reopen(c)
    BY <2>22 DEF Reopen, EndTurn
  <2>23. CASE UndoFails(c)
    BY <2>23 DEF UndoFails, RollBack, EndTurn
  <2> QED BY <1>4, <2>1, <2>2, <2>3, <2>4, <2>5, <2>6, <2>7, <2>8, <2>9, <2>10, <2>11, <2>12, <2>13, <2>14, <2>15, <2>16, <2>17, <2>18, <2>19, <2>20, <2>21, <2>22, <2>23 DEF Progress
<1> QED BY <1>1, <1>2, <1>3, <1>4 DEF Next

-----------------------------------------------------------------------------
(* Theorems about types and bytes *)

\* The invariant holds of every behaviour.
THEOREM Invariance == Spec => []Inv
<1>1. Inv /\ [Next]_vars => Inv'
  BY TypeStep, TurnStep, BytesStep DEF Inv, BytesInv
<1> QED BY InitInv, <1>1, PTL DEF Spec

\* Every variable keeps its type, whatever fails or crashes.
THEOREM TypeCorrect == Spec => []TypeOK
<1>1. Inv => TypeOK
  BY DEF Inv
<1> QED BY Invariance, <1>1, PTL

\* Every artifact a listing shows has its bytes, though uploads share blobs and
\* compensations remove them.
THEOREM ListedHasBytes == Spec => []BytesBehindRecords
<1>1. Inv => BytesBehindRecords
  BY DEF Inv, BytesInv
<1> QED BY Invariance, <1>1, PTL

\* Acknowledged bytes are in the part file or behind a finalised session, until
\* the session expires.
THEOREM AcknowledgedIsKept == Spec => []AcknowledgedBytesAreKept
<1>1. Inv => AcknowledgedBytesAreKept
  BY DEF Inv, TypeOK, BytesInv, SessionInv, BytesBehindRecords, AcknowledgedBytesAreKept
<1> QED BY Invariance, <1>1, PTL

-----------------------------------------------------------------------------
(* What has committed stays, when requests for one upload do not overlap *)

Committed(u) == \E c \in disk.done : Session[c] = u

\* Of the requests for one upload, one is under way.
Idle == {"new", "answered", "lost"}
AloneInv ==
  \A c, d \in Requests :
    c # d /\ Session[c] = Session[d] => at[c] \in Idle \/ at[d] \in Idle

\* What the transaction has added at each stage.
Work(c) ==
  /\ at[c] \in InTransaction \ {"audit", "commit"} =>
       work.meta = disk.meta /\ work.done = disk.done
  /\ at[c] \in {"audit", "commit"} => work.meta = disk.meta \cup {Session[c]}
  /\ at[c] = "audit" => work.done = disk.done
  /\ at[c] = "commit" => work.done = disk.done \cup {c}

\* Who may still have to undo an upload, and that nobody relies on it yet.
Claim(c) ==
  LET u == Session[c] IN
  /\ at[c] \in {"new", "asked", "lookup", "session"} => c \notin created
  /\ at[c] \in {"link", "record", "finalized", "unlink", "failing"} \cup Undoing =>
       ~Committed(u)
  /\ at[c] \in {"meta", "audit", "commit"} =>
       /\ sess[u] = "finalized" /\ u \in records
       /\ c \in created => ~Committed(u)

CommitInv ==
  /\ AloneInv
  /\ \A c \in Requests : Work(c)
  /\ \A c \in Requests : Claim(c)
  /\ \A c \in disk.done :
       sess[Session[c]] = "finalized" /\ Session[c] \in records /\ Session[c] \in disk.meta

\* A request is asked only when the others for its upload are over.
LEMMA AloneStep ==
  ASSUME ~Overlap, TypeOK, AloneInv, [Next]_vars
  PROVE  AloneInv'
<1> USE UploadAssumption
<1> USE DEF AloneInv, Idle, store, db, told
<1>1. CASE UNCHANGED vars
  BY <1>1 DEF vars
<1>2. CASE Crash
  BY <1>2 DEF Crash, RollBack, EndTurn, TypeOK
<1>3. ASSUME NEW u \in Uploads, Write(u) \/ WriteTooLate(u) PROVE AloneInv'
  BY <1>3 DEF Write, WriteTooLate, TypeOK
<1>4. ASSUME NEW c \in Requests, Ask(c) \/ Progress(c) PROVE AloneInv'
  <2> USE DEF TypeOK, Goto, Answer, InTransaction, Undoing
  <2>1. CASE Ask(c)
    BY <2>1 DEF Ask, Others
  <2>2. CASE Begin(c)
    BY <2>2 DEF Begin
  <2>3. CASE Lookup(c)
    BY <2>3 DEF Lookup
  <2>4. CASE ReadSession(c)
    BY <2>4 DEF ReadSession
  <2>5. CASE Link(c)
    BY <2>5 DEF Link
  <2>6. CASE WriteRecord(c)
    BY <2>6 DEF WriteRecord
  <2>7. CASE MarkFinalized(c)
    BY <2>7 DEF MarkFinalized
  <2>8. CASE UnlinkPart(c)
    BY <2>8 DEF UnlinkPart
  <2>9. CASE WriteMeta(c)
    BY <2>9 DEF WriteMeta
  <2>10. CASE Audit(c)
    BY <2>10 DEF Audit
  <2>11. CASE Commit(c)
    BY <2>11 DEF Commit, EndTurn
  <2>12. CASE Close(c)
    BY <2>12 DEF Close
  <2>13. CASE CloseFails(c)
    BY <2>13 DEF CloseFails
  <2>14. CASE Fail(c)
    BY <2>14 DEF Fail, RollBack, EndTurn
  <2>15. CASE Expire(c)
    BY <2>15 DEF Expire, RollBack, EndTurn
  <2>16. CASE FailInTurn(c)
    BY <2>16 DEF FailInTurn
  <2>17. CASE FailAround(c)
    BY <2>17 DEF FailAround, RollBack, EndTurn
  <2>18. CASE StartUndo(c)
    BY <2>18 DEF StartUndo
  <2>19. CASE Relink(c)
    BY <2>19 DEF Relink
  <2>20. CASE Unrecord(c)
    BY <2>20 DEF Unrecord
  <2>21. CASE Unblob(c)
    BY <2>21 DEF Unblob
  <2>22. CASE Reopen(c)
    BY <2>22 DEF Reopen, EndTurn
  <2>23. CASE UndoFails(c)
    BY <2>23 DEF UndoFails, RollBack, EndTurn
  <2> QED BY <1>4, <2>1, <2>2, <2>3, <2>4, <2>5, <2>6, <2>7, <2>8, <2>9, <2>10, <2>11, <2>12, <2>13, <2>14, <2>15, <2>16, <2>17, <2>18, <2>19, <2>20, <2>21, <2>22, <2>23 DEF Progress
<1> QED BY <1>1, <1>2, <1>3, <1>4 DEF Next

\* A transaction gains its metadata, then its audit, and nothing else.
LEMMA WorkStep ==
  ASSUME TypeOK, TurnInv, \A c \in Requests : Work(c), [Next]_vars
  PROVE  (\A c \in Requests : Work(c))'
<1> USE UploadAssumption
<1> DEFINE Works == \A c \in Requests : Work(c)
<1> USE DEF Work, TurnInv, InTransaction, Undoing, store, db, told
<1>1. CASE UNCHANGED vars
  BY <1>1 DEF vars
<1>2. CASE Crash
  BY <1>2 DEF Crash, RollBack, EndTurn, TypeOK
<1>3. ASSUME NEW u \in Uploads, Write(u) \/ WriteTooLate(u) PROVE Works'
  BY <1>3 DEF Write, WriteTooLate, TypeOK
<1>4. ASSUME NEW c \in Requests, Ask(c) \/ Progress(c) PROVE Works'
  <2> USE DEF TypeOK, Rows, Goto, Answer
  <2>1. CASE Ask(c)
    BY <2>1 DEF Ask
  <2>2. CASE Begin(c)
    BY <2>2 DEF Begin
  <2>3. CASE Lookup(c)
    BY <2>3 DEF Lookup
  <2>4. CASE ReadSession(c)
    BY <2>4 DEF ReadSession
  <2>5. CASE Link(c)
    BY <2>5 DEF Link
  <2>6. CASE WriteRecord(c)
    BY <2>6 DEF WriteRecord
  <2>7. CASE MarkFinalized(c)
    BY <2>7 DEF MarkFinalized
  <2>8. CASE UnlinkPart(c)
    BY <2>8 DEF UnlinkPart
  <2>9. CASE WriteMeta(c)
    BY <2>9 DEF WriteMeta
  <2>10. CASE Audit(c)
    BY <2>10 DEF Audit
  <2>11. CASE Commit(c)
    BY <2>11 DEF Commit, EndTurn
  <2>12. CASE Close(c)
    BY <2>12 DEF Close
  <2>13. CASE CloseFails(c)
    BY <2>13 DEF CloseFails
  <2>14. CASE Fail(c)
    BY <2>14 DEF Fail, RollBack, EndTurn
  <2>15. CASE Expire(c)
    BY <2>15 DEF Expire, RollBack, EndTurn
  <2>16. CASE FailInTurn(c)
    BY <2>16 DEF FailInTurn
  <2>17. CASE FailAround(c)
    BY <2>17 DEF FailAround, RollBack, EndTurn
  <2>18. CASE StartUndo(c)
    BY <2>18 DEF StartUndo
  <2>19. CASE Relink(c)
    BY <2>19 DEF Relink
  <2>20. CASE Unrecord(c)
    BY <2>20 DEF Unrecord
  <2>21. CASE Unblob(c)
    BY <2>21 DEF Unblob
  <2>22. CASE Reopen(c)
    BY <2>22 DEF Reopen, EndTurn
  <2>23. CASE UndoFails(c)
    BY <2>23 DEF UndoFails, RollBack, EndTurn
  <2> QED BY <1>4, <2>1, <2>2, <2>3, <2>4, <2>5, <2>6, <2>7, <2>8, <2>9, <2>10, <2>11, <2>12, <2>13, <2>14, <2>15, <2>16, <2>17, <2>18, <2>19, <2>20, <2>21, <2>22, <2>23 DEF Progress
<1> QED BY <1>1, <1>2, <1>3, <1>4 DEF Next

\* Only uploads that nobody has committed are ever undone.
LEMMA ClaimStep ==
  ASSUME TypeOK, BytesInv, TurnInv', CommitInv, [Next]_vars
  PROVE  /\ (\A c \in Requests : Claim(c))'
         /\ (\A c \in disk.done :
               sess[Session[c]] = "finalized" /\ Session[c] \in records /\ Session[c] \in disk.meta)'
<1> USE UploadAssumption
<1> DEFINE Claims == \A c \in Requests : Claim(c)
           Kept == \A c \in disk.done :
             sess[Session[c]] = "finalized" /\ Session[c] \in records /\ Session[c] \in disk.meta
<1> USE DEF Claim, Committed, CommitInv, AloneInv, Idle, Work, BytesInv, TurnInv, StageInv, Stage
<1> USE DEF InTransaction, Undoing, store, db, told
<1>1. CASE UNCHANGED vars
  BY <1>1 DEF vars
<1>2. CASE Crash
  BY <1>2 DEF Crash, RollBack, EndTurn, TypeOK
<1>3. ASSUME NEW u \in Uploads, Write(u) \/ WriteTooLate(u) PROVE Claims' /\ Kept'
  BY <1>3 DEF Write, WriteTooLate, TypeOK
<1>4. ASSUME NEW c \in Requests, Ask(c) \/ Progress(c) PROVE Claims' /\ Kept'
  <2> USE DEF TypeOK, Rows, Goto, Answer
  <2>1. CASE Ask(c)
    BY <2>1 DEF Ask
  <2>2. CASE Begin(c)
    BY <2>2 DEF Begin
  <2>3. CASE Lookup(c)
    BY <2>3 DEF Lookup
  <2>4. CASE ReadSession(c)
    BY <2>4 DEF ReadSession
  <2>5. CASE Link(c)
    BY <2>5 DEF Link
  <2>6. CASE WriteRecord(c)
    BY <2>6 DEF WriteRecord
  <2>7. CASE MarkFinalized(c)
    BY <2>7 DEF MarkFinalized
  <2>8. CASE UnlinkPart(c)
    BY <2>8 DEF UnlinkPart
  <2>9. CASE WriteMeta(c)
    BY <2>9 DEF WriteMeta
  <2>10. CASE Audit(c)
    BY <2>10 DEF Audit
  <2>11. CASE Commit(c)
    BY <2>11 DEF Commit, EndTurn
  <2>12. CASE Close(c)
    BY <2>12 DEF Close
  <2>13. CASE CloseFails(c)
    BY <2>13 DEF CloseFails
  <2>14. CASE Fail(c)
    BY <2>14 DEF Fail, RollBack, EndTurn
  <2>15. CASE Expire(c)
    BY <2>15 DEF Expire, RollBack, EndTurn
  <2>16. CASE FailInTurn(c)
    BY <2>16 DEF FailInTurn
  <2>17. CASE FailAround(c)
    BY <2>17 DEF FailAround, RollBack, EndTurn
  <2>18. CASE StartUndo(c)
    BY <2>18 DEF StartUndo
  <2>19. CASE Relink(c)
    BY <2>19 DEF Relink
  <2>20. CASE Unrecord(c)
    BY <2>20 DEF Unrecord
  <2>21. CASE Unblob(c)
    BY <2>21 DEF Unblob
  <2>22. CASE Reopen(c)
    BY <2>22 DEF Reopen, EndTurn
  <2>23. CASE UndoFails(c)
    BY <2>23 DEF UndoFails, RollBack, EndTurn
  <2> QED BY <1>4, <2>1, <2>2, <2>3, <2>4, <2>5, <2>6, <2>7, <2>8, <2>9, <2>10, <2>11, <2>12, <2>13, <2>14, <2>15, <2>16, <2>17, <2>18, <2>19, <2>20, <2>21, <2>22, <2>23 DEF Progress
<1> QED BY <1>1, <1>2, <1>3, <1>4 DEF Next

\* A committed finalisation is never undone, as long as a client asks for one
\* upload again only when it has its answer or the process has died.
THEOREM CommittedStays ==
  ASSUME ~Overlap
  PROVE  Spec => []CommittedIsKept
<1>1. Init => CommitInv
  BY DEF Init, CommitInv, AloneInv, Idle, Work, Claim, Committed, InTransaction, Undoing
<1>2. Inv /\ Inv' /\ CommitInv /\ [Next]_vars => CommitInv'
  BY AloneStep, WorkStep, ClaimStep DEF Inv, BytesInv, CommitInv
<1>3. Inv /\ CommitInv => CommittedIsKept
  BY UploadAssumption
  DEF Inv, TypeOK, Rows, BytesInv, BytesBehindRecords, CommitInv, CommittedIsKept
<1> QED BY Invariance, <1>1, <1>2, <1>3, PTL DEF Spec

-----------------------------------------------------------------------------
(* Nothing is left half done, under the same assumption                    *)

\* Every compensation so far had its receipt and ran to its end.
Clean == crashes = 0 /\ \A c \in Requests : answer[c] # "integrity_error"

\* c has finalised its upload, or undoes it, and has not committed.
Undecided(c) ==
  c \in created /\ at[c] \in {"unlink", "meta", "audit", "commit", "failing"} \cup Undoing

\* Metadata is committed with the audit; who works on files has created them,
\* and a failed compensation ends its request; a finalised session has
\* committed or has someone who will undo it.
MetaInv == \A u \in Uploads : u \in disk.meta <=> Committed(u)
CreatedInv ==
  \A c \in Requests :
    /\ at[c] \in {"link", "record", "finalized", "unlink", "failing"} \cup Undoing => c \in created
    /\ answer[c] = "integrity_error" => at[c] = "answered"
FinalInv ==
  Clean => \A u \in Uploads :
    sess[u] = "finalized" => Committed(u) \/ \E c \in Requests : Session[c] = u /\ Undecided(c)

\* The metadata in the database are those of the committed finalisations.
LEMMA MetaStep ==
  ASSUME TypeOK, TurnInv, CommitInv, MetaInv, [Next]_vars
  PROVE  MetaInv'
<1> USE UploadAssumption
<1> USE DEF MetaInv, Committed, CommitInv, Work, Claim, TurnInv
<1> USE DEF InTransaction, Undoing, store, db, told
<1>1. CASE UNCHANGED vars
  BY <1>1 DEF vars
<1>2. CASE Crash
  BY <1>2 DEF Crash, RollBack, EndTurn
<1>3. ASSUME NEW u \in Uploads, Write(u) \/ WriteTooLate(u) PROVE MetaInv'
  BY <1>3 DEF Write, WriteTooLate
<1>4. ASSUME NEW c \in Requests, Ask(c) \/ Progress(c) PROVE MetaInv'
  <2> USE DEF TypeOK, Rows, Goto, Answer
  <2>1. CASE Ask(c)
    BY <2>1 DEF Ask
  <2>2. CASE Begin(c)
    BY <2>2 DEF Begin
  <2>3. CASE Lookup(c)
    BY <2>3 DEF Lookup
  <2>4. CASE ReadSession(c)
    BY <2>4 DEF ReadSession
  <2>5. CASE Link(c)
    BY <2>5 DEF Link
  <2>6. CASE WriteRecord(c)
    BY <2>6 DEF WriteRecord
  <2>7. CASE MarkFinalized(c)
    BY <2>7 DEF MarkFinalized
  <2>8. CASE UnlinkPart(c)
    BY <2>8 DEF UnlinkPart
  <2>9. CASE WriteMeta(c)
    BY <2>9 DEF WriteMeta
  <2>10. CASE Audit(c)
    BY <2>10 DEF Audit
  <2>11. CASE Commit(c)
    BY <2>11 DEF Commit, EndTurn
  <2>12. CASE Close(c)
    BY <2>12 DEF Close
  <2>13. CASE CloseFails(c)
    BY <2>13 DEF CloseFails
  <2>14. CASE Fail(c)
    BY <2>14 DEF Fail, RollBack, EndTurn
  <2>15. CASE Expire(c)
    BY <2>15 DEF Expire, RollBack, EndTurn
  <2>16. CASE FailInTurn(c)
    BY <2>16 DEF FailInTurn
  <2>17. CASE FailAround(c)
    BY <2>17 DEF FailAround, RollBack, EndTurn
  <2>18. CASE StartUndo(c)
    BY <2>18 DEF StartUndo
  <2>19. CASE Relink(c)
    BY <2>19 DEF Relink
  <2>20. CASE Unrecord(c)
    BY <2>20 DEF Unrecord
  <2>21. CASE Unblob(c)
    BY <2>21 DEF Unblob
  <2>22. CASE Reopen(c)
    BY <2>22 DEF Reopen, EndTurn
  <2>23. CASE UndoFails(c)
    BY <2>23 DEF UndoFails, RollBack, EndTurn
  <2> QED BY <1>4, <2>1, <2>2, <2>3, <2>4, <2>5, <2>6, <2>7, <2>8, <2>9, <2>10, <2>11, <2>12, <2>13, <2>14, <2>15, <2>16, <2>17, <2>18, <2>19, <2>20, <2>21, <2>22, <2>23 DEF Progress
<1> QED BY <1>1, <1>2, <1>3, <1>4 DEF Next

\* Whoever works on the files of an upload found its session not finalised, and
\* nobody asks again after a failed compensation.
LEMMA CreatedStep ==
  ASSUME TypeOK, CreatedInv, [Next]_vars
  PROVE  CreatedInv'
<1> USE UploadAssumption
<1> USE DEF CreatedInv, InTransaction, Undoing, store, db, told
<1>1. CASE UNCHANGED vars
  BY <1>1 DEF vars
<1>2. CASE Crash
  BY <1>2 DEF Crash, RollBack, EndTurn, TypeOK
<1>3. ASSUME NEW u \in Uploads, Write(u) \/ WriteTooLate(u) PROVE CreatedInv'
  BY <1>3 DEF Write, WriteTooLate
<1>4. ASSUME NEW c \in Requests, Ask(c) \/ Progress(c) PROVE CreatedInv'
  <2> USE DEF TypeOK, Goto, Answer
  <2>1. CASE Ask(c)
    BY <2>1 DEF Ask
  <2>2. CASE Begin(c)
    BY <2>2 DEF Begin
  <2>3. CASE Lookup(c)
    BY <2>3 DEF Lookup
  <2>4. CASE ReadSession(c)
    BY <2>4 DEF ReadSession
  <2>5. CASE Link(c)
    BY <2>5 DEF Link
  <2>6. CASE WriteRecord(c)
    BY <2>6 DEF WriteRecord
  <2>7. CASE MarkFinalized(c)
    BY <2>7 DEF MarkFinalized
  <2>8. CASE UnlinkPart(c)
    BY <2>8 DEF UnlinkPart
  <2>9. CASE WriteMeta(c)
    BY <2>9 DEF WriteMeta
  <2>10. CASE Audit(c)
    BY <2>10 DEF Audit
  <2>11. CASE Commit(c)
    BY <2>11 DEF Commit, EndTurn
  <2>12. CASE Close(c)
    BY <2>12 DEF Close
  <2>13. CASE CloseFails(c)
    BY <2>13 DEF CloseFails
  <2>14. CASE Fail(c)
    BY <2>14 DEF Fail, RollBack, EndTurn
  <2>15. CASE Expire(c)
    BY <2>15 DEF Expire, RollBack, EndTurn
  <2>16. CASE FailInTurn(c)
    BY <2>16 DEF FailInTurn
  <2>17. CASE FailAround(c)
    BY <2>17 DEF FailAround, RollBack, EndTurn
  <2>18. CASE StartUndo(c)
    BY <2>18 DEF StartUndo
  <2>19. CASE Relink(c)
    BY <2>19 DEF Relink
  <2>20. CASE Unrecord(c)
    BY <2>20 DEF Unrecord
  <2>21. CASE Unblob(c)
    BY <2>21 DEF Unblob
  <2>22. CASE Reopen(c)
    BY <2>22 DEF Reopen, EndTurn
  <2>23. CASE UndoFails(c)
    BY <2>23 DEF UndoFails, RollBack, EndTurn
  <2> QED BY <1>4, <2>1, <2>2, <2>3, <2>4, <2>5, <2>6, <2>7, <2>8, <2>9, <2>10, <2>11, <2>12, <2>13, <2>14, <2>15, <2>16, <2>17, <2>18, <2>19, <2>20, <2>21, <2>22, <2>23 DEF Progress
<1> QED BY <1>1, <1>2, <1>3, <1>4 DEF Next

\* A session is finalised by a command that will commit or undo it; one that
\* finds it finalised is the only one at work on it, so it has committed.
LEMMA FinalStep ==
  ASSUME TypeOK, CommitInv, CreatedInv, TurnInv, FinalInv, [Next]_vars
  PROVE  FinalInv'
<1> USE UploadAssumption
<1> USE DEF FinalInv, Clean, Undecided, Committed, CreatedInv, CommitInv, Work, TurnInv
<1> USE DEF InTransaction, Undoing, store, db, told
<1>1. CASE UNCHANGED vars
  BY <1>1 DEF vars
<1>2. CASE Crash
  BY <1>2 DEF Crash, TypeOK
<1>3. ASSUME NEW u \in Uploads, Write(u) \/ WriteTooLate(u) PROVE FinalInv'
  BY <1>3 DEF Write, WriteTooLate, TypeOK
<1>4. ASSUME NEW c \in Requests, Ask(c) \/ Progress(c) PROVE FinalInv'
  <2> USE DEF TypeOK, Rows, Goto, Answer
  <2>1. CASE Ask(c)
    BY <2>1 DEF Ask
  <2>2. CASE Begin(c)
    BY <2>2 DEF Begin
  <2>3. CASE Lookup(c)
    BY <2>3 DEF Lookup
  <2>4. CASE ReadSession(c)
    BY <2>4 DEF ReadSession
  <2>5. CASE Link(c)
    BY <2>5 DEF Link
  <2>6. CASE WriteRecord(c)
    BY <2>6 DEF WriteRecord
  <2>7. CASE MarkFinalized(c)
    BY <2>7 DEF MarkFinalized
  <2>8. CASE UnlinkPart(c)
    BY <2>8 DEF UnlinkPart
  <2>9. CASE WriteMeta(c)
    BY <2>9 DEF WriteMeta
  <2>10. CASE Audit(c)
    BY <2>10 DEF Audit
  <2>11. CASE Commit(c)
    BY <2>11 DEF Commit, EndTurn
  <2>12. CASE Close(c)
    BY <2>12 DEF Close
  <2>13. CASE CloseFails(c)
    BY <2>13 DEF CloseFails
  <2>14. CASE Fail(c)
    BY <2>14 DEF Fail, RollBack, EndTurn
  <2>15. CASE Expire(c)
    BY <2>15 DEF Expire, RollBack, EndTurn
  <2>16. CASE FailInTurn(c)
    BY <2>16 DEF FailInTurn
  <2>17. CASE FailAround(c)
    BY <2>17 DEF FailAround, RollBack, EndTurn
  <2>18. CASE StartUndo(c)
    BY <2>18 DEF StartUndo
  <2>19. CASE Relink(c)
    BY <2>19 DEF Relink
  <2>20. CASE Unrecord(c)
    BY <2>20 DEF Unrecord
  <2>21. CASE Unblob(c)
    BY <2>21 DEF Unblob
  <2>22. CASE Reopen(c)
    BY <2>22 DEF Reopen, EndTurn
  <2>23. CASE UndoFails(c)
    BY <2>23 DEF UndoFails, RollBack, EndTurn
  <2> QED BY <1>4, <2>1, <2>2, <2>3, <2>4, <2>5, <2>6, <2>7, <2>8, <2>9, <2>10, <2>11, <2>12, <2>13, <2>14, <2>15, <2>16, <2>17, <2>18, <2>19, <2>20, <2>21, <2>22, <2>23 DEF Progress
<1> QED BY <1>1, <1>2, <1>3, <1>4 DEF Next

HalfInv == CommitInv /\ MetaInv /\ CreatedInv /\ FinalInv

\* Nothing is committed, at work or failed yet.
LEMMA HalfInit == Init => HalfInv
<1>1. Init => CommitInv
  BY DEF Init, CommitInv, AloneInv, Idle, Work, Claim, Committed, InTransaction, Undoing
<1>2. Init => MetaInv /\ CreatedInv /\ FinalInv
  BY DEF Init, MetaInv, CreatedInv, FinalInv, Committed, Undoing
<1> QED BY <1>1, <1>2 DEF HalfInv

\* Both invariants are inductive.
LEMMA HalfStep ==
  ASSUME ~Overlap, Inv, HalfInv, [Next]_vars
  PROVE  Inv' /\ HalfInv'
<1>1. Inv'
  BY TypeStep, TurnStep, BytesStep DEF Inv, BytesInv
<1>2. CommitInv'
  BY <1>1, AloneStep, WorkStep, ClaimStep DEF Inv, BytesInv, CommitInv, HalfInv
<1>3. MetaInv' /\ CreatedInv' /\ FinalInv'
  BY MetaStep, CreatedStep, FinalStep DEF Inv, BytesInv, HalfInv
<1> QED BY <1>1, <1>2, <1>3 DEF HalfInv

\* What they say of a moment between turns.
LEMMA HalfSettled == Inv /\ HalfInv => CommittedIsKept /\ NothingHalfDone
<1> SUFFICES ASSUME Inv, HalfInv PROVE CommittedIsKept /\ NothingHalfDone
  OBVIOUS
<1>1. CommittedIsKept
  BY UploadAssumption
  DEF Inv, TypeOK, Rows, BytesInv, BytesBehindRecords, CommitInv, CommittedIsKept, HalfInv
<1>2. ASSUME Settled, NEW u \in Uploads
      PROVE  /\ sess[u] = "finalized" <=> \E c \in disk.done : Session[c] = u
             /\ sess[u] = "finalized" <=> u \in disk.meta
             /\ sess[u] = "finalized" => u \in records
             /\ sess[u] = "open" /\ u \in acked => part[u] = "full"
  <2>1. Clean
    BY <1>2 DEF Settled, Clean
  <2>2. \A c \in Requests : ~Undecided(c)
    BY <1>2, UploadAssumption
    DEF Settled, Inv, BytesInv, TurnInv, Undecided, InTransaction, Undoing
  <2>3. sess[u] = "finalized" => Committed(u)
    BY <2>1, <2>2 DEF FinalInv, HalfInv
  <2>4. Committed(u) => sess[u] = "finalized" /\ u \in records
    BY DEF Committed, CommitInv, HalfInv
  <2>5. u \in disk.meta <=> Committed(u)
    BY DEF MetaInv, HalfInv
  <2>6. sess[u] = "open" /\ u \in acked => part[u] = "full"
    BY DEF Inv, BytesInv, SessionInv
  <2> QED BY <2>3, <2>4, <2>5, <2>6 DEF Committed
<1> QED BY <1>1, <1>2 DEF NothingHalfDone

\* Without crashes and failed compensations, and with requests that do not
\* overlap, an upload between turns is finalised, recorded and in the database,
\* or none of it.
THEOREM NothingLeftHalfDone ==
  ASSUME ~Overlap
  PROVE  Spec => []NothingHalfDone
<1>1. Init => Inv /\ HalfInv
  BY InitInv, HalfInit
<1>2. Inv /\ HalfInv /\ [Next]_vars => (Inv /\ HalfInv)'
  BY HalfStep
<1>3. Inv /\ HalfInv => NothingHalfDone
  BY HalfSettled
<1> QED BY <1>1, <1>2, <1>3, PTL DEF Spec

-----------------------------------------------------------------------------
(* Backup and restore beside uploads *)

\* A step of the whole is a step of uploads or leaves them alone.
LEMMA StepsOfUploads == [BackupNext]_<<vars, backupVars>> => [Next]_vars
<1> USE DEF UploadStep, UploadTurns, CrashAll, StartBackup, TakeTurn, CopyDatabase,
     CopyArtifacts, WriteManifest, VerifyStaging, Publish, BackupFails, Damage, StartRestore,
     RestoreDatabase, RestoreArtifacts, RestoreManifest, OpenRestored, RestoreFails
<1>1. UploadStep => Next
  BY DEF Next
<1>2. CrashAll => Next
  BY DEF Next
<1>3. BackupNext => UploadStep \/ CrashAll \/ UNCHANGED vars
  BY DEF BackupNext
<1> QED BY <1>1, <1>2, <1>3

-----------------------------------------------------------------------------
(* Directories *)

\* What a directory consists of.
LEMMA DirectoryFields ==
  ASSUME NEW d \in Directories
  PROVE  /\ d # Absent /\ d.there
         /\ d.db \in Databases /\ d.manifest \in Manifests
         /\ d.sess \in [Uploads -> {"none", "open", "finalized", "expired"}]
         /\ d.part \in [Uploads -> {"none", "empty", "full"}]
         /\ d.records \subseteq Uploads /\ d.blobs \subseteq Digests
<1>1. Absent.there = FALSE
  BY DEF Absent
<1>2. d.there = TRUE
  BY DEF Directories
<1>3. d # Absent
  BY <1>1, <1>2
<1> QED BY <1>2, <1>3 DEF Directories

\* A new database file leaves a directory and all else in it.
LEMMA DatabaseWritten ==
  ASSUME NEW d \in Directories, NEW x \in Databases
  PROVE  LET e == [d EXCEPT !.db = x]
         IN  /\ e \in Directories
             /\ e.db = x /\ e.manifest = d.manifest /\ e.sess = d.sess
             /\ e.part = d.part /\ e.records = d.records /\ e.blobs = d.blobs
BY DEF Directories

\* So does a new manifest.
LEMMA ManifestWritten ==
  ASSUME NEW d \in Directories, NEW x \in Manifests
  PROVE  LET e == [d EXCEPT !.manifest = x]
         IN  /\ e \in Directories
             /\ e.db = d.db /\ e.manifest = x /\ e.sess = d.sess
             /\ e.part = d.part /\ e.records = d.records /\ e.blobs = d.blobs
BY DEF Directories

\* A copy of the files brings nothing else with it.
LEMMA FilesCopied ==
  ASSUME NEW d \in Directories, NEW from \in Directories
  PROVE  LET e == CopyOfFiles(from, d)
         IN  /\ e \in Directories
             /\ e.db = d.db /\ e.manifest = d.manifest /\ e.sess = from.sess
             /\ e.part = from.part /\ e.records = from.records /\ e.blobs = from.blobs
BY DEF Directories, CopyOfFiles

\* A restore that fails leaves a directory without a manifest of its own.
LEMMA FailureKeepsDirectory ==
  ASSUME restored \in Directories, backup \in Directories, RestoreFails
  PROVE  restored' \in Directories /\ restored'.manifest = restored.manifest
<1>1. CASE UNCHANGED restored
  BY <1>1
<1>2. ASSUME NEW R \in SUBSET backup.records, NEW B \in SUBSET backup.blobs,
             restored' = [restored EXCEPT !.records = R, !.blobs = B]
      PROVE  restored' \in Directories /\ restored'.manifest = restored.manifest
  <2>1. R \in SUBSET Uploads /\ B \in SUBSET Digests
    BY DirectoryFields
  <2> QED BY <1>2, <2>1 DEF Directories
<1> QED BY <1>1, <1>2 DEF RestoreFails

\* A lost or changed file leaves the manifest as it was, or takes it away.
LEMMA DamageKeepsDirectory ==
  ASSUME backup \in Directories, Damage
  PROVE  backup' \in Directories /\ backup'.manifest \in {backup.manifest, NoFile}
<1>1. CASE backup' = [backup EXCEPT !.db = Garbled]
  BY <1>1, DatabaseWritten DEF Databases
<1>2. CASE backup' = [backup EXCEPT !.manifest = NoFile]
  BY <1>2, ManifestWritten DEF Manifests
<1>3. ASSUME NEW u \in backup.records, backup' = [backup EXCEPT !.records = @ \ {u}]
      PROVE  backup' \in Directories /\ backup'.manifest = backup.manifest
  <2>1. backup' = [backup EXCEPT !.records = backup.records \ {u}]
    BY <1>3 DEF Directories
  <2> QED BY <2>1 DEF Directories
<1>4. ASSUME NEW d \in backup.blobs, backup' = [backup EXCEPT !.blobs = @ \ {d}]
      PROVE  backup' \in Directories /\ backup'.manifest = backup.manifest
  <2>1. backup' = [backup EXCEPT !.blobs = backup.blobs \ {d}]
    BY <1>4 DEF Directories
  <2> QED BY <2>1 DEF Directories
<1>5. ASSUME NEW u \in Uploads, backup' = [backup EXCEPT !.part[u] = "none"]
      PROVE  backup' \in Directories /\ backup'.manifest = backup.manifest
  <2>1. backup' = [backup EXCEPT !.part = [backup.part EXCEPT ![u] = "none"]]
    BY <1>5 DEF Directories
  <2>2. [backup.part EXCEPT ![u] = "none"] \in [Uploads -> {"none", "empty", "full"}]
    BY DEF Directories
  <2> QED BY <2>1, <2>2 DEF Directories
<1> QED BY <1>1, <1>2, <1>3, <1>4, <1>5 DEF Damage

\* The live data directory is a directory, with a database of rows.
LEMMA LiveDirectory ==
  ASSUME TypeOK
  PROVE  /\ Live \in Directories
         /\ Live.db = disk /\ Live.manifest = NoFile /\ Live.sess = sess
         /\ Live.part = part /\ Live.records = records /\ Live.blobs = blobs
BY DEF TypeOK, Live, Directories, Databases, Manifests

\* An empty directory is one.
LEMMA FreshDirectory ==
  Fresh \in Directories /\ Fresh.manifest = NoFile
BY DEF Fresh, Directories, Databases, Manifests

\* Described by a manifest, it has the records and the database of the cut.
Described == [db |-> cut.live.db, records |-> cut.live.records]

HasCut == bk \notin {"idle", "asked"} \/ backup # Absent

\* Where the directories are at each stage of a backup and a restore.
Shape ==
  /\ bk \in {"idle", "asked", "database", "artifacts", "manifest", "verify", "publish"}
  /\ rs \in {"idle", "database", "artifacts", "manifest", "verify"}
  /\ copying \in BOOLEAN /\ (copying <=> bk \in {"database", "artifacts", "manifest"})
  /\ copying => owner = None
  /\ served \in BOOLEAN /\ damaged \in BOOLEAN
  /\ staging \in Directories \cup {Absent} /\ backup \in Directories \cup {Absent}
  /\ restored \in Directories \cup {Absent}
  /\ bk # "idle" => staging \in Directories /\ backup = Absent
  /\ bk \in {"artifacts", "manifest"} => staging.db \in Rows
  /\ rs # "idle" => restored \in Directories /\ backup # Absent
  /\ backup = Absent => restored = Absent /\ ~damaged
  /\ served => rs = "idle" /\ restored # Absent

\* The cut is one of the live system, and typed.
CutShape ==
  /\ cut.live \in Directories \cup {Absent} /\ cut.acked \subseteq Uploads
  /\ cut.settled \in BOOLEAN
  /\ cut = [live |-> cut.live, acked |-> cut.acked, settled |-> cut.settled]
  /\ HasCut => cut.live \in Directories /\ cut.live.db \in Rows

SameFiles(dir, other) ==
  /\ dir.sess = other.sess /\ dir.part = other.part
  /\ dir.records = other.records /\ dir.blobs = other.blobs

\* What each directory has of the cut.
Copied ==
  /\ copying => cut.live = Live
  /\ bk \in {"artifacts", "manifest", "verify", "publish"} => staging.db = cut.live.db
  /\ bk \in {"manifest", "verify", "publish"} => SameFiles(staging, cut.live)
  /\ bk \in {"verify", "publish"} => staging.manifest = Described
  /\ backup # Absent => backup.manifest \in {NoFile, Described}
  /\ backup # Absent /\ ~damaged => backup.db = cut.live.db /\ SameFiles(backup, cut.live)
  /\ rs # "idle" \/ restored # Absent => restored.manifest \in {NoFile, Described}
  /\ served => Whole(restored)

\* Nothing is under way yet.
LEMMA BackupInitInv == BackupInit => Shape /\ CutShape /\ Copied
<1> SUFFICES ASSUME BackupInit PROVE Shape /\ CutShape /\ Copied OBVIOUS
<1>1. Shape
  BY DEF BackupInit, Shape
<1>2. CutShape
  BY DEF BackupInit, CutShape, NoCut, HasCut
<1>3. Copied
  BY DEF BackupInit, Copied
<1> QED BY <1>1, <1>2, <1>3

\* No two stages of backup and restore get in each other's way.
LEMMA ShapeStep ==
  ASSUME TypeOK, Shape, BackupNext \/ UNCHANGED <<vars, backupVars>>
  PROVE  Shape'
<1> USE DirectoryFields, LiveDirectory, FreshDirectory DEF Shape, directories, backupVars
<1>1. CASE UploadStep
  BY <1>1 DEF UploadStep, Ask, vars, store, db, told
<1>2. CASE CrashAll
  BY <1>2 DEF CrashAll, Crash, RollBack, EndTurn
<1>3. CASE StartBackup
  BY <1>3 DEF StartBackup, vars
<1>4. CASE TakeTurn
  BY <1>4 DEF TakeTurn, vars
<1>5. CASE CopyDatabase
  BY <1>5, DatabaseWritten DEF CopyDatabase, vars, Databases, TypeOK
<1>6. CASE CopyArtifacts
  BY <1>6, FilesCopied DEF CopyArtifacts, vars
<1>7. CASE WriteManifest
  <2> DEFINE m == [db |-> staging.db, records |-> records]
  <2>1. m \in Manifests
    BY <1>7 DEF WriteManifest, Manifests, TypeOK
  <2>2. staging' = [staging EXCEPT !.manifest = m] /\ staging \in Directories
    BY <1>7 DEF WriteManifest
  <2> HIDE DEF m
  <2>3. staging' \in Directories
    BY <2>1, <2>2, ManifestWritten
  <2> QED BY <1>7, <2>3 DEF WriteManifest, vars
<1>8. CASE VerifyStaging
  BY <1>8 DEF VerifyStaging, vars
<1>9. CASE Publish
  BY <1>9 DEF Publish, vars
<1>10. CASE BackupFails
  BY <1>10 DEF BackupFails, vars
<1>11. CASE Damage
  BY <1>11, DamageKeepsDirectory DEF Damage, vars
<1>12. CASE StartRestore
  BY <1>12 DEF StartRestore, Verifies, vars, Absent
<1>13. CASE RestoreDatabase
  BY <1>13, DatabaseWritten DEF RestoreDatabase, vars
<1>14. CASE RestoreArtifacts
  BY <1>14, FilesCopied DEF RestoreArtifacts, vars
<1>15. CASE RestoreManifest
  BY <1>15, ManifestWritten DEF RestoreManifest, vars
<1>16. CASE OpenRestored
  BY <1>16 DEF OpenRestored, vars
<1>17. CASE RestoreFails
  BY <1>17, FailureKeepsDirectory DEF RestoreFails, vars
<1>18. CASE UNCHANGED <<vars, backupVars>>
  BY <1>18 DEF vars, store, db, told, Live
<1> QED BY <1>1, <1>2, <1>3, <1>4, <1>5, <1>6, <1>7, <1>8, <1>9, <1>10, <1>11, <1>12, <1>13, <1>14, <1>15, <1>16, <1>17, <1>18 DEF BackupNext

\* A cut is taken once for each backup that gets a turn.
LEMMA CutStep ==
  ASSUME TypeOK, Shape, CutShape, BackupNext \/ UNCHANGED <<vars, backupVars>>
  PROVE  CutShape'
<1> USE DirectoryFields, LiveDirectory DEF CutShape, HasCut, Shape, directories, backupVars
<1>1. CASE UploadStep
  BY <1>1 DEF UploadStep
<1>2. CASE CrashAll
  BY <1>2 DEF CrashAll
<1>3. CASE StartBackup
  BY <1>3 DEF StartBackup
<1>4. CASE TakeTurn
  <2>1. cut' = [live |-> Live, acked |-> acked, settled |-> Settled]
    BY <1>4 DEF TakeTurn
  <2>2. cut'.live = Live /\ cut'.acked = acked /\ cut'.settled = Settled
    BY <2>1
  <2>3. Live \in Directories /\ Live.db \in Rows
    BY DEF TypeOK
  <2>4. Settled \in BOOLEAN
    BY DEF Settled
  <2> QED BY <2>1, <2>2, <2>3, <2>4 DEF TypeOK
<1>5. CASE CopyDatabase
  BY <1>5 DEF CopyDatabase
<1>6. CASE CopyArtifacts
  BY <1>6 DEF CopyArtifacts
<1>7. CASE WriteManifest
  BY <1>7 DEF WriteManifest
<1>8. CASE VerifyStaging
  BY <1>8 DEF VerifyStaging
<1>9. CASE Publish
  BY <1>9 DEF Publish
<1>10. CASE BackupFails
  BY <1>10 DEF BackupFails
<1>11. CASE Damage
  BY <1>11, DamageKeepsDirectory DEF Damage
<1>12. CASE StartRestore
  BY <1>12 DEF StartRestore
<1>13. CASE RestoreDatabase
  BY <1>13 DEF RestoreDatabase
<1>14. CASE RestoreArtifacts
  BY <1>14 DEF RestoreArtifacts
<1>15. CASE RestoreManifest
  BY <1>15 DEF RestoreManifest
<1>16. CASE OpenRestored
  BY <1>16 DEF OpenRestored
<1>17. CASE RestoreFails
  BY <1>17 DEF RestoreFails
<1>18. CASE UNCHANGED <<vars, backupVars>>
  BY <1>18 DEF vars, store, db, told, Live
<1> QED BY <1>1, <1>2, <1>3, <1>4, <1>5, <1>6, <1>7, <1>8, <1>9, <1>10, <1>11, <1>12, <1>13, <1>14, <1>15, <1>16, <1>17, <1>18 DEF BackupNext

\* Each copy is of what the turn of the backup found.
LEMMA CopiedStep ==
  ASSUME TypeOK, Shape, CutShape, Copied, BackupNext \/ UNCHANGED <<vars, backupVars>>
  PROVE  Copied'
<1> USE DirectoryFields, LiveDirectory, FreshDirectory
<1> USE DEF Copied, Shape, SameFiles, Described, Whole, directories, backupVars
<1>1. CASE UploadStep
  BY <1>1 DEF UploadStep, Ask, store, db, Live
<1>2. CASE CrashAll
  BY <1>2 DEF CrashAll
<1>3. CASE StartBackup
  BY <1>3 DEF StartBackup, vars, store, db, Live
<1>4. CASE TakeTurn
  BY <1>4 DEF TakeTurn, vars, store, db, Live
<1>5. CASE CopyDatabase
  BY <1>5, DatabaseWritten DEF CopyDatabase, vars, store, db, Databases, TypeOK, Live
<1>6. CASE CopyArtifacts
  BY <1>6, FilesCopied DEF CopyArtifacts, vars, store, db, Live
<1>7. CASE WriteManifest
  BY <1>7, ManifestWritten DEF WriteManifest, vars, store, db, Live
<1>8. CASE VerifyStaging
  BY <1>8 DEF VerifyStaging, vars, store, db, Live
<1>9. CASE Publish
  BY <1>9 DEF Publish, vars, store, db, Live
<1>10. CASE BackupFails
  BY <1>10 DEF BackupFails, vars, store, db, Live
<1>11. CASE Damage
  BY <1>11, DamageKeepsDirectory DEF Damage, vars, store, db, Live
<1>12. CASE StartRestore
  BY <1>12 DEF StartRestore, Verifies, vars, store, db, Live, Absent
<1>13. CASE RestoreDatabase
  BY <1>13, DatabaseWritten DEF RestoreDatabase, vars, store, db, Live
<1>14. CASE RestoreArtifacts
  BY <1>14, FilesCopied DEF RestoreArtifacts, vars, store, db, Live
<1>15. CASE RestoreManifest
  BY <1>15, ManifestWritten DEF RestoreManifest, vars, store, db, Live
<1>16. CASE OpenRestored
  BY <1>16 DEF OpenRestored, Verifies, vars, store, db, Live
<1>17. CASE RestoreFails
  <2>1. restored'.manifest = restored.manifest /\ restored # Absent
    BY <1>17, FailureKeepsDirectory DEF RestoreFails
  <2> QED BY <1>17, <2>1 DEF RestoreFails, vars, store, db, Live
<1>18. CASE UNCHANGED <<vars, backupVars>>
  BY <1>18 DEF vars, store, db, told, Live
<1> QED BY <1>1, <1>2, <1>3, <1>4, <1>5, <1>6, <1>7, <1>8, <1>9, <1>10, <1>11, <1>12, <1>13, <1>14, <1>15, <1>16, <1>17, <1>18 DEF BackupNext

CopyInv == Shape /\ CutShape /\ Copied

\* All of it is inductive, beside the types of uploads.
LEMMA CopyInvStep ==
  ASSUME TypeOK, CopyInv, [BackupNext]_<<vars, backupVars>>
  PROVE  CopyInv'
BY ShapeStep, CutStep, CopiedStep DEF CopyInv

\* Uploads go on as without a backup.
THEOREM UploadsInvariance == BackupSpec => []Inv
<1>1. BackupInit => Inv
  BY InitInv DEF BackupInit
<1>2. Inv /\ [BackupNext]_<<vars, backupVars>> => Inv'
  BY StepsOfUploads, TypeStep, TurnStep, BytesStep DEF Inv, BytesInv
<1> QED BY <1>1, <1>2, PTL DEF BackupSpec

\* Where each directory and the cut are.
THEOREM CopyInvariance == BackupSpec => []CopyInv
<1>1. BackupInit => CopyInv
  BY BackupInitInv DEF CopyInv
<1>2. Inv /\ CopyInv /\ [BackupNext]_<<vars, backupVars>> => CopyInv'
  BY CopyInvStep DEF Inv
<1> QED BY <1>1, <1>2, UploadsInvariance, PTL DEF BackupSpec

\* The variables keep their types, and the turn of a backup is nobody else's.
THEOREM BackupTypeCorrect == BackupSpec => []BackupTypeOK
<1>1. Inv /\ CopyInv => BackupTypeOK
  <2> SUFFICES ASSUME Inv, CopyInv PROVE BackupTypeOK OBVIOUS
  <2>1. TypeOK /\ Shape /\ CutShape
    BY DEF Inv, CopyInv
  <2>2. copying = (bk \in {"database", "artifacts", "manifest"})
    BY <2>1 DEF Shape
  <2>3. cut \in [live : Directories \cup {Absent}, acked : SUBSET Uploads, settled : BOOLEAN]
    BY <2>1 DEF CutShape
  <2> QED BY <2>1, <2>2, <2>3 DEF Shape, BackupTypeOK
<1> QED BY <1>1, UploadsInvariance, CopyInvariance, PTL

\* Whatever fails, crashes or is damaged, only a directory with the whole
\* database and every artifact of the cut verifies or is served.
THEOREM OnlyWholeVerifies == BackupSpec => []VerifiedIsWhole
<1>1. CopyInv => VerifiedIsWhole
  <2> SUFFICES ASSUME CopyInv PROVE VerifiedIsWhole OBVIOUS
  <2>1. ASSUME NEW dir \in {backup, restored}, dir # Absent, Verifies(dir)
        PROVE  Whole(dir)
    <3>1. dir.manifest = Described
      BY <2>1 DEF CopyInv, Copied, Verifies
    <3> QED BY <2>1, <3>1 DEF Described, Verifies, Whole
  <2>2. served => Whole(restored)
    BY DEF CopyInv, Copied
  <2> QED BY <2>1, <2>2 DEF VerifiedIsWhole
<1> QED BY <1>1, CopyInvariance, PTL

-----------------------------------------------------------------------------
(* The cut itself, when requests for one upload do not overlap             *)

\* What is copied in one turn belongs together.
SoundCut ==
  HasCut =>
    /\ \A u \in cut.live.records : Content[u] \in cut.live.blobs
    /\ \A c \in cut.live.db.done :
         Session[c] \in cut.live.records /\ Session[c] \in cut.live.db.meta
    /\ \A u \in cut.acked : cut.live.sess[u] # "expired" =>
         \/ cut.live.part[u] = "full"
         \/ cut.live.sess[u] = "finalized" /\ Content[u] \in cut.live.blobs
    /\ cut.settled => \A u \in Uploads :
         (cut.live.sess[u] = "finalized") = (\E c \in cut.live.db.done : Session[c] = u)

\* The live system is sound between two turns, and the cut stays what it is.
LEMMA SoundCutStep ==
  ASSUME Inv, HalfInv, SoundCut, BackupNext \/ UNCHANGED <<vars, backupVars>>
  PROVE  SoundCut'
<1>1. CASE TakeTurn
  <2> DEFINE new == [live |-> Live, acked |-> acked, settled |-> Settled]
  <2>1. cut' = new
    BY <1>1 DEF TakeTurn
  <2>2. new.live = Live /\ new.acked = acked /\ new.settled = Settled
    OBVIOUS
  <2> HIDE DEF new
  <2>3. CommittedIsKept /\ NothingHalfDone /\ BytesBehindRecords /\ TypeOK
    BY HalfSettled DEF Inv, BytesInv
  <2>4. AcknowledgedBytesAreKept
    BY DEF Inv, TypeOK, BytesInv, SessionInv, BytesBehindRecords, AcknowledgedBytesAreKept
  <2>5. \A u \in cut'.live.records : Content[u] \in cut'.live.blobs
    BY <2>1, <2>2, <2>3, LiveDirectory DEF BytesBehindRecords
  <2>6. \A c \in cut'.live.db.done :
          Session[c] \in cut'.live.records /\ Session[c] \in cut'.live.db.meta
    BY <2>1, <2>2, <2>3, LiveDirectory DEF CommittedIsKept
  <2>7. \A u \in cut'.acked : cut'.live.sess[u] # "expired" =>
          \/ cut'.live.part[u] = "full"
          \/ cut'.live.sess[u] = "finalized" /\ Content[u] \in cut'.live.blobs
    BY <2>1, <2>2, <2>3, <2>4, LiveDirectory DEF AcknowledgedBytesAreKept
  <2>8. cut'.settled => \A u \in Uploads :
          (cut'.live.sess[u] = "finalized") = (\E c \in cut'.live.db.done : Session[c] = u)
    BY <2>1, <2>2, <2>3, LiveDirectory DEF NothingHalfDone
  <2> QED BY <2>5, <2>6, <2>7, <2>8 DEF SoundCut
<1>2. CASE ~TakeTurn
  <2> USE DEF backupVars, directories, HasCut
  <2>1. cut' = cut
    BY <1>2 DEF BackupNext, UploadStep, CrashAll, StartBackup, CopyDatabase, CopyArtifacts,
       WriteManifest, VerifyStaging, Publish, BackupFails, Damage, StartRestore,
       RestoreDatabase, RestoreArtifacts, RestoreManifest, OpenRestored, RestoreFails
  <2>2. HasCut' => HasCut
    BY <1>2 DEF BackupNext, UploadStep, CrashAll, StartBackup, CopyDatabase, CopyArtifacts,
       WriteManifest, VerifyStaging, Publish, BackupFails, Damage, StartRestore,
       RestoreDatabase, RestoreArtifacts, RestoreManifest, OpenRestored, RestoreFails
  <2> QED BY <2>1, <2>2 DEF SoundCut
<1> QED BY <1>1, <1>2

\* A backup taken beside running uploads has rows and files that belong
\* together, as long as requests for one upload do not overlap.
THEOREM BackupsAreConsistent ==
  ASSUME ~Overlap
  PROVE  BackupSpec => []BackupIsConsistent
<1>1. BackupInit => HalfInv /\ SoundCut
  BY HalfInit DEF BackupInit, SoundCut, HasCut
<1>2. Inv /\ HalfInv /\ SoundCut /\ [BackupNext]_<<vars, backupVars>> => (HalfInv /\ SoundCut)'
  BY StepsOfUploads, HalfStep, SoundCutStep
<1>3. CopyInv /\ SoundCut => BackupIsConsistent
  BY DEF CopyInv, Copied, SameFiles, SoundCut, HasCut, BackupIsConsistent
<1> QED BY <1>1, <1>2, <1>3, UploadsInvariance, CopyInvariance, PTL DEF BackupSpec
=============================================================================
