--------------------------- MODULE ArtifactUpload ---------------------------
(***************************************************************************)
(* Finalising an uploaded file: one audited command over two stores.  The  *)
(* artifact store links the bytes under their digest, writes the artifact  *)
(* record and closes the session, file by file; the database takes the     *)
(* metadata, the audit and the idempotency record in one transaction.  A   *)
(* receipt, kept in memory until the command has committed, says what a    *)
(* compensation may remove; the compensation runs inside the turn or, when *)
(* the transaction has failed around it, in a later turn of its own.       *)
(*                                                                         *)
(* An operation that waits at the barrier has no effect until its turn, so *)
(* there is no queue: whoever waits may be next.  Sessions are begun       *)
(* already; the hard link a project gets to its files is left out.         *)
(***************************************************************************)
EXTENDS Naturals, FiniteSets

CONSTANTS
  Uploads, Digests,
  Content,          \* the digest of the bytes each upload is for
  Requests,         \* requests to finalise
  Session,          \* the upload each request names
  Keys, NoKey, KeyOf,
  None,
  Overlap,          \* TRUE: a client may ask again before it has an answer
  Retried,          \* bound: requests that are asked again, once
  MaxCrashes        \* bound: crashes of the process

ASSUME UploadAssumption ==
  /\ Content \in [Uploads -> Digests]
  /\ Session \in [Requests -> Uploads]
  /\ KeyOf \in [Requests -> Keys \cup {NoKey}] /\ NoKey \notin Keys
  /\ None \notin Requests
  /\ Overlap \in BOOLEAN
  /\ Retried \subseteq Requests /\ MaxCrashes \in Nat

VARIABLES
  sess,             \* status in the session file of each upload
  part,             \* its .part file: "none", "empty" or "full"
  records,          \* uploads with an artifact record: what listings show
  blobs,            \* digests with a content-addressed file
  receipt,          \* in memory: what the finalisation of each upload created
  disk, work,       \* the committed database, and what the connection sees
  open,             \* a transaction is open
  owner,            \* the request whose turn it is
  at,               \* how far each request has come
  created,          \* requests whose attempt found the session not yet finalised
  answer,           \* what its caller was told
  acked,            \* history: uploads whose bytes were acknowledged
  again,            \* requests asked for the second time
  crashes

store == <<sess, part, records, blobs, receipt>>
db    == <<disk, work, open>>
told  == <<answer, acked, again, crashes>>
vars  == <<store, db, owner, at, created, told>>

Waiting == {"asked", "close", "close-replay", "failing"}
InTransaction == {"lookup", "session", "link", "record", "finalized", "unlink",
                  "meta", "audit", "commit", "commit-replay"}
Undoing == {"relink", "unrecord", "unblob", "reopen"}
Stages == {"new", "answered", "lost"} \cup Waiting \cup InTransaction \cup Undoing

NoReceipt == [held |-> FALSE, record |-> FALSE, blob |-> FALSE]

Init ==
  /\ sess = [u \in Uploads |-> "open"]
  /\ part = [u \in Uploads |-> "empty"]
  /\ records = {} /\ blobs = {}
  /\ receipt = [u \in Uploads |-> NoReceipt]
  /\ disk = [meta |-> {}, done |-> {}, record |-> [k \in Keys |-> None]]
  /\ work = disk
  /\ open = FALSE /\ owner = None
  /\ at = [c \in Requests |-> "new"]
  /\ created = {}
  /\ answer = [c \in Requests |-> "none"]
  /\ acked = {} /\ again = {} /\ crashes = 0

Goto(c, stage) == at' = [at EXCEPT ![c] = stage]
Answer(c, what) == answer' = [answer EXCEPT ![c] = what] /\ Goto(c, "answered")

-----------------------------------------------------------------------------
(* Bytes, requests, turns *)

\* writeUpload, in a turn of its own.
Write(u) ==
  /\ owner = None
  /\ sess[u] = "open" /\ part[u] = "empty"
  /\ part' = [part EXCEPT ![u] = "full"]
  /\ acked' = acked \cup {u}
  /\ UNCHANGED <<sess, records, blobs, receipt, db, owner, at, created, answer, again, crashes>>

\* writeUpload finds the session past its deadline.
WriteTooLate(u) ==
  /\ owner = None /\ sess[u] = "open"
  /\ sess' = [sess EXCEPT ![u] = "expired"]
  /\ part' = [part EXCEPT ![u] = "none"]
  /\ UNCHANGED <<records, blobs, receipt, db, owner, at, created, told>>

Others(c) == {d \in Requests \ {c} : Session[d] = Session[c]}

\* A client that was told of an error, or lost its connection, may ask again.
Ask(c) ==
  /\ \/ at[c] = "new" /\ UNCHANGED again
     \/ /\ at[c] = "lost" \/ (at[c] = "answered" /\ answer[c] = "error")
        /\ c \in Retried \ again /\ again' = again \cup {c}
  /\ Overlap \/ \A d \in Others(c) : at[d] \in {"new", "answered", "lost"}
  /\ created' = created \ {c}
  /\ Goto(c, "asked")
  /\ UNCHANGED <<store, db, owner, answer, acked, crashes>>

Begin(c) ==
  /\ owner = None /\ at[c] = "asked"
  /\ owner' = c /\ open' = TRUE /\ work' = disk
  /\ Goto(c, "lookup")
  /\ UNCHANGED <<store, disk, created, told>>

Prior(c) == IF KeyOf[c] = NoKey THEN None ELSE work.record[KeyOf[c]]

Lookup(c) ==
  /\ owner = c /\ at[c] = "lookup"
  /\ \/ Prior(c) = None /\ Goto(c, "session")
     \/ Prior(c) # None /\ Session[Prior(c)] = Session[c] /\ Goto(c, "commit-replay")
  /\ UNCHANGED <<store, db, owner, created, told>>

\* (mutant) whoever finalises owns the compensation
ReadSessionAsOwner(c) ==
  LET u == Session[c] IN
  /\ owner = c /\ at[c] = "session"
  /\ created' = created \cup {c}
  /\ \/ sess[u] = "open" /\ part[u] # "none" /\ Goto(c, "link")
     \/ sess[u] = "finalized" /\ u \in records /\ Goto(c, "meta")
  /\ UNCHANGED <<store, db, owner, told>>

\* A session that is finalised already belongs to an earlier command.
ReadSession(c) ==
  LET u == Session[c] IN
  /\ owner = c /\ at[c] = "session"
  /\ \/ /\ sess[u] = "open" /\ part[u] # "none"
        /\ created' = created \cup {c}
        /\ Goto(c, "link")
     \/ /\ sess[u] = "finalized" /\ u \in records
        /\ Goto(c, "meta")
        /\ UNCHANGED created
  /\ UNCHANGED <<store, db, owner, told>>

-----------------------------------------------------------------------------
(* The artifact store: ArtifactStore.finalizeUpload *)

\* The blob appears unless the same bytes are there; the receipt is taken.
Link(c) ==
  LET u == Session[c] IN
  /\ owner = c /\ at[c] = "link"
  /\ sess[u] = "open" /\ part[u] = "full"
  /\ blobs' = blobs \cup {Content[u]}
  /\ receipt' = [receipt EXCEPT ![u] =
                   [held |-> TRUE, record |-> FALSE, blob |-> Content[u] \notin blobs]]
  /\ Goto(c, "record")
  /\ UNCHANGED <<sess, part, records, db, owner, created, told>>

WriteRecord(c) ==
  LET u == Session[c] IN
  /\ owner = c /\ at[c] = "record"
  /\ records' = records \cup {u}
  /\ receipt' = [receipt EXCEPT ![u].record = u \notin records]
  /\ Goto(c, "finalized")
  /\ UNCHANGED <<sess, part, blobs, db, owner, created, told>>

MarkFinalized(c) ==
  /\ owner = c /\ at[c] = "finalized"
  /\ sess' = [sess EXCEPT ![Session[c]] = "finalized"]
  /\ Goto(c, "unlink")
  /\ UNCHANGED <<part, records, blobs, receipt, db, owner, created, told>>

UnlinkPart(c) ==
  /\ owner = c /\ at[c] = "unlink"
  /\ part' = [part EXCEPT ![Session[c]] = "none"]
  /\ Goto(c, "meta")
  /\ UNCHANGED <<sess, records, blobs, receipt, db, owner, created, told>>

-----------------------------------------------------------------------------
(* The database, and the end of the command *)

WriteMeta(c) ==
  /\ owner = c /\ at[c] = "meta"
  /\ work' = [work EXCEPT !.meta = @ \cup {Session[c]}]
  /\ Goto(c, "audit")
  /\ UNCHANGED <<store, disk, open, owner, created, told>>

\* The audit record and the idempotency record.
Audit(c) ==
  /\ owner = c /\ at[c] = "audit"
  /\ work' = [work EXCEPT !.done = @ \cup {c},
                          !.record = IF KeyOf[c] = NoKey THEN @ ELSE [@ EXCEPT ![KeyOf[c]] = c]]
  /\ Goto(c, "commit")
  /\ UNCHANGED <<store, disk, open, owner, created, told>>

EndTurn == open' = FALSE /\ owner' = None

Commit(c) ==
  /\ owner = c /\ at[c] \in {"commit", "commit-replay"}
  /\ disk' = work
  /\ EndTurn
  /\ Goto(c, IF at[c] = "commit" THEN "close" ELSE "close-replay")
  /\ UNCHANGED <<store, work, created, told>>

\* commitFinalization drops the receipt, in a turn of its own.
Close(c) ==
  /\ owner = None /\ at[c] \in {"close", "close-replay"}
  /\ receipt' = [receipt EXCEPT ![Session[c]] = NoReceipt]
  /\ Answer(c, IF at[c] = "close" THEN "applied" ELSE "replayed")
  /\ UNCHANGED <<sess, part, records, blobs, db, owner, created, acked, again, crashes>>

\* If that fails the caller gets an error for a command that has committed.
CloseFails(c) ==
  /\ owner = None /\ at[c] \in {"close", "close-replay"}
  /\ Answer(c, "error")
  /\ UNCHANGED <<store, db, owner, created, acked, again, crashes>>

-----------------------------------------------------------------------------
(* Failure and compensation *)

\* (mutants) the transaction stays open; the turn is never given back
RollBackOpen    == work' = disk /\ owner' = None /\ UNCHANGED open
RollBackHolding == work' = disk /\ open' = FALSE /\ UNCHANGED owner

RollBack == work' = disk /\ EndTurn

\* Nothing was created that this command would have to remove.
Fail(c) ==
  /\ owner = c
  /\ \/ at[c] \in {"lookup", "session", "link", "commit-replay"}
     \/ at[c] \in {"meta", "audit", "commit"} /\ c \notin created
  /\ RollBack
  /\ Answer(c, "error")
  /\ UNCHANGED <<store, disk, created, acked, again, crashes>>

\* The session turns out to be past its deadline.
Expire(c) ==
  LET u == Session[c] IN
  /\ owner = c /\ at[c] = "link" /\ sess[u] = "open"
  /\ sess' = [sess EXCEPT ![u] = "expired"]
  /\ part' = [part EXCEPT ![u] = "none"]
  /\ RollBack
  /\ Answer(c, "error")
  /\ UNCHANGED <<records, blobs, receipt, disk, created, acked, again, crashes>>

\* A file operation fails, or the metadata after it: undo within the turn.
\* An operation that reports an error may have had its effect.
FailInTurn(c) ==
  LET u == Session[c] IN
  /\ owner = c
  /\ at[c] \in {"record", "finalized", "unlink"} \/ (at[c] = "meta" /\ c \in created)
  /\ Goto(c, "relink")
  /\ \/ UNCHANGED <<sess, part, records>>
     \/ /\ at[c] = "record"
        /\ records' = records \cup {u} /\ UNCHANGED <<sess, part>>
     \/ /\ at[c] = "finalized"
        /\ sess' = [sess EXCEPT ![u] = "finalized"] /\ UNCHANGED <<part, records>>
     \/ /\ at[c] = "unlink"
        /\ part' = [part EXCEPT ![u] = "none"] /\ UNCHANGED <<sess, records>>
  /\ UNCHANGED <<blobs, receipt, db, owner, created, told>>

\* (mutant) a failure of the transaction leaves the files as they are
FailUncompensated(c) ==
  /\ owner = c /\ at[c] \in {"audit", "commit"} /\ c \in created
  /\ RollBack
  /\ Answer(c, "error")
  /\ UNCHANGED <<store, disk, created, acked, again, crashes>>

\* The audit, the idempotency record or the commit fails: the transaction is
\* rolled back and the turn is over before the compensation starts.
FailAround(c) ==
  /\ owner = c /\ at[c] \in {"audit", "commit"} /\ c \in created
  /\ RollBack
  /\ Goto(c, "failing")
  /\ UNCHANGED <<store, disk, created, told>>

\* rollbackFinalization wants the receipt and a finalised session.
Compensable(u) == receipt[u].held /\ sess[u] = "finalized"

StartUndo(c) ==
  /\ owner = None /\ at[c] = "failing"
  /\ IF Compensable(Session[c])
     THEN owner' = c /\ Goto(c, "relink") /\ UNCHANGED answer
     ELSE Answer(c, "integrity_error") /\ UNCHANGED owner
  /\ UNCHANGED <<store, db, created, acked, again, crashes>>

\* (mutant) the upload does not get its bytes back
RelinkNothing(c) ==
  /\ owner = c /\ at[c] = "relink"
  /\ Goto(c, "unrecord")
  /\ UNCHANGED <<store, db, owner, created, told>>

\* The upload gets its bytes back before the blob may go.
Relink(c) ==
  LET u == Session[c] IN
  /\ owner = c /\ at[c] = "relink"
  /\ part[u] = "full" \/ Content[u] \in blobs
  /\ part' = [part EXCEPT ![u] = "full"]
  /\ Goto(c, "unrecord")
  /\ UNCHANGED <<sess, records, blobs, receipt, db, owner, created, told>>

Unrecord(c) ==
  LET u == Session[c] IN
  /\ owner = c /\ at[c] = "unrecord"
  /\ records' = IF receipt[u].record THEN records \ {u} ELSE records
  /\ Goto(c, "unblob")
  /\ UNCHANGED <<sess, part, blobs, receipt, db, owner, created, told>>

\* (mutant) the blob goes although another artifact has the same bytes
UnblobAlways(c) ==
  LET u == Session[c] IN
  /\ owner = c /\ at[c] = "unblob"
  /\ blobs' = IF receipt[u].blob THEN blobs \ {Content[u]} ELSE blobs
  /\ Goto(c, "reopen")
  /\ UNCHANGED <<sess, part, records, receipt, db, owner, created, told>>

Unblob(c) ==
  LET u == Session[c] IN
  /\ owner = c /\ at[c] = "unblob"
  /\ blobs' = IF receipt[u].blob /\ \A v \in records : Content[v] # Content[u]
              THEN blobs \ {Content[u]} ELSE blobs
  /\ Goto(c, "reopen")
  /\ UNCHANGED <<sess, part, records, receipt, db, owner, created, told>>

\* The session is open again and the turn ends; a compensation that runs
\* outside the transaction deletes the metadata of the record it removed.
Reopen(c) ==
  LET u == Session[c] IN
  /\ owner = c /\ at[c] = "reopen"
  /\ sess' = [sess EXCEPT ![u] = "open"]
  /\ receipt' = [receipt EXCEPT ![u] = NoReceipt]
  /\ disk' = IF ~open /\ receipt[u].record THEN [disk EXCEPT !.meta = @ \ {u}] ELSE disk
  /\ work' = disk'
  /\ EndTurn
  /\ Answer(c, "error")
  /\ UNCHANGED <<part, records, blobs, created, acked, again, crashes>>

\* A file operation of the compensation fails: it stops where it is.
UndoFails(c) ==
  /\ owner = c /\ at[c] \in Undoing
  /\ RollBack
  /\ Answer(c, "integrity_error")
  /\ UNCHANGED <<store, disk, created, acked, again, crashes>>

\* Files and committed rows survive, the receipts do not.
Crash ==
  /\ crashes < MaxCrashes
  /\ crashes' = crashes + 1
  /\ receipt' = [u \in Uploads |-> NoReceipt]
  /\ RollBack
  /\ at' = [c \in Requests |-> IF at[c] \in {"new", "answered"} THEN at[c] ELSE "lost"]
  /\ UNCHANGED <<sess, part, records, blobs, disk, created, answer, acked, again>>

-----------------------------------------------------------------------------
Progress(c) ==
  \/ Begin(c) \/ Lookup(c) \/ ReadSession(c)
  \/ Link(c) \/ WriteRecord(c) \/ MarkFinalized(c) \/ UnlinkPart(c)
  \/ WriteMeta(c) \/ Audit(c) \/ Commit(c) \/ Close(c) \/ CloseFails(c)
  \/ Fail(c) \/ Expire(c) \/ FailInTurn(c) \/ FailAround(c)
  \/ StartUndo(c) \/ Relink(c) \/ Unrecord(c) \/ Unblob(c) \/ Reopen(c) \/ UndoFails(c)

Next ==
  \/ Crash
  \/ \E u \in Uploads : Write(u) \/ WriteTooLate(u)
  \/ \E c \in Requests : Ask(c) \/ Progress(c)

\* File operations and statements return or fail, and the event loop goes on.
Spec == Init /\ [][Next]_vars /\ \A c \in Requests : WF_vars(Progress(c))

-----------------------------------------------------------------------------
(* Properties *)

Receipts == [held : BOOLEAN, record : BOOLEAN, blob : BOOLEAN]
Rows == [meta : SUBSET Uploads, done : SUBSET Requests, record : [Keys -> Requests \cup {None}]]

TypeOK ==
  /\ sess \in [Uploads -> {"open", "finalized", "expired"}]
  /\ part \in [Uploads -> {"none", "empty", "full"}]
  /\ records \subseteq Uploads /\ blobs \subseteq Digests
  /\ receipt \in [Uploads -> Receipts]
  /\ disk \in Rows /\ work \in Rows /\ open \in BOOLEAN
  /\ owner \in Requests \cup {None} /\ (owner = None => ~open)
  /\ at \in [Requests -> Stages]
  /\ created \subseteq Requests
  /\ answer \in [Requests -> {"none", "applied", "replayed", "error", "integrity_error"}]
  /\ acked \subseteq Uploads /\ again \subseteq Retried /\ crashes \in 0..MaxCrashes

\* Every artifact that a listing shows can be downloaded: its bytes are there,
\* whatever shared them, was undone or crashed (artifacts/src/index.ts:921-928).
BytesBehindRecords == \A u \in records : Content[u] \in blobs

\* A finalisation that has committed stays, whatever its caller was told and
\* whoever fails later: record, bytes and metadata (service.ts:2819-2823, "a
\* later transaction must never own compensation for that already committed
\* artifact").
CommittedIsKept ==
  \A c \in disk.done :
    /\ Session[c] \in records
    /\ Content[Session[c]] \in blobs
    /\ Session[c] \in disk.meta

\* Bytes a client was told have arrived are not lost before the session
\* expires, at no step of a finalisation, a compensation or a crash.
AcknowledgedBytesAreKept ==
  \A u \in acked : sess[u] # "expired" =>
    part[u] = "full" \/ (sess[u] = "finalized" /\ Content[u] \in blobs)

\* Without crashes and failed compensations nothing is left half done between
\* turns: an upload is finalised, with record and metadata, exactly when a
\* finalisation of it committed, and otherwise is open with its bytes
\* (artifacts/src/index.ts:831-833).  A record may be left without the rest,
\* when an error was reported after it was written.
Settled ==
  /\ crashes = 0 /\ owner = None
  /\ \A c \in Requests : at[c] # "failing" /\ answer[c] # "integrity_error"
NothingHalfDone ==
  Settled => \A u \in Uploads :
    /\ sess[u] = "finalized" <=> \E c \in disk.done : Session[c] = u
    /\ sess[u] = "finalized" <=> u \in disk.meta
    /\ sess[u] = "finalized" => u \in records
    /\ sess[u] = "open" /\ u \in acked => part[u] = "full"

\* Every request to finalise is answered unless the process dies first.
EveryRequestIsAnswered ==
  \A c \in Requests : (at[c] = "asked") ~> (at[c] \in {"answered", "lost"})
=============================================================================
