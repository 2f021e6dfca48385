---------------------------- MODULE Transactions ----------------------------
(***************************************************************************)
(* How an audited command runs: ApplicationService.mutate over the         *)
(* production unit of work.  The command waits for its turn at the barrier,*)
(* opens the outer SQLite transaction on the process's only connection,    *)
(* looks its key up, writes through adapters whose own transactions are    *)
(* savepoints of it, appends the audit record, stores the answer under the *)
(* key and commits.  Every await is a step of its own.  Any statement may  *)
(* fail; what then undoes the work is the rollback, and for a compound     *)
(* create also a compensation that runs after the turn is over.  The       *)
(* process may crash between any two steps.                                *)
(*                                                                         *)
(* Three commands stand for all: a create, a create of an item with its    *)
(* product profile (the one with a compensation in SQLite), and an update, *)
(* which is every command that changes rows in place and bumps a version.  *)
(***************************************************************************)
EXTENDS Naturals, Sequences, FiniteSets

CONSTANTS Commands, Ids, Keys, NoKey, None, KeyOf, Kind, Target,
  MaxCrashes        \* bound: crashes of the process

ASSUME TransactionsAssumption ==
  /\ KeyOf \in [Commands -> Keys \cup {NoKey}]
  /\ Kind \in [Commands -> {"create", "compound", "update"}]
  /\ Target \in [Commands -> Ids]
  /\ None \notin Commands /\ NoKey \notin Keys
  /\ MaxCrashes \in Nat

VARIABLES
  disk,             \* the committed contents of the database
  work,             \* the contents the connection sees
  depth,            \* BenchDatabase.transactionDepth
  queue,            \* commands waiting for the barrier, for their turn or a compensation
  owner,            \* the command whose turn it is
  at,               \* how far each command has come
  answer,           \* what its caller was told
  events,           \* the commands whose event was published
  crashes

conn == <<disk, work, depth>>
turn == <<queue, owner>>
vars == <<conn, turn, at, answer, events, crashes>>

InTurn == {"lookup", "write", "profile", "audit", "record", "commit", "commit-replay"}
Waiting == {"queued", "undo-profile", "undo-item"}
Stages == {"new", "publish", "failing", "undone-profile", "answered", "lost"} \cup Waiting \cup InTurn
Answers == {"none", "applied", "replayed", "conflict", "error", "integrity_error"}

AC == INSTANCE AtomicCommands WITH db <- disk
Max0(n) == IF n > 0 THEN n ELSE 0

Init ==
  /\ disk = AC!EmptyDb /\ work = AC!EmptyDb
  /\ depth = 0
  /\ queue = <<>> /\ owner = None
  /\ at = [c \in Commands |-> "new"]
  /\ answer = [c \in Commands |-> "none"]
  /\ events = {}
  /\ crashes = 0

-----------------------------------------------------------------------------
(* The turn *)

Goto(c, stage) == at' = [at EXCEPT ![c] = stage]
Answer(c, what) == answer' = [answer EXCEPT ![c] = what] /\ Goto(c, "answered")

\* A request arrives and asks the barrier for a turn.
Arrive(c) ==
  /\ at[c] = "new"
  /\ Goto(c, "queued")
  /\ queue' = Append(queue, c)
  /\ UNCHANGED <<conn, owner, answer, events, crashes>>

MyTurn(c) == owner = None /\ queue # <<>> /\ Head(queue) = c

\* beginScope: BEGIN IMMEDIATE, or a savepoint in a transaction that is open.
Begin(c) ==
  /\ MyTurn(c) /\ at[c] = "queued"
  /\ owner' = c /\ queue' = Tail(queue)
  /\ depth' = depth + 1
  /\ work' = IF depth = 0 THEN disk ELSE work
  /\ Goto(c, "lookup")
  /\ UNCHANGED <<disk, answer, events, crashes>>

\* Another process holds the write lock for longer than the busy timeout.
BeginFails(c) ==
  /\ MyTurn(c) /\ at[c] = "queued"
  /\ queue' = Tail(queue)
  /\ Answer(c, "error")
  /\ UNCHANGED <<conn, owner, events, crashes>>

-----------------------------------------------------------------------------
(* Inside the transaction *)

Keyed(c) == KeyOf[c] # NoKey
Prior(c) == work.record[KeyOf[c]]
SameCommand(c, d) == Kind[c] = Kind[d] /\ Target[c] = Target[d]

\* (mutant) the key is not looked up
LookupSkipped(c) ==
  /\ owner = c /\ at[c] = "lookup"
  /\ Goto(c, "write")
  /\ UNCHANGED <<conn, turn, answer, events, crashes>>

Lookup(c) ==
  /\ owner = c /\ at[c] = "lookup"
  /\ IF ~Keyed(c) \/ Prior(c) = None
     THEN Goto(c, "write")
     ELSE SameCommand(c, Prior(c)) /\ Goto(c, "commit-replay")
  /\ UNCHANGED <<conn, turn, answer, events, crashes>>

\* (mutant) the write is not part of the transaction
WriteThrough(c) ==
  /\ owner = c /\ at[c] = "write"
  /\ (work.item[Target[c]] # None) <=> (Kind[c] = "update")
  /\ disk' = [disk EXCEPT !.version[Target[c]] = @ + 1,
                          !.item[Target[c]] = IF Kind[c] = "update" THEN @ ELSE c]
  /\ work' = disk'
  /\ Goto(c, IF Kind[c] = "compound" THEN "profile" ELSE "audit")
  /\ UNCHANGED <<depth, turn, answer, events, crashes>>

\* The adapter's write.  Its own transaction is a savepoint that is released
\* within the step: a failure leaves the outer transaction as it was.
Write(c) ==
  /\ owner = c /\ at[c] = "write"
  /\ (work.item[Target[c]] # None) <=> (Kind[c] = "update")
  /\ work' = [work EXCEPT !.version[Target[c]] = @ + 1,
                          !.item[Target[c]] = IF Kind[c] = "update" THEN @ ELSE c]
  /\ Goto(c, IF Kind[c] = "compound" THEN "profile" ELSE "audit")
  /\ UNCHANGED <<disk, depth, turn, answer, events, crashes>>

WriteProfile(c) ==
  /\ owner = c /\ at[c] = "profile"
  /\ work' = [work EXCEPT !.profile[Target[c]] = c]
  /\ Goto(c, "audit")
  /\ UNCHANGED <<disk, depth, turn, answer, events, crashes>>

\* (mutant) the audit record is left out
AuditNothing(c) ==
  /\ owner = c /\ at[c] = "audit"
  /\ Goto(c, "record")
  /\ UNCHANGED <<conn, turn, answer, events, crashes>>

Audit(c) ==
  /\ owner = c /\ at[c] = "audit"
  /\ work' = [work EXCEPT !.audit = @ \cup {c}]
  /\ Goto(c, "record")
  /\ UNCHANGED <<disk, depth, turn, answer, events, crashes>>

\* (mutant) the event goes out before the commit
RecordAndPublish(c) ==
  /\ owner = c /\ at[c] = "record"
  /\ work' = IF Keyed(c) THEN [work EXCEPT !.record[KeyOf[c]] = c] ELSE work
  /\ events' = events \cup {c}
  /\ Goto(c, "commit")
  /\ UNCHANGED <<disk, depth, turn, answer, crashes>>

Record(c) ==
  /\ owner = c /\ at[c] = "record"
  /\ work' = IF Keyed(c) THEN [work EXCEPT !.record[KeyOf[c]] = c] ELSE work
  /\ Goto(c, "commit")
  /\ UNCHANGED <<disk, depth, turn, answer, events, crashes>>

\* (mutant) the depth is not counted down
CommitAtDepth(c) ==
  /\ owner = c /\ at[c] \in {"commit", "commit-replay"}
  /\ disk' = IF depth = 1 THEN work ELSE disk
  /\ owner' = None
  /\ IF at[c] = "commit" THEN Goto(c, "publish") /\ UNCHANGED answer ELSE Answer(c, "replayed")
  /\ UNCHANGED <<work, depth, queue, events, crashes>>

\* commitScope, and the end of the turn.  A replay answers what was stored.
Commit(c) ==
  /\ owner = c /\ at[c] \in {"commit", "commit-replay"}
  /\ disk' = IF depth = 1 THEN work ELSE disk
  /\ depth' = Max0(depth - 1)
  /\ owner' = None
  /\ IF at[c] = "commit" THEN Goto(c, "publish") /\ UNCHANGED answer ELSE Answer(c, "replayed")
  /\ UNCHANGED <<work, queue, events, crashes>>

\* The event goes out once the transaction is over; then the caller is told.
Publish(c) ==
  /\ at[c] = "publish"
  /\ events' = events \cup {c}
  /\ Answer(c, "applied")
  /\ UNCHANGED <<conn, turn, crashes>>

-----------------------------------------------------------------------------
(* Failure *)

\* mutate() holds a compensation once the operation has returned one.
Armed(c) == Kind[c] = "compound" /\ at[c] \in {"audit", "record", "commit"}

\* Reused reports a key that belongs to another command.  A compound create
\* undoes its own rows inside the turn when the profile fails, and may fail at it.
Reused(c) == Keyed(c) /\ Prior(c) # None /\ ~SameCommand(c, Prior(c))
Errors(c) ==
  IF at[c] = "lookup" /\ Reused(c) THEN {"conflict"}
  ELSE IF at[c] = "profile" THEN {"error", "integrity_error"}
  ELSE {"error"}

\* (mutant) the transaction is left open
FailOpen(c) ==
  /\ owner = c /\ at[c] \in InTurn
  /\ owner' = None
  /\ IF Armed(c) THEN Goto(c, "failing") /\ UNCHANGED answer ELSE Answer(c, "error")
  /\ UNCHANGED <<conn, queue, events, crashes>>

\* (mutant) the barrier is not released
FailHolding(c) ==
  /\ owner = c /\ at[c] \in InTurn
  /\ work' = disk /\ depth' = 0
  /\ Answer(c, "error")
  /\ UNCHANGED <<disk, turn, events, crashes>>

\* A statement, a check or the COMMIT fails: rollbackScope, the end of the turn.
\* A commit that fails counts the depth down twice.
Fail(c) ==
  /\ owner = c /\ at[c] \in InTurn
  /\ work' = disk
  /\ depth' = IF at[c] \in {"commit", "commit-replay"} THEN Max0(Max0(depth - 1) - 1)
              ELSE Max0(depth - 1)
  /\ owner' = None
  /\ IF Armed(c) THEN Goto(c, "failing") /\ UNCHANGED answer
     ELSE \E what \in Errors(c) : Answer(c, what)
  /\ UNCHANGED <<disk, queue, events, crashes>>

\* The two halves of the compensation each ask the barrier for a turn.
AskUndo(c) ==
  /\ at[c] \in {"failing", "undone-profile"}
  /\ Goto(c, IF at[c] = "failing" THEN "undo-profile" ELSE "undo-item")
  /\ queue' = Append(queue, c)
  /\ UNCHANGED <<conn, owner, answer, events, crashes>>

Undone(c) == [disk EXCEPT !.item[Target[c]] = None, !.version[Target[c]] = 0]

\* rollbackCreatedProfile removes the profile this command created.
UndoProfile(c) ==
  /\ MyTurn(c) /\ at[c] = "undo-profile"
  /\ queue' = Tail(queue)
  /\ disk' = IF disk.profile[Target[c]] = c
             THEN [disk EXCEPT !.profile[Target[c]] = None] ELSE disk
  /\ work' = disk'
  /\ Goto(c, "undone-profile")
  /\ UNCHANGED <<depth, owner, answer, events, crashes>>

\* rollbackCreatedItem removes the item of that id if it is at version 1; a
\* profile that refers to it stops it.
UndoItem(c) ==
  LET i == Target[c] IN
  /\ MyTurn(c) /\ at[c] = "undo-item"
  /\ queue' = Tail(queue)
  /\ disk' = IF disk.item[i] # None /\ disk.version[i] = 1 /\ disk.profile[i] = None
             THEN Undone(c) ELSE disk
  /\ work' = disk'
  /\ Answer(c, IF disk'.item[i] = None THEN "error" ELSE "integrity_error")
  /\ UNCHANGED <<depth, owner, events, crashes>>

\* The compensation itself fails.
UndoFails(c) ==
  /\ MyTurn(c) /\ at[c] \in {"undo-profile", "undo-item"}
  /\ queue' = Tail(queue)
  /\ Answer(c, "integrity_error")
  /\ UNCHANGED <<conn, owner, events, crashes>>

\* The process dies and starts again: SQLite keeps what was committed.
Crash ==
  /\ crashes < MaxCrashes
  /\ crashes' = crashes + 1
  /\ work' = disk /\ depth' = 0
  /\ queue' = <<>> /\ owner' = None
  /\ at' = [c \in Commands |-> IF at[c] \in {"new", "answered"} THEN at[c] ELSE "lost"]
  /\ UNCHANGED <<disk, answer, events>>

-----------------------------------------------------------------------------
Progress(c) ==
  \/ Begin(c) \/ BeginFails(c)
  \/ Lookup(c) \/ Write(c) \/ WriteProfile(c) \/ Audit(c) \/ Record(c)
  \/ Commit(c) \/ Publish(c)
  \/ Fail(c) \/ AskUndo(c) \/ UndoProfile(c) \/ UndoItem(c) \/ UndoFails(c)

Next == Crash \/ \E c \in Commands : Arrive(c) \/ Progress(c)

\* Statements return or fail, and the event loop runs what is ready.
Spec == Init /\ [][Next]_vars /\ \A c \in Commands : WF_vars(Progress(c))

-----------------------------------------------------------------------------
(* Properties *)

Rows == [ item : [Ids -> Commands \cup {None}], profile : [Ids -> Commands \cup {None}],
          version : [Ids -> Nat], audit : SUBSET Commands,
          record : [Keys -> Commands \cup {None}] ]

TypeOK ==
  /\ disk \in Rows /\ work \in Rows
  /\ depth \in {0, 1}
  /\ queue \in Seq(Commands)
  /\ owner \in Commands \cup {None}
  /\ at \in [Commands -> Stages]
  /\ answer \in [Commands -> Answers]
  /\ events \subseteq Commands
  /\ crashes \in 0..MaxCrashes

\* Between turns no transaction is open and the connection sees what is on
\* disk, however the last turn ended: nothing leaks from one command into the
\* next (sqlite.ts:75-106).
QuietConnection == owner = None => depth = 0 /\ work = disk

\* A key has at most one effect, through failures, retries, crashes and reuse
\* for another command (service.ts:3020-3039).
OneEffectPerKey ==
  \A c, d \in disk.audit : Keyed(c) /\ KeyOf[c] = KeyOf[d] => c = d

\* What callers and subscribers are told is durable: applied and published
\* commands are in the database, a replay answers for a command that is, and a
\* command reported as failed left nothing (service.ts:3069-3088).
ToldIsTrue ==
  /\ events \subseteq disk.audit
  /\ \A c \in Commands :
       /\ answer[c] = "applied" => c \in disk.audit
       /\ answer[c] = "replayed" =>
            \E d \in disk.audit :
              KeyOf[d] = KeyOf[c] /\ SameCommand(c, d) /\ disk.item[Target[c]] # None
       /\ answer[c] \in {"conflict", "error", "integrity_error"} => c \notin disk.audit

\* The audit trail explains the state: every version of an item is one audited
\* command on it (packages/runtime/README.md:24-25 "audit/idempotency records are
\* atomic together").
AuditExplainsVersions ==
  \A i \in Ids : disk.version[i] = Cardinality({c \in disk.audit : Target[c] = i})

\* Commands are atomic for whoever reads the database between turns.
CommandsAreAtomic == AC!Spec

\* A committed item is never overwritten, and it disappears in one way only: the
\* compensation of a compound create that did not commit finds it under the id
\* that command had chosen, a plain create at its first version.  An item created
\* with a profile, or updated since, stays (inventory-adapter.ts:146-165).
ItemsGoOnlyUndone ==
  [][\A i \in Ids : disk.item[i] # None /\ disk'.item[i] # disk.item[i] =>
       /\ disk'.item[i] = None
       /\ Kind[disk.item[i]] = "create" /\ disk.version[i] = 1
       /\ \E c \in Commands :
            Kind[c] = "compound" /\ Target[c] = i /\ UndoItem(c) /\ c \notin disk.audit]_vars

\* Every request is answered, whatever fails, unless the process dies first.
EveryRequestIsAnswered ==
  \A c \in Commands : (at[c] = "queued") ~> (at[c] \in {"answered", "lost"})
=============================================================================
