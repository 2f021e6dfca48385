--------------------------- MODULE AtomicCommands ---------------------------
(***************************************************************************)
(* What an audited command promises its callers: either all of its rows    *)
(* appear in the database together, its change, its audit record and its   *)
(* idempotency record, or none does; a key is used up by the first command *)
(* that carries it; and nothing that was written is taken back.  How the   *)
(* runtime keeps the promise is module Transactions.                       *)
(***************************************************************************)
EXTENDS Naturals

CONSTANTS Commands, Ids, Keys, NoKey, None,
  KeyOf,            \* the <<actor, key>> a request carries, or NoKey
  Kind,             \* "create", "compound" (item and profile) or "update"
  Target            \* the item it is about

VARIABLE db         \* the committed contents of the database

EmptyDb ==
  [ item    |-> [i \in Ids |-> None],     \* which command created the row
    profile |-> [i \in Ids |-> None],
    version |-> [i \in Ids |-> 0],
    audit   |-> {},                       \* the commands with an audit record
    record  |-> [k \in Keys |-> None] ]   \* the command that used each key

FreeKey(c) == KeyOf[c] = NoKey \/ db.record[KeyOf[c]] = None

\* The rows of command c, all at once.
After(c) ==
  [ item    |-> IF Kind[c] = "update" THEN db.item ELSE [db.item EXCEPT ![Target[c]] = c],
    profile |-> IF Kind[c] = "compound" THEN [db.profile EXCEPT ![Target[c]] = c] ELSE db.profile,
    version |-> [db.version EXCEPT ![Target[c]] = @ + 1],
    audit   |-> db.audit \cup {c},
    record  |-> IF KeyOf[c] = NoKey THEN db.record ELSE [db.record EXCEPT ![KeyOf[c]] = c] ]

Execute(c) ==
  /\ c \notin db.audit
  /\ FreeKey(c)
  /\ (db.item[Target[c]] # None) <=> (Kind[c] = "update")
  /\ db' = After(c)

Init == db = EmptyDb
Next == \E c \in Commands : Execute(c)
Spec == Init /\ [][Next]_db
=============================================================================
