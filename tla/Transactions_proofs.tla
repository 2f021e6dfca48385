------------------------ MODULE Transactions_proofs ------------------------
(***************************************************************************)
(* Theorems about module Transactions, for any commands, items and keys.   *)
(* The inductive invariant says what the connection sees at every stage of *)
(* the command whose turn it is, relative to what is on disk; the rest     *)
(* follows because a commit writes exactly that.                           *)
(***************************************************************************)
EXTENDS Transactions, FiniteSetTheorems, TLAPS

Writing == {"profile", "audit", "record", "commit"}
Undoing == {"failing", "undo-profile", "undone-profile", "undo-item"}
Over == {"publish", "answered", "lost"}

\* Whose turn it is, and what that means for the connection.
TurnInv ==
  /\ \A c \in Commands : at[c] \in InTurn <=> owner = c
  /\ owner = None => depth = 0 /\ work = disk
  /\ owner # None => depth = 1

\* What the connection sees at each stage of the command in its turn.
Replaying(c) == Keyed(c) /\ Prior(c) # None /\ SameCommand(c, Prior(c))
Stage(c) ==
  /\ at[c] \in {"lookup", "write", "commit-replay"} => work = disk
  /\ at[c] = "commit-replay" => Replaying(c)
  /\ at[c] \in Writing \cup {"write"} => AC!FreeKey(c)
  /\ at[c] \in Writing =>
       /\ (disk.item[Target[c]] # None) <=> (Kind[c] = "update")
       /\ work.version = [disk.version EXCEPT ![Target[c]] = @ + 1]
       /\ work.item = IF Kind[c] = "update" THEN disk.item
                      ELSE [disk.item EXCEPT ![Target[c]] = c]
  /\ at[c] = "profile" => Kind[c] = "compound" /\ work.profile = disk.profile
  /\ at[c] \in Writing \ {"profile"} =>
       work.profile = IF Kind[c] = "compound" THEN [disk.profile EXCEPT ![Target[c]] = c]
                      ELSE disk.profile
  /\ at[c] \in {"profile", "audit"} => work.audit = disk.audit
  /\ at[c] \in {"record", "commit"} => work.audit = disk.audit \cup {c}
  /\ at[c] \in Writing \ {"commit"} => work.record = disk.record
  /\ at[c] = "commit" =>
       work.record = IF Keyed(c) THEN [disk.record EXCEPT ![KeyOf[c]] = c] ELSE disk.record
StageInv == \A c \in Commands : Stage(c)

\* Which commands are on disk, and what their callers were told.
AuditInv ==
  /\ \A c \in disk.audit : at[c] \in Over
  /\ \A c \in Commands : at[c] = "publish" => c \in disk.audit
  /\ \A c \in Commands : answer[c] # "none" => at[c] = "answered"
  /\ \A c \in Commands : answer[c] = "applied" => c \in disk.audit
  /\ \A c \in Commands :
       answer[c] \in {"conflict", "error", "integrity_error"} => c \notin disk.audit
  /\ \A c \in Commands : at[c] \in Undoing => Kind[c] = "compound"
  /\ events \subseteq disk.audit

\* A stored answer belongs to the command on disk that carried the key.
KeyInv ==
  /\ \A c \in disk.audit : Keyed(c) => disk.record[KeyOf[c]] = c
  /\ \A k \in Keys : disk.record[k] # None =>
       disk.record[k] \in disk.audit /\ KeyOf[disk.record[k]] = k

Inv == TypeOK /\ TurnInv /\ StageInv /\ AuditInv /\ KeyInv

-----------------------------------------------------------------------------
\* The empty database has the type of a database.
LEMMA EmptyIsRows == AC!EmptyDb \in Rows
BY DEF AC!EmptyDb, Rows

\* The type invariant, the turn and the stages hold in the initial state.
LEMMA InitInv == Init => Inv
<1> SUFFICES ASSUME Init PROVE Inv OBVIOUS
<1>1. TypeOK
  BY EmptyIsRows, TransactionsAssumption
  DEF Init, TypeOK, Stages, Answers, InTurn, Waiting
<1>2. TurnInv /\ StageInv
  BY TransactionsAssumption
  DEF Init, TurnInv, StageInv, Stage, InTurn, Writing
<1>3. AuditInv /\ KeyInv
  BY DEF Init, AuditInv, KeyInv, AC!EmptyDb, Over, Undoing
<1> QED BY <1>1, <1>2, <1>3 DEF Inv

-----------------------------------------------------------------------------
(* One step *)

\* The waiting queue stays a sequence of commands when its head leaves.
LEMMA QueueType ==
  ASSUME NEW q \in Seq(Commands), q # <<>>
  PROVE  Head(q) \in Commands /\ Tail(q) \in Seq(Commands)
OBVIOUS

\* What the statements of a command make of the rows the connection sees.
LEMMA WriteRows ==
  ASSUME work \in Rows, NEW c \in Commands, Write(c)
  PROVE  /\ work' \in Rows
         /\ work'.version = [work.version EXCEPT ![Target[c]] = @ + 1]
         /\ work'.item = IF Kind[c] = "update" THEN work.item
                         ELSE [work.item EXCEPT ![Target[c]] = c]
         /\ work'.profile = work.profile
         /\ work'.audit = work.audit
         /\ work'.record = work.record
<1> DEFINE i == Target[c]
<1>1. i \in Ids
  BY TransactionsAssumption
<1>2. work' = [work EXCEPT !.version[i] = @ + 1,
                          !.item[i] = IF Kind[c] = "update" THEN @ ELSE c]
  BY DEF Write
<1> HIDE DEF i
<1>3. /\ work'.version = [work.version EXCEPT ![i] = @ + 1]
      /\ work'.item = [work.item EXCEPT ![i] = IF Kind[c] = "update" THEN @ ELSE c]
      /\ work'.profile = work.profile /\ work'.audit = work.audit /\ work'.record = work.record
      /\ work' = [item |-> work'.item, profile |-> work'.profile, version |-> work'.version,
                  audit |-> work'.audit, record |-> work'.record]
  BY <1>2 DEF Rows
<1>4. work'.version \in [Ids -> Nat] /\ work'.item \in [Ids -> Commands \cup {None}]
  BY <1>1, <1>3 DEF Rows
<1>5. Kind[c] = "update" => work'.item = work.item
  BY <1>1, <1>3 DEF Rows
<1>6. work' \in Rows
  BY <1>3, <1>4 DEF Rows
<1> QED BY <1>1, <1>3, <1>5, <1>6 DEF i

\* Types are preserved.
LEMMA TypeStep == Inv /\ [Next]_vars => TypeOK'
<1> SUFFICES ASSUME Inv, [Next]_vars PROVE TypeOK'
  OBVIOUS
<1> USE TransactionsAssumption DEF Inv
<1>1. ASSUME NEW c \in Commands, Arrive(c) \/ Progress(c) PROVE TypeOK'
  <2>1. CASE Arrive(c)
    BY <2>1 DEF Arrive, TypeOK, Rows, Stages, Answers, Waiting, InTurn, conn, turn, Goto, Answer, Max0
  <2>2. CASE Begin(c)
    BY QueueType, <2>2 DEF Begin, MyTurn, TurnInv, TypeOK, Rows, Stages, Answers, Waiting, InTurn, conn, turn, Goto, Answer, Max0
  <2>3. CASE BeginFails(c)
    BY QueueType, <2>3 DEF BeginFails, MyTurn, TypeOK, Rows, Stages, Answers, Waiting, InTurn, conn, turn, Goto, Answer, Max0
  <2>4. CASE Lookup(c)
    BY <2>4 DEF Lookup, TypeOK, Rows, Stages, Answers, Waiting, InTurn, conn, turn, Goto, Answer, Max0
  <2>5. CASE Write(c)
    BY WriteRows, <2>5 DEF Write, TypeOK, Stages, Answers, Waiting, InTurn, conn, turn, Goto, Answer, Max0
  <2>6. CASE WriteProfile(c)
    BY <2>6 DEF WriteProfile, TypeOK, Rows, Stages, Answers, Waiting, InTurn, conn, turn, Goto, Answer, Max0
  <2>7. CASE Audit(c)
    BY <2>7 DEF Audit, TypeOK, Rows, Stages, Answers, Waiting, InTurn, conn, turn, Goto, Answer, Max0
  <2>8. CASE Record(c)
    BY <2>8 DEF Record, TypeOK, Rows, Stages, Answers, Waiting, InTurn, conn, turn, Goto, Answer, Max0
  <2>9. CASE Commit(c)
    <3>1. at' \in [Commands -> Stages] /\ answer' \in [Commands -> Answers]
      BY <2>9 DEF Commit, TypeOK, Stages, Answers, InTurn, Goto, Answer
    <3> QED BY <2>9, <3>1 DEF Commit, TypeOK, Max0
  <2>10. CASE Publish(c)
    BY <2>10 DEF Publish, TypeOK, Rows, Stages, Answers, Waiting, InTurn, conn, turn, Goto, Answer, Max0
  <2>11. CASE Fail(c)
    <3>1. at' \in [Commands -> Stages] /\ answer' \in [Commands -> Answers]
      BY <2>11 DEF Fail, Errors, TypeOK, Stages, Answers, InTurn, Goto, Answer
    <3> QED BY <2>11, <3>1 DEF Fail, TypeOK, Max0
  <2>12. CASE AskUndo(c)
    BY <2>12 DEF AskUndo, TypeOK, Rows, Stages, Answers, Waiting, InTurn, conn, turn, Goto, Answer, Max0
  <2>13. CASE UndoProfile(c)
    BY QueueType, <2>13 DEF UndoProfile, MyTurn, TypeOK, Rows, Stages, Answers, Waiting, InTurn, conn, turn, Goto, Answer, Max0
  <2>14. CASE UndoItem(c)
    BY QueueType, <2>14 DEF UndoItem, MyTurn, Undone, TypeOK, Rows, Stages, Answers, Waiting, InTurn, conn, turn, Goto, Answer, Max0
  <2>15. CASE UndoFails(c)
    BY QueueType, <2>15 DEF UndoFails, MyTurn, TypeOK, Rows, Stages, Answers, Waiting, InTurn, conn, turn, Goto, Answer, Max0
  <2> QED BY <1>1, <2>1, <2>2, <2>3, <2>4, <2>5, <2>6, <2>7, <2>8, <2>9, <2>10, <2>11, <2>12, <2>13, <2>14, <2>15 DEF Progress
<1>2. CASE Crash
  BY <1>2 DEF Crash, TypeOK, Rows, Stages, Answers, Waiting, InTurn, conn, turn, Goto, Answer, Max0
<1>3. CASE UNCHANGED vars
  BY <1>3 DEF vars, TypeOK, Rows, Stages, Answers, Waiting, InTurn, conn, turn, Goto, Answer, Max0
<1> QED BY <1>1, <1>2, <1>3 DEF Next

-----------------------------------------------------------------------------
(* Turns, stages, keys *)

\* One command is in its turn at a time, and an idle connection is clean.
LEMMA TurnStep == Inv /\ [Next]_vars => TurnInv'
<1> SUFFICES ASSUME Inv, [Next]_vars PROVE TurnInv'
  OBVIOUS
<1> USE TransactionsAssumption DEF Inv
<1>1. ASSUME NEW c \in Commands, Arrive(c) \/ Progress(c) PROVE TurnInv'
  <2>1. CASE Arrive(c)
    BY <2>1 DEF Arrive, TurnInv, TypeOK, InTurn, Max0, conn, turn, Goto, Answer
  <2>2. CASE Begin(c)
    BY <2>2 DEF Begin, MyTurn, TurnInv, TypeOK, InTurn, Max0, conn, turn, Goto, Answer
  <2>3. CASE BeginFails(c)
    BY <2>3 DEF BeginFails, MyTurn, TurnInv, TypeOK, InTurn, Max0, conn, turn, Goto, Answer
  <2>4. CASE Lookup(c)
    BY <2>4 DEF Lookup, TurnInv, TypeOK, InTurn, Max0, conn, turn, Goto, Answer
  <2>5. CASE Write(c)
    BY <2>5 DEF Write, TurnInv, TypeOK, InTurn, Max0, conn, turn, Goto, Answer
  <2>6. CASE WriteProfile(c)
    BY <2>6 DEF WriteProfile, TurnInv, TypeOK, InTurn, Max0, conn, turn, Goto, Answer
  <2>7. CASE Audit(c)
    BY <2>7 DEF Audit, TurnInv, TypeOK, InTurn, Max0, conn, turn, Goto, Answer
  <2>8. CASE Record(c)
    BY <2>8 DEF Record, TurnInv, TypeOK, InTurn, Max0, conn, turn, Goto, Answer
  <2>9. CASE Commit(c)
    BY <2>9 DEF Commit, TurnInv, TypeOK, InTurn, Max0, conn, turn, Goto, Answer
  <2>10. CASE Publish(c)
    BY <2>10 DEF Publish, TurnInv, TypeOK, InTurn, Max0, conn, turn, Goto, Answer
  <2>11. CASE Fail(c)
    BY <2>11 DEF Fail, Errors, TurnInv, TypeOK, InTurn, Max0, conn, turn, Goto, Answer
  <2>12. CASE AskUndo(c)
    BY <2>12 DEF AskUndo, TurnInv, TypeOK, InTurn, Max0, conn, turn, Goto, Answer
  <2>13. CASE UndoProfile(c)
    BY <2>13 DEF UndoProfile, MyTurn, TurnInv, TypeOK, InTurn, Max0, conn, turn, Goto, Answer
  <2>14. CASE UndoItem(c)
    BY <2>14 DEF UndoItem, MyTurn, TurnInv, TypeOK, InTurn, Max0, conn, turn, Goto, Answer
  <2>15. CASE UndoFails(c)
    BY <2>15 DEF UndoFails, MyTurn, TurnInv, TypeOK, InTurn, Max0, conn, turn, Goto, Answer
  <2> QED BY <1>1, <2>1, <2>2, <2>3, <2>4, <2>5, <2>6, <2>7, <2>8, <2>9, <2>10, <2>11, <2>12, <2>13, <2>14, <2>15 DEF Progress
<1>2. CASE Crash
  BY <1>2 DEF Crash, TurnInv, TypeOK, InTurn, Max0, conn, turn, Goto, Answer
<1>3. CASE UNCHANGED vars
  BY <1>3 DEF vars, TurnInv, TypeOK, InTurn, Max0, conn, turn, Goto, Answer
<1> QED BY <1>1, <1>2, <1>3 DEF Next

\* A compensation touches neither the audit trail nor the keys.
LEMMA UndoRows ==
  ASSUME TypeOK, NEW c \in Commands, UndoItem(c) \/ UndoProfile(c)
  PROVE  disk'.audit = disk.audit /\ disk'.record = disk.record
<1>1. CASE UndoProfile(c)
  BY <1>1 DEF UndoProfile, TypeOK, Rows
<1>2. CASE UndoItem(c)
  <2>1. disk' = disk \/ disk' = Undone(c)
    BY <1>2 DEF UndoItem
  <2>2. Undone(c).audit = disk.audit /\ Undone(c).record = disk.record
    BY DEF Undone, TypeOK, Rows
  <2> QED BY <2>1, <2>2
<1> QED BY <1>1, <1>2

\* A commit puts on disk what the connection sees.
LEMMA CommitRows ==
  ASSUME Inv, NEW c \in Commands, Commit(c)
  PROVE  /\ disk' = work
         /\ at[c] = "commit" =>
              /\ disk'.audit = disk.audit \cup {c}
              /\ disk'.record = IF Keyed(c) THEN [disk.record EXCEPT ![KeyOf[c]] = c]
                                ELSE disk.record
              /\ AC!FreeKey(c) /\ at'[c] = "publish" /\ answer' = answer
         /\ at[c] = "commit-replay" =>
              disk' = disk /\ Replaying(c) /\ at'[c] = "answered" /\ answer'[c] = "replayed"
<1> USE TransactionsAssumption DEF Inv
<1>1. depth = 1
  BY DEF Commit, TurnInv
<1>2. disk' = work
  BY <1>1 DEF Commit
<1>3. at[c] = "commit" => disk'.audit = disk.audit \cup {c} /\ AC!FreeKey(c)
        /\ disk'.record = IF Keyed(c) THEN [disk.record EXCEPT ![KeyOf[c]] = c] ELSE disk.record
  BY <1>2 DEF StageInv, Stage, Writing
<1>4. at[c] = "commit-replay" => disk' = disk /\ Replaying(c)
  BY <1>2 DEF StageInv, Stage
<1> QED
  BY <1>2, <1>3, <1>4 DEF Commit, Goto, Answer, TypeOK

\* What is on disk, and what was said of it.
LEMMA AuditStep == Inv /\ [Next]_vars => AuditInv'
<1> SUFFICES ASSUME Inv, [Next]_vars PROVE AuditInv'
  OBVIOUS
<1> USE TransactionsAssumption DEF Inv
<1>1. ASSUME NEW c \in Commands, Arrive(c) \/ Progress(c) PROVE AuditInv'
  <2>1. CASE Arrive(c)
    BY <2>1 DEF Arrive, AuditInv, TurnInv, TypeOK, InTurn, Over, Undoing, conn, turn, Goto, Answer
  <2>2. CASE Begin(c)
    BY <2>2 DEF Begin, MyTurn, AuditInv, TurnInv, TypeOK, InTurn, Over, Undoing, conn, turn, Goto, Answer
  <2>3. CASE BeginFails(c)
    BY <2>3 DEF BeginFails, MyTurn, AuditInv, TurnInv, TypeOK, InTurn, Over, Undoing, conn, turn, Goto, Answer
  <2>4. CASE Lookup(c)
    <3>1. \A d \in Commands : d # c => at'[d] = at[d]
      BY <2>4 DEF Lookup, TypeOK, Goto
    <3>2. at[c] = "lookup" /\ at'[c] \in {"write", "commit-replay"}
      BY <2>4 DEF Lookup, TypeOK, Goto
    <3>3. UNCHANGED <<disk, answer, events>>
      BY <2>4 DEF Lookup, conn
    <3> QED BY <3>1, <3>2, <3>3 DEF AuditInv, Over, Undoing, TypeOK, Rows
  <2>5. CASE Write(c)
    BY <2>5 DEF Write, AuditInv, TurnInv, TypeOK, InTurn, Over, Undoing, conn, turn, Goto, Answer
  <2>6. CASE WriteProfile(c)
    BY <2>6 DEF WriteProfile, AuditInv, TurnInv, TypeOK, InTurn, Over, Undoing, conn, turn, Goto, Answer
  <2>7. CASE Audit(c)
    BY <2>7 DEF Audit, AuditInv, TurnInv, TypeOK, InTurn, Over, Undoing, conn, turn, Goto, Answer
  <2>8. CASE Record(c)
    BY <2>8 DEF Record, AuditInv, TurnInv, TypeOK, InTurn, Over, Undoing, conn, turn, Goto, Answer
  <2>9. CASE Commit(c)
    <3>0. /\ at[c] = "commit" =>
              /\ disk'.audit = disk.audit \cup {c}
              /\ disk'.record = IF Keyed(c) THEN [disk.record EXCEPT ![KeyOf[c]] = c]
                                ELSE disk.record
              /\ AC!FreeKey(c) /\ at'[c] = "publish" /\ answer' = answer
          /\ at[c] = "commit-replay" =>
              disk' = disk /\ Replaying(c) /\ at'[c] = "answered" /\ answer'[c] = "replayed"
      BY <2>9, CommitRows
    <3>1. \A d \in Commands : d # c => at'[d] = at[d] /\ answer'[d] = answer[d]
      BY <2>9 DEF Commit, TypeOK, Goto, Answer
    <3>2. at[c] \in {"commit", "commit-replay"} /\ answer[c] = "none" /\ c \notin disk.audit
      BY <2>9 DEF Commit, AuditInv, Over
    <3>3. events' = events
      BY <2>9 DEF Commit
    <3>4. CASE at[c] = "commit"
      BY <3>0, <3>1, <3>2, <3>3, <3>4 DEF AuditInv, Over, Undoing, TypeOK, Rows
    <3>5. CASE at[c] = "commit-replay"
      BY <3>0, <3>1, <3>2, <3>3, <3>5 DEF AuditInv, Over, Undoing, TypeOK, Rows
    <3> QED BY <3>2, <3>4, <3>5
  <2>10. CASE Publish(c)
    BY <2>10 DEF Publish, AuditInv, TurnInv, TypeOK, InTurn, Over, Undoing, conn, turn, Goto, Answer
  <2>11. CASE Fail(c)
    <3>1. \A d \in Commands : d # c => at'[d] = at[d] /\ answer'[d] = answer[d]
      BY <2>11 DEF Fail, TypeOK, Goto, Answer
    <3>2. at[c] \in InTurn /\ answer[c] = "none" /\ c \notin disk.audit
      BY <2>11 DEF Fail, AuditInv, Over, InTurn
    <3>3. UNCHANGED <<disk, events>>
      BY <2>11 DEF Fail
    <3>4. \/ at'[c] = "failing" /\ answer'[c] = "none" /\ Kind[c] = "compound"
          \/ at'[c] = "answered" /\ answer'[c] \in {"conflict", "error", "integrity_error"}
      BY <2>11, <3>2 DEF Fail, Errors, Armed, TypeOK, Goto, Answer
    <3> QED BY <3>1, <3>2, <3>3, <3>4 DEF AuditInv, Over, Undoing, TypeOK, Rows
  <2>12. CASE AskUndo(c)
    BY <2>12 DEF AskUndo, AuditInv, TurnInv, TypeOK, InTurn, Over, Undoing, conn, turn, Goto, Answer
  <2>13. CASE UndoProfile(c)
    BY <2>13 DEF UndoProfile, MyTurn, AuditInv, TurnInv, TypeOK, InTurn, Over, Undoing, conn, turn, Goto, Answer
  <2>14. CASE UndoItem(c)
    <3>1. \A d \in Commands : d # c => at'[d] = at[d] /\ answer'[d] = answer[d]
      BY <2>14 DEF UndoItem, TypeOK, Goto, Answer
    <3>2. at[c] = "undo-item" /\ c \notin disk.audit
      BY <2>14 DEF UndoItem, AuditInv, Over
    <3>3. disk'.audit = disk.audit /\ events' = events
      BY <2>14, UndoRows DEF UndoItem
    <3>4. at'[c] = "answered" /\ answer'[c] \in {"error", "integrity_error"}
      BY <2>14 DEF UndoItem, TypeOK, Goto, Answer
    <3> QED BY <3>1, <3>2, <3>3, <3>4 DEF AuditInv, Over, Undoing, TypeOK, Rows
  <2>15. CASE UndoFails(c)
    BY <2>15 DEF UndoFails, MyTurn, AuditInv, TurnInv, TypeOK, InTurn, Over, Undoing, conn, turn, Goto, Answer
  <2> QED BY <1>1, <2>1, <2>2, <2>3, <2>4, <2>5, <2>6, <2>7, <2>8, <2>9, <2>10, <2>11, <2>12, <2>13, <2>14, <2>15 DEF Progress
<1>2. CASE Crash
  <2>1. \A d \in Commands : at'[d] = at[d] \/ (at'[d] = "lost" /\ at[d] # "answered")
    BY <1>2 DEF Crash
  <2>2. UNCHANGED <<disk, answer, events>>
    BY <1>2 DEF Crash
  <2> QED BY <2>1, <2>2 DEF AuditInv, Over, Undoing, TypeOK, Rows
<1>3. CASE UNCHANGED vars
  BY <1>3 DEF vars, AuditInv, TurnInv, TypeOK, InTurn, Over, Undoing, conn, turn, Goto, Answer
<1> QED BY <1>1, <1>2, <1>3 DEF Next

\* Keys on disk belong to commands on disk.
LEMMA KeyStep == Inv /\ [Next]_vars => KeyInv'
<1> SUFFICES ASSUME Inv, [Next]_vars PROVE KeyInv'
  OBVIOUS
<1> USE TransactionsAssumption DEF Inv
<1>1. ASSUME NEW c \in Commands, Arrive(c) \/ Progress(c) PROVE KeyInv'
  <2>1. CASE Arrive(c)
    BY <2>1 DEF Arrive, KeyInv, TypeOK, Keyed, conn, turn, Goto, Answer
  <2>2. CASE Begin(c)
    BY <2>2 DEF Begin, MyTurn, KeyInv, TypeOK, Keyed, conn, turn, Goto, Answer
  <2>3. CASE BeginFails(c)
    BY <2>3 DEF BeginFails, MyTurn, KeyInv, TypeOK, Keyed, conn, turn, Goto, Answer
  <2>4. CASE Lookup(c)
    BY <2>4 DEF Lookup, KeyInv, TypeOK, Keyed, conn, turn, Goto, Answer
  <2>5. CASE Write(c)
    BY <2>5 DEF Write, KeyInv, TypeOK, Keyed, conn, turn, Goto, Answer
  <2>6. CASE WriteProfile(c)
    BY <2>6 DEF WriteProfile, KeyInv, TypeOK, Keyed, conn, turn, Goto, Answer
  <2>7. CASE Audit(c)
    BY <2>7 DEF Audit, KeyInv, TypeOK, Keyed, conn, turn, Goto, Answer
  <2>8. CASE Record(c)
    BY <2>8 DEF Record, KeyInv, TypeOK, Keyed, conn, turn, Goto, Answer
  <2>9. CASE Commit(c)
    <3>0. /\ at[c] = "commit" =>
              /\ disk'.audit = disk.audit \cup {c}
              /\ disk'.record = IF Keyed(c) THEN [disk.record EXCEPT ![KeyOf[c]] = c]
                                ELSE disk.record
              /\ AC!FreeKey(c) /\ at'[c] = "publish" /\ answer' = answer
          /\ at[c] = "commit-replay" =>
              disk' = disk /\ Replaying(c) /\ at'[c] = "answered" /\ answer'[c] = "replayed"
      BY <2>9, CommitRows
    <3>1. CASE at[c] = "commit-replay"
      BY <3>0, <3>1 DEF KeyInv
    <3>2. CASE at[c] = "commit"
      <4>1. disk.record \in [Keys -> Commands \cup {None}] /\ disk.audit \subseteq Commands
        BY DEF TypeOK, Rows
      <4>2. Keyed(c) => KeyOf[c] \in Keys /\ disk.record[KeyOf[c]] = None
        BY <3>0, <3>2 DEF AC!FreeKey, Keyed
      <4>3. CASE Keyed(c)
        BY <3>0, <3>2, <4>1, <4>2, <4>3 DEF KeyInv, Keyed
      <4>4. CASE ~Keyed(c)
        BY <3>0, <3>2, <4>1, <4>4 DEF KeyInv, Keyed
      <4> QED BY <4>3, <4>4
    <3> QED BY <2>9, <3>1, <3>2 DEF Commit
  <2>10. CASE Publish(c)
    BY <2>10 DEF Publish, KeyInv, TypeOK, Keyed, conn, turn, Goto, Answer
  <2>11. CASE Fail(c)
    BY <2>11 DEF Fail, Errors, KeyInv, TypeOK, Keyed, conn, turn, Goto, Answer
  <2>12. CASE AskUndo(c)
    BY <2>12 DEF AskUndo, KeyInv, TypeOK, Keyed, conn, turn, Goto, Answer
  <2>13. CASE UndoProfile(c)
    BY <2>13 DEF UndoProfile, MyTurn, KeyInv, TypeOK, Keyed, conn, turn, Goto, Answer
  <2>14. CASE UndoItem(c)
    BY <2>14, UndoRows DEF KeyInv
  <2>15. CASE UndoFails(c)
    BY <2>15 DEF UndoFails, MyTurn, KeyInv, TypeOK, Keyed, conn, turn, Goto, Answer
  <2> QED BY <1>1, <2>1, <2>2, <2>3, <2>4, <2>5, <2>6, <2>7, <2>8, <2>9, <2>10, <2>11, <2>12, <2>13, <2>14, <2>15 DEF Progress
<1>2. CASE Crash
  BY <1>2 DEF Crash, KeyInv, TypeOK, Keyed, conn, turn, Goto, Answer
<1>3. CASE UNCHANGED vars
  BY <1>3 DEF vars, KeyInv, TypeOK, Keyed, conn, turn, Goto, Answer
<1> QED BY <1>1, <1>2, <1>3 DEF Next

\* A command that is not in its turn has no stage to speak of.
LEMMA NoStage ==
  ASSUME NEW c \in Commands, at[c] \notin InTurn
  PROVE  Stage(c)
BY DEF Stage, InTurn, Writing

\* Every stage of the turn leaves the connection with what the next expects.
LEMMA StageStep == Inv /\ [Next]_vars => StageInv'
<1> SUFFICES ASSUME Inv, [Next]_vars PROVE StageInv'
  OBVIOUS
<1> USE TransactionsAssumption DEF Inv
<1>1. ASSUME TurnInv', \A d \in Commands : at'[d] \notin InTurn PROVE StageInv'
  BY <1>1 DEF StageInv, Stage, InTurn, Writing
<1>2. TurnInv'
  BY TurnStep
<1>3. ASSUME NEW c \in Commands, owner = c, owner' = c, Stage(c)' PROVE StageInv'
  BY <1>2, <1>3 DEF StageInv, Stage, TurnInv, InTurn, Writing
<1>4. ASSUME UNCHANGED <<disk, work, owner>>, NEW c \in Commands,
             \A d \in Commands : d # c => at'[d] = at[d], at'[c] \notin InTurn
      PROVE StageInv'
  BY <1>4 DEF StageInv, Stage, InTurn, Writing, Replaying, Prior, AC!FreeKey
<1>5. ASSUME NEW c \in Commands, Arrive(c) \/ Progress(c) PROVE StageInv'
  <2> USE <1>1, <1>2, <1>3, <1>4
  <2>1. CASE Arrive(c)
    <3>1. UNCHANGED <<disk, work, owner>> /\ at'[c] \notin InTurn
      BY <2>1 DEF Arrive, conn, turn, Goto, Answer, TypeOK, InTurn
    <3>2. \A d \in Commands : d # c => at'[d] = at[d]
      BY <2>1 DEF Arrive, Goto, Answer, TypeOK
    <3> QED BY <3>1, <3>2
  <2>2. CASE Begin(c)
    <3>1. owner = None /\ owner' = c /\ at'[c] = "lookup" /\ disk' = disk /\ work' = disk
      BY <2>2 DEF Begin, MyTurn, TurnInv, TypeOK, Goto
    <3> QED BY <3>1, <1>2 DEF StageInv, Stage, TurnInv, InTurn, Writing
  <2>3. CASE BeginFails(c)
    <3>1. UNCHANGED <<disk, work, owner>> /\ at'[c] \notin InTurn
      BY <2>3 DEF BeginFails, conn, turn, Goto, Answer, TypeOK, InTurn
    <3>2. \A d \in Commands : d # c => at'[d] = at[d]
      BY <2>3 DEF BeginFails, Goto, Answer, TypeOK
    <3> QED BY <3>1, <3>2
  <2>4. CASE Lookup(c)
    <3>1. owner = c /\ owner' = c /\ at[c] = "lookup" /\ disk' = disk /\ work' = work
      BY <2>4 DEF Lookup, turn, conn
    <3>2. \/ at'[c] = "write" /\ (~Keyed(c) \/ Prior(c) = None)
          \/ at'[c] = "commit-replay" /\ Replaying(c)
      BY <2>4 DEF Lookup, Replaying, Goto, TypeOK
    <3>3. work = disk
      BY <3>1 DEF StageInv, Stage
    <3>4. Stage(c)'
      BY <3>1, <3>2, <3>3 DEF Stage, Writing, Replaying, Prior, AC!FreeKey, Keyed
    <3> QED BY <3>1, <3>4, <1>3
  <2>5. CASE Write(c)
    <3>1. owner = c /\ owner' = c
      BY <2>5 DEF Write, turn
    <3>2. disk' = disk /\ at[c] = "write" /\ at'[c] = (IF Kind[c] = "compound" THEN "profile" ELSE "audit")
      BY <2>5 DEF Write, conn, Goto, TypeOK
    <3>3. /\ work'.version = [work.version EXCEPT ![Target[c]] = @ + 1]
          /\ work'.item = IF Kind[c] = "update" THEN work.item
                          ELSE [work.item EXCEPT ![Target[c]] = c]
          /\ work'.profile = work.profile /\ work'.audit = work.audit
          /\ work'.record = work.record
          /\ (work.item[Target[c]] # None) <=> (Kind[c] = "update")
      BY WriteRows, <2>5 DEF Write, conn, TypeOK, Rows
    <3>4. Stage(c)
      BY DEF StageInv
    <3>5. Stage(c)'
      BY <3>2, <3>3, <3>4 DEF Stage, InTurn, Writing, Replaying, Prior, AC!FreeKey, Keyed, TypeOK, Rows
    <3> QED BY <3>1, <3>5, <1>3
  <2>6. CASE WriteProfile(c)
    <3>1. owner = c /\ owner' = c
      BY <2>6 DEF WriteProfile, turn
    <3>2. disk' = disk /\ at[c] = "profile" /\ at'[c] = "audit"
      BY <2>6 DEF WriteProfile, conn, Goto, TypeOK
    <3>3. /\ work'.version = work.version /\ work'.item = work.item
          /\ work'.profile = [work.profile EXCEPT ![Target[c]] = c]
          /\ work'.audit = work.audit /\ work'.record = work.record
      BY <2>6 DEF WriteProfile, conn, TypeOK, Rows
    <3>4. Stage(c)
      BY DEF StageInv
    <3>5. Stage(c)'
      BY <3>2, <3>3, <3>4 DEF Stage, InTurn, Writing, Replaying, Prior, AC!FreeKey, Keyed, TypeOK, Rows
    <3> QED BY <3>1, <3>5, <1>3
  <2>7. CASE Audit(c)
    <3>1. owner = c /\ owner' = c
      BY <2>7 DEF Audit, turn
    <3>2. disk' = disk /\ at[c] = "audit" /\ at'[c] = "record"
      BY <2>7 DEF Audit, conn, Goto, TypeOK
    <3>3. /\ work'.version = work.version /\ work'.item = work.item
          /\ work'.profile = work.profile /\ work'.record = work.record
          /\ work'.audit = work.audit \cup {c}
      BY <2>7 DEF Audit, conn, TypeOK, Rows
    <3>4. Stage(c)
      BY DEF StageInv
    <3>5. Stage(c)'
      BY <3>2, <3>3, <3>4 DEF Stage, InTurn, Writing, Replaying, Prior, AC!FreeKey, Keyed, TypeOK, Rows
    <3> QED BY <3>1, <3>5, <1>3
  <2>8. CASE Record(c)
    <3>1. owner = c /\ owner' = c
      BY <2>8 DEF Record, turn
    <3>2. disk' = disk /\ at[c] = "record" /\ at'[c] = "commit"
      BY <2>8 DEF Record, conn, Goto, TypeOK
    <3>3. /\ work'.version = work.version /\ work'.item = work.item
          /\ work'.profile = work.profile /\ work'.audit = work.audit
          /\ work'.record = IF Keyed(c) THEN [work.record EXCEPT ![KeyOf[c]] = c]
                            ELSE work.record
      BY <2>8 DEF Record, conn, TypeOK, Rows
    <3>4. Stage(c)
      BY DEF StageInv
    <3>5. Stage(c)'
      BY <3>2, <3>3, <3>4 DEF Stage, InTurn, Writing, Replaying, Prior, AC!FreeKey, Keyed, TypeOK, Rows
    <3> QED BY <3>1, <3>5, <1>3
  <2>9. CASE Commit(c)
    <3>1. owner' = None
      BY <2>9 DEF Commit, turn, MyTurn
    <3> QED BY <3>1, <1>1, <1>2 DEF TurnInv
  <2>10. CASE Publish(c)
    <3>1. UNCHANGED <<disk, work, owner>> /\ at'[c] \notin InTurn
      BY <2>10 DEF Publish, conn, turn, Goto, Answer, TypeOK, InTurn
    <3>2. \A d \in Commands : d # c => at'[d] = at[d]
      BY <2>10 DEF Publish, Goto, Answer, TypeOK
    <3> QED BY <3>1, <3>2
  <2>11. CASE Fail(c)
    <3>1. owner' = None
      BY <2>11 DEF Fail, turn, MyTurn
    <3> QED BY <3>1, <1>1, <1>2 DEF TurnInv
  <2>12. CASE AskUndo(c)
    <3>1. UNCHANGED <<disk, work, owner>> /\ at'[c] \notin InTurn
      BY <2>12 DEF AskUndo, conn, turn, Goto, Answer, TypeOK, InTurn
    <3>2. \A d \in Commands : d # c => at'[d] = at[d]
      BY <2>12 DEF AskUndo, Goto, Answer, TypeOK
    <3> QED BY <3>1, <3>2
  <2>13. CASE UndoProfile(c)
    <3>1. owner' = None
      BY <2>13 DEF UndoProfile, turn, MyTurn
    <3> QED BY <3>1, <1>1, <1>2 DEF TurnInv
  <2>14. CASE UndoItem(c)
    <3>1. owner' = None
      BY <2>14 DEF UndoItem, turn, MyTurn
    <3> QED BY <3>1, <1>1, <1>2 DEF TurnInv
  <2>15. CASE UndoFails(c)
    <3>1. owner' = None
      BY <2>15 DEF UndoFails, turn, MyTurn
    <3> QED BY <3>1, <1>1, <1>2 DEF TurnInv
  <2> QED BY <1>5, <2>1, <2>2, <2>3, <2>4, <2>5, <2>6, <2>7, <2>8, <2>9, <2>10, <2>11, <2>12, <2>13, <2>14, <2>15 DEF Progress
<1>6. CASE Crash
  BY <1>6, <1>1, <1>2 DEF Crash, TurnInv
<1>7. CASE UNCHANGED vars
  BY <1>7 DEF vars, conn, turn, StageInv, Stage, Replaying, Prior, AC!FreeKey
<1> QED BY <1>5, <1>6, <1>7 DEF Next

\* The invariant is inductive.
LEMMA InvStep == Inv /\ [Next]_vars => Inv'
BY TypeStep, TurnStep, StageStep, AuditStep, KeyStep DEF Inv

\* The inductive invariant holds throughout: what the connection sees is what
\* the command in its turn has done so far, on top of what is on disk.
THEOREM Invariance == Spec => []Inv
BY InitInv, InvStep, PTL DEF Spec

\* The database, the turns and the answers keep their types, and transactions
\* never nest deeper than one (sqlite.ts:30-106).
THEOREM TypeCorrect == Spec => []TypeOK
<1>1. Inv => TypeOK
  BY DEF Inv
<1> QED BY <1>1, Invariance, PTL

\* Between turns no transaction is open and nothing uncommitted is visible,
\* whether the last command committed or failed at any statement (sqlite.ts:75-106).
THEOREM CleanConnection == Spec => []QuietConnection
<1>1. Inv => QuietConnection
  BY DEF Inv, TurnInv, QuietConnection
<1> QED BY <1>1, Invariance, PTL

\* No two commands with one key both take effect, whatever fails or crashes in
\* between (service.ts:3020-3039).
THEOREM KeysAnswerOnce == Spec => []OneEffectPerKey
<1>1. Inv => OneEffectPerKey
  BY DEF Inv, KeyInv, OneEffectPerKey, Keyed
<1> QED BY <1>1, Invariance, PTL

-----------------------------------------------------------------------------
(* What compensations may remove *)

\* Items come from creates of their id, compound ones have their profile, and
\* profiles belong to audited commands.
RowsInv ==
  /\ \A i \in Ids : disk.item[i] # None =>
       /\ Kind[disk.item[i]] # "update" /\ Target[disk.item[i]] = i
       /\ Kind[disk.item[i]] = "compound" => disk.profile[i] # None
  /\ \A i \in Ids : disk.profile[i] # None => disk.profile[i] \in disk.audit

\* A step leaves the database as it was or commits one command entirely.
Committed == disk' = disk \/ \E c \in Commands : Commit(c) /\ at[c] = "commit" /\ AC!Execute(c)

\* The compensation of c removes an item.
Removes(c) ==
  /\ UndoItem(c) /\ disk' = Undone(c)
  /\ Kind[c] = "compound" /\ c \notin disk.audit
  /\ disk.item[Target[c]] # None /\ disk.version[Target[c]] = 1
  /\ disk.profile[Target[c]] = None

\* A commit is the abstract command, executed at once.
LEMMA CommitExecutes ==
  ASSUME Inv, NEW c \in Commands, Commit(c), at[c] = "commit"
  PROVE  AC!Execute(c)
<1> USE TransactionsAssumption DEF Inv
<1>1. disk' = work /\ AC!FreeKey(c)
  BY CommitRows
<1>2. Stage(c)
  BY DEF StageInv
<1>3. c \notin disk.audit
  BY DEF AuditInv, Over
<1>4. (disk.item[Target[c]] # None) <=> (Kind[c] = "update")
  BY <1>2 DEF Stage, Writing
<1>5. /\ work.item = IF Kind[c] = "update" THEN disk.item ELSE [disk.item EXCEPT ![Target[c]] = c]
      /\ work.profile = IF Kind[c] = "compound" THEN [disk.profile EXCEPT ![Target[c]] = c]
                        ELSE disk.profile
      /\ work.version = [disk.version EXCEPT ![Target[c]] = @ + 1]
      /\ work.audit = disk.audit \cup {c}
      /\ work.record = IF Keyed(c) THEN [disk.record EXCEPT ![KeyOf[c]] = c] ELSE disk.record
  BY <1>2 DEF Stage, Writing
<1>6. work = [item |-> work.item, profile |-> work.profile, version |-> work.version,
              audit |-> work.audit, record |-> work.record]
  BY DEF TypeOK, Rows
<1>7. work.record = IF KeyOf[c] = NoKey THEN disk.record ELSE [disk.record EXCEPT ![KeyOf[c]] = c]
  BY <1>5 DEF Keyed
<1>8. work = AC!After(c)
  BY <1>5, <1>6, <1>7 DEF AC!After
<1> QED BY <1>1, <1>3, <1>4, <1>8 DEF AC!Execute

\* A compensation belongs to a compound create that was rolled back: it finds no
\* profile of its own, and what it removes is a row without one.
LEMMA UndoMoves ==
  ASSUME Inv, RowsInv, NEW c \in Commands, UndoProfile(c) \/ UndoItem(c)
  PROVE  disk' = disk \/ Removes(c)
<1> USE TransactionsAssumption DEF Inv
<1> DEFINE i == Target[c]
<1>1. i \in Ids
  OBVIOUS
<1>2. at[c] \in Undoing
  BY DEF UndoProfile, UndoItem, Undoing
<1>3. c \notin disk.audit /\ Kind[c] = "compound"
  BY <1>2 DEF AuditInv, Undoing, Over
<1>4. CASE UndoProfile(c)
  <2>1. disk.profile[i] # c
    BY <1>1, <1>3 DEF RowsInv
  <2> QED BY <1>4, <2>1 DEF UndoProfile
<1>5. CASE UndoItem(c)
  BY <1>3, <1>5 DEF UndoItem, Removes
<1> QED BY <1>4, <1>5

\* Every step executes one abstract command, removes one item or does neither.
LEMMA DiskMoves == Inv /\ RowsInv /\ [Next]_vars => Committed \/ \E c \in Commands : Removes(c)
<1> SUFFICES ASSUME Inv, RowsInv, [Next]_vars
             PROVE  Committed \/ \E c \in Commands : Removes(c)
  OBVIOUS
<1>1. ASSUME NEW c \in Commands, Arrive(c) \/ Progress(c) PROVE Committed \/ Removes(c)
  <2>1. CASE Commit(c)
    <3>1. CASE at[c] = "commit"
      BY <2>1, <3>1, CommitExecutes DEF Committed
    <3>2. CASE at[c] = "commit-replay"
      BY <2>1, <3>2, CommitRows DEF Committed
    <3> QED BY <2>1, <3>1, <3>2 DEF Commit
  <2>2. CASE UndoProfile(c) \/ UndoItem(c)
    BY <2>2, UndoMoves DEF Committed
  <2>3. CASE \/ Arrive(c) \/ Begin(c) \/ BeginFails(c) \/ Lookup(c) \/ Write(c)
             \/ WriteProfile(c) \/ Audit(c) \/ Record(c) \/ Publish(c) \/ Fail(c)
             \/ AskUndo(c) \/ UndoFails(c)
    BY <2>3 DEF Arrive, Begin, BeginFails, Lookup, Write, WriteProfile, Audit, Record,
       Publish, Fail, AskUndo, UndoFails, conn, Committed
  <2> QED BY <1>1, <2>1, <2>2, <2>3 DEF Progress
<1>2. CASE Crash
  BY <1>2 DEF Crash, Committed
<1>3. CASE UNCHANGED vars
  BY <1>3 DEF vars, conn, Committed
<1> QED BY <1>1, <1>2, <1>3 DEF Next

\* What executing a command does to each row.
LEMMA ExecuteRows ==
  ASSUME TypeOK, NEW c \in Commands, AC!Execute(c)
  PROVE  /\ disk'.item = IF Kind[c] = "update" THEN disk.item ELSE [disk.item EXCEPT ![Target[c]] = c]
         /\ disk'.profile = IF Kind[c] = "compound" THEN [disk.profile EXCEPT ![Target[c]] = c]
                            ELSE disk.profile
         /\ disk'.version = [disk.version EXCEPT ![Target[c]] = @ + 1]
         /\ disk'.audit = disk.audit \cup {c}
         /\ c \notin disk.audit
         /\ (disk.item[Target[c]] # None) <=> (Kind[c] = "update")
BY DEF AC!Execute, AC!After

\* Rows keep the commands that wrote them.
LEMMA RowsStep ==
  ASSUME TypeOK, RowsInv, Committed \/ \E c \in Commands : Removes(c)
  PROVE  RowsInv'
<1> USE TransactionsAssumption
<1>1. CASE disk' = disk
  BY <1>1 DEF RowsInv
<1>2. ASSUME NEW c \in Commands, AC!Execute(c) PROVE RowsInv'
  <2> DEFINE t == Target[c]
  <2>1. /\ disk'.item = IF Kind[c] = "update" THEN disk.item ELSE [disk.item EXCEPT ![t] = c]
        /\ disk'.profile = IF Kind[c] = "compound" THEN [disk.profile EXCEPT ![t] = c]
                           ELSE disk.profile
        /\ disk'.audit = disk.audit \cup {c}
    BY <1>2, ExecuteRows
  <2>2. t \in Ids /\ disk.item \in [Ids -> Commands \cup {None}]
        /\ disk.profile \in [Ids -> Commands \cup {None}] /\ disk.audit \subseteq Commands
    BY DEF TypeOK, Rows
  <2> HIDE DEF t
  <2>3. \A j \in Ids : disk.profile[j] # None => disk'.profile[j] # None
    BY <2>1, <2>2
  <2>4. ASSUME NEW j \in Ids, disk'.item[j] # None
        PROVE  /\ Kind[disk'.item[j]] # "update" /\ Target[disk'.item[j]] = j
               /\ Kind[disk'.item[j]] = "compound" => disk'.profile[j] # None
    <3>1. CASE disk'.item[j] = disk.item[j]
      BY <2>3, <2>4, <3>1 DEF RowsInv
    <3>2. CASE disk'.item[j] # disk.item[j]
      <4>1. j = t /\ disk'.item[j] = c /\ Kind[c] # "update"
        BY <2>1, <2>2, <3>2
      <4>2. Kind[c] = "compound" => disk'.profile[t] = c
        BY <2>1, <2>2
      <4> QED BY <4>1, <4>2 DEF t
    <3> QED BY <3>1, <3>2
  <2>5. ASSUME NEW j \in Ids, disk'.profile[j] # None PROVE disk'.profile[j] \in disk'.audit
    BY <2>1, <2>2, <2>5 DEF RowsInv
  <2> QED BY <2>4, <2>5 DEF RowsInv
<1>3. ASSUME NEW c \in Commands, Removes(c) PROVE RowsInv'
  <2>1. /\ disk'.profile = disk.profile /\ disk'.audit = disk.audit
        /\ disk'.item = [disk.item EXCEPT ![Target[c]] = None]
    BY <1>3 DEF Removes, Undone, TypeOK, Rows
  <2>2. \A j \in Ids : disk'.item[j] # None => disk'.item[j] = disk.item[j]
    BY <2>1 DEF TypeOK, Rows
  <2> QED BY <2>1, <2>2 DEF RowsInv
<1> QED BY <1>1, <1>2, <1>3 DEF Committed

\* The rows hold throughout, whichever ids the commands choose.
LEMMA RowsAlways == Spec => []RowsInv
<1>1. Init => RowsInv
  BY DEF Init, RowsInv, AC!EmptyDb
<1>2. Inv /\ RowsInv /\ [Next]_vars => RowsInv'
  BY DiskMoves, RowsStep DEF Inv
<1> QED BY <1>1, <1>2, Invariance, PTL DEF Spec

\* No commit overwrites an item, and the only items that disappear are plain
\* creates at their first version, taken away by the compensation of a compound
\* create of the same id that did not commit: whatever ids the clients choose, an
\* item created with its profile, or updated since, stays
\* (inventory-adapter.ts:146-165).
THEOREM OnlyUndoneItemsGo == Spec => ItemsGoOnlyUndone
<1> DEFINE Kept ==
      \A i \in Ids : disk.item[i] # None /\ disk'.item[i] # disk.item[i] =>
        /\ disk'.item[i] = None
        /\ Kind[disk.item[i]] = "create" /\ disk.version[i] = 1
        /\ \E c \in Commands :
             Kind[c] = "compound" /\ Target[c] = i /\ UndoItem(c) /\ c \notin disk.audit
<1>1. ASSUME Inv, RowsInv, [Next]_vars PROVE Kept
  <2> SUFFICES ASSUME NEW i \in Ids, disk.item[i] # None, disk'.item[i] # disk.item[i]
               PROVE  /\ disk'.item[i] = None
                      /\ Kind[disk.item[i]] = "create" /\ disk.version[i] = 1
                      /\ \E c \in Commands : Kind[c] = "compound" /\ Target[c] = i
                                            /\ UndoItem(c) /\ c \notin disk.audit
    OBVIOUS
  <2>1. TypeOK /\ disk.item \in [Ids -> Commands \cup {None}]
    BY <1>1 DEF Inv, TypeOK, Rows
  <2>2. ~Committed
    <3>1. ASSUME NEW c \in Commands, AC!Execute(c) PROVE disk'.item[i] = disk.item[i]
      BY <2>1, <3>1, ExecuteRows, TransactionsAssumption
    <3> QED BY <3>1 DEF Committed
  <2>3. PICK c \in Commands : Removes(c)
    BY <1>1, <2>2, DiskMoves
  <2>4. disk'.item = [disk.item EXCEPT ![Target[c]] = None]
    BY <2>1, <2>3 DEF Removes, Undone, TypeOK, Rows
  <2>5. Target[c] = i /\ disk'.item[i] = None
    BY <2>1, <2>4, TransactionsAssumption
  <2>6. disk.item[i] \in Commands /\ Kind[disk.item[i]] \in {"create", "compound", "update"}
    BY <2>1, TransactionsAssumption
  <2>7. Kind[disk.item[i]] = "create"
    BY <1>1, <2>3, <2>5, <2>6 DEF RowsInv, Removes
  <2> QED BY <2>3, <2>5, <2>7 DEF Removes
<1>2. Inv /\ RowsInv /\ [Next]_vars => [Kept]_vars
  BY <1>1
<1> QED BY <1>2, Invariance, RowsAlways, PTL DEF Spec, ItemsGoOnlyUndone

-----------------------------------------------------------------------------
(* Atomicity, as long as no compensation meets another client's item: plain *)
(* creates and compound creates do not share ids                            *)

PlainIdsApart ==
  \A c, d \in Commands : Kind[c] = "compound" /\ Kind[d] = "create" => Target[c] # Target[d]

\* The rows are in order, and no audited command lacks the item it is about.
ItemInv ==
  /\ RowsInv
  /\ \A c \in disk.audit : disk.item[Target[c]] # None

\* A replay was answered for a command that is in the database.
ReplayInv ==
  \A c \in Commands : answer[c] = "replayed" =>
    \E d \in disk.audit : KeyOf[d] = KeyOf[c] /\ SameCommand(c, d) /\ disk.item[Target[c]] # None

\* The audit trail is finite and counts the versions.
VersionInv == IsFiniteSet(disk.audit) /\ AuditExplainsVersions

\* Then no step removes anything.
LEMMA StepCommits ==
  ASSUME PlainIdsApart
  PROVE  Inv /\ ItemInv /\ [Next]_vars => Committed
<1> SUFFICES ASSUME Inv, ItemInv, [Next]_vars PROVE Committed
  OBVIOUS
<1> USE TransactionsAssumption
<1>1. ASSUME NEW c \in Commands, Removes(c) PROVE FALSE
  <2> DEFINE d == disk.item[Target[c]]
  <2>1. d \in Commands /\ d # None /\ disk.profile[Target[c]] = None /\ Kind[c] = "compound"
    BY <1>1 DEF Removes, Inv, TypeOK, Rows
  <2>2. Kind[d] = "create" /\ Target[d] = Target[c]
    BY <2>1 DEF ItemInv, RowsInv
  <2> HIDE DEF d
  <2> QED BY <2>1, <2>2 DEF PlainIdsApart
<1> QED BY <1>1, DiskMoves DEF ItemInv

\* Commands leave an item behind and take none away.
LEMMA ItemStep ==
  ASSUME TypeOK, ItemInv, Committed
  PROVE  ItemInv'
<1> USE TransactionsAssumption
<1>1. RowsInv'
  BY RowsStep DEF ItemInv
<1>2. CASE disk' = disk
  BY <1>1, <1>2 DEF ItemInv
<1>3. ASSUME NEW c \in Commands, AC!Execute(c), NEW d \in disk'.audit
      PROVE  disk'.item[Target[d]] # None
  <2> DEFINE t == Target[c]
  <2>1. /\ disk'.item = IF Kind[c] = "update" THEN disk.item ELSE [disk.item EXCEPT ![t] = c]
        /\ disk'.audit = disk.audit \cup {c}
        /\ (disk.item[t] # None) <=> (Kind[c] = "update")
    BY <1>3, ExecuteRows
  <2>2. t \in Ids /\ disk.item \in [Ids -> Commands \cup {None}] /\ disk.audit \subseteq Commands
    BY DEF TypeOK, Rows
  <2> HIDE DEF t
  <2>3. disk'.item[t] # None /\ \A j \in Ids : disk.item[j] # None => disk'.item[j] # None
    BY <2>1, <2>2
  <2>4. CASE d = c
    BY <2>3, <2>4 DEF t
  <2>5. CASE d \in disk.audit
    BY <2>2, <2>3, <2>5 DEF ItemInv
  <2> QED BY <1>3, <2>1, <2>4, <2>5
<1> QED BY <1>1, <1>2, <1>3 DEF ItemInv, Committed

\* The rows are in order initially.
LEMMA ItemInit == Init => ItemInv /\ ReplayInv /\ VersionInv
<1> SUFFICES ASSUME Init PROVE ItemInv /\ ReplayInv /\ VersionInv
  OBVIOUS
<1>1. ItemInv /\ ReplayInv
  BY DEF Init, ItemInv, RowsInv, ReplayInv, AC!EmptyDb
<1>2. disk.audit = {} /\ \A i \in Ids : disk.version[i] = 0
  BY DEF Init, AC!EmptyDb
<1>3. \A i \in Ids : {c \in disk.audit : Target[c] = i} = {}
  BY <1>2
<1>4. VersionInv
  BY <1>2, <1>3, FS_EmptySet DEF VersionInv, AuditExplainsVersions
<1> QED BY <1>1, <1>4

\* Audit records and items stay, so an answer that was true stays true.
LEMMA ReplayStep ==
  ASSUME Inv, ItemInv, ReplayInv, Committed, [Next]_vars
  PROVE  ReplayInv'
<1> USE TransactionsAssumption DEF Inv
<1>1. disk.audit \subseteq disk'.audit /\ \A i \in Ids : disk.item[i] # None => disk'.item[i] # None
  <2>1. CASE disk' = disk
    BY <2>1
  <2>2. ASSUME NEW c \in Commands, AC!Execute(c)
        PROVE disk.audit \subseteq disk'.audit
              /\ \A i \in Ids : disk.item[i] # None => disk'.item[i] # None
    <3>1. /\ disk'.item = IF Kind[c] = "update" THEN disk.item
                          ELSE [disk.item EXCEPT ![Target[c]] = c]
          /\ disk'.audit = disk.audit \cup {c}
      BY <2>2, ExecuteRows
    <3>2. disk.item = [i \in Ids |-> disk.item[i]] /\ c # None
      BY DEF TypeOK, Rows
    <3>3. ASSUME NEW i \in Ids, disk.item[i] # None PROVE disk'.item[i] # None
      <4>1. CASE Kind[c] = "update"
        BY <3>1, <3>3, <4>1
      <4>2. CASE Kind[c] # "update"
        <5>1. disk'.item = [disk.item EXCEPT ![Target[c]] = c]
          BY <3>1, <4>2
        <5>2. disk'.item[i] = IF i = Target[c] THEN c ELSE disk.item[i]
          BY <3>2, <5>1
        <5> QED BY <3>2, <3>3, <5>2
      <4> QED BY <4>1, <4>2
    <3> QED BY <3>1, <3>3
  <2> QED BY <2>1, <2>2 DEF Committed
<1>2. ASSUME NEW c \in Commands, answer'[c] = "replayed", answer[c] # "replayed"
      PROVE \E d \in disk'.audit :
              KeyOf[d] = KeyOf[c] /\ SameCommand(c, d) /\ disk'.item[Target[c]] # None
  <2>1. Commit(c) /\ at[c] = "commit-replay"
    <3>1. ASSUME NEW b \in Commands, Arrive(b) \/ Progress(b) PROVE Commit(c) /\ at[c] = "commit-replay"
      <4>1. CASE Commit(b)
        BY <1>2, <4>1 DEF Commit, Answer, Goto, TypeOK
      <4>2. CASE Fail(b)
        BY <1>2, <4>2 DEF Fail, Errors, Answer, Goto, TypeOK
      <4>3. CASE Publish(b) \/ BeginFails(b) \/ UndoItem(b) \/ UndoFails(b)
        BY <1>2, <4>3 DEF Publish, BeginFails, UndoItem, UndoFails, Answer, TypeOK
      <4>4. CASE \/ Arrive(b) \/ Begin(b) \/ Lookup(b) \/ Write(b) \/ WriteProfile(b)
                 \/ Audit(b) \/ Record(b) \/ AskUndo(b) \/ UndoProfile(b)
        BY <1>2, <4>4 DEF Arrive, Begin, Lookup, Write, WriteProfile, Audit, Record, AskUndo, UndoProfile
      <4> QED BY <3>1, <4>1, <4>2, <4>3, <4>4 DEF Progress
    <3>2. ~Crash /\ ~UNCHANGED vars
      BY <1>2 DEF Crash, vars
    <3> QED BY <3>1, <3>2 DEF Next
  <2>2. disk' = disk /\ Replaying(c) /\ disk' = work
    BY <2>1, CommitRows
  <2> DEFINE d == disk.record[KeyOf[c]]
  <2>3. d # None /\ KeyOf[c] \in Keys /\ SameCommand(c, d)
    BY <2>2 DEF Replaying, Prior, Keyed
  <2>4. d \in disk.audit /\ KeyOf[d] = KeyOf[c]
    BY <2>3 DEF KeyInv
  <2>5. disk.item[Target[c]] # None
    BY <2>3, <2>4 DEF ItemInv, SameCommand
  <2> QED BY <2>2, <2>3, <2>4, <2>5
<1>3. ASSUME NEW c \in Commands, answer'[c] = "replayed", answer[c] = "replayed"
      PROVE \E d \in disk'.audit :
              KeyOf[d] = KeyOf[c] /\ SameCommand(c, d) /\ disk'.item[Target[c]] # None
  BY <1>1, <1>3 DEF ReplayInv
<1> QED BY <1>2, <1>3 DEF ReplayInv, SameCommand

\* One command more in the trail is one version more of its item.
LEMMA VersionStep ==
  ASSUME TypeOK, VersionInv, Committed
  PROVE  VersionInv'
<1> USE TransactionsAssumption
<1>1. CASE disk' = disk
  BY <1>1 DEF VersionInv, AuditExplainsVersions
<1>2. ASSUME NEW c \in Commands, AC!Execute(c) PROVE VersionInv'
  <2> DEFINE Of(i) == {d \in disk.audit : Target[d] = i}
             NewOf(i) == {d \in disk'.audit : Target[d] = i}
  <2>1. /\ disk'.version = [disk.version EXCEPT ![Target[c]] = @ + 1]
        /\ disk'.audit = disk.audit \cup {c} /\ c \notin disk.audit
    BY <1>2, ExecuteRows
  <2>2. IsFiniteSet(disk'.audit)
    BY <2>1, FS_AddElement DEF VersionInv
  <2>3. ASSUME NEW i \in Ids PROVE disk'.version[i] = Cardinality(NewOf(i))
    <3>1. IsFiniteSet(Of(i))
      BY FS_Subset DEF VersionInv
    <3>2. disk.version[i] = Cardinality(Of(i)) /\ disk.version[i] \in Nat
          /\ disk.version \in [Ids -> Nat]
      BY DEF VersionInv, AuditExplainsVersions, TypeOK, Rows
    <3>3. CASE i = Target[c]
      <4>1. NewOf(i) = Of(i) \cup {c} /\ c \notin Of(i)
        BY <2>1, <3>3
      <4>2. Cardinality(NewOf(i)) = Cardinality(Of(i)) + 1
        BY <3>1, <4>1, FS_AddElement
      <4>3. disk'.version[i] = disk.version[i] + 1
        BY <2>1, <3>2, <3>3
      <4> QED BY <3>2, <4>2, <4>3
    <3>4. CASE i # Target[c]
      <4>1. NewOf(i) = Of(i)
        BY <2>1, <3>4
      <4>2. disk'.version[i] = disk.version[i]
        BY <2>1, <3>2, <3>4
      <4> QED BY <3>2, <4>1, <4>2
    <3> QED BY <3>3, <3>4
  <2> QED BY <2>2, <2>3 DEF VersionInv, AuditExplainsVersions
<1> QED BY <1>1, <1>2 DEF Committed

\* All of it is inductive together.
Atomic == Inv /\ ItemInv /\ ReplayInv /\ VersionInv

\* The whole invariant is preserved, by steps that execute one command or none.
LEMMA AtomicStep ==
  ASSUME PlainIdsApart
  PROVE  Atomic /\ [Next]_vars => Atomic' /\ Committed
<1> SUFFICES ASSUME Atomic, [Next]_vars PROVE Atomic' /\ Committed
  OBVIOUS
<1> USE DEF Atomic
<1>1. Committed
  BY StepCommits
<1>2. TypeOK
  BY DEF Inv
<1> QED BY <1>1, <1>2, InvStep, ItemStep, ReplayStep, VersionStep

\* The whole invariant holds throughout.
LEMMA Atomicity ==
  ASSUME PlainIdsApart
  PROVE  Spec => []Atomic
<1>1. Init => Atomic
  BY InitInv, ItemInit DEF Atomic
<1>2. Atomic /\ [Next]_vars => Atomic'
  BY AtomicStep
<1> QED BY <1>1, <1>2, PTL DEF Spec

\* Commands are atomic: every step of the runtime executes one abstract command
\* or leaves the database alone (service.ts:2999-3089, sqlite.ts:75-106).
THEOREM ImplementsAtomicCommands ==
  ASSUME PlainIdsApart
  PROVE  Spec => CommandsAreAtomic
<1>1. Init => AC!Init
  BY DEF Init, AC!Init
<1>2. Atomic /\ [Next]_vars => [AC!Next]_disk
  BY AtomicStep DEF Committed, AC!Next
<1>3. Spec => AC!Init /\ [][AC!Next]_disk
  BY <1>1, <1>2, Atomicity, PTL DEF Spec
<1> QED BY <1>3 DEF CommandsAreAtomic, AC!Spec

\* What callers and subscribers are told is in the database and stays there
\* (service.ts:3069-3088).
THEOREM AnswersAreTrue ==
  ASSUME PlainIdsApart
  PROVE  Spec => []ToldIsTrue
<1>1. Atomic => ToldIsTrue
  BY DEF Atomic, Inv, AuditInv, ReplayInv, ToldIsTrue
<1> QED BY <1>1, Atomicity, PTL

\* The version of an item is the number of its audited commands
\* (packages/runtime/README.md:24-25).
THEOREM AuditTrailIsComplete ==
  ASSUME PlainIdsApart
  PROVE  Spec => []AuditExplainsVersions
<1>1. Atomic => AuditExplainsVersions
  BY DEF Atomic, VersionInv
<1> QED BY <1>1, Atomicity, PTL
=============================================================================
