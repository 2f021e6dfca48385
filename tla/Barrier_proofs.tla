--------------------------- MODULE Barrier_proofs ---------------------------
(***************************************************************************)
(* Barrier: the type invariant, one turn at a time with none forgotten,    *)
(* mutual exclusion of nested calls when operations await what they start, *)
(* the close callback as the last turn, and FifoTurns as what the barrier   *)
(* implements, for any set of tasks.                                       *)
(***************************************************************************)
EXTENDS Barrier, SequenceTheorems, TLAPS

\* What Push and Finish do to the queue is the same pump; this is all the
\* proofs need to know of it.
LEMMA StartNextType ==
  ASSUME NEW q \in Seq(Tasks), NEW l \in SUBSET Tasks, NEW p \in [Tasks -> States],
         StartNext(q, l, p)
  PROVE  /\ queue' \in Seq(Tasks)
         /\ active' \in BOOLEAN
         /\ lease' \in SUBSET Tasks
         /\ pc' \in [Tasks -> States]
<1>1. CASE q = <<>>
  BY <1>1 DEF StartNext
<1>2. CASE q # <<>>
  <2>1. Head(q) \in Tasks /\ Tail(q) \in Seq(Tasks)
    BY <1>2
  <2>2. QED
    BY <1>2, <2>1 DEF StartNext, States
<1>3. QED
  BY <1>1, <1>2

\* What joining the queue does to the types.
LEMMA PushType ==
  ASSUME TypeOK, NEW t \in Tasks, Push(t)
  PROVE  /\ queue' \in Seq(Tasks)
         /\ active' \in BOOLEAN
         /\ lease' \in SUBSET Tasks
         /\ pc' \in [Tasks -> States]
<1> DEFINE p == [pc EXCEPT ![t] = "queued"]
<1>1. Append(queue, t) \in Seq(Tasks) /\ p \in [Tasks -> States]
  BY DEF TypeOK, States
<1>2. CASE active
  BY <1>1, <1>2 DEF Push, TypeOK
<1>3. CASE ~active
  <2>1. StartNext(Append(queue, t), lease, p)
    BY <1>3 DEF Push
  <2>2. lease \in SUBSET Tasks
    BY DEF TypeOK
  <2>3. QED
    BY <1>1, <2>1, <2>2, StartNextType
<1>4. QED
  BY <1>2, <1>3 DEF TypeOK

\* What the end of an operation does to the types.
LEMMA FinishType ==
  ASSUME TypeOK, NEW t \in Tasks, Finish(t)
  PROVE  /\ queue' \in Seq(Tasks)
         /\ active' \in BOOLEAN
         /\ lease' \in SUBSET Tasks
         /\ pc' \in [Tasks -> States]
<1>1. queue \in Seq(Tasks) /\ lease \ {t} \in SUBSET Tasks
      /\ [pc EXCEPT ![t] = "done"] \in [Tasks -> States]
  BY DEF TypeOK, States
<1>2. QED
  BY <1>1, StartNextType DEF Finish

\* A nested call is one of the calls its task may still make.
NestedCounted == \A t \in Tasks : pc[t] \in {"entering", "nested"} => calls[t] > 0

TypeInv == TypeOK /\ NestedCounted

\* The types hold initially.
LEMMA TypeInvInit == Init => TypeInv
<1> SUFFICES ASSUME Init PROVE TypeInv
  OBVIOUS
<1> USE BarrierAssumption DEF Init
<1>1. queue \in Seq(Tasks) /\ finished \in Seq(Tasks)
  OBVIOUS
<1>2. pc \in [Tasks -> States]
  BY DEF States
<1>3. calls \in [Tasks -> 0..MaxCalls] /\ \A t \in Tasks : calls[t] > 0
  OBVIOUS
<1>4. store \in [Tasks -> Tasks \cup {None}]
  OBVIOUS
<1>5. QED
  BY <1>1, <1>2, <1>3, <1>4 DEF TypeInv, TypeOK, NestedCounted

\* A push and the end of a turn start or queue tasks; neither makes a nested call.
LEMMA StartNextNested ==
  ASSUME NEW q \in Seq(Tasks), NEW l, NEW p \in [Tasks -> States],
         StartNext(q, l, p), NEW u \in Tasks, pc'[u] \in {"entering", "nested"}
  PROVE  p[u] = pc'[u]
<1>1. CASE q = <<>>
  BY <1>1 DEF StartNext
<1>2. CASE q # <<>>
  BY <1>2 DEF StartNext
<1>3. QED
  BY <1>1, <1>2

\* Joining the queue makes no call nested.
LEMMA PushNested ==
  ASSUME TypeOK, NEW t \in Tasks, Push(t),
         NEW u \in Tasks, pc'[u] \in {"entering", "nested"}
  PROVE  pc[u] = pc'[u]
<1> DEFINE p == [pc EXCEPT ![t] = "queued"]
<1>1. Append(queue, t) \in Seq(Tasks) /\ p \in [Tasks -> States]
  BY DEF TypeOK, States
<1>2. CASE active
  BY <1>2 DEF Push, TypeOK
<1>3. CASE ~active
  <2>1. StartNext(Append(queue, t), lease, p)
    BY <1>3 DEF Push
  <2>2. p[u] = pc'[u]
    BY <1>1, <2>1, StartNextNested
  <2>3. QED
    BY <2>2 DEF TypeOK
<1>4. QED
  BY <1>2, <1>3 DEF TypeOK

\* The end of an operation that awaits its nested calls leaves none behind.
LEMMA FinishNested ==
  ASSUME TypeOK, NEW t \in Tasks, Finish(t),
         NEW u \in Tasks, pc'[u] \in {"entering", "nested"}
  PROVE  pc[u] = pc'[u] /\ u # t
<1> DEFINE p == [pc EXCEPT ![t] = "done"]
<1>1. queue \in Seq(Tasks) /\ p \in [Tasks -> States]
  BY DEF TypeOK, States
<1>2. p[u] = pc'[u]
  BY <1>1, StartNextNested DEF Finish
<1>3. QED
  BY <1>2 DEF TypeOK

\* Types are preserved.
LEMMA TypeInvStep == TypeInv /\ [Next]_vars => TypeInv'
<1> SUFFICES ASSUME TypeInv, [Next]_vars PROVE TypeInv'
  OBVIOUS
<1> USE BarrierAssumption
<1>0. TypeOK
  BY DEF TypeInv
<1>1. CASE Shutdown
  <2>1. Closer \in Tasks
    OBVIOUS
  <2>2. TypeOK'
    BY <1>0, <1>1, <2>1, PushType DEF Shutdown, Push, TypeOK
  <2>3. NestedCounted'
    BY <1>0, <1>1, <2>1, PushNested DEF Shutdown, Push, TypeInv, NestedCounted
  <2>4. QED
    BY <2>2, <2>3 DEF TypeInv
<1>2. ASSUME NEW t \in Tasks, EnterNested(t) PROVE TypeInv'
  BY <1>2 DEF EnterNested, TypeInv, TypeOK, NestedCounted, States
<1>3. ASSUME NEW t \in Tasks, StartNested(t) PROVE TypeInv'
  BY <1>3 DEF StartNested, TypeInv, TypeOK, NestedCounted, States
<1>4. ASSUME NEW t \in Tasks, EndNested(t) PROVE TypeInv'
  <2>1. calls[t] \in 0..MaxCalls /\ calls[t] > 0
    BY <1>4 DEF EndNested, TypeInv, TypeOK, NestedCounted
  <2>2. calls[t] - 1 \in 0..MaxCalls
    BY <2>1
  <2>3. calls' \in [Tasks -> 0..MaxCalls] /\ pc' \in [Tasks -> States]
    BY <1>0, <1>4, <2>2 DEF EndNested, TypeOK, States
  <2>4. NestedCounted'
    BY <1>0, <1>4 DEF EndNested, TypeInv, TypeOK, NestedCounted, States
  <2>5. QED
    BY <1>0, <1>4, <2>3, <2>4 DEF EndNested, TypeInv, TypeOK
<1>5. ASSUME NEW t \in Tasks, Reject(t) PROVE TypeInv'
  BY <1>5 DEF Reject, TypeInv, TypeOK, NestedCounted, States
<1>6. ASSUME NEW t \in Tasks, Enqueue(t) PROVE TypeInv'
  <2>1. TypeOK'
    BY <1>0, <1>6, PushType DEF Enqueue, Push, TypeOK
  <2>2. NestedCounted'
    BY <1>0, <1>6, PushNested DEF Enqueue, Push, TypeInv, NestedCounted
  <2>3. QED
    BY <2>1, <2>2 DEF TypeInv
<1>7. ASSUME NEW t \in Tasks, Finish(t) PROVE TypeInv'
  <2>0. finished' \in Seq(Tasks)
    BY <1>0, <1>7 DEF Finish, TypeOK
  <2>1. TypeOK'
    BY <1>0, <1>7, <2>0, FinishType DEF Finish, TypeOK
  <2>2. NestedCounted'
    BY <1>0, <1>7, FinishNested DEF Finish, TypeInv, NestedCounted
  <2>3. QED
    BY <2>1, <2>2 DEF TypeInv
<1>8. ASSUME NEW t \in Tasks, NEW c \in Tasks \ Roots, Spawn(t, c) PROVE TypeInv'
  <2>1. Scope(t) \in Tasks \cup {None}
    BY <1>0 DEF Scope, TypeOK
  <2>2. QED
    BY <1>8, <2>1 DEF Spawn, TypeInv, TypeOK, NestedCounted, States
<1>9. CASE UNCHANGED vars
  BY <1>9 DEF vars, TypeInv, TypeOK, NestedCounted
<1>10. QED
  BY <1>1, <1>2, <1>3, <1>4, <1>5, <1>6, <1>7, <1>8, <1>9 DEF Next

\* Every variable of the barrier keeps its type, whatever the tasks and bounds.
THEOREM TypeCorrect == Spec => []TypeOK
<1>1. TypeInv => TypeOK
  BY DEF TypeInv
<1>2. QED
  BY <1>1, TypeInvInit, TypeInvStep, PTL DEF Spec

-----------------------------------------------------------------------------
(* Nested calls stay inside the running turn *)

\* A push only adds to the active leases.
LEMMA PushLease ==
  ASSUME TypeOK, NEW t \in Tasks, Push(t)
  PROVE  lease \subseteq lease'
BY DEF Push, StartNext

\* The end of a turn takes only its own lease away.
LEMMA FinishLease ==
  ASSUME NEW t \in Tasks, Finish(t)
  PROVE  lease \ {t} \subseteq lease'
BY DEF Finish, StartNext

\* Nested calls stay inside the running turn.
LEMMA NestedStep ==
  ASSUME FailFast = FALSE, TypeInv, NestedInsideTurn, [Next]_vars
  PROVE  NestedInsideTurn'
<1> USE BarrierAssumption
<1>0. TypeOK
  BY DEF TypeInv
<1>1. CASE Shutdown
  <2>1. Closer \in Tasks
    OBVIOUS
  <2>2. QED
    BY <1>0, <1>1, <2>1, PushNested, PushLease DEF Shutdown, Push, NestedInsideTurn
<1>2. ASSUME NEW t \in Tasks, EnterNested(t) PROVE NestedInsideTurn'
  BY <1>0, <1>2 DEF EnterNested, ReEntrant, TypeOK, NestedInsideTurn
<1>3. ASSUME NEW t \in Tasks, StartNested(t) PROVE NestedInsideTurn'
  BY <1>0, <1>3 DEF StartNested, TypeOK, NestedInsideTurn
<1>4. ASSUME NEW t \in Tasks, EndNested(t) PROVE NestedInsideTurn'
  BY <1>0, <1>4 DEF EndNested, TypeOK, NestedInsideTurn
<1>5. ASSUME NEW t \in Tasks, Reject(t) PROVE NestedInsideTurn'
  BY <1>0, <1>5 DEF Reject, TypeOK, NestedInsideTurn
<1>6. ASSUME NEW t \in Tasks, Enqueue(t) PROVE NestedInsideTurn'
  BY <1>0, <1>6, PushNested, PushLease DEF Enqueue, Push, NestedInsideTurn
<1>7. ASSUME NEW t \in Tasks, Finish(t) PROVE NestedInsideTurn'
  <2> SUFFICES ASSUME NEW u \in Tasks, pc'[u] \in {"entering", "nested"}
               PROVE  store'[u] \in lease'
    BY DEF NestedInsideTurn
  <2>1. pc[u] \in {"entering", "nested"}
    BY <1>0, <1>7, FinishNested
  <2>2. store[u] \in lease /\ store[u] # t
    BY <1>7, <2>1 DEF NestedInsideTurn, Finish, NestedCallsSettled
  <2>3. QED
    BY <1>7, <2>2, FinishLease DEF Finish
<1>8. ASSUME NEW t \in Tasks, NEW c \in Tasks \ Roots, Spawn(t, c)
      PROVE  NestedInsideTurn'
  BY <1>0, <1>8 DEF Spawn, TypeOK, NestedInsideTurn
<1>9. CASE UNCHANGED vars
  BY <1>9 DEF vars, NestedInsideTurn
<1>10. QED
  BY <1>1, <1>2, <1>3, <1>4, <1>5, <1>6, <1>7, <1>8, <1>9 DEF Next

\* Mutual exclusion: while every operation awaits the calls it makes, nothing
\* runs under the barrier outside the turn that is running.
THEOREM NestedExclusion ==
  ASSUME FailFast = FALSE
  PROVE  Spec => []NestedInsideTurn
<1>1. Init => NestedInsideTurn
  BY DEF Init, NestedInsideTurn
<1>2. TypeInv /\ NestedInsideTurn /\ [Next]_vars => NestedInsideTurn'
  BY NestedStep
<1>3. QED
  BY <1>1, <1>2, TypeInvInit, TypeInvStep, PTL DEF Spec

-----------------------------------------------------------------------------
(* One turn at a time, and the close callback last *)

\* q holds exactly the tasks that p says wait, each once, the closer last.
Holds(q, p) ==
  /\ \A i \in 1..Len(q) : p[q[i]] = "queued"
  /\ \A i, j \in 1..Len(q) : q[i] = q[j] => i = j
  /\ \A t \in Tasks : p[t] = "queued" => \E i \in 1..Len(q) : q[i] = t
  /\ p[Closer] = "queued" => q[Len(q)] = Closer

TurnInv ==
  /\ TypeInv
  /\ OneTurnAndNoneForgotten
  /\ QueueExact

\* pump() with no turn running: the head gets its turn, the rest keeps waiting.
LEMMA PumpTurn ==
  ASSUME NEW q \in Seq(Tasks), NEW p \in [Tasks -> States],
         StartNext(q, {}, p), Holds(q, p),
         \A t \in Tasks : p[t] # "owner"
  PROVE  /\ OneTurnAndNoneForgotten'
         /\ Holds(queue', pc')
         /\ \A t \in Tasks : pc'[t] = "idle" <=> p[t] = "idle"
         /\ \A t \in Tasks : pc'[t] \notin {"owner", "queued"} <=> p[t] # "queued"
         /\ pc'[Closer] = "owner" => queue' = <<>>
<1> USE BarrierAssumption
<1>1. CASE q = <<>>
  BY <1>1 DEF StartNext, Holds, OneTurnAndNoneForgotten
<1>2. CASE q # <<>>
  <2> DEFINE h == Head(q)
  <2>1. h = q[1] /\ h \in Tasks /\ Len(q) \in Nat \ {0} /\ Tail(q) \in Seq(Tasks)
    BY <1>2
  <2>2. /\ queue' = Tail(q) /\ active' = TRUE /\ lease' = {h}
        /\ pc' = [p EXCEPT ![h] = "owner"]
    BY <1>2 DEF StartNext
  <2>3. Len(queue') = Len(q) - 1
        /\ \A i \in 1..(Len(q) - 1) : queue'[i] = q[i + 1]
    BY <1>2, <2>2
  <2>4. p[h] = "queued"
    BY <2>1 DEF Holds
  <2>5. OneTurnAndNoneForgotten'
    BY <2>1, <2>2 DEF OneTurnAndNoneForgotten
  <2>6. \A i \in 1..Len(queue') : queue'[i] # h /\ pc'[queue'[i]] = "queued"
    <3> SUFFICES ASSUME NEW i \in 1..Len(queue')
                 PROVE  queue'[i] # h /\ pc'[queue'[i]] = "queued"
      OBVIOUS
    <3>1. i + 1 \in 1..Len(q) /\ 1 \in 1..Len(q) /\ queue'[i] = q[i + 1]
      BY <2>1, <2>3
    <3>2. q[i + 1] # q[1] /\ p[q[i + 1]] = "queued" /\ q[i + 1] \in Tasks
      BY <2>1, <3>1 DEF Holds
    <3>3. QED
      BY <2>1, <2>2, <3>1, <3>2
  <2>7. \A i, j \in 1..Len(queue') : queue'[i] = queue'[j] => i = j
    <3> SUFFICES ASSUME NEW i \in 1..Len(queue'), NEW j \in 1..Len(queue'),
                        queue'[i] = queue'[j]
                 PROVE  i = j
      OBVIOUS
    <3>1. i + 1 \in 1..Len(q) /\ j + 1 \in 1..Len(q) /\ q[i + 1] = q[j + 1]
      BY <2>1, <2>3
    <3>2. i + 1 = j + 1
      BY <3>1 DEF Holds
    <3>3. QED
      BY <2>1, <2>3, <3>2
  <2>8. ASSUME NEW t \in Tasks, pc'[t] = "queued"
        PROVE  \E i \in 1..Len(queue') : queue'[i] = t
    <3>1. p[t] = "queued" /\ t # h
      BY <2>2, <2>8
    <3>2. PICK k \in 1..Len(q) : q[k] = t
      BY <3>1 DEF Holds
    <3>3. k # 1 /\ k - 1 \in 1..(Len(q) - 1) /\ (k - 1) + 1 = k
      BY <2>1, <3>1, <3>2
    <3>4. queue'[k - 1] = t
      BY <2>3, <3>2, <3>3
    <3>5. QED
      BY <2>3, <3>3, <3>4
  <2>9. ASSUME pc'[Closer] = "queued" PROVE queue'[Len(queue')] = Closer
    <3>1. p[Closer] = "queued" /\ Closer # h
      BY <2>2, <2>9
    <3>2. q[Len(q)] = Closer /\ Len(q) # 1
      BY <2>1, <3>1 DEF Holds
    <3> HIDE DEF h
    <3>a. \A n \in Nat \ {0} : n # 1 => n - 1 \in 1..(n - 1) /\ (n - 1) + 1 = n
      OBVIOUS
    <3>3. Len(q) - 1 \in 1..(Len(q) - 1) /\ (Len(q) - 1) + 1 = Len(q)
      BY <2>1, <3>2, <3>a
    <3>4. QED
      BY <2>3, <3>2, <3>3
  <2>10. /\ \A t \in Tasks : pc'[t] = "idle" <=> p[t] = "idle"
         /\ \A t \in Tasks : pc'[t] \notin {"owner", "queued"} <=> p[t] # "queued"
    BY <2>1, <2>2, <2>4
  <2>11. ASSUME pc'[Closer] = "owner" PROVE queue' = <<>>
    <3>1. Closer = h /\ p[Closer] = "queued"
      BY <2>1, <2>2, <2>4, <2>11
    <3>2. q[Len(q)] = q[1] /\ Len(q) \in 1..Len(q) /\ 1 \in 1..Len(q)
      BY <2>1, <3>1 DEF Holds
    <3>3. Len(q) = 1
      BY <3>2 DEF Holds
    <3>4. QED
      BY <1>2, <2>2, <3>3
  <2>12. QED
    BY <2>5, <2>6, <2>7, <2>8, <2>9, <2>10, <2>11 DEF Holds
<1>3. QED
  BY <1>1, <1>2

\* Nobody has a turn initially.
LEMMA TurnInvInit == Init => TurnInv
<1> SUFFICES ASSUME Init PROVE OneTurnAndNoneForgotten /\ QueueExact
  BY TypeInvInit DEF TurnInv
<1> USE BarrierAssumption DEF Init
<1>1. OneTurnAndNoneForgotten
  BY DEF OneTurnAndNoneForgotten
<1>2. QueueExact
  BY DEF QueueExact
<1>3. QED
  BY <1>1, <1>2

\* A request that arrives while a turn runs waits at the end of the queue.
LEMMA PushTurn ==
  ASSUME TurnInv, NEW t \in Tasks, Push(t), pc[t] = "idle", accepting
  PROVE  /\ OneTurnAndNoneForgotten'
         /\ Holds(queue', pc')
         /\ \A u \in Tasks : pc'[u] = "idle" <=> (pc[u] = "idle" /\ u # t)
         /\ pc'[Closer] = "owner" => queue' = <<>>
<1> USE BarrierAssumption
<1> DEFINE q == Append(queue, t)
           p == [pc EXCEPT ![t] = "queued"]
<1>1. TypeOK
  BY DEF TurnInv, TypeInv
<1>2. /\ q \in Seq(Tasks) /\ p \in [Tasks -> States]
      /\ Len(q) = Len(queue) + 1 /\ Len(queue) \in Nat
      /\ \A i \in 1..Len(queue) : q[i] = queue[i] /\ queue[i] \in Tasks
      /\ q[Len(queue) + 1] = t
  BY <1>1 DEF TypeOK, States
<1>3. /\ \A u \in Tasks : u # t => p[u] = pc[u]
      /\ p[t] = "queued"
      /\ \A i \in 1..Len(queue) : queue[i] # t
  BY <1>1, <1>2 DEF TypeOK, TurnInv, QueueExact
<1> HIDE DEF p, q
<1>4. Holds(q, p)
  <2>1. \A i \in 1..Len(q) : i \in 1..Len(queue) \/ i = Len(queue) + 1
    BY <1>2
  <2>2. \A i \in 1..Len(q) : p[q[i]] = "queued"
    BY <1>2, <1>3, <2>1 DEF TurnInv, QueueExact
  <2>3. \A i, j \in 1..Len(q) : q[i] = q[j] => i = j
    BY <1>2, <1>3, <2>1 DEF TurnInv, QueueExact
  <2>4. ASSUME NEW u \in Tasks, p[u] = "queued"
        PROVE  \E i \in 1..Len(q) : q[i] = u
    <3>1. CASE u = t
      BY <1>2, <3>1
    <3>2. CASE u # t
      <4>1. PICK i \in 1..Len(queue) : queue[i] = u
        BY <1>3, <2>4, <3>2 DEF TurnInv, QueueExact
      <4>2. i \in 1..Len(q) /\ q[i] = u
        BY <1>2, <4>1
      <4>3. QED
        BY <4>2
    <3>3. QED
      BY <3>1, <3>2
  <2>5. p[Closer] = "queued" => q[Len(q)] = Closer
    BY <1>2, <1>3 DEF TurnInv, QueueExact
  <2>6. QED
    BY <2>2, <2>3, <2>4, <2>5 DEF Holds
<1>5. \A u \in Tasks : p[u] = "idle" <=> (pc[u] = "idle" /\ u # t)
  BY <1>3
<1>6. CASE active
  <2>1. queue' = q /\ pc' = p /\ UNCHANGED <<active, lease>>
    BY <1>6 DEF Push, p, q
  <2>2. \A u \in Tasks : p[u] = "owner" <=> pc[u] = "owner"
    BY <1>3
  <2>3. OneTurnAndNoneForgotten'
    BY <1>6, <2>1, <2>2 DEF TurnInv, OneTurnAndNoneForgotten
  <2>4. pc'[Closer] # "owner"
    BY <1>3, <2>1 DEF TurnInv, QueueExact
  <2>5. QED
    BY <1>4, <1>5, <2>1, <2>3, <2>4
<1>7. CASE ~active
  <2>1. lease = {} /\ \A u \in Tasks : pc[u] # "owner"
    BY <1>7 DEF TurnInv, OneTurnAndNoneForgotten
  <2>2. StartNext(q, {}, p) /\ \A u \in Tasks : p[u] # "owner"
    BY <1>3, <1>7, <2>1 DEF Push, p, q
  <2>3. QED
    BY <1>2, <1>4, <1>5, <2>2, PumpTurn
<1>8. QED
  BY <1>1, <1>6, <1>7 DEF TypeOK

\* A step of a nested call or a spawned task moves no turn.
LEMMA QuietTurn ==
  ASSUME TurnInv, UNCHANGED <<queue, active, accepting, lease>>,
         NEW u \in Tasks, u # Closer,
         pc[u] \notin {"owner", "queued"}, pc'[u] \notin {"owner", "queued"},
         \A t \in Tasks : t # u => pc'[t] = pc[t]
  PROVE  OneTurnAndNoneForgotten' /\ QueueExact'
<1> USE BarrierAssumption
<1>1. OneTurnAndNoneForgotten'
  BY DEF TurnInv, OneTurnAndNoneForgotten
<1>2. \A i \in 1..Len(queue) : queue[i] \in Tasks
  BY DEF TurnInv, TypeInv, TypeOK
<1>3. QueueExact'
  BY <1>2 DEF TurnInv, QueueExact
<1>4. QED
  BY <1>1, <1>3

\* Once the close callback runs, nobody waits and nobody else has a turn.
CloseInv ==
  /\ pc[Closer] \in {"idle", "queued", "owner", "done"}
  /\ pc[Closer] \in {"owner", "done"} =>
       queue = <<>> /\ \A t \in Tasks \ {Closer} : pc[t] # "owner"

\* One turn at a time is preserved, and so is that nobody is forgotten.
LEMMA TurnStep ==
  ASSUME TurnInv, CloseInv, [Next]_vars
  PROVE  TurnInv' /\ CloseInv'
<1> USE BarrierAssumption
<1>0. TypeOK /\ TypeInv'
  BY TypeInvStep DEF TurnInv, TypeInv
<1>a. ASSUME NEW t \in Tasks, Push(t), pc[t] = "idle", accepting,
             accepting' <=> t # Closer
      PROVE  TurnInv' /\ CloseInv'
  <2>1. /\ OneTurnAndNoneForgotten'
        /\ Holds(queue', pc')
        /\ \A u \in Tasks : pc'[u] = "idle" <=> (pc[u] = "idle" /\ u # t)
        /\ pc'[Closer] = "owner" => queue' = <<>>
    BY <1>a, PushTurn
  <2>2. pc[Closer] = "idle"
    BY <1>a DEF TurnInv, QueueExact
  <2>3. TurnInv'
    BY <1>0, <1>a, <2>1, <2>2 DEF TurnInv, QueueExact, Holds
  <2>4. pc'[Closer] # "done"
    BY <1>0, <1>a, <2>2 DEF Push, StartNext, TypeOK
  <2>5. pc'[Closer] \in {"idle", "queued", "owner", "done"}
    BY <1>0, <1>a, <2>2 DEF Push, StartNext, TypeOK
  <2>6. CloseInv'
    BY <2>1, <2>4, <2>5 DEF CloseInv, OneTurnAndNoneForgotten
  <2>7. QED
    BY <2>3, <2>6
<1>b. ASSUME NEW u \in Tasks, UNCHANGED <<queue, active, accepting, lease>>,
             u # Closer, pc[u] \notin {"owner", "queued"}, pc'[u] \notin {"owner", "queued"},
             \A t \in Tasks : t # u => pc'[t] = pc[t]
      PROVE  TurnInv' /\ CloseInv'
  <2>1. OneTurnAndNoneForgotten' /\ QueueExact'
    BY <1>b, QuietTurn
  <2>2. CloseInv'
    BY <1>b DEF CloseInv
  <2>3. QED
    BY <1>0, <2>1, <2>2 DEF TurnInv
<1>1. CASE Shutdown
  <2>1. Closer \in Tasks /\ accepting
    BY <1>1 DEF Shutdown, TurnInv, QueueExact
  <2>2. QED
    BY <1>1, <1>a, <2>1 DEF Shutdown
<1>2. ASSUME NEW t \in Tasks, EnterNested(t) PROVE TurnInv' /\ CloseInv'
  BY <1>0, <1>2, <1>b DEF EnterNested, CloseInv, TypeOK
<1>3. ASSUME NEW t \in Tasks, StartNested(t) PROVE TurnInv' /\ CloseInv'
  BY <1>0, <1>3, <1>b DEF StartNested, CloseInv, TypeOK
<1>4. ASSUME NEW t \in Tasks, EndNested(t) PROVE TurnInv' /\ CloseInv'
  BY <1>0, <1>4, <1>b DEF EndNested, CloseInv, TypeOK
<1>5. ASSUME NEW t \in Tasks, Reject(t) PROVE TurnInv' /\ CloseInv'
  BY <1>0, <1>5, <1>b DEF Reject, CloseInv, TypeOK
<1>6. ASSUME NEW t \in Tasks, Enqueue(t) PROVE TurnInv' /\ CloseInv'
  BY <1>6, <1>a DEF Enqueue
<1>7. ASSUME NEW t \in Tasks, Finish(t) PROVE TurnInv' /\ CloseInv'
  <2> DEFINE p == [pc EXCEPT ![t] = "done"]
  <2>1. queue \in Seq(Tasks) /\ p \in [Tasks -> States] /\ pc[t] = "owner"
    BY <1>0, <1>7 DEF Finish, TypeOK, States
  <2>2. lease \ {t} = {} /\ \A u \in Tasks : p[u] # "owner"
    BY <1>0, <2>1 DEF TypeOK, TurnInv, OneTurnAndNoneForgotten
  <2>3. /\ \A u \in Tasks : p[u] = "queued" <=> pc[u] = "queued"
        /\ \A u \in Tasks : p[u] = "idle" <=> pc[u] = "idle"
        /\ \A u \in Tasks : u # t => p[u] = pc[u]
    BY <1>0, <2>1 DEF TypeOK
  <2>4. StartNext(queue, {}, p)
    BY <1>7, <2>2 DEF Finish
  <2> HIDE DEF p
  <2>5. Holds(queue, p)
    <3>1. \A i \in 1..Len(queue) : queue[i] \in Tasks
      BY <2>1
    <3>2. QED
      BY <2>3, <3>1 DEF Holds, TurnInv, QueueExact
  <2>6. /\ OneTurnAndNoneForgotten'
        /\ Holds(queue', pc')
        /\ \A u \in Tasks : pc'[u] = "idle" <=> p[u] = "idle"
        /\ \A u \in Tasks : pc'[u] \notin {"owner", "queued"} <=> p[u] # "queued"
        /\ pc'[Closer] = "owner" => queue' = <<>>
    BY <2>1, <2>2, <2>4, <2>5, PumpTurn
  <2>7. TurnInv'
    BY <1>0, <1>7, <2>3, <2>6 DEF TurnInv, QueueExact, Holds, Finish
  <2>8. ASSUME pc'[Closer] \in {"owner", "done"}
        PROVE  queue' = <<>> /\ \A u \in Tasks \ {Closer} : pc'[u] # "owner"
    <3>1. CASE pc'[Closer] = "owner"
      BY <2>6, <3>1 DEF OneTurnAndNoneForgotten
    <3>2. CASE pc'[Closer] = "done"
      <4>1. p[Closer] # "queued"
        BY <2>6, <3>2
      <4>2. p[Closer] = "done"
        BY <2>1, <2>4, <3>2 DEF StartNext
      <4>3. pc[Closer] \in {"owner", "done"}
        BY <2>1, <2>3, <4>2
      <4>4. queue = <<>>
        BY <4>3 DEF CloseInv
      <4>5. pc' = p /\ queue' = <<>>
        BY <2>4, <4>4 DEF StartNext
      <4>6. QED
        BY <2>2, <4>5
    <3>3. QED
      BY <2>8, <3>1, <3>2
  <2>9. pc'[Closer] \in {"idle", "queued", "owner", "done"}
    <3>1. p[Closer] \in {"idle", "queued", "owner", "done"}
      BY <2>1, <2>3 DEF CloseInv, p
    <3>2. QED
      BY <2>1, <2>4, <3>1 DEF StartNext
  <2>10. QED
    BY <2>7, <2>8, <2>9 DEF CloseInv
<1>8. ASSUME NEW t \in Tasks, NEW c \in Tasks \ Roots, Spawn(t, c)
      PROVE  TurnInv' /\ CloseInv'
  BY <1>0, <1>8, <1>b DEF Spawn, TypeOK
<1>9. CASE UNCHANGED vars
  BY <1>0, <1>9 DEF vars, TurnInv, CloseInv, OneTurnAndNoneForgotten, QueueExact
<1>10. QED
  BY <1>1, <1>2, <1>3, <1>4, <1>5, <1>6, <1>7, <1>8, <1>9 DEF Next

\* The barrier accepts work initially.
LEMMA CloseInvInit == Init => CloseInv
BY BarrierAssumption DEF Init, CloseInv

\* At most one turn runs, and whenever none runs nothing waits: no push and no
\* end of a turn forgets the next operation.
THEOREM OneTurn == Spec => []OneTurnAndNoneForgotten
<1>1. TurnInv /\ CloseInv /\ [Next]_vars => TurnInv' /\ CloseInv'
  BY TurnStep
<1>2. TurnInv => OneTurnAndNoneForgotten
  BY DEF TurnInv
<1>3. QED
  BY <1>1, <1>2, TurnInvInit, CloseInvInit, PTL DEF Spec

\* The queue holds exactly the tasks that wait, each once and the close request
\* last, for any number of requests.
THEOREM QueueIsExact == Spec => []QueueExact
<1>1. TurnInv /\ CloseInv /\ [Next]_vars => TurnInv' /\ CloseInv'
  BY TurnStep
<1>2. TurnInv => QueueExact
  BY DEF TurnInv
<1>3. QED
  BY <1>1, <1>2, TurnInvInit, CloseInvInit, PTL DEF Spec

\* No code runs in a scope of the close callback, which starts none.
ScopesOfRequests == \A t \in Tasks : store[t] # Closer

\* Scopes are handed down by requests and by code that has one of theirs.
LEMMA ScopesStep ==
  ASSUME TypeInv, ScopesOfRequests, [Next]_vars
  PROVE  ScopesOfRequests'
<1>1. ASSUME NEW t \in Tasks, NEW c \in Tasks \ Roots, Spawn(t, c)
      PROVE  ScopesOfRequests'
  <2>1. Scope(t) # Closer
    BY <1>1 DEF Spawn, Scope, ScopesOfRequests
  <2>2. QED
    BY <1>1, <2>1 DEF Spawn, ScopesOfRequests, TypeInv, TypeOK
<1>2. ASSUME store' = store PROVE ScopesOfRequests'
  BY <1>2 DEF ScopesOfRequests
<1>3. QED
  BY <1>1, <1>2 DEF Next, Shutdown, Push, EnterNested, StartNested, EndNested, Reject,
                    Enqueue, Finish, vars

\* The close callback is the last code that runs under the barrier.
THEOREM ClosingIsLast ==
  ASSUME FailFast = FALSE
  PROVE  Spec => []CloseRunsLast
<1>1. TurnInv /\ CloseInv /\ [Next]_vars => TurnInv' /\ CloseInv'
  BY TurnStep
<1>2. ASSUME TurnInv, CloseInv, NestedInsideTurn, ScopesOfRequests PROVE CloseRunsLast
  <2> SUFFICES ASSUME pc[Closer] \in {"owner", "done"}
               PROVE  /\ queue = <<>>
                      /\ \A t \in Tasks \ {Closer} :
                           pc[t] \notin {"queued", "owner", "entering", "nested"}
    BY DEF CloseRunsLast
  <2>1. queue = <<>> /\ \A t \in Tasks \ {Closer} : pc[t] # "owner"
    BY <1>2 DEF CloseInv
  <2>2. \A t \in Tasks : pc[t] # "queued"
    <3> SUFFICES ASSUME NEW t \in Tasks, pc[t] = "queued" PROVE FALSE
      OBVIOUS
    <3>1. PICK i \in 1..Len(queue) : queue[i] = t
      BY <1>2 DEF TurnInv, QueueExact
    <3>2. 1..Len(queue) = {}
      BY <2>1
    <3>3. QED
      BY <3>1, <3>2
  <2>3. \A t \in Tasks : t \in lease => t = Closer
    BY <1>2, <2>1 DEF TurnInv, OneTurnAndNoneForgotten
  <2>4. \A t \in Tasks : pc[t] \notin {"entering", "nested"}
    <3> SUFFICES ASSUME NEW t \in Tasks, pc[t] \in {"entering", "nested"} PROVE FALSE
      OBVIOUS
    <3>1. store[t] \in lease /\ lease \subseteq Tasks
      BY <1>2 DEF NestedInsideTurn, TurnInv, TypeInv, TypeOK
    <3>2. QED
      BY <1>2, <2>3, <3>1 DEF ScopesOfRequests
  <2>5. QED
    BY <2>1, <2>2, <2>4
<1>3. Init => ScopesOfRequests
  BY BarrierAssumption DEF Init, ScopesOfRequests
<1>4. TypeInv /\ ScopesOfRequests /\ [Next]_vars => ScopesOfRequests'
  BY ScopesStep
<1>5. QED
  BY <1>1, <1>2, <1>3, <1>4, TypeInvInit, TypeInvStep, TurnInvInit, CloseInvInit,
     NestedExclusion, PTL DEF Spec

\* Operations of two requests never run side by side, when every operation
\* awaits the nested calls it makes: what barrier_failfast shows is due to
\* operations that do not (assembly.ts:43), not to the barrier.
THEOREM RequestsSerialised ==
  ASSUME FailFast = FALSE
  PROVE  Spec => []RequestsAreSerialised
<1>1. TurnInv /\ CloseInv /\ [Next]_vars => TurnInv' /\ CloseInv'
  BY TurnStep
<1>2. ASSUME TurnInv, NestedInsideTurn PROVE RequestsAreSerialised
  <2> SUFFICES ASSUME NEW r \in Tasks, NEW t \in Tasks, pc[r] = "owner", pc[t] = "nested"
               PROVE  store[t] = r
    BY DEF RequestsAreSerialised
  <2>1. store[t] \in lease /\ lease \subseteq Tasks
    BY <1>2 DEF NestedInsideTurn, TurnInv, TypeInv, TypeOK
  <2>2. QED
    BY <1>2, <2>1 DEF TurnInv, OneTurnAndNoneForgotten
<1>3. QED
  BY <1>1, <1>2, TurnInvInit, CloseInvInit, NestedExclusion, PTL DEF Spec

-----------------------------------------------------------------------------
(* The barrier hands out turns as FifoTurns promises *)

\* A turn that is over stays over, and a turn that runs has a lease.
ServedInv ==
  /\ \A i \in 1..Len(finished) : pc[finished[i]] = "done"
  /\ active => lease # {}

\* pump() with no turn running: it revives nobody, and the head of the queue,
\* if there is one, becomes the holder.
LEMMA PumpServed ==
  ASSUME NEW q \in Seq(Tasks), NEW p \in [Tasks -> States],
         StartNext(q, {}, p), Holds(q, p)
  PROVE  /\ \A t \in Tasks : p[t] = "done" => pc'[t] = "done"
         /\ active' => lease' # {}
         /\ Holder' \o queue' = q
         /\ q = <<>> => Holder' = <<>> /\ queue' = <<>>
         /\ \A t \in Tasks : q = <<t>> => Holder' = <<t>> /\ queue' = <<>>
<1>1. CASE q = <<>>
  <2>1. queue' = q /\ active' = FALSE /\ pc' = p
    BY <1>1 DEF StartNext
  <2>2. Holder' = <<>>
    BY <2>1 DEF Holder
  <2>3. QED
    BY <1>1, <2>1, <2>2
<1>2. CASE q # <<>>
  <2>1. PICK h : h = Head(q)
    OBVIOUS
  <2>2. h = q[1] /\ h \in Tasks /\ 1 \in 1..Len(q)
    BY <1>2, <2>1
  <2>3. queue' = Tail(q) /\ active' = TRUE /\ lease' = {h} /\ pc' = [p EXCEPT ![h] = "owner"]
    BY <1>2, <2>1 DEF StartNext
  <2>4. p[h] = "queued"
    BY <2>2 DEF Holds
  <2>5. \A t \in Tasks : p[t] = "done" => pc'[t] = "done"
    BY <2>3, <2>4
  <2>6. Holder' = <<h>>
    <3>1. (CHOOSE t \in Tasks : t \in lease') = h
      BY <2>2, <2>3
    <3>2. QED
      BY <2>3, <3>1 DEF Holder
  <2>7. <<h>> \o Tail(q) = q
    BY <1>2, <2>1
  <2>8. \A t \in Tasks : q = <<t>> => h = t /\ Tail(q) = <<>>
    BY <2>1
  <2>9. QED
    BY <1>2, <2>3, <2>5, <2>6, <2>7, <2>8
<1>3. QED
  BY <1>1, <1>2

\* Everything that asked for a turn, in order of arrival.
Arrived == finished \o Holder \o queue

\* The parts of Arrived are sequences of tasks, the holder a single one.
LEMMA HolderIsOne ==
  ASSUME TurnInv, ServedInv
  PROVE  /\ Holder \in Seq(Tasks)
         /\ active => \A t \in Tasks : pc[t] = "owner" => lease = {t} /\ Holder = <<t>>
         /\ ~active => Holder = <<>> /\ queue = <<>>
         /\ \A i \in 1..Len(Holder) : pc[Holder[i]] = "owner"
<1>1. CASE active
  <2>1. PICK t \in Tasks : t \in lease
    BY <1>1 DEF ServedInv, TurnInv, TypeInv, TypeOK
  <2>2. pc[t] = "owner" /\ lease = {t}
    BY <2>1 DEF TurnInv, OneTurnAndNoneForgotten
  <2>3. (CHOOSE u \in Tasks : u \in lease) = t
    BY <2>2
  <2>4. Holder = <<t>>
    BY <1>1, <2>3 DEF Holder
  <2>5. \A u \in Tasks : pc[u] = "owner" => u = t
    BY <2>2 DEF TurnInv, OneTurnAndNoneForgotten
  <2>6. \A i \in 1..Len(Holder) : Holder[i] = t
    BY <2>4
  <2>7. Holder \in Seq(Tasks)
    BY <2>4
  <2>8. QED
    BY <1>1, <2>2, <2>4, <2>5, <2>6, <2>7
<1>2. CASE ~active
  <2>1. Holder = <<>> /\ queue = <<>>
    BY <1>2 DEF Holder, TurnInv, OneTurnAndNoneForgotten
  <2>2. QED
    BY <1>2, <2>1
<1>3. QED
  BY <1>1, <1>2

\* What holds of the parts holds of the whole.
LEMMA JoinHolds ==
  ASSUME NEW S, NEW s \in Seq(Tasks), NEW r \in Seq(Tasks),
         \A i \in 1..Len(s) : s[i] \in S, \A i \in 1..Len(r) : r[i] \in S
  PROVE  s \o r \in Seq(Tasks) /\ \A i \in 1..Len(s \o r) : (s \o r)[i] \in S
<1>1. PICK a : a = s \o r
  OBVIOUS
<1>2. PICK m : m = Len(s)
  OBVIOUS
<1>3. PICK n : n = Len(r)
  OBVIOUS
<1>4. m \in Nat /\ n \in Nat
  BY <1>2, <1>3
<1>5. /\ a \in Seq(Tasks) /\ Len(a) = m + n
      /\ \A i \in 1..(m + n) : a[i] = IF i <= m THEN s[i] ELSE r[i - m]
  BY <1>1, <1>2, <1>3, ConcatProperties
<1>6. ASSUME NEW i \in 1..Len(a) PROVE a[i] \in S
  <2>1. i \in 1..(m + n)
    BY <1>5, <1>6
  <2>2. CASE i <= m
    <3>1. i \in 1..m
      BY <1>4, <2>1, <2>2
    <3>2. QED
      BY <1>2, <1>5, <2>1, <2>2, <3>1
  <2>3. CASE ~(i <= m)
    <3>1. i - m \in 1..n
      BY <1>4, <2>1, <2>3
    <3>2. QED
      BY <1>3, <1>5, <2>1, <2>3, <3>1
  <2>4. QED
    BY <2>2, <2>3
<1>7. QED
  BY <1>1, <1>5, <1>6

\* Who asked is done, runs or waits.
LEMMA ArrivedAsked ==
  ASSUME TurnInv, ServedInv
  PROVE  /\ Arrived \in Seq(Tasks)
         /\ \A i \in 1..Len(Arrived) : pc[Arrived[i]] \in {"done", "owner", "queued"}
<1> DEFINE S == {t \in Tasks : pc[t] \in {"done", "owner", "queued"}}
<1>1. Holder \in Seq(Tasks) /\ queue \in Seq(Tasks) /\ finished \in Seq(Tasks)
  BY HolderIsOne DEF TurnInv, TypeInv, TypeOK
<1>2. \A i \in 1..Len(finished) : finished[i] \in S
  BY <1>1 DEF ServedInv
<1>3. \A i \in 1..Len(Holder) : Holder[i] \in S
  <2>1. \A i \in 1..Len(Holder) : Holder[i] \in Tasks
    BY <1>1
  <2>2. QED
    BY <2>1, HolderIsOne
<1>4. \A i \in 1..Len(queue) : queue[i] \in S
  BY <1>1 DEF TurnInv, QueueExact
<1>5. \A t \in S : pc[t] \in {"done", "owner", "queued"}
  OBVIOUS
<1> HIDE DEF S
<1>6. PICK f : f = finished \o Holder
  OBVIOUS
<1>7. f \in Seq(Tasks) /\ \A i \in 1..Len(f) : f[i] \in S
  BY <1>1, <1>2, <1>3, <1>6, JoinHolds
<1>8. Arrived = f \o queue
  BY <1>6 DEF Arrived
<1>9. Arrived \in Seq(Tasks) /\ \A i \in 1..Len(Arrived) : Arrived[i] \in S
  BY <1>1, <1>4, <1>7, <1>8, JoinHolds
<1>10. QED
  BY <1>5, <1>9

\* Joining three sequences, one of them empty, one longer by an element.
LEMMA JoinLast ==
  ASSUME NEW f \in Seq(Tasks), NEW h \in Seq(Tasks), NEW q \in Seq(Tasks), NEW t \in Tasks
  PROVE  f \o h \o Append(q, t) = Append(f \o h \o q, t)
<1>1. PICK g : g = f \o h
  OBVIOUS
<1>2. g \in Seq(Tasks)
  BY <1>1
<1>3. g \o Append(q, t) = Append(g \o q, t)
  <2>1. <<t>> \in Seq(Tasks) /\ g \o q \in Seq(Tasks)
    BY <1>2, ConcatProperties
  <2>2. Append(q, t) = q \o <<t>> /\ Append(g \o q, t) = (g \o q) \o <<t>>
    BY <2>1, AppendIsConcat
  <2>3. (g \o q) \o <<t>> = g \o (q \o <<t>>)
    BY <1>2, <2>1, ConcatAssociative
  <2>4. QED
    BY <2>2, <2>3
<1>4. QED
  BY <1>1, <1>3

\* A turn that ends moves from the holder to the finished ones.
LEMMA JoinFirst ==
  ASSUME NEW f \in Seq(Tasks), NEW h \in Seq(Tasks), NEW q \in Seq(Tasks), NEW t \in Tasks
  PROVE  (Append(f, t) \o h) \o q = (f \o <<t>>) \o (h \o q)
<1>1. PICK g : g = Append(f, t)
  OBVIOUS
<1>2. g \in Seq(Tasks)
  BY <1>1
<1>3. (g \o h) \o q = g \o (h \o q)
  BY <1>2, ConcatAssociative, SMTT(30)
<1>4. g = f \o <<t>>
  BY <1>1, AppendIsConcat
<1>5. QED
  BY <1>1, <1>3, <1>4

\* A request joins those that arrived, last.
LEMMA PushArrives ==
  ASSUME TurnInv, ServedInv, TurnInv', NEW t \in Tasks, Push(t), pc[t] = "idle", accepting
  PROVE  /\ ServedInv'
         /\ Arrived' = Append(Arrived, t)
         /\ finished' = finished
         /\ \A i \in 1..Len(Arrived) : Arrived[i] # t
<1> USE BarrierAssumption
<1>0. TypeOK /\ finished' = finished
  BY DEF TurnInv, TypeInv, Push
<1>1. \A i \in 1..Len(Arrived) : Arrived[i] # t
  BY ArrivedAsked
<1>2. finished \in Seq(Tasks) /\ queue \in Seq(Tasks) /\ Holder \in Seq(Tasks)
  BY <1>0, HolderIsOne DEF TypeOK
<1>3. \A i \in 1..Len(finished) : finished[i] \in Tasks /\ finished[i] # t
  BY <1>2 DEF ServedInv
<1>4. CASE active
  <2>1. queue' = Append(queue, t) /\ active' = active /\ lease' = lease
        /\ pc' = [pc EXCEPT ![t] = "queued"]
    BY <1>4 DEF Push
  <2>2. Holder' = Holder
    BY <2>1 DEF Holder
  <2>3. Arrived' = Append(Arrived, t)
    BY <1>0, <1>2, <2>1, <2>2, JoinLast DEF Arrived
  <2>4. ServedInv'
    BY <1>0, <1>3, <2>1 DEF ServedInv, TypeOK
  <2>5. QED
    BY <1>0, <1>1, <2>3, <2>4
<1>5. CASE ~active
  <2> DEFINE q == Append(queue, t)
             p == [pc EXCEPT ![t] = "queued"]
  <2>1. queue = <<>> /\ Holder = <<>> /\ lease = {}
    BY <1>5, HolderIsOne DEF TurnInv, OneTurnAndNoneForgotten
  <2>2. StartNext(<<t>>, {}, p)
    BY <1>5, <2>1 DEF Push
  <2>3. p \in [Tasks -> States] /\ <<t>> \in Seq(Tasks)
    BY <1>0 DEF TypeOK, States
  <2>4. p[t] = "queued" /\ \A u \in Tasks : u # t => p[u] = pc[u] /\ pc[u] # "queued"
    <3>1. \A u \in Tasks : pc[u] # "queued"
      BY <2>1 DEF TurnInv, QueueExact
    <3>2. QED
      BY <1>0, <3>1 DEF TypeOK
  <2> HIDE DEF p
  <2>5. Holds(<<t>>, p)
    <3>1. Len(<<t>>) = 1 /\ <<t>>[1] = t
      OBVIOUS
    <3>2. QED
      BY <2>4, <3>1 DEF Holds
  <2>6. /\ \A u \in Tasks : p[u] = "done" => pc'[u] = "done"
        /\ active' => lease' # {}
        /\ Holder' = <<t>> /\ queue' = <<>>
    BY <2>2, <2>3, <2>5, PumpServed
  <2>7. ServedInv'
    BY <1>0, <1>3, <2>4, <2>6 DEF ServedInv
  <2>8. Arrived' = finished \o <<t>> \o <<>>
    BY <1>0, <2>6 DEF Arrived
  <2>9. Arrived = finished \o <<>> \o <<>>
    BY <2>1 DEF Arrived
  <2>10. Arrived' = Append(Arrived, t)
    <3>1. finished \o <<>> = finished /\ finished \o <<t>> = Append(finished, t)
          /\ Append(finished, t) \o <<>> = Append(finished, t)
      BY <1>2
    <3>2. QED
      BY <2>8, <2>9, <3>1
  <2>11. QED
    BY <1>0, <1>1, <2>7, <2>10
<1>6. QED
  BY <1>0, <1>4, <1>5 DEF TypeOK

\* The end of a turn moves it among the finished ones and changes no order.
LEMMA FinishServes ==
  ASSUME TurnInv, ServedInv, NEW t \in Tasks, Finish(t)
  PROVE  /\ ServedInv'
         /\ Arrived' = Arrived
         /\ Len(finished) < Len(Arrived)
         /\ Len(finished') = Len(finished) + 1
<1> DEFINE p == [pc EXCEPT ![t] = "done"]
<1>0. TypeOK /\ finished' = Append(finished, t)
  BY DEF TurnInv, TypeInv, Finish
<1>1. queue \in Seq(Tasks) /\ finished \in Seq(Tasks) /\ p \in [Tasks -> States]
      /\ pc[t] = "owner"
  BY <1>0 DEF Finish, TypeOK, States
<1>2. active /\ lease = {t} /\ Holder = <<t>>
  <2>1. active
    BY <1>0, <1>1 DEF TurnInv, OneTurnAndNoneForgotten, TypeOK
  <2>2. QED
    BY <1>1, <2>1, HolderIsOne
<1>3. StartNext(queue, {}, p)
  <2>1. lease \ {t} = {}
    BY <1>2
  <2>2. QED
    BY <2>1 DEF Finish
<1>4. p[t] = "done" /\ \A u \in Tasks : u # t => p[u] = pc[u]
  BY <1>0, <1>1 DEF TypeOK
<1> HIDE DEF p
<1>5. Holds(queue, p)
  <2>1. \A i \in 1..Len(queue) : queue[i] \in Tasks
    BY <1>1
  <2>2. \A u \in Tasks : p[u] = "queued" <=> pc[u] = "queued"
    BY <1>1, <1>4
  <2>3. Closer \in Tasks
    BY BarrierAssumption
  <2>4. QED
    BY <2>1, <2>2, <2>3 DEF Holds, TurnInv, QueueExact
<1>6. /\ \A u \in Tasks : p[u] = "done" => pc'[u] = "done"
      /\ active' => lease' # {}
      /\ Holder' \o queue' = queue
  BY <1>1, <1>3, <1>5, PumpServed
<1>7. ServedInv'
  <2>1. /\ Len(finished') = Len(finished) + 1
        /\ \A i \in 1..Len(finished') :
             finished'[i] = IF i <= Len(finished) THEN finished[i] ELSE t
    BY <1>0, <1>1
  <2>2. \A i \in 1..Len(finished) : finished[i] \in Tasks /\ pc[finished[i]] = "done"
    BY <1>1 DEF ServedInv
  <2>3. \A i \in 1..Len(finished') : p[finished'[i]] = "done"
    BY <1>1, <1>4, <2>1, <2>2
  <2>4. \A i \in 1..Len(finished') : finished'[i] \in Tasks
    BY <1>1, <2>1, <2>2
  <2>5. QED
    BY <1>6, <2>3, <2>4 DEF ServedInv
<1>8. Arrived = finished \o <<t>> \o queue
  BY <1>2 DEF Arrived
<1>9. PICK h : h = Holder'
  OBVIOUS
<1>10. PICK r : r = queue'
  OBVIOUS
<1>11. h \in Seq(Tasks) /\ r \in Seq(Tasks) /\ h \o r = queue
  <2>1. r \in Seq(Tasks)
    BY <1>0, <1>10, FinishType
  <2>2. h \in Seq(Tasks)
    <3>1. CASE queue = <<>>
      BY <1>1, <1>3, <1>5, <1>9, <3>1, PumpServed
    <3>2. CASE queue # <<>>
      <4>1. PICK k : k = Head(queue)
        OBVIOUS
      <4>2. k \in Tasks /\ active' = TRUE /\ lease' = {k}
        BY <1>1, <1>3, <3>2, <4>1 DEF StartNext
      <4>3. (CHOOSE u \in Tasks : u \in lease') = k
        BY <4>2
      <4>4. h = <<k>>
        BY <1>9, <4>2, <4>3 DEF Holder
      <4>5. QED
        BY <4>2, <4>4
    <3>3. QED
      BY <3>1, <3>2
  <2>3. QED
    BY <1>6, <1>9, <1>10, <2>1, <2>2
<1>12. (Append(finished, t) \o h) \o r = (finished \o <<t>>) \o (h \o r)
  <2>1. h \in Seq(Tasks) /\ r \in Seq(Tasks) /\ finished \in Seq(Tasks)
    BY <1>1, <1>11
  <2>2. QED
    BY <2>1, JoinFirst
<1>13. Arrived' = Arrived
  BY <1>0, <1>8, <1>9, <1>10, <1>11, <1>12 DEF Arrived
<1>14. Len(finished') = Len(finished) + 1
  BY <1>0, <1>1
<1>15. Len(finished) < Len(Arrived)
  <2>1. PICK g : g = finished \o <<t>>
    OBVIOUS
  <2>2. g \in Seq(Tasks) /\ Len(g) = Len(finished) + 1
    BY <1>1, <2>1
  <2>3. Arrived = g \o queue
    BY <1>8, <2>1
  <2>4. Len(Arrived) = Len(g) + Len(queue)
    BY <1>1, <2>2, <2>3, ConcatProperties
  <2>5. QED
    BY <1>1, <2>2, <2>4
<1>16. QED
  BY <1>7, <1>13, <1>14, <1>15

\* Every step of the barrier is a request, the end of a turn, or invisible.
LEMMA TurnsStep ==
  ASSUME TurnInv, CloseInv, ServedInv, [Next]_vars
  PROVE  ServedInv' /\ [Turns!Next]_(Turns!turnVars)
<1> USE BarrierAssumption
<1>0. TypeOK /\ TurnInv'
  BY TurnStep DEF TurnInv, TypeInv
<1>a. ASSUME NEW t \in Tasks, Push(t), pc[t] = "idle", accepting,
             accepting' = accepting \/ accepting' = FALSE
      PROVE  ServedInv' /\ [Turns!Next]_(Turns!turnVars)
  <2>1. /\ ServedInv'
        /\ Arrived' = Append(Arrived, t)
        /\ finished' = finished
        /\ \A i \in 1..Len(Arrived) : Arrived[i] # t
    BY <1>0, <1>a, PushArrives
  <2>2. Turns!Ask(t) \/ Turns!AskToClose(t)
    BY <1>a, <2>1 DEF Turns!Ask, Turns!AskToClose, Turns!Asked, Arrived
  <2>3. QED
    BY <2>1, <2>2 DEF Turns!Next
<1>b. ASSUME UNCHANGED <<queue, active, accepting, lease, finished>>,
             \A t \in Tasks : pc[t] = "done" => pc'[t] = "done"
      PROVE  ServedInv' /\ [Turns!Next]_(Turns!turnVars)
  <2>1. \A i \in 1..Len(finished) : finished[i] \in Tasks
    BY <1>0 DEF TypeOK
  <2>2. ServedInv'
    BY <1>b, <2>1 DEF ServedInv
  <2>3. Holder' = Holder
    BY <1>b DEF Holder
  <2>4. UNCHANGED Turns!turnVars
    BY <1>b, <2>3 DEF Turns!turnVars
  <2>5. QED
    BY <2>2, <2>4
<1>1. CASE Shutdown
  <2>1. Closer \in Tasks /\ accepting
    BY <1>1 DEF Shutdown, TurnInv, QueueExact
  <2>2. QED
    BY <1>1, <1>a, <2>1 DEF Shutdown
<1>2. ASSUME NEW t \in Tasks, EnterNested(t)
      PROVE  ServedInv' /\ [Turns!Next]_(Turns!turnVars)
  BY <1>0, <1>2, <1>b DEF EnterNested, TypeOK
<1>3. ASSUME NEW t \in Tasks, StartNested(t)
      PROVE  ServedInv' /\ [Turns!Next]_(Turns!turnVars)
  BY <1>0, <1>3, <1>b DEF StartNested, TypeOK
<1>4. ASSUME NEW t \in Tasks, EndNested(t)
      PROVE  ServedInv' /\ [Turns!Next]_(Turns!turnVars)
  BY <1>0, <1>4, <1>b DEF EndNested, TypeOK
<1>5. ASSUME NEW t \in Tasks, Reject(t)
      PROVE  ServedInv' /\ [Turns!Next]_(Turns!turnVars)
  BY <1>0, <1>5, <1>b DEF Reject, TypeOK
<1>6. ASSUME NEW t \in Tasks, Enqueue(t)
      PROVE  ServedInv' /\ [Turns!Next]_(Turns!turnVars)
  BY <1>6, <1>a DEF Enqueue
<1>7. ASSUME NEW t \in Tasks, Finish(t)
      PROVE  ServedInv' /\ [Turns!Next]_(Turns!turnVars)
  <2>1. /\ ServedInv'
        /\ Arrived' = Arrived
        /\ Len(finished) < Len(Arrived)
        /\ Len(finished') = Len(finished) + 1
    BY <1>7, FinishServes
  <2>2. accepting' = accepting
    BY <1>7 DEF Finish
  <2>3. Turns!EndTurn
    BY <2>1, <2>2 DEF Turns!EndTurn, Arrived
  <2>4. QED
    BY <2>1, <2>3 DEF Turns!Next
<1>8. ASSUME NEW t \in Tasks, NEW c \in Tasks \ Roots, Spawn(t, c)
      PROVE  ServedInv' /\ [Turns!Next]_(Turns!turnVars)
  BY <1>0, <1>8, <1>b DEF Spawn, TypeOK
<1>9. CASE UNCHANGED vars
  BY <1>9, <1>b DEF vars
<1>10. QED
  BY <1>1, <1>2, <1>3, <1>4, <1>5, <1>6, <1>7, <1>8, <1>9 DEF Next

\* Nobody has asked for a turn initially.
LEMMA TurnsInit == Init => ServedInv /\ Turns!Init
<1> SUFFICES ASSUME Init PROVE ServedInv /\ Turns!Init
  OBVIOUS
<1>1. ServedInv
  BY DEF Init, ServedInv
<1>2. Holder = <<>> /\ finished = <<>> /\ queue = <<>> /\ accepting = TRUE
  BY DEF Init, Holder
<1>3. QED
  BY <1>1, <1>2 DEF Turns!Init

\* The barrier implements FifoTurns for any number of requests, nested calls and
\* spawned tasks: each request gets one turn, in order of arrival, and none is
\* handed out behind the close request (barrier.ts:57-91).  That every turn that
\* was asked for ends is liveness and stays with TurnsInOrder.
THEOREM ImplementsFifoTurns ==
  Spec => Turns!Init /\ [][Turns!Next]_(Turns!turnVars)
<1>1. TurnInv /\ CloseInv /\ [Next]_vars => TurnInv' /\ CloseInv'
  BY TurnStep
<1>2. TurnInv /\ CloseInv /\ ServedInv /\ [Next]_vars
        => ServedInv' /\ [Turns!Next]_(Turns!turnVars)
  BY TurnsStep
<1>3. Init => TurnInv /\ CloseInv /\ ServedInv /\ Turns!Init
  BY TurnInvInit, CloseInvInit, TurnsInit
<1>4. QED
  BY <1>1, <1>2, <1>3, PTL DEF Spec
=============================================================================
