------------------------------ MODULE Barrier ------------------------------
(***************************************************************************)
(* ExclusiveBarrier (packages/runtime/src/barrier.ts): the FIFO async      *)
(* mutex that every mutation, consistent read, upload and backup of the    *)
(* production runtime runs under, with the re-entrancy it grants to calls  *)
(* made from inside the running turn.                                      *)
(*                                                                         *)
(* A task is a chain of asynchronous code.  Roots are requests: they start *)
(* with no AsyncLocalStorage scope.  The other tasks are spawned by code   *)
(* running in a turn and inherit its scope, which they keep after the turn *)
(* is over.  scope.depth of the source is written and never read, so it is *)
(* not part of the state.                                                  *)
(***************************************************************************)
EXTENDS Naturals, Sequences

CONSTANTS
  Tasks,            \* all tasks
  Roots,            \* the tasks that are started by a request
  Closer,           \* the root that calls shutdown()
  None,             \* "no AsyncLocalStorage scope"
  MaxCalls,         \* bound: how often a spawned task may call exclusive()
  FailFast          \* TRUE: a turn may end while a nested call made in it is
                    \* still running (Promise.all rejecting on its first error)

ASSUME BarrierAssumption ==
  /\ Roots \subseteq Tasks
  /\ Closer \in Roots
  /\ None \notin Tasks
  /\ MaxCalls \in Nat \ {0}
  /\ FailFast \in BOOLEAN

VARIABLES
  queue,            \* waiting operations, oldest first
  active,           \* a turn is running
  accepting,        \* FALSE after shutdown()
  lease,            \* the owners whose scope is still marked active
  store,            \* the AsyncLocalStorage scope each task started with
  pc,               \* what each task is doing
  calls,            \* calls of exclusive() each task may still make
  finished          \* history: the owners whose turn is over, in order

vars == <<queue, active, accepting, lease, store, pc, calls, finished>>

States == {"unborn", "idle", "queued", "owner", "entering", "nested",
           "done", "rejected"}

TypeOK ==
  /\ queue \in Seq(Tasks)
  /\ active \in BOOLEAN
  /\ accepting \in BOOLEAN
  /\ lease \subseteq Tasks
  /\ store \in [Tasks -> Tasks \cup {None}]
  /\ pc \in [Tasks -> States]
  /\ calls \in [Tasks -> 0..MaxCalls]
  /\ finished \in Seq(Tasks)

Init ==
  /\ queue = <<>>
  /\ active = FALSE
  /\ accepting = TRUE
  /\ lease = {}
  /\ store = [t \in Tasks |-> None]
  /\ pc = [t \in Tasks |-> IF t \in Roots THEN "idle" ELSE "unborn"]
  /\ calls = [t \in Tasks |-> MaxCalls]
  /\ finished = <<>>

-----------------------------------------------------------------------------
(* Helpers *)

\* (mutant) a scope is honoured although its turn is over
ReEntrantForever(t) == store[t] # None

\* A call of t made now would re-enter the turn its scope belongs to.
ReEntrant(t) == store[t] \in lease

\* (mutant) the next operation is taken from the end of the queue
StartNewest(q, l, p) ==
  IF q = <<>>
  THEN queue' = q /\ active' = FALSE /\ lease' = l /\ pc' = p
  ELSE /\ queue' = SubSeq(q, 1, Len(q) - 1)
       /\ active' = TRUE
       /\ lease' = l \cup {q[Len(q)]}
       /\ pc' = [p EXCEPT ![q[Len(q)]] = "owner"]

\* (mutant) the end of a turn does not start the next operation
StartNone(q, l, p) ==
  queue' = q /\ active' = FALSE /\ lease' = l /\ pc' = p

\* (mutant) the turn runs with the lease of the scope it was queued from
StartInCallersScope(q, l, p) ==
  IF q = <<>>
  THEN queue' = q /\ active' = FALSE /\ lease' = l /\ pc' = p
  ELSE /\ queue' = Tail(q)
       /\ active' = TRUE
       /\ lease' = l \cup {store[Head(q)]}
       /\ pc' = [p EXCEPT ![Head(q)] = "owner"]

\* pump(): q is the queue, l the active leases and p the tasks at the call.
StartNext(q, l, p) ==
  IF q = <<>>
  THEN queue' = q /\ active' = FALSE /\ lease' = l /\ pc' = p
  ELSE /\ queue' = Tail(q)
       /\ active' = TRUE
       /\ lease' = l \cup {Head(q)}
       /\ pc' = [p EXCEPT ![Head(q)] = "owner"]

\* queue.push() and the pump() that follows it.
Push(t) ==
  /\ IF active
     THEN /\ queue' = Append(queue, t)
          /\ pc' = [pc EXCEPT ![t] = "queued"]
          /\ UNCHANGED <<active, lease>>
     ELSE StartNext(Append(queue, t), lease, [pc EXCEPT ![t] = "queued"])
  /\ UNCHANGED <<store, calls, finished>>

\* The scope a task's code runs in at this moment.
Scope(t) == IF pc[t] = "owner" THEN t ELSE store[t]

\* No nested call made in t's turn is still running.
NestedCallsSettled(t) ==
  \A u \in Tasks : pc[u] \in {"entering", "nested"} => store[u] # t

-----------------------------------------------------------------------------
(* Actions *)

\* Code running in a turn starts another chain of asynchronous code.  The close
\* callback does not: the only one there is marks the runtime closed and closes
\* the database, synchronously (index.ts:180-183).
Spawn(p, c) ==
  /\ pc[p] \in {"owner", "nested"} /\ p # Closer
  /\ pc[c] = "unborn"
  /\ pc' = [pc EXCEPT ![c] = "idle"]
  /\ store' = [store EXCEPT ![c] = Scope(p)]
  /\ UNCHANGED <<queue, active, accepting, lease, calls, finished>>

\* exclusive() called with an active scope: no queueing; the operation itself
\* starts one microtask later.
EnterNested(t) ==
  /\ pc[t] = "idle" /\ calls[t] > 0 /\ t # Closer
  /\ ReEntrant(t)
  /\ pc' = [pc EXCEPT ![t] = "entering"]
  /\ UNCHANGED <<queue, active, accepting, lease, store, calls, finished>>

StartNested(t) ==
  /\ pc[t] = "entering"
  /\ pc' = [pc EXCEPT ![t] = "nested"]
  /\ UNCHANGED <<queue, active, accepting, lease, store, calls, finished>>

EndNested(t) ==
  /\ pc[t] = "nested"
  /\ calls' = [calls EXCEPT ![t] = @ - 1]
  /\ pc' = [pc EXCEPT ![t] = IF calls[t] = 1 THEN "done" ELSE "idle"]
  /\ UNCHANGED <<queue, active, accepting, lease, store, finished>>

\* exclusive() called after shutdown() by a task without an active scope.
Reject(t) ==
  /\ pc[t] = "idle" /\ calls[t] > 0 /\ t # Closer
  /\ ~ReEntrant(t) /\ ~accepting
  /\ pc' = [pc EXCEPT ![t] = "rejected"]
  /\ UNCHANGED <<queue, active, accepting, lease, store, calls, finished>>

\* exclusive() called by a task without an active scope.
Enqueue(t) ==
  /\ pc[t] = "idle" /\ calls[t] > 0 /\ t # Closer
  /\ ~ReEntrant(t) /\ accepting
  /\ Push(t)
  /\ UNCHANGED accepting

\* shutdown() called by close(), which no turn calls: the re-entrant branch of
\* enqueueInternal is not reached.
Shutdown ==
  /\ pc[Closer] = "idle"
  /\ accepting' = FALSE
  /\ Push(Closer)

\* The owner's operation settles; the scope is deactivated and the next
\* waiting operation started in the same synchronous step.
Finish(t) ==
  /\ pc[t] = "owner"
  /\ FailFast \/ NestedCallsSettled(t)
  /\ StartNext(queue, lease \ {t}, [pc EXCEPT ![t] = "done"])
  /\ finished' = Append(finished, t)
  /\ UNCHANGED <<accepting, store, calls>>

Next ==
  \/ Shutdown
  \/ \E t \in Tasks :
       \/ EnterNested(t) \/ StartNested(t) \/ EndNested(t)
       \/ Reject(t) \/ Enqueue(t) \/ Finish(t)
       \/ \E c \in Tasks \ Roots : Spawn(t, c)

\* Operations that run terminate; requests need not arrive.
Fairness ==
  \A t \in Tasks : WF_vars(Finish(t)) /\ WF_vars(StartNested(t) \/ EndNested(t))

Spec == Init /\ [][Next]_vars /\ Fairness

-----------------------------------------------------------------------------
(* Properties *)

\* No code runs under the barrier outside the turn that is running: a nested
\* call always belongs to the current owner (barrier.ts:20-30), also when
\* detached tasks keep the scope of a turn that is over (barrier.ts:93-95).
NestedInsideTurn ==
  \A t \in Tasks : pc[t] \in {"entering", "nested"} => store[t] \in lease

\* Operations of two requests never run side by side under the barrier: while the
\* turn of one runs, no nested call of another does.  "The production
\* implementation serializes mutations, consistent reads, uploads, and backups
\* with one FIFO re-entrant barrier" (packages/runtime/README.md:6-8).
RequestsAreSerialised ==
  \A r, t \in Tasks :
    pc[r] = "owner" /\ r # Closer /\ pc[t] = "nested" => store[t] = r

\* At most one turn at a time, and while no turn runs nothing waits: a push
\* or the end of a turn always starts the next operation (pump()).
OneTurnAndNoneForgotten ==
  /\ \A t, u \in Tasks : pc[t] = "owner" /\ pc[u] = "owner" => t = u
  /\ lease = {t \in Tasks : pc[t] = "owner"}
  /\ ~active => lease = {} /\ queue = <<>>

\* Once the close callback has started nothing waits for a turn and nobody else
\* runs under the barrier, in a turn or nested in one: the database is closed behind the work queued ahead of the
\* close request, never under it (barrier.ts:57-61).
CloseRunsLast ==
  pc[Closer] \in {"owner", "done"} =>
    /\ queue = <<>>
    /\ \A t \in Tasks \ {Closer} : pc[t] \notin {"queued", "owner", "entering", "nested"}

\* The queue holds exactly the tasks that wait, each once; the close request is
\* the last of them.  Together with the properties above it is inductive.
QueueExact ==
  /\ \A i \in 1..Len(queue) : pc[queue[i]] = "queued"
  /\ \A i, j \in 1..Len(queue) : queue[i] = queue[j] => i = j
  /\ \A t \in Tasks : pc[t] = "queued" => \E i \in 1..Len(queue) : queue[i] = t
  /\ accepting <=> pc[Closer] = "idle"
  /\ pc[Closer] = "queued" => queue[Len(queue)] = Closer

\* Every operation that was accepted is run to its end, whatever else arrives,
\* the close callback included.
QueuedIsServed == \A t \in Tasks : pc[t] = "queued" ~> pc[t] = "done"

\* The task whose turn is running, as a sequence.
Holder == IF active THEN <<CHOOSE t \in Tasks : t \in lease>> ELSE <<>>

\* The barrier hands out turns as FifoTurns promises: one to every request, in
\* order of arrival, none after the close request; nested calls, spawned tasks
\* and rejections are invisible there.
Turns == INSTANCE FifoTurns WITH
  arrived <- finished \o Holder \o queue,
  served <- Len(finished),
  open <- accepting
TurnsInOrder == Turns!Spec
=============================================================================
