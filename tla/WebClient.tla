----------------------------- MODULE WebClient ------------------------------
(***************************************************************************)
(* The browser and the server across a network that loses and delays what  *)
(* is sent.  The page keeps, for every command it has not seen confirmed,  *)
(* the idempotency key it was first sent under (the pending maps of        *)
(* api.ts); an upload is begun, written and finalised by requests of their *)
(* own and can expire in between.  The server handles each request in one  *)
(* turn: what Transactions and ArtifactUpload promise of it is taken here. *)
(*                                                                         *)
(* A wish is one thing its user wants done once, retried until the page    *)
(* says it is; the page makes one call at a time for it.                   *)
(***************************************************************************)
EXTENDS Naturals, Sequences, FiniteSets, SequencesExt, FiniteSetsExt

CONSTANTS
  Files, Creates,   \* wishes: a file to upload, a record to create
  Careful,          \* creates that keep the key once an attempt is in doubt
  Size,             \* a file's bytes are the numbers 1..Size
  Nothing,
  MaxFaults         \* bound: losses, delays, refusals, expiries and reloads

Steps == {"create", "begin", "progress", "write", "finalize", "confirm"}
Statuses == {"open", "finalized", "expired"}
Whats == {"ok", "refused"} \cup Statuses   \* what an answer says

ASSUME ClientAssumption ==
  /\ Files \cap Creates = {} /\ Careful \subseteq Creates
  /\ Size \in Nat \ {0} /\ MaxFaults \in Nat
  /\ Nothing \notin [key : Nat, sess : Nat, tried : BOOLEAN, sent : BOOLEAN]
  /\ Nothing \notin [step : Steps, earlier : BOOLEAN]
  /\ Nothing \notin [what : Whats, sess : Nat, received : Nat]

Wishes == Files \cup Creates

VARIABLES
  page,             \* the command each wish has pending, or Nothing
  call,             \* the request each wish is waiting for, or Nothing
  reply,            \* the answer on its way to it, or Nothing
  shown,            \* wishes the page has shown as done
  keys,             \* how many keys the page has drawn
  closed,           \* the page was left or reloaded: its maps are gone
  net,              \* requests not handled yet, whether anyone waits or not
  sessions,         \* upload sessions, in the order they were begun
  done,             \* idempotency records: the key's session, or 0
  made,             \* records created for each wish
  faults

client == <<page, call, reply, shown, keys, closed>>
server == <<sessions, done, made>>
vars   == <<client, net, server, faults>>

Init ==
  /\ page = [w \in Wishes |-> Nothing]
  /\ call = [w \in Wishes |-> Nothing]
  /\ reply = [w \in Wishes |-> Nothing]
  /\ shown = {} /\ keys = 0 /\ closed = FALSE
  /\ net = {}
  /\ sessions = <<>> /\ done = [k \in {} |-> 0] /\ made = [w \in Wishes |-> 0]
  /\ faults = 0

Fault == faults < MaxFaults /\ faults' = faults + 1

-----------------------------------------------------------------------------
(* The page *)

Fresh(k) == [key |-> k, sess |-> 0, tried |-> FALSE, sent |-> FALSE]

\* A request sent again differs from the first by the faults before it.
Send(w, step, p, from, earlier) ==
  /\ call' = [call EXCEPT ![w] = [step |-> step, earlier |-> earlier]]
  /\ net' = net \cup {[wish |-> w, step |-> step, key |-> p.key, sess |-> p.sess,
                       from |-> from, nth |-> faults, live |-> TRUE]}

Keep(w, p) == page' = [page EXCEPT ![w] = p]
Heard(w)   == reply' = [reply EXCEPT ![w] = Nothing]
Idle(w)    == call' = [call EXCEPT ![w] = Nothing] /\ UNCHANGED net

\* The call goes on, without a step of the user, once the session is known.
Continue(w, p) ==
  \/ /\ p.sent
     /\ Keep(w, p) /\ Send(w, "finalize", p, 0, TRUE)
  \/ /\ ~p.sent /\ p.tried
     /\ Keep(w, p) /\ Send(w, "progress", p, 0, TRUE)
  \/ /\ ~p.sent /\ ~p.tried
     /\ Keep(w, [p EXCEPT !.tried = TRUE]) /\ Send(w, "write", p, 0, TRUE)

\* (mutant) every attempt draws a key of its own
PendingAnew(w) == Fresh(keys + 1)

Pending(w) == IF page[w] = Nothing THEN Fresh(keys + 1) ELSE page[w]

Ready(w) == ~closed /\ w \notin shown /\ call[w] = Nothing

DrawKey(w) == keys' = IF Pending(w).key > keys THEN Pending(w).key ELSE keys

TryCreate(w) ==
  /\ w \in Creates /\ Ready(w)
  /\ Keep(w, Pending(w)) /\ DrawKey(w)
  /\ Send(w, "create", Pending(w), 0, page[w] # Nothing)
  /\ UNCHANGED <<reply, shown, closed, server, faults>>

TryUpload(w) ==
  /\ w \in Files /\ Ready(w)
  /\ DrawKey(w)
  /\ IF Pending(w).sess = 0
     THEN Keep(w, Pending(w)) /\ Send(w, "begin", Pending(w), 0, TRUE)
     ELSE Continue(w, Pending(w))
  /\ UNCHANGED <<reply, shown, closed, server, faults>>

Answered(w, step, what) ==
  /\ call[w] # Nothing /\ call[w].step = step
  /\ reply[w] # Nothing /\ reply[w].what = what

Confirm(w) ==
  /\ shown' = shown \cup {w}
  /\ Keep(w, Nothing) /\ Heard(w) /\ Idle(w)

\* The whole command is acknowledged: its key is released.
CommandConfirmed(w) ==
  /\ Answered(w, "create", "ok") \/ Answered(w, "finalize", "ok")
  /\ Confirm(w)
  /\ UNCHANGED <<keys, closed, server, faults>>

\* An answer that settles its own attempt.  A careful command is released
\* only if there was no earlier attempt it says nothing about.
CreateRefused(w) ==
  /\ Answered(w, "create", "refused")
  /\ Keep(w, IF w \in Careful /\ call[w].earlier THEN page[w] ELSE Nothing)
  /\ Heard(w) /\ Idle(w)
  /\ UNCHANGED <<shown, keys, closed, server, faults>>

BeginConfirmed(w) ==
  /\ Answered(w, "begin", "ok")
  /\ Continue(w, [page[w] EXCEPT !.sess = reply[w].sess])
  /\ Heard(w)
  /\ UNCHANGED <<shown, keys, closed, server, faults>>

\* (mutant) the bytes are always sent from the start
ProgressIgnored(w) ==
  /\ Answered(w, "progress", "open")
  /\ UNCHANGED page /\ Send(w, "write", page[w], 0, TRUE)
  /\ Heard(w)
  /\ UNCHANGED <<shown, keys, closed, server, faults>>

\* The upload goes on from the bytes the server has.
ProgressRead(w) ==
  /\ \/ Answered(w, "progress", "open") \/ Answered(w, "progress", "finalized")
  /\ IF reply[w].what = "open" /\ reply[w].received < Size
     THEN UNCHANGED page /\ Send(w, "write", page[w], reply[w].received, TRUE)
     ELSE Keep(w, [page[w] EXCEPT !.sent = TRUE]) /\ Send(w, "finalize", page[w], 0, TRUE)
  /\ Heard(w)
  /\ UNCHANGED <<shown, keys, closed, server, faults>>

WriteConfirmed(w) ==
  /\ Answered(w, "write", "ok")
  /\ Keep(w, [page[w] EXCEPT !.sent = TRUE]) /\ Send(w, "finalize", page[w], 0, TRUE)
  /\ Heard(w)
  /\ UNCHANGED <<shown, keys, closed, server, faults>>

\* An upload's commands stay pending whatever a request is refused for.
UploadRefused(w) ==
  /\ \E step \in Steps \ {"create"} : Answered(w, step, "refused")
  /\ Heard(w) /\ Idle(w)
  /\ UNCHANGED <<page, shown, keys, closed, server, faults>>

\* Expired, says the answer: the page reads the session before it believes it.
ExpiredTold(w) ==
  /\ \E step \in {"progress", "write", "finalize"} : Answered(w, step, "expired")
  /\ UNCHANGED page /\ Send(w, "confirm", page[w], 0, TRUE)
  /\ Heard(w)
  /\ UNCHANGED <<shown, keys, closed, server, faults>>

ExpiryConfirmed(w) ==
  /\ \E what \in {"open", "finalized", "expired"} : Answered(w, "confirm", what)
  /\ Keep(w, IF reply[w].what = "expired" THEN Nothing ELSE page[w])
  /\ Heard(w) /\ Idle(w)
  /\ UNCHANGED <<shown, keys, closed, server, faults>>

\* The request of a call, while it is under way.
Underway(w) == {m \in net : m.wish = w /\ m.live}

Abandon(w) ==
  /\ call[w] # Nothing
  /\ call' = [call EXCEPT ![w] = Nothing]
  /\ net' = {IF m.wish = w THEN [m EXCEPT !.live = FALSE] ELSE m : m \in net}
  /\ Heard(w)
  /\ UNCHANGED <<page, shown, keys, closed, server>>

\* Request or answer is lost: the connection breaks and the attempt is in doubt.
Broken(w) ==
  /\ Underway(w) = {} /\ reply[w] = Nothing
  /\ Abandon(w) /\ UNCHANGED faults

\* The wait ends before the answer comes; the request may still be handled.
TimeOut(w) ==
  /\ Underway(w) # {} \/ reply[w] # Nothing
  /\ Abandon(w) /\ Fault

\* The page is left: nobody waits, and nobody asks for these wishes again.
Reload ==
  /\ ~closed /\ Fault
  /\ closed' = TRUE
  /\ page' = [w \in Wishes |-> Nothing]
  /\ call' = [w \in Wishes |-> Nothing]
  /\ reply' = [w \in Wishes |-> Nothing]
  /\ net' = {[m EXCEPT !.live = FALSE] : m \in net}
  /\ UNCHANGED <<shown, keys, server>>

-----------------------------------------------------------------------------
(* The server: one turn per request *)

Message(what, sess, received) == [what |-> what, sess |-> sess, received |-> received]

Answer(m, message) ==
  /\ net' = net \ {m}
  /\ reply' = IF m.live THEN [reply EXCEPT ![m.wish] = message] ELSE reply

Says(m, what) == Answer(m, Message(what, 0, 0))

Untouched == UNCHANGED <<page, call, shown, keys, closed>>

Known(m) == <<m.step, m.key>> \in DOMAIN done
Remember(m, s) ==
  done' = [k \in DOMAIN done \cup {<<m.step, m.key>>} |->
             IF k = <<m.step, m.key>> THEN s ELSE done[k]]

HandleCreate(m) ==
  /\ m.step = "create"
  /\ \/ Known(m) /\ UNCHANGED <<done, made>>
     \/ ~Known(m) /\ Remember(m, 0) /\ made' = [made EXCEPT ![m.wish] = @ + 1]
  /\ Says(m, "ok")
  /\ Untouched /\ UNCHANGED <<sessions, faults>>

\* (mutant) a begin that is repeated opens another session
BeginUnkeyed(m) ==
  /\ m.step = "begin"
  /\ Remember(m, Len(sessions) + 1)
  /\ sessions' = Append(sessions, [file |-> m.wish, status |-> "open", late |-> FALSE, bytes |-> <<>>])
  /\ Answer(m, Message("ok", Len(sessions) + 1, 0))
  /\ Untouched /\ UNCHANGED <<made, faults>>

\* A replay answers with the session as it was begun.
HandleBegin(m) ==
  /\ m.step = "begin"
  /\ \/ /\ Known(m)
        /\ Answer(m, Message("ok", done[<<m.step, m.key>>], 0))
        /\ UNCHANGED <<done, sessions>>
     \/ /\ ~Known(m)
        /\ Remember(m, Len(sessions) + 1)
        /\ sessions' = Append(sessions,
             [file |-> m.wish, status |-> "open", late |-> FALSE, bytes |-> <<>>])
        /\ Answer(m, Message("ok", Len(sessions) + 1, 0))
  /\ Untouched /\ UNCHANGED <<made, faults>>

\* A session past its deadline reads as open until a request touches it.
HandleRead(m) ==
  /\ m.step \in {"progress", "confirm"}
  /\ Answer(m, Message(sessions[m.sess].status, m.sess, Len(sessions[m.sess].bytes)))
  /\ Untouched /\ UNCHANGED <<server, faults>>

Writable(s) == sessions[s].status = "open" /\ ~sessions[s].late

\* A closed session, and one past its deadline, give the same answer.
Closed(m) ==
  /\ ~Writable(m.sess)
  /\ sessions' = IF sessions[m.sess].status = "open"
                 THEN [sessions EXCEPT ![m.sess].status = "expired", ![m.sess].bytes = <<>>]
                 ELSE sessions
  /\ Says(m, "expired")

Rest(from, to) == [i \in 1..(to - from) |-> from + i]

\* (mutant) bytes are appended wherever the sender thought they belong
WriteAnywhere(m) ==
  /\ m.step = "write"
  /\ \/ Closed(m)
     \/ /\ Writable(m.sess)
        /\ sessions' = [sessions EXCEPT ![m.sess].bytes = @ \o Rest(m.from, Size)]
        /\ Says(m, "ok")
  /\ Untouched /\ UNCHANGED <<done, made, faults>>

HandleWrite(m) ==
  /\ m.step = "write"
  /\ \/ Closed(m)
     \/ /\ Writable(m.sess) /\ Len(sessions[m.sess].bytes) # m.from
        /\ Says(m, "refused") /\ UNCHANGED sessions
     \/ /\ Writable(m.sess) /\ Len(sessions[m.sess].bytes) = m.from
        /\ sessions' = [sessions EXCEPT ![m.sess].bytes = @ \o Rest(m.from, Size)]
        /\ Says(m, "ok")
  /\ Untouched /\ UNCHANGED <<done, made, faults>>

\* The process dies, or the disk fills, in the middle of a write.
WriteBreaks(m) ==
  /\ m.step = "write" /\ Fault
  /\ Writable(m.sess) /\ Len(sessions[m.sess].bytes) = m.from
  /\ \E to \in m.from..(Size - 1) :
       sessions' = [sessions EXCEPT ![m.sess].bytes = @ \o Rest(m.from, to)]
  /\ net' = net \ {m}
  /\ Untouched /\ UNCHANGED <<reply, done, made>>

\* Only the whole file passes the check of its size and digest.  A session has
\* one finalize key here, so a finalised session knows the key.
HandleFinalize(m) ==
  LET s == m.sess IN
  /\ m.step = "finalize"
  /\ \/ Known(m) /\ Says(m, "ok") /\ UNCHANGED <<sessions, done>>
     \/ ~Known(m) /\ Closed(m) /\ UNCHANGED done
     \/ /\ ~Known(m) /\ Writable(s) /\ sessions[s].bytes # Rest(0, Size)
        /\ Says(m, "refused") /\ UNCHANGED <<sessions, done>>
     \/ /\ ~Known(m) /\ Writable(s) /\ sessions[s].bytes = Rest(0, Size)
        /\ sessions' = [sessions EXCEPT ![s].status = "finalized"]
        /\ Remember(m, s) /\ Says(m, "ok")
  /\ Untouched /\ UNCHANGED <<made, faults>>

Handle(m) ==
  \/ HandleCreate(m) \/ HandleBegin(m) \/ HandleRead(m)
  \/ HandleWrite(m) \/ HandleFinalize(m)

\* Signed out, a stale token, a conflict: refused before anything is done.  The
\* page keeps these pending maps when it signs out (clearAuthenticatedState).
Refuse(m) ==
  /\ m.live /\ Fault
  /\ Says(m, "refused")
  /\ Untouched /\ UNCHANGED server

Lose(m) ==
  /\ IF m.live THEN Fault ELSE UNCHANGED faults
  /\ net' = net \ {m}
  /\ UNCHANGED <<client, server>>

Deadline(s) ==
  /\ Writable(s) /\ Fault
  /\ sessions' = [sessions EXCEPT ![s].late = TRUE]
  /\ UNCHANGED <<client, net, done, made>>

-----------------------------------------------------------------------------
(* The system *)

Hear(w) ==
  \/ CommandConfirmed(w) \/ CreateRefused(w)
  \/ BeginConfirmed(w) \/ ProgressRead(w) \/ WriteConfirmed(w)
  \/ UploadRefused(w) \/ ExpiredTold(w) \/ ExpiryConfirmed(w)

Next ==
  \/ \E w \in Wishes : TryCreate(w) \/ TryUpload(w) \/ Hear(w) \/ Broken(w) \/ TimeOut(w)
  \/ \E m \in net : Handle(m) \/ Refuse(m) \/ Lose(m) \/ WriteBreaks(m)
  \/ \E s \in DOMAIN sessions : Deadline(s)
  \/ Reload

\* The user retries, the page handles what it gets, a lost request times out,
\* and the server serves what reaches it (QueuedIsServed of Barrier).
Fairness ==
  /\ \A w \in Wishes :
       /\ WF_vars(TryCreate(w) \/ TryUpload(w))
       /\ WF_vars(Hear(w))
       /\ WF_vars(Broken(w))
  /\ WF_vars(\E m \in net : Handle(m))

Spec == Init /\ [][Next]_vars /\ Fairness

-----------------------------------------------------------------------------
(* Properties *)

Calls == {Nothing} \cup [step : Steps, earlier : BOOLEAN]
Commands ==
  {Nothing} \cup [key : 1..keys, sess : 0..Len(sessions), tried : BOOLEAN, sent : BOOLEAN]

\* Types of the variables; a command whose bytes are sent has a session, and
\* whoever waits has a command pending.
TypeOK ==
  /\ page \in [Wishes -> Commands]
  /\ call \in [Wishes -> Calls]
  /\ \A w \in Wishes : call[w] # Nothing => page[w] # Nothing
  /\ \A w \in Wishes : page[w] # Nothing /\ page[w].sent => page[w].sess # 0
  /\ shown \subseteq Wishes /\ keys \in Nat /\ closed \in BOOLEAN
  /\ \A s \in DOMAIN sessions :
       /\ sessions[s].file \in Files /\ sessions[s].status \in Statuses
       /\ IsPrefix(sessions[s].bytes, Rest(0, Size))
  /\ \A k \in DOMAIN done : done[k] \in 0..Len(sessions)
  /\ made \in [Wishes -> Nat]
  /\ faults \in 0..MaxFaults

SessionsOf(w) == {s \in DOMAIN sessions : sessions[s].file = w}
Committed(w) ==
  made[w] + Cardinality({s \in SessionsOf(w) : sessions[s].status = "finalized"})

\* What the user asked for once is never done twice, however often it is
\* retried and whatever is lost, late or refused; and the page shows it as
\* done only if it is (api.ts:3186-3188, 3723-3742).
ExactlyOnce ==
  \A w \in Wishes : Committed(w) <= 1 /\ (w \in shown => Committed(w) = 1)

\* A second session is begun for a file only when the first can never be
\* finalised any more (api.ts:3742-3743).
OneLiveSession ==
  \A w \in Files :
    Cardinality({s \in SessionsOf(w) : sessions[s].status # "expired"}) <= 1

\* Whoever keeps retrying is told in the end that it is done: no mixture of
\* lost answers, late requests, half-written bytes and expired sessions
\* leaves a command that no retry can complete (api.ts:3711-3749).
EveryWishIsGranted == \A w \in Wishes : <>(w \in shown \/ closed)
=============================================================================
