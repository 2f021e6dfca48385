---------------------------- MODULE Reservations ----------------------------
(***************************************************************************)
(* Reserved stock from the set-aside to the close-out: the commands of     *)
(* ApplicationService that create, release, use and settle reservations,   *)
(* the project life cycle that releases them, the stock commands that move *)
(* the balances under them, and the reconciliation that settles what is    *)
(* left.  Each action is one whole audited command: its replay check, its  *)
(* guards in the service, adapter, repository and domain, its writes and   *)
(* its idempotency record, which commit together (module Transactions shows  *)
(* why).  A command that fails changes nothing and is not a step.          *)
(*                                                                         *)
(* A revision stands for one consumed BOM line; the items that satisfy it  *)
(* are Candidates.  Quantities share one unit.  Row versions are abstracted *)
(* to what they are compared for: draft[v].current says that no version in *)
(* the basis of revision v's draft was bumped since it was saved.          *)
(***************************************************************************)
EXTENDS StockEvents, FiniteSets, FiniteSetsExt

CONSTANTS
  Items, Projects, Revisions, Res,
  ProjectOf,        \* the project of each revision
  Candidates,       \* the items that satisfy each revision's BOM line
  Required,         \* the quantity that line requires
  Contexts,         \* the <<actor, idempotency key>> pairs requests carry
  BodyKeys,         \* keys a stock event's body may carry beside the header
  NoKey,            \* a request or body without a key
  EventTypes,       \* the types of stock event clients post
  MaxQty            \* bound: stock of an item and quantity of a request

ASSUME ReservationsAssumption ==
  /\ ProjectOf \in [Revisions -> Projects]
  /\ Candidates \in [Revisions -> SUBSET Items]
  /\ Required \in [Revisions -> Nat]
  /\ MaxQty \in Nat

VARIABLES
  balance,          \* deriveStockBalance of each item's events
  evidence,         \* "confirmed", "commissionable" or "other"
  retired,          \* the items retired from the inventory
  status,           \* of each reservation id
  claim,            \* revision, item and quantity of each reservation
  archived,         \* projects whose status is "archived"
  removed,          \* projects with removed_at set
  draft,            \* the reconciliation draft of each revision
  ledger,           \* idempotency keys of the stock events stored so far
  replied,          \* contexts with a stored idempotency record
  used              \* history: stock each reservation took off the shelf

stock  == <<balance, evidence, retired>>
claims == <<status, claim, used>>
life   == <<archived, removed>>
vars   == <<stock, claims, life, draft, ledger, replied>>

Statuses == {"unused", "active", "released", "consumed", "settled"}
Ended == {"released", "consumed", "settled"}
NoClaim == [rev |-> "none", item |-> "none", qty |-> 0]
Claims == [rev : Revisions, item : Items, qty : 1..MaxQty]
NoDraft == [state |-> "none", plan |-> <<>>, current |-> FALSE, basis |-> <<>>]

Init ==
  /\ evidence \in [Items -> {"confirmed", "commissionable", "other"}]
  /\ balance \in [Items -> {b \in [onHand : 0..MaxQty, allocated : {0}] : TRUE}]
  /\ \A i \in Items : evidence[i] # "confirmed" => balance[i] = Empty
  /\ retired = {}
  /\ status = [r \in Res |-> "unused"]
  /\ claim = [r \in Res |-> NoClaim]
  /\ archived = {} /\ removed = {}
  /\ draft = [v \in Revisions |-> NoDraft]
  /\ ledger = {} /\ replied = {}
  /\ used = [r \in Res |-> 0]

-----------------------------------------------------------------------------
(* Reading the state *)

Active == {r \in Res : status[r] = "active"}
ActiveOf(v) == {r \in Active : claim[r].rev = v}
ActiveIn(p) == {r \in Active : ProjectOf[claim[r].rev] = p}
ReservationsOf(v) == {r \in Res : status[r] # "unused" /\ claim[r].rev = v}

\* The quantity that the reservations in R claim, and what of it is item i.
Quantity(R) == SumFunction([r \in R |-> claim[r].qty])
Claimed(i, R) == Quantity({r \in R : claim[r].item = i})

Readable(p) == p \notin removed
ActiveProject(p) == Readable(p) /\ p \notin archived

\* The rows of reconciliationSource whose versions and balances are hashed.
ItemsOf(v) == {claim[r].item : r \in ReservationsOf(v)}
Basis(v) ==
  [ stock |-> [i \in ItemsOf(v) |-> balance[i]],
    open  |-> ActiveOf(v),
    all   |-> ReservationsOf(v) ]

-----------------------------------------------------------------------------
(* Pieces every command is made of *)

\* mutate(): a context that was answered before is replayed, not executed.
Fresh(c) == c[2] = NoKey \/ c \notin replied

\* (mutant) the answer is not stored, so the key can be used again
ReplyUnstored(c) == c \in Contexts /\ replied' = replied

Reply(c) == replied' = IF c[2] = NoKey THEN replied ELSE replied \cup {c}

\* (mutant) only the items still reserved count as part of a draft's basis
TouchReserved(items) ==
  draft' = [v \in Revisions |->
    IF draft[v].state = "draft" /\ {claim'[r].item : r \in ActiveOf(v)'} \cap items # {}
    THEN [draft[v] EXCEPT !.current = FALSE]
    ELSE draft[v]]

\* The version of every item in `items` is bumped: drafts built on it are stale.
Touch(items) ==
  draft' = [v \in Revisions |->
    IF draft[v].state = "draft" /\ {claim'[r].item : r \in ReservationsOf(v)'} \cap items # {}
    THEN [draft[v] EXCEPT !.current = FALSE]
    ELSE draft[v]]

\* appendStockEvent: an event whose key is stored already is not applied.
Key(k) == IF k = NoKey THEN {} ELSE {<<"command", k>>}
Known(keys) == keys \cap ledger # {}

\* (mutant) a release clears whatever is allocated of the item
AfterClearing(R, why) ==
  [i \in Items |->
    [balance[i] EXCEPT !.allocated =
       IF \E r \in R : claim[r].item = i /\ <<why, r>> \notin ledger THEN 0 ELSE @]]

\* The balances after releasing the reservations in R by events keyed <<why, r>>.
AfterRelease(R, why) ==
  [i \in Items |->
    [balance[i] EXCEPT !.allocated =
       @ - Claimed(i, {r \in R : <<why, r>> \notin ledger})]]

ReleaseAll(R, why, end) ==
  /\ \A i \in Items : ValidBalance(AfterRelease(R, why)[i])
  /\ balance' = AfterRelease(R, why)
  /\ ledger' = ledger \cup {<<why, r>> : r \in R}
  /\ status' = [r \in Res |-> IF r \in R THEN end ELSE status[r]]
  /\ UNCHANGED <<claim, used, evidence, retired>>
  /\ Touch({claim[r].item : r \in R})

-----------------------------------------------------------------------------
(* Reservations *)

CreateReservation(c, r, v, i, q) ==
  /\ Fresh(c)
  /\ ActiveProject(ProjectOf[v])
  /\ draft[v].state # "committed"
  /\ i \in Candidates[v] /\ i \notin retired /\ evidence[i] = "confirmed"
  /\ Quantity(ActiveOf(v)) + q <= Required[v]
  /\ q <= Available(balance[i])
  /\ Claimed(i, Active) + q <= balance[i].onHand
  /\ status[r] = "unused"
  /\ balance' = [balance EXCEPT ![i] = Apply(@, [kind |-> "allocate", qty |-> q])]
  /\ ledger' = ledger \cup {<<"allocate", r>>}
  /\ status' = [status EXCEPT ![r] = "active"]
  /\ claim' = [claim EXCEPT ![r] = [rev |-> v, item |-> i, qty |-> q]]
  /\ Touch({i})
  /\ Reply(c)
  /\ UNCHANGED <<evidence, retired, used, life>>

\* (mutant) the status is not asked
ReleaseAgain(c, r) ==
  /\ Fresh(c)
  /\ status[r] # "unused"
  /\ ActiveProject(ProjectOf[claim[r].rev])
  /\ ReleaseAll({r}, "release", "released")
  /\ Reply(c)
  /\ UNCHANGED life

ReleaseReservation(c, r) ==
  /\ Fresh(c)
  /\ status[r] = "active"
  /\ ActiveProject(ProjectOf[claim[r].rev])
  /\ ReleaseAll({r}, "release", "released")
  /\ Reply(c)
  /\ UNCHANGED life

\* recordUsage: release the allocation, append the client's consume event
\* under the client's own key, end the reservation.
RecordUsage(c, r) ==
  LET i == claim[r].item
      q == claim[r].qty
      free == AfterRelease({r}, "consume-release")[i]
      rest == IF Known(Key(c[2])) THEN free
              ELSE Apply(free, [kind |-> "consume", qty |-> q])
  IN
  /\ Fresh(c)
  /\ status[r] = "active"
  /\ ActiveProject(ProjectOf[claim[r].rev])
  /\ i \notin retired
  /\ ValidBalance(free) /\ ValidBalance(rest)
  /\ balance' = [balance EXCEPT ![i] = rest]
  /\ ledger' = ledger \cup {<<"consume-release", r>>} \cup Key(c[2])
  /\ status' = [status EXCEPT ![r] = "consumed"]
  /\ used' = [used EXCEPT ![r] = free.onHand - rest.onHand]
  /\ UNCHANGED <<claim, evidence, retired, life>>
  /\ Touch({i})
  /\ Reply(c)

-----------------------------------------------------------------------------
(* Projects *)

\* (mutant) the reservations of the project are kept
ArchiveOnly(c, p) ==
  /\ Fresh(c)
  /\ Readable(p)
  /\ archived' = archived \cup {p}
  /\ Reply(c)
  /\ UNCHANGED <<stock, claims, removed, draft, ledger>>

\* Archiving an archived project answers without doing anything.
ArchiveProject(c, p) ==
  /\ Fresh(c)
  /\ Readable(p)
  /\ IF p \in archived
     THEN UNCHANGED <<stock, claims, life, draft, ledger>>
     ELSE /\ ReleaseAll(ActiveIn(p), "archive", "released")
          /\ archived' = archived \cup {p}
          /\ UNCHANGED removed
  /\ Reply(c)

RestoreProject(c, p) ==
  /\ Fresh(c)
  /\ Readable(p)
  /\ archived' = archived \ {p}
  /\ Reply(c)
  /\ UNCHANGED <<stock, claims, removed, draft, ledger>>

RemoveProject(c, p) ==
  /\ Fresh(c)
  /\ Readable(p)
  /\ ReleaseAll(ActiveIn(p), "remove", "released")
  /\ removed' = removed \cup {p}
  /\ Reply(c)
  /\ UNCHANGED archived

-----------------------------------------------------------------------------
(* Inventory *)

\* recordStockEvent of any type but "count".
RecordStockEvent(c, body, i, type, q) ==
  LET e    == [kind |-> StockKind(type), qty |-> q]
      key  == IF body # NoKey THEN Key(body) ELSE Key(c[2])
      next == Apply(balance[i], e)
  IN
  /\ Fresh(c)
  /\ i \notin retired
  /\ ValidEvent(e)
  /\ IF Known(key)
     THEN UNCHANGED <<stock, claims, draft, ledger>>
     ELSE /\ ValidBalance(next) /\ next.onHand <= MaxQty
          /\ balance' = [balance EXCEPT ![i] = next]
          /\ ledger' = ledger \cup key
          /\ UNCHANGED <<evidence, retired, claims>>
          /\ Touch({i})
  /\ Reply(c)
  /\ UNCHANGED life

\* (mutant) the count is not compared with what is allocated
CountBlindly(c, i, q, how) ==
  /\ Fresh(c)
  /\ i \notin retired
  /\ how = "commission" => evidence[i] = "commissionable"
  /\ balance' = [balance EXCEPT ![i] = Apply(@, [kind |-> "count", qty |-> q])]
  /\ evidence' = [evidence EXCEPT ![i] = "confirmed"]
  /\ UNCHANGED <<retired, claims, ledger, life>>
  /\ Touch({i})
  /\ Reply(c)

\* recordPhysicalCount and commissionInventoryItem share recordCount.
RecordCount(c, i, q, how) ==
  LET key == IF c[2] = NoKey THEN {} ELSE {<<how, <<i, c[2]>> >>} IN
  /\ Fresh(c)
  /\ i \notin retired
  /\ how = "commission" => evidence[i] = "commissionable"
  /\ IF Known(key)
     THEN UNCHANGED <<stock, claims, draft, ledger>>
     ELSE /\ q >= balance[i].allocated
          /\ balance' = [balance EXCEPT ![i] = Apply(@, [kind |-> "count", qty |-> q])]
          /\ evidence' = [evidence EXCEPT ![i] = "confirmed"]
          /\ ledger' = ledger \cup key
          /\ UNCHANGED <<retired, claims>>
          /\ Touch({i})
  /\ Reply(c)
  /\ UNCHANGED life

\* updateInventoryItem: descriptive fields only, but a new version.
UpdateItem(c, i) ==
  /\ Fresh(c)
  /\ i \notin retired
  /\ UNCHANGED <<stock, claims, life, ledger>>
  /\ Touch({i})
  /\ Reply(c)

\* (mutant) retiring moves no version
RetireUntouched(c, i) ==
  /\ Fresh(c)
  /\ i \notin retired
  /\ balance[i].allocated = 0
  /\ retired' = retired \cup {i}
  /\ UNCHANGED <<balance, evidence, claims, life, ledger, draft>>
  /\ Reply(c)

RetireItem(c, i) ==
  /\ Fresh(c)
  /\ i \notin retired
  /\ balance[i].allocated = 0
  /\ retired' = retired \cup {i}
  /\ UNCHANGED <<balance, evidence, claims, life, ledger>>
  /\ Touch({i})
  /\ Reply(c)

-----------------------------------------------------------------------------
(* Reconciliation *)

\* (mutant) a committed close-out is opened again
SaveAfterCommit(c, v, plan) ==
  /\ Fresh(c)
  /\ Readable(ProjectOf[v])
  /\ ItemsOf(v) \cap retired = {}
  /\ \A r \in DOMAIN plan :
       r \in ActiveOf(v) /\ plan[r] \in 0..claim[r].qty
  /\ draft' = [draft EXCEPT ![v] =
                 [state |-> "draft", plan |-> plan, current |-> TRUE, basis |-> Basis(v)]]
  /\ Reply(c)
  /\ UNCHANGED <<stock, claims, life, ledger>>

\* plan[r]: how much of reservation r is consumed, lost or converted; the rest
\* of r is returned.  A reservation outside DOMAIN plan is not accounted for.
\* The preview also compares the balances, which refuses nothing as long as
\* ReservedStockIsHeld is true.
SaveDraft(c, v, plan) ==
  /\ Fresh(c)
  /\ Readable(ProjectOf[v])
  /\ ItemsOf(v) \cap retired = {}
  /\ draft[v].state # "committed"
  /\ \A r \in DOMAIN plan :
       r \in ActiveOf(v) /\ plan[r] \in 0..claim[r].qty
  /\ draft' = [draft EXCEPT ![v] =
                 [state |-> "draft", plan |-> plan, current |-> TRUE, basis |-> Basis(v)]]
  /\ Reply(c)
  /\ UNCHANGED <<stock, claims, life, ledger>>

\* What the plan of revision v takes of reservation r, and of item i.
Taken(v, r) ==
  IF <<"reconcile-consume", r>> \in ledger THEN 0 ELSE draft[v].plan[r]
Destroyed(v, i) ==
  SumFunction([r \in {s \in ActiveOf(v) : claim[s].item = i} |-> Taken(v, r)])

\* The balances a close-out leaves: it releases what the revision still holds
\* and then takes what the plan says.
Freed(v) == AfterRelease(ActiveOf(v), "reconcile-release")
Rest(v) == [i \in Items |-> [Freed(v)[i] EXCEPT !.onHand = @ - Destroyed(v, i)]]

\* commitReconciliation: the basis is unchanged, every active reservation is
\* accounted for, the releases are appended before the destructive events.
CommitReconciliation(c, v) ==
  LET R == ActiveOf(v) IN
  /\ Fresh(c)
  /\ ActiveProject(ProjectOf[v])
  /\ draft[v].state = "draft"
  /\ ItemsOf(v) \cap retired = {}
  /\ draft[v].current /\ draft[v].basis = Basis(v)
  /\ DOMAIN draft[v].plan = R
  /\ \A i \in Items : ValidBalance(Freed(v)[i]) /\ ValidBalance(Rest(v)[i])
  /\ balance' = Rest(v)
  /\ ledger' = ledger \cup {<<"reconcile-release", r>> : r \in R}
                      \cup {<<"reconcile-consume", r>> : r \in {s \in R : draft[v].plan[s] > 0}}
  /\ status' = [r \in Res |-> IF r \in R THEN "settled" ELSE status[r]]
  /\ used' = [r \in Res |-> IF r \in R THEN Taken(v, r) ELSE used[r]]
  /\ draft' = [w \in Revisions |->
       IF w = v THEN [draft[v] EXCEPT !.state = "committed"]
       ELSE IF draft[w].state = "draft" /\ ItemsOf(w) \cap {claim[r].item : r \in R} # {}
            THEN [draft[w] EXCEPT !.current = FALSE]
            ELSE draft[w]]
  /\ Reply(c)
  /\ UNCHANGED <<claim, evidence, retired, life>>

-----------------------------------------------------------------------------
Plans(v) == UNION {[R -> 0..MaxQty] : R \in SUBSET ActiveOf(v)}

Next ==
  \E c \in Contexts :
    \/ \E r \in Res :
         \/ \E v \in Revisions, i \in Items, q \in 1..MaxQty : CreateReservation(c, r, v, i, q)
         \/ ReleaseReservation(c, r)
         \/ RecordUsage(c, r)
    \/ \E p \in Projects : ArchiveProject(c, p) \/ RestoreProject(c, p) \/ RemoveProject(c, p)
    \/ \E i \in Items :
         \/ \E b \in BodyKeys \cup {NoKey}, t \in EventTypes, q \in 0..MaxQty :
              RecordStockEvent(c, b, i, t, q)
         \/ \E q \in 0..MaxQty, how \in {"count", "commission"} : RecordCount(c, i, q, how)
         \/ UpdateItem(c, i)
         \/ RetireItem(c, i)
    \/ \E v \in Revisions :
         \/ \E plan \in Plans(v) : SaveDraft(c, v, plan)
         \/ CommitReconciliation(c, v)

Spec == Init /\ [][Next]_vars

-----------------------------------------------------------------------------
(* Properties *)

TypeOK ==
  /\ balance \in [Items -> Balances]
  /\ evidence \in [Items -> {"confirmed", "commissionable", "other"}]
  /\ retired \subseteq Items
  /\ status \in [Res -> Statuses]
  /\ claim \in [Res -> Claims \cup {NoClaim}]
  /\ \A r \in Res : status[r] # "unused" => claim[r] \in Claims
  /\ archived \subseteq Projects
  /\ removed \subseteq Projects
  /\ DOMAIN draft = Revisions
  /\ \A v \in Revisions : draft[v].state \in {"none", "draft", "committed"}
  /\ replied \subseteq Contexts
  /\ used \in [Res -> 0..MaxQty]

\* Stock set aside for a project stays set aside until the reservation ends
\* (docs/stock-evidence-semantics.md:16): the ledger's allocation covers every
\* active reservation, so each of them can still be released or used, and its
\* item is never retired, whatever ended, was restored or counted in between
\* (inventory-adapter.ts:171).
ReservedStockIsHeld ==
  /\ \A i \in Items : Claimed(i, Active) <= balance[i].allocated
  /\ \A r \in Active : claim[r].item \notin retired

\* No reservation outlives the life of its project: archiving and removing
\* release every one, and nothing reserves for them afterwards
\* (project-adapter.ts:290-299, 343-360).
NoReservationOutlivesItsProject ==
  \A r \in Active : ActiveProject(ProjectOf[claim[r].rev])

\* A revision whose close-out is committed has no reserved stock left and gets
\* none again (service.ts:2507-2509).
CommittedMeansSettled ==
  \A v \in Revisions : draft[v].state = "committed" => ActiveOf(v) = {}

\* The two ends of the work a reservation is made for: neither leaves stock set
\* aside that no command of that work will ever settle.
NothingLeftReserved == NoReservationOutlivesItsProject /\ CommittedMeansSettled

\* The ledger pairs the allocation of every reservation that has ended with
\* exactly one release, whichever of the five paths ended it, and has none for
\* a reservation that is active (the deterministic event keys of
\* project-repository.ts:170, 205, 241 and application/src/reconciliation.ts).
ReleaseKinds == {"release", "consume-release", "archive", "remove", "reconcile-release"}
OneReleasePerReservation ==
  \A r \in Res :
    /\ <<"allocate", r>> \in ledger <=> status[r] # "unused"
    /\ status[r] \notin Ended => \A why \in ReleaseKinds : <<why, r>> \notin ledger
    /\ status[r] \in Ended =>
         \E why \in ReleaseKinds :
           /\ <<why, r>> \in ledger
           /\ \A other \in ReleaseKinds : <<other, r>> \in ledger => other = why

\* A reservation ends once: released, consumed and settled are final, and the
\* claim of a reservation is never rewritten (domain/src/projects.ts:509-523).
EndsOnce ==
  [][\A r \in Res :
       /\ status[r] \in Ended => status'[r] = status[r] /\ used'[r] = used[r]
       /\ status[r] # "unused" => claim'[r] = claim[r]]_vars

\* A consumed reservation took its whole quantity off the shelf
\* (project-repository.ts:176-184).
ConsumedStockIsTaken ==
  \A r \in Res : status[r] = "consumed" => used[r] = claim[r].qty

\* A settled reservation took off the shelf what the committed review says.
SettledAsReviewed ==
  \A r \in Res : status[r] = "settled" =>
    LET d == draft[claim[r].rev] IN
    d.state = "committed" /\ r \in DOMAIN d.plan /\ used[r] = d.plan[r]

\* A draft none of whose versions moved still describes the stock and the
\* reservations it was reviewed against (post-project-reconciliation.md:43-46):
\* every command that changes them bumps a version the basis contains.
CurrentDraftIsTrue ==
  \A v \in Revisions :
    draft[v].state = "draft" /\ draft[v].current => draft[v].basis = Basis(v)

\* A complete review of the present state can be settled: its items are still in
\* the inventory and the ledger refuses neither a release nor what is taken, so
\* the only reason to refuse it is that something changed since it was saved
\* (application/src/reconciliation.ts:127-229, 271).
ReviewedCanBeSettled ==
  \A v \in Revisions :
    draft[v].state = "draft" /\ draft[v].current /\ DOMAIN draft[v].plan = ActiveOf(v) =>
      /\ ItemsOf(v) \cap retired = {}
      /\ \A i \in Items : ValidBalance(Freed(v)[i]) /\ ValidBalance(Rest(v)[i])
=============================================================================
