----------------------------- MODULE Inventory -----------------------------
(***************************************************************************)
(* The inventory under a revision's bill of materials: the commands that   *)
(* create, edit, retire and count items and post stock events, the import  *)
(* that replays dated purchase snapshots, the reservations and line edits  *)
(* of one revision, and the guided inspection, whose outcome is previewed  *)
(* and committed later, when anything may have changed.                    *)
(*                                                                         *)
(* Each action is one audited command in its turn of the barrier (modules  *)
(* Barrier and Transactions).  A command reads the wall clock, which may   *)
(* stand still or step back between two commands: every command picks its  *)
(* own time.  Keys of commands and reservation numbers are in module       *)
(* Reservations.  Versions are abstracted to what they are compared for:   *)
(* `moved` holds the items and lines whose version was bumped since the    *)
(* preview was saved.  A client that sends an expected version sends the   *)
(* current one, or fails.                                                  *)
(***************************************************************************)
EXTENDS StockLedger, BomGaps

CONSTANTS
  Res,              \* reservations that can be active at once
  Times,            \* what the wall clock can show
  LifeTime,         \* how long a preview may be committed
  Docs,             \* the purchase snapshots: when they are dated, and the
                    \* contents the file of that date may have
  NoDoc,
  EventTypes,       \* the types of stock event clients post
  FirstCompat,      \* what the lines' alternatives say at first
  Edits,            \* what clients make of the alternatives later
  MaxEvents,        \* bound: events in the ledger of an item
  MaxQty            \* bound: quantity in a command

ASSUME InventoryAssumption ==
  /\ Times \subseteq Nat
  /\ LifeTime \in Nat
  /\ MaxEvents \in Nat
  /\ MaxQty \in Nat
  /\ NoDoc \notin DOMAIN Docs
  /\ \A d \in DOMAIN Docs :
       /\ Docs[d].at \in Times
       /\ \A rows \in Docs[d].contents :
            /\ DOMAIN rows \subseteq Items
            /\ rows \in [DOMAIN rows -> [confirmed : BOOLEAN, qty : Nat]]
  /\ \A t \in EventTypes : StockKind(t) \in Kinds
  /\ FirstCompat \in [Lines -> [Items -> Compatibilities]]
  /\ Edits \subseteq [line : Lines, item : Items, says : Compatibilities]
  /\ Lines \cap Items = {}

VARIABLES
  row,              \* inventory_items, one row for each item
  ledger,           \* stock_events of each item, in replay order
  compat,           \* the alternatives of the lines
  claim,            \* the active reservations of the revision
  preview,          \* an inspection preview that was saved
  moved,            \* see above
  touched           \* history: what commands changed since the preview

vars == <<row, ledger, compat, claim, preview, moved, touched>>

NoRow == [there |-> FALSE, retired |-> FALSE, confirmed |-> FALSE, reported |-> 0]
Rows == [there : BOOLEAN, retired : BOOLEAN, confirmed : BOOLEAN, reported : Nat]
Events == [kind : Kinds, qty : Nat, at : Times, from : DOMAIN Docs \cup {NoDoc}]
NoClaim == [line |-> NoItem, item |-> NoItem, qty |-> 0]
Claims == [line : Lines, item : Items, qty : 1..MaxQty]
ActionKinds == {"physical_quantity", "compatibility"}
Actions == [kind : ActionKinds, item : Items, converted : BOOLEAN, lines : SUBSET Lines]
NoPreview == [action |-> [kind |-> "none", item |-> NoItem, converted |-> FALSE, lines |-> {}],
              qty |-> 0, expires |-> 0, basis |-> <<>>]

Init ==
  /\ row = [i \in Items |-> NoRow]
  /\ ledger = [i \in Items |-> <<>>]
  /\ compat = FirstCompat
  /\ claim = [r \in Res |-> NoClaim]
  /\ preview = NoPreview
  /\ moved = {}
  /\ touched = {}

-----------------------------------------------------------------------------
(* Reading *)

Balance(i) == Derive(ledger[i])
Active == {r \in Res : claim[r] # NoClaim}
Listed(i) == row[i].there /\ ~row[i].retired

\* apiInventoryFromNative: only confirmed items show their ledger's balance.
View(i) ==
  LET shown == IF row[i].confirmed THEN Balance(i)
               ELSE [onHand |-> row[i].reported, allocated |-> 0]
  IN [ listed    |-> Listed(i),
       confirmed |-> row[i].confirmed,
       quantity  |-> shown.onHand,
       allocated |-> shown.allocated,
       available |-> IF row[i].confirmed THEN Available(shown) ELSE 0 ]

Views == [i \in Items |-> View(i)]

\* The quantity line l has reserved of item i.
Owned == [l \in Lines |-> [i \in Items |->
            SumFunction([r \in {s \in Active : claim[s].line = l /\ claim[s].item = i} |->
                           claim[r].qty])]]

Result == Evaluate(Views, compat, Owned)

\* deriveInspectionActions: one question for all lines it concerns.
Asks(result, kind, i, l) ==
  /\ result.covered["inspect"][l][i] > 0
  /\ \/ kind = "physical_quantity" /\ ~row[i].confirmed
     \/ kind = "compatibility" /\ compat[l][i] = "unconfirmed"

Question(result, kind, i, converted) ==
  [ kind |-> kind, item |-> i, converted |-> converted,
    lines |-> {l \in Lines : /\ Asks(result, kind, i, l)
                             /\ \/ kind = "physical_quantity"
                                \/ converted = (Factor[l][i] # 1)} ]

Questions(result, i) ==
  {Question(result, "physical_quantity", i, FALSE)} \cup
  {Question(result, "compatibility", i, c) : c \in BOOLEAN}

InspectionActions(result) ==
  {a \in UNION {Questions(result, i) : i \in Items} : a.lines # {}}

\* inspectionBasis and the "before" half of a preview.
Basis(a, result) ==
  [ row    |-> row[a.item],
    view   |-> View(a.item),
    lines  |-> [l \in a.lines |-> compat[l]],
    claims |-> {claim[r] : r \in {s \in Active : claim[s].line \in a.lines \/ claim[s].item = a.item}},
    gaps   |-> [l \in a.lines |-> Gap(result, l)] ]

-----------------------------------------------------------------------------
(* Pieces of the commands *)

Event(kind, q, now) == [kind |-> kind, qty |-> q, at |-> now, from |-> NoDoc]

\* appendStockEvent: the ledger must replay with the event in its place.
AppendOne(i, e) ==
  /\ Len(ledger[i]) < MaxEvents
  /\ Accepts(ledger[i], e)
  /\ ledger' = [ledger EXCEPT ![i] = Insert(@, e)]

AppendTwo(i, e, f) ==
  /\ Len(ledger[i]) + 1 < MaxEvents
  /\ Accepts(ledger[i], e)
  /\ Accepts(Insert(ledger[i], e), f)
  /\ ledger' = [ledger EXCEPT ![i] = Insert(Insert(@, e), f)]

\* setInitialVersion, bumpVersion.
Bump(S) == moved' = moved \cup S

\* History: what a command changed, other than saving a preview.
Track ==
  touched' = touched \cup {i \in Items : ledger'[i] # ledger[i]}
                     \cup {l \in Lines : compat'[l] # compat[l]}

-----------------------------------------------------------------------------
(* Inventory commands *)

CreateItem(i, confirmed, q, available, now) ==
  /\ ~row[i].there
  /\ available <= q
  /\ row' = [row EXCEPT ![i] = [there |-> TRUE, retired |-> FALSE, confirmed |-> confirmed,
                                reported |-> q]]
  /\ CASE ~confirmed -> UNCHANGED ledger
       [] confirmed /\ available = q -> AppendOne(i, Event("count", q, now))
       [] confirmed /\ available < q ->
            AppendTwo(i, Event("count", q, now), Event("allocate", q - available, now))
  /\ Bump({i})
  /\ UNCHANGED <<compat, claim, preview>>
  /\ Track

\* (mutant) what is set aside is left out of the quantity written back
UpdateRemainder(S) ==
  /\ S # {} /\ \A i \in S : Listed(i)
  /\ row' = [i \in Items |-> IF i \in S
               THEN [row[i] EXCEPT !.reported = View(i).quantity - Balance(i).allocated]
               ELSE row[i]]
  /\ Bump(S)
  /\ UNCHANGED <<ledger, compat, claim, preview, touched>>

\* updateItem, bulkUpdateItems: the rows of S are written as they were read,
\* with other words in them, all of them or none.
UpdateItems(S) ==
  /\ S # {} /\ \A i \in S : Listed(i)
  /\ row' = [i \in Items |-> IF i \in S
               THEN [row[i] EXCEPT !.reported = View(i).quantity]
               ELSE row[i]]
  /\ Bump(S)
  /\ UNCHANGED <<ledger, compat, claim, preview, touched>>

RetireItem(i) ==
  /\ Listed(i)
  /\ Balance(i).allocated = 0
  /\ row' = [row EXCEPT ![i].retired = TRUE]
  /\ Bump({i})
  /\ UNCHANGED <<ledger, compat, claim, preview, touched>>

\* The row and the event of a count.
WriteCount(i, q, now) ==
  /\ q >= Balance(i).allocated
  /\ row' = [row EXCEPT ![i].confirmed = TRUE, ![i].reported = q]
  /\ AppendOne(i, Event("count", q, now))

\* recordPhysicalCount, and commissionItem of an item not yet confirmed.
RecordCount(i, q, now) ==
  /\ Listed(i)
  /\ WriteCount(i, q, now)
  /\ Bump({i})
  /\ UNCHANGED <<compat, claim, preview>>
  /\ Track

\* (mutant) a posted stock event leaves the item's version alone
RecordQuietly(i, type, q, now) ==
  /\ Listed(i)
  /\ AppendOne(i, Event(StockKind(type), q, now))
  /\ UNCHANGED <<row, compat, claim, preview, moved>>
  /\ Track

RecordStockEvent(i, type, q, now) ==
  /\ Listed(i)
  /\ AppendOne(i, Event(StockKind(type), q, now))
  /\ Bump({i})
  /\ UNCHANGED <<row, compat, claim, preview>>
  /\ Track

-----------------------------------------------------------------------------
(* Reservations and lines of the revision *)

Coverage(l) ==
  MapThenSumSet(LAMBDA r : claim[r].qty * Factor[l][claim[r].item],
                {r \in Active : claim[r].line = l})

\* createReservation of the service, the adapter and the repository.
Reserve(r, l, i, q, now) ==
  /\ claim[r] = NoClaim
  /\ Listed(i) /\ row[i].confirmed
  /\ CanSupply(compat, l, i) /\ Factor[l][i] > 0
  /\ \A s \in Active : claim[s].line = l =>
       (Factor[l][claim[s].item] = 1) = (Factor[l][i] = 1)
  /\ q <= Sets(Most(0, Required[l] - Coverage(l)), Factor[l][i])
  /\ q <= View(i).available
  /\ MapThenSumSet(LAMBDA s : claim[s].qty, {s \in Active : claim[s].item = i}) + q
       <= Balance(i).onHand
  /\ AppendOne(i, Event("allocate", q, now))
  /\ claim' = [claim EXCEPT ![r] = [line |-> l, item |-> i, qty |-> q]]
  /\ Bump({i})
  /\ UNCHANGED <<row, compat, preview>>
  /\ Track

\* A reservation ends by release, or by use, which also takes the stock.
EndReservation(r, used, now) ==
  /\ r \in Active
  /\ LET release == Event("release", claim[r].qty, now)
     IN IF used
        THEN AppendTwo(claim[r].item, release, Event("consume", claim[r].qty, now))
        ELSE AppendOne(claim[r].item, release)
  /\ claim' = [claim EXCEPT ![r] = NoClaim]
  /\ Bump({claim[r].item})
  /\ UNCHANGED <<row, compat, preview>>
  /\ Track

\* updateBomLine with other alternatives.
EditLine(l, i, c) ==
  /\ compat[l][i] # c
  /\ \A r \in Active : claim[r].line # l
  /\ compat' = [compat EXCEPT ![l][i] = c]
  /\ Bump({l})
  /\ UNCHANGED <<row, ledger, claim, preview>>
  /\ Track

-----------------------------------------------------------------------------
(* Import: all rows of a snapshot, then its events, in one transaction.    *)

ImportEvent(d, rows, i) ==
  [ kind |-> IF rows[i].confirmed THEN "receipt" ELSE "evidence",
    qty  |-> IF rows[i].confirmed THEN rows[i].qty ELSE 0,
    at   |-> Docs[d].at,
    from |-> d ]

\* An event keyed by the snapshot's date and the item is stored already.
Imported(d, i) == \E k \in DOMAIN ledger[i] : ledger[i][k].from = d

\* (mutant) the rows of a changed file count as new
ImportAgain(d, rows) ==
  /\ \A i \in DOMAIN rows :
       /\ Len(ledger[i]) < MaxEvents
       /\ Accepts(ledger[i], ImportEvent(d, rows, i))
  /\ row' = [i \in Items |-> IF i \in DOMAIN rows
               THEN [there |-> TRUE, retired |-> FALSE, confirmed |-> rows[i].confirmed,
                     reported |-> rows[i].qty]
               ELSE row[i]]
  /\ ledger' = [i \in Items |-> IF i \in DOMAIN rows
               THEN Insert(ledger[i], ImportEvent(d, rows, i))
               ELSE ledger[i]]
  /\ UNCHANGED <<compat, claim, preview, moved, touched>>

Import(d, rows) ==
  LET New(i) == i \in DOMAIN rows /\ ~Imported(d, i)
  IN /\ \A i \in DOMAIN rows : New(i) =>
          /\ Len(ledger[i]) < MaxEvents
          /\ Accepts(ledger[i], ImportEvent(d, rows, i))
     /\ row' = [i \in Items |-> IF i \in DOMAIN rows
                  THEN [there |-> TRUE, retired |-> FALSE, confirmed |-> rows[i].confirmed,
                        reported |-> rows[i].qty]
                  ELSE row[i]]
     /\ ledger' = [i \in Items |-> IF New(i)
                  THEN Insert(ledger[i], ImportEvent(d, rows, i))
                  ELSE ledger[i]]
     /\ UNCHANGED <<compat, claim, preview, moved, touched>>

-----------------------------------------------------------------------------
(* Guided inspection.  An inconclusive outcome only adds a note to the     *)
(* evidence of the item and is not a step; a question about a conversion   *)
(* (a candidate whose factor is 0) is left out.                            *)

\* previewInspectionCompletion: nothing but the preview is written.
PreviewInspection ==
  LET evaluated == Result
  IN \E a \in InspectionActions(evaluated), q \in 0..MaxQty, now \in Times :
       /\ IF a.kind = "physical_quantity"
          THEN q >= View(a.item).allocated
          ELSE q = 0
       /\ preview' = [action |-> a, qty |-> q, expires |-> now + LifeTime, basis |-> Basis(a, evaluated)]
       /\ moved' = {} /\ touched' = {}
       /\ UNCHANGED <<row, ledger, compat, claim>>

\* What the commit compares before it writes.
StillCurrent(now) ==
  LET a == preview.action
      evaluated == Result
  IN /\ preview # NoPreview
     /\ now < preview.expires
     /\ moved \cap ({a.item} \cup a.lines) = {}
     /\ a \in InspectionActions(evaluated)
     /\ Basis(a, evaluated) = preview.basis

\* commitInspectionCompletion.  The preview stays and may be sent again.
CommitInspection(now) ==
  LET a == preview.action
  IN /\ StillCurrent(now)
     /\ IF a.kind = "physical_quantity"
        THEN /\ WriteCount(a.item, preview.qty, now)
             /\ Bump({a.item})
             /\ UNCHANGED compat
        ELSE /\ compat' = [l \in Lines |->
                  IF l \in a.lines THEN [compat[l] EXCEPT ![a.item] = "confirmed"] ELSE compat[l]]
             /\ Bump(a.lines)
             /\ UNCHANGED <<row, ledger>>
     /\ UNCHANGED <<claim, preview>>
     /\ Track

-----------------------------------------------------------------------------

Quantities == 0..MaxQty

Next ==
  \/ \E now \in Times :
       \/ \E i \in Items :
            \/ \E c \in BOOLEAN, q, available \in Quantities : CreateItem(i, c, q, available, now)
            \/ \E q \in Quantities : RecordCount(i, q, now)
            \/ \E t \in EventTypes, q \in Quantities : RecordStockEvent(i, t, q, now)
            \/ \E r \in Res, l \in Lines, q \in 1..MaxQty : Reserve(r, l, i, q, now)
       \/ \E r \in Res, used \in BOOLEAN : EndReservation(r, used, now)
       \/ CommitInspection(now)
  \/ \E S \in SUBSET Items : UpdateItems(S)
  \/ \E i \in Items : RetireItem(i)
  \/ \E e \in Edits : EditLine(e.line, e.item, e.says)
  \/ \E d \in DOMAIN Docs : \E rows \in Docs[d].contents : Import(d, rows)
  \/ PreviewInspection

Spec == Init /\ [][Next]_vars
-----------------------------------------------------------------------------
(* Properties *)

\* Every variable keeps its type and its bounds.
TypeOK ==
  /\ row \in [Items -> Rows]
  /\ ledger \in [Items -> Seq(Events)]
  /\ \A i \in Items : Len(ledger[i]) <= MaxEvents
  /\ compat \in [Lines -> [Items -> Compatibilities]]
  /\ claim \in [Res -> Claims \cup {NoClaim}]
  /\ preview = NoPreview \/ preview.action \in Actions
  /\ moved \subseteq Items \cup Lines
  /\ touched \subseteq Items \cup Lines

\* The quantity of the events of i at the positions K whose kind is in kinds.
Moved(i, K, kinds) ==
  SumFunctionOnSet([k \in DOMAIN ledger[i] |-> ledger[i][k].qty],
                   {k \in K : ledger[i][k].kind \in kinds})

\* Whatever was appended, with whatever clock, every ledger can be replayed
\* (stock.ts derives it anew on each read and would throw), and the balance
\* it gives is the last count plus and minus what moved after it, and what
\* was set aside minus what was released (docs/stock-evidence-semantics.md).
BalanceIsCountPlusMoves ==
  \A i \in Items :
    LET all == DOMAIN ledger[i]
        counts == {k \in all : ledger[i][k].kind = "count"}
        last == IF counts = {} THEN 0 ELSE Max(counts)
        since == {k \in all : k > last}
    IN /\ Balance(i) # Refused
       /\ Balance(i).onHand = (IF last = 0 THEN 0 ELSE ledger[i][last].qty)
                              + Moved(i, since, Adds) - Moved(i, since, Takes)
       /\ Balance(i).allocated = Moved(i, all, {"allocate"}) - Moved(i, all, {"release"})
       /\ \A k, n \in all : k < n => ledger[i][k].at <= ledger[i][n].at

\* An event changes the balance of its item by what it says, as long as the
\* clock has not stepped back behind an event of that item: two commands at
\* the same instant take effect in the order they were carried out.
EventsTakeEffect ==
  [][\A i \in Items : \A k \in DOMAIN ledger'[i] :
       LET e == ledger'[i][k]
       IN /\ RemoveAt(ledger'[i], k) = ledger[i]
          /\ \A n \in DOMAIN ledger[i] : ledger[i][n].at <= e.at
          => Balance(i)' = Apply(Balance(i), e)]_vars

\* A purchase snapshot is one receipt of an item however often its file is
\* imported, also after the file was edited (import-command.ts: "edits to a
\* purchase snapshot cannot silently become a second receipt event").
OneReceiptPerSnapshot ==
  \A i \in Items : \A k, n \in DOMAIN ledger[i] :
    ledger[i][k].from = ledger[i][n].from /\ ledger[i][k].from # NoDoc => k = n

\* An inspection is committed only when no command has moved stock of its
\* item or edited one of its lines since the person approved the preview: a
\* count never silently swallows a movement the preview did not know.
\* Imports do not bump versions and are not covered.
NoCommandIsLost ==
  [][touched \cap ({preview.action.item} \cup preview.action.lines) # {}
       => ~ \E now \in Times : CommitInspection(now)]_vars

\* What the gap report hands out of an item over all lines is there: what is
\* promised as confirmed is free or reserved by the line it is promised to,
\* nothing is handed out twice, and no line is handed what another reserved.
NothingPromisedTwice ==
  LET result == Result
      Used(mode, i) == [l \in Lines |-> result.used[mode][l][i]]
  IN \A i \in Items :
       /\ SumFunction(Used("confirmed", i)) + SumFunction(Used("inspect", i)) <= View(i).quantity
       /\ \A L \in SUBSET Lines :
            SumFunctionOnSet(Used("confirmed", i), L)
              <= View(i).available + SumFunctionOnSet([l \in Lines |-> Owned[l][i]], L)
       /\ \A l \in Lines :
            CoveredBy(result, "confirmed", l) + CoveredBy(result, "inspect", l) <= Required[l]
=============================================================================
