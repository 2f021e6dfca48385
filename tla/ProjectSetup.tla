---------------------------- MODULE ProjectSetup ----------------------------
(***************************************************************************)
(* A project is proposed with its bill of materials and the stock to set   *)
(* aside for it; what that would leave open is shown, and confirmed later  *)
(* by a commit that creates all of it or nothing (previewProjectSetup and  *)
(* commitProjectSetup of packages/application/src/service.ts, commitPreview*)
(* of packages/runtime/src/project-setup-adapter.ts).                      *)
(*                                                                         *)
(* What a preview saves depends on the inventory it has read only, so that *)
(* reading and saving, two turns of the program, are one action here.  The *)
(* commit is one audited command in its turn (module Transactions).  Any   *)
(* other command may change an item in between: modules Inventory and      *)
(* Reservations say how, here it is any change that leaves a balance and   *)
(* bumps the item's version.  An import bumps none.  Versions are compared *)
(* with those of the preview only: `moved` has the items bumped since.     *)
(***************************************************************************)
EXTENDS StockEvents, BomGaps

CONSTANTS
  Previews,         \* preview ids
  Plans,            \* the proposed reservations, in the order of their names
  ProjectOf,        \* the project id each preview proposes
  Compat,           \* what the proposed lines' alternatives say
  Constrained,      \* the items that an edit may make fit the lines or not
  MaxQty            \* bound: stock of each item

PlanSteps == [line : Lines, item : Items, qty : Nat \ {0}]

ASSUME SetupAssumption ==
  /\ Plans \subseteq Seq(PlanSteps)
  /\ Compat \in [Lines -> [Items -> Compatibilities]]
  /\ Constrained \subseteq Items /\ MaxQty \in [Items -> Nat]
  /\ DOMAIN ProjectOf = Previews /\ IsFiniteSet(Previews)

VARIABLES
  row,              \* inventory_items, one row for each item
  balance,          \* what each item's ledger gives
  preview,          \* project_setup_previews, and what a commit answered
  moved,            \* for each preview, see above
  own               \* the reservations of the project a preview has become

vars == <<row, balance, preview, moved, own>>

NoRow == [there |-> FALSE, retired |-> FALSE, confirmed |-> FALSE, fits |-> TRUE, reported |-> 0]
\* A row fits if its item satisfies the constraints of the lines (module BomGaps
\* has none).  No one reads what was reported of a confirmed item.
RowsOf(i) ==
  {r \in [there : BOOLEAN, retired : BOOLEAN, confirmed : BOOLEAN, fits : BOOLEAN,
          reported : 0..MaxQty[i]] :
     /\ (r.confirmed \/ ~r.there) => r.reported = 0
     /\ r.fits \/ i \in Constrained}
BalancesOf(i) == {b \in [onHand : 0..MaxQty[i], allocated : 0..MaxQty[i]] : ValidBalance(b)}
\* An absent preview, and one that no commit looks at any more.
Blank(status) ==
  [status |-> status, plan |-> <<>>, seen |-> <<>>, gaps |-> <<>>, answer |-> <<>>]

Init ==
  /\ row = [i \in Items |-> NoRow]
  /\ balance = [i \in Items |-> Empty]
  /\ preview = [p \in Previews |-> Blank("none")]
  /\ moved = [p \in Previews |-> {}]
  /\ own = [p \in Previews |-> Nothing]

-----------------------------------------------------------------------------
(* Reading *)

Unlisted == [listed |-> FALSE, fits |-> FALSE, confirmed |-> FALSE, quantity |-> 0, allocated |-> 0,
             available |-> 0]

\* What a reader is shown of item i when its ledger gives b.
View(i, b) ==
  IF ~row[i].there \/ row[i].retired THEN Unlisted
  ELSE [ listed    |-> TRUE,
         fits      |-> row[i].fits,
         confirmed |-> row[i].confirmed,
         quantity  |-> IF row[i].confirmed THEN b.onHand ELSE row[i].reported,
         allocated |-> IF row[i].confirmed THEN b.allocated ELSE 0,
         available |-> IF row[i].confirmed THEN Available(b) ELSE 0 ]

Views == [i \in Items |-> View(i, balance[i])]

\* The quantity of the steps S of a plan.
Quantity(plan, S) == SumFunctionOnSet([n \in DOMAIN plan |-> plan[n].qty], S)

Planned(plan, i) == Quantity(plan, {n \in DOMAIN plan : plan[n].item = i})

PlannedOwn(plan) ==
  [l \in Lines |-> [i \in Items |->
     Quantity(plan, {n \in DOMAIN plan : plan[n].line = l /\ plan[n].item = i})]]

\* setupProjectedInventory: the inventory as the plan would leave it.
Projected(view, plan) ==
  [i \in Items |->
     [view[i] EXCEPT !.available = Most(0, @ - Planned(plan, i)),
                     !.allocated = @ + Planned(plan, i)]]

Gaps(view, o) ==
  LET result == Evaluate([i \in Items |-> [view[i] EXCEPT !.listed = view[i].fits]], Compat, o)
  IN [l \in Lines |-> Gap(result, l)]

\* The gaps a plan leaves, evaluated before its reservations exist.
PlannedGaps(view, plan) == Gaps(Projected(view, plan), PlannedOwn(plan))

Matched(view, l) == {i \in Items : view[i].fits /\ IsCandidate(Compat, l, i)}

\* Every candidate can change the decision, also one nothing is planned for.
Affected(view, plan) ==
  (UNION {Matched(view, l) : l \in Lines}) \cup {plan[n].item : n \in DOMAIN plan}

\* What line l is given by the first n steps of a plan, in its own unit.
Coverage(plan, n, l) ==
  SumFunctionOnSet([k \in DOMAIN plan |-> plan[k].qty * Factor[l][plan[k].item]],
                   {k \in 1..n : plan[k].line = l})

\* canReserveBomItem and the evidence a reservation needs.
MayReserve(view, s) ==
  view[s.item].listed /\ Confirmed(view, Compat, s.line, s.item)

\* What is wrong with one step of a plan after those before it.
StepError(view, plan, n) ==
  LET s == plan[n] IN
  \/ ~MayReserve(view, s) \/ ~view[s.item].fits
  \/ \E k \in 1..(n - 1) : /\ plan[k].line = s.line
                           /\ (Factor[s.line][plan[k].item] = 1) # (Factor[s.line][s.item] = 1)
  \/ s.qty > Sets(Most(0, Required[s.line] - Coverage(plan, n - 1, s.line)),
                  Factor[s.line][s.item])

Named(l, i) == Exact[l] = i \/ Compat[l][i] # "none"

\* (mutant) each reservation is held against the stock alone
FieldErrorsOneByOne(view, plan) ==
  \/ \E l \in Lines, i \in Items : Named(l, i) /\ ~view[i].listed
  \/ \E n \in DOMAIN plan : StepError(view, plan, n) \/ plan[n].qty > view[plan[n].item].available

\* The fieldErrors of a preview, which refuse its commit.
FieldErrors(view, plan) ==
  \/ \E l \in Lines, i \in Items : Named(l, i) /\ ~view[i].listed
  \/ \E n \in DOMAIN plan : StepError(view, plan, n)
  \/ \E i \in Items : view[i].listed /\ Planned(plan, i) > view[i].available

-----------------------------------------------------------------------------
(* The setup *)

Bumped(S) ==
  [p \in Previews |-> IF preview[p].status = "active" THEN moved[p] \cup S ELSE {}]

PreviewSetup(p, plan) ==
  /\ preview[p].status = "none"
  /\ preview' = [preview EXCEPT ![p] =
       IF FieldErrors(Views, plan) THEN Blank("invalid")
       ELSE [Blank("active") EXCEPT !.plan = plan, !.seen = Views,
                                    !.gaps = PlannedGaps(Views, plan)]]
  /\ UNCHANGED <<row, balance, moved, own>>

\* The wall clock passes the end of a preview's life.
Expire(p) ==
  /\ preview[p].status = "active"
  /\ preview' = [preview EXCEPT ![p] = Blank("expired")]
  /\ moved' = [moved EXCEPT ![p] = {}]
  /\ UNCHANGED <<row, balance, own>>

\* (mutant) the candidates are not determined again
UnmovedOnly(p) ==
  LET view == preview[p].seen
      plan == preview[p].plan
  IN \A i \in Affected(view, plan) : i \notin moved[p] /\ View(i, balance[i]) = view[i]

\* (mutant) an item is known to be unchanged by its version
SameVersions(p) ==
  LET view == preview[p].seen
      plan == preview[p].plan
  IN /\ Affected(view, plan) \cap moved[p] = {}
     /\ \A l \in Lines : Matched(Views, l) = Matched(view, l)

\* The basis of a preview: versions, quantities and evidence of all that it
\* was decided by, and which items those are.
BasisHolds(p) ==
  LET view == preview[p].seen
      plan == preview[p].plan
  IN /\ \A i \in Affected(view, plan) : i \notin moved[p] /\ View(i, balance[i]) = view[i]
     /\ \A n \in DOMAIN plan : MayReserve(Views, plan[n])
     /\ \A l \in Lines : Matched(Views, l) = Matched(view, l)

Reviewed(p) ==
  /\ preview[p].status = "active"
  /\ BasisHolds(p)

Impossible == [refused |-> TRUE]

\* (mutant) the row of the reservation is stored without its ledger event
CreateRowOnly(s, r) ==
  IF s = Impossible THEN s ELSE [s EXCEPT !.own[r.line][r.item] = @ + r.qty]

\* createReservation of the project adapter and of the repository, for a
\* project that has the reservations of s so far.
CreateReservation(s, r) ==
  LET i == r.item
      l == r.line
      coverage == SumFunction([j \in Items |-> s.own[l][j] * Factor[l][j]])
      allocated == Apply(s.balance[i], [kind |-> "allocate", qty |-> r.qty])
  IN IF /\ s # Impossible
        /\ MayReserve(Views, r) /\ Views[i].fits
        /\ r.qty <= Sets(Most(0, Required[l] - coverage), Factor[l][i])
        /\ r.qty <= Available(s.balance[i])
        /\ ValidBalance(allocated)
     THEN [balance |-> [s.balance EXCEPT ![i] = allocated],
           own     |-> [s.own EXCEPT ![l][i] = @ + r.qty]]
     ELSE Impossible

\* All reservations of a plan, one after the other in one transaction.
CreateReservations(plan) ==
  LET after[n \in 0..Len(plan)] ==
        IF n = 0 THEN [balance |-> balance, own |-> Nothing]
        ELSE CreateReservation(after[n - 1], plan[n])
  IN after[Len(plan)]

CommitPreview(p) ==
  LET plan == preview[p].plan
      made == CreateReservations(plan)
  IN /\ Reviewed(p)
     /\ \A q \in Previews : preview[q].status = "committed" => ProjectOf[q] # ProjectOf[p]
     /\ made # Impossible
     /\ balance' = made.balance
     /\ own' = [own EXCEPT ![p] = made.own]
     /\ preview' = [preview EXCEPT ![p] = [Blank("committed") EXCEPT
          !.answer = Gaps([i \in Items |-> View(i, made.balance[i])], made.own)]]
     /\ moved' = [Bumped({plan[n].item : n \in DOMAIN plan}) EXCEPT ![p] = {}]
     /\ UNCHANGED row

-----------------------------------------------------------------------------
(* The rest of the system *)

OwnOf(i) == SumFunction([p \in Previews |-> OwnTotal(own[p], i)])

\* A command of another client leaves item i as r with balance b.  It keeps
\* what is set aside for these projects, and retires only what is free.
CommandElsewhere(i, r, b) ==
  /\ r.there /\ row[i].retired = FALSE
  /\ b.allocated >= OwnOf(i)
  /\ r.retired => b.allocated = 0
  /\ row' = [row EXCEPT ![i] = r]
  /\ balance' = [balance EXCEPT ![i] = b]
  /\ moved' = Bumped({i})
  /\ UNCHANGED <<preview, own>>

\* A purchase snapshot is imported: its row replaces the item's, also of one
\* that was retired, and a receipt of q joins the ledger if it is a new one of
\* confirmed stock (q = 0: there is none).
ImportRow(i, r, q) ==
  LET after == IF q = 0 THEN balance[i] ELSE Apply(balance[i], [kind |-> "receipt", qty |-> q])
  IN /\ r.there /\ ~r.retired
     /\ q > 0 => r.confirmed
     /\ after \in BalancesOf(i)
     /\ row' = [row EXCEPT ![i] = r]
     /\ balance' = [balance EXCEPT ![i] = after]
     /\ UNCHANGED <<preview, moved, own>>

Next ==
  \/ \E p \in Previews :
       \/ \E plan \in Plans : PreviewSetup(p, plan)
       \/ Expire(p) \/ CommitPreview(p)
  \/ \E i \in Items : \E r \in RowsOf(i) :
       \/ \E b \in BalancesOf(i) : CommandElsewhere(i, r, b)
       \/ \E q \in 0..MaxQty[i] : ImportRow(i, r, q)

Spec == Init /\ [][Next]_vars

-----------------------------------------------------------------------------
(* Properties *)

Statuses == {"none", "invalid", "active", "expired", "committed"}

\* Types; what a project has reserved is set aside in the ledger.
TypeOK ==
  /\ \A i \in Items : row[i] \in RowsOf(i) /\ balance[i] \in BalancesOf(i)
  /\ \A p \in Previews : preview[p].status \in Statuses /\ preview[p].plan \in Plans \cup {<<>>}
  /\ moved \in [Previews -> SUBSET Items]
  /\ own \in [Previews -> [Lines -> [Items -> Nat]]]
  /\ \A i \in Items : OwnOf(i) <= balance[i].allocated

\* What was shown is what was made: the gaps a commit answers with, evaluated
\* with the project's reservations in place, are those of the preview,
\* evaluated without them, and it leaves the items that were shown as it said
\* (service.ts:2060-2105, 2186-2189).
CommittedAsShown ==
  [][\A p \in Previews :
       preview'[p].status = "committed" /\ preview[p].status # "committed" =>
         /\ preview'[p].answer = preview[p].gaps
         /\ \A i \in Affected(preview[p].seen, preview[p].plan) :
              Views'[i] = Projected(preview[p].seen, preview[p].plan)[i]]_vars

\* A preview without errors whose basis still holds can be committed: what
\* it checks for the whole plan at once is what each of its reservations is
\* checked for in turn (service.ts:2001-2057, project-adapter.ts:611-655).
ReviewedIsPossible ==
  \A p \in Previews : Reviewed(p) => CreateReservations(preview[p].plan) # Impossible
=============================================================================
