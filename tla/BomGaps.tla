------------------------------ MODULE BomGaps ------------------------------
(***************************************************************************)
(* Which stock covers which BOM line of a revision: the allocator behind   *)
(* every gap report, setup preview and inspection queue                    *)
(* (evaluateBomGapsFromData in packages/application/src/service.ts).       *)
(* Confirmed supply is handed out first, line by line and candidate by     *)
(* candidate; what is left of each requirement may then be covered by      *)
(* stock that has to be inspected.                                         *)
(*                                                                         *)
(* All lines are required, specified and consumed.  A unit conversion is a *)
(* factor: the units of the line that one unit of the item covers, 1 for   *)
(* the line's own unit, 0 when no valid conversion is recorded.            *)
(***************************************************************************)
EXTENDS Integers, Ranking

CONSTANTS
  LineOrder, ItemOrder,  \* the ids of the lines and items, sorted
  Exact,                 \* the item a line names, or NoItem
  NoItem,
  Required,              \* the quantity each line requires
  Factor                 \* Factor[l][i], see above

Lines == ToSet(LineOrder)
Items == ToSet(ItemOrder)

ASSUME BomAssumption ==
  /\ Required \in [Lines -> Nat]
  /\ Factor \in [Lines -> [Items -> Nat]]
  /\ Exact \in [Lines -> Items \cup {NoItem}]
  /\ NoItem \notin Items
  /\ LineOrder \in Seq(Lines) /\ IsInjective(LineOrder)
  /\ ItemOrder \in Seq(Items) /\ IsInjective(ItemOrder)

Compatibilities == {"none", "confirmed", "unconfirmed"}

Least(a, b) == IF a < b THEN a ELSE b
Most(a, b) == IF a > b THEN a ELSE b
\* Whole sets of n that cover q.
Sets(q, n) == (q + n - 1) \div n

-----------------------------------------------------------------------------
(* Candidates.  compat[l][i] is what line l's alternatives say of item i.  *)

Kind(compat, l, i) ==
  CASE compat[l][i] = "unconfirmed" -> "uncertain_alternative"
    [] Exact[l] = i /\ compat[l][i] # "unconfirmed" -> "exact"
    [] Exact[l] # i /\ compat[l][i] = "confirmed" -> "confirmed_alternative"
    [] OTHER -> "none"

\* An item of another unit without an explicit alternative is no candidate.
IsCandidate(compat, l, i) ==
  /\ Kind(compat, l, i) # "none"
  /\ Factor[l][i] = 1 \/ compat[l][i] # "none"

CanSupply(compat, l, i) == Kind(compat, l, i) \in {"exact", "confirmed_alternative"}

Priority(compat, l) ==
  CASE Exact[l] # NoItem -> 0
    [] Exact[l] = NoItem /\ \E i \in Items : compat[l][i] = "confirmed" -> 1
    [] OTHER -> 2

AllocationLines(compat) ==
  ByRank(LineOrder, [l \in Lines |-> Priority(compat, l)], <<0, 1, 2>>)

\* Stock of view[i] may be promised to line l as it is.
Confirmed(view, compat, l, i) ==
  CanSupply(compat, l, i) /\ view[i].confirmed /\ Factor[l][i] > 0

\* The candidates of line l that one pass visits, best relation first.
Candidates(view, compat, l, mode) ==
  ByRank(Those(ItemOrder, {i \in Items :
           /\ view[i].listed
           /\ IsCandidate(compat, l, i)
           /\ Confirmed(view, compat, l, i) <=> mode = "confirmed"}),
         [i \in Items |-> Kind(compat, l, i)],
         <<"exact", "confirmed_alternative", "uncertain_alternative">>)

Visits(view, compat, mode) ==
  LET lines == AllocationLines(compat)
      Of(l) == LET c == Candidates(view, compat, l, mode)
               IN [n \in 1..Len(c) |-> [line |-> l, item |-> c[n], mode |-> mode]]
  IN FlattenSeq([n \in 1..Len(lines) |-> Of(lines[n])])

-----------------------------------------------------------------------------
(* The pools: what of each item is still there, free and set aside for     *)
(* this revision, and what the lines were given so far, in units of the    *)
(* item (used) and of the line (covered).                                  *)

OwnTotal(own, i) == SumFunction([l \in Lines |-> own[l][i]])

Nothing == [l \in Lines |-> [i \in Items |-> 0]]

Pools(view, own) ==
  [ physical |-> [i \in Items |-> view[i].quantity],
    free     |-> [i \in Items |-> Least(view[i].quantity, view[i].available)],
    reserved |-> [i \in Items |-> Least(view[i].quantity, OwnTotal(own, i))],
    used     |-> [confirmed |-> Nothing, inspect |-> Nothing],
    covered  |-> [confirmed |-> Nothing, inspect |-> Nothing] ]

CoveredBy(p, mode, l) == SumFunction(p.covered[mode][l])

Remaining(p, l) ==
  Most(0, Required[l] - CoveredBy(p, "confirmed", l) - CoveredBy(p, "inspect", l))

\* (mutant) whatever is reserved of the item counts as the line's own
OwnAny(p, own, l, i) == p.reserved[i]

Own(p, own, l, i) == Least(p.reserved[i], own[l][i])

\* What a pass may take of item i for line l.  In the inspect pass this is
\* less than the capacity the report shows: the line's own reservation too
\* is kept out of it.
Capacity(p, own, v) ==
  LET i == v.item IN
  IF v.mode = "confirmed"
  THEN Least(p.physical[i], p.free[i] + Own(p, own, v.line, i))
  ELSE Least(p.physical[i], Most(0, p.physical[i] - p.reserved[i]))

ShownCapacity(p, own, v) ==
  LET i == v.item IN
  IF v.mode = "confirmed" THEN Capacity(p, own, v)
  ELSE Least(p.physical[i],
             Most(0, p.physical[i] - (p.reserved[i] - Own(p, own, v.line, i))))

\* allocate: one candidate of one line.
Take(p, own, v) ==
  LET l == v.line
      i == v.item
      f == Factor[l][i]
      wanted == Least(Remaining(p, l), ShownCapacity(p, own, v) * f)
      taken == Least(Capacity(p, own, v), Sets(wanted, f))
      covered == Least(Remaining(p, l), taken * f)
      fromOwn == IF v.mode = "confirmed" THEN Least(Own(p, own, l, i), taken) ELSE 0
      fromFree == IF v.mode = "confirmed" THEN taken - fromOwn ELSE 0
  IN IF f = 0 \/ covered = 0 THEN p
     ELSE [p EXCEPT !.physical[i] = @ - taken,
                    !.reserved[i] = @ - fromOwn,
                    !.free[i] = @ - fromFree,
                    !.used[v.mode][l][i] = @ + taken,
                    !.covered[v.mode][l][i] = @ + covered]

\* evaluateBomGapsFromData: the pools after both passes.
Evaluate(view, compat, own) ==
  LET visits == Visits(view, compat, "confirmed") \o Visits(view, compat, "inspect")
      after[n \in 0..Len(visits)] ==
        IF n = 0 THEN Pools(view, own) ELSE Take(after[n - 1], own, visits[n])
  IN after[Len(visits)]

\* The part of a line's gap that a reader decides by.
Gap(result, l) ==
  [ supplied |-> CoveredBy(result, "confirmed", l),
    inspect  |-> result.covered["inspect"][l],
    missing  |-> Remaining(result, l) ]
=============================================================================
