------------------------ MODULE ProjectSetup_proofs ------------------------
(***************************************************************************)
(* Theorems about module ProjectSetup, for any lines, items, plans and     *)
(* previews, whatever other clients and imports do in between: what a      *)
(* project has reserved is set aside; a preview whose basis still holds    *)
(* can be committed; and the commit makes what the preview showed.         *)
(***************************************************************************)
EXTENDS ProjectSetup, DataLemmas

-----------------------------------------------------------------------------
(* An evaluation depends on the candidates only *)

\* Pools, whatever their quantities.
Shaped(p) ==
  /\ p = [physical |-> p.physical, free |-> p.free, reserved |-> p.reserved,
          used |-> p.used, covered |-> p.covered]
  /\ p.physical = [i \in Items |-> p.physical[i]]
  /\ p.free = [i \in Items |-> p.free[i]]
  /\ p.reserved = [i \in Items |-> p.reserved[i]]

\* Pools that agree on the items of A and on what is covered.
Alike(p, q, A) ==
  /\ Shaped(p) /\ Shaped(q)
  /\ p.covered = q.covered
  /\ \A i \in A : /\ p.physical[i] = q.physical[i]
                  /\ p.free[i] = q.free[i]
                  /\ p.reserved[i] = q.reserved[i]

\* The pools after a visit that takes from each of them.
Drawn(p, v, taken, fromOwn, fromFree, covered) ==
  [p EXCEPT !.physical[v.item] = @ - taken,
            !.reserved[v.item] = @ - fromOwn,
            !.free[v.item] = @ - fromFree,
            !.used[v.mode][v.line][v.item] = @ + taken,
            !.covered[v.mode][v.line][v.item] = @ + covered]

\* Each pool after a visit.
LEMMA DrawnShape ==
  ASSUME NEW p, Shaped(p), NEW v, v.item \in Items,
         NEW taken, NEW fromOwn, NEW fromFree, NEW covered
  PROVE  LET q == Drawn(p, v, taken, fromOwn, fromFree, covered)
         IN /\ Shaped(q)
            /\ \A j \in Items :
                 /\ q.physical[j] = IF j = v.item THEN p.physical[j] - taken ELSE p.physical[j]
                 /\ q.free[j] = IF j = v.item THEN p.free[j] - fromFree ELSE p.free[j]
                 /\ q.reserved[j] = IF j = v.item THEN p.reserved[j] - fromOwn ELSE p.reserved[j]
            /\ q.covered = [p.covered EXCEPT ![v.mode][v.line][v.item] = @ + covered]
<1>0. PICK q : q = Drawn(p, v, taken, fromOwn, fromFree, covered)
  OBVIOUS
<1>1. PICK i : i = v.item
  OBVIOUS
<1>2. PICK physical : physical = [p.physical EXCEPT ![i] = @ - taken]
  OBVIOUS
<1>3. PICK reserved : reserved = [p.reserved EXCEPT ![i] = @ - fromOwn]
  OBVIOUS
<1>4. PICK free : free = [p.free EXCEPT ![i] = @ - fromFree]
  OBVIOUS
<1>5. PICK used : used = [p.used EXCEPT ![v.mode][v.line][v.item] = @ + taken]
  OBVIOUS
<1>6. PICK cover : cover = [p.covered EXCEPT ![v.mode][v.line][v.item] = @ + covered]
  OBVIOUS
<1>7. q = [p EXCEPT !.physical = physical, !.reserved = reserved, !.free = free,
                    !.used = used, !.covered = cover]
  BY <1>0, <1>1, <1>2, <1>3, <1>4, <1>5, <1>6, Zenon DEF Drawn
<1>8. p = [physical |-> p.physical, free |-> p.free, reserved |-> p.reserved,
           used |-> p.used, covered |-> p.covered]
  BY DEF Shaped
<1>9. q = [physical |-> physical, free |-> free, reserved |-> reserved,
           used |-> used, covered |-> cover]
  BY <1>7, <1>8
<1>10. /\ q.physical = physical /\ q.free = free /\ q.reserved = reserved
       /\ q.used = used /\ q.covered = cover
  BY <1>9
<1>11. ASSUME NEW f, f = [j \in Items |-> f[j]], NEW n, NEW g, g = [f EXCEPT ![i] = @ - n]
       PROVE  /\ g = [j \in Items |-> g[j]]
              /\ \A j \in Items : g[j] = IF j = i THEN f[j] - n ELSE f[j]
  BY <1>1, <1>11
<1>12. /\ physical = [j \in Items |-> physical[j]]
       /\ \A j \in Items : physical[j] = IF j = i THEN p.physical[j] - taken ELSE p.physical[j]
  <2>1. p.physical = [j \in Items |-> p.physical[j]]
    BY DEF Shaped
  <2> QED BY <1>2, <1>11, <2>1
<1>13. /\ free = [j \in Items |-> free[j]]
       /\ \A j \in Items : free[j] = IF j = i THEN p.free[j] - fromFree ELSE p.free[j]
  <2>1. p.free = [j \in Items |-> p.free[j]]
    BY DEF Shaped
  <2> QED BY <1>4, <1>11, <2>1
<1>14. /\ reserved = [j \in Items |-> reserved[j]]
       /\ \A j \in Items : reserved[j] = IF j = i THEN p.reserved[j] - fromOwn ELSE p.reserved[j]
  <2>1. p.reserved = [j \in Items |-> p.reserved[j]]
    BY DEF Shaped
  <2> QED BY <1>3, <1>11, <2>1
<1>15. Shaped(q)
  BY <1>9, <1>10, <1>12, <1>13, <1>14 DEF Shaped
<1>16. q.covered = [p.covered EXCEPT ![v.mode][v.line][v.item] = @ + covered]
  BY <1>6, <1>10, Zenon
<1>17. \A j \in Items :
         /\ q.physical[j] = IF j = v.item THEN p.physical[j] - taken ELSE p.physical[j]
         /\ q.free[j] = IF j = v.item THEN p.free[j] - fromFree ELSE p.free[j]
         /\ q.reserved[j] = IF j = v.item THEN p.reserved[j] - fromOwn ELSE p.reserved[j]
  BY <1>1, <1>10, <1>12, <1>13, <1>14
<1> QED BY <1>0, <1>15, <1>16, <1>17

\* A visit of an item of A leaves pools that agree on A.
LEMMA TakeAlike ==
  ASSUME NEW A \in SUBSET Items, NEW o, NEW v, v.item \in A,
         NEW p, NEW q, Alike(p, q, A)
  PROVE  Alike(Take(p, o, v), Take(q, o, v), A)
<1> DEFINE f == Factor[v.line][v.item]
           wanted == Least(Remaining(p, v.line), ShownCapacity(p, o, v) * f)
           taken == Least(Capacity(p, o, v), Sets(wanted, f))
           covered == Least(Remaining(p, v.line), taken * f)
           fromOwn == IF v.mode = "confirmed" THEN Least(Own(p, o, v.line, v.item), taken) ELSE 0
           fromFree == IF v.mode = "confirmed" THEN taken - fromOwn ELSE 0
<1>1. /\ p.physical[v.item] = q.physical[v.item]
      /\ p.free[v.item] = q.free[v.item]
      /\ p.reserved[v.item] = q.reserved[v.item]
      /\ p.covered = q.covered
  BY DEF Alike
<1>2. Remaining(p, v.line) = Remaining(q, v.line)
  BY <1>1 DEF Remaining, CoveredBy
<1>3. Own(p, o, v.line, v.item) = Own(q, o, v.line, v.item)
  BY <1>1 DEF Own
<1>4. Capacity(p, o, v) = Capacity(q, o, v) /\ ShownCapacity(p, o, v) = ShownCapacity(q, o, v)
  BY <1>1, <1>3, Zenon DEF Capacity, ShownCapacity
<1>5. Take(p, o, v) = IF f = 0 \/ covered = 0 THEN p
                        ELSE Drawn(p, v, taken, fromOwn, fromFree, covered)
  BY DEF Take, Drawn
<1>6. Take(q, o, v) = IF f = 0 \/ covered = 0 THEN q
                        ELSE Drawn(q, v, taken, fromOwn, fromFree, covered)
  BY <1>2, <1>3, <1>4 DEF Take, Drawn
<1> HIDE DEF f, wanted, taken, covered, fromOwn, fromFree
<1>7. CASE f = 0 \/ covered = 0
  BY <1>5, <1>6, <1>7
<1>8. CASE ~(f = 0 \/ covered = 0)
  <2>1. PICK x : x = Drawn(p, v, taken, fromOwn, fromFree, covered)
    OBVIOUS
  <2>2. PICK y : y = Drawn(q, v, taken, fromOwn, fromFree, covered)
    OBVIOUS
  <2>3. v.item \in Items /\ Shaped(p) /\ Shaped(q)
    BY DEF Alike
  <2>4. /\ Shaped(x)
        /\ \A j \in Items :
             /\ x.physical[j] = IF j = v.item THEN p.physical[j] - taken ELSE p.physical[j]
             /\ x.free[j] = IF j = v.item THEN p.free[j] - fromFree ELSE p.free[j]
             /\ x.reserved[j] = IF j = v.item THEN p.reserved[j] - fromOwn ELSE p.reserved[j]
        /\ x.covered = [p.covered EXCEPT ![v.mode][v.line][v.item] = @ + covered]
    BY <2>1, <2>3, DrawnShape, SMTT(30)
  <2>5. /\ Shaped(y)
        /\ \A j \in Items :
             /\ y.physical[j] = IF j = v.item THEN q.physical[j] - taken ELSE q.physical[j]
             /\ y.free[j] = IF j = v.item THEN q.free[j] - fromFree ELSE q.free[j]
             /\ y.reserved[j] = IF j = v.item THEN q.reserved[j] - fromOwn ELSE q.reserved[j]
        /\ y.covered = [q.covered EXCEPT ![v.mode][v.line][v.item] = @ + covered]
    BY <2>2, <2>3, DrawnShape, SMTT(30)
  <2>6. x.covered = y.covered
    BY <1>1, <2>4, <2>5, Zenon
  <2>7. \A j \in A : /\ x.physical[j] = y.physical[j]
                     /\ x.free[j] = y.free[j]
                     /\ x.reserved[j] = y.reserved[j]
    BY <2>4, <2>5 DEF Alike
  <2>8. Alike(x, y, A)
    BY <2>4, <2>5, <2>6, <2>7 DEF Alike
  <2> QED BY <1>5, <1>6, <1>8, <2>1, <2>2, <2>8
<1> QED BY <1>7, <1>8

\* No item outside A can be a candidate.
Within(view, says, A) ==
  \A i \in Items \ A, l \in Lines : ~(view[i].listed /\ IsCandidate(says, l, i))

\* Views that agree on all that can be candidates.
Agree(before, after, says, A) ==
  /\ \A i \in A : before[i] = after[i]
  /\ Within(before, says, A) /\ Within(after, says, A)

\* The visits of one pass are of lines and of items of A, if no other item can
\* be a candidate.
LEMMA VisitsIn ==
  ASSUME NEW view, NEW says, NEW mode, NEW A \in SUBSET Items, Within(view, says, A)
  PROVE  Visits(view, says, mode) \in Seq([line : Lines, item : A, mode : {mode}])
<1> DEFINE V == [line : Lines, item : A, mode : {mode}]
           c(l) == Candidates(view, says, l, mode)
           of(l) == [n \in 1..Len(c(l)) |-> [line |-> l, item |-> c(l)[n], mode |-> mode]]
<1>1. ASSUME NEW l \in Lines
      PROVE  Candidates(view, says, l, mode) \in Seq(A)
  <2> DEFINE ranks == <<"exact", "confirmed_alternative", "uncertain_alternative">>
             fit == {i \in Items : /\ view[i].listed
                                   /\ IsCandidate(says, l, i)
                                   /\ Confirmed(view, says, l, i) <=> mode = "confirmed"}
             rank == [i \in Items |-> Kind(says, l, i)]
             s == Those(ItemOrder, fit)
  <2>1. /\ ranks \in Seq({"exact", "confirmed_alternative", "uncertain_alternative"})
        /\ IsInjective(ranks)
    <3>1. DOMAIN ranks = {1, 2, 3}
      OBVIOUS
    <3>2. \A a, b \in {1, 2, 3} : ranks[a] = ranks[b] => a = b
      OBVIOUS
    <3>3. ranks \in Seq({"exact", "confirmed_alternative", "uncertain_alternative"})
      OBVIOUS
    <3> HIDE DEF ranks
    <3>4. IsInjective(ranks)
      BY <3>1, <3>2 DEF IsInjective
    <3> QED BY <3>3, <3>4
  <2>2. Candidates(view, says, l, mode) = ByRank(s, rank, ranks)
    BY DEF Candidates
  <2>3. fit \subseteq A
    BY DEF Within
  <2> HIDE DEF fit, rank, ranks
  <2>4. s \in Seq(Items) /\ IsInjective(s) /\ \A k \in 1..Len(s) : s[k] \in fit
    BY ThoseOnce, BomAssumption
  <2> HIDE DEF s
  <2>5. s \in Seq(A)
    <3>1. \A k \in 1..Len(s) : s[k] \in A
      BY <2>3, <2>4
    <3>2. s \in [1..Len(s) -> A] /\ Len(s) \in Nat
      BY <2>4, <3>1
    <3> QED BY <3>2
  <2> QED BY <2>1, <2>2, <2>4, <2>5, ByRankOnce
<1>2. PICK lines : lines = AllocationLines(says)
  OBVIOUS
<1>3. Len(lines) \in Nat /\ \A n \in 1..Len(lines) : lines[n] \in Lines
  <2>1. <<0, 1, 2>> \in Seq(Nat) /\ IsInjective(<<0, 1, 2>>)
    BY DEF IsInjective
  <2>2. lines \in Seq(Lines)
    BY <1>2, <2>1, ByRankOnce, BomAssumption DEF AllocationLines
  <2> QED BY <2>2
<1>4. ASSUME NEW l \in Lines PROVE of(l) \in Seq(V)
  <2>1. PICK d : d = c(l)
    OBVIOUS
  <2>2. d \in Seq(A)
    BY <1>1, <2>1
  <2>3. Len(d) \in Nat /\ \A n \in 1..Len(d) : d[n] \in A
    BY <2>2
  <2>4. [n \in 1..Len(d) |-> [line |-> l, item |-> d[n], mode |-> mode]] \in [1..Len(d) -> V]
    BY <2>3
  <2>5. [n \in 1..Len(d) |-> [line |-> l, item |-> d[n], mode |-> mode]] \in Seq(V)
    BY <2>3, <2>4
  <2> QED BY <2>1, <2>5
<1> DEFINE ss == [n \in 1..Len(lines) |-> of(lines[n])]
<1>5. Visits(view, says, mode) = FlattenSeq(ss)
  BY <1>2 DEF Visits
<1> HIDE DEF of, V
<1>6. ss \in Seq(Seq(V))
  <2>1. ss \in [1..Len(lines) -> Seq(V)]
    BY <1>3, <1>4
  <2> HIDE DEF ss
  <2> QED BY <1>3, <2>1
<1> HIDE DEF ss
<1>7. FlattenSeq(ss) \in Seq(V)
  BY <1>6, FlattenOnce
<1> QED BY <1>5, <1>7 DEF V

\* Views that agree on A are visited alike.
LEMMA VisitsAgree ==
  ASSUME NEW before, NEW after, NEW says, NEW mode, NEW A \in SUBSET Items,
         Agree(before, after, says, A)
  PROVE  Visits(before, says, mode) = Visits(after, says, mode)
<1> DEFINE fit(view, l) == {i \in Items : /\ view[i].listed
                                          /\ IsCandidate(says, l, i)
                                          /\ Confirmed(view, says, l, i) <=> mode = "confirmed"}
<1>1. ASSUME NEW l \in Lines
      PROVE  Candidates(before, says, l, mode) = Candidates(after, says, l, mode)
  <2>1. ASSUME NEW i \in Items PROVE i \in fit(before, l) <=> i \in fit(after, l)
    <3>1. CASE i \in A
      <4>1. before[i] = after[i]
        BY <3>1 DEF Agree
      <4>2. Confirmed(before, says, l, i) <=> Confirmed(after, says, l, i)
        BY <4>1 DEF Confirmed
      <4> QED BY <4>1, <4>2
    <3>2. CASE i \notin A
      BY <3>2 DEF Agree, Within
    <3> QED BY <3>1, <3>2
  <2>2. fit(before, l) = fit(after, l)
    BY <2>1
  <2>3. \A view : Candidates(view, says, l, mode) =
          ByRank(Those(ItemOrder, fit(view, l)), [i \in Items |-> Kind(says, l, i)],
                 <<"exact", "confirmed_alternative", "uncertain_alternative">>)
    BY DEF Candidates
  <2> HIDE DEF fit
  <2> QED BY <2>2, <2>3, Zenon
<1> HIDE DEF fit
<1>2. PICK lines : lines = AllocationLines(says)
  OBVIOUS
<1>3. \A n \in 1..Len(lines) : lines[n] \in Lines
  <2>1. <<0, 1, 2>> \in Seq(Nat) /\ IsInjective(<<0, 1, 2>>)
    BY DEF IsInjective
  <2>2. lines \in Seq(Lines)
    BY <1>2, <2>1, ByRankOnce, BomAssumption DEF AllocationLines
  <2> QED BY <2>2
<1> DEFINE of(view, l) ==
             [n \in 1..Len(Candidates(view, says, l, mode)) |->
                [line |-> l, item |-> Candidates(view, says, l, mode)[n], mode |-> mode]]
<1>4. \A view : Visits(view, says, mode) = FlattenSeq([n \in 1..Len(lines) |-> of(view, lines[n])])
  BY <1>2, Zenon DEF Visits
<1>5. \A l \in Lines : of(before, l) = of(after, l)
  BY <1>1, Zenon
<1> HIDE DEF of
<1>6. [n \in 1..Len(lines) |-> of(before, lines[n])] = [n \in 1..Len(lines) |-> of(after, lines[n])]
  BY <1>3, <1>5
<1> QED BY <1>4, <1>6, Zenon

\* The pools that the visits pass: g[n] after n visits.
After(view, o, visits, g) ==
  [n \in 0..Len(visits) |-> IF n = 0 THEN Pools(view, o) ELSE Take(g[n - 1], o, visits[n])]

\* The visits of both passes, in their order.
AllVisits(view, says) == Visits(view, says, "confirmed") \o Visits(view, says, "inspect")

\* An evaluation is where the visits end.
LEMMA EvaluateIsAfter ==
  ASSUME NEW view, NEW says, NEW o
  PROVE  Evaluate(view, says, o) =
           (CHOOSE g : g = After(view, o, AllVisits(view, says), g))[Len(AllVisits(view, says))]
BY DEF Evaluate, After, AllVisits

\* The recursion over the visits has a solution.
LEMMA AfterExists ==
  ASSUME NEW view, NEW o, NEW visits, Len(visits) \in Nat
  PROVE  \E g : g = After(view, o, visits, g)
<1> DEFINE Val(g, n) == IF n = 0 THEN Pools(view, o) ELSE Take(g[n - 1], o, visits[n])
           T == {m \in Nat : \E g : g = [n \in 0..m |-> Val(g, n)]}
<1>1. 0 \in T
  <2> DEFINE g == [n \in 0..0 |-> Pools(view, o)]
  <2>1. g = [n \in 0..0 |-> Val(g, n)]
    OBVIOUS
  <2> QED BY <2>1
<1>2. ASSUME NEW m \in Nat, m \in T PROVE m + 1 \in T
  <2>1. PICK g : g = [n \in 0..m |-> Val(g, n)]
    BY <1>2
  <2> DEFINE h == [n \in 0..(m + 1) |-> Val(g, n)]
  <2>2. \A n \in 0..m : h[n] = g[n]
    <3> SUFFICES ASSUME NEW n \in 0..m PROVE h[n] = g[n]
      OBVIOUS
    <3>1. n \in 0..(m + 1)
      OBVIOUS
    <3>2. g[n] = Val(g, n)
      BY <2>1
    <3> QED BY <3>1, <3>2
  <2>3. \A n \in 0..(m + 1) : Val(g, n) = Val(h, n)
    <3> SUFFICES ASSUME NEW n \in 0..(m + 1), n # 0 PROVE g[n - 1] = h[n - 1]
      <4> HIDE DEF h
      <4> QED OBVIOUS
    <3>1. n - 1 \in 0..m
      OBVIOUS
    <3> HIDE DEF h
    <3> QED BY <3>1, <2>2
  <2>4. h = [n \in 0..(m + 1) |-> Val(h, n)]
    <3> HIDE DEF Val
    <3> QED BY <2>3
  <2>5. \E k : k = [n \in 0..(m + 1) |-> Val(k, n)]
    <3> HIDE DEF h, Val
    <3> QED BY <2>4
  <2>6. m + 1 \in Nat
    OBVIOUS
  <2> HIDE DEF Val
  <2> QED BY <2>5, <2>6
<1>3. Len(visits) \in T
  <2> HIDE DEF T
  <2> QED BY <1>1, <1>2, NatSetInduction
<1>4. PICK g : g = [n \in 0..Len(visits) |-> Val(g, n)]
  BY <1>3
<1>5. g = After(view, o, visits, g)
  BY <1>4 DEF After
<1> QED BY <1>5

\* The pools that an evaluation passes.
Passed(g, view, says, o, visits) ==
  /\ g[0] = Pools(view, o)
  /\ \A n \in 1..Len(visits) : g[n] = Take(g[n - 1], o, visits[n])
  /\ Evaluate(view, says, o) = g[Len(visits)]

\* Every evaluation passes some.
LEMMA EvaluateSteps ==
  ASSUME NEW view, NEW says, NEW o, Len(AllVisits(view, says)) \in Nat
  PROVE  \E g : Passed(g, view, says, o, AllVisits(view, says))
<1>1. PICK visits : visits = AllVisits(view, says)
  OBVIOUS
<1> DEFINE g == CHOOSE h : h = After(view, o, visits, h)
<1>2. g = After(view, o, visits, g)
  BY <1>1, AfterExists
<1>3. Evaluate(view, says, o) = g[Len(visits)]
  BY <1>1, EvaluateIsAfter
<1> HIDE DEF g
<1>4. g[0] = Pools(view, o) /\ \A n \in 1..Len(visits) : g[n] = Take(g[n - 1], o, visits[n])
  BY <1>1, <1>2 DEF After
<1> QED BY <1>1, <1>3, <1>4 DEF Passed

\* The pools before the first visit.
LEMMA PoolsAlike ==
  ASSUME NEW before, NEW after, NEW o, NEW A \in SUBSET Items, \A i \in A : before[i] = after[i]
  PROVE  Alike(Pools(before, o), Pools(after, o), A)
<1>1. ASSUME NEW view
      PROVE  /\ Shaped(Pools(view, o))
             /\ \A i \in Items :
                  /\ Pools(view, o).physical[i] = view[i].quantity
                  /\ Pools(view, o).free[i] = Least(view[i].quantity, view[i].available)
                  /\ Pools(view, o).reserved[i] = Least(view[i].quantity, OwnTotal(o, i))
             /\ Pools(view, o).covered = [confirmed |-> Nothing, inspect |-> Nothing]
  <2>1. PICK physical : physical = [i \in Items |-> view[i].quantity]
    OBVIOUS
  <2>2. PICK free : free = [i \in Items |-> Least(view[i].quantity, view[i].available)]
    OBVIOUS
  <2>3. PICK reserved : reserved = [i \in Items |-> Least(view[i].quantity, OwnTotal(o, i))]
    OBVIOUS
  <2>4. PICK u : u = [confirmed |-> Nothing, inspect |-> Nothing]
    OBVIOUS
  <2>5. PICK p : p = Pools(view, o)
    OBVIOUS
  <2>6. p = [physical |-> physical, free |-> free, reserved |-> reserved, used |-> u, covered |-> u]
    BY <2>1, <2>2, <2>3, <2>4, <2>5 DEF Pools
  <2>7. p.physical = physical /\ p.free = free /\ p.reserved = reserved /\ p.used = u /\ p.covered = u
    BY <2>6
  <2>8. /\ physical = [i \in Items |-> physical[i]]
        /\ free = [i \in Items |-> free[i]]
        /\ reserved = [i \in Items |-> reserved[i]]
    BY <2>1, <2>2, <2>3
  <2>9. Shaped(p)
    BY <2>6, <2>7, <2>8 DEF Shaped
  <2> QED BY <2>1, <2>2, <2>3, <2>4, <2>5, <2>7, <2>9
<1>2. \A i \in A : i \in Items /\ before[i] = after[i]
  OBVIOUS
<1> QED BY <1>1, <1>2 DEF Alike

\* What is covered depends on the items that can be candidates only.
LEMMA EvaluateAgrees ==
  ASSUME NEW before, NEW after, NEW says, NEW o, NEW A \in SUBSET Items,
         Agree(before, after, says, A)
  PROVE  Evaluate(before, says, o).covered = Evaluate(after, says, o).covered
<1>1. PICK visits : visits = AllVisits(before, says)
  OBVIOUS
<1>2. visits = AllVisits(after, says)
  <2>1. Visits(before, says, "confirmed") = Visits(after, says, "confirmed")
    BY VisitsAgree
  <2>2. Visits(before, says, "inspect") = Visits(after, says, "inspect")
    BY VisitsAgree
  <2> QED BY <1>1, <2>1, <2>2 DEF AllVisits
<1>3. visits \in Seq([line : Lines, item : A, mode : {"confirmed", "inspect"}])
  <2> DEFINE V == [line : Lines, item : A, mode : {"confirmed", "inspect"}]
  <2>1. PICK a : a = Visits(before, says, "confirmed")
    OBVIOUS
  <2>2. PICK b : b = Visits(before, says, "inspect")
    OBVIOUS
  <2>3. a \in Seq([line : Lines, item : A, mode : {"confirmed"}])
        /\ b \in Seq([line : Lines, item : A, mode : {"inspect"}])
    BY <2>1, <2>2, VisitsIn DEF Agree
  <2>4. [line : Lines, item : A, mode : {"confirmed"}] \subseteq V
        /\ [line : Lines, item : A, mode : {"inspect"}] \subseteq V
    OBVIOUS
  <2> HIDE DEF V
  <2>5. a \in Seq(V) /\ b \in Seq(V)
    <3>1. ASSUME NEW R, NEW S, R \subseteq S, NEW s \in Seq(R) PROVE s \in Seq(S)
      BY <3>1
    <3> QED BY <2>3, <2>4, <3>1
  <2>6. a \o b \in Seq(V)
    BY <2>5
  <2>7. visits = a \o b
    BY <1>1, <2>1, <2>2 DEF AllVisits
  <2> QED BY <2>6, <2>7 DEF V
<1>4. PICK N : N = Len(visits)
  OBVIOUS
<1>5. N \in Nat /\ \A n \in 1..N : visits[n].item \in A
  <2>1. PICK V : V = [line : Lines, item : A, mode : {"confirmed", "inspect"}]
    OBVIOUS
  <2>2. visits \in Seq(V)
    BY <1>3, <2>1
  <2>3. N \in Nat /\ \A n \in 1..N : visits[n] \in V
    BY <1>4, <2>2
  <2>4. \A v \in V : v.item \in A
    BY <2>1
  <2> QED BY <2>3, <2>4
<1>6. PICK g : /\ g[0] = Pools(before, o)
               /\ \A n \in 1..N : g[n] = Take(g[n - 1], o, visits[n])
               /\ Evaluate(before, says, o) = g[N]
  <2>1. PICK g : Passed(g, before, says, o, visits)
    BY <1>1, <1>4, <1>5, EvaluateSteps
  <2> QED BY <1>4, <2>1 DEF Passed
<1>7. PICK h : /\ h[0] = Pools(after, o)
               /\ \A n \in 1..N : h[n] = Take(h[n - 1], o, visits[n])
               /\ Evaluate(after, says, o) = h[N]
  <2>1. PICK h : Passed(h, after, says, o, visits)
    BY <1>2, <1>4, <1>5, EvaluateSteps
  <2> QED BY <1>4, <2>1 DEF Passed
<1> DEFINE T == {n \in Nat : n \in 0..N => Alike(g[n], h[n], A)}
<1>8. 0 \in T
  BY <1>6, <1>7, PoolsAlike DEF Agree
<1>9. ASSUME NEW m \in Nat, m \in T PROVE m + 1 \in T
  <2> SUFFICES ASSUME m + 1 \in 0..N PROVE Alike(g[m + 1], h[m + 1], A)
    OBVIOUS
  <2>1. PICK n : n = m + 1
    OBVIOUS
  <2>2. m \in 0..N /\ n \in 1..N /\ n - 1 = m
    BY <1>5, <2>1
  <2>3. Alike(g[m], h[m], A)
    BY <1>9, <2>2
  <2>4. g[n] = Take(g[m], o, visits[n]) /\ h[n] = Take(h[m], o, visits[n])
    BY <1>6, <1>7, <2>2
  <2>5. Alike(g[n], h[n], A)
    BY <1>5, <2>2, <2>3, <2>4, TakeAlike
  <2> QED BY <2>1, <2>5
<1>10. N \in T
  <2> HIDE DEF T
  <2> QED BY <1>5, <1>8, <1>9, NatSetInduction
<1>11. g[N].covered = h[N].covered
  BY <1>5, <1>10 DEF Alike
<1> QED BY <1>6, <1>7, <1>11

\* What a reader is shown of an item.
ViewSet == [listed : BOOLEAN, fits : BOOLEAN, confirmed : BOOLEAN, quantity : Nat,
            allocated : Nat, available : Nat]

\* So do the gaps a reader is shown.
LEMMA GapsAgree ==
  ASSUME NEW before \in [Items -> ViewSet], NEW after \in [Items -> ViewSet], NEW o,
         NEW A \in SUBSET Items,
         \A i \in A : before[i] = after[i],
         \A i \in Items \ A, l \in Lines : ~(before[i].fits /\ IsCandidate(Compat, l, i)),
         \A i \in Items \ A, l \in Lines : ~(after[i].fits /\ IsCandidate(Compat, l, i))
  PROVE  Gaps(before, o) = Gaps(after, o)
<1>1. PICK x : x = [i \in Items |-> [before[i] EXCEPT !.listed = before[i].fits]]
  OBVIOUS
<1>2. PICK y : y = [i \in Items |-> [after[i] EXCEPT !.listed = after[i].fits]]
  OBVIOUS
<1>3. ASSUME NEW v \in ViewSet PROVE [v EXCEPT !.listed = v.fits].listed = v.fits
  BY DEF ViewSet
<1>4. \A i \in Items : x[i].listed = before[i].fits /\ y[i].listed = after[i].fits
  BY <1>1, <1>2, <1>3
<1>5. \A i \in A : x[i] = y[i]
  BY <1>1, <1>2
<1>6. Agree(x, y, Compat, A)
  BY <1>4, <1>5 DEF Agree, Within
<1>7. PICK p : p = Evaluate(x, Compat, o)
  OBVIOUS
<1>8. PICK q : q = Evaluate(y, Compat, o)
  OBVIOUS
<1>9. p.covered = q.covered
  BY <1>6, <1>7, <1>8, EvaluateAgrees
<1>10. \A l \in Lines : Gap(p, l) = Gap(q, l)
  BY <1>9 DEF Gap, CoveredBy, Remaining
<1>11. Gaps(before, o) = [l \in Lines |-> Gap(p, l)] /\ Gaps(after, o) = [l \in Lines |-> Gap(q, l)]
  BY <1>1, <1>2, <1>7, <1>8 DEF Gaps
<1> QED BY <1>10, <1>11

-----------------------------------------------------------------------------
(* The sums over the first steps of a plan *)

\* The members of C up to n.
UpTo(n, C) == {k \in 1..n : k \in C}

\* One more step.
LEMMA SumNext ==
  ASSUME NEW f, NEW n \in Nat, NEW m, m = n + 1, \A k \in 1..m : f[k] \in Nat, NEW C
  PROVE  /\ SumFunctionOnSet(f, UpTo(n, C)) \in Nat
         /\ SumFunctionOnSet(f, UpTo(m, C))
              = SumFunctionOnSet(f, UpTo(n, C)) + (IF m \in C THEN f[m] ELSE 0)
<1>1. PICK S : S = {k \in 1..n : k \in C}
  OBVIOUS
<1>2. PICK R : R = {k \in 1..m : k \in C}
  OBVIOUS
<1>0. S = UpTo(n, C) /\ R = UpTo(m, C)
  BY <1>1, <1>2 DEF UpTo
<1>3. IsFiniteSet(1..n)
  BY UpToCount, Zenon
<1>4. IsFiniteSet(S) /\ m \notin S /\ \A k \in S : k \in 1..m
  BY <1>1, <1>3, FS_Subset
<1>5. SumFunctionOnSet(f, S) \in Nat
  BY <1>4, SumNat
<1>6. CASE m \in C
  <2>1. R = S \cup {m} /\ m \in 1..m
    BY <1>1, <1>2, <1>6
  <2>2. \A k \in S \cup {m} : f[k] \in Int
    BY <1>4, <2>1
  <2>3. SumFunctionOnSet(f, S \cup {m}) = f[m] + SumFunctionOnSet(f, S)
    BY <1>4, <2>2, SumAdd
  <2>4. f[m] \in Nat
    BY <2>1
  <2>5. SumFunctionOnSet(f, R) = f[m] + SumFunctionOnSet(f, S)
    BY <2>1, <2>3, Zenon
  <2>6. SumFunctionOnSet(f, R) = SumFunctionOnSet(f, S) + f[m]
    BY <1>5, <2>4, <2>5
  <2> QED BY <1>0, <1>5, <1>6, <2>6, Zenon
<1>7. CASE m \notin C
  <2>1. R = S
    BY <1>1, <1>2, <1>7
  <2> QED BY <1>0, <1>5, <1>7, <2>1
<1> QED BY <1>6, <1>7

\* The first n steps of a plan that are of item i, and those of line l too.
Of(plan, n, i) == {k \in 1..n : plan[k].item = i}
Given(plan, n, l, i) == {k \in 1..n : plan[k].line = l /\ plan[k].item = i}

\* A plan and its next step.
LEMMA PlanStep ==
  ASSUME NEW plan \in Seq(PlanSteps), NEW m \in 1..Len(plan)
  PROVE  /\ Len(plan) \in Nat /\ DOMAIN plan = 1..Len(plan)
         /\ plan[m].line \in Lines /\ plan[m].item \in Items
         /\ plan[m].qty \in Nat /\ plan[m].qty > 0
<1>1. plan[m] \in PlanSteps
  OBVIOUS
<1> QED BY <1>1 DEF PlanSteps

\* What one more step adds to each of the sums.
LEMMA QuantityNext ==
  ASSUME NEW plan \in Seq(PlanSteps), NEW n \in Nat, NEW m \in 1..Len(plan), m = n + 1,
         NEW l \in Lines, NEW i
  PROVE  /\ Quantity(plan, Of(plan, n, i)) \in Nat
         /\ Quantity(plan, Of(plan, m, i))
              = Quantity(plan, Of(plan, n, i)) + (IF plan[m].item = i THEN plan[m].qty ELSE 0)
         /\ Quantity(plan, Given(plan, n, l, i)) \in Nat
         /\ Quantity(plan, Given(plan, m, l, i))
              = Quantity(plan, Given(plan, n, l, i))
                + (IF plan[m].line = l /\ plan[m].item = i THEN plan[m].qty ELSE 0)
         /\ Coverage(plan, n, l) \in Nat
         /\ Coverage(plan, m, l) = Coverage(plan, n, l)
              + (IF plan[m].line = l THEN plan[m].qty * Factor[l][plan[m].item] ELSE 0)
<1>1. PICK f : f = [k \in DOMAIN plan |-> plan[k].qty]
  OBVIOUS
<1>2. PICK g : g = [k \in DOMAIN plan |-> plan[k].qty * Factor[l][plan[k].item]]
  OBVIOUS
<1>3. Len(plan) \in Nat /\ DOMAIN plan = 1..Len(plan)
  OBVIOUS
<1>4. ASSUME NEW k \in 1..m PROVE /\ k \in DOMAIN plan
                                  /\ f[k] = plan[k].qty /\ f[k] \in Nat
                                  /\ g[k] = plan[k].qty * Factor[l][plan[k].item] /\ g[k] \in Nat
  <2>1. k \in 1..Len(plan)
    BY <1>3
  <2>2. plan[k].item \in Items /\ plan[k].qty \in Nat
    BY <2>1, PlanStep
  <2>3. Factor[l][plan[k].item] \in Nat
    BY <2>2, BomAssumption
  <2>4. ASSUME NEW a \in Nat, NEW b \in Nat PROVE a * b \in Nat
    BY <2>4
  <2>5. plan[k].qty * Factor[l][plan[k].item] \in Nat
    BY <2>2, <2>3, <2>4
  <2> QED BY <1>1, <1>2, <1>3, <2>1, <2>2, <2>5, Zenon
<1> DEFINE C == {k \in 1..m : plan[k].item = i}
           D == {k \in 1..m : plan[k].line = l /\ plan[k].item = i}
           E == {k \in 1..m : plan[k].line = l}
<1>5. /\ UpTo(n, C) = Of(plan, n, i)
      /\ UpTo(m, C) = Of(plan, m, i)
      /\ UpTo(n, D) = Given(plan, n, l, i)
      /\ UpTo(m, D) = Given(plan, m, l, i)
      /\ UpTo(n, E) = {k \in 1..n : plan[k].line = l}
      /\ UpTo(m, E) = {k \in 1..m : plan[k].line = l}
  BY DEF UpTo, Of, Given
<1>6. /\ m \in C <=> plan[m].item = i
      /\ m \in D <=> plan[m].line = l /\ plan[m].item = i
      /\ m \in E <=> plan[m].line = l
  OBVIOUS
<1>7. \A S : Quantity(plan, S) = SumFunctionOnSet(f, S)
  BY <1>1 DEF Quantity
<1>8. \A k \in Nat : Coverage(plan, k, l) = SumFunctionOnSet(g, {j \in 1..k : plan[j].line = l})
  BY <1>2 DEF Coverage
<1>9. m \in 1..m /\ m \in Nat
  OBVIOUS
<1>10. f[m] = plan[m].qty /\ g[m] = plan[m].qty * Factor[l][plan[m].item]
  BY <1>4, <1>9
<1>11. (\A k \in 1..m : f[k] \in Nat) /\ (\A k \in 1..m : g[k] \in Nat)
  BY <1>4
<1> HIDE DEF C, D, E
<1>12. ASSUME NEW h, \A k \in 1..m : h[k] \in Nat, NEW B
       PROVE  /\ SumFunctionOnSet(h, UpTo(n, B)) \in Nat
              /\ SumFunctionOnSet(h, UpTo(m, B))
                   = SumFunctionOnSet(h, UpTo(n, B)) + (IF m \in B THEN h[m] ELSE 0)
  BY <1>12, SumNext, SMTT(30)
<1>13. /\ SumFunctionOnSet(f, Of(plan, n, i)) \in Nat
       /\ SumFunctionOnSet(f, Of(plan, m, i))
            = SumFunctionOnSet(f, Of(plan, n, i)) + (IF m \in C THEN f[m] ELSE 0)
  <2>1. /\ SumFunctionOnSet(f, UpTo(n, C)) \in Nat
        /\ SumFunctionOnSet(f, UpTo(m, C))
             = SumFunctionOnSet(f, UpTo(n, C)) + (IF m \in C THEN f[m] ELSE 0)
    BY <1>11, <1>12
  <2> QED BY <2>1, <1>5, Zenon
<1>14. /\ SumFunctionOnSet(f, Given(plan, n, l, i)) \in Nat
       /\ SumFunctionOnSet(f, Given(plan, m, l, i))
            = SumFunctionOnSet(f, Given(plan, n, l, i)) + (IF m \in D THEN f[m] ELSE 0)
  <2>1. /\ SumFunctionOnSet(f, UpTo(n, D)) \in Nat
        /\ SumFunctionOnSet(f, UpTo(m, D))
             = SumFunctionOnSet(f, UpTo(n, D)) + (IF m \in D THEN f[m] ELSE 0)
    BY <1>11, <1>12
  <2> QED BY <2>1, <1>5, Zenon
<1>15. /\ Coverage(plan, n, l) \in Nat
       /\ Coverage(plan, m, l) = Coverage(plan, n, l) + (IF m \in E THEN g[m] ELSE 0)
  <2>1. /\ SumFunctionOnSet(g, UpTo(n, E)) \in Nat
        /\ SumFunctionOnSet(g, UpTo(m, E))
             = SumFunctionOnSet(g, UpTo(n, E)) + (IF m \in E THEN g[m] ELSE 0)
    BY <1>11, <1>12
  <2> QED BY <2>1, <1>5, <1>8, <1>9, Zenon
<1> QED BY <1>6, <1>7, <1>10, <1>13, <1>14, <1>15, Zenon

\* Lines and items are finitely many.
LEMMA BomFinite == IsFiniteSet(Lines) /\ IsFiniteSet(Items)
BY SeqFinite, BomAssumption DEF Lines, Items

\* Before the first step there is nothing.
LEMMA QuantityNone ==
  ASSUME NEW plan, NEW l, NEW i
  PROVE  /\ Quantity(plan, Of(plan, 0, i)) = 0
         /\ Quantity(plan, Given(plan, 0, l, i)) = 0
         /\ Coverage(plan, 0, l) = 0
<1>1. Of(plan, 0, i) = {} /\ Given(plan, 0, l, i) = {} /\ {k \in 1..0 : plan[k].line = l} = {}
  BY DEF Of, Given
<1>2. Quantity(plan, {}) = 0
  BY SumEmpty DEF Quantity
<1>3. Coverage(plan, 0, l)
        = SumFunctionOnSet([k \in DOMAIN plan |-> plan[k].qty * Factor[l][plan[k].item]], {})
  BY <1>1, Zenon DEF Coverage
<1> QED BY <1>1, <1>2, <1>3, SumEmpty, Zenon

\* The sums are natural numbers.
LEMMA QuantityNat ==
  ASSUME NEW plan \in Seq(PlanSteps), NEW n \in 0..Len(plan), NEW l \in Lines, NEW i
  PROVE  /\ Quantity(plan, Of(plan, n, i)) \in Nat
         /\ Quantity(plan, Given(plan, n, l, i)) \in Nat
         /\ Coverage(plan, n, l) \in Nat
<1>0. Len(plan) \in Nat
  OBVIOUS
<1>1. CASE n = 0
  BY <1>1, QuantityNone
<1>2. CASE n # 0
  <2>1. PICK k : k = n - 1
    OBVIOUS
  <2>2. k \in Nat /\ n = k + 1 /\ n \in 1..Len(plan)
    BY <1>0, <1>2, <2>1
  <2>3. PICK a : a = plan[n].qty
    OBVIOUS
  <2>4. a \in Nat
    BY <2>2, <2>3, PlanStep
  <2>5. PICK b : b = plan[n].qty * Factor[l][plan[n].item]
    OBVIOUS
  <2>6. b \in Nat
    <3>1. Factor[l][plan[n].item] \in Nat
      BY <2>2, PlanStep, BomAssumption
    <3>2. ASSUME NEW x \in Nat, NEW y \in Nat PROVE x * y \in Nat
      BY <3>2
    <3> QED BY <2>3, <2>4, <2>5, <3>1, <3>2
  <2>7. /\ Quantity(plan, Of(plan, k, i)) \in Nat
        /\ Quantity(plan, Of(plan, n, i))
             = Quantity(plan, Of(plan, k, i)) + (IF plan[n].item = i THEN a ELSE 0)
    BY <2>2, <2>3, QuantityNext
  <2>8. /\ Quantity(plan, Given(plan, k, l, i)) \in Nat
        /\ Quantity(plan, Given(plan, n, l, i))
             = Quantity(plan, Given(plan, k, l, i))
               + (IF plan[n].line = l /\ plan[n].item = i THEN a ELSE 0)
    BY <2>2, <2>3, QuantityNext
  <2>9. /\ Coverage(plan, k, l) \in Nat
        /\ Coverage(plan, n, l) = Coverage(plan, k, l) + (IF plan[n].line = l THEN b ELSE 0)
    BY <2>2, <2>5, QuantityNext
  <2>10. Quantity(plan, Of(plan, n, i)) \in Nat
    BY <2>4, <2>7
  <2>11. Quantity(plan, Given(plan, n, l, i)) \in Nat
    BY <2>4, <2>8
  <2>12. Coverage(plan, n, l) \in Nat
    BY <2>6, <2>9
  <2> QED BY <2>10, <2>11, <2>12
<1> QED BY <1>1, <1>2

\* What the lines have of an item is what the steps of the item add up to.
LEMMA TotalOfLines ==
  ASSUME NEW plan \in Seq(PlanSteps), NEW n \in 0..Len(plan), NEW i
  PROVE  SumFunction([l \in Lines |-> Quantity(plan, Given(plan, n, l, i))])
           = Quantity(plan, Of(plan, n, i))
<1>0. Len(plan) \in Nat
  OBVIOUS
<1> DEFINE F(k) == [l \in Lines |-> Quantity(plan, Given(plan, k, l, i))]
           T == {k \in Nat : k <= Len(plan) =>
                   SumFunctionOnSet(F(k), Lines) = Quantity(plan, Of(plan, k, i))}
<1>1. 0 \in T
  <2>1. \A l \in Lines : F(0)[l] = 0
    BY QuantityNone
  <2> HIDE DEF F
  <2>2. SumFunctionOnSet(F(0), Lines) = 0
    BY <2>1, SumZero, BomFinite
  <2> QED BY <2>2, QuantityNone
<1>2. ASSUME NEW k \in Nat, k \in T PROVE k + 1 \in T
  <2> SUFFICES ASSUME k + 1 <= Len(plan)
               PROVE  SumFunctionOnSet(F(k + 1), Lines) = Quantity(plan, Of(plan, k + 1, i))
    OBVIOUS
  <2>1. PICK m : m = k + 1
    OBVIOUS
  <2>2. m \in 1..Len(plan) /\ k \in 0..Len(plan) /\ m \in 0..Len(plan)
    BY <1>0, <2>1
  <2>3. SumFunctionOnSet(F(k), Lines) = Quantity(plan, Of(plan, k, i))
    BY <1>0, <1>2
  <2>4. plan[m].line \in Lines /\ plan[m].qty \in Nat
    BY <2>2, PlanStep
  <2>5. \A l \in Lines : F(k)[l] \in Nat /\ F(m)[l] \in Nat
    BY <2>2, QuantityNat
  <2>6. Quantity(plan, Of(plan, m, i))
          = Quantity(plan, Of(plan, k, i)) + (IF plan[m].item = i THEN plan[m].qty ELSE 0)
    BY <2>1, <2>2, <2>4, QuantityNext
  <2>7. \A l \in Lines :
          F(m)[l] = F(k)[l] + (IF plan[m].line = l /\ plan[m].item = i THEN plan[m].qty ELSE 0)
    BY <2>1, <2>2, QuantityNext
  <2>8. Quantity(plan, Of(plan, k, i)) \in Nat
    BY <2>2, <2>4, QuantityNat
  <2> HIDE DEF F
  <2>9. CASE plan[m].item = i
    <3>1. SumFunctionOnSet(F(m), Lines) = SumFunctionOnSet(F(k), Lines) + plan[m].qty
      <4>1. F(m)[plan[m].line] = F(k)[plan[m].line] + plan[m].qty
        BY <2>4, <2>7, <2>9
      <4>2. \A l \in Lines : l # plan[m].line => F(m)[l] = F(k)[l]
        BY <2>5, <2>7
      <4>3. (\A l \in Lines : F(k)[l] \in Int) /\ plan[m].qty \in Int
        BY <2>4, <2>5
      <4>4. IsFiniteSet(Lines)
        BY BomFinite
      <4> QED BY <2>4, <4>1, <4>2, <4>3, <4>4, SumBump
    <3> QED BY <2>1, <2>3, <2>6, <2>9, <3>1
  <2>10. CASE plan[m].item # i
    <3>1. \A l \in Lines : F(m)[l] = F(k)[l]
      BY <2>5, <2>7, <2>10
    <3>2. SumFunctionOnSet(F(m), Lines) = SumFunctionOnSet(F(k), Lines)
      BY <3>1, BomFinite, SumAgree
    <3> QED BY <2>1, <2>3, <2>6, <2>8, <2>10, <3>2
  <2> QED BY <2>9, <2>10
<1>3. n \in T
  <2> HIDE DEF T
  <2> QED BY <1>0, <1>1, <1>2, NatSetInduction
<1>4. SumFunctionOnSet(F(n), Lines) = Quantity(plan, Of(plan, n, i))
  BY <1>0, <1>3
<1>5. DOMAIN F(n) = Lines
  OBVIOUS
<1> HIDE DEF F
<1>6. SumFunction(F(n)) = Quantity(plan, Of(plan, n, i))
  BY <1>4, <1>5, Zenon DEF SumFunction
<1> QED BY <1>6 DEF F

\* What a line has of its items covers what the steps of the line cover.
LEMMA CoverageOfItems ==
  ASSUME NEW plan \in Seq(PlanSteps), NEW n \in 0..Len(plan), NEW l \in Lines
  PROVE  SumFunction([j \in Items |-> Quantity(plan, Given(plan, n, l, j)) * Factor[l][j]])
           = Coverage(plan, n, l)
<1>0. Len(plan) \in Nat
  OBVIOUS
<1> DEFINE F(k) == [j \in Items |-> Quantity(plan, Given(plan, k, l, j)) * Factor[l][j]]
           T == {k \in Nat : k <= Len(plan) =>
                   SumFunctionOnSet(F(k), Items) = Coverage(plan, k, l)}
<1>n. ASSUME NEW x \in Nat, NEW y \in Nat, NEW z \in Nat
      PROVE  x * y \in Nat /\ (x + y) * z = x * z + y * z /\ 0 * z = 0
  BY <1>n
<1>1. 0 \in T
  <2>1. \A j \in Items : F(0)[j] = 0
    <3> SUFFICES ASSUME NEW j \in Items PROVE F(0)[j] = 0
      OBVIOUS
    <3>1. Quantity(plan, Given(plan, 0, l, j)) = 0
      BY QuantityNone
    <3>2. Factor[l][j] \in Nat
      BY BomAssumption
    <3>3. 0 * Factor[l][j] = 0
      BY <1>n, <3>2
    <3> QED BY <3>1, <3>3
  <2> HIDE DEF F
  <2>2. SumFunctionOnSet(F(0), Items) = 0
    BY <2>1, SumZero, BomFinite
  <2> QED BY <2>2, QuantityNone
<1>2. ASSUME NEW k \in Nat, k \in T PROVE k + 1 \in T
  <2> SUFFICES ASSUME k + 1 <= Len(plan)
               PROVE  SumFunctionOnSet(F(k + 1), Items) = Coverage(plan, k + 1, l)
    OBVIOUS
  <2>1. PICK m : m = k + 1
    OBVIOUS
  <2>2. m \in 1..Len(plan) /\ k \in 0..Len(plan) /\ m \in 0..Len(plan)
    BY <1>0, <2>1
  <2>3. SumFunctionOnSet(F(k), Items) = Coverage(plan, k, l)
    BY <1>0, <1>2
  <2>4. plan[m].item \in Items /\ plan[m].qty \in Nat
    BY <2>2, PlanStep
  <2>5. PICK d : d = plan[m].qty * Factor[l][plan[m].item]
    OBVIOUS
  <2>6. d \in Nat
    BY <1>n, <2>4, <2>5, BomAssumption
  <2>7. Coverage(plan, m, l) = Coverage(plan, k, l) + (IF plan[m].line = l THEN d ELSE 0)
    BY <2>1, <2>2, <2>5, QuantityNext
  <2>8. ASSUME NEW j \in Items
        PROVE  /\ F(k)[j] \in Nat
               /\ F(m)[j] = F(k)[j] + (IF plan[m].line = l /\ plan[m].item = j THEN d ELSE 0)
    <3>1. PICK a : a = Quantity(plan, Given(plan, k, l, j))
      OBVIOUS
    <3>2. PICK f : f = Factor[l][j]
      OBVIOUS
    <3>3. PICK q : q = plan[m].qty
      OBVIOUS
    <3>4. a \in Nat /\ f \in Nat /\ q \in Nat
      BY <2>2, <2>4, <3>1, <3>2, <3>3, QuantityNat, BomAssumption
    <3>5. Quantity(plan, Given(plan, m, l, j))
            = a + (IF plan[m].line = l /\ plan[m].item = j THEN q ELSE 0)
      BY <2>1, <2>2, <3>1, <3>3, QuantityNext
    <3>6. F(k)[j] = a * f
      BY <3>1, <3>2
    <3>7. F(m)[j] = (a + (IF plan[m].line = l /\ plan[m].item = j THEN q ELSE 0)) * f
      BY <3>2, <3>5
    <3>8. a * f \in Nat
      BY <1>n, <3>4
    <3> HIDE DEF F
    <3>9. CASE plan[m].line = l /\ plan[m].item = j
      <4>1. d = q * f
        BY <2>5, <3>2, <3>3, <3>9
      <4>2. F(m)[j] = (a + q) * f
        BY <3>7, <3>9
      <4>3. (a + q) * f = a * f + q * f
        BY <1>n, <3>4
      <4> QED BY <3>6, <3>8, <3>9, <4>1, <4>2, <4>3
    <3>10. CASE ~(plan[m].line = l /\ plan[m].item = j)
      <4>1. F(m)[j] = (a + 0) * f /\ a + 0 = a
        BY <3>4, <3>7, <3>10
      <4>2. F(m)[j] = F(k)[j] + 0
        BY <3>6, <3>8, <4>1
      <4> QED BY <3>6, <3>8, <3>10, <4>2
    <3> QED BY <3>9, <3>10
  <2>9. Coverage(plan, k, l) \in Nat
    BY <2>2, QuantityNat
  <2> HIDE DEF F
  <2>10. CASE plan[m].line = l
    <3>1. SumFunctionOnSet(F(m), Items) = SumFunctionOnSet(F(k), Items) + d
      <4>1. F(m)[plan[m].item] = F(k)[plan[m].item] + d
        BY <2>4, <2>8, <2>10
      <4>2. \A j \in Items : j # plan[m].item => F(m)[j] = F(k)[j]
        BY <2>8
      <4>3. (\A j \in Items : F(k)[j] \in Int) /\ d \in Int
        BY <2>6, <2>8
      <4>4. IsFiniteSet(Items)
        BY BomFinite
      <4> QED BY <2>4, <4>1, <4>2, <4>3, <4>4, SumBump
    <3> QED BY <2>1, <2>3, <2>7, <2>10, <3>1
  <2>11. CASE plan[m].line # l
    <3>1. \A j \in Items : F(m)[j] = F(k)[j]
      BY <2>8, <2>11
    <3>2. SumFunctionOnSet(F(m), Items) = SumFunctionOnSet(F(k), Items)
      BY <3>1, BomFinite, SumAgree
    <3> QED BY <2>1, <2>3, <2>7, <2>9, <2>11, <3>2
  <2> QED BY <2>10, <2>11
<1>3. n \in T
  <2> HIDE DEF T
  <2> QED BY <1>0, <1>1, <1>2, NatSetInduction
<1>4. SumFunctionOnSet(F(n), Items) = Coverage(plan, n, l)
  BY <1>0, <1>3
<1>5. DOMAIN F(n) = Items
  OBVIOUS
<1> HIDE DEF F
<1>6. SumFunction(F(n)) = Coverage(plan, n, l)
  BY <1>4, <1>5, Zenon DEF SumFunction
<1> QED BY <1>6 DEF F

-----------------------------------------------------------------------------
(* The reservations of a plan, one after the other *)

\* What a commit passes: g[n] after n steps of the plan.
Steps(plan, g) ==
  [n \in 0..Len(plan) |-> IF n = 0 THEN [balance |-> balance, own |-> Nothing]
                          ELSE CreateReservation(g[n - 1], plan[n])]

\* It makes what the last of them leaves.
LEMMA CreateIsSteps ==
  ASSUME NEW plan
  PROVE  CreateReservations(plan) = (CHOOSE g : g = Steps(plan, g))[Len(plan)]
BY DEF CreateReservations, Steps

\* The recursion over the steps has a solution.
LEMMA StepsExist ==
  ASSUME NEW plan, Len(plan) \in Nat
  PROVE  \E g : g = Steps(plan, g)
<1> DEFINE Val(g, n) == IF n = 0 THEN [balance |-> balance, own |-> Nothing]
                        ELSE CreateReservation(g[n - 1], plan[n])
           T == {m \in Nat : \E g : g = [n \in 0..m |-> Val(g, n)]}
<1>1. 0 \in T
  <2> DEFINE g == [n \in 0..0 |-> [balance |-> balance, own |-> Nothing]]
  <2>1. g = [n \in 0..0 |-> Val(g, n)]
    OBVIOUS
  <2> QED BY <2>1
<1>2. ASSUME NEW m \in Nat, m \in T PROVE m + 1 \in T
  <2>1. PICK g : g = [n \in 0..m |-> Val(g, n)]
    BY <1>2
  <2> DEFINE h == [n \in 0..(m + 1) |-> Val(g, n)]
  <2>2. \A n \in 0..m : h[n] = g[n]
    <3> SUFFICES ASSUME NEW n \in 0..m PROVE h[n] = g[n]
      OBVIOUS
    <3>1. n \in 0..(m + 1)
      OBVIOUS
    <3>2. g[n] = Val(g, n)
      BY <2>1
    <3> QED BY <3>1, <3>2
  <2>3. \A n \in 0..(m + 1) : Val(g, n) = Val(h, n)
    <3> SUFFICES ASSUME NEW n \in 0..(m + 1), n # 0 PROVE g[n - 1] = h[n - 1]
      <4> HIDE DEF h
      <4> QED OBVIOUS
    <3>1. n - 1 \in 0..m
      OBVIOUS
    <3> HIDE DEF h
    <3> QED BY <3>1, <2>2
  <2>4. h = [n \in 0..(m + 1) |-> Val(h, n)]
    <3> HIDE DEF Val
    <3> QED BY <2>3
  <2>5. \E k : k = [n \in 0..(m + 1) |-> Val(k, n)]
    <3> HIDE DEF h, Val
    <3> QED BY <2>4
  <2>6. m + 1 \in Nat
    OBVIOUS
  <2> HIDE DEF Val
  <2> QED BY <2>5, <2>6
<1>3. Len(plan) \in T
  <2> HIDE DEF T
  <2> QED BY <1>1, <1>2, NatSetInduction
<1>4. PICK g : g = [n \in 0..Len(plan) |-> Val(g, n)]
  BY <1>3
<1>5. g = Steps(plan, g)
  BY <1>4 DEF Steps
<1> QED BY <1>5

\* Every item has a row and a balance.
Rows ==
  /\ row = [i \in Items |-> row[i]] /\ balance = [i \in Items |-> balance[i]]
  /\ \A i \in Items : row[i] \in RowsOf(i) /\ balance[i] \in BalancesOf(i)

\* The inventory has room for a plan: what a preview checks, of the inventory
\* a commit finds.
HasRoom(plan) ==
  /\ plan \in Seq(PlanSteps)
  /\ \A n \in 1..Len(plan) :
       /\ MayReserve(Views, plan[n]) /\ Views[plan[n].item].fits
       /\ plan[n].qty <= Sets(Most(0, Required[plan[n].line] - Coverage(plan, n - 1, plan[n].line)),
                              Factor[plan[n].line][plan[n].item])
       /\ Planned(plan, plan[n].item) <= Available(balance[plan[n].item])

\* The ledger after n steps of the plan, and what the lines have.
LedgerAfter(plan, n) ==
  [i \in Items |-> [onHand    |-> balance[i].onHand,
                    allocated |-> balance[i].allocated + Quantity(plan, Of(plan, n, i))]]
OwnAfter(plan, n) == [l \in Lines |-> [i \in Items |-> Quantity(plan, Given(plan, n, l, i))]]
Made(s, plan, n) == s = [balance |-> LedgerAfter(plan, n), own |-> OwnAfter(plan, n)]

\* The quantity of some steps of an item is at most that of all.
LEMMA QuantityPart ==
  ASSUME NEW plan \in Seq(PlanSteps), NEW n \in 0..Len(plan), NEW i
  PROVE  /\ Planned(plan, i) = Quantity(plan, Of(plan, Len(plan), i))
         /\ Quantity(plan, Of(plan, n, i)) <= Planned(plan, i)
<1>1. DOMAIN plan = 1..Len(plan) /\ Len(plan) \in Nat
  OBVIOUS
<1>2. Of(plan, Len(plan), i) = {k \in DOMAIN plan : plan[k].item = i}
  BY <1>1 DEF Of
<1>3. Planned(plan, i) = Quantity(plan, Of(plan, Len(plan), i))
  BY <1>2 DEF Planned
<1>4. PICK f : f = [k \in DOMAIN plan |-> plan[k].qty]
  OBVIOUS
<1>5. PICK S : S = Of(plan, Len(plan), i)
  OBVIOUS
<1>6. Of(plan, n, i) \subseteq S /\ S \subseteq 1..Len(plan)
  BY <1>1, <1>5 DEF Of
<1>7. IsFiniteSet(S)
  <2>1. IsFiniteSet(1..Len(plan))
    BY <1>1, UpToCount, Zenon
  <2> QED BY <1>6, <2>1, FS_Subset
<1>8. \A k \in S : f[k] \in Nat
  BY <1>1, <1>4, <1>6, PlanStep
<1>9. SumFunctionOnSet(f, Of(plan, n, i)) <= SumFunctionOnSet(f, S)
  BY <1>6, <1>7, <1>8, SumPart
<1> QED BY <1>3, <1>4, <1>5, <1>9 DEF Quantity

\* What is planned of an item is a natural number, zero if no step is of it.
LEMMA PlannedNat ==
  ASSUME NEW plan \in Seq(PlanSteps), NEW i
  PROVE  /\ Planned(plan, i) \in Nat
         /\ (\A n \in DOMAIN plan : plan[n].item # i) => Planned(plan, i) = 0
<1>1. PICK f : f = [k \in DOMAIN plan |-> plan[k].qty]
  OBVIOUS
<1>2. PICK S : S = {n \in DOMAIN plan : plan[n].item = i}
  OBVIOUS
<1>3. DOMAIN plan = 1..Len(plan) /\ Len(plan) \in Nat
  OBVIOUS
<1>4. IsFiniteSet(S) /\ S \subseteq 1..Len(plan)
  <2>1. IsFiniteSet(1..Len(plan))
    BY <1>3, UpToCount, Zenon
  <2>2. S \subseteq 1..Len(plan)
    BY <1>2, <1>3
  <2> QED BY <2>1, <2>2, FS_Subset
<1>5. \A k \in S : f[k] \in Nat
  BY <1>1, <1>3, <1>4, PlanStep
<1>6. Planned(plan, i) = SumFunctionOnSet(f, S)
  BY <1>1, <1>2, Zenon DEF Planned, Quantity
<1>7. ASSUME \A n \in DOMAIN plan : plan[n].item # i PROVE S = {}
  BY <1>2, <1>7
<1> QED BY <1>4, <1>5, <1>6, <1>7, SumNat, SumEmpty

\* One reservation that the plan has room for.
LEMMA CreateNext ==
  ASSUME Rows, NEW plan, HasRoom(plan), NEW n \in Nat, NEW m \in 1..Len(plan), m = n + 1,
         NEW s, Made(s, plan, n)
  PROVE  Made(CreateReservation(s, plan[m]), plan, m)
<1>0. plan \in Seq(PlanSteps) /\ Len(plan) \in Nat /\ n \in 0..Len(plan) /\ m \in 0..Len(plan)
  <2>1. plan \in Seq(PlanSteps)
    BY DEF HasRoom
  <2>2. Len(plan) \in Nat
    BY <2>1
  <2> QED BY <2>1, <2>2
<1>1. PICK i : i = plan[m].item
  OBVIOUS
<1>2. PICK l : l = plan[m].line
  OBVIOUS
<1>3. PICK q : q = plan[m].qty
  OBVIOUS
<1>4. i \in Items /\ l \in Lines /\ q \in Nat /\ q > 0
  BY <1>0, <1>1, <1>2, <1>3, PlanStep
<1>5. PICK b : b = LedgerAfter(plan, n)
  OBVIOUS
<1>6. PICK o : o = OwnAfter(plan, n)
  OBVIOUS
<1>7. s = [balance |-> b, own |-> o]
  BY <1>5, <1>6 DEF Made
<1>8. s.balance = b /\ s.own = o /\ s # Impossible
  <2>1. "refused" \in DOMAIN Impossible /\ "refused" \notin DOMAIN s
    BY <1>7 DEF Impossible
  <2> QED BY <1>7, <2>1
<1>9. SumFunction([j \in Items |-> s.own[l][j] * Factor[l][j]]) = Coverage(plan, n, l)
  <2>1. \A j \in Items : s.own[l][j] = Quantity(plan, Given(plan, n, l, j))
    BY <1>4, <1>6, <1>8 DEF OwnAfter
  <2>2. [j \in Items |-> s.own[l][j] * Factor[l][j]]
          = [j \in Items |-> Quantity(plan, Given(plan, n, l, j)) * Factor[l][j]]
    BY <2>1
  <2>3. SumFunction([j \in Items |-> Quantity(plan, Given(plan, n, l, j)) * Factor[l][j]])
          = Coverage(plan, n, l)
    BY <1>0, <1>4, CoverageOfItems
  <2> QED BY <2>2, <2>3, Zenon
<1>10. /\ MayReserve(Views, plan[m]) /\ Views[i].fits
       /\ q <= Sets(Most(0, Required[l] - Coverage(plan, n, l)), Factor[l][i])
       /\ Planned(plan, i) <= Available(balance[i])
  <2>1. m - 1 = n
    OBVIOUS
  <2> QED BY <1>1, <1>2, <1>3, <2>1 DEF HasRoom
<1>11. PICK x : x = Quantity(plan, Of(plan, n, i))
  OBVIOUS
<1>12. x \in Nat /\ x + q <= balance[i].onHand - balance[i].allocated
  <2>1. x \in Nat /\ Quantity(plan, Of(plan, m, i)) = x + q
    <3>1. m = n + 1 /\ m \in 1..Len(plan) /\ n \in Nat /\ l \in Lines
      BY <1>0, <1>1, <1>3, <1>4
    <3>2. /\ Quantity(plan, Of(plan, n, i)) \in Nat
          /\ Quantity(plan, Of(plan, m, i)) = Quantity(plan, Of(plan, n, i))
                                             + (IF plan[m].item = i THEN plan[m].qty ELSE 0)
      BY <1>0, <3>1, QuantityNext, SMTT(30)
    <3>3. plan[m].item = i /\ plan[m].qty = q
      BY <1>1, <1>3
    <3> QED BY <1>11, <3>2, <3>3
  <2>2. Quantity(plan, Of(plan, m, i)) <= Planned(plan, i)
    BY <1>0, QuantityPart
  <2>3. Planned(plan, i) \in Nat
    BY <1>0, <1>4, QuantityPart, QuantityNat
  <2>4. balance[i].onHand \in Nat /\ balance[i].allocated \in Nat
    BY <1>4 DEF Rows, BalancesOf
  <2> QED BY <1>4, <1>10, <2>1, <2>2, <2>3, <2>4 DEF Available
<1>13. balance[i].onHand \in Nat /\ balance[i].allocated \in Nat
  BY <1>4 DEF Rows, BalancesOf
<1>14. b[i] = [onHand |-> balance[i].onHand, allocated |-> balance[i].allocated + x]
  BY <1>4, <1>5, <1>11 DEF LedgerAfter
<1>15. PICK allocated : allocated = Apply(s.balance[i], [kind |-> "allocate", qty |-> q])
  OBVIOUS
<1>16. allocated = [onHand |-> balance[i].onHand, allocated |-> balance[i].allocated + x + q]
  BY <1>8, <1>14, <1>15 DEF Apply, Adds, Takes
<1>17. q <= Available(s.balance[i]) /\ ValidBalance(allocated)
  <2>1. PICK y : y = balance[i].onHand
    OBVIOUS
  <2>2. PICK z : z = balance[i].allocated
    OBVIOUS
  <2>3. y \in Nat /\ z \in Nat /\ x + q <= y - z
    BY <1>12, <1>13, <2>1, <2>2
  <2>4. s.balance[i].onHand = y /\ s.balance[i].allocated = z + x
    BY <1>8, <1>14, <2>1, <2>2
  <2>5. allocated.onHand = y /\ allocated.allocated = z + x + q
    BY <1>16, <2>1, <2>2
  <2> QED BY <1>4, <1>12, <2>3, <2>4, <2>5 DEF Available, ValidBalance
<1>18. CreateReservation(s, plan[m]) = [balance |-> [b EXCEPT ![i] = allocated],
                                        own     |-> [o EXCEPT ![l][i] = @ + q]]
  BY <1>1, <1>2, <1>3, <1>8, <1>9, <1>10, <1>15, <1>17, Zenon DEF CreateReservation
<1>19. [b EXCEPT ![i] = allocated] = LedgerAfter(plan, m)
  <2>1. ASSUME NEW j \in Items
        PROVE  [b EXCEPT ![i] = allocated][j] = LedgerAfter(plan, m)[j]
    <3>1. /\ Quantity(plan, Of(plan, n, j)) \in Nat
          /\ Quantity(plan, Of(plan, m, j))
               = Quantity(plan, Of(plan, n, j)) + (IF i = j THEN q ELSE 0)
      BY <1>0, <1>1, <1>3, <1>4, QuantityNext
    <3>2. b = [k \in Items |-> b[k]]
      BY <1>5 DEF LedgerAfter
    <3>3. LedgerAfter(plan, m)[j] =
            [onHand    |-> balance[j].onHand,
             allocated |-> balance[j].allocated + Quantity(plan, Of(plan, m, j))]
      BY DEF LedgerAfter
    <3>4. CASE i = j
      BY <1>4, <1>11, <1>12, <1>13, <1>16, <3>1, <3>2, <3>3, <3>4
    <3>5. CASE i # j
      <4>1. Quantity(plan, Of(plan, m, j)) = Quantity(plan, Of(plan, n, j))
        BY <3>1, <3>5
      <4>2. b[j] = LedgerAfter(plan, m)[j]
        BY <1>5, <3>3, <4>1 DEF LedgerAfter
      <4> QED BY <3>2, <3>5, <4>2
    <3> QED BY <3>4, <3>5
  <2>2. DOMAIN b = Items
    BY <1>5 DEF LedgerAfter
  <2>3. LedgerAfter(plan, m) = [j \in Items |-> LedgerAfter(plan, m)[j]]
    BY DEF LedgerAfter
  <2>4. [b EXCEPT ![i] = allocated] = [j \in Items |-> [b EXCEPT ![i] = allocated][j]]
    BY <2>2
  <2> QED BY <2>1, <2>3, <2>4
<1>20. [o EXCEPT ![l][i] = @ + q] = OwnAfter(plan, m)
  <2>1. ASSUME NEW k \in Lines, NEW j \in Items
        PROVE  [o EXCEPT ![l][i] = @ + q][k][j] = OwnAfter(plan, m)[k][j]
    <3>1. /\ Quantity(plan, Given(plan, n, k, j)) \in Nat
          /\ Quantity(plan, Given(plan, m, k, j))
               = Quantity(plan, Given(plan, n, k, j)) + (IF l = k /\ i = j THEN q ELSE 0)
      BY <1>0, <1>1, <1>2, <1>3, <1>4, QuantityNext
    <3>2. /\ o[k][j] = Quantity(plan, Given(plan, n, k, j))
          /\ OwnAfter(plan, m)[k][j] = Quantity(plan, Given(plan, m, k, j))
      BY <1>6 DEF OwnAfter
    <3>3. [o EXCEPT ![l][i] = @ + q][k][j] = IF l = k /\ i = j THEN o[k][j] + q ELSE o[k][j]
      <4>1. o = [u \in Lines |-> [v \in Items |-> o[u][v]]]
        BY <1>6 DEF OwnAfter
      <4> QED BY <1>4, <4>1
    <3> QED BY <1>4, <3>1, <3>2, <3>3
  <2>2. PICK e : e = [o EXCEPT ![l][i] = @ + q]
    OBVIOUS
  <2>3. e = [k \in Lines |-> [j \in Items |-> e[k][j]]]
    <3>1. o = [u \in Lines |-> [v \in Items |-> o[u][v]]]
      BY <1>6 DEF OwnAfter
    <3> QED BY <2>2, <3>1
  <2>4. PICK w : w = OwnAfter(plan, m)
    OBVIOUS
  <2>5. w = [k \in Lines |-> [j \in Items |-> w[k][j]]]
    BY <2>4 DEF OwnAfter
  <2>6. \A k \in Lines, j \in Items : e[k][j] = w[k][j]
    BY <2>1, <2>2, <2>4
  <2>7. [k \in Lines |-> [j \in Items |-> e[k][j]]] = [k \in Lines |-> [j \in Items |-> w[k][j]]]
    BY <2>6
  <2>8. e = w
    BY <2>3, <2>5, <2>7, Zenon
  <2> QED BY <2>2, <2>4, <2>8, Zenon
<1> QED BY <1>18, <1>19, <1>20 DEF Made

\* A plan that the inventory has room for is made as planned.
LEMMA MadeAsPlanned ==
  ASSUME Rows, NEW plan, HasRoom(plan)
  PROVE  Made(CreateReservations(plan), plan, Len(plan))
<1>1. plan \in Seq(PlanSteps) /\ Len(plan) \in Nat
  <2>1. plan \in Seq(PlanSteps)
    BY DEF HasRoom
  <2> QED BY <2>1
<1> DEFINE g == CHOOSE h : h = Steps(plan, h)
<1>2. g = Steps(plan, g)
  BY <1>1, StepsExist
<1>3. CreateReservations(plan) = g[Len(plan)]
  BY CreateIsSteps
<1> HIDE DEF g
<1>4. /\ g[0] = [balance |-> balance, own |-> Nothing]
      /\ \A n \in 1..Len(plan) : g[n] = CreateReservation(g[n - 1], plan[n])
  BY <1>1, <1>2 DEF Steps
<1> DEFINE T == {n \in Nat : n <= Len(plan) => Made(g[n], plan, n)}
<1>5. 0 \in T
  <2>1. \A l, i : Quantity(plan, Of(plan, 0, i)) = 0 /\ Quantity(plan, Given(plan, 0, l, i)) = 0
    BY QuantityNone
  <2>2. LedgerAfter(plan, 0) = balance
    <3>1. \A i \in Items : balance[i] = [onHand |-> balance[i].onHand, allocated |-> balance[i].allocated]
                           /\ balance[i].allocated \in Nat
      BY DEF Rows, BalancesOf
    <3>2. \A i \in Items : LedgerAfter(plan, 0)[i] = balance[i]
      <4> SUFFICES ASSUME NEW i \in Items PROVE LedgerAfter(plan, 0)[i] = balance[i]
        OBVIOUS
      <4>1. PICK z : z = balance[i].allocated
        OBVIOUS
      <4>2. LedgerAfter(plan, 0)[i] = [onHand |-> balance[i].onHand, allocated |-> z + 0]
        BY <2>1, <4>1 DEF LedgerAfter
      <4>3. z + 0 = z
        <5>1. z \in Nat
          BY <3>1, <4>1, Zenon
        <5> QED BY <5>1
      <4>4. LedgerAfter(plan, 0)[i] = [onHand |-> balance[i].onHand, allocated |-> balance[i].allocated]
        BY <4>1, <4>2, <4>3, Zenon
      <4> QED BY <3>1, <4>4, Zenon
    <3>3. LedgerAfter(plan, 0) = [i \in Items |-> LedgerAfter(plan, 0)[i]]
      BY DEF LedgerAfter
    <3>4. balance = [i \in Items |-> balance[i]]
      BY DEF Rows
    <3> QED BY <3>2, <3>3, <3>4
  <2>3. OwnAfter(plan, 0) = Nothing
    BY <2>1 DEF OwnAfter, Nothing
  <2> QED BY <1>4, <2>2, <2>3 DEF Made
<1>6. ASSUME NEW n \in Nat, n \in T PROVE n + 1 \in T
  <2> SUFFICES ASSUME n + 1 <= Len(plan) PROVE Made(g[n + 1], plan, n + 1)
    OBVIOUS
  <2>1. PICK m : m = n + 1
    OBVIOUS
  <2>2. m \in 1..Len(plan) /\ m - 1 = n
    BY <1>1, <2>1
  <2>3. Made(g[n], plan, n)
    BY <1>1, <1>6
  <2>4. g[m] = CreateReservation(g[n], plan[m])
    BY <1>4, <2>2
  <2>5. Made(g[m], plan, m)
    BY <2>1, <2>2, <2>3, <2>4, CreateNext
  <2> QED BY <2>1, <2>5
<1>7. Len(plan) \in T
  <2> HIDE DEF T
  <2> QED BY <1>1, <1>5, <1>6, NatSetInduction
<1> QED BY <1>1, <1>3, <1>7

-----------------------------------------------------------------------------
(* What a reader is shown *)

\* A row and a balance are shown with natural numbers.
LEMMA ViewTyped ==
  ASSUME NEW i \in Items, row[i] \in RowsOf(i),
         NEW b, b.onHand \in Nat, b.allocated \in Nat, b.allocated <= b.onHand
  PROVE  View(i, b) \in ViewSet
<1>1. /\ row[i].there \in BOOLEAN /\ row[i].retired \in BOOLEAN /\ row[i].confirmed \in BOOLEAN
      /\ row[i].fits \in BOOLEAN /\ row[i].reported \in Nat
  <2>1. MaxQty[i] \in Nat
    BY SetupAssumption
  <2>2. \A n \in 0..MaxQty[i] : n \in Nat
    BY <2>1
  <2> QED BY <2>2 DEF RowsOf
<1>2. CASE ~row[i].there \/ row[i].retired
  <2>1. View(i, b) = Unlisted
    BY <1>2 DEF View
  <2> QED BY <1>1, <1>2, <2>1 DEF Unlisted, ViewSet
<1>3. CASE ~(~row[i].there \/ row[i].retired)
  <2>1. PICK q : q = IF row[i].confirmed THEN b.onHand ELSE row[i].reported
    OBVIOUS
  <2>2. PICK a : a = IF row[i].confirmed THEN b.allocated ELSE 0
    OBVIOUS
  <2>3. PICK f : f = IF row[i].confirmed THEN Available(b) ELSE 0
    OBVIOUS
  <2>4. q \in Nat /\ a \in Nat /\ f \in Nat
    <3>1. b.onHand - b.allocated \in Nat
      OBVIOUS
    <3> QED BY <1>1, <2>1, <2>2, <2>3, <3>1 DEF Available
  <2>5. View(i, b) = [listed |-> TRUE, fits |-> row[i].fits, confirmed |-> row[i].confirmed,
                      quantity |-> q, allocated |-> a, available |-> f]
    BY <1>3, <2>1, <2>2, <2>3, Zenon DEF View
  <2> QED BY <1>1, <1>3, <2>4, <2>5 DEF ViewSet
<1> QED BY <1>2, <1>3

\* So is the inventory as a plan would leave it.
LEMMA ProjectedTyped ==
  ASSUME NEW view \in [Items -> ViewSet], NEW plan \in Seq(PlanSteps)
  PROVE  /\ Projected(view, plan) \in [Items -> ViewSet]
         /\ \A i \in Items : Projected(view, plan)[i] =
              [view[i] EXCEPT !.available = Most(0, view[i].available - Planned(plan, i)),
                              !.allocated = view[i].allocated + Planned(plan, i)]
         /\ \A i \in Items : Projected(view, plan)[i].fits = view[i].fits
<1>1. \A i \in Items : Projected(view, plan)[i] =
        [view[i] EXCEPT !.available = Most(0, view[i].available - Planned(plan, i)),
                        !.allocated = view[i].allocated + Planned(plan, i)]
  BY DEF Projected
<1>2. ASSUME NEW i \in Items
      PROVE  Projected(view, plan)[i] \in ViewSet /\ Projected(view, plan)[i].fits = view[i].fits
  <2>2. Planned(plan, i) \in Nat
    BY PlannedNat
  <2>3. PICK v : v = view[i]
    OBVIOUS
  <2>4. v \in ViewSet
    BY <2>3
  <2>5. PICK x : x = Most(0, v.available - Planned(plan, i))
    OBVIOUS
  <2>6. PICK y : y = v.allocated + Planned(plan, i)
    OBVIOUS
  <2>7. x \in Nat /\ y \in Nat
    <3>1. v.available \in Nat /\ v.allocated \in Nat
      BY <2>4 DEF ViewSet
    <3> QED BY <2>2, <2>5, <2>6, <3>1 DEF Most
  <2>8. Projected(view, plan)[i] = [v EXCEPT !.available = x, !.allocated = y]
    BY <1>1, <2>3, <2>5, <2>6, Zenon
  <2>9. [v EXCEPT !.available = x, !.allocated = y] \in ViewSet
        /\ [v EXCEPT !.available = x, !.allocated = y].fits = v.fits
    BY <2>4, <2>7 DEF ViewSet
  <2> QED BY <2>3, <2>8, <2>9
<1>3. Projected(view, plan) = [i \in Items |-> Projected(view, plan)[i]]
  BY DEF Projected
<1> QED BY <1>1, <1>2, <1>3

-----------------------------------------------------------------------------
(* The invariant *)

\* An active preview has no errors, by the inventory it has seen, and shows
\* the gaps its plan leaves in that.
Shown(p) ==
  preview[p].status = "active" =>
    /\ preview[p].plan \in Plans
    /\ preview[p].seen \in [Items -> ViewSet]
    /\ ~FieldErrors(preview[p].seen, preview[p].plan)
    /\ preview[p].gaps = PlannedGaps(preview[p].seen, preview[p].plan)

SetupInv ==
  /\ TypeOK
  /\ Rows
  /\ DOMAIN preview = Previews
  /\ \A p \in Previews : Shown(p)

\* The basis of a preview gives its plan room in the inventory that a commit
\* finds.
LEMMA ReviewedHasRoom ==
  ASSUME SetupInv, NEW p \in Previews, Reviewed(p)
  PROVE  HasRoom(preview[p].plan)
<1>1. PICK plan : plan = preview[p].plan
  OBVIOUS
<1>2. PICK seen : seen = preview[p].seen
  OBVIOUS
<1>3. plan \in Plans /\ seen \in [Items -> ViewSet] /\ ~FieldErrors(seen, plan)
  BY <1>1, <1>2 DEF SetupInv, Shown, Reviewed
<1>4. plan \in Seq(PlanSteps)
  BY <1>3, SetupAssumption
<1>5. Len(plan) \in Nat /\ DOMAIN plan = 1..Len(plan)
  BY <1>4
<1>6. /\ \A i \in Affected(seen, plan) : View(i, balance[i]) = seen[i]
      /\ \A n \in DOMAIN plan : MayReserve(Views, plan[n])
  BY <1>1, <1>2 DEF Reviewed, BasisHolds
<1>7. ASSUME NEW n \in 1..Len(plan)
      PROVE  /\ MayReserve(Views, plan[n]) /\ Views[plan[n].item].fits
             /\ plan[n].qty <= Sets(Most(0, Required[plan[n].line] - Coverage(plan, n - 1, plan[n].line)),
                                    Factor[plan[n].line][plan[n].item])
             /\ Planned(plan, plan[n].item) <= Available(balance[plan[n].item])
  <2>1. PICK i : i = plan[n].item
    OBVIOUS
  <2>2. PICK l : l = plan[n].line
    OBVIOUS
  <2>3. PICK q : q = plan[n].qty
    OBVIOUS
  <2>4. i \in Items /\ l \in Lines /\ q \in Nat
    BY <1>4, <2>1, <2>2, <2>3, PlanStep
  <2>5. Views[i] = seen[i]
    <3>1. i \in Affected(seen, plan)
      BY <1>5, <2>1 DEF Affected
    <3> QED BY <1>6, <2>4, <3>1 DEF Views
  <2>6. ~StepError(seen, plan, n)
    BY <1>3, <1>5 DEF FieldErrors
  <2>7. MayReserve(seen, plan[n]) /\ seen[i].fits
        /\ ~(q > Sets(Most(0, Required[l] - Coverage(plan, n - 1, l)), Factor[l][i]))
    BY <2>1, <2>2, <2>3, <2>6 DEF StepError
  <2>8. Factor[l][i] \in Nat /\ Factor[l][i] > 0 /\ seen[i].listed /\ seen[i].confirmed
    BY <2>1, <2>2, <2>4, <2>7, BomAssumption DEF MayReserve, Confirmed
  <2>9. Coverage(plan, n - 1, l) \in Nat
    <3>1. n - 1 \in 0..Len(plan)
      BY <1>5
    <3> QED BY <1>4, <2>4, <3>1, QuantityNat
  <2>10. PICK r : r = Most(0, Required[l] - Coverage(plan, n - 1, l))
    OBVIOUS
  <2>11. r \in Nat
    <3>1. Required[l] \in Nat
      BY <2>4, BomAssumption
    <3> QED BY <2>9, <2>10, <3>1 DEF Most
  <2>12. Sets(r, Factor[l][i]) \in Int
    <3>1. PICK f : f = Factor[l][i]
      OBVIOUS
    <3>2. PICK d : d = r + f - 1
      OBVIOUS
    <3>3. f \in Nat /\ f > 0 /\ d \in Nat
      BY <2>8, <2>11, <3>1, <3>2
    <3>4. d \div f \in Int
      BY <3>3
    <3> QED BY <3>1, <3>2, <3>4 DEF Sets
  <2>13. q <= Sets(r, Factor[l][i])
    BY <2>4, <2>7, <2>10, <2>12
  <2>14. Planned(plan, i) <= Available(balance[i])
    <3>1. ~(Planned(plan, i) > seen[i].available)
      BY <1>3, <2>4, <2>8 DEF FieldErrors
    <3>2. View(i, balance[i]) = seen[i]
      BY <2>4, <2>5 DEF Views
    <3>3. row[i].there /\ ~row[i].retired /\ row[i].confirmed
      BY <2>8, <3>2 DEF View, Unlisted
    <3>4. seen[i].available = Available(balance[i])
      BY <3>2, <3>3 DEF View
    <3>5. Planned(plan, i) \in Nat
      BY <1>4, PlannedNat
    <3>6. seen[i].available \in Nat
      BY <1>3, <2>4 DEF ViewSet
    <3> QED BY <3>1, <3>4, <3>5, <3>6
  <2> QED BY <1>5, <1>6, <2>1, <2>2, <2>3, <2>5, <2>7, <2>10, <2>13, <2>14
<1> QED BY <1>1, <1>4, <1>7 DEF HasRoom

\* The ledger that a reviewed plan leaves, item by item.
LEMMA LedgerAfterPlan ==
  ASSUME SetupInv, NEW plan, HasRoom(plan), NEW i \in Items
  PROVE  LET b == LedgerAfter(plan, Len(plan))[i]
         IN /\ b = [onHand |-> balance[i].onHand,
                    allocated |-> balance[i].allocated + Planned(plan, i)]
            /\ b \in BalancesOf(i)
            /\ b.allocated <= b.onHand
            /\ Planned(plan, i) = 0 => b = balance[i]
<1>1. plan \in Seq(PlanSteps) /\ Len(plan) \in Nat /\ DOMAIN plan = 1..Len(plan)
  <2>1. plan \in Seq(PlanSteps)
    BY DEF HasRoom
  <2> QED BY <2>1
<1>2. PICK q : q = Planned(plan, i)
  OBVIOUS
<1>3. q \in Nat /\ q = Quantity(plan, Of(plan, Len(plan), i))
  <2>1. Len(plan) \in 0..Len(plan)
    BY <1>1
  <2> QED BY <1>1, <1>2, <2>1, PlannedNat, QuantityPart
<1>4. PICK b : b = LedgerAfter(plan, Len(plan))[i]
  OBVIOUS
<1>5. PICK x : x = balance[i].onHand
  OBVIOUS
<1>6. PICK y : y = balance[i].allocated
  OBVIOUS
<1>7. b = [onHand |-> x, allocated |-> y + q]
  BY <1>3, <1>4, <1>5, <1>6 DEF LedgerAfter
<1>8. balance[i] = [onHand |-> x, allocated |-> y] /\ x \in 0..MaxQty[i] /\ y \in 0..MaxQty[i] /\ y <= x
  <2>1. balance[i] \in BalancesOf(i)
    BY DEF SetupInv, Rows
  <2> QED BY <1>5, <1>6, <2>1 DEF BalancesOf, ValidBalance
<1>9. MaxQty[i] \in Nat
  BY SetupAssumption
<1>10. y + q <= x
  <2>1. CASE \A n \in DOMAIN plan : plan[n].item # i
    <3>1. q = 0
      BY <1>1, <1>2, <2>1, PlannedNat
    <3> QED BY <1>8, <1>9, <3>1
  <2>2. CASE \E n \in DOMAIN plan : plan[n].item = i
    <3>1. q <= Available(balance[i])
      BY <1>1, <1>2, <2>2 DEF HasRoom
    <3>2. q <= x - y
      BY <1>5, <1>6, <3>1 DEF Available
    <3> QED BY <1>3, <1>8, <1>9, <3>2
  <2> QED BY <2>1, <2>2
<1>11. y + q \in 0..MaxQty[i] /\ y + q \in Nat
  BY <1>3, <1>8, <1>9, <1>10
<1>12. b \in BalancesOf(i) /\ b.allocated <= b.onHand
  BY <1>7, <1>8, <1>9, <1>10, <1>11 DEF BalancesOf, ValidBalance
<1>13. ASSUME q = 0 PROVE b = balance[i]
  <2>1. y + q = y
    BY <1>8, <1>13
  <2> QED BY <1>7, <1>8, <2>1
<1> QED BY <1>2, <1>4, <1>5, <1>6, <1>7, <1>12, <1>13

\* A commit leaves the items that were shown as the preview said.
LEMMA LeftAsShown ==
  ASSUME SetupInv, NEW p \in Previews, Reviewed(p), NEW plan, plan = preview[p].plan,
         NEW seen, seen = preview[p].seen, NEW i \in Affected(seen, plan), i \in Items
  PROVE  View(i, LedgerAfter(plan, Len(plan))[i]) = Projected(seen, plan)[i]
<1>1. seen \in [Items -> ViewSet] /\ plan \in Seq(PlanSteps)
  BY SetupAssumption DEF SetupInv, Shown, Reviewed
<1>2. HasRoom(plan)
  BY ReviewedHasRoom
<1>3. View(i, balance[i]) = seen[i]
  BY DEF Reviewed, BasisHolds
<1>4. PICK q : q = Planned(plan, i)
  OBVIOUS
<1>5. PICK b : b = LedgerAfter(plan, Len(plan))[i]
  OBVIOUS
<1>6. PICK v : v = seen[i]
  OBVIOUS
<1>7. /\ b = [onHand |-> balance[i].onHand, allocated |-> balance[i].allocated + q]
      /\ b.allocated <= b.onHand
      /\ q = 0 => b = balance[i]
      /\ q \in Nat
  BY <1>1, <1>2, <1>4, <1>5, LedgerAfterPlan, PlannedNat
<1>8. Projected(seen, plan)[i] = [v EXCEPT !.available = Most(0, v.available - q),
                                           !.allocated = v.allocated + q]
  BY <1>4, <1>6, Zenon DEF Projected
<1>9. /\ v = [listed |-> v.listed, fits |-> v.fits, confirmed |-> v.confirmed,
              quantity |-> v.quantity, allocated |-> v.allocated, available |-> v.available]
      /\ v.available \in Nat /\ v.allocated \in Nat
  <2>1. v \in ViewSet
    BY <1>1, <1>6
  <2> QED BY <2>1 DEF ViewSet
<1>10. CASE q = 0
  <2>1. Most(0, v.available - q) = v.available /\ v.allocated + q = v.allocated
    BY <1>9, <1>10 DEF Most
  <2>2. [v EXCEPT !.available = v.available, !.allocated = v.allocated] = v
    BY <1>9
  <2>3. Projected(seen, plan)[i] = v
    BY <1>8, <2>1, <2>2, Zenon
  <2>4. View(i, b) = v
    BY <1>3, <1>6, <1>7, <1>10
  <2> QED BY <1>5, <2>3, <2>4
<1>11. CASE q # 0
  <2>1. PICK n \in DOMAIN plan : plan[n].item = i
    BY <1>1, <1>4, <1>11, PlannedNat
  <2>2. MayReserve(Views, plan[n])
    BY DEF Reviewed, BasisHolds
  <2>3. Views[i].listed /\ Views[i].confirmed
    BY <2>1, <2>2 DEF MayReserve, Confirmed
  <2>4. v.listed /\ v.confirmed
    BY <1>3, <1>6, <2>3 DEF Views
  <2>5. row[i].there /\ ~row[i].retired /\ row[i].confirmed
    BY <1>3, <1>6, <2>4 DEF View, Unlisted
  <2>6. \A c : View(i, c) = [listed |-> TRUE, fits |-> row[i].fits, confirmed |-> row[i].confirmed,
                             quantity |-> c.onHand, allocated |-> c.allocated,
                             available |-> Available(c)]
    BY <2>5 DEF View
  <2>7. PICK x : x = balance[i].onHand
    OBVIOUS
  <2>8. PICK y : y = balance[i].allocated
    OBVIOUS
  <2>9. x \in Nat /\ y \in Nat
    <3>1. balance[i] \in BalancesOf(i)
      BY DEF SetupInv, Rows
    <3> QED BY <2>7, <2>8, <3>1 DEF BalancesOf, ValidBalance
  <2>10. v = [listed |-> TRUE, fits |-> row[i].fits, confirmed |-> row[i].confirmed,
              quantity |-> x, allocated |-> y, available |-> x - y]
    BY <1>3, <1>6, <2>6, <2>7, <2>8 DEF Available
  <2>11. b.onHand = x /\ b.allocated = y + q /\ y + q <= x
    BY <1>7, <2>7, <2>8
  <2>12. View(i, b) = [listed |-> TRUE, fits |-> row[i].fits, confirmed |-> row[i].confirmed,
                       quantity |-> x, allocated |-> y + q, available |-> x - (y + q)]
    BY <2>6, <2>11 DEF Available
  <2>13. Most(0, v.available - q) = x - (y + q) /\ v.allocated + q = y + q
    <3>1. v.available = x - y /\ v.allocated = y
      BY <2>10
    <3> QED BY <1>7, <2>9, <2>11, <3>1 DEF Most
  <2>14. Projected(seen, plan)[i] = [v EXCEPT !.available = x - (y + q), !.allocated = y + q]
    BY <1>8, <2>13, Zenon
  <2>15. [v EXCEPT !.available = x - (y + q), !.allocated = y + q]
           = [listed |-> TRUE, fits |-> row[i].fits, confirmed |-> row[i].confirmed,
              quantity |-> x, allocated |-> y + q, available |-> x - (y + q)]
    <3>1. PICK a : a = x - (y + q)
      OBVIOUS
    <3>2. PICK d : d = y + q
      OBVIOUS
    <3>3. PICK w : w = [v EXCEPT !.available = a]
      OBVIOUS
    <3>4. w = [listed |-> TRUE, fits |-> row[i].fits, confirmed |-> row[i].confirmed,
               quantity |-> x, allocated |-> y, available |-> a]
      BY <2>10, <3>3
    <3>5. [w EXCEPT !.allocated = d]
            = [listed |-> TRUE, fits |-> row[i].fits, confirmed |-> row[i].confirmed,
               quantity |-> x, allocated |-> d, available |-> a]
      <4>1. ASSUME NEW t, NEW f, NEW c
            PROVE  [[listed |-> t, fits |-> f, confirmed |-> c, quantity |-> x,
                     allocated |-> y, available |-> a] EXCEPT !.allocated = d]
                     = [listed |-> t, fits |-> f, confirmed |-> c, quantity |-> x,
                        allocated |-> d, available |-> a]
        OBVIOUS
      <4> QED BY <3>4, <4>1, Zenon
    <3>6. [w EXCEPT !.allocated = d] = [v EXCEPT !.available = a, !.allocated = d]
      BY <3>3, Zenon
    <3> QED BY <3>1, <3>2, <3>5, <3>6, Zenon
  <2> QED BY <1>5, <2>12, <2>14, <2>15
<1> QED BY <1>10, <1>11

\* What a commit makes and answers.
CommitsAs(p, plan) ==
  /\ balance' = LedgerAfter(plan, Len(plan))
  /\ own' = [own EXCEPT ![p] = PlannedOwn(plan)]
  /\ preview' = [preview EXCEPT ![p] = [Blank("committed") EXCEPT
       !.answer = Gaps([i \in Items |-> View(i, LedgerAfter(plan, Len(plan))[i])],
                       PlannedOwn(plan))]]
  /\ moved' = [Bumped({plan[n].item : n \in DOMAIN plan}) EXCEPT ![p] = {}]
  /\ row' = row /\ Reviewed(p) /\ HasRoom(plan)

\* It is as planned.
LEMMA CommitMakes ==
  ASSUME SetupInv, NEW p \in Previews, CommitPreview(p)
  PROVE  CommitsAs(p, preview[p].plan)
<1>1. PICK plan : plan = preview[p].plan
  OBVIOUS
<1>2. PICK made : made = CreateReservations(plan)
  OBVIOUS
<1>3. /\ Reviewed(p)
      /\ balance' = made.balance
      /\ own' = [own EXCEPT ![p] = made.own]
      /\ preview' = [preview EXCEPT ![p] = [Blank("committed") EXCEPT
           !.answer = Gaps([i \in Items |-> View(i, made.balance[i])], made.own)]]
      /\ moved' = [Bumped({plan[n].item : n \in DOMAIN plan}) EXCEPT ![p] = {}]
      /\ row' = row
  BY <1>1, <1>2 DEF CommitPreview
<1>4. HasRoom(plan)
  BY <1>1, <1>3, ReviewedHasRoom
<1>5. Made(made, plan, Len(plan))
  <2>1. Rows
    BY DEF SetupInv
  <2> QED BY <1>2, <1>4, <2>1, MadeAsPlanned
<1>6. made.balance = LedgerAfter(plan, Len(plan)) /\ made.own = OwnAfter(plan, Len(plan))
  BY <1>5 DEF Made
<1>7. OwnAfter(plan, Len(plan)) = PlannedOwn(plan)
  <2>1. DOMAIN plan = 1..Len(plan)
    BY <1>4 DEF HasRoom
  <2> QED BY <2>1 DEF OwnAfter, PlannedOwn, Given
<1> QED BY <1>1, <1>3, <1>4, <1>6, <1>7, Zenon DEF CommitsAs

\* A preview that nothing touches is shown as before.
LEMMA ShownKept ==
  ASSUME NEW p, Shown(p), preview'[p] = preview[p]
  PROVE  Shown(p)'
BY DEF Shown

\* The versions that a command bumps are those of items.
LEMMA BumpedTyped ==
  ASSUME SetupInv, NEW S \in SUBSET Items
  PROVE  Bumped(S) \in [Previews -> SUBSET Items]
BY DEF SetupInv, TypeOK, Bumped

\* What the projects have reserved of an item.
LEMMA OwnNat ==
  ASSUME SetupInv, NEW i \in Items
  PROVE  /\ OwnOf(i) \in Nat
         /\ \A p \in Previews : OwnTotal(own[p], i) \in Nat
<1>1. ASSUME NEW p \in Previews PROVE OwnTotal(own[p], i) \in Nat
  <2> DEFINE f == [l \in Lines |-> own[p][l][i]]
  <2>1. \A l \in Lines : f[l] \in Nat
    BY DEF SetupInv, TypeOK
  <2>2. DOMAIN f = Lines
    OBVIOUS
  <2> HIDE DEF f
  <2>3. SumFunctionOnSet(f, Lines) \in Nat
    BY <2>1, BomFinite, SumNat
  <2> QED BY <2>2, <2>3, Zenon DEF OwnTotal, SumFunction, f
<1> DEFINE g == [p \in Previews |-> OwnTotal(own[p], i)]
<1>2. \A p \in Previews : g[p] \in Nat
  BY <1>1
<1>3. DOMAIN g = Previews
  OBVIOUS
<1> HIDE DEF g
<1>4. SumFunctionOnSet(g, Previews) \in Nat
  BY <1>2, SetupAssumption, SumNat
<1> QED BY <1>1, <1>3, <1>4, Zenon DEF OwnOf, SumFunction, g

\* At first there is nothing.
LEMMA InvInit == Init => SetupInv
<1> SUFFICES ASSUME Init PROVE SetupInv
  OBVIOUS
<1>1. ASSUME NEW i \in Items
      PROVE  row[i] \in RowsOf(i) /\ balance[i] \in BalancesOf(i) /\ balance[i].allocated = 0
  <2>1. 0 \in 0..MaxQty[i]
    BY SetupAssumption
  <2> QED BY <2>1 DEF Init, NoRow, RowsOf, Empty, BalancesOf, ValidBalance
<1>2. \A p \in Previews : preview[p] = Blank("none")
  BY DEF Init
<1>3. \A p \in Previews : preview[p].status = "none" /\ preview[p].plan = <<>>
  BY <1>2 DEF Blank
<1>4. moved \in [Previews -> SUBSET Items]
  BY DEF Init
<1>5. own \in [Previews -> [Lines -> [Items -> Nat]]]
  BY DEF Init, Nothing
<1>6. ASSUME NEW i \in Items PROVE OwnOf(i) = 0
  <2>1. ASSUME NEW p \in Previews PROVE OwnTotal(own[p], i) = 0
    <3>1. PICK f : f = [l \in Lines |-> own[p][l][i]]
      OBVIOUS
    <3>2. \A l \in Lines : f[l] = 0
      BY <3>1 DEF Init, Nothing
    <3>3. SumFunctionOnSet(f, Lines) = 0
      BY <3>2, BomFinite, SumZero
    <3>4. DOMAIN f = Lines
      BY <3>1
    <3> QED BY <3>1, <3>3, <3>4, Zenon DEF OwnTotal, SumFunction
  <2>2. PICK g : g = [p \in Previews |-> OwnTotal(own[p], i)]
    OBVIOUS
  <2>3. \A p \in Previews : g[p] = 0
    BY <2>1, <2>2
  <2>4. SumFunctionOnSet(g, Previews) = 0
    BY <2>3, SetupAssumption, SumZero
  <2>5. DOMAIN g = Previews
    BY <2>2
  <2> QED BY <2>2, <2>4, <2>5, Zenon DEF OwnOf, SumFunction
<1>7. TypeOK
  BY <1>1, <1>3, <1>4, <1>5, <1>6 DEF TypeOK, Statuses
<1>8. Rows
  BY <1>1 DEF Rows, Init
<1>9. DOMAIN preview = Previews
  BY DEF Init
<1>10. \A p \in Previews : Shown(p)
  BY <1>3 DEF Shown
<1> QED BY <1>7, <1>8, <1>9, <1>10 DEF SetupInv

\* What is saved of a preview without errors.
Active(plan, seen, gaps) ==
  [Blank("active") EXCEPT !.plan = plan, !.seen = seen, !.gaps = gaps]

\* Its fields.
LEMMA ActiveFields ==
  ASSUME NEW plan, NEW seen, NEW gaps
  PROVE  /\ Active(plan, seen, gaps).status = "active"
         /\ Active(plan, seen, gaps).plan = plan
         /\ Active(plan, seen, gaps).seen = seen
         /\ Active(plan, seen, gaps).gaps = gaps
<1>1. PICK r : r = [Blank("active") EXCEPT !.plan = plan]
  OBVIOUS
<1>2. PICK u : u = [r EXCEPT !.seen = seen]
  OBVIOUS
<1>3. PICK w : w = [u EXCEPT !.gaps = gaps]
  OBVIOUS
<1>4. {"status", "plan", "seen", "gaps"} \subseteq DOMAIN r /\ r.status = "active" /\ r.plan = plan
  BY <1>1 DEF Blank
<1>5. /\ {"status", "plan", "seen", "gaps"} \subseteq DOMAIN u
      /\ u.status = "active" /\ u.plan = plan /\ u.seen = seen
  BY <1>2, <1>4
<1>6. w.status = "active" /\ w.plan = plan /\ w.seen = seen /\ w.gaps = gaps
  BY <1>3, <1>5
<1>7. Active(plan, seen, gaps) = w
  BY <1>1, <1>2, <1>3, Zenon DEF Active
<1> QED BY <1>6, <1>7

\* A preview is made.
LEMMA PreviewInv ==
  ASSUME SetupInv, NEW p \in Previews, NEW plan \in Plans, PreviewSetup(p, plan)
  PROVE  SetupInv'
<1>1. PICK new : new = IF FieldErrors(Views, plan) THEN Blank("invalid")
                       ELSE [Blank("active") EXCEPT !.plan = plan, !.seen = Views,
                                                    !.gaps = PlannedGaps(Views, plan)]
  OBVIOUS
<1>2. preview' = [preview EXCEPT ![p] = new] /\ UNCHANGED <<row, balance, moved, own>>
  BY <1>1 DEF PreviewSetup
<1>3. /\ DOMAIN preview' = Previews
      /\ \A q \in Previews : preview'[q] = IF q = p THEN new ELSE preview[q]
  BY <1>2 DEF SetupInv
<1>4. PICK seen : seen = Views
  OBVIOUS
<1>5. PICK gaps : gaps = PlannedGaps(Views, plan)
  OBVIOUS
<1>6. \/ FieldErrors(seen, plan) /\ new = Blank("invalid")
      \/ ~FieldErrors(seen, plan) /\ new = Active(plan, seen, gaps)
  BY <1>1, <1>4, <1>5, Zenon DEF Active
<1>7. seen \in [Items -> ViewSet]
  <2>1. ASSUME NEW i \in Items PROVE View(i, balance[i]) \in ViewSet
    <3>1. row[i] \in RowsOf(i) /\ balance[i] \in BalancesOf(i)
      BY DEF SetupInv, Rows
    <3>2. balance[i].onHand \in Nat /\ balance[i].allocated \in Nat
          /\ balance[i].allocated <= balance[i].onHand
      BY <3>1 DEF BalancesOf, ValidBalance
    <3> QED BY <3>1, <3>2, ViewTyped
  <2> QED BY <1>4, <2>1 DEF Views
<1>8. \/ new.status = "invalid" /\ new.plan = <<>>
      \/ /\ ~FieldErrors(seen, plan)
         /\ new.status = "active" /\ new.plan = plan /\ new.seen = seen /\ new.gaps = gaps
  BY <1>6, ActiveFields DEF Blank
<1>9. TypeOK'
  <2>1. \A q \in Previews : preview'[q].status \in Statuses /\ preview'[q].plan \in Plans \cup {<<>>}
    BY <1>3, <1>8 DEF SetupInv, TypeOK, Statuses
  <2>2. \A i \in Items : OwnOf(i)' = OwnOf(i)
    BY <1>2 DEF OwnOf, OwnTotal
  <2> QED BY <1>2, <2>1, <2>2 DEF SetupInv, TypeOK
<1>10. Rows'
  BY <1>2 DEF SetupInv, Rows
<1>11. ASSUME NEW q \in Previews PROVE Shown(q)'
  <2>1. CASE q = p
    <3>1. preview'[q] = new
      BY <1>3, <2>1
    <3> QED BY <1>4, <1>5, <1>7, <1>8, <3>1 DEF Shown
  <2>2. CASE q # p
    BY <1>3, <2>2, ShownKept DEF SetupInv
  <2> QED BY <2>1, <2>2
<1> QED BY <1>3, <1>9, <1>10, <1>11 DEF SetupInv

\* A preview expires.
LEMMA ExpireInv ==
  ASSUME SetupInv, NEW p \in Previews, Expire(p)
  PROVE  SetupInv'
<1>1. /\ preview' = [preview EXCEPT ![p] = Blank("expired")]
      /\ moved' = [moved EXCEPT ![p] = {}]
      /\ UNCHANGED <<row, balance, own>>
  BY DEF Expire
<1>2. /\ DOMAIN preview' = Previews
      /\ \A q \in Previews : preview'[q] = IF q = p THEN Blank("expired") ELSE preview[q]
  BY <1>1 DEF SetupInv
<1>3. Blank("expired").status = "expired" /\ Blank("expired").plan = <<>>
  BY DEF Blank
<1>4. TypeOK'
  <2>1. \A q \in Previews : preview'[q].status \in Statuses /\ preview'[q].plan \in Plans \cup {<<>>}
    BY <1>2, <1>3 DEF SetupInv, TypeOK, Statuses
  <2>2. \A i \in Items : OwnOf(i)' = OwnOf(i)
    BY <1>1 DEF OwnOf, OwnTotal
  <2>3. moved' \in [Previews -> SUBSET Items]
    BY <1>1 DEF SetupInv, TypeOK
  <2> QED BY <1>1, <2>1, <2>2, <2>3 DEF SetupInv, TypeOK
<1>5. Rows'
  BY <1>1 DEF SetupInv, Rows
<1>6. ASSUME NEW q \in Previews PROVE Shown(q)'
  <2>1. CASE q = p
    BY <1>2, <1>3, <2>1 DEF Shown
  <2>2. CASE q # p
    BY <1>2, <2>2, ShownKept DEF SetupInv
  <2> QED BY <2>1, <2>2
<1> QED BY <1>2, <1>4, <1>5, <1>6 DEF SetupInv

\* A preview becomes a project.
LEMMA CommitInv ==
  ASSUME SetupInv, NEW p \in Previews, CommitPreview(p)
  PROVE  SetupInv'
<1>1. PICK plan : plan = preview[p].plan
  OBVIOUS
<1>2. PICK new : new = [Blank("committed") EXCEPT
        !.answer = Gaps([i \in Items |-> View(i, LedgerAfter(plan, Len(plan))[i])], PlannedOwn(plan))]
  OBVIOUS
<1>3. /\ balance' = LedgerAfter(plan, Len(plan))
      /\ own' = [own EXCEPT ![p] = PlannedOwn(plan)]
      /\ preview' = [preview EXCEPT ![p] = new]
      /\ moved' = [Bumped({plan[n].item : n \in DOMAIN plan}) EXCEPT ![p] = {}]
      /\ row' = row /\ HasRoom(plan)
  <2>1. CommitsAs(p, plan)
    BY <1>1, CommitMakes
  <2> QED BY <1>2, <2>1, Zenon DEF CommitsAs
<1>4. plan \in Seq(PlanSteps) /\ Len(plan) \in Nat /\ DOMAIN plan = 1..Len(plan)
  <2>1. plan \in Seq(PlanSteps)
    BY <1>3 DEF HasRoom
  <2> QED BY <2>1
<1>5. new.status = "committed" /\ new.plan = <<>>
  BY <1>2 DEF Blank
<1>6. /\ DOMAIN preview' = Previews
      /\ \A q \in Previews : preview'[q] = IF q = p THEN new ELSE preview[q]
  BY <1>3 DEF SetupInv
<1>7. ASSUME NEW i \in Items
      PROVE  /\ balance'[i].allocated = balance[i].allocated + Planned(plan, i)
             /\ balance'[i] \in BalancesOf(i)
  <2>1. PICK b : b = LedgerAfter(plan, Len(plan))[i]
    OBVIOUS
  <2>2. /\ b = [onHand |-> balance[i].onHand,
                allocated |-> balance[i].allocated + Planned(plan, i)]
        /\ b \in BalancesOf(i)
    BY <1>3, <2>1, LedgerAfterPlan
  <2>3. b.allocated = balance[i].allocated + Planned(plan, i)
    BY <2>2
  <2> QED BY <1>3, <2>1, <2>2, <2>3, Zenon
<1>8. PlannedOwn(plan) \in [Lines -> [Items -> Nat]]
  <2>1. ASSUME NEW l \in Lines, NEW i \in Items
        PROVE  Quantity(plan, {n \in DOMAIN plan : plan[n].line = l /\ plan[n].item = i}) \in Nat
    <3>1. {n \in DOMAIN plan : plan[n].line = l /\ plan[n].item = i} = Given(plan, Len(plan), l, i)
      BY <1>4 DEF Given
    <3>2. Len(plan) \in 0..Len(plan)
      BY <1>4
    <3> QED BY <1>4, <3>1, <3>2, QuantityNat
  <2> QED BY <2>1 DEF PlannedOwn
<1>9. own' \in [Previews -> [Lines -> [Items -> Nat]]]
  BY <1>3, <1>8 DEF SetupInv, TypeOK
<1>10. moved' \in [Previews -> SUBSET Items]
  <2>1. {plan[n].item : n \in DOMAIN plan} \subseteq Items
    BY <1>4, PlanStep
  <2> QED BY <1>3, <2>1, BumpedTyped
<1>11. ASSUME NEW i \in Items PROVE OwnOf(i)' <= balance'[i].allocated
  <2>1. OwnTotal(PlannedOwn(plan), i) = Planned(plan, i)
    <3>1. SumFunction([l \in Lines |-> Quantity(plan, Given(plan, Len(plan), l, i))])
            = Quantity(plan, Of(plan, Len(plan), i))
      <4>1. Len(plan) \in 0..Len(plan)
        BY <1>4
      <4> QED BY <1>4, <4>1, TotalOfLines
    <3>2. \A l \in Lines : PlannedOwn(plan)[l][i] = Quantity(plan, Given(plan, Len(plan), l, i))
      BY <1>4 DEF PlannedOwn, Given
    <3>3. [l \in Lines |-> PlannedOwn(plan)[l][i]]
            = [l \in Lines |-> Quantity(plan, Given(plan, Len(plan), l, i))]
      BY <3>2
    <3>4. Planned(plan, i) = Quantity(plan, Of(plan, Len(plan), i))
      BY <1>4 DEF Planned, Of
    <3> QED BY <3>1, <3>3, <3>4, Zenon DEF OwnTotal
  <2>2. PICK f : f = [q \in Previews |-> OwnTotal(own[q], i)]
    OBVIOUS
  <2>3. PICK g : g = [q \in Previews |-> OwnTotal(own'[q], i)]
    OBVIOUS
  <2>4. \A q \in Previews : f[q] \in Nat
    BY <2>2, OwnNat
  <2>5. PICK x : x = Planned(plan, i)
    OBVIOUS
  <2>6. x \in Nat
    BY <1>4, <2>5, PlannedNat
  <2>7. g[p] = x
    <3>1. own'[p] = PlannedOwn(plan)
      BY <1>3 DEF SetupInv, TypeOK
    <3> QED BY <2>1, <2>3, <2>5, <3>1
  <2>8. \A q \in Previews : q # p => g[q] = f[q]
    <3>1. \A q \in Previews : q # p => own'[q] = own[q]
      BY <1>3 DEF SetupInv, TypeOK
    <3> QED BY <2>2, <2>3, <3>1
  <2>9. PICK d : d = x - f[p]
    OBVIOUS
  <2>10. d \in Int /\ g[p] = f[p] + d /\ d <= x
    BY <2>4, <2>6, <2>7, <2>9
  <2>11. SumFunctionOnSet(g, Previews) = SumFunctionOnSet(f, Previews) + d
    BY <2>4, <2>8, <2>10, SetupAssumption, SumBump
  <2>12. OwnOf(i) = SumFunctionOnSet(f, Previews) /\ OwnOf(i)' = SumFunctionOnSet(g, Previews)
    <3>1. DOMAIN f = Previews /\ DOMAIN g = Previews
      BY <2>2, <2>3
    <3>2. OwnOf(i) = SumFunction(f)
      BY <2>2, Zenon DEF OwnOf
    <3>3. OwnOf(i)' = SumFunction(g)
      BY <2>3, Zenon DEF OwnOf, OwnTotal
    <3> QED BY <3>1, <3>2, <3>3, Zenon DEF SumFunction
  <2>13. OwnOf(i) \in Nat /\ OwnOf(i) <= balance[i].allocated /\ balance[i].allocated \in Nat
    <3>1. balance[i] \in BalancesOf(i)
      BY DEF SetupInv, Rows
    <3>2. balance[i].allocated \in Nat
      BY <3>1 DEF BalancesOf, ValidBalance
    <3> QED BY <3>2, OwnNat DEF SetupInv, TypeOK
  <2>14. balance'[i].allocated = balance[i].allocated + x
    BY <1>7, <2>5
  <2> QED BY <2>6, <2>10, <2>11, <2>12, <2>13, <2>14
<1>12. TypeOK'
  <2>1. \A q \in Previews : preview'[q].status \in Statuses /\ preview'[q].plan \in Plans \cup {<<>>}
    BY <1>5, <1>6 DEF SetupInv, TypeOK, Statuses
  <2>2. \A i \in Items : row'[i] \in RowsOf(i) /\ balance'[i] \in BalancesOf(i)
    BY <1>3, <1>7 DEF SetupInv, Rows
  <2> QED BY <1>9, <1>10, <1>11, <2>1, <2>2 DEF TypeOK
<1>13. Rows'
  <2>1. balance' = [i \in Items |-> balance'[i]]
    BY <1>3 DEF LedgerAfter
  <2> QED BY <1>3, <1>7, <2>1 DEF SetupInv, Rows
<1>14. ASSUME NEW q \in Previews PROVE Shown(q)'
  <2>1. CASE q = p
    BY <1>5, <1>6, <2>1 DEF Shown
  <2>2. CASE q # p
    BY <1>6, <2>2, ShownKept DEF SetupInv
  <2> QED BY <2>1, <2>2
<1> QED BY <1>6, <1>12, <1>13, <1>14 DEF SetupInv

\* A row and a balance that keep what the projects have reserved.
LEMMA ChangeInv ==
  ASSUME SetupInv, NEW i \in Items, NEW r \in RowsOf(i), NEW b \in BalancesOf(i),
         b.allocated >= OwnOf(i),
         row' = [row EXCEPT ![i] = r], balance' = [balance EXCEPT ![i] = b],
         moved' \in [Previews -> SUBSET Items], UNCHANGED <<preview, own>>
  PROVE  SetupInv'
<1>1. /\ \A j \in Items : row'[j] = IF j = i THEN r ELSE row[j]
      /\ \A j \in Items : balance'[j] = IF j = i THEN b ELSE balance[j]
  BY DEF SetupInv, Rows
<1>2. \A j \in Items : row'[j] \in RowsOf(j) /\ balance'[j] \in BalancesOf(j)
  BY <1>1 DEF SetupInv, Rows
<1>3. ASSUME NEW j \in Items PROVE OwnOf(j)' <= balance'[j].allocated
  <2>1. OwnOf(j)' = OwnOf(j)
    BY DEF OwnOf, OwnTotal
  <2>2. CASE j = i
    <3>1. b.allocated \in Nat /\ OwnOf(i) \in Nat
      BY OwnNat DEF BalancesOf, ValidBalance
    <3> QED BY <1>1, <2>1, <2>2, <3>1
  <2>3. CASE j # i
    BY <1>1, <2>1, <2>3 DEF SetupInv, TypeOK
  <2> QED BY <2>2, <2>3
<1>4. TypeOK'
  BY <1>2, <1>3 DEF SetupInv, TypeOK
<1>5. Rows'
  <2>1. row' = [j \in Items |-> row'[j]] /\ balance' = [j \in Items |-> balance'[j]]
    BY DEF SetupInv, Rows
  <2> QED BY <1>2, <2>1 DEF Rows
<1>6. \A q \in Previews : Shown(q)'
  BY ShownKept DEF SetupInv
<1> QED BY <1>4, <1>5, <1>6 DEF SetupInv

\* Another client changes an item.
LEMMA ElsewhereInv ==
  ASSUME SetupInv, NEW i \in Items, NEW r \in RowsOf(i), NEW b \in BalancesOf(i),
         CommandElsewhere(i, r, b)
  PROVE  SetupInv'
<1>1. /\ row' = [row EXCEPT ![i] = r] /\ balance' = [balance EXCEPT ![i] = b]
      /\ b.allocated >= OwnOf(i) /\ moved' = Bumped({i}) /\ UNCHANGED <<preview, own>>
  BY DEF CommandElsewhere
<1>2. moved' \in [Previews -> SUBSET Items]
  BY <1>1, BumpedTyped
<1> QED BY <1>1, <1>2, ChangeInv

\* A snapshot is imported.
LEMMA ImportInv ==
  ASSUME SetupInv, NEW i \in Items, NEW r \in RowsOf(i), NEW q \in 0..MaxQty[i],
         ImportRow(i, r, q)
  PROVE  SetupInv'
<1>1. PICK b : b = IF q = 0 THEN balance[i]
                   ELSE Apply(balance[i], [kind |-> "receipt", qty |-> q])
  OBVIOUS
<1>2. /\ row' = [row EXCEPT ![i] = r] /\ balance' = [balance EXCEPT ![i] = b]
      /\ b \in BalancesOf(i) /\ UNCHANGED <<preview, moved, own>>
  BY <1>1 DEF ImportRow
<1>3. b.allocated = balance[i].allocated
  BY <1>1 DEF Apply
<1>4. b.allocated >= OwnOf(i)
  <2>1. b.allocated \in Nat /\ OwnOf(i) \in Nat
    BY <1>2, OwnNat DEF BalancesOf, ValidBalance
  <2> QED BY <1>3, <2>1 DEF SetupInv, TypeOK
<1>5. moved' \in [Previews -> SUBSET Items]
  BY <1>2 DEF SetupInv, TypeOK
<1> QED BY <1>2, <1>4, <1>5, ChangeInv

\* Nothing changes.
LEMMA InvStutter == SetupInv /\ UNCHANGED vars => SetupInv'
<1> SUFFICES ASSUME SetupInv, UNCHANGED vars PROVE SetupInv'
  OBVIOUS
<1>1. row' = row /\ balance' = balance /\ preview' = preview /\ moved' = moved /\ own' = own
  BY DEF vars
<1>2. TypeOK'
  <2>1. \A i \in Items : OwnOf(i)' = OwnOf(i)
    BY <1>1 DEF OwnOf, OwnTotal
  <2> QED BY <1>1, <2>1 DEF SetupInv, TypeOK
<1>3. Rows'
  BY <1>1 DEF SetupInv, Rows
<1>4. \A q \in Previews : Shown(q)'
  BY <1>1, ShownKept DEF SetupInv
<1> QED BY <1>1, <1>2, <1>3, <1>4 DEF SetupInv

\* Every step keeps the invariant.
LEMMA InvNext == SetupInv /\ [Next]_vars => SetupInv'
<1> SUFFICES ASSUME SetupInv, [Next]_vars PROVE SetupInv'
  OBVIOUS
<1>1. ASSUME NEW p \in Previews, NEW plan \in Plans, PreviewSetup(p, plan) PROVE SetupInv'
  BY <1>1, PreviewInv
<1>2. ASSUME NEW p \in Previews, Expire(p) PROVE SetupInv'
  BY <1>2, ExpireInv
<1>3. ASSUME NEW p \in Previews, CommitPreview(p) PROVE SetupInv'
  BY <1>3, CommitInv
<1>4. ASSUME NEW i \in Items, NEW r \in RowsOf(i), NEW b \in BalancesOf(i), CommandElsewhere(i, r, b)
      PROVE  SetupInv'
  BY <1>4, ElsewhereInv
<1>5. ASSUME NEW i \in Items, NEW r \in RowsOf(i), NEW q \in 0..MaxQty[i], ImportRow(i, r, q)
      PROVE  SetupInv'
  BY <1>5, ImportInv
<1>6. CASE UNCHANGED vars
  BY <1>6, InvStutter
<1> QED BY <1>1, <1>2, <1>3, <1>4, <1>5, <1>6 DEF Next

-----------------------------------------------------------------------------
(* The theorems *)

\* The invariant holds in every state: an active preview has no errors in the
\* inventory it was made from, and its gaps are those of its plan there
\* (previewProjectSetup).
THEOREM SetupInvHolds == Spec => []SetupInv
<1>1. Init => SetupInv
  BY InvInit
<1>2. SetupInv /\ [Next]_vars => SetupInv'
  BY InvNext
<1> QED BY <1>1, <1>2, PTL DEF Spec

\* The types, and that what the projects have reserved of an item is set
\* aside in its ledger, whatever other clients and imports do.
THEOREM TypeCorrect == Spec => []TypeOK
<1>1. SetupInv => TypeOK
  BY DEF SetupInv
<1> QED BY <1>1, SetupInvHolds, PTL

\* A preview whose basis holds can be committed: each reservation of its plan
\* passes the checks it is put through after those before it.
THEOREM ReviewedCanBeCommitted == Spec => []ReviewedIsPossible
<1>1. ASSUME SetupInv PROVE ReviewedIsPossible
  <2> SUFFICES ASSUME NEW p \in Previews, Reviewed(p)
               PROVE  CreateReservations(preview[p].plan) # Impossible
    BY DEF ReviewedIsPossible
  <2>1. PICK plan : plan = preview[p].plan
    OBVIOUS
  <2>2. PICK made : made = CreateReservations(plan)
    OBVIOUS
  <2>3. Made(made, plan, Len(plan))
    BY <1>1, <2>1, <2>2, ReviewedHasRoom, MadeAsPlanned DEF SetupInv
  <2>4. "refused" \notin DOMAIN made /\ "refused" \in DOMAIN Impossible
    BY <2>3 DEF Made, Impossible
  <2> QED BY <2>1, <2>2, <2>4
<1> QED BY <1>1, SetupInvHolds, PTL

\* The gaps a commit answers with are those its preview showed, and the items
\* that were shown are left as it said.
THEOREM CommitsMakeWhatWasShown == Spec => CommittedAsShown
<1> DEFINE Kept(p) ==
      preview'[p].status = "committed" /\ preview[p].status # "committed" =>
        /\ preview'[p].answer = preview[p].gaps
        /\ \A i \in Affected(preview[p].seen, preview[p].plan) :
             Views'[i] = Projected(preview[p].seen, preview[p].plan)[i]
<1>1. ASSUME SetupInv, NEW p \in Previews, CommitPreview(p) PROVE Kept(p)
  <2>1. PICK plan : plan = preview[p].plan
    OBVIOUS
  <2>2. PICK seen : seen = preview[p].seen
    OBVIOUS
  <2>3. PICK after : after = [i \in Items |-> View(i, LedgerAfter(plan, Len(plan))[i])]
    OBVIOUS
  <2>4. PICK o : o = PlannedOwn(plan)
    OBVIOUS
  <2>5. /\ balance' = LedgerAfter(plan, Len(plan))
        /\ preview' = [preview EXCEPT ![p] = [Blank("committed") EXCEPT !.answer = Gaps(after, o)]]
        /\ row' = row /\ Reviewed(p) /\ HasRoom(plan)
    <3>1. CommitsAs(p, plan)
      BY <1>1, <2>1, CommitMakes
    <3> QED BY <2>3, <2>4, <3>1, Zenon DEF CommitsAs
  <2>6. preview'[p].answer = Gaps(after, o)
    <3>1. preview'[p] = [Blank("committed") EXCEPT !.answer = Gaps(after, o)]
      BY <1>1, <2>5 DEF SetupInv
    <3> QED BY <3>1 DEF Blank
  <2>7. preview[p].gaps = Gaps(Projected(seen, plan), o)
    BY <1>1, <2>1, <2>2, <2>4, <2>5 DEF SetupInv, Shown, Reviewed, PlannedGaps
  <2>8. seen \in [Items -> ViewSet] /\ plan \in Seq(PlanSteps)
    BY <1>1, <2>1, <2>2, <2>5, SetupAssumption DEF SetupInv, Shown, Reviewed
  <2>9. PICK A : A = Affected(seen, plan)
    OBVIOUS
  <2>10. A \subseteq Items
    <3>1. \A n \in DOMAIN plan : plan[n].item \in Items
      BY <2>8, PlanStep
    <3> QED BY <2>9, <3>1 DEF Affected, Matched
  <2>11. \A i \in A : after[i] = Projected(seen, plan)[i]
    BY <1>1, <2>1, <2>2, <2>3, <2>5, <2>9, <2>10, LeftAsShown
  <2>12. after \in [Items -> ViewSet]
    <3>1. ASSUME NEW i \in Items PROVE View(i, LedgerAfter(plan, Len(plan))[i]) \in ViewSet
      <4>1. PICK b : b = LedgerAfter(plan, Len(plan))[i]
        OBVIOUS
      <4>2. b \in BalancesOf(i) /\ b.allocated <= b.onHand
        BY <1>1, <2>5, <4>1, LedgerAfterPlan
      <4>3. b.onHand \in Nat /\ b.allocated \in Nat
        BY <4>2 DEF BalancesOf, ValidBalance
      <4>4. row[i] \in RowsOf(i)
        BY <1>1 DEF SetupInv, Rows
      <4> QED BY <4>1, <4>2, <4>3, <4>4, ViewTyped
    <3> QED BY <2>3, <3>1
  <2>13. Projected(seen, plan) \in [Items -> ViewSet]
         /\ \A i \in Items : Projected(seen, plan)[i].fits = seen[i].fits
    BY <2>8, ProjectedTyped
  <2>14. \A i \in Items : after[i].fits = Views[i].fits
    <3>1. \A i, b, c : View(i, b).fits = View(i, c).fits
      <4> SUFFICES ASSUME NEW i, NEW b, NEW c PROVE View(i, b).fits = View(i, c).fits
        OBVIOUS
      <4>1. CASE ~row[i].there \/ row[i].retired
        BY <4>1 DEF View
      <4>2. CASE ~(~row[i].there \/ row[i].retired)
        <5>1. \A d : View(i, d).fits = row[i].fits
          BY <4>2 DEF View
        <5> QED BY <5>1
      <4> QED BY <4>1, <4>2
    <3> QED BY <2>3, <3>1 DEF Views
  <2>15. ASSUME NEW i \in Items \ A, NEW l \in Lines
         PROVE  /\ ~(after[i].fits /\ IsCandidate(Compat, l, i))
                /\ ~(Projected(seen, plan)[i].fits /\ IsCandidate(Compat, l, i))
    <3>1. i \notin Matched(seen, l)
      BY <2>9, <2>15 DEF Affected
    <3>2. Matched(Views, l) = Matched(seen, l)
      BY <2>1, <2>2, <2>5 DEF Reviewed, BasisHolds
    <3>3. i \notin Matched(Views, l)
      BY <3>1, <3>2
    <3> QED BY <2>13, <2>14, <3>1, <3>3 DEF Matched
  <2>16. Gaps(after, o) = Gaps(Projected(seen, plan), o)
    <3>1. PICK before : before = Projected(seen, plan)
      OBVIOUS
    <3> QED BY <2>10, <2>11, <2>12, <2>13, <2>15, <3>1, GapsAgree
  <2>17. Views' = after
    BY <2>3, <2>5 DEF Views, View
  <2> QED BY <2>1, <2>2, <2>6, <2>7, <2>9, <2>11, <2>16, <2>17
<1>2. ASSUME SetupInv, [Next]_vars, NEW p \in Previews,
             preview'[p].status = "committed", preview[p].status # "committed"
      PROVE  CommitPreview(p)
  <2>1. ASSUME NEW q \in Previews, NEW plan \in Plans, PreviewSetup(q, plan) PROVE FALSE
    <3>1. preview'[p].status \in {"invalid", "active", preview[p].status}
      <4>1. CASE p = q
        <5>1. \/ preview'[p] = Blank("invalid")
              \/ preview'[p] = [Blank("active") EXCEPT !.plan = plan, !.seen = Views,
                                                       !.gaps = PlannedGaps(Views, plan)]
          BY <1>2, <2>1, <4>1 DEF PreviewSetup, SetupInv
        <5>2. PICK seen : seen = Views
          OBVIOUS
        <5>3. PICK gaps : gaps = PlannedGaps(Views, plan)
          OBVIOUS
        <5>4. PICK new : new = preview'[p]
          OBVIOUS
        <5>5. \/ new = Blank("invalid")
              \/ new = Active(plan, seen, gaps)
          BY <5>1, <5>2, <5>3, <5>4, Zenon DEF Active
        <5>6. new.status \in {"invalid", "active"}
          BY <5>5, ActiveFields DEF Blank
        <5> QED BY <5>4, <5>6
      <4>2. CASE p # q
        BY <1>2, <2>1, <4>2 DEF PreviewSetup, SetupInv
      <4> QED BY <4>1, <4>2
    <3> QED BY <1>2, <3>1
  <2>2. ASSUME NEW q \in Previews, Expire(q) PROVE FALSE
    BY <1>2, <2>2 DEF Expire, SetupInv, Blank
  <2>3. ASSUME NEW q \in Previews, CommitPreview(q) PROVE q = p
    <3>1. SUFFICES ASSUME q # p PROVE FALSE
      OBVIOUS
    <3>2. preview'[p] = preview[p]
      BY <1>2, <2>3, <3>1 DEF CommitPreview, SetupInv
    <3> QED BY <1>2, <3>2
  <2>4. ASSUME NEW i \in Items, NEW r \in RowsOf(i), NEW b \in BalancesOf(i),
               CommandElsewhere(i, r, b)
        PROVE  FALSE
    BY <1>2, <2>4 DEF CommandElsewhere
  <2>5. ASSUME NEW i \in Items, NEW r \in RowsOf(i), NEW q \in 0..MaxQty[i], ImportRow(i, r, q)
        PROVE  FALSE
    BY <1>2, <2>5 DEF ImportRow
  <2>6. ASSUME UNCHANGED vars PROVE FALSE
    BY <1>2, <2>6 DEF vars
  <2> QED BY <1>2, <2>1, <2>2, <2>3, <2>4, <2>5, <2>6 DEF Next
<1>3. SetupInv /\ [Next]_vars => [\A p \in Previews : Kept(p)]_vars
  <2> SUFFICES ASSUME SetupInv, [Next]_vars PROVE \A p \in Previews : Kept(p)
    OBVIOUS
  <2> QED BY <1>1, <1>2
<1> QED BY <1>3, SetupInvHolds, PTL DEF Spec, CommittedAsShown
=============================================================================
