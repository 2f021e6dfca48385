-------------------------- MODULE Inventory_proofs --------------------------
(***************************************************************************)
(* Theorems about module Inventory, for any items, lines, clocks, purchase *)
(* snapshots and clients: every balance is what its ledger says, whatever  *)
(* order the clock puts the events in; an inspection never overrides a     *)
(* command it did not know of; and a snapshot is received once however     *)
(* often its file is imported.  The replay of a ledger is a recursive      *)
(* function; it is unfolded one event at a time by induction on the length *)
(* of the ledger.                                                          *)
(***************************************************************************)
EXTENDS Inventory, DataLemmas

-----------------------------------------------------------------------------
(* The ledger of one item *)

\* Where an event joins a ledger.
Place(s, e) == 1 + Cardinality({k \in DOMAIN s : s[k].at <= e.at})

\* An event joins a ledger at its place and moves what follows by one.
LEMMA InsertPlaces ==
  ASSUME NEW s \in Seq(Events), NEW e \in Events
  PROVE  /\ Insert(s, e) \in Seq(Events)
         /\ Len(Insert(s, e)) = Len(s) + 1
         /\ Place(s, e) \in 1..(Len(s) + 1)
         /\ \A k \in 1..(Len(s) + 1) :
              Insert(s, e)[k] = IF k < Place(s, e) THEN s[k]
                                ELSE IF k = Place(s, e) THEN e ELSE s[k - 1]
<1> DEFINE K == {k \in DOMAIN s : s[k].at <= e.at}
           p == Place(s, e)
           before == SubSeq(s, 1, p - 1)
           after == SubSeq(s, p, Len(s))
<1>0. p = 1 + Cardinality(K)
  BY DEF Place
<1>1. p \in 1..(Len(s) + 1)
  <2>1. IsFiniteSet(1..Len(s)) /\ Cardinality(1..Len(s)) = Len(s)
    <3>1. Len(s) \in Nat
      OBVIOUS
    <3> QED BY <3>1, UpToCount, Zenon
  <2>2. K \in SUBSET (1..Len(s))
    OBVIOUS
  <2>3. IsFiniteSet(K) /\ Cardinality(K) <= Len(s)
    BY <2>1, <2>2, FS_Subset
  <2>4. Cardinality(K) \in Nat
    BY <2>3, FS_CardinalityType
  <2> HIDE DEF K, p
  <2> QED BY <1>0, <2>3, <2>4
<1> HIDE DEF K, p
<1>2. /\ before \in Seq(Events) /\ Len(before) = p - 1
      /\ \A k \in 1..(p - 1) : before[k] = s[k]
  <2>1. \A k \in 1..(p - 1) : s[k] \in Events
    BY <1>1
  <2> QED BY <1>1, <2>1, SubSeqProperties
<1>3. /\ after \in Seq(Events) /\ Len(after) = Len(s) - p + 1
      /\ \A k \in 1..(Len(s) - p + 1) : after[k] = s[p + k - 1]
  <2>1. \A k \in p..Len(s) : s[k] \in Events
    BY <1>1
  <2> QED BY <1>1, <2>1, SubSeqProperties
<1>4. Insert(s, e) = before \o <<e>> \o after
  BY <1>0 DEF Insert, InsertAt, K
<1> HIDE DEF before, after
<1>5. /\ before \o <<e>> \in Seq(Events) /\ Len(before \o <<e>>) = p
      /\ \A k \in 1..p : (before \o <<e>>)[k] = IF k < p THEN s[k] ELSE e
  BY <1>1, <1>2
<1> DEFINE head == before \o <<e>>
<1> HIDE DEF head
<1>6. Insert(s, e) \in Seq(Events) /\ Len(Insert(s, e)) = Len(s) + 1
  <2>1. head \in Seq(Events) /\ Len(head) = p
    BY <1>5 DEF head
  <2>2. Insert(s, e) = head \o after
    BY <1>4 DEF head
  <2>3. head \o after \in Seq(Events) /\ Len(head \o after) = Len(head) + Len(after)
    BY <1>3, <2>1, ConcatProperties
  <2> QED BY <1>1, <1>3, <2>1, <2>2, <2>3
<1>7. ASSUME NEW k \in 1..(Len(s) + 1)
      PROVE  Insert(s, e)[k] = IF k < p THEN s[k] ELSE IF k = p THEN e ELSE s[k - 1]
  <2>1. CASE k <= p
    BY <1>1, <1>3, <1>4, <1>5, <2>1
  <2>2. CASE k > p
    <3>1. Insert(s, e)[k] = after[k - p]
      BY <1>1, <1>3, <1>4, <1>5, <2>2
    <3> QED BY <1>1, <1>3, <2>2, <3>1
  <2> QED BY <1>1, <2>1, <2>2
<1> QED BY <1>1, <1>6, <1>7 DEF p

OneReceipt(s) ==
  \A k, n \in DOMAIN s : s[k].from = s[n].from /\ s[k].from # NoDoc => k = n

\* A ledger with one receipt for each snapshot keeps it so, when the event that
\* joins it is of no snapshot or of a new one.
LEMMA InsertKeepsReceipts ==
  ASSUME NEW s \in Seq(Events), NEW e \in Events, OneReceipt(s),
         e.from = NoDoc \/ \A k \in DOMAIN s : s[k].from # e.from
  PROVE  OneReceipt(Insert(s, e))
<1>1. PICK p \in 1..(Len(s) + 1) : \A k \in 1..(Len(s) + 1) :
        Insert(s, e)[k] = IF k < p THEN s[k] ELSE IF k = p THEN e ELSE s[k - 1]
  BY InsertPlaces
<1>2. DOMAIN Insert(s, e) = 1..(Len(s) + 1)
  BY InsertPlaces
<1> DEFINE t == Insert(s, e)
<1> HIDE DEF t
<1> SUFFICES ASSUME NEW k \in 1..(Len(s) + 1), NEW n \in 1..(Len(s) + 1),
                    t[k].from = t[n].from, t[k].from # NoDoc
             PROVE  k = n
  <2>1. DOMAIN t = 1..(Len(s) + 1)
    BY <1>2 DEF t
  <2> QED BY <2>1 DEF OneReceipt, t
<1>3. \A m \in 1..(Len(s) + 1) :
        /\ m < p => m \in DOMAIN s /\ t[m] = s[m]
        /\ m = p => t[m] = e
        /\ m > p => m - 1 \in DOMAIN s /\ t[m] = s[m - 1]
  BY <1>1 DEF t
<1>4. CASE k = p \/ n = p
  BY <1>3, <1>4
<1>5. CASE k # p /\ n # p
  <2> DEFINE old(m) == IF m < p THEN m ELSE m - 1
  <2>1. old(k) \in DOMAIN s /\ t[k] = s[old(k)]
    BY <1>3, <1>5
  <2>2. old(n) \in DOMAIN s /\ t[n] = s[old(n)]
    BY <1>3, <1>5
  <2>3. old(k) = old(n)
    BY <2>1, <2>2 DEF OneReceipt
  <2> QED BY <1>5, <2>3
<1> QED BY <1>4, <1>5

\* A set of positions with a member has a last one.
LEMMA LastExists ==
  ASSUME NEW n \in Nat, NEW S \in SUBSET (1..n), S # {}
  PROVE  /\ Max(S) \in S
         /\ \A x \in S : x <= Max(S)
<1> DEFINE T == {m \in Nat : \A R \in SUBSET (1..m) :
                              R # {} => \E x \in R : \A y \in R : x >= y}
<1>1. 0 \in T
  <2>1. \A R \in SUBSET (1..0) : R = {}
    OBVIOUS
  <2> QED BY <2>1
<1>2. ASSUME NEW m \in Nat, m \in T PROVE m + 1 \in T
  <2> SUFFICES ASSUME NEW R \in SUBSET (1..(m + 1)), R # {}
               PROVE  \E x \in R : \A y \in R : x >= y
    OBVIOUS
  <2>1. CASE m + 1 \in R
    BY <2>1
  <2>2. CASE m + 1 \notin R
    <3>1. R \in SUBSET (1..m)
      BY <2>2
    <3> QED BY <3>1, <1>2
  <2> QED BY <2>1, <2>2
<1>3. n \in T
  <2> HIDE DEF T
  <2> QED BY <1>1, <1>2, NatSetInduction
<1>4. \E x \in S : \A y \in S : x >= y
  BY <1>3
<1>5. Max(S) \in S /\ \A y \in S : Max(S) >= y
  BY <1>4 DEF Max
<1> QED BY <1>5

\* Events say how much and when in numbers.
LEMMA EventNumbers ==
  ASSUME NEW s \in Seq(Events)
  PROVE  /\ Len(s) \in Nat /\ DOMAIN s = 1..Len(s)
         /\ \A k \in DOMAIN s : s[k] \in Events
         /\ \A e \in Events : e.at \in Nat /\ e.qty \in Nat /\ e.kind \in Kinds
<1>1. \A e \in Events : e.at \in Nat /\ e.qty \in Nat /\ e.kind \in Kinds
  BY InventoryAssumption DEF Events
<1> QED BY <1>1

\* The events are in the order of their instants.
InOrder(s) == \A k, n \in DOMAIN s : k < n => s[k].at <= s[n].at

\* In an ordered ledger the events before the place of e are those not dated
\* later than e.
LEMMA PlaceInOrder ==
  ASSUME NEW s \in Seq(Events), NEW e \in Events, InOrder(s)
  PROVE  \A k \in DOMAIN s : s[k].at <= e.at <=> k < Place(s, e)
<1> DEFINE K == {k \in DOMAIN s : s[k].at <= e.at}
<1>0. /\ Len(s) \in Nat /\ DOMAIN s = 1..Len(s)
      /\ \A k \in DOMAIN s : s[k].at \in Nat
      /\ e.at \in Nat
  BY EventNumbers
<1>1. K \in SUBSET (1..Len(s))
  BY <1>0
<1>2. \E m \in 0..Len(s) : K = 1..m
  <2>1. CASE K = {}
    BY <2>1, <1>0
  <2>2. CASE K # {}
    <3>1. Max(K) \in K /\ \A k \in K : k <= Max(K)
      <4> HIDE DEF K
      <4> QED BY <1>0, <1>1, <2>2, LastExists
    <3>2. PICK m : m = Max(K)
      OBVIOUS
    <3>3. m \in 1..Len(s) /\ s[m].at <= e.at /\ \A k \in K : k <= m
      BY <3>1, <3>2, <1>0
    <3>4. \A k \in 1..m : k \in K
      <4> SUFFICES ASSUME NEW k \in 1..m PROVE k \in K
        OBVIOUS
      <4>1. k \in DOMAIN s /\ m \in DOMAIN s
        BY <3>3, <1>0
      <4>2. s[k].at <= s[m].at
        BY <4>1, <1>0, <3>3 DEF InOrder
      <4> QED BY <4>1, <4>2, <3>3, <1>0
    <3>5. K = 1..m
      <4> HIDE DEF K
      <4>1. \A k \in K : k \in 1..m
        BY <1>0, <1>1, <3>3
      <4>2. K \subseteq 1..m /\ 1..m \subseteq K
        BY <3>4, <4>1
      <4> QED BY <4>2
    <3> QED BY <3>3, <3>5
  <2> QED BY <2>1, <2>2
<1>3. PICK m \in 0..Len(s) : K = 1..m
  BY <1>2
<1>4. Place(s, e) = 1 + m
  <2>1. Cardinality(1..m) = m
    <3>1. m \in Nat
      BY <1>0, <1>3
    <3> QED BY <3>1, UpToCount, Zenon
  <2>2. Cardinality(K) = m
    BY <1>3, <2>1, Zenon
  <2> QED BY <2>2 DEF Place
<1>5. \A k \in DOMAIN s : k \in K <=> k < 1 + m
  BY <1>0, <1>3
<1> QED BY <1>4, <1>5

\* An ordered ledger stays so.
LEMMA InsertKeepsOrder ==
  ASSUME NEW s \in Seq(Events), NEW e \in Events, InOrder(s)
  PROVE  InOrder(Insert(s, e))
<1>1. PICK p : p = Place(s, e)
  OBVIOUS
<1>2. PICK t : t = Insert(s, e)
  OBVIOUS
<1>3. /\ t \in Seq(Events) /\ DOMAIN t = 1..(Len(s) + 1)
      /\ p \in 1..(Len(s) + 1)
      /\ \A k \in 1..(Len(s) + 1) :
           t[k] = IF k < p THEN s[k] ELSE IF k = p THEN e ELSE s[k - 1]
  <2>1. /\ Insert(s, e) \in Seq(Events) /\ Len(Insert(s, e)) = Len(s) + 1
        /\ Place(s, e) \in 1..(Len(s) + 1)
        /\ \A k \in 1..(Len(s) + 1) :
              Insert(s, e)[k] = IF k < Place(s, e) THEN s[k]
                                ELSE IF k = Place(s, e) THEN e ELSE s[k - 1]
    BY InsertPlaces
  <2>2. t \in Seq(Events) /\ Len(t) = Len(s) + 1
    BY <1>2, <2>1
  <2>3. DOMAIN t = 1..Len(t)
    BY <2>2
  <2> QED BY <1>1, <1>2, <2>1, <2>2, <2>3
<1>4. \A k \in DOMAIN s : s[k].at <= e.at <=> k < p
  BY <1>1, PlaceInOrder
<1>5. /\ Len(s) \in Nat /\ DOMAIN s = 1..Len(s)
      /\ \A k \in DOMAIN s : s[k].at \in Nat
      /\ e.at \in Nat
  BY EventNumbers
<1>6. ASSUME NEW k \in 1..(Len(s) + 1), NEW n \in 1..(Len(s) + 1), k < n
      PROVE  t[k].at <= t[n].at
  <2>1. CASE n < p
    <3>1. k \in DOMAIN s /\ n \in DOMAIN s /\ t[k] = s[k] /\ t[n] = s[n]
      BY <1>3, <1>5, <1>6, <2>1
    <3> QED BY <3>1, <1>6 DEF InOrder
  <2>2. CASE n = p
    <3>1. k \in DOMAIN s /\ t[k] = s[k] /\ t[n] = e /\ k < p
      BY <1>3, <1>5, <1>6, <2>2
    <3> QED BY <3>1, <1>4
  <2>3. CASE n > p /\ k = p
    <3>1. n - 1 \in DOMAIN s /\ t[k] = e /\ t[n] = s[n - 1] /\ ~(n - 1 < p)
      BY <1>3, <1>5, <1>6, <2>3
    <3>2. ~(s[n - 1].at <= e.at)
      BY <3>1, <1>4
    <3> QED BY <3>1, <3>2, <1>5
  <2>4. CASE n > p /\ k < p
    <3>1. k \in DOMAIN s /\ n - 1 \in DOMAIN s /\ t[k] = s[k] /\ t[n] = s[n - 1]
      BY <1>3, <1>5, <1>6, <2>4
    <3>2. s[k].at <= e.at /\ ~(s[n - 1].at <= e.at)
      BY <3>1, <1>4, <2>4, <1>3
    <3> QED BY <3>1, <3>2, <1>5
  <2>5. CASE k > p
    <3>1. k - 1 \in DOMAIN s /\ n - 1 \in DOMAIN s /\ t[k] = s[k - 1] /\ t[n] = s[n - 1]
          /\ k - 1 < n - 1
      BY <1>3, <1>5, <1>6, <2>5
    <3> QED BY <3>1 DEF InOrder
  <2> QED BY <1>3, <1>6, <2>1, <2>2, <2>3, <2>4, <2>5
<1> QED BY <1>2, <1>3, <1>6 DEF InOrder

-----------------------------------------------------------------------------
(* The replay of a ledger *)

\* The balances a replay of s passes: g[n] after n events.
Passes(s, g) == [n \in 0..Len(s) |-> IF n = 0 THEN Empty ELSE Replay(g[n - 1], s[n])]

\* The balance of a ledger is where its replay ends.
LEMMA DeriveIsReplay ==
  ASSUME NEW s
  PROVE  Derive(s) = (CHOOSE g : g = Passes(s, g))[Len(s)]
BY DEF Derive, Passes

\* Every ledger can be replayed, to its end or to the first refusal.
LEMMA ReplayExists ==
  ASSUME NEW s \in Seq(Events)
  PROVE  /\ \E g : g = Passes(s, g)
         /\ \E g : g = Passes(s, g) /\ Derive(s) = g[Len(s)]
<1> DEFINE Val(g, n) == IF n = 0 THEN Empty ELSE Replay(g[n - 1], s[n])
           T == {m \in Nat : \E g : g = [n \in 0..m |-> Val(g, n)]}
<1>1. 0 \in T
  <2> DEFINE g == [n \in 0..0 |-> Empty]
  <2>1. g = [n \in 0..0 |-> Val(g, n)]
    OBVIOUS
  <2> QED BY <2>1
<1>2. ASSUME NEW m \in Nat, m \in T PROVE m + 1 \in T
  <2>1. PICK g : g = [n \in 0..m |-> Val(g, n)]
    BY <1>2
  <2> DEFINE h == [n \in 0..(m + 1) |-> Val(g, n)]
  <2>2. \A n \in 0..m : h[n] = g[n]
    <3> SUFFICES ASSUME NEW n \in 0..m PROVE h[n] = g[n]
      OBVIOUS
    <3>1. n \in 0..(m + 1)
      OBVIOUS
    <3>2. g[n] = Val(g, n)
      BY <2>1
    <3> QED BY <3>1, <3>2
  <2>3. \A n \in 0..(m + 1) : Val(g, n) = Val(h, n)
    <3> SUFFICES ASSUME NEW n \in 0..(m + 1), n # 0 PROVE g[n - 1] = h[n - 1]
      <4> HIDE DEF h
      <4> QED OBVIOUS
    <3>1. n - 1 \in 0..m
      OBVIOUS
    <3> HIDE DEF h
    <3> QED BY <3>1, <2>2
  <2>4. h = [n \in 0..(m + 1) |-> Val(h, n)]
    <3> HIDE DEF Val
    <3> QED BY <2>3
  <2>5. \E k : k = [n \in 0..(m + 1) |-> Val(k, n)]
    <3> HIDE DEF h, Val
    <3> QED BY <2>4
  <2>6. m + 1 \in Nat
    OBVIOUS
  <2> HIDE DEF Val
  <2> QED BY <2>5, <2>6
<1>3. Len(s) \in T
  <2>1. Len(s) \in Nat
    OBVIOUS
  <2> HIDE DEF T
  <2> QED BY <1>1, <1>2, <2>1, NatSetInduction
<1>4. PICK g : g = [n \in 0..Len(s) |-> Val(g, n)]
  BY <1>3
<1>5. g = Passes(s, g)
  BY <1>4 DEF Passes
<1> DEFINE k == CHOOSE h : h = Passes(s, h)
<1>6. k = Passes(s, k)
  BY <1>5
<1>7. Derive(s) = k[Len(s)]
  BY DeriveIsReplay
<1> HIDE DEF k
<1> QED BY <1>5, <1>6, <1>7

\* Its first balance, and the next ones.
LEMMA PassesSteps ==
  ASSUME NEW s \in Seq(Events), NEW g, g = Passes(s, g)
  PROVE  /\ g[0] = Empty
         /\ \A n \in 1..Len(s) : g[n] = Replay(g[n - 1], s[n])
<1>1. Len(s) \in Nat
  OBVIOUS
<1> QED BY <1>1 DEF Passes

\* One event of a replay.
LEMMA ReplayStep ==
  ASSUME NEW b \in Balances \cup {Refused}, NEW e \in Events
  PROVE  /\ Replay(b, e) \in Balances \cup {Refused}
         /\ Replay(b, e) # Refused => b # Refused /\ Replay(b, e) = Apply(b, e)
<1>1. ValidBalance(Apply(b, e)) => Apply(b, e) \in Balances
  BY DEF ValidBalance, Balances, Apply
<1> QED BY <1>1 DEF Replay

\* A refusal is no balance.
LEMMA RefusedIsNone == Refused \notin Balances
BY DEF Refused, Balances

\* A replay stays within the balances or stops at a refusal for good: a ledger
\* with a balance passes one after each of its events.
LEMMA ReplayTypes ==
  ASSUME NEW s \in Seq(Events), NEW g, g = Passes(s, g)
  PROVE  /\ g[Len(s)] \in Balances \cup {Refused}
         /\ g[Len(s)] # Refused =>
              /\ \A n \in 0..Len(s) : g[n] \in Balances
              /\ \A n \in 1..Len(s) : g[n] = Apply(g[n - 1], s[n])
<1>0. Len(s) \in Nat /\ DOMAIN s = 1..Len(s) /\ \A n \in 1..Len(s) : s[n] \in Events
  OBVIOUS
<1>1. g[0] = Empty /\ Empty \in Balances /\ Empty # Refused
  BY <1>0 DEF Passes, Empty, Balances, Refused
<1>2. \A n \in 1..Len(s) : g[n] = Replay(g[n - 1], s[n])
  BY <1>0 DEF Passes
<1> DEFINE T == {n \in Nat : n <= Len(s) =>
                   /\ g[n] \in Balances \cup {Refused}
                   /\ g[n] # Refused =>
                        /\ \A m \in 0..n : g[m] \in Balances
                        /\ \A m \in 1..n : g[m] = Apply(g[m - 1], s[m])}
<1>3. 0 \in T
  BY <1>1
<1>4. ASSUME NEW n \in Nat, n \in T PROVE n + 1 \in T
  <2> SUFFICES ASSUME n + 1 <= Len(s)
               PROVE  /\ g[n + 1] \in Balances \cup {Refused}
                      /\ g[n + 1] # Refused =>
                           /\ \A m \in 0..(n + 1) : g[m] \in Balances
                           /\ \A m \in 1..(n + 1) : g[m] = Apply(g[m - 1], s[m])
    OBVIOUS
  <2>1. n + 1 \in 1..Len(s) /\ (n + 1) - 1 = n
    BY <1>0
  <2>2. g[n + 1] = Replay(g[n], s[n + 1]) /\ s[n + 1] \in Events
    BY <2>1, <1>0, <1>2
  <2>3. /\ g[n] \in Balances \cup {Refused}
        /\ g[n] # Refused =>
             /\ \A m \in 0..n : g[m] \in Balances
             /\ \A m \in 1..n : g[m] = Apply(g[m - 1], s[m])
    BY <1>0, <1>4
  <2>4. /\ g[n + 1] \in Balances \cup {Refused}
        /\ g[n + 1] # Refused => g[n] # Refused /\ g[n + 1] = Apply(g[n], s[n + 1])
    BY <2>2, <2>3, ReplayStep
  <2>5. \A m \in 0..(n + 1) : m \in 0..n \/ m = n + 1
    OBVIOUS
  <2>6. \A m \in 1..(n + 1) : m \in 1..n \/ m = n + 1
    OBVIOUS
  <2> HIDE DEF T
  <2> QED BY <2>1, <2>3, <2>4, <2>5, <2>6
<1>5. Len(s) \in T
  <2> HIDE DEF T
  <2> QED BY <1>0, <1>3, <1>4, NatSetInduction
<1> QED BY <1>0, <1>5

\* What a ledger that can be replayed passes on the way to its balance.
LEMMA BalancePasses ==
  ASSUME NEW s \in Seq(Events), Derive(s) # Refused
  PROVE  \E g : /\ g[0] = Empty
                /\ \A n \in 0..Len(s) : g[n] \in Balances
                /\ \A n \in 1..Len(s) : g[n] = Apply(g[n - 1], s[n])
                /\ Derive(s) = g[Len(s)]
<1>1. PICK g : g = Passes(s, g) /\ Derive(s) = g[Len(s)]
  BY ReplayExists
<1>2. Len(s) \in Nat
  OBVIOUS
<1>3. g[0] = Empty
  BY <1>1, <1>2 DEF Passes
<1> QED BY <1>1, <1>3, ReplayTypes

\* A ledger has a balance or is refused.
LEMMA DeriveType ==
  ASSUME NEW s \in Seq(Events)
  PROVE  Derive(s) # Refused => Derive(s) \in Balances
<1>1. PICK g : g = Passes(s, g) /\ Derive(s) = g[Len(s)]
  BY ReplayExists
<1>2. g[Len(s)] \in Balances \cup {Refused}
  BY <1>1, ReplayTypes
<1> QED BY <1>1, <1>2

\* An empty ledger has the empty balance.
LEMMA DeriveEmpty == Derive(<<>>) = Empty /\ Derive(<<>>) # Refused
<1>1. <<>> \in Seq(Events) /\ Len(<<>>) = 0
  OBVIOUS
<1>2. PICK g : g = Passes(<<>>, g) /\ Derive(<<>>) = g[Len(<<>>)]
  BY <1>1, ReplayExists
<1>3. g[0] = Empty
  BY <1>1, <1>2 DEF Passes
<1>4. Derive(<<>>) = Empty
  BY <1>1, <1>2, <1>3
<1> QED BY <1>4 DEF Empty, Refused

\* The balance of a ledger with one event more at its end.
LEMMA ReplayOneMore ==
  ASSUME NEW s \in Seq(Events), NEW t \in Seq(Events), Len(t) = Len(s) + 1,
         \A k \in 1..Len(s) : t[k] = s[k], Derive(t) # Refused
  PROVE  Derive(t) = Apply(Derive(s), t[Len(t)])
<1>0. Len(s) \in Nat /\ Len(t) \in Nat
  OBVIOUS
<1>1. PICK g : g = Passes(t, g) /\ Derive(t) = g[Len(t)]
  BY ReplayExists
<1>2. PICK h : h = Passes(s, h) /\ Derive(s) = h[Len(s)]
  BY ReplayExists
<1>3. g[0] = Empty /\ \A n \in 1..Len(t) : g[n] = Replay(g[n - 1], t[n])
  BY <1>1, PassesSteps
<1>4. h[0] = Empty /\ \A n \in 1..Len(s) : h[n] = Replay(h[n - 1], s[n])
  BY <1>2, PassesSteps
<1> DEFINE T == {n \in Nat : n <= Len(s) => g[n] = h[n]}
<1>5. 0 \in T
  BY <1>3, <1>4
<1>6. ASSUME NEW n \in Nat, n \in T PROVE n + 1 \in T
  <2> SUFFICES ASSUME n + 1 <= Len(s) PROVE g[n + 1] = h[n + 1]
    OBVIOUS
  <2>1. n + 1 \in 1..Len(s) /\ n + 1 \in 1..Len(t) /\ (n + 1) - 1 = n
    BY <1>0
  <2>2. g[n] = h[n]
    BY <1>6, <1>0
  <2>3. g[n + 1] = Replay(g[n], t[n + 1]) /\ h[n + 1] = Replay(h[n], s[n + 1])
    BY <1>3, <1>4, <2>1
  <2>4. t[n + 1] = s[n + 1]
    BY <2>1
  <2> QED BY <2>2, <2>3, <2>4
<1>7. Len(s) \in T
  <2> HIDE DEF T
  <2> QED BY <1>0, <1>5, <1>6, NatSetInduction
<1>8. g[Len(s)] = h[Len(s)]
  BY <1>0, <1>7
<1>9. g[Len(t)] = Apply(g[Len(t) - 1], t[Len(t)])
  <2>1. Len(t) \in 1..Len(t)
    BY <1>0
  <2> QED BY <1>1, <2>1, ReplayTypes
<1>10. Len(t) - 1 = Len(s)
  BY <1>0
<1> QED BY <1>1, <1>2, <1>8, <1>9, <1>10

-----------------------------------------------------------------------------
(* The balance of a ledger as a count and what moved since *)

\* The quantity of the events of s at the positions K whose kind is in kinds.
Qty(s, K, kinds) ==
  SumFunctionOnSet([k \in DOMAIN s |-> s[k].qty], {k \in K : s[k].kind \in kinds})

\* Between two positions, one event further.
LEMMA QtyNext ==
  ASSUME NEW s \in Seq(Events), NEW low \in Nat \ {0}, NEW n \in Nat, NEW next \in 1..Len(s),
         next = n + 1, low <= next, NEW kinds
  PROVE  /\ Qty(s, low..n, kinds) \in Nat
         /\ s[next].kind \in kinds
              => Qty(s, low..next, kinds) = Qty(s, low..n, kinds) + s[next].qty
         /\ s[next].kind \notin kinds
              => Qty(s, low..next, kinds) = Qty(s, low..n, kinds)
<1> DEFINE f == [k \in DOMAIN s |-> s[k].qty]
           P(K) == {k \in K : s[k].kind \in kinds}
<1>0. /\ Len(s) \in Nat /\ DOMAIN s = 1..Len(s) /\ \A k \in DOMAIN s : s[k] \in Events
      /\ \A e \in Events : e.qty \in Nat
  BY EventNumbers
<1>1. \A k \in 1..next : f[k] \in Nat /\ f[k] = s[k].qty
  BY <1>0
<1>2. IsFiniteSet(P(low..n)) /\ P(low..n) \subseteq 1..n /\ next \notin P(low..n)
  <2>1. IsFiniteSet(low..n)
    BY FS_Interval
  <2>2. P(low..n) \subseteq low..n
    OBVIOUS
  <2>3. IsFiniteSet(P(low..n))
    BY <2>1, <2>2, FS_Subset
  <2> QED BY <2>2, <2>3
<1>3. PICK R : R = P(low..n)
  OBVIOUS
<1>4. Qty(s, low..n, kinds) = SumFunctionOnSet(f, R)
  BY <1>3 DEF Qty
<1>5. IsFiniteSet(R) /\ next \notin R /\ \A k \in R : f[k] \in Nat
  <2>1. \A k \in 1..n : k \in 1..next
    OBVIOUS
  <2> HIDE DEF f
  <2> QED BY <1>1, <1>2, <1>3, <2>1
<1>6. SumFunctionOnSet(f, R) \in Nat
  <2> HIDE DEF f
  <2> QED BY <1>5, SumNat
<1>7. low..next = (low..n) \cup {next}
  OBVIOUS
<1>8. ASSUME s[next].kind \in kinds
      PROVE  Qty(s, low..next, kinds) = Qty(s, low..n, kinds) + s[next].qty
  <2>1. P(low..next) = R \cup {next}
    BY <1>3, <1>7, <1>8
  <2>2. Qty(s, low..next, kinds) = SumFunctionOnSet(f, R \cup {next})
    BY <2>1 DEF Qty
  <2>3. \A k \in R \cup {next} : f[k] \in Int
    <3> HIDE DEF f
    <3> QED BY <1>1, <1>5
  <2>4. SumFunctionOnSet(f, R \cup {next}) = f[next] + SumFunctionOnSet(f, R)
    <3> HIDE DEF f
    <3> QED BY <1>5, <2>3, SumAdd
  <2>5. f[next] = s[next].qty /\ f[next] \in Nat
    <3> HIDE DEF f
    <3> QED BY <1>1
  <2> HIDE DEF f
  <2> QED BY <1>4, <1>6, <2>2, <2>4, <2>5
<1>9. ASSUME s[next].kind \notin kinds
      PROVE  Qty(s, low..next, kinds) = Qty(s, low..n, kinds)
  <2>1. P(low..next) = R
    BY <1>3, <1>7, <1>9
  <2>2. Qty(s, low..next, kinds) = SumFunctionOnSet(f, R)
    BY <2>1 DEF Qty
  <2> HIDE DEF f
  <2> QED BY <1>4, <2>2
<1> QED BY <1>4, <1>6, <1>8, <1>9

\* Between a position and itself.
LEMMA QtyNone ==
  ASSUME NEW s, NEW low \in Int, NEW n \in Int, n < low, NEW kinds
  PROVE  Qty(s, low..n, kinds) = 0
<1>1. {k \in low..n : s[k].kind \in kinds} = {}
  OBVIOUS
<1>2. Qty(s, low..n, kinds) = SumFunctionOnSet([k \in DOMAIN s |-> s[k].qty], {})
  BY <1>1, Zenon DEF Qty
<1> QED BY <1>2, SumEmpty

\* What an event makes of either number.
LEMMA ApplyParts ==
  ASSUME NEW b, NEW e
  PROVE  /\ Apply(b, e).onHand = IF e.kind = "count" THEN e.qty
                                 ELSE IF e.kind \in Adds THEN b.onHand + e.qty
                                 ELSE IF e.kind \in Takes THEN b.onHand - e.qty
                                 ELSE b.onHand
         /\ Apply(b, e).allocated = IF e.kind = "allocate" THEN b.allocated + e.qty
                                    ELSE IF e.kind = "release" THEN b.allocated - e.qty
                                    ELSE b.allocated
BY DEF Apply

\* What is set aside is what was allocated minus what was released.
LEMMA AllocatedIsMoved ==
  ASSUME NEW s \in Seq(Events), NEW g, g[0] = Empty,
         \A n \in 0..Len(s) : g[n] \in Balances,
         \A n \in 1..Len(s) : g[n] = Apply(g[n - 1], s[n])
  PROVE  g[Len(s)].allocated = Qty(s, 1..Len(s), {"allocate"}) - Qty(s, 1..Len(s), {"release"})
<1> DEFINE In(n) == Qty(s, 1..n, {"allocate"})
           Out(n) == Qty(s, 1..n, {"release"})
           T == {n \in Nat : n <= Len(s) => g[n].allocated = In(n) - Out(n)}
<1>0. /\ Len(s) \in Nat /\ DOMAIN s = 1..Len(s) /\ \A k \in DOMAIN s : s[k] \in Events
      /\ \A e \in Events : e.qty \in Nat
  BY EventNumbers
<1>1. 0 \in T
  <2>1. In(0) = 0 /\ Out(0) = 0
    BY QtyNone
  <2> HIDE DEF In, Out
  <2> QED BY <2>1 DEF Empty
<1>2. ASSUME NEW n \in Nat, n \in T PROVE n + 1 \in T
  <2> SUFFICES ASSUME n + 1 <= Len(s) PROVE g[n + 1].allocated = In(n + 1) - Out(n + 1)
    OBVIOUS
  <2>1. n + 1 \in 1..Len(s) /\ (n + 1) - 1 = n /\ n \in 0..Len(s)
    BY <1>0
  <2>2. g[n].allocated = In(n) - Out(n)
    BY <1>0, <1>2
  <2>3. g[n + 1] = Apply(g[n], s[n + 1]) /\ g[n] \in Balances
    BY <2>1
  <2>4. PICK e \in Events : e = s[n + 1]
    BY <1>0, <2>1
  <2>5. /\ In(n) \in Nat
        /\ e.kind = "allocate" => In(n + 1) = In(n) + e.qty
        /\ e.kind # "allocate" => In(n + 1) = In(n)
    BY <2>1, <2>4, QtyNext
  <2>6. /\ Out(n) \in Nat
        /\ e.kind = "release" => Out(n + 1) = Out(n) + e.qty
        /\ e.kind # "release" => Out(n + 1) = Out(n)
    BY <2>1, <2>4, QtyNext
  <2>7. g[n + 1].allocated = IF e.kind = "allocate" THEN g[n].allocated + e.qty
                             ELSE IF e.kind = "release" THEN g[n].allocated - e.qty
                             ELSE g[n].allocated
    BY <2>3, <2>4, ApplyParts
  <2>8. e.qty \in Nat /\ g[n].allocated \in Nat
    BY <1>0, <2>3 DEF Balances
  <2> HIDE DEF In, Out
  <2> QED BY <2>2, <2>5, <2>6, <2>7, <2>8
<1>3. Len(s) \in T
  <2> HIDE DEF T
  <2> QED BY <1>0, <1>1, <1>2, NatSetInduction
<1> QED BY <1>0, <1>3

\* What is on hand is the last count plus and minus what moved after it.
LEMMA OnHandIsMoved ==
  ASSUME NEW s \in Seq(Events), NEW g, g[0] = Empty,
         \A n \in 0..Len(s) : g[n] \in Balances,
         \A n \in 1..Len(s) : g[n] = Apply(g[n - 1], s[n]),
         NEW last \in 0..Len(s), last # 0 => s[last].kind = "count",
         \A k \in (last + 1)..Len(s) : s[k].kind # "count"
  PROVE  g[Len(s)].onHand = (IF last = 0 THEN 0 ELSE s[last].qty)
                            + Qty(s, (last + 1)..Len(s), Adds)
                            - Qty(s, (last + 1)..Len(s), Takes)
<1> DEFINE Plus(n) == Qty(s, (last + 1)..n, Adds)
           Minus(n) == Qty(s, (last + 1)..n, Takes)
           counted == IF last = 0 THEN 0 ELSE s[last].qty
           T == {n \in Nat : last + n <= Len(s) =>
                   g[last + n].onHand = counted + Plus(last + n) - Minus(last + n)}
<1>0. /\ Len(s) \in Nat /\ DOMAIN s = 1..Len(s) /\ \A k \in DOMAIN s : s[k] \in Events
      /\ \A e \in Events : e.qty \in Nat /\ e.kind \in Kinds
      /\ last \in Nat
  BY EventNumbers
<1>c. counted \in Nat
  BY <1>0
<1>1. 0 \in T
  <2>1. Plus(last) = 0 /\ Minus(last) = 0
    BY <1>0, QtyNone
  <2>2. g[last].onHand = counted
    <3>1. CASE last = 0
      BY <3>1 DEF Empty
    <3>2. CASE last # 0
      <4>1. last \in 1..Len(s)
        BY <3>2, <1>0
      <4>2. g[last] = Apply(g[last - 1], s[last]) /\ s[last].kind = "count"
        BY <4>1, <3>2
      <4> QED BY <3>2, <4>2, ApplyParts
    <3> QED BY <3>1, <3>2
  <2>3. last + 0 = last
    BY <1>0
  <2> HIDE DEF Plus, Minus, counted
  <2>4. counted = counted + 0 - 0
    BY <1>c
  <2>5. g[last + 0].onHand = counted + Plus(last + 0) - Minus(last + 0)
    BY <2>1, <2>2, <2>3, <2>4
  <2> QED BY <2>5
<1>2. ASSUME NEW n \in Nat, n \in T PROVE n + 1 \in T
  <2> SUFFICES ASSUME last + (n + 1) <= Len(s)
               PROVE  g[last + (n + 1)].onHand
                        = counted + Plus(last + (n + 1)) - Minus(last + (n + 1))
    OBVIOUS
  <2>1. PICK m \in Nat : m = last + n
    BY <1>0
  <2>2. /\ last + (n + 1) = m + 1 /\ m + 1 \in (last + 1)..Len(s) /\ m + 1 \in 1..Len(s)
        /\ (m + 1) - 1 = m /\ m \in 0..Len(s) /\ last <= m /\ m + 1 <= Len(s)
    BY <1>0, <2>1
  <2>3. g[m].onHand = counted + Plus(m) - Minus(m)
    BY <1>0, <1>2, <2>1, <2>2
  <2>4. g[m + 1] = Apply(g[m], s[m + 1]) /\ g[m] \in Balances /\ s[m + 1].kind # "count"
    BY <2>2
  <2>5. PICK e \in Events : e = s[m + 1]
    BY <1>0, <2>2
  <2>6. /\ Plus(m) \in Nat
        /\ e.kind \in Adds => Plus(m + 1) = Plus(m) + e.qty
        /\ e.kind \notin Adds => Plus(m + 1) = Plus(m)
    BY <1>0, <2>2, <2>5, QtyNext
  <2>7. /\ Minus(m) \in Nat
        /\ e.kind \in Takes => Minus(m + 1) = Minus(m) + e.qty
        /\ e.kind \notin Takes => Minus(m + 1) = Minus(m)
    BY <1>0, <2>2, <2>5, QtyNext
  <2>8. g[m + 1].onHand = IF e.kind \in Adds THEN g[m].onHand + e.qty
                          ELSE IF e.kind \in Takes THEN g[m].onHand - e.qty
                          ELSE g[m].onHand
    BY <2>4, <2>5, ApplyParts
  <2>9. e.qty \in Nat /\ g[m].onHand \in Nat
    BY <1>0, <2>4 DEF Balances
  <2>10. ~(e.kind \in Adds /\ e.kind \in Takes)
    BY DEF Adds, Takes
  <2> HIDE DEF Plus, Minus, counted
  <2>11. g[m + 1].onHand = counted + Plus(m + 1) - Minus(m + 1)
    <3>1. PICK x \in Nat, a \in Nat, b \in Nat, c \in Nat, q \in Nat :
            x = g[m].onHand /\ a = Plus(m) /\ b = Minus(m) /\ c = counted /\ q = e.qty
      BY <1>c, <2>6, <2>7, <2>9
    <3>2. x = c + a - b
      BY <2>3, <3>1
    <3>3. CASE e.kind \in Adds
      <4>1. g[m + 1].onHand = x + q /\ Plus(m + 1) = a + q /\ Minus(m + 1) = b
        BY <2>6, <2>7, <2>8, <2>10, <3>1, <3>3
      <4>2. x + q = c + (a + q) - b
        BY <3>2
      <4> QED BY <3>1, <4>1, <4>2, Zenon
    <3>4. CASE e.kind \in Takes
      <4>1. g[m + 1].onHand = x - q /\ Plus(m + 1) = a /\ Minus(m + 1) = b + q
        BY <2>6, <2>7, <2>8, <2>10, <3>1, <3>4
      <4>2. x - q = c + a - (b + q)
        BY <3>2
      <4> QED BY <3>1, <4>1, <4>2, Zenon
    <3>5. CASE e.kind \notin Adds /\ e.kind \notin Takes
      <4>1. g[m + 1].onHand = x /\ Plus(m + 1) = a /\ Minus(m + 1) = b
        BY <2>6, <2>7, <2>8, <3>1, <3>5
      <4> QED BY <3>1, <3>2, <4>1
    <3> QED BY <3>3, <3>4, <3>5
  <2> QED BY <2>2, <2>11
<1>3. Len(s) - last \in Nat /\ last + (Len(s) - last) = Len(s)
  BY <1>0
<1>4. Len(s) - last \in T
  <2> HIDE DEF T
  <2> QED BY <1>1, <1>2, <1>3, NatSetInduction
<1> QED BY <1>0, <1>3, <1>4

\* The balance of a ledger that can be replayed, in the words of
\* docs/stock-evidence-semantics.md.
LEMMA BalanceOfLedger ==
  ASSUME NEW s \in Seq(Events), Derive(s) # Refused
  PROVE  LET all == DOMAIN s
             counts == {k \in all : s[k].kind = "count"}
             last == IF counts = {} THEN 0 ELSE Max(counts)
             since == {k \in all : k > last}
         IN /\ Derive(s).onHand = (IF last = 0 THEN 0 ELSE s[last].qty)
                                  + Qty(s, since, Adds) - Qty(s, since, Takes)
            /\ Derive(s).allocated = Qty(s, all, {"allocate"}) - Qty(s, all, {"release"})
<1>1. PICK g : /\ g[0] = Empty
               /\ \A n \in 0..Len(s) : g[n] \in Balances
               /\ \A n \in 1..Len(s) : g[n] = Apply(g[n - 1], s[n])
               /\ Derive(s) = g[Len(s)]
  BY BalancePasses
<1>2. Len(s) \in Nat /\ DOMAIN s = 1..Len(s)
  OBVIOUS
<1>3. PICK counts : counts = {k \in DOMAIN s : s[k].kind = "count"}
  OBVIOUS
<1>4. PICK last : last = IF counts = {} THEN 0 ELSE Max(counts)
  OBVIOUS
<1>5. /\ last \in 0..Len(s)
      /\ last # 0 => s[last].kind = "count"
      /\ \A k \in (last + 1)..Len(s) : s[k].kind # "count"
  <2>1. CASE counts = {}
    BY <1>2, <1>3, <1>4, <2>1
  <2>2. CASE counts # {}
    <3>1. counts \in SUBSET (1..Len(s))
      BY <1>2, <1>3
    <3>2. last \in counts /\ \A k \in counts : k <= last
      BY <1>2, <1>4, <2>2, <3>1, LastExists
    <3> QED BY <1>2, <1>3, <3>1, <3>2
  <2> QED BY <2>1, <2>2
<1>6. {k \in DOMAIN s : k > last} = (last + 1)..Len(s)
  BY <1>2, <1>5
<1>7. Derive(s).allocated = Qty(s, DOMAIN s, {"allocate"}) - Qty(s, DOMAIN s, {"release"})
  BY <1>1, <1>2, AllocatedIsMoved
<1>8. Derive(s).onHand = (IF last = 0 THEN 0 ELSE s[last].qty)
                         + Qty(s, (last + 1)..Len(s), Adds)
                         - Qty(s, (last + 1)..Len(s), Takes)
  BY <1>1, <1>5, OnHandIsMoved
<1>9. Derive(s).onHand = (IF last = 0 THEN 0 ELSE s[last].qty)
                         + Qty(s, {k \in DOMAIN s : k > last}, Adds)
                         - Qty(s, {k \in DOMAIN s : k > last}, Takes)
  BY <1>6, <1>8, Zenon
<1> QED BY <1>3, <1>4, <1>7, <1>9, Zenon

-----------------------------------------------------------------------------
(* What an event changes *)

\* A ledger without one of its events.
LEMMA RemovePlaces ==
  ASSUME NEW t \in Seq(Events), NEW k \in 1..Len(t)
  PROVE  /\ Len(RemoveAt(t, k)) = Len(t) - 1
         /\ \A j \in 1..(Len(t) - 1) : RemoveAt(t, k)[j] = IF j < k THEN t[j] ELSE t[j + 1]
<1> DEFINE before == SubSeq(t, 1, k - 1)
           after == SubSeq(t, k + 1, Len(t))
<1>0. Len(t) \in Nat /\ DOMAIN t = 1..Len(t) /\ \A j \in DOMAIN t : t[j] \in Events
  BY EventNumbers
<1>1. /\ before \in Seq(Events) /\ Len(before) = k - 1
      /\ \A j \in 1..(k - 1) : before[j] = t[j]
  <2>1. \A j \in 1..(k - 1) : t[j] \in Events
    BY <1>0
  <2> QED BY <1>0, <2>1, SubSeqProperties
<1>2. /\ after \in Seq(Events) /\ Len(after) = Len(t) - k
      /\ \A j \in 1..(Len(t) - k) : after[j] = t[k + j]
  <2>1. \A j \in (k + 1)..Len(t) : t[j] \in Events
    BY <1>0
  <2>2. /\ after \in Seq(Events)
        /\ Len(after) = IF k + 1 <= Len(t) THEN Len(t) - (k + 1) + 1 ELSE 0
        /\ \A j \in 1..(Len(t) - (k + 1) + 1) : after[j] = t[(k + 1) + j - 1]
    BY <1>0, <2>1, SubSeqProperties
  <2>3. PICK m \in Nat : m = Len(t) - k
    <3>1. Len(t) - k \in Nat
      BY <1>0
    <3> QED BY <3>1
  <2>4. Len(t) - (k + 1) + 1 = m /\ (k + 1 <= Len(t) <=> m > 0)
    BY <1>0, <2>3
  <2>5. \A j \in 1..m : after[j] = t[k + j]
    <3> SUFFICES ASSUME NEW j \in 1..m PROVE after[j] = t[k + j]
      OBVIOUS
    <3>1. after[j] = t[(k + 1) + j - 1]
      BY <2>2, <2>4
    <3>2. (k + 1) + j - 1 = k + j
      BY <1>0
    <3> QED BY <3>1, <3>2
  <2> HIDE DEF after
  <2> QED BY <2>2, <2>3, <2>4, <2>5
<1>3. RemoveAt(t, k) = before \o after
  BY DEF RemoveAt
<1> HIDE DEF before, after
<1>4. /\ Len(before \o after) = Len(before) + Len(after)
      /\ \A j \in 1..(Len(before) + Len(after)) :
           (before \o after)[j] = IF j <= Len(before) THEN before[j]
                                  ELSE after[j - Len(before)]
  BY <1>1, <1>2, ConcatProperties
<1>5. PICK r : r = before \o after
  OBVIOUS
<1>6. /\ Len(r) = Len(t) - 1
      /\ \A j \in 1..(Len(t) - 1) : r[j] = IF j <= k - 1 THEN before[j] ELSE after[j - (k - 1)]
  <2>1. Len(before) + Len(after) = Len(t) - 1
    BY <1>0, <1>1, <1>2
  <2> QED BY <1>1, <1>4, <1>5, <2>1
<1>7. ASSUME NEW j \in 1..(Len(t) - 1)
      PROVE  r[j] = IF j < k THEN t[j] ELSE t[j + 1]
  <2>1. CASE j < k
    <3>1. j <= k - 1 /\ j \in 1..(k - 1)
      BY <1>0, <2>1
    <3> QED BY <1>1, <1>6, <2>1, <3>1
  <2>2. CASE ~(j < k)
    <3>1. PICK n \in 1..(Len(t) - k) : n = j - (k - 1)
      BY <1>0, <2>2
    <3>2. r[j] = after[n]
      <4>1. ~(j <= k - 1)
        BY <2>2
      <4>2. r[j] = after[j - (k - 1)]
        BY <1>6, <4>1
      <4> QED BY <3>1, <4>2
    <3>3. after[n] = t[k + n] /\ k + n = j + 1
      BY <1>0, <1>2, <3>1
    <3> QED BY <2>2, <3>2, <3>3
  <2> QED BY <2>1, <2>2
<1> QED BY <1>3, <1>5, <1>6, <1>7

\* The event whose removal undoes an insertion is the one inserted, or equals it.
LEMMA RemovedIsInserted ==
  ASSUME NEW s \in Seq(Events), NEW e \in Events, NEW t, t = Insert(s, e),
         NEW k \in 1..Len(t), RemoveAt(t, k) = s
  PROVE  t[k] = e
<1>1. PICK p : p = Place(s, e)
  OBVIOUS
<1>2. /\ t \in Seq(Events) /\ Len(t) = Len(s) + 1 /\ p \in 1..(Len(s) + 1)
      /\ \A j \in 1..(Len(s) + 1) : t[j] = IF j < p THEN s[j] ELSE IF j = p THEN e ELSE s[j - 1]
  <2>1. /\ Insert(s, e) \in Seq(Events) /\ Len(Insert(s, e)) = Len(s) + 1
        /\ Place(s, e) \in 1..(Len(s) + 1)
        /\ \A j \in 1..(Len(s) + 1) :
              Insert(s, e)[j] = IF j < Place(s, e) THEN s[j]
                                ELSE IF j = Place(s, e) THEN e ELSE s[j - 1]
    BY InsertPlaces
  <2> QED BY <1>1, <2>1
<1>3. Len(s) \in Nat /\ k \in 1..(Len(s) + 1)
  BY <1>2
<1>4. \A j \in 1..Len(s) : s[j] = IF j < k THEN t[j] ELSE t[j + 1]
  <2>1. \A j \in 1..(Len(t) - 1) : RemoveAt(t, k)[j] = IF j < k THEN t[j] ELSE t[j + 1]
    BY <1>2, RemovePlaces
  <2>2. Len(t) - 1 = Len(s)
    BY <1>2, <1>3
  <2> QED BY <2>1, <2>2
<1>5. \A j \in 1..Len(s) : j < p => t[j] = s[j]
  BY <1>2, <1>3
<1>6. \A j \in 1..Len(s) : j >= p => t[j + 1] = s[j]
  <2> SUFFICES ASSUME NEW j \in 1..Len(s), j >= p PROVE t[j + 1] = s[j]
    OBVIOUS
  <2>1. PICK n \in 1..(Len(s) + 1) : n = j + 1
    BY <1>3
  <2>2. t[n] = s[n - 1] /\ n - 1 = j
    BY <1>2, <1>3, <2>1
  <2> QED BY <2>1, <2>2
<1>7. \A j \in 1..Len(s) : (k <= j /\ j < p) \/ (p <= j /\ j < k) => t[j] = t[j + 1]
  <2> SUFFICES ASSUME NEW j \in 1..Len(s), (k <= j /\ j < p) \/ (p <= j /\ j < k)
               PROVE  t[j] = t[j + 1]
    OBVIOUS
  <2>1. CASE k <= j /\ j < p
    <3>1. ~(j < k)
      BY <2>1, <1>3
    <3> QED BY <1>4, <1>5, <2>1, <3>1
  <2>2. CASE p <= j /\ j < k
    <3>1. j >= p
      BY <2>2, <1>2
    <3> QED BY <1>4, <1>6, <2>2, <3>1
  <2> QED BY <2>1, <2>2
<1> DEFINE T == {n \in Nat : /\ k + n <= p => t[k + n] = t[k]
                             /\ p + n <= k => t[p + n] = t[p]}
<1>8. 0 \in T
  BY <1>2, <1>3
<1>9. ASSUME NEW n \in Nat, n \in T PROVE n + 1 \in T
  <2>1. ASSUME k + (n + 1) <= p PROVE t[k + (n + 1)] = t[k]
    <3>1. PICK j \in 1..Len(s) : j = k + n /\ k <= j /\ j < p
      BY <1>2, <1>3, <2>1
    <3>2. t[j] = t[k]
      BY <1>9, <1>2, <1>3, <3>1
    <3>3. t[j] = t[j + 1]
      BY <1>7, <3>1
    <3>4. k + (n + 1) = j + 1
      BY <1>3, <3>1
    <3> QED BY <3>2, <3>3, <3>4
  <2>2. ASSUME p + (n + 1) <= k PROVE t[p + (n + 1)] = t[p]
    <3>1. PICK j \in 1..Len(s) : j = p + n /\ p <= j /\ j < k
      <4>1. p + n \in 1..Len(s) /\ p <= p + n /\ p + n < k
        BY <1>2, <1>3, <2>2
      <4> QED BY <4>1
    <3>2. t[j] = t[p]
      BY <1>9, <1>2, <1>3, <3>1
    <3>3. t[j] = t[j + 1]
      BY <1>7, <3>1
    <3>4. p + (n + 1) = j + 1
      BY <1>2, <3>1
    <3> QED BY <3>2, <3>3, <3>4
  <2> QED BY <2>1, <2>2
<1>10. \A n \in Nat : n \in T
  <2> HIDE DEF T
  <2>1. Nat \subseteq T
    BY <1>8, <1>9, NatSetInduction
  <2> QED BY <2>1
<1>11. t[k] = t[p]
  <2>1. CASE k <= p
    <3>1. p - k \in Nat /\ k + (p - k) = p /\ p <= p
      BY <1>2, <1>3, <2>1
    <3>2. p - k \in T
      BY <1>10, <3>1
    <3> QED BY <3>1, <3>2
  <2>2. CASE p <= k
    <3>1. k - p \in Nat /\ p + (k - p) = k /\ k <= k
      BY <1>2, <1>3, <2>2
    <3>2. k - p \in T
      BY <1>10, <3>1
    <3> QED BY <3>1, <3>2
  <2> QED BY <1>2, <1>3, <2>1, <2>2
<1>12. t[p] = e
  BY <1>2
<1> QED BY <1>11, <1>12

\* An event dated no earlier than the rest of the ledger changes the balance by
\* what it says.
LEMMA LatestTakesEffect ==
  ASSUME NEW s \in Seq(Events), NEW e \in Events, \A n \in DOMAIN s : s[n].at <= e.at,
         Derive(Insert(s, e)) # Refused
  PROVE  Derive(Insert(s, e)) = Apply(Derive(s), e)
<1>1. PICK t : t = Insert(s, e)
  OBVIOUS
<1>2. Place(s, e) = Len(s) + 1
  <2>1. {n \in DOMAIN s : s[n].at <= e.at} = 1..Len(s)
    OBVIOUS
  <2>2. Cardinality(1..Len(s)) = Len(s) /\ Len(s) \in Nat
    <3>1. Len(s) \in Nat
      OBVIOUS
    <3> QED BY <3>1, UpToCount, Zenon
  <2>3. Place(s, e) = 1 + Cardinality(1..Len(s))
    BY <2>1, Zenon DEF Place
  <2> QED BY <2>2, <2>3
<1>3. /\ t \in Seq(Events) /\ Len(t) = Len(s) + 1 /\ Len(s) \in Nat
      /\ t[Len(t)] = e /\ \A k \in 1..Len(s) : t[k] = s[k]
  <2>1. /\ Insert(s, e) \in Seq(Events) /\ Len(Insert(s, e)) = Len(s) + 1
        /\ \A j \in 1..(Len(s) + 1) :
              Insert(s, e)[j] = IF j < Place(s, e) THEN s[j]
                                ELSE IF j = Place(s, e) THEN e ELSE s[j - 1]
    BY InsertPlaces
  <2>2. Len(s) \in Nat
    OBVIOUS
  <2> QED BY <1>1, <1>2, <2>1, <2>2
<1>4. Derive(t) = Apply(Derive(s), t[Len(t)])
  BY <1>1, <1>3, ReplayOneMore
<1> QED BY <1>1, <1>3, <1>4

-----------------------------------------------------------------------------
(* The visits of the allocator *)

\* A visit: a pass gives a line what it may take of an item.
VisitSet == [line : Lines, item : Items, mode : {"confirmed", "inspect"}]

\* Lines and candidates are visited at most once in a pass.
LEMMA LinesOnce ==
  ASSUME NEW says
  PROVE  AllocationLines(says) \in Seq(Lines) /\ IsInjective(AllocationLines(says))
<1>1. <<0, 1, 2>> \in Seq(Nat) /\ IsInjective(<<0, 1, 2>>)
  BY DEF IsInjective
<1> QED BY <1>1, ByRankOnce, BomAssumption DEF AllocationLines

\* Neither does a line see a candidate twice in a pass.
LEMMA CandidatesOnce ==
  ASSUME NEW view, NEW says, NEW l, NEW mode
  PROVE  /\ Candidates(view, says, l, mode) \in Seq(Items)
         /\ IsInjective(Candidates(view, says, l, mode))
<1> DEFINE ranks == <<"exact", "confirmed_alternative", "uncertain_alternative">>
           fit == {i \in Items : /\ view[i].listed
                                 /\ IsCandidate(says, l, i)
                                 /\ Confirmed(view, says, l, i) <=> mode = "confirmed"}
           rank == [i \in Items |-> Kind(says, l, i)]
           s == Those(ItemOrder, fit)
<1>1. ranks \in Seq({"exact", "confirmed_alternative", "uncertain_alternative"}) /\ IsInjective(ranks)
  <2>1. DOMAIN ranks = {1, 2, 3}
    OBVIOUS
  <2>2. \A a, b \in {1, 2, 3} : ranks[a] = ranks[b] => a = b
    OBVIOUS
  <2>3. ranks \in Seq({"exact", "confirmed_alternative", "uncertain_alternative"})
    OBVIOUS
  <2> HIDE DEF ranks
  <2>4. IsInjective(ranks)
    BY <2>1, <2>2 DEF IsInjective
  <2> QED BY <2>3, <2>4
<1>2. Candidates(view, says, l, mode) = ByRank(s, rank, ranks)
  BY DEF Candidates
<1> HIDE DEF fit, rank, ranks
<1>3. s \in Seq(Items) /\ IsInjective(s)
  BY ThoseOnce, BomAssumption
<1> HIDE DEF s
<1> QED BY <1>1, <1>2, <1>3, ByRankOnce

\* A pass visits a candidate of a line at most once.
LEMMA VisitsOnce ==
  ASSUME NEW view, NEW says, NEW mode \in {"confirmed", "inspect"}
  PROVE  /\ Visits(view, says, mode) \in Seq(VisitSet)
         /\ IsInjective(Visits(view, says, mode))
         /\ \A k \in 1..Len(Visits(view, says, mode)) : Visits(view, says, mode)[k].mode = mode
<1> DEFINE c(l) == Candidates(view, says, l, mode)
           of(l) == [n \in 1..Len(c(l)) |-> [line |-> l, item |-> c(l)[n], mode |-> mode]]
<1>1. PICK lines : lines = AllocationLines(says)
  OBVIOUS
<1>2. /\ lines \in Seq(Lines) /\ IsInjective(lines)
      /\ Len(lines) \in Nat /\ DOMAIN lines = 1..Len(lines)
      /\ \A n \in 1..Len(lines) : lines[n] \in Lines
  <2>1. lines \in Seq(Lines) /\ IsInjective(lines)
    BY <1>1, LinesOnce
  <2> QED BY <2>1
<1>3. ASSUME NEW l \in Lines
      PROVE  /\ of(l) \in Seq(VisitSet)
             /\ \A j \in 1..Len(of(l)) : of(l)[j].line = l /\ of(l)[j].mode = mode
             /\ IsInjective(of(l))
  <2>1. PICK d : d = c(l)
    OBVIOUS
  <2>2. d \in Seq(Items) /\ IsInjective(d)
    BY <2>1, CandidatesOnce
  <2>3. Len(d) \in Nat /\ DOMAIN d = 1..Len(d) /\ \A n \in 1..Len(d) : d[n] \in Items
    BY <2>2
  <2>4. PICK v : v = [n \in 1..Len(d) |-> [line |-> l, item |-> d[n], mode |-> mode]]
    OBVIOUS
  <2>5. of(l) = v
    BY <2>1, <2>4
  <2>6. v \in [1..Len(d) -> VisitSet]
    BY <2>3, <2>4 DEF VisitSet
  <2>7. v \in Seq(VisitSet) /\ Len(v) = Len(d) /\ DOMAIN v = 1..Len(d)
    BY <2>3, <2>6
  <2>8. \A n \in 1..Len(d) : v[n].line = l /\ v[n].item = d[n] /\ v[n].mode = mode
    BY <2>4
  <2>9. IsInjective(v)
    BY <2>2, <2>3, <2>7, <2>8 DEF IsInjective
  <2> HIDE DEF of
  <2> QED BY <2>5, <2>7, <2>8, <2>9
<1> DEFINE ss == [n \in 1..Len(lines) |-> of(lines[n])]
<1>4. Visits(view, says, mode) = FlattenSeq(ss)
  BY <1>1 DEF Visits
<1> HIDE DEF of
<1>5. \A n \in 1..Len(lines) : ss[n] = of(lines[n])
  OBVIOUS
<1>6. ss \in Seq(Seq(VisitSet)) /\ Len(ss) = Len(lines)
  <2>1. ss \in [1..Len(lines) -> Seq(VisitSet)]
    BY <1>2, <1>3
  <2> HIDE DEF ss
  <2> QED BY <1>2, <2>1
<1> HIDE DEF ss
<1>7. Apart(ss)
  <2> SUFFICES ASSUME NEW n \in 1..Len(lines), NEW m \in 1..Len(lines),
                      NEW j \in 1..Len(ss[n]), NEW k \in 1..Len(ss[m]), ss[n][j] = ss[m][k]
               PROVE  n = m /\ j = k
    BY <1>6 DEF Apart
  <2>1. lines[n] \in Lines /\ lines[m] \in Lines
    BY <1>2
  <2>2. ss[n][j].line = lines[n] /\ ss[m][k].line = lines[m]
    BY <1>3, <1>5, <2>1
  <2>3. n = m
    BY <1>2, <2>2 DEF IsInjective
  <2>4. ss[n] \in Seq(VisitSet) /\ IsInjective(ss[n])
    BY <1>3, <1>5, <2>1
  <2>5. DOMAIN ss[n] = 1..Len(ss[n])
    BY <2>4
  <2> QED BY <2>3, <2>4, <2>5 DEF IsInjective
<1>8. /\ FlattenSeq(ss) \in Seq(VisitSet)
      /\ Stems(FlattenSeq(ss), ss, Len(lines))
      /\ IsInjective(FlattenSeq(ss))
  BY <1>6, <1>7, FlattenOnce
<1>9. \A k \in 1..Len(FlattenSeq(ss)) : FlattenSeq(ss)[k].mode = mode
  <2>1. \A n \in 1..Len(lines) : \A j \in 1..Len(ss[n]) : ss[n][j].mode = mode
    BY <1>2, <1>3, <1>5
  <2> QED BY <1>8, <2>1 DEF Stems
<1> QED BY <1>4, <1>8, <1>9

\* Both passes together visit a candidate at most once in each.
LEMMA AllVisitsOnce ==
  ASSUME NEW view, NEW says
  PROVE  LET v == Visits(view, says, "confirmed") \o Visits(view, says, "inspect")
         IN v \in Seq(VisitSet) /\ IsInjective(v)
<1>1. PICK a : a = Visits(view, says, "confirmed")
  OBVIOUS
<1>2. PICK b : b = Visits(view, says, "inspect")
  OBVIOUS
<1>3. /\ a \in Seq(VisitSet) /\ IsInjective(a) /\ \A k \in 1..Len(a) : a[k].mode = "confirmed"
      /\ b \in Seq(VisitSet) /\ IsInjective(b) /\ \A k \in 1..Len(b) : b[k].mode = "inspect"
  BY <1>1, <1>2, VisitsOnce
<1>4. \A j \in 1..Len(a), k \in 1..Len(b) : a[j] # b[k]
  BY <1>3
<1>5. a \o b \in Seq(VisitSet) /\ IsInjective(a \o b)
  BY <1>3, <1>4, JoinOnce
<1> QED BY <1>1, <1>2, <1>5

-----------------------------------------------------------------------------
(* The pools *)

\* The two passes, what they give each line of each item, and the pools.
Modes == {"confirmed", "inspect"}
Shares == [Lines -> [Items -> Nat]]
PoolSet == [physical : [Items -> Nat], free : [Items -> Nat], reserved : [Items -> Nat],
            used : [Modes -> Shares], covered : [Modes -> Shares]]

\* What the lines were given of item i.
UsedOf(p, mode, i) == [l \in Lines |-> p.used[mode][l][i]]
OwnOf(own, i) == [l \in Lines |-> own[l][i]]

\* Nothing is created or lost; what is handed out as confirmed was free or the
\* line's own; no line gets more than it requires.
PoolsOK(p, view, own) ==
  /\ p \in PoolSet
  /\ \A i \in Items :
       p.physical[i] + SumFunctionOnSet(UsedOf(p, "confirmed", i), Lines)
                     + SumFunctionOnSet(UsedOf(p, "inspect", i), Lines) = view[i].quantity
  /\ \A i \in Items : \A L \in SUBSET Lines :
       SumFunctionOnSet(UsedOf(p, "confirmed", i), L) + p.free[i]
         <= view[i].available + SumFunctionOnSet(OwnOf(own, i), L)
  /\ \A l \in Lines :
       SumFunctionOnSet(p.covered["confirmed"][l], Items)
         + SumFunctionOnSet(p.covered["inspect"][l], Items) <= Required[l]

\* There are finitely many lines and items.
LEMMA BomFinite == IsFiniteSet(Lines) /\ IsFiniteSet(Items)
BY SeqFinite, BomAssumption DEF Lines, Items

\* Whole sets are a natural number.
LEMMA SetsNat ==
  ASSUME NEW q \in Nat, NEW n \in Nat, n > 0
  PROVE  Sets(q, n) \in Nat
<1>1. PICK a : a = q + n - 1
  OBVIOUS
<1>2. a \in Nat
  BY <1>1
<1>3. a \div n \in Nat
  BY <1>2
<1> QED BY <1>1, <1>3 DEF Sets

\* So is the lesser of two.
LEMMA LeastNat ==
  ASSUME NEW a \in Nat, NEW b \in Nat
  PROVE  Least(a, b) \in Nat /\ Least(a, b) <= a /\ Least(a, b) <= b
BY DEF Least

\* The sums of covered quantities in a pool.
LEMMA CoveredNat ==
  ASSUME NEW p \in PoolSet, NEW l \in Lines, NEW mode \in Modes
  PROVE  /\ p.covered[mode][l] \in [Items -> Nat]
         /\ CoveredBy(p, mode, l) = SumFunctionOnSet(p.covered[mode][l], Items)
         /\ CoveredBy(p, mode, l) \in Nat
<1>1. p.covered[mode][l] \in [Items -> Nat]
  BY DEF PoolSet, Shares
<1>2. PICK f : f = p.covered[mode][l]
  OBVIOUS
<1>3. SumFunction(f) = SumFunctionOnSet(f, Items) /\ SumFunctionOnSet(f, Items) \in Nat
  <2>1. DOMAIN f = Items /\ \A i \in Items : f[i] \in Nat
    BY <1>1, <1>2
  <2> QED BY <2>1, BomFinite, SumNat DEF SumFunction
<1> QED BY <1>1, <1>2, <1>3 DEF CoveredBy

\* What a line still lacks.
LEMMA RemainingNat ==
  ASSUME NEW p \in PoolSet, NEW l \in Lines
  PROVE  /\ Remaining(p, l) \in Nat
         /\ CoveredBy(p, "confirmed", l) + CoveredBy(p, "inspect", l) <= Required[l] =>
              CoveredBy(p, "confirmed", l) + CoveredBy(p, "inspect", l) + Remaining(p, l)
                = Required[l]
<1>1. CoveredBy(p, "confirmed", l) \in Nat /\ CoveredBy(p, "inspect", l) \in Nat
  BY CoveredNat DEF Modes
<1>2. Required[l] \in Nat
  BY BomAssumption
<1> QED BY <1>1, <1>2 DEF Remaining, Most

\* The pools after a visit that takes from each of them.
Drawn(p, v, taken, fromOwn, fromFree, covered) ==
  [p EXCEPT !.physical[v.item] = @ - taken,
            !.reserved[v.item] = @ - fromOwn,
            !.free[v.item] = @ - fromFree,
            !.used[v.mode][v.line][v.item] = @ + taken,
            !.covered[v.mode][v.line][v.item] = @ + covered]

\* What one visit does.
LEMMA TakeFacts ==
  ASSUME NEW p \in PoolSet, NEW own \in Shares, NEW v \in VisitSet,
         NEW l, NEW i, l = v.line, i = v.item, Take(p, own, v) # p
  PROVE  \E taken, fromOwn, fromFree, covered \in Nat :
           /\ taken <= p.physical[i] /\ fromFree <= p.free[i]
           /\ fromOwn <= p.reserved[i] /\ fromOwn <= own[l][i]
           /\ v.mode = "confirmed" => taken = fromOwn + fromFree
           /\ v.mode = "inspect" => fromOwn = 0 /\ fromFree = 0
           /\ covered <= Remaining(p, l)
           /\ Take(p, own, v) = Drawn(p, v, taken, fromOwn, fromFree, covered)
<1> DEFINE f == Factor[l][i]
           wanted == Least(Remaining(p, l), ShownCapacity(p, own, v) * f)
           taken == Least(Capacity(p, own, v), Sets(wanted, f))
           covered == Least(Remaining(p, l), taken * f)
           fromOwn == IF v.mode = "confirmed" THEN Least(Own(p, own, l, i), taken) ELSE 0
           fromFree == IF v.mode = "confirmed" THEN taken - fromOwn ELSE 0
<1>1. l \in Lines /\ i \in Items /\ v.mode \in Modes
  BY DEF VisitSet, Modes
<1>2. f \in Nat /\ p.physical[i] \in Nat /\ p.free[i] \in Nat /\ p.reserved[i] \in Nat
      /\ own[l][i] \in Nat
  BY <1>1, BomAssumption DEF PoolSet, Shares
<1>3. f # 0 /\ Take(p, own, v) = Drawn(p, v, taken, fromOwn, fromFree, covered)
  BY DEF Take, Drawn
<1> HIDE DEF f
<1>4. Own(p, own, l, i) \in Nat /\ Own(p, own, l, i) <= p.reserved[i]
      /\ Own(p, own, l, i) <= own[l][i]
  BY <1>2, LeastNat DEF Own
<1>5. /\ Capacity(p, own, v) \in Nat /\ Capacity(p, own, v) <= p.physical[i]
      /\ v.mode = "confirmed" => Capacity(p, own, v) <= p.free[i] + Own(p, own, l, i)
  <2>1. CASE v.mode = "confirmed"
    <3>1. PICK b : b = p.free[i] + Own(p, own, l, i)
      OBVIOUS
    <3>2. b \in Nat
      BY <1>2, <1>4, <3>1
    <3>3. Capacity(p, own, v) = Least(p.physical[i], b)
      BY <2>1, <3>1 DEF Capacity
    <3> QED BY <1>2, <3>1, <3>2, <3>3, LeastNat
  <2>2. CASE v.mode # "confirmed"
    <3>1. PICK b : b = Most(0, p.physical[i] - p.reserved[i])
      OBVIOUS
    <3>2. b \in Nat
      BY <1>2, <3>1 DEF Most
    <3>3. Capacity(p, own, v) = Least(p.physical[i], b)
      BY <2>2, <3>1 DEF Capacity
    <3>4. Least(p.physical[i], b) \in Nat /\ Least(p.physical[i], b) <= p.physical[i]
      BY <1>2, <3>2, LeastNat
    <3> QED BY <2>2, <3>3, <3>4
  <2> QED BY <2>1, <2>2
<1>6. ShownCapacity(p, own, v) \in Nat
  <2>1. CASE v.mode = "confirmed"
    BY <1>5, <2>1 DEF ShownCapacity
  <2>2. CASE v.mode # "confirmed"
    <3>1. PICK b : b = Most(0, p.physical[i] - (p.reserved[i] - Own(p, own, l, i)))
      OBVIOUS
    <3>2. b \in Nat
      BY <1>2, <1>4, <3>1 DEF Most
    <3>3. ShownCapacity(p, own, v) = Least(p.physical[i], b)
      BY <2>2, <3>1 DEF ShownCapacity
    <3>4. p.physical[i] \in Nat
      BY <1>2
    <3>5. Least(p.physical[i], b) \in Nat
      BY <3>2, <3>4, LeastNat, Zenon
    <3> QED BY <3>3, <3>5, Zenon
  <2> QED BY <2>1, <2>2
<1>7. Remaining(p, l) \in Nat
  BY <1>1, RemainingNat
<1>8. wanted \in Nat
  <2>1. ShownCapacity(p, own, v) * f \in Nat
    BY <1>2, <1>6
  <2> QED BY <1>7, <2>1, LeastNat
<1> HIDE DEF wanted
<1>9. taken \in Nat /\ taken <= Capacity(p, own, v)
  <2>1. Sets(wanted, f) \in Nat
    BY <1>2, <1>3, <1>8, SetsNat
  <2> QED BY <1>5, <2>1, LeastNat
<1> HIDE DEF taken
<1>10. covered \in Nat /\ covered <= Remaining(p, l)
  <2>1. taken * f \in Nat
    BY <1>2, <1>9
  <2> QED BY <1>7, <2>1, LeastNat
<1> HIDE DEF covered
<1>11. /\ fromOwn \in Nat /\ fromFree \in Nat
       /\ fromOwn <= Own(p, own, l, i) /\ fromFree <= p.free[i]
       /\ v.mode = "confirmed" => taken = fromOwn + fromFree
       /\ v.mode = "inspect" => fromOwn = 0 /\ fromFree = 0
  <2>1. CASE v.mode = "confirmed"
    <3>1. PICK w : w = Own(p, own, l, i)
      OBVIOUS
    <3>2. fromOwn = Least(w, taken) /\ fromFree = taken - fromOwn
      BY <2>1, <3>1
    <3>3. taken <= p.free[i] + w
      BY <1>2, <1>4, <1>5, <1>9, <2>1, <3>1
    <3> HIDE DEF fromOwn, fromFree
    <3> QED BY <1>2, <1>4, <1>9, <2>1, <3>1, <3>2, <3>3 DEF Least
  <2>2. CASE v.mode # "confirmed"
    BY <1>2, <1>4, <2>2
  <2> QED BY <2>1, <2>2
<1> HIDE DEF fromOwn, fromFree
<1>12. taken <= p.physical[i] /\ fromOwn <= p.reserved[i] /\ fromOwn <= own[l][i]
  BY <1>2, <1>4, <1>5, <1>9, <1>11
<1> QED BY <1>3, <1>9, <1>10, <1>11, <1>12

\* A share that grows by n.
Grows(x, m, l, i, n) == [x EXCEPT ![m][l][i] = @ + n]

\* The same, place by place.
GrownBy(y, x, m, l, i, n) ==
  /\ y \in [Modes -> [Lines -> [Items -> Nat]]]
  /\ \A mode \in Modes, k \in Lines, j \in Items :
       y[mode][k][j] = IF mode = m /\ k = l /\ j = i THEN x[mode][k][j] + n ELSE x[mode][k][j]

\* A share that grows does so at one place.
LEMMA GrowsAt ==
  ASSUME NEW x \in [Modes -> [Lines -> [Items -> Nat]]], NEW n \in Nat,
         NEW m \in Modes, NEW l \in Lines, NEW i \in Items
  PROVE  GrownBy(Grows(x, m, l, i, n), x, m, l, i, n)
<1>1. x[m] \in [Lines -> [Items -> Nat]] /\ x[m][l] \in [Items -> Nat]
  OBVIOUS
<1>2. PICK a : a = [x[m][l] EXCEPT ![i] = @ + n]
  OBVIOUS
<1>3. a \in [Items -> Nat] /\ \A j \in Items : a[j] = IF j = i THEN x[m][l][j] + n ELSE x[m][l][j]
  BY <1>1, <1>2
<1>4. PICK b : b = [x[m] EXCEPT ![l] = a]
  OBVIOUS
<1>5. b \in [Lines -> [Items -> Nat]] /\ \A k \in Lines : b[k] = IF k = l THEN a ELSE x[m][k]
  BY <1>1, <1>3, <1>4
<1>6. PICK y : y = Grows(x, m, l, i, n)
  OBVIOUS
<1>7. y = [x EXCEPT ![m] = b]
  BY <1>2, <1>4, <1>6, Zenon DEF Grows
<1>8. y \in [Modes -> [Lines -> [Items -> Nat]]]
      /\ \A mode \in Modes : y[mode] = IF mode = m THEN b ELSE x[mode]
  BY <1>5, <1>7
<1>9. \A mode \in Modes, k \in Lines, j \in Items :
        y[mode][k][j] = IF mode = m /\ k = l /\ j = i THEN x[mode][k][j] + n ELSE x[mode][k][j]
  BY <1>3, <1>5, <1>8
<1> QED BY <1>6, <1>8, <1>9 DEF GrownBy

\* The fields of the pools after a visit.
Fields(p, v, taken, fromFree, covered, q) ==
  /\ q \in PoolSet
  /\ \A j \in Items :
       /\ q.physical[j] = IF j = v.item THEN p.physical[j] - taken ELSE p.physical[j]
       /\ q.free[j] = IF j = v.item THEN p.free[j] - fromFree ELSE p.free[j]
  /\ \A mode \in Modes, k \in Lines, j \in Items :
       /\ q.used[mode][k][j] = IF mode = v.mode /\ k = v.line /\ j = v.item
                               THEN p.used[mode][k][j] + taken ELSE p.used[mode][k][j]
       /\ q.covered[mode][k][j] = IF mode = v.mode /\ k = v.line /\ j = v.item
                                  THEN p.covered[mode][k][j] + covered
                                  ELSE p.covered[mode][k][j]

\* Each pool after a visit, place by place.
LEMMA DrawnFields ==
  ASSUME NEW p \in PoolSet, NEW v \in VisitSet,
         NEW taken \in Nat, NEW fromOwn \in Nat, NEW fromFree \in Nat, NEW covered \in Nat,
         taken <= p.physical[v.item], fromFree <= p.free[v.item], fromOwn <= p.reserved[v.item]
  PROVE  Fields(p, v, taken, fromFree, covered, Drawn(p, v, taken, fromOwn, fromFree, covered))
<1>0. PICK q : q = Drawn(p, v, taken, fromOwn, fromFree, covered)
  OBVIOUS
<1>a. PICK l : l = v.line
  OBVIOUS
<1>b. PICK i : i = v.item
  OBVIOUS
<1>c. PICK m : m = v.mode
  OBVIOUS
<1>1. l \in Lines /\ i \in Items /\ m \in Modes
  BY <1>a, <1>b, <1>c DEF VisitSet, Modes
<1>2. /\ p.physical \in [Items -> Nat] /\ p.free \in [Items -> Nat] /\ p.reserved \in [Items -> Nat]
      /\ p.used \in [Modes -> [Lines -> [Items -> Nat]]]
      /\ p.covered \in [Modes -> [Lines -> [Items -> Nat]]]
  BY DEF PoolSet, Shares
<1>3. PICK physical : physical = [p.physical EXCEPT ![i] = @ - taken]
  OBVIOUS
<1>4. PICK reserved : reserved = [p.reserved EXCEPT ![i] = @ - fromOwn]
  OBVIOUS
<1>5. PICK free : free = [p.free EXCEPT ![i] = @ - fromFree]
  OBVIOUS
<1>7. PICK used : used = Grows(p.used, m, l, i, taken)
  OBVIOUS
<1>8. PICK cover : cover = Grows(p.covered, m, l, i, covered)
  OBVIOUS
<1>9. q = [p EXCEPT !.physical = physical, !.reserved = reserved, !.free = free,
                    !.used = used, !.covered = cover]
  BY <1>0, <1>3, <1>4, <1>5, <1>7, <1>8, <1>a, <1>b, <1>c, Zenon DEF Drawn, Grows
<1>10. /\ q.physical = physical /\ q.reserved = reserved /\ q.free = free
       /\ q.used = used /\ q.covered = cover
       /\ q = [physical |-> physical, free |-> free, reserved |-> reserved,
               used |-> used, covered |-> cover]
  BY <1>9 DEF PoolSet
<1>11. /\ physical \in [Items -> Nat] /\ reserved \in [Items -> Nat] /\ free \in [Items -> Nat]
       /\ \A j \in Items :
            /\ physical[j] = IF j = i THEN p.physical[j] - taken ELSE p.physical[j]
            /\ free[j] = IF j = i THEN p.free[j] - fromFree ELSE p.free[j]
  BY <1>1, <1>2, <1>3, <1>4, <1>5, <1>b
<1>12. /\ used \in [Modes -> [Lines -> [Items -> Nat]]]
       /\ \A mode \in Modes, k \in Lines, j \in Items :
            used[mode][k][j] = IF mode = m /\ k = l /\ j = i
                               THEN p.used[mode][k][j] + taken ELSE p.used[mode][k][j]
  <2>1. PICK x : x = p.used
    OBVIOUS
  <2>2. x \in [Modes -> [Lines -> [Items -> Nat]]]
    BY <1>2, <2>1
  <2>3. GrownBy(Grows(x, m, l, i, taken), x, m, l, i, taken)
    BY <1>1, <2>2, GrowsAt
  <2>4. used = Grows(x, m, l, i, taken)
    BY <1>7, <2>1
  <2> QED BY <2>1, <2>3, <2>4 DEF GrownBy
<1>13. /\ cover \in [Modes -> [Lines -> [Items -> Nat]]]
       /\ \A mode \in Modes, k \in Lines, j \in Items :
            cover[mode][k][j] = IF mode = m /\ k = l /\ j = i
                                THEN p.covered[mode][k][j] + covered ELSE p.covered[mode][k][j]
  <2>1. PICK x : x = p.covered
    OBVIOUS
  <2>2. x \in [Modes -> [Lines -> [Items -> Nat]]]
    BY <1>2, <2>1
  <2>3. GrownBy(Grows(x, m, l, i, covered), x, m, l, i, covered)
    BY <1>1, <2>2, GrowsAt
  <2>4. cover = Grows(x, m, l, i, covered)
    BY <1>8, <2>1
  <2> QED BY <2>1, <2>3, <2>4 DEF GrownBy
<1>14. q \in PoolSet
  BY <1>10, <1>11, <1>12, <1>13 DEF PoolSet, Shares
<1>15. Fields(p, v, taken, fromFree, covered, q)
  BY <1>10, <1>11, <1>12, <1>13, <1>14, <1>a, <1>b, <1>c DEF Fields
<1> QED BY <1>0, <1>15

\* What an evaluation is told of the items.
ViewOK(view) == \A i \in Items : view[i].quantity \in Nat /\ view[i].available \in Nat

\* A visit keeps the pools in order if the candidate was not visited before in
\* the pass that hands out confirmed stock.
LEMMA TakeKeeps ==
  ASSUME NEW view, ViewOK(view), NEW own \in Shares, NEW p, PoolsOK(p, view, own),
         NEW v \in VisitSet,
         v.mode = "confirmed" => p.used["confirmed"][v.line][v.item] = 0,
         NEW q, q = Take(p, own, v)
  PROVE  /\ PoolsOK(q, view, own)
         /\ \A k \in Lines, j \in Items :
              v.mode = "inspect" \/ k # v.line \/ j # v.item
                => q.used["confirmed"][k][j] = p.used["confirmed"][k][j]
<1>1. CASE q = p
  BY <1>1
<1>2. CASE q # p
  <2>0. PICK l, i : l = v.line /\ i = v.item
    OBVIOUS
  <2>1. /\ l \in Lines /\ i \in Items /\ v.mode \in Modes /\ p \in PoolSet
        /\ v.mode = "confirmed" \/ v.mode = "inspect"
    BY <2>0 DEF VisitSet, Modes, PoolsOK
  <2>2. PICK taken, fromOwn, fromFree, covered \in Nat :
           /\ taken <= p.physical[i] /\ fromFree <= p.free[i]
           /\ fromOwn <= p.reserved[i] /\ fromOwn <= own[l][i]
           /\ v.mode = "confirmed" => taken = fromOwn + fromFree
           /\ v.mode = "inspect" => fromOwn = 0 /\ fromFree = 0
           /\ covered <= Remaining(p, l)
           /\ q = Drawn(p, v, taken, fromOwn, fromFree, covered)
    BY <1>2, <2>0, <2>1, TakeFacts
  <2>3. /\ q \in PoolSet
        /\ \A j \in Items :
             /\ q.physical[j] = IF j = i THEN p.physical[j] - taken ELSE p.physical[j]
             /\ q.free[j] = IF j = i THEN p.free[j] - fromFree ELSE p.free[j]
        /\ \A mode \in Modes, k \in Lines, j \in Items :
             /\ q.used[mode][k][j] = IF mode = v.mode /\ k = l /\ j = i
                                     THEN p.used[mode][k][j] + taken ELSE p.used[mode][k][j]
             /\ q.covered[mode][k][j] = IF mode = v.mode /\ k = l /\ j = i
                                        THEN p.covered[mode][k][j] + covered
                                        ELSE p.covered[mode][k][j]
    <3>1. Fields(p, v, taken, fromFree, covered, q)
      BY <2>0, <2>1, <2>2, DrawnFields
    <3> QED BY <2>0, <3>1 DEF Fields
  <2>4. \A k \in Lines, j \in Items :
          v.mode = "inspect" \/ k # l \/ j # i
            => q.used["confirmed"][k][j] = p.used["confirmed"][k][j]
    BY <2>3 DEF Modes
  \* The sums over a set of lines of what they were given of an item.
  <2>5. ASSUME NEW mode \in Modes, NEW j \in Items, NEW L \in SUBSET Lines
        PROVE  /\ SumFunctionOnSet(UsedOf(p, mode, j), L) \in Nat
               /\ SumFunctionOnSet(UsedOf(q, mode, j), L)
                    = IF mode = v.mode /\ j = i /\ l \in L
                      THEN SumFunctionOnSet(UsedOf(p, mode, j), L) + taken
                      ELSE SumFunctionOnSet(UsedOf(p, mode, j), L)
    <3>1. PICK f : f = UsedOf(p, mode, j)
      OBVIOUS
    <3>2. PICK g : g = UsedOf(q, mode, j)
      OBVIOUS
    <3>3. IsFiniteSet(L) /\ \A k \in L : k \in Lines
      BY BomFinite, FS_Subset
    <3>4. \A k \in L : f[k] = p.used[mode][k][j] /\ f[k] \in Nat
      BY <2>1, <3>1, <3>3 DEF UsedOf, PoolSet, Shares
    <3>5. \A k \in L : g[k] = IF mode = v.mode /\ j = i /\ k = l THEN f[k] + taken ELSE f[k]
      BY <2>3, <3>2, <3>3, <3>4 DEF UsedOf
    <3>6. SumFunctionOnSet(f, L) \in Nat
      BY <3>3, <3>4, SumNat
    <3>7. CASE mode = v.mode /\ j = i /\ l \in L
      <4>1. g[l] = f[l] + taken /\ \A k \in L : k # l => g[k] = f[k]
        BY <3>5, <3>7
      <4>2. SumFunctionOnSet(g, L) = SumFunctionOnSet(f, L) + taken
        BY <3>3, <3>4, <3>7, <4>1, SumBump
      <4> QED BY <3>1, <3>2, <3>6, <3>7, <4>2
    <3>8. CASE ~(mode = v.mode /\ j = i /\ l \in L)
      <4>1. \A k \in L : g[k] = f[k]
        BY <3>5, <3>8
      <4>2. SumFunctionOnSet(g, L) = SumFunctionOnSet(f, L)
        BY <3>3, <4>1, SumAgree
      <4> QED BY <3>1, <3>2, <3>6, <3>8, <4>2
    <3> QED BY <3>7, <3>8
  <2>6. ASSUME NEW j \in Items
        PROVE  q.physical[j] + SumFunctionOnSet(UsedOf(q, "confirmed", j), Lines)
                 + SumFunctionOnSet(UsedOf(q, "inspect", j), Lines) = view[j].quantity
    <3>1. PICK a : a = SumFunctionOnSet(UsedOf(p, "confirmed", j), Lines)
      OBVIOUS
    <3>2. PICK b : b = SumFunctionOnSet(UsedOf(p, "inspect", j), Lines)
      OBVIOUS
    <3>3. /\ a \in Nat /\ b \in Nat /\ p.physical[j] \in Nat /\ view[j].quantity \in Nat
          /\ p.physical[j] + a + b = view[j].quantity
      <4>1. a \in Nat /\ b \in Nat
        BY <2>5, <3>1, <3>2 DEF Modes
      <4>2. p.physical[j] + a + b = view[j].quantity
        BY <3>1, <3>2 DEF PoolsOK
      <4>3. p.physical[j] \in Nat /\ view[j].quantity \in Nat
        BY <2>1 DEF PoolSet, ViewOK
      <4> QED BY <4>1, <4>2, <4>3
    <3>4. SumFunctionOnSet(UsedOf(q, "confirmed", j), Lines)
            = IF v.mode = "confirmed" /\ j = i THEN a + taken ELSE a
      BY <2>1, <2>5, <3>1 DEF Modes
    <3>5. SumFunctionOnSet(UsedOf(q, "inspect", j), Lines)
            = IF v.mode = "inspect" /\ j = i THEN b + taken ELSE b
      BY <2>1, <2>5, <3>2 DEF Modes
    <3>6. q.physical[j] = IF j = i THEN p.physical[j] - taken ELSE p.physical[j]
      BY <2>3
    <3> QED BY <2>1, <3>3, <3>4, <3>5, <3>6
  <2>7. ASSUME NEW j \in Items, NEW L \in SUBSET Lines
        PROVE  SumFunctionOnSet(UsedOf(q, "confirmed", j), L) + q.free[j]
                 <= view[j].available + SumFunctionOnSet(OwnOf(own, j), L)
    <3>1. PICK a : a = SumFunctionOnSet(UsedOf(p, "confirmed", j), L)
      OBVIOUS
    <3>2. PICK o : o = SumFunctionOnSet(OwnOf(own, j), L)
      OBVIOUS
    <3>3. IsFiniteSet(L) /\ \A k \in L : OwnOf(own, j)[k] = own[k][j] /\ own[k][j] \in Nat
      BY BomFinite, FS_Subset DEF OwnOf, Shares
    <3>4. /\ a \in Nat /\ o \in Nat /\ p.free[j] \in Nat /\ view[j].available \in Nat
          /\ a + p.free[j] <= view[j].available + o
      <4>1. a \in Nat
        BY <2>5, <3>1 DEF Modes
      <4>2. o \in Nat
        BY <3>2, <3>3, SumNat
      <4>3. a + p.free[j] <= view[j].available + o
        BY <3>1, <3>2 DEF PoolsOK
      <4>4. p.free[j] \in Nat /\ view[j].available \in Nat
        BY <2>1 DEF PoolSet, ViewOK
      <4> QED BY <4>1, <4>2, <4>3, <4>4
    <3>5. SumFunctionOnSet(UsedOf(q, "confirmed", j), L)
            = IF v.mode = "confirmed" /\ j = i /\ l \in L THEN a + taken ELSE a
      BY <2>5, <3>1 DEF Modes
    <3>6. q.free[j] = IF j = i THEN p.free[j] - fromFree ELSE p.free[j]
      BY <2>3
    <3>7. CASE ~(v.mode = "confirmed" /\ j = i /\ l \in L)
      BY <2>2, <3>1, <3>2, <3>4, <3>5, <3>6, <3>7
    \* What the line takes for the first time is free or its own.
    <3>8. CASE v.mode = "confirmed" /\ j = i /\ l \in L
      <4>1. PICK R : R = L \ {l}
        OBVIOUS
      <4>2. PICK b : b = SumFunctionOnSet(UsedOf(p, "confirmed", i), R)
        OBVIOUS
      <4>3. PICK c : c = SumFunctionOnSet(OwnOf(own, i), R)
        OBVIOUS
      <4>4. R \in SUBSET Lines /\ IsFiniteSet(R)
        BY <3>3, <4>1, FS_Subset
      <4>5. b \in Nat
        BY <2>1, <2>5, <4>2, <4>4 DEF Modes
      <4>6. c \in Nat
        BY <3>3, <3>8, <4>1, <4>3, <4>4, SumNat
      <4>7. b + p.free[i] <= view[i].available + c
        BY <2>1, <4>2, <4>3, <4>4 DEF PoolsOK
      <4>8. a = b
        <5>1. \A k \in L : UsedOf(p, "confirmed", i)[k] \in Int
          BY <2>1 DEF UsedOf, PoolSet, Shares, Modes
        <5>2. UsedOf(p, "confirmed", i)[l] = 0
          BY <2>0, <2>1, <3>8 DEF UsedOf
        <5>3. a = UsedOf(p, "confirmed", i)[l] + b
          BY <3>1, <3>3, <3>8, <4>1, <4>2, <5>1, SumRemove
        <5> QED BY <4>5, <5>2, <5>3
      <4>9. o = own[l][i] + c
        <5>1. \A k \in L : OwnOf(own, i)[k] \in Int
          BY <3>3, <3>8
        <5>2. OwnOf(own, i)[l] = own[l][i]
          BY <2>1 DEF OwnOf
        <5> QED BY <3>2, <3>3, <3>8, <4>1, <4>3, <5>1, <5>2, SumRemove
      <4>10. own[l][i] \in Nat
        BY <2>1 DEF Shares
      <4>11. a + taken + (p.free[i] - fromFree) <= view[i].available + o
        BY <2>2, <3>4, <3>8, <4>5, <4>6, <4>7, <4>8, <4>9, <4>10
      <4> QED BY <3>2, <3>5, <3>6, <3>8, <4>11
    <3> QED BY <3>7, <3>8
  <2>8. ASSUME NEW k \in Lines
        PROVE  SumFunctionOnSet(q.covered["confirmed"][k], Items)
                 + SumFunctionOnSet(q.covered["inspect"][k], Items) <= Required[k]
    <3>1. ASSUME NEW mode \in Modes
          PROVE  /\ SumFunctionOnSet(p.covered[mode][k], Items) \in Nat
                 /\ SumFunctionOnSet(q.covered[mode][k], Items)
                      = IF mode = v.mode /\ k = l
                        THEN SumFunctionOnSet(p.covered[mode][k], Items) + covered
                        ELSE SumFunctionOnSet(p.covered[mode][k], Items)
      <4>1. PICK f : f = p.covered[mode][k]
        OBVIOUS
      <4>2. PICK g : g = q.covered[mode][k]
        OBVIOUS
      <4>3. f \in [Items -> Nat]
        BY <2>1, <4>1 DEF PoolSet, Shares
      <4>4. \A j \in Items : g[j] = IF mode = v.mode /\ k = l /\ j = i THEN f[j] + covered ELSE f[j]
        BY <2>3, <4>1, <4>2
      <4>5. SumFunctionOnSet(f, Items) \in Nat
        BY <4>3, BomFinite, SumNat
      <4>6. CASE mode = v.mode /\ k = l
        <5>1. g[i] = f[i] + covered /\ \A j \in Items : j # i => g[j] = f[j]
          BY <2>1, <4>4, <4>6
        <5>2. \A j \in Items : f[j] \in Int
          BY <4>3
        <5>3. SumFunctionOnSet(g, Items) = SumFunctionOnSet(f, Items) + covered
          BY <2>1, <5>1, <5>2, BomFinite, SumBump
        <5> QED BY <4>1, <4>2, <4>5, <4>6, <5>3
      <4>7. CASE ~(mode = v.mode /\ k = l)
        <5>1. \A j \in Items : g[j] = f[j]
          BY <4>4, <4>7
        <5>2. SumFunctionOnSet(g, Items) = SumFunctionOnSet(f, Items)
          BY <5>1, BomFinite, SumAgree
        <5> QED BY <4>1, <4>2, <4>5, <4>7, <5>2
      <4> QED BY <4>6, <4>7
    <3>2. PICK a : a = SumFunctionOnSet(p.covered["confirmed"][k], Items)
      OBVIOUS
    <3>3. PICK b : b = SumFunctionOnSet(p.covered["inspect"][k], Items)
      OBVIOUS
    <3>4. a \in Nat /\ b \in Nat /\ Required[k] \in Nat
      BY <3>1, <3>2, <3>3, BomAssumption DEF Modes
    <3>5. a + b <= Required[k]
      BY <3>2, <3>3 DEF PoolsOK
    <3>6. SumFunctionOnSet(q.covered["confirmed"][k], Items)
            = IF v.mode = "confirmed" /\ k = l THEN a + covered ELSE a
      BY <3>1, <3>2 DEF Modes
    <3>7. SumFunctionOnSet(q.covered["inspect"][k], Items)
            = IF v.mode = "inspect" /\ k = l THEN b + covered ELSE b
      BY <3>1, <3>3 DEF Modes
    <3>8. k = l => a + b + covered <= Required[k]
      <4> SUFFICES ASSUME k = l PROVE a + b + covered <= Required[k]
        OBVIOUS
      <4>1. CoveredBy(p, "confirmed", k) = a /\ CoveredBy(p, "inspect", k) = b
        BY <2>1, <3>2, <3>3, CoveredNat DEF Modes
      <4>2. Remaining(p, k) \in Nat /\ (a + b <= Required[k] => a + b + Remaining(p, k) = Required[k])
        BY <2>1, <4>1, RemainingNat
      <4>3. covered <= Remaining(p, k)
        BY <2>2
      <4> QED BY <3>4, <3>5, <4>2, <4>3
    <3> QED BY <2>1, <3>4, <3>5, <3>6, <3>7, <3>8
  <2>9. PoolsOK(q, view, own)
    BY <2>3, <2>6, <2>7, <2>8 DEF PoolsOK
  <2> QED BY <2>0, <2>4, <2>9
<1> QED BY <1>1, <1>2

-----------------------------------------------------------------------------
(* A whole allocation *)

\* Nothing is handed out yet.
LEMMA PoolsInit ==
  ASSUME NEW view, ViewOK(view), NEW own \in Shares, NEW p, p = Pools(view, own)
  PROVE  /\ PoolsOK(p, view, own)
         /\ \A l \in Lines, i \in Items : p.used["confirmed"][l][i] = 0
<1>1. Nothing \in Shares /\ \A l \in Lines, i \in Items : Nothing[l][i] = 0
  BY DEF Nothing, Shares
<1>2. PICK u : u = [confirmed |-> Nothing, inspect |-> Nothing]
  OBVIOUS
<1>3. u \in [Modes -> Shares] /\ u["confirmed"] = Nothing /\ u["inspect"] = Nothing
  BY <1>1, <1>2 DEF Modes
<1>4. PICK physical : physical = [i \in Items |-> view[i].quantity]
  OBVIOUS
<1>5. PICK free : free = [i \in Items |-> Least(view[i].quantity, view[i].available)]
  OBVIOUS
<1>6. PICK reserved : reserved = [i \in Items |-> Least(view[i].quantity, OwnTotal(own, i))]
  OBVIOUS
<1>7. p = [physical |-> physical, free |-> free, reserved |-> reserved, used |-> u, covered |-> u]
  BY <1>2, <1>4, <1>5, <1>6 DEF Pools
<1>8. \A i \in Items : view[i].quantity \in Nat /\ view[i].available \in Nat
  BY DEF ViewOK
<1>9. physical \in [Items -> Nat] /\ \A i \in Items : physical[i] = view[i].quantity
  BY <1>4, <1>8
<1>10. free \in [Items -> Nat] /\ \A i \in Items : free[i] <= view[i].available
  BY <1>5, <1>8, LeastNat
<1>11. reserved \in [Items -> Nat]
  <2>1. ASSUME NEW i \in Items PROVE OwnTotal(own, i) \in Nat
    <3>1. PICK f : f = [l \in Lines |-> own[l][i]]
      OBVIOUS
    <3>2. DOMAIN f = Lines /\ \A l \in Lines : f[l] \in Nat
      BY <3>1 DEF Shares
    <3>3. SumFunctionOnSet(f, Lines) \in Nat
      BY <3>2, BomFinite, SumNat
    <3> QED BY <3>1, <3>2, <3>3 DEF OwnTotal, SumFunction
  <2> QED BY <1>6, <1>8, <2>1, LeastNat
<1>12. p.physical = physical /\ p.free = free /\ p.used = u /\ p.covered = u /\ p \in PoolSet
  BY <1>3, <1>7, <1>9, <1>10, <1>11 DEF PoolSet
<1>13. ASSUME NEW f, NEW S, IsFiniteSet(S), \A x \in S : f[x] = 0 PROVE SumFunctionOnSet(f, S) = 0
  <2>1. {0} = {0} /\ 0 \in {0} /\ \A a, b \in {0} : a + b \in {0}
    OBVIOUS
  <2>2. SumFunctionOnSet(f, S) \in {0}
    BY <1>13, <2>1, SumType
  <2> QED BY <2>2
<1>14. \A mode \in Modes, l \in Lines, i \in Items :
         p.used[mode][l][i] = 0 /\ p.covered[mode][l][i] = 0
  BY <1>1, <1>3, <1>12 DEF Modes
<1>15. ASSUME NEW mode \in Modes, NEW i \in Items, NEW L \in SUBSET Lines
       PROVE  SumFunctionOnSet(UsedOf(p, mode, i), L) = 0
  <2>1. IsFiniteSet(L) /\ \A l \in L : UsedOf(p, mode, i)[l] = 0
    BY <1>14, BomFinite, FS_Subset DEF UsedOf
  <2> QED BY <1>13, <2>1
<1>16. ASSUME NEW mode \in Modes, NEW l \in Lines
       PROVE  SumFunctionOnSet(p.covered[mode][l], Items) = 0
  BY <1>13, <1>14, BomFinite
<1>17. ASSUME NEW i \in Items, NEW L \in SUBSET Lines
       PROVE  SumFunctionOnSet(OwnOf(own, i), L) \in Nat
  <2>1. IsFiniteSet(L) /\ \A l \in L : OwnOf(own, i)[l] \in Nat
    BY BomFinite, FS_Subset DEF OwnOf, Shares
  <2> QED BY <2>1, SumNat
<1>18. "confirmed" \in Modes /\ "inspect" \in Modes
  BY DEF Modes
<1>19. \A i \in Items :
         p.physical[i] + SumFunctionOnSet(UsedOf(p, "confirmed", i), Lines)
                       + SumFunctionOnSet(UsedOf(p, "inspect", i), Lines) = view[i].quantity
  BY <1>8, <1>9, <1>12, <1>15, <1>18
<1>20. ASSUME NEW i \in Items, NEW L \in SUBSET Lines
       PROVE  SumFunctionOnSet(UsedOf(p, "confirmed", i), L) + p.free[i]
                <= view[i].available + SumFunctionOnSet(OwnOf(own, i), L)
  <2>1. PICK o : o = SumFunctionOnSet(OwnOf(own, i), L)
    OBVIOUS
  <2>2. o \in Nat
    BY <1>17, <2>1
  <2>3. SumFunctionOnSet(UsedOf(p, "confirmed", i), L) = 0
    BY <1>15, <1>18
  <2>4. p.free[i] \in Nat /\ p.free[i] <= view[i].available /\ view[i].available \in Nat
    BY <1>8, <1>10, <1>12
  <2> QED BY <2>1, <2>2, <2>3, <2>4
<1>21. \A l \in Lines :
         SumFunctionOnSet(p.covered["confirmed"][l], Items)
           + SumFunctionOnSet(p.covered["inspect"][l], Items) <= Required[l]
  BY <1>16, <1>18, BomAssumption
<1> QED BY <1>12, <1>14, <1>18, <1>19, <1>20, <1>21 DEF PoolsOK

\* The pools that the visits pass: g[n] after n visits.
After(view, own, visits, g) ==
  [n \in 0..Len(visits) |-> IF n = 0 THEN Pools(view, own) ELSE Take(g[n - 1], own, visits[n])]

\* The visits of both passes, in their order.
AllVisits(view, says) == Visits(view, says, "confirmed") \o Visits(view, says, "inspect")

\* An evaluation is where the visits end.
LEMMA EvaluateIsAfter ==
  ASSUME NEW view, NEW says, NEW own
  PROVE  Evaluate(view, says, own) =
           (CHOOSE g : g = After(view, own, AllVisits(view, says), g))[Len(AllVisits(view, says))]
BY DEF Evaluate, After, AllVisits

\* The recursion over the visits has a solution.
LEMMA AfterExists ==
  ASSUME NEW view, NEW own, NEW visits, Len(visits) \in Nat
  PROVE  \E g : g = After(view, own, visits, g)
<1> DEFINE Val(g, n) == IF n = 0 THEN Pools(view, own) ELSE Take(g[n - 1], own, visits[n])
           T == {m \in Nat : \E g : g = [n \in 0..m |-> Val(g, n)]}
<1>1. 0 \in T
  <2> DEFINE g == [n \in 0..0 |-> Pools(view, own)]
  <2>1. g = [n \in 0..0 |-> Val(g, n)]
    OBVIOUS
  <2> QED BY <2>1
<1>2. ASSUME NEW m \in Nat, m \in T PROVE m + 1 \in T
  <2>1. PICK g : g = [n \in 0..m |-> Val(g, n)]
    BY <1>2
  <2> DEFINE h == [n \in 0..(m + 1) |-> Val(g, n)]
  <2>2. \A n \in 0..m : h[n] = g[n]
    <3> SUFFICES ASSUME NEW n \in 0..m PROVE h[n] = g[n]
      OBVIOUS
    <3>1. n \in 0..(m + 1)
      OBVIOUS
    <3>2. g[n] = Val(g, n)
      BY <2>1
    <3> QED BY <3>1, <3>2
  <2>3. \A n \in 0..(m + 1) : Val(g, n) = Val(h, n)
    <3> SUFFICES ASSUME NEW n \in 0..(m + 1), n # 0 PROVE g[n - 1] = h[n - 1]
      <4> HIDE DEF h
      <4> QED OBVIOUS
    <3>1. n - 1 \in 0..m
      OBVIOUS
    <3> HIDE DEF h
    <3> QED BY <3>1, <2>2
  <2>4. h = [n \in 0..(m + 1) |-> Val(h, n)]
    <3> HIDE DEF Val
    <3> QED BY <2>3
  <2>5. \E k : k = [n \in 0..(m + 1) |-> Val(k, n)]
    <3> HIDE DEF h, Val
    <3> QED BY <2>4
  <2>6. m + 1 \in Nat
    OBVIOUS
  <2> HIDE DEF Val
  <2> QED BY <2>5, <2>6
<1>3. Len(visits) \in T
  <2> HIDE DEF T
  <2> QED BY <1>1, <1>2, NatSetInduction
<1>4. PICK g : g = [n \in 0..Len(visits) |-> Val(g, n)]
  BY <1>3
<1>5. g = After(view, own, visits, g)
  BY <1>4 DEF After
<1> QED BY <1>5

\* What the visits after the nth take as confirmed has not been visited yet.
Unvisited(p, visits, n) ==
  \A k \in 1..Len(visits) :
    k > n /\ visits[k].mode = "confirmed" => p.used["confirmed"][visits[k].line][visits[k].item] = 0

\* The pools are in order at the end of an evaluation.
LEMMA EvaluateKeeps ==
  ASSUME NEW view, ViewOK(view), NEW says, NEW own \in Shares
  PROVE  PoolsOK(Evaluate(view, says, own), view, own)
<1>1. PICK visits : visits = AllVisits(view, says)
  OBVIOUS
<1>2. visits \in Seq(VisitSet) /\ IsInjective(visits)
  BY <1>1, AllVisitsOnce, Zenon DEF AllVisits
<1>3. PICK N : N = Len(visits)
  OBVIOUS
<1>4. N \in Nat /\ DOMAIN visits = 1..N /\ \A n \in 1..N : visits[n] \in VisitSet
  BY <1>2, <1>3
<1> DEFINE g == CHOOSE h : h = After(view, own, visits, h)
<1>5. g = After(view, own, visits, g)
  BY <1>3, <1>4, AfterExists
<1>6. Evaluate(view, says, own) = g[N]
  BY <1>1, <1>3, EvaluateIsAfter
<1> HIDE DEF g
<1>7. g[0] = Pools(view, own) /\ \A n \in 1..N : g[n] = Take(g[n - 1], own, visits[n])
  BY <1>3, <1>4, <1>5 DEF After
<1> DEFINE Good(n) == PoolsOK(g[n], view, own) /\ Unvisited(g[n], visits, n)
           T == {n \in Nat : n \in 0..N => Good(n)}
<1>8. 0 \in T
  <2>1. PICK p : p = g[0]
    OBVIOUS
  <2>2. PoolsOK(p, view, own) /\ \A l \in Lines, i \in Items : p.used["confirmed"][l][i] = 0
    BY <1>7, <2>1, PoolsInit
  <2>3. Unvisited(p, visits, 0)
    BY <1>3, <1>4, <2>2 DEF Unvisited, VisitSet
  <2> QED BY <2>1, <2>2, <2>3
<1>9. ASSUME NEW m \in 0..N, NEW n \in 1..N, n = m + 1, Good(m) PROVE Good(n)
  <2>1. PICK p : p = g[m]
    OBVIOUS
  <2>2. PICK q : q = g[n]
    OBVIOUS
  <2>3. PICK v : v = visits[n]
    OBVIOUS
  <2>4. q = Take(p, own, v) /\ v \in VisitSet /\ PoolsOK(p, view, own) /\ Unvisited(p, visits, m)
    BY <1>4, <1>7, <1>9, <2>1, <2>2, <2>3
  <2>5. v.mode = "confirmed" => p.used["confirmed"][v.line][v.item] = 0
    BY <1>3, <1>4, <1>9, <2>3, <2>4 DEF Unvisited
  <2>6. /\ PoolsOK(q, view, own)
        /\ \A k \in Lines, j \in Items :
             v.mode = "inspect" \/ k # v.line \/ j # v.item
               => q.used["confirmed"][k][j] = p.used["confirmed"][k][j]
    BY <2>4, <2>5, TakeKeeps
  <2>7. Unvisited(q, visits, n)
    <3> SUFFICES ASSUME NEW k \in 1..N, k > n, visits[k].mode = "confirmed"
                 PROVE  q.used["confirmed"][visits[k].line][visits[k].item] = 0
      BY <1>3 DEF Unvisited
    <3>1. PICK w : w = visits[k]
      OBVIOUS
    <3>2. w \in VisitSet /\ w # v
      BY <1>2, <1>4, <2>3, <3>1 DEF IsInjective
    <3>3. p.used["confirmed"][w.line][w.item] = 0
      BY <1>3, <1>4, <1>9, <2>4, <3>1 DEF Unvisited
    <3>4. v.mode = "inspect" \/ w.line # v.line \/ w.item # v.item
      BY <2>4, <3>1, <3>2 DEF VisitSet
    <3> QED BY <2>6, <3>1, <3>2, <3>3, <3>4 DEF VisitSet
  <2> QED BY <2>2, <2>6, <2>7
<1>10. ASSUME NEW m \in Nat, m \in T PROVE m + 1 \in T
  <2> HIDE DEF Good
  <2> SUFFICES ASSUME m + 1 \in 0..N PROVE Good(m + 1)
    OBVIOUS
  <2>1. PICK n : n = m + 1
    OBVIOUS
  <2>2. m \in 0..N /\ n \in 1..N
    BY <1>4, <2>1
  <2>3. Good(m)
    BY <1>10, <2>2
  <2>4. Good(n)
    BY <1>9, <2>1, <2>2, <2>3
  <2> QED BY <2>1, <2>4
<1>11. N \in T
  <2> HIDE DEF T
  <2> QED BY <1>4, <1>8, <1>10, NatSetInduction
<1>12. Good(N)
  BY <1>4, <1>11
<1> QED BY <1>6, <1>12

-----------------------------------------------------------------------------
(* The invariant *)

\* A ledger the commands can have written.
LedgerOK(s) ==
  /\ s \in Seq(Events)
  /\ Len(s) <= MaxEvents
  /\ OneReceipt(s)
  /\ InOrder(s)
  /\ Derive(s) # Refused

\* What one command may do to a ledger: nothing, one event, or two.
Grown(s, t) ==
  \/ t = s
  \/ \E e \in Events : t = Insert(s, e)
  \/ Len(t) = Len(s) + 2

LedgerInv ==
  /\ ledger \in [Items -> Seq(Events)]
  /\ \A i \in Items : LedgerOK(ledger[i])

\* What rows, alternatives, reservations and previews may hold.
RecordInv ==
  /\ row \in [Items -> Rows]
  /\ compat \in [Lines -> [Items -> Compatibilities]]
  /\ claim \in [Res -> Claims \cup {NoClaim}]
  /\ preview = NoPreview \/ preview.action \in Actions
  /\ preview.qty \in Nat

\* Whatever a command has changed since the preview was saved has a new version.
TrackInv ==
  /\ touched \subseteq moved
  /\ moved \subseteq Items \cup Lines

InventoryInv == LedgerInv /\ RecordInv /\ TrackInv

\* A command that leaves the ledgers acceptable, changes each by one command's
\* events, and bumps the versions of all it touches.
LedgerStep(changed) ==
  /\ ledger' \in [Items -> Seq(Events)]
  /\ \A j \in Items : LedgerOK(ledger'[j]) /\ Grown(ledger[j], ledger'[j])
  /\ \A j \in Items : ledger'[j] # ledger[j] => j \in changed

\* What every step does.
StepOK == InventoryInv' /\ \A j \in Items : Grown(ledger[j], ledger'[j])

\* Nothing is in the ledgers yet.
LEMMA InventoryInit == Init => InventoryInv
<1> SUFFICES ASSUME Init PROVE InventoryInv OBVIOUS
<1>1. LedgerOK(<<>>)
  <2>1. Len(<<>>) = 0 /\ DOMAIN <<>> = {} /\ <<>> \in Seq(Events)
    OBVIOUS
  <2>2. OneReceipt(<<>>) /\ InOrder(<<>>)
    BY <2>1 DEF OneReceipt, InOrder
  <2> QED BY <2>1, <2>2, DeriveEmpty, InventoryAssumption DEF LedgerOK
<1>2. LedgerInv
  <2>1. ledger = [i \in Items |-> <<>>] /\ <<>> \in Seq(Events)
    BY DEF Init
  <2> QED BY <1>1, <2>1 DEF LedgerInv
<1>3. RecordInv
  <2>1. NoRow \in Rows
    BY DEF NoRow, Rows
  <2> QED BY <2>1, InventoryAssumption DEF Init, RecordInv, NoPreview
<1> QED BY <1>2, <1>3 DEF Init, InventoryInv, TrackInv

-----------------------------------------------------------------------------
(* Pieces of the commands *)

\* The event of a command is an event, of no snapshot.
LEMMA EventType ==
  ASSUME NEW kind \in Kinds, NEW q \in Nat, NEW now \in Times
  PROVE  Event(kind, q, now) \in Events /\ Event(kind, q, now).from = NoDoc
BY DEF Event, Events

\* An event joins a ledger that accepts it.
LEMMA InsertKeeps ==
  ASSUME NEW s, LedgerOK(s), NEW e \in Events, Len(s) < MaxEvents, Accepts(s, e),
         e.from = NoDoc \/ \A k \in DOMAIN s : s[k].from # e.from
  PROVE  LedgerOK(Insert(s, e)) /\ Len(Insert(s, e)) = Len(s) + 1
<1>1. s \in Seq(Events) /\ OneReceipt(s) /\ InOrder(s)
  BY DEF LedgerOK
<1>2. Insert(s, e) \in Seq(Events) /\ Len(Insert(s, e)) = Len(s) + 1
  BY <1>1, InsertPlaces
<1>3. Len(Insert(s, e)) <= MaxEvents
  BY <1>1, <1>2, InventoryAssumption
<1>4. OneReceipt(Insert(s, e))
  BY <1>1, InsertKeepsReceipts
<1>5. InOrder(Insert(s, e))
  BY <1>1, InsertKeepsOrder
<1>6. Derive(Insert(s, e)) # Refused
  BY DEF Accepts
<1> QED BY <1>2, <1>3, <1>4, <1>5, <1>6 DEF LedgerOK

\* One event of a command.
LEMMA AppendOneKeeps ==
  ASSUME LedgerInv, NEW i \in Items, NEW e \in Events, e.from = NoDoc, AppendOne(i, e)
  PROVE  LedgerStep({i})
<1>1. /\ ledger' = [ledger EXCEPT ![i] = Insert(ledger[i], e)]
      /\ Len(ledger[i]) < MaxEvents /\ Accepts(ledger[i], e)
  BY DEF AppendOne
<1>2. LedgerOK(Insert(ledger[i], e))
  BY <1>1, InsertKeeps DEF LedgerInv
<1>3. Insert(ledger[i], e) \in Seq(Events)
  BY <1>2 DEF LedgerOK
<1>4. ledger' \in [Items -> Seq(Events)] /\ ledger'[i] = Insert(ledger[i], e)
      /\ \A j \in Items : j # i => ledger'[j] = ledger[j]
  BY <1>1, <1>3 DEF LedgerInv
<1>5. \A j \in Items : LedgerOK(ledger'[j]) /\ Grown(ledger[j], ledger'[j])
  BY <1>2, <1>4 DEF LedgerInv, Grown
<1> QED BY <1>4, <1>5 DEF LedgerStep

\* Two events of a command.
LEMMA AppendTwoKeeps ==
  ASSUME LedgerInv, NEW i \in Items, NEW e \in Events, e.from = NoDoc,
         NEW f \in Events, f.from = NoDoc, AppendTwo(i, e, f)
  PROVE  LedgerStep({i})
<1>1. PICK s : s = ledger[i]
  OBVIOUS
<1>2. /\ LedgerOK(s) /\ Len(s) \in Nat
      /\ Len(s) + 1 < MaxEvents /\ Accepts(s, e) /\ Accepts(Insert(s, e), f)
      /\ ledger' = [ledger EXCEPT ![i] = Insert(Insert(s, e), f)]
  BY <1>1 DEF AppendTwo, LedgerInv, LedgerOK
<1>3. LedgerOK(Insert(s, e)) /\ Len(Insert(s, e)) = Len(s) + 1
  <2>1. Len(s) < MaxEvents
    BY <1>2, InventoryAssumption
  <2> QED BY <1>2, <2>1, InsertKeeps
<1>4. LedgerOK(Insert(Insert(s, e), f)) /\ Len(Insert(Insert(s, e), f)) = Len(s) + 2
  <2>1. /\ LedgerOK(Insert(Insert(s, e), f))
        /\ Len(Insert(Insert(s, e), f)) = Len(Insert(s, e)) + 1
    BY <1>2, <1>3, InsertKeeps
  <2> QED BY <1>2, <1>3, <2>1
<1>5. Insert(Insert(s, e), f) \in Seq(Events)
  BY <1>4 DEF LedgerOK
<1>6. ledger' \in [Items -> Seq(Events)] /\ ledger'[i] = Insert(Insert(s, e), f)
      /\ \A j \in Items : j # i => ledger'[j] = ledger[j]
  BY <1>2, <1>5 DEF LedgerInv
<1>7. \A j \in Items : LedgerOK(ledger'[j]) /\ Grown(ledger[j], ledger'[j])
  BY <1>1, <1>4, <1>6 DEF LedgerInv, Grown
<1> QED BY <1>6, <1>7 DEF LedgerStep

\* A command that leaves the ledgers alone.
LEMMA SameLedgers ==
  ASSUME LedgerInv, ledger' = ledger, NEW changed
  PROVE  LedgerStep(changed)
BY DEF LedgerStep, LedgerInv, Grown

\* A command that changes one ledger, bumps its item and writes what it changed
\* into the history keeps the invariant.
LEMMA OneItem ==
  ASSUME InventoryInv, NEW i \in Items, LedgerStep({i}), RecordInv',
         compat' = compat, Bump({i}), Track
  PROVE  StepOK
<1>1. touched' \subseteq touched \cup {i}
  BY DEF Track, LedgerStep
<1>2. LedgerInv'
  BY DEF LedgerStep, LedgerInv
<1>3. TrackInv'
  BY <1>1 DEF InventoryInv, TrackInv, Bump
<1> QED BY <1>2, <1>3 DEF StepOK, InventoryInv, LedgerStep

\* The balance of an item is one.
LEMMA BalanceType ==
  ASSUME LedgerInv, NEW i \in Items
  PROVE  Balance(i) \in Balances /\ Balance(i).onHand \in Nat
<1>1. Derive(ledger[i]) \in Balances
  BY DeriveType DEF LedgerInv, LedgerOK
<1> QED BY <1>1 DEF Balance, Balances

\* The row and the event of a count.
LEMMA CountKeeps ==
  ASSUME InventoryInv, NEW i \in Items, NEW q \in Nat, NEW now \in Times,
         WriteCount(i, q, now)
  PROVE  LedgerStep({i}) /\ row' \in [Items -> Rows]
<1>1. Event("count", q, now) \in Events /\ Event("count", q, now).from = NoDoc
  BY EventType DEF Kinds
<1>2. AppendOne(i, Event("count", q, now))
  BY DEF WriteCount
<1>3. row' \in [Items -> Rows]
  <2>1. row' = [row EXCEPT ![i] = [row[i] EXCEPT !.confirmed = TRUE, !.reported = q]]
    BY DEF WriteCount, InventoryInv, RecordInv, Rows
  <2>2. [row[i] EXCEPT !.confirmed = TRUE, !.reported = q] \in Rows
    BY DEF InventoryInv, RecordInv, Rows
  <2> QED BY <2>1, <2>2 DEF InventoryInv, RecordInv
<1> QED BY <1>1, <1>2, <1>3, AppendOneKeeps DEF InventoryInv

-----------------------------------------------------------------------------
(* The commands *)

\* A new item starts its ledger, or has none yet.
LEMMA CreateKeeps ==
  ASSUME InventoryInv, NEW i \in Items, NEW c \in BOOLEAN, NEW q \in Nat,
         NEW available \in Nat, NEW now \in Times, CreateItem(i, c, q, available, now)
  PROVE  StepOK
<1> DEFINE e == Event("count", q, now)
           f == Event("allocate", q - available, now)
<1>1. e \in Events /\ e.from = NoDoc
  BY EventType DEF Kinds
<1>2. f \in Events /\ f.from = NoDoc
  <2>1. q - available \in Nat /\ "allocate" \in Kinds
    BY DEF CreateItem, Kinds
  <2> QED BY <2>1, EventType
<1>3. ledger' = ledger \/ AppendOne(i, e) \/ AppendTwo(i, e, f)
  <2>1. CASE ~c
    BY <2>1 DEF CreateItem
  <2>2. CASE c /\ available = q
    BY <2>2 DEF CreateItem
  <2>3. CASE c /\ available < q
    BY <2>3 DEF CreateItem
  <2>4. available <= q
    BY DEF CreateItem
  <2> QED BY <2>1, <2>2, <2>3, <2>4
<1> HIDE DEF e, f
<1>4. RecordInv' /\ compat' = compat /\ Bump({i}) /\ Track
  <2>1. [there |-> TRUE, retired |-> FALSE, confirmed |-> c, reported |-> q] \in Rows
    BY DEF Rows
  <2>2. row' \in [Items -> Rows]
    BY <2>1 DEF CreateItem, InventoryInv, RecordInv
  <2> QED BY <2>2 DEF CreateItem, RecordInv, InventoryInv
<1>5. LedgerStep({i})
  BY <1>1, <1>2, <1>3, AppendOneKeeps, AppendTwoKeeps, SameLedgers DEF InventoryInv
<1> QED BY <1>4, <1>5, OneItem

\* A posted stock event.
LEMMA StockEventKeeps ==
  ASSUME InventoryInv, NEW i \in Items, NEW t \in EventTypes, NEW q \in Nat,
         NEW now \in Times, RecordStockEvent(i, t, q, now)
  PROVE  StepOK
<1> DEFINE e == Event(StockKind(t), q, now)
<1>1. e \in Events /\ e.from = NoDoc
  BY EventType, InventoryAssumption
<1>2. AppendOne(i, e)
  BY DEF RecordStockEvent
<1> HIDE DEF e
<1>3. RecordInv'
  BY DEF RecordStockEvent, RecordInv, InventoryInv
<1> QED BY <1>1, <1>2, <1>3, AppendOneKeeps, OneItem DEF RecordStockEvent, InventoryInv

\* A count.
LEMMA RecordCountKeeps ==
  ASSUME InventoryInv, NEW i \in Items, NEW q \in Nat, NEW now \in Times,
         RecordCount(i, q, now)
  PROVE  StepOK
<1>1. LedgerStep({i}) /\ row' \in [Items -> Rows]
  BY CountKeeps DEF RecordCount
<1>2. RecordInv'
  BY <1>1 DEF RecordCount, RecordInv, InventoryInv
<1> QED BY <1>1, <1>2, OneItem DEF RecordCount

\* A reservation allocates.
LEMMA ReserveKeeps ==
  ASSUME InventoryInv, NEW r \in Res, NEW l \in Lines, NEW i \in Items, NEW q \in 1..MaxQty,
         NEW now \in Times, Reserve(r, l, i, q, now)
  PROVE  StepOK
<1> DEFINE e == Event("allocate", q, now)
<1>0. q \in Nat
  BY InventoryAssumption
<1>1. e \in Events /\ e.from = NoDoc
  BY <1>0, EventType DEF Kinds
<1>2. AppendOne(i, e)
  BY DEF Reserve
<1> HIDE DEF e
<1>3. RecordInv'
  <2>1. [line |-> l, item |-> i, qty |-> q] \in Claims
    BY DEF Claims
  <2> QED BY <2>1 DEF Reserve, RecordInv, InventoryInv
<1> QED BY <1>1, <1>2, <1>3, AppendOneKeeps, OneItem DEF Reserve, InventoryInv

\* A release or a use gives back or takes what was reserved.
LEMMA EndKeeps ==
  ASSUME InventoryInv, NEW r \in Res, NEW used \in BOOLEAN, NEW now \in Times,
         EndReservation(r, used, now)
  PROVE  StepOK
<1> DEFINE i == claim[r].item
           q == claim[r].qty
           e == Event("release", q, now)
           f == Event("consume", q, now)
<1>1. i \in Items /\ q \in Nat
  <2>1. claim[r] \in Claims
    BY DEF EndReservation, Active, InventoryInv, RecordInv
  <2> QED BY <2>1, InventoryAssumption DEF Claims
<1>2. e \in Events /\ e.from = NoDoc /\ f \in Events /\ f.from = NoDoc
  <2> HIDE DEF i, q
  <2>1. "release" \in Kinds /\ "consume" \in Kinds
    BY DEF Kinds, Takes
  <2>2. e \in Events /\ e.from = NoDoc
    BY <1>1, <2>1, EventType
  <2>3. f \in Events /\ f.from = NoDoc
    BY <1>1, <2>1, EventType
  <2> QED BY <2>2, <2>3
<1>3. AppendOne(i, e) \/ AppendTwo(i, e, f)
  BY DEF EndReservation
<1>4. RecordInv'
  BY DEF EndReservation, RecordInv, InventoryInv
<1>5. Bump({i}) /\ Track /\ compat' = compat
  BY DEF EndReservation
<1> HIDE DEF i, q, e, f
<1>6. LedgerStep({i})
  BY <1>1, <1>2, <1>3, AppendOneKeeps, AppendTwoKeeps DEF InventoryInv
<1> QED BY <1>1, <1>4, <1>5, <1>6, OneItem

\* Rows are written back as they were read.
LEMMA UpdateKeeps ==
  ASSUME InventoryInv, NEW S \in SUBSET Items, UpdateItems(S)
  PROVE  StepOK
<1>1. \A i \in Items : View(i).quantity \in Nat
  <2> SUFFICES ASSUME NEW i \in Items PROVE View(i).quantity \in Nat
    OBVIOUS
  <2>1. View(i).quantity = IF row[i].confirmed THEN Balance(i).onHand ELSE row[i].reported
    BY DEF View
  <2>2. row[i].reported \in Nat
    BY DEF InventoryInv, RecordInv, Rows
  <2>3. Balance(i).onHand \in Nat
    BY BalanceType DEF InventoryInv
  <2> QED BY <2>1, <2>2, <2>3
<1>2. row' \in [Items -> Rows]
  <2>1. \A i \in Items : [row[i] EXCEPT !.reported = View(i).quantity] \in Rows
    BY <1>1 DEF InventoryInv, RecordInv, Rows
  <2> QED BY <2>1 DEF UpdateItems, InventoryInv, RecordInv
<1>3. UNCHANGED <<ledger, compat, claim, preview, touched>> /\ moved' = moved \cup S
  BY DEF UpdateItems, Bump
<1> QED BY <1>2, <1>3 DEF StepOK, InventoryInv, LedgerInv, RecordInv, TrackInv, Grown

\* A row is marked as retired.
LEMMA RetireKeeps ==
  ASSUME InventoryInv, NEW i \in Items, RetireItem(i)
  PROVE  StepOK
<1>1. row' \in [Items -> Rows]
  BY DEF RetireItem, InventoryInv, RecordInv, Rows
<1>2. UNCHANGED <<ledger, compat, claim, preview, touched>> /\ moved' = moved \cup {i}
  BY DEF RetireItem, Bump
<1> QED BY <1>1, <1>2 DEF StepOK, InventoryInv, LedgerInv, RecordInv, TrackInv, Grown

\* A line says something else of an item.
LEMMA EditKeeps ==
  ASSUME InventoryInv, NEW l \in Lines, NEW i \in Items, NEW c \in Compatibilities,
         EditLine(l, i, c)
  PROVE  StepOK
<1>1. /\ compat' \in [Lines -> [Items -> Compatibilities]]
      /\ \A k \in Lines : compat'[k] # compat[k] => k = l
  BY DEF EditLine, InventoryInv, RecordInv
<1>2. touched' \subseteq touched \cup {l}
  BY <1>1 DEF EditLine, Track
<1>3. UNCHANGED <<row, ledger, claim, preview>> /\ moved' = moved \cup {l}
  BY DEF EditLine, Bump
<1> QED BY <1>1, <1>2, <1>3
     DEF StepOK, InventoryInv, LedgerInv, RecordInv, TrackInv, Grown

\* An import adds a receipt only to ledgers that have none of its snapshot.
LEMMA ImportKeeps ==
  ASSUME InventoryInv, NEW d \in DOMAIN Docs, NEW rows \in Docs[d].contents, Import(d, rows)
  PROVE  StepOK
<1>1. ASSUME NEW i \in Items
      PROVE  LedgerOK(ledger'[i]) /\ Grown(ledger[i], ledger'[i])
  <2>1. CASE i \in DOMAIN rows /\ ~Imported(d, i)
    <3> DEFINE e == ImportEvent(d, rows, i)
    <3>1. rows[i].qty \in Nat /\ Docs[d].at \in Times
      BY <2>1, InventoryAssumption
    <3>2. e \in Events /\ e.from = d
      BY <3>1 DEF ImportEvent, Events, Kinds, Adds
    <3>3. \A k \in DOMAIN ledger[i] : ledger[i][k].from # d
      BY <2>1 DEF Imported
    <3>4. /\ ledger'[i] = Insert(ledger[i], e)
          /\ Len(ledger[i]) < MaxEvents /\ Accepts(ledger[i], e)
      BY <2>1 DEF Import
    <3>5. LedgerOK(ledger[i])
      BY DEF InventoryInv, LedgerInv
    <3> HIDE DEF e
    <3>6. LedgerOK(Insert(ledger[i], e))
      BY <3>2, <3>3, <3>4, <3>5, InsertKeeps
    <3> QED BY <3>2, <3>4, <3>6 DEF Grown
  <2>2. CASE ~(i \in DOMAIN rows /\ ~Imported(d, i))
    BY <2>2 DEF Import, InventoryInv, LedgerInv, Grown
  <2> QED BY <2>1, <2>2
<1>2. ledger' \in [Items -> Seq(Events)]
  <2>1. ledger' = [i \in Items |-> ledger'[i]]
    BY DEF Import
  <2>2. \A i \in Items : ledger'[i] \in Seq(Events)
    BY <1>1 DEF LedgerOK
  <2> QED BY <2>1, <2>2
<1>3. row' \in [Items -> Rows]
  <2>1. \A i \in DOMAIN rows : rows[i].confirmed \in BOOLEAN /\ rows[i].qty \in Nat
    BY InventoryAssumption
  <2>2. \A i \in DOMAIN rows :
          [there |-> TRUE, retired |-> FALSE, confirmed |-> rows[i].confirmed,
           reported |-> rows[i].qty] \in Rows
    BY <2>1 DEF Rows
  <2> QED BY <2>2 DEF Import, InventoryInv, RecordInv
<1>4. UNCHANGED <<compat, claim, preview, moved, touched>>
  BY DEF Import
<1>5. LedgerInv'
  BY <1>1, <1>2 DEF LedgerInv
<1> QED BY <1>1, <1>3, <1>4, <1>5 DEF StepOK, InventoryInv, RecordInv, TrackInv

\* The questions of an inspection.
LEMMA ActionType ==
  ASSUME NEW result, NEW a \in InspectionActions(result)
  PROVE  a \in Actions
<1>1. ASSUME NEW kind \in ActionKinds, NEW i \in Items, NEW c \in BOOLEAN
      PROVE  Question(result, kind, i, c) \in Actions
  <2>1. PICK L \in SUBSET Lines :
          Question(result, kind, i, c) = [kind |-> kind, item |-> i, converted |-> c, lines |-> L]
    BY DEF Question
  <2> QED BY <2>1 DEF Actions
<1>2. PICK i \in Items : a \in Questions(result, i)
  BY Zenon DEF InspectionActions
<1>3. \/ a = Question(result, "physical_quantity", i, FALSE)
      \/ \E c \in BOOLEAN : a = Question(result, "compatibility", i, c)
  BY <1>2, Zenon DEF Questions
<1>4. "physical_quantity" \in ActionKinds /\ "compatibility" \in ActionKinds
  BY DEF ActionKinds
<1>5. FALSE \in BOOLEAN
  OBVIOUS
<1> QED BY <1>1, <1>3, <1>4, <1>5, Zenon

\* An inspection counts its item or confirms its lines.
LEMMA CommitKeeps ==
  ASSUME InventoryInv, NEW now \in Times, CommitInspection(now)
  PROVE  StepOK
<1> DEFINE a == preview.action
<1>1. a \in InspectionActions(Result)
  BY DEF CommitInspection, StillCurrent
<1>2. a.item \in Items /\ a.lines \subseteq Lines
  BY <1>1, ActionType DEF Actions
<1>3. preview' = preview /\ claim' = claim /\ Track
  BY DEF CommitInspection
<1>4. CASE a.kind = "physical_quantity"
  <2>1. WriteCount(a.item, preview.qty, now) /\ Bump({a.item}) /\ compat' = compat
    BY <1>4 DEF CommitInspection
  <2>2. preview.qty \in Nat
    BY DEF InventoryInv, RecordInv
  <2>3. LedgerStep({a.item}) /\ row' \in [Items -> Rows]
    BY <1>2, <2>1, <2>2, CountKeeps
  <2>4. RecordInv'
    BY <1>3, <2>1, <2>3 DEF InventoryInv, RecordInv
  <2> QED BY <1>2, <1>3, <2>1, <2>3, <2>4, OneItem
<1>5. CASE a.kind # "physical_quantity"
  <2>1. /\ compat' = [l \in Lines |-> IF l \in a.lines
                        THEN [compat[l] EXCEPT ![a.item] = "confirmed"] ELSE compat[l]]
        /\ Bump(a.lines) /\ UNCHANGED <<row, ledger>>
    BY <1>5 DEF CommitInspection
  <2> HIDE DEF a
  <2>2. compat' \in [Lines -> [Items -> Compatibilities]]
    BY <2>1 DEF InventoryInv, RecordInv, Compatibilities
  <2>3. \A l \in Lines : compat'[l] # compat[l] => l \in a.lines
    BY <2>1
  <2>4. touched' \subseteq touched \cup a.lines
    BY <1>3, <2>1, <2>3 DEF Track
  <2>5. LedgerInv' /\ \A j \in Items : Grown(ledger[j], ledger'[j])
    BY <2>1 DEF InventoryInv, LedgerInv, Grown
  <2>6. RecordInv'
    BY <1>3, <2>1, <2>2 DEF InventoryInv, RecordInv
  <2>7. TrackInv'
    BY <1>2, <2>1, <2>4 DEF InventoryInv, TrackInv, Bump
  <2> QED BY <2>5, <2>6, <2>7 DEF StepOK, InventoryInv
<1> QED BY <1>4, <1>5

\* A preview starts the history anew.
LEMMA PreviewKeeps ==
  ASSUME InventoryInv, PreviewInspection
  PROVE  StepOK
<1>1. PICK a \in InspectionActions(Result), q \in 0..MaxQty, now \in Times :
        /\ preview' = [action |-> a, qty |-> q, expires |-> now + LifeTime,
                       basis |-> Basis(a, Result)]
        /\ moved' = {} /\ touched' = {} /\ UNCHANGED <<row, ledger, compat, claim>>
  BY DEF PreviewInspection
<1>2. preview'.action \in Actions /\ preview'.qty \in Nat
  <2>1. preview'.action = a /\ preview'.qty = q
    BY <1>1
  <2>2. q \in Nat
    BY InventoryAssumption
  <2> QED BY <2>1, <2>2, ActionType
<1> QED BY <1>1, <1>2 DEF StepOK, InventoryInv, LedgerInv, RecordInv, TrackInv, Grown

\* Every command keeps the invariant.
LEMMA InventoryStep == InventoryInv /\ [Next]_vars => StepOK
<1> SUFFICES ASSUME InventoryInv, [Next]_vars PROVE StepOK OBVIOUS
<1>1. CASE UNCHANGED vars
  BY <1>1 DEF vars, StepOK, InventoryInv, LedgerInv, RecordInv, TrackInv, Grown
<1>2. ASSUME NEW now \in Times, NEW i \in Items, NEW c \in BOOLEAN, NEW q \in Quantities,
             NEW available \in Quantities, CreateItem(i, c, q, available, now)
      PROVE  StepOK
  <2>1. q \in Nat /\ available \in Nat
    BY InventoryAssumption DEF Quantities
  <2> QED BY <1>2, <2>1, CreateKeeps
<1>3. ASSUME NEW now \in Times, NEW i \in Items, NEW q \in Quantities, RecordCount(i, q, now)
      PROVE  StepOK
  <2>1. q \in Nat
    BY InventoryAssumption DEF Quantities
  <2> QED BY <1>3, <2>1, RecordCountKeeps
<1>4. ASSUME NEW now \in Times, NEW i \in Items, NEW t \in EventTypes, NEW q \in Quantities,
             RecordStockEvent(i, t, q, now)
      PROVE  StepOK
  <2>1. q \in Nat
    BY InventoryAssumption DEF Quantities
  <2> QED BY <1>4, <2>1, StockEventKeeps
<1>5. ASSUME NEW now \in Times, NEW i \in Items, NEW r \in Res, NEW l \in Lines,
             NEW q \in 1..MaxQty, Reserve(r, l, i, q, now)
      PROVE  StepOK
  BY <1>5, ReserveKeeps
<1>6. ASSUME NEW now \in Times, NEW r \in Res, NEW used \in BOOLEAN,
             EndReservation(r, used, now)
      PROVE  StepOK
  BY <1>6, EndKeeps
<1>7. ASSUME NEW now \in Times, CommitInspection(now) PROVE StepOK
  BY <1>7, CommitKeeps
<1>8. ASSUME NEW S \in SUBSET Items, UpdateItems(S) PROVE StepOK
  BY <1>8, UpdateKeeps
<1>9. ASSUME NEW i \in Items, RetireItem(i) PROVE StepOK
  BY <1>9, RetireKeeps
<1>10. ASSUME NEW e \in Edits, EditLine(e.line, e.item, e.says) PROVE StepOK
  <2>1. e.line \in Lines /\ e.item \in Items /\ e.says \in Compatibilities
    BY InventoryAssumption
  <2> QED BY <1>10, <2>1, EditKeeps
<1>11. ASSUME NEW d \in DOMAIN Docs, NEW rows \in Docs[d].contents, Import(d, rows)
       PROVE  StepOK
  BY <1>11, ImportKeeps
<1>12. CASE PreviewInspection
  BY <1>12, PreviewKeeps
<1> QED BY <1>1, <1>2, <1>3, <1>4, <1>5, <1>6, <1>7, <1>8, <1>9, <1>10, <1>11, <1>12 DEF Next

\* The same, of the invariant alone.
LEMMA InventoryKeeps == InventoryInv /\ [Next]_vars => InventoryInv'
BY InventoryStep DEF StepOK

-----------------------------------------------------------------------------
(* Theorems *)

\* Rows, ledgers, alternatives, reservations and previews keep their types and
\* their bounds, for any items, lines, clocks, snapshots and clients.
THEOREM TypeCorrect == Spec => []TypeOK
<1>1. InventoryInv => TypeOK
  BY DEF InventoryInv, LedgerInv, LedgerOK, RecordInv, TrackInv, TypeOK
<1> QED BY <1>1, InventoryInit, InventoryKeeps, PTL DEF Spec

\* Every ledger can be replayed to a balance, whatever the clock did between two
\* commands, and the balance is the last count plus and minus what moved after
\* it, and what was set aside minus what was released.
THEOREM BalancesAreExplained == Spec => []BalanceIsCountPlusMoves
<1>1. ASSUME NEW s, LedgerOK(s)
      PROVE  LET all == DOMAIN s
                 counts == {k \in all : s[k].kind = "count"}
                 last == IF counts = {} THEN 0 ELSE Max(counts)
                 since == {k \in all : k > last}
             IN /\ Derive(s) # Refused
                /\ Derive(s).onHand = (IF last = 0 THEN 0 ELSE s[last].qty)
                                      + Qty(s, since, Adds) - Qty(s, since, Takes)
                /\ Derive(s).allocated = Qty(s, all, {"allocate"}) - Qty(s, all, {"release"})
                /\ \A k, n \in all : k < n => s[k].at <= s[n].at
  <2>1. s \in Seq(Events) /\ Derive(s) # Refused
    BY <1>1 DEF LedgerOK
  <2>2. \A k, n \in DOMAIN s : k < n => s[k].at <= s[n].at
    BY <1>1 DEF LedgerOK, InOrder
  <2> QED BY <2>1, <2>2, BalanceOfLedger, Zenon
<1>2. \A i, K, kinds : Moved(i, K, kinds) = Qty(ledger[i], K, kinds)
  BY Zenon DEF Moved, Qty
<1>3. InventoryInv => BalanceIsCountPlusMoves
  <2> SUFFICES ASSUME InventoryInv PROVE BalanceIsCountPlusMoves
    OBVIOUS
  <2>1. \A i \in Items : LedgerOK(ledger[i])
    BY DEF InventoryInv, LedgerInv
  <2> QED BY <1>1, <1>2, <2>1, Zenon DEF BalanceIsCountPlusMoves, Balance
<1> QED BY <1>3, InventoryInit, InventoryKeeps, PTL DEF Spec

\* An event dated no earlier than the others of its item changes the balance by
\* what it says, and by nothing else.
THEOREM LatestEventsTakeEffect == Spec => EventsTakeEffect
<1> DEFINE Effect(s, t) ==
      \A k \in DOMAIN t : RemoveAt(t, k) = s /\ (\A n \in DOMAIN s : s[n].at <= t[k].at)
                            => Derive(t) = Apply(Derive(s), t[k])
<1>1. ASSUME NEW s, LedgerOK(s), NEW t, LedgerOK(t), Grown(s, t) PROVE Effect(s, t)
  <2> SUFFICES ASSUME NEW k \in DOMAIN t, RemoveAt(t, k) = s,
                      \A n \in DOMAIN s : s[n].at <= t[k].at
               PROVE  Derive(t) = Apply(Derive(s), t[k])
    OBVIOUS
  <2>1. /\ s \in Seq(Events) /\ t \in Seq(Events) /\ Derive(t) # Refused
        /\ k \in 1..Len(t) /\ Len(s) \in Nat /\ Len(t) \in Nat
    BY <1>1 DEF LedgerOK
  <2>2. Len(s) = Len(t) - 1
    BY <2>1, RemovePlaces
  <2>3. PICK e \in Events : t = Insert(s, e)
    BY <1>1, <2>1, <2>2 DEF Grown
  <2>4. t[k] = e
    BY <2>1, <2>3, RemovedIsInserted
  <2> QED BY <2>1, <2>3, <2>4, LatestTakesEffect
<1>2. ASSUME InventoryInv, [Next]_vars
      PROVE  \A i \in Items : Effect(ledger[i], ledger'[i])
  <2>1. StepOK
    BY <1>2, InventoryStep
  <2>2. \A i \in Items : /\ LedgerOK(ledger[i]) /\ LedgerOK(ledger'[i])
                         /\ Grown(ledger[i], ledger'[i])
    BY <1>2, <2>1 DEF StepOK, InventoryInv, LedgerInv
  <2> HIDE DEF Effect
  <2> QED BY <1>1, <2>2
<1>3. InventoryInv /\ [Next]_vars
        => [\A i \in Items : \A k \in DOMAIN ledger'[i] :
              LET e == ledger'[i][k]
              IN /\ RemoveAt(ledger'[i], k) = ledger[i]
                 /\ \A n \in DOMAIN ledger[i] : ledger[i][n].at <= e.at
                 => Balance(i)' = Apply(Balance(i), e)]_vars
  BY <1>2 DEF Balance
<1> QED BY <1>3, InventoryInit, InventoryKeeps, PTL DEF Spec, EventsTakeEffect

\* A purchase snapshot is received once, whatever clients post between two
\* imports of its file and whatever the clock shows.
THEOREM SnapshotsAreReceivedOnce == Spec => []OneReceiptPerSnapshot
<1>1. InventoryInv => OneReceiptPerSnapshot
  BY DEF InventoryInv, LedgerInv, LedgerOK, OneReceipt, OneReceiptPerSnapshot
<1> QED BY <1>1, InventoryInit, InventoryKeeps, PTL DEF Spec

\* No inspection is committed over a command that moved stock of its item or
\* edited one of its lines since the preview.
THEOREM InspectionsLoseNothing == Spec => NoCommandIsLost
<1>1. InventoryInv => (touched \cap ({preview.action.item} \cup preview.action.lines) # {}
                         => ~ \E now \in Times : CommitInspection(now))
  BY DEF InventoryInv, TrackInv, CommitInspection, StillCurrent
<1>2. InventoryInv /\ [Next]_vars
        => [touched \cap ({preview.action.item} \cup preview.action.lines) # {}
              => ~ \E now \in Times : CommitInspection(now)]_vars
  BY <1>1
<1> QED BY <1>2, InventoryInit, InventoryKeeps, PTL DEF Spec, NoCommandIsLost

\* Only finitely many reservations are active at once.
FewActive == IsFiniteSet(Active)

\* A command adds at most one reservation.
LEMMA FewActiveKeeps ==
  ASSUME FewActive, [Next]_vars
  PROVE  FewActive'
<1>1. ASSUME NEW r, \A s \in Res : s # r => claim'[s] = claim[s]
      PROVE  \E x : Active' \subseteq Active \cup {x}
  BY <1>1 DEF Active
<1>2. \E r : \A s \in Res : s # r => claim'[s] = claim[s]
  <2>1. CASE claim' = claim
    BY <2>1
  <2>2. ASSUME NEW r \in Res, NEW l \in Lines, NEW i \in Items, NEW q \in 1..MaxQty,
               NEW now \in Times, Reserve(r, l, i, q, now)
        PROVE  \E x : \A s \in Res : s # x => claim'[s] = claim[s]
    <3>1. claim' = [claim EXCEPT ![r] = [line |-> l, item |-> i, qty |-> q]]
      BY <2>2 DEF Reserve
    <3> QED BY <3>1
  <2>3. ASSUME NEW r \in Res, NEW used \in BOOLEAN, NEW now \in Times,
               EndReservation(r, used, now)
        PROVE  \E x : \A s \in Res : s # x => claim'[s] = claim[s]
    <3>1. claim' = [claim EXCEPT ![r] = NoClaim]
      BY <2>3 DEF EndReservation
    <3> QED BY <3>1
  <2>4. \/ claim' = claim
        \/ \E now \in Times, i \in Items, r \in Res, l \in Lines, q \in 1..MaxQty :
             Reserve(r, l, i, q, now)
        \/ \E now \in Times, r \in Res, used \in BOOLEAN : EndReservation(r, used, now)
    <3>1. \A i, c, q, available, now : CreateItem(i, c, q, available, now) => claim' = claim
      BY DEF CreateItem
    <3>2. \A i, t, q, now : RecordCount(i, q, now) \/ RecordStockEvent(i, t, q, now) => claim' = claim
      BY DEF RecordCount, RecordStockEvent
    <3>3. \A now : CommitInspection(now) => claim' = claim
      BY DEF CommitInspection
    <3>4. \A S, i, l, c : UpdateItems(S) \/ RetireItem(i) \/ EditLine(l, i, c) => claim' = claim
      BY DEF UpdateItems, RetireItem, EditLine
    <3>5. \A d, rows : Import(d, rows) => claim' = claim
      BY DEF Import
    <3>6. PreviewInspection => claim' = claim
      BY DEF PreviewInspection
    <3>7. UNCHANGED vars => claim' = claim
      BY DEF vars
    <3> QED BY <3>1, <3>2, <3>3, <3>4, <3>5, <3>6, <3>7 DEF Next
  <2> QED BY <2>1, <2>2, <2>3, <2>4
<1>3. PICK r : Active' \subseteq Active \cup {r}
  BY <1>1, <1>2
<1>4. IsFiniteSet(Active \cup {r})
  BY FS_AddElement DEF FewActive
<1>5. IsFiniteSet(Active')
  BY <1>3, <1>4, FS_Subset
<1> QED BY <1>5 DEF FewActive

\* What an evaluation reads of the items is a quantity and what of it is free.
LEMMA ViewsAreOK ==
  ASSUME InventoryInv
  PROVE  /\ ViewOK(Views)
         /\ \A i \in Items : Views[i].quantity = View(i).quantity
                             /\ Views[i].available = View(i).available
<1>1. ASSUME NEW i \in Items
      PROVE  View(i).quantity \in Nat /\ View(i).available \in Nat
  <2>1. PICK b : b = Balance(i)
    OBVIOUS
  <2>2. b \in Balances /\ b.onHand \in Nat /\ Available(b) \in Nat
    <3>1. b \in Balances /\ b.onHand \in Nat
      BY <2>1, BalanceType DEF InventoryInv
    <3> QED BY <3>1 DEF Balances, ValidBalance, Available
  <2>3. row[i].reported \in Nat
    BY DEF InventoryInv, RecordInv, Rows
  <2>4. View(i).quantity = (IF row[i].confirmed THEN b.onHand ELSE row[i].reported)
    BY <2>1 DEF View
  <2>5. View(i).available = (IF row[i].confirmed THEN Available(b) ELSE 0)
    BY <2>1 DEF View
  <2> QED BY <2>2, <2>3, <2>4, <2>5
<1>2. \A i \in Items : Views[i] = View(i)
  BY DEF Views
<1> QED BY <1>1, <1>2 DEF ViewOK

\* What the lines have reserved is a natural number of each item.
LEMMA OwnedIsShare ==
  ASSUME InventoryInv, FewActive
  PROVE  Owned \in Shares
<1>1. ASSUME NEW l \in Lines, NEW i \in Items
      PROVE  SumFunction([r \in {s \in Active : claim[s].line = l /\ claim[s].item = i} |->
                            claim[r].qty]) \in Nat
  <2>1. PICK S : S = {s \in Active : claim[s].line = l /\ claim[s].item = i}
    OBVIOUS
  <2>2. PICK f : f = [r \in S |-> claim[r].qty]
    OBVIOUS
  <2>3. IsFiniteSet(S) /\ S \subseteq Active
    BY <2>1, FS_Subset DEF FewActive
  <2>4. \A r \in S : f[r] \in Nat
    BY <2>2, <2>3, InventoryAssumption DEF Active, InventoryInv, RecordInv, Claims
  <2>5. SumFunction(f) \in Nat
    BY <2>2, <2>3, <2>4, SumNat DEF SumFunction
  <2> QED BY <2>1, <2>2, <2>5
<1> QED BY <1>1 DEF Owned, Shares

\* NothingPromisedTwice, of any pools and reservations.
PromisedOnce(p, own) ==
  \A i \in Items :
    /\ SumFunction(UsedOf(p, "confirmed", i)) + SumFunction(UsedOf(p, "inspect", i))
         <= View(i).quantity
    /\ \A L \in SUBSET Lines :
         SumFunctionOnSet(UsedOf(p, "confirmed", i), L)
           <= View(i).available + SumFunctionOnSet(OwnOf(own, i), L)
    /\ \A l \in Lines :
         CoveredBy(p, "confirmed", l) + CoveredBy(p, "inspect", l) <= Required[l]

\* No gap report, setup preview or inspection queue promises stock twice: what
\* the allocator hands out of an item over all lines is there, what it calls
\* confirmed is free or reserved by the line that gets it, and no line gets
\* more than it requires.
THEOREM SupplyIsPromisedOnce == Spec => []NothingPromisedTwice
<1>1. Init => FewActive
  <2>1. Init => Active = {}
    BY DEF Init, Active
  <2> QED BY <2>1, FS_EmptySet DEF FewActive
<1>2. InventoryInv /\ FewActive => NothingPromisedTwice
  <2> SUFFICES ASSUME InventoryInv, FewActive PROVE NothingPromisedTwice
    OBVIOUS
  <2>1. PICK own : own = Owned
    OBVIOUS
  <2>2. PICK p : p = Result
    OBVIOUS
  <2>3. own \in Shares /\ PoolsOK(p, Views, own)
    BY <2>1, <2>2, OwnedIsShare, ViewsAreOK, EvaluateKeeps DEF Result
  <2>4. p \in PoolSet
    BY <2>3 DEF PoolsOK
  <2>5. \A mode, i : SumFunction(UsedOf(p, mode, i)) = SumFunctionOnSet(UsedOf(p, mode, i), Lines)
    BY DEF UsedOf, SumFunction
  <2>6. ASSUME NEW i \in Items, NEW L \in SUBSET Lines
        PROVE  SumFunctionOnSet(UsedOf(p, "confirmed", i), L) \in Nat
    <3>1. IsFiniteSet(L) /\ \A l \in L : UsedOf(p, "confirmed", i)[l] \in Nat
      BY <2>4, BomFinite, FS_Subset DEF UsedOf, PoolSet, Shares, Modes
    <3> QED BY <3>1, SumNat
  <2>7. ASSUME NEW i \in Items
        PROVE  SumFunctionOnSet(UsedOf(p, "confirmed", i), Lines)
                 + SumFunctionOnSet(UsedOf(p, "inspect", i), Lines) <= View(i).quantity
    <3>1. PICK a : a = SumFunctionOnSet(UsedOf(p, "confirmed", i), Lines)
      OBVIOUS
    <3>2. PICK b : b = SumFunctionOnSet(UsedOf(p, "inspect", i), Lines)
      OBVIOUS
    <3>3. IsFiniteSet(Lines) /\ \A l \in Lines : UsedOf(p, "inspect", i)[l] \in Nat
      BY <2>4, BomFinite DEF UsedOf, PoolSet, Shares, Modes
    <3>4. a \in Nat /\ b \in Nat /\ p.physical[i] \in Nat
      BY <2>4, <2>6, <3>1, <3>2, <3>3, SumNat DEF PoolSet
    <3>5. p.physical[i] + a + b = View(i).quantity
      BY <2>3, <3>1, <3>2, ViewsAreOK DEF PoolsOK
    <3> QED BY <3>1, <3>2, <3>4, <3>5
  <2>8. ASSUME NEW i \in Items, NEW L \in SUBSET Lines
         PROVE  SumFunctionOnSet(UsedOf(p, "confirmed", i), L)
                  <= View(i).available + SumFunctionOnSet(OwnOf(own, i), L)
    <3>1. PICK a : a = SumFunctionOnSet(UsedOf(p, "confirmed", i), L)
      OBVIOUS
    <3>2. PICK o : o = SumFunctionOnSet(OwnOf(own, i), L)
      OBVIOUS
    <3>3. IsFiniteSet(L) /\ \A l \in L : OwnOf(own, i)[l] \in Nat
      BY <2>3, BomFinite, FS_Subset DEF OwnOf, Shares
    <3>4. a \in Nat /\ o \in Nat /\ p.free[i] \in Nat /\ View(i).available \in Nat
      BY <2>4, <2>6, <3>1, <3>2, <3>3, SumNat, ViewsAreOK DEF PoolSet, ViewOK
    <3>5. a + p.free[i] <= View(i).available + o
      BY <2>3, <3>1, <3>2, ViewsAreOK DEF PoolsOK
    <3> QED BY <3>1, <3>2, <3>4, <3>5
  <2>9. \A l \in Lines :
           CoveredBy(p, "confirmed", l) + CoveredBy(p, "inspect", l) <= Required[l]
    BY <2>3, <2>4, CoveredNat DEF PoolsOK, Modes
  <2>10. PromisedOnce(p, own)
    BY <2>5, <2>7, <2>8, <2>9 DEF PromisedOnce
  <2>11. PromisedOnce(Result, Owned)
    BY <2>1, <2>2, <2>10
  <2> QED BY <2>11 DEF PromisedOnce, UsedOf, OwnOf, NothingPromisedTwice
<1> QED BY <1>1, <1>2, InventoryInit, InventoryKeeps, FewActiveKeeps, PTL DEF Spec
=============================================================================
