------------------------ MODULE Reservations_proofs ------------------------
(***************************************************************************)
(* Reservations, for any items, projects, revisions, reservations and      *)
(* clients: types, the end of every reservation, the pairing of allocation *)
(* and release in the stock ledger, the project life cycle, the committed  *)
(* close-out, the stock that is held for reservations and the drafts that  *)
(* still describe it.                                                      *)
(***************************************************************************)
EXTENDS Reservations, DataLemmas

-----------------------------------------------------------------------------
(* Types *)

\* A draft is a record whose plan stays within what the bound allows.
DraftShape ==
  \A v \in Revisions :
    /\ draft[v] = [state |-> draft[v].state, plan |-> draft[v].plan,
                   current |-> draft[v].current, basis |-> draft[v].basis]
    /\ \A r \in DOMAIN draft[v].plan : draft[v].plan[r] \in 0..MaxQty

TypeInv == TypeOK /\ DraftShape

\* What a draft says, but not whether it is current, survives the change d.
DraftsKept ==
  /\ DOMAIN draft' = Revisions
  /\ \A v \in Revisions :
       /\ draft'[v] = [state |-> draft[v].state, plan |-> draft[v].plan,
                       current |-> draft'[v].current, basis |-> draft[v].basis]

\* A version bump makes drafts stale and changes nothing else in them.
LEMMA TouchKeepsDrafts ==
  ASSUME TypeInv, NEW items, Touch(items)
  PROVE  DraftsKept
<1> SUFFICES ASSUME NEW v \in Revisions
             PROVE  draft'[v] = [state |-> draft[v].state, plan |-> draft[v].plan,
                                 current |-> draft'[v].current, basis |-> draft[v].basis]
  BY DEF Touch, DraftsKept
<1>1. draft'[v] = draft[v] \/ draft'[v] = [draft[v] EXCEPT !.current = FALSE]
  BY DEF Touch
<1>2. QED
  BY <1>1 DEF TypeInv, DraftShape

\* Drafts whose content is kept stay well formed.
LEMMA KeptDraftsAreTyped ==
  ASSUME TypeInv, DraftsKept
  PROVE  /\ DraftShape'
         /\ DOMAIN draft' = Revisions
         /\ \A v \in Revisions : draft'[v].state \in {"none", "draft", "committed"}
BY DEF TypeInv, TypeOK, DraftShape, DraftsKept

\* So do drafts that nothing touches.
LEMMA UntouchedDraftsAreKept ==
  ASSUME TypeInv, UNCHANGED draft
  PROVE  DraftsKept
BY DEF TypeInv, TypeOK, DraftShape, DraftsKept

\* The balances a release lets through are balances.
LEMMA ReleaseType ==
  ASSUME TypeInv, NEW R \in SUBSET Res, NEW why, NEW i \in Items,
         ValidBalance(AfterRelease(R, why)[i])
  PROVE  /\ AfterRelease(R, why)[i] \in Balances
         /\ AfterRelease(R, why)[i].onHand = balance[i].onHand
<1>1. balance[i] \in [onHand : Nat, allocated : Nat]
  BY DEF TypeInv, TypeOK, Balances
<1>2. PICK taken : AfterRelease(R, why)[i] = [balance[i] EXCEPT !.allocated = @ - taken]
  BY DEF AfterRelease
<1>3. AfterRelease(R, why)[i] =
        [onHand |-> balance[i].onHand, allocated |-> balance[i].allocated - taken]
  BY <1>1, <1>2
<1>4. balance[i].onHand \in Nat /\ balance[i].allocated - taken \in Nat
      /\ balance[i].allocated - taken <= balance[i].onHand
  BY <1>1, <1>3 DEF ValidBalance
<1>5. QED
  BY <1>3, <1>4 DEF Balances

\* ReleaseAll keeps the types of all it writes.
LEMMA ReleaseAllType ==
  ASSUME TypeInv, NEW R \in SUBSET Active, NEW why, NEW end \in Ended,
         ReleaseAll(R, why, end)
  PROVE  /\ balance' \in [Items -> Balances]
         /\ status' \in [Res -> Statuses]
         /\ \A r \in Res : status'[r] = "unused" <=> status[r] = "unused"
         /\ UNCHANGED <<claim, used, evidence, retired>>
         /\ DraftsKept
<1>1. R \subseteq Res
  BY DEF Active
<1>2. \A i \in Items : AfterRelease(R, why)[i] \in Balances
  BY <1>1, ReleaseType DEF ReleaseAll
<1>3. balance' \in [Items -> Balances]
  BY <1>2 DEF ReleaseAll, AfterRelease
<1>4. DraftsKept
  BY TouchKeepsDrafts DEF ReleaseAll
<1>5. QED
  BY <1>3, <1>4 DEF ReleaseAll, TypeInv, TypeOK, Active, Ended, Statuses

\* Reserving stock: a valid balance, an active reservation, its claim.
LEMMA CreateReservationType ==
  ASSUME TypeInv, NEW c \in Contexts, NEW r \in Res, NEW v \in Revisions,
         NEW i \in Items, NEW q \in 1..MaxQty, CreateReservation(c, r, v, i, q)
  PROVE  TypeInv'
<1>1. /\ balance[i].onHand \in Nat /\ balance[i].allocated \in Nat
      /\ balance[i].allocated + q <= balance[i].onHand /\ q \in Nat /\ q <= MaxQty
  BY ReservationsAssumption
  DEF CreateReservation, Available, TypeInv, TypeOK, Balances
<1>2. balance'[i] = [onHand |-> balance[i].onHand, allocated |-> balance[i].allocated + q]
  BY DEF CreateReservation, Apply, Adds, Takes, TypeInv, TypeOK
<1>3. balance' \in [Items -> Balances]
  <2>1. balance'[i] \in Balances
    BY <1>1, <1>2 DEF Balances
  <2>2. QED
    BY <2>1 DEF CreateReservation, TypeInv, TypeOK
<1>4. /\ status' \in [Res -> Statuses]
      /\ claim' \in [Res -> Claims \cup {NoClaim}]
      /\ \A s \in Res : status'[s] # "unused" => claim'[s] \in Claims
  BY DEF CreateReservation, TypeInv, TypeOK, Statuses, Claims
<1>5. DraftsKept
  BY TouchKeepsDrafts DEF CreateReservation
<1>6. replied' \subseteq Contexts
  BY DEF CreateReservation, Reply, TypeInv, TypeOK
<1>7. QED
  BY <1>3, <1>4, <1>5, <1>6, KeptDraftsAreTyped
  DEF CreateReservation, TypeInv, TypeOK, life

\* A command that ends reservations by ReleaseAll keeps the types.
LEMMA ReleasingType ==
  ASSUME TypeInv, NEW R \in SUBSET Active, NEW why, NEW end \in Ended,
         ReleaseAll(R, why, end),
         archived' \subseteq Projects, removed' \subseteq Projects,
         replied' \subseteq Contexts
  PROVE  TypeInv'
BY ReleaseAllType, KeptDraftsAreTyped DEF TypeInv, TypeOK

\* Using a reservation takes its quantity off the shelf or nothing.
LEMMA RecordUsageType ==
  ASSUME TypeInv, NEW c \in Contexts, NEW r \in Res, RecordUsage(c, r)
  PROVE  /\ TypeInv'
         /\ used'[r] \in {0, claim[r].qty}
         /\ ~Known(Key(c[2])) => used'[r] = claim[r].qty
         /\ \A s \in Res \ {r} : used'[s] = used[s]
<1> DEFINE i == claim[r].item
           q == claim[r].qty
           free == AfterRelease({r}, "consume-release")[i]
           rest == IF Known(Key(c[2])) THEN free
                   ELSE Apply(free, [kind |-> "consume", qty |-> q])
<1>1. i \in Items /\ q \in Nat /\ q <= MaxQty /\ status[r] = "active"
  BY ReservationsAssumption DEF RecordUsage, TypeInv, TypeOK, Claims
<1>2. free \in Balances
  <2>1. ValidBalance(free)
    BY DEF RecordUsage
  <2>2. QED
    BY <1>1, <2>1, ReleaseType
<1>3. /\ balance' = [balance EXCEPT ![i] = rest]
      /\ used' = [used EXCEPT ![r] = free.onHand - rest.onHand]
      /\ ValidBalance(rest)
  BY DEF RecordUsage
<1> HIDE DEF free
<1>4. /\ Known(Key(c[2])) => rest = free
      /\ ~Known(Key(c[2])) =>
           rest = [onHand |-> free.onHand - q, allocated |-> free.allocated]
  BY DEF Apply, Adds, Takes
<1>5. free.onHand \in Nat /\ free.allocated \in Nat
  BY <1>2 DEF Balances
<1> HIDE DEF rest
<1>6. rest \in Balances
  <2>1. CASE Known(Key(c[2]))
    BY <1>2, <1>4, <2>1
  <2>2. CASE ~Known(Key(c[2]))
    BY <1>1, <1>3, <1>4, <1>5, <2>2 DEF ValidBalance, Balances
  <2>3. QED
    BY <2>1, <2>2
<1>7. /\ Known(Key(c[2])) => free.onHand - rest.onHand = 0
      /\ ~Known(Key(c[2])) => free.onHand - rest.onHand = q
  BY <1>1, <1>4, <1>5
<1>8. /\ used' \in [Res -> 0..MaxQty]
      /\ used'[r] = free.onHand - rest.onHand
      /\ \A s \in Res \ {r} : used'[s] = used[s]
  BY <1>1, <1>3, <1>7, ReservationsAssumption DEF TypeInv, TypeOK
<1>9. balance' \in [Items -> Balances]
  BY <1>1, <1>3, <1>6 DEF TypeInv, TypeOK
<1>10. /\ status' \in [Res -> Statuses]
       /\ \A s \in Res : status'[s] # "unused" => claim'[s] \in Claims
  BY <1>1 DEF RecordUsage, TypeInv, TypeOK, Statuses
<1>11. DraftsKept
  BY TouchKeepsDrafts DEF RecordUsage
<1>12. replied' \subseteq Contexts
  BY DEF RecordUsage, Reply, TypeInv, TypeOK
<1>13. TypeInv'
  BY <1>8, <1>9, <1>10, <1>11, <1>12, KeptDraftsAreTyped
  DEF RecordUsage, TypeInv, TypeOK, life
<1>14. QED
  BY <1>7, <1>8, <1>13

\* A stock event or a count leaves every balance valid and claims nothing.
LEMMA StockCommandsType ==
  ASSUME TypeInv, NEW c \in Contexts, NEW i \in Items, NEW q \in 0..MaxQty,
         \/ \E b \in BodyKeys \cup {NoKey}, t \in EventTypes : RecordStockEvent(c, b, i, t, q)
         \/ \E how \in {"count", "commission"} : RecordCount(c, i, q, how)
  PROVE  TypeInv'
<1>1. q \in Nat /\ balance[i].onHand \in Nat /\ balance[i].allocated \in Nat
      /\ balance \in [Items -> Balances]
  BY ReservationsAssumption DEF TypeInv, TypeOK, Balances
<1>2. CASE \E b \in BodyKeys \cup {NoKey}, t \in EventTypes : RecordStockEvent(c, b, i, t, q)
  <2>1. PICK b \in BodyKeys \cup {NoKey}, t \in EventTypes : RecordStockEvent(c, b, i, t, q)
    BY <1>2
  <2> DEFINE next == Apply(balance[i], [kind |-> StockKind(t), qty |-> q])
  <2>2. ValidBalance(next) => next \in Balances
    <3>1. PICK x, y : next = [onHand |-> x, allocated |-> y]
      BY DEF Apply
    <3>2. QED
      BY <3>1 DEF ValidBalance, Balances
  <2>3. \/ UNCHANGED <<balance, draft>>
        \/ /\ balance' = [balance EXCEPT ![i] = next]
           /\ ValidBalance(next)
           /\ Touch({i})
    BY <2>1 DEF RecordStockEvent, stock
  <2>4. /\ UNCHANGED <<evidence, retired, status, claim, used, archived, removed>>
        /\ replied' \subseteq Contexts
    BY <2>1 DEF RecordStockEvent, stock, claims, life, Reply, TypeInv, TypeOK
  <2>5. DraftsKept
    BY <2>3, TouchKeepsDrafts, UntouchedDraftsAreKept
  <2>6. balance' \in [Items -> Balances]
    BY <1>1, <2>2, <2>3
  <2>7. QED
    BY <2>4, <2>5, <2>6, KeptDraftsAreTyped DEF TypeInv, TypeOK
<1>3. CASE \E how \in {"count", "commission"} : RecordCount(c, i, q, how)
  <2>1. PICK how \in {"count", "commission"} : RecordCount(c, i, q, how)
    BY <1>3
  <2>2. /\ UNCHANGED <<retired, status, claim, used, archived, removed>>
        /\ replied' \subseteq Contexts
        /\ evidence' \in [Items -> {"confirmed", "commissionable", "other"}]
    BY <2>1 DEF RecordCount, stock, claims, life, Reply, TypeInv, TypeOK
  <2>3. \/ UNCHANGED <<balance, draft>>
        \/ /\ balance' = [balance EXCEPT ![i] = Apply(balance[i], [kind |-> "count", qty |-> q])]
           /\ q >= balance[i].allocated
           /\ Touch({i})
    BY <1>1, <2>1 DEF RecordCount, stock
  <2>4. Apply(balance[i], [kind |-> "count", qty |-> q]) =
          [onHand |-> q, allocated |-> balance[i].allocated]
    BY DEF Apply
  <2>5. balance' \in [Items -> Balances]
    BY <1>1, <2>3, <2>4 DEF Balances
  <2>6. DraftsKept
    BY <2>3, TouchKeepsDrafts, UntouchedDraftsAreKept
  <2>7. QED
    BY <2>2, <2>5, <2>6, KeptDraftsAreTyped DEF TypeInv, TypeOK
<1>4. QED
  BY <1>2, <1>3

\* A saved draft is well formed.
LEMMA SaveDraftType ==
  ASSUME TypeInv, NEW c \in Contexts, NEW v \in Revisions, NEW plan \in Plans(v),
         SaveDraft(c, v, plan)
  PROVE  TypeInv'
<1>1. \A r \in DOMAIN plan : plan[r] \in 0..MaxQty
  BY ReservationsAssumption
  DEF SaveDraft, ActiveOf, Active, TypeInv, TypeOK, Claims
<1>2. /\ DOMAIN draft' = Revisions
      /\ draft'[v] = [state |-> "draft", plan |-> plan, current |-> TRUE, basis |-> Basis(v)]
      /\ \A w \in Revisions \ {v} : draft'[w] = draft[w]
  BY DEF SaveDraft, TypeInv, TypeOK
<1>3. DraftShape'
  <2> SUFFICES ASSUME NEW w \in Revisions
               PROVE  /\ draft'[w] = [state |-> draft'[w].state, plan |-> draft'[w].plan,
                                      current |-> draft'[w].current, basis |-> draft'[w].basis]
                      /\ \A r \in DOMAIN draft'[w].plan : draft'[w].plan[r] \in 0..MaxQty
    BY DEF DraftShape
  <2>1. CASE w = v
    BY <1>1, <1>2, <2>1
  <2>2. CASE w # v
    BY <1>2, <2>2 DEF TypeInv, DraftShape
  <2>3. QED
    BY <2>1, <2>2
<1>4. \A w \in Revisions : draft'[w].state \in {"none", "draft", "committed"}
  BY <1>2 DEF TypeInv, TypeOK
<1>5. replied' \subseteq Contexts
  BY DEF SaveDraft, Reply, TypeInv, TypeOK
<1>6. QED
  BY <1>2, <1>3, <1>4, <1>5 DEF SaveDraft, TypeInv, TypeOK, stock, claims, life

\* The commit closes revision v's draft and leaves what the others say.
LEMMA CommitDrafts ==
  ASSUME TypeInv, NEW c \in Contexts, NEW v \in Revisions, CommitReconciliation(c, v)
  PROVE  /\ DOMAIN draft' = Revisions
         /\ draft'[v] = [state |-> "committed", plan |-> draft[v].plan,
                         current |-> draft[v].current, basis |-> draft[v].basis]
         /\ \A w \in Revisions \ {v} :
              draft'[w] = [state |-> draft[w].state, plan |-> draft[w].plan,
                           current |-> draft'[w].current, basis |-> draft[w].basis]
<1>1. /\ DOMAIN draft' = Revisions
      /\ draft'[v] = [draft[v] EXCEPT !.state = "committed"]
      /\ \A w \in Revisions \ {v} :
           draft'[w] = draft[w] \/ draft'[w] = [draft[w] EXCEPT !.current = FALSE]
  BY DEF CommitReconciliation, Freed, Rest
<1>2. \A w \in Revisions :
        draft[w] = [state |-> draft[w].state, plan |-> draft[w].plan,
                    current |-> draft[w].current, basis |-> draft[w].basis]
  BY DEF TypeInv, DraftShape
<1>3. draft'[v] = [state |-> "committed", plan |-> draft[v].plan,
                   current |-> draft[v].current, basis |-> draft[v].basis]
  <2>1. [draft[v] EXCEPT !.state = "committed"] =
          [state |-> "committed", plan |-> draft[v].plan,
           current |-> draft[v].current, basis |-> draft[v].basis]
    <3>1. PICK s, p, n, b :
            draft[v] = [state |-> s, plan |-> p, current |-> n, basis |-> b]
      BY <1>2
    <3>2. QED
      BY <3>1
  <2>2. QED
    BY <1>1, <2>1
<1>4. ASSUME NEW w \in Revisions \ {v}
      PROVE  draft'[w] = [state |-> draft[w].state, plan |-> draft[w].plan,
                          current |-> draft'[w].current, basis |-> draft[w].basis]
  <2>1. CASE draft'[w] = draft[w]
    BY <1>2, <2>1
  <2>2. CASE draft'[w] = [draft[w] EXCEPT !.current = FALSE]
    BY <1>2, <2>2
  <2>3. QED
    BY <1>1, <2>1, <2>2
<1>5. QED
  BY <1>1, <1>3, <1>4

\* The close-out leaves valid balances and settles within the plan.
LEMMA CommitType ==
  ASSUME TypeInv, NEW c \in Contexts, NEW v \in Revisions, CommitReconciliation(c, v)
  PROVE  TypeInv'
<1> DEFINE R == ActiveOf(v)
           freed == AfterRelease(R, "reconcile-release")
           rest == [i \in Items |-> [freed[i] EXCEPT !.onHand = @ - Destroyed(v, i)]]
<1>1. R \subseteq Res
  BY DEF ActiveOf, Active
<1>2. \A i \in Items : ValidBalance(freed[i]) /\ ValidBalance(rest[i])
  BY DEF CommitReconciliation, Freed, Rest
<1>3. \A i \in Items : freed[i] \in Balances
  BY <1>1, <1>2, ReleaseType
<1>4. \A i \in Items : rest[i] \in Balances
  <2> SUFFICES ASSUME NEW i \in Items PROVE rest[i] \in Balances
    OBVIOUS
  <2>1. freed[i] \in [onHand : Nat, allocated : Nat]
    BY <1>3 DEF Balances
  <2> HIDE DEF freed
  <2>2. PICK taken : rest[i] = [freed[i] EXCEPT !.onHand = @ - taken]
    OBVIOUS
  <2>3. rest[i] = [onHand |-> freed[i].onHand - taken, allocated |-> freed[i].allocated]
    BY <2>1, <2>2
  <2>4. ValidBalance(rest[i])
    BY <1>2
  <2> HIDE DEF rest
  <2>5. QED
    BY <2>1, <2>3, <2>4 DEF ValidBalance, Balances
<1>5. balance' \in [Items -> Balances]
  <2>1. balance' = rest
    BY DEF CommitReconciliation, Freed, Rest
  <2>2. QED
    BY <1>4, <2>1
<1>6. used' \in [Res -> 0..MaxQty]
  <2>1. DOMAIN draft[v].plan = R
    BY DEF CommitReconciliation, Freed, Rest
  <2>2. ASSUME NEW r \in R PROVE Taken(v, r) \in 0..MaxQty
    <3>1. draft[v].plan[r] \in 0..MaxQty
      BY <2>1 DEF TypeInv, DraftShape
    <3>2. 0 \in 0..MaxQty
      BY ReservationsAssumption
    <3>3. QED
      BY <3>1, <3>2 DEF Taken
  <2>3. used' = [r \in Res |-> IF r \in R THEN Taken(v, r) ELSE used[r]]
    BY DEF CommitReconciliation, Freed, Rest
  <2>4. QED
    BY <2>2, <2>3 DEF TypeInv, TypeOK
<1>7. /\ status' \in [Res -> Statuses]
      /\ \A r \in Res : status'[r] = "unused" <=> status[r] = "unused"
      /\ replied' \subseteq Contexts
      /\ UNCHANGED <<claim, evidence, retired, archived, removed>>
  BY DEF CommitReconciliation, Freed, Rest, Reply, life, TypeInv, TypeOK, Statuses, ActiveOf, Active
<1>8. DraftShape' /\ \A w \in Revisions : draft'[w].state \in {"none", "draft", "committed"}
  <2> SUFFICES ASSUME NEW w \in Revisions
               PROVE  /\ draft'[w] = [state |-> draft'[w].state, plan |-> draft'[w].plan,
                                      current |-> draft'[w].current, basis |-> draft'[w].basis]
                      /\ \A r \in DOMAIN draft'[w].plan : draft'[w].plan[r] \in 0..MaxQty
                      /\ draft'[w].state \in {"none", "draft", "committed"}
    BY DEF DraftShape
  <2>1. draft'[w].plan = draft[w].plan
        /\ draft'[w].state \in {draft[w].state, "committed"}
        /\ draft'[w] = [state |-> draft'[w].state, plan |-> draft'[w].plan,
                        current |-> draft'[w].current, basis |-> draft'[w].basis]
    <3>1. CASE w = v
      <4>1. draft'[v] = [state |-> "committed", plan |-> draft[v].plan,
                         current |-> draft[v].current, basis |-> draft[v].basis]
        BY CommitDrafts
      <4>2. QED
        BY <3>1, <4>1
    <3>2. CASE w # v
      <4>1. draft'[w] = [state |-> draft[w].state, plan |-> draft[w].plan,
                         current |-> draft'[w].current, basis |-> draft[w].basis]
        BY <3>2, CommitDrafts
      <4>2. QED
        BY <4>1
    <3>3. QED
      BY <3>1, <3>2
  <2>2. QED
    BY <2>1 DEF TypeInv, TypeOK, DraftShape
<1>9. DOMAIN draft' = Revisions
  BY CommitDrafts
<1>10. QED
  BY <1>5, <1>6, <1>7, <1>8, <1>9 DEF TypeInv, TypeOK

\* The initial states are well typed.
LEMMA TypeInvInit == Init => TypeInv
<1> SUFFICES ASSUME Init PROVE TypeInv
  OBVIOUS
<1>1. balance \in [Items -> Balances]
  BY ReservationsAssumption DEF Init, Balances
<1>2. claim \in [Res -> Claims \cup {NoClaim}] /\ used \in [Res -> 0..MaxQty]
  BY ReservationsAssumption DEF Init
<1>3. DraftShape
  BY DEF Init, DraftShape, NoDraft
<1>4. QED
  BY <1>1, <1>2, <1>3 DEF Init, TypeInv, TypeOK, Statuses, NoDraft

\* Every step keeps the types.
LEMMA TypeInvStep == TypeInv /\ [Next]_vars => TypeInv'
<1> SUFFICES ASSUME TypeInv, [Next]_vars PROVE TypeInv'
  OBVIOUS
<1>1. CASE UNCHANGED vars
  BY <1>1 DEF vars, stock, claims, life, TypeInv, TypeOK, DraftShape
<1>2. ASSUME NEW c \in Contexts, NEW r \in Res, NEW v \in Revisions, NEW i \in Items,
             NEW q \in 1..MaxQty, CreateReservation(c, r, v, i, q)
      PROVE  TypeInv'
  BY <1>2, CreateReservationType
<1>3. ASSUME NEW c \in Contexts, NEW r \in Res, ReleaseReservation(c, r)
      PROVE  TypeInv'
  <2>1. {r} \in SUBSET Active /\ "released" \in Ended
    BY <1>3 DEF ReleaseReservation, Active, Ended
  <2>2. archived' \subseteq Projects /\ removed' \subseteq Projects /\ replied' \subseteq Contexts
    BY <1>3 DEF ReleaseReservation, Reply, life, TypeInv, TypeOK
  <2>3. QED
    BY <1>3, <2>1, <2>2, ReleasingType DEF ReleaseReservation
<1>4. ASSUME NEW c \in Contexts, NEW r \in Res, RecordUsage(c, r)
      PROVE  TypeInv'
  BY <1>4, RecordUsageType
<1>5. ASSUME NEW c \in Contexts, NEW p \in Projects, ArchiveProject(c, p)
      PROVE  TypeInv'
  <2>1. archived' \subseteq Projects /\ removed' \subseteq Projects /\ replied' \subseteq Contexts
    BY <1>5 DEF ArchiveProject, Reply, life, TypeInv, TypeOK
  <2>2. CASE p \in archived
    <3>1. DraftsKept
      BY <1>5, <2>2, UntouchedDraftsAreKept DEF ArchiveProject
    <3>2. QED
      BY <1>5, <2>1, <2>2, <3>1, KeptDraftsAreTyped
      DEF ArchiveProject, stock, claims, TypeInv, TypeOK
  <2>3. CASE p \notin archived
    <3>1. ActiveIn(p) \in SUBSET Active /\ "released" \in Ended
      BY DEF ActiveIn, Ended
    <3>2. QED
      BY <1>5, <2>1, <2>3, <3>1, ReleasingType DEF ArchiveProject
  <2>4. QED
    BY <2>2, <2>3
<1>6. ASSUME NEW c \in Contexts, NEW p \in Projects, RestoreProject(c, p)
      PROVE  TypeInv'
  <2>1. DraftsKept
    BY <1>6, UntouchedDraftsAreKept DEF RestoreProject
  <2>2. QED
    BY <1>6, <2>1, KeptDraftsAreTyped
    DEF RestoreProject, Reply, stock, claims, TypeInv, TypeOK
<1>7. ASSUME NEW c \in Contexts, NEW p \in Projects, RemoveProject(c, p)
      PROVE  TypeInv'
  <2>1. archived' \subseteq Projects /\ removed' \subseteq Projects /\ replied' \subseteq Contexts
    BY <1>7 DEF RemoveProject, Reply, TypeInv, TypeOK
  <2>2. ActiveIn(p) \in SUBSET Active /\ "released" \in Ended
    BY DEF ActiveIn, Ended
  <2>3. QED
    BY <1>7, <2>1, <2>2, ReleasingType DEF RemoveProject
<1>8. ASSUME NEW c \in Contexts, NEW i \in Items, NEW q \in 0..MaxQty,
             \/ \E b \in BodyKeys \cup {NoKey}, t \in EventTypes : RecordStockEvent(c, b, i, t, q)
             \/ \E how \in {"count", "commission"} : RecordCount(c, i, q, how)
      PROVE  TypeInv'
  BY <1>8, StockCommandsType
<1>9. ASSUME NEW c \in Contexts, NEW i \in Items, UpdateItem(c, i) \/ RetireItem(c, i)
      PROVE  TypeInv'
  <2>1. DraftsKept
    BY <1>9, TouchKeepsDrafts DEF UpdateItem, RetireItem
  <2>2. QED
    BY <1>9, <2>1, KeptDraftsAreTyped
    DEF UpdateItem, RetireItem, Reply, stock, claims, life, TypeInv, TypeOK
<1>10. ASSUME NEW c \in Contexts, NEW v \in Revisions, NEW plan \in Plans(v),
              SaveDraft(c, v, plan)
       PROVE  TypeInv'
  BY <1>10, SaveDraftType
<1>11. ASSUME NEW c \in Contexts, NEW v \in Revisions, CommitReconciliation(c, v)
       PROVE  TypeInv'
  BY <1>11, CommitType
<1>12. QED
  BY <1>1, <1>2, <1>3, <1>4, <1>5, <1>6, <1>7, <1>8, <1>9, <1>10, <1>11 DEF Next

\* No command leaves a negative balance or more allocated than on hand, and
\* a reservation never takes more off the shelf than the bound.
THEOREM TypeCorrect == Spec => []TypeOK
<1>1. TypeInv => TypeOK
  BY DEF TypeInv
<1>2. QED
  BY <1>1, TypeInvInit, TypeInvStep, PTL DEF Spec

-----------------------------------------------------------------------------
(* What a step can do to reservations, the ledger, projects and close-outs *)

Tags == ReleaseKinds \cup {"allocate", "reconcile-consume"}

\* No reservation begins or ends and the ledger gets no event of one.
Quiet ==
  /\ UNCHANGED <<status, claim, used>>
  /\ \A k \in Tags, r \in Res : <<k, r>> \in ledger' <=> <<k, r>> \in ledger

\* Reservation r of revision v begins and its allocation is recorded.
Opens(r, v) ==
  /\ status[r] = "unused" /\ status' = [status EXCEPT ![r] = "active"]
  /\ claim'[r].rev = v /\ \A s \in Res \ {r} : claim'[s] = claim[s]
  /\ UNCHANGED <<used, archived, removed>>
  /\ DraftsKept
  /\ ActiveProject(ProjectOf[v]) /\ draft[v].state # "committed"
  /\ \A k \in Tags, s \in Res :
       <<k, s>> \in ledger' <=> <<k, s>> \in ledger \/ (k = "allocate" /\ s = r)

\* The active reservations in R end, and their release is recorded as `why`.
Ends(R, why, end) ==
  /\ R \subseteq Active /\ why \in ReleaseKinds /\ end \in Ended
  /\ status' = [r \in Res |-> IF r \in R THEN end ELSE status[r]]
  /\ UNCHANGED claim
  /\ \A r \in Res \ R : used'[r] = used[r]
  /\ \A k \in Tags, r \in Res :
       <<k, r>> \in ledger' <=>
         \/ <<k, r>> \in ledger
         \/ k = why /\ r \in R
         \/ k = "reconcile-consume" /\ r \in R /\ <<k, r>> \in ledger'

ReservationStep ==
  \/ Quiet
  \/ \E r \in Res, v \in Revisions : Opens(r, v)
  \/ \E R \in SUBSET Res, why \in ReleaseKinds, end \in Ended : Ends(R, why, end)

\* A project stops being active only with no reservation left.
LifeStep ==
  \A p \in Projects : ActiveProject(p) => ActiveProject(p)' \/ ActiveIn(p)' = {}

\* A close-out that is committed stays as it is; one is committed only when it
\* settles every reservation of its revision by its plan.
CloseOutStep ==
  /\ \A v \in Revisions :
       /\ draft[v].state = "committed" =>
            draft'[v].state = "committed" /\ draft'[v].plan = draft[v].plan
       /\ draft'[v].state = "committed" /\ draft[v].state # "committed" =>
            ActiveOf(v)' = {}
  /\ \A r \in Res :
       status'[r] = "settled" /\ status[r] # "settled" =>
         LET v == claim[r].rev IN
         /\ status[r] = "active"
         /\ draft'[v].state = "committed"
         /\ r \in DOMAIN draft'[v].plan
         /\ <<"reconcile-consume", r>> \notin ledger => used'[r] = draft'[v].plan[r]

Shape == ReservationStep /\ LifeStep /\ CloseOutStep

\* Drafts that are kept commit nothing.
LEMMA KeptDraftsCommitNothing ==
  ASSUME TypeInv, DraftsKept
  PROVE  \A v \in Revisions : draft'[v].state = draft[v].state /\ draft'[v].plan = draft[v].plan
BY DEF DraftsKept

\* The shape of a step that leaves the reservations alone.
LEMMA QuietShape ==
  ASSUME TypeInv, Quiet, DraftsKept, archived' \subseteq archived, removed' \subseteq removed
  PROVE  Shape
<1>1. LifeStep
  BY DEF LifeStep, ActiveProject, Readable
<1>2. CloseOutStep
  BY KeptDraftsCommitNothing DEF CloseOutStep, Quiet
<1>3. QED
  BY <1>1, <1>2 DEF Shape, ReservationStep

\* The shape of a step that begins a reservation.
LEMMA CreateReservationShape ==
  ASSUME TypeInv, NEW c \in Contexts, NEW r \in Res, NEW v \in Revisions,
         NEW i \in Items, NEW q \in 1..MaxQty, CreateReservation(c, r, v, i, q)
  PROVE  Shape
<1>1. DraftsKept
  BY TouchKeepsDrafts DEF CreateReservation
<1>2. Opens(r, v)
  BY <1>1 DEF CreateReservation, Opens, life, TypeInv, TypeOK
<1>3. LifeStep
  BY DEF CreateReservation, life, LifeStep, ActiveProject, Readable
<1>4. CloseOutStep
  BY <1>1, KeptDraftsCommitNothing DEF CreateReservation, CloseOutStep, TypeInv, TypeOK
<1>5. QED
  BY <1>2, <1>3, <1>4 DEF Shape, ReservationStep

\* The shape of a step that releases reservations through ReleaseAll.
LEMMA ReleaseAllShape ==
  ASSUME TypeInv, NEW R \in SUBSET Active, NEW why \in ReleaseKinds,
         ReleaseAll(R, why, "released")
  PROVE  ReservationStep /\ CloseOutStep
<1>1. R \in SUBSET Res /\ "released" \in Ended
  BY DEF Active, Ended
<1>2. Ends(R, why, "released")
  BY <1>1 DEF ReleaseAll, Ends, Tags, ReleaseKinds
<1>3. DraftsKept
  BY TouchKeepsDrafts DEF ReleaseAll
<1>4. CloseOutStep
  BY <1>3, KeptDraftsCommitNothing DEF ReleaseAll, CloseOutStep
<1>5. QED
  BY <1>1, <1>2, <1>4 DEF ReservationStep

\* The shape of a step that uses a reservation.
LEMMA RecordUsageShape ==
  ASSUME TypeInv, NEW c \in Contexts, NEW r \in Res, RecordUsage(c, r)
  PROVE  Shape
<1>1. \A k \in Tags, s \in Res : <<k, s>> \notin Key(c[2])
  BY DEF Key, Tags, ReleaseKinds
<1>2. Ends({r}, "consume-release", "consumed")
  <2>1. \A s \in Res \ {r} : used'[s] = used[s]
    BY RecordUsageType
  <2>2. ledger' = ledger \cup {<<"consume-release", r>>} \cup Key(c[2])
    BY DEF RecordUsage
  <2>3. /\ {r} \subseteq Active
        /\ status' = [s \in Res |-> IF s \in {r} THEN "consumed" ELSE status[s]]
        /\ UNCHANGED claim
    BY DEF RecordUsage, Active, TypeInv, TypeOK
  <2>4. QED
    BY <1>1, <2>1, <2>2, <2>3 DEF Ends, Tags, ReleaseKinds, Ended
<1>3. DraftsKept
  BY TouchKeepsDrafts DEF RecordUsage
<1>4. CloseOutStep
  <2>1. \A s \in Res : status'[s] = "settled" => status[s] = "settled"
    BY DEF RecordUsage, TypeInv, TypeOK
  <2>2. QED
    BY <1>3, <2>1, KeptDraftsCommitNothing DEF CloseOutStep
<1>5. LifeStep
  BY DEF RecordUsage, life, LifeStep, ActiveProject, Readable
<1>6. {r} \in SUBSET Res /\ "consume-release" \in ReleaseKinds /\ "consumed" \in Ended
  BY DEF ReleaseKinds, Ended
<1>7. QED
  BY <1>2, <1>4, <1>5, <1>6 DEF Shape, ReservationStep

\* Archiving and removing a project empty it, whatever was reserved for it.
LEMMA ProjectShape ==
  ASSUME TypeInv, NEW c \in Contexts, NEW p \in Projects,
         ArchiveProject(c, p) \/ RestoreProject(c, p) \/ RemoveProject(c, p)
  PROVE  Shape
<1>1. ActiveIn(p) \in SUBSET Active /\ "archive" \in ReleaseKinds /\ "remove" \in ReleaseKinds
  BY DEF ActiveIn, ReleaseKinds
<1>2. ASSUME NEW why \in ReleaseKinds, ReleaseAll(ActiveIn(p), why, "released"),
             archived' \cup removed' \subseteq archived \cup removed \cup {p},
             archived \subseteq archived', removed \subseteq removed'
      PROVE  Shape
  <2>1. ActiveIn(p)' = {}
    BY <1>2 DEF ReleaseAll, ActiveIn, Active
  <2>2. LifeStep
    BY <1>2, <2>1 DEF LifeStep, ActiveProject, Readable
  <2>3. QED
    BY <1>1, <1>2, <2>2, ReleaseAllShape DEF Shape
<1>3. CASE ArchiveProject(c, p)
  <2>1. CASE p \in archived
    <3>1. Quiet /\ DraftsKept /\ UNCHANGED <<archived, removed>>
      BY <1>3, <2>1, UntouchedDraftsAreKept DEF ArchiveProject, Quiet, claims, life
    <3>2. QED
      BY <3>1, QuietShape
  <2>2. CASE p \notin archived
    BY <1>1, <1>2, <1>3, <2>2 DEF ArchiveProject
  <2>3. QED
    BY <2>1, <2>2
<1>4. CASE RestoreProject(c, p)
  <2>1. Quiet /\ DraftsKept /\ archived' \subseteq archived /\ removed' \subseteq removed
    BY <1>4, UntouchedDraftsAreKept DEF RestoreProject, Quiet, claims
  <2>2. QED
    BY <2>1, QuietShape
<1>5. CASE RemoveProject(c, p)
  BY <1>1, <1>2, <1>5 DEF RemoveProject
<1>6. QED
  BY <1>3, <1>4, <1>5

\* The stock commands never touch what belongs to a reservation, whatever key
\* their event is stored under.
LEMMA StockShape ==
  ASSUME TypeInv, NEW c \in Contexts, NEW i \in Items, NEW q \in 0..MaxQty,
         \/ \E b \in BodyKeys \cup {NoKey}, t \in EventTypes : RecordStockEvent(c, b, i, t, q)
         \/ \E how \in {"count", "commission"} : RecordCount(c, i, q, how)
         \/ UpdateItem(c, i)
         \/ RetireItem(c, i)
  PROVE  Shape
<1>1. CASE \E b \in BodyKeys \cup {NoKey}, t \in EventTypes : RecordStockEvent(c, b, i, t, q)
  <2>1. PICK b \in BodyKeys \cup {NoKey}, t \in EventTypes : RecordStockEvent(c, b, i, t, q)
    BY <1>1
  <2>2. \A x : \A k \in Tags, s \in Res : <<k, s>> \notin Key(x)
    BY DEF Key, Tags, ReleaseKinds
  <2>3. Quiet
    <3>1. UNCHANGED <<status, claim, used>>
      BY <2>1 DEF RecordStockEvent, claims
    <3>2. \E x : ledger' = ledger \/ ledger' = ledger \cup Key(x)
      BY <2>1 DEF RecordStockEvent
    <3>3. QED
      BY <2>2, <3>1, <3>2 DEF Quiet
  <2>4. DraftsKept
    BY <2>1, TouchKeepsDrafts, UntouchedDraftsAreKept DEF RecordStockEvent
  <2>5. UNCHANGED <<archived, removed>>
    BY <2>1 DEF RecordStockEvent, life
  <2>6. QED
    BY <2>3, <2>4, <2>5, QuietShape
<1>2. CASE \E how \in {"count", "commission"} : RecordCount(c, i, q, how)
  <2>1. PICK how \in {"count", "commission"} : RecordCount(c, i, q, how)
    BY <1>2
  <2>2. Quiet
    <3>1. PICK x : ledger' = ledger \/ ledger' = ledger \cup {<<how, x>>}
      BY <2>1 DEF RecordCount
    <3>2. UNCHANGED <<status, claim, used>>
      BY <2>1 DEF RecordCount, claims
    <3>3. QED
      BY <3>1, <3>2 DEF Quiet, Tags, ReleaseKinds
  <2>3. DraftsKept
    BY <2>1, TouchKeepsDrafts, UntouchedDraftsAreKept DEF RecordCount
  <2>4. UNCHANGED <<archived, removed>>
    BY <2>1 DEF RecordCount, life
  <2>5. QED
    BY <2>2, <2>3, <2>4, QuietShape
<1>3. CASE UpdateItem(c, i) \/ RetireItem(c, i)
  <2>1. Quiet /\ DraftsKept /\ UNCHANGED <<archived, removed>>
    BY <1>3, TouchKeepsDrafts DEF UpdateItem, RetireItem, Quiet, claims, life
  <2>2. QED
    BY <2>1, QuietShape
<1>4. QED
  BY <1>1, <1>2, <1>3

\* Saving a draft neither opens a committed close-out nor commits one.
LEMMA SaveDraftShape ==
  ASSUME TypeInv, NEW c \in Contexts, NEW v \in Revisions, NEW plan \in Plans(v),
         SaveDraft(c, v, plan)
  PROVE  Shape
<1>1. Quiet /\ UNCHANGED <<archived, removed>>
  BY DEF SaveDraft, Quiet, claims, life
<1>2. LifeStep
  BY <1>1 DEF LifeStep, ActiveProject, Readable
<1>3. /\ draft[v].state # "committed"
      /\ draft'[v] = [state |-> "draft", plan |-> plan, current |-> TRUE, basis |-> Basis(v)]
      /\ \A w \in Revisions \ {v} : draft'[w] = draft[w]
  BY DEF SaveDraft, TypeInv, TypeOK
<1>4. draft'[v].state = "draft"
  BY <1>3
<1>5. CloseOutStep
  BY <1>1, <1>3, <1>4 DEF CloseOutStep, Quiet
<1>6. QED
  BY <1>1, <1>2, <1>5 DEF Shape, ReservationStep

\* Committing settles every active reservation of the revision by its plan.
LEMMA CommitShape ==
  ASSUME TypeInv, NEW c \in Contexts, NEW v \in Revisions, CommitReconciliation(c, v)
  PROVE  Shape
<1> DEFINE R == ActiveOf(v)
<1>1. R \in SUBSET Res /\ R \subseteq Active
      /\ "reconcile-release" \in ReleaseKinds /\ "settled" \in Ended
  BY DEF ActiveOf, Active, ReleaseKinds, Ended
<1>2. /\ status' = [r \in Res |-> IF r \in R THEN "settled" ELSE status[r]]
      /\ used' = [r \in Res |-> IF r \in R THEN Taken(v, r) ELSE used[r]]
      /\ UNCHANGED <<claim, archived, removed>>
      /\ DOMAIN draft[v].plan = R
      /\ draft[v].state = "draft"
  BY DEF CommitReconciliation, Freed, Rest, life
<1>3. Ends(R, "reconcile-release", "settled")
  <2>1. PICK S \in SUBSET R :
          ledger' = ledger \cup {<<"reconcile-release", r>> : r \in R}
                           \cup {<<"reconcile-consume", r>> : r \in S}
    BY DEF CommitReconciliation, Freed, Rest
  <2>2. QED
    BY <1>1, <1>2, <2>1 DEF Ends, Tags, ReleaseKinds
<1>4. LifeStep
  BY <1>2 DEF LifeStep, ActiveProject, Readable
<1>5. /\ draft'[v].state = "committed" /\ draft'[v].plan = draft[v].plan
      /\ \A w \in Revisions \ {v} :
           draft'[w].state = draft[w].state /\ draft'[w].plan = draft[w].plan
  <2>1. draft'[v] = [state |-> "committed", plan |-> draft[v].plan,
                     current |-> draft[v].current, basis |-> draft[v].basis]
    BY CommitDrafts
  <2>2. ASSUME NEW w \in Revisions \ {v}
        PROVE  draft'[w].state = draft[w].state /\ draft'[w].plan = draft[w].plan
    <3>1. draft'[w] = [state |-> draft[w].state, plan |-> draft[w].plan,
                       current |-> draft'[w].current, basis |-> draft[w].basis]
      BY CommitDrafts
    <3>2. QED
      BY <3>1
  <2>3. QED
    BY <2>1, <2>2
<1>6. CloseOutStep
  <2>1. ActiveOf(v)' = {}
    BY <1>2 DEF ActiveOf, Active
  <2>2. ASSUME NEW r \in Res, status'[r] = "settled", status[r] # "settled"
        PROVE  LET w == claim[r].rev IN
               /\ status[r] = "active"
               /\ draft'[w].state = "committed"
               /\ r \in DOMAIN draft'[w].plan
               /\ <<"reconcile-consume", r>> \notin ledger => used'[r] = draft'[w].plan[r]
    <3>1. r \in R
      BY <1>2, <2>2
    <3>2. claim[r].rev = v /\ status[r] = "active"
      BY <3>1 DEF ActiveOf, Active
    <3>3. <<"reconcile-consume", r>> \notin ledger => used'[r] = draft[v].plan[r]
      BY <1>2, <3>1 DEF Taken
    <3>4. QED
      BY <1>2, <1>5, <3>1, <3>2, <3>3
  <2>3. QED
    BY <1>2, <1>5, <2>1, <2>2 DEF CloseOutStep
<1>7. QED
  BY <1>1, <1>3, <1>4, <1>6 DEF Shape, ReservationStep

\* Every step has the shape.
LEMMA StepShape == TypeInv /\ [Next]_vars => Shape
<1> SUFFICES ASSUME TypeInv, [Next]_vars PROVE Shape
  OBVIOUS
<1>1. CASE UNCHANGED vars
  <2>1. Quiet /\ DraftsKept /\ UNCHANGED <<archived, removed>>
    BY <1>1, UntouchedDraftsAreKept DEF vars, claims, life, Quiet
  <2>2. QED
    BY <2>1, QuietShape
<1>2. ASSUME NEW c \in Contexts, NEW r \in Res, ReleaseReservation(c, r)
      PROVE  Shape
  <2>1. {r} \in SUBSET Active /\ "release" \in ReleaseKinds
    BY <1>2 DEF ReleaseReservation, Active, ReleaseKinds
  <2>2. LifeStep
    BY <1>2 DEF ReleaseReservation, life, LifeStep, ActiveProject, Readable
  <2>3. QED
    BY <1>2, <2>1, <2>2, ReleaseAllShape DEF ReleaseReservation, Shape
<1>3. ASSUME NEW c \in Contexts, NEW i \in Items, UpdateItem(c, i) \/ RetireItem(c, i)
      PROVE  Shape
  <2>1. 0 \in 0..MaxQty
    BY ReservationsAssumption
  <2>2. QED
    BY <1>3, <2>1, StockShape
<1>4. QED
  BY <1>1, <1>2, <1>3, CreateReservationShape, RecordUsageShape, ProjectShape,
     StockShape, SaveDraftShape, CommitShape
  DEF Next

-----------------------------------------------------------------------------
(* Safety *)

\* What a reservation may do in a step: begin, stay or end.
LEMMA StatusStep ==
  ASSUME TypeInv, Shape, NEW r \in Res
  PROVE  /\ status[r] # "unused" => claim'[r] = claim[r]
         /\ status[r] \in Ended => status'[r] = status[r] /\ used'[r] = used[r]
         /\ status'[r] = status[r] => claim'[r] = claim[r]
         /\ status'[r] = "active" =>
              \/ status[r] = "active" /\ claim'[r] = claim[r]
              \/ Opens(r, claim'[r].rev) /\ claim'[r].rev \in Revisions
<1>1. CASE Quiet
  BY <1>1 DEF Quiet
<1>2. CASE \E s \in Res, v \in Revisions : Opens(s, v)
  <2>1. PICK s \in Res, v \in Revisions : Opens(s, v)
    BY <1>2
  <2>2. CASE s = r
    BY <2>1, <2>2 DEF Opens, TypeInv, TypeOK, Ended
  <2>3. CASE s # r
    BY <2>1, <2>3 DEF Opens, TypeInv, TypeOK
  <2>4. QED
    BY <2>2, <2>3
<1>3. CASE \E R \in SUBSET Res, why \in ReleaseKinds, end \in Ended : Ends(R, why, end)
  BY <1>3 DEF Ends, Active, Ended
<1>4. QED
  BY <1>1, <1>2, <1>3 DEF Shape, ReservationStep

\* A reservation ends once, and its claim is never rewritten: no retry, no
\* archive after a usage and no close-out after a release ends it again.
THEOREM ReservationsEndOnce == Spec => EndsOnce
<1>1. TypeInv /\ [Next]_vars =>
        [\A r \in Res :
           /\ status[r] \in Ended => status'[r] = status[r] /\ used'[r] = used[r]
           /\ status[r] # "unused" => claim'[r] = claim[r]]_vars
  BY StepShape, StatusStep
<1>2. QED
  BY <1>1, TypeInvInit, TypeInvStep, PTL DEF Spec, EndsOnce

\* A step keeps reservations within the life of their projects.
LEMMA LifeInvStep ==
  TypeInv /\ NoReservationOutlivesItsProject /\ [Next]_vars => NoReservationOutlivesItsProject'
<1> SUFFICES ASSUME TypeInv, NoReservationOutlivesItsProject, [Next]_vars,
                    NEW r \in Res, status'[r] = "active"
             PROVE  ActiveProject(ProjectOf[claim[r].rev])'
  BY DEF NoReservationOutlivesItsProject, Active
<1>1. Shape
  BY StepShape
<1>2. CASE status[r] = "active" /\ claim'[r] = claim[r]
  <2>1. PICK p \in Projects : p = ProjectOf[claim[r].rev]
    BY <1>2, ReservationsAssumption DEF TypeInv, TypeOK, Claims
  <2>2. ActiveProject(p)
    BY <1>2, <2>1 DEF NoReservationOutlivesItsProject, Active
  <2>3. ActiveIn(p)' # {}
    BY <1>2, <2>1 DEF ActiveIn, Active
  <2>4. ActiveProject(p)'
    BY <1>1, <2>2, <2>3 DEF Shape, LifeStep
  <2>5. QED
    BY <1>2, <2>1, <2>4 DEF ActiveProject, Readable
<1>3. CASE Opens(r, claim'[r].rev)
  BY <1>3 DEF Opens, ActiveProject, Readable
<1>4. QED
  BY <1>1, <1>2, <1>3, StatusStep

\* No reservation is left behind by a project that was archived or removed.
THEOREM ProjectsReleaseAll == Spec => []NoReservationOutlivesItsProject
<1>1. Init => NoReservationOutlivesItsProject
  BY DEF Init, NoReservationOutlivesItsProject, Active
<1>2. QED
  BY <1>1, TypeInvInit, TypeInvStep, LifeInvStep, PTL DEF Spec

\* A step keeps committed revisions free of reservations.
LEMMA CommittedInvStep ==
  TypeInv /\ CommittedMeansSettled /\ [Next]_vars => CommittedMeansSettled'
<1> SUFFICES ASSUME TypeInv, CommittedMeansSettled, [Next]_vars,
                    NEW v \in Revisions, draft'[v].state = "committed",
                    NEW r \in Res, status'[r] = "active", claim'[r].rev = v
             PROVE  FALSE
  BY DEF CommittedMeansSettled, ActiveOf, Active
<1>1. Shape
  BY StepShape
<1>2. CASE draft[v].state # "committed"
  <2>1. ActiveOf(v)' = {}
    BY <1>1, <1>2 DEF Shape, CloseOutStep
  <2>2. QED
    BY <2>1 DEF ActiveOf, Active
<1>3. CASE draft[v].state = "committed"
  <2>1. ~Opens(r, claim'[r].rev)
    BY <1>3 DEF Opens
  <2>2. status[r] = "active" /\ claim'[r] = claim[r]
    BY <1>1, <2>1, StatusStep
  <2>3. QED
    BY <1>3, <2>2 DEF CommittedMeansSettled, ActiveOf, Active
<1>4. QED
  BY <1>2, <1>3

\* A committed close-out leaves nothing reserved and nothing is reserved later.
THEOREM CommittedRevisionsStaySettled == Spec => []CommittedMeansSettled
<1>1. Init => CommittedMeansSettled
  BY DEF Init, CommittedMeansSettled, ActiveOf, Active
<1>2. QED
  BY <1>1, TypeInvInit, TypeInvStep, CommittedInvStep, PTL DEF Spec

\* Work that is over, archived or closed out, has no stock set aside.
THEOREM NothingStaysReserved == Spec => []NothingLeftReserved
BY ProjectsReleaseAll, CommittedRevisionsStaySettled, PTL DEF NothingLeftReserved

\* OneReleasePerReservation, and no reservation that has not ended has the
\* destructive event of a close-out in the ledger.
LedgerInv ==
  /\ OneReleasePerReservation
  /\ \A r \in Res : status[r] \notin Ended => <<"reconcile-consume", r>> \notin ledger

\* The ledger is empty initially.
LEMMA LedgerInvInit == Init => LedgerInv
BY DEF Init, LedgerInv, OneReleasePerReservation, Ended

\* A step keeps the pairing of allocations and releases.
LEMMA LedgerInvStep == TypeInv /\ LedgerInv /\ [Next]_vars => LedgerInv'
<1> SUFFICES ASSUME TypeInv, LedgerInv, [Next]_vars PROVE LedgerInv'
  OBVIOUS
<1>1. Shape
  BY StepShape
<1>2. CASE Quiet
  BY <1>2 DEF Quiet, LedgerInv, OneReleasePerReservation, Tags
<1>3. CASE \E s \in Res, v \in Revisions : Opens(s, v)
  <2>1. PICK s \in Res, v \in Revisions : Opens(s, v)
    BY <1>3
  <2>2. \A r \in Res : status'[r] = IF r = s THEN "active" ELSE status[r]
    BY <2>1 DEF Opens, TypeInv, TypeOK
  <2>3. \A k \in Tags, r \in Res :
          <<k, r>> \in ledger' <=> <<k, r>> \in ledger \/ (k = "allocate" /\ r = s)
    BY <2>1 DEF Opens
  <2>4. \A k \in Tags : k # "allocate" => \A r \in Res : <<k, r>> \in ledger' <=> <<k, r>> \in ledger
    BY <2>3
  <2>5. status[s] = "unused"
    BY <2>1 DEF Opens
  <2>6. ASSUME NEW r \in Res
        PROVE  /\ <<"allocate", r>> \in ledger' <=> status'[r] # "unused"
               /\ status'[r] \notin Ended => \A k \in ReleaseKinds : <<k, r>> \notin ledger'
               /\ status'[r] \in Ended =>
                    \E k \in ReleaseKinds :
                      /\ <<k, r>> \in ledger'
                      /\ \A other \in ReleaseKinds : <<other, r>> \in ledger' => other = k
    <3>1. \A k \in ReleaseKinds : <<k, r>> \in ledger' <=> <<k, r>> \in ledger
      BY <2>4 DEF Tags, ReleaseKinds
    <3>2. status'[r] \in Ended <=> status[r] \in Ended
      BY <2>2, <2>5 DEF Ended
    <3>3. <<"allocate", r>> \in ledger' <=> status'[r] # "unused"
      BY <2>2, <2>3 DEF LedgerInv, OneReleasePerReservation, Tags
    <3>4. QED
      BY <3>1, <3>2, <3>3 DEF LedgerInv, OneReleasePerReservation
  <2>7. QED
    BY <2>2, <2>4, <2>5, <2>6 DEF LedgerInv, OneReleasePerReservation, Tags, Ended
<1>4. CASE \E R \in SUBSET Res, why \in ReleaseKinds, end \in Ended : Ends(R, why, end)
  <2>1. PICK R \in SUBSET Res, why \in ReleaseKinds, end \in Ended : Ends(R, why, end)
    BY <1>4
  <2>2. \A r \in Res : status'[r] = IF r \in R THEN end ELSE status[r]
    BY <2>1 DEF Ends
  <2>3. \A k \in ReleaseKinds \cup {"allocate"}, r \in Res :
          <<k, r>> \in ledger' <=> <<k, r>> \in ledger \/ (k = why /\ r \in R)
    BY <2>1 DEF Ends, Tags, ReleaseKinds
  <2>4. \A r \in Res \ R : <<"reconcile-consume", r>> \in ledger' <=> <<"reconcile-consume", r>> \in ledger
    BY <2>1 DEF Ends, Tags, ReleaseKinds
  <2>5. \A r \in R : status[r] = "active" /\ status[r] \notin Ended
    BY <2>1 DEF Ends, Active, Ended
  <2>6. ASSUME NEW r \in Res
        PROVE  /\ <<"allocate", r>> \in ledger' <=> status'[r] # "unused"
               /\ status'[r] \notin Ended => \A k \in ReleaseKinds : <<k, r>> \notin ledger'
               /\ status'[r] \in Ended =>
                    \E k \in ReleaseKinds :
                      /\ <<k, r>> \in ledger'
                      /\ \A other \in ReleaseKinds : <<other, r>> \in ledger' => other = k
    <3>1. <<"allocate", r>> \in ledger' <=> <<"allocate", r>> \in ledger
      BY <2>3 DEF ReleaseKinds
    <3>2. CASE r \in R
      <4>1. status'[r] = end /\ end # "unused" /\ status[r] # "unused" /\ status[r] \notin Ended
        BY <2>2, <2>5, <3>2 DEF Ended
      <4>2. \A k \in ReleaseKinds : <<k, r>> \in ledger' <=> k = why
        BY <2>3, <3>2, <4>1 DEF LedgerInv, OneReleasePerReservation
      <4>3. QED
        BY <3>1, <4>1, <4>2 DEF LedgerInv, OneReleasePerReservation
    <3>3. CASE r \notin R
      <4>1. status'[r] = status[r]
        BY <2>2, <3>3
      <4>2. \A k \in ReleaseKinds : <<k, r>> \in ledger' <=> <<k, r>> \in ledger
        BY <2>3, <3>3
      <4>3. QED
        BY <3>1, <4>1, <4>2 DEF LedgerInv, OneReleasePerReservation
    <3>4. QED
      BY <3>2, <3>3
  <2>7. QED
    BY <2>2, <2>4, <2>6 DEF LedgerInv, OneReleasePerReservation
<1>5. QED
  BY <1>1, <1>2, <1>3, <1>4 DEF Shape, ReservationStep

\* However a reservation ends, its allocation is released exactly once.
THEOREM OneRelease == Spec => []OneReleasePerReservation
<1>1. LedgerInv => OneReleasePerReservation
  BY DEF LedgerInv
<1>2. QED
  BY <1>1, TypeInvInit, TypeInvStep, LedgerInvInit, LedgerInvStep, PTL DEF Spec

\* A step settles by the plan and leaves what is settled.
LEMMA SettledInvStep ==
  TypeInv /\ LedgerInv /\ SettledAsReviewed /\ [Next]_vars => SettledAsReviewed'
<1> SUFFICES ASSUME TypeInv, LedgerInv, SettledAsReviewed, [Next]_vars,
                    NEW r \in Res, status'[r] = "settled"
             PROVE  LET d == draft'[claim'[r].rev] IN
                    d.state = "committed" /\ r \in DOMAIN d.plan /\ used'[r] = d.plan[r]
  BY DEF SettledAsReviewed
<1>1. Shape
  BY StepShape
<1>2. CASE status[r] = "settled"
  <2>1. claim'[r] = claim[r] /\ used'[r] = used[r] /\ claim[r].rev \in Revisions
    BY <1>1, <1>2, StatusStep DEF Ended, TypeInv, TypeOK, Claims
  <2>2. QED
    BY <1>1, <1>2, <2>1 DEF SettledAsReviewed, Shape, CloseOutStep
<1>3. CASE status[r] # "settled"
  <2>1. /\ status[r] = "active"
        /\ draft'[claim[r].rev].state = "committed"
        /\ r \in DOMAIN draft'[claim[r].rev].plan
        /\ <<"reconcile-consume", r>> \notin ledger =>
             used'[r] = draft'[claim[r].rev].plan[r]
    BY <1>1, <1>3 DEF Shape, CloseOutStep
  <2>2. claim'[r] = claim[r]
    BY <1>1, <2>1, StatusStep
  <2>3. <<"reconcile-consume", r>> \notin ledger
    BY <2>1 DEF LedgerInv, Ended
  <2>4. QED
    BY <2>1, <2>2, <2>3
<1>4. QED
  BY <1>2, <1>3

\* What a settled reservation took is what the committed review says, and the
\* review can no longer be edited.
THEOREM SettlementFollowsReview == Spec => []SettledAsReviewed
<1>1. Init => SettledAsReviewed
  BY DEF Init, SettledAsReviewed
<1>2. QED
  BY <1>1, TypeInvInit, TypeInvStep, LedgerInvInit, LedgerInvStep, SettledInvStep, PTL DEF Spec

-----------------------------------------------------------------------------
(* Used stock, when every idempotency key is the key of one client *)

OwnKeysOnly ==
  /\ BodyKeys \subseteq {NoKey}
  /\ \A c, d \in Contexts : c[2] = d[2] /\ c[2] # NoKey => c = d

\* A client key in the ledger belongs to a command that was answered.
KeysAnswered ==
  \A k : <<"command", k>> \in ledger =>
    \E c \in Contexts : c[2] = k /\ c \in replied

\* A step stores at most the key of the command it answers.
KeyStep ==
  \E c \in Contexts :
    /\ Reply(c)
    /\ \A k : <<"command", k>> \in ledger' =>
         <<"command", k>> \in ledger \/ (k = c[2] /\ k # NoKey)

\* Every command is such a step.
LEMMA NextKeyStep == ASSUME OwnKeysOnly, Next PROVE KeyStep
<1>1. ASSUME NEW R, NEW why \in ReleaseKinds, NEW end, ReleaseAll(R, why, end)
      PROVE  \A k : <<"command", k>> \in ledger' => <<"command", k>> \in ledger
  BY <1>1 DEF ReleaseAll, ReleaseKinds
<1>2. "release" \in ReleaseKinds /\ "archive" \in ReleaseKinds /\ "remove" \in ReleaseKinds
  BY DEF ReleaseKinds
<1>3. ASSUME NEW c \in Contexts, NEW r \in Res, NEW v \in Revisions, NEW i \in Items,
             NEW q \in 1..MaxQty, CreateReservation(c, r, v, i, q)
      PROVE  KeyStep
  BY <1>3 DEF CreateReservation, KeyStep
<1>4. ASSUME NEW c \in Contexts, NEW r \in Res, ReleaseReservation(c, r)
      PROVE  KeyStep
  BY <1>1, <1>2, <1>4 DEF ReleaseReservation, KeyStep
<1>5. ASSUME NEW c \in Contexts, NEW r \in Res, RecordUsage(c, r)
      PROVE  KeyStep
  <2>1. Reply(c) /\ ledger' = ledger \cup {<<"consume-release", r>>} \cup Key(c[2])
    BY <1>5 DEF RecordUsage
  <2>2. QED
    BY <2>1 DEF Key, KeyStep
<1>6. ASSUME NEW c \in Contexts, NEW p \in Projects,
             ArchiveProject(c, p) \/ RestoreProject(c, p) \/ RemoveProject(c, p)
      PROVE  KeyStep
  <2>1. CASE ArchiveProject(c, p)
    <3>1. Reply(c) /\ (UNCHANGED ledger \/ ReleaseAll(ActiveIn(p), "archive", "released"))
      BY <2>1 DEF ArchiveProject
    <3>2. QED
      BY <1>1, <1>2, <3>1 DEF KeyStep
  <2>2. CASE RestoreProject(c, p)
    BY <2>2 DEF RestoreProject, KeyStep
  <2>3. CASE RemoveProject(c, p)
    BY <1>1, <1>2, <2>3 DEF RemoveProject, KeyStep
  <2>4. QED
    BY <1>6, <2>1, <2>2, <2>3
<1>7. ASSUME NEW c \in Contexts, NEW i \in Items, NEW b \in BodyKeys \cup {NoKey},
             NEW t \in EventTypes, NEW q \in 0..MaxQty, RecordStockEvent(c, b, i, t, q)
      PROVE  KeyStep
  <2>1. b = NoKey
    BY DEF OwnKeysOnly
  <2>2. Reply(c) /\ (ledger' = ledger \/ ledger' = ledger \cup Key(c[2]))
    BY <1>7, <2>1 DEF RecordStockEvent
  <2>3. QED
    BY <2>2 DEF Key, KeyStep
<1>8. ASSUME NEW c \in Contexts, NEW i \in Items, NEW q \in 0..MaxQty,
             NEW how \in {"count", "commission"}, RecordCount(c, i, q, how)
      PROVE  KeyStep
  <2>1. PICK x : Reply(c) /\ (ledger' = ledger \/ ledger' = ledger \cup {<<how, x>>})
    BY <1>8 DEF RecordCount
  <2>2. QED
    BY <2>1 DEF KeyStep
<1>9. ASSUME NEW c \in Contexts, NEW i \in Items, UpdateItem(c, i) \/ RetireItem(c, i)
      PROVE  KeyStep
  BY <1>9 DEF UpdateItem, RetireItem, KeyStep
<1>10. ASSUME NEW c \in Contexts, NEW v \in Revisions, NEW plan, SaveDraft(c, v, plan)
       PROVE  KeyStep
  BY <1>10 DEF SaveDraft, KeyStep
<1>11. ASSUME NEW c \in Contexts, NEW v \in Revisions, CommitReconciliation(c, v)
       PROVE  KeyStep
  <2>1. PICK S :
          /\ Reply(c)
          /\ ledger' = ledger \cup {<<"reconcile-release", r>> : r \in ActiveOf(v)}
                              \cup {<<"reconcile-consume", r>> : r \in S}
    BY <1>11 DEF CommitReconciliation, Freed, Rest
  <2>2. QED
    BY <2>1 DEF KeyStep
<1>12. QED
  BY <1>3, <1>4, <1>5, <1>6, <1>7, <1>8, <1>9, <1>10, <1>11 DEF Next

\* Only recordUsage consumes a reservation.
LEMMA OnlyUsageConsumes ==
  ASSUME TypeInv, Next, NEW r \in Res, status'[r] = "consumed", status[r] # "consumed"
  PROVE  \E c \in Contexts : RecordUsage(c, r)
<1>1. ASSUME NEW R, NEW why, ReleaseAll(R, why, "released")
      PROVE  FALSE
  BY <1>1 DEF ReleaseAll
<1>2. ASSUME NEW c \in Contexts, NEW s \in Res, RecordUsage(c, s)
      PROVE  s = r
  BY <1>2 DEF RecordUsage, TypeInv, TypeOK
<1>3. ASSUME NEW c \in Contexts, NEW s \in Res, NEW v \in Revisions, NEW i \in Items,
             NEW q \in 1..MaxQty, CreateReservation(c, s, v, i, q)
      PROVE  FALSE
  BY <1>3 DEF CreateReservation, TypeInv, TypeOK
<1>4. ASSUME NEW c \in Contexts, NEW s \in Res, ReleaseReservation(c, s)
      PROVE  FALSE
  BY <1>1, <1>4 DEF ReleaseReservation
<1>5. ASSUME NEW c \in Contexts, NEW p \in Projects,
             ArchiveProject(c, p) \/ RestoreProject(c, p) \/ RemoveProject(c, p)
      PROVE  FALSE
  BY <1>1, <1>5 DEF ArchiveProject, RestoreProject, RemoveProject, claims
<1>6. ASSUME NEW c \in Contexts, NEW i \in Items,
             \/ \E b \in BodyKeys \cup {NoKey}, t \in EventTypes, q \in 0..MaxQty :
                  RecordStockEvent(c, b, i, t, q)
             \/ \E q \in 0..MaxQty, how \in {"count", "commission"} : RecordCount(c, i, q, how)
             \/ UpdateItem(c, i)
             \/ RetireItem(c, i)
      PROVE  FALSE
  BY <1>6 DEF RecordStockEvent, RecordCount, UpdateItem, RetireItem, claims
<1>7. ASSUME NEW c \in Contexts, NEW v \in Revisions,
             (\E plan : SaveDraft(c, v, plan)) \/ CommitReconciliation(c, v)
      PROVE  FALSE
  BY <1>7 DEF SaveDraft, CommitReconciliation, claims
<1>8. QED
  BY <1>2, <1>3, <1>4, <1>5, <1>6, <1>7 DEF Next

ConsumedInv == KeysAnswered /\ ConsumedStockIsTaken

\* With keys of their own, clients always get the stock event their usage asks for.
LEMMA ConsumedInvStep ==
  ASSUME OwnKeysOnly
  PROVE  TypeInv /\ ConsumedInv /\ [Next]_vars => ConsumedInv'
<1> SUFFICES ASSUME TypeInv, ConsumedInv, [Next]_vars PROVE ConsumedInv'
  OBVIOUS
<1>1. CASE UNCHANGED vars
  BY <1>1 DEF vars, claims, ConsumedInv, KeysAnswered, ConsumedStockIsTaken
<1>2. CASE Next
  <2>1. KeysAnswered'
    <3>1. PICK c \in Contexts :
            /\ Reply(c)
            /\ \A k : <<"command", k>> \in ledger' =>
                 <<"command", k>> \in ledger \/ (k = c[2] /\ k # NoKey)
      BY <1>2, NextKeyStep DEF KeyStep
    <3>2. QED
      BY <3>1 DEF ConsumedInv, KeysAnswered, Reply
  <2>2. ASSUME NEW r \in Res, status'[r] = "consumed"
        PROVE  used'[r] = claim'[r].qty
    <3>1. Shape
      BY StepShape
    <3>2. CASE status[r] = "consumed"
      BY <2>2, <3>1, <3>2, StatusStep DEF Ended, ConsumedInv, ConsumedStockIsTaken
    <3>3. CASE status[r] # "consumed"
      <4>1. PICK c \in Contexts : RecordUsage(c, r)
        BY <1>2, <2>2, <3>3, OnlyUsageConsumes
      <4>2. ~Known(Key(c[2]))
        <5>1. c[2] = NoKey \/ c \notin replied
          BY <4>1 DEF RecordUsage, Fresh
        <5>2. c[2] # NoKey => <<"command", c[2]>> \notin ledger
          BY <5>1 DEF ConsumedInv, KeysAnswered, OwnKeysOnly
        <5>3. QED
          BY <5>2 DEF Known, Key
      <4>3. used'[r] = claim[r].qty
        BY <4>1, <4>2, RecordUsageType
      <4>4. claim'[r] = claim[r]
        BY <4>1 DEF RecordUsage
      <4>5. QED
        BY <4>3, <4>4
    <3>4. QED
      BY <3>2, <3>3
  <2>3. QED
    BY <2>1, <2>2 DEF ConsumedInv, ConsumedStockIsTaken
<1>3. QED
  BY <1>1, <1>2

\* As long as no two clients choose the same idempotency key, a usage always
\* takes the whole reserved quantity off the shelf.
THEOREM UsageTakesStock ==
  ASSUME OwnKeysOnly
  PROVE  Spec => []ConsumedStockIsTaken
<1>1. Init => ConsumedInv
  BY DEF Init, ConsumedInv, KeysAnswered, ConsumedStockIsTaken
<1>2. ConsumedInv => ConsumedStockIsTaken
  BY DEF ConsumedInv
<1>3. TypeInv /\ ConsumedInv /\ [Next]_vars => ConsumedInv'
  BY ConsumedInvStep
<1>4. QED
  BY <1>1, <1>2, <1>3, TypeInvInit, TypeInvStep, PTL DEF Spec

-----------------------------------------------------------------------------
(* Reserved stock is held *)

\* What the reservations of A claim of item i, by the claims c.
ClaimsOn(c, A, i) == {r \in A : c[r].item = i}
SumOfClaims(c, A, i) ==
  SumFunctionOnSet([r \in Res |-> c[r].qty], ClaimsOn(c, A, i))

\* The allocations of the balances b cover the claims c of the reservations in A.
Covered(b, c, A) == \A i \in Items : SumOfClaims(c, A, i) <= b[i].allocated

\* A sum of claims needs only the claims it adds up.
LEMMA SumOfSameClaims ==
  ASSUME NEW A \in SUBSET Res, IsFiniteSet(A), NEW i, NEW c, NEW d,
         \A r \in A : d[r] = c[r]
  PROVE  SumOfClaims(d, A, i) = SumOfClaims(c, A, i)
<1>1. ClaimsOn(d, A, i) = ClaimsOn(c, A, i)
  BY DEF ClaimsOn
<1> DEFINE S == ClaimsOn(c, A, i)
           f == [r \in Res |-> c[r].qty]
           g == [r \in Res |-> d[r].qty]
<1>2. S \subseteq A /\ IsFiniteSet(S)
  BY FS_Subset DEF ClaimsOn
<1>3. \A r \in S : f[r] = g[r]
  BY <1>2
<1>4. SumFunctionOnSet(f, S) = SumFunctionOnSet(g, S)
  <2> HIDE DEF f, g, S
  <2> QED BY <1>2, <1>3, SumAgree
<1> QED
  BY <1>1, <1>4, Zenon DEF SumOfClaims

\* Claimed, read before or after a step.
LEMMA ClaimedIsSum ==
  ASSUME NEW A \in SUBSET Res, IsFiniteSet(A), NEW i
  PROVE  /\ Claimed(i, A) = SumOfClaims(claim, A, i)
         /\ Claimed(i, A)' = SumOfClaims(claim', A, i)
<1>1. ASSUME NEW c
      PROVE  SumFunction([r \in ClaimsOn(c, A, i) |-> c[r].qty]) = SumOfClaims(c, A, i)
  <2> DEFINE S == ClaimsOn(c, A, i)
             f == [r \in S |-> c[r].qty]
             g == [r \in Res |-> c[r].qty]
  <2>1. S \subseteq Res /\ IsFiniteSet(S)
    BY FS_Subset DEF ClaimsOn
  <2>2. \A r \in S : f[r] = g[r]
    BY <2>1
  <2>3. SumFunctionOnSet(f, S) = SumFunctionOnSet(g, S)
    <3> HIDE DEF f, g, S
    <3> QED BY <2>1, <2>2, SumAgree
  <2>4. DOMAIN f = S
    OBVIOUS
  <2>5. SumFunction(f) = SumFunctionOnSet(f, S)
    <3> HIDE DEF f, S
    <3> QED BY <2>4, Zenon DEF SumFunction
  <2> QED BY <2>3, <2>5 DEF SumOfClaims
<1> QED
  BY <1>1 DEF Claimed, Quantity, ClaimsOn

\* The claims of active reservations are positive amounts of items.
LEMMA ActiveClaims ==
  ASSUME TypeInv
  PROVE  \A r \in Active : /\ claim[r].item \in Items
                           /\ claim[r].qty \in Nat \ {0}
BY ReservationsAssumption DEF TypeInv, TypeOK, Active, Claims

\* A step that ends and begins nothing and takes back no allocation.
LEMMA CoveredKept ==
  ASSUME NEW A \in SUBSET Res, IsFiniteSet(A), NEW c, NEW d, \A r \in A : d[r] = c[r],
         \A r \in A : c[r].qty \in Nat,
         NEW a, NEW b, Covered(a, c, A),
         \A i \in Items : /\ a[i].allocated \in Nat /\ b[i].allocated \in Nat
                          /\ a[i].allocated <= b[i].allocated
  PROVE  Covered(b, d, A)
<1> SUFFICES ASSUME NEW i \in Items PROVE SumOfClaims(d, A, i) <= b[i].allocated
  BY DEF Covered
<1>1. SumOfClaims(d, A, i) = SumOfClaims(c, A, i)
  BY SumOfSameClaims
<1>2. SumOfClaims(c, A, i) <= a[i].allocated
  BY DEF Covered
<1>3. SumOfClaims(c, A, i) \in Nat
  <2>1. ClaimsOn(c, A, i) \subseteq A /\ IsFiniteSet(ClaimsOn(c, A, i))
    BY FS_Subset DEF ClaimsOn
  <2> QED BY <2>1, SumNat DEF SumOfClaims
<1> QED BY <1>1, <1>2, <1>3

\* A step that ends the reservations in R and takes their claims back.
LEMMA CoveredReleased ==
  ASSUME NEW A \in SUBSET Res, IsFiniteSet(A), NEW R \in SUBSET A, NEW c,
         \A r \in A : c[r].qty \in Nat,
         NEW a, NEW b, Covered(a, c, A),
         \A i \in Items : /\ a[i].allocated \in Nat
                          /\ b[i].allocated = a[i].allocated - SumOfClaims(c, R, i)
  PROVE  Covered(b, c, A \ R)
<1> SUFFICES ASSUME NEW i \in Items PROVE SumOfClaims(c, A \ R, i) <= b[i].allocated
  BY DEF Covered
<1> DEFINE f == [r \in Res |-> c[r].qty]
           S == ClaimsOn(c, A, i)
           T == ClaimsOn(c, R, i)
<1>1. S \subseteq A /\ IsFiniteSet(S) /\ T \subseteq S
      /\ IsFiniteSet(T) /\ IsFiniteSet(S \ T)
  BY FS_Subset DEF ClaimsOn
<1>2. \A r \in S : f[r] \in Nat
  BY <1>1
<1>3. ClaimsOn(c, A \ R, i) = S \ T
  BY DEF ClaimsOn
<1>4. SumFunctionOnSet(f, S) = SumFunctionOnSet(f, T) + SumFunctionOnSet(f, S \ T)
  <2> HIDE DEF f, S, T
  <2> QED BY <1>1, <1>2, SumSplit
<1>5. /\ SumFunctionOnSet(f, T) \in Nat /\ SumFunctionOnSet(f, S \ T) \in Nat
      /\ SumFunctionOnSet(f, S) \in Nat
  <2> HIDE DEF f, S, T
  <2> QED BY <1>1, <1>2, SumNat
<1>6. SumOfClaims(c, A \ R, i) = SumFunctionOnSet(f, S \ T)
  BY <1>3, Zenon DEF SumOfClaims
<1>7. SumFunctionOnSet(f, S) <= a[i].allocated
  BY DEF Covered, SumOfClaims
<1>8. b[i].allocated = a[i].allocated - SumFunctionOnSet(f, T)
  BY DEF SumOfClaims
<1>9. a[i].allocated \in Nat
  OBVIOUS
<1> HIDE DEF f, S, T
<1> QED BY <1>4, <1>5, <1>6, <1>7, <1>8, <1>9

\* A step that begins reservation e and allocates what it claims.
LEMMA CoveredOpened ==
  ASSUME NEW A \in SUBSET Res, IsFiniteSet(A), NEW e \in Res \ A, NEW c, NEW d,
         \A r \in A : d[r] = c[r] /\ c[r].qty \in Nat,
         d[e].qty \in Nat,
         NEW a, NEW b, Covered(a, c, A),
         \A i \in Items :
           /\ a[i].allocated \in Nat
           /\ b[i].allocated = IF i = d[e].item THEN a[i].allocated + d[e].qty
                                                ELSE a[i].allocated
  PROVE  Covered(b, d, A \cup {e})
<1> SUFFICES ASSUME NEW i \in Items
             PROVE  SumOfClaims(d, A \cup {e}, i) <= b[i].allocated
  BY DEF Covered
<1>1. SumOfClaims(d, A, i) <= a[i].allocated
  BY SumOfSameClaims DEF Covered
<1> DEFINE f == [r \in Res |-> d[r].qty]
           S == ClaimsOn(d, A, i)
<1>2. S \subseteq A /\ IsFiniteSet(S) /\ e \notin S
  BY FS_Subset DEF ClaimsOn
<1>3. SumFunctionOnSet(f, S) <= a[i].allocated
  BY <1>1 DEF SumOfClaims
<1>4. \A r \in S \cup {e} : f[r] \in Nat
  BY <1>2
<1>5. SumFunctionOnSet(f, S) \in Nat
  <2> HIDE DEF f, S
  <2> QED BY <1>2, <1>4, SumNat
<1>6. CASE i = d[e].item
  <2>1. ClaimsOn(d, A \cup {e}, i) = S \cup {e}
    BY <1>6 DEF ClaimsOn
  <2>2. SumFunctionOnSet(f, S \cup {e}) = f[e] + SumFunctionOnSet(f, S)
    <3> HIDE DEF f, S
    <3>1. \A r \in S \cup {e} : f[r] \in Int BY <1>4
    <3> QED BY <1>2, <3>1, SumAdd
  <2>3. SumOfClaims(d, A \cup {e}, i) = SumFunctionOnSet(f, S \cup {e})
    BY <2>1, Zenon DEF SumOfClaims
  <2>4. b[i].allocated = a[i].allocated + f[e] /\ f[e] \in Nat /\ a[i].allocated \in Nat
    BY <1>6
  <2> HIDE DEF f, S
  <2> QED BY <1>3, <1>5, <2>2, <2>3, <2>4
<1>7. CASE i # d[e].item
  <2>1. ClaimsOn(d, A \cup {e}, i) = S
    BY <1>7 DEF ClaimsOn
  <2>2. SumOfClaims(d, A \cup {e}, i) = SumFunctionOnSet(f, S)
    BY <2>1, Zenon DEF SumOfClaims
  <2>3. b[i].allocated = a[i].allocated
    BY <1>7
  <2> HIDE DEF f, S
  <2> QED BY <1>3, <2>2, <2>3
<1> QED BY <1>6, <1>7

\* Clients do not post releases themselves: the one type of stock event that
\* takes back an allocation without ending the reservation it was made for.
NoManualRelease == "release" \notin EventTypes

HeldInv == IsFiniteSet(Active) /\ ReservedStockIsHeld

\* What a step does to allocations, active reservations and retired items.
Keeps ==
  /\ Active' = Active /\ \A r \in Active : claim'[r] = claim[r]
  /\ \A i \in Items : balance[i].allocated <= balance'[i].allocated
  /\ \A i \in retired' : i \in retired \/ balance[i].allocated = 0
Begins(r) ==
  /\ Active' = Active \cup {r} /\ \A s \in Active : claim'[s] = claim[s]
  /\ claim'[r].item \in Items \ retired /\ claim'[r].qty \in Nat
  /\ \A i \in Items :
       balance'[i].allocated =
         IF i = claim'[r].item THEN balance[i].allocated + claim'[r].qty
                               ELSE balance[i].allocated
  /\ UNCHANGED retired
Returns(R) ==
  /\ Active' = Active \ R /\ UNCHANGED <<claim, retired>>
  /\ \A i \in Items : balance'[i].allocated = balance[i].allocated - Claimed(i, R)

StockStep ==
  \/ Keeps
  \/ \E r \in Res \ Active : Begins(r)
  \/ \E R \in SUBSET Active : Returns(R)

\* Between two reads of the invariant the allocation of every item moves with
\* what the active reservations claim of it.
LEMMA HeldAfterStep ==
  ASSUME TypeInv, TypeInv', HeldInv, StockStep
  PROVE  HeldInv'
<1> DEFINE A == Active
<1>1. A \in SUBSET Res /\ IsFiniteSet(A)
  BY DEF HeldInv, Active
<1>2. Covered(balance, claim, A)
  BY <1>1, ClaimedIsSum DEF HeldInv, ReservedStockIsHeld, Covered
<1>3. \A r \in A : claim[r].qty \in Nat /\ claim[r].item \in Items
  BY ActiveClaims
<1>4. \A i \in Items : balance[i].allocated \in Nat /\ balance'[i].allocated \in Nat
  BY DEF TypeInv, TypeOK, Balances
<1>5. ASSUME NEW B \in SUBSET Res, IsFiniteSet(B), Active' = B, Covered(balance', claim', B),
             \A r \in B : claim'[r].item \notin retired'
      PROVE  HeldInv'
  <2>1. \A i \in Items : Claimed(i, Active)' <= balance'[i].allocated
    <3> SUFFICES ASSUME NEW i \in Items
                 PROVE  Claimed(i, Active)' <= balance'[i].allocated
      OBVIOUS
    <3>1. Claimed(i, B)' = SumOfClaims(claim', B, i)
      BY <1>5, ClaimedIsSum
    <3>2. Claimed(i, Active)' = Claimed(i, B)'
      BY <1>5 DEF Claimed
    <3> QED BY <3>1, <3>2, <1>5 DEF Covered
  <2> QED BY <1>5, <2>1 DEF HeldInv, ReservedStockIsHeld
<1>6. CASE Keeps
  <2>1. Covered(balance', claim', A)
    BY <1>1, <1>2, <1>3, <1>4, <1>6, CoveredKept DEF Keeps
  <2>2. ASSUME NEW r \in A PROVE claim'[r].item \notin retired'
    <3> DEFINE i == claim[r].item
    <3>1. i \in Items /\ i \notin retired /\ claim'[r].item = i
      BY <1>3, <1>6 DEF HeldInv, ReservedStockIsHeld, Keeps
    <3>2. balance[i].allocated # 0
      <4> DEFINE f == [s \in Res |-> claim[s].qty]
                 S == ClaimsOn(claim, A, i)
      <4>1. IsFiniteSet(S) /\ S \subseteq A /\ r \in S
        BY <1>1, FS_Subset DEF ClaimsOn
      <4>2. \A s \in S : f[s] \in Nat
        BY <4>1, <1>1, <1>3
      <4>3. f[r] <= SumFunctionOnSet(f, S)
        <5> HIDE DEF f, S
        <5> QED BY <4>1, <4>2, SumElement
      <4>4. SumFunctionOnSet(f, S) <= balance[i].allocated
        BY <1>2, <3>1 DEF Covered, SumOfClaims
      <4>5. SumFunctionOnSet(f, S) \in Nat
        <5> HIDE DEF f, S
        <5> QED BY <4>1, <4>2, SumNat
      <4>6. f[r] \in Nat \ {0}
        BY ActiveClaims, <1>1
      <4> HIDE DEF f, S
      <4> QED BY <4>3, <4>4, <4>5, <4>6, <1>4, <3>1
    <3> QED BY <3>1, <3>2, <1>6 DEF Keeps
  <2> QED BY <1>1, <1>5, <1>6, <2>1, <2>2 DEF Keeps
<1>7. ASSUME NEW r \in Res \ Active, Begins(r) PROVE HeldInv'
  <2>1. Covered(balance', claim', A \cup {r})
    BY <1>1, <1>2, <1>3, <1>4, <1>7, CoveredOpened DEF Begins
  <2>2. A \cup {r} \in SUBSET Res /\ IsFiniteSet(A \cup {r})
    BY <1>1, FS_AddElement
  <2>3. \A s \in A \cup {r} : claim'[s].item \notin retired'
    BY <1>7 DEF Begins, HeldInv, ReservedStockIsHeld
  <2>4. Active' = A \cup {r}
    BY <1>7 DEF Begins
  <2> HIDE DEF A
  <2> QED BY <1>5, <2>1, <2>2, <2>3, <2>4
<1>8. ASSUME NEW R \in SUBSET Active, Returns(R) PROVE HeldInv'
  <2>1. IsFiniteSet(R) /\ R \in SUBSET Res /\ IsFiniteSet(A \ R)
    BY <1>1, FS_Subset
  <2>2. \A i \in Items : Claimed(i, R) = SumOfClaims(claim, R, i)
    BY <2>1, ClaimedIsSum
  <2>3. Covered(balance', claim, A \ R)
    BY <1>1, <1>2, <1>3, <1>4, <1>8, <2>2, CoveredReleased DEF Returns
  <2>4. Active' = A \ R /\ claim' = claim /\ retired' = retired
    BY <1>8 DEF Returns
  <2>5. \A s \in A \ R : claim'[s].item \notin retired'
    BY <2>4 DEF HeldInv, ReservedStockIsHeld
  <2>6. Covered(balance', claim', A \ R)
    BY <2>3, <2>4
  <2> HIDE DEF A
  <2> QED BY <1>1, <1>5, <2>1, <2>4, <2>5, <2>6
<1> QED BY <1>6, <1>7, <1>8 DEF StockStep

\* No active reservation has been released yet, so a release counts in full.
LEMMA NothingReleasedYet ==
  ASSUME TypeInv, OneReleasePerReservation, NEW R \in SUBSET Active,
         NEW why \in ReleaseKinds, NEW i
  PROVE  Claimed(i, {r \in R : <<why, r>> \notin ledger}) = Claimed(i, R)
<1>1. {r \in R : <<why, r>> \notin ledger} = R
  BY DEF OneReleasePerReservation, Active, Ended
<1> QED BY <1>1, Zenon

\* A release moves the allocation of each item by what is released of it.
LEMMA ReleasedBalance ==
  ASSUME TypeInv, OneReleasePerReservation, NEW R \in SUBSET Active,
         NEW why \in ReleaseKinds, NEW i \in Items
  PROVE  AfterRelease(R, why)[i]
           = [onHand |-> balance[i].onHand,
              allocated |-> balance[i].allocated - Claimed(i, R)]
<1>1. balance[i] \in [onHand : Nat, allocated : Nat]
  BY DEF TypeInv, TypeOK, Balances
<1> DEFINE freed == Claimed(i, {r \in R : <<why, r>> \notin ledger})
<1>2. AfterRelease(R, why)[i] = [balance[i] EXCEPT !.allocated = @ - freed]
  BY DEF AfterRelease
<1>3. freed = Claimed(i, R)
  BY NothingReleasedYet
<1> HIDE DEF freed
<1>4. AfterRelease(R, why)[i]
        = [onHand |-> balance[i].onHand, allocated |-> balance[i].allocated - freed]
  BY <1>1, <1>2
<1> QED BY <1>3, <1>4

LEMMA ReleaseAllReturns ==
  ASSUME TypeInv, OneReleasePerReservation, NEW R \in SUBSET Active,
         NEW why \in ReleaseKinds, NEW end \in Ended, ReleaseAll(R, why, end)
  PROVE  Returns(R)
<1>1. Active' = Active \ R
  BY DEF ReleaseAll, Active, Ended
<1>2. ASSUME NEW i \in Items
      PROVE  balance'[i].allocated = balance[i].allocated - Claimed(i, R)
  <2>1. AfterRelease(R, why)[i]
          = [onHand |-> balance[i].onHand,
             allocated |-> balance[i].allocated - Claimed(i, R)]
    BY ReleasedBalance
  <2>2. balance'[i] = AfterRelease(R, why)[i]
    BY DEF ReleaseAll
  <2> QED BY <2>1, <2>2
<1> QED BY <1>1, <1>2 DEF ReleaseAll, Returns

LEMMA CreateReservationBegins ==
  ASSUME TypeInv, NEW c \in Contexts, NEW r \in Res, NEW v \in Revisions,
         NEW i \in Items, NEW q \in 1..MaxQty, CreateReservation(c, r, v, i, q)
  PROVE  r \notin Active /\ Begins(r)
<1>1. r \notin Active /\ Active' = Active \cup {r}
  BY DEF CreateReservation, Active, TypeInv, TypeOK
<1>2. claim'[r] = [rev |-> v, item |-> i, qty |-> q] /\ \A s \in Active : claim'[s] = claim[s]
  BY <1>1 DEF CreateReservation, Active, TypeInv, TypeOK
<1>3. balance'[i] = [onHand |-> balance[i].onHand, allocated |-> balance[i].allocated + q]
  BY DEF CreateReservation, Apply, Adds, Takes, TypeInv, TypeOK
<1>4. \A j \in Items \ {i} : balance'[j] = balance[j]
  BY DEF CreateReservation, TypeInv, TypeOK
<1>5. q \in Nat /\ i \notin retired /\ retired' = retired
  BY ReservationsAssumption DEF CreateReservation
<1> QED BY <1>1, <1>2, <1>3, <1>4, <1>5 DEF Begins

LEMMA RecordUsageReturns ==
  ASSUME TypeInv, OneReleasePerReservation, NEW c \in Contexts, NEW r \in Res,
         RecordUsage(c, r)
  PROVE  r \in Active /\ Returns({r})
<1> DEFINE i == claim[r].item
           free == AfterRelease({r}, "consume-release")[i]
           rest == IF Known(Key(c[2])) THEN free
                   ELSE Apply(free, [kind |-> "consume", qty |-> claim[r].qty])
<1>1. r \in Active /\ Active' = Active \ {r} /\ UNCHANGED <<claim, retired>>
  BY DEF RecordUsage, Active, TypeInv, TypeOK
<1>2. i \in Items /\ "consume-release" \in ReleaseKinds
  BY <1>1, ActiveClaims DEF ReleaseKinds
<1>3. free.allocated = balance[i].allocated - Claimed(i, {r})
  <2>1. {r} \in SUBSET Active
    BY <1>1
  <2>2. AfterRelease({r}, "consume-release")[i]
          = [onHand |-> balance[i].onHand,
             allocated |-> balance[i].allocated - Claimed(i, {r})]
    <3> HIDE DEF i
    <3> QED BY <2>1, <1>2, ReleasedBalance
  <2> QED BY <2>2
<1>4. rest.allocated = free.allocated
  BY DEF Apply, Takes, Adds
<1>5. balance' = [balance EXCEPT ![i] = rest]
  BY DEF RecordUsage
<1>6. \A j \in Items \ {i} : Claimed(j, {r}) = 0
  <2> SUFFICES ASSUME NEW j \in Items \ {i} PROVE Claimed(j, {r}) = 0
    OBVIOUS
  <2>1. IsFiniteSet({r})
    BY FS_Singleton
  <2>2. ClaimsOn(claim, {r}, j) = {}
    BY DEF ClaimsOn
  <2>3. SumOfClaims(claim, {r}, j) = 0
    BY <2>2, SumEmpty, Zenon DEF SumOfClaims
  <2> QED BY <2>1, <2>3, ClaimedIsSum
<1>7. \A j \in Items : balance'[j].allocated = balance[j].allocated - Claimed(j, {r})
  <2> SUFFICES ASSUME NEW j \in Items
               PROVE  balance'[j].allocated = balance[j].allocated - Claimed(j, {r})
    OBVIOUS
  <2>1. CASE j = i
    <3>1. balance'[i] = rest
      BY <1>2, <1>5 DEF TypeInv, TypeOK
    <3> HIDE DEF rest, free
    <3> QED BY <2>1, <3>1, <1>3, <1>4
  <2>2. CASE j # i
    <3>1. balance'[j] = balance[j]
      BY <2>2, <1>5 DEF TypeInv, TypeOK
    <3>2. balance[j].allocated \in Nat
      BY DEF TypeInv, TypeOK, Balances
    <3> QED BY <2>2, <3>1, <3>2, <1>6
  <2> QED BY <2>1, <2>2
<1> QED BY <1>1, <1>7 DEF Returns

LEMMA CommitReturns ==
  ASSUME TypeInv, OneReleasePerReservation, NEW c \in Contexts, NEW v \in Revisions,
         CommitReconciliation(c, v)
  PROVE  Returns(ActiveOf(v))
<1> DEFINE R == ActiveOf(v)
           freed == AfterRelease(R, "reconcile-release")
<1>1. R \in SUBSET Active /\ "reconcile-release" \in ReleaseKinds
  BY DEF ActiveOf, ReleaseKinds
<1>2. Active' = Active \ R /\ UNCHANGED <<claim, retired>>
  <2>1. status' = [r \in Res |-> IF r \in R THEN "settled" ELSE status[r]]
    BY DEF CommitReconciliation, Freed, Rest
  <2> QED BY <1>1, <2>1 DEF Active, CommitReconciliation
<1>3. ASSUME NEW i \in Items
      PROVE  balance'[i].allocated = balance[i].allocated - Claimed(i, R)
  <2>1. balance'[i] = [freed[i] EXCEPT !.onHand = @ - Destroyed(v, i)]
    BY DEF CommitReconciliation, Freed, Rest
  <2>2. freed[i] = [onHand |-> balance[i].onHand,
                    allocated |-> balance[i].allocated - Claimed(i, R)]
    BY <1>1, ReleasedBalance
  <2> HIDE DEF freed, R
  <2> QED BY <2>1, <2>2
<1> QED BY <1>2, <1>3 DEF Returns

\* Every other command keeps the reservations and never lowers an allocation.
LEMMA StockCommandsKeep ==
  ASSUME TypeInv, NoManualRelease, NEW c \in Contexts, NEW i \in Items, NEW q \in 0..MaxQty,
         \/ \E b \in BodyKeys \cup {NoKey}, t \in EventTypes : RecordStockEvent(c, b, i, t, q)
         \/ \E how \in {"count", "commission"} : RecordCount(c, i, q, how)
         \/ UpdateItem(c, i)
         \/ RetireItem(c, i)
  PROVE  Keeps
<1>0. /\ \A j \in Items : balance[j].allocated \in Nat
      /\ balance[i] = [onHand |-> balance[i].onHand, allocated |-> balance[i].allocated]
      /\ q \in Nat
  BY ReservationsAssumption DEF TypeInv, TypeOK, Balances
<1>1. CASE \E b \in BodyKeys \cup {NoKey}, t \in EventTypes : RecordStockEvent(c, b, i, t, q)
  <2>1. PICK b \in BodyKeys \cup {NoKey}, t \in EventTypes : RecordStockEvent(c, b, i, t, q)
    BY <1>1
  <2>2. UNCHANGED <<status, claim, retired>>
    BY <2>1 DEF RecordStockEvent, stock, claims
  <2> DEFINE e == [kind |-> StockKind(t), qty |-> q]
  <2>3. balance' = balance \/ balance' = [balance EXCEPT ![i] = Apply(balance[i], e)]
    BY <2>1 DEF RecordStockEvent, stock
  <2>4. StockKind(t) # "release"
    BY DEF StockKind, NoManualRelease
  <2>5. Apply(balance[i], e).allocated \in {balance[i].allocated, balance[i].allocated + q}
    BY <2>4 DEF Apply
  <2> HIDE DEF e
  <2>6. \A j \in Items : balance[j].allocated <= balance'[j].allocated
    BY <1>0, <2>3, <2>5 DEF TypeInv, TypeOK
  <2> QED BY <2>2, <2>6 DEF Keeps, Active
<1>2. CASE \E how \in {"count", "commission"} : RecordCount(c, i, q, how)
  <2>1. PICK how \in {"count", "commission"} : RecordCount(c, i, q, how)
    BY <1>2
  <2>2. UNCHANGED <<status, claim, retired>>
    BY <2>1 DEF RecordCount, stock, claims
  <2>3. \/ balance' = balance
        \/ balance' = [balance EXCEPT ![i] = Apply(@, [kind |-> "count", qty |-> q])]
    BY <2>1 DEF RecordCount, stock
  <2>4. Apply(balance[i], [kind |-> "count", qty |-> q]).allocated = balance[i].allocated
    BY DEF Apply
  <2>5. \A j \in Items : balance[j].allocated <= balance'[j].allocated
    BY <1>0, <2>3, <2>4 DEF TypeInv, TypeOK
  <2> QED BY <2>2, <2>5 DEF Keeps, Active
<1>3. CASE UpdateItem(c, i) \/ RetireItem(c, i)
  BY <1>0, <1>3 DEF UpdateItem, RetireItem, stock, claims, Keeps, Active
<1> QED BY <1>1, <1>2, <1>3

\* A step that touches neither stock nor claims keeps them.
LEMMA UnchangedKeeps ==
  ASSUME TypeInv, UNCHANGED <<stock, claims>>
  PROVE  Keeps
BY DEF TypeInv, TypeOK, Balances, stock, claims, Keeps, Active

LEMMA NextStockStep ==
  ASSUME TypeInv, OneReleasePerReservation, NoManualRelease, [Next]_vars
  PROVE  StockStep
<1>1. CASE UNCHANGED vars
  BY <1>1, UnchangedKeeps DEF vars, StockStep
<1>2. ASSUME NEW c \in Contexts, NEW r \in Res, NEW v \in Revisions, NEW i \in Items,
             NEW q \in 1..MaxQty, CreateReservation(c, r, v, i, q)
      PROVE  StockStep
  BY <1>2, CreateReservationBegins DEF StockStep
<1>3. ASSUME NEW c \in Contexts, NEW r \in Res, ReleaseReservation(c, r)
      PROVE  StockStep
  <2>1. {r} \in SUBSET Active /\ "release" \in ReleaseKinds /\ "released" \in Ended
    BY <1>3 DEF ReleaseReservation, Active, ReleaseKinds, Ended
  <2> QED BY <1>3, <2>1, ReleaseAllReturns DEF ReleaseReservation, StockStep
<1>4. ASSUME NEW c \in Contexts, NEW r \in Res, RecordUsage(c, r)
      PROVE  StockStep
  <2>1. {r} \in SUBSET Active /\ Returns({r})
    BY <1>4, RecordUsageReturns
  <2> QED BY <2>1 DEF StockStep
<1>5. ASSUME NEW c \in Contexts, NEW p \in Projects,
             ArchiveProject(c, p) \/ RestoreProject(c, p) \/ RemoveProject(c, p)
      PROVE  StockStep
  <2>1. ActiveIn(p) \in SUBSET Active /\ "released" \in Ended
        /\ "archive" \in ReleaseKinds /\ "remove" \in ReleaseKinds
    BY DEF ActiveIn, ReleaseKinds, Ended
  <2>2. \/ UNCHANGED <<stock, claims>>
        \/ \E why \in {"archive", "remove"} : ReleaseAll(ActiveIn(p), why, "released")
    BY <1>5 DEF ArchiveProject, RestoreProject, RemoveProject
  <2>3. CASE UNCHANGED <<stock, claims>>
    BY <2>3, UnchangedKeeps DEF StockStep
  <2>4. CASE \E why \in {"archive", "remove"} : ReleaseAll(ActiveIn(p), why, "released")
    BY <2>1, <2>4, ReleaseAllReturns DEF StockStep
  <2> QED BY <2>2, <2>3, <2>4
<1>6. ASSUME NEW c \in Contexts, NEW i \in Items, NEW q \in 0..MaxQty,
             \/ \E b \in BodyKeys \cup {NoKey}, t \in EventTypes : RecordStockEvent(c, b, i, t, q)
             \/ \E how \in {"count", "commission"} : RecordCount(c, i, q, how)
      PROVE  StockStep
  BY <1>6, StockCommandsKeep DEF StockStep
<1>7. ASSUME NEW c \in Contexts, NEW i \in Items, UpdateItem(c, i) \/ RetireItem(c, i)
      PROVE  StockStep
  <2>1. 0 \in 0..MaxQty
    BY ReservationsAssumption
  <2> QED BY <1>7, <2>1, StockCommandsKeep DEF StockStep
<1>8. ASSUME NEW c \in Contexts, NEW v \in Revisions, NEW plan \in Plans(v), SaveDraft(c, v, plan)
      PROVE  StockStep
  BY <1>8, UnchangedKeeps DEF SaveDraft, StockStep
<1>9. ASSUME NEW c \in Contexts, NEW v \in Revisions, CommitReconciliation(c, v)
      PROVE  StockStep
  <2>1. ActiveOf(v) \in SUBSET Active
    BY DEF ActiveOf
  <2> QED BY <1>9, <2>1, CommitReturns DEF StockStep
<1> QED
  BY <1>1, <1>2, <1>3, <1>4, <1>5, <1>6, <1>7, <1>8, <1>9 DEF Next

\* The allocations always cover what is reserved of their items.
LEMMA HeldAlways ==
  ASSUME NoManualRelease
  PROVE  Spec => []HeldInv
<1>1. Init => HeldInv
  <2> SUFFICES ASSUME Init PROVE HeldInv
    OBVIOUS
  <2>1. Active = {} /\ IsFiniteSet({})
    BY FS_EmptySet DEF Init, Active
  <2>2. \A i \in Items : Claimed(i, {}) = 0
    <3> SUFFICES ASSUME NEW i \in Items PROVE Claimed(i, {}) = 0
      OBVIOUS
    <3>1. ClaimsOn(claim, {}, i) = {}
      BY DEF ClaimsOn
    <3>2. SumOfClaims(claim, {}, i) = 0
      BY <3>1, SumEmpty, Zenon DEF SumOfClaims
    <3> QED BY <2>1, <3>2, ClaimedIsSum
  <2>3. \A i \in Items : Claimed(i, Active) = 0
    BY <2>1, <2>2, Zenon
  <2>4. \A i \in Items : balance[i].allocated \in Nat
    BY TypeInvInit DEF TypeInv, TypeOK, Balances
  <2> QED BY <2>1, <2>3, <2>4 DEF HeldInv, ReservedStockIsHeld
<1>2. TypeInv /\ OneReleasePerReservation /\ HeldInv /\ [Next]_vars /\ TypeInv' => HeldInv'
  BY NextStockStep, HeldAfterStep
<1> QED BY <1>1, <1>2, TypeInvInit, TypeInvStep, OneRelease, PTL DEF Spec

\* Reserved stock stays set aside until its reservation ends: as long as no
\* client posts a release event of its own, the allocation of every item covers
\* the active reservations of it, and none of those items is retired.
THEOREM ReservedStockStaysHeld ==
  ASSUME NoManualRelease
  PROVE  Spec => []ReservedStockIsHeld
<1>1. HeldInv => ReservedStockIsHeld
  BY DEF HeldInv
<1> QED BY <1>1, HeldAlways, PTL

-----------------------------------------------------------------------------
(* Drafts that are current describe the stock *)

\* Stock and claims change only around the items of I.
MovesOnly(I) ==
  /\ \A i \in Items \ I : balance'[i] = balance[i]
  /\ \A r \in Res :
       /\ status[r] # "unused" => status'[r] # "unused" /\ claim'[r] = claim[r]
       /\ status'[r] # status[r] => claim'[r].item \in I

\* They do, their versions are bumped, and no other item is retired.
TouchesItemsOf(I) == MovesOnly(I) /\ Touch(I) /\ retired' \subseteq retired \cup I

\* The draft of v becomes stale if its basis has an item of I.
TouchOf(v, I) ==
  draft'[v] = IF draft[v].state = "draft" /\ ItemsOf(v)' \cap I # {}
              THEN [draft[v] EXCEPT !.current = FALSE]
              ELSE draft[v]

\* The basis of a revision none of whose items are moved stays what it was.
LEMMA BasisKept ==
  ASSUME TypeInv, NEW v \in Revisions, NEW I, MovesOnly(I), ItemsOf(v)' \cap I = {}
  PROVE  Basis(v)' = Basis(v)
<1>1. ASSUME NEW r \in Res
      PROVE  /\ r \in ReservationsOf(v) => r \in ReservationsOf(v)'
             /\ r \in ReservationsOf(v)' => /\ r \in ReservationsOf(v)
                                            /\ claim'[r] = claim[r] /\ status'[r] = status[r]
  <2>1. r \in ReservationsOf(v) => r \in ReservationsOf(v)'
    BY DEF MovesOnly, ReservationsOf
  <2>2. ASSUME r \in ReservationsOf(v)'
        PROVE  /\ r \in ReservationsOf(v) /\ claim'[r] = claim[r] /\ status'[r] = status[r]
    <3>1. claim'[r].item \in ItemsOf(v)'
      BY <2>2 DEF ItemsOf
    <3>2. status'[r] = status[r]
      BY <3>1 DEF MovesOnly
    <3> QED BY <2>2, <3>2 DEF MovesOnly, ReservationsOf
  <2> QED BY <2>1, <2>2
<1>2. ReservationsOf(v)' = ReservationsOf(v)
  BY <1>1 DEF ReservationsOf
<1>3. ActiveOf(v)' = ActiveOf(v)
  <2>1. \A r \in Res : r \in ActiveOf(v) => r \in ReservationsOf(v)
    BY DEF ActiveOf, Active, ReservationsOf
  <2>2. \A r \in Res : r \in ActiveOf(v)' => r \in ReservationsOf(v)'
    BY DEF ActiveOf, Active, ReservationsOf
  <2>3. \A r \in Res : r \in ActiveOf(v)' <=> r \in ActiveOf(v)
    BY <1>1, <2>1, <2>2 DEF ActiveOf, Active
  <2> QED BY <2>3 DEF ActiveOf, Active
<1>4. ItemsOf(v)' = ItemsOf(v)
  <2>1. \A r \in ReservationsOf(v) : claim'[r] = claim[r]
    BY <1>1 DEF ReservationsOf
  <2> QED BY <1>2, <2>1 DEF ItemsOf
<1>5. \A i \in ItemsOf(v) : balance'[i] = balance[i]
  <2>1. ItemsOf(v) \subseteq Items
    BY DEF ItemsOf, ReservationsOf, TypeInv, TypeOK, Claims
  <2>2. ItemsOf(v) \cap I = {}
    BY <1>4
  <2> QED BY <2>1, <2>2 DEF MovesOnly
<1>6. [i \in ItemsOf(v) |-> balance[i]]' = [i \in ItemsOf(v) |-> balance[i]]
  <2>1. [i \in ItemsOf(v) |-> balance[i]]' = [i \in ItemsOf(v) |-> balance'[i]]
    BY <1>4
  <2> QED BY <2>1, <1>5
<1> QED BY <1>2, <1>3, <1>6 DEF Basis

\* The draft of one revision after a step that moves only items of I.
LEMMA TouchedDraftIsTrue ==
  ASSUME TypeInv, CurrentDraftIsTrue, NEW v \in Revisions, NEW I, MovesOnly(I), TouchOf(v, I),
         draft'[v].state = "draft", draft'[v].current
  PROVE  draft'[v].basis = Basis(v)'
<1>1. draft[v] = [state |-> draft[v].state, plan |-> draft[v].plan,
                  current |-> draft[v].current, basis |-> draft[v].basis]
  BY DEF TypeInv, DraftShape
<1>2. ~(draft[v].state = "draft" /\ ItemsOf(v)' \cap I # {})
  <2> SUFFICES ASSUME draft[v].state = "draft", ItemsOf(v)' \cap I # {} PROVE FALSE
    OBVIOUS
  <2>1. draft'[v] = [draft[v] EXCEPT !.current = FALSE]
    BY DEF TouchOf
  <2>2. draft'[v].current = FALSE
    BY <2>1, <1>1
  <2> QED BY <2>2
<1>3. draft'[v] = draft[v]
  BY <1>2 DEF TouchOf
<1>4. ItemsOf(v)' \cap I = {}
  BY <1>2, <1>3
<1>5. Basis(v)' = Basis(v)
  BY <1>4, BasisKept
<1>6. draft[v].basis = Basis(v)
  BY <1>3 DEF CurrentDraftIsTrue
<1> QED BY <1>3, <1>5, <1>6

LEMMA TouchedDraftsAreTrue ==
  ASSUME TypeInv, CurrentDraftIsTrue, NEW I, MovesOnly(I), Touch(I)
  PROVE  CurrentDraftIsTrue'
<1> SUFFICES ASSUME NEW v \in Revisions, draft'[v].state = "draft", draft'[v].current
             PROVE  draft'[v].basis = Basis(v)'
  BY DEF CurrentDraftIsTrue
<1>1. TouchOf(v, I)
  BY DEF Touch, TouchOf, ItemsOf
<1> QED BY <1>1, TouchedDraftIsTrue

\* Nothing of item i is claimed by reservations of other items.
LEMMA ClaimedElsewhere ==
  ASSUME NEW R, NEW i, \A r \in R : claim[r].item # i
  PROVE  Claimed(i, R) = 0
<1> DEFINE f == [r \in {} |-> claim[r].qty]
<1>1. {r \in R : claim[r].item = i} = {}
  OBVIOUS
<1>2. Claimed(i, R) = SumFunction(f)
  BY <1>1, Zenon DEF Claimed, Quantity
<1>3. DOMAIN f = {}
  OBVIOUS
<1>4. SumFunction(f) = SumFunctionOnSet(f, {})
  <2> HIDE DEF f
  <2> QED BY <1>3, Zenon DEF SumFunction
<1>5. SumFunctionOnSet(f, {}) = 0
  <2> HIDE DEF f
  <2> QED BY SumEmpty
<1> QED BY <1>2, <1>4, <1>5

\* A release changes no balance but those of the items it releases.
LEMMA ReleaseElsewhere ==
  ASSUME TypeInv, NEW R \in SUBSET Active, NEW why,
         NEW i \in Items, i \notin {claim[r].item : r \in R}
  PROVE  AfterRelease(R, why)[i] = balance[i]
<1> DEFINE S == {r \in R : <<why, r>> \notin ledger}
<1>1. Claimed(i, S) = 0
  BY ClaimedElsewhere
<1>2. balance[i] \in [onHand : Nat, allocated : Nat]
  BY DEF TypeInv, TypeOK, Balances
<1>3. AfterRelease(R, why)[i] = [balance[i] EXCEPT !.allocated = @ - Claimed(i, S)]
  BY DEF AfterRelease
<1>4. AfterRelease(R, why)[i] = [balance[i] EXCEPT !.allocated = @ - 0]
  BY <1>1, <1>3
<1> QED BY <1>2, <1>4

LEMMA ReleaseAllMoves ==
  ASSUME TypeInv, NEW R \in SUBSET Active, NEW why, NEW end \in Ended, ReleaseAll(R, why, end)
  PROVE  MovesOnly({claim[r].item : r \in R})
<1>1. \A i \in Items \ {claim[r].item : r \in R} : balance'[i] = balance[i]
  BY ReleaseElsewhere DEF ReleaseAll
<1>2. \A r \in Res : /\ status'[r] = IF r \in R THEN end ELSE status[r]
                     /\ claim'[r] = claim[r]
  BY DEF ReleaseAll
<1> QED BY <1>1, <1>2 DEF MovesOnly, Ended

LEMMA RecordUsageMoves ==
  ASSUME TypeInv, NEW c \in Contexts, NEW r \in Res, RecordUsage(c, r)
  PROVE  MovesOnly({claim[r].item})
<1>1. \A i \in Items \ {claim[r].item} : balance'[i] = balance[i]
  BY DEF RecordUsage, TypeInv, TypeOK
<1>2. /\ claim' = claim
      /\ \A s \in Res : status'[s] = IF s = r THEN "consumed" ELSE status[s]
  BY DEF RecordUsage, TypeInv, TypeOK
<1> QED BY <1>1, <1>2 DEF MovesOnly

LEMMA CreateReservationMoves ==
  ASSUME TypeInv, NEW c \in Contexts, NEW r \in Res, NEW v \in Revisions,
         NEW i \in Items, NEW q \in 1..MaxQty, CreateReservation(c, r, v, i, q)
  PROVE  MovesOnly({i})
<1>1. \A j \in Items \ {i} : balance'[j] = balance[j]
  BY DEF CreateReservation, TypeInv, TypeOK
<1>2. /\ status[r] = "unused" /\ status'[r] = "active" /\ claim'[r].item = i
      /\ \A s \in Res \ {r} : status'[s] = status[s] /\ claim'[s] = claim[s]
  BY DEF CreateReservation, TypeInv, TypeOK
<1> QED BY <1>1, <1>2 DEF MovesOnly

\* A close-out moves the items of the reservations it settles.
LEMMA CommitMoves ==
  ASSUME TypeInv, NEW c \in Contexts, NEW v \in Revisions, CommitReconciliation(c, v)
  PROVE  MovesOnly({claim[r].item : r \in ActiveOf(v)})
<1> DEFINE R == ActiveOf(v)
           freed == AfterRelease(R, "reconcile-release")
           I == {claim[r].item : r \in R}
<1>1. R \in SUBSET Active
  BY DEF ActiveOf
<1>2. ASSUME NEW i \in Items \ I PROVE balance'[i] = balance[i]
  <2>1. freed[i] = balance[i]
    BY <1>1, ReleaseElsewhere
  <2>2. Destroyed(v, i) = 0
    <3> DEFINE S == {s \in ActiveOf(v) : claim[s].item = i}
               f == [r \in S |-> Taken(v, r)]
    <3>1. S = {} OBVIOUS
    <3>2. DOMAIN f = {} BY <3>1
    <3>3. SumFunction(f) = SumFunctionOnSet(f, {})
      <4> HIDE DEF f
      <4> QED BY <3>2, Zenon DEF SumFunction
    <3>4. SumFunctionOnSet(f, {}) = 0
      <4> HIDE DEF f
      <4> QED BY SumEmpty
    <3>5. Destroyed(v, i) = SumFunction(f)
      BY DEF Destroyed
    <3> QED BY <3>3, <3>4, <3>5
  <2>3. balance'[i] = [freed[i] EXCEPT !.onHand = @ - Destroyed(v, i)]
    BY DEF CommitReconciliation, Freed, Rest
  <2>4. balance[i] \in [onHand : Nat, allocated : Nat]
    BY DEF TypeInv, TypeOK, Balances
  <2>5. balance'[i] = [balance[i] EXCEPT !.onHand = @ - 0]
    BY <2>1, <2>2, <2>3
  <2> QED BY <2>4, <2>5
<1>3. \A r \in Res : /\ status'[r] = IF r \in R THEN "settled" ELSE status[r]
                     /\ claim'[r] = claim[r]
  BY DEF CommitReconciliation, Freed, Rest
<1> QED BY <1>2, <1>3 DEF MovesOnly

\* A close-out touches the other drafts like any command that moves its items.
LEMMA CommitTouches ==
  ASSUME TypeInv, NEW c \in Contexts, NEW v \in Revisions, CommitReconciliation(c, v),
         NEW w \in Revisions \ {v}
  PROVE  TouchOf(w, {claim[r].item : r \in ActiveOf(v)})
<1> DEFINE I == {claim[r].item : r \in ActiveOf(v)}
<1>1. ItemsOf(w)' = ItemsOf(w)
  <2>1. claim' = claim /\ status' = [r \in Res |-> IF r \in ActiveOf(v) THEN "settled" ELSE status[r]]
    BY DEF CommitReconciliation, Freed, Rest
  <2>2. ReservationsOf(w)' = ReservationsOf(w)
    BY <2>1 DEF ReservationsOf, ActiveOf, Active
  <2> QED BY <2>1, <2>2 DEF ItemsOf
<1>2. draft'[w] = IF draft[w].state = "draft" /\ ItemsOf(w) \cap I # {}
                  THEN [draft[w] EXCEPT !.current = FALSE]
                  ELSE draft[w]
  BY DEF CommitReconciliation, Freed, Rest
<1> QED BY <1>1, <1>2 DEF TouchOf

\* The other drafts after a close-out; its own is committed.
LEMMA CommitDraftsAreTrue ==
  ASSUME TypeInv, CurrentDraftIsTrue, NEW c \in Contexts, NEW v \in Revisions,
         CommitReconciliation(c, v)
  PROVE  CurrentDraftIsTrue'
<1> DEFINE I == {claim[r].item : r \in ActiveOf(v)}
<1> SUFFICES ASSUME NEW w \in Revisions, draft'[w].state = "draft", draft'[w].current
             PROVE  draft'[w].basis = Basis(w)'
  BY DEF CurrentDraftIsTrue
<1>1. w # v
  <2>1. draft'[v] = [state |-> "committed", plan |-> draft[v].plan,
                     current |-> draft[v].current, basis |-> draft[v].basis]
    BY CommitDrafts
  <2>2. draft'[v].state = "committed"
    BY <2>1
  <2> QED BY <2>2
<1>4. TouchOf(w, I)
  BY <1>1, CommitTouches
<1>5. MovesOnly(I)
  BY CommitMoves
<1> HIDE DEF I
<1> QED BY <1>4, <1>5, TouchedDraftIsTrue

\* The stock commands move the item they are sent for.
LEMMA StockCommandsMove ==
  ASSUME TypeInv, NEW c \in Contexts, NEW i \in Items, NEW q \in 0..MaxQty,
         \/ \E b \in BodyKeys \cup {NoKey}, t \in EventTypes : RecordStockEvent(c, b, i, t, q)
         \/ \E how \in {"count", "commission"} : RecordCount(c, i, q, how)
         \/ UpdateItem(c, i)
         \/ RetireItem(c, i)
  PROVE  UNCHANGED <<stock, claims, draft>> \/ TouchesItemsOf({i})
<1>1. \/ UNCHANGED <<stock, claims, draft>>
      \/ /\ Touch({i}) /\ UNCHANGED <<status, claim>> /\ retired' \subseteq retired \cup {i}
         /\ UNCHANGED balance \/ \E b : balance' = [balance EXCEPT ![i] = b]
  <2>1. CASE \E b \in BodyKeys \cup {NoKey}, t \in EventTypes : RecordStockEvent(c, b, i, t, q)
    BY <2>1 DEF RecordStockEvent, claims
  <2>2. CASE \E how \in {"count", "commission"} : RecordCount(c, i, q, how)
    BY <2>2 DEF RecordCount, claims
  <2>3. CASE UpdateItem(c, i) \/ RetireItem(c, i)
    BY <2>3 DEF UpdateItem, RetireItem, stock, claims
  <2> QED BY <2>1, <2>2, <2>3
<1>2. CASE /\ Touch({i}) /\ UNCHANGED <<status, claim>> /\ retired' \subseteq retired \cup {i}
           /\ UNCHANGED balance \/ \E b : balance' = [balance EXCEPT ![i] = b]
  <2>1. MovesOnly({i})
    BY <1>2 DEF MovesOnly, TypeInv, TypeOK
  <2> QED BY <1>2, <2>1 DEF TouchesItemsOf
<1> QED BY <1>1, <1>2

\* Every command that is neither a review nor its close-out moves items whose
\* versions it bumps, or nothing that a draft is about.
LEMMA StepTouches ==
  ASSUME TypeInv, [Next]_vars
  PROVE  \/ UNCHANGED <<stock, claims, draft>>
         \/ \E I : TouchesItemsOf(I)
         \/ \E c \in Contexts, v \in Revisions :
              CommitReconciliation(c, v) \/ \E plan \in Plans(v) : SaveDraft(c, v, plan)
<1> DEFINE Touches == \E I : TouchesItemsOf(I)
           Reviews == \E c \in Contexts, v \in Revisions :
                        CommitReconciliation(c, v) \/ \E plan \in Plans(v) : SaveDraft(c, v, plan)
           Goal == UNCHANGED <<stock, claims, draft>> \/ Touches \/ Reviews
<1>1. (Touches => Goal) /\ (Reviews => Goal) /\ (UNCHANGED <<stock, claims, draft>> => Goal)
  OBVIOUS
<1>2. ASSUME NEW c \in Contexts, NEW r \in Res, NEW v \in Revisions, NEW i \in Items,
             NEW q \in 1..MaxQty, CreateReservation(c, r, v, i, q)
      PROVE  Goal
  <2>1. MovesOnly({i}) /\ Touch({i}) /\ retired' = retired
    BY <1>2, CreateReservationMoves DEF CreateReservation
  <2> QED BY <2>1 DEF TouchesItemsOf
<1>3. ASSUME NEW R \in SUBSET Active, NEW why, ReleaseAll(R, why, "released")
      PROVE  Goal
  <2>1. "released" \in Ended
    BY DEF Ended
  <2>2. /\ MovesOnly({claim[r].item : r \in R}) /\ Touch({claim[r].item : r \in R})
        /\ retired' = retired
    BY <1>3, <2>1, ReleaseAllMoves DEF ReleaseAll
  <2>3. TouchesItemsOf({claim[r].item : r \in R})
    BY <2>2 DEF TouchesItemsOf
  <2> QED BY <2>3
<1>4. ASSUME NEW c \in Contexts, NEW r \in Res, ReleaseReservation(c, r)
      PROVE  Goal
  <2>1. {r} \in SUBSET Active /\ ReleaseAll({r}, "release", "released")
    BY <1>4 DEF ReleaseReservation, Active
  <2> QED BY <1>3, <2>1
<1>5. ASSUME NEW c \in Contexts, NEW r \in Res, RecordUsage(c, r)
      PROVE  Goal
  <2>1. MovesOnly({claim[r].item}) /\ Touch({claim[r].item}) /\ retired' = retired
    BY <1>5, RecordUsageMoves DEF RecordUsage
  <2> QED BY <2>1 DEF TouchesItemsOf
<1>6. ASSUME NEW c \in Contexts, NEW p \in Projects,
             ArchiveProject(c, p) \/ RestoreProject(c, p) \/ RemoveProject(c, p)
      PROVE  Goal
  <2>1. ActiveIn(p) \in SUBSET Active
    BY DEF ActiveIn
  <2>2. \/ UNCHANGED <<stock, claims, draft>>
        \/ \E why : ReleaseAll(ActiveIn(p), why, "released")
    BY <1>6 DEF ArchiveProject, RestoreProject, RemoveProject
  <2> QED BY <1>3, <2>1, <2>2
<1>7. ASSUME NEW c \in Contexts, NEW i \in Items, NEW q \in 0..MaxQty,
             \/ \E b \in BodyKeys \cup {NoKey}, t \in EventTypes : RecordStockEvent(c, b, i, t, q)
             \/ \E how \in {"count", "commission"} : RecordCount(c, i, q, how)
      PROVE  Goal
  BY <1>7, StockCommandsMove
<1>8. ASSUME NEW c \in Contexts, NEW i \in Items, UpdateItem(c, i) \/ RetireItem(c, i)
      PROVE  Goal
  <2>1. 0 \in 0..MaxQty
    BY ReservationsAssumption
  <2> QED BY <1>8, <2>1, StockCommandsMove
<1>9. ASSUME NEW c \in Contexts, NEW v \in Revisions,
             CommitReconciliation(c, v) \/ \E plan \in Plans(v) : SaveDraft(c, v, plan)
      PROVE  Goal
  BY <1>9
<1>10. ASSUME UNCHANGED vars PROVE Goal
  BY <1>10 DEF vars
<1> HIDE DEF Touches, Reviews, Goal
<1>11. Goal
  BY <1>2, <1>4, <1>5, <1>6, <1>7, <1>8, <1>9, <1>10 DEF Next
<1> QED BY <1>11 DEF Touches, Reviews, Goal

\* A saved draft is read in the state it is saved in.
LEMMA SavedDraftIsTrue ==
  ASSUME TypeInv, CurrentDraftIsTrue, NEW c \in Contexts, NEW v \in Revisions,
         NEW plan \in Plans(v), SaveDraft(c, v, plan)
  PROVE  CurrentDraftIsTrue'
<1>1. \A w \in Revisions : Basis(w)' = Basis(w)
  BY DEF SaveDraft, stock, claims, Basis, ItemsOf, ActiveOf, Active, ReservationsOf
<1>2. /\ draft'[v] = [state |-> "draft", plan |-> plan, current |-> TRUE, basis |-> Basis(v)]
      /\ \A w \in Revisions \ {v} : draft'[w] = draft[w]
  BY DEF SaveDraft, TypeInv, TypeOK
<1>3. draft'[v].basis = Basis(v)
  BY <1>2
<1> QED BY <1>1, <1>2, <1>3 DEF CurrentDraftIsTrue

LEMMA CurrentDraftStep ==
  TypeInv /\ CurrentDraftIsTrue /\ [Next]_vars => CurrentDraftIsTrue'
<1> SUFFICES ASSUME TypeInv, CurrentDraftIsTrue, [Next]_vars PROVE CurrentDraftIsTrue'
  OBVIOUS
<1>1. CASE UNCHANGED <<stock, claims, draft>>
  BY <1>1 DEF stock, claims, CurrentDraftIsTrue, Basis, ItemsOf, ActiveOf, Active, ReservationsOf
<1>2. CASE \E I : TouchesItemsOf(I)
  BY <1>2, TouchedDraftsAreTrue DEF TouchesItemsOf
<1>3. CASE \E c \in Contexts, v \in Revisions :
             CommitReconciliation(c, v) \/ \E plan \in Plans(v) : SaveDraft(c, v, plan)
  BY <1>3, CommitDraftsAreTrue, SavedDraftIsTrue
<1> QED BY <1>1, <1>2, <1>3, StepTouches

\* A draft that no version bump has made stale still describes the balances and
\* the reservations it was reviewed against, whatever ran since it was saved.
THEOREM CurrentDraftsAreTrue == Spec => []CurrentDraftIsTrue
<1>1. Init => CurrentDraftIsTrue
  BY DEF Init, CurrentDraftIsTrue, NoDraft
<1> QED BY <1>1, CurrentDraftStep, TypeInvInit, TypeInvStep, PTL DEF Spec

-----------------------------------------------------------------------------
(* A review of the present state can be settled *)

\* Plans stay within what was reserved, and the items of a current draft are in
\* the inventory.
PlansWithin ==
  \A v \in Revisions : \A r \in DOMAIN draft[v].plan :
    r \in Res /\ status[r] # "unused" /\ draft[v].plan[r] \in 0..claim[r].qty
ItemsPresent ==
  \A v \in Revisions :
    draft[v].state = "draft" /\ draft[v].current => ItemsOf(v) \cap retired = {}

\* What reservations say never changes, so plans that are kept stay within it.
LEMMA PlansKept ==
  ASSUME PlansWithin, NEW v \in Revisions, draft'[v].plan = draft[v].plan,
         \A r \in Res : status[r] # "unused" => status'[r] # "unused" /\ claim'[r] = claim[r]
  PROVE  \A r \in DOMAIN draft'[v].plan :
           r \in Res /\ status'[r] # "unused" /\ draft'[v].plan[r] \in 0..claim'[r].qty
BY DEF PlansWithin

\* The items of a draft that a step leaves current are those it had.
LEMMA ItemsKept ==
  ASSUME NEW v \in Revisions, NEW I, MovesOnly(I), ItemsOf(v)' \cap I = {}
  PROVE  ItemsOf(v)' \subseteq ItemsOf(v)
<1> SUFFICES ASSUME NEW r \in Res, status'[r] # "unused", claim'[r].rev = v
             PROVE  claim'[r].item \in ItemsOf(v)
  BY DEF ItemsOf, ReservationsOf
<1>1. claim'[r].item \notin I
  BY DEF ItemsOf, ReservationsOf
<1>2. status[r] # "unused" /\ claim'[r] = claim[r]
  BY <1>1 DEF MovesOnly
<1> QED BY <1>2 DEF ItemsOf, ReservationsOf

\* An item is retired or enters a basis only by a step that makes the draft stale.
LEMMA TouchedItemsPresent ==
  ASSUME TypeInv, ItemsPresent, NEW v \in Revisions, NEW I, MovesOnly(I), TouchOf(v, I),
         retired' \subseteq retired \cup I, draft'[v].state = "draft", draft'[v].current
  PROVE  ItemsOf(v)' \cap retired' = {}
<1>1. draft[v] = [state |-> draft[v].state, plan |-> draft[v].plan,
                  current |-> draft[v].current, basis |-> draft[v].basis]
  BY DEF TypeInv, DraftShape
<1>2. ~(draft[v].state = "draft" /\ ItemsOf(v)' \cap I # {})
  <2> SUFFICES ASSUME draft[v].state = "draft", ItemsOf(v)' \cap I # {} PROVE FALSE
    OBVIOUS
  <2>1. draft'[v] = [draft[v] EXCEPT !.current = FALSE]
    BY DEF TouchOf
  <2>2. draft'[v].current = FALSE
    BY <2>1, <1>1
  <2> QED BY <2>2
<1>3. draft'[v] = draft[v]
  BY <1>2 DEF TouchOf
<1>4. ItemsOf(v)' \cap I = {}
  BY <1>2, <1>3
<1>5. ItemsOf(v)' \subseteq ItemsOf(v)
  BY <1>4, ItemsKept
<1>6. ItemsOf(v) \cap retired = {}
  BY <1>3 DEF ItemsPresent
<1> QED BY <1>4, <1>5, <1>6

\* Both survive a command that touches what it moves.
LEMMA TouchedReviews ==
  ASSUME TypeInv, PlansWithin, ItemsPresent, NEW I, TouchesItemsOf(I)
  PROVE  PlansWithin' /\ ItemsPresent'
<1>1. MovesOnly(I) /\ Touch(I) /\ retired' \subseteq retired \cup I
  BY DEF TouchesItemsOf
<1>2. ASSUME NEW v \in Revisions PROVE draft'[v].plan = draft[v].plan
  <2>1. draft'[v] = [state |-> draft[v].state, plan |-> draft[v].plan,
                     current |-> draft'[v].current, basis |-> draft[v].basis]
    BY <1>1, TouchKeepsDrafts DEF DraftsKept
  <2> QED BY <2>1
<1>3. \A r \in Res : status[r] # "unused" => status'[r] # "unused" /\ claim'[r] = claim[r]
  BY <1>1 DEF MovesOnly
<1>4. PlansWithin'
  BY <1>2, <1>3, PlansKept DEF PlansWithin
<1>5. ASSUME NEW v \in Revisions, draft'[v].state = "draft", draft'[v].current
      PROVE  ItemsOf(v)' \cap retired' = {}
  <2>1. TouchOf(v, I)
    BY <1>1 DEF Touch, TouchOf, ItemsOf
  <2> QED BY <1>1, <1>5, <2>1, TouchedItemsPresent
<1> QED BY <1>4, <1>5 DEF ItemsPresent

\* A close-out settles reservations; it neither retires nor reserves.
LEMMA CommittedReviews ==
  ASSUME TypeInv, PlansWithin, ItemsPresent, NEW c \in Contexts, NEW v \in Revisions,
         CommitReconciliation(c, v)
  PROVE  PlansWithin' /\ ItemsPresent'
<1> DEFINE I == {claim[r].item : r \in ActiveOf(v)}
<1>1. MovesOnly(I) /\ retired' = retired
  BY CommitMoves DEF CommitReconciliation
<1>2. ASSUME NEW w \in Revisions PROVE draft'[w].plan = draft[w].plan
  <2>1. CASE w = v
    <3>1. draft'[v] = [state |-> "committed", plan |-> draft[v].plan,
                       current |-> draft[v].current, basis |-> draft[v].basis]
      BY CommitDrafts
    <3> QED BY <2>1, <3>1
  <2>2. CASE w # v
    <3>1. draft'[w] = [state |-> draft[w].state, plan |-> draft[w].plan,
                       current |-> draft'[w].current, basis |-> draft[w].basis]
      BY <2>2, CommitDrafts
    <3> QED BY <3>1
  <2> QED BY <2>1, <2>2
<1>3. \A r \in Res : status[r] # "unused" => status'[r] # "unused" /\ claim'[r] = claim[r]
  BY <1>1 DEF MovesOnly
<1>4. PlansWithin'
  BY <1>2, <1>3, PlansKept DEF PlansWithin
<1>5. ASSUME NEW w \in Revisions, draft'[w].state = "draft", draft'[w].current
      PROVE  ItemsOf(w)' \cap retired' = {}
  <2>1. w # v
    <3>1. draft'[v] = [state |-> "committed", plan |-> draft[v].plan,
                       current |-> draft[v].current, basis |-> draft[v].basis]
      BY CommitDrafts
    <3>2. draft'[v].state = "committed"
      BY <3>1
    <3> QED BY <1>5, <3>2
  <2>2. TouchOf(w, I)
    BY <2>1, CommitTouches
  <2> HIDE DEF I
  <2> QED BY <1>1, <1>5, <2>2, TouchedItemsPresent
<1> QED BY <1>4, <1>5 DEF ItemsPresent

\* A review is saved for items that are there and within what they reserve.
LEMMA SavedReviews ==
  ASSUME TypeInv, PlansWithin, ItemsPresent, NEW c \in Contexts, NEW v \in Revisions,
         NEW plan \in Plans(v), SaveDraft(c, v, plan)
  PROVE  PlansWithin' /\ ItemsPresent'
<1>1. /\ UNCHANGED <<status, claim, retired>>
      /\ ItemsOf(v) \cap retired = {}
      /\ \A r \in DOMAIN plan : r \in ActiveOf(v) /\ plan[r] \in 0..claim[r].qty
  BY DEF SaveDraft, stock, claims
<1>2. /\ draft'[v] = [state |-> "draft", plan |-> plan, current |-> TRUE, basis |-> Basis(v)]
      /\ \A w \in Revisions \ {v} : draft'[w] = draft[w]
  BY DEF SaveDraft, TypeInv, TypeOK
<1>3. draft'[v].plan = plan
  BY <1>2
<1>4. \A w \in Revisions : ItemsOf(w)' = ItemsOf(w)
  BY <1>1 DEF ItemsOf, ReservationsOf
<1>5. PlansWithin'
  <2>1. \A r \in DOMAIN plan : r \in Res /\ status[r] # "unused"
    BY <1>1 DEF ActiveOf, Active
  <2> QED BY <1>1, <1>2, <1>3, <2>1 DEF PlansWithin
<1>6. ItemsPresent'
  BY <1>1, <1>2, <1>4 DEF ItemsPresent
<1> QED BY <1>5, <1>6

LEMMA ReviewStep ==
  TypeInv /\ PlansWithin /\ ItemsPresent /\ [Next]_vars => PlansWithin' /\ ItemsPresent'
<1> SUFFICES ASSUME TypeInv, PlansWithin, ItemsPresent, [Next]_vars
             PROVE  PlansWithin' /\ ItemsPresent'
  OBVIOUS
<1>1. CASE UNCHANGED <<stock, claims, draft>>
  BY <1>1 DEF stock, claims, PlansWithin, ItemsPresent, ItemsOf, ReservationsOf
<1>2. CASE \E I : TouchesItemsOf(I)
  BY <1>2, TouchedReviews
<1>3. CASE \E c \in Contexts, v \in Revisions :
             CommitReconciliation(c, v) \/ \E plan \in Plans(v) : SaveDraft(c, v, plan)
  BY <1>3, CommittedReviews, SavedReviews
<1> QED BY <1>1, <1>2, <1>3, StepTouches

\* A close-out takes of each item no more than it releases of it.
LEMMA TakesWhatItReleases ==
  ASSUME TypeInv, HeldInv, PlansWithin, NEW v \in Revisions,
         DOMAIN draft[v].plan = ActiveOf(v), NEW i \in Items
  PROVE  /\ Destroyed(v, i) \in Nat
         /\ Destroyed(v, i) <= Claimed(i, ActiveOf(v))
         /\ Claimed(i, ActiveOf(v)) \in Nat
         /\ Claimed(i, ActiveOf(v)) <= balance[i].allocated
<1> DEFINE R == ActiveOf(v)
           S == {s \in R : claim[s].item = i}
           f == [r \in S |-> Taken(v, r)]
           g == [r \in Res |-> claim[r].qty]
<1>1. /\ R \in SUBSET Active /\ Active \in SUBSET Res
      /\ IsFiniteSet(Active) /\ IsFiniteSet(R) /\ IsFiniteSet(S)
  BY FS_Subset DEF HeldInv, ActiveOf, Active
<1>2. \A r \in Active : claim[r].qty \in Nat
  BY ActiveClaims
<1>3. ASSUME NEW r \in S
      PROVE  f[r] \in Int /\ f[r] \in Nat /\ g[r] \in Int /\ f[r] <= g[r]
  <2>1. r \in R /\ r \in Res /\ claim[r].qty \in Nat
    BY <1>1, <1>2
  <2>2. draft[v].plan[r] \in 0..claim[r].qty
    BY <2>1 DEF PlansWithin
  <2>3. Taken(v, r) \in 0..claim[r].qty
    BY <2>1, <2>2 DEF Taken
  <2> QED BY <2>1, <2>3
<1>4. Claimed(i, R) = SumOfClaims(claim, R, i) /\ Claimed(i, Active) = SumOfClaims(claim, Active, i)
  BY <1>1, ClaimedIsSum
<1>5. SumOfClaims(claim, R, i) = SumFunctionOnSet(g, S)
  BY DEF SumOfClaims, ClaimsOn
<1>6. Destroyed(v, i) = SumFunctionOnSet(f, S)
  <2>1. Destroyed(v, i) = SumFunction(f) /\ DOMAIN f = S
    BY DEF Destroyed
  <2> HIDE DEF f
  <2> QED BY <2>1, Zenon DEF SumFunction
<1>7. \A r \in S : g[r] \in Nat
  BY <1>1, <1>2
<1>8. /\ SumFunctionOnSet(f, S) <= SumFunctionOnSet(g, S)
      /\ SumFunctionOnSet(f, S) \in Nat /\ SumFunctionOnSet(g, S) \in Nat
  <2> HIDE DEF f, g, S
  <2> QED BY <1>1, <1>3, <1>7, SumOrder, SumNat
<1>9. SumOfClaims(claim, R, i) <= SumOfClaims(claim, Active, i)
  <2> DEFINE T == ClaimsOn(claim, Active, i)
  <2>1. S \in SUBSET T /\ IsFiniteSet(T) /\ \A r \in T : g[r] \in Nat
    BY <1>1, <1>2, FS_Subset DEF ClaimsOn
  <2>2. SumFunctionOnSet(g, S) <= SumFunctionOnSet(g, T)
    <3> HIDE DEF g, S, T
    <3> QED BY <2>1, SumPart
  <2> QED BY <1>5, <2>2 DEF SumOfClaims
<1>10. SumOfClaims(claim, Active, i) \in Nat
  <2> DEFINE T == ClaimsOn(claim, Active, i)
  <2>1. IsFiniteSet(T) /\ \A r \in T : g[r] \in Nat
    BY <1>1, <1>2, FS_Subset DEF ClaimsOn
  <2>2. SumFunctionOnSet(g, T) \in Nat
    <3> HIDE DEF g, T
    <3> QED BY <2>1, SumNat
  <2> QED BY <2>2 DEF SumOfClaims
<1>11. Claimed(i, Active) <= balance[i].allocated /\ balance[i].allocated \in Nat
  BY DEF HeldInv, ReservedStockIsHeld, TypeInv, TypeOK, Balances
<1> HIDE DEF f, g, S, R
<1>12. Destroyed(v, i) \in Nat /\ Destroyed(v, i) <= Claimed(i, R) /\ Claimed(i, R) \in Nat
  BY <1>4, <1>5, <1>6, <1>8
<1>13. Claimed(i, R) <= balance[i].allocated
  BY <1>4, <1>9, <1>10, <1>11, <1>12
<1> QED BY <1>12, <1>13 DEF R

\* A complete review whose versions did not move can be settled: neither the
\* inventory nor the ledger is a reason to refuse it.  Posted releases are the
\* exception, as they are for the reserved stock itself.
THEOREM ReviewsCanBeSettled ==
  ASSUME NoManualRelease
  PROVE  Spec => []ReviewedCanBeSettled
<1>1. Init => PlansWithin /\ ItemsPresent
  BY DEF Init, PlansWithin, ItemsPresent, NoDraft
<1>2. ASSUME TypeInv, OneReleasePerReservation, HeldInv, PlansWithin, ItemsPresent
      PROVE  ReviewedCanBeSettled
  <2> SUFFICES ASSUME NEW v \in Revisions, draft[v].state = "draft", draft[v].current,
                      DOMAIN draft[v].plan = ActiveOf(v), NEW i \in Items
               PROVE  ValidBalance(Freed(v)[i]) /\ ValidBalance(Rest(v)[i])
    BY <1>2 DEF ReviewedCanBeSettled, ItemsPresent
  <2>1. ActiveOf(v) \in SUBSET Active /\ "reconcile-release" \in ReleaseKinds
    BY DEF ActiveOf, ReleaseKinds
  <2>2. Freed(v)[i] = [onHand |-> balance[i].onHand,
                       allocated |-> balance[i].allocated - Claimed(i, ActiveOf(v))]
    BY <1>2, <2>1, ReleasedBalance DEF Freed
  <2>3. Rest(v)[i] = [onHand |-> balance[i].onHand - Destroyed(v, i),
                      allocated |-> balance[i].allocated - Claimed(i, ActiveOf(v))]
    <3>1. Rest(v)[i] = [Freed(v)[i] EXCEPT !.onHand = @ - Destroyed(v, i)]
      BY DEF Rest
    <3> QED BY <2>2, <3>1
  <2>4. /\ Destroyed(v, i) \in Nat
        /\ Destroyed(v, i) <= Claimed(i, ActiveOf(v))
        /\ Claimed(i, ActiveOf(v)) \in Nat
        /\ Claimed(i, ActiveOf(v)) <= balance[i].allocated
    BY <1>2, TakesWhatItReleases
  <2>5. /\ balance[i].onHand \in Nat /\ balance[i].allocated \in Nat
        /\ balance[i].allocated <= balance[i].onHand
    BY <1>2 DEF TypeInv, TypeOK, Balances
  <2> QED BY <2>2, <2>3, <2>4, <2>5 DEF ValidBalance
<1>3. TypeInv /\ PlansWithin /\ ItemsPresent /\ [Next]_vars => PlansWithin' /\ ItemsPresent'
  BY ReviewStep
<1> QED
  BY <1>1, <1>2, <1>3, HeldAlways, TypeInvInit, TypeInvStep, OneRelease, PTL DEF Spec
=============================================================================
