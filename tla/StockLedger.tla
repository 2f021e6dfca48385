---------------------------- MODULE StockLedger ----------------------------
(***************************************************************************)
(* The append-only ledger of one inventory item: its stock events in the   *)
(* order they are replayed (packages/database/src/inventory-repository.ts  *)
(* and packages/domain/src/stock.ts).  The database returns them by time   *)
(* and, at equal times, in the order they were stored; a balance is never  *)
(* kept, it is derived from the whole ledger on every read.                *)
(***************************************************************************)
EXTENDS StockEvents, SequencesExt

\* No balance: the replay threw.
Refused == [onHand |-> -1, allocated |-> 0]

\* (mutant) a new event goes before those dated the same
InsertFirst(s, e) ==
  InsertAt(s, 1 + Cardinality({k \in DOMAIN s : s[k].at < e.at}), e)

\* The event joins the ledger after all that are not dated later than it.
Insert(s, e) ==
  InsertAt(s, 1 + Cardinality({k \in DOMAIN s : s[k].at <= e.at}), e)

\* applyEvent: one event of a replay, which throws at the first bad balance.
Replay(b, e) ==
  IF b # Refused /\ ValidBalance(Apply(b, e)) THEN Apply(b, e) ELSE Refused

\* deriveStockBalance: the balance after all events of the ledger.
Derive(s) ==
  LET after[n \in 0..Len(s)] ==
        IF n = 0 THEN Empty ELSE Replay(after[n - 1], s[n])
  IN after[Len(s)]

\* (mutant) only the balance after the last event is looked at
AcceptsAtEnd(s, e) ==
  ValidEvent(e) /\ Derive(s) # Refused /\ ValidBalance(Apply(Derive(s), e))

\* appendStockEvent: the ledger must replay with the event in its place.
Accepts(s, e) == ValidEvent(e) /\ Derive(Insert(s, e)) # Refused
=============================================================================
