---------------------------- MODULE StockEvents ----------------------------
(***************************************************************************)
(* The arithmetic of the stock ledger (packages/domain/src/stock.ts): what *)
(* one event does to the balance of its item and which balances exist.     *)
(* Every event kind the REST and MCP surfaces, reservations and            *)
(* reconciliation write is here.  Quantities are natural numbers.          *)
(***************************************************************************)
EXTENDS Integers

Adds  == {"receipt", "return", "adjustment"}
Takes == {"consume", "loss"}

\* StockEventKind; "evidence" changes no balance.
Kinds == Adds \cup Takes \cup {"count", "allocate", "release", "evidence"}

\* What the API calls an event and the kind the ledger stores for it.
StockKind(type) ==
  CASE type = "correction" -> "adjustment"
    [] type = "dispose"    -> "loss"
    [] OTHER               -> type

\* validateEvent: a count and an adjustment may be zero, the rest move stock.
ValidEvent(e) ==
  e.kind \in {"allocate", "release", "consume", "loss", "receipt", "return"}
    => e.qty > 0

\* applyEvent before its checks.
Apply(b, e) ==
  [ onHand    |-> IF e.kind = "count" THEN e.qty
                  ELSE IF e.kind \in Adds THEN b.onHand + e.qty
                  ELSE IF e.kind \in Takes THEN b.onHand - e.qty
                  ELSE b.onHand,
    allocated |-> IF e.kind = "allocate" THEN b.allocated + e.qty
                  ELSE IF e.kind = "release" THEN b.allocated - e.qty
                  ELSE b.allocated ]

\* The balances applyEvent lets through: negative_stock, negative_allocation
\* and over_allocation are refused.
ValidBalance(b) ==
  /\ b.onHand \in Nat
  /\ b.allocated \in Nat
  /\ b.allocated <= b.onHand

Balances == {b \in [onHand : Nat, allocated : Nat] : b.allocated <= b.onHand}

Empty == [onHand |-> 0, allocated |-> 0]
Available(b) == b.onHand - b.allocated
=============================================================================
