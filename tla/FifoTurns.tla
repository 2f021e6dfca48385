----------------------------- MODULE FifoTurns -----------------------------
(***************************************************************************)
(* What the runtime barrier promises the rest of BenchLedger, without its  *)
(* queue, leases and AsyncLocalStorage: every operation that asks for a    *)
(* turn gets exactly one, turns never overlap, they are taken in the order *)
(* of the requests, and after the close request no turn is handed out.     *)
(***************************************************************************)
EXTENDS Naturals, Sequences

CONSTANT Tasks      \* everything that may ask for a turn

VARIABLES
  arrived,          \* the tasks that asked for a turn, in order of arrival
  served,           \* how many of those turns are over
  open              \* FALSE once the close request has arrived

turnVars == <<arrived, served, open>>

Asked(t) == \E i \in 1..Len(arrived) : arrived[i] = t

Init == arrived = <<>> /\ served = 0 /\ open = TRUE

Ask(t) ==
  /\ open /\ ~Asked(t)
  /\ arrived' = Append(arrived, t)
  /\ UNCHANGED <<served, open>>

\* The close request is itself a turn, the last one.
AskToClose(t) ==
  /\ open /\ ~Asked(t)
  /\ arrived' = Append(arrived, t)
  /\ open' = FALSE
  /\ UNCHANGED served

\* The turn of arrived[served + 1] ends; the next one, if any, begins.
EndTurn ==
  /\ served < Len(arrived)
  /\ served' = served + 1
  /\ UNCHANGED <<arrived, open>>

Next == EndTurn \/ \E t \in Tasks : Ask(t) \/ AskToClose(t)

Spec == Init /\ [][Next]_turnVars /\ WF_turnVars(EndTurn)
=============================================================================
