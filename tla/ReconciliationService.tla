----------------------- MODULE ReconciliationService -----------------------
(***************************************************************************)
(* ReconciliationService.reconcile_once                                    *)
(* (brain/runtime/reconciliation_service.py) with the coordinator's        *)
(* reconcile and reconcile_positions: open local orders must be open at    *)
(* the exchange, and every position the exchange reports is compared with  *)
(* the positions the exchange reports.                                     *)
(***************************************************************************)
EXTENDS Coordinator

VARIABLE healthy   \* result of the last reconciliation

\* Local orders that are not terminal are open at the exchange.
Unfinished(i) == localOrder[i] \notin TerminalStatus \union {"NONE"}
NothingMissing ==
  \A i \in Intents :
    /\ Unfinished(i) => OpenAtExchange(i)
    /\ \A l \in Legs : localLeg[i][l] = "OPEN" => Working(i, l)

Held == {s \in Symbols : holding[s] # 0}

\* Each held position expects to be the only one: with two or more, all the
\* others are unexpected.
PositionsMatch == \A s, t \in Held : s = t

\* Every result is MATCH: the gate takes what the ledger now says.
ReconcileHealthy ==
  /\ At("idle")
  /\ NothingMissing
  /\ PositionsMatch
  /\ RecordMatch
  /\ healthy' = TRUE
  /\ UNCHANGED <<LedgerOrders, exchangeVars, requests, reqLegs>>

\* Mutant: the result is remembered but the gate stays as it is.
UnhealthyOnly ==
  /\ At("idle")
  /\ ~NothingMissing \/ ~PositionsMatch \/ Networked
  /\ healthy' = FALSE
  /\ UNCHANGED <<ledgerVars, exchangeVars, requests, reqLegs, gate>>

\* An order is missing, a position does not match, or the exchange cannot be
\* read or moved between two reads.
ReconcileUnhealthy ==
  /\ At("idle")
  /\ ~NothingMissing \/ ~PositionsMatch \/ Networked
  /\ EnterRecovery
  /\ healthy' = FALSE
  /\ UNCHANGED <<LedgerOrders, exchangeVars, requests, reqLegs>>
=============================================================================
