------------------------------- MODULE Ledger -------------------------------
(***************************************************************************)
(* The durable execution ledger (brain/execution/lifecycle.py), reduced to *)
(* the rows that decide anything: the status of each intent, the local     *)
(* copy of each entry order and of its protective legs, the fill rows, the *)
(* position row of each symbol, the latest reconciliation row and the      *)
(* latest kill-switch row.  Everything here survives a crash of the        *)
(* process except ledgerMem.                                               *)
(*                                                                         *)
(* An intent is named by its client order id: two intents with the same    *)
(* symbol, side, levels, quantity and leverage ARE the same intent         *)
(* (deterministic_client_order_id).  Every intent asks for OrderQty units. *)
(***************************************************************************)
EXTENDS Integers, FiniteSets

CONSTANTS
  Intents,    \* client order ids
  Symbols,    \* instruments
  SymbolOf,   \* the instrument of each intent
  OrderQty,   \* the quantity of every entry, in units
  Prices,     \* average fill prices the exchange may report
  Mode        \* ExecutionConfig.mode: "PAPER" or "TESTNET"

ASSUME LedgerAssumption ==
  /\ SymbolOf \in [Intents -> Symbols]
  /\ OrderQty \in Nat \ {0}
  /\ Prices # {}
  /\ Mode \in {"PAPER", "TESTNET"}

\* The two protective orders create_plan adds to an entry.  The targets tp1,
\* tp2 and tp3 are one leg: they are placed by the same loop, one after another.
Legs == {"sl", "tp"}

\* EXPIRED, CANCELLED and CANCELED are one terminal status; ACKNOWLEDGED is NEW.
EntryStatus ==
  {"NEW", "PARTIALLY_FILLED", "FILLED", "CANCELED", "REJECTED", "UNKNOWN"}
TerminalStatus == {"FILLED", "CANCELED", "REJECTED"}

\* Statuses an intent row takes, and those a restarted consumer picks up again.
OutcomeStatus == {"SUBMITTED", "RECONCILED", "DUPLICATE", "REJECTED", "UNKNOWN"}
RecoverableStatus ==
  {"PERSISTED", "QUEUED", "RECOVERED", "PROCESSING", "APPROVED"}
IntentStatus == OutcomeStatus \union RecoverableStatus \union {"FAILED"}

VARIABLES
  intentStatus,  \* execution_intents: status by client order id, or "NONE"
  localOrder,    \* orders: status of the entry as last persisted, or "NONE"
  localLeg,      \* orders: "NONE", "OPEN" or "DONE" for each protective leg
  filled,        \* fills: filled_quantity(client_order_id), the sum of its rows
  fillIds,       \* fills: what the id of each row hashes, <<quantity, price>>
  position,      \* positions: quantity of each symbol
  lastRow,       \* reconciliation: latest row is "MATCH" (or none) or "UNKNOWN"
  killed,        \* kill_switch_events: the latest row says KILLED
  ledgerMem      \* ExecutionLedger._recovery_state, in memory only

ledgerVars == <<intentStatus, localOrder, localLeg, filled, fillIds, position,
                lastRow, killed, ledgerMem>>

LedgerTypeOK ==
  /\ intentStatus \in [Intents -> IntentStatus \union {"NONE"}]
  /\ localOrder \in [Intents -> EntryStatus \union {"NONE"}]
  /\ localLeg \in [Intents -> [Legs -> {"NONE", "OPEN", "DONE"}]]
  /\ filled \in [Intents -> 0 .. OrderQty]
  /\ fillIds \in [Intents -> SUBSET ((1 .. OrderQty) \X Prices)]
  /\ position \in [Symbols -> Int]
  /\ lastRow \in {"MATCH", "UNKNOWN"}
  /\ killed \in BOOLEAN
  /\ ledgerMem \in {"READY", "RECOVERY"}

LedgerInit ==
  /\ intentStatus = [i \in Intents |-> "NONE"]
  /\ localOrder = [i \in Intents |-> "NONE"]
  /\ localLeg = [i \in Intents |-> [l \in Legs |-> "NONE"]]
  /\ filled = [i \in Intents |-> 0]
  /\ fillIds = [i \in Intents |-> {}]
  /\ position = [s \in Symbols |-> 0]
  /\ lastRow = "MATCH"
  /\ killed = FALSE
  /\ ledgerMem = "READY"

-----------------------------------------------------------------------------
\* The recovery_state property: a latest row that does not match always means
\* RECOVERY; otherwise the value this process last remembered.
RecoveryState == IF lastRow = "MATCH" THEN ledgerMem ELSE "RECOVERY"

\* record_reconciliation: append a row and remember what it means.  DISCREPANCY
\* rows count as UNKNOWN: the code only asks whether a row is MATCH or OK.
RecordReconciliation(status) ==
  /\ lastRow' = status
  /\ ledgerMem' = IF status = "MATCH" THEN "READY" ELSE "RECOVERY"

\* load_order finds a row for the entry.
OrderKnown(i) == localOrder[i] # "NONE"

SetIntentStatus(i, status) ==
  intentStatus' = [intentStatus EXCEPT ![i] = status]

PersistEntry(i, status) ==
  localOrder' = [localOrder EXCEPT ![i] = status]

PersistLeg(i, l, status) ==
  localLeg' = [localLeg EXCEPT ![i][l] = status]

\* _fill_id hashes what distinguishes two fills of one entry.
FillId(delta, price) == <<delta, price>>

\* Mutant: the fill row holds the cumulative quantity.
BookTotal(i, delta, price, total, status) ==
  /\ filled' = [filled EXCEPT ![i] =
                  IF FillId(delta, price) \in fillIds[i] THEN @ ELSE @ + total]
  /\ fillIds' = [fillIds EXCEPT ![i] = @ \union {FillId(delta, price)}]
  /\ position' = [position EXCEPT ![SymbolOf[i]] = total]
  /\ lastRow' = IF status = "FILLED" THEN "MATCH" ELSE "UNKNOWN"
  /\ UNCHANGED <<intentStatus, localOrder, localLeg, killed, ledgerMem>>

\* record_confirmed_fill, one transaction: the fill row is inserted OR IGNOREd
\* under its id, the symbol's position row is overwritten with the cumulative
\* quantity of this one order, and a reconciliation row is appended without
\* touching _recovery_state.
RecordConfirmedFill(i, delta, price, total, status) ==
  /\ filled' = [filled EXCEPT ![i] =
                  IF FillId(delta, price) \in fillIds[i] THEN @ ELSE @ + delta]
  /\ fillIds' = [fillIds EXCEPT ![i] = @ \union {FillId(delta, price)}]
  /\ position' = [position EXCEPT ![SymbolOf[i]] = total]
  /\ lastRow' = IF status = "FILLED" THEN "MATCH" ELSE "UNKNOWN"
  /\ UNCHANGED <<intentStatus, localOrder, localLeg, killed, ledgerMem>>
=============================================================================
