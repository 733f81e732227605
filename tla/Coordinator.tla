---------------------------- MODULE Coordinator -----------------------------
(***************************************************************************)
(* ExecutionCoordinator (brain/execution/coordinator.py): submit_intent,   *)
(* process_confirmed_fill, synchronize_protection, submit_order_request    *)
(* and recover.  A call runs to its end on the event loop, so no other     *)
(* handler of the process interleaves with it; but every ledger commit and *)
(* every exchange call in it is a step of its own, because the process can *)
(* crash between two of them and the exchange moves meanwhile.  job is the *)
(* program counter and the local variables of the call in progress.        *)
(***************************************************************************)
EXTENDS Exchange

CONSTANTS
  NoIntent,    \* no call in progress
  Admissible   \* intents that pass the static gates: mode, configured kill
               \* switches, levels, notional limits and leverage

ASSUME CoordinatorAssumption ==
  /\ NoIntent \notin Intents
  /\ Admissible \subseteq Intents

VARIABLES
  requests,  \* entries in _requests: submitted by this process
  reqLegs,   \* protective legs in _requests
  gate,      \* ExecutionCoordinator.recovery_state, the cached gate
  job        \* the call in progress

coordinatorVars == <<requests, reqLegs, gate, job>>

Places ==
  {"down", "idle", "enqueue", "gate", "persist_order",
   "persist_intent", "send", "query", "acked", "acknowledged", "fill",
   "protect", "leg_send", "unprotected", "finish", "raised", "recover",
   "verify", "unrecovered"}

Job(at, op, i, view, arg) ==
  [at |-> at, op |-> op, id |-> i, view |-> view, arg |-> arg]
Idle == Job("idle", "none", NoIntent, NoOrder, "none")
Down == Job("down", "none", NoIntent, NoOrder, "none")

Jobs ==
  [at : Places,
   op : {"none", "consume", "direct", "recover"},
   id : Intents \union {NoIntent},
   view : [status : RemoteStatus \union {"UNKNOWN", "NONE"}, filled : 0 .. OrderQty],
   arg : OutcomeStatus \union Legs \union {"none", "done"}]

CoordinatorTypeOK ==
  /\ requests \subseteq Intents
  /\ reqLegs \subseteq Intents \X Legs
  /\ gate \in {"READY", "RECOVERY"}
  /\ job \in Jobs
  /\ job.at \notin {"down", "idle"} => job.id \in Intents

CoordinatorInit ==
  /\ requests = {}
  /\ reqLegs = {}
  /\ gate = "RECOVERY"
  /\ job = Down

At(place) == job.at = place
Go(place) == job' = [job EXCEPT !.at = place]

\* submit_intent returns an outcome: the consumer still has to record it.
Return(outcome) ==
  job' = IF job.op = "consume"
         THEN [job EXCEPT !.at = "finish", !.arg = outcome]
         ELSE Idle

\* An exception no handler of the coordinator catches; recover catches them all.
Raise == Go(IF job.op = "recover" THEN "unrecovered" ELSE "raised")

\* Mutant: the cached gate stays as it was.
RecoveryRowOnly == RecordReconciliation("UNKNOWN") /\ UNCHANGED gate

\* Append a row that does not match and close the gate.
EnterRecovery == RecordReconciliation("UNKNOWN") /\ gate' = "RECOVERY"

\* Append a matching row; the gate takes what the ledger now says.
RecordMatch == RecordReconciliation("MATCH") /\ gate' = RecoveryState'

LedgerOrders == <<intentStatus, localOrder, localLeg, filled, fillIds, position, killed>>

-----------------------------------------------------------------------------
(* submit_intent: the gates, in the order the code evaluates them.         *)

\* submit_intent called directly, not by the queue's consumer.
SubmitIntent(i) ==
  /\ At("idle")
  /\ job' = Job("gate", "direct", i, NoOrder, "none")
  /\ UNCHANGED <<ledgerVars, exchangeVars, requests, reqLegs, gate>>

\* Mutants: the kill switch, or the cached gate, is not asked.
IgnoreKillSwitch == gate = "READY" /\ job.id \in Admissible
IgnoreGate == ~killed /\ job.id \in Admissible

GatesOpen ==
  /\ gate = "READY"
  /\ ~killed
  /\ job.id \in Admissible

GateRejects ==
  /\ At("gate")
  /\ ~GatesOpen
  /\ Return("REJECTED")
  /\ UNCHANGED <<ledgerVars, exchangeVars, requests, reqLegs, gate>>

\* The entry was submitted by this process: answer from the exchange only.
GateKnownRequest ==
  /\ At("gate")
  /\ GatesOpen
  /\ job.id \in requests
  /\ \/ OnExchange(job.id) /\ Return("DUPLICATE")
     \/ MayMiss(job.id) /\ Return("REJECTED")
     \/ Networked /\ Raise
  /\ UNCHANGED <<ledgerVars, exchangeVars, requests, reqLegs, gate>>

\* Mutant: only _requests remembers what was submitted.
NeverDurable(i) == FALSE

DurablyKnown(i) == OrderKnown(i)

\* The entry was persisted by an earlier process.
GateKnownOrder ==
  /\ At("gate")
  /\ GatesOpen
  /\ job.id \notin requests
  /\ DurablyKnown(job.id)
  /\ \/ /\ OnExchange(job.id)
        /\ Return("DUPLICATE")
        /\ UNCHANGED <<ledgerVars, gate>>
     \/ /\ MayMiss(job.id)
        /\ EnterRecovery
        /\ Return("REJECTED")
        /\ UNCHANGED LedgerOrders
     \/ /\ Networked
        /\ Raise
        /\ UNCHANGED <<ledgerVars, gate>>
  /\ UNCHANGED <<exchangeVars, requests, reqLegs>>

NewEntry(i) == i \notin requests /\ ~DurablyKnown(i)

\* The exchange is unhealthy, or the account cannot carry the order; a
\* malformed account answer raises.
GateUnavailable ==
  /\ At("gate")
  /\ GatesOpen
  /\ NewEntry(job.id)
  /\ Networked
  /\ Return("REJECTED") \/ Raise
  /\ UNCHANGED <<ledgerVars, exchangeVars, requests, reqLegs, gate>>

GatePasses ==
  /\ At("gate")
  /\ GatesOpen
  /\ NewEntry(job.id)
  /\ requests' = requests \union {job.id}
  /\ Go("persist_order")
  /\ UNCHANGED <<ledgerVars, exchangeVars, reqLegs, gate>>

-----------------------------------------------------------------------------
(* submit_intent: persist, submit, and what the exchange answers.          *)

\* Mutant: the order row is left to the acknowledgement.
SkipOrderRow ==
  /\ At("persist_order")
  /\ Go("persist_intent")
  /\ UNCHANGED <<ledgerVars, exchangeVars, requests, reqLegs, gate>>

\* persist_intent_order_transition commits the order row first ...
PersistOrder ==
  /\ At("persist_order")
  /\ PersistEntry(job.id, "NEW")
  /\ Go("persist_intent")
  /\ UNCHANGED <<intentStatus, localLeg, filled, fillIds, position, lastRow,
                 killed, ledgerMem, exchangeVars, requests, reqLegs, gate>>

\* Mutant: the intent row reports the outcome before the order is sent.
OutcomeFirst ==
  /\ At("persist_intent")
  /\ SetIntentStatus(job.id, "SUBMITTED")
  /\ Go("send")
  /\ UNCHANGED <<localOrder, localLeg, filled, fillIds, position, lastRow,
                 killed, ledgerMem, exchangeVars, requests, reqLegs, gate>>

\* ... and the intent row with its event in a second transaction.
PersistIntent ==
  /\ At("persist_intent")
  /\ SetIntentStatus(job.id, "APPROVED")
  /\ Go("send")
  /\ UNCHANGED <<localOrder, localLeg, filled, fillIds, position, lastRow,
                 killed, ledgerMem, exchangeVars, requests, reqLegs, gate>>

\* submit_order: answered; taken but the answer is lost; or failed with the
\* request refused locally, lost, or still on its way.
Send ==
  /\ At("send")
  /\ sends' = [sends EXCEPT ![job.id] = @ + 1]
  /\ \/ /\ \E v \in FirstViews :
             /\ TakeView(job.id, v)
             /\ \E answer \in {v} \union (IF Networked THEN {View("UNKNOWN", v.filled)} ELSE {}) :
                  job' = [job EXCEPT !.at = "acked", !.view = answer]
        /\ UNCHANGED inflight
     \/ /\ Networked
        /\ \E v \in FirstViews : TakeView(job.id, v)
        /\ Go("query")
        /\ UNCHANGED inflight
     \/ /\ Networked
        /\ inflight' = inflight \union {job.id}
        /\ Go("query")
        /\ UNCHANGED <<remote, executed, holding>>
  /\ UNCHANGED <<ledgerVars, legQty, legEnded, requests, reqLegs, gate>>

\* The call failed but get_order finds the entry: MATCH, outcome RECONCILED.
QueryFinds ==
  /\ At("query")
  /\ OnExchange(job.id)
  /\ RecordMatch
  /\ Return("RECONCILED")
  /\ UNCHANGED <<LedgerOrders, exchangeVars, requests, reqLegs>>

\* get_order finds nothing or fails: the submission's status is unknown.
QueryMisses ==
  /\ At("query")
  /\ EnterRecovery
  /\ Return("UNKNOWN")
  /\ UNCHANGED <<LedgerOrders, exchangeVars, requests, reqLegs>>

\* get_order answers something malformed: the ValueError is not caught here.
QueryRaises ==
  /\ At("query")
  /\ Raise
  /\ UNCHANGED <<ledgerVars, exchangeVars, requests, reqLegs, gate>>

PersistAck ==
  /\ At("acked")
  /\ PersistEntry(job.id, job.view.status)
  /\ Go("acknowledged")
  /\ UNCHANGED <<intentStatus, localLeg, filled, fillIds, position, lastRow,
                 killed, ledgerMem, exchangeVars, requests, reqLegs, gate>>

AckRejected ==
  /\ At("acknowledged")
  /\ job.view.status = "REJECTED"
  /\ Return("REJECTED")
  /\ UNCHANGED <<ledgerVars, exchangeVars, requests, reqLegs, gate>>

AckUnknown ==
  /\ At("acknowledged")
  /\ job.view.status = "UNKNOWN"
  /\ EnterRecovery
  /\ Return("UNKNOWN")
  /\ UNCHANGED <<LedgerOrders, exchangeVars, requests, reqLegs>>

AckAccepted ==
  /\ At("acknowledged")
  /\ job.view.status \notin {"REJECTED", "UNKNOWN"}
  /\ Go("fill")
  /\ UNCHANGED <<ledgerVars, exchangeVars, requests, reqLegs, gate>>

-----------------------------------------------------------------------------
(* process_confirmed_fill, with job.view the order as the exchange told it. *)

\* Mutant: the whole reported quantity counts as new.
WholeQuantity == job.view.filled

Delta == job.view.filled - filled[job.id]

\* Mutant: full fills are left alone in every mode.
OnlyPartial ==
  \/ job.op = "recover" /\ job.view.filled > 0
  \/ job.op # "recover" /\ job.view.status = "PARTIALLY_FILLED"

\* submit_intent protects a partial fill, and a full one only in PAPER mode;
\* recover protects every entry with fills.
NeedsProtection ==
  IF job.op = "recover"
  THEN job.view.filled > 0
  ELSE \/ job.view.status = "PARTIALLY_FILLED"
       \/ job.view.status = "FILLED" /\ Mode = "PAPER"

AfterFill ==
  IF NeedsProtection
  THEN job' = [job EXCEPT !.at = "protect", !.arg = "sl"]
  ELSE IF job.op = "recover" THEN Go("verify") ELSE Return("SUBMITTED")

FillNothing ==
  /\ At("fill")
  /\ job.view.filled = 0 \/ Delta = 0
  /\ AfterFill
  /\ UNCHANGED <<ledgerVars, exchangeVars, requests, reqLegs, gate>>

\* The exchange reports less than is recorded, or a fill without a price.
FillUnusable ==
  /\ At("fill")
  /\ job.view.filled > 0
  /\ Delta < 0 \/ (Delta > 0 /\ Networked)
  /\ EnterRecovery
  /\ AfterFill
  /\ UNCHANGED <<LedgerOrders, exchangeVars, requests, reqLegs>>

\* A price of zero is not None: Fill refuses it with a ValueError.
FillRaises ==
  /\ At("fill")
  /\ Delta > 0
  /\ Networked
  /\ Raise
  /\ UNCHANGED <<ledgerVars, exchangeVars, requests, reqLegs, gate>>

FillBooked ==
  /\ At("fill")
  /\ Delta > 0
  /\ \E price \in Prices :
       RecordConfirmedFill(job.id, Delta, price, job.view.filled, job.view.status)
  /\ gate' = RecoveryState'
  /\ AfterFill
  /\ UNCHANGED <<exchangeVars, requests, reqLegs>>
-----------------------------------------------------------------------------
(* synchronize_protection: each leg in turn is found, amended or placed,   *)
(* until one cannot be confirmed.  job.arg is the leg, or "done".          *)

\* Mutant: the entry's quantity is protected, whatever was filled of it.
RequestedQuantity == OrderQty

Quantity == filled[job.id]
AtLeg == At("protect") /\ job.arg \in Legs /\ Quantity > 0

\* Mutant: the loop ends after the first leg.
FirstLegOnly ==
  IF NamesParent
  THEN job' = [job EXCEPT !.at = "protect", !.arg = "done"]
  ELSE Go("raised")

\* A confirmed leg is recorded; a leg that names no parent breaks NOT NULL, and
\* no handler of the coordinator catches sqlite3.IntegrityError.
LegConfirmed ==
  IF NamesParent
  THEN job' = [job EXCEPT !.at = "protect",
                          !.arg = IF job.arg = "sl" THEN "tp" ELSE "done"]
  ELSE Go("raised")

AfterProtection ==
  IF job.op = "recover" THEN Go("verify") ELSE Return("SUBMITTED")

ProtectNothing ==
  /\ At("protect")
  /\ Quantity = 0
  /\ AfterProtection
  /\ UNCHANGED <<ledgerVars, exchangeVars, requests, reqLegs, gate>>

LegCovered ==
  /\ AtLeg
  /\ Working(job.id, job.arg)
  /\ legQty[job.id][job.arg] >= Quantity
  /\ LegConfirmed
  /\ UNCHANGED <<ledgerVars, exchangeVars, requests, reqLegs, gate>>

\* amend_order is answered, or fails before or after taking effect.
LegAmended ==
  /\ AtLeg
  /\ Working(job.id, job.arg)
  /\ legQty[job.id][job.arg] < Quantity
  /\ legQty' = [legQty EXCEPT ![job.id][job.arg] = Quantity]
  /\ LegConfirmed \/ (Networked /\ Go("unprotected"))
  /\ UNCHANGED <<ledgerVars, remote, inflight, legEnded, holding, sends, executed,
                 requests, reqLegs, gate>>

\* The order is persisted as NEW before submit_order_request submits it.
LegPlaced ==
  /\ AtLeg
  /\ legQty[job.id][job.arg] = 0
  /\ <<job.id, job.arg>> \notin reqLegs
  /\ reqLegs' = reqLegs \union {<<job.id, job.arg>>}
  /\ PersistLeg(job.id, job.arg, "OPEN")
  /\ Go("leg_send")
  /\ UNCHANGED <<intentStatus, localOrder, filled, fillIds, position, lastRow,
                 killed, ledgerMem, exchangeVars, requests, gate>>

\* get_order or amend_order fails or answers a finished leg, the exchange is
\* unavailable, or this process already submitted the leg and it is not there.
LegFails ==
  /\ AtLeg
  /\ \/ Networked
     \/ legQty[job.id][job.arg] = 0 /\ <<job.id, job.arg>> \in reqLegs
  /\ Go("unprotected")
  /\ UNCHANGED <<ledgerVars, exchangeVars, requests, reqLegs, gate>>

\* The exchange takes the leg, and says so at once or when queried.
LegAccepted ==
  /\ At("leg_send")
  /\ legQty' = [legQty EXCEPT ![job.id][job.arg] = Quantity]
  /\ LegConfirmed
  /\ UNCHANGED <<ledgerVars, remote, inflight, legEnded, holding, sends, executed,
                 requests, reqLegs, gate>>

LegRefused ==
  /\ At("leg_send")
  /\ Networked
  /\ PersistLeg(job.id, job.arg, "DONE")
  /\ Go("unprotected")
  /\ UNCHANGED <<intentStatus, localOrder, filled, fillIds, position, lastRow,
                 killed, ledgerMem, exchangeVars, requests, reqLegs, gate>>

\* The call fails, with or without effect, and the query finds nothing.
LegUnknown ==
  /\ At("leg_send")
  /\ Networked
  /\ \/ legQty' = [legQty EXCEPT ![job.id][job.arg] = Quantity]
     \/ UNCHANGED legQty
  /\ EnterRecovery
  /\ Go("unprotected")
  /\ UNCHANGED <<LedgerOrders, remote, inflight, legEnded, holding, sends, executed,
                 requests, reqLegs>>

ProtectionFails ==
  /\ At("unprotected")
  /\ EnterRecovery
  /\ IF job.op = "recover" THEN job' = Idle ELSE Return("UNKNOWN")
  /\ UNCHANGED <<LedgerOrders, exchangeVars, requests, reqLegs>>

ProtectionVerified ==
  /\ At("protect")
  /\ job.arg = "done"
  /\ RecordMatch
  /\ AfterProtection
  /\ UNCHANGED <<LedgerOrders, exchangeVars, requests, reqLegs>>

-----------------------------------------------------------------------------
(* recover: read the entry back, book it, protect it, compare positions.   *)

Recover(i) ==
  /\ At("idle")
  /\ job' = Job("recover", "recover", i, NoOrder, "none")
  /\ UNCHANGED <<ledgerVars, exchangeVars, requests, reqLegs, gate>>

RecoverReads ==
  /\ At("recover")
  /\ OnExchange(job.id)
  /\ \E v \in Answers(job.id) :
       /\ v.status # "UNKNOWN"
       /\ PersistEntry(job.id, v.status)
       /\ job' = [job EXCEPT !.at = "fill", !.view = v]
  /\ UNCHANGED <<intentStatus, localLeg, filled, fillIds, position, lastRow,
                 killed, ledgerMem, exchangeVars, requests, reqLegs, gate>>

RecoverMisses ==
  /\ At("recover")
  /\ MayMiss(job.id)
  /\ Go("unrecovered")
  /\ UNCHANGED <<ledgerVars, exchangeVars, requests, reqLegs, gate>>

\* The position of the symbol must be exactly what this entry filled.
PositionAgrees == filled[job.id] > 0 /\ holding[SymbolOf[job.id]] = filled[job.id]

RecoverVerifies ==
  /\ At("verify")
  /\ PositionAgrees
  /\ RecordMatch
  /\ job' = Idle
  /\ UNCHANGED <<LedgerOrders, exchangeVars, requests, reqLegs>>

RecoverMismatch ==
  /\ At("verify")
  /\ ~PositionAgrees \/ Networked
  /\ Go("unrecovered")
  /\ UNCHANGED <<ledgerVars, exchangeVars, requests, reqLegs, gate>>

RecoverFails ==
  /\ At("unrecovered")
  /\ EnterRecovery
  /\ job' = Idle
  /\ UNCHANGED <<LedgerOrders, exchangeVars, requests, reqLegs>>

-----------------------------------------------------------------------------
\* The steps of a call from its first gate to its outcome.
Gate == \/ GateRejects \/ GateKnownRequest \/ GateKnownOrder
        \/ GateUnavailable \/ GatePasses

Submission == \/ PersistOrder \/ PersistIntent \/ Send
              \/ QueryFinds \/ QueryMisses \/ QueryRaises
              \/ PersistAck \/ AckRejected \/ AckUnknown \/ AckAccepted

Filling == FillNothing \/ FillUnusable \/ FillRaises \/ FillBooked

Protection == \/ ProtectNothing \/ LegCovered \/ LegAmended \/ LegPlaced
              \/ LegFails \/ LegAccepted \/ LegRefused \/ LegUnknown
              \/ ProtectionFails \/ ProtectionVerified

Recovering == \/ RecoverReads \/ RecoverMisses \/ RecoverVerifies
              \/ RecoverMismatch \/ RecoverFails

CallStep == Gate \/ Submission \/ Filling \/ Protection \/ Recovering
-----------------------------------------------------------------------------
(* What holds of the coordinator in every process that uses it.            *)

\* No entry is submitted to the exchange twice, whatever is retried, restarted
\* or answered late (_requests, load_order and the order row persisted first).
AtMostOneSend == \A i \in Intents : sends[i] <= 1

\* An entry the exchange may hold has a durable order row, so a restarted
\* process can ask about it (persist_intent_order_transition before submit_order).
ExchangeKnownDurably ==
  \A i \in Intents :
    sends[i] > 0 \/ OnExchange(i) \/ i \in inflight => OrderKnown(i)

\* The fill rows of an entry never add up to more than the exchange executed of
\* it, although answers are stale or out of order (process_confirmed_fill).
NoPhantomFills == \A i \in Intents : filled[i] <= executed[i]

\* The coordinator caches the gate in recovery_state; it never reads READY
\* while the ledger it was read from says RECOVERY.
CachedGateSound == gate = "READY" => RecoveryState = "READY"

\* Between calls, an open gate means every entry the exchange filled is under a
\* stop and a target of at least that quantity (submit_intent in PAPER mode).
ReadyMeansProtected ==
  At("idle") /\ gate = "READY" =>
    \A i \in Intents : \A l \in Legs : legQty[i][l] >= remote[i].filled

\* No stop or target is ever larger than the confirmed fills of its entry,
\* through partial fills, amendments and failed calls (synchronize_protection).
LegsWithinFills == \A i \in Intents : \A l \in Legs : legQty[i][l] <= filled[i]

\* Every send finds the durable kill switch off and a matching ledger.
SendIsClear ==
  sends' # sends => ~killed /\ RecoveryState = "READY" /\ job.id \in Admissible

CoveredNow(i) == \A l \in Legs : legQty'[i][l] >= filled'[i]
GateOpens == gate = "RECOVERY" /\ gate' = "READY"

Contract == INSTANCE OrderContract WITH
  journal <- {i \in Intents : OrderKnown(i)},
  booked <- filled
=============================================================================
