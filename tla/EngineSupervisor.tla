-------------------------- MODULE EngineSupervisor --------------------------
(***************************************************************************)
(* EngineSupervisor (brain/runtime/engine.py) and RecoveryManager          *)
(* (brain/runtime/recovery.py): a process starts when the ledger allows    *)
(* it, recovers the consumer's backlog, reconciles once, runs until a      *)
(* component fails or a signal arrives, and stops its components in        *)
(* reverse order, the consumer only once its queue is drained.             *)
(*                                                                         *)
(* state abbreviates LifecycleState: STARTING is RECOVERING and READY,     *)
(* ABORTING is the except branch of start_runtime, STOPPING is             *)
(* stop_runtime with the DEGRADED that leads to it, DOWN is no process.    *)
(***************************************************************************)
EXTENDS ExecutionConsumer, ReconciliationService

VARIABLES
  state,    \* lifecycle of the process
  aborted   \* history: intents scripts/emergency_flatten.py marked FAILED

supervisorVars == <<healthy, state, aborted>>

SupervisorTypeOK ==
  /\ healthy \in BOOLEAN
  /\ state \in {"DOWN", "STARTING", "RUNNING", "STOPPING", "ABORTING"}
  /\ aborted \subseteq Intents
  /\ state = "DOWN" <=> At("down")

SupervisorInit ==
  /\ healthy = FALSE
  /\ state = "DOWN"
  /\ aborted = {}

-----------------------------------------------------------------------------
\* RecoveryManager.recover: each position needs a stop and a target on its
\* symbol of at least its quantity.
Protected(s) ==
  \A l \in Legs : \E i \in Intents :
    /\ SymbolOf[i] = s
    /\ Working(i, l)
    /\ legQty[i][l] >= holding[s]

\* Open orders and positions are copied into the ledger.  A crash on the way
\* loses nothing: the next start copies them again.
CopyExchange ==
  /\ localOrder' = [i \in Intents |->
       IF OpenAtExchange(i) THEN remote[i].status ELSE localOrder[i]]
  /\ localLeg' = [i \in Intents |-> [l \in Legs |->
       IF Working(i, l) THEN "OPEN" ELSE localLeg[i][l]]]
  /\ position' = [s \in Symbols |-> IF s \in Held THEN holding[s] ELSE position[s]]
  /\ UNCHANGED <<intentStatus, filled, fillIds, killed, exchangeVars, requests,
                 reqLegs, aborted, healthy>>

CanStart ==
  /\ state = "DOWN"
  /\ RecoveryState = "READY"
  /\ \A s \in Held : Protected(s)

\* Startup: nothing held writes no row, one position writes MATCH.
Start ==
  /\ CanStart
  /\ PositionsMatch
  /\ CopyExchange
  /\ IF Held = {}
     THEN gate' = RecoveryState /\ UNCHANGED <<lastRow, ledgerMem>>
     ELSE RecordMatch
  /\ state' = "STARTING"
  /\ job' = Idle
  /\ UNCHANGED consumerVars

\* A position does not match, or the exchange moved between two reads: the row
\* says so; or the exchange stopped answering.  The process ends.
StartRefused ==
  /\ CanStart
  /\ Held # {}
  /\ ~PositionsMatch \/ Networked
  /\ CopyExchange
  /\ lastRow' = "UNKNOWN" \/ (Networked /\ lastRow' = lastRow)
  /\ UNCHANGED <<ledgerMem, gate, job, state, consumerVars>>

\* The components start: the consumer takes its backlog first, then the first
\* reconciliation decides whether the runtime runs.  The consumer may take an
\* intent while the dashboard comes up; it takes it here once that is settled.
TakeBacklog ==
  /\ state = "STARTING"
  /\ \E i \in Intents : RecoverIntent(i)
  /\ UNCHANGED supervisorVars

StartRunning ==
  /\ state = "STARTING"
  /\ Backlog = {}
  /\ ReconcileHealthy
  /\ state' = "RUNNING"
  /\ UNCHANGED <<job, aborted, consumerVars>>

StartAborts ==
  /\ state = "STARTING"
  /\ Backlog = {}
  /\ ReconcileUnhealthy
  /\ state' = "ABORTING"
  /\ UNCHANGED <<job, aborted, consumerVars>>

\* The dashboard does not start, or market data is stale by now.
StartFailsLate ==
  /\ state = "STARTING"
  /\ Backlog = {}
  /\ ReconcileHealthy
  /\ state' = "ABORTING"
  /\ UNCHANGED <<job, aborted, consumerVars>>

-----------------------------------------------------------------------------
\* The reconciliation task wakes up every interval_seconds.
Reconcile ==
  /\ state = "RUNNING"
  /\ ReconcileHealthy \/ ReconcileUnhealthy
  /\ UNCHANGED <<job, state, aborted, consumerVars>>

\* run_forever sees a failed component or an unhealthy reconciliation, or
\* market data went bad, or a signal arrived: stop_runtime.
Stop ==
  /\ state = "RUNNING"
  /\ At("idle")
  /\ state' = "STOPPING"
  /\ UNCHANGED <<ledgerVars, exchangeVars, coordinatorVars, consumerVars, healthy, aborted>>

\* What a process that ends takes with it.
ForgetProcess ==
  /\ requests' = {}
  /\ reqLegs' = {}
  /\ gate' = "RECOVERY"
  /\ ledgerMem' = "READY"
  /\ queue' = <<>>
  /\ seen' = {}
  /\ failed' = FALSE
  /\ healthy' = FALSE
  /\ state' = "DOWN"
  /\ job' = Down
  /\ ExchangeAfterCrash
  /\ UNCHANGED <<intentStatus, localOrder, localLeg, filled, fillIds, position,
                 lastRow, killed, aborted>>

\* queue.join returns: every queued intent was processed.
Stopped ==
  /\ state \in {"STOPPING", "ABORTING"}
  /\ At("idle")
  /\ queue = <<>>
  /\ ForgetProcess

Crash == state # "DOWN" /\ ForgetProcess

-----------------------------------------------------------------------------
\* scripts/emergency_flatten.py, another process on the same database: it fails
\* what is QUEUED or PROCESSING, then has the container stopped.
Flattened == {i \in Intents : intentStatus[i] \in {"QUEUED", "PROCESSING"}}

EmergencyFlatten ==
  /\ Flattened # {}
  /\ intentStatus' = [i \in Intents |-> IF i \in Flattened THEN "FAILED" ELSE intentStatus[i]]
  /\ aborted' = aborted \union Flattened
  /\ UNCHANGED <<localOrder, localLeg, filled, fillIds, position, lastRow, killed,
                 ledgerMem, exchangeVars, coordinatorVars, consumerVars, healthy, state>>
=============================================================================
