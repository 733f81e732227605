--------------------------- MODULE RuntimeProofs ----------------------------
(***************************************************************************)
(* Theorems of ExecutionRuntime, for any number of intents and symbols,    *)
(* any queue size, every mode and every kind of exchange.  What the calls  *)
(* of the coordinator preserve is proved in CoordinatorSteps; here the     *)
(* consumer, the reconciliation service, the supervisor, crashes and the   *)
(* emergency script are added.                                             *)
(***************************************************************************)
EXTENDS ExecutionRuntime, CoordinatorSteps

CoreInv == CoreTypeOK /\ JournalInv /\ ClearInv /\ FillInv

\* A call that is over carries an outcome.
OutcomeInv == At("finish") => job.arg \in OutcomeStatus

\* The queue holds intents this process has seen, each once, none of them the
\* one in the consumer's hands; a start has nothing in hand yet.
QueueInv ==
  /\ \A m, n \in DOMAIN queue : queue[m] = queue[n] => m = n
  /\ \A n \in DOMAIN queue : queue[n] \in seen
  /\ ~At("idle") => \A n \in DOMAIN queue : queue[n] # job.id
  /\ At("enqueue") => job.id \notin seen
  /\ state = "STARTING" => At("idle")

\* Without a process, and in one whose first reconciliation failed, the gate is
\* closed; the latter gets no further than that gate.
AbortInv ==
  /\ state = "DOWN" => gate = "RECOVERY"
  /\ state = "ABORTING" /\ ~healthy =>
       gate = "RECOVERY" /\ job.at \in {"idle", "gate", "finish"}

IInv ==
  /\ CoreInv
  /\ ConsumerTypeOK
  /\ SupervisorTypeOK
  /\ OutcomeInv
  /\ QueueInv
  /\ AbortInv

USE LedgerAssumption, ExchangeAssumption, CoordinatorAssumption, ConsumerAssumption

-----------------------------------------------------------------------------
(* Steps around a call, by what they do to the coordinator.                *)

LEMMA IdleType == Idle \in Jobs /\ Idle.at = "idle"
BY DEF Idle, Job, Jobs, Places, NoOrder, View

LEMMA DownType == Down \in Jobs /\ Down.at = "down"
BY DEF Down, Job, Jobs, Places, NoOrder, View

\* A place where no entry is about to be sent and no report is in hand.
Quiet(j) ==
  /\ j \in Jobs
  /\ j.at \notin {"down", "idle"} => j.id \in Intents
  /\ j.at \in {"idle", "enqueue", "gate", "finish"}

\* Rows of intents, of legs and of positions decide none of the core invariant.
LEMMA QuietStep ==
  ASSUME CoreInv, Quiet(job') \/ job' = job,
         intentStatus' \in [Intents -> IntentStatus \union {"NONE"}],
         UNCHANGED <<localOrder, localLeg, filled, fillIds, position, killed, exchangeVars,
                     requests, reqLegs>>,
         \/ UNCHANGED <<gate, lastRow, ledgerMem>>
         \/ (EnterRecovery \/ RecordMatch) /\ job'.at = "idle"
  PROVE  CoreInv'
<1> USE DEF CoreInv, CoreTypeOK
<1>1. /\ lastRow' \in {"MATCH", "UNKNOWN"}
      /\ ledgerMem' \in {"READY", "RECOVERY"}
      /\ gate' \in {"READY", "RECOVERY"}
  BY DEF LedgerTypeOK, CoordinatorTypeOK, EnterRecovery, RecordMatch, RecordReconciliation,
     RecoveryState
<1>2. LedgerTypeOK' /\ ExchangeTypeOK' /\ CoordinatorTypeOK'
  BY <1>1 DEF LedgerTypeOK, ExchangeTypeOK, CoordinatorTypeOK, exchangeVars, Quiet
<1>3. JournalInv'
  BY DEF JournalInv, OnExchange, OrderKnown, At, Quiet, exchangeVars
<1>4. FillInv'
  BY DEF FillInv, NoPhantomFills, LegsWithinFills, OnExchange, At, Quiet, exchangeVars
<1>5. ClearInv'
  <2>1. CASE UNCHANGED <<gate, lastRow, ledgerMem>>
    BY <2>1 DEF ClearInv, CachedGateSound, RecoveryState, At, Quiet
  <2>2. CASE (EnterRecovery \/ RecordMatch) /\ job'.at = "idle"
    BY <2>2, RecordGate DEF ClearInv, At
  <2>3. QED
    BY <2>1, <2>2
<1>6. QED
  BY <1>2, <1>3, <1>4, <1>5

-----------------------------------------------------------------------------
(* Where a call goes.                                                      *)

\* Where the steps of a call leave it.
Goes ==
  /\ job'.at \notin {"down", "enqueue"}
  /\ job'.at # "idle" => job'.id = job.id
  /\ job'.at = "finish" => job'.arg \in OutcomeStatus

LEMMA GoesOn ==
  ASSUME job \in Jobs
  PROVE  /\ \A place : Go(place) /\ place \notin {"down", "enqueue", "finish"} => Goes
         /\ \A outcome \in OutcomeStatus : Return(outcome) => Goes
         /\ job' = Idle => Goes
         /\ Raise => Goes
         /\ LegConfirmed => Goes
<1>1. \A place : Go(place) /\ place \notin {"down", "enqueue", "finish"} => Goes
  BY DEF Go, Goes, Jobs
<1>2. job' = Idle => Goes
  BY DEF Goes, Idle, Job
<1>3. \A outcome \in OutcomeStatus : Return(outcome) => Goes
  BY <1>2 DEF Return, Goes, Jobs
<1>4. Raise => Goes
  BY <1>1 DEF Raise
<1>5. LegConfirmed => Goes
  BY <1>1 DEF LegConfirmed, Goes, Jobs
<1>6. QED
  BY <1>1, <1>2, <1>3, <1>4, <1>5

LEMMA CallStepGoes ==
  ASSUME CoreTypeOK, CallStep
  PROVE  Goes /\ job.at \notin {"down", "idle", "enqueue", "finish", "raised"}
<1>1. job \in Jobs
  BY DEF CoreTypeOK, CoordinatorTypeOK
<1>2. /\ \A place : Go(place) /\ place \notin {"down", "enqueue", "finish"} => Goes
      /\ \A outcome \in OutcomeStatus : Return(outcome) => Goes
      /\ job' = Idle => Goes
      /\ Raise => Goes
      /\ LegConfirmed => Goes
  BY <1>1, GoesOn
<1>3. CASE Gate
  BY <1>2, <1>3 DEF Gate, GateRejects, GateKnownRequest, GateKnownOrder, GateUnavailable,
     GatePasses, At, OutcomeStatus
<1>4. CASE Submission
  <2>1. CASE Send
    BY <1>1, <1>2, <2>1 DEF Send, At, Goes, Jobs
  <2>2. CASE Submission /\ ~Send
    BY <1>2, <2>2 DEF Submission, PersistOrder, PersistIntent, QueryFinds, QueryMisses,
       QueryRaises, PersistAck, AckRejected, AckUnknown, AckAccepted, At, OutcomeStatus
  <2>3. QED
    BY <1>4, <2>1, <2>2
<1>5. CASE Filling
  <2>1. AfterFill => Goes
    BY <1>1, <1>2 DEF AfterFill, Goes, Jobs, OutcomeStatus
  <2>2. QED
    BY <1>2, <1>5, <2>1 DEF Filling, FillNothing, FillUnusable, FillRaises, FillBooked, At
<1>6. CASE Protection
  <2>1. AfterProtection => Goes
    BY <1>2 DEF AfterProtection, OutcomeStatus
  <2>2. QED
    BY <1>2, <1>6, <2>1 DEF Protection, ProtectNothing, LegCovered, LegAmended, LegPlaced,
       LegFails, LegAccepted, LegRefused, LegUnknown, ProtectionFails, ProtectionVerified,
       AtLeg, At, OutcomeStatus
<1>7. CASE Recovering
  <2>1. CASE RecoverReads
    BY <1>1, <2>1 DEF RecoverReads, At, Goes, Jobs
  <2>2. CASE Recovering /\ ~RecoverReads
    BY <1>2, <2>2 DEF Recovering, RecoverMisses, RecoverVerifies, RecoverMismatch,
       RecoverFails, At
  <2>3. QED
    BY <1>7, <2>1, <2>2
<1>8. QED
  BY <1>3, <1>4, <1>5, <1>6, <1>7 DEF CallStep

-----------------------------------------------------------------------------
(* The consumer.                                                           *)

LEMMA SequenceFacts ==
  ASSUME NEW q \in Seq(Intents), NEW i \in Intents
  PROVE  /\ Append(q, i) \in Seq(Intents) /\ Len(Append(q, i)) = Len(q) + 1
         /\ Len(q) \in Nat
         /\ q # <<>> => /\ Head(q) \in Intents
                        /\ Tail(q) \in Seq(Intents)
                        /\ Len(Tail(q)) = Len(q) - 1
OBVIOUS

\* The steps of the consumer and of a start that takes its backlog.
ConsumerMoves == (\E i \in Intents : Submit(i) \/ RecoverIntent(i))
                 \/ Enqueue \/ EnqueueFull \/ Dequeue \/ Finish \/ ConsumerFails

LEMMA ConsumerInv ==
  ASSUME CoreInv, ConsumerTypeOK, OutcomeInv, ConsumerMoves
  PROVE  CoreInv' /\ ConsumerTypeOK'
<1>1. /\ job \in Jobs
      /\ job.at \notin {"down", "idle"} => job.id \in Intents
      /\ intentStatus \in [Intents -> IntentStatus \union {"NONE"}]
      /\ queue \in Seq(Intents) /\ Len(queue) <= QueueSize /\ seen \subseteq Intents
      /\ failed \in BOOLEAN
  BY DEF CoreInv, CoreTypeOK, CoordinatorTypeOK, LedgerTypeOK, ConsumerTypeOK
<1>2. OutcomeStatus \union RecoverableStatus \union {"FAILED"} \subseteq IntentStatus
  BY DEF IntentStatus
<1> DEFINE RowsOK == intentStatus' \in [Intents -> IntentStatus \union {"NONE"}]
<1>3. ASSUME NEW i \in Intents, Submit(i)
      PROVE  RowsOK /\ (Quiet(job') \/ job' = job) /\ ConsumerTypeOK' /\ OnlyIntentRow
  <2>1. job' = Job("enqueue", "consume", i, NoOrder, "none")
    BY <1>3 DEF Submit
  <2>2. Quiet(job')
    BY <2>1 DEF Quiet, Job, Jobs, Places, NoOrder, View
  <2>3. QED
    BY <1>1, <1>3, <2>2 DEF Submit, SetIntentStatus, IntentStatus, RecoverableStatus,
       ConsumerTypeOK, consumerVars
<1>4. ASSUME NEW i \in Intents, RecoverIntent(i)
      PROVE  RowsOK /\ (Quiet(job') \/ job' = job) /\ ConsumerTypeOK' /\ OnlyIntentRow
  <2>1. \E status \in IntentStatus : SetIntentStatus(i, status)
    BY <1>4 DEF RecoverIntent, IntentStatus, OutcomeStatus, RecoverableStatus
  <2>2. RowsOK
    BY <1>1, <2>1 DEF SetIntentStatus
  <2>3. ConsumerTypeOK'
    <3>1. CASE queue' = Append(queue, i) /\ seen' = seen \union {i} /\ Room /\ UNCHANGED failed
      BY <1>1, <3>1, SequenceFacts DEF ConsumerTypeOK, Room
    <3>2. CASE UNCHANGED <<queue, seen, failed>>
      BY <1>1, <3>2 DEF ConsumerTypeOK
    <3>3. QED
      BY <1>4, <3>1, <3>2 DEF RecoverIntent
  <2>4. QED
    BY <1>4, <2>2, <2>3 DEF RecoverIntent
<1>5. CASE Enqueue
  <2>1. job.id \in Intents
    BY <1>1, <1>5 DEF Enqueue, At
  <2>2. ConsumerTypeOK'
    BY <1>1, <1>5, <2>1, SequenceFacts DEF Enqueue, Room, ConsumerTypeOK
  <2>3. RowsOK /\ Quiet(job') /\ OnlyIntentRow
    BY <1>1, <1>5, <2>1, IdleType DEF Enqueue, SetIntentStatus, IntentStatus,
       RecoverableStatus, Quiet
  <2>4. QED
    BY <2>2, <2>3, QuietStep DEF OnlyIntentRow
<1>6. CASE EnqueueFull
  <2>1. RowsOK /\ Quiet(job') /\ OnlyIntentRow /\ ConsumerTypeOK'
    BY <1>1, <1>6, IdleType DEF EnqueueFull, Quiet, ConsumerTypeOK, consumerVars
  <2>2. QED
    BY <2>1, QuietStep DEF OnlyIntentRow
<1>7. CASE Dequeue
  <2>1. Head(queue) \in Intents /\ Tail(queue) \in Seq(Intents) /\ Len(Tail(queue)) = Len(queue) - 1
    BY <1>1, <1>7, SequenceFacts DEF Dequeue
  <2>2. ConsumerTypeOK'
    BY <1>1, <1>7, <2>1, SequenceFacts DEF Dequeue, ConsumerTypeOK
  <2>3. Quiet(job')
    BY <1>7, <2>1 DEF Dequeue, Quiet, Job, Jobs, Places, NoOrder, View
  <2>4. RowsOK /\ OnlyIntentRow
    BY <1>1, <1>7, <2>1 DEF Dequeue, SetIntentStatus, IntentStatus, RecoverableStatus
  <2>5. QED
    BY <2>2, <2>3, <2>4, QuietStep DEF OnlyIntentRow
<1>8. CASE ConsumerFails
  <2>1. RowsOK /\ Quiet(job') /\ OnlyIntentRow /\ ConsumerTypeOK'
    BY <1>1, <1>8, IdleType DEF ConsumerFails, Quiet, ConsumerTypeOK
  <2>2. QED
    BY <2>1, QuietStep DEF OnlyIntentRow
<1>9. CASE Finish
  <2>1. Quiet(job') /\ OnlyIntentRow /\ ConsumerTypeOK'
    BY <1>1, <1>9, IdleType DEF Finish, Quiet, ConsumerTypeOK, consumerVars
  <2>2. RowsOK
    BY <1>1, <1>9 DEF Finish, SetIntentStatus, OutcomeInv, IntentStatus
  <2>3. QED
    BY <2>1, <2>2, QuietStep DEF OnlyIntentRow
<1>10. QED
  BY <1>3, <1>4, <1>5, <1>6, <1>7, <1>8, <1>9, QuietStep DEF ConsumerMoves, OnlyIntentRow

-----------------------------------------------------------------------------
(* The supervisor.                                                         *)

\* A start copies what the exchange has open; what it has open was journalled.
LEMMA CopyLeaves ==
  ASSUME CoreInv, CopyExchange
  PROVE  /\ localOrder' \in [Intents -> EntryStatus \union {"NONE"}]
         /\ localLeg' \in [Intents -> [Legs -> {"NONE", "OPEN", "DONE"}]]
         /\ position' \in [Symbols -> Int]
         /\ \A i \in Intents : OrderKnown(i)' <=> OrderKnown(i)
<1> USE DEF CoreInv, CoreTypeOK, LedgerTypeOK, ExchangeTypeOK, CopyExchange
<1>1. ASSUME NEW i \in Intents, OpenAtExchange(i)
      PROVE  /\ remote[i].status \in EntryStatus /\ remote[i].status # "NONE"
             /\ OrderKnown(i)
  <2>1. OnExchange(i)
    BY <1>1 DEF OpenAtExchange, OnExchange, NoOrder, View
  <2>2. sends[i] = 1
    BY <2>1 DEF JournalInv
  <2>3. QED
    BY <1>1, <2>2 DEF JournalInv, OpenAtExchange, EntryStatus
<1>2. localOrder' \in [Intents -> EntryStatus \union {"NONE"}]
  BY <1>1
<1>3. localLeg' \in [Intents -> [Legs -> {"NONE", "OPEN", "DONE"}]]
  OBVIOUS
<1>4. position' \in [Symbols -> Int]
  OBVIOUS
<1>5. \A i \in Intents : OrderKnown(i)' <=> OrderKnown(i)
  BY <1>1 DEF OrderKnown
<1>6. QED
  BY <1>2, <1>3, <1>4, <1>5

LEMMA StartInv ==
  ASSUME IInv, Start \/ StartRefused
  PROVE  IInv'
<1> USE DEF IInv, CoreInv, CoreTypeOK
<1>1. /\ CopyExchange
      /\ state = "DOWN" /\ gate = "RECOVERY" /\ job.at = "down"
      /\ UNCHANGED consumerVars
  BY DEF Start, StartRefused, CanStart, SupervisorTypeOK, AbortInv, At
<1>2. /\ localOrder' \in [Intents -> EntryStatus \union {"NONE"}]
      /\ localLeg' \in [Intents -> [Legs -> {"NONE", "OPEN", "DONE"}]]
      /\ position' \in [Symbols -> Int]
      /\ \A i \in Intents : OrderKnown(i)' <=> OrderKnown(i)
  BY <1>1, CopyLeaves
<1>3. /\ lastRow' \in {"MATCH", "UNKNOWN"}
      /\ ledgerMem' \in {"READY", "RECOVERY"}
      /\ gate' \in {"READY", "RECOVERY"}
      /\ CachedGateSound'
  <2>1. CASE StartRefused
    BY <1>1, <2>1 DEF StartRefused, LedgerTypeOK, CachedGateSound
  <2>2. CASE gate' = RecoveryState /\ UNCHANGED <<lastRow, ledgerMem>>
    BY <2>2 DEF LedgerTypeOK, CachedGateSound, RecoveryState
  <2>3. CASE RecordMatch
    BY <2>3, RecordGate DEF RecordMatch, RecordReconciliation, RecoveryState
  <2>4. QED
    BY <2>1, <2>2, <2>3 DEF Start
<1>4. \/ job' = Idle /\ state' = "STARTING"
      \/ job' = job /\ state' = state /\ gate' = gate
  BY DEF Start, StartRefused
<1>5. UNCHANGED <<intentStatus, filled, fillIds, killed, exchangeVars, requests, reqLegs,
                  aborted, healthy>>
  BY <1>1 DEF CopyExchange
<1>6. LedgerTypeOK' /\ ExchangeTypeOK' /\ CoordinatorTypeOK'
  BY <1>1, <1>2, <1>3, <1>4, <1>5, IdleType DEF LedgerTypeOK, ExchangeTypeOK,
     CoordinatorTypeOK, exchangeVars
<1>7. job'.at \in {"down", "idle"}
  BY <1>1, <1>4, IdleType
<1>8. JournalInv'
  BY <1>2, <1>5, <1>7 DEF JournalInv, OnExchange, At, exchangeVars
<1>9. FillInv' /\ ClearInv'
  BY <1>3, <1>5, <1>7, QuietFill DEF ClearInv, At, exchangeVars
<1>10. ConsumerTypeOK'
  BY <1>1 DEF ConsumerTypeOK, consumerVars
<1>11. SupervisorTypeOK'
  BY <1>1, <1>4, <1>5, IdleType DEF SupervisorTypeOK, At
<1>12. OutcomeInv' /\ AbortInv'
  BY <1>1, <1>4, <1>7 DEF OutcomeInv, AbortInv, At
<1>13. QueueInv'
  BY <1>1, <1>4, IdleType DEF QueueInv, At, consumerVars
<1>14. QED
  BY <1>6, <1>8, <1>9, <1>10, <1>11, <1>12, <1>13

LEMMA ForgetInv ==
  ASSUME IInv, ForgetProcess
  PROVE  IInv'
<1> USE DEF IInv, CoreInv, CoreTypeOK
<1>1. /\ UNCHANGED <<intentStatus, localOrder, localLeg, filled, fillIds, position, lastRow,
                     killed, aborted, inflight, sends, executed, legEnded>>
      /\ \A i \in Intents : remote'[i] \in {remote[i], NoOrder}
      /\ \A i \in Intents : \A l \in Legs : legQty'[i][l] \in {legQty[i][l], 0}
      /\ ExchangeTypeOK'
  <2>1. CASE Networked
    BY <2>1 DEF ForgetProcess, ExchangeAfterCrash, exchangeVars, ExchangeTypeOK
  <2>2. CASE ~Networked
    <3>1. /\ remote' = [i \in Intents |-> NoOrder]
          /\ legQty' = [i \in Intents |-> [l \in Legs |-> 0]]
          /\ holding' = [s \in Symbols |-> 0]
          /\ UNCHANGED <<inflight, legEnded, sends, executed>>
      BY <2>2 DEF ForgetProcess, ExchangeAfterCrash
    <3>2. legQty' \in [Intents -> [Legs -> 0 .. OrderQty]]
      BY <3>1 DEF LedgerAssumption
    <3>3. QED
      BY <3>1, <3>2 DEF ForgetProcess, ExchangeTypeOK
  <2>3. QED
    BY <2>1, <2>2
<1>2. /\ requests' = {} /\ reqLegs' = {} /\ gate' = "RECOVERY" /\ ledgerMem' = "READY"
      /\ queue' = <<>> /\ seen' = {} /\ failed' = FALSE /\ healthy' = FALSE
      /\ state' = "DOWN" /\ job' = Down
  BY DEF ForgetProcess
<1>3. LedgerTypeOK' /\ CoordinatorTypeOK' /\ SupervisorTypeOK'
  BY <1>1, <1>2, DownType DEF LedgerTypeOK, CoordinatorTypeOK, SupervisorTypeOK, At
<1>4. ConsumerTypeOK'
  <2>1. queue' \in Seq(Intents) /\ Len(queue') = 0
    BY <1>2
  <2>2. 0 <= QueueSize
    BY DEF ConsumerAssumption
  <2>3. seen' \subseteq Intents /\ failed' \in BOOLEAN
    BY <1>2
  <2>4. QED
    BY <2>1, <2>2, <2>3 DEF ConsumerTypeOK
<1>5. JournalInv'
  BY <1>1, <1>2, DownType DEF JournalInv, OnExchange, OrderKnown, At
<1>6. ClearInv' /\ OutcomeInv' /\ AbortInv'
  BY <1>2, DownType DEF ClearInv, CachedGateSound, OutcomeInv, AbortInv, At
<1>7. FillInv'
  <2>1. \A i \in Intents : filled[i] >= 0
    BY DEF LedgerTypeOK
  <2>2. NoPhantomFills' /\ LegsWithinFills'
    BY <1>1, <2>1 DEF FillInv, NoPhantomFills, LegsWithinFills
  <2>3. /\ \A i \in Intents : sends'[i] = 0 => executed'[i] = 0
        /\ \A i \in Intents : OnExchange(i)' => executed'[i] = remote'[i].filled
        /\ \A i \in inflight' : ~OnExchange(i)' /\ executed'[i] = 0
    BY <1>1 DEF FillInv, OnExchange, ExchangeTypeOK
  <2>4. QED
    BY <1>2, <2>2, <2>3, DownType DEF FillInv, At
<1>8. QueueInv'
  <2>1. DOMAIN queue' = {}
    BY <1>2
  <2>2. QED
    BY <1>2, <2>1, DownType DEF QueueInv, At
<1>9. QED
  BY <1>1, <1>3, <1>4, <1>5, <1>6, <1>7, <1>8

\* A reconciliation records its result and leaves orders alone.
LEMMA ReconcileInv ==
  ASSUME IInv, StartRunning \/ StartAborts \/ StartFailsLate \/ Reconcile
  PROVE  IInv'
<1> USE DEF IInv
<1>1. /\ job.at = "idle"
      /\ ReconcileHealthy \/ ReconcileUnhealthy
      /\ UNCHANGED <<job, aborted, consumerVars>>
      /\ state' \in {"RUNNING", "ABORTING"}
      /\ state # "DOWN"
  BY DEF StartRunning, StartAborts, StartFailsLate, Reconcile,
     ReconcileHealthy, ReconcileUnhealthy, At
<1>2. /\ EnterRecovery \/ RecordMatch
      /\ UNCHANGED <<LedgerOrders, exchangeVars, requests, reqLegs>>
      /\ healthy' \in BOOLEAN
      /\ healthy' \/ gate' = "RECOVERY"
  BY <1>1 DEF ReconcileHealthy, ReconcileUnhealthy, EnterRecovery
<1>3. CoreInv'
  <2>1. intentStatus' \in [Intents -> IntentStatus \union {"NONE"}]
    BY <1>2 DEF CoreInv, CoreTypeOK, LedgerTypeOK, LedgerOrders
  <2>2. QED
    BY <1>1, <1>2, <2>1, QuietStep DEF LedgerOrders
<1>4. ConsumerTypeOK' /\ OutcomeInv' /\ SupervisorTypeOK'
  BY <1>1, <1>2 DEF ConsumerTypeOK, consumerVars, OutcomeInv, SupervisorTypeOK, At
<1>5. AbortInv'
  BY <1>1, <1>2 DEF AbortInv
<1>6. QueueInv'
  BY <1>1 DEF QueueInv, consumerVars, At
<1>7. QED
  BY <1>3, <1>4, <1>5, <1>6

LEMMA StopInv ==
  ASSUME IInv, Stop
  PROVE  IInv'
<1> USE DEF IInv
<1>1. /\ UNCHANGED <<ledgerVars, exchangeVars, coordinatorVars, consumerVars, healthy, aborted>>
      /\ state = "RUNNING" /\ state' = "STOPPING"
  BY DEF Stop
<1>2. CoreInv'
  BY <1>1, QuietStep DEF CoreInv, CoreTypeOK, LedgerTypeOK, ledgerVars, coordinatorVars
<1>3. ConsumerTypeOK' /\ SupervisorTypeOK' /\ OutcomeInv' /\ QueueInv' /\ AbortInv'
  BY <1>1 DEF ConsumerTypeOK, SupervisorTypeOK, OutcomeInv, QueueInv, AbortInv, At,
     consumerVars, coordinatorVars
<1>4. QED
  BY <1>2, <1>3

LEMMA FlattenInv ==
  ASSUME IInv, EmergencyFlatten
  PROVE  IInv'
<1> USE DEF IInv
<1>1. /\ intentStatus' \in [Intents -> IntentStatus \union {"NONE"}]
      /\ aborted' \subseteq Intents
  BY DEF EmergencyFlatten, Flattened, CoreInv, CoreTypeOK, LedgerTypeOK, SupervisorTypeOK,
     IntentStatus
<1>2. UNCHANGED <<localOrder, localLeg, filled, fillIds, position, lastRow, killed,
                  ledgerMem, exchangeVars, coordinatorVars, consumerVars, healthy, state>>
  BY DEF EmergencyFlatten
<1>3. CoreInv'
  BY <1>1, <1>2, QuietStep DEF coordinatorVars
<1>4. ConsumerTypeOK' /\ SupervisorTypeOK' /\ OutcomeInv' /\ QueueInv' /\ AbortInv'
  BY <1>1, <1>2 DEF ConsumerTypeOK, SupervisorTypeOK, OutcomeInv, QueueInv, AbortInv, At,
     consumerVars, coordinatorVars
<1>5. QED
  BY <1>3, <1>4

LEMMA KillSwitchInv ==
  ASSUME IInv, NEW on \in BOOLEAN, SetKillSwitch(on)
  PROVE  IInv'
<1> USE DEF IInv, CoreInv, CoreTypeOK
<1>1. /\ job.at = "idle" /\ killed' \in BOOLEAN
      /\ UNCHANGED <<intentStatus, localOrder, localLeg, filled, fillIds, position, lastRow,
                     ledgerMem, exchangeVars, coordinatorVars, consumerVars, supervisorVars>>
  BY DEF SetKillSwitch, At
<1>2. LedgerTypeOK' /\ ExchangeTypeOK' /\ CoordinatorTypeOK'
  BY <1>1 DEF LedgerTypeOK, ExchangeTypeOK, CoordinatorTypeOK, coordinatorVars, exchangeVars
<1>3. JournalInv' /\ FillInv'
  BY <1>1, QuietJournal, QuietFill DEF coordinatorVars, exchangeVars
<1>4. ClearInv'
  BY <1>1 DEF ClearInv, CachedGateSound, RecoveryState, At, coordinatorVars
<1>5. ConsumerTypeOK' /\ SupervisorTypeOK' /\ OutcomeInv' /\ QueueInv' /\ AbortInv'
  BY <1>1 DEF ConsumerTypeOK, SupervisorTypeOK, OutcomeInv, QueueInv, AbortInv, At,
     consumerVars, supervisorVars, coordinatorVars
<1>6. QED
  BY <1>2, <1>3, <1>4, <1>5

-----------------------------------------------------------------------------
(* The consumer's queue.                                                   *)

\* Appending an intent that is new to the queue, and taking its head.
LEMMA QueueFacts ==
  ASSUME NEW q \in Seq(Intents), NEW i \in Intents,
         \A m, n \in DOMAIN q : q[m] = q[n] => m = n
  PROVE  /\ (\A n \in DOMAIN q : q[n] # i) =>
              \A m, n \in DOMAIN Append(q, i) : Append(q, i)[m] = Append(q, i)[n] => m = n
         /\ \A n \in DOMAIN Append(q, i) : (n \in DOMAIN q /\ Append(q, i)[n] = q[n])
                                           \/ Append(q, i)[n] = i
         /\ q # <<>> =>
              /\ \A m, n \in DOMAIN Tail(q) : Tail(q)[m] = Tail(q)[n] => m = n
              /\ \A n \in DOMAIN Tail(q) : n + 1 \in DOMAIN q /\ Tail(q)[n] = q[n + 1]
              /\ \A n \in DOMAIN Tail(q) : Tail(q)[n] # Head(q)
              /\ 1 \in DOMAIN q /\ Head(q) = q[1]
<1>1. /\ DOMAIN q = 1 .. Len(q) /\ Len(q) \in Nat
      /\ DOMAIN Append(q, i) = 1 .. (Len(q) + 1)
      /\ \A n \in 1 .. Len(q) : Append(q, i)[n] = q[n]
      /\ Append(q, i)[Len(q) + 1] = i
  OBVIOUS
<1>2. (\A n \in DOMAIN q : q[n] # i) =>
        \A m, n \in DOMAIN Append(q, i) : Append(q, i)[m] = Append(q, i)[n] => m = n
  BY <1>1
<1>3. \A n \in DOMAIN Append(q, i) : (n \in DOMAIN q /\ Append(q, i)[n] = q[n])
                                      \/ Append(q, i)[n] = i
  BY <1>1
<1>4. ASSUME q # <<>>
      PROVE  /\ \A m, n \in DOMAIN Tail(q) : Tail(q)[m] = Tail(q)[n] => m = n
             /\ \A n \in DOMAIN Tail(q) : n + 1 \in DOMAIN q /\ Tail(q)[n] = q[n + 1]
             /\ \A n \in DOMAIN Tail(q) : Tail(q)[n] # Head(q)
             /\ 1 \in DOMAIN q /\ Head(q) = q[1]
  <2>1. /\ DOMAIN Tail(q) = 1 .. (Len(q) - 1)
        /\ \A n \in 1 .. (Len(q) - 1) : Tail(q)[n] = q[n + 1]
        /\ Len(q) >= 1
        /\ Head(q) = q[1]
    BY <1>1, <1>4
  <2>2. QED
    BY <1>1, <2>1
<1>5. QED
  BY <1>2, <1>3, <1>4

\* Where the consumer's steps leave the call, and who takes which.
LEMMA ConsumerGoes ==
  ASSUME IInv, (\E i \in Intents : Decide(i)) \/ ConsumerStep \/ TakeNext \/ TakeBacklog
  PROVE  /\ ConsumerMoves
         /\ UNCHANGED <<supervisorVars, gate>>
         /\ state # "DOWN"
         /\ job'.at \in {"idle", "enqueue", "gate"}
         /\ job'.at = "enqueue" => state \in {"RUNNING", "STOPPING"}
         /\ state = "STARTING" => job'.at = "idle"
<1> USE DEF IInv
<1>1. CASE \E i \in Intents : Decide(i)
  BY <1>1 DEF Decide, ConsumerMoves, Submit, Job, OnlyIntentRow
<1>2. CASE ConsumerStep
  BY <1>2, IdleType DEF ConsumerStep, ConsumerMoves, Enqueue, EnqueueFull, Finish,
     ConsumerFails, OnlyIntentRow, SupervisorTypeOK, At, QueueInv
<1>3. CASE TakeNext
  BY <1>3 DEF TakeNext, ConsumerMoves, Dequeue, Job, OnlyIntentRow
<1>4. CASE TakeBacklog
  BY <1>4 DEF TakeBacklog, ConsumerMoves, RecoverIntent, OnlyIntentRow, QueueInv, At
<1>5. QED
  BY <1>1, <1>2, <1>3, <1>4

LEMMA ConsumerQueue ==
  ASSUME IInv, (\E i \in Intents : Decide(i)) \/ ConsumerStep \/ TakeNext \/ TakeBacklog
  PROVE  QueueInv'
<1> USE DEF IInv
<1>1. /\ queue \in Seq(Intents)
      /\ job.at \notin {"down", "idle"} => job.id \in Intents
      /\ \A m, n \in DOMAIN queue : queue[m] = queue[n] => m = n
      /\ \A n \in DOMAIN queue : queue[n] \in seen
  BY DEF CoreInv, CoreTypeOK, CoordinatorTypeOK, ConsumerTypeOK, QueueInv
<1>2. state' = state /\ (state = "STARTING" => job'.at = "idle")
  BY ConsumerGoes DEF supervisorVars
<1>3. CASE \E i \in Intents : Decide(i)
  <2>1. PICK i \in Intents : Submit(i)
    BY <1>3 DEF Decide
  <2>2. /\ i \notin seen /\ UNCHANGED <<queue, seen>>
        /\ job'.id = i /\ job'.at = "enqueue"
    BY <2>1 DEF Submit, consumerVars, Job
  <2>3. QED
    BY <1>1, <1>2, <2>2 DEF QueueInv, At
<1>4. CASE Enqueue
  <2>1. /\ job.at = "enqueue" /\ job'.at = "idle"
        /\ queue' = Append(queue, job.id)
        /\ seen' = seen \union {job.id}
    BY <1>4, IdleType DEF Enqueue, At
  <2>2. job.id \in Intents /\ job.id \notin seen
    BY <1>1, <2>1 DEF QueueInv, At
  <2>3. \A n \in DOMAIN queue : queue[n] # job.id
    BY <1>1, <2>2
  <2>4. /\ \A m, n \in DOMAIN queue' : queue'[m] = queue'[n] => m = n
        /\ \A n \in DOMAIN queue' : (n \in DOMAIN queue /\ queue'[n] = queue[n])
                                    \/ queue'[n] = job.id
    BY <1>1, <2>1, <2>2, <2>3, QueueFacts
  <2>5. QED
    BY <1>1, <1>2, <2>1, <2>4 DEF QueueInv, At
<1>5. CASE TakeBacklog
  <2>1. PICK i \in Intents : RecoverIntent(i) /\ i \notin seen
    BY <1>5 DEF TakeBacklog, RecoverIntent, Backlog
  <2>2. job'.at = "idle"
    BY <1>2, <1>5 DEF TakeBacklog
  <2>3. CASE queue' = Append(queue, i) /\ seen' = seen \union {i}
    <3>1. \A n \in DOMAIN queue : queue[n] # i
      BY <1>1, <2>1
    <3>2. /\ \A m, n \in DOMAIN queue' : queue'[m] = queue'[n] => m = n
          /\ \A n \in DOMAIN queue' : (n \in DOMAIN queue /\ queue'[n] = queue[n])
                                      \/ queue'[n] = i
      BY <1>1, <2>3, <3>1, QueueFacts
    <3>3. QED
      BY <1>1, <1>2, <2>2, <2>3, <3>2 DEF QueueInv, At
  <2>4. CASE UNCHANGED <<queue, seen>>
    BY <1>1, <1>2, <2>2, <2>4 DEF QueueInv, At
  <2>5. QED
    BY <2>1, <2>3, <2>4 DEF RecoverIntent
<1>6. CASE TakeNext
  <2>1. /\ queue # <<>> /\ queue' = Tail(queue) /\ UNCHANGED seen
        /\ job'.id = Head(queue) /\ job'.at = "gate"
    BY <1>6 DEF TakeNext, Dequeue, Job
  <2>2. /\ \A m, n \in DOMAIN queue' : queue'[m] = queue'[n] => m = n
        /\ \A n \in DOMAIN queue' : n + 1 \in DOMAIN queue /\ queue'[n] = queue[n + 1]
        /\ \A n \in DOMAIN queue' : queue'[n] # Head(queue)
    BY <1>1, <2>1, QueueFacts, SequenceFacts
  <2>3. QED
    BY <1>1, <1>2, <2>1, <2>2 DEF QueueInv, At
<1>7. CASE EnqueueFull \/ Finish \/ ConsumerFails
  BY <1>1, <1>2, <1>7, IdleType DEF EnqueueFull, Finish, ConsumerFails, consumerVars, QueueInv, At
<1>8. QED
  BY <1>3, <1>4, <1>5, <1>6, <1>7 DEF ConsumerStep

LEMMA ConsumerIInv ==
  ASSUME IInv, (\E i \in Intents : Decide(i)) \/ ConsumerStep \/ TakeNext \/ TakeBacklog
  PROVE  IInv'
<1>1. /\ ConsumerMoves
      /\ UNCHANGED <<supervisorVars, gate>>
      /\ state # "DOWN"
      /\ job'.at \in {"idle", "enqueue", "gate"}
      /\ job'.at = "enqueue" => state \in {"RUNNING", "STOPPING"}
  BY ConsumerGoes
<1>2. CoreInv' /\ ConsumerTypeOK'
  BY <1>1, ConsumerInv DEF IInv
<1>3. QueueInv'
  BY ConsumerQueue
<1>4. SupervisorTypeOK' /\ OutcomeInv' /\ AbortInv'
  BY <1>1 DEF IInv, SupervisorTypeOK, OutcomeInv, AbortInv, At, supervisorVars
<1>5. QED
  BY <1>2, <1>3, <1>4 DEF IInv

-----------------------------------------------------------------------------
(* Calls, the exchange, and the whole runtime.                             *)

LEMMA CallIInv ==
  ASSUME IInv, CoordinatorStep
  PROVE  IInv'
<1> USE DEF IInv
<1>1. CallStep /\ UNCHANGED <<consumerVars, supervisorVars>>
  BY DEF CoordinatorStep
<1>2. Goes /\ job.at \notin {"down", "idle", "enqueue", "finish", "raised"}
  BY <1>1, CallStepGoes DEF CoreInv
<1>3. CoreInv'
  BY <1>1, CallStepTypes, CallStepJournal, CallStepClear, CallStepFill DEF CoreInv
<1>4. ConsumerTypeOK' /\ SupervisorTypeOK' /\ OutcomeInv'
  BY <1>1, <1>2 DEF ConsumerTypeOK, SupervisorTypeOK, OutcomeInv, Goes, At, consumerVars,
     supervisorVars
<1>5. QueueInv'
  BY <1>1, <1>2 DEF QueueInv, Goes, At, consumerVars, supervisorVars
<1>6. AbortInv'
  <2>1. CASE state = "ABORTING" /\ ~healthy
    <3>1. job.at = "gate" /\ gate = "RECOVERY" /\ state' = state
      BY <1>1, <1>2, <2>1 DEF AbortInv, supervisorVars
    <3>2. GateRejects
      BY <1>1, <3>1 DEF CallStep, Gate, GateKnownRequest, GateKnownOrder, GateUnavailable,
         GatePasses, GatesOpen, At, Submission, PersistOrder, PersistIntent, Send, QueryFinds,
         QueryMisses, QueryRaises, PersistAck, AckRejected, AckUnknown, AckAccepted, Filling,
         FillNothing, FillUnusable, FillRaises, FillBooked, Protection, ProtectNothing,
         LegCovered, LegAmended, LegPlaced, LegFails, LegAccepted, LegRefused, LegUnknown,
         ProtectionFails, ProtectionVerified, AtLeg, Recovering, RecoverReads,
         RecoverMisses, RecoverVerifies, RecoverMismatch, RecoverFails
    <3>3. job'.at \in {"finish", "idle"} /\ gate' = gate
      BY <3>2, JobPlace DEF GateRejects, CoreInv, CoreTypeOK, CoordinatorTypeOK
    <3>4. QED
      BY <3>1, <3>3 DEF AbortInv
  <2>2. CASE ~(state = "ABORTING" /\ ~healthy)
    BY <1>1, <1>2, <2>2 DEF AbortInv, supervisorVars, SupervisorTypeOK, At
  <2>3. QED
    BY <2>1, <2>2
<1>7. QED
  BY <1>3, <1>4, <1>5, <1>6

LEMMA ExchangeIInv ==
  ASSUME IInv, ExchangeMoves
  PROVE  IInv'
<1> USE DEF IInv, CoreInv, CoreTypeOK
<1>1. PICK i \in Intents : Arrive(i) \/ Progress(i) \/ (\E l \in Legs : LegEnds(i, l))
  BY DEF ExchangeMoves
<1>2. UNCHANGED <<ledgerVars, coordinatorVars, consumerVars, supervisorVars>>
  BY DEF ExchangeMoves
<1>3. ExchangeTypeOK' /\ JournalInv' /\ FillInv'
  BY <1>1, <1>2, ExchangeTypes, ExchangeJournal, ExchangeFill DEF ledgerVars, coordinatorVars
<1>4. LedgerTypeOK' /\ CoordinatorTypeOK' /\ ClearInv'
  BY <1>2 DEF LedgerTypeOK, CoordinatorTypeOK, ClearInv, CachedGateSound, RecoveryState, At,
     ledgerVars, coordinatorVars
<1>5. ConsumerTypeOK' /\ SupervisorTypeOK' /\ OutcomeInv' /\ QueueInv' /\ AbortInv'
  BY <1>2 DEF ConsumerTypeOK, SupervisorTypeOK, OutcomeInv, QueueInv, AbortInv, At,
     consumerVars, supervisorVars, coordinatorVars
<1>6. QED
  BY <1>3, <1>4, <1>5

LEMMA InitIInv == Init => IInv
<1> SUFFICES ASSUME Init PROVE IInv
  OBVIOUS
<1> USE DEF Init, LedgerInit, ExchangeInit, CoordinatorInit, ConsumerInit, SupervisorInit
<1>1. LedgerTypeOK
  <2>1. localLeg \in [Intents -> [Legs -> {"NONE", "OPEN", "DONE"}]]
    OBVIOUS
  <2>2. /\ filled \in [Intents -> 0 .. OrderQty]
        /\ position \in [Symbols -> Int]
        /\ fillIds \in [Intents -> SUBSET ((1 .. OrderQty) \X Prices)]
    BY DEF LedgerAssumption
  <2>3. QED
    BY <2>1, <2>2 DEF LedgerTypeOK
<1>2. ExchangeTypeOK
  <2>1. legQty \in [Intents -> [Legs -> 0 .. OrderQty]]
    BY DEF LedgerAssumption
  <2>2. QED
    BY <2>1 DEF ExchangeTypeOK, LedgerAssumption
<1>3. CoordinatorTypeOK
  BY DownType DEF CoordinatorTypeOK
<1>4. JournalInv /\ ClearInv
  BY DownType DEF JournalInv, OnExchange, ClearInv, CachedGateSound, At
<1>5. FillInv
  BY DownType DEF FillInv, NoPhantomFills, LegsWithinFills, OnExchange, At
<1>6. ConsumerTypeOK
  <2>1. queue \in Seq(Intents) /\ Len(queue) = 0
    OBVIOUS
  <2>2. 0 <= QueueSize
    BY DEF ConsumerAssumption
  <2>3. QED
    BY <2>1, <2>2 DEF ConsumerTypeOK
<1>7. SupervisorTypeOK /\ OutcomeInv /\ AbortInv
  BY DownType DEF SupervisorTypeOK, OutcomeInv, AbortInv, At
<1>8. QueueInv
  BY DownType DEF QueueInv, At
<1>9. QED
  BY <1>1, <1>2, <1>3, <1>4, <1>5, <1>6, <1>7, <1>8 DEF IInv, CoreInv, CoreTypeOK

\* The actions of Next, by what they do to a call.
QueueStep == (\E i \in Intents : Decide(i)) \/ ConsumerStep \/ TakeNext \/ TakeBacklog
SupervisorStep ==
  \/ Start \/ StartRefused \/ StartRunning \/ StartAborts \/ StartFailsLate
  \/ Reconcile
  \/ Stop \/ Stopped \/ Crash \/ EmergencyFlatten
  \/ \E on \in BOOLEAN : SetKillSwitch(on)

LEMMA NextCases ==
  ASSUME Next
  PROVE  CoordinatorStep \/ ExchangeMoves \/ QueueStep \/ SupervisorStep
BY DEF Next, ProcessStep, StartStep, QueueStep, SupervisorStep

\* The invariant is inductive.
LEMMA NextIInv == IInv /\ [Next]_vars => IInv'
<1> SUFFICES ASSUME IInv, [Next]_vars PROVE IInv'
  OBVIOUS
<1>1. CASE CoordinatorStep
  BY <1>1, CallIInv
<1>2. CASE ExchangeMoves
  BY <1>2, ExchangeIInv
<1>3. CASE QueueStep
  BY <1>3, ConsumerIInv DEF QueueStep
<1>4. CASE SupervisorStep
  BY <1>4, StartInv, ReconcileInv, StopInv, ForgetInv, FlattenInv, KillSwitchInv
     DEF SupervisorStep, Stopped, Crash
<1>5. CASE UNCHANGED vars
  <2>1. CoreInv'
    BY <1>5, QuietStep DEF IInv, CoreInv, CoreTypeOK, LedgerTypeOK, vars, ledgerVars,
       coordinatorVars
  <2>2. ConsumerTypeOK' /\ SupervisorTypeOK' /\ OutcomeInv' /\ QueueInv' /\ AbortInv'
    BY <1>5 DEF IInv, ConsumerTypeOK, SupervisorTypeOK, OutcomeInv, QueueInv, AbortInv, At,
       vars, consumerVars, supervisorVars, coordinatorVars
  <2>3. QED
    BY <2>1, <2>2 DEF IInv
<1>6. QED
  BY <1>1, <1>2, <1>3, <1>4, <1>5, NextCases

THEOREM Inductive == Spec => []IInv
BY InitIInv, NextIInv, PTL DEF Spec

-----------------------------------------------------------------------------
(* What the invariant implies.                                             *)

\* Every variable of the runtime stays in its range.
THEOREM TypeCorrect == Spec => []TypeOK
<1>1. IInv => TypeOK
  BY DEF IInv, CoreInv, CoreTypeOK, TypeOK
<1>2. QED
  BY Inductive, <1>1, PTL

\* No entry is submitted twice by the whole runtime: not by a recovered backlog,
\* a full queue, a second start or the emergency script.
THEOREM SentAtMostOnce == Spec => []AtMostOneSend
<1>1. IInv => AtMostOneSend
  BY DEF IInv, CoreInv, JournalInv, AtMostOneSend
<1>2. QED
  BY Inductive, <1>1, PTL

\* The cached gate is never open on a ledger that says RECOVERY.
THEOREM GateIsSound == Spec => []CachedGateSound
<1>1. IInv => CachedGateSound
  BY DEF IInv, CoreInv, ClearInv
<1>2. QED
  BY Inductive, <1>1, PTL

\* An entry the exchange holds, or may still receive, has a durable order row,
\* whatever process sent it: recovery can ask for it (submit_intent).
THEOREM KnownDurably == Spec => []ExchangeKnownDurably
<1>1. IInv => ExchangeKnownDurably
  <2>1. ASSUME IInv, NEW i \in Intents, sends[i] > 0 \/ OnExchange(i) \/ i \in inflight
        PROVE  OrderKnown(i)
    <3>1. sends[i] = 1
      BY <2>1 DEF IInv, CoreInv, JournalInv
    <3>2. QED
      BY <2>1, <3>1 DEF IInv, CoreInv, JournalInv
  <2>2. QED
    BY <2>1 DEF ExchangeKnownDurably
<1>2. QED
  BY Inductive, <1>1, PTL

\* The fill rows of an entry never claim more than was executed of it, although the
\* reconciliation task, a recovery and the call of the consumer all book fills.
THEOREM FillsAreReal == Spec => []NoPhantomFills
<1>1. IInv => NoPhantomFills
  BY DEF IInv, CoreInv, FillInv
<1>2. QED
  BY Inductive, <1>1, PTL

\* No protective order of the runtime is larger than the fills of its entry.
THEOREM LegsAreWithinFills == Spec => []LegsWithinFills
<1>1. IInv => LegsWithinFills
  BY DEF IInv, CoreInv, FillInv
<1>2. QED
  BY Inductive, <1>1, PTL

\* An intent waits at most once, and not while it is being processed (_seen).
THEOREM WaitsOnce == Spec => []EachOnce
<1>1. IInv => EachOnce
  BY DEF IInv, QueueInv, EachOnce
<1>2. QED
  BY Inductive, <1>1, PTL

\* A step that is not a call's sends nothing.
LEMMA OnlyCallsSend ==
  ASSUME IInv, [Next]_vars, ~CoordinatorStep
  PROVE  UNCHANGED sends
<1>1. CASE ExchangeMoves
  BY <1>1 DEF ExchangeMoves, Arrive, Progress, LegEnds
<1>2. CASE QueueStep
  BY <1>2, ConsumerGoes DEF QueueStep, ConsumerMoves, Submit, RecoverIntent, Enqueue,
     EnqueueFull, Dequeue, Finish, ConsumerFails, OnlyIntentRow, exchangeVars
<1>3. CASE SupervisorStep
  <2>1. CASE Stopped \/ Crash
    BY <2>1 DEF Stopped, Crash, ForgetProcess, ExchangeAfterCrash, exchangeVars
  <2>2. CASE Start \/ StartRefused
    BY <2>2 DEF Start, StartRefused, CopyExchange, exchangeVars
  <2>3. CASE SupervisorStep /\ ~(Stopped \/ Crash \/ Start \/ StartRefused)
    BY <2>3 DEF SupervisorStep, StartRunning, StartAborts, StartFailsLate, Reconcile,
       ReconcileHealthy, ReconcileUnhealthy, Stop, EmergencyFlatten, SetKillSwitch, exchangeVars
  <2>4. QED
    BY <1>3, <2>1, <2>2, <2>3
<1>4. CASE UNCHANGED vars
  BY <1>4 DEF vars, exchangeVars
<1>5. QED
  BY <1>1, <1>2, <1>3, <1>4, NextCases

\* No entry is sent while the kill switch is on or a reconciliation is open,
\* although the reconciliation task writes the gate between the calls.
THEOREM SendsFindGatesOpen == Spec => SendsAreClear
<1>1. IInv /\ [Next]_vars => [SendIsClear]_vars
  <2> SUFFICES ASSUME IInv, [Next]_vars PROVE [SendIsClear]_vars
    OBVIOUS
  <2>1. CASE CoordinatorStep
    BY <2>1, CallStepSendIsClear DEF CoordinatorStep, IInv, CoreInv
  <2>2. CASE ~CoordinatorStep
    BY <2>2, OnlyCallsSend DEF SendIsClear
  <2>3. QED
    BY <2>1, <2>2
<1>2. QED
  BY Inductive, <1>1, PTL DEF Spec, SendsAreClear

\* A start whose first reconciliation failed drains its backlog without sending.
THEOREM AbortedStartIsSilent == Spec => AbortedStartSendsNothing
<1>1. IInv /\ [Next]_vars => [state = "ABORTING" /\ ~healthy => sends' = sends]_vars
  <2> SUFFICES ASSUME IInv, [Next]_vars, state = "ABORTING", ~healthy PROVE sends' = sends
    OBVIOUS
  <2>1. CASE CoordinatorStep
    <3>1. job.at # "send"
      BY DEF IInv, AbortInv
    <3>2. CallStep => UNCHANGED sends
      BY <3>1 DEF CallStep, Gate, GateRejects, GateKnownRequest, GateKnownOrder,
         GateUnavailable, GatePasses, Submission, PersistOrder, PersistIntent, Send,
         QueryFinds, QueryMisses, QueryRaises, PersistAck, AckRejected, AckUnknown,
         AckAccepted, Filling, FillNothing, FillUnusable, FillRaises, FillBooked,
         Protection, ProtectNothing, LegCovered, LegAmended, LegPlaced, LegFails,
         LegAccepted, LegRefused, LegUnknown, ProtectionFails, ProtectionVerified,
         Recovering, RecoverReads, RecoverMisses, RecoverVerifies, RecoverMismatch,
         RecoverFails, At, exchangeVars
    <3>3. QED
      BY <2>1, <3>2 DEF CoordinatorStep
  <2>2. CASE ~CoordinatorStep
    BY <2>2, OnlyCallsSend
  <2>3. QED
    BY <2>1, <2>2
<1>2. QED
  BY Inductive, <1>1, PTL DEF Spec, AbortedStartSendsNothing

-----------------------------------------------------------------------------
(* The intent rows.                                                        *)

\* A row that reports an order at the exchange reports one that was sent, and so
\* does the outcome of a call that is about to become a row.
RowsInv ==
  /\ \A i \in Intents : intentStatus[i] \in Reported => sends[i] = 1
  /\ SentInv

\* A row that says QUEUED or RECOVERED is this process's while it runs, and what
\* is this process's waits in its queue.
HeldInv ==
  \A i \in Intents : intentStatus[i] \in {"QUEUED", "RECOVERED"} =>
    /\ state \in {"RUNNING", "STOPPING"} => i \in seen
    /\ i \in seen => \E n \in DOMAIN queue : queue[n] = i

\* A call writes one row, that of its intent, and only to approve it.
LEMMA CallStepRow ==
  ASSUME CallStep
  PROVE  UNCHANGED intentStatus \/ intentStatus' = [intentStatus EXCEPT ![job.id] = "APPROVED"]
<1>1. CASE Gate \/ Submission
  BY <1>1 DEF Gate, GateRejects, GateKnownRequest, GateKnownOrder, GateUnavailable, GatePasses,
     Submission, PersistOrder, PersistIntent, Send, QueryFinds, QueryMisses, QueryRaises,
     PersistAck, AckRejected, AckUnknown, AckAccepted, SetIntentStatus, ledgerVars, LedgerOrders
<1>2. CASE Filling \/ Recovering
  BY <1>2 DEF Filling, FillNothing, FillUnusable, FillRaises, FillBooked, RecordConfirmedFill,
     Recovering, RecoverReads, RecoverMisses, RecoverVerifies, RecoverMismatch, RecoverFails,
     ledgerVars, LedgerOrders
<1>3. CASE Protection
  BY <1>3 DEF Protection, ProtectNothing, LegCovered, LegAmended, LegPlaced, LegFails,
     LegAccepted, LegRefused, LegUnknown, ProtectionFails, ProtectionVerified, ledgerVars,
     LedgerOrders
<1>4. QED
  BY <1>1, <1>2, <1>3 DEF CallStep

\* The steps of the supervisor write no row but the script's FAILED, and leave a
\* call where it is, or at rest.
LEMMA SupervisorRows ==
  ASSUME IInv, SupervisorStep
  PROVE  /\ \A i \in Intents : intentStatus'[i] \in {intentStatus[i], "FAILED"}
         /\ UNCHANGED job \/ job' = Idle \/ job' = Down
<1>1. intentStatus \in [Intents -> IntentStatus \union {"NONE"}]
  BY DEF IInv, CoreInv, CoreTypeOK, LedgerTypeOK
<1>2. CASE EmergencyFlatten
  BY <1>1, <1>2 DEF EmergencyFlatten, coordinatorVars
<1>3. CASE Start \/ StartRefused
  BY <1>3 DEF Start, StartRefused, CopyExchange
<1>4. CASE Stopped \/ Crash
  BY <1>4 DEF Stopped, Crash, ForgetProcess
<1>5. CASE SupervisorStep /\ ~(EmergencyFlatten \/ Start \/ StartRefused \/ Stopped \/ Crash)
  BY <1>5 DEF SupervisorStep, StartRunning, StartAborts, StartFailsLate, Reconcile,
     ReconcileHealthy, ReconcileUnhealthy, Stop, SetKillSwitch, ledgerVars, LedgerOrders,
     coordinatorVars
<1>6. QED
  BY <1>2, <1>3, <1>4, <1>5

LEMMA QueueRows ==
  ASSUME IInv, RowsInv, QueueStep
  PROVE  RowsInv'
<1>1. /\ intentStatus \in [Intents -> IntentStatus \union {"NONE"}]
      /\ UNCHANGED sends
      /\ job'.at \in {"idle", "enqueue", "gate"}
      /\ ConsumerMoves
  BY ConsumerGoes DEF IInv, CoreInv, CoreTypeOK, LedgerTypeOK, QueueStep, ConsumerMoves, Submit,
     RecoverIntent, Enqueue, EnqueueFull, Dequeue, Finish, ConsumerFails, OnlyIntentRow,
     exchangeVars
<1>2. SentInv'
  BY <1>1 DEF SentInv, At
<1>3. \A i \in Intents :
        \/ intentStatus'[i] = intentStatus[i]
        \/ intentStatus'[i] \notin Reported
        \/ Finish /\ i = job.id /\ intentStatus'[i] = job.arg
  BY <1>1 DEF ConsumerMoves, Submit, RecoverIntent, Enqueue, EnqueueFull, Dequeue, Finish,
     ConsumerFails, SetIntentStatus, Reported
<1>4. ASSUME NEW i \in Intents, intentStatus'[i] \in Reported
      PROVE  sends'[i] = 1
  <2>1. CASE intentStatus'[i] = intentStatus[i]
    BY <1>1, <1>4, <2>1 DEF RowsInv
  <2>2. CASE Finish /\ i = job.id /\ intentStatus'[i] = job.arg
    BY <1>1, <1>4, <2>2 DEF RowsInv, SentInv, Finish, At
  <2>3. QED
    BY <1>3, <1>4, <2>1, <2>2
<1>5. QED
  BY <1>2, <1>4 DEF RowsInv

LEMMA NextRows ==
  ASSUME IInv, RowsInv, [Next]_vars
  PROVE  RowsInv'
<1>1. CASE CoordinatorStep
  <2>1. SentInv' /\ \A i \in Intents : sends[i] = 1 => sends'[i] = 1
    BY <1>1, CallStepSent, SendsOf DEF CoordinatorStep, RowsInv, IInv, CoreInv
  <2>2. \A i \in Intents : intentStatus'[i] \in {intentStatus[i], "APPROVED"}
    <3>1. \/ UNCHANGED intentStatus
          \/ intentStatus' = [intentStatus EXCEPT ![job.id] = "APPROVED"]
      BY <1>1, CallStepRow DEF CoordinatorStep
    <3>2. intentStatus \in [Intents -> IntentStatus \union {"NONE"}]
      BY DEF IInv, CoreInv, CoreTypeOK, LedgerTypeOK
    <3>3. QED
      BY <3>1, <3>2
  <2>3. QED
    BY <2>1, <2>2 DEF RowsInv, Reported
<1>2. CASE ExchangeMoves \/ UNCHANGED vars
  <2>1. UNCHANGED <<intentStatus, sends, job>>
    BY <1>2 DEF ExchangeMoves, Arrive, Progress, LegEnds, vars, ledgerVars, exchangeVars,
       coordinatorVars
  <2>2. QED
    BY <2>1 DEF RowsInv, SentInv, At
<1>3. CASE QueueStep
  BY <1>3, QueueRows
<1>4. CASE SupervisorStep
  <2>1. /\ \A i \in Intents : intentStatus'[i] \in {intentStatus[i], "FAILED"}
        /\ UNCHANGED job \/ job' = Idle \/ job' = Down
    BY <1>4, SupervisorRows
  <2>2. UNCHANGED sends
    <3>1. CASE Stopped \/ Crash
      BY <3>1 DEF Stopped, Crash, ForgetProcess, ExchangeAfterCrash, exchangeVars
    <3>2. CASE ~(Stopped \/ Crash)
      BY <1>4, <3>2 DEF SupervisorStep, Start, StartRefused, CopyExchange, StartRunning,
         StartAborts, StartFailsLate, Reconcile, ReconcileHealthy, ReconcileUnhealthy, Stop,
         EmergencyFlatten, SetKillSwitch, exchangeVars
    <3>3. QED
      BY <3>1, <3>2
  <2>3. SentInv'
    BY <2>1, <2>2, IdleType, DownType DEF RowsInv, SentInv, At
  <2>4. QED
    BY <2>1, <2>2, <2>3 DEF RowsInv, Reported
<1>5. QED
  BY <1>1, <1>2, <1>3, <1>4, NextCases

LEMMA InitRows == Init => RowsInv
BY DownType DEF Init, LedgerInit, CoordinatorInit, RowsInv, SentInv, Reported, At

\* An intent row never reports an order that was not sent, or one a restarted
\* process could not ask about, whichever process wrote the row.
THEOREM OutcomesTrue == Spec => []OutcomesAreTrue
<1>1. Init => RowsInv
  BY InitRows
<1>2. IInv /\ RowsInv /\ [Next]_vars => RowsInv'
  BY NextRows
<1>3. IInv /\ RowsInv => OutcomesAreTrue
  BY DEF IInv, CoreInv, JournalInv, RowsInv, OutcomesAreTrue, Reported
<1>4. QED
  BY Inductive, <1>1, <1>2, <1>3, PTL DEF Spec

\* Whoever waits still waits when another is appended, or was the head.
LEMMA WaitsOn ==
  ASSUME NEW q \in Seq(Intents), NEW i \in Intents, NEW j \in Intents
  PROVE  /\ \E n \in DOMAIN Append(q, i) : Append(q, i)[n] = i
         /\ (\E n \in DOMAIN q : q[n] = j) =>
              /\ \E n \in DOMAIN Append(q, i) : Append(q, i)[n] = j
              /\ j = Head(q) \/ \E n \in DOMAIN Tail(q) : Tail(q)[n] = j
<1>1. /\ DOMAIN q = 1 .. Len(q) /\ Len(q) \in Nat
      /\ DOMAIN Append(q, i) = 1 .. (Len(q) + 1)
      /\ \A n \in 1 .. Len(q) : Append(q, i)[n] = q[n]
      /\ Append(q, i)[Len(q) + 1] = i
  OBVIOUS
<1>2. \E n \in DOMAIN Append(q, i) : Append(q, i)[n] = i
  BY <1>1
<1>3. ASSUME NEW n \in DOMAIN q, q[n] = j
      PROVE  /\ \E m \in DOMAIN Append(q, i) : Append(q, i)[m] = j
             /\ j = Head(q) \/ \E m \in DOMAIN Tail(q) : Tail(q)[m] = j
  <2>1. n \in 1 .. (Len(q) + 1) /\ Append(q, i)[n] = j
    BY <1>1, <1>3
  <2>2. q # <<>>
    BY <1>1, <1>3
  <2>3. /\ DOMAIN Tail(q) = 1 .. (Len(q) - 1)
        /\ \A m \in 1 .. (Len(q) - 1) : Tail(q)[m] = q[m + 1]
        /\ Head(q) = q[1]
    BY <1>1, <2>2
  <2>4. CASE n = 1
    BY <1>1, <1>3, <2>1, <2>3, <2>4
  <2>5. CASE n # 1
    <3>1. n - 1 \in 1 .. (Len(q) - 1) /\ (n - 1) + 1 = n
      BY <1>1, <1>3, <2>5
    <3>2. Tail(q)[n - 1] = j
      BY <1>3, <2>3, <3>1
    <3>3. QED
      BY <1>1, <2>1, <2>3, <3>1, <3>2
  <2>6. QED
    BY <2>4, <2>5
<1>4. QED
  BY <1>2, <1>3

LEMMA QueueHeld ==
  ASSUME IInv, HeldInv, QueueStep
  PROVE  HeldInv'
<1>1. /\ queue \in Seq(Intents)
      /\ job.at \notin {"down", "idle"} => job.id \in Intents
      /\ intentStatus \in [Intents -> IntentStatus \union {"NONE"}]
      /\ At("finish") => job.arg \notin {"QUEUED", "RECOVERED"}
      /\ state' = state
  BY ConsumerGoes DEF IInv, CoreInv, CoreTypeOK, CoordinatorTypeOK, LedgerTypeOK, ConsumerTypeOK,
     OutcomeInv, OutcomeStatus, QueueStep, supervisorVars
<1> DEFINE Waiting(q, i) == \E n \in DOMAIN q : q[n] = i
<1>2. ASSUME NEW i \in Intents, intentStatus'[i] \in {"QUEUED", "RECOVERED"}
      PROVE  /\ state' \in {"RUNNING", "STOPPING"} => i \in seen'
             /\ i \in seen' => Waiting(queue', i)
  <2>1. CASE UNCHANGED <<queue, seen>> /\ intentStatus'[i] = intentStatus[i]
    BY <1>1, <1>2, <2>1 DEF HeldInv
  <2>2. ASSUME NEW j \in Intents, Submit(j)
        PROVE  UNCHANGED <<queue, seen>> /\ intentStatus'[i] = intentStatus[i]
    BY <1>1, <1>2, <2>2 DEF Submit, SetIntentStatus, consumerVars
  <2>3. CASE EnqueueFull \/ Finish \/ ConsumerFails
    <3>1. UNCHANGED <<queue, seen>> /\ intentStatus'[i] = intentStatus[i]
      BY <1>1, <1>2, <2>3 DEF EnqueueFull, Finish, ConsumerFails, SetIntentStatus, consumerVars
    <3>2. QED
      BY <2>1, <3>1
  <2>4. CASE Enqueue
    <3>1. job.id \in Intents /\ queue' = Append(queue, job.id) /\ seen' = seen \union {job.id}
      BY <1>1, <2>4 DEF Enqueue, At
    <3>2. CASE i = job.id
      BY <1>1, <3>1, <3>2, WaitsOn
    <3>3. CASE i # job.id
      <4>1. intentStatus'[i] = intentStatus[i]
        BY <1>1, <2>4, <3>3 DEF Enqueue, SetIntentStatus
      <4>2. i \in seen => Waiting(queue, i)
        BY <1>2, <4>1 DEF HeldInv
      <4>3. QED
        BY <1>1, <1>2, <3>1, <3>3, <4>1, <4>2, WaitsOn DEF HeldInv
    <3>4. QED
      BY <3>2, <3>3
  <2>5. CASE Dequeue
    <3>1. queue # <<>> /\ queue' = Tail(queue) /\ seen' = seen /\ Head(queue) \in Intents
      BY <1>1, <2>5, SequenceFacts DEF Dequeue
    <3>2. i # Head(queue) /\ intentStatus'[i] = intentStatus[i]
      BY <1>1, <1>2, <2>5, <3>1 DEF Dequeue, SetIntentStatus
    <3>3. i \in seen => Waiting(queue, i)
      BY <1>2, <3>2 DEF HeldInv
    <3>4. Waiting(queue, i) => Waiting(queue', i)
      <4>1. Waiting(queue, i) => i = Head(queue) \/ Waiting(Tail(queue), i)
        BY <1>1, WaitsOn
      <4>2. QED
        BY <3>1, <3>2, <4>1
    <3>5. QED
      BY <1>1, <1>2, <3>1, <3>2, <3>3, <3>4 DEF HeldInv
  <2>6. ASSUME NEW j \in Intents, RecoverIntent(j), state = "STARTING"
        PROVE  i \in seen' => Waiting(queue', i)
    <3>1. CASE queue' = Append(queue, j) /\ seen' = seen \union {j}
      <4>1. CASE i = j
        BY <1>1, <3>1, <4>1, WaitsOn
      <4>2. CASE i # j
        <5>1. intentStatus'[i] = intentStatus[i]
          BY <1>1, <2>6, <4>2 DEF RecoverIntent, SetIntentStatus
        <5>2. i \in seen => Waiting(queue, i)
          BY <1>2, <5>1 DEF HeldInv
        <5>3. Waiting(queue, i) => Waiting(queue', i)
          <6>1. ASSUME NEW n \in DOMAIN queue, queue[n] = i
                PROVE  n \in DOMAIN queue' /\ queue'[n] = i
            BY <1>1, <3>1, <6>1
          <6>2. QED
            BY <6>1, Zenon
        <5>4. QED
          BY <3>1, <4>2, <5>2, <5>3
      <4>3. QED
        BY <4>1, <4>2
    <3>2. CASE /\ UNCHANGED <<queue, seen>>
               /\ SetIntentStatus(j, IF OrderKnown(j) THEN "UNKNOWN" ELSE "FAILED")
      <4>1. intentStatus'[i] = intentStatus[i]
        BY <1>1, <1>2, <3>2 DEF SetIntentStatus
      <4>2. QED
        BY <2>1, <3>2, <4>1
    <3>3. QED
      BY <2>6, <3>1, <3>2 DEF RecoverIntent
  <2>7. QED
    BY <1>1, <2>1, <2>2, <2>3, <2>4, <2>5, <2>6 DEF QueueStep, Decide, ConsumerStep, TakeNext,
       TakeBacklog
<1>3. QED
  BY <1>2 DEF HeldInv

LEMMA NextHeld ==
  ASSUME IInv, HeldInv, [Next]_vars
  PROVE  HeldInv'
<1>1. intentStatus \in [Intents -> IntentStatus \union {"NONE"}]
  BY DEF IInv, CoreInv, CoreTypeOK, LedgerTypeOK
<1>2. CASE CoordinatorStep
  <2>1. \/ UNCHANGED intentStatus
        \/ intentStatus' = [intentStatus EXCEPT ![job.id] = "APPROVED"]
    BY <1>2, CallStepRow DEF CoordinatorStep
  <2>2. UNCHANGED <<queue, seen, state>>
    BY <1>2 DEF CoordinatorStep, consumerVars, supervisorVars
  <2>3. QED
    BY <1>1, <2>1, <2>2 DEF HeldInv
<1>3. CASE ExchangeMoves \/ UNCHANGED vars
  <2>1. UNCHANGED <<intentStatus, queue, seen, state>>
    BY <1>3 DEF ExchangeMoves, vars, ledgerVars, consumerVars, supervisorVars
  <2>2. QED
    BY <2>1 DEF HeldInv
<1>4. CASE QueueStep
  BY <1>4, QueueHeld
<1>5. CASE SupervisorStep
  <2>1. \A i \in Intents : intentStatus'[i] \in {intentStatus[i], "FAILED"}
    BY <1>5, SupervisorRows
  <2>2. CASE Stopped \/ Crash
    BY <2>2 DEF Stopped, Crash, ForgetProcess, HeldInv
  <2>3. CASE StartRunning
    <3>1. UNCHANGED <<intentStatus, queue, seen>> /\ Backlog = {}
      BY <2>3 DEF StartRunning, ReconcileHealthy, LedgerOrders, consumerVars
    <3>2. \A i \in Intents : intentStatus[i] \in {"QUEUED", "RECOVERED"} => i \in seen
      BY <3>1 DEF Backlog, RecoverableStatus
    <3>3. QED
      BY <3>1, <3>2 DEF HeldInv
  <2>4. CASE SupervisorStep /\ ~(Stopped \/ Crash \/ StartRunning)
    <3>1. /\ UNCHANGED <<queue, seen>>
          /\ state' \in {"RUNNING", "STOPPING"} => state \in {"RUNNING", "STOPPING"}
      BY <2>4 DEF SupervisorStep, Start, StartRefused, CanStart, StartAborts, StartFailsLate,
         Reconcile, Stop, EmergencyFlatten, SetKillSwitch, consumerVars, supervisorVars
    <3>2. QED
      BY <2>1, <3>1 DEF HeldInv
  <2>5. QED
    BY <1>5, <2>2, <2>3, <2>4
<1>6. QED
  BY <1>2, <1>3, <1>4, <1>5, NextCases

\* While the runtime runs, no intent the ledger calls QUEUED or RECOVERED is lost
\* to memory: a start takes the whole backlog before it runs, a full queue fails
\* the row it has no room for, and only the head leaves the queue.
THEOREM QueuedAreHeld == Spec => []QueuedIsHeld
<1>1. Init => HeldInv
  BY DEF Init, LedgerInit, HeldInv
<1>2. IInv /\ HeldInv /\ [Next]_vars => HeldInv'
  BY NextHeld
<1>3. HeldInv => QueuedIsHeld
  BY DEF HeldInv, QueuedIsHeld
<1>4. QED
  BY Inductive, <1>1, <1>2, <1>3, PTL DEF Spec

-----------------------------------------------------------------------------
(* The gate a submission opens again.                                      *)

\* Where a call has got to and what its entry's legs cover by then.
ProtectInv == CallInv /\ CoverInv

\* A step that is not a call's moves the gate only while nobody is in a call.
LEMMA GateAtRest ==
  ASSUME IInv, QueueStep \/ SupervisorStep \/ ExchangeMoves
  PROVE  UNCHANGED gate \/ (job.at \in {"down", "idle"} /\ job'.at \in {"down", "idle"})
                        \/ job' = Down
<1>1. CASE QueueStep
  BY <1>1, ConsumerGoes DEF QueueStep
<1>2. CASE ExchangeMoves
  BY <1>2 DEF ExchangeMoves, coordinatorVars
<1>3. CASE Start \/ StartRefused
  BY <1>3, IdleType DEF Start, StartRefused, CanStart, IInv, SupervisorTypeOK, At
<1>4. CASE Stopped \/ Crash
  BY <1>4 DEF Stopped, Crash, ForgetProcess
<1>5. CASE StartRunning \/ StartAborts \/ StartFailsLate \/ Reconcile
  BY <1>5 DEF StartRunning, StartAborts, StartFailsLate, Reconcile, ReconcileHealthy,
     ReconcileUnhealthy, At
<1>6. CASE Stop \/ EmergencyFlatten \/ \E on \in BOOLEAN : SetKillSwitch(on)
  BY <1>6 DEF Stop, EmergencyFlatten, SetKillSwitch, coordinatorVars
<1>7. QED
  BY <1>1, <1>2, <1>3, <1>4, <1>5, <1>6 DEF SupervisorStep

\* What a step that is not a call's makes of the call in progress.
LEMMA CallsAround ==
  ASSUME IInv, QueueStep \/ SupervisorStep \/ ExchangeMoves
  PROVE  \/ UNCHANGED <<job, filled, fillIds, legQty, reqLegs, remote, sends, inflight, legEnded>>
         \/ ExchangeMoves /\ UNCHANGED <<job, filled, fillIds, legQty, reqLegs>>
         \/ /\ \E at \in {"idle", "enqueue", "gate"}, op \in {"none", "consume"},
                  i \in Intents \union {NoIntent} :
                 /\ job' = Job(at, op, i, NoOrder, "none")
                 /\ at = "idle" => op = "none"
            /\ job.at \in {"down", "idle", "enqueue", "finish", "raised"}
            /\ UNCHANGED <<filled, fillIds, legQty, reqLegs, remote, sends, inflight, legEnded>>
         \/ ForgetProcess
<1>1. CASE QueueStep
  <2>1. UNCHANGED <<filled, fillIds, legQty, reqLegs, remote, sends, inflight, legEnded>>
    BY <1>1, ConsumerGoes DEF QueueStep, ConsumerMoves, Submit, RecoverIntent, Enqueue,
       EnqueueFull, Dequeue, Finish, ConsumerFails, OnlyIntentRow, exchangeVars
  <2>2. \/ UNCHANGED job
        \/ /\ job.at \in {"idle", "enqueue", "finish", "raised"}
           /\ \/ job' = Idle
              \/ \E at \in {"enqueue", "gate"}, i \in Intents :
                   job' = Job(at, "consume", i, NoOrder, "none")
    <3>1. queue # <<>> => Head(queue) \in Intents
      BY SequenceFacts DEF IInv, ConsumerTypeOK
    <3>2. QED
      BY <1>1, <3>1, ConsumerGoes DEF QueueStep, ConsumerMoves, Submit, RecoverIntent, Enqueue,
         EnqueueFull, Dequeue, Finish, ConsumerFails, At
  <2>3. QED
    BY <2>1, <2>2 DEF Idle
<1>2. CASE ExchangeMoves
  BY <1>2 DEF ExchangeMoves, Arrive, Progress, LegEnds, ledgerVars, coordinatorVars
<1>3. CASE Start \/ StartRefused
  BY <1>3 DEF Start, StartRefused, CanStart, CopyExchange, exchangeVars, Idle, IInv,
     SupervisorTypeOK, At
<1>4. CASE Stopped \/ Crash
  BY <1>4 DEF Stopped, Crash
<1>5. CASE SupervisorStep /\ ~(Start \/ StartRefused \/ Stopped \/ Crash)
  BY <1>5 DEF SupervisorStep, StartRunning, StartAborts, StartFailsLate, Reconcile,
     ReconcileHealthy, ReconcileUnhealthy, Stop, EmergencyFlatten, SetKillSwitch, ledgerVars,
     LedgerOrders, exchangeVars, coordinatorVars
<1>6. QED
  BY <1>1, <1>2, <1>3, <1>4, <1>5

LEMMA AroundProtect ==
  ASSUME IInv, ProtectInv, QueueStep \/ SupervisorStep \/ ExchangeMoves
  PROVE  ProtectInv'
<1> USE DEF ProtectInv
<1>1. CASE UNCHANGED <<job, filled, legQty>>
  BY <1>1, GateAtRest, DownType DEF CallInv, CoverInv, At, Down, Job
<1>2. CASE \E at \in {"idle", "enqueue", "gate"}, op \in {"none", "consume"},
              i \in Intents \union {NoIntent} :
             /\ job' = Job(at, op, i, NoOrder, "none")
             /\ at = "idle" => op = "none"
  BY <1>2 DEF CallInv, CoverInv, At, Job
<1>3. CASE ForgetProcess
  BY <1>3 DEF ForgetProcess, CallInv, CoverInv, At, Down, Job
<1>4. QED
  BY <1>1, <1>2, <1>3, CallsAround

LEMMA NextProtect ==
  ASSUME IInv, ProtectInv, [Next]_vars
  PROVE  ProtectInv'
<1>1. CASE CoordinatorStep
  BY <1>1, CallStepCall, CallStepCover DEF CoordinatorStep, IInv, CoreInv, ProtectInv
<1>2. CASE QueueStep \/ SupervisorStep \/ ExchangeMoves
  BY <1>2, AroundProtect
<1>3. CASE UNCHANGED vars
  BY <1>3 DEF vars, ledgerVars, exchangeVars, coordinatorVars, ProtectInv, CallInv, CoverInv, At
<1>4. QED
  BY <1>1, <1>2, <1>3, NextCases

LEMMA InitProtect == Init => ProtectInv
BY DEF Init, CoordinatorInit, ProtectInv, CallInv, CoverInv, Down, Job, At

\* A submission of the consumer opens the gate only when a stop and a target
\* cover what is booked of its entry; the reconciliation task, which opens it too,
\* never does so in the middle of a submission.
THEOREM SubmissionsReopenProtected == Spec => SubmissionReopensProtected
<1>1. IInv /\ ProtectInv /\ [Next]_vars =>
        [GateOpens /\ job.op = "consume" => CoveredNow(job.id)]_vars
  <2> SUFFICES ASSUME IInv, ProtectInv, [Next]_vars, GateOpens, job.op = "consume"
               PROVE  CoveredNow(job.id)
    OBVIOUS
  <2>1. CASE CoordinatorStep
    BY <2>1, CallStepReopens DEF CoordinatorStep, IInv, CoreInv, ProtectInv
  <2>2. CASE QueueStep \/ SupervisorStep \/ ExchangeMoves
    <3>1. gate = "RECOVERY" /\ gate' = "READY"
      BY DEF GateOpens
    <3>2. job' # Down
      BY <2>2, <3>1, CallsAround DEF ForgetProcess, Down, Job, IInv, CoreInv, CoreTypeOK,
         CoordinatorTypeOK, SupervisorTypeOK, At
    <3>3. job.at \in {"down", "idle"}
      BY <2>2, <3>1, <3>2, GateAtRest
    <3>4. QED
      BY <3>3 DEF ProtectInv, CallInv
  <2>3. CASE UNCHANGED vars
    BY <2>3 DEF GateOpens, vars, coordinatorVars
  <2>4. QED
    BY <2>1, <2>2, <2>3, NextCases
<1>2. IInv /\ ProtectInv /\ [Next]_vars => ProtectInv'
  BY NextProtect
<1>3. QED
  BY Inductive, InitProtect, <1>1, <1>2, PTL DEF Spec, SubmissionReopensProtected

-----------------------------------------------------------------------------
(* Protection in PAPER mode.                                               *)

\* The adapter that brain/main.py wires in PAPER mode: it lives in the process,
\* never fails, and keeps the request it was given.
InProcessPaper == ~Networked /\ NamesParent /\ Mode = "PAPER"

\* Nothing is lost, late or refused, and nobody recovers a single order.
SmoothInv ==
  /\ inflight = {} /\ legEnded = {}
  /\ job.op # "recover"
  /\ job.at \notin {"query", "raised", "unprotected", "recover", "verify", "unrecovered"}

\* An order the exchange has was filled whole by the call that sent it, and that
\* call books all of it, once, before it protects it.
WholeInv ==
  /\ \A i \in Intents : OnExchange(i) => remote[i] = View("FILLED", OrderQty)
  /\ \A i \in Intents : fillIds[i] # {} => sends[i] = 1
  /\ job.at \in {"acked", "acknowledged", "fill"} =>
       /\ job.view = View("FILLED", OrderQty)
       /\ filled[job.id] = 0 /\ fillIds[job.id] = {}
  /\ job.at \in {"protect", "leg_send"} => filled[job.id] = OrderQty

\* The entry of a call that is past its submission and not over.
InHand(i) ==
  job.id = i /\ job.at \in {"acked", "acknowledged", "fill", "protect", "leg_send"}

\* Every other entry is protected, and a leg asked for is there, or about to be.
LegsInv ==
  /\ \A i \in Intents : ~InHand(i) => \A l \in Legs : legQty[i][l] >= remote[i].filled
  /\ \A i \in Intents, l \in Legs :
       <<i, l>> \in reqLegs =>
         legQty[i][l] > 0 \/ (At("leg_send") /\ i = job.id /\ l = job.arg)

PaperInv == InProcessPaper => SmoothInv /\ WholeInv /\ LegsInv

LEMMA FillIsWhole ==
  ASSUME CoreTypeOK, SmoothInv, WholeInv, InProcessPaper, Filling
  PROVE  /\ FillBooked
         /\ filled' = [filled EXCEPT ![job.id] = OrderQty]
         /\ fillIds' = [fillIds EXCEPT ![job.id] = fillIds'[job.id]]
         /\ UNCHANGED <<exchangeVars, reqLegs>>
         /\ job' = [job EXCEPT !.at = "protect", !.arg = "sl"]
<1>1. /\ job.at = "fill" /\ job.id \in Intents /\ job \in Jobs
      /\ filled \in [Intents -> 0 .. OrderQty]
      /\ fillIds \in [Intents -> SUBSET ((1 .. OrderQty) \X Prices)]
  BY DEF Filling, FillNothing, FillUnusable, FillRaises, FillBooked, At, CoreTypeOK,
     CoordinatorTypeOK, LedgerTypeOK
<1>2. /\ job.view.status = "FILLED" /\ job.view.filled = OrderQty
      /\ filled[job.id] = 0 /\ fillIds[job.id] = {}
  BY <1>1 DEF WholeInv, View
<1>3. OrderQty \in Int /\ OrderQty > 0
  BY DEF LedgerAssumption
<1>4. Delta = OrderQty
  BY <1>2, <1>3 DEF Delta
<1>5. FillBooked
  BY <1>2, <1>3, <1>4 DEF Filling, FillNothing, FillUnusable, FillRaises, InProcessPaper
<1>6. PICK price \in Prices :
        RecordConfirmedFill(job.id, Delta, price, job.view.filled, job.view.status)
  BY <1>5 DEF FillBooked
<1>7. filled' = [filled EXCEPT ![job.id] = OrderQty]
  <2>1. FillId(Delta, price) \notin fillIds[job.id]
    BY <1>2
  <2>2. filled' = [filled EXCEPT ![job.id] = filled[job.id] + Delta]
    BY <1>1, <1>6, <2>1 DEF RecordConfirmedFill
  <2>3. filled[job.id] + Delta = OrderQty
    BY <1>2, <1>3, <1>4
  <2>4. QED
    BY <2>2, <2>3
<1>8. fillIds' = [fillIds EXCEPT ![job.id] = fillIds'[job.id]]
  BY <1>1, <1>6 DEF RecordConfirmedFill
<1>9. NeedsProtection
  BY <1>2 DEF NeedsProtection, SmoothInv, InProcessPaper
<1>10. QED
  BY <1>5, <1>7, <1>8, <1>9 DEF FillBooked, AfterFill

\* The exchange takes the entry at once, whole.
LEMMA SendIsWhole ==
  ASSUME CoreTypeOK, JournalInv, FillInv, SmoothInv, WholeInv, InProcessPaper, Send
  PROVE  /\ job' = [job EXCEPT !.at = "acked", !.view = View("FILLED", OrderQty)]
         /\ job.id \in Intents
         /\ remote' = [remote EXCEPT ![job.id] = View("FILLED", OrderQty)]
         /\ UNCHANGED <<inflight, filled, fillIds, legQty, legEnded, reqLegs>>
         /\ sends[job.id] = 0 /\ filled[job.id] = 0 /\ fillIds[job.id] = {}
<1>1. FirstViews = {View("FILLED", OrderQty)}
  BY DEF FirstViews, InProcessPaper
<1>2. /\ job' = [job EXCEPT !.at = "acked", !.view = View("FILLED", OrderQty)]
      /\ remote' = [remote EXCEPT ![job.id] = View("FILLED", OrderQty)]
      /\ UNCHANGED <<inflight, filled, fillIds, legQty, legEnded, reqLegs>>
  BY <1>1 DEF Send, TakeView, InProcessPaper, ledgerVars
<1>3. job.id \in Intents /\ sends[job.id] = 0
  BY DEF Send, At, JournalInv, CoreTypeOK, CoordinatorTypeOK
<1>4. filled[job.id] = 0
  BY <1>3 DEF FillInv, NoPhantomFills, CoreTypeOK, LedgerTypeOK, ExchangeTypeOK
<1>5. fillIds[job.id] = {}
  BY <1>3 DEF WholeInv
<1>6. QED
  BY <1>2, <1>3, <1>4, <1>5

\* What a call may do in PAPER mode before its entry is sent ...
Opening ==
  /\ job.at \in {"gate", "persist_order", "persist_intent"}
  /\ job'.at \in {"idle", "finish", "persist_order", "persist_intent", "send"}
  /\ job'.op # "recover"
  /\ UNCHANGED <<filled, fillIds, exchangeVars, reqLegs>>

\* ... between the answer and the booking ...
Acking ==
  /\ job.at \in {"acked", "acknowledged"}
  /\ job'.at \in {"acknowledged", "fill"}
  /\ job'.id = job.id /\ job'.op = job.op /\ job'.view = job.view
  /\ UNCHANGED <<filled, fillIds, exchangeVars, reqLegs>>

\* ... and from there to its end.
LegTaken ==
  /\ job.at \in {"protect", "leg_send"} /\ job'.at = "protect"
  /\ job'.id = job.id /\ job'.op = job.op
  /\ \/ job.at = "protect" /\ UNCHANGED legQty
     \/ job.arg \in Legs /\ legQty' = [legQty EXCEPT ![job.id][job.arg] = OrderQty]
  /\ UNCHANGED <<filled, fillIds, remote, inflight, legEnded, sends, reqLegs>>

LegAsked ==
  /\ job.at = "protect" /\ job'.at = "leg_send"
  /\ job'.id = job.id /\ job'.op = job.op /\ job'.arg = job.arg /\ job.arg \in Legs
  /\ reqLegs' = reqLegs \union {<<job.id, job.arg>>}
  /\ UNCHANGED <<filled, fillIds, exchangeVars>>

CallEnds ==
  /\ job.at = "protect" /\ job'.at \in {"idle", "finish"} /\ job'.op # "recover"
  /\ \A l \in Legs : legQty[job.id][l] >= filled[job.id]
  /\ UNCHANGED <<filled, fillIds, exchangeVars, reqLegs>>

LEMMA PaperCall ==
  ASSUME CoreTypeOK, CoverInv, SmoothInv, WholeInv, LegsInv, InProcessPaper, CallStep
  PROVE  Opening \/ Send \/ Acking \/ Filling \/ LegTaken \/ LegAsked \/ CallEnds
<1>1. /\ job \in Jobs /\ job.op # "recover"
      /\ job.at \notin {"query", "raised", "unprotected", "recover", "verify", "unrecovered"}
      /\ job.at \notin {"down", "idle"} => job.id \in Intents
  BY DEF CoreTypeOK, CoordinatorTypeOK, SmoothInv
<1>2. CASE Gate
  BY <1>1, <1>2, JobMoves DEF Gate, GateRejects, GateKnownRequest, GateKnownOrder,
     GateUnavailable, GatePasses, InProcessPaper, At, Opening, ledgerVars, LedgerOrders
<1>3. CASE Submission /\ ~Send
  <2>1. CASE PersistOrder \/ PersistIntent
    BY <1>1, <2>1, JobMoves DEF PersistOrder, PersistIntent, At, Opening
  <2>2. CASE PersistAck \/ AckAccepted
    BY <1>1, <2>2, JobMoves DEF PersistAck, AckAccepted, At, Acking, ledgerVars
  <2>3. job.at = "acknowledged" => job.view.status = "FILLED"
    BY DEF WholeInv, View
  <2>4. QED
    BY <1>1, <1>3, <2>1, <2>2, <2>3 DEF Submission, QueryFinds, QueryMisses, QueryRaises,
       AckRejected, AckUnknown, At
<1>4. CASE Protection
  <2>1. job.at \in {"protect", "leg_send"} => Quantity = OrderQty
    BY DEF WholeInv, Quantity
  <2>2. CASE LegCovered \/ LegAmended \/ LegAccepted
    <3>1. /\ job.at \in {"protect", "leg_send"} /\ job.arg \in Legs /\ Quantity = OrderQty
          /\ LegConfirmed
          /\ job.at = "leg_send" => LegAccepted
      BY <2>1, <2>2 DEF LegCovered, LegAmended, LegAccepted, AtLeg, At, CoverInv,
         InProcessPaper
    <3>2. job'.at = "protect" /\ job'.id = job.id /\ job'.op = job.op
      BY <1>1, <3>1, FillMoves DEF InProcessPaper
    <3>3. \/ job.at = "protect" /\ UNCHANGED legQty
          \/ legQty' = [legQty EXCEPT ![job.id][job.arg] = OrderQty]
      BY <2>2, <3>1 DEF LegCovered, LegAmended, LegAccepted, AtLeg, At, exchangeVars
    <3>4. UNCHANGED <<filled, fillIds, remote, inflight, legEnded, sends, reqLegs>>
      BY <2>2 DEF LegCovered, LegAmended, LegAccepted, ledgerVars, exchangeVars
    <3>5. QED
      BY <3>1, <3>2, <3>3, <3>4 DEF LegTaken
  <2>3. CASE LegPlaced
    BY <1>1, <2>3, JobMoves DEF LegPlaced, AtLeg, At, LegAsked
  <2>4. CASE ProtectionVerified
    <3>1. /\ job.at = "protect" /\ job.arg = "done"
          /\ UNCHANGED <<filled, fillIds, exchangeVars, reqLegs>>
      BY <2>4 DEF ProtectionVerified, LedgerOrders, At
    <3>2. job'.at \in {"idle", "finish"} /\ job'.op # "recover"
      BY <1>1, <2>4, JobMoves DEF ProtectionVerified, AfterProtection
    <3>3. \A l \in Legs : legQty[job.id][l] >= filled[job.id]
      BY <3>1 DEF CoverInv, At, Legs
    <3>4. QED
      BY <3>1, <3>2, <3>3 DEF CallEnds
  <2>5. ~ProtectNothing /\ ~LegRefused /\ ~LegUnknown /\ ~ProtectionFails
    BY <1>1, <2>1 DEF ProtectNothing, LegRefused, LegUnknown, ProtectionFails, InProcessPaper,
       At, LedgerAssumption
  <2>6. ~LegFails
    BY <1>1 DEF LegFails, AtLeg, At, LegsInv, InProcessPaper
  <2>7. QED
    BY <1>4, <2>2, <2>3, <2>4, <2>5, <2>6 DEF Protection
<1>5. ~Recovering
  BY <1>1 DEF Recovering, RecoverReads, RecoverMisses, RecoverVerifies, RecoverMismatch,
     RecoverFails, At
<1>6. QED
  BY <1>2, <1>3, <1>4, <1>5 DEF CallStep

LEMMA PaperCallSmooth ==
  ASSUME CoreTypeOK, JournalInv, FillInv, CoverInv, SmoothInv, WholeInv, LegsInv,
         InProcessPaper, CallStep
  PROVE  SmoothInv'
<1>1. Opening \/ Send \/ Acking \/ Filling \/ LegTaken \/ LegAsked \/ CallEnds
  BY PaperCall
<1>2. job \in Jobs
  BY DEF CoreTypeOK, CoordinatorTypeOK
<1>3. CASE Send
  <2>1. job'.at = "acked" /\ job'.op = job.op
    BY <1>2, <1>3, SendIsWhole DEF Jobs
  <2>2. QED
    BY <1>3, <2>1, SendIsWhole DEF SmoothInv
<1>4. CASE Filling
  <2>1. job'.at = "protect" /\ job'.op = job.op
    BY <1>2, <1>4, FillIsWhole DEF Jobs
  <2>2. QED
    BY <1>4, <2>1, FillIsWhole DEF SmoothInv, exchangeVars
<1>5. CASE Opening \/ Acking \/ LegTaken \/ LegAsked \/ CallEnds
  BY <1>5 DEF SmoothInv, Opening, Acking, LegTaken, LegAsked, CallEnds, exchangeVars
<1>6. QED
  BY <1>1, <1>3, <1>4, <1>5

LEMMA PaperCallWhole ==
  ASSUME CoreTypeOK, JournalInv, FillInv, CoverInv, SentInv, SmoothInv, WholeInv, LegsInv,
         InProcessPaper, CallStep
  PROVE  WholeInv'
<1>1. Opening \/ Send \/ Acking \/ Filling \/ LegTaken \/ LegAsked \/ CallEnds
  BY PaperCall
<1>2. /\ job \in Jobs
      /\ filled \in [Intents -> 0 .. OrderQty]
      /\ fillIds \in [Intents -> SUBSET ((1 .. OrderQty) \X Prices)]
      /\ remote \in [Intents -> OrderViews \union {NoOrder}]
      /\ sends \in [Intents -> Nat]
  BY DEF CoreTypeOK, CoordinatorTypeOK, LedgerTypeOK, ExchangeTypeOK
<1>3. CASE Send
  <2>1. /\ job'.at = "acked" /\ job'.id = job.id /\ job'.view = View("FILLED", OrderQty)
        /\ job.id \in Intents
    BY <1>2, <1>3, SendIsWhole DEF Jobs
  <2>2. \A i \in Intents : OnExchange(i)' => remote'[i] = View("FILLED", OrderQty)
    BY <1>2, <1>3, SendIsWhole DEF WholeInv, OnExchange
  <2>3. \A i \in Intents : fillIds'[i] # {} => sends'[i] = 1
    BY <1>3, SendIsWhole, SendsOf DEF WholeInv
  <2>4. QED
    BY <1>3, <2>1, <2>2, <2>3, SendIsWhole DEF WholeInv
<1>4. CASE Filling
  <2>1. /\ job'.at = "protect" /\ job'.id = job.id /\ UNCHANGED exchangeVars
        /\ filled' = [filled EXCEPT ![job.id] = OrderQty]
        /\ fillIds' = [fillIds EXCEPT ![job.id] = fillIds'[job.id]]
    BY <1>2, <1>4, FillIsWhole DEF Jobs
  <2>2. job.at = "fill" /\ job.id \in Intents
    BY <1>4 DEF Filling, FillNothing, FillUnusable, FillRaises, FillBooked, At, CoreTypeOK,
       CoordinatorTypeOK
  <2>3. sends[job.id] = 1
    BY <2>2 DEF SentInv
  <2>4. \A i \in Intents : fillIds'[i] # {} => sends'[i] = 1
    <3>1. \A i \in Intents \ {job.id} : fillIds'[i] = fillIds[i]
      BY <1>2, <2>1
    <3>2. QED
      BY <2>1, <2>3, <3>1 DEF WholeInv, exchangeVars
  <2>5. filled'[job.id] = OrderQty
    BY <1>2, <2>1, <2>2
  <2>6. QED
    BY <2>1, <2>4, <2>5 DEF WholeInv, OnExchange, exchangeVars
<1>5. CASE Opening \/ Acking \/ LegTaken \/ LegAsked \/ CallEnds
  BY <1>5 DEF WholeInv, OnExchange, Opening, Acking, LegTaken, LegAsked, CallEnds, exchangeVars
<1>6. QED
  BY <1>1, <1>3, <1>4, <1>5

LEMMA PaperCallLegs ==
  ASSUME CoreTypeOK, JournalInv, FillInv, CoverInv, SmoothInv, WholeInv, LegsInv,
         InProcessPaper, CallStep
  PROVE  LegsInv'
<1>1. Opening \/ Send \/ Acking \/ Filling \/ LegTaken \/ LegAsked \/ CallEnds
  BY PaperCall
<1>2. /\ job \in Jobs
      /\ legQty \in [Intents -> [Legs -> 0 .. OrderQty]]
      /\ remote \in [Intents -> OrderViews \union {NoOrder}]
      /\ job.at \notin {"down", "idle"} => job.id \in Intents
      /\ OrderQty \in Nat /\ OrderQty > 0
  BY DEF CoreTypeOK, CoordinatorTypeOK, ExchangeTypeOK, LedgerAssumption
<1>3. CASE Send \/ Filling
  <2>1. /\ job'.at \in {"acked", "protect"} /\ job'.id = job.id
        /\ UNCHANGED <<legQty, reqLegs>>
        /\ \A i \in Intents \ {job.id} : remote'[i] = remote[i]
        /\ job.at \in {"send", "fill"}
    <3>1. CASE Send
      BY <1>2, <3>1, SendIsWhole DEF Jobs, Send, At
    <3>2. CASE Filling
      BY <1>2, <3>2, FillIsWhole DEF Jobs, exchangeVars, Filling, FillNothing, FillUnusable,
         FillRaises, FillBooked, At
    <3>3. QED
      BY <1>3, <3>1, <3>2
  <2>2. QED
    BY <2>1 DEF LegsInv, InHand, At
<1>4. CASE Opening \/ Acking
  <2>1. /\ job'.id = job.id \/ job'.at \in {"idle", "finish", "persist_order",
                                             "persist_intent", "send"}
        /\ job.at \in {"gate", "persist_order", "persist_intent", "acked", "acknowledged"}
        /\ job.at \in {"acked", "acknowledged"} =>
             job'.id = job.id /\ job'.at \in {"acknowledged", "fill"}
        /\ UNCHANGED <<legQty, reqLegs, remote>>
    BY <1>4 DEF Opening, Acking, exchangeVars
  <2>2. QED
    BY <2>1 DEF LegsInv, InHand, At
<1>5. CASE LegTaken
  <2>1. /\ job.at \in {"protect", "leg_send"} /\ job'.at = "protect" /\ job'.id = job.id
        /\ UNCHANGED <<remote, reqLegs>>
    BY <1>5 DEF LegTaken
  <2>2. CASE job.at = "protect" /\ UNCHANGED legQty
    BY <2>1, <2>2 DEF LegsInv, InHand, At
  <2>3. CASE job.arg \in Legs /\ legQty' = [legQty EXCEPT ![job.id][job.arg] = OrderQty]
    <3>1. ASSUME NEW i \in Intents, NEW l \in Legs
          PROVE  legQty'[i][l] = IF i = job.id /\ l = job.arg THEN OrderQty ELSE legQty[i][l]
      BY <1>2, <2>1, <2>3
    <3>2. QED
      BY <1>2, <2>1, <3>1 DEF LegsInv, InHand, At
  <2>4. QED
    BY <1>5, <2>2, <2>3 DEF LegTaken
<1>6. CASE LegAsked
  BY <1>6 DEF LegAsked, LegsInv, InHand, At, exchangeVars
<1>7. CASE CallEnds
  <2>1. /\ job.at = "protect" /\ job'.at \in {"idle", "finish"}
        /\ \A l \in Legs : legQty[job.id][l] >= filled[job.id]
        /\ filled[job.id] = OrderQty
        /\ UNCHANGED <<legQty, remote, reqLegs>>
    BY <1>7 DEF CallEnds, WholeInv, exchangeVars
  <2>2. remote[job.id].filled \in 0 .. OrderQty
    BY <1>2, <2>1, OrderViewType DEF NoOrder, View
  <2>3. \A l \in Legs : legQty[job.id][l] >= remote[job.id].filled
    BY <1>2, <2>1, <2>2
  <2>4. QED
    BY <2>1, <2>3 DEF LegsInv, InHand, At
<1>8. QED
  BY <1>1, <1>3, <1>4, <1>5, <1>6, <1>7

\* What the rest of the process does around its calls.
LEMMA AroundPaper ==
  ASSUME IInv, PaperInv, QueueStep \/ SupervisorStep \/ ExchangeMoves
  PROVE  PaperInv'
<1> SUFFICES ASSUME SmoothInv, WholeInv, LegsInv, InProcessPaper
             PROVE  SmoothInv' /\ WholeInv' /\ LegsInv'
  BY DEF PaperInv, InProcessPaper
<1>1. ~ExchangeMoves
  BY DEF ExchangeMoves, Arrive, Progress, LegEnds, SmoothInv, InProcessPaper
<1>2. CASE UNCHANGED <<job, filled, fillIds, legQty, reqLegs, remote, sends, inflight, legEnded>>
  BY <1>2 DEF SmoothInv, WholeInv, LegsInv, InHand, OnExchange, At
<1>3. CASE /\ job'.at \in {"idle", "enqueue", "gate"} /\ job'.op # "recover"
           /\ job.at \in {"down", "idle", "enqueue", "finish", "raised"}
           /\ UNCHANGED <<filled, fillIds, legQty, reqLegs, remote, sends, inflight, legEnded>>
  BY <1>3 DEF SmoothInv, WholeInv, LegsInv, InHand, OnExchange, At
<1>4. CASE ForgetProcess
  <2>1. /\ remote' = [i \in Intents |-> NoOrder]
        /\ legQty' = [i \in Intents |-> [l \in Legs |-> 0]]
        /\ UNCHANGED <<inflight, legEnded, sends, filled, fillIds>>
        /\ reqLegs' = {} /\ job' = Down
    BY <1>4 DEF ForgetProcess, ExchangeAfterCrash, InProcessPaper
  <2>2. Down.at = "down" /\ Down.op = "none"
    BY DEF Down, Job
  <2>3. SmoothInv'
    BY <2>1, <2>2 DEF SmoothInv
  <2>4. WholeInv'
    BY <2>1, <2>2 DEF WholeInv, OnExchange
  <2>5. LegsInv'
    BY <2>1, <2>2 DEF LegsInv, InHand, NoOrder, View
  <2>6. QED
    BY <2>3, <2>4, <2>5
<1>5. QED
  BY <1>1, <1>2, <1>3, <1>4, CallsAround DEF Job

LEMMA NextPaper ==
  ASSUME IInv, RowsInv, ProtectInv, PaperInv, [Next]_vars
  PROVE  PaperInv'
<1>1. CASE CoordinatorStep
  BY <1>1, PaperCallSmooth, PaperCallWhole, PaperCallLegs DEF CoordinatorStep, IInv, CoreInv,
     RowsInv, ProtectInv, PaperInv, InProcessPaper
<1>2. CASE QueueStep \/ SupervisorStep \/ ExchangeMoves
  BY <1>2, AroundPaper
<1>3. CASE UNCHANGED vars
  BY <1>3 DEF vars, ledgerVars, exchangeVars, coordinatorVars, PaperInv, InProcessPaper,
     SmoothInv, WholeInv, LegsInv, InHand, OnExchange, At
<1>4. QED
  BY <1>1, <1>2, <1>3, NextCases

LEMMA InitPaper == Init => PaperInv
<1> SUFFICES ASSUME Init PROVE SmoothInv /\ WholeInv /\ LegsInv
  BY DEF PaperInv
<1>1. job = Down /\ Down.at = "down" /\ Down.op = "none"
  BY DEF Init, CoordinatorInit, Down, Job
<1>2. QED
  BY <1>1 DEF Init, LedgerInit, ExchangeInit, CoordinatorInit, SmoothInv, WholeInv, LegsInv,
     InHand, OnExchange, NoOrder, View

\* With the adapter that lives in the process, in PAPER mode, every entry the
\* exchange filled is under a stop and a target of its size whenever no call is in
\* progress, after a crash or a restart as well as between two submissions.
THEOREM PaperIsProtected == Spec => [](InProcessPaper => ReadyMeansProtected)
<1>1. Init => RowsInv
  BY InitRows
<1>2. IInv /\ RowsInv /\ [Next]_vars => RowsInv'
  BY NextRows
<1>3. IInv /\ ProtectInv /\ [Next]_vars => ProtectInv'
  BY NextProtect
<1>4. IInv /\ RowsInv /\ ProtectInv /\ PaperInv /\ [Next]_vars => PaperInv'
  BY NextPaper
<1>5. PaperInv => (InProcessPaper => ReadyMeansProtected)
  BY DEF PaperInv, LegsInv, InHand, ReadyMeansProtected, At
<1>6. QED
  BY Inductive, InitProtect, InitPaper, <1>1, <1>2, <1>3, <1>4, <1>5, PTL DEF Spec

-----------------------------------------------------------------------------
(* The order contract.                                                     *)

LEMMA InitContract == Init => Contract!Init
BY DEF Init, LedgerInit, ExchangeInit, Contract!Init, OrderKnown

\* What is not a call's or the exchange's step leaves the contract alone: a
\* start that copies open orders only copies orders that are journalled.
LEMMA OtherStepsStutter ==
  ASSUME IInv, QueueStep \/ SupervisorStep \/ UNCHANGED vars
  PROVE  /\ \A i \in Intents : OrderKnown(i)' <=> OrderKnown(i)
         /\ UNCHANGED <<sends, executed, filled>>
<1>1. CASE QueueStep
  BY <1>1, ConsumerGoes DEF QueueStep, ConsumerMoves, Submit, RecoverIntent, Enqueue,
     EnqueueFull, Dequeue, Finish, ConsumerFails, OnlyIntentRow, exchangeVars, OrderKnown
<1>2. CASE Start \/ StartRefused
  <2>1. CopyExchange
    BY <1>2 DEF Start, StartRefused
  <2>2. QED
    BY <2>1, CopyLeaves DEF IInv, CopyExchange, exchangeVars
<1>3. CASE Stopped \/ Crash
  BY <1>3 DEF Stopped, Crash, ForgetProcess, ExchangeAfterCrash, exchangeVars, OrderKnown
<1>4. CASE SupervisorStep /\ ~(Stopped \/ Crash \/ Start \/ StartRefused)
  BY <1>4 DEF SupervisorStep, StartRunning, StartAborts, StartFailsLate, Reconcile,
     ReconcileHealthy, ReconcileUnhealthy, Stop, EmergencyFlatten, SetKillSwitch, exchangeVars, ledgerVars,
     LedgerOrders, OrderKnown
<1>5. CASE UNCHANGED vars
  BY <1>5 DEF vars, ledgerVars, exchangeVars, OrderKnown
<1>6. QED
  BY <1>1, <1>2, <1>3, <1>4, <1>5

LEMMA NextContract ==
  ASSUME IInv, [Next]_vars
  PROVE  ContractStep
<1>1. CASE CoordinatorStep
  BY <1>1, CallStepContract DEF CoordinatorStep, IInv, CoreInv
<1>2. CASE ExchangeMoves
  BY <1>2, ExchangeContract DEF ExchangeMoves, IInv, CoreInv, ledgerVars
<1>3. CASE QueueStep \/ SupervisorStep \/ UNCHANGED vars
  <2>1. /\ {i \in Intents : OrderKnown(i)}' = {i \in Intents : OrderKnown(i)}
        /\ UNCHANGED <<sends, executed, filled>>
    BY <1>3, OtherStepsStutter
  <2>2. QED
    BY <2>1 DEF ContractStep, Contract!contractVars
<1>4. QED
  BY <1>1, <1>2, <1>3, NextCases

\* The runtime implements the order contract: with consumer, supervisor, crashes
\* and restarts around it, the coordinator's promise about each entry stands.
THEOREM ContractImplemented == Spec => ImplementsContract
<1>1. IInv /\ [Next]_vars => [Contract!Next]_(Contract!contractVars)
  BY NextContract DEF ContractStep
<1>2. QED
  BY Inductive, InitContract, <1>1, PTL DEF Spec, ImplementsContract, Contract!Spec
=============================================================================
