-------------------------- MODULE ExecutionRuntime --------------------------
(***************************************************************************)
(* The execution runtime as brain/main.py wires it: supervisor, consumer,  *)
(* reconciliation service and coordinator around one ledger and one        *)
(* exchange, with crashes, restarts, signals, the kill switch and the      *)
(* emergency script.  Everything of the process runs on one event loop:    *)
(* a call of the coordinator is never interrupted by another task, only by *)
(* a crash, by the exchange and by the script.                             *)
(***************************************************************************)
EXTENDS EngineSupervisor

vars == <<ledgerVars, exchangeVars, coordinatorVars, consumerVars, supervisorVars>>

Init ==
  /\ LedgerInit
  /\ ExchangeInit
  /\ CoordinatorInit
  /\ ConsumerInit
  /\ SupervisorInit

\* The brain loop hands an approved intent to the consumer.  It is stopped
\* after the consumer, so it still does while the queue is being drained.
Decide(i) ==
  /\ state \in {"RUNNING", "STOPPING"}
  /\ Submit(i)
  /\ UNCHANGED supervisorVars

ConsumerStep ==
  /\ Enqueue \/ EnqueueFull \/ Finish \/ ConsumerFails
  /\ UNCHANGED supervisorVars

\* Mutant: the consumer stops taking intents as soon as a stop begins.
TakeWhileRunning == state = "RUNNING" /\ Dequeue /\ UNCHANGED supervisorVars

TakeNext ==
  /\ state \in {"RUNNING", "STOPPING", "ABORTING"}
  /\ Dequeue
  /\ UNCHANGED supervisorVars

CoordinatorStep ==
  /\ CallStep
  /\ UNCHANGED <<consumerVars, supervisorVars>>

\* RiskGate.kill and RiskGate.reset, called by the pipeline between two calls.
SetKillSwitch(on) ==
  /\ state \in {"RUNNING", "STOPPING"}
  /\ At("idle")
  /\ killed # on
  /\ killed' = on
  /\ UNCHANGED <<intentStatus, localOrder, localLeg, filled, fillIds, position,
                 lastRow, ledgerMem, exchangeVars, coordinatorVars, consumerVars,
                 supervisorVars>>

ExchangeMoves ==
  /\ \E i \in Intents : \/ Arrive(i)
                       \/ Progress(i)
                       \/ \E l \in Legs : LegEnds(i, l)
  /\ UNCHANGED <<ledgerVars, coordinatorVars, consumerVars, supervisorVars>>

ProcessStep == ConsumerStep \/ TakeNext \/ CoordinatorStep
StartStep == TakeBacklog \/ StartRunning \/ StartAborts \/ StartFailsLate

Next ==
  \/ \E i \in Intents : Decide(i)
  \/ ProcessStep
  \/ Start \/ StartRefused \/ StartStep
  \/ Reconcile
  \/ Stop \/ Stopped \/ Crash
  \/ \E on \in BOOLEAN : SetKillSwitch(on)
  \/ EmergencyFlatten
  \/ ExchangeMoves

Spec == Init /\ [][Next]_vars

\* The event loop runs every task that is ready: a start that began reaches its
\* first reconciliation, a started call goes on, the consumer wakes up when its
\* queue is not empty, and join returns when the queue was drained, however often
\* other tasks run in between.  Nothing obliges a signal, a crash, a start, the
\* brain or the exchange to happen.
FairSpec ==
  /\ Spec
  /\ WF_vars(StartStep)
  /\ WF_vars(ProcessStep)
  /\ SF_vars(TakeNext)
  /\ SF_vars(Stopped)

-----------------------------------------------------------------------------
\* Every variable stays in its range; no process means no call in progress.
TypeOK ==
  /\ LedgerTypeOK
  /\ ExchangeTypeOK
  /\ CoordinatorTypeOK
  /\ ConsumerTypeOK
  /\ SupervisorTypeOK

\* An intent waits at most once, and not while it is being processed, across
\* submissions, full queues and recovered backlogs (_seen).
EachOnce ==
  /\ \A m, n \in DOMAIN queue : queue[m] = queue[n] => m = n
  /\ ~At("idle") => \A n \in DOMAIN queue : queue[n] # job.id

\* What the ledger promises is what memory holds: while the runtime runs, every
\* intent whose row says QUEUED or RECOVERED is in the consumer's queue.
QueuedIsHeld ==
  state \in {"RUNNING", "STOPPING"} =>
    \A i \in Intents :
      intentStatus[i] \in {"QUEUED", "RECOVERED"} =>
        \E n \in DOMAIN queue : queue[n] = i

\* An intent row that reports an order at the exchange was sent exactly once, in
\* this process or an earlier one, and its order row is durable.
OutcomesAreTrue ==
  \A i \in Intents :
    intentStatus[i] \in {"SUBMITTED", "RECONCILED", "DUPLICATE"} =>
      sends[i] = 1 /\ OrderKnown(i)

\* An entry leaves for the exchange only while the durable kill switch is off
\* and the ledger's latest reconciliation row matches (the gates of submit_intent).
SendsAreClear == [][SendIsClear]_vars

\* A start whose first reconciliation failed drains the backlog it recovered
\* without sending any of it (start_runtime stops the consumer, which joins).
AbortedStartSendsNothing ==
  [][state = "ABORTING" /\ ~healthy => sends' = sends]_vars

\* When a submission closed the gate on a fill and opens it again, every unit
\* booked for that entry is covered by a stop and a target the exchange took
\* (synchronize_protection); a leg may end any time later.
SubmissionReopensProtected ==
  [][GateOpens /\ job.op = "consume" => CoveredNow(job.id)]_vars

\* A gate that opens while the runtime runs finds every filled entry protected
\* (recover's docstring asks to repair protection before resuming).
ResumesProtected ==
  [][GateOpens /\ state = "RUNNING" =>
       \A i \in Intents : filled[i] > 0 => CoveredNow(i)]_vars

\* emergency_flatten.py: an intent it aborted is not submitted any more.
AbortedNeverSent == [][\A i \in aborted : sends'[i] = sends[i]]_vars

\* The runtime implements the order contract step by step.
ImplementsContract == Contract!Spec

\* Every queued intent is settled, unless the process ends first.
QueuedIsSettled ==
  \A i \in Intents :
    intentStatus[i] = "QUEUED" ~>
      intentStatus[i] \in OutcomeStatus \union {"FAILED"} \/ state = "DOWN"

\* A stop completes, that of stop_runtime and that of a start that failed: the
\* consumer drains its queue and the process ends.
StopCompletes == state \in {"STOPPING", "ABORTING"} ~> state = "DOWN"
=============================================================================
