------------------------- MODULE ExecutionConsumer -------------------------
(***************************************************************************)
(* ExecutionConsumer (brain/runtime/execution_consumer.py): a bounded      *)
(* queue of approved intents in front of the coordinator.  An intent is    *)
(* persisted before it is queued, and what a dead process left in the      *)
(* ledger is queued again when the next one starts.  submit and the body   *)
(* of _consume never await anything, so they run as calls of the           *)
(* coordinator do, one at a time; they stop only where a crash shows.      *)
(***************************************************************************)
EXTENDS Coordinator, Sequences

CONSTANT QueueSize   \* max_queue_size
ASSUME ConsumerAssumption == QueueSize \in Nat \ {0}

VARIABLES
  queue,   \* intents waiting for the coordinator
  seen,    \* _seen: intents this process has queued
  failed   \* an exception ended the consumer task; nothing restarts it

consumerVars == <<queue, seen, failed>>

ConsumerTypeOK ==
  /\ queue \in Seq(Intents)
  /\ Len(queue) <= QueueSize
  /\ seen \subseteq Intents
  /\ failed \in BOOLEAN

ConsumerInit ==
  /\ queue = <<>>
  /\ seen = {}
  /\ failed = FALSE

\* Mutant: the bound is off by one.
RoomForOneMore == Len(queue) <= QueueSize

Room == Len(queue) < QueueSize

\* Everything but the intent rows and the call in progress stays.
OnlyIntentRow ==
  UNCHANGED <<localOrder, localLeg, filled, fillIds, position, lastRow, killed,
              ledgerMem, exchangeVars, requests, reqLegs, gate>>

-----------------------------------------------------------------------------
\* submit: the row is written before the queue is tried ...
Submit(i) ==
  /\ At("idle")
  /\ ~failed
  /\ i \notin seen
  /\ SetIntentStatus(i, "PERSISTED")
  /\ job' = Job("enqueue", "consume", i, NoOrder, "none")
  /\ UNCHANGED consumerVars
  /\ OnlyIntentRow

\* ... and stays PERSISTED when the queue is full and submit returns False.
EnqueueFull ==
  /\ At("enqueue")
  /\ ~Room
  /\ job' = Idle
  /\ UNCHANGED <<intentStatus, consumerVars>>
  /\ OnlyIntentRow

\* Mutant: the intent is not remembered in _seen.
EnqueueUnseen ==
  /\ At("enqueue")
  /\ Room
  /\ queue' = Append(queue, job.id)
  /\ SetIntentStatus(job.id, "QUEUED")
  /\ job' = Idle
  /\ UNCHANGED <<seen, failed>>
  /\ OnlyIntentRow

Enqueue ==
  /\ At("enqueue")
  /\ Room
  /\ queue' = Append(queue, job.id)
  /\ seen' = seen \union {job.id}
  /\ SetIntentStatus(job.id, "QUEUED")
  /\ job' = Idle
  /\ UNCHANGED failed
  /\ OnlyIntentRow

\* _consume takes the next intent and calls submit_intent.
Dequeue ==
  /\ At("idle")
  /\ ~failed
  /\ queue # <<>>
  /\ queue' = Tail(queue)
  /\ SetIntentStatus(Head(queue), "PROCESSING")
  /\ job' = Job("gate", "consume", Head(queue), NoOrder, "none")
  /\ UNCHANGED <<seen, failed>>
  /\ OnlyIntentRow

\* Mutant: the outcome is not recorded.
FinishSilently ==
  /\ At("finish")
  /\ job' = Idle
  /\ UNCHANGED <<intentStatus, consumerVars>>
  /\ OnlyIntentRow

\* The outcome becomes the status of the intent row.
Finish ==
  /\ At("finish")
  /\ SetIntentStatus(job.id, job.arg)
  /\ job' = Idle
  /\ UNCHANGED consumerVars
  /\ OnlyIntentRow

\* submit_intent raised: the task ends and the row keeps its last status.
ConsumerFails ==
  /\ At("raised")
  /\ failed' = TRUE
  /\ job' = Idle
  /\ UNCHANGED <<intentStatus, queue, seen>>
  /\ OnlyIntentRow

-----------------------------------------------------------------------------
\* Rows an earlier process left unfinished.
Backlog == {i \in Intents : intentStatus[i] \in RecoverableStatus /\ i \notin seen}

\* Mutant: a full queue goes unnoticed by a recovery.
RecoverUnqueued(i) ==
  /\ i \in Backlog
  /\ seen' = seen \union {i}
  /\ queue' = IF OrderKnown(i) \/ ~Room THEN queue ELSE Append(queue, i)
  /\ SetIntentStatus(i, IF OrderKnown(i) THEN "UNKNOWN" ELSE "RECOVERED")
  /\ UNCHANGED <<job, failed>>
  /\ OnlyIntentRow

\* _recover_persisted_intents, for one row.
RecoverIntent(i) ==
  /\ i \in Backlog
  /\ IF ~OrderKnown(i) /\ Room
     THEN /\ queue' = Append(queue, i)
          /\ seen' = seen \union {i}
          /\ SetIntentStatus(i, "RECOVERED")
     ELSE /\ SetIntentStatus(i, IF OrderKnown(i) THEN "UNKNOWN" ELSE "FAILED")
          /\ UNCHANGED <<queue, seen>>
  /\ UNCHANGED <<job, failed>>
  /\ OnlyIntentRow
=============================================================================
