----------------------------- MODULE BrainLoop ------------------------------
(***************************************************************************)
(* BrainLoop (brain/runtime/brain_loop.py): a bounded queue of contexts,   *)
(* each known by its event time, and the task that runs the pipeline on    *)
(* them and awaits the result handler.  Other tasks may run while the      *)
(* handler is awaited.                                                     *)
(***************************************************************************)
EXTENDS Naturals, Sequences, Functions

CONSTANTS
  MaxTime,     \* bound of the clock, and of event times
  BrainQueue,  \* max_queue_size
  StaleAfter   \* stale_after

ASSUME BrainAssumption ==
  /\ {MaxTime, BrainQueue} \subseteq Nat \ {0}
  /\ StaleAfter \in Nat

VARIABLES
  now,       \* the clock
  queue,     \* contexts waiting, by event time
  handling,  \* the context taken from the queue, 0 when there is none
  seen,      \* _seen
  running,
  failed,
  task,      \* _task: none, alive, ended
  runs       \* observer: how often the pipeline ran on each context

brainVars == <<now, queue, handling, seen, running, failed, task, runs>>
consumed == <<handling, running, failed, task, runs>>

Times == 1 .. MaxTime

\* After start.
BrainInit ==
  /\ now = 1
  /\ queue = <<>>
  /\ handling = 0
  /\ seen = {}
  /\ running = TRUE
  /\ failed = FALSE
  /\ task = "alive"
  /\ runs = [t \in Times |-> 0]

BrainTypeOK ==
  /\ now \in Times
  /\ queue \in Seq(Times) /\ Len(queue) <= BrainQueue
  /\ handling \in Times \union {0}
  /\ seen \subseteq Times
  /\ {running, failed} \subseteq BOOLEAN
  /\ task \in {"none", "alive", "ended"}
  /\ runs \in [Times -> Nat]

\* Mutant: stop does not join the queue.
JoinsNothing == FALSE

\* stop waits in join while a context waits or is handled.
Joins == task # "none" /\ (queue # <<>> \/ handling # 0)

-----------------------------------------------------------------------------

Tick == now < MaxTime /\ now' = now + 1 /\ UNCHANGED <<queue, seen, consumed>>

Fresh(t) == t \notin seen /\ now - t <= StaleAfter

\* Mutant: a context the full queue refused stays remembered.
SubmitRemembered(t) ==
  /\ running /\ Fresh(t)
  /\ queue' = IF Len(queue) < BrainQueue THEN Append(queue, t) ELSE queue
  /\ seen' = seen \union {t}
  /\ UNCHANGED <<now, consumed>>

\* submit: a context is accepted once, unless it is stale or the queue is full.
Submit(t) ==
  /\ running /\ Fresh(t)
  /\ Len(queue) < BrainQueue
  /\ queue' = Append(queue, t)
  /\ seen' = seen \union {t}
  /\ UNCHANGED <<now, consumed>>

\* _consume: the next context, and the run of the pipeline on it.
Take ==
  /\ task = "alive" /\ running /\ handling = 0
  /\ queue # <<>>
  /\ handling' = Head(queue)
  /\ queue' = Tail(queue)
  /\ runs' = [runs EXCEPT ![Head(queue)] = @ + 1]
  /\ UNCHANGED <<now, seen, running, failed, task>>

\* The handler returned.
Done ==
  /\ handling # 0
  /\ handling' = 0
  /\ UNCHANGED <<now, queue, seen, running, failed, task, runs>>

\* The pipeline or the handler raised: the task returns, what waits stays.
Raises ==
  /\ handling # 0
  /\ handling' = 0
  /\ failed' = TRUE
  /\ running' = FALSE
  /\ task' = "ended"
  /\ UNCHANGED <<now, queue, seen, runs>>

\* stop: the task waits for a context, or has returned, and is cancelled.
StopBrain ==
  /\ running' = FALSE
  /\ task' = "none"
  /\ UNCHANGED <<now, queue, handling, seen, failed, runs>>
=============================================================================
