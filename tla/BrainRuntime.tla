---------------------------- MODULE BrainRuntime ----------------------------
(***************************************************************************)
(* run_forever and stop_runtime of EngineSupervisor around the brain loop, *)
(* from a start_runtime that succeeded to the end of the process.  Two     *)
(* tasks may stop the runtime at once: the main one, when run_forever      *)
(* leaves its loop, and the one a signal creates (ShutdownManager).  Of    *)
(* the other components only what a stop waits for is kept; the execution  *)
(* consumer and its intents are those of ExecutionRuntime.                 *)
(***************************************************************************)
EXTENDS BrainLoop

CONSTANT MaxPending   \* bound of the intents the execution consumer holds

ASSUME RuntimeAssumption == MaxPending \in Nat \ {0}

VARIABLES
  life,       \* state of the supervisor
  up,         \* components that are running
  faulty,     \* components that failed or are not ready
  pending,    \* intents the execution consumer holds
  accepting,  \* accepting_work: no signal was taken
  ledgerOpen,
  at,         \* where each task that may stop the runtime is
  asking,     \* run_forever awaits the context provider
  join,       \* of each such task: none, blocked in a join, released and not resumed
  late        \* observer: queues that were put into after a join on them was released

stopVars == <<life, up, accepting, ledgerOpen, at>>
runtimeVars == <<stopVars, faulty, pending, asking, join, late>>
vars == <<brainVars, runtimeVars>>

\* reversed(_runtime_components).
StopOrder == <<"dashboard", "reconciliation", "execution", "brain", "market_data">>

Components == Range(StopOrder)
Finish == Len(StopOrder) + 1

\* A task is not stopping yet (0), stops the component of that number, makes
\* the last step of stop_runtime, or has returned.
Stoppers == {"main", "signal"}
Returned == Finish + 1

\* The consumer may still hold what it recovered.
Init ==
  /\ BrainInit
  /\ life = "RUNNING"
  /\ up = Components
  /\ faulty = {}
  /\ pending \in 0 .. MaxPending
  /\ accepting = TRUE
  /\ ledgerOpen = TRUE
  /\ at = [s \in Stoppers |-> 0]
  /\ asking = FALSE
  /\ join = [s \in Stoppers |-> "none"]
  /\ late = {}

TypeOK ==
  /\ BrainTypeOK
  /\ life \in {"RUNNING", "STOPPING", "STOPPED"}
  /\ up \subseteq Components /\ faulty \subseteq Components
  /\ pending \in 0 .. MaxPending
  /\ {accepting, ledgerOpen, asking} \subseteq BOOLEAN
  /\ at \in [Stoppers -> 0 .. Returned]
  /\ join \in [Stoppers -> {"none", "blocked", "released"}]
  /\ late \subseteq {"brain", "execution"}

ProcessEnded == at["main"] = Returned

\* Task s stops component c.
Stops(s, c) == at[s] \in DOMAIN StopOrder /\ StopOrder[at[s]] = c

\* A join on the queue of c is released and its task did not run since.  It was
\* scheduled first: the consumer of that queue takes nothing before it runs.
Resuming(c) == \E s \in Stoppers : Stops(s, c) /\ join[s] = "released"

\* The last task_done on the queue of c.
Released(c) ==
  [s \in Stoppers |-> IF Stops(s, c) /\ join[s] = "blocked" THEN "released" ELSE join[s]]

LateIf(put, c) == IF put /\ Resuming(c) THEN late \union {c} ELSE late

-----------------------------------------------------------------------------
(* run_forever. *)

\* A poll finds every component well and asks the provider, which may be awaited.
Ask ==
  /\ at["main"] = 0 /\ ~asking
  /\ life = "RUNNING"
  /\ faulty = {} /\ ~failed
  /\ asking' = TRUE
  /\ UNCHANGED <<brainVars, stopVars, faulty, pending, join, late>>

\* Its context is submitted without another look at the state.  The event time may
\* be older than that of the context before.
Offer(t) ==
  /\ asking
  /\ t <= now
  /\ Submit(t)
  /\ asking' = FALSE
  /\ late' = LateIf(TRUE, "brain")
  /\ UNCHANGED <<stopVars, faulty, pending, join>>

\* It has no context, or one that submit refuses.
NoOffer ==
  /\ asking
  /\ asking' = FALSE
  /\ UNCHANGED <<brainVars, stopVars, faulty, pending, join, late>>

\* Market data is not ready, the reconciliation is not healthy, the dashboard's
\* server ended.  A second one would change nothing more.
Falter(c) ==
  /\ c \in up \ {"brain", "execution"}
  /\ faulty \subseteq {"execution"}
  /\ faulty' = faulty \union {c}
  /\ UNCHANGED <<brainVars, stopVars, pending, asking, join, late>>

\* Mutant: only a running runtime is stopped.
BeginIfRunning(s) ==
  /\ at' = [at EXCEPT ![s] = IF life = "RUNNING" THEN 1 ELSE Returned]
  /\ life' = IF life = "RUNNING" THEN "STOPPING" ELSE life

\* stop_runtime returns at once when the runtime is stopped; another stop in
\* progress does not keep it from beginning.
BeginStop(s) ==
  /\ at' = [at EXCEPT ![s] = IF life = "STOPPED" THEN Returned ELSE 1]
  /\ life' = IF life = "STOPPED" THEN life ELSE "STOPPING"

\* The loop ends: a component failed, or another task changed the state.  The
\* main task slept since it submitted a context: a released join was resumed.
LeaveLoop ==
  /\ at["main"] = 0 /\ ~asking
  /\ life # "RUNNING" \/ faulty # {} \/ failed
  /\ "brain" \in late => ~Resuming("brain")
  /\ BeginStop("main")
  /\ UNCHANGED <<brainVars, up, faulty, pending, accepting, ledgerOpen, asking, join, late>>

\* The provider raised: the loop is left through its finally.
ProviderRaises ==
  /\ asking
  /\ asking' = FALSE
  /\ BeginStop("main")
  /\ UNCHANGED <<brainVars, up, faulty, pending, accepting, ledgerOpen, join, late>>

-----------------------------------------------------------------------------
(* Signals (ShutdownManager): the first one creates a task, once; the handlers *)
(* are removed by a stop that finishes.                                        *)

Signal ==
  /\ ledgerOpen /\ accepting
  /\ accepting' = FALSE
  /\ UNCHANGED <<brainVars, life, up, faulty, pending, ledgerOpen, at, asking, join, late>>

SignalTask ==
  /\ ~accepting
  /\ at["signal"] = 0
  /\ ~ProcessEnded
  /\ BeginStop("signal")
  /\ UNCHANGED <<brainVars, up, faulty, pending, accepting, ledgerOpen, asking, join, late>>

-----------------------------------------------------------------------------
(* The brain and execution tasks. *)

BrainTakes ==
  /\ ~ProcessEnded
  /\ ~Resuming("brain")
  /\ Take
  /\ UNCHANGED runtimeVars

BrainRelease == IF queue = <<>> THEN Released("brain") ELSE join

\* handle_result: an intent goes to the execution consumer; one that does not
\* run any more refuses it, which nobody notices.
Handled(intent) ==
  LET put == intent /\ "execution" \in up \ faulty /\ pending < MaxPending IN
  /\ Done
  /\ pending' = IF put THEN pending + 1 ELSE pending
  /\ late' = LateIf(put, "execution")
  /\ join' = BrainRelease
  /\ UNCHANGED <<stopVars, faulty, asking>>

BrainRaises ==
  /\ Raises
  /\ join' = BrainRelease
  /\ UNCHANGED <<stopVars, faulty, pending, asking, late>>

\* The execution consumer settles an intent, or its task ends with it.
Executes(raises) ==
  /\ pending > 0 /\ "execution" \in up \ faulty
  /\ ~Resuming("execution")
  /\ pending' = pending - 1
  /\ faulty' = IF raises THEN faulty \union {"execution"} ELSE faulty
  /\ join' = IF pending = 1 THEN Released("execution") ELSE join
  /\ UNCHANGED <<brainVars, stopVars, asking, late>>

-----------------------------------------------------------------------------
(* stop_runtime. *)

\* Mutant: stop of the execution consumer does not join its queue.
JoinsBrainOnly(c) == c = "brain" /\ Joins

\* The stop of a component has to wait in join.
MustWait(c) ==
  \/ c = "brain" /\ Joins
  \/ c = "execution" /\ c \in up /\ pending > 0

EnterJoin(s) ==
  /\ \E c \in Components : Stops(s, c) /\ MustWait(c)
  /\ ~ProcessEnded
  /\ join[s] = "none"
  /\ join' = [join EXCEPT ![s] = "blocked"]
  /\ UNCHANGED <<brainVars, stopVars, faulty, pending, asking, late>>

\* A component is stopped, by a task whose join was released or that needs none.
StopNext(s) ==
  /\ ~ProcessEnded
  /\ \E c \in Components :
       /\ Stops(s, c)
       /\ join[s] = "released" \/ (join[s] = "none" /\ ~MustWait(c))
       /\ IF c = "brain" THEN StopBrain ELSE UNCHANGED brainVars
       /\ up' = up \ {c}
  /\ at' = [at EXCEPT ![s] = @ + 1]
  /\ join' = [join EXCEPT ![s] = "none"]
  /\ UNCHANGED <<life, faulty, pending, accepting, ledgerOpen, asking, late>>

\* The stop of a component that does not write to the ledger raises, and the next
\* one is stopped all the same.
StopRaises(s) ==
  /\ ~ProcessEnded
  /\ Stops(s, "dashboard") \/ Stops(s, "market_data")
  /\ at' = [at EXCEPT ![s] = @ + 1]
  /\ UNCHANGED <<brainVars, life, up, faulty, pending, accepting, ledgerOpen, asking, join, late>>

\* Handlers removed, the gate in RECOVERY, the last rows written; those of a second
\* stop go to a closed ledger, which ignores them.
FinishStop(s) ==
  /\ at[s] = Finish
  /\ ~ProcessEnded
  /\ life' = "STOPPED"
  /\ ledgerOpen' = FALSE
  /\ at' = [at EXCEPT ![s] = Returned]
  /\ UNCHANGED <<brainVars, up, faulty, pending, accepting, asking, join, late>>

-----------------------------------------------------------------------------

Clock == ~ProcessEnded /\ Tick /\ UNCHANGED runtimeVars
Answer == NoOffer \/ ProviderRaises \/ \E t \in Times : Offer(t)
StopStep(s) == EnterJoin(s) \/ StopNext(s) \/ StopRaises(s) \/ FinishStop(s)
MainStep == LeaveLoop \/ StopStep("main")
SignalStep == SignalTask \/ StopStep("signal")
BrainStep == BrainTakes \/ (\E intent \in BOOLEAN : Handled(intent)) \/ BrainRaises
ExecutionStep == \E raises \in BOOLEAN : Executes(raises)

Next ==
  \/ Clock
  \/ Ask \/ Answer
  \/ \E c \in Components : Falter(c)
  \/ Signal
  \/ MainStep \/ SignalStep
  \/ BrainStep \/ ExecutionStep

\* The event loop runs every task that is ready, and the provider answers or
\* raises.  Nothing obliges a context, a signal or a failure to come.
Spec ==
  /\ Init /\ [][Next]_vars
  /\ WF_vars(MainStep) /\ WF_vars(SignalStep) /\ WF_vars(Answer)
  /\ WF_vars(BrainStep) /\ WF_vars(ExecutionStep)

-----------------------------------------------------------------------------
(* Properties. *)

\* What the loop remembers is what it accepted: each remembered context waits or
\* was run, never both and never twice, and a context the full queue refused may
\* come again (submit, _consume: _seen, QueueFull).
RememberedIsAccepted ==
  /\ \A t \in Times : t \in seen <=> (t \in Range(queue) \/ runs[t] > 0)
  /\ \A t \in Times : runs[t] <= 1 /\ (t \in Range(queue) => runs[t] = 0)
  /\ \A m, n \in DOMAIN queue : queue[m] = queue[n] => m = n

Writers == {"reconciliation", "execution", "brain"}

\* The ledger outlives the components that write to it, however two stops overlap:
\* when it is closed none of them runs, no context is handled, and what still waits
\* was put into its queue after a join had found it empty (stop_runtime, the stops
\* of the components).
LedgerOutlivesWriters ==
  ~ledgerOpen => /\ up \intersect Writers = {} /\ task # "alive" /\ handling = 0
                 /\ queue # <<>> => "brain" \in late
                 /\ pending > 0 => "execution" \in late

\* A context that was accepted before a join found the queue empty is run, also when
\* the runtime is being stopped, unless the pipeline failed on one before it (join
\* in stop of BrainLoop).
AcceptedIsRun == \A t \in Times : t \in seen /\ "brain" \notin late ~> runs[t] = 1 \/ failed

\* A join that nobody will release: the task died before its queue was empty, or was
\* cancelled with an intent that came after the join of the other stop.
Stuck ==
  \/ failed /\ queue # <<>>
  \/ pending > 0 /\ "execution" \in faulty \union late

\* Once a stop began the process ends with the ledger closed, whichever of the
\* two tasks comes first, unless it waits for a queue that nobody empties any more
\* (stop_runtime, run_forever, ShutdownManager.install_signal_handlers).
StopEndsProcess == life = "STOPPING" ~> (ProcessEnded /\ ~ledgerOpen) \/ Stuck
=============================================================================
