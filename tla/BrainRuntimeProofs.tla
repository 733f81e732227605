------------------------- MODULE BrainRuntimeProofs -------------------------
(***************************************************************************)
(* Theorems about the runtime around the brain loop, for every clock, every *)
(* queue and however its two stops overlap.                                *)
(***************************************************************************)
EXTENDS BrainRuntime, SequenceTheorems, TLAPS

-----------------------------------------------------------------------------
(* Queues. *)

LEMMA AppendedRange ==
  ASSUME NEW S, NEW q \in Seq(S), NEW t \in S
  PROVE  Range(Append(q, t)) = Range(q) \union {t}
<1>1. \A n \in 1 .. Len(q) : Append(q, t)[n] = q[n]
  BY AppendProperties
<1>2. Append(q, t)[Len(q) + 1] = t
  BY AppendProperties
<1>3. Len(q) \in Nat /\ DOMAIN q = 1 .. Len(q) /\ DOMAIN Append(q, t) = 1 .. Len(q) + 1
  BY AppendProperties, LenProperties
<1> QED BY <1>1, <1>2, <1>3 DEF Range

LEMMA HeadAndTailRange ==
  ASSUME NEW S, NEW q \in Seq(S), q # <<>>
  PROVE  Range(q) = Range(Tail(q)) \union {Head(q)}
<1>1. Len(q) \in Nat \ {0} /\ DOMAIN q = 1 .. Len(q) /\ Head(q) = q[1]
  BY EmptySeq, LenProperties
<1>2. /\ Tail(q) \in Seq(S) /\ Len(Tail(q)) = Len(q) - 1
      /\ \A n \in 1 .. Len(Tail(q)) : Tail(q)[n] = q[n + 1]
  BY HeadTailProperties
<1>3. DOMAIN Tail(q) = 1 .. Len(q) - 1
  BY <1>2, LenProperties
<1>4. \A n \in 2 .. Len(q) : n - 1 \in 1 .. Len(q) - 1 /\ Tail(q)[n - 1] = q[n]
  BY <1>1, <1>2
<1>5. Range(q) \subseteq Range(Tail(q)) \union {Head(q)}
  <2> SUFFICES ASSUME NEW n \in 1 .. Len(q) PROVE q[n] \in Range(Tail(q)) \union {q[1]}
    BY <1>1 DEF Range
  <2>1. CASE n = 1
    BY <2>1
  <2>2. CASE n # 1
    <3>1. n - 1 \in DOMAIN Tail(q) /\ Tail(q)[n - 1] = q[n]
      BY <1>1, <1>3, <1>4, <2>2
    <3> QED BY <3>1 DEF Range
  <2> QED BY <2>1, <2>2
<1>6. Range(Tail(q)) \union {Head(q)} \subseteq Range(q)
  BY <1>1, <1>2, <1>3 DEF Range
<1> QED BY <1>5, <1>6

\* No element of the queue is there twice.
Distinct(q) == \A m, n \in DOMAIN q : q[m] = q[n] => m = n

LEMMA AppendedDistinct ==
  ASSUME NEW S, NEW q \in Seq(S), NEW t \in S, Distinct(q), t \notin Range(q)
  PROVE  Distinct(Append(q, t))
<1>1. \A n \in 1 .. Len(q) : Append(q, t)[n] = q[n]
  BY AppendProperties
<1>2. Append(q, t)[Len(q) + 1] = t
  BY AppendProperties
<1>3. Len(q) \in Nat /\ DOMAIN q = 1 .. Len(q) /\ DOMAIN Append(q, t) = 1 .. Len(q) + 1
  BY AppendProperties, LenProperties
<1> QED BY <1>1, <1>2, <1>3 DEF Range, Distinct

LEMMA TailDistinct ==
  ASSUME NEW S, NEW q \in Seq(S), q # <<>>, Distinct(q)
  PROVE  Distinct(Tail(q)) /\ Head(q) \notin Range(Tail(q))
<1>1. Len(q) \in Nat \ {0} /\ DOMAIN q = 1 .. Len(q) /\ Head(q) = q[1]
  BY EmptySeq, LenProperties
<1>2. /\ Tail(q) \in Seq(S) /\ Len(Tail(q)) = Len(q) - 1
      /\ \A n \in 1 .. Len(Tail(q)) : Tail(q)[n] = q[n + 1]
  BY HeadTailProperties
<1>3. DOMAIN Tail(q) = 1 .. Len(q) - 1
  BY <1>2, LenProperties
<1> QED BY <1>1, <1>2, <1>3 DEF Range, Distinct

-----------------------------------------------------------------------------
(* Steps. *)

\* What a step does to the brain loop.
BrainSteps ==
  \/ Tick
  \/ \E t \in Times : Submit(t)
  \/ Take
  \/ Done
  \/ Raises
  \/ StopBrain
  \/ UNCHANGED brainVars

LEMMA NextIsBrainSteps == [Next]_vars => BrainSteps
<1> SUFFICES ASSUME [Next]_vars PROVE BrainSteps
  OBVIOUS
<1>1. ASSUME NEW s \in Stoppers, StopStep(s) PROVE BrainSteps
  BY <1>1 DEF StopStep, EnterJoin, StopNext, StopRaises, FinishStop, BrainSteps
<1>2. CASE MainStep \/ SignalStep
  BY <1>1, <1>2 DEF MainStep, SignalStep, LeaveLoop, SignalTask, BrainSteps, Stoppers
<1>3. CASE BrainStep \/ ExecutionStep
  BY <1>3 DEF BrainStep, ExecutionStep, BrainTakes, Handled, BrainRaises, Executes, BrainSteps
<1>4. CASE Clock \/ Ask \/ Answer \/ (\E c \in Components : Falter(c)) \/ Signal
  BY <1>4 DEF Clock, Ask, Answer, Offer, NoOffer, ProviderRaises, Falter, Signal, BrainSteps
<1>5. CASE UNCHANGED vars
  BY <1>5 DEF vars, BrainSteps
<1> QED BY <1>2, <1>3, <1>4, <1>5 DEF Next

LEMMA Parts ==
  /\ DOMAIN StopOrder = 1 .. 5 /\ Finish = 6 /\ Returned = 7
  /\ StopOrder[1] = "dashboard" /\ StopOrder[2] = "reconciliation"
  /\ StopOrder[3] = "execution" /\ StopOrder[4] = "brain" /\ StopOrder[5] = "market_data"
  /\ Components = {"dashboard", "reconciliation", "execution", "brain", "market_data"}
<1>1. Len(StopOrder) = 5 /\ DOMAIN StopOrder = 1 .. 5
  BY DEF StopOrder
<1>2. /\ StopOrder[1] = "dashboard" /\ StopOrder[2] = "reconciliation"
      /\ StopOrder[3] = "execution" /\ StopOrder[4] = "brain" /\ StopOrder[5] = "market_data"
  BY DEF StopOrder
<1>3. Components = {StopOrder[k] : k \in 1 .. 5}
  BY <1>1 DEF Components, Range
<1> QED BY <1>1, <1>2, <1>3 DEF Finish, Returned

-----------------------------------------------------------------------------
(* Types. *)

LEMMA BrainTypes == BrainTypeOK /\ BrainSteps => BrainTypeOK'
<1> SUFFICES ASSUME BrainTypeOK, BrainSteps PROVE BrainTypeOK'
  OBVIOUS
<1>1. CASE Tick
  BY <1>1, BrainAssumption DEF Tick, BrainTypeOK, Times, consumed
<1>2. ASSUME NEW t \in Times, Submit(t) PROVE BrainTypeOK'
  <2>1. queue' \in Seq(Times) /\ Len(queue') <= BrainQueue
    BY <1>2, AppendProperties, LenProperties, BrainAssumption DEF Submit, BrainTypeOK
  <2> QED BY <1>2, <2>1 DEF Submit, BrainTypeOK, consumed
<1>3. CASE Take
  <2>1. Head(queue) \in Times /\ queue' \in Seq(Times) /\ Len(queue') <= BrainQueue
    BY <1>3, HeadTailProperties, LenProperties, BrainAssumption DEF Take, BrainTypeOK
  <2>2. runs' \in [Times -> Nat]
    <3>1. runs \in [Times -> Nat] /\ runs[Head(queue)] + 1 \in Nat
      BY <2>1 DEF BrainTypeOK
    <3> QED BY <1>3, <2>1, <3>1 DEF Take
  <2> QED BY <1>3, <2>1, <2>2 DEF Take, BrainTypeOK
<1>4. CASE Done
  BY <1>4 DEF Done, BrainTypeOK
<1>5. CASE Raises
  BY <1>5 DEF Raises, BrainTypeOK
<1>6. CASE StopBrain
  BY <1>6 DEF StopBrain, BrainTypeOK
<1>7. CASE UNCHANGED brainVars
  BY <1>7 DEF brainVars, BrainTypeOK
<1> QED BY <1>1, <1>2, <1>3, <1>4, <1>5, <1>6, <1>7 DEF BrainSteps

\* Every variable stays of its type; the queues stay within their bounds.
THEOREM TypeCorrect == Spec => []TypeOK
<1>1. Init => TypeOK
  <2>1. BrainInit => BrainTypeOK
    <3>1. <<>> \in Seq(Times) /\ Len(<<>>) <= BrainQueue
      BY EmptySeq, BrainAssumption
    <3>2. 1 \in Times /\ [t \in Times |-> 0] \in [Times -> Nat]
      BY BrainAssumption DEF Times
    <3> QED BY <3>1, <3>2 DEF BrainInit, BrainTypeOK
  <2>2. Init => /\ life \in {"RUNNING", "STOPPING", "STOPPED"} /\ pending \in 0 .. MaxPending
                /\ up \subseteq Components /\ faulty \subseteq Components
                /\ late \subseteq {"brain", "execution"}
                /\ {accepting, ledgerOpen, asking} \subseteq BOOLEAN
    BY DEF Init
  <2>3. Init => at \in [Stoppers -> 0 .. Returned] /\ join \in [Stoppers -> {"none", "blocked", "released"}]
    BY Parts DEF Init
  <2> QED BY <2>1, <2>2, <2>3 DEF Init, TypeOK
<1>2. TypeOK /\ [Next]_vars => TypeOK'
  <2> SUFFICES ASSUME TypeOK, [Next]_vars PROVE TypeOK'
    OBVIOUS
  <2>1. BrainTypeOK'
    BY NextIsBrainSteps, BrainTypes DEF TypeOK
  <2>2. ASSUME NEW s \in Stoppers, BeginStop(s)
        PROVE  /\ life' \in {"RUNNING", "STOPPING", "STOPPED"}
               /\ at' \in [Stoppers -> 0 .. Returned]
    BY <2>2, Parts DEF BeginStop, TypeOK
  <2>3. ASSUME NEW s \in Stoppers, at[s] \in 1 .. 5, at' = [at EXCEPT ![s] = @ + 1]
        PROVE  at' \in [Stoppers -> 0 .. Returned]
    <3>1. at[s] + 1 \in 0 .. Returned
      BY <2>3, Parts
    <3> QED BY <2>3, <3>1 DEF TypeOK
  <2>4. ASSUME NEW s \in Stoppers, StopStep(s) PROVE TypeOK'
    <3>1. CASE EnterJoin(s)
      BY <2>1, <3>1 DEF EnterJoin, stopVars, TypeOK
    <3>2. CASE StopNext(s)
      <4>1. at[s] \in 1 .. 5 /\ up' \subseteq up
        BY <3>2, Parts DEF StopNext, Stops
      <4>2. at' \in [Stoppers -> 0 .. Returned]
        BY <2>3, <3>2, <4>1 DEF StopNext
      <4> QED BY <2>1, <3>2, <4>1, <4>2 DEF StopNext, TypeOK
    <3>3. CASE StopRaises(s)
      <4>1. at[s] \in 1 .. 5
        BY <3>3, Parts DEF StopRaises, Stops
      <4>2. at' \in [Stoppers -> 0 .. Returned]
        BY <2>3, <3>3, <4>1 DEF StopRaises
      <4> QED BY <2>1, <3>3, <4>2 DEF StopRaises, TypeOK
    <3>4. CASE FinishStop(s)
      <4>1. at' \in [Stoppers -> 0 .. Returned]
        BY <3>4, Parts DEF FinishStop, TypeOK
      <4> QED BY <2>1, <3>4, <4>1 DEF FinishStop, TypeOK
    <3> QED BY <2>4, <3>1, <3>2, <3>3, <3>4 DEF StopStep
  <2>5. CASE MainStep \/ SignalStep
    <3>1. CASE LeaveLoop
      BY <2>1, <2>2, <3>1 DEF LeaveLoop, TypeOK, Stoppers
    <3>2. CASE SignalTask
      BY <2>1, <2>2, <3>2 DEF SignalTask, TypeOK, Stoppers
    <3> QED BY <2>4, <2>5, <3>1, <3>2 DEF MainStep, SignalStep, Stoppers
  <2>6. CASE BrainStep \/ ExecutionStep
    <3>1. \A c : Released(c) \in [Stoppers -> {"none", "blocked", "released"}]
      BY DEF Released, TypeOK
    <3>2. BrainRelease \in [Stoppers -> {"none", "blocked", "released"}]
      BY <3>1 DEF BrainRelease, TypeOK
    <3>3. CASE BrainTakes
      BY <2>1, <3>3 DEF BrainTakes, runtimeVars, stopVars, TypeOK
    <3>4. CASE BrainRaises
      BY <2>1, <3>2, <3>4 DEF BrainRaises, stopVars, TypeOK
    <3>5. ASSUME NEW intent \in BOOLEAN, Handled(intent) PROVE TypeOK'
      <4>1. late' \subseteq {"brain", "execution"} /\ pending' \in 0 .. MaxPending
        BY <3>5, RuntimeAssumption DEF Handled, LateIf, TypeOK
      <4> QED BY <2>1, <3>2, <3>5, <4>1 DEF Handled, stopVars, TypeOK
    <3>6. ASSUME NEW raises \in BOOLEAN, Executes(raises) PROVE TypeOK'
      <4>1. join' \in [Stoppers -> {"none", "blocked", "released"}]
        BY <3>1, <3>6 DEF Executes, TypeOK
      <4>2. faulty' \subseteq Components /\ pending' \in 0 .. MaxPending
        BY <3>6, Parts, RuntimeAssumption DEF Executes, TypeOK
      <4> QED BY <2>1, <3>6, <4>1, <4>2 DEF Executes, stopVars, TypeOK
    <3> QED BY <2>6, <3>3, <3>4, <3>5, <3>6 DEF BrainStep, ExecutionStep
  <2>7. CASE Clock \/ Ask
    BY <2>1, <2>7 DEF Clock, Ask, runtimeVars, stopVars, TypeOK
  <2>8. CASE Answer
    <3>1. CASE NoOffer
      BY <2>1, <3>1 DEF NoOffer, stopVars, TypeOK
    <3>2. CASE ProviderRaises
      BY <2>1, <2>2, <3>2 DEF ProviderRaises, TypeOK, Stoppers
    <3>3. ASSUME NEW t \in Times, Offer(t) PROVE TypeOK'
      BY <2>1, <3>3 DEF Offer, LateIf, stopVars, TypeOK
    <3> QED BY <2>8, <3>1, <3>2, <3>3 DEF Answer
  <2>9. CASE (\E c \in Components : Falter(c)) \/ Signal
    BY <2>1, <2>9 DEF Falter, Signal, stopVars, TypeOK
  <2>10. CASE UNCHANGED vars
    BY <2>1, <2>10 DEF vars, runtimeVars, stopVars, TypeOK
  <2> QED BY <2>5, <2>6, <2>7, <2>8, <2>9, <2>10 DEF Next
<1> QED BY <1>1, <1>2, PTL DEF Spec

-----------------------------------------------------------------------------
(* What the loop remembers. *)

\* RememberedIsAccepted by its parts.
Remembered ==
  \A t \in Times : /\ t \in seen <=> (t \in Range(queue) \/ runs[t] > 0)
                   /\ runs[t] <= 1
                   /\ t \in Range(queue) => runs[t] = 0

LEMMA RememberedParts == RememberedIsAccepted <=> Remembered /\ Distinct(queue)
BY DEF RememberedIsAccepted, Remembered, Distinct

LEMMA RememberedStep ==
  ASSUME BrainTypeOK, Remembered, Distinct(queue), BrainSteps
  PROVE  Remembered' /\ Distinct(queue)'
<1>1. ASSUME NEW t \in Times, Submit(t) PROVE Remembered' /\ Distinct(queue)'
  <2>1. t \notin Range(queue) /\ runs[t] = 0
    BY <1>1 DEF Submit, Fresh, Remembered, BrainTypeOK
  <2>2. Range(queue') = Range(queue) \union {t}
    BY <1>1, AppendedRange DEF Submit, BrainTypeOK
  <2>3. Distinct(queue')
    BY <1>1, <2>1, AppendedDistinct DEF Submit, BrainTypeOK
  <2>4. seen' = seen \union {t} /\ runs' = runs
    BY <1>1 DEF Submit, consumed
  <2> QED BY <2>1, <2>2, <2>3, <2>4 DEF Remembered, Distinct
<1>2. CASE Take
  <2>1. Range(queue) = Range(queue') \union {Head(queue)}
    BY <1>2, HeadAndTailRange DEF Take, BrainTypeOK
  <2>2. Distinct(queue') /\ Head(queue) \notin Range(queue')
    BY <1>2, TailDistinct DEF Take, BrainTypeOK
  <2>3. Head(queue) \in Times
    BY <1>2, HeadTailProperties DEF Take, BrainTypeOK
  <2>4. /\ \A t \in Times : runs'[t] = IF t = Head(queue) THEN runs[t] + 1 ELSE runs[t]
        /\ seen' = seen
    BY <1>2 DEF Take, BrainTypeOK
  <2>5. runs[Head(queue)] = 0 /\ Head(queue) \in seen
    BY <2>1, <2>3 DEF Remembered
  <2> QED BY <2>1, <2>2, <2>3, <2>4, <2>5 DEF Remembered, Distinct
<1>3. CASE Tick \/ Done \/ Raises \/ StopBrain \/ UNCHANGED brainVars
  <2>1. queue' = queue /\ seen' = seen /\ runs' = runs
    BY <1>3 DEF Tick, Done, Raises, StopBrain, brainVars, consumed
  <2> QED BY <2>1 DEF Remembered, Distinct
<1> QED BY <1>1, <1>2, <1>3 DEF BrainSteps

\* However long the runtime runs, and however large the queue is, the brain loop
\* remembers just what it accepted and runs it at most once (submit, _consume).
THEOREM Remembers == Spec => []RememberedIsAccepted
<1>1. Init => RememberedIsAccepted
  <2> SUFFICES ASSUME Init PROVE RememberedIsAccepted
    OBVIOUS
  <2>1. DOMAIN queue = {} /\ Range(queue) = {}
    BY DEF Init, BrainInit, Range
  <2>2. seen = {} /\ \A t \in Times : runs[t] = 0
    BY DEF Init, BrainInit
  <2> QED BY <2>1, <2>2 DEF RememberedIsAccepted
<1>2. TypeOK /\ RememberedIsAccepted /\ [Next]_vars => RememberedIsAccepted'
  <2> SUFFICES ASSUME TypeOK, RememberedIsAccepted, [Next]_vars PROVE RememberedIsAccepted'
    OBVIOUS
  <2>1. Remembered' /\ Distinct(queue)'
    BY RememberedParts, RememberedStep, NextIsBrainSteps DEF TypeOK
  <2> QED BY <2>1 DEF RememberedIsAccepted, Remembered, Distinct
<1> QED BY <1>1, <1>2, TypeCorrect, PTL DEF Spec

-----------------------------------------------------------------------------
(* The end of the ledger. *)

\* How far the stops are: no writer to the ledger that a stop has passed runs.
StopsInOrder ==
  /\ ledgerOpen <=> life # "STOPPED"
  /\ life = "STOPPED" => up \intersect Writers = {}
  /\ \A s \in Stoppers :
       /\ at[s] \in 1 .. Finish => life # "RUNNING"
       /\ at[s] = Returned => life = "STOPPED"
       /\ at[s] <= Finish => \A k \in 2 .. 4 : k < at[s] => StopOrder[k] \notin up

\* Nothing is left to do but what came after a join was released.
BrainIdle == handling = 0 /\ (queue # <<>> => "brain" \in late)
ExecutionIdle == pending > 0 => "execution" \in late

\* A task that was stopped, or whose join was released, is idle.
StoppedIsIdle ==
  /\ "brain" \notin up => task = "none"
  /\ task \in {"none", "ended"} => ~running
  /\ task = "none" \/ Resuming("brain") => BrainIdle
  /\ "execution" \notin up \/ Resuming("execution") => ExecutionIdle

LEMMA OrderInductive == TypeOK /\ StopsInOrder /\ [Next]_vars => StopsInOrder'
<1> SUFFICES ASSUME TypeOK, StopsInOrder, [Next]_vars PROVE StopsInOrder'
  OBVIOUS
<1> USE Parts
<1>1. ASSUME NEW s \in Stoppers, BeginStop(s), up' = up, ledgerOpen' = ledgerOpen
      PROVE  StopsInOrder'
  <2>1. CASE life = "STOPPED"
    BY <1>1, <2>1 DEF BeginStop, StopsInOrder, TypeOK
  <2>2. CASE life # "STOPPED"
    BY <1>1, <2>2 DEF BeginStop, StopsInOrder, TypeOK
  <2> QED BY <2>1, <2>2
<1>2. ASSUME NEW s \in Stoppers, at[s] \in 1 .. 5, life' = life, ledgerOpen' = ledgerOpen,
             at' = [at EXCEPT ![s] = @ + 1], up' \subseteq up,
             at[s] \in 2 .. 4 => StopOrder[at[s]] \notin up'
      PROVE  StopsInOrder'
  <2>1. at'[s] = at[s] + 1 /\ \A r \in Stoppers \ {s} : at'[r] = at[r]
    BY <1>2 DEF TypeOK
  <2>2. life # "RUNNING"
    BY <1>2 DEF StopsInOrder
  <2>3. ASSUME NEW k \in 2 .. 4, k < at'[s] PROVE StopOrder[k] \notin up'
    <3>1. CASE k = at[s]
      BY <1>2, <3>1
    <3>2. CASE k < at[s]
      BY <1>2, <2>1, <3>2 DEF StopsInOrder
    <3> QED BY <1>2, <2>1, <2>3, <3>1, <3>2
  <2> QED BY <1>2, <2>1, <2>2, <2>3 DEF StopsInOrder
<1>3. ASSUME NEW s \in Stoppers, StopStep(s) PROVE StopsInOrder'
  <2>1. CASE EnterJoin(s)
    BY <2>1 DEF EnterJoin, stopVars, StopsInOrder
  <2>2. CASE StopNext(s)
    <3>1. at[s] \in 1 .. 5 /\ up' = up \ {StopOrder[at[s]]}
      BY <2>2 DEF StopNext, Stops
    <3> QED BY <1>2, <2>2, <3>1 DEF StopNext
  <2>3. CASE StopRaises(s)
    <3>1. at[s] \in {1, 5}
      BY <2>3 DEF StopRaises, Stops
    <3>2. /\ at[s] \in 1 .. 5 /\ at[s] \notin 2 .. 4 /\ up' \subseteq up
          /\ at' = [at EXCEPT ![s] = @ + 1] /\ life' = life /\ ledgerOpen' = ledgerOpen
      BY <2>3, <3>1 DEF StopRaises
    <3> QED BY <1>2, <3>2
  <2>4. CASE FinishStop(s)
    <3>1. \A k \in 2 .. 4 : StopOrder[k] \notin up
      BY <2>4 DEF FinishStop, StopsInOrder, TypeOK
    <3>2. up \intersect Writers = {}
      BY <3>1 DEF Writers
    <3> QED BY <2>4, <3>2 DEF FinishStop, StopsInOrder, TypeOK
  <2> QED BY <1>3, <2>1, <2>2, <2>3, <2>4 DEF StopStep
<1>4. CASE LeaveLoop \/ SignalTask \/ ProviderRaises
  BY <1>1, <1>4 DEF LeaveLoop, SignalTask, ProviderRaises, Stoppers
<1>5. CASE MainStep \/ SignalStep
  BY <1>3, <1>4, <1>5 DEF MainStep, SignalStep, Stoppers
<1>6. CASE \/ BrainStep \/ ExecutionStep \/ Clock \/ Ask \/ NoOffer \/ (\E t \in Times : Offer(t))
           \/ (\E c \in Components : Falter(c)) \/ Signal \/ UNCHANGED vars
  <2>1. life' = life /\ ledgerOpen' = ledgerOpen /\ at' = at /\ up' = up
    BY <1>6 DEF BrainStep, BrainTakes, Handled, BrainRaises, ExecutionStep, Executes, Clock, Ask,
                NoOffer, Offer, Falter, Signal, vars, runtimeVars, stopVars
  <2> QED BY <2>1 DEF StopsInOrder
<1> QED BY <1>4, <1>5, <1>6 DEF Next, Answer

\* A task that begins a stop or goes on with it releases no join.
LEMMA StopsReleaseNone ==
  ASSUME TypeOK, NEW s \in Stoppers, NEW c \in {"brain", "execution"}, Resuming(c)',
         StopStep(s) \/ (BeginStop(s) /\ join' = join)
  PROVE  Resuming(c)
<1> USE Parts
<1>1. PICK r \in Stoppers : at'[r] \in 1 .. 5 /\ StopOrder[at'[r]] = c /\ join'[r] = "released"
  BY DEF Resuming, Stops
<1>2. CASE r # s
  <2>1. at'[r] = at[r] /\ join'[r] = join[r]
    BY <1>2 DEF StopStep, EnterJoin, StopNext, StopRaises, FinishStop, BeginStop, stopVars, TypeOK
  <2> QED BY <1>1, <2>1 DEF Resuming, Stops
<1>3. CASE r = s
  <2>1. CASE EnterJoin(s) \/ StopNext(s)
    BY <1>1, <1>3, <2>1 DEF EnterJoin, StopNext, TypeOK
  <2>2. CASE StopRaises(s)
    <3>1. at[s] \in {1, 5} /\ at'[s] = at[s] + 1
      BY <2>2 DEF StopRaises, Stops, TypeOK
    <3> QED BY <1>1, <1>3, <3>1
  <2>3. CASE FinishStop(s) \/ BeginStop(s)
    <3>1. at'[s] \in {1, 7}
      BY <2>3 DEF FinishStop, BeginStop, TypeOK
    <3> QED BY <1>1, <1>3, <3>1
  <2> QED BY <2>1, <2>2, <2>3 DEF StopStep
<1> QED BY <1>2, <1>3

\* The last task_done on a queue releases no join on the other one.
LEMMA OthersStayBlocked ==
  ASSUME TypeOK, NEW c, NEW d, c # d, at' = at, join' = Released(d), Resuming(c)'
  PROVE  Resuming(c)
<1>1. PICK r \in Stoppers : Stops(r, c)' /\ join'[r] = "released"
  BY DEF Resuming
<1>2. Stops(r, c) /\ ~Stops(r, d)
  BY <1>1 DEF Stops
<1>3. join[r] = "released"
  BY <1>1, <1>2 DEF Released
<1> QED BY <1>2, <1>3 DEF Resuming

LEMMA IdleInductive == TypeOK /\ StoppedIsIdle /\ [Next]_vars => StoppedIsIdle'
<1> SUFFICES ASSUME TypeOK, StoppedIsIdle, [Next]_vars PROVE StoppedIsIdle'
  OBVIOUS
<1> USE Parts
<1>1. ASSUME NEW s \in Stoppers, up' \subseteq up, pending' = pending, late' = late,
             UNCHANGED brainVars, (up \ up') \intersect {"brain", "execution"} = {},
             StopStep(s) \/ (BeginStop(s) /\ join' = join)
      PROVE  StoppedIsIdle'
  <2>1. /\ Resuming("brain")' => Resuming("brain")
        /\ Resuming("execution")' => Resuming("execution")
    BY <1>1, StopsReleaseNone
  <2> QED BY <1>1, <2>1 DEF StoppedIsIdle, BrainIdle, ExecutionIdle, brainVars
<1>2. ASSUME NEW s \in Stoppers, StopNext(s) PROVE StoppedIsIdle'
  <2>1. PICK c \in Components :
          /\ Stops(s, c)
          /\ join[s] = "released" \/ (join[s] = "none" /\ ~MustWait(c))
          /\ IF c = "brain" THEN StopBrain ELSE UNCHANGED brainVars
          /\ up' = up \ {c}
    BY <1>2 DEF StopNext
  <2>2. pending' = pending /\ late' = late
    BY <1>2 DEF StopNext
  <2>3. /\ Resuming("brain")' => Resuming("brain")
        /\ Resuming("execution")' => Resuming("execution")
    BY <1>2, StopsReleaseNone DEF StopStep
  <2>4. join[s] = "released" => Resuming(c)
    BY <2>1 DEF Resuming
  <2>5. CASE c = "brain"
    <3>1. BrainIdle
      BY <2>1, <2>4, <2>5 DEF StoppedIsIdle, MustWait, Joins, BrainIdle
    <3> QED BY <2>1, <2>2, <2>3, <2>5, <3>1 DEF StopBrain, StoppedIsIdle, BrainIdle, ExecutionIdle
  <2>6. CASE c = "execution"
    <3>1. ExecutionIdle
      BY <2>1, <2>4, <2>6 DEF StoppedIsIdle, MustWait, ExecutionIdle
    <3> QED BY <2>1, <2>2, <2>3, <2>6, <3>1 DEF StoppedIsIdle, BrainIdle, ExecutionIdle, brainVars
  <2>7. CASE c \notin {"brain", "execution"}
    BY <2>1, <2>2, <2>3, <2>7 DEF StoppedIsIdle, BrainIdle, ExecutionIdle, brainVars
  <2> QED BY <2>5, <2>6, <2>7
<1>3. CASE MainStep \/ SignalStep \/ ProviderRaises
  <2>1. CASE LeaveLoop \/ SignalTask \/ ProviderRaises
    BY <1>1, <2>1 DEF LeaveLoop, SignalTask, ProviderRaises, Stoppers
  <2>2. ASSUME NEW s \in Stoppers, EnterJoin(s) \/ StopRaises(s) \/ FinishStop(s)
        PROVE  StoppedIsIdle'
    BY <1>1, <2>2 DEF StopStep, EnterJoin, StopRaises, FinishStop, stopVars
  <2> QED BY <1>2, <1>3, <2>1, <2>2 DEF MainStep, SignalStep, StopStep, Stoppers
<1>4. CASE BrainTakes \/ Clock \/ Ask \/ NoOffer \/ (\E c \in Components : Falter(c)) \/ Signal
           \/ UNCHANGED vars
  <2>1. up' = up /\ pending' = pending /\ late' = late /\ at' = at /\ join' = join
    BY <1>4 DEF BrainTakes, Clock, Ask, NoOffer, Falter, Signal, vars, runtimeVars, stopVars
  <2>2. Resuming("brain")' <=> Resuming("brain")
    BY <2>1 DEF Resuming, Stops
  <2>3. Resuming("execution")' <=> Resuming("execution")
    BY <2>1 DEF Resuming, Stops
  <2>4. CASE BrainTakes
    BY <2>1, <2>2, <2>3, <2>4 DEF BrainTakes, Take, StoppedIsIdle, BrainIdle, ExecutionIdle
  <2>5. CASE ~BrainTakes
    <3>1. UNCHANGED <<queue, handling, running, task>>
      BY <1>4, <2>5 DEF Clock, Tick, consumed, Ask, NoOffer, Falter, Signal, vars, brainVars
    <3> QED BY <2>1, <2>2, <2>3, <3>1 DEF StoppedIsIdle, BrainIdle, ExecutionIdle
  <2> QED BY <2>4, <2>5
<1>5. ASSUME NEW t \in Times, Offer(t) PROVE StoppedIsIdle'
  <2>1. up' = up /\ pending' = pending /\ at' = at /\ join' = join
    BY <1>5 DEF Offer, stopVars
  <2>2. /\ Resuming("brain")' <=> Resuming("brain")
        /\ Resuming("execution")' <=> Resuming("execution")
    BY <2>1 DEF Resuming, Stops
  <2>3. running /\ running' = running /\ handling' = handling /\ task' = task
    BY <1>5 DEF Offer, Submit, consumed
  <2>4. late \subseteq late' /\ (Resuming("brain") => "brain" \in late')
    BY <1>5 DEF Offer, LateIf
  <2> QED BY <2>1, <2>2, <2>3, <2>4 DEF StoppedIsIdle, BrainIdle, ExecutionIdle
<1>6. ASSUME Done \/ Raises, join' = BrainRelease, at' = at, up' = up
      PROVE  /\ Resuming("brain")' /\ late \subseteq late' => BrainIdle'
             /\ Resuming("execution")' => Resuming("execution")
             /\ ~(task = "none") /\ task' # "none"
             /\ task' = "ended" => ~running'
  <2>1. handling # 0 /\ handling' = 0 /\ queue' = queue
    BY <1>6 DEF Done, Raises
  <2>2. task # "none"
    BY <2>1 DEF StoppedIsIdle, BrainIdle
  <2>3. task' # "none" /\ (task' = "ended" => ~running')
    BY <1>6, <2>2 DEF Done, Raises, StoppedIsIdle
  <2>4. CASE queue = <<>>
    <3>1. join' = Released("brain")
      BY <1>6, <2>4 DEF BrainRelease
    <3>2. Resuming("execution")' => Resuming("execution")
      BY <1>6, <3>1, OthersStayBlocked
    <3> QED BY <2>1, <2>2, <2>3, <2>4, <3>2 DEF BrainIdle
  <2>5. CASE queue # <<>>
    <3>1. join' = join
      BY <1>6, <2>5 DEF BrainRelease
    <3>2. /\ Resuming("brain")' => Resuming("brain")
          /\ Resuming("execution")' => Resuming("execution")
      BY <1>6, <3>1 DEF Resuming, Stops
    <3> QED BY <2>1, <2>2, <2>3, <3>2 DEF StoppedIsIdle, BrainIdle
  <2> QED BY <2>4, <2>5
<1>7. ASSUME NEW intent \in BOOLEAN, Handled(intent) PROVE StoppedIsIdle'
  <2>1. /\ Done /\ join' = BrainRelease /\ at' = at /\ up' = up
        /\ late \subseteq late'
        /\ pending' = pending \/ ("execution" \in up /\ (Resuming("execution") => "execution" \in late'))
    BY <1>7 DEF Handled, LateIf, stopVars
  <2> QED BY <1>6, <2>1 DEF StoppedIsIdle, ExecutionIdle
<1>8. CASE BrainRaises
  <2>1. Raises /\ join' = BrainRelease /\ at' = at /\ up' = up /\ late' = late /\ pending' = pending
    BY <1>8 DEF BrainRaises, stopVars
  <2> QED BY <1>6, <2>1 DEF StoppedIsIdle, ExecutionIdle
<1>9. ASSUME NEW raises \in BOOLEAN, Executes(raises) PROVE StoppedIsIdle'
  <2>1. /\ UNCHANGED brainVars /\ at' = at /\ up' = up /\ late' = late
        /\ pending' = pending - 1 /\ "execution" \in up
        /\ join' = IF pending = 1 THEN Released("execution") ELSE join
    BY <1>9 DEF Executes, stopVars
  <2>2. ~Resuming("execution")
    BY <1>9 DEF Executes
  <2>3. CASE pending = 1
    <3>1. Resuming("brain")' => Resuming("brain")
      BY <2>1, <2>3, OthersStayBlocked
    <3> QED BY <2>1, <2>3, <3>1 DEF StoppedIsIdle, BrainIdle, ExecutionIdle, brainVars
  <2>4. CASE pending # 1
    <3>1. /\ Resuming("brain")' <=> Resuming("brain")
          /\ Resuming("execution")' <=> Resuming("execution")
      BY <2>1, <2>4 DEF Resuming, Stops
    <3> QED BY <2>1, <2>2, <3>1 DEF StoppedIsIdle, BrainIdle, ExecutionIdle, brainVars
  <2> QED BY <2>3, <2>4
<1> QED BY <1>3, <1>4, <1>5, <1>7, <1>8, <1>9 DEF Next, Answer, BrainStep, ExecutionStep

\* Whichever stop comes first and wherever the other one is, the ledger is closed
\* after the last of its writers has ended (stop_runtime of EngineSupervisor).
THEOREM LedgerIsClosedLast == Spec => []LedgerOutlivesWriters
<1>1. Init => StopsInOrder /\ StoppedIsIdle
  BY Parts DEF Init, BrainInit, StopsInOrder, StoppedIsIdle, Resuming, Stops, Writers
<1>2. TypeOK /\ StopsInOrder /\ StoppedIsIdle /\ [Next]_vars => (StopsInOrder /\ StoppedIsIdle)'
  BY OrderInductive, IdleInductive
<1>3. StopsInOrder /\ StoppedIsIdle => LedgerOutlivesWriters
  BY DEF StopsInOrder, StoppedIsIdle, BrainIdle, ExecutionIdle, Writers, LedgerOutlivesWriters
<1> QED BY <1>1, <1>2, <1>3, TypeCorrect, PTL DEF Spec
=============================================================================
