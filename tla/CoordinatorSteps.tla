-------------------------- MODULE CoordinatorSteps --------------------------
(***************************************************************************)
(* What the steps of the coordinator and of the exchange preserve, proved  *)
(* once for every process that is built around them.                       *)
(***************************************************************************)
EXTENDS Coordinator, TLAPS

\* The type invariant of the coordinator with its ledger and its exchange.
CoreTypeOK == LedgerTypeOK /\ ExchangeTypeOK /\ CoordinatorTypeOK

USE LedgerAssumption, ExchangeAssumption, CoordinatorAssumption

-----------------------------------------------------------------------------
(* What the operators of the model return.                                 *)

\* Every record of an order carries a quantity between nothing and the whole.
LEMMA OrderViewType ==
  ASSUME NEW v \in OrderViews
  PROVE /\ v.status \in RemoteStatus
        /\ v.filled \in 0 .. OrderQty
        /\ v = View(v.status, v.filled)
BY DEF OrderViews, View, RemoteStatus

LEMMA FirstViewType == FirstViews \subseteq OrderViews
BY DEF FirstViews, OrderViews, View

LEMMA NoOrderIsNoView == NoOrder \notin OrderViews
BY DEF NoOrder, View, OrderViews

\* What get_order may answer is a record of the order, or one that says less.
LEMMA AnswerType ==
  ASSUME NEW i \in Intents, remote[i] \in OrderViews, NEW v \in Answers(i)
  PROVE /\ v.status \in RemoteStatus \union {"UNKNOWN"}
        /\ v.filled \in 0 .. OrderQty
        /\ v.filled <= remote[i].filled
        /\ v = View(v.status, v.filled)
<1>1. CASE v = remote[i]
  BY <1>1, OrderViewType
<1>2. CASE v = View("UNKNOWN", remote[i].filled)
  BY <1>2, OrderViewType DEF View
<1>3. CASE \E q \in 1 .. (remote[i].filled - 1) : v = View("PARTIALLY_FILLED", q)
  BY <1>3, OrderViewType DEF View, RemoteStatus
<1>4. QED
  BY <1>1, <1>2, <1>3 DEF Answers

\* The exchange's records keep their types when an order's record changes.
LEMMA TakeViewType ==
  ASSUME ExchangeTypeOK, NEW i \in Intents, NEW v \in OrderViews, TakeView(i, v)
  PROVE /\ remote' \in [Intents -> OrderViews \union {NoOrder}]
        /\ executed' \in [Intents -> 0 .. OrderQty]
        /\ holding' \in [Symbols -> Int]
<1>1. /\ v.filled \in 0 .. OrderQty
      /\ remote[i].filled \in 0 .. OrderQty
  BY OrderViewType DEF ExchangeTypeOK, NoOrder, View
<1>2. remote' \in [Intents -> OrderViews \union {NoOrder}]
  BY DEF TakeView, ExchangeTypeOK
<1>3. executed' \in [Intents -> 0 .. OrderQty]
  BY <1>1 DEF TakeView, ExchangeTypeOK
<1>4. holding' \in [Symbols -> Int]
  BY <1>1 DEF TakeView, ExchangeTypeOK
<1>5. QED
  BY <1>2, <1>3, <1>4

-----------------------------------------------------------------------------
(* Types.                                                                  *)

\* However the call in progress goes on, its record keeps its type and it stays
\* about the same entry.
LEMMA JobType ==
  ASSUME CoordinatorTypeOK, job.at \notin {"down", "idle"}
  PROVE /\ job.id \in Intents
        /\ \A place \in Places : Go(place) => job' \in Jobs /\ job'.id = job.id
        /\ \A outcome \in OutcomeStatus :
             Return(outcome) => job' \in Jobs /\ (job'.at # "idle" => job'.id = job.id)
        /\ Raise => job' \in Jobs /\ job'.id = job.id
<1>1. job \in Jobs /\ job.id \in Intents
  BY DEF CoordinatorTypeOK
<1>2. Idle \in Jobs /\ Idle.at = "idle"
  BY DEF Idle, Job, Jobs, Places, NoOrder, View
<1>3. ASSUME NEW place \in Places, Go(place)
      PROVE  job' \in Jobs /\ job'.id = job.id
  BY <1>1, <1>3 DEF Go, Jobs
<1>4. ASSUME NEW outcome \in OutcomeStatus, Return(outcome)
      PROVE  job' \in Jobs /\ (job'.at # "idle" => job'.id = job.id)
  BY <1>1, <1>2, <1>4 DEF Return, Jobs, Places
<1>5. ASSUME Raise
      PROVE  job' \in Jobs /\ job'.id = job.id
  BY <1>3, <1>5 DEF Raise, Places
<1>6. QED
  BY <1>1, <1>3, <1>4, <1>5

\* Appending a reconciliation row keeps the types of the ledger and of the gate.
LEMMA RecordType ==
  ASSUME CoreTypeOK, UNCHANGED LedgerOrders, EnterRecovery \/ RecordMatch
  PROVE  LedgerTypeOK' /\ gate' \in {"READY", "RECOVERY"}
BY DEF CoreTypeOK, LedgerTypeOK, LedgerOrders, EnterRecovery, RecordMatch,
       RecordReconciliation, RecoveryState

LEMMA GateTypes ==
  ASSUME CoreTypeOK, Gate
  PROVE  CoreTypeOK'
<1> USE DEF CoreTypeOK
<1>1. job.at = "gate" /\ UNCHANGED <<exchangeVars, reqLegs>>
  BY DEF Gate, GateRejects, GateKnownRequest, GateKnownOrder, GateUnavailable,
         GatePasses, At
<1>2. ExchangeTypeOK'
  BY <1>1 DEF ExchangeTypeOK, exchangeVars, Working
<1>3. CASE UNCHANGED <<ledgerVars, gate>>
  <2>1. LedgerTypeOK'
    BY <1>3 DEF LedgerTypeOK, ledgerVars
  <2>2. requests' \subseteq Intents
    BY <1>1, JobType DEF Gate, GateRejects, GateKnownRequest, GateKnownOrder,
       GateUnavailable, GatePasses, CoordinatorTypeOK
  <2>3. job' \in Jobs /\ (job'.at \notin {"down", "idle"} => job'.id \in Intents)
    BY <1>1, JobType DEF Gate, GateRejects, GateKnownRequest, GateKnownOrder,
       GateUnavailable, GatePasses, Places, OutcomeStatus
  <2>4. QED
    BY <1>1, <1>2, <1>3, <2>1, <2>2, <2>3 DEF CoordinatorTypeOK
<1>4. CASE EnterRecovery /\ Return("REJECTED") /\ UNCHANGED <<LedgerOrders, requests>>
  <2>1. LedgerTypeOK' /\ gate' \in {"READY", "RECOVERY"}
    BY <1>4, RecordType
  <2>2. job' \in Jobs /\ (job'.at \notin {"down", "idle"} => job'.id \in Intents)
    BY <1>1, <1>4, JobType DEF OutcomeStatus
  <2>3. QED
    BY <1>1, <1>2, <1>4, <2>1, <2>2 DEF CoordinatorTypeOK
<1>5. QED
  BY <1>3, <1>4 DEF Gate, GateRejects, GateKnownRequest, GateKnownOrder,
     GateUnavailable, GatePasses

\* Where the call is, and what a step of it leaves alone, for the whole group.
LEMMA SubmissionTypes ==
  ASSUME CoreTypeOK, Submission
  PROVE  CoreTypeOK'
<1> USE DEF CoreTypeOK
<1> DEFINE JobOK == job' \in Jobs /\ (job'.at \notin {"down", "idle"} => job'.id \in Intents)
<1>1. CASE PersistOrder
  <2>1. JobOK
    BY <1>1, JobType DEF PersistOrder, At, Places
  <2>2. LedgerTypeOK'
    BY <1>1 DEF PersistOrder, PersistEntry, LedgerTypeOK, EntryStatus
  <2>3. QED
    BY <1>1, <2>1, <2>2 DEF PersistOrder, ExchangeTypeOK, exchangeVars, CoordinatorTypeOK
<1>2. CASE PersistIntent
  <2>1. JobOK
    BY <1>2, JobType DEF PersistIntent, At, Places
  <2>2. LedgerTypeOK'
    BY <1>2 DEF PersistIntent, SetIntentStatus, LedgerTypeOK, IntentStatus, RecoverableStatus
  <2>3. QED
    BY <1>2, <2>1, <2>2 DEF PersistIntent, ExchangeTypeOK, exchangeVars, CoordinatorTypeOK
<1>3. CASE Send
  <2>1. job.at = "send" /\ job \in Jobs /\ job.id \in Intents
    BY <1>3, JobType DEF Send, At, CoordinatorTypeOK
  <2>2. JobOK
    <3>1. CASE Go("query")
      BY <2>1, <3>1, JobType DEF Places
    <3>2. ASSUME NEW v \in FirstViews,
                 NEW answer \in {v, View("UNKNOWN", v.filled)},
                 job' = [job EXCEPT !.at = "acked", !.view = answer]
          PROVE  JobOK
      <4>1. /\ answer.status \in RemoteStatus \union {"UNKNOWN"}
            /\ answer.filled \in 0 .. OrderQty
            /\ answer = View(answer.status, answer.filled)
        BY FirstViewType, OrderViewType DEF View
      <4>2. answer \in [status : RemoteStatus \union {"UNKNOWN", "NONE"}, filled : 0 .. OrderQty]
        BY <4>1 DEF View
      <4>3. QED
        BY <2>1, <3>2, <4>2 DEF Jobs, Places
    <3>3. QED
      BY <1>3, <3>1, <3>2 DEF Send
  <2>3. /\ remote' \in [Intents -> OrderViews \union {NoOrder}]
        /\ executed' \in [Intents -> 0 .. OrderQty]
        /\ holding' \in [Symbols -> Int]
    BY <1>3, <2>1, FirstViewType, TakeViewType DEF Send, ExchangeTypeOK
  <2>4. /\ inflight' \subseteq Intents
        /\ sends' \in [Intents -> Nat]
    <3>1. sends \in [Intents -> Nat] /\ inflight \subseteq Intents
      BY DEF ExchangeTypeOK
    <3>2. sends' = [sends EXCEPT ![job.id] = @ + 1]
      BY <1>3 DEF Send
    <3>3. inflight' \in {inflight, inflight \union {job.id}}
      BY <1>3 DEF Send
    <3>4. QED
      BY <2>1, <3>1, <3>2, <3>3
  <2>5. LedgerTypeOK'
    BY <1>3 DEF Send, LedgerTypeOK, ledgerVars
  <2>6. QED
    BY <1>3, <2>2, <2>3, <2>4, <2>5 DEF Send, ExchangeTypeOK, CoordinatorTypeOK
<1>4. CASE QueryFinds \/ QueryMisses \/ AckUnknown
  <2>1. JobOK
    BY <1>4, JobType DEF QueryFinds, QueryMisses, AckUnknown, At, OutcomeStatus
  <2>2. LedgerTypeOK' /\ gate' \in {"READY", "RECOVERY"}
    BY <1>4, RecordType DEF QueryFinds, QueryMisses, AckUnknown
  <2>3. QED
    BY <1>4, <2>1, <2>2 DEF QueryFinds, QueryMisses, AckUnknown, ExchangeTypeOK,
       exchangeVars, CoordinatorTypeOK
<1>5. CASE QueryRaises \/ AckRejected \/ AckAccepted
  <2>1. JobOK
    BY <1>5, JobType DEF QueryRaises, AckRejected, AckAccepted, At, OutcomeStatus, Places
  <2>2. QED
    BY <1>5, <2>1 DEF QueryRaises, AckRejected, AckAccepted, LedgerTypeOK, ledgerVars,
       ExchangeTypeOK, exchangeVars, CoordinatorTypeOK
<1>6. CASE PersistAck
  <2>1. JobOK
    BY <1>6, JobType DEF PersistAck, At, Places
  <2>2. job.view.status \in EntryStatus \union {"NONE"}
    BY DEF CoordinatorTypeOK, Jobs, EntryStatus, RemoteStatus
  <2>3. LedgerTypeOK'
    BY <1>6, <2>2 DEF PersistAck, PersistEntry, LedgerTypeOK
  <2>4. QED
    BY <1>6, <2>1, <2>3 DEF PersistAck, ExchangeTypeOK, exchangeVars, CoordinatorTypeOK
<1>7. QED
  BY <1>1, <1>2, <1>3, <1>4, <1>5, <1>6 DEF Submission

\* What a fill leads to.
LEMMA AfterFillType ==
  ASSUME CoreTypeOK, job.at = "fill", AfterFill
  PROVE  job' \in Jobs /\ (job'.at \notin {"down", "idle"} => job'.id \in Intents)
<1>1. job \in Jobs /\ job.id \in Intents
  BY DEF CoreTypeOK, CoordinatorTypeOK
<1>2. CASE NeedsProtection
  BY <1>1, <1>2 DEF AfterFill, Jobs, Places, Legs
<1>3. CASE ~NeedsProtection
  BY <1>3, JobType DEF CoreTypeOK, AfterFill, Places, OutcomeStatus
<1>4. QED
  BY <1>2, <1>3

\* A new fill makes the rows add up to what they said or to what was reported.
LEMMA BookingType ==
  ASSUME CoreTypeOK, NEW i \in Intents, NEW price \in Prices, NEW total \in 0 .. OrderQty,
         NEW status, total - filled[i] > 0,
         RecordConfirmedFill(i, total - filled[i], price, total, status)
  PROVE  LedgerTypeOK' /\ filled'[i] \in {filled[i], total}
<1> DEFINE delta == total - filled[i]
<1>1. /\ filled[i] \in 0 .. OrderQty
      /\ filled[i] + delta = total
      /\ delta \in 1 .. OrderQty
  BY DEF CoreTypeOK, LedgerTypeOK
<1>2. filled' \in [Intents -> 0 .. OrderQty] /\ filled'[i] \in {filled[i], total}
  BY <1>1 DEF CoreTypeOK, LedgerTypeOK, RecordConfirmedFill
<1>3. fillIds' \in [Intents -> SUBSET ((1 .. OrderQty) \X Prices)]
  BY <1>1 DEF CoreTypeOK, LedgerTypeOK, RecordConfirmedFill, FillId
<1>4. position' \in [Symbols -> Int] /\ lastRow' \in {"MATCH", "UNKNOWN"}
  BY DEF CoreTypeOK, LedgerTypeOK, RecordConfirmedFill
<1>5. QED
  BY <1>2, <1>3, <1>4 DEF CoreTypeOK, LedgerTypeOK, RecordConfirmedFill

LEMMA FillingTypes ==
  ASSUME CoreTypeOK, Filling
  PROVE  CoreTypeOK'
<1> USE DEF CoreTypeOK
<1>1. /\ job.at = "fill"
      /\ job.id \in Intents
      /\ job.view.filled \in 0 .. OrderQty
      /\ UNCHANGED <<exchangeVars, requests, reqLegs>>
  BY DEF Filling, FillNothing, FillUnusable, FillRaises, FillBooked, At, CoordinatorTypeOK, Jobs
<1>2. job' \in Jobs /\ (job'.at \notin {"down", "idle"} => job'.id \in Intents)
  BY <1>1, AfterFillType, JobType DEF Filling, FillNothing, FillUnusable, FillRaises, FillBooked
<1>3. LedgerTypeOK' /\ gate' \in {"READY", "RECOVERY"}
  <2>1. CASE FillNothing \/ FillRaises
    BY <2>1 DEF FillNothing, FillRaises, LedgerTypeOK, ledgerVars, CoordinatorTypeOK
  <2>2. CASE FillUnusable
    BY <2>2, RecordType DEF FillUnusable
  <2>3. CASE FillBooked
    BY <1>1, <2>3, BookingType DEF FillBooked, Delta, RecoveryState, LedgerTypeOK
  <2>4. QED
    BY <2>1, <2>2, <2>3 DEF Filling
<1>4. QED
  BY <1>1, <1>2, <1>3 DEF ExchangeTypeOK, exchangeVars, CoordinatorTypeOK

\* Replacing the entry of one leg of one order keeps a table's type.
LEMMA TableUpdate ==
  ASSUME NEW S, NEW C, NEW table \in [Intents -> [S -> C]],
         NEW i \in Intents, NEW l, NEW c \in C
  PROVE  [table EXCEPT ![i][l] = c] \in [Intents -> [S -> C]]
<1>1. [table[i] EXCEPT ![l] = c] \in [S -> C]
  OBVIOUS
<1>2. [table EXCEPT ![i][l] = c] = [table EXCEPT ![i] = [table[i] EXCEPT ![l] = c]]
  OBVIOUS
<1>3. QED
  BY <1>1, <1>2

LEMMA LegQtyUpdate ==
  ASSUME ExchangeTypeOK, NEW i \in Intents, NEW l, NEW q \in 0 .. OrderQty
  PROVE  [legQty EXCEPT ![i][l] = q] \in [Intents -> [Legs -> 0 .. OrderQty]]
<1>1. legQty \in [Intents -> [Legs -> 0 .. OrderQty]]
  BY DEF ExchangeTypeOK
<1>2. QED
  BY <1>1, TableUpdate

LEMMA LocalLegUpdate ==
  ASSUME LedgerTypeOK, NEW i \in Intents, NEW l, NEW status \in {"NONE", "OPEN", "DONE"}
  PROVE  [localLeg EXCEPT ![i][l] = status]
           \in [Intents -> [Legs -> {"NONE", "OPEN", "DONE"}]]
<1>1. localLeg \in [Intents -> [Legs -> {"NONE", "OPEN", "DONE"}]]
  BY DEF LedgerTypeOK
<1>2. QED
  BY <1>1, TableUpdate

LEMMA ProtectionTypes ==
  ASSUME CoreTypeOK, Protection
  PROVE  CoreTypeOK'
<1> USE DEF CoreTypeOK
<1> DEFINE JobOK == job' \in Jobs /\ (job'.at \notin {"down", "idle"} => job'.id \in Intents)
<1>1. job \in Jobs /\ job.id \in Intents /\ Quantity \in 0 .. OrderQty
  BY DEF CoordinatorTypeOK, LedgerTypeOK, Quantity, Protection, ProtectNothing, LegCovered,
     LegAmended, LegPlaced, LegFails, LegAccepted, LegRefused, LegUnknown, ProtectionFails,
     ProtectionVerified, AtLeg, At
<1>2. LegConfirmed => JobOK
  BY <1>1 DEF LegConfirmed, Go, Jobs, Places, Legs
<1>3. \A place \in {"unprotected", "leg_send", "verify"} : Go(place) => JobOK
  BY <1>1 DEF Go, Jobs, Places
<1>4. Return("SUBMITTED") \/ Return("UNKNOWN") \/ job' = Idle => JobOK
  <2>1. Idle \in Jobs /\ Idle.at = "idle"
    BY DEF Idle, Job, Jobs, Places, NoOrder, View
  <2>2. \A outcome \in OutcomeStatus :
          LET j == [job EXCEPT !.at = "finish", !.arg = outcome]
          IN  j \in Jobs /\ j.id = job.id
    BY <1>1 DEF Jobs, Places
  <2>3. QED
    BY <1>1, <2>1, <2>2 DEF Return, OutcomeStatus
<1>5. CASE ProtectNothing \/ LegCovered \/ LegFails
  <2>1. JobOK
    BY <1>2, <1>3, <1>4, <1>5 DEF ProtectNothing, LegCovered, LegFails, AfterProtection
  <2>2. QED
    BY <1>5, <2>1 DEF ProtectNothing, LegCovered, LegFails, LedgerTypeOK, ledgerVars,
       ExchangeTypeOK, exchangeVars, CoordinatorTypeOK
<1>6. CASE LegAmended \/ LegAccepted
  <2>1. JobOK
    BY <1>2, <1>3, <1>6 DEF LegAmended, LegAccepted
  <2>2. legQty' \in [Intents -> [Legs -> 0 .. OrderQty]]
    BY <1>1, <1>6, LegQtyUpdate DEF LegAmended, LegAccepted
  <2>3. QED
    BY <1>6, <2>1, <2>2 DEF LegAmended, LegAccepted, LedgerTypeOK, ledgerVars,
       ExchangeTypeOK, CoordinatorTypeOK
<1>7. CASE LegPlaced \/ LegRefused
  <2>1. JobOK
    BY <1>3, <1>7 DEF LegPlaced, LegRefused
  <2>2. localLeg' \in [Intents -> [Legs -> {"NONE", "OPEN", "DONE"}]]
    <3>1. \E status \in {"OPEN", "DONE"} :
            localLeg' = [localLeg EXCEPT ![job.id][job.arg] = status]
      BY <1>7 DEF LegPlaced, LegRefused, PersistLeg
    <3>2. QED
      BY <1>1, <3>1, LocalLegUpdate
  <2>3. reqLegs' \subseteq Intents \X Legs /\ requests' = requests
    BY <1>1, <1>7 DEF LegPlaced, LegRefused, AtLeg, CoordinatorTypeOK
  <2>4. QED
    BY <1>7, <2>1, <2>2, <2>3 DEF LegPlaced, LegRefused, LedgerTypeOK,
       ExchangeTypeOK, exchangeVars, CoordinatorTypeOK
<1>8. CASE LegUnknown
  <2>1. JobOK
    BY <1>3, <1>8 DEF LegUnknown
  <2>2. LedgerTypeOK' /\ gate' \in {"READY", "RECOVERY"}
    BY <1>8, RecordType DEF LegUnknown
  <2>3. legQty' \in [Intents -> [Legs -> 0 .. OrderQty]]
    <3>1. legQty' \in {legQty, [legQty EXCEPT ![job.id][job.arg] = Quantity]}
      BY <1>8 DEF LegUnknown
    <3>2. legQty \in [Intents -> [Legs -> 0 .. OrderQty]]
      BY DEF ExchangeTypeOK
    <3>3. [legQty EXCEPT ![job.id][job.arg] = Quantity]
            \in [Intents -> [Legs -> 0 .. OrderQty]]
      BY <1>1, LegQtyUpdate
    <3>4. QED
      BY <3>1, <3>2, <3>3
  <2>4. QED
    BY <1>8, <2>1, <2>2, <2>3 DEF LegUnknown, ExchangeTypeOK, CoordinatorTypeOK
<1>9. CASE ProtectionFails \/ ProtectionVerified
  <2>1. JobOK
    BY <1>3, <1>4, <1>9 DEF ProtectionFails, ProtectionVerified, AfterProtection
  <2>2. LedgerTypeOK' /\ gate' \in {"READY", "RECOVERY"}
    BY <1>9, RecordType DEF ProtectionFails, ProtectionVerified
  <2>3. QED
    BY <1>9, <2>1, <2>2 DEF ProtectionFails, ProtectionVerified, ExchangeTypeOK,
       exchangeVars, CoordinatorTypeOK
<1>10. QED
  BY <1>5, <1>6, <1>7, <1>8, <1>9 DEF Protection

LEMMA RecoveringTypes ==
  ASSUME CoreTypeOK, Recovering
  PROVE  CoreTypeOK'
<1> USE DEF CoreTypeOK
<1> DEFINE JobOK == job' \in Jobs /\ (job'.at \notin {"down", "idle"} => job'.id \in Intents)
<1>1. job \in Jobs /\ job.id \in Intents
  BY DEF CoordinatorTypeOK, Recovering, RecoverReads, RecoverMisses, RecoverVerifies,
     RecoverMismatch, RecoverFails, At
<1>2. Go("unrecovered") \/ job' = Idle => JobOK
  BY <1>1 DEF Go, Idle, Job, NoOrder, View, Jobs, Places
<1>3. CASE RecoverReads
  <2>1. PICK v \in Answers(job.id) :
          /\ v.status # "UNKNOWN"
          /\ PersistEntry(job.id, v.status)
          /\ job' = [job EXCEPT !.at = "fill", !.view = v]
    BY <1>3 DEF RecoverReads
  <2>2. remote[job.id] \in OrderViews
    BY <1>1, <1>3 DEF RecoverReads, OnExchange, ExchangeTypeOK
  <2>3. /\ v.status \in RemoteStatus
        /\ v \in [status : RemoteStatus \union {"UNKNOWN", "NONE"}, filled : 0 .. OrderQty]
    BY <1>1, <2>1, <2>2, AnswerType DEF View
  <2>4. JobOK
    BY <1>1, <2>1, <2>3 DEF Jobs, Places
  <2>5. localOrder' \in [Intents -> EntryStatus \union {"NONE"}]
    BY <1>1, <2>1, <2>3 DEF PersistEntry, LedgerTypeOK, EntryStatus, RemoteStatus
  <2>6. QED
    BY <1>3, <2>4, <2>5 DEF RecoverReads, LedgerTypeOK, ExchangeTypeOK, exchangeVars,
       CoordinatorTypeOK
<1>4. CASE RecoverMisses \/ RecoverMismatch
  BY <1>2, <1>4 DEF RecoverMisses, RecoverMismatch, LedgerTypeOK, ledgerVars,
     ExchangeTypeOK, exchangeVars, CoordinatorTypeOK
<1>5. CASE RecoverVerifies \/ RecoverFails
  <2>1. LedgerTypeOK' /\ gate' \in {"READY", "RECOVERY"}
    BY <1>5, RecordType DEF RecoverVerifies, RecoverFails
  <2>2. QED
    BY <1>2, <1>5, <2>1 DEF RecoverVerifies, RecoverFails, ExchangeTypeOK, exchangeVars,
       CoordinatorTypeOK
<1>6. QED
  BY <1>3, <1>4, <1>5 DEF Recovering

\* Every step of a call keeps every type.
LEMMA CallStepTypes ==
  ASSUME CoreTypeOK, CallStep
  PROVE  CoreTypeOK'
BY GateTypes, SubmissionTypes, FillingTypes, ProtectionTypes, RecoveringTypes DEF CallStep

\* The exchange, moving by itself, keeps its types.
LEMMA ExchangeTypes ==
  ASSUME ExchangeTypeOK, NEW i \in Intents,
         Arrive(i) \/ Progress(i) \/ (\E l \in Legs : LegEnds(i, l))
  PROVE  ExchangeTypeOK'
<1>1. CASE Arrive(i)
  BY <1>1, TakeViewType DEF Arrive, ExchangeTypeOK
<1>2. CASE Progress(i)
  BY <1>2, TakeViewType DEF Progress, ExchangeTypeOK
<1>3. ASSUME NEW l \in Legs, LegEnds(i, l)
      PROVE  ExchangeTypeOK'
  <2>1. SymbolOf[i] \in Symbols /\ legQty[i][l] \in 0 .. OrderQty
    BY DEF ExchangeTypeOK, LedgerAssumption
  <2>2. holding' \in [Symbols -> Int]
    BY <1>3, <2>1 DEF LegEnds, ExchangeTypeOK
  <2>3. QED
    BY <1>3, <2>2 DEF LegEnds, ExchangeTypeOK
<1>4. QED
  BY <1>1, <1>2, <1>3

-----------------------------------------------------------------------------
(* The inductive invariants of the coordinator and its exchange.           *)

\* What was sent, to whom it is known, and where the call is that sends it.
JournalInv ==
  /\ \A i \in Intents : sends[i] \in {0, 1}
  /\ \A i \in Intents : sends[i] = 1 => OrderKnown(i)
  /\ \A i \in Intents : OnExchange(i) \/ i \in inflight => sends[i] = 1
  /\ At("persist_order") => sends[job.id] = 0
  /\ At("persist_intent") \/ At("send") => sends[job.id] = 0 /\ OrderKnown(job.id)
  /\ At("acked") => job.view.status # "NONE"

\* A call past its gates still finds them open, up to the submission.
ClearInv ==
  /\ CachedGateSound
  /\ At("persist_order") \/ At("persist_intent") \/ At("send") =>
       ~killed /\ RecoveryState = "READY" /\ job.id \in Admissible

\* What was executed bounds what is reported, what is reported bounds what is
\* booked, and what is booked bounds what is protected.
FillInv ==
  /\ NoPhantomFills
  /\ LegsWithinFills
  /\ \A i \in Intents : sends[i] = 0 => executed[i] = 0
  /\ \A i \in Intents : OnExchange(i) => executed[i] = remote[i].filled
  /\ \A i \in inflight : ~OnExchange(i) /\ executed[i] = 0
  /\ At("acked") \/ At("acknowledged") \/ At("fill") =>
       job.view.filled <= executed[job.id]

-----------------------------------------------------------------------------
(* The journal.                                                            *)

\* A step that neither sends nor persists an entry, and does not lead up to
\* sending one, keeps the journal.
LEMMA QuietJournal ==
  ASSUME JournalInv, UNCHANGED <<localOrder, remote, inflight, sends>>,
         job'.at \notin {"persist_order", "persist_intent", "send", "acked"}
  PROVE  JournalInv'
BY DEF JournalInv, OnExchange, OrderKnown, At

\* Where each way of going on leads.
LEMMA JobPlace ==
  ASSUME job \in Jobs
  PROVE  /\ \A place : Go(place) => job'.at = place /\ job'.id = job.id
         /\ \A outcome : Return(outcome) => job'.at \in {"finish", "idle"}
         /\ job' = Idle => job'.at = "idle"
         /\ Raise => job'.at \in {"unrecovered", "raised"}
<1>1. \A place : Go(place) => job'.at = place /\ job'.id = job.id
  BY DEF Go, Jobs
<1>2. job' = Idle => job'.at = "idle"
  BY DEF Idle, Job
<1>3. \A outcome : Return(outcome) => job'.at \in {"finish", "idle"}
  BY <1>2 DEF Return, Jobs
<1>4. Raise => job'.at \in {"unrecovered", "raised"}
  BY <1>1 DEF Raise
<1>5. QED
  BY <1>1, <1>2, <1>3, <1>4

\* What Filling, Protection and most of Recovering have in common.
LEMMA LaterJournal ==
  ASSUME CoreTypeOK, Filling \/ Protection \/ (Recovering /\ ~RecoverReads)
  PROVE  /\ UNCHANGED <<localOrder, remote, inflight, sends>>
         /\ job'.at \notin {"persist_order", "persist_intent", "send", "acked"}
<1>1. job \in Jobs
  BY DEF CoreTypeOK, CoordinatorTypeOK
<1>2. /\ \A place : Go(place) => job'.at = place
      /\ \A outcome : Return(outcome) => job'.at \in {"finish", "idle"}
      /\ job' = Idle => job'.at = "idle"
      /\ Raise => job'.at \in {"unrecovered", "raised"}
  BY <1>1, JobPlace
<1>3. CASE Filling
  <2>1. UNCHANGED <<localOrder, remote, inflight, sends>>
    BY <1>3 DEF Filling, FillNothing, FillUnusable, FillRaises, FillBooked, ledgerVars,
       LedgerOrders, exchangeVars, RecordConfirmedFill
  <2>2. AfterFill => job'.at \in {"protect", "verify", "finish", "idle"}
    BY <1>1, <1>2 DEF AfterFill, Places, OutcomeStatus, Jobs
  <2>3. QED
    BY <1>2, <1>3, <2>1, <2>2 DEF Filling, FillNothing, FillUnusable, FillRaises, FillBooked
<1>4. CASE Protection
  <2>1. UNCHANGED <<localOrder, remote, inflight, sends>>
    BY <1>4 DEF Protection, ProtectNothing, LegCovered, LegAmended, LegPlaced, LegFails,
       LegAccepted, LegRefused, LegUnknown, ProtectionFails, ProtectionVerified, ledgerVars,
       LedgerOrders, exchangeVars
  <2>2. LegConfirmed => job'.at \in {"protect", "raised"}
    BY <1>1, <1>2 DEF LegConfirmed, Places, Jobs
  <2>3. AfterProtection => job'.at \in {"verify", "finish", "idle"}
    BY <1>2 DEF AfterProtection, Places, OutcomeStatus
  <2>4. QED
    BY <1>2, <1>4, <2>1, <2>2, <2>3 DEF Protection, ProtectNothing, LegCovered, LegAmended,
       LegPlaced, LegFails, LegAccepted, LegRefused, LegUnknown, ProtectionFails,
       ProtectionVerified, Places, OutcomeStatus
<1>5. CASE Recovering /\ ~RecoverReads
  BY <1>2, <1>5 DEF Recovering, RecoverMisses, RecoverVerifies, RecoverMismatch,
     RecoverFails, ledgerVars, LedgerOrders, exchangeVars, Places
<1>6. QED
  BY <1>3, <1>4, <1>5

\* An entry the exchange knows is journalled before it is sent, and sent once.
LEMMA CallStepJournal ==
  ASSUME CoreTypeOK, JournalInv, CallStep
  PROVE  JournalInv'
<1>1. job \in Jobs /\ (job.at \notin {"down", "idle"} => job.id \in Intents)
  BY DEF CoreTypeOK, CoordinatorTypeOK
<1>2. /\ \A place : Go(place) => job'.at = place /\ job'.id = job.id
      /\ \A outcome : Return(outcome) => job'.at \in {"finish", "idle"}
      /\ Raise => job'.at \in {"unrecovered", "raised"}
  BY <1>1, JobPlace
<1>3. CASE Gate /\ ~GatePasses
  <2>1. job'.at \notin {"persist_order", "persist_intent", "send", "acked"}
    BY <1>2, <1>3 DEF Gate, GateRejects, GateKnownRequest, GateKnownOrder, GateUnavailable,
       OutcomeStatus
  <2>2. UNCHANGED <<localOrder, remote, inflight, sends>>
    BY <1>3 DEF Gate, GateRejects, GateKnownRequest, GateKnownOrder, GateUnavailable,
       ledgerVars, LedgerOrders, exchangeVars
  <2>3. QED
    BY <2>1, <2>2, QuietJournal
<1>4. CASE GatePasses
  <2>1. job.id \in Intents /\ sends[job.id] = 0
    BY <1>1, <1>4 DEF GatePasses, NewEntry, DurablyKnown, JournalInv, At
  <2>2. job'.at = "persist_order" /\ job'.id = job.id
    BY <1>2, <1>4 DEF GatePasses, Places
  <2>3. QED
    BY <1>4, <2>1, <2>2 DEF GatePasses, JournalInv, OnExchange, OrderKnown, At, ledgerVars,
       exchangeVars
<1>5. CASE PersistOrder
  <2>1. /\ job.id \in Intents
        /\ job'.at = "persist_intent" /\ job'.id = job.id
        /\ sends[job.id] = 0
    BY <1>1, <1>2, <1>5 DEF PersistOrder, At, Places, JournalInv
  <2>2. localOrder' = [localOrder EXCEPT ![job.id] = "NEW"]
    BY <1>5 DEF PersistOrder, PersistEntry
  <2>3. \A i \in Intents : OrderKnown(i) => OrderKnown(i)'
    BY <2>2 DEF OrderKnown, CoreTypeOK, LedgerTypeOK
  <2>4. OrderKnown(job.id)'
    BY <2>1, <2>2 DEF OrderKnown, CoreTypeOK, LedgerTypeOK
  <2>5. QED
    BY <1>5, <2>1, <2>3, <2>4 DEF PersistOrder, JournalInv, OnExchange, At, exchangeVars,
       OrderKnown
<1>6. CASE PersistIntent
  BY <1>1, <1>2, <1>6 DEF PersistIntent, JournalInv, OnExchange, OrderKnown, At, exchangeVars,
     Places
<1>7. CASE Send
  <2>1. /\ job.id \in Intents /\ job.at = "send"
        /\ sends[job.id] = 0 /\ OrderKnown(job.id)
    BY <1>1, <1>7 DEF Send, At, JournalInv
  <2>2. sends' = [sends EXCEPT ![job.id] = 1]
    <3>1. sends' = [sends EXCEPT ![job.id] = sends[job.id] + 1]
      BY <1>7 DEF Send
    <3>2. QED
      BY <2>1, <3>1
  <2>3. \A i \in Intents : OnExchange(i)' => OnExchange(i) \/ i = job.id
    BY <1>7 DEF Send, TakeView, OnExchange, CoreTypeOK, ExchangeTypeOK
  <2>4. inflight' \subseteq inflight \union {job.id}
    BY <1>7 DEF Send
  <2>5. \/ job'.at = "query"
        \/ job'.at = "acked" /\ job'.view.status # "NONE"
    <3>1. CASE Go("query")
      BY <1>2, <3>1 DEF Places
    <3>2. ASSUME NEW v \in FirstViews,
                 NEW answer \in {v, View("UNKNOWN", v.filled)},
                 job' = [job EXCEPT !.at = "acked", !.view = answer]
          PROVE  job'.at = "acked" /\ job'.view.status # "NONE"
      <4>1. answer.status \in RemoteStatus \union {"UNKNOWN"}
        BY FirstViewType, OrderViewType DEF View
      <4>2. QED
        BY <1>1, <3>2, <4>1 DEF Jobs, RemoteStatus
    <3>3. QED
      BY <1>7, <3>1, <3>2 DEF Send
  <2>6. UNCHANGED localOrder
    BY <1>7 DEF Send, ledgerVars
  <2>7. sends \in [Intents -> Nat]
    BY DEF CoreTypeOK, ExchangeTypeOK
  <2>8. QED
    BY <2>1, <2>2, <2>3, <2>4, <2>5, <2>6, <2>7 DEF JournalInv, OrderKnown, At
<1>8. CASE PersistAck
  <2>1. job.id \in Intents /\ job.view.status # "NONE" /\ job'.at = "acknowledged"
    BY <1>1, <1>2, <1>8 DEF PersistAck, At, Places, JournalInv
  <2>2. \A i \in Intents : OrderKnown(i) => OrderKnown(i)'
    BY <1>8, <2>1 DEF PersistAck, PersistEntry, OrderKnown, CoreTypeOK, LedgerTypeOK
  <2>3. QED
    BY <1>8, <2>1, <2>2 DEF PersistAck, JournalInv, OnExchange, At, exchangeVars
<1>9. CASE QueryFinds \/ QueryMisses \/ QueryRaises \/ AckRejected \/ AckUnknown \/ AckAccepted
  <2>1. job'.at \notin {"persist_order", "persist_intent", "send", "acked"}
    BY <1>2, <1>9 DEF QueryFinds, QueryMisses, QueryRaises, AckRejected, AckUnknown,
       AckAccepted, OutcomeStatus, Places
  <2>2. UNCHANGED <<localOrder, remote, inflight, sends>>
    BY <1>9 DEF QueryFinds, QueryMisses, QueryRaises, AckRejected, AckUnknown, AckAccepted,
       ledgerVars, LedgerOrders, exchangeVars
  <2>3. QED
    BY <2>1, <2>2, QuietJournal
<1>10. CASE Filling \/ Protection \/ (Recovering /\ ~RecoverReads)
  BY <1>10, LaterJournal, QuietJournal
<1>11. CASE RecoverReads
  <2>1. PICK v \in Answers(job.id) :
          /\ v.status # "UNKNOWN"
          /\ PersistEntry(job.id, v.status)
          /\ job' = [job EXCEPT !.at = "fill", !.view = v]
    BY <1>11 DEF RecoverReads
  <2>2. job.id \in Intents /\ remote[job.id] \in OrderViews
    BY <1>1, <1>11 DEF RecoverReads, At, OnExchange, CoreTypeOK, ExchangeTypeOK
  <2>3. v.status \in RemoteStatus
    BY <2>1, <2>2, AnswerType
  <2>4. \A i \in Intents : OrderKnown(i) => OrderKnown(i)'
    BY <2>1, <2>2, <2>3 DEF PersistEntry, OrderKnown, CoreTypeOK, LedgerTypeOK, RemoteStatus
  <2>5. job'.at = "fill"
    BY <1>1, <2>1 DEF Jobs
  <2>6. QED
    BY <1>11, <2>4, <2>5 DEF RecoverReads, JournalInv, OnExchange, At, exchangeVars
<1>12. QED
  BY <1>3, <1>4, <1>5, <1>6, <1>7, <1>8, <1>9, <1>10, <1>11
     DEF CallStep, Gate, Submission, Recovering

\* The exchange alone never breaks the journal: what arrives was sent.
LEMMA ExchangeJournal ==
  ASSUME ExchangeTypeOK, JournalInv, UNCHANGED <<localOrder, job>>, NEW i \in Intents,
         Arrive(i) \/ Progress(i) \/ (\E l \in Legs : LegEnds(i, l))
  PROVE  JournalInv'
<1>1. UNCHANGED sends /\ inflight' \subseteq inflight
  BY DEF Arrive, Progress, LegEnds
<1>2. \A j \in Intents : OnExchange(j)' => OnExchange(j) \/ j \in inflight
  <2>1. CASE Arrive(i)
    BY <2>1 DEF Arrive, TakeView, OnExchange, ExchangeTypeOK
  <2>2. CASE Progress(i)
    BY <2>2 DEF Progress, OpenAtExchange, TakeView, OnExchange, ExchangeTypeOK, NoOrder, View
  <2>3. CASE \E l \in Legs : LegEnds(i, l)
    BY <2>3 DEF LegEnds, OnExchange
  <2>4. QED
    BY <2>1, <2>2, <2>3
<1>3. QED
  BY <1>1, <1>2 DEF JournalInv, OrderKnown, At

-----------------------------------------------------------------------------
(* The gates.                                                              *)

\* A row that closes the gate, or one the gate is read back from, leaves no
\* gate open on a ledger that says RECOVERY.
LEMMA RecordGate ==
  ASSUME EnterRecovery \/ RecordMatch \/ gate' = RecoveryState'
  PROVE  CachedGateSound'
BY DEF EnterRecovery, RecordMatch, CachedGateSound

LEMMA CallStepClear ==
  ASSUME CoreTypeOK, ClearInv, CallStep
  PROVE  ClearInv'
<1>1. job \in Jobs
  BY DEF CoreTypeOK, CoordinatorTypeOK
<1>2. CachedGateSound'
  <2>1. \/ UNCHANGED <<gate, lastRow, ledgerMem>>
        \/ EnterRecovery
        \/ RecordMatch
        \/ gate' = RecoveryState'
    BY DEF CallStep, Gate, GateRejects, GateKnownRequest, GateKnownOrder, GateUnavailable,
       GatePasses, Submission, PersistOrder, PersistIntent, Send, QueryFinds, QueryMisses,
       QueryRaises, PersistAck, AckRejected, AckUnknown, AckAccepted, Filling, FillNothing,
       FillUnusable, FillRaises, FillBooked, Protection, ProtectNothing, LegCovered,
       LegAmended, LegPlaced, LegFails, LegAccepted, LegRefused, LegUnknown, ProtectionFails,
       ProtectionVerified, Recovering, RecoverReads, RecoverMisses, RecoverVerifies,
       RecoverMismatch, RecoverFails, ledgerVars
  <2>2. QED
    BY <2>1, RecordGate DEF ClearInv, CachedGateSound, RecoveryState
<1>3. CASE GatePasses
  <2>1. gate = "READY" /\ ~killed /\ job.id \in Admissible /\ RecoveryState = "READY"
    BY <1>3 DEF GatePasses, GatesOpen, ClearInv, CachedGateSound
  <2>2. job'.id = job.id
    BY <1>1, <1>3, JobPlace DEF GatePasses
  <2>3. QED
    BY <1>2, <1>3, <2>1, <2>2 DEF GatePasses, ClearInv, RecoveryState, ledgerVars, At
<1>4. CASE PersistOrder \/ PersistIntent
  <2>1. /\ job'.id = job.id
        /\ job.at \in {"persist_order", "persist_intent"}
        /\ UNCHANGED <<lastRow, ledgerMem, killed>>
    BY <1>1, <1>4, JobPlace DEF PersistOrder, PersistIntent, At
  <2>2. QED
    BY <1>2, <2>1 DEF ClearInv, RecoveryState, At
<1>5. CASE ~GatePasses /\ ~PersistOrder /\ ~PersistIntent
  <2>1. job'.at \notin {"persist_order", "persist_intent", "send"}
    <3>1. CASE Gate
      BY <1>1, <1>5, <3>1, JobPlace DEF Gate, GateRejects, GateKnownRequest, GateKnownOrder,
         GateUnavailable
    <3>2. CASE Send
      <4>1. Go("query") \/ \E answer : job' = [job EXCEPT !.at = "acked", !.view = answer]
        BY <3>2 DEF Send
      <4>2. ASSUME NEW answer, job' = [job EXCEPT !.at = "acked", !.view = answer]
            PROVE  job'.at = "acked"
        BY <1>1, <4>2 DEF Jobs
      <4>3. QED
        BY <1>1, <4>1, <4>2, JobPlace
    <3>3. CASE Submission /\ ~Send
      BY <1>1, <1>5, <3>3, JobPlace DEF Submission, QueryFinds, QueryMisses,
         QueryRaises, PersistAck, AckRejected, AckUnknown, AckAccepted
    <3>4. CASE RecoverReads
      BY <1>1, <3>4 DEF RecoverReads, Jobs
    <3>5. CASE Filling \/ Protection \/ (Recovering /\ ~RecoverReads)
      BY <3>5, LaterJournal
    <3>6. QED
      BY <3>1, <3>2, <3>3, <3>4, <3>5 DEF CallStep
  <2>2. QED
    BY <1>2, <2>1 DEF ClearInv, At
<1>6. QED
  BY <1>3, <1>4, <1>5

\* A submission finds the gates as the call found them when it passed.
LEMMA CallStepSendIsClear ==
  ASSUME CoreTypeOK, ClearInv, CallStep
  PROVE  SendIsClear
<1>1. CASE Send
  BY <1>1 DEF Send, ClearInv, SendIsClear
<1>2. CASE ~Send
  <2>1. UNCHANGED sends
    <3>1. CASE Gate \/ RecoverReads
      BY <3>1 DEF Gate, GateRejects, GateKnownRequest, GateKnownOrder, GateUnavailable,
         GatePasses, RecoverReads, exchangeVars
    <3>2. CASE Submission
      BY <1>2, <3>2 DEF Submission, PersistOrder, PersistIntent, QueryFinds, QueryMisses,
         QueryRaises, PersistAck, AckRejected, AckUnknown, AckAccepted, exchangeVars
    <3>3. CASE Filling \/ Protection \/ (Recovering /\ ~RecoverReads)
      BY <3>3, LaterJournal
    <3>4. QED
      BY <3>1, <3>2, <3>3 DEF CallStep
  <2>2. QED
    BY <2>1 DEF SendIsClear
<1>3. QED
  BY <1>1, <1>2

-----------------------------------------------------------------------------
(* The fills.                                                              *)

\* A step that moves no quantity and does not bring a report keeps the fills.
LEMMA QuietFill ==
  ASSUME FillInv, UNCHANGED <<filled, legQty, sends, remote, executed, inflight>>,
         job'.at \notin {"acked", "acknowledged", "fill"}
  PROVE  FillInv'
BY DEF FillInv, NoPhantomFills, LegsWithinFills, OnExchange, At

\* The legs take the quantity that is booked, so they stay within it.
LEMMA LegFill ==
  ASSUME CoreTypeOK, FillInv, job.id \in Intents,
         legQty' = legQty \/ legQty' = [legQty EXCEPT ![job.id][job.arg] = Quantity],
         UNCHANGED <<filled, sends, remote, executed, inflight>>,
         job'.at \notin {"acked", "acknowledged", "fill"}
  PROVE  FillInv'
<1>1. filled[job.id] \in Int /\ legQty \in [Intents -> [Legs -> 0 .. OrderQty]]
  BY DEF CoreTypeOK, LedgerTypeOK, ExchangeTypeOK
<1>2. ASSUME NEW i \in Intents, NEW l \in Legs
      PROVE  legQty'[i][l] <= filled[i]
  <2>1. legQty[i][l] <= filled[i]
    BY DEF FillInv, LegsWithinFills
  <2>2. legQty'[i][l] = legQty[i][l] \/ (i = job.id /\ legQty'[i][l] = filled[job.id])
    BY <1>1 DEF Quantity
  <2>3. QED
    BY <1>1, <2>1, <2>2
<1>3. QED
  BY <1>2 DEF FillInv, NoPhantomFills, LegsWithinFills, OnExchange, At

\* The exchange takes an entry that was not executed before.
LEMMA TakeFill ==
  ASSUME CoreTypeOK, NEW i \in Intents, NEW v \in OrderViews, TakeView(i, v)
  PROVE  /\ executed'[i] = v.filled
         /\ remote'[i] = v
         /\ v.filled \in 0 .. OrderQty
         /\ \A j \in Intents \ {i} : executed'[j] = executed[j] /\ remote'[j] = remote[j]
BY OrderViewType DEF TakeView, CoreTypeOK, ExchangeTypeOK

\* An entry not executed before may be executed in any quantity.
LEMMA FirstFill ==
  ASSUME CoreTypeOK, JournalInv, FillInv, NEW i \in Intents, NEW v \in OrderViews,
         TakeView(i, v), executed[i] = 0, UNCHANGED <<filled, legQty>>,
         sends'[i] = 1, \A j \in Intents \ {i} : sends'[j] = sends[j],
         inflight' \subseteq inflight \ {i},
         job'.at \notin {"acknowledged", "fill"},
         job'.at = "acked" => job'.id = i /\ job'.view.filled = v.filled
  PROVE  FillInv'
<1>1. /\ executed'[i] = v.filled
      /\ remote'[i] = v
      /\ v.filled \in 0 .. OrderQty
      /\ \A j \in Intents \ {i} : executed'[j] = executed[j] /\ remote'[j] = remote[j]
  BY TakeFill
<1>2. filled[i] = 0
  BY DEF FillInv, NoPhantomFills, CoreTypeOK, LedgerTypeOK
<1>3. NoPhantomFills' /\ LegsWithinFills'
  BY <1>1, <1>2 DEF FillInv, NoPhantomFills, LegsWithinFills
<1>4. \A j \in inflight' : ~OnExchange(j)' /\ executed'[j] = 0
  BY <1>1 DEF FillInv, OnExchange, CoreTypeOK, ExchangeTypeOK
<1>5. /\ \A j \in Intents : sends'[j] = 0 => executed'[j] = 0
      /\ \A j \in Intents : OnExchange(j)' => executed'[j] = remote'[j].filled
  BY <1>1 DEF FillInv, OnExchange
<1>6. QED
  BY <1>1, <1>3, <1>4, <1>5 DEF FillInv, At

LEMMA CallStepFill ==
  ASSUME CoreTypeOK, JournalInv, FillInv, CallStep
  PROVE  FillInv'
<1>1. /\ job \in Jobs
      /\ job.at \notin {"down", "idle"} => job.id \in Intents
      /\ filled \in [Intents -> 0 .. OrderQty]
      /\ executed \in [Intents -> 0 .. OrderQty]
  BY DEF CoreTypeOK, CoordinatorTypeOK, LedgerTypeOK, ExchangeTypeOK
<1>2. CASE Gate
  <2>1. job'.at \notin {"acked", "acknowledged", "fill"}
    BY <1>1, <1>2, JobPlace DEF Gate, GateRejects, GateKnownRequest, GateKnownOrder,
       GateUnavailable, GatePasses
  <2>2. UNCHANGED <<filled, legQty, sends, remote, executed, inflight>>
    BY <1>2 DEF Gate, GateRejects, GateKnownRequest, GateKnownOrder, GateUnavailable,
       GatePasses, ledgerVars, LedgerOrders, exchangeVars
  <2>3. QED
    BY <2>1, <2>2, QuietFill
<1>3. CASE Send
  <2>1. /\ job.id \in Intents /\ sends[job.id] = 0
        /\ executed[job.id] = 0 /\ job.id \notin inflight
        /\ ~OnExchange(job.id)
    <3>1. job.at = "send" /\ job.id \in Intents
      BY <1>1, <1>3 DEF Send, At
    <3>2. sends[job.id] = 0
      BY <3>1 DEF JournalInv, At
    <3>3. ~OnExchange(job.id) /\ job.id \notin inflight
      BY <3>1, <3>2 DEF JournalInv
    <3>4. QED
      BY <3>1, <3>2, <3>3 DEF FillInv
  <2>2. /\ UNCHANGED <<filled, legQty>>
        /\ sends'[job.id] = 1
        /\ \A j \in Intents \ {job.id} : sends'[j] = sends[j]
    <3>1. sends' = [sends EXCEPT ![job.id] = sends[job.id] + 1]
      BY <1>3 DEF Send
    <3>2. sends \in [Intents -> Nat]
      BY DEF CoreTypeOK, ExchangeTypeOK
    <3>3. UNCHANGED <<filled, legQty>>
      BY <1>3 DEF Send, ledgerVars
    <3>4. QED
      BY <2>1, <3>1, <3>2, <3>3
  <2>3. ASSUME NEW v \in FirstViews, TakeView(job.id, v), UNCHANGED inflight,
               \/ Go("query")
               \/ \E answer \in {v, View("UNKNOWN", v.filled)} :
                    job' = [job EXCEPT !.at = "acked", !.view = answer]
        PROVE  FillInv'
    <3>1. v \in OrderViews
      BY FirstViewType
    <3>2. /\ job'.at \in {"query", "acked"}
          /\ job'.at = "acked" => job'.id = job.id /\ job'.view.filled = v.filled
      <4>1. CASE Go("query")
        BY <1>1, <4>1, JobPlace
      <4>2. ASSUME NEW answer \in {v, View("UNKNOWN", v.filled)},
                   job' = [job EXCEPT !.at = "acked", !.view = answer]
            PROVE  job'.at = "acked" /\ job'.id = job.id /\ job'.view.filled = v.filled
        BY <1>1, <4>2 DEF Jobs, View
      <4>3. QED
        BY <2>3, <4>1, <4>2
    <3>3. QED
      BY <2>1, <2>2, <2>3, <3>1, <3>2, FirstFill
  <2>4. CASE inflight' = inflight \union {job.id} /\ Go("query")
             /\ UNCHANGED <<remote, executed, holding>>
    <3>1. job'.at = "query"
      BY <1>1, <2>4, JobPlace
    <3>2. QED
      BY <2>1, <2>2, <2>4, <3>1 DEF FillInv, NoPhantomFills, LegsWithinFills, OnExchange, At
  <2>5. QED
    BY <1>3, <2>3, <2>4 DEF Send
<1>4. CASE PersistAck \/ AckAccepted
  <2>1. /\ job.at \in {"acked", "acknowledged"}
        /\ job'.id = job.id /\ job'.view = job.view
        /\ UNCHANGED <<filled, legQty, sends, remote, executed, inflight>>
    BY <1>1, <1>4 DEF PersistAck, AckAccepted, At, Go, Jobs, ledgerVars, exchangeVars
  <2>2. QED
    BY <2>1 DEF FillInv, NoPhantomFills, LegsWithinFills, OnExchange, At
<1>5. CASE Submission /\ ~Send /\ ~PersistAck /\ ~AckAccepted
  <2>1. job'.at \notin {"acked", "acknowledged", "fill"}
    BY <1>1, <1>5, JobPlace DEF Submission, PersistOrder, PersistIntent, QueryFinds,
       QueryMisses, QueryRaises, AckRejected, AckUnknown
  <2>2. UNCHANGED <<filled, legQty, sends, remote, executed, inflight>>
    BY <1>5 DEF Submission, PersistOrder, PersistIntent, QueryFinds, QueryMisses,
       QueryRaises, AckRejected, AckUnknown, ledgerVars, LedgerOrders, exchangeVars
  <2>3. QED
    BY <2>1, <2>2, QuietFill
<1>6. CASE Filling
  <2>1. job'.at \in {"protect", "verify", "finish", "idle", "unrecovered", "raised"}
    <3>1. AfterFill => job'.at \in {"protect", "verify", "finish", "idle"}
      BY <1>1, JobPlace DEF AfterFill, Jobs
    <3>2. QED
      BY <1>1, <1>6, <3>1, JobPlace DEF Filling, FillNothing, FillUnusable, FillRaises,
         FillBooked
  <2>2. CASE FillBooked
    <3>1. /\ job.id \in Intents
          /\ job.view.filled \in 0 .. OrderQty
          /\ job.view.filled <= executed[job.id]
          /\ Delta = job.view.filled - filled[job.id]
          /\ Delta > 0
          /\ UNCHANGED exchangeVars
      BY <1>1, <2>2 DEF FillBooked, Delta, FillInv, At, Jobs
    <3>2. PICK price \in Prices :
            RecordConfirmedFill(job.id, Delta, price, job.view.filled, job.view.status)
      BY <2>2 DEF FillBooked
    <3>3. filled'[job.id] \in {filled[job.id], job.view.filled}
      BY <3>1, <3>2, BookingType
    <3>4. \A i \in Intents \ {job.id} : filled'[i] = filled[i]
      BY <1>1, <3>2 DEF RecordConfirmedFill
    <3>5. \A i \in Intents : filled'[i] <= executed[i] /\ filled[i] <= filled'[i]
      BY <1>1, <3>1, <3>3, <3>4 DEF FillInv, NoPhantomFills
    <3>6. filled' \in [Intents -> 0 .. OrderQty] /\ legQty \in [Intents -> [Legs -> 0 .. OrderQty]]
      BY <1>6, FillingTypes DEF CoreTypeOK, LedgerTypeOK, ExchangeTypeOK
    <3>7. NoPhantomFills' /\ LegsWithinFills'
      BY <1>1, <3>1, <3>5, <3>6 DEF FillInv, NoPhantomFills, LegsWithinFills, exchangeVars
    <3>8. QED
      BY <2>1, <3>1, <3>7 DEF FillInv, OnExchange, At, exchangeVars
  <2>3. CASE ~FillBooked
    <3>1. UNCHANGED <<filled, legQty, sends, remote, executed, inflight>>
      BY <1>6, <2>3 DEF Filling, FillNothing, FillUnusable, FillRaises, ledgerVars,
         LedgerOrders, exchangeVars
    <3>2. QED
      BY <2>1, <3>1, QuietFill
  <2>4. QED
    BY <2>2, <2>3
<1>7. CASE Protection
  <2>1. /\ job.id \in Intents
        /\ legQty' = legQty \/ legQty' = [legQty EXCEPT ![job.id][job.arg] = Quantity]
        /\ UNCHANGED <<filled, sends, remote, executed, inflight>>
    BY <1>1, <1>7 DEF Protection, ProtectNothing, LegCovered, LegAmended, LegPlaced, LegFails,
       LegAccepted, LegRefused, LegUnknown, ProtectionFails, ProtectionVerified, AtLeg, At,
       ledgerVars, LedgerOrders, exchangeVars
  <2>2. job'.at \notin {"acked", "acknowledged", "fill"}
    <3>1. LegConfirmed => job'.at \in {"protect", "raised"}
      BY <1>1, JobPlace DEF LegConfirmed, Jobs
    <3>2. QED
      BY <1>1, <1>7, <3>1, JobPlace DEF Protection, ProtectNothing, LegCovered, LegAmended,
         LegPlaced, LegFails, LegAccepted, LegRefused, LegUnknown, ProtectionFails,
         ProtectionVerified, AfterProtection
  <2>3. QED
    BY <2>1, <2>2, LegFill
<1>8. CASE RecoverReads
  <2>1. PICK v \in Answers(job.id) : job' = [job EXCEPT !.at = "fill", !.view = v]
    BY <1>8 DEF RecoverReads
  <2>2. /\ job.id \in Intents /\ OnExchange(job.id)
        /\ remote[job.id] \in OrderViews
    BY <1>1, <1>8 DEF RecoverReads, At, OnExchange, CoreTypeOK, ExchangeTypeOK
  <2>3. v.filled <= executed[job.id]
    BY <2>2, AnswerType DEF FillInv
  <2>4. job'.at = "fill" /\ job'.id = job.id /\ job'.view = v
    BY <1>1, <2>1 DEF Jobs
  <2>5. UNCHANGED <<filled, legQty, sends, remote, executed, inflight>>
    BY <1>8 DEF RecoverReads, exchangeVars
  <2>6. QED
    BY <2>3, <2>4, <2>5 DEF FillInv, NoPhantomFills, LegsWithinFills, OnExchange, At
<1>9. CASE Recovering /\ ~RecoverReads
  <2>1. job'.at \notin {"acked", "acknowledged", "fill"}
    BY <1>1, <1>9, JobPlace DEF Recovering, RecoverMisses, RecoverVerifies, RecoverMismatch,
       RecoverFails
  <2>2. UNCHANGED <<filled, legQty, sends, remote, executed, inflight>>
    BY <1>9 DEF Recovering, RecoverMisses, RecoverVerifies, RecoverMismatch, RecoverFails,
       ledgerVars, LedgerOrders, exchangeVars
  <2>3. QED
    BY <2>1, <2>2, QuietFill
<1>10. QED
  BY <1>2, <1>3, <1>4, <1>5, <1>6, <1>7, <1>8, <1>9 DEF CallStep

\* What arrives was not executed before, and an order never executes less.
LEMMA ExchangeFill ==
  ASSUME CoreTypeOK, JournalInv, FillInv, UNCHANGED <<filled, job>>, NEW i \in Intents,
         Arrive(i) \/ Progress(i) \/ (\E l \in Legs : LegEnds(i, l))
  PROVE  FillInv'
<1>1. CASE Arrive(i)
  <2>1. PICK v \in OrderViews : TakeView(i, v)
    BY <1>1 DEF Arrive
  <2>2. /\ i \in inflight /\ executed[i] = 0 /\ sends[i] = 1
        /\ inflight' = inflight \ {i} /\ UNCHANGED <<legQty, sends>>
    BY <1>1 DEF Arrive, FillInv, JournalInv
  <2>3. /\ executed'[i] = v.filled
        /\ remote'[i] = v
        /\ v.filled \in 0 .. OrderQty
        /\ \A j \in Intents \ {i} : executed'[j] = executed[j] /\ remote'[j] = remote[j]
    BY <2>1, TakeFill
  <2>4. \A j \in Intents : executed[j] <= executed'[j]
    BY <2>2, <2>3 DEF CoreTypeOK, ExchangeTypeOK
  <2>5. filled \in [Intents -> 0 .. OrderQty] /\ executed \in [Intents -> 0 .. OrderQty]
    BY DEF CoreTypeOK, LedgerTypeOK, ExchangeTypeOK
  <2>6. NoPhantomFills' /\ LegsWithinFills'
    BY <2>2, <2>3, <2>5 DEF FillInv, NoPhantomFills, LegsWithinFills
  <2>7. job.at \in {"acked", "acknowledged", "fill"} => job.view.filled <= executed'[job.id]
    BY <2>2, <2>3, <2>4, <2>5 DEF FillInv, At, CoreTypeOK, CoordinatorTypeOK, Jobs
  <2>8. \A j \in inflight' : ~OnExchange(j)' /\ executed'[j] = 0
    BY <2>2, <2>3 DEF FillInv, OnExchange, CoreTypeOK, ExchangeTypeOK
  <2>9. /\ \A j \in Intents : sends'[j] = 0 => executed'[j] = 0
        /\ \A j \in Intents : OnExchange(j)' => executed'[j] = remote'[j].filled
    BY <2>2, <2>3 DEF FillInv, OnExchange
  <2>10. QED
    BY <2>6, <2>7, <2>8, <2>9 DEF FillInv, At
<1>2. CASE Progress(i)
  <2>1. PICK v \in OrderViews : TakeView(i, v) /\ v.filled >= remote[i].filled
    BY <1>2 DEF Progress
  <2>2. /\ OnExchange(i) /\ UNCHANGED <<legQty, sends, inflight>>
    BY <1>2 DEF Progress, OpenAtExchange, OnExchange, NoOrder, View
  <2>3. /\ executed'[i] = v.filled
        /\ remote'[i] = v
        /\ v.filled \in 0 .. OrderQty
        /\ \A j \in Intents \ {i} : executed'[j] = executed[j] /\ remote'[j] = remote[j]
    BY <2>1, TakeFill
  <2>4. executed[i] = remote[i].filled /\ sends[i] = 1 /\ i \notin inflight
    BY <2>2 DEF FillInv, JournalInv
  <2>5. filled \in [Intents -> 0 .. OrderQty] /\ executed \in [Intents -> 0 .. OrderQty]
    BY DEF CoreTypeOK, LedgerTypeOK, ExchangeTypeOK
  <2>6. \A j \in Intents : executed[j] <= executed'[j]
    BY <2>1, <2>3, <2>4, <2>5
  <2>7. NoPhantomFills' /\ LegsWithinFills'
    BY <2>1, <2>2, <2>3, <2>4, <2>5 DEF FillInv, NoPhantomFills, LegsWithinFills
  <2>8. job.at \in {"acked", "acknowledged", "fill"} => job.view.filled <= executed'[job.id]
    BY <2>1, <2>3, <2>4, <2>5, <2>6 DEF FillInv, At, CoreTypeOK, CoordinatorTypeOK, Jobs
  <2>9. \A j \in inflight' : ~OnExchange(j)' /\ executed'[j] = 0
    BY <2>2, <2>3, <2>4 DEF FillInv, OnExchange, CoreTypeOK, ExchangeTypeOK
  <2>10. /\ \A j \in Intents : sends'[j] = 0 => executed'[j] = 0
         /\ \A j \in Intents : OnExchange(j)' => executed'[j] = remote'[j].filled
    BY <2>2, <2>3, <2>4 DEF FillInv, OnExchange
  <2>11. QED
    BY <2>7, <2>8, <2>9, <2>10 DEF FillInv, At
<1>3. CASE \E l \in Legs : LegEnds(i, l)
  BY <1>3 DEF LegEnds, FillInv, NoPhantomFills, LegsWithinFills, OnExchange, At
<1>4. QED
  BY <1>1, <1>2, <1>3

-----------------------------------------------------------------------------
(* Outcomes.                                                               *)

\* The outcomes that say the exchange has, or had, the order.
Reported == {"SUBMITTED", "RECONCILED", "DUPLICATE"}

\* A call that is past its submission, or is about to report one, was sent.
SentInv ==
  /\ job.at \in {"query", "acked", "acknowledged", "fill", "protect", "leg_send"} =>
       sends[job.id] = 1
  /\ At("finish") /\ job.arg \in Reported => sends[job.id] = 1

\* What each way of going on makes of the rest of the call's record.
LEMMA JobMoves ==
  ASSUME job \in Jobs
  PROVE  /\ \A place : Go(place) =>
              /\ job'.at = place /\ job'.id = job.id /\ job'.op = job.op
              /\ job'.arg = job.arg /\ job'.view = job.view
         /\ \A outcome : Return(outcome) =>
              \/ job' = Idle
              \/ /\ job'.at = "finish" /\ job'.arg = outcome
                 /\ job'.id = job.id /\ job'.op = job.op
         /\ Raise => /\ job'.at = IF job.op = "recover" THEN "unrecovered" ELSE "raised"
                     /\ job'.id = job.id /\ job'.op = job.op
         /\ Idle.at = "idle" /\ Idle.op = "none"
<1>1. \A place : Go(place) =>
         /\ job'.at = place /\ job'.id = job.id /\ job'.op = job.op
         /\ job'.arg = job.arg /\ job'.view = job.view
  BY DEF Go, Jobs
<1>2. \A outcome : Return(outcome) =>
         \/ job' = Idle
         \/ /\ job'.at = "finish" /\ job'.arg = outcome
            /\ job'.id = job.id /\ job'.op = job.op
  BY DEF Return, Jobs
<1>3. Raise => /\ job'.at = IF job.op = "recover" THEN "unrecovered" ELSE "raised"
               /\ job'.id = job.id /\ job'.op = job.op
  BY <1>1 DEF Raise
<1>4. Idle.at = "idle" /\ Idle.op = "none"
  BY DEF Idle, Job
<1>5. QED
  BY <1>1, <1>2, <1>3, <1>4

\* What a fill or a confirmed leg leads to.
LEMMA FillMoves ==
  ASSUME job \in Jobs
  PROVE  /\ AfterFill =>
              \/ job' = Idle
              \/ /\ job'.id = job.id /\ job'.op = job.op
                 /\ \/ job'.at = "protect" /\ job'.arg = "sl" /\ NeedsProtection
                    \/ job'.at = "verify" /\ job.op = "recover"
                    \/ job'.at = "finish" /\ job'.arg = "SUBMITTED"
         /\ AfterProtection =>
              \/ job' = Idle
              \/ /\ job'.id = job.id /\ job'.op = job.op
                 /\ \/ job'.at = "verify" /\ job.op = "recover"
                    \/ job'.at = "finish" /\ job'.arg = "SUBMITTED"
         /\ LegConfirmed =>
              /\ job'.id = job.id /\ job'.op = job.op
              /\ \/ /\ job'.at = "protect" /\ NamesParent
                    /\ job'.arg = IF job.arg = "sl" THEN "tp" ELSE "done"
                 \/ job'.at = "raised" /\ ~NamesParent
<1>1. CASE NeedsProtection
  BY <1>1 DEF AfterFill, AfterProtection, LegConfirmed, Go, Return, Jobs
<1>2. CASE ~NeedsProtection
  BY <1>2 DEF AfterFill, AfterProtection, LegConfirmed, Go, Return, Jobs
<1>3. QED
  BY <1>1, <1>2

\* Only the submission sends, and what is sent once stays sent.
LEMMA SendsOf ==
  ASSUME CoreTypeOK, JournalInv, CallStep
  PROVE  /\ \A i \in Intents : sends[i] = 1 => sends'[i] = 1
         /\ Send => sends'[job.id] = 1
<1>1. CASE Send
  <2>1. sends' = [sends EXCEPT ![job.id] = sends[job.id] + 1]
    BY <1>1 DEF Send
  <2>2. sends[job.id] = 0 /\ job.id \in Intents /\ sends \in [Intents -> Nat]
    BY <1>1 DEF Send, At, JournalInv, CoreTypeOK, CoordinatorTypeOK, ExchangeTypeOK
  <2>3. QED
    BY <2>1, <2>2
<1>2. CASE ~Send
  <2>1. UNCHANGED sends
    <3>1. CASE Gate \/ RecoverReads
      BY <3>1 DEF Gate, GateRejects, GateKnownRequest, GateKnownOrder, GateUnavailable,
         GatePasses, RecoverReads, exchangeVars
    <3>2. CASE Submission
      BY <1>2, <3>2 DEF Submission, PersistOrder, PersistIntent, QueryFinds, QueryMisses,
         QueryRaises, PersistAck, AckRejected, AckUnknown, AckAccepted, exchangeVars
    <3>3. CASE Filling \/ Protection \/ (Recovering /\ ~RecoverReads)
      BY <3>3, LaterJournal
    <3>4. QED
      BY <3>1, <3>2, <3>3 DEF CallStep
  <2>2. QED
    BY <1>2, <2>1
<1>3. QED
  BY <1>1, <1>2

\* A call reports an order only after that order was sent.
LEMMA CallStepSent ==
  ASSUME CoreTypeOK, JournalInv, SentInv, CallStep
  PROVE  SentInv'
<1>1. /\ job \in Jobs
      /\ job.at \notin {"down", "idle"} => job.id \in Intents
      /\ \A i \in Intents : sends[i] = 1 => sends'[i] = 1
      /\ \A i \in Intents : OnExchange(i) => sends[i] = 1
  BY SendsOf DEF CoreTypeOK, CoordinatorTypeOK, JournalInv
<1>2. CASE Gate
  <2>1. CASE OnExchange(job.id)
    BY <1>1, <1>2, <2>1, JobMoves DEF Gate, GateRejects, GateKnownRequest, GateKnownOrder,
       GateUnavailable, GatePasses, SentInv, At
  <2>2. CASE ~OnExchange(job.id)
    <3>1. /\ job'.at \notin {"query", "acked", "acknowledged", "fill", "protect", "leg_send"}
          /\ job'.at = "finish" => job'.arg = "REJECTED"
      BY <1>1, <1>2, <2>2, JobMoves DEF Gate, GateRejects, GateKnownRequest, GateKnownOrder,
         GateUnavailable, GatePasses
    <3>2. QED
      BY <3>1 DEF SentInv, At, Reported
  <2>3. QED
    BY <2>1, <2>2
<1>3. CASE Submission
  <2>1. CASE Send
    <3>1. job'.id = job.id /\ job'.at \in {"query", "acked"}
      <4>1. CASE Go("query")
        BY <1>1, <4>1, JobMoves
      <4>2. CASE \E answer : job' = [job EXCEPT !.at = "acked", !.view = answer]
        BY <1>1, <4>2 DEF Jobs
      <4>3. QED
        BY <2>1, <4>1, <4>2 DEF Send
    <3>2. QED
      BY <2>1, <3>1, SendsOf DEF SentInv, At
  <2>2. CASE PersistOrder \/ PersistIntent \/ QueryRaises \/ QueryMisses \/ AckRejected
             \/ AckUnknown
    <3>1. /\ job'.at \notin {"query", "acked", "acknowledged", "fill", "protect", "leg_send"}
          /\ job'.at = "finish" => job'.arg \in {"REJECTED", "UNKNOWN"}
      BY <1>1, <2>2, JobMoves DEF PersistOrder, PersistIntent, QueryRaises, QueryMisses,
         AckRejected, AckUnknown
    <3>2. QED
      BY <3>1 DEF SentInv, At, Reported
  <2>3. CASE QueryFinds \/ PersistAck \/ AckAccepted
    <3>1. job.at \in {"query", "acked", "acknowledged"}
      BY <2>3 DEF QueryFinds, PersistAck, AckAccepted, At
    <3>2. job' = Idle \/ job'.id = job.id
      BY <1>1, <2>3, JobMoves DEF QueryFinds, PersistAck, AckAccepted
    <3>3. QED
      BY <1>1, <3>1, <3>2, JobMoves DEF SentInv, At
  <2>4. QED
    BY <1>3, <2>1, <2>2, <2>3 DEF Submission
<1>4. CASE Filling
  <2>1. job.at = "fill"
    BY <1>4 DEF Filling, FillNothing, FillUnusable, FillRaises, FillBooked, At
  <2>2. job' = Idle \/ job'.id = job.id
    BY <1>1, <1>4, JobMoves, FillMoves DEF Filling, FillNothing, FillUnusable, FillRaises,
       FillBooked
  <2>3. QED
    BY <1>1, <2>1, <2>2, JobMoves DEF SentInv, At
<1>5. CASE ProtectionFails
  <2>1. /\ job'.at \notin {"query", "acked", "acknowledged", "fill", "protect", "leg_send"}
        /\ job'.at = "finish" => job'.arg = "UNKNOWN"
    BY <1>1, <1>5, JobMoves DEF ProtectionFails
  <2>2. QED
    BY <2>1 DEF SentInv, At, Reported
<1>6. CASE Protection /\ ~ProtectionFails
  <2>1. job.at \in {"protect", "leg_send"}
    BY <1>6 DEF Protection, ProtectNothing, LegCovered, LegAmended, LegPlaced, LegFails,
       LegAccepted, LegRefused, LegUnknown, ProtectionVerified, AtLeg, At
  <2>2. job' = Idle \/ job'.id = job.id
    BY <1>1, <1>6, JobMoves, FillMoves DEF Protection, ProtectNothing, LegCovered, LegAmended,
       LegPlaced, LegFails, LegAccepted, LegRefused, LegUnknown, ProtectionVerified
  <2>3. QED
    BY <1>1, <2>1, <2>2, JobMoves DEF SentInv, At
<1>7. CASE RecoverReads
  <2>1. OnExchange(job.id) /\ job.id \in Intents
    BY <1>1, <1>7 DEF RecoverReads, At
  <2>2. job'.at = "fill" /\ job'.id = job.id
    BY <1>1, <1>7 DEF RecoverReads, Jobs
  <2>3. QED
    BY <1>1, <2>1, <2>2 DEF SentInv, At
<1>8. CASE Recovering /\ ~RecoverReads
  <2>1. job'.at \in {"idle", "unrecovered"}
    BY <1>1, <1>8, JobMoves DEF Recovering, RecoverMisses, RecoverVerifies, RecoverMismatch,
       RecoverFails
  <2>2. QED
    BY <2>1 DEF SentInv, At
<1>9. QED
  BY <1>2, <1>3, <1>4, <1>5, <1>6, <1>7, <1>8 DEF CallStep

-----------------------------------------------------------------------------
(* Protection.                                                             *)

\* Who is in a call, and how a submission found the gate up to its fill.
CallInv ==
  /\ job.at \in {"down", "idle"} => job.op = "none"
  /\ job.at \in {"recover", "verify", "unrecovered"} => job.op = "recover"
  /\ job.at \in {"persist_order", "persist_intent", "send", "query", "acked",
                 "acknowledged", "fill"} =>
       job.op = "recover" \/ gate = "READY"

\* How far the legs of the entry in hand have got.
CoverInv ==
  /\ At("leg_send") => job.arg \in Legs
  /\ (At("protect") /\ job.arg \in {"tp", "done"}) \/ (At("leg_send") /\ job.arg = "tp") =>
       legQty[job.id]["sl"] >= filled[job.id]
  /\ At("protect") /\ job.arg = "done" => legQty[job.id]["tp"] >= filled[job.id]

\* A submission keeps the gate as it found it until the fill is booked, and only
\* a recovery gets to where a recovery is verified.
LEMMA CallStepCall ==
  ASSUME CoreTypeOK, CallInv, CallStep
  PROVE  CallInv'
<1> DEFINE Early == {"persist_order", "persist_intent", "send", "query", "acked",
                     "acknowledged", "fill"}
<1>1. job \in Jobs
  BY DEF CoreTypeOK, CoordinatorTypeOK
<1>2. CASE Gate
  <2>1. CASE GatePasses
    <3>1. gate' = "READY" /\ job'.at = "persist_order"
      BY <1>1, <2>1, JobMoves DEF GatePasses, GatesOpen
    <3>2. QED
      BY <3>1 DEF CallInv
  <2>2. CASE ~GatePasses
    <3>1. \/ job' = Idle
          \/ job'.at \in {"finish", "raised"}
          \/ job'.at = "unrecovered" /\ job'.op = "recover"
      BY <1>1, <1>2, <2>2, JobMoves DEF Gate, GateRejects, GateKnownRequest, GateKnownOrder,
         GateUnavailable
    <3>2. QED
      BY <1>1, <3>1, JobMoves DEF CallInv
  <2>3. QED
    BY <2>1, <2>2
<1>3. CASE PersistOrder \/ PersistIntent \/ Send \/ PersistAck \/ AckAccepted
  <2>1. job.at \in Early /\ UNCHANGED gate
    BY <1>3 DEF PersistOrder, PersistIntent, Send, PersistAck, AckAccepted, At
  <2>2. job'.op = job.op /\ job'.at \in Early
    <3>1. CASE \E answer : job' = [job EXCEPT !.at = "acked", !.view = answer]
      BY <1>1, <3>1 DEF Jobs
    <3>2. QED
      BY <1>1, <1>3, <3>1, JobMoves DEF PersistOrder, PersistIntent, Send, PersistAck,
         AckAccepted
  <2>3. QED
    BY <2>1, <2>2 DEF CallInv
<1>4. CASE QueryFinds \/ QueryMisses \/ QueryRaises \/ AckRejected \/ AckUnknown
  <2>1. \/ job' = Idle
        \/ job'.at \in {"finish", "raised"}
        \/ job'.at = "unrecovered" /\ job'.op = "recover"
    BY <1>1, <1>4, JobMoves DEF QueryFinds, QueryMisses, QueryRaises, AckRejected, AckUnknown
  <2>2. QED
    BY <1>1, <2>1, JobMoves DEF CallInv
<1>5. CASE Filling
  <2>1. \/ job' = Idle
        \/ job'.at \in {"protect", "finish", "raised"}
        \/ job'.at \in {"verify", "unrecovered"} /\ job'.op = "recover"
    BY <1>1, <1>5, JobMoves, FillMoves DEF Filling, FillNothing, FillUnusable, FillRaises,
       FillBooked
  <2>2. QED
    BY <1>1, <2>1, JobMoves DEF CallInv
<1>6. CASE Protection
  <2>1. \/ job' = Idle
        \/ job'.at \in {"protect", "leg_send", "unprotected", "finish", "raised"}
        \/ job'.at = "verify" /\ job'.op = "recover"
    BY <1>1, <1>6, JobMoves, FillMoves DEF Protection, ProtectNothing, LegCovered, LegAmended,
       LegPlaced, LegFails, LegAccepted, LegRefused, LegUnknown, ProtectionFails,
       ProtectionVerified
  <2>2. QED
    BY <1>1, <2>1, JobMoves DEF CallInv
<1>7. CASE Recovering
  <2>1. job.at \in {"recover", "verify", "unrecovered"}
    BY <1>7 DEF Recovering, RecoverReads, RecoverMisses, RecoverVerifies, RecoverMismatch,
       RecoverFails, At
  <2>2. job' = Idle \/ (job'.at \in {"fill", "unrecovered"} /\ job'.op = job.op)
    <3>1. CASE RecoverReads
      BY <1>1, <3>1 DEF RecoverReads, Jobs
    <3>2. CASE ~RecoverReads
      BY <1>1, <1>7, <3>2, JobMoves DEF Recovering, RecoverMisses, RecoverVerifies,
         RecoverMismatch, RecoverFails
    <3>3. QED
      BY <3>1, <3>2
  <2>3. QED
    BY <1>1, <2>1, <2>2, JobMoves DEF CallInv
<1>8. QED
  BY <1>2, <1>3, <1>4, <1>5, <1>6, <1>7 DEF CallStep, Submission

\* A confirmed leg covers what is booked, and the other stays as it is.
LEMMA LegCovers ==
  ASSUME CoreTypeOK, CoverInv, job.id \in Intents, job.arg \in Legs,
         job.at \in {"protect", "leg_send"}, UNCHANGED filled, LegConfirmed,
         \/ UNCHANGED legQty /\ legQty[job.id][job.arg] >= Quantity
         \/ legQty' = [legQty EXCEPT ![job.id][job.arg] = Quantity]
  PROVE  CoverInv'
<1>1. /\ job \in Jobs
      /\ filled[job.id] \in Int
      /\ legQty \in [Intents -> [Legs -> 0 .. OrderQty]]
  BY DEF CoreTypeOK, CoordinatorTypeOK, LedgerTypeOK, ExchangeTypeOK
<1>2. /\ legQty'[job.id][job.arg] >= filled[job.id]
      /\ \A l \in Legs \ {job.arg} : legQty'[job.id][l] = legQty[job.id][l]
  BY <1>1 DEF Quantity
<1>3. /\ job'.id = job.id
      /\ \/ job'.at = "protect" /\ job'.arg = IF job.arg = "sl" THEN "tp" ELSE "done"
         \/ job'.at = "raised"
  BY <1>1, FillMoves
<1>4. CASE job.arg = "sl"
  BY <1>2, <1>3, <1>4 DEF CoverInv, At
<1>5. CASE job.arg = "tp"
  <2>1. legQty[job.id]["sl"] >= filled[job.id]
    BY <1>5 DEF CoverInv, At
  <2>2. legQty'[job.id]["sl"] >= filled[job.id]
    BY <1>2, <1>5, <2>1 DEF Legs
  <2>3. QED
    BY <1>2, <1>3, <1>5, <2>2 DEF CoverInv, At
<1>6. QED
  BY <1>4, <1>5 DEF Legs

\* The stop covers the fills before the target is tried, and both before the
\* loop ends.
LEMMA CallStepCover ==
  ASSUME CoreTypeOK, CoverInv, CallStep
  PROVE  CoverInv'
<1>1. job \in Jobs /\ (job.at \notin {"down", "idle"} => job.id \in Intents)
  BY DEF CoreTypeOK, CoordinatorTypeOK
<1>2. CASE Gate \/ (Submission /\ ~Send) \/ (Recovering /\ ~RecoverReads)
  <2>1. job' = Idle \/ job'.at \notin {"protect", "leg_send"}
    BY <1>1, <1>2, JobMoves DEF Gate, GateRejects, GateKnownRequest, GateKnownOrder,
       GateUnavailable, GatePasses, Submission, PersistOrder, PersistIntent, QueryFinds,
       QueryMisses, QueryRaises, PersistAck, AckRejected, AckUnknown, AckAccepted, Recovering,
       RecoverMisses, RecoverVerifies, RecoverMismatch, RecoverFails
  <2>2. QED
    BY <1>1, <2>1, JobMoves DEF CoverInv, At
<1>3. CASE Send \/ RecoverReads
  <2>1. job'.at \in {"query", "acked", "fill"}
    <3>1. CASE Go("query")
      BY <1>1, <3>1, JobMoves
    <3>2. CASE \E answer : \/ job' = [job EXCEPT !.at = "acked", !.view = answer]
                           \/ job' = [job EXCEPT !.at = "fill", !.view = answer]
      BY <1>1, <3>2 DEF Jobs
    <3>3. QED
      BY <1>3, <3>1, <3>2 DEF Send, RecoverReads
  <2>2. QED
    BY <2>1 DEF CoverInv, At
<1>4. CASE Filling
  <2>1. \/ job' = Idle
        \/ job'.at = "protect" /\ job'.arg = "sl"
        \/ job'.at \notin {"protect", "leg_send"}
    BY <1>1, <1>4, JobMoves, FillMoves DEF Filling, FillNothing, FillUnusable, FillRaises,
       FillBooked
  <2>2. QED
    BY <1>1, <2>1, JobMoves DEF CoverInv, At
<1>5. CASE LegCovered \/ (LegAmended /\ LegConfirmed) \/ LegAccepted
  <2>1. job.id \in Intents /\ job.arg \in Legs /\ job.at \in {"protect", "leg_send"}
    BY <1>1, <1>5 DEF LegCovered, LegAmended, LegAccepted, AtLeg, At, CoverInv
  <2>2. /\ UNCHANGED filled /\ LegConfirmed
        /\ \/ UNCHANGED legQty /\ legQty[job.id][job.arg] >= Quantity
           \/ legQty' = [legQty EXCEPT ![job.id][job.arg] = Quantity]
    BY <1>5 DEF LegCovered, LegAmended, LegAccepted, ledgerVars, exchangeVars
  <2>3. QED
    BY <2>1, <2>2, LegCovers
<1>6. CASE LegPlaced
  <2>1. /\ job'.at = "leg_send" /\ job'.id = job.id /\ job'.arg = job.arg
        /\ job.at = "protect" /\ job.arg \in Legs
        /\ UNCHANGED <<filled, legQty>>
    BY <1>1, <1>6, JobMoves DEF LegPlaced, AtLeg, At, exchangeVars
  <2>2. QED
    BY <2>1 DEF CoverInv, At, Legs
<1>7. CASE Protection /\ ~LegCovered /\ ~(LegAmended /\ LegConfirmed) /\ ~LegAccepted
           /\ ~LegPlaced
  <2>1. job' = Idle \/ job'.at \notin {"protect", "leg_send"}
    BY <1>1, <1>7, JobMoves, FillMoves DEF Protection, ProtectNothing, LegAmended, LegFails,
       LegRefused, LegUnknown, ProtectionFails, ProtectionVerified
  <2>2. QED
    BY <1>1, <2>1, JobMoves DEF CoverInv, At
<1>8. QED
  BY <1>2, <1>3, <1>4, <1>5, <1>6, <1>7 DEF CallStep, Protection

\* A call that opens a closed gate is a recovery, or has just seen both legs of
\* its entry cover everything booked of it.
LEMMA CallStepReopens ==
  ASSUME CoreTypeOK, CallInv, CoverInv, CallStep, GateOpens, job.op # "recover"
  PROVE  CoveredNow(job.id)
<1>1. gate = "RECOVERY" /\ gate' = "READY" /\ job \in Jobs
  BY DEF GateOpens, CoreTypeOK, CoordinatorTypeOK
<1>2. job.at \notin {"persist_order", "persist_intent", "send", "query", "acked",
                     "acknowledged", "fill", "recover", "verify", "unrecovered"}
  BY <1>1 DEF CallInv
<1>3. ~Submission /\ ~Filling /\ ~Recovering
  BY <1>2 DEF Submission, PersistOrder, PersistIntent, Send, QueryFinds, QueryMisses,
     QueryRaises, PersistAck, AckRejected, AckUnknown, AckAccepted, Filling, FillNothing,
     FillUnusable, FillRaises, FillBooked, Recovering, RecoverReads, RecoverMisses,
     RecoverVerifies, RecoverMismatch, RecoverFails, At
<1>4. ProtectionVerified
  BY <1>1, <1>3 DEF CallStep, Gate, GateRejects, GateKnownRequest, GateKnownOrder,
     GateUnavailable, GatePasses, Protection, ProtectNothing, LegCovered, LegAmended,
     LegPlaced, LegFails, LegAccepted, LegRefused, LegUnknown, ProtectionFails, EnterRecovery
<1>5. /\ legQty[job.id]["sl"] >= filled[job.id]
      /\ legQty[job.id]["tp"] >= filled[job.id]
  BY <1>4 DEF ProtectionVerified, CoverInv, At
<1>6. UNCHANGED <<filled, legQty>>
  BY <1>4 DEF ProtectionVerified, LedgerOrders, exchangeVars
<1>7. QED
  BY <1>5, <1>6 DEF CoveredNow, Legs

-----------------------------------------------------------------------------
(* The order contract.                                                     *)

ContractStep == [Contract!Next]_(Contract!contractVars)

\* A step that persists no entry, sends none, and moves no quantity stutters.
LEMMA QuietContract ==
  ASSUME UNCHANGED <<localOrder, sends, executed, filled>>
  PROVE  ContractStep
BY DEF ContractStep, Contract!contractVars, OrderKnown

\* Persisting an entry journals it, or keeps it journalled.
LEMMA PersistContract ==
  ASSUME CoreTypeOK, NEW i \in Intents, NEW status, status # "NONE",
         PersistEntry(i, status), UNCHANGED <<sends, executed, filled>>
  PROVE  ContractStep
<1> DEFINE journal == {j \in Intents : OrderKnown(j)}
<1>1. journal' = journal \union {i}
  BY DEF PersistEntry, OrderKnown, CoreTypeOK, LedgerTypeOK
<1>2. CASE OrderKnown(i)
  BY <1>1, <1>2 DEF ContractStep, Contract!contractVars
<1>3. CASE ~OrderKnown(i)
  <2>1. Contract!Journal(i)
    BY <1>1, <1>3 DEF Contract!Journal
  <2>2. QED
    BY <2>1 DEF ContractStep, Contract!Next
<1>4. QED
  BY <1>2, <1>3

\* The exchange executes more of an entry that was sent, or as much.
LEMMA ExecuteContract ==
  ASSUME CoreTypeOK, NEW i \in Intents, sends[i] = 1, NEW q \in 0 .. OrderQty,
         executed[i] <= q, executed' = [executed EXCEPT ![i] = q],
         UNCHANGED <<localOrder, sends, filled>>
  PROVE  ContractStep
<1>1. executed \in [Intents -> 0 .. OrderQty]
  BY DEF CoreTypeOK, ExchangeTypeOK
<1>2. CASE executed[i] = q
  <2>1. executed' = executed
    BY <1>1, <1>2
  <2>2. QED
    BY <2>1, QuietContract
<1>3. CASE executed[i] # q
  <2>1. q \in (executed[i] + 1) .. OrderQty
    BY <1>1, <1>3
  <2>2. Contract!Execute(i)
    BY <2>1 DEF Contract!Execute, OrderKnown
  <2>3. QED
    BY <2>2 DEF ContractStep, Contract!Next
<1>4. QED
  BY <1>2, <1>3

LEMMA CallStepContract ==
  ASSUME CoreTypeOK, JournalInv, FillInv, CallStep
  PROVE  ContractStep
<1>1. /\ job \in Jobs
      /\ job.at \notin {"down", "idle"} => job.id \in Intents
      /\ filled \in [Intents -> 0 .. OrderQty]
      /\ executed \in [Intents -> 0 .. OrderQty]
  BY DEF CoreTypeOK, CoordinatorTypeOK, LedgerTypeOK, ExchangeTypeOK
<1>2. CASE PersistOrder
  BY <1>1, <1>2, PersistContract DEF PersistOrder, At, exchangeVars
<1>3. CASE PersistAck
  BY <1>1, <1>3, PersistContract DEF PersistAck, At, exchangeVars, JournalInv
<1>4. CASE RecoverReads
  <2>1. PICK v \in Answers(job.id) : PersistEntry(job.id, v.status)
    BY <1>4 DEF RecoverReads
  <2>2. job.id \in Intents /\ remote[job.id] \in OrderViews
    BY <1>1, <1>4 DEF RecoverReads, At, OnExchange, CoreTypeOK, ExchangeTypeOK
  <2>3. v.status # "NONE"
    BY <2>2, AnswerType DEF RemoteStatus
  <2>4. UNCHANGED <<sends, executed, filled>>
    BY <1>4 DEF RecoverReads, exchangeVars
  <2>5. QED
    BY <2>1, <2>2, <2>3, <2>4, PersistContract
<1>5. CASE Send
  <2>1. /\ job.at = "send" /\ job.id \in Intents
        /\ UNCHANGED <<localOrder, filled>>
        /\ sends' = [sends EXCEPT ![job.id] = sends[job.id] + 1]
    BY <1>1, <1>5 DEF Send, At, ledgerVars
  <2>2. sends[job.id] = 0 /\ OrderKnown(job.id) /\ executed[job.id] = 0
    BY <2>1 DEF JournalInv, FillInv, At
  <2>3. sends' = [sends EXCEPT ![job.id] = 1]
    BY <2>1, <2>2
  <2>4. \E q \in 0 .. OrderQty : executed' = [executed EXCEPT ![job.id] = q]
    <3>1. CASE \E v \in FirstViews : TakeView(job.id, v)
      BY <3>1, FirstViewType, OrderViewType DEF TakeView
    <3>2. CASE UNCHANGED executed
      <4>1. executed = [executed EXCEPT ![job.id] = 0]
        BY <1>1, <2>1, <2>2
      <4>2. 0 \in 0 .. OrderQty
        BY DEF LedgerAssumption
      <4>3. QED
        BY <3>2, <4>1, <4>2
    <3>3. QED
      BY <1>5, <3>1, <3>2 DEF Send
  <2>5. Contract!Submit(job.id)
    BY <2>1, <2>2, <2>3, <2>4 DEF Contract!Submit, OrderKnown
  <2>6. QED
    BY <2>1, <2>5 DEF ContractStep, Contract!Next
<1>6. CASE FillBooked
  <2>1. /\ job.id \in Intents
        /\ job.view.filled \in 0 .. OrderQty
        /\ job.view.filled <= executed[job.id]
        /\ Delta = job.view.filled - filled[job.id]
        /\ Delta > 0
        /\ UNCHANGED <<localOrder, sends, executed>>
    BY <1>1, <1>6 DEF FillBooked, Delta, FillInv, At, Jobs, exchangeVars, RecordConfirmedFill
  <2>2. \/ filled' = filled
        \/ filled' = [filled EXCEPT ![job.id] = job.view.filled]
    <3>1. PICK price \in Prices :
            filled' = [filled EXCEPT ![job.id] =
              IF FillId(Delta, price) \in fillIds[job.id] THEN @ ELSE @ + Delta]
      BY <1>6 DEF FillBooked, RecordConfirmedFill
    <3>2. filled[job.id] + Delta = job.view.filled
      BY <1>1, <2>1
    <3>3. QED
      BY <1>1, <2>1, <3>1, <3>2
  <2>3. CASE filled' = filled
    BY <2>1, <2>3, QuietContract
  <2>4. CASE filled' = [filled EXCEPT ![job.id] = job.view.filled]
    <3>1. job.view.filled \in (filled[job.id] + 1) .. executed[job.id]
      BY <1>1, <2>1
    <3>2. Contract!Book(job.id)
      BY <2>1, <2>4, <3>1 DEF Contract!Book, OrderKnown
    <3>3. QED
      BY <2>1, <3>2 DEF ContractStep, Contract!Next
  <2>5. QED
    BY <2>2, <2>3, <2>4
<1>7. CASE ~PersistOrder /\ ~PersistAck /\ ~RecoverReads /\ ~Send /\ ~FillBooked
  <2>1. UNCHANGED <<localOrder, sends, executed, filled>>
    <3>1. CASE Gate
      BY <3>1 DEF Gate, GateRejects, GateKnownRequest, GateKnownOrder, GateUnavailable,
         GatePasses, ledgerVars, LedgerOrders, exchangeVars
    <3>2. CASE Submission
      BY <1>7, <3>2 DEF Submission, PersistIntent, QueryFinds, QueryMisses, QueryRaises,
         AckRejected, AckUnknown, AckAccepted, ledgerVars, LedgerOrders, exchangeVars
    <3>3. CASE Filling
      BY <1>7, <3>3 DEF Filling, FillNothing, FillUnusable, FillRaises, ledgerVars,
         LedgerOrders, exchangeVars
    <3>4. CASE Protection
      BY <3>4 DEF Protection, ProtectNothing, LegCovered, LegAmended, LegPlaced, LegFails,
         LegAccepted, LegRefused, LegUnknown, ProtectionFails, ProtectionVerified,
         ledgerVars, LedgerOrders, exchangeVars
    <3>5. CASE Recovering
      BY <1>7, <3>5 DEF Recovering, RecoverMisses, RecoverVerifies, RecoverMismatch,
         RecoverFails, ledgerVars, LedgerOrders, exchangeVars
    <3>6. QED
      BY <3>1, <3>2, <3>3, <3>4, <3>5 DEF CallStep
  <2>2. QED
    BY <2>1, QuietContract
<1>8. QED
  BY <1>2, <1>3, <1>4, <1>5, <1>6, <1>7

\* The exchange executes only what was sent to it, and never takes back.
LEMMA ExchangeContract ==
  ASSUME CoreTypeOK, JournalInv, FillInv, UNCHANGED <<localOrder, filled>>,
         NEW i \in Intents,
         Arrive(i) \/ Progress(i) \/ (\E l \in Legs : LegEnds(i, l))
  PROVE  ContractStep
<1>1. CASE Arrive(i)
  <2>1. PICK v \in OrderViews : TakeView(i, v)
    BY <1>1 DEF Arrive
  <2>2. sends[i] = 1 /\ executed[i] = 0 /\ UNCHANGED sends
    BY <1>1 DEF Arrive, JournalInv, FillInv
  <2>3. v.filled \in 0 .. OrderQty /\ executed' = [executed EXCEPT ![i] = v.filled]
    BY <2>1, OrderViewType DEF TakeView
  <2>4. executed[i] <= v.filled
    BY <2>2, <2>3
  <2>5. QED
    BY <2>2, <2>3, <2>4, ExecuteContract
<1>2. CASE Progress(i)
  <2>1. PICK v \in OrderViews : TakeView(i, v) /\ v.filled >= remote[i].filled
    BY <1>2 DEF Progress
  <2>2. OnExchange(i) /\ UNCHANGED sends
    BY <1>2 DEF Progress, OpenAtExchange, OnExchange, NoOrder, View
  <2>3. sends[i] = 1 /\ executed[i] = remote[i].filled
    BY <2>2 DEF JournalInv, FillInv
  <2>4. v.filled \in 0 .. OrderQty /\ executed' = [executed EXCEPT ![i] = v.filled]
    BY <2>1, OrderViewType DEF TakeView
  <2>5. executed[i] \in 0 .. OrderQty
    BY DEF CoreTypeOK, ExchangeTypeOK
  <2>6. executed[i] <= v.filled
    BY <2>1, <2>3, <2>4, <2>5
  <2>7. QED
    BY <2>2, <2>3, <2>4, <2>6, ExecuteContract
<1>3. CASE \E l \in Legs : LegEnds(i, l)
  BY <1>3, QuietContract DEF LegEnds
<1>4. QED
  BY <1>1, <1>2, <1>3
=============================================================================
