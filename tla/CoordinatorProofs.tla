------------------------- MODULE CoordinatorProofs --------------------------
(***************************************************************************)
(* Theorems of CoordinatorProcess, for any number of intents and symbols,  *)
(* any quantity, any prices, every mode and every kind of exchange.  The   *)
(* inductive invariant is the one of CoordinatorSteps; what is left is     *)
(* what the process does around its calls: it begins them, it crashes, it  *)
(* restarts, and it sets the kill switch.                                  *)
(***************************************************************************)
EXTENDS CoordinatorProcess, CoordinatorSteps

IInv == CoreTypeOK /\ JournalInv /\ ClearInv /\ FillInv

\* The steps of Next that are not steps of a call.
BeginCall == \E i \in Intents : SubmitIntent(i) \/ Recover(i)
Around ==
  \/ BeginCall
  \/ CallRaises
  \/ \E state \in BOOLEAN : SetKillSwitch(state)
  \/ Crash
  \/ Restart

USE LedgerAssumption, ExchangeAssumption, CoordinatorAssumption

LEMMA NextCases ==
  ASSUME Next
  PROVE  CallStep \/ ExchangeMoves \/ Around
BY DEF Next, Around, BeginCall

LEMMA IdleType == Idle \in Jobs /\ Idle.at = "idle"
BY DEF Idle, Job, Jobs, Places, NoOrder, View

LEMMA DownType == Down \in Jobs /\ Down.at = "down"
BY DEF Down, Job, Jobs, Places, NoOrder, View

LEMMA InitIInv == Init => IInv
<1> SUFFICES ASSUME Init PROVE IInv
  OBVIOUS
<1> USE DEF Init, LedgerInit, ExchangeInit, CoordinatorInit
<1>1. LedgerTypeOK
  <2>1. localLeg \in [Intents -> [Legs -> {"NONE", "OPEN", "DONE"}]]
    OBVIOUS
  <2>2. /\ filled \in [Intents -> 0 .. OrderQty]
        /\ position \in [Symbols -> Int]
        /\ fillIds \in [Intents -> SUBSET ((1 .. OrderQty) \X Prices)]
    BY DEF LedgerAssumption
  <2>3. QED
    BY <2>1, <2>2 DEF LedgerTypeOK
<1>2. ExchangeTypeOK
  <2>1. legQty \in [Intents -> [Legs -> 0 .. OrderQty]]
    BY DEF LedgerAssumption
  <2>2. QED
    BY <2>1 DEF ExchangeTypeOK, LedgerAssumption
<1>3. CoordinatorTypeOK
  BY DownType DEF CoordinatorTypeOK
<1>4. JournalInv
  BY DownType DEF JournalInv, OnExchange, At
<1>5. ClearInv
  BY DownType DEF ClearInv, CachedGateSound, At
<1>6. FillInv
  BY DownType DEF FillInv, NoPhantomFills, LegsWithinFills, OnExchange, At
<1>7. QED
  BY <1>1, <1>2, <1>3, <1>4, <1>5, <1>6 DEF IInv, CoreTypeOK

\* A process that ends leaves every row where it was, and an exchange that
\* knows no more than before.
LEMMA CrashLeaves ==
  ASSUME CoreTypeOK, Crash
  PROVE  /\ UNCHANGED <<LedgerRows, inflight, sends, executed, legEnded>>
         /\ \A i \in Intents : remote'[i] \in {remote[i], NoOrder}
         /\ \A i \in Intents : \A l \in Legs : legQty'[i][l] \in {legQty[i][l], 0}
         /\ ExchangeTypeOK'
         /\ job' = Down /\ gate' = "RECOVERY"
<1>1. CASE Networked
  BY <1>1 DEF Crash, ForgetProcess, ExchangeAfterCrash, exchangeVars, CoreTypeOK,
     ExchangeTypeOK
<1>2. CASE ~Networked
  <2>1. /\ remote' = [i \in Intents |-> NoOrder]
        /\ legQty' = [i \in Intents |-> [l \in Legs |-> 0]]
        /\ holding' = [s \in Symbols |-> 0]
        /\ UNCHANGED <<inflight, legEnded, sends, executed>>
    BY <1>2 DEF Crash, ForgetProcess, ExchangeAfterCrash
  <2>2. legQty' \in [Intents -> [Legs -> 0 .. OrderQty]]
    BY <2>1 DEF LedgerAssumption
  <2>3. QED
    BY <2>1, <2>2 DEF Crash, ForgetProcess, CoreTypeOK, ExchangeTypeOK
<1>3. QED
  BY <1>1, <1>2

LEMMA AroundIInv ==
  ASSUME IInv, Around
  PROVE  IInv'
<1> USE DEF IInv, CoreTypeOK
<1>1. CASE BeginCall
  <2>1. PICK i \in Intents :
          /\ \/ job' = Job("gate", "direct", i, NoOrder, "none")
             \/ job' = Job("recover", "recover", i, NoOrder, "none")
          /\ UNCHANGED <<ledgerVars, exchangeVars, requests, reqLegs, gate>>
    BY <1>1 DEF BeginCall, SubmitIntent, Recover
  <2>2. job' \in Jobs /\ job'.id \in Intents /\ job'.at \in {"gate", "recover"}
    BY <2>1 DEF Job, Jobs, Places, NoOrder, View
  <2>3. LedgerTypeOK' /\ ExchangeTypeOK' /\ CoordinatorTypeOK'
    BY <2>1, <2>2 DEF LedgerTypeOK, ExchangeTypeOK, CoordinatorTypeOK, ledgerVars, exchangeVars
  <2>4. JournalInv' /\ FillInv'
    BY <2>1, <2>2, QuietJournal, QuietFill DEF ledgerVars, exchangeVars
  <2>5. ClearInv'
    BY <2>1, <2>2 DEF ClearInv, CachedGateSound, RecoveryState, At, ledgerVars
  <2>6. QED
    BY <2>3, <2>4, <2>5
<1>2. CASE CallRaises
  <2>1. /\ job' = Idle
        /\ UNCHANGED <<ledgerVars, exchangeVars, requests, reqLegs, gate>>
    BY <1>2 DEF CallRaises
  <2>2. LedgerTypeOK' /\ ExchangeTypeOK' /\ CoordinatorTypeOK'
    BY <2>1, IdleType DEF LedgerTypeOK, ExchangeTypeOK, CoordinatorTypeOK, ledgerVars,
       exchangeVars
  <2>3. JournalInv' /\ FillInv'
    BY <2>1, IdleType, QuietJournal, QuietFill DEF ledgerVars, exchangeVars
  <2>4. ClearInv'
    BY <2>1, IdleType DEF ClearInv, CachedGateSound, RecoveryState, At, ledgerVars
  <2>5. QED
    BY <2>2, <2>3, <2>4
<1>3. ASSUME NEW state \in BOOLEAN, SetKillSwitch(state)
      PROVE  IInv'
  <2>1. /\ job.at = "idle" /\ killed' \in BOOLEAN
        /\ UNCHANGED <<intentStatus, localOrder, localLeg, filled, fillIds, position,
                       lastRow, ledgerMem, exchangeVars, coordinatorVars>>
    BY <1>3 DEF SetKillSwitch, At
  <2>2. LedgerTypeOK' /\ ExchangeTypeOK' /\ CoordinatorTypeOK'
    BY <2>1 DEF LedgerTypeOK, ExchangeTypeOK, CoordinatorTypeOK, coordinatorVars, exchangeVars
  <2>3. JournalInv' /\ FillInv'
    BY <2>1, QuietJournal, QuietFill DEF coordinatorVars, exchangeVars
  <2>4. ClearInv'
    BY <2>1 DEF ClearInv, CachedGateSound, RecoveryState, At, coordinatorVars
  <2>5. QED
    BY <2>2, <2>3, <2>4
<1>4. CASE Crash
  <2>1. /\ UNCHANGED <<LedgerRows, inflight, sends, executed, legEnded>>
        /\ \A i \in Intents : remote'[i] \in {remote[i], NoOrder}
        /\ \A i \in Intents : \A l \in Legs : legQty'[i][l] \in {legQty[i][l], 0}
        /\ ExchangeTypeOK'
        /\ job' = Down /\ gate' = "RECOVERY"
    BY <1>4, CrashLeaves
  <2>2. requests' = {} /\ reqLegs' = {} /\ ledgerMem' = "READY"
    BY <1>4 DEF Crash, ForgetProcess
  <2>3. LedgerTypeOK' /\ CoordinatorTypeOK'
    BY <2>1, <2>2, DownType DEF LedgerTypeOK, CoordinatorTypeOK, LedgerRows
  <2>4. JournalInv'
    BY <2>1, DownType DEF JournalInv, OnExchange, OrderKnown, At, LedgerRows
  <2>5. ClearInv'
    BY <2>1, DownType DEF ClearInv, CachedGateSound, At
  <2>6. FillInv'
    <3>1. \A i \in Intents : filled[i] >= 0
      BY DEF LedgerTypeOK
    <3>2. NoPhantomFills' /\ LegsWithinFills'
      BY <2>1, <3>1 DEF FillInv, NoPhantomFills, LegsWithinFills, LedgerRows
    <3>3. /\ \A i \in Intents : sends'[i] = 0 => executed'[i] = 0
          /\ \A i \in Intents : OnExchange(i)' => executed'[i] = remote'[i].filled
          /\ \A i \in inflight' : ~OnExchange(i)' /\ executed'[i] = 0
      BY <2>1 DEF FillInv, OnExchange, ExchangeTypeOK
    <3>4. QED
      BY <2>1, <3>2, <3>3, DownType DEF FillInv, At
  <2>7. QED
    BY <2>1, <2>3, <2>4, <2>5, <2>6
<1>5. CASE Restart
  <2>1. /\ job' = Idle
        /\ gate' = RecoveryState
        /\ UNCHANGED <<ledgerVars, exchangeVars, requests, reqLegs>>
    BY <1>5 DEF Restart
  <2>2. LedgerTypeOK' /\ ExchangeTypeOK' /\ CoordinatorTypeOK'
    BY <2>1, IdleType DEF LedgerTypeOK, ExchangeTypeOK, CoordinatorTypeOK, RecoveryState,
       ledgerVars, exchangeVars
  <2>3. JournalInv' /\ FillInv'
    BY <2>1, IdleType, QuietJournal, QuietFill DEF ledgerVars, exchangeVars
  <2>4. ClearInv'
    BY <2>1, IdleType DEF ClearInv, CachedGateSound, RecoveryState, At, ledgerVars
  <2>5. QED
    BY <2>2, <2>3, <2>4
<1>6. QED
  BY <1>1, <1>2, <1>3, <1>4, <1>5 DEF Around

LEMMA ExchangeMovesIInv ==
  ASSUME IInv, ExchangeMoves
  PROVE  IInv'
<1> USE DEF IInv, CoreTypeOK
<1>1. PICK i \in Intents : Arrive(i) \/ Progress(i) \/ (\E l \in Legs : LegEnds(i, l))
  BY DEF ExchangeMoves
<1>2. UNCHANGED <<ledgerVars, coordinatorVars>>
  BY DEF ExchangeMoves
<1>3. ExchangeTypeOK' /\ JournalInv' /\ FillInv'
  BY <1>1, <1>2, ExchangeTypes, ExchangeJournal, ExchangeFill DEF ledgerVars, coordinatorVars
<1>4. LedgerTypeOK' /\ CoordinatorTypeOK'
  BY <1>2 DEF LedgerTypeOK, CoordinatorTypeOK, ledgerVars, coordinatorVars
<1>5. ClearInv'
  BY <1>2 DEF ClearInv, CachedGateSound, RecoveryState, At, ledgerVars, coordinatorVars
<1>6. QED
  BY <1>3, <1>4, <1>5

\* The invariant is inductive.
LEMMA NextIInv == IInv /\ [Next]_vars => IInv'
<1> SUFFICES ASSUME IInv, [Next]_vars PROVE IInv'
  OBVIOUS
<1>1. CASE CallStep
  BY <1>1, CallStepTypes, CallStepJournal, CallStepClear, CallStepFill DEF IInv
<1>2. CASE ExchangeMoves
  BY <1>2, ExchangeMovesIInv
<1>3. CASE Around
  BY <1>3, AroundIInv
<1>4. CASE UNCHANGED vars
  BY <1>4 DEF vars, ledgerVars, exchangeVars, coordinatorVars, IInv, CoreTypeOK, LedgerTypeOK,
     ExchangeTypeOK, CoordinatorTypeOK, JournalInv, ClearInv, FillInv, CachedGateSound,
     RecoveryState, NoPhantomFills, LegsWithinFills, OnExchange, OrderKnown, At
<1>5. QED
  BY <1>1, <1>2, <1>3, <1>4, NextCases

THEOREM Inductive == Spec => []IInv
<1>1. QED
  BY InitIInv, NextIInv, PTL DEF Spec

-----------------------------------------------------------------------------
(* What the invariant implies.                                             *)

\* Every variable of the process stays in its range.
THEOREM TypeCorrect == Spec => []TypeOK
<1>1. IInv => TypeOK
  BY DEF IInv, CoreTypeOK, TypeOK
<1>2. QED
  BY Inductive, <1>1, PTL

\* No entry is submitted twice, whatever is retried, restarted or answered late:
\* submit_intent persists the order row before it sends, and asks for that row.
THEOREM SentAtMostOnce == Spec => []AtMostOneSend
<1>1. IInv => AtMostOneSend
  BY DEF IInv, JournalInv, AtMostOneSend
<1>2. QED
  BY Inductive, <1>1, PTL

\* An entry the exchange holds, or may still receive, has a durable order row.
THEOREM KnownDurably == Spec => []ExchangeKnownDurably
<1>1. IInv => ExchangeKnownDurably
  <2>1. ASSUME IInv, NEW i \in Intents, sends[i] > 0 \/ OnExchange(i) \/ i \in inflight
        PROVE  OrderKnown(i)
    <3>1. sends[i] = 1
      BY <2>1 DEF IInv, JournalInv
    <3>2. QED
      BY <2>1, <3>1 DEF IInv, JournalInv
  <2>2. QED
    BY <2>1 DEF ExchangeKnownDurably
<1>2. QED
  BY Inductive, <1>1, PTL

\* The fill rows of an entry never claim more than the exchange executed of it,
\* although what it answers may be late or out of order.
THEOREM FillsAreReal == Spec => []NoPhantomFills
<1>1. IInv => NoPhantomFills
  BY DEF IInv, FillInv
<1>2. QED
  BY Inductive, <1>1, PTL

\* No protective order is ever larger than the confirmed fills of its entry.
THEOREM LegsAreWithinFills == Spec => []LegsWithinFills
<1>1. IInv => LegsWithinFills
  BY DEF IInv, FillInv
<1>2. QED
  BY Inductive, <1>1, PTL

\* The cached gate is never open on a ledger that says RECOVERY.
THEOREM GateIsSound == Spec => []CachedGateSound
<1>1. IInv => CachedGateSound
  BY DEF IInv, ClearInv
<1>2. QED
  BY Inductive, <1>1, PTL

\* No entry is sent while the kill switch is on or a reconciliation is open.
THEOREM SendsFindGatesOpen == Spec => SendsAreClear
<1>1. IInv /\ [Next]_vars => [SendIsClear]_vars
  <2> SUFFICES ASSUME IInv, [Next]_vars PROVE [SendIsClear]_vars
    OBVIOUS
  <2>1. CASE CallStep
    BY <2>1, CallStepSendIsClear DEF IInv
  <2>2. CASE ExchangeMoves \/ Around
    <3>1. UNCHANGED sends
      BY <2>2, CrashLeaves DEF ExchangeMoves, Arrive, Progress, LegEnds, Around, BeginCall,
         SubmitIntent, Recover, CallRaises, SetKillSwitch, Restart, exchangeVars, IInv
    <3>2. QED
      BY <3>1 DEF SendIsClear
  <2>3. QED
    BY <2>1, <2>2, NextCases
<1>2. QED
  BY Inductive, <1>1, PTL DEF Spec, SendsAreClear

-----------------------------------------------------------------------------
(* The gate a submission opens again.                                      *)

\* Where a call has got to and what its entry's legs cover by then: a gate found
\* closed by an open call was closed by that call.
ProtectInv == CallInv /\ CoverInv

LEMMA InitProtect == Init => ProtectInv
BY DownType DEF Init, CoordinatorInit, ProtectInv, CallInv, CoverInv, Down, Job, At

\* What the process does around its calls.
LEMMA AroundProtect ==
  ASSUME IInv, ProtectInv, Around \/ ExchangeMoves
  PROVE  ProtectInv'
<1> USE DEF ProtectInv
<1>1. CASE BeginCall
  <2>1. \/ job'.at = "gate" /\ job'.op = "direct"
        \/ job'.at = "recover" /\ job'.op = "recover"
    BY <1>1 DEF BeginCall, SubmitIntent, Recover, Job
  <2>2. QED
    BY <2>1 DEF CallInv, CoverInv, At
<1>2. CASE CallRaises \/ Crash \/ Restart
  <2>1. job' = Idle \/ job' = Down
    BY <1>2 DEF CallRaises, Crash, Restart
  <2>2. QED
    BY <2>1 DEF CallInv, CoverInv, At, Idle, Down, Job
<1>3. CASE ExchangeMoves \/ \E state \in BOOLEAN : SetKillSwitch(state)
  <2>1. UNCHANGED <<job, gate, filled, legQty>>
    BY <1>3 DEF ExchangeMoves, Arrive, Progress, LegEnds, SetKillSwitch, ledgerVars,
       exchangeVars, coordinatorVars
  <2>2. QED
    BY <2>1 DEF CallInv, CoverInv, At
<1>4. QED
  BY <1>1, <1>2, <1>3 DEF Around

LEMMA NextProtect ==
  ASSUME IInv, ProtectInv, [Next]_vars
  PROVE  ProtectInv'
<1>1. CASE CallStep
  BY <1>1, CallStepCall, CallStepCover DEF IInv, ProtectInv
<1>2. CASE Around \/ ExchangeMoves
  BY <1>2, AroundProtect
<1>3. CASE UNCHANGED vars
  BY <1>3 DEF vars, ledgerVars, exchangeVars, coordinatorVars, ProtectInv, CallInv, CoverInv, At
<1>4. QED
  BY <1>1, <1>2, <1>3, NextCases

\* Whenever a submission opens the gate, a stop and a target cover all that is
\* booked of its entry, whatever the exchange filled or dropped meanwhile.
THEOREM SubmissionsReopenProtected == Spec => SubmissionReopensProtected
<1>1. IInv /\ ProtectInv /\ [Next]_vars =>
        [GateOpens /\ job.op = "direct" => CoveredNow(job.id)]_vars
  <2> SUFFICES ASSUME IInv, ProtectInv, [Next]_vars, GateOpens, job.op = "direct"
               PROVE  CoveredNow(job.id)
    OBVIOUS
  <2>1. CASE CallStep
    BY <2>1, CallStepReopens DEF IInv, ProtectInv
  <2>2. CASE ~CallStep
    <3>1. gate = "RECOVERY" /\ gate' = "READY"
      BY DEF GateOpens
    <3>2. Restart
      BY <2>2, <3>1, NextCases, CrashLeaves DEF vars, ExchangeMoves, coordinatorVars, Around,
         BeginCall, SubmitIntent, Recover, CallRaises, SetKillSwitch, IInv
    <3>3. job.op = "none"
      BY <3>2 DEF Restart, At, ProtectInv, CallInv
    <3>4. QED
      BY <3>3
  <2>3. QED
    BY <2>1, <2>2
<1>2. IInv /\ ProtectInv /\ [Next]_vars => ProtectInv'
  BY NextProtect
<1>3. QED
  BY Inductive, InitProtect, <1>1, <1>2, PTL DEF Spec, SubmissionReopensProtected

-----------------------------------------------------------------------------
(* The order contract.                                                     *)

LEMMA InitContract == Init => Contract!Init
BY DEF Init, LedgerInit, ExchangeInit, CoordinatorInit, Contract!Init, OrderKnown

LEMMA NextContract ==
  ASSUME IInv, [Next]_vars
  PROVE  ContractStep
<1>1. CASE CallStep
  BY <1>1, CallStepContract DEF IInv
<1>2. CASE ExchangeMoves
  BY <1>2, ExchangeContract DEF ExchangeMoves, IInv, ledgerVars
<1>3. CASE Around \/ UNCHANGED vars
  <2>1. UNCHANGED <<localOrder, sends, executed, filled>>
    BY <1>3, CrashLeaves DEF Around, BeginCall, SubmitIntent, Recover, CallRaises,
       SetKillSwitch, Restart, vars, ledgerVars, exchangeVars, LedgerRows, IInv
  <2>2. QED
    BY <2>1, QuietContract
<1>4. QED
  BY <1>1, <1>2, <1>3, NextCases

\* The coordinator implements the order contract: an entry is journalled before
\* it is sent, sent at most once, executed only after that, and booked within
\* what was executed, step by step, across crashes and late answers.
THEOREM ContractImplemented == Spec => ImplementsContract
<1>1. IInv /\ [Next]_vars => [Contract!Next]_(Contract!contractVars)
  BY NextContract DEF ContractStep
<1>2. QED
  BY Inductive, InitContract, <1>1, PTL DEF Spec, ImplementsContract, Contract!Spec
=============================================================================
