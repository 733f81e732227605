------------------------- MODULE CoordinatorProcess -------------------------
(***************************************************************************)
(* A process that uses the coordinator as a library: it calls              *)
(* submit_intent and recover one at a time, crashes anywhere, and is       *)
(* restarted as a new ExecutionLedger and ExecutionCoordinator on the same *)
(* database, while the exchange goes on by itself.                         *)
(***************************************************************************)
EXTENDS Coordinator

vars == <<ledgerVars, exchangeVars, coordinatorVars>>

\* What a process that ends takes with it.  Restart reads the gate anew; until
\* then there is no gate to pass, which counts as closed.
ForgetProcess ==
  /\ requests' = {}
  /\ reqLegs' = {}
  /\ gate' = "RECOVERY"
  /\ ledgerMem' = "READY"
  /\ ExchangeAfterCrash

LedgerRows ==
  <<intentStatus, localOrder, localLeg, filled, fillIds, position, lastRow, killed>>

Crash ==
  /\ ~At("down")
  /\ job' = Down
  /\ ForgetProcess
  /\ UNCHANGED LedgerRows

\* ExecutionLedger.__init__ and ExecutionCoordinator.__init__.
Restart ==
  /\ At("down")
  /\ job' = Idle
  /\ gate' = RecoveryState
  /\ UNCHANGED <<ledgerVars, exchangeVars, requests, reqLegs>>

\* The caller sees the exception and carries on.
CallRaises ==
  /\ At("raised")
  /\ job' = Idle
  /\ UNCHANGED <<ledgerVars, exchangeVars, requests, reqLegs, gate>>

\* RiskGate.kill and RiskGate.reset with this ledger: one thread owns the
\* connection, so neither runs inside a call.
SetKillSwitch(state) ==
  /\ At("idle")
  /\ killed # state
  /\ killed' = state
  /\ UNCHANGED <<intentStatus, localOrder, localLeg, filled, fillIds, position,
                 lastRow, ledgerMem, exchangeVars, coordinatorVars>>

ExchangeMoves ==
  /\ \E i \in Intents : \/ Arrive(i)
                       \/ Progress(i)
                       \/ \E l \in Legs : LegEnds(i, l)
  /\ UNCHANGED <<ledgerVars, coordinatorVars>>

Init == LedgerInit /\ ExchangeInit /\ CoordinatorInit

Next ==
  \/ \E i \in Intents : SubmitIntent(i) \/ Recover(i)
  \/ CallStep
  \/ CallRaises
  \/ \E state \in BOOLEAN : SetKillSwitch(state)
  \/ ExchangeMoves
  \/ Crash
  \/ Restart

Spec == Init /\ [][Next]_vars

-----------------------------------------------------------------------------
\* Every variable stays in its range, and a call in progress has an intent.
TypeOK == LedgerTypeOK /\ ExchangeTypeOK /\ CoordinatorTypeOK

\* An entry leaves for the exchange only while the durable kill switch is off
\* and the ledger's latest reconciliation row matches (the gates of submit_intent).
SendsAreClear == [][SendIsClear]_vars

\* When a submission closed the gate on a fill and opens it again, every unit
\* booked for that entry is covered by a stop and a target the exchange took
\* (synchronize_protection); a leg may end any time later.
SubmissionReopensProtected ==
  [][GateOpens /\ job.op = "direct" => CoveredNow(job.id)]_vars

\* process_confirmed_fill's docstring: the newly observed quantity is applied,
\* so a booking leaves the fill rows at the reported cumulative quantity.
FillsCatchUp ==
  [][fillIds' # fillIds \/ position' # position => filled'[job.id] = job.view.filled]_vars

\* synchronize_protection answers whether the entry is protected: a leg the
\* exchange confirmed never makes the call raise.
ConfirmedLegsCount ==
  [][At("leg_send") => job'.at # "raised"]_vars

\* The coordinator implements the order contract step by step.
ImplementsContract == Contract!Spec
=============================================================================
