------------------------------ MODULE RiskGate ------------------------------
(***************************************************************************)
(* RiskGate (brain/risk/gate.py): the checks of one evaluation, the size   *)
(* it allows, and the kill switch that stays on until it is reset.  The    *)
(* switch is kept in memory and, when the gate was given a ledger, as a    *)
(* row the next gate reads.                                                *)
(*                                                                         *)
(* A market is the part of ExchangeMetadata the size depends on; quantities *)
(* are counted in the finest unit, and a maximum of 0 stands for none.     *)
(***************************************************************************)
EXTENDS DecisionEngines

CONSTANTS
  RiskUsd,            \* account size times risk per trade
  MinimumConfidence,  \* 75
  MaxPositions,       \* max_concurrent_positions
  DrawdownKill,       \* daily_drawdown_kill_pct
  HighVolatility,     \* ATR at which the volatility regime is HIGH
  EntryCost,          \* fees and slippage of one unit at the entry price
  GateLedger          \* the gate was given a ledger

ASSUME GateAssumption ==
  /\ {RiskUsd, MinimumConfidence, MaxPositions, DrawdownKill, EntryCost} \subseteq Nat
  /\ HighVolatility \in Nat \ {0}
  /\ GateLedger \in BOOLEAN

VARIABLES
  latched,   \* _killed
  killRow    \* the latest kill-switch row says KILLED

gateVars == <<latched, killRow>>

Markets == [multiplier : Nat \ {0}, step : Nat, minimum : Nat, maximum : Nat]

-----------------------------------------------------------------------------
(* One evaluation (_evaluate). *)

\* The reasons against the decision.  Spread, liquidity and correlated
\* positions are not among them: the pipeline passes none.
Rejections(e, d, positions, drawdown) ==
  {r \in {"quality", "volatility", "killed", "action", "confidence", "stop", "positions",
          "drawdown"} :
     \/ r = "quality" /\ ~e.valid
     \/ r = "volatility" /\ e.volatility >= HighVolatility
     \/ r = "killed" /\ latched
     \/ r = "action" /\ d.side = 0
     \/ r = "confidence" /\ d.confidence < MinimumConfidence
     \/ r = "stop" /\ d.side * (d.entry - d.stop) <= 0
     \/ r = "positions" /\ positions >= MaxPositions
     \/ r = "drawdown" /\ drawdown >= DrawdownKill}

UnitLoss(d, m) == (Abs(d.entry - d.stop) + EntryCost) * m.multiplier

\* Mutant: the size is rounded up to the step.
CeilToStep(x, step) == IF step = 0 THEN x ELSE ((x + step - 1) \div step) * step

FloorToStep(x, step) == IF step = 0 THEN x ELSE (x \div step) * step

\* What the risk buys, floored to the step, at most the maximum.
Quantity(d, m) ==
  LET stepped == FloorToStep(RiskUsd \div UnitLoss(d, m), m.step)
  IN IF m.maximum > 0 /\ stepped > m.maximum THEN m.maximum ELSE stepped

Approved(e, d, positions, drawdown) ==
  /\ Rejections(e, d, positions, drawdown) = {}
  /\ Quantity(d, e.market) >= e.market.minimum

-----------------------------------------------------------------------------
(* The kill switch. *)

GateInit == latched = FALSE /\ killRow = FALSE

\* kill: latched first, then recorded.
SwitchOn ==
  /\ latched' = TRUE
  /\ killRow' = GateLedger

\* An evaluation at the drawdown limit calls kill.
SwitchAt(drawdown) == IF drawdown >= DrawdownKill THEN SwitchOn ELSE UNCHANGED gateVars

\* reset raises without confirmation and a reason.
SwitchOff(confirm, reasoned) ==
  /\ confirm /\ reasoned
  /\ latched' = FALSE
  /\ killRow' = FALSE

\* Mutant: a new gate does not read the row.
NewGateOpen ==
  /\ latched' = FALSE
  /\ UNCHANGED killRow

\* A new gate, in a new process.
NewGate ==
  /\ latched' = (GateLedger /\ killRow)
  /\ UNCHANGED killRow
=============================================================================
