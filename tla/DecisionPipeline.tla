-------------------------- MODULE DecisionPipeline --------------------------
(***************************************************************************)
(* ApexBrainPipeline.run: the readings of one context become a decision,   *)
(* the risk gate approves or rejects it, an approved one becomes an        *)
(* execution intent.  Between two runs any reading may turn, an operator   *)
(* may use the kill switch, and the process may be restarted.              *)
(***************************************************************************)
EXTENDS RiskGate

CONSTANTS
  Readings,    \* what each field of the evidence may be
  Quiet,       \* the evidence of the first context
  Rare,        \* bound: fields of which at most one is not as in Quiet
  Positions,   \* open positions run may be called with
  Drawdowns    \* daily drawdowns, in percent, run may be called with

VARIABLES
  evidence,  \* the readings of the context
  decision,  \* what APEXDecisionBrain decides on them
  result,    \* what run returned for the context
  halted     \* observer: the gate was killed and not reset since

vars == <<evidence, decision, result, halted, latched, killRow>>

Sources == DOMAIN Readings

ASSUME PipelineAssumption ==
  /\ DOMAIN Quiet = Sources
  /\ \A s \in Sources : Quiet[s] \in Readings[s]
  /\ Rare \subseteq Sources
  /\ Positions \subseteq Nat
  /\ Drawdowns \subseteq Nat

\* What the engines and the context can report, where the arithmetic needs it.
Reported ==
  [frames |-> UNION {[present -> Side] : present \in SUBSET {"4h", "1h", "15m", "5m", "1m"}},
   stale |-> BOOLEAN, busy |-> BOOLEAN, valid |-> BOOLEAN,
   structure |-> [bias : Side, trend : BOOLEAN],
   sweep |-> [bias : Side, displaced : BOOLEAN],
   gap |-> Side, block |-> Side, flow |-> -2 .. 2, book |-> -2 .. 2,
   oi |-> [price : Int, interest : Int, heavy : BOOLEAN],
   vwap |-> Side, funding |-> Side, profile |-> Side,
   auction |-> [value : {"HIGHER", "LOWER", "BALANCE", "ACCEPTED"},
                range : {"narrow", "middle", "wide"}],
   atr |-> Nat, volatility |-> Nat, market |-> Markets]

ASSUME ReadingsAssumption ==
  DOMAIN Reported \subseteq Sources /\ \A s \in DOMAIN Reported : Readings[s] \subseteq Reported[s]

NoResult == [status |-> "none", side |-> 0, quantity |-> 0]

Init ==
  /\ evidence = Quiet
  /\ decision = Decision(Quiet)
  /\ result = NoResult
  /\ halted = FALSE
  /\ GateInit

-----------------------------------------------------------------------------

\* run, up to the decision: the context differs from the last one in one reading.
\* Bound: while the gate is latched nothing turns, the answer is the same.
Analyze(s) ==
  /\ result = NoResult /\ ~latched
  /\ s \in Rare => \A r \in Rare \ {s} : evidence[r] = Quiet[r]
  /\ \E reading \in Readings[s] \ {evidence[s]} : evidence' = [evidence EXCEPT ![s] = reading]
  /\ decision' = Decision(evidence')
  /\ UNCHANGED <<result, halted, latched, killRow>>

\* A direction of the order blocks makes run raise AttributeError, before the
\* gate is asked: ConfluenceEngine has no order_block.
RunRaises ==
  /\ result = NoResult
  /\ evidence.block # 0
  /\ result' = [NoResult EXCEPT !.status = "raised"]
  /\ UNCHANGED <<evidence, decision, halted, latched, killRow>>

\* The intent of an approved decision; one the gate rejects becomes WAIT.
Answer(positions, drawdown) ==
  IF Approved(evidence, decision, positions, drawdown)
  THEN [status |-> "intent", side |-> decision.side,
        quantity |-> Quantity(decision, evidence.market)]
  ELSE [NoResult EXCEPT !.status = "wait"]

\* run, from the gate on.
Run(positions, drawdown) ==
  /\ result = NoResult
  /\ evidence.block = 0
  /\ result' = Answer(positions, drawdown)
  /\ SwitchAt(drawdown)
  /\ halted' = (halted \/ drawdown >= DrawdownKill)
  /\ UNCHANGED <<evidence, decision>>

\* The result handler takes the result.
Handle ==
  /\ result # NoResult
  /\ result' = NoResult
  /\ UNCHANGED <<evidence, decision, halted, latched, killRow>>

-----------------------------------------------------------------------------
(* The operator and the process. *)

Kill ==
  /\ SwitchOn
  /\ halted' = TRUE
  /\ result' = NoResult
  /\ UNCHANGED <<evidence, decision>>

Reset ==
  /\ \E confirm, reasoned \in BOOLEAN : SwitchOff(confirm, reasoned)
  /\ halted' = FALSE
  /\ result' = NoResult
  /\ UNCHANGED <<evidence, decision>>

Restart ==
  /\ NewGate
  /\ result' = NoResult
  /\ UNCHANGED <<evidence, decision, halted>>

Next ==
  \/ \E s \in Sources : Analyze(s)
  \/ RunRaises
  \/ \E positions \in Positions, drawdown \in Drawdowns : Run(positions, drawdown)
  \/ Handle
  \/ Kill
  \/ Reset
  \/ Restart

Spec == Init /\ [][Next]_vars

-----------------------------------------------------------------------------
(* Properties. *)

TypeOK ==
  /\ DOMAIN evidence = Sources
  /\ \A s \in Sources : evidence[s] \in Readings[s]
  /\ decision.side \in Side /\ decision.entry \in Nat /\ decision.stop \in Int
  /\ result \in [status : {"none", "raised", "wait", "intent"}, side : Side, quantity : Nat]
  /\ {halted, latched, killRow} \subseteq BOOLEAN

\* The same market upside down.
Mirror(e) ==
  [e EXCEPT !.frames = [f \in DOMAIN @ |-> -@[f]], !.structure.bias = -@, !.sweep.bias = -@,
            !.gap = -@, !.flow = -@, !.book = -@, !.oi.price = -@, !.vwap = -@,
            !.funding = -@, !.profile = -@,
            !.auction.value = CASE @ = "HIGHER" -> "LOWER" [] @ = "LOWER" -> "HIGHER" [] OTHER -> @]

\* Neither side is favoured by the scoring, by the order of the signals or by a
\* tie: upside down the same readings give the opposite decision with the same
\* confidence and the stop on the other side (analyze of ConfluenceEngine,
\* MicrostructureEngine, MultiTimeframeStructure and APEXDecisionBrain).
OppositeDecides ==
  result = NoResult /\ ~latched =>
    LET opposite == Decision(Mirror(evidence))
    IN /\ opposite.side = -decision.side
       /\ opposite.confidence = decision.confidence
       /\ opposite.stop = 2 * decision.entry - decision.stop

\* The side a reading speaks for.
SideOf(e, s) ==
  CASE s = "structure" -> e.structure.bias
    [] s = "sweep" -> SweepSide(e)
    [] s \in {"gap", "flow", "book", "vwap", "profile"} -> e[s]
    [] s = "oi" -> OiDirection(e.oi)
    [] s = "funding" -> -e.funding
    [] s = "auction" -> AuctionSide(e)
    [] OTHER -> 0

\* A reading that turns towards the trade does not lose it: no signal has a
\* side effect on the residual of the microstructure, the side of the relative
\* volume or the margin that outweighs its own points, as long as the evidence
\* stays decidable (ApexBrainPipeline.run, ConfluenceEngine.analyze).
SupportNeverHurts ==
  [][/\ decision.side # 0
     /\ Decidable(evidence')
     /\ \A s \in Sources : evidence'[s] # evidence[s]
          => decision.side * (SideOf(evidence', s) - SideOf(evidence, s)) > 0
     => decision'.side = decision.side]_evidence

\* Order flow and sweeps count once: the residual of the microstructure is
\* earned by the order book alone, whatever else its score is made of (the
\* dedupe rule of ConfluenceEngine.microstructure, ApexBrainPipeline.run).
BookEarnsResidual ==
  LET credit == Points(evidence).microstructure
  IN credit # 0 => evidence.book = 2 * Sgn(credit)

\* What an intent can lose at its stop is within the risk of one trade, and its
\* quantity is one the exchange takes: of the step unless the maximum cut it,
\* and not below the minimum (_evaluate of RiskGate).
LossWithinBudget ==
  result.status = "intent" =>
    LET m == evidence.market
    IN /\ result.quantity * UnitLoss(decision, m) <= RiskUsd
       /\ result.quantity >= m.minimum
       /\ m.maximum > 0 => result.quantity <= m.maximum
       /\ m.step = 0 \/ result.quantity % m.step = 0 \/ result.quantity = m.maximum

\* Between a kill, by an operator or by an evaluation at the drawdown limit, and
\* the reset no intent is made, by this gate or by the one of a new process
\* (kill, reset and __init__ of RiskGate with a ledger).
HaltHolds ==
  [][result'.status = "intent" => result.status = "intent" \/ ~halted']_vars

\* Every context gets an answer.
EveryContextIsAnswered == result.status # "raised"
=============================================================================
