--------------------------- MODULE DecisionProofs ---------------------------
(***************************************************************************)
(* Theorems about the pipeline for every price, account, limit and market, *)
(* and for whatever the engines can report.                                *)
(***************************************************************************)
EXTENDS DecisionPipeline, FiniteSetTheorems, TLAPS

-----------------------------------------------------------------------------
(* Arithmetic. *)

LEMMA Quotient ==
  \A a \in Nat, b \in Nat \ {0} : a \div b \in Nat /\ (a \div b) * b <= a
OBVIOUS

LEMMA QuotientIsWhole == \A a \in Nat, b \in Nat \ {0} : ((a \div b) * b) % b = 0
OBVIOUS

LEMMA TimesGrows == \A p, q, u \in Nat : p <= q => p * u <= q * u
OBVIOUS

LEMMA AbsIsNat == \A x \in Int : Abs(x) \in Nat /\ (x # 0 => Abs(x) # 0)
BY DEF Abs

LEMMA SgnIsSide == \A x : Sgn(x) \in Side
BY DEF Sgn, Side

-----------------------------------------------------------------------------
(* Types. *)

\* The fields of the evidence that decisions calculate with.
EvidenceOK(e) ==
  /\ e.frames \in UNION {[present -> Side] : present \in SUBSET {"4h", "1h", "15m", "5m", "1m"}}
  /\ {e.stale, e.busy, e.valid} \subseteq BOOLEAN
  /\ e.structure \in [bias : Side, trend : BOOLEAN]
  /\ e.sweep \in [bias : Side, displaced : BOOLEAN]
  /\ e.gap \in Side /\ e.flow \in -2 .. 2 /\ e.book \in -2 .. 2
  /\ e.oi \in [price : Int, interest : Int, heavy : BOOLEAN]
  /\ e.vwap \in Side /\ e.funding \in Side /\ e.profile \in Side
  /\ e.auction \in [value : {"HIGHER", "LOWER", "BALANCE", "ACCEPTED"},
                    range : {"narrow", "middle", "wide"}]
  /\ e.atr \in Nat /\ e.volatility \in Nat
  /\ e.market \in Markets

LEMMA ReadingsAreOK ==
  ASSUME NEW e, DOMAIN e = Sources, \A s \in Sources : e[s] \in Readings[s]
  PROVE  EvidenceOK(e)
<1>1. DOMAIN Reported = {"frames", "stale", "busy", "valid", "structure", "sweep", "gap", "block", "flow",
                         "book", "oi", "vwap", "funding", "profile", "auction", "atr", "volatility",
                         "market"}
  BY DEF Reported
<1>2. \A s \in DOMAIN Reported : e[s] \in Reported[s]
  BY ReadingsAssumption
<1>3. /\ e["stale"] \in Reported["stale"] /\ e["busy"] \in Reported["busy"]
      /\ e["valid"] \in Reported["valid"]
      /\ e["frames"] \in Reported["frames"] /\ e["structure"] \in Reported["structure"]
      /\ e["sweep"] \in Reported["sweep"] /\ e["gap"] \in Reported["gap"]
      /\ e["flow"] \in Reported["flow"] /\ e["book"] \in Reported["book"]
      /\ e["oi"] \in Reported["oi"] /\ e["vwap"] \in Reported["vwap"]
      /\ e["funding"] \in Reported["funding"] /\ e["profile"] \in Reported["profile"]
      /\ e["auction"] \in Reported["auction"] /\ e["atr"] \in Reported["atr"]
      /\ e["volatility"] \in Reported["volatility"] /\ e["market"] \in Reported["market"]
  BY <1>1, <1>2
<1> QED BY <1>3 DEF EvidenceOK, Reported

LEMMA DecisionIsOK ==
  ASSUME NEW e, EvidenceOK(e)
  PROVE  /\ Decision(e).side \in Side
         /\ Decision(e).entry \in Nat
         /\ Decision(e).stop \in Int
<1>1. Price \div 200 \in Nat
  BY PriceAssumption
<1>2. StopDistance(e) \in Nat
  BY <1>1 DEF StopDistance, EvidenceOK
<1>3. Confluence(e).side \in Side
  BY SgnIsSide DEF Confluence, Side
<1>4. Price - Confluence(e).side * StopDistance(e) \in Int
  BY <1>2, <1>3, PriceAssumption DEF Side
<1> QED
  BY <1>3, <1>4, PriceAssumption DEF Decision, Wait, Side

-----------------------------------------------------------------------------
(* Sizes. *)

\* The size of an approved decision.
LEMMA SizeFits ==
  ASSUME EvidenceOK(evidence), decision.side \in Side, decision.entry \in Nat,
         decision.stop \in Int, NEW positions, NEW drawdown,
         Approved(evidence, decision, positions, drawdown)
  PROVE  LET m == evidence.market
             q == Quantity(decision, m)
         IN /\ q \in Nat
            /\ q * UnitLoss(decision, m) <= RiskUsd
            /\ q >= m.minimum
            /\ m.maximum > 0 => q <= m.maximum
            /\ m.step = 0 \/ q % m.step = 0 \/ q = m.maximum
<1> DEFINE m == evidence.market
           u == UnitLoss(decision, m)
           p == RiskUsd \div u
           f == FloorToStep(p, m.step)
           q == Quantity(decision, m)
<1>1. /\ m.multiplier \in Nat \ {0} /\ m.step \in Nat
      /\ m.minimum \in Nat /\ m.maximum \in Nat
  BY DEF EvidenceOK, Markets
<1>2. decision.side * (decision.entry - decision.stop) > 0
  <2>1. "stop" \notin Rejections(evidence, decision, positions, drawdown)
    BY DEF Approved
  <2>2. ~(decision.side * (decision.entry - decision.stop) <= 0)
    BY <2>1 DEF Rejections
  <2>3. decision.entry - decision.stop \in Int
    OBVIOUS
  <2>4. decision.side * (decision.entry - decision.stop) \in Int
    BY <2>3 DEF Side
  <2> QED BY <2>2, <2>4
<1>3. decision.entry - decision.stop \in Int \ {0}
  BY <1>2 DEF Side
<1>4. Abs(decision.entry - decision.stop) + EntryCost \in Nat \ {0}
  BY <1>3, AbsIsNat, GateAssumption
<1>5. u \in Nat \ {0}
  BY <1>1, <1>4 DEF UnitLoss
<1>6. p \in Nat /\ p * u <= RiskUsd
  BY <1>5, Quotient, GateAssumption
<1>7. f \in Nat /\ f <= p /\ (m.step = 0 \/ f % m.step = 0)
  <2>1. CASE m.step = 0
    BY <1>6, <2>1 DEF FloorToStep
  <2>2. CASE m.step # 0
    <3>1. m.step \in Nat \ {0}
      BY <1>1, <2>2
    <3>2. f = (p \div m.step) * m.step
      BY <2>2 DEF FloorToStep
    <3>3. p \div m.step \in Nat /\ (p \div m.step) * m.step <= p
      BY <1>6, <3>1, Quotient
    <3>4. (p \div m.step) * m.step \in Nat
      BY <3>1, <3>3
    <3>5. ((p \div m.step) * m.step) % m.step = 0
      BY <1>6, <3>1, QuotientIsWhole
    <3> QED BY <3>2, <3>3, <3>4, <3>5
  <2> QED BY <2>1, <2>2
<1>8. q = IF m.maximum > 0 /\ f > m.maximum THEN m.maximum ELSE f
  BY DEF Quantity
<1> HIDE DEF q, f, p, u
<1>9. /\ q \in Nat
      /\ q <= p
      /\ m.maximum > 0 => q <= m.maximum
      /\ m.step = 0 \/ q % m.step = 0 \/ q = m.maximum
  BY <1>1, <1>6, <1>7, <1>8
<1>10. q * u <= RiskUsd
  <2>1. q * u <= p * u
    BY <1>5, <1>6, <1>9, TimesGrows
  <2>2. q * u \in Int /\ p * u \in Int /\ RiskUsd \in Int
    BY <1>5, <1>6, <1>9, GateAssumption
  <2> QED BY <1>6, <2>1, <2>2
<1>11. q >= m.minimum
  BY DEF Approved, q
<1> QED BY <1>9, <1>10, <1>11 DEF q, u

-----------------------------------------------------------------------------
(* Steps. *)

\* The evidence and the decision change in Analyze only.
LEMMA Kept ==
  ASSUME TypeOK, Next \/ UNCHANGED vars
  PROVE  \/ \E s \in Sources : Analyze(s)
         \/ UNCHANGED <<evidence, decision>>
BY DEF Next, vars, RunRaises, Run, Handle, Kill, Reset, Restart

LEMMA EvidenceIsOK == TypeOK => EvidenceOK(evidence)
BY ReadingsAreOK DEF TypeOK

\* Every variable stays of its type, whatever is read, asked and switched.
THEOREM TypeCorrect == Spec => []TypeOK
<1>1. Init => TypeOK
  <2> SUFFICES ASSUME Init PROVE TypeOK
    OBVIOUS
  <2>1. DOMAIN evidence = Sources /\ \A s \in Sources : evidence[s] \in Readings[s]
    BY PipelineAssumption DEF Init
  <2>2. EvidenceOK(Quiet)
    BY <2>1, ReadingsAreOK DEF Init
  <2>3. decision.side \in Side /\ decision.entry \in Nat /\ decision.stop \in Int
    BY <2>2, DecisionIsOK DEF Init
  <2> QED BY <2>1, <2>3 DEF Init, TypeOK, NoResult, GateInit, Side
<1>2. TypeOK /\ [Next]_vars => TypeOK'
  <2> SUFFICES ASSUME TypeOK, [Next]_vars PROVE TypeOK'
    OBVIOUS
  <2>1. ASSUME NEW s \in Sources, Analyze(s) PROVE TypeOK'
    <3>1. DOMAIN evidence' = Sources /\ \A r \in Sources : evidence'[r] \in Readings[r]
      BY <2>1 DEF TypeOK, Analyze
    <3>2. EvidenceOK(evidence')
      BY <3>1, ReadingsAreOK
    <3>3. decision'.side \in Side /\ decision'.entry \in Nat /\ decision'.stop \in Int
      BY <2>1, <3>2, DecisionIsOK DEF Analyze
    <3> QED BY <2>1, <3>1, <3>3 DEF TypeOK, Analyze
  <2>2. CASE RunRaises
    BY <2>2 DEF TypeOK, RunRaises, NoResult, Side
  <2>3. ASSUME NEW positions \in Positions, NEW drawdown \in Drawdowns, Run(positions, drawdown)
        PROVE  TypeOK'
    <3>1. Answer(positions, drawdown)
             \in [status : {"none", "raised", "wait", "intent"}, side : Side, quantity : Nat]
      <4>1. CASE Approved(evidence, decision, positions, drawdown)
        <5>1. Quantity(decision, evidence.market) \in Nat
          BY <4>1, EvidenceIsOK, SizeFits DEF TypeOK
        <5> QED BY <4>1, <5>1 DEF Answer, TypeOK
      <4>2. CASE ~Approved(evidence, decision, positions, drawdown)
        BY <4>2 DEF Answer, NoResult, Side
      <4> QED BY <4>1, <4>2
    <3>2. {latched', killRow'} \subseteq BOOLEAN
      BY <2>3, GateAssumption DEF Run, SwitchAt, SwitchOn, gateVars, TypeOK
    <3>3. halted' \in BOOLEAN
      BY <2>3 DEF Run, TypeOK
    <3> QED BY <2>3, <3>1, <3>2, <3>3 DEF Run, TypeOK
  <2>4. CASE Handle
    BY <2>4 DEF TypeOK, Handle, NoResult, Side
  <2>5. CASE Kill
    BY <2>5, GateAssumption DEF TypeOK, Kill, SwitchOn, NoResult, Side
  <2>6. CASE Reset
    BY <2>6 DEF TypeOK, Reset, SwitchOff, NoResult, Side
  <2>7. CASE Restart
    BY <2>7, GateAssumption DEF TypeOK, Restart, NewGate, NoResult, Side
  <2>8. CASE UNCHANGED vars
    BY <2>8 DEF TypeOK, vars
  <2> QED BY <2>1, <2>2, <2>3, <2>4, <2>5, <2>6, <2>7, <2>8 DEF Next
<1> QED BY <1>1, <1>2, PTL DEF Spec

-----------------------------------------------------------------------------
(* What an intent can lose. *)

\* Whatever the account, the price, the stop and the limits of the market, an
\* intent loses at most the risk of one trade at its stop, and the exchange
\* takes its quantity (_evaluate of RiskGate).
THEOREM LossBounded == Spec => []LossWithinBudget
<1>1. Init => LossWithinBudget
  BY DEF Init, NoResult, LossWithinBudget
<1>2. TypeOK /\ LossWithinBudget /\ [Next]_vars => LossWithinBudget'
  <2> SUFFICES ASSUME TypeOK, LossWithinBudget, [Next]_vars, result'.status = "intent"
               PROVE  LossWithinBudget'
    BY DEF LossWithinBudget
  <2>1. ASSUME NEW s \in Sources, Analyze(s) PROVE FALSE
    BY <2>1 DEF Analyze, NoResult
  <2>2. ASSUME NEW positions \in Positions, NEW drawdown \in Drawdowns, Run(positions, drawdown)
        PROVE  LossWithinBudget'
    <3>1. /\ Approved(evidence, decision, positions, drawdown)
          /\ result'.quantity = Quantity(decision, evidence.market)
      BY <2>2 DEF Run, Answer, NoResult
    <3>2. LET m == evidence.market
              q == result'.quantity
          IN /\ q * UnitLoss(decision, m) <= RiskUsd
             /\ q >= m.minimum
             /\ m.maximum > 0 => q <= m.maximum
             /\ m.step = 0 \/ q % m.step = 0 \/ q = m.maximum
      BY <3>1, EvidenceIsOK, SizeFits DEF TypeOK
    <3>3. evidence' = evidence /\ decision' = decision
      BY <2>2 DEF Run
    <3> QED BY <3>2, <3>3 DEF LossWithinBudget, UnitLoss
  <2>3. CASE UNCHANGED vars
    BY <2>3 DEF vars, LossWithinBudget, UnitLoss
  <2>4. CASE RunRaises \/ Handle \/ Kill \/ Reset \/ Restart
    BY <2>4 DEF RunRaises, Handle, Kill, Reset, Restart, NoResult
  <2> QED BY <2>1, <2>2, <2>3, <2>4 DEF Next
<1> QED BY <1>1, <1>2, TypeCorrect, PTL DEF Spec

-----------------------------------------------------------------------------
(* The kill switch. *)

\* With a ledger a halt is latched, and what is latched is in the row the next
\* gate reads.
HaltIsRecorded == (halted => latched) /\ (latched => killRow)

LEMMA LatchedRejects ==
  ASSUME NEW e, NEW d, NEW positions, NEW drawdown, Approved(e, d, positions, drawdown)
  PROVE  ~latched /\ ~(drawdown >= DrawdownKill)
<1>1. "killed" \notin Rejections(e, d, positions, drawdown)
  BY DEF Approved
<1>2. "drawdown" \notin Rejections(e, d, positions, drawdown)
  BY DEF Approved
<1> QED BY <1>1, <1>2 DEF Rejections

LEMMA HaltInductive ==
  ASSUME GateLedger, TypeOK, HaltIsRecorded, [Next]_vars
  PROVE  HaltIsRecorded'
<1>1. CASE UNCHANGED vars
  BY <1>1 DEF vars, HaltIsRecorded
<1>2. CASE \E s \in Sources : Analyze(s)
  BY <1>2 DEF Analyze, HaltIsRecorded
<1>3. CASE RunRaises \/ Handle
  BY <1>3 DEF RunRaises, Handle, HaltIsRecorded
<1>4. ASSUME NEW positions \in Positions, NEW drawdown \in Drawdowns, Run(positions, drawdown)
      PROVE  HaltIsRecorded'
  BY <1>4 DEF Run, SwitchAt, SwitchOn, gateVars, HaltIsRecorded
<1>5. CASE Kill
  BY <1>5 DEF Kill, SwitchOn, HaltIsRecorded
<1>6. CASE Reset
  BY <1>6 DEF Reset, SwitchOff, HaltIsRecorded
<1>7. CASE Restart
  BY <1>7 DEF Restart, NewGate, HaltIsRecorded
<1> QED BY <1>1, <1>2, <1>3, <1>4, <1>5, <1>6, <1>7 DEF Next

\* A gate with a ledger makes no intent from a kill to the reset, through any
\* number of restarts and whatever the drawdown limit is (kill, reset and
\* __init__ of RiskGate).
THEOREM HaltIsKept == ASSUME GateLedger PROVE Spec => HaltHolds
<1>1. Init => HaltIsRecorded
  BY DEF Init, GateInit, HaltIsRecorded
<1>2. TypeOK /\ HaltIsRecorded /\ [Next]_vars => HaltIsRecorded'
  BY HaltInductive
<1>3. TypeOK /\ HaltIsRecorded /\ [Next]_vars
        => [result'.status = "intent" => result.status = "intent" \/ ~halted']_vars
  <2> SUFFICES ASSUME TypeOK, HaltIsRecorded, Next, result'.status = "intent",
                      result.status # "intent"
               PROVE  ~halted'
    BY DEF vars
  <2>1. PICK positions \in Positions, drawdown \in Drawdowns : Run(positions, drawdown)
    BY DEF Next, Analyze, RunRaises, Handle, Kill, Reset, Restart, NoResult
  <2>2. Approved(evidence, decision, positions, drawdown)
    BY <2>1 DEF Run, Answer, NoResult
  <2>3. ~latched /\ ~(drawdown >= DrawdownKill)
    BY <2>2, LatchedRejects
  <2>4. halted' = (halted \/ drawdown >= DrawdownKill)
    BY <2>1 DEF Run
  <2> QED BY <2>3, <2>4 DEF HaltIsRecorded
<1> QED BY <1>1, <1>2, <1>3, TypeCorrect, PTL DEF Spec, HaltHolds

-----------------------------------------------------------------------------
(* The residual of the microstructure. *)

LEMMA ClampIs ==
  ASSUME NEW x \in Int
  PROVE  Min({10, Max({0, x})}) = IF x < 0 THEN 0 ELSE IF x > 10 THEN 10 ELSE x
<1>1. Max({0, x}) = IF x < 0 THEN 0 ELSE x
  BY DEF Max
<1>2. \A y \in Int : Min({10, y}) = IF y > 10 THEN 10 ELSE y
  BY DEF Min
<1> QED BY <1>1, <1>2

\* Without the whole of the book on a side its score is less than what is
\* counted elsewhere.
LEMMA ResidualNeedsBook ==
  ASSUME NEW e, EvidenceOK(e), ResidualMicro(e) # 0
  PROVE  e.book = 2 * Sgn(ResidualMicro(e))
<1> DEFINE bias == MicroBias(e)
           counted == Worth(e.flow # 0, 20) + Worth(Abs(e.flow) = 2, 10)
                        + Worth(Absorption(e), 10) + Worth(e.sweep.displaced, 25)
           left == (MicroScore(e, bias) - counted) \div 2
<1>1. bias \in Side
  BY SgnIsSide DEF MicroBias
<1>2. counted \in Nat
  BY DEF Worth
<1>3. MicroScore(e, bias) \in Nat
  BY DEF MicroScore, Worth
<1>4. left \in Int
  BY <1>2, <1>3
<1>5. ResidualMicro(e) = IF bias = 0 THEN 0 ELSE bias * Min({10, Max({0, left})})
  BY DEF ResidualMicro
<1>6. ResidualMicro(e) = IF bias = 0 THEN 0
                          ELSE bias * (IF left < 0 THEN 0 ELSE IF left > 10 THEN 10 ELSE left)
  BY <1>4, <1>5, ClampIs
<1>7. bias # 0 /\ left > 0
  BY <1>1, <1>4, <1>6 DEF Side
<1>8. Sgn(ResidualMicro(e)) = bias
  BY <1>1, <1>4, <1>6, <1>7 DEF Side, Sgn
<1>9. MicroScore(e, bias) > counted
  BY <1>2, <1>3, <1>4, <1>7
<1>10. ASSUME e.book # 2 * bias PROVE FALSE
  <2>1. Worth(e.book = 2 * bias, 20) = 0
    BY <1>10 DEF Worth
  <2>2. Worth(Sgn(e.flow) = bias, 20) <= Worth(e.flow # 0, 20)
    BY <1>1, <1>7 DEF Worth, Sgn, EvidenceOK
  <2>3. Worth(e.flow = 2 * bias, 10) <= Worth(Abs(e.flow) = 2, 10)
    BY <1>1, <1>7 DEF Worth, Abs, EvidenceOK, Side
  <2>4. Worth(SweepSide(e) = bias, 25) <= Worth(e.sweep.displaced, 25)
    BY <1>1, <1>7 DEF Worth, SweepSide, EvidenceOK
  <2>5. Worth(Absorption(e) /\ Sgn(e.flow) = bias, 10) <= Worth(Absorption(e), 10)
    BY DEF Worth
  <2>6. MicroScore(e, bias) <= counted
    BY <2>1, <2>2, <2>3, <2>4, <2>5 DEF MicroScore, Worth
  <2> QED BY <1>2, <1>3, <1>9, <2>6
<1> QED BY <1>8, <1>10

\* Order flow and sweeps are counted once, whatever the engines report: only the
\* book earns points for the microstructure (ConfluenceEngine.microstructure,
\* ApexBrainPipeline.run).
THEOREM BookEarns == Spec => []BookEarnsResidual
<1>1. TypeOK => BookEarnsResidual
  <2> SUFFICES ASSUME TypeOK, Points(evidence).microstructure # 0
               PROVE  evidence.book = 2 * Sgn(Points(evidence).microstructure)
    BY DEF BookEarnsResidual
  <2>1. Points(evidence).microstructure = ResidualMicro(evidence)
    BY DEF Points
  <2> QED BY <2>1, EvidenceIsOK, ResidualNeedsBook
<1> QED BY <1>1, TypeCorrect, PTL
-----------------------------------------------------------------------------
(* Sums. *)

\* What holds of a set whenever it holds of the smaller ones holds of all.
LEMMA Descend ==
  ASSUME NEW S, IsFiniteSet(S), NEW Good,
         \A s \in SUBSET S : (\A t \in SUBSET s : t # s => t \in Good) => s \in Good
  PROVE  SUBSET S \subseteq Good
<1> DEFINE T == {s \in SUBSET S : s \notin Good}
<1>1. SUFFICES ASSUME T # {} PROVE FALSE
  OBVIOUS
<1>2. T \subseteq FiniteSubsetsOf(S)
  BY FS_Subset DEF FiniteSubsetsOf
<1>3. PICK s \in T : \A t \in T : ~(<<t, s>> \in StrictSubsetOrdering(S))
  <2>1. IsWellFoundedOn(StrictSubsetOrdering(S), FiniteSubsetsOf(S))
    BY FS_StrictSubsetOrderingWellFounded
  <2> HIDE DEF T
  <2> QED BY <1>1, <1>2, <2>1, WFMin
<1>4. \A t \in SUBSET s : t # s => t \in Good
  <2> SUFFICES ASSUME NEW t \in SUBSET s, t # s, t \notin Good PROVE FALSE
    OBVIOUS
  <2>1. t \in T
    OBVIOUS
  <2>2. <<t, s>> \in StrictSubsetOrdering(S)
    BY <2>1 DEF StrictSubsetOrdering
  <2> QED BY <1>3, <2>1, <2>2
<1> QED BY <1>4

\* The partial sums, one for each subset, as a sum takes its elements one by one.
One(s) == CHOOSE x \in s : TRUE

AreSums(p, S, f) ==
  f = [s \in SUBSET S |-> IF s = {} THEN 0 ELSE p[One(s)] + f[s \ {One(s)}]]

SumOf(p, S) == (CHOOSE f : AreSums(p, S, f))[S]

LEMMA SumIs ==
  \A p, S : MapThenSumSet(LAMBDA x : p[x], S) = SumOf(p, S)
BY DEF MapThenSumSet, MapThenFoldSet, SumOf, AreSums, One

LEMMA SumsAre ==
  ASSUME NEW p, NEW S, NEW f, AreSums(p, S, f), NEW s \in SUBSET S
  PROVE  f[s] = IF s = {} THEN 0 ELSE p[One(s)] + f[s \ {One(s)}]
BY DEF AreSums

\* A subset has one sum, whatever it is a subset of.
LEMMA SumsAgree ==
  ASSUME NEW p, NEW S, IsFiniteSet(S), NEW R, R \subseteq S,
         NEW f, AreSums(p, S, f), NEW g, AreSums(p, R, g)
  PROVE  \A s \in SUBSET R : f[s] = g[s]
<1> DEFINE Good == {s \in SUBSET R : f[s] = g[s]}
<1>1. IsFiniteSet(R)
  BY FS_Subset
<1>2. ASSUME NEW s \in SUBSET R, \A t \in SUBSET s : t # s => t \in Good
      PROVE  s \in Good
  <2>1. s \in SUBSET S
    OBVIOUS
  <2>2. CASE s = {}
    BY <2>1, <2>2, SumsAre
  <2>3. CASE s # {}
    <3>1. One(s) \in s
      BY <2>3 DEF One
    <3>2. s \ {One(s)} \in SUBSET s /\ s \ {One(s)} # s
      BY <3>1
    <3>3. f[s \ {One(s)}] = g[s \ {One(s)}]
      BY <1>2, <3>2
    <3> QED BY <2>1, <2>3, <3>3, SumsAre
  <2> QED BY <2>2, <2>3
<1>3. SUBSET R \subseteq Good
  <2> HIDE DEF Good
  <2> QED BY <1>1, <1>2, Descend
<1> QED BY <1>3

LEMMA SumsExist ==
  ASSUME NEW p, NEW S, IsFiniteSet(S)
  PROVE  \E f : AreSums(p, S, f)
<1> DEFINE Good == {s \in SUBSET S : \E f : AreSums(p, s, f)}
<1>1. ASSUME NEW s \in SUBSET S, \A t \in SUBSET s : t # s => t \in Good
      PROVE  s \in Good
  <2> DEFINE F == [t \in SUBSET s |-> IF t = {} THEN 0 ELSE p[One(t)] + SumOf(p, t \ {One(t)})]
  <2>1. ASSUME NEW t \in SUBSET s, t # {}
        PROVE  F[t \ {One(t)}] = SumOf(p, t \ {One(t)})
    <3> DEFINE u == t \ {One(t)}
               f == CHOOSE h : AreSums(p, u, h)
    <3>1. One(t) \in t
      BY <2>1 DEF One
    <3>2. u \in SUBSET s /\ u # s
      BY <3>1
    <3>3. AreSums(p, u, f)
      BY <1>1, <3>2
    <3>4. SumOf(p, u) = f[u]
      BY DEF SumOf
    <3>5. CASE u = {}
      <4>1. f[u] = 0
        <5> HIDE DEF f
        <5> QED BY <3>3, <3>5, SumsAre
      <4>2. F[u] = 0
        BY <3>2, <3>5
      <4> QED BY <3>4, <4>1, <4>2
    <3>6. CASE u # {}
      <4> DEFINE v == u \ {One(u)}
                 g == CHOOSE h : AreSums(p, v, h)
      <4>1. One(u) \in u
        BY <3>6 DEF One
      <4>2. v \in SUBSET s /\ v # s /\ v \subseteq u
        BY <3>2, <4>1
      <4>3. AreSums(p, v, g)
        BY <1>1, <4>2
      <4>4. IsFiniteSet(u)
        BY <3>2, FS_Subset
      <4>5. f[v] = g[v]
        <5> HIDE DEF f, g, u, v
        <5> QED BY <3>3, <4>2, <4>3, <4>4, SumsAgree
      <4>6. f[u] = p[One(u)] + f[v]
        <5> HIDE DEF f, u
        <5> QED BY <3>3, <3>6, SumsAre
      <4>7. F[u] = p[One(u)] + g[v]
        BY <3>2, <3>6 DEF SumOf
      <4> QED BY <3>4, <4>5, <4>6, <4>7
    <3> QED BY <3>5, <3>6
  <2>2. AreSums(p, s, F)
    <3>1. \A t \in SUBSET s : F[t] = IF t = {} THEN 0 ELSE p[One(t)] + F[t \ {One(t)}]
      BY <2>1
    <3>2. F = [t \in SUBSET s |-> F[t]]
      OBVIOUS
    <3> HIDE DEF F
    <3> QED BY <3>1, <3>2 DEF AreSums
  <2> QED BY <2>2
<1>2. SUBSET S \subseteq Good
  <2> HIDE DEF Good
  <2> QED BY <1>1, Descend
<1> QED BY <1>2

LEMMA SumOfNone == \A p : SumOf(p, {}) = 0
<1> TAKE p
<1> DEFINE f == CHOOSE h : AreSums(p, {}, h)
<1>1. AreSums(p, {}, f)
  BY SumsExist, FS_EmptySet
<1>2. SumOf(p, {}) = f[{}]
  BY DEF SumOf
<1> HIDE DEF f
<1> QED BY <1>1, <1>2, SumsAre

\* The first element a sum takes, and what is left.
LEMMA SumTakesOne ==
  ASSUME NEW p, NEW S, IsFiniteSet(S), S # {}
  PROVE  One(S) \in S /\ SumOf(p, S) = p[One(S)] + SumOf(p, S \ {One(S)})
<1> DEFINE R == S \ {One(S)}
           f == CHOOSE h : AreSums(p, S, h)
           g == CHOOSE h : AreSums(p, R, h)
<1>1. One(S) \in S
  BY DEF One
<1>2. R \in SUBSET S /\ IsFiniteSet(R)
  BY FS_Subset
<1>3. AreSums(p, S, f) /\ AreSums(p, R, g)
  BY <1>2, SumsExist
<1>4. SumOf(p, S) = f[S] /\ SumOf(p, R) = g[R]
  BY DEF SumOf
<1>5. f[R] = g[R]
  <2> HIDE DEF f, g, R
  <2> QED BY <1>2, <1>3, SumsAgree
<1>6. f[S] = p[One(S)] + f[R]
  <2> HIDE DEF f, g
  <2> QED BY <1>3, SumsAre
<1> QED BY <1>1, <1>4, <1>5, <1>6

LEMMA SumIsNat ==
  ASSUME NEW p, NEW S, IsFiniteSet(S), \A x \in S : p[x] \in Nat
  PROVE  SumOf(p, S) \in Nat
<1> DEFINE Good == {s \in SUBSET S : SumOf(p, s) \in Nat}
<1>1. ASSUME NEW s \in SUBSET S, \A t \in SUBSET s : t # s => t \in Good
      PROVE  s \in Good
  <2>1. CASE s = {}
    BY <2>1, SumOfNone
  <2>2. CASE s # {}
    <3>1. IsFiniteSet(s)
      BY FS_Subset
    <3>2. One(s) \in s /\ SumOf(p, s) = p[One(s)] + SumOf(p, s \ {One(s)})
      BY <2>2, <3>1, SumTakesOne
    <3>3. s \ {One(s)} \in SUBSET s /\ s \ {One(s)} # s
      BY <3>2
    <3>4. SumOf(p, s \ {One(s)}) \in Nat /\ p[One(s)] \in Nat
      BY <1>1, <3>2, <3>3
    <3> QED BY <3>2, <3>4
  <2> QED BY <2>1, <2>2
<1>2. SUBSET S \subseteq Good
  <2> HIDE DEF Good
  <2> QED BY <1>1, Descend
<1> QED BY <1>2

\* Any element may be taken first.
LEMMA SumTakesAny ==
  ASSUME NEW p, NEW S, IsFiniteSet(S), \A x \in S : p[x] \in Nat
  PROVE  \A x \in S : SumOf(p, S) = p[x] + SumOf(p, S \ {x})
<1> DEFINE Good == {s \in SUBSET S : \A x \in s : SumOf(p, s) = p[x] + SumOf(p, s \ {x})}
<1>1. ASSUME NEW s \in SUBSET S, \A t \in SUBSET s : t # s => t \in Good, NEW x \in s
      PROVE  SumOf(p, s) = p[x] + SumOf(p, s \ {x})
  <2> DEFINE y == One(s)
  <2>1. \A t \in SUBSET s : IsFiniteSet(t) /\ SumOf(p, t) \in Nat
    <3> SUFFICES ASSUME NEW t \in SUBSET s PROVE IsFiniteSet(t) /\ SumOf(p, t) \in Nat
      OBVIOUS
    <3>1. t \subseteq S /\ \A z \in t : p[z] \in Nat
      OBVIOUS
    <3>2. IsFiniteSet(t)
      BY <3>1, FS_Subset
    <3> QED BY <3>1, <3>2, SumIsNat
  <2>2. y \in s /\ SumOf(p, s) = p[y] + SumOf(p, s \ {y})
    BY <2>1, SumTakesOne
  <2> HIDE DEF y
  <2>3. CASE x = y
    BY <2>2, <2>3
  <2>4. CASE x # y
    <3>1. s \ {y} \in Good /\ s \ {x} \in Good
      BY <1>1, <2>2
    <3>2. x \in s \ {y} /\ y \in s \ {x} /\ (s \ {y}) \ {x} = (s \ {x}) \ {y}
      BY <2>2, <2>4
    <3>3. /\ SumOf(p, s \ {y}) = p[x] + SumOf(p, (s \ {x}) \ {y})
          /\ SumOf(p, s \ {x}) = p[y] + SumOf(p, (s \ {x}) \ {y})
      BY <3>1, <3>2
    <3>4. SumOf(p, (s \ {x}) \ {y}) \in Nat /\ p[x] \in Nat /\ p[y] \in Nat
      BY <2>1, <2>2
    <3> QED BY <2>2, <3>3, <3>4
  <2> QED BY <2>3, <2>4
<1>2. SUBSET S \subseteq Good
  <2>1. \A s \in SUBSET S : (\A t \in SUBSET s : t # s => t \in Good) => s \in Good
    BY <1>1
  <2> HIDE DEF Good
  <2> QED BY <2>1, Descend
<1> QED BY <1>2

\* A sum over more, of what is not less.
LEMMA SumGrows ==
  ASSUME NEW p, NEW q, NEW S, IsFiniteSet(S), NEW R, R \subseteq S,
         \A x \in S : q[x] \in Nat, \A x \in R : p[x] \in Nat /\ p[x] <= q[x]
  PROVE  SumOf(p, R) <= SumOf(q, S)
<1> DEFINE Good == {s \in SUBSET S : SumOf(p, s \cap R) <= SumOf(q, s)}
<1>0. \A s \in SUBSET S : SumOf(q, s) \in Nat /\ SumOf(p, s \cap R) \in Nat
  <2> SUFFICES ASSUME NEW s \in SUBSET S
               PROVE  SumOf(q, s) \in Nat /\ SumOf(p, s \cap R) \in Nat
    OBVIOUS
  <2>1. IsFiniteSet(s) /\ IsFiniteSet(s \cap R)
    BY FS_Subset
  <2>2. (\A x \in s : q[x] \in Nat) /\ \A x \in s \cap R : p[x] \in Nat
    OBVIOUS
  <2> QED BY <2>1, <2>2, SumIsNat
<1>1. ASSUME NEW s \in SUBSET S, \A t \in SUBSET s : t # s => t \in Good
      PROVE  s \in Good
  <2>1. CASE s = {}
    <3>1. s \cap R = {}
      BY <2>1
    <3> QED BY <2>1, <3>1, SumOfNone
  <2>2. CASE s # {}
    <3> DEFINE x == One(s)
               t == s \ {x}
    <3>1. IsFiniteSet(s) /\ IsFiniteSet(s \cap R)
      BY FS_Subset
    <3>2. x \in s /\ SumOf(q, s) = q[x] + SumOf(q, t)
      BY <2>2, <3>1, SumTakesOne
    <3>3. t \in SUBSET s /\ t # s
      BY <3>2
    <3>4. SumOf(p, t \cap R) <= SumOf(q, t)
      BY <1>1, <3>3
    <3>5. q[x] \in Nat /\ SumOf(q, t) \in Nat /\ SumOf(p, t \cap R) \in Nat
      BY <1>0, <3>2
    <3> HIDE DEF x
    <3>6. CASE x \in R
      <4>1. (s \cap R) \ {x} = t \cap R /\ x \in s \cap R
        BY <3>2, <3>6
      <4>2. \A z \in s \cap R : p[z] \in Nat
        OBVIOUS
      <4>3. SumOf(p, s \cap R) = p[x] + SumOf(p, (s \cap R) \ {x})
        BY <3>1, <4>1, <4>2, SumTakesAny
      <4>4. p[x] \in Nat /\ p[x] <= q[x]
        BY <3>6
      <4>5. SumOf(p, s \cap R) <= SumOf(q, s)
        <5> HIDE DEF t, Good
        <5> QED BY <3>2, <3>4, <3>5, <4>1, <4>3, <4>4
      <4> QED BY <4>5
    <3>7. CASE x \notin R
      <4>1. s \cap R = t \cap R
        BY <3>7
      <4>2. SumOf(p, s \cap R) <= SumOf(q, s)
        <5> HIDE DEF t, Good
        <5>1. SumOf(p, s \cap R) = SumOf(p, t \cap R)
          BY <4>1
        <5>2. SumOf(q, t) <= SumOf(q, s)
          BY <3>2, <3>5
        <5> QED BY <3>2, <3>4, <3>5, <5>1, <5>2
      <4> QED BY <4>2
    <3> QED BY <3>6, <3>7
  <2> QED BY <2>1, <2>2
<1>2. SUBSET S \subseteq Good
  <2> HIDE DEF Good
  <2> QED BY <1>1, Descend
<1>3. S \cap R = R /\ S \in Good
  BY <1>2
<1> QED BY <1>3

-----------------------------------------------------------------------------
(* The two sides. *)

\* The readings of the market upside down.
Mirrored(e, m) ==
  /\ m.frames = [f \in DOMAIN e.frames |-> -e.frames[f]]
  /\ m.structure.bias = -e.structure.bias /\ m.structure.trend = e.structure.trend
  /\ m.sweep.bias = -e.sweep.bias /\ m.sweep.displaced = e.sweep.displaced
  /\ m.gap = -e.gap /\ m.flow = -e.flow /\ m.book = -e.book
  /\ m.oi.price = -e.oi.price /\ m.oi.interest = e.oi.interest /\ m.oi.heavy = e.oi.heavy
  /\ m.vwap = -e.vwap /\ m.funding = -e.funding /\ m.profile = -e.profile
  /\ AuctionSide(m) = -AuctionSide(e) /\ m.auction.range = e.auction.range
  /\ m.auction.value = "BALANCE" <=> e.auction.value = "BALANCE"
  /\ m.stale = e.stale /\ m.busy = e.busy /\ m.valid = e.valid
  /\ m.atr = e.atr /\ m.volatility = e.volatility

LEMMA MirrorIs ==
  ASSUME NEW e, DOMAIN e = Sources, EvidenceOK(e)
  PROVE  Mirrored(e, Mirror(e))
<1> DEFINE m == Mirror(e)
<1>1. DOMAIN Reported \subseteq DOMAIN e
  BY ReadingsAssumption
<1>2. /\ m.frames = [f \in DOMAIN e.frames |-> -e.frames[f]]
      /\ m.structure = [e.structure EXCEPT !.bias = -@]
      /\ m.sweep = [e.sweep EXCEPT !.bias = -@]
      /\ m.gap = -e.gap /\ m.flow = -e.flow /\ m.book = -e.book
      /\ m.oi = [e.oi EXCEPT !.price = -@]
      /\ m.vwap = -e.vwap /\ m.funding = -e.funding /\ m.profile = -e.profile
      /\ m.auction = [e.auction EXCEPT !.value =
                        CASE @ = "HIGHER" -> "LOWER" [] @ = "LOWER" -> "HIGHER" [] OTHER -> @]
      /\ m.stale = e.stale /\ m.busy = e.busy /\ m.valid = e.valid
      /\ m.atr = e.atr /\ m.volatility = e.volatility
  BY <1>1 DEF Mirror, Reported
<1> HIDE DEF m
<1>3. /\ m.structure.bias = -e.structure.bias /\ m.structure.trend = e.structure.trend
      /\ m.sweep.bias = -e.sweep.bias /\ m.sweep.displaced = e.sweep.displaced
      /\ m.oi.price = -e.oi.price /\ m.oi.interest = e.oi.interest /\ m.oi.heavy = e.oi.heavy
  BY <1>2 DEF EvidenceOK
<1>4. /\ m.auction.range = e.auction.range
      /\ m.auction.value = CASE e.auction.value = "HIGHER" -> "LOWER"
                             [] e.auction.value = "LOWER" -> "HIGHER"
                             [] OTHER -> e.auction.value
  BY <1>2 DEF EvidenceOK
<1>5. /\ AuctionSide(m) = -AuctionSide(e)
      /\ m.auction.value = "BALANCE" <=> e.auction.value = "BALANCE"
  BY <1>4 DEF AuctionSide, EvidenceOK
<1> QED BY <1>2, <1>3, <1>4, <1>5 DEF Mirrored, m

LEMMA SgnFlips == \A x \in Int : Sgn(-x) = -Sgn(x)
BY DEF Sgn

LEMMA FramesAre ==
  ASSUME NEW e, EvidenceOK(e)
  PROVE  /\ IsFiniteSet(DOMAIN e.frames)
         /\ \A f \in DOMAIN e.frames : e.frames[f] \in Side
<1>1. PICK present \in SUBSET {"4h", "1h", "15m", "5m", "1m"} : e.frames \in [present -> Side]
  BY DEF EvidenceOK
<1>2. IsFiniteSet({"4h", "1h", "15m", "5m", "1m"})
  <2>1. /\ IsFiniteSet({"4h"}) /\ IsFiniteSet({"4h"} \union {"1h"})
        /\ IsFiniteSet(({"4h"} \union {"1h"}) \union {"15m"})
        /\ IsFiniteSet((({"4h"} \union {"1h"}) \union {"15m"}) \union {"5m"})
        /\ IsFiniteSet(((({"4h"} \union {"1h"}) \union {"15m"}) \union {"5m"}) \union {"1m"})
    <3>1. \A S, x : IsFiniteSet(S) => IsFiniteSet(S \union {x})
      BY FS_AddElement
    <3>2. IsFiniteSet({"4h"})
      BY FS_Singleton
    <3> QED BY <3>1, <3>2
  <2>2. {"4h", "1h", "15m", "5m", "1m"}
          = ((({"4h"} \union {"1h"}) \union {"15m"}) \union {"5m"}) \union {"1m"}
    OBVIOUS
  <2> QED BY <2>1, <2>2
<1> QED BY <1>1, <1>2, FS_Subset

\* Upside down each group leans the other way.
LEMMA LeanFlips ==
  ASSUME NEW e, EvidenceOK(e), NEW m, Mirrored(e, m), NEW g
  PROVE  Lean(m, g) = -Lean(e, g)
<1> DEFINE Of(r, side) == {f \in DOMAIN r.frames : GroupOf(f) = g /\ r.frames[f] = side}
<1>1. m.frames = [f \in DOMAIN e.frames |-> -e.frames[f]]
  BY DEF Mirrored
<1>2. \A f \in DOMAIN e.frames : e.frames[f] \in Side
  BY FramesAre
<1>3. Of(m, 1) = Of(e, -1) /\ Of(m, -1) = Of(e, 1)
  BY <1>1, <1>2 DEF Side
<1>4. \A side : Cardinality(Of(e, side)) \in Nat
  <2> TAKE side
  <2>1. Of(e, side) \subseteq DOMAIN e.frames
    OBVIOUS
  <2> HIDE DEF Of
  <2> QED BY <2>1, FramesAre, FS_Subset, FS_CardinalityType
<1>5. /\ Lean(e, g) = Sgn(Cardinality(Of(e, 1)) - Cardinality(Of(e, -1)))
      /\ Lean(m, g) = Sgn(Cardinality(Of(m, 1)) - Cardinality(Of(m, -1)))
  BY DEF Lean
<1> HIDE DEF Of
<1>6. Cardinality(Of(m, 1)) - Cardinality(Of(m, -1))
        = -(Cardinality(Of(e, 1)) - Cardinality(Of(e, -1)))
  BY <1>3, <1>4
<1> QED BY <1>4, <1>5, <1>6, SgnFlips

LEMMA LeanIsSide == \A e, g : Lean(e, g) \in Side
BY SgnIsSide DEF Lean

LEMMA FramesFlip ==
  ASSUME NEW e, EvidenceOK(e), NEW m, Mirrored(e, m)
  PROVE  /\ Leaning(m) = Leaning(e)
         /\ MtfConflict(m) <=> MtfConflict(e)
         /\ Winning(m) = -Winning(e)
         /\ AlignmentScore(m) = AlignmentScore(e)
         /\ MtfBias(m) = -MtfBias(e)
         /\ Aligned(m) <=> Aligned(e)
<1>1. \A g : Lean(m, g) = -Lean(e, g) /\ Lean(e, g) \in {-1, 0, 1}
  BY LeanFlips, LeanIsSide DEF Side
<1>2. \A g : Lean(m, g) # 0 <=> Lean(e, g) # 0
  BY <1>1
<1>3. Leaning(m) = Leaning(e)
  BY <1>2 DEF Leaning
<1>4. \A g, h : Lean(m, g) # Lean(m, h) <=> Lean(e, g) # Lean(e, h)
  BY <1>1
<1>5. MtfConflict(m) <=> MtfConflict(e)
  BY <1>3, <1>4 DEF MtfConflict
<1>6. Winning(m) = -Winning(e) /\ Winning(e) \in {-1, 0, 1}
  BY <1>1, <1>2 DEF Winning
<1>7. \A g : Lean(m, g) = Winning(m) <=> Lean(e, g) = Winning(e)
  BY <1>1, <1>6
<1>8. AlignmentScore(m) = AlignmentScore(e)
  <2>1. {g \in Leaning(m) : Lean(m, g) = Winning(m)} = {g \in Leaning(e) : Lean(e, g) = Winning(e)}
    BY <1>3, <1>7
  <2> QED BY <1>3, <2>1 DEF AlignmentScore
<1>9. m.stale = e.stale
  BY DEF Mirrored
<1>10. MtfBias(m) = -MtfBias(e)
  BY <1>2, <1>5, <1>6, <1>9 DEF MtfBias
<1>11. Aligned(m) <=> Aligned(e)
  <2> DEFINE B(r) == {r.frames[f] : f \in DOMAIN r.frames} \ {0}
  <2>1. m.frames = [f \in DOMAIN e.frames |-> -e.frames[f]]
    BY DEF Mirrored
  <2>2. \A f \in DOMAIN e.frames : e.frames[f] \in {-1, 0, 1}
    BY FramesAre DEF Side
  <2>3. /\ B(e) \subseteq {-1, 1} /\ B(m) \subseteq {-1, 1}
        /\ 1 \in B(m) <=> -1 \in B(e)
        /\ -1 \in B(m) <=> 1 \in B(e)
    BY <2>1, <2>2
  <2> HIDE DEF B
  <2>4. \A S \in SUBSET {-1, 1} : Cardinality(S) = 1 <=> S = {-1} \/ S = {1}
    <3> SUFFICES ASSUME NEW S \in SUBSET {-1, 1}
                 PROVE  Cardinality(S) = 1 <=> S = {-1} \/ S = {1}
      OBVIOUS
    <3>1. IsFiniteSet({-1} \union {1}) /\ {-1, 1} = {-1} \union {1}
      <4>1. IsFiniteSet({-1})
        BY FS_Singleton
      <4>2. IsFiniteSet({-1} \union {1})
        BY <4>1, FS_AddElement
      <4> QED BY <4>2
    <3>2. IsFiniteSet(S)
      BY <3>1, FS_Subset
    <3>3. Cardinality(S) = 1 <=> \E x : S = {x}
      BY <3>2, FS_Singleton
    <3> QED BY <3>3
  <2>5. Cardinality(B(m)) = 1 <=> Cardinality(B(e)) = 1
    BY <2>3, <2>4
  <2> QED BY <1>9, <2>5 DEF Aligned, B
<1> QED BY <1>3, <1>5, <1>6, <1>8, <1>10, <1>11

\* The weight of the groups that lean is not zero when there are some.
LEMMA AlignmentIsNat ==
  ASSUME NEW e
  PROVE  AlignmentScore(e) \in Nat
<1> DEFINE L == Leaning(e)
           A == {g \in L : Lean(e, g) = Winning(e)}
<1>1. \A S \in SUBSET {"htf", "mtf", "ltf"} :
        WeightOf(S) \in Nat /\ (S # {} => WeightOf(S) # 0)
  <2> SUFFICES ASSUME NEW S \in SUBSET {"htf", "mtf", "ltf"}
               PROVE  WeightOf(S) \in Nat /\ (S # {} => WeightOf(S) # 0)
    OBVIOUS
  <2>1. \A g \in {"htf", "mtf", "ltf"} : GroupWeight[g] \in Nat /\ GroupWeight[g] # 0
    BY DEF GroupWeight
  <2>2. IsFiniteSet({"htf", "mtf", "ltf"})
    <3>1. \A T, x : IsFiniteSet(T) => IsFiniteSet(T \union {x})
      BY FS_AddElement
    <3>2. IsFiniteSet({"htf"})
      BY FS_Singleton
    <3>3. IsFiniteSet(({"htf"} \union {"mtf"}) \union {"ltf"})
      BY <3>1, <3>2
    <3>4. {"htf", "mtf", "ltf"} = ({"htf"} \union {"mtf"}) \union {"ltf"}
      OBVIOUS
    <3> QED BY <3>3, <3>4
  <2>3. IsFiniteSet(S) /\ \A T \in SUBSET S : IsFiniteSet(T)
    BY <2>2, FS_Subset
  <2>4. \A T \in SUBSET S : SumOf(GroupWeight, T) \in Nat
    BY <2>1, <2>3, SumIsNat
  <2>5. WeightOf(S) = SumOf(GroupWeight, S)
    BY SumIs DEF WeightOf
  <2>6. ASSUME S # {} PROVE SumOf(GroupWeight, S) # 0
    <3>1. One(S) \in S /\ SumOf(GroupWeight, S) = GroupWeight[One(S)] + SumOf(GroupWeight, S \ {One(S)})
      BY <2>3, <2>6, SumTakesOne
    <3>2. S \ {One(S)} \in SUBSET S
      OBVIOUS
    <3>3. SumOf(GroupWeight, S \ {One(S)}) \in Nat
      BY <2>4, <3>2
    <3>4. GroupWeight[One(S)] \in Nat /\ GroupWeight[One(S)] # 0
      BY <2>1, <3>1
    <3> QED BY <3>1, <3>3, <3>4
  <2> QED BY <2>4, <2>5, <2>6
<1>2. L \in SUBSET {"htf", "mtf", "ltf"} /\ A \in SUBSET {"htf", "mtf", "ltf"}
  BY DEF Leaning, GroupWeight
<1>3. AlignmentScore(e) = IF L = {} THEN 0 ELSE (100 * WeightOf(A)) \div WeightOf(L)
  BY DEF AlignmentScore
<1> HIDE DEF A, L
<1>4. CASE L = {}
  BY <1>3, <1>4
<1>5. CASE L # {}
  <2>1. WeightOf(A) \in Nat /\ WeightOf(L) \in Nat \ {0}
    BY <1>1, <1>2, <1>5
  <2>2. 100 * WeightOf(A) \in Nat
    BY <2>1
  <2> QED BY <1>3, <1>5, <2>1, <2>2, Quotient
<1> QED BY <1>4, <1>5

LEMMA CapIs ==
  ASSUME NEW n \in Nat, NEW x \in Nat
  PROVE  Min({n, x}) = IF x > n THEN n ELSE x
BY DEF Min

LEMMA LargerIs ==
  ASSUME NEW a \in Nat, NEW b \in Nat
  PROVE  Max({a, b}) = IF a > b THEN a ELSE b
BY DEF Max

LEMMA OiConfidenceIsNat == \A oi : OiConfidence(oi) \in Nat
<1> TAKE oi
<1>1. Grade(oi.interest) \in Nat /\ Grade(oi.price) \in Nat /\ Worth(oi.heavy, 10) \in Nat
  BY DEF Grade, Worth
<1>2. 50 + Grade(oi.interest) + Grade(oi.price) + Worth(oi.heavy, 10) \in Nat
  BY <1>1
<1> QED BY <1>2, CapIs DEF OiConfidence

LEMMA MicroFlips ==
  ASSUME NEW e, EvidenceOK(e), NEW m, Mirrored(e, m)
  PROVE  ResidualMicro(m) = -ResidualMicro(e) /\ ResidualMicro(e) \in Int
<1>1. e.flow \in -2 .. 2 /\ e.book \in -2 .. 2 /\ e.sweep.bias \in {-1, 0, 1} /\ e.sweep.displaced \in BOOLEAN
  BY DEF EvidenceOK, Side
<1>2. m.flow = -e.flow /\ m.book = -e.book /\ m.sweep.bias = -e.sweep.bias
      /\ m.sweep.displaced = e.sweep.displaced
  BY DEF Mirrored
<1>3. SweepSide(m) = -SweepSide(e) /\ SweepSide(e) \in {-1, 0, 1}
  BY <1>1, <1>2 DEF SweepSide
<1>4. Absorption(m) <=> Absorption(e)
  BY <1>1, <1>2 DEF Absorption, Abs
<1>5. \A side \in {-1, 0, 1} : MicroScore(m, -side) = MicroScore(e, side) /\ MicroScore(e, side) \in Nat
  <2> SUFFICES ASSUME NEW side \in {-1, 0, 1}
               PROVE  MicroScore(m, -side) = MicroScore(e, side) /\ MicroScore(e, side) \in Nat
    OBVIOUS
  <2>1. /\ Sgn(m.flow) = -side <=> Sgn(e.flow) = side
        /\ m.flow = 2 * (-side) <=> e.flow = 2 * side
        /\ m.book = 2 * (-side) <=> e.book = 2 * side
        /\ SweepSide(m) = -side <=> SweepSide(e) = side
    BY <1>1, <1>2, <1>3 DEF Sgn
  <2>2. MicroScore(m, -side) = MicroScore(e, side)
    BY <1>4, <2>1 DEF MicroScore, Worth
  <2>3. MicroScore(e, side) \in Nat
    BY DEF MicroScore, Worth
  <2> QED BY <2>2, <2>3
<1>6. /\ MicroScore(m, 1) = MicroScore(e, -1) /\ MicroScore(m, -1) = MicroScore(e, 1)
      /\ MicroScore(e, 1) \in Nat /\ MicroScore(e, -1) \in Nat
  BY <1>5
<1>7. MicroBias(m) = -MicroBias(e) /\ MicroBias(e) \in {-1, 0, 1}
  BY <1>6 DEF MicroBias, Sgn
<1> DEFINE counted(r) == Worth(r.flow # 0, 20) + Worth(Abs(r.flow) = 2, 10)
                           + Worth(Absorption(r), 10) + Worth(r.sweep.displaced, 25)
           left == (MicroScore(e, MicroBias(e)) - counted(e)) \div 2
<1>8. counted(m) = counted(e) /\ counted(e) \in Nat
  BY <1>1, <1>2, <1>4 DEF Worth, Abs
<1>9. MicroScore(m, MicroBias(m)) = MicroScore(e, MicroBias(e)) /\ MicroScore(e, MicroBias(e)) \in Nat
  BY <1>5, <1>7
<1>10. /\ ResidualMicro(e) = IF MicroBias(e) = 0 THEN 0 ELSE MicroBias(e) * Min({10, Max({0, left})})
       /\ ResidualMicro(m) = IF MicroBias(m) = 0 THEN 0 ELSE MicroBias(m) * Min({10, Max({0, left})})
  BY <1>8, <1>9 DEF ResidualMicro
<1>11. left \in Int
  BY <1>8, <1>9
<1> HIDE DEF left
<1>12. Min({10, Max({0, left})}) \in Int
  BY <1>11, ClampIs
<1> QED BY <1>7, <1>10, <1>12

Signals == {"structure", "liquidity", "fvg", "orderflow", "oi", "mtf", "microstructure", "vwap",
            "funding", "volume_profile", "value"}

LEMMA PointsAre ==
  /\ \A e : DOMAIN Points(e) = Signals
  /\ \A e : Points(e)["structure"] = 20 * e.structure.bias
  /\ \A e : Points(e)["liquidity"] = 25 * SweepSide(e)
  /\ \A e : Points(e)["fvg"] = 15 * e.gap
  /\ \A e : Points(e)["orderflow"] = 20 * Sgn(e.flow)
  /\ \A e : Points(e)["oi"] = Min({10, OiConfidence(e.oi) \div 10}) * OiDirection(e.oi)
  /\ \A e : Points(e)["mtf"] = IF Aligned(e) /\ ~MtfConflict(e)
                               THEN Min({10, AlignmentScore(e) \div 10}) * MtfBias(e) ELSE 0
  /\ \A e : Points(e)["microstructure"] = ResidualMicro(e)
  /\ \A e : Points(e)["vwap"] = 5 * e.vwap
  /\ \A e : Points(e)["funding"] = -5 * e.funding
  /\ \A e : Points(e)["volume_profile"] = 3 * e.profile
  /\ \A e : Points(e)["value"] = 5 * AuctionSide(e)
BY DEF Points, Signals, FundingPoints

LEMMA SidesAre ==
  ASSUME NEW e, EvidenceOK(e)
  PROVE  /\ OiDirection(e.oi) \in {-1, 0, 1} /\ AuctionSide(e) \in {-1, 0, 1}
         /\ SweepSide(e) \in {-1, 0, 1} /\ MtfBias(e) \in {-1, 0, 1} /\ Sgn(e.flow) \in {-1, 0, 1}
<1>1. \A x : Sgn(x) \in {-1, 0, 1}
  BY SgnIsSide DEF Side
<1>2. \A g : Lean(e, g) \in {-1, 0, 1}
  BY LeanIsSide DEF Side
<1>3. MtfBias(e) \in {-1, 0, 1}
  BY <1>2 DEF MtfBias, Winning
<1>4. SweepSide(e) \in {-1, 0, 1}
  BY DEF SweepSide, EvidenceOK, Side
<1> QED BY <1>1, <1>3, <1>4 DEF OiDirection, AuctionSide

\* A product with a side.
LEMMA SideTimes ==
  \A k \in Nat, x \in {-1, 0, 1} : k * x \in Int /\ k * (-x) = -(k * x)
OBVIOUS

\* Upside down each signal speaks for the other side.
LEMMA PointsFlip ==
  ASSUME NEW e, EvidenceOK(e), NEW m, Mirrored(e, m)
  PROVE  \A s \in Signals : Points(e)[s] \in Int /\ Points(m)[s] = -Points(e)[s]
<1> DEFINE P(s) == Points(e)[s] \in Int /\ Points(m)[s] = -Points(e)[s]
<1>1. P("structure") /\ P("fvg") /\ P("vwap") /\ P("funding") /\ P("volume_profile")
  <2>1. /\ e.structure.bias \in {-1, 0, 1} /\ e.gap \in {-1, 0, 1} /\ e.vwap \in {-1, 0, 1}
        /\ e.funding \in {-1, 0, 1} /\ e.profile \in {-1, 0, 1}
    BY DEF EvidenceOK, Side
  <2>2. /\ m.structure.bias = -e.structure.bias /\ m.gap = -e.gap /\ m.vwap = -e.vwap
        /\ m.funding = -e.funding /\ m.profile = -e.profile
    BY DEF Mirrored
  <2>3. \A r : /\ Points(r)["structure"] = 20 * r.structure.bias /\ Points(r)["fvg"] = 15 * r.gap
               /\ Points(r)["vwap"] = 5 * r.vwap /\ Points(r)["funding"] = -5 * r.funding
               /\ Points(r)["volume_profile"] = 3 * r.profile
    BY PointsAre
  <2>4. P("structure") /\ P("fvg")
    BY <2>1, <2>2, <2>3
  <2>5. P("vwap") /\ P("funding") /\ P("volume_profile")
    BY <2>1, <2>2, <2>3
  <2> QED BY <2>4, <2>5
<1>2. P("liquidity") /\ P("orderflow") /\ P("value")
  <2>1. SweepSide(m) = -SweepSide(e)
    BY DEF SweepSide, Mirrored, EvidenceOK, Side
  <2>2. Sgn(m.flow) = -Sgn(e.flow)
    BY SgnFlips DEF Mirrored, EvidenceOK
  <2>3. AuctionSide(m) = -AuctionSide(e)
    BY DEF Mirrored
  <2> QED BY <2>1, <2>2, <2>3, PointsAre, SidesAre
<1>3. P("oi")
  <2>1. /\ e.oi.price \in Int /\ e.oi.interest \in Int
        /\ m.oi.price = -e.oi.price /\ m.oi.interest = e.oi.interest /\ m.oi.heavy = e.oi.heavy
    BY DEF EvidenceOK, Mirrored
  <2>2. Abs(m.oi.price) = Abs(e.oi.price)
    BY <2>1 DEF Abs
  <2>3. OiDirection(m.oi) = -OiDirection(e.oi)
    BY <2>1, <2>2, SgnFlips DEF OiDirection
  <2>4. OiConfidence(m.oi) = OiConfidence(e.oi)
    BY <2>1, <2>2 DEF OiConfidence, Grade
  <2>5. OiConfidence(e.oi) \div 10 \in Nat
    BY OiConfidenceIsNat, Quotient
  <2>6. Min({10, OiConfidence(e.oi) \div 10}) \in Nat
    BY <2>5, CapIs
  <2> QED BY <2>3, <2>4, <2>6, PointsAre, SidesAre, SideTimes
<1>4. P("mtf")
  <2>1. AlignmentScore(e) \div 10 \in Nat
    BY AlignmentIsNat, Quotient
  <2>2. Min({10, AlignmentScore(e) \div 10}) \in Nat
    BY <2>1, CapIs
  <2>3. /\ AlignmentScore(m) = AlignmentScore(e) /\ MtfBias(m) = -MtfBias(e)
        /\ Aligned(m) <=> Aligned(e)
        /\ MtfConflict(m) <=> MtfConflict(e)
    BY FramesFlip
  <2> QED BY <2>2, <2>3, PointsAre, SidesAre, SideTimes
<1>5. P("microstructure")
  BY MicroFlips, PointsAre
<1> QED BY <1>1, <1>2, <1>3, <1>4, <1>5 DEF Signals

\* The score of a side is a sum of sizes, and five points if the relative volume
\* takes it.
Sizes(p) == [s \in Signals |-> Abs(p[s])]
Of(p, side) == {s \in Signals : Sgn(p[s]) = side}

AreSizes(p, S, f) ==
  f = [s \in SUBSET S |-> IF s = {} THEN 0 ELSE Abs(p[One(s)]) + f[s \ {One(s)}]]

LEMMA ScoreIs ==
  ASSUME NEW p, DOMAIN p = Signals, NEW busy, NEW side
  PROVE  ScoreOf(p, busy, side)
           = SumOf(Sizes(p), Of(p, side)) + Worth(busy /\ FirstSide(p) = side, 5)
<1> DEFINE S == Of(p, side)
<1>1. MapThenSumSet(LAMBDA s : Abs(p[s]), S) = (CHOOSE f : AreSizes(p, S, f))[S]
  BY DEF MapThenSumSet, MapThenFoldSet, AreSizes, One
<1>2. \A f : AreSizes(p, S, f) <=> AreSums(Sizes(p), S, f)
  <2>1. \A s \in SUBSET S : s # {} => One(s) \in Signals
    BY DEF One, Of
  <2>2. \A s \in SUBSET S : s # {} => Sizes(p)[One(s)] = Abs(p[One(s)])
    BY <2>1 DEF Sizes
  <2> HIDE DEF S
  <2> QED BY <2>2 DEF AreSizes, AreSums
<1>3. MapThenSumSet(LAMBDA s : Abs(p[s]), S) = SumOf(Sizes(p), S)
  <2> HIDE DEF S
  <2>1. (CHOOSE f : AreSizes(p, S, f)) = (CHOOSE f : AreSums(Sizes(p), S, f))
    BY <1>2, Zenon
  <2> QED BY <1>1, <2>1 DEF SumOf
<1>4. {s \in DOMAIN p : Sgn(p[s]) = side} = S
  BY DEF Of
<1> QED BY <1>3, <1>4 DEF ScoreOf

LEMMA SignalsAreFinite == \A S \in SUBSET Signals : IsFiniteSet(S)
<1> DEFINE A == {"structure", "liquidity", "fvg", "orderflow"}
           B == {"oi", "mtf", "microstructure", "vwap"}
           C == {"funding", "volume_profile", "value"}
<1>1. \A a, b, c, d : IsFiniteSet({a, b, c, d}) /\ IsFiniteSet({a, b, c})
  <2> SUFFICES ASSUME NEW a, NEW b, NEW c, NEW d
               PROVE  IsFiniteSet({a, b, c, d}) /\ IsFiniteSet({a, b, c})
    OBVIOUS
  <2>1. \A T, x : IsFiniteSet(T) => IsFiniteSet(T \union {x})
    BY FS_AddElement
  <2>2. IsFiniteSet({a})
    BY FS_Singleton
  <2>3. IsFiniteSet(({a} \union {b}) \union {c})
    BY <2>1, <2>2
  <2>4. IsFiniteSet((({a} \union {b}) \union {c}) \union {d})
    BY <2>1, <2>3
  <2>5. {a, b, c} = ({a} \union {b}) \union {c}
    OBVIOUS
  <2>6. {a, b, c, d} = (({a} \union {b}) \union {c}) \union {d}
    OBVIOUS
  <2> QED BY <2>3, <2>4, <2>5, <2>6
<1>2. IsFiniteSet(A) /\ IsFiniteSet(B) /\ IsFiniteSet(C)
  BY <1>1
<1>3. Signals = (A \union B) \union C
  BY DEF Signals
<1> HIDE DEF A, B, C
<1>4. IsFiniteSet(Signals)
  BY <1>2, <1>3, FS_Union
<1> QED BY <1>4, FS_Subset

LEMMA ScoreIsNat ==
  ASSUME NEW p, DOMAIN p = Signals, \A s \in Signals : p[s] \in Int, NEW busy, NEW side
  PROVE  ScoreOf(p, busy, side) \in Nat
<1>1. Of(p, side) \in SUBSET Signals /\ \A s \in Of(p, side) : Sizes(p)[s] \in Nat
  BY AbsIsNat DEF Of, Sizes
<1>2. SumOf(Sizes(p), Of(p, side)) \in Nat
  BY <1>1, SignalsAreFinite, SumIsNat
<1>3. Worth(busy /\ FirstSide(p) = side, 5) \in Nat
  BY DEF Worth
<1> QED BY <1>2, <1>3, ScoreIs

\* A set of numbers that is not empty has a first.
LEMMA MinIsFirst ==
  ASSUME NEW S \in SUBSET Nat, S # {}
  PROVE  Min(S) \in S /\ \A x \in S : Min(S) <= x
<1>1. \E x \in S : \A y \in S : ~(<<y, x>> \in OpToRel(<, Nat))
  BY NatLessThanWellFounded, WFMin
<1>2. \A x, y \in S : x <= y \/ <<y, x>> \in OpToRel(<, Nat)
  <2>1. \A x, y \in Nat : y < x => <<y, x>> \in OpToRel(<, Nat)
    BY DEF OpToRel
  <2>2. \A x, y \in Nat : x <= y \/ y < x
    OBVIOUS
  <2> QED BY <2>1, <2>2, Zenon
<1>3. \E x \in S : \A y \in S : x <= y
  BY <1>1, <1>2
<1> QED BY <1>3 DEF Min

Speaking(p) == {n \in DOMAIN Collected : p[Collected[n]] # 0}

LEMMA CollectedIs ==
  DOMAIN Collected = 1 .. 9 /\ \A n \in 1 .. 9 : Collected[n] \in Signals
BY DEF Collected, Signals

LEMMA FirstSideIs ==
  ASSUME NEW p
  PROVE  /\ FirstSide(p) = IF Speaking(p) = {} THEN 0 ELSE Sgn(p[Collected[Min(Speaking(p))]])
         /\ Speaking(p) # {}
              => Min(Speaking(p)) \in Speaking(p) /\ \A n \in Speaking(p) : Min(Speaking(p)) <= n
<1>1. Speaking(p) \in SUBSET Nat
  BY CollectedIs DEF Speaking
<1> QED BY <1>1, MinIsFirst DEF FirstSide, Speaking

\* Upside down each side scores what the other did.
LEMMA ScoresFlip ==
  ASSUME NEW p, DOMAIN p = Signals, NEW q, DOMAIN q = Signals,
         \A s \in Signals : p[s] \in Int /\ q[s] = -p[s], NEW busy
  PROVE  \A side \in {-1, 1} : ScoreOf(q, busy, side) = ScoreOf(p, busy, -side)
<1>1. \A s \in Signals : Abs(q[s]) = Abs(p[s]) /\ Sgn(q[s]) = -Sgn(p[s]) /\ Sgn(p[s]) \in {-1, 0, 1}
  BY SgnFlips, SgnIsSide DEF Abs, Side
<1>2. Sizes(q) = Sizes(p)
  BY <1>1 DEF Sizes
<1>3. \A side \in {-1, 1} : Of(q, side) = Of(p, -side)
  BY <1>1 DEF Of
<1>4. Speaking(q) = Speaking(p)
  BY CollectedIs DEF Speaking
<1>5. FirstSide(q) = -FirstSide(p) /\ FirstSide(p) \in {-1, 0, 1}
  <2>1. CASE Speaking(p) = {}
    BY <1>4, <2>1, FirstSideIs
  <2>2. CASE Speaking(p) # {}
    <3>1. Min(Speaking(p)) \in Speaking(p)
      BY <2>2, FirstSideIs
    <3>2. Collected[Min(Speaking(p))] \in Signals
      BY <3>1, CollectedIs DEF Speaking
    <3> QED BY <1>1, <1>4, <2>2, <3>2, FirstSideIs
  <2> QED BY <2>1, <2>2
<1>6. \A side \in {-1, 1} : Worth(busy /\ FirstSide(q) = side, 5) = Worth(busy /\ FirstSide(p) = -side, 5)
  BY <1>5 DEF Worth
<1> QED BY <1>2, <1>3, <1>6, ScoreIs

LEMMA ConfluenceFlips ==
  ASSUME NEW e, EvidenceOK(e), NEW m, Mirrored(e, m)
  PROVE  Confluence(m).side = -Confluence(e).side /\ Confluence(m).score = Confluence(e).score
<1> DEFINE p == Points(e)
           q == Points(m)
           bull == ScoreOf(p, e.busy, 1)
           bear == ScoreOf(p, e.busy, -1)
           larger == Min({100, Max({bull, bear})})
<1>1. DOMAIN p = Signals /\ DOMAIN q = Signals
  BY PointsAre
<1>2. \A s \in Signals : p[s] \in Int /\ q[s] = -p[s]
  BY PointsFlip
<1>3. m.busy = e.busy
  BY DEF Mirrored
<1> HIDE DEF p, q
<1>4. ScoreOf(q, m.busy, 1) = bear /\ ScoreOf(q, m.busy, -1) = bull
  BY <1>1, <1>2, <1>3, ScoresFlip
<1>5. bull \in Nat /\ bear \in Nat
  BY <1>1, <1>2, ScoreIsNat
<1> HIDE DEF bull, bear
<1>6. /\ Confluence(e).side = IF Abs(bull - bear) >= ConflictMargin THEN Sgn(bull - bear) ELSE 0
      /\ Confluence(e).score = IF Confluence(e).side = 0 THEN 0 ELSE larger
  BY DEF Confluence, p, bull, bear
<1>7. /\ Confluence(m).side = IF Abs(bear - bull) >= ConflictMargin THEN Sgn(bear - bull) ELSE 0
      /\ Confluence(m).score = IF Confluence(m).side = 0 THEN 0 ELSE Min({100, Max({bear, bull})})
  BY <1>4 DEF Confluence, q
<1>8. {bear, bull} = {bull, bear}
  OBVIOUS
<1>9. Abs(bear - bull) = Abs(bull - bear) /\ Sgn(bear - bull) = -Sgn(bull - bear)
  BY <1>5 DEF Abs, Sgn
<1>10. Sgn(bull - bear) \in {-1, 0, 1}
  BY SgnIsSide DEF Side
<1>11. Confluence(m).side = -Confluence(e).side
  BY <1>6, <1>7, <1>9, <1>10
<1> QED BY <1>6, <1>7, <1>8, <1>10, <1>11

LEMMA DecisionFlips ==
  ASSUME NEW e, EvidenceOK(e), NEW m, Mirrored(e, m)
  PROVE  /\ Decision(m).side = -Decision(e).side
         /\ Decision(m).confidence = Decision(e).confidence
         /\ Decision(m).stop = 2 * Decision(e).entry - Decision(e).stop
<1>1. Confluence(m).side = -Confluence(e).side /\ Confluence(m).score = Confluence(e).score
  BY ConfluenceFlips
<1>2. DirectionalRegime(m) <=> DirectionalRegime(e)
  BY DEF DirectionalRegime, Mirrored, AuctionSide
<1>3. Decidable(m) <=> Decidable(e)
  BY <1>2, FramesFlip DEF Decidable, Mirrored
<1>4. StopDistance(m) = StopDistance(e)
  BY DEF StopDistance, Mirrored
<1>5. Price \div 200 \in Nat
  BY PriceAssumption
<1>6. StopDistance(e) \in Nat
  BY <1>5 DEF StopDistance, EvidenceOK
<1>7. Confluence(e).side \in {-1, 0, 1}
  BY SgnIsSide DEF Confluence, Side
<1>8. CASE ~Decidable(e) \/ Confluence(e).side = 0 \/ Confluence(e).score < MinimumScore
  <2>1. PICK c : Decision(e) = Wait(c) /\ Decision(m) = Wait(c)
    BY <1>1, <1>3, <1>7, <1>8 DEF Decision
  <2>2. Wait(c).side = 0 /\ Wait(c).confidence = c /\ Wait(c).entry = 0 /\ Wait(c).stop = 0
    BY DEF Wait
  <2>3. /\ Decision(e).side = 0 /\ Decision(m).side = 0
        /\ Decision(m).confidence = Decision(e).confidence
        /\ Decision(e).entry = 0 /\ Decision(e).stop = 0 /\ Decision(m).stop = 0
    BY <2>1, <2>2
  <2>4. Decision(m).side = -Decision(e).side
    <3>1. 0 \in Int /\ \A x \in Int : (0 = -x) <=> x = 0
      OBVIOUS
    <3> QED BY <2>3, <3>1, Zenon
  <2>5. Decision(m).stop = 2 * Decision(e).entry - Decision(e).stop
    <3>1. 0 \in Int /\ \A x, y, z \in Int : x = 0 /\ y = 0 /\ z = 0 => x = 2 * y - z
      OBVIOUS
    <3> QED BY <2>3, <3>1, Zenon
  <2> QED BY <2>3, <2>4, <2>5
<1>9. CASE ~(~Decidable(e) \/ Confluence(e).side = 0 \/ Confluence(e).score < MinimumScore)
  <2>1. /\ Decision(e) = [side |-> Confluence(e).side, confidence |-> Confluence(e).score,
                          entry |-> Price, stop |-> Price - Confluence(e).side * StopDistance(e)]
        /\ Decision(m) = [side |-> Confluence(m).side, confidence |-> Confluence(m).score,
                          entry |-> Price, stop |-> Price - Confluence(m).side * StopDistance(m)]
    BY <1>1, <1>3, <1>7, <1>9 DEF Decision
  <2>2. Price - (-Confluence(e).side) * StopDistance(e)
          = 2 * Price - (Price - Confluence(e).side * StopDistance(e))
    BY <1>6, <1>7, PriceAssumption
  <2> QED BY <1>1, <1>4, <2>1, <2>2
<1> QED BY <1>8, <1>9

\* What was decided is what the evidence says.
LEMMA Decided == Spec => [](decision = Decision(evidence))
<1>1. Init => decision = Decision(evidence)
  BY DEF Init
<1>2. decision = Decision(evidence) /\ [Next]_vars => decision' = Decision(evidence')
  BY DEF Next, Analyze, RunRaises, Run, Handle, Kill, Reset, Restart, vars
<1>3. decision = Decision(evidence) /\ [Next]_vars => (decision = Decision(evidence))'
  BY <1>2
<1> QED BY <1>1, <1>3, PTL DEF Spec

\* Whatever the engines report, upside down the decision is the opposite one with
\* the same confidence (ConfluenceEngine.analyze, APEXDecisionBrain.analyze).
THEOREM OppositeMarketsOppositeDecisions == Spec => []OppositeDecides
<1>1. TypeOK /\ decision = Decision(evidence) => OppositeDecides
  <2> SUFFICES ASSUME TypeOK, decision = Decision(evidence)
               PROVE  OppositeDecides
    OBVIOUS
  <2>1. EvidenceOK(evidence) /\ Mirrored(evidence, Mirror(evidence))
    BY EvidenceIsOK, MirrorIs DEF TypeOK
  <2> QED BY <2>1, DecisionFlips DEF OppositeDecides
<1> QED BY <1>1, TypeCorrect, Decided, PTL
-----------------------------------------------------------------------------
(* Support. *)

\* What b must be on the book and not against it elsewhere, for the residual to be
\* earned on its side.
Earned(e, b) ==
  e.book = 2 * b /\ Sgn(e.flow) # -b /\ (e.sweep.displaced => e.sweep.bias = b)

LEMMA ResidualIs ==
  ASSUME NEW e, EvidenceOK(e)
  PROVE  ResidualMicro(e) = IF Earned(e, 1) THEN 10 ELSE IF Earned(e, -1) THEN -10 ELSE 0
<1> DEFINE bias == MicroBias(e)
           counted == Worth(e.flow # 0, 20) + Worth(Abs(e.flow) = 2, 10)
                        + Worth(Absorption(e), 10) + Worth(e.sweep.displaced, 25)
           left == (MicroScore(e, bias) - counted) \div 2
<1>1. /\ e.flow \in -2 .. 2 /\ e.book \in -2 .. 2
      /\ e.sweep.bias \in {-1, 0, 1} /\ e.sweep.displaced \in BOOLEAN
  BY DEF EvidenceOK, Side
<1>2. ResidualMicro(e) = IF bias = 0 THEN 0
                         ELSE bias * (IF left < 0 THEN 0 ELSE IF left > 10 THEN 10 ELSE left)
  <2>1. ResidualMicro(e) = IF bias = 0 THEN 0 ELSE bias * Min({10, Max({0, left})})
    BY DEF ResidualMicro
  <2>2. left \in Int
    BY DEF MicroScore, Worth
  <2> HIDE DEF left
  <2> QED BY <2>1, <2>2, ClampIs
<1>3. ASSUME NEW b \in {-1, 1}, Earned(e, b)
      PROVE  bias = b /\ left = 10
  <2>1. /\ e.book = 2 * b /\ Sgn(e.flow) # -b /\ e.book # 2 * (-b) /\ e.book # 0
        /\ e.sweep.displaced => e.sweep.bias = b
    BY <1>3 DEF Earned
  <2>2. ~Absorption(e)
    BY <2>1 DEF Absorption
  <2>3. /\ Sgn(e.flow) = b <=> e.flow # 0
        /\ e.flow = 2 * b <=> Abs(e.flow) = 2
        /\ e.flow # 2 * (-b) /\ Sgn(e.flow) # -b
    BY <1>1, <2>1 DEF Sgn, Abs
  <2>4. /\ SweepSide(e) = b <=> e.sweep.displaced
        /\ SweepSide(e) # -b
    BY <1>1, <2>1 DEF SweepSide
  <2>5. MicroScore(e, b) = Worth(e.flow # 0, 20) + Worth(Abs(e.flow) = 2, 10) + 20
                             + Worth(e.sweep.displaced, 25)
    BY <2>1, <2>2, <2>3, <2>4 DEF MicroScore, Worth
  <2>6. MicroScore(e, -b) = 0
    BY <2>1, <2>2, <2>3, <2>4 DEF MicroScore, Worth
  <2>7. bias = b
    <3>1. MicroScore(e, b) > 0 /\ MicroScore(e, b) \in Nat
      BY <2>5 DEF Worth
    <3> QED BY <2>6, <3>1 DEF MicroBias, Sgn
  <2>8. MicroScore(e, b) - counted = 20
    BY <2>2, <2>5 DEF Worth
  <2> QED BY <2>7, <2>8
<1>4. ASSUME ResidualMicro(e) # 0
      PROVE  Earned(e, 1) \/ Earned(e, -1)
  <2>1. MicroScore(e, bias) \in Nat /\ counted \in Nat
    BY DEF MicroScore, Worth
  <2>2. bias \in {-1, 0, 1}
    BY SgnIsSide DEF MicroBias, Side
  <2>3. bias # 0 /\ left > 0
    BY <1>2, <1>4, <2>1, <2>2
  <2>4. bias \in {-1, 1} /\ MicroScore(e, bias) > counted
    BY <2>1, <2>2, <2>3
  <2>5. Sgn(ResidualMicro(e)) = bias
    BY <1>2, <2>1, <2>3, <2>4 DEF Sgn
  <2>6. e.book = 2 * bias
    BY <1>4, <2>5, ResidualNeedsBook
  <2> HIDE DEF bias
  <2>7. ~Absorption(e)
    BY <2>4, <2>6 DEF Absorption
  <2>8. MicroScore(e, bias) = Worth(Sgn(e.flow) = bias, 20) + Worth(e.flow = 2 * bias, 10) + 20
                                + Worth(SweepSide(e) = bias, 25)
    BY <2>6, <2>7 DEF MicroScore, Worth
  <2>9. Worth(Sgn(e.flow) = bias, 20) <= Worth(e.flow # 0, 20)
        /\ Worth(e.flow = 2 * bias, 10) <= Worth(Abs(e.flow) = 2, 10)
        /\ Worth(SweepSide(e) = bias, 25) <= Worth(e.sweep.displaced, 25)
    BY <1>1, <2>4 DEF Worth, Sgn, Abs, SweepSide
  <2>10. Sgn(e.flow) # -bias
    <3> SUFFICES ASSUME Sgn(e.flow) = -bias PROVE FALSE
      OBVIOUS
    <3>1. e.flow # 0 /\ Sgn(e.flow) # bias
      BY <1>1, <2>4 DEF Sgn
    <3> QED BY <2>4, <2>8, <2>9, <3>1 DEF Worth
  <2>11. e.sweep.displaced => e.sweep.bias = bias
    <3> SUFFICES ASSUME e.sweep.displaced, e.sweep.bias # bias PROVE FALSE
      OBVIOUS
    <3>1. SweepSide(e) # bias
      BY DEF SweepSide
    <3> QED BY <2>4, <2>8, <2>9, <3>1 DEF Worth
  <2>12. Earned(e, bias)
    BY <2>6, <2>10, <2>11 DEF Earned
  <2> QED BY <2>4, <2>12
<1> HIDE DEF bias, left
<1>5. CASE Earned(e, 1)
  BY <1>2, <1>3, <1>5
<1>6. CASE ~Earned(e, 1) /\ Earned(e, -1)
  BY <1>2, <1>3, <1>6
<1>7. CASE ~Earned(e, 1) /\ ~Earned(e, -1)
  BY <1>4, <1>7
<1> QED BY <1>5, <1>6, <1>7

LEMMA PointsAreWhole ==
  ASSUME NEW e, EvidenceOK(e)
  PROVE  \A s \in Signals : Points(e)[s] \in Int
<1> DEFINE P(s) == Points(e)[s] \in Int
<1>1. P("structure") /\ P("fvg") /\ P("vwap") /\ P("funding") /\ P("volume_profile")
  <2>1. /\ e.structure.bias \in {-1, 0, 1} /\ e.gap \in {-1, 0, 1} /\ e.vwap \in {-1, 0, 1}
        /\ e.funding \in {-1, 0, 1} /\ e.profile \in {-1, 0, 1}
    BY DEF EvidenceOK, Side
  <2>2. \A r : /\ Points(r)["structure"] = 20 * r.structure.bias /\ Points(r)["fvg"] = 15 * r.gap
               /\ Points(r)["vwap"] = 5 * r.vwap /\ Points(r)["funding"] = -5 * r.funding
               /\ Points(r)["volume_profile"] = 3 * r.profile
    BY PointsAre
  <2> QED BY <2>1, <2>2
<1>2. P("liquidity") /\ P("orderflow") /\ P("value")
  BY PointsAre, SidesAre
<1>3. P("oi")
  <2>1. OiConfidence(e.oi) \div 10 \in Nat
    BY OiConfidenceIsNat, Quotient
  <2>2. Min({10, OiConfidence(e.oi) \div 10}) \in Nat
    BY <2>1, CapIs
  <2> QED BY <2>2, PointsAre, SidesAre, SideTimes
<1>4. P("mtf")
  <2>1. AlignmentScore(e) \div 10 \in Nat
    BY AlignmentIsNat, Quotient
  <2>2. Min({10, AlignmentScore(e) \div 10}) \in Nat
    BY <2>1, CapIs
  <2> QED BY <2>2, PointsAre, SidesAre, SideTimes
<1>5. P("microstructure")
  BY ResidualIs, PointsAre
<1> QED BY <1>1, <1>2, <1>3, <1>4, <1>5 DEF Signals

\* The second is on the side of the first, or where it was.
Towards(side, x, y) == side * y >= side * x

LEMMA ResidualRises ==
  ASSUME NEW e, EvidenceOK(e), NEW f, EvidenceOK(f), NEW side \in {-1, 1},
         \/ /\ f.book = e.book /\ f.sweep = e.sweep /\ side * (f.flow - e.flow) > 0
         \/ /\ f.flow = e.flow /\ f.sweep = e.sweep /\ side * (f.book - e.book) > 0
         \/ /\ f.flow = e.flow /\ f.book = e.book /\ side * (SweepSide(f) - SweepSide(e)) > 0
         \/ /\ f.flow = e.flow /\ f.book = e.book /\ f.sweep = e.sweep
  PROVE  Towards(side, ResidualMicro(e), ResidualMicro(f))
<1>1. /\ e.flow \in -2 .. 2 /\ e.book \in -2 .. 2
      /\ e.sweep.bias \in {-1, 0, 1} /\ e.sweep.displaced \in BOOLEAN
      /\ f.flow \in -2 .. 2 /\ f.book \in -2 .. 2
      /\ f.sweep.bias \in {-1, 0, 1} /\ f.sweep.displaced \in BOOLEAN
  BY DEF EvidenceOK, Side
<1>2. Earned(e, side) => Earned(f, side)
  BY <1>1 DEF Earned, SweepSide, Sgn
<1>3. Earned(f, -side) => Earned(e, -side)
  BY <1>1 DEF Earned, SweepSide, Sgn
<1>4. ~(Earned(e, 1) /\ Earned(e, -1)) /\ ~(Earned(f, 1) /\ Earned(f, -1))
  BY <1>1 DEF Earned
<1>5. /\ ResidualMicro(e) = IF Earned(e, 1) THEN 10 ELSE IF Earned(e, -1) THEN -10 ELSE 0
      /\ ResidualMicro(f) = IF Earned(f, 1) THEN 10 ELSE IF Earned(f, -1) THEN -10 ELSE 0
  BY ResidualIs
<1>6. CASE side = 1
  BY <1>2, <1>3, <1>4, <1>5, <1>6 DEF Towards
<1>7. CASE side = -1
  BY <1>2, <1>3, <1>4, <1>5, <1>7 DEF Towards
<1> QED BY <1>6, <1>7

\* The evidence with one reading that turned to a side.
Turned(side, e, f) ==
  \E s \in Sources :
    /\ \A r \in Sources \ {s} : f[r] = e[r]
    /\ side * (SideOf(f, s) - SideOf(e, s)) > 0

LEMMA WeightRises ==
  \A side \in {-1, 1}, k \in Nat, x, y \in {-1, 0, 1} :
    y = x \/ side * (y - x) > 0 => Towards(side, k * x, k * y)
<1> SUFFICES ASSUME NEW side \in {-1, 1}, NEW k \in Nat, NEW x \in {-1, 0, 1}, NEW y \in {-1, 0, 1},
                    y = x \/ side * (y - x) > 0
             PROVE  side * (k * y) >= side * (k * x)
  BY DEF Towards
<1>1. CASE side = 1
  BY <1>1
<1>2. CASE side = -1
  BY <1>2
<1> QED BY <1>1, <1>2

LEMMA PointsRise ==
  ASSUME NEW e, EvidenceOK(e), NEW f, EvidenceOK(f), NEW side \in {-1, 1}, Turned(side, e, f)
  PROVE  /\ \A t \in Signals : Towards(side, Points(e)[t], Points(f)[t])
         /\ f.busy = e.busy
<1> DEFINE P(t) == Towards(side, Points(e)[t], Points(f)[t])
<1>1. PICK s \in Sources : /\ \A r \in Sources \ {s} : f[r] = e[r]
                           /\ side * (SideOf(f, s) - SideOf(e, s)) > 0
  BY DEF Turned
<1>2. {"frames", "stale", "busy", "structure", "sweep", "gap", "flow", "book", "oi", "vwap", "funding",
       "profile", "auction"} \subseteq Sources
  BY ReadingsAssumption DEF Reported
<1>3. s \notin {"frames", "stale", "busy"}
  BY <1>1 DEF SideOf
<1>4. f.frames = e.frames /\ f.stale = e.stale /\ f.busy = e.busy
  BY <1>1, <1>2, <1>3
<1>5. /\ f.structure = e.structure \/ side * (f.structure.bias - e.structure.bias) > 0
      /\ f.sweep = e.sweep \/ side * (SweepSide(f) - SweepSide(e)) > 0
      /\ f.oi = e.oi \/ side * (OiDirection(f.oi) - OiDirection(e.oi)) > 0
      /\ f.auction = e.auction \/ side * (AuctionSide(f) - AuctionSide(e)) > 0
  BY <1>1, <1>2 DEF SideOf
<1>6. /\ f.gap = e.gap \/ side * (f.gap - e.gap) > 0
      /\ f.flow = e.flow \/ side * (f.flow - e.flow) > 0
      /\ f.vwap = e.vwap \/ side * (f.vwap - e.vwap) > 0
      /\ f.funding = e.funding \/ side * (-f.funding - (-e.funding)) > 0
      /\ f.profile = e.profile \/ side * (f.profile - e.profile) > 0
  BY <1>1, <1>2 DEF SideOf
<1>7. /\ e.structure.bias \in {-1, 0, 1} /\ f.structure.bias \in {-1, 0, 1}
      /\ e.gap \in {-1, 0, 1} /\ f.gap \in {-1, 0, 1} /\ e.vwap \in {-1, 0, 1} /\ f.vwap \in {-1, 0, 1}
      /\ e.funding \in {-1, 0, 1} /\ f.funding \in {-1, 0, 1}
      /\ e.profile \in {-1, 0, 1} /\ f.profile \in {-1, 0, 1}
      /\ e.flow \in -2 .. 2 /\ f.flow \in -2 .. 2
  BY DEF EvidenceOK, Side
<1>8. \A r : /\ Points(r)["structure"] = 20 * r.structure.bias /\ Points(r)["fvg"] = 15 * r.gap
             /\ Points(r)["vwap"] = 5 * r.vwap /\ Points(r)["volume_profile"] = 3 * r.profile
             /\ Points(r)["liquidity"] = 25 * SweepSide(r)
             /\ Points(r)["orderflow"] = 20 * Sgn(r.flow) /\ Points(r)["value"] = 5 * AuctionSide(r)
  BY PointsAre
<1>9. P("structure") /\ P("fvg") /\ P("vwap") /\ P("volume_profile")
  <2>1. /\ f.structure.bias = e.structure.bias \/ side * (f.structure.bias - e.structure.bias) > 0
        /\ 20 \in Nat /\ 15 \in Nat /\ 5 \in Nat /\ 3 \in Nat
    BY <1>5
  <2> QED BY <1>6, <1>7, <1>8, <2>1, WeightRises
<1>10. P("liquidity") /\ P("value")
  <2>1. /\ f.sweep = e.sweep => SweepSide(f) = SweepSide(e)
        /\ f.auction = e.auction => AuctionSide(f) = AuctionSide(e)
    BY DEF SweepSide, AuctionSide
  <2>2. 25 \in Nat /\ 5 \in Nat
    OBVIOUS
  <2> QED BY <1>5, <1>8, <2>1, <2>2, SidesAre, WeightRises
<1>11. P("orderflow")
  <2>1. /\ Sgn(f.flow) = Sgn(e.flow) \/ side * (Sgn(f.flow) - Sgn(e.flow)) > 0
        /\ Sgn(f.flow) \in {-1, 0, 1} /\ Sgn(e.flow) \in {-1, 0, 1}
    BY <1>6, <1>7 DEF Sgn
  <2>2. 20 \in Nat
    OBVIOUS
  <2> QED BY <1>8, <2>1, <2>2, WeightRises
<1>12. P("oi")
  <2> DEFINE Size(r) == Min({10, OiConfidence(r.oi) \div 10})
  <2>1. \A r : Size(r) \in Nat
    BY OiConfidenceIsNat, Quotient, CapIs
  <2>2. \A r : Points(r)["oi"] = Size(r) * OiDirection(r.oi)
    BY PointsAre
  <2>3. OiDirection(e.oi) \in {-1, 0, 1} /\ OiDirection(f.oi) \in {-1, 0, 1}
    BY SidesAre
  <2>4. f.oi = e.oi => Points(f)["oi"] = Points(e)["oi"]
    BY <2>2
  <2>5. Size(e) \in Nat /\ Size(f) \in Nat
    BY <2>1
  <2> HIDE DEF Size
  <2>6. \A n \in Nat, x \in {-1, 0, 1} : n * x = (IF x = 0 THEN 0 ELSE IF x = 1 THEN n ELSE -n)
    OBVIOUS
  <2>7. /\ Points(e)["oi"] = (IF OiDirection(e.oi) = 0 THEN 0 ELSE IF OiDirection(e.oi) = 1 THEN Size(e) ELSE -Size(e))
        /\ Points(f)["oi"] = (IF OiDirection(f.oi) = 0 THEN 0 ELSE IF OiDirection(f.oi) = 1 THEN Size(f) ELSE -Size(f))
    BY <2>2, <2>3, <2>5, <2>6
  <2> QED BY <1>5, <2>3, <2>4, <2>5, <2>7 DEF Towards
<1>13. P("mtf")
  <2>1. \A g : Lean(f, g) = Lean(e, g)
    BY <1>4 DEF Lean
  <2>2. Leaning(f) = Leaning(e) /\ Winning(f) = Winning(e)
    BY <2>1 DEF Leaning, Winning
  <2>3. /\ MtfConflict(f) <=> MtfConflict(e)
        /\ AlignmentScore(f) = AlignmentScore(e)
    BY <2>1, <2>2 DEF MtfConflict, AlignmentScore
  <2>4. MtfBias(f) = MtfBias(e) /\ (Aligned(f) <=> Aligned(e))
    BY <1>4, <2>1, <2>2, <2>3 DEF MtfBias, Aligned
  <2>5. Points(f)["mtf"] = Points(e)["mtf"]
    BY <2>3, <2>4, PointsAre
  <2>6. Points(e)["mtf"] \in Int
    BY PointsAreWhole DEF Signals
  <2> QED BY <2>5, <2>6 DEF Towards
<1>14. P("microstructure")
  <2>1. f.book = e.book \/ side * (f.book - e.book) > 0
    BY <1>1, <1>2 DEF SideOf
  <2>2. \/ /\ f.book = e.book /\ f.sweep = e.sweep /\ side * (f.flow - e.flow) > 0
        \/ /\ f.flow = e.flow /\ f.sweep = e.sweep /\ side * (f.book - e.book) > 0
        \/ /\ f.flow = e.flow /\ f.book = e.book /\ side * (SweepSide(f) - SweepSide(e)) > 0
        \/ /\ f.flow = e.flow /\ f.book = e.book /\ f.sweep = e.sweep
    BY <1>1, <1>2, <1>5, <1>6, <2>1
  <2> QED BY <2>2, ResidualRises, PointsAre
<1>15. P("funding")
  <2>1. \A r : Points(r)["funding"] = -5 * r.funding
    BY PointsAre
  <2>2. side * (-5 * f.funding) >= side * (-5 * e.funding)
    BY <1>6, <1>7
  <2> QED BY <2>1, <2>2 DEF Towards
<1> QED BY <1>4, <1>8, <1>9, <1>10, <1>11, <1>12, <1>13, <1>14, <1>15 DEF Signals

\* Signals that turn to a side give its score, and do not take the relative volume
\* from it.
LEMMA ScoreRises ==
  ASSUME NEW p, DOMAIN p = Signals, NEW q, DOMAIN q = Signals, NEW busy, NEW side \in {-1, 1},
         \A s \in Signals : p[s] \in Int /\ q[s] \in Int /\ Towards(side, p[s], q[s])
  PROVE  ScoreOf(p, busy, side) <= ScoreOf(q, busy, side)
<1>1. \A s \in Signals : Sgn(p[s]) = side => Sgn(q[s]) = side /\ Abs(p[s]) <= Abs(q[s])
  BY DEF Towards, Sgn, Abs
<1>2. Of(p, side) \subseteq Of(q, side)
  BY <1>1 DEF Of
<1>3. SumOf(Sizes(p), Of(p, side)) <= SumOf(Sizes(q), Of(q, side))
  <2>1. IsFiniteSet(Of(q, side))
    BY SignalsAreFinite DEF Of
  <2>2. \A s \in Of(q, side) : Sizes(q)[s] \in Nat
    BY AbsIsNat DEF Of, Sizes
  <2>3. \A s \in Of(p, side) : Sizes(p)[s] \in Nat /\ Sizes(p)[s] <= Sizes(q)[s]
    BY <1>1, AbsIsNat DEF Of, Sizes
  <2> QED BY <1>2, <2>1, <2>2, <2>3, SumGrows
<1>4. ASSUME FirstSide(p) = side PROVE FirstSide(q) = side
  <2> DEFINE n == Min(Speaking(p))
             m == Min(Speaking(q))
  <2>1. Speaking(p) # {}
    BY <1>4, FirstSideIs
  <2>2. n \in Speaking(p) /\ (\A k \in Speaking(p) : n <= k) /\ Sgn(p[Collected[n]]) = side
    BY <1>4, <2>1, FirstSideIs
  <2>3. n \in 1 .. 9 /\ Collected[n] \in Signals
    BY <2>2, CollectedIs DEF Speaking
  <2>4. Sgn(q[Collected[n]]) = side
    BY <1>1, <2>2, <2>3
  <2>5. n \in Speaking(q)
    <3> HIDE DEF n
    <3>1. Sgn(0) # side
      BY DEF Sgn
    <3>2. q[Collected[n]] # 0
      BY <2>4, <3>1
    <3> QED BY <2>3, <3>2, CollectedIs DEF Speaking
  <2>6. m \in Speaking(q) /\ m <= n /\ FirstSide(q) = Sgn(q[Collected[m]])
    BY <2>5, FirstSideIs
  <2>7. m \in 1 .. 9 /\ Collected[m] \in Signals /\ q[Collected[m]] # 0
    BY <2>6, CollectedIs DEF Speaking
  <2> HIDE DEF n, m
  <2>8. CASE m = n
    BY <2>4, <2>6, <2>8
  <2>9. CASE m # n
    <3>1. m < n
      BY <2>3, <2>6, <2>7, <2>9
    <3>2. m \notin Speaking(p)
      BY <2>2, <2>3, <2>7, <3>1
    <3>3. p[Collected[m]] = 0
      BY <2>7, <3>2, CollectedIs DEF Speaking
    <3>4. \A x \in Int : x # 0 /\ Towards(side, 0, x) => Sgn(x) = side
      BY DEF Towards, Sgn
    <3>5. q[Collected[m]] \in Int /\ Towards(side, p[Collected[m]], q[Collected[m]])
      BY <2>7
    <3> QED BY <2>6, <2>7, <3>3, <3>4, <3>5
  <2> QED BY <2>8, <2>9
<1>5. Worth(busy /\ FirstSide(p) = side, 5) <= Worth(busy /\ FirstSide(q) = side, 5)
  BY <1>4 DEF Worth
<1>6. SumOf(Sizes(p), Of(p, side)) \in Nat /\ SumOf(Sizes(q), Of(q, side)) \in Nat
  <2>1. IsFiniteSet(Of(p, side)) /\ IsFiniteSet(Of(q, side))
    BY SignalsAreFinite DEF Of
  <2>2. /\ \A s \in Of(p, side) : Sizes(p)[s] \in Nat
        /\ \A s \in Of(q, side) : Sizes(q)[s] \in Nat
    BY AbsIsNat DEF Of, Sizes
  <2> QED BY <2>1, <2>2, SumIsNat
<1>7. /\ ScoreOf(p, busy, side) = SumOf(Sizes(p), Of(p, side)) + Worth(busy /\ FirstSide(p) = side, 5)
      /\ ScoreOf(q, busy, side) = SumOf(Sizes(q), Of(q, side)) + Worth(busy /\ FirstSide(q) = side, 5)
  BY ScoreIs
<1> QED BY <1>3, <1>5, <1>6, <1>7 DEF Worth

\* The score of a side and of the other one.
Own(e, side) == ScoreOf(Points(e), e.busy, side)

LEMMA OwnIsNat ==
  ASSUME NEW e, EvidenceOK(e), NEW side
  PROVE  Own(e, side) \in Nat
BY PointsAre, PointsAreWhole, ScoreIsNat DEF Own

LEMMA WinsWhen ==
  ASSUME NEW e, EvidenceOK(e), NEW side \in {-1, 1}
  PROVE  Decision(e).side = side
           <=> /\ Decidable(e)
               /\ Own(e, side) >= Own(e, -side) + ConflictMargin
               /\ Own(e, side) >= MinimumScore
<1> DEFINE bull == Own(e, 1)
           bear == Own(e, -1)
           larger == IF bull > bear THEN bull ELSE bear
           c == IF Abs(bull - bear) >= ConflictMargin THEN Sgn(bull - bear) ELSE 0
           score == IF c = 0 THEN 0 ELSE IF larger > 100 THEN 100 ELSE larger
<1>1. bull \in Nat /\ bear \in Nat
  BY OwnIsNat
<1>2. Confluence(e).side = c /\ Confluence(e).score = score
  <2>1. /\ Confluence(e).side = c
        /\ Confluence(e).score = IF c = 0 THEN 0 ELSE Min({100, Max({bull, bear})})
    BY DEF Confluence, Own
  <2>2. Min({100, Max({bull, bear})}) = IF larger > 100 THEN 100 ELSE larger
    <3> HIDE DEF bull, bear
    <3>1. Max({bull, bear}) = larger /\ larger \in Nat
      BY <1>1, LargerIs
    <3> HIDE DEF larger
    <3> QED BY <3>1, CapIs
  <2> QED BY <2>1, <2>2
<1> HIDE DEF bull, bear
<1>3. c \in {-1, 0, 1} /\ score \in Nat
  BY <1>1, SgnIsSide DEF Side
<1>4. Decision(e).side = IF ~Decidable(e) \/ c = 0 \/ score < MinimumScore THEN 0 ELSE c
  BY <1>2 DEF Decision, Wait
<1>5. Decision(e).side = side <=> Decidable(e) /\ c = side /\ score >= MinimumScore
  <2> HIDE DEF c, score
  <2> QED BY <1>3, <1>4 DEF MinimumScore
<1>6. CASE side = 1
  <2>1. c = 1 <=> bull >= bear + ConflictMargin
    BY <1>1 DEF Sgn, Abs, ConflictMargin
  <2>2. c = 1 => (score >= MinimumScore <=> bull >= MinimumScore)
    BY <1>1, <2>1 DEF ConflictMargin, MinimumScore
  <2> QED BY <1>5, <1>6, <2>1, <2>2 DEF bull, bear
<1>7. CASE side = -1
  <2>1. c = -1 <=> bear >= bull + ConflictMargin
    BY <1>1 DEF Sgn, Abs, ConflictMargin
  <2>2. c = -1 => (score >= MinimumScore <=> bear >= MinimumScore)
    BY <1>1, <2>1 DEF ConflictMargin, MinimumScore
  <2>3. -side = 1
    <3>1. \A x \in {-1, 1} : (x = -1) <=> (-x = 1)
      OBVIOUS
    <3> QED BY <1>7, <3>1, Zenon
  <2> QED BY <1>5, <1>7, <2>1, <2>2, <2>3 DEF bull, bear
<1> QED BY <1>6, <1>7

\* A reading that turns to the side of the decision leaves it there.
LEMMA TurnKeeps ==
  ASSUME NEW e, EvidenceOK(e), NEW f, EvidenceOK(f), NEW side \in {-1, 1}, Turned(side, e, f),
         Decision(e).side = side, Decidable(f)
  PROVE  Decision(f).side = side
<1> DEFINE p == Points(e)
           q == Points(f)
<1>1. DOMAIN p = Signals /\ DOMAIN q = Signals
  BY PointsAre
<1>2. /\ \A s \in Signals : p[s] \in Int /\ q[s] \in Int /\ Towards(side, p[s], q[s])
      /\ f.busy = e.busy
  BY PointsAreWhole, PointsRise
<1>3. -side \in {-1, 1} /\ \A s \in Signals : Towards(-side, q[s], p[s])
  BY <1>2 DEF Towards
<1> HIDE DEF p, q
<1>4. ScoreOf(p, e.busy, side) <= ScoreOf(q, e.busy, side)
  BY <1>1, <1>2, ScoreRises
<1>5. ScoreOf(q, e.busy, -side) <= ScoreOf(p, e.busy, -side)
  BY <1>1, <1>2, <1>3, ScoreRises
<1>6. Own(e, side) <= Own(f, side) /\ Own(f, -side) <= Own(e, -side)
  BY <1>2, <1>4, <1>5 DEF Own, p, q
<1>7. Own(e, side) \in Nat /\ Own(f, side) \in Nat /\ Own(e, -side) \in Nat /\ Own(f, -side) \in Nat
  BY OwnIsNat
<1>8. Own(e, side) >= Own(e, -side) + ConflictMargin /\ Own(e, side) >= MinimumScore
  BY WinsWhen
<1>9. Own(f, side) >= Own(f, -side) + ConflictMargin /\ Own(f, side) >= MinimumScore
  BY <1>6, <1>7, <1>8 DEF ConflictMargin, MinimumScore
<1> QED BY <1>9, WinsWhen

\* Whatever the engines report, a reading that turns towards the trade does not
\* lose it (ApexBrainPipeline.run, ConfluenceEngine.analyze).
THEOREM SupportIsKept == Spec => SupportNeverHurts
<1> DEFINE Supported == /\ decision.side # 0
                        /\ Decidable(evidence')
                        /\ \A s \in Sources : evidence'[s] # evidence[s]
                             => decision.side * (SideOf(evidence', s) - SideOf(evidence, s)) > 0
           Answered == decision = Decision(evidence)
<1>1. ASSUME TypeOK, TypeOK', Answered, Answered', [Next]_vars
      PROVE  [Supported => decision'.side = decision.side]_evidence
  <2> SUFFICES ASSUME evidence' # evidence, Supported
               PROVE  decision'.side = decision.side
    OBVIOUS
  <2>1. PICK s \in Sources : Analyze(s)
    BY <1>1 DEF Next, RunRaises, Run, Handle, Kill, Reset, Restart, vars
  <2>2. PICK reading \in Readings[s] \ {evidence[s]} : evidence' = [evidence EXCEPT ![s] = reading]
    BY <2>1 DEF Analyze
  <2>3. DOMAIN evidence = Sources
    BY <1>1 DEF TypeOK
  <2>4. evidence'[s] # evidence[s] /\ \A r \in Sources \ {s} : evidence'[r] = evidence[r]
    BY <2>2, <2>3
  <2>5. Turned(decision.side, evidence, evidence')
    BY <2>4 DEF Turned
  <2>6. EvidenceOK(evidence) /\ EvidenceOK(evidence')
    BY <1>1, ReadingsAreOK DEF TypeOK
  <2>7. decision.side \in {-1, 1}
    BY <1>1 DEF TypeOK, Side
  <2> QED BY <1>1, <2>5, <2>6, <2>7, TurnKeeps
<1>2. SupportNeverHurts <=> [][Supported => decision'.side = decision.side]_evidence
  BY DEF SupportNeverHurts
<1>3. Spec => []Answered
  BY Decided
<1> HIDE DEF Supported, Answered
<1> QED BY <1>1, <1>2, <1>3, TypeCorrect, PTL DEF Spec
=============================================================================
