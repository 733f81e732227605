-------------------------- MODULE DecisionEngines ---------------------------
(***************************************************************************)
(* From the readings of the engines to one decision: the multi-timeframe   *)
(* and microstructure engines, the open-interest engine, the regime, the   *)
(* signals ApexBrainPipeline.run collects, ConfluenceEngine.analyze and    *)
(* APEXDecisionBrain.analyze.  A side is 1 for LONG and bullish, -1 for    *)
(* SHORT and bearish, 0 for neither.                                       *)
(*                                                                         *)
(* The evidence e is a record of the readings one run sees:                *)
(*   frames      bias of the structure of each timeframe                   *)
(*   stale       a timeframe is older than its threshold                   *)
(*   structure   bias, and whether the trend has a direction               *)
(*   sweep       bias of liquidity, and whether the next candle followed   *)
(*   gap, block  bias of the fair value gaps and of the order blocks       *)
(*   flow        side of the delta, doubled when it is half of the volume  *)
(*   book        imbalance in tenths, 2 standing for all above             *)
(*   oi          change of price and of open interest in quarters of a     *)
(*               percent, and whether the volume is twice the usual        *)
(*   vwap        side of it the price is on                                *)
(*   funding     side that pays an extreme rate                            *)
(*   busy        relative volume is high                                   *)
(*   profile     side of the value area the price is on                    *)
(*   auction     state of the value migration, range of the candles        *)
(*   valid       the data quality is one of the two good ones              *)
(*   atr, volatility   distances for the stop, 0 when there is none        *)
(***************************************************************************)
EXTENDS Integers, Sequences, FiniteSetsExt

CONSTANT Price   \* the price the context carries

ASSUME PriceAssumption == Price \in Nat \ {0}

Side == {-1, 0, 1}
Sgn(x) == CASE x > 0 -> 1 [] x < 0 -> -1 [] OTHER -> 0
Abs(x) == IF x < 0 THEN -x ELSE x
Worth(fact, points) == IF fact THEN points ELSE 0

-----------------------------------------------------------------------------
(* Multi-timeframe structure (MultiTimeframeStructure.analyze). *)

Groups == <<"htf", "mtf", "ltf">>
GroupWeight == [htf |-> 3, mtf |-> 2, ltf |-> 1]
GroupOf(f) ==
  CASE f \in {"4h", "1h"} -> "htf" [] f \in {"15m", "5m"} -> "mtf" [] f = "1m" -> "ltf"

\* The majority in a group.
Lean(e, g) ==
  LET Count(side) == Cardinality({f \in DOMAIN e.frames : GroupOf(f) = g /\ e.frames[f] = side})
  IN Sgn(Count(1) - Count(-1))

Leaning(e) == {g \in DOMAIN GroupWeight : Lean(e, g) # 0}
MtfConflict(e) == \E g, h \in Leaning(e) : Lean(e, g) # Lean(e, h)

\* The first group that leans decides.
Winning(e) ==
  CASE Lean(e, "htf") # 0 -> Lean(e, "htf")
    [] Lean(e, "htf") = 0 /\ Lean(e, "mtf") # 0 -> Lean(e, "mtf")
    [] OTHER -> Lean(e, "ltf")

WeightOf(groups) == MapThenSumSet(LAMBDA g : GroupWeight[g], groups)
AlignmentScore(e) ==
  LET agreeing == {g \in Leaning(e) : Lean(e, g) = Winning(e)}
  IN IF Leaning(e) = {} THEN 0 ELSE (100 * WeightOf(agreeing)) \div WeightOf(Leaning(e))

MtfBias(e) ==
  IF e.stale \/ (MtfConflict(e) /\ Lean(e, "htf") = 0) THEN 0 ELSE Winning(e)

\* All timeframes that have a bias have the same one.
Aligned(e) ==
  LET biases == {e.frames[f] : f \in DOMAIN e.frames} \ {0}
  IN ~e.stale /\ Cardinality(biases) = 1

-----------------------------------------------------------------------------
(* Microstructure (MicrostructureEngine.analyze, OrderFlowEngine.analyze). *)

\* Half of the volume on one side without a book that leans.
Absorption(e) == Abs(e.flow) = 2 /\ e.book = 0

SweepSide(e) == IF e.sweep.displaced THEN e.sweep.bias ELSE 0

MicroScore(e, side) ==
  Worth(Sgn(e.flow) = side, 20) + Worth(e.flow = 2 * side, 10)
    + Worth(e.book = 2 * side, 20) + Worth(SweepSide(e) = side, 25)
    + Worth(Absorption(e) /\ Sgn(e.flow) = side, 10)

MicroBias(e) == Sgn(MicroScore(e, 1) - MicroScore(e, -1))

\* Mutant: the sweep is credited twice.
SweepTwice(e) ==
  LET bias == MicroBias(e)
      counted == Worth(e.flow # 0, 20) + Worth(Abs(e.flow) = 2, 10) + Worth(Absorption(e), 10)
  IN IF bias = 0 THEN 0
     ELSE bias * Min({10, Max({0, (MicroScore(e, bias) - counted) \div 2})})

\* What the microstructure adds to the order flow and the sweep, which have
\* signals of their own: at most 10, signed with its side.
ResidualMicro(e) ==
  LET bias == MicroBias(e)
      counted == Worth(e.flow # 0, 20) + Worth(Abs(e.flow) = 2, 10)
                   + Worth(Absorption(e), 10) + Worth(e.sweep.displaced, 25)
  IN IF bias = 0 THEN 0
     ELSE bias * Min({10, Max({0, (MicroScore(e, bias) - counted) \div 2})})

-----------------------------------------------------------------------------
(* Open interest (OIEngine.analyze) and regime (RegimeEngine.analyze). *)

Neutral == 1   \* neutral_threshold_pct and strong_threshold_pct, in quarters
Strong == 8

OiDirection(oi) ==
  IF Abs(oi.price) > Neutral /\ Abs(oi.interest) > Neutral THEN Sgn(oi.price) ELSE 0

Grade(change) ==
  CASE Abs(change) >= Strong -> 20 [] Abs(change) \in Neutral .. Strong - 1 -> 10 [] OTHER -> 0

OiConfidence(oi) ==
  Min({100, 50 + Grade(oi.interest) + Grade(oi.price) + Worth(oi.heavy, 10)})

AuctionSide(e) ==
  CASE e.auction.value = "HIGHER" -> 1 [] e.auction.value = "LOWER" -> -1 [] OTHER -> 0

\* The regimes the decision does not reject.  Without confirmed candles there is none:
\* the evidence then has no trend and a range that is neither narrow nor wide.
DirectionalRegime(e) ==
  /\ e.auction.value # "BALANCE"
  /\ \/ e.auction.range \in {"narrow", "wide"}
     \/ e.structure.trend /\ AuctionSide(e) # 0

-----------------------------------------------------------------------------
(* Signals (ApexBrainPipeline.run) and their sums (ConfluenceEngine). *)

\* Mutant: extreme funding counts for the side that pays it.
FundingFollowed(e) == 5 * e.funding

\* Extreme funding counts against the side that pays it.
FundingPoints(e) == -5 * e.funding

\* The points of each signal, signed with its side.
Points(e) ==
  [structure |-> 20 * e.structure.bias,
   liquidity |-> 25 * SweepSide(e),
   fvg |-> 15 * e.gap,
   orderflow |-> 20 * Sgn(e.flow),
   oi |-> Min({10, OiConfidence(e.oi) \div 10}) * OiDirection(e.oi),
   mtf |-> IF Aligned(e) /\ ~MtfConflict(e)
           THEN Min({10, AlignmentScore(e) \div 10}) * MtfBias(e) ELSE 0,
   microstructure |-> ResidualMicro(e),
   vwap |-> 5 * e.vwap,
   funding |-> FundingPoints(e),
   volume_profile |-> 3 * e.profile,
   value |-> 5 * AuctionSide(e)]

\* The signals before that of the relative volume, in their order.
Collected ==
  <<"structure", "liquidity", "fvg", "orderflow", "oi", "mtf", "microstructure", "vwap", "funding">>

\* Mutant: it takes the bullish side if any signal has it.
AnyBullish(p) ==
  LET sides == {Sgn(p[s]) : s \in DOMAIN p}
  IN CASE 1 \in sides -> 1 [] 1 \notin sides /\ -1 \in sides -> -1 [] OTHER -> 0

\* The relative volume takes the side of the first of them.
FirstSide(p) ==
  LET speaking == {n \in DOMAIN Collected : p[Collected[n]] # 0}
  IN IF speaking = {} THEN 0 ELSE Sgn(p[Collected[Min(speaking)]])

ScoreOf(p, busy, side) ==
  MapThenSumSet(LAMBDA s : Abs(p[s]), {s \in DOMAIN p : Sgn(p[s]) = side})
    + Worth(busy /\ FirstSide(p) = side, 5)

ConflictMargin == 15
MinimumScore == 60

\* One side leads by the margin, or there is none.
Confluence(e) ==
  LET p == Points(e)
      bull == ScoreOf(p, e.busy, 1)
      bear == ScoreOf(p, e.busy, -1)
      side == IF Abs(bull - bear) >= ConflictMargin THEN Sgn(bull - bear) ELSE 0
  IN [side |-> side, score |-> IF side = 0 THEN 0 ELSE Min({100, Max({bull, bear})})]

-----------------------------------------------------------------------------
(* Decision (APEXDecisionBrain.analyze). *)

\* Distance of the stop: ATR, else volatility, else half a percent.
StopDistance(e) ==
  CASE e.atr > 0 -> e.atr
    [] e.atr = 0 /\ e.volatility > 0 -> e.volatility
    [] OTHER -> Price \div 200

Wait(confidence) == [side |-> 0, confidence |-> confidence, entry |-> 0, stop |-> 0]

\* The evidence is fit to decide upon.
Decidable(e) == e.valid /\ ~MtfConflict(e) /\ ~e.stale /\ DirectionalRegime(e)

Decision(e) ==
  LET c == Confluence(e)
  IN IF ~Decidable(e) THEN Wait(0)
     ELSE IF c.side = 0 \/ c.score < MinimumScore THEN Wait(c.score)
     ELSE [side |-> c.side, confidence |-> c.score, entry |-> Price,
           stop |-> Price - c.side * StopDistance(e)]
=============================================================================
