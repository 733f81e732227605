---------------------------- MODULE LevelEngines ----------------------------
(***************************************************************************)
(* MarketStructureEngine and LiquidityEngine: what is read off a list of   *)
(* confirmed candles about the levels of the price.  A swing is a high or  *)
(* low that its neighbours do not exceed, a pool is a level several        *)
(* candles ended at, a sweep is a later candle that went beyond it.  The   *)
(* engines keep nothing from one call to the next.                         *)
(***************************************************************************)
EXTENDS CandleTape, FiniteSetsExt

CONSTANT SwingStrength   \* candles on each side that a swing stands out of

ASSUME StrengthAssumption == SwingStrength \in Nat \ {0}

-----------------------------------------------------------------------------
(* Swings (detect_swings). *)

Left(i) == i - SwingStrength .. i - 1
Right(i) == i + 1 .. i + SwingStrength

\* Mutant: the first candle needs no left side.
OpenFront(list) == 1 .. Len(list) - SwingStrength

\* The candles that have both sides in the list.
Inner(list) == SwingStrength + 1 .. Len(list) - SwingStrength

HighSwings(list) ==
  {i \in Inner(list) :
     /\ \A j \in Left(i) \cap DOMAIN list : list[j].high < list[i].high
     /\ \A j \in Right(i) \cap DOMAIN list : list[j].high <= list[i].high}

\* Mutant: of two equal lows in a row the second is the swing, not the first.
SecondLows(list) ==
  {i \in Inner(list) :
     /\ \A j \in Left(i) \cap DOMAIN list : list[j].low >= list[i].low
     /\ \A j \in Right(i) \cap DOMAIN list : list[j].low > list[i].low}

LowSwings(list) ==
  {i \in Inner(list) :
     /\ \A j \in Left(i) \cap DOMAIN list : list[j].low > list[i].low
     /\ \A j \in Right(i) \cap DOMAIN list : list[j].low >= list[i].low}

-----------------------------------------------------------------------------
(* Structure (analyze). *)

LastOf(swings) == Max(swings)
PreviousOf(swings) == Max(swings \ {Max(swings)})

\* The last two swings of a kind, compared.
HigherHigh(list) ==
  LET h == HighSwings(list)
  IN Cardinality(h) > 1 /\ list[LastOf(h)].high > list[PreviousOf(h)].high
LowerHigh(list) ==
  LET h == HighSwings(list)
  IN Cardinality(h) > 1 /\ list[LastOf(h)].high < list[PreviousOf(h)].high
HigherLow(list) ==
  LET l == LowSwings(list)
  IN Cardinality(l) > 1 /\ list[LastOf(l)].low > list[PreviousOf(l)].low
LowerLow(list) ==
  LET l == LowSwings(list)
  IN Cardinality(l) > 1 /\ list[LastOf(l)].low < list[PreviousOf(l)].low

Trend(list) ==
  CASE HigherHigh(list) /\ HigherLow(list) -> "BULLISH"
    [] LowerHigh(list) /\ LowerLow(list) -> "BEARISH"
    [] OTHER -> "RANGE"

\* Mutant: the close of the swing is broken, not its high.
BreaksClose(list) ==
  LET h == HighSwings(list) IN h # {} /\ list[Len(list)].close > list[LastOf(h)].close

BreaksHigh(list) ==
  LET h == HighSwings(list) IN h # {} /\ list[Len(list)].close > list[LastOf(h)].high
BreaksLow(list) ==
  LET l == LowSwings(list) IN l # {} /\ list[Len(list)].close < list[LastOf(l)].low

\* Break of structure: the high is asked first.
Bos(list) ==
  CASE BreaksHigh(list) -> "BULLISH"
    [] ~BreaksHigh(list) /\ BreaksLow(list) -> "BEARISH"
    [] OTHER -> "NONE"

\* Change of character: a break against the trend.
Choch(list) ==
  CASE Bos(list) = "BULLISH" /\ Trend(list) = "BEARISH" -> "BULLISH"
    [] Bos(list) = "BEARISH" /\ Trend(list) = "BULLISH" -> "BEARISH"
    [] OTHER -> "NONE"

\* A break outweighs the trend.
StructureBias(list) ==
  CASE Bos(list) # "NONE" -> Bos(list)
    [] Trend(list) # "RANGE" -> Trend(list)
    [] OTHER -> "WAIT"

Weight(fact, points) == IF fact THEN points ELSE 0

Strength(list) ==
  Weight(HigherHigh(list), 25) + Weight(HigherLow(list), 25)
    + Weight(LowerHigh(list), 25) + Weight(LowerLow(list), 25)
    + Weight(Bos(list) # "NONE", 15) + Weight(Choch(list) # "NONE", 10)

-----------------------------------------------------------------------------
(* Pools (detect_pools). *)

HighsOf(list) == [i \in DOMAIN list |-> list[i].high]
LowsOf(list) == [i \in DOMAIN list |-> list[i].low]

Larger(a, b) == IF a > b THEN a ELSE b
Distance(a, b) == IF a > b THEN a - b ELSE b - a

\* At most 0.15% apart.
Near(a, b) == 10000 * Distance(a, b) <= 15 * Larger(a, b)

\* The first candle of the group of each: a candle joins the first group whose
\* first price is near, or begins one.
FirstOfGroup(prices) ==
  LET First[n \in 0 .. Len(prices)] ==
        IF n = 0 THEN <<>>
        ELSE LET first == First[n - 1]
                 near == {j \in 1 .. n - 1 : first[j] = j /\ Near(prices[n], prices[j])}
             IN Append(first, IF near = {} THEN n ELSE Min(near))
  IN First[Len(prices)]

MinTouches == 2

Pools(prices) ==
  LET first == FirstOfGroup(prices)
      Group(f) == {i \in DOMAIN prices : first[i] = f}
  IN {g \in {Group(first[i]) : i \in DOMAIN prices} : Cardinality(g) >= MinTouches}

\* The level of a pool is the mean of its prices.
BeyondLow(pool, prices, x) == x * Cardinality(pool) < MapThenSumSet(LAMBDA i : prices[i], pool)
BeyondHigh(pool, prices, x) == x * Cardinality(pool) > MapThenSumSet(LAMBDA i : prices[i], pool)

-----------------------------------------------------------------------------
(* Sweeps (detect_sweeps). *)

\* Mutant: candles between the touches of a pool sweep it.
AfterFirstTouch(pool, list) == Min(pool) + 1 .. Len(list)

\* The candles that can sweep a pool.
AfterPool(pool, list) == Max(pool) + 1 .. Len(list)

\* A bullish sweep trades below the level of lows, and is a rejection when it
\* closes above.
BullishSweeps(list) ==
  LET lows == LowsOf(list)
      Swept(g) == {i \in AfterPool(g, list) : BeyondLow(g, lows, list[i].low)}
  IN UNION {{[direction |-> "BULLISH", at |-> i, pool |-> g,
              rejection |-> BeyondHigh(g, lows, list[i].close)] : i \in Swept(g)} :
            g \in Pools(lows)}

BearishSweeps(list) ==
  LET highs == HighsOf(list)
      Swept(g) == {i \in AfterPool(g, list) : BeyondHigh(g, highs, list[i].high)}
  IN UNION {{[direction |-> "BEARISH", at |-> i, pool |-> g,
              rejection |-> BeyondLow(g, highs, list[i].close)] : i \in Swept(g)} :
            g \in Pools(highs)}

Sweeps(list) == BullishSweeps(list) \union BearishSweeps(list)

\* The next candle closes 0.1% further.
Displaced(list, s) ==
  /\ s.at < Len(list)
  /\ IF s.direction = "BULLISH"
     THEN 1000 * list[s.at + 1].close > 1001 * list[s.at].close
     ELSE 1000 * list[s.at + 1].close < 999 * list[s.at].close

\* The order the sweeps are found in: by candle, of one candle the bullish ones
\* first, then by the first touch of the pool.
FoundAfter(s, t) ==
  \/ s.at > t.at
  \/ s.at = t.at /\ s.direction = "BEARISH" /\ t.direction = "BULLISH"
  \/ s.at = t.at /\ s.direction = t.direction /\ Min(s.pool) > Min(t.pool)

LastFound(sweeps) == CHOOSE s \in sweeps : \A t \in sweeps : t = s \/ FoundAfter(s, t)

Rejections(list) == {s \in Sweeps(list) : s.rejection}

\* The last rejection, or the last sweep when there is none.
LatestSweep(list) ==
  IF Rejections(list) # {} THEN LastFound(Rejections(list)) ELSE LastFound(Sweeps(list))

LiquidityBias(list) ==
  IF Rejections(list) # {} THEN LatestSweep(list).direction ELSE "WAIT"

LiquidityConfidence(list) ==
  Weight(Rejections(list) # {}, 70)
    + Weight(Sweeps(list) # {} /\ Displaced(list, LatestSweep(list)), 20)

\* What the pipeline counts: a rejection the next candle followed.
ConfirmedSweep(list) ==
  Rejections(list) # {} /\ Displaced(list, LatestSweep(list))
=============================================================================
