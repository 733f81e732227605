---------------------------- MODULE ZoneEngines ----------------------------
(***************************************************************************)
(* FVGEngine and OrderBlockEngine: zones of the price found in a list of   *)
(* confirmed candles, and what later candles of the list leave of them.    *)
(* Prices are whole ticks.  How far a gap is filled is the set of its      *)
(* ticks no later candle reached: fill_pct is the share of the others.     *)
(***************************************************************************)
EXTENDS CandleTape

Sign(c) == IF c.close > c.open THEN "BULLISH" ELSE IF c.close < c.open THEN "BEARISH" ELSE "NONE"
Body(c) == IF c.close > c.open THEN c.close - c.open ELSE c.open - c.close

\* A strong move: 60% of its range is body, 0.1% of its price is moved.
Strong(c) ==
  /\ c.high > c.low
  /\ 5 * Body(c) >= 3 * (c.high - c.low)
  /\ 1000 * Body(c) >= c.open

-----------------------------------------------------------------------------
(* Fair value gaps. *)

Rises(list, i) == list[i - 1].high < list[i + 1].low
Falls(list, i) == list[i - 1].low > list[i + 1].high

Gap(list, i) ==
  IF Rises(list, i)
  THEN [direction |-> "BULLISH", lower |-> list[i - 1].high, upper |-> list[i + 1].low]
  ELSE [direction |-> "BEARISH", lower |-> list[i + 1].high, upper |-> list[i - 1].low]

\* At least 0.01% of its lower price.
Wide(gap) == 10000 * (gap.upper - gap.lower) >= gap.lower

GapsOf(list) ==
  {i \in 2 .. Len(list) - 1 : (Rises(list, i) \/ Falls(list, i)) /\ Wide(Gap(list, i))}

\* The candle trades through tick u of the gap, or beyond it.
Reaches(gap, c, u) == IF gap.direction = "BULLISH" THEN c.low <= u ELSE c.high > u

\* Mutant: the first candle after the gap is skipped.
LaterSkipsOne(list, i) == i + 3 .. Len(list)

Later(list, i) == i + 2 .. Len(list)

Unfilled(list, i) ==
  {u \in Gap(list, i).lower .. Gap(list, i).upper - 1 :
     \A j \in Later(list, i) : ~Reaches(Gap(list, i), list[j], u)}

Active(list, direction) ==
  {i \in GapsOf(list) : Gap(list, i).direction = direction /\ Unfilled(list, i) # {}}

\* Mutant: the first strong move of the list decides.
FirstMoves(list) ==
  {i \in 1 .. Len(list) : Strong(list[i]) /\ \A j \in 1 .. i - 1 : ~Strong(list[j])}

\* The strong moves after which no other came.
LatestMoves(list) ==
  {i \in 1 .. Len(list) : Strong(list[i]) /\ \A j \in i + 1 .. Len(list) : ~Strong(list[j])}

Bias(list, direction) == \E i \in LatestMoves(list) : Sign(list[i]) = direction
Confidence(list, direction) ==
  IF ~Bias(list, direction) THEN 0 ELSE IF Active(list, direction) = {} THEN 60 ELSE 85

-----------------------------------------------------------------------------
(* Order blocks: the last candle against a strong move, and the move. *)

BlocksOf(list) ==
  {i \in 2 .. Len(list) :
     /\ Strong(list[i])
     /\ \/ Sign(list[i]) = "BULLISH" /\ Sign(list[i - 1]) = "BEARISH"
        \/ Sign(list[i]) = "BEARISH" /\ Sign(list[i - 1]) = "BULLISH"}

Block(list, i) ==
  LET origin == list[i - 1]
  IN IF Sign(list[i]) = "BULLISH"
     THEN [direction |-> "BULLISH", lower |-> origin.low, upper |-> origin.open]
     ELSE [direction |-> "BEARISH", lower |-> origin.open, upper |-> origin.high]

\* Mutant: only a close beyond the block breaks it.
BreaksByClose(block, c) ==
  IF block.direction = "BULLISH" THEN c.close < block.lower ELSE c.close > block.upper

Breaks(block, c) ==
  IF block.direction = "BULLISH" THEN c.low < block.lower ELSE c.high > block.upper

Touches(block, c) == c.low <= block.upper /\ c.high >= block.lower

\* The candle crosses the whole block without breaking it.
Covers(block, c) ==
  IF block.direction = "BULLISH" THEN c.low <= block.lower ELSE c.high >= block.upper

\* Mutant: a block is judged by the newest candle alone.
StateByNewest(list, i) ==
  IF i < Len(list) /\ Breaks(Block(list, i), list[Len(list)]) THEN "INVALIDATED"
  ELSE IF i < Len(list) /\ Touches(Block(list, i), list[Len(list)]) THEN "PARTIALLY_MITIGATED"
  ELSE "ACTIVE"

\* The last touch decides between the two kinds of mitigation.
MitigationState(list, i) ==
  LET after == i + 1 .. Len(list)
      touched == {j \in after : Touches(Block(list, i), list[j])}
      IsLast(j) == \A k \in touched : k <= j
  IN IF \E j \in after : Breaks(Block(list, i), list[j]) THEN "INVALIDATED"
     ELSE IF touched = {} THEN "ACTIVE"
     ELSE IF \E j \in touched : IsLast(j) /\ Covers(Block(list, i), list[j]) THEN "MITIGATED"
     ELSE "PARTIALLY_MITIGATED"
=============================================================================
