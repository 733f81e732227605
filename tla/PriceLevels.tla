---------------------------- MODULE PriceLevels ----------------------------
(***************************************************************************)
(* What the structure and liquidity engines report from one analysis to    *)
(* the next, while candles arrive, are lost, and leave the list in front.  *)
(***************************************************************************)
EXTENDS LevelEngines

Spec == TapeInit /\ [][TapeNext]_tapeVars

-----------------------------------------------------------------------------
(* Breaks and trends. *)

\* A break is of a swing that was known before the candle that breaks it: the
\* newest candle never confirms the swing it breaks (analyze of
\* MarketStructureEngine, confirmed_highs and confirmed_lows).
BreaksAreOfKnownSwings ==
  LET known == SubSeq(seen, 1, Len(seen) - 1)
  IN /\ Bos(seen) = "BULLISH"
          => HighSwings(known) # {} /\ LastOf(HighSwings(known)) = LastOf(HighSwings(seen))
     /\ Bos(seen) = "BEARISH"
          => LowSwings(known) # {} /\ LastOf(LowSwings(known)) = LastOf(LowSwings(seen))

\* When an analysis goes on where the last one ended, the trend turns to a
\* direction only with a swing that a new candle confirmed: candles that leave
\* the list can end a trend, they make none (analyze of MarketStructureEngine).
TrendsAreEarned ==
  [][Extends /\ Trend(seen') \notin {"RANGE", Trend(seen)}
       => \E i \in HighSwings(seen') \union LowSwings(seen') :
            Id(seen'[i + SwingStrength]) \notin Ids(seen)]_seen

-----------------------------------------------------------------------------
(* The two sides of the market. *)

\* The same market seen upside down.
Mirror(list) ==
  LET sum == 2 * list[1].open
  IN [i \in DOMAIN list |->
        [list[i] EXCEPT !.open = sum - @, !.high = sum - list[i].low,
                        !.low = sum - list[i].high, !.close = sum - @]]

Opposite(d) == CASE d = "BULLISH" -> "BEARISH" [] d = "BEARISH" -> "BULLISH" [] OTHER -> d

\* The price is beyond the last high and the last low: the code then says BULLISH.
BeyondBoth(list) == BreaksHigh(list) /\ BreaksLow(list)

\* One candle rejects on both sides: the code then says BEARISH.
BothRejected(list) ==
  \E s, t \in Rejections(list) : s.at = t.at /\ s.direction # t.direction

\* Upside down the structure is the opposite, as strong.
StructureAgrees ==
  ~BeyondBoth(seen)
    => /\ StructureBias(Mirror(seen)) = Opposite(StructureBias(seen))
       /\ Strength(Mirror(seen)) = Strength(seen)

\* Upside down the liquidity is the opposite, as sure.
LiquidityAgrees ==
  ~BothRejected(seen)
    => /\ LiquidityBias(Mirror(seen)) = Opposite(LiquidityBias(seen))
       /\ LiquidityBias(seen) # "WAIT"
            => LiquidityConfidence(Mirror(seen)) = LiquidityConfidence(seen)

\* The two halves of each engine are written separately and agree: upside down,
\* the same candles give the opposite bias with the same strength, except in the
\* two cases above, where one side is asked first (analyze of both engines).
NoSideIsFavoured == seen # <<>> => StructureAgrees /\ LiquidityAgrees

\* The engines measure what is near and what is far in percent of a price, which
\* is another price upside down.  The prices of a market are even when that makes
\* no difference: what is near, or far, is so on both sides.
Levels == UNION {{s.open, s.high, s.low, s.close} : s \in Shapes}

EvenScale ==
  \A a, b, k \in Levels :
    /\ Near(2 * k - a, 2 * k - b) <=> Near(a, b)
    /\ 1000 * (2 * k - b) > 1001 * (2 * k - a) <=> 1000 * b < 999 * a
    /\ 1000 * (2 * k - b) < 999 * (2 * k - a) <=> 1000 * b > 1001 * a

-----------------------------------------------------------------------------
(* Sweeps. *)

\* A sweep, by its candles.
Fact(list, s) ==
  [direction |-> s.direction, rejection |-> s.rejection, displaced |-> Displaced(list, s),
   candle |-> Id(list[s.at]), pool |-> {Id(list[i]) : i \in s.pool}]

Facts(list) == {Fact(list, s) : s \in Sweeps(list)}

\* The same sweep; only the candle after it can tell that it was followed.
Follows(f, e) ==
  \/ f = e
  \/ /\ f = [e EXCEPT !.displaced = TRUE]
     /\ e.candle = Id(seen[Len(seen)])

\* A candle of the pool's level that was not seen before.
TouchedAgain(e) ==
  \E g \in Pools(LowsOf(seen')) \union Pools(HighsOf(seen')) :
    LET touches == {Id(seen'[i]) : i \in g}
    IN e.pool \subseteq touches /\ ~(touches \subseteq Ids(seen))

\* While no candle leaves the list, a candle that was no sweep when it was the
\* newest never becomes one, and a sweep is taken back only because the level
\* was touched again: then the pool moves behind it (detect_pools, detect_sweeps).
SweepsStand ==
  [][LeftInFront(0)
       => LET old == Facts(seen)
              new == Facts(seen')
          IN /\ \A f \in new : f.candle \in Ids(seen) => \E e \in old : Follows(f, e)
             /\ \A e \in old : (\E f \in new : Follows(f, e)) \/ TouchedAgain(e)
    ]_seen
=============================================================================
