----------------------------- MODULE PriceZones -----------------------------
(***************************************************************************)
(* The zones the two engines report from one analysis to the next.  The    *)
(* engines keep nothing: every call finds all zones again, so that a zone  *)
(* has one life from call to call is a property and not a data structure.  *)
(***************************************************************************)
EXTENDS ZoneEngines

Spec == TapeInit /\ [][TapeNext]_tapeVars

-----------------------------------------------------------------------------
(* Zones. *)

GapZone(list, i) ==
  [kind |-> "gap", zone |-> Gap(list, i), oldest |-> Id(list[i - 1]),
   newest |-> Id(list[i + 1]), left |-> Unfilled(list, i)]

\* What is left of a block: it is untouched, it is unbroken.
StateLeft(state) ==
  CASE state = "INVALIDATED" -> {}
    [] state = "ACTIVE" -> {"untouched", "unbroken"}
    [] OTHER -> {"unbroken"}

BlockZone(list, i) ==
  [kind |-> "block", zone |-> Block(list, i), oldest |-> Id(list[i - 1]),
   newest |-> Id(list[i]), left |-> StateLeft(MitigationState(list, i))]

Zones(list) ==
  {GapZone(list, i) : i \in GapsOf(list)} \union {BlockZone(list, i) : i \in BlocksOf(list)}

SameZone(y, z) ==
  /\ y.kind = z.kind /\ y.zone = z.zone
  /\ y.oldest = z.oldest /\ y.newest = z.newest

-----------------------------------------------------------------------------
(* Properties. *)

\* The list and what an analysis sees of it stay within the places, ordered by
\* the start of the candles, and hold well-formed ones (kline handler, build of
\* the context adapter).
TypeOK == TapeTypeOK

\* When an analysis goes on where the last one ended (Extends), a zone that is
\* reported again has nothing back that it had lost, no zone
\* appears among the candles seen before, and none is dropped whose candles are
\* all there (analyze of both engines).
ZonesMoveForward ==
  [][Extends =>
       /\ \A z \in Zones(seen') :
            z.newest \in Ids(seen)
              => \E y \in Zones(seen) : SameZone(y, z) /\ z.left \subseteq y.left
       /\ \A y \in Zones(seen) :
            y.oldest \in Ids(seen') => \E z \in Zones(seen') : SameZone(y, z)
    ]_tapeVars

\* Then the confidence in a direction rises only if a candle that was not seen
\* before is a strong move or completes a gap: never because an old candle left
\* the list or an old gap counts again (analyze of FVGEngine).
ConfidenceIsEarned ==
  [][Extends =>
       \A d \in {"BULLISH", "BEARISH"} :
         Confidence(seen', d) > Confidence(seen, d)
           => \E i \in 1 .. Len(seen') :
                /\ Id(seen'[i]) \notin Ids(seen)
                /\ Strong(seen'[i]) \/ i - 1 \in GapsOf(seen')
    ]_tapeVars

\* A gap that backs a direction lies between the price and its filled side: a
\* bullish one has open ticks only below the newest candle seen, a bearish one
\* only above it: no tick supports both directions (update_fvg_fills).
OpenGapsFacePrice ==
  \A i \in GapsOf(seen) : \A u \in Unfilled(seen, i) :
    LET newest == seen[Len(seen)]
    IN IF Gap(seen, i).direction = "BULLISH" THEN u < newest.low ELSE newest.high <= u

\* The newest candle seen has not gone beyond a block that is still said to
\* hold; the strong move that made the block is not asked (analyze of
\* OrderBlockEngine).
HeldBlocksContainPrice ==
  \A i \in BlocksOf(seen) :
    i < Len(seen) /\ MitigationState(seen, i) # "INVALIDATED"
      => LET newest == seen[Len(seen)]
         IN IF Block(seen, i).direction = "BULLISH"
            THEN Block(seen, i).lower <= newest.low
            ELSE newest.high <= Block(seen, i).upper
=============================================================================
