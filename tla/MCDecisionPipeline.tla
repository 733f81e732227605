------------------------- MODULE MCDecisionPipeline -------------------------
(***************************************************************************)
(* Instance of DecisionPipeline for TLC.                                   *)
(***************************************************************************)
EXTENDS DecisionPipeline

Flat == [bias |-> 0, trend |-> FALSE]
Move(price, interest) == [price |-> price, interest |-> interest, heavy |-> FALSE]
Auction(value, range) == [value |-> value, range |-> range]
Frames == {"4h", "15m", "1m"}
Market(step, minimum, maximum) ==
  [multiplier |-> 2, step |-> step, minimum |-> minimum, maximum |-> maximum]

QuietEvidence ==
  [frames |-> [f \in Frames |-> 0], stale |-> FALSE, structure |-> Flat,
   sweep |-> [bias |-> 0, displaced |-> FALSE], gap |-> 0, block |-> 0, flow |-> 0, book |-> 0,
   oi |-> Move(0, 0), vwap |-> 0, funding |-> 0, busy |-> FALSE, profile |-> 0,
   auction |-> Auction("ACCEPTED", "wide"), valid |-> TRUE, atr |-> 0, volatility |-> 0,
   market |-> Market(0, 0, 0)]

\* The readings that carry the score turn both ways.
Turning ==
  [s \in DOMAIN QuietEvidence |->
     CASE s = "structure" -> {Flat, [bias |-> 1, trend |-> TRUE], [bias |-> -1, trend |-> FALSE]}
       [] s = "sweep" -> {[bias |-> 0, displaced |-> FALSE], [bias |-> 1, displaced |-> TRUE],
                          [bias |-> -1, displaced |-> TRUE]}
       [] s \in {"gap", "vwap", "funding", "profile"} -> Side
       [] s = "flow" -> {-1, 0, 2}
       [] s = "book" -> {-2, 0, 2}
       [] s = "frames" -> {[f \in Frames |-> 0], [f \in Frames |-> 1],
                           [f \in Frames |-> IF f = "4h" THEN 1 ELSE -1]}
       [] s = "oi" -> {Move(0, 0), Move(2, -8), Move(-2, 2), Move(8, 1)}
       [] s = "auction" -> {Auction("ACCEPTED", "wide"), Auction("BALANCE", "wide"),
                            Auction("HIGHER", "narrow"), Auction("HIGHER", "middle"),
                            Auction("LOWER", "middle")}
       [] s \in {"busy", "stale", "valid"} -> BOOLEAN
       [] s = "volatility" -> {0, 9, 10}
       [] s = "atr" -> {0, 33}
       [] s = "market" -> {Market(0, 0, 0), Market(3, 1, 0), Market(1, 1, 6),
                           Market(2, 9, 0)}
       [] s = "block" -> {0, 1}]

\* The readings with small weights, and those that are almost always the same.
Small ==
  {"vwap", "funding", "profile", "oi", "auction", "busy", "stale", "valid",
   "volatility", "atr", "market", "block"}
=============================================================================
