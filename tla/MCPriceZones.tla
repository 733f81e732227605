---------------------------- MODULE MCPriceZones ----------------------------
(***************************************************************************)
(* Instance of PriceZones for TLC.                                         *)
(***************************************************************************)
EXTENDS PriceZones

Shape(o, h, l, c) == [open |-> o, high |-> h, low |-> l, close |-> c]

\* Quiet minutes at three heights, strong moves both ways, and a long wick.
Minutes ==
  {Shape(1, 1, 1, 1), Shape(3, 3, 3, 3), Shape(2, 2, 1, 1),
   Shape(1, 3, 1, 3), Shape(3, 3, 1, 1), Shape(3, 4, 2, 3)}
=============================================================================
