---------------------------- MODULE MCPriceLevels ----------------------------
(***************************************************************************)
(* Instance of PriceLevels for TLC.  At these prices two are near when     *)
(* they are one tick apart, and two ticks are a displacement.              *)
(***************************************************************************)
EXTENDS PriceLevels

Shape(o, h, l, c) == [open |-> o, high |-> h, low |-> l, close |-> c]

\* A quiet minute, two that reach beyond it on both sides and come back, and
\* one that leaves upwards.
Minutes ==
  {Shape(1102, 1102, 1102, 1102), Shape(1102, 1103, 1100, 1103),
   Shape(1102, 1104, 1101, 1101), Shape(1105, 1106, 1105, 1106)}

\* What the theorems about the two sides of the market assume of its prices.
ASSUME ScaleAssumption == EvenScale
=============================================================================
