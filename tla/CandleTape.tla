----------------------------- MODULE CandleTape -----------------------------
(***************************************************************************)
(* The list of confirmed candles the analysis is given.  The feed is       *)
(* subscribed to several timeframes and merges their candles into one      *)
(* list, ordered by the time a candle STARTS; a candle is confirmed when   *)
(* it ends.  So the candle of a longer timeframe is put into the list      *)
(* before shorter ones that were there already.  An analysis is given the  *)
(* candles up to the time of the last message, which for a candle is the   *)
(* time it started: a candle message can hide candles that were seen.      *)
(***************************************************************************)
EXTENDS Integers, Sequences

CONSTANTS
  Timeframes,   \* lengths of the candles subscribed to, in minutes
  Shapes,       \* what a minute of the market can look like
  Places,       \* candles the list holds
  MaxMinutes    \* bound: how long the market is watched

Prices == [open : Nat, high : Nat, low : Nat, close : Nat]

\* What the feed accepts as a candle.
IsShape(c) ==
  /\ 0 < c.low
  /\ c.low <= c.open /\ c.low <= c.close
  /\ c.open <= c.high /\ c.close <= c.high

ASSUME TapeAssumption ==
  /\ Timeframes \subseteq Nat \ {0}
  /\ \A s \in Shapes : s \in Prices /\ IsShape(s)
  /\ Places \in Nat \ {0}
  /\ MaxMinutes \in Nat

VARIABLES
  clock,     \* minutes of the market so far
  bars,      \* the candle of each timeframe that is formed, or ends now
  due,       \* timeframes whose candle ended now and was not delivered yet
  candles,   \* confirmed candles of the list, oldest first
  lastEvent, \* time of the last message
  seen       \* what the last analysis was given

tapeVars == <<clock, bars, due, candles, lastEvent, seen>>

Candles == [open : Nat, high : Nat, low : Nat, close : Nat, start : Nat, timeframe : Nat]
Id(c) == <<c.start, c.timeframe>>

Before(c, d) == c.start < d.start \/ (c.start = d.start /\ c.timeframe < d.timeframe)

Ids(list) == {Id(list[i]) : i \in 1 .. Len(list)}

TapeInit ==
  /\ clock = 0 /\ bars = <<>> /\ due = {}
  /\ candles = <<>> /\ lastEvent = 0 /\ seen = <<>>

\* Mutant: the list is cut before the candle is added, not after.
NewestBefore(list) ==
  IF Len(list) <= Places + 1 THEN list ELSE SubSeq(list, Len(list) - Places, Len(list))

Newest(list) ==
  IF Len(list) <= Places THEN list ELSE SubSeq(list, Len(list) - Places + 1, Len(list))

\* A candle goes on for one more minute.
Longer(bar, s) ==
  [open |-> bar.open, close |-> s.close,
   high |-> IF s.high > bar.high THEN s.high ELSE bar.high,
   low |-> IF s.low < bar.low THEN s.low ELSE bar.low]

\* A minute passes; what was not delivered by then was lost.
Minute(s) ==
  /\ clock < MaxMinutes
  /\ clock' = clock + 1
  /\ bars' = [t \in Timeframes |-> IF clock % t = 0 THEN s ELSE Longer(bars[t], s)]
  /\ due' = {t \in Timeframes : clock' % t = 0}
  /\ UNCHANGED <<candles, lastEvent, seen>>

\* The candle of the timeframe that ends now.
Ended(t) ==
  [open |-> bars[t].open, high |-> bars[t].high, low |-> bars[t].low, close |-> bars[t].close,
   start |-> clock - t, timeframe |-> t]

Inserted(c, k) == SubSeq(candles, 1, k) \o <<c>> \o SubSeq(candles, k + 1, Len(candles))

\* The confirmed candle of a timeframe arrives and takes its place.
Confirm(t) ==
  /\ t \in due
  /\ due' = due \ {t}
  /\ \E k \in 0 .. Len(candles) :
       /\ \A i \in 1 .. k : Before(candles[i], Ended(t))
       /\ \A i \in k + 1 .. Len(candles) : Before(Ended(t), candles[i])
       /\ candles' = Newest(Inserted(Ended(t), k))
  /\ lastEvent' = clock - t
  /\ UNCHANGED <<clock, bars, seen>>

\* A message about the candle that is being formed.
Form(t) ==
  /\ lastEvent' = clock - (clock % t)
  /\ UNCHANGED <<clock, bars, due, candles, seen>>

\* A message of another kind.
Quote ==
  /\ lastEvent' = clock
  /\ UNCHANGED <<clock, bars, due, candles, seen>>

\* An analysis is given the first n candles, those up to the last message.
Analyze ==
  /\ \E n \in 0 .. Len(candles) :
       /\ \A i \in 1 .. Len(candles) : i <= n <=> candles[i].start <= lastEvent
       /\ seen' = SubSeq(candles, 1, n)
  /\ UNCHANGED <<clock, bars, due, candles, lastEvent>>

TapeNext ==
  \/ \E s \in Shapes : Minute(s)
  \/ \E t \in Timeframes : Confirm(t) \/ Form(t)
  \/ Quote
  \/ Analyze

-----------------------------------------------------------------------------
(* Lists and analyses. *)

\* The next analysis sees a list that goes on where the last one ended: s
\* candles left it in front and others were added at the end, none in between.
LeftInFront(s) ==
  /\ s < Len(seen) \/ seen = <<>>
  /\ Len(seen) - s <= Len(seen')
  /\ \A i \in 1 .. Len(seen) - s : seen'[i] = seen[i + s]

Extends == \E s \in 0 .. Len(seen) : LeftInFront(s)

IsList(list) ==
  /\ list \in Seq(Candles)
  /\ Len(list) <= Places
  /\ \A i \in 1 .. Len(list) : IsShape(list[i])
  /\ \A i, j \in 1 .. Len(list) : i < j => Before(list[i], list[j])

TapeTypeOK ==
  /\ clock \in Nat /\ lastEvent \in 0 .. clock
  /\ clock > 0 => bars \in [Timeframes -> Prices] /\ \A t \in Timeframes : IsShape(bars[t])
  /\ due \subseteq Timeframes /\ \A t \in due : t <= clock
  /\ IsList(candles)
  /\ IsList(seen)
=============================================================================
