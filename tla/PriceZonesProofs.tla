-------------------------- MODULE PriceZonesProofs --------------------------
(***************************************************************************)
(* Proofs about PriceZones for every market, every set of timeframes and   *)
(* every length of the list.  When candles are added at the end, the new   *)
(* list begins with the old one shifted by the candles that left it; what  *)
(* the engines find among those they found before, and what they found     *)
(* filled or broken stays so.                                              *)
(***************************************************************************)
EXTENDS PriceZones, SequenceTheorems, TLAPS

Sorted(list) == \A i, j \in 1 .. Len(list) : i < j => Before(list[i], list[j])

\* The new list begins with the old one without its first s candles.
Shifted(old, new, s) ==
  /\ s < Len(old) \/ old = <<>>
  /\ Len(old) - s <= Len(new)
  /\ \A i \in 1 .. Len(old) - s : new[i] = old[i + s]

-----------------------------------------------------------------------------
(* The list. *)

\* Cutting a list keeps its newest candles in their order.
LEMMA NewestShifts ==
  ASSUME NEW list \in Seq(Candles)
  PROVE /\ Newest(list) \in Seq(Candles)
        /\ Len(Newest(list)) <= Places
        /\ \E s \in Nat :
             /\ Len(Newest(list)) + s = Len(list)
             /\ \A i \in 1 .. Len(Newest(list)) : Newest(list)[i] = list[i + s]
<1>0. Places \in Nat \ {0} /\ Len(list) \in Nat
  BY TapeAssumption
<1>1. CASE Len(list) <= Places
  <2>1. Newest(list) = list
    BY <1>1 DEF Newest
  <2>2. Len(Newest(list)) + 0 = Len(list) /\ \A i \in 1 .. Len(list) : Newest(list)[i] = list[i + 0]
    BY <2>1, <1>0
  <2> QED BY <2>1, <2>2, <1>0, <1>1
<1>2. CASE Len(list) > Places
  <2> DEFINE s == Len(list) - Places
  <2>1. s \in Nat /\ Newest(list) = SubSeq(list, s + 1, Len(list))
    BY <1>0, <1>2 DEF Newest
  <2>2. Len(Newest(list)) = Places
    BY <2>1, <1>0, <1>2
  <2>3. \A i \in 1 .. Places : Newest(list)[i] = list[i + s]
    BY <2>1, <1>0, <1>2
  <2>4. Newest(list) \in Seq(Candles)
    BY <2>1, <1>0, <1>2
  <2>5. Len(Newest(list)) + s = Len(list) /\ \A i \in 1 .. Len(Newest(list)) : Newest(list)[i] = list[i + s]
    BY <2>1, <2>2, <2>3, <1>0, <1>2
  <2>6. Len(Newest(list)) <= Places
    BY <2>2, <1>0
  <2>7. s \in Nat
    BY <2>1
  <2> HIDE DEF s
  <2> QED BY <2>4, <2>5, <2>6, <2>7
<1> QED BY <1>0, <1>1, <1>2

\* Before is a strict order of the candles that agrees with their identity.
LEMMA BeforeIsStrict ==
  ASSUME NEW b \in Candles, NEW c \in Candles, NEW d \in Candles
  PROVE /\ Before(b, c) => Id(b) # Id(c)
        /\ Before(b, c) /\ Before(c, d) => Before(b, d)
BY DEF Before, Id, Candles

\* An element between two lists.
LEMMA BetweenLists ==
  ASSUME NEW S, NEW front \in Seq(S), NEW e \in S, NEW back \in Seq(S), NEW new,
         new = front \o <<e>> \o back
  PROVE /\ new \in Seq(S)
        /\ Len(new) = Len(front) + 1 + Len(back)
        /\ \A i \in 1 .. Len(front) : new[i] = front[i]
        /\ new[Len(front) + 1] = e
        /\ \A i \in 1 .. Len(back) : new[i + Len(front) + 1] = back[i]
<1> DEFINE one == <<e>>
           head == front \o one
<1>1. one \in Seq(S) /\ Len(one) = 1 /\ one[1] = e
  OBVIOUS
<1> HIDE DEF one
<1>2. /\ head \in Seq(S) /\ Len(head) = Len(front) + Len(one)
      /\ \A i \in 1 .. Len(front) + Len(one) :
           head[i] = IF i <= Len(front) THEN front[i] ELSE one[i - Len(front)]
  BY <1>1, ConcatProperties
<1>3. new = head \o back
  BY DEF one
<1> HIDE DEF head
<1>4. /\ new \in Seq(S) /\ Len(new) = Len(head) + Len(back)
      /\ \A i \in 1 .. Len(head) + Len(back) :
           new[i] = IF i <= Len(head) THEN head[i] ELSE back[i - Len(head)]
  <2>1. head \in Seq(S)
    BY <1>2
  <2>2. /\ head \o back \in Seq(S) /\ Len(head \o back) = Len(head) + Len(back)
        /\ \A i \in 1 .. Len(head) + Len(back) :
             (head \o back)[i] = IF i <= Len(head) THEN head[i] ELSE back[i - Len(head)]
    BY <2>1, ConcatProperties
  <2> QED BY <2>2, <1>3
<1>5. Len(front) \in Nat /\ Len(back) \in Nat /\ Len(head) = Len(front) + 1
  BY <1>1, <1>2
<1>6. \A i \in 1 .. Len(front) : new[i] = front[i]
  BY <1>1, <1>2, <1>4, <1>5
<1>7. new[Len(front) + 1] = e
  <2>1. head[Len(front) + 1] = one[(Len(front) + 1) - Len(front)]
    BY <1>1, <1>2, <1>5
  <2>2. (Len(front) + 1) - Len(front) = 1
    BY <1>5
  <2>3. new[Len(front) + 1] = head[Len(front) + 1]
    BY <1>4, <1>5
  <2> QED BY <2>1, <2>2, <2>3, <1>1
<1>8. \A i \in 1 .. Len(back) : new[i + Len(front) + 1] = back[i]
  <2> SUFFICES ASSUME NEW i \in 1 .. Len(back) PROVE new[i + Len(front) + 1] = back[i]
    OBVIOUS
  <2>1. new[i + Len(front) + 1] = back[(i + Len(front) + 1) - Len(head)]
    BY <1>4, <1>5
  <2>2. (i + Len(front) + 1) - Len(head) = i
    BY <1>5
  <2> QED BY <2>1, <2>2
<1> QED BY <1>4, <1>5, <1>6, <1>7, <1>8

\* A candle put at its place keeps the list well-formed and ordered.
LEMMA InsertedInOrder ==
  ASSUME candles \in Seq(Candles), Sorted(candles),
         NEW c \in Candles, NEW k \in 0 .. Len(candles),
         \A i \in 1 .. k : Before(candles[i], c),
         \A i \in k + 1 .. Len(candles) : Before(c, candles[i])
  PROVE /\ Inserted(c, k) \in Seq(Candles)
        /\ Len(Inserted(c, k)) = Len(candles) + 1
        /\ Sorted(Inserted(c, k))
        /\ \A i \in 1 .. Len(Inserted(c, k)) :
             Inserted(c, k)[i] = c \/ \E j \in 1 .. Len(candles) : Inserted(c, k)[i] = candles[j]
<1> DEFINE new == Inserted(c, k)
           front == SubSeq(candles, 1, k)
           back == SubSeq(candles, k + 1, Len(candles))
<1>0. Len(candles) \in Nat /\ k \in Nat /\ k <= Len(candles)
  OBVIOUS
<1>1. front \in Seq(Candles) /\ Len(front) = k /\ \A i \in 1 .. k : front[i] = candles[i]
  BY <1>0
<1>2. /\ back \in Seq(Candles) /\ Len(back) = Len(candles) - k
      /\ \A i \in 1 .. Len(candles) - k : back[i] = candles[i + k]
  <2>1. back \in Seq(Candles) /\ Len(back) = Len(candles) - k
    <3>1. CASE k = Len(candles)
      <4>1. back = <<>>
        BY <3>1, <1>0
      <4> QED BY <3>1, <4>1, <1>0
    <3>2. CASE k < Len(candles)
      <4>1. k + 1 \in 1 .. Len(candles) /\ k + 1 <= Len(candles)
        BY <3>2, <1>0
      <4> QED BY <4>1, <1>0
    <3> QED BY <3>1, <3>2, <1>0
  <2>2. \A i \in 1 .. Len(candles) - k : back[i] = candles[i + k]
    BY <1>0
  <2> QED BY <1>0, <2>1, <2>2
<1>3. /\ new \in Seq(Candles)
      /\ Len(new) = k + 1 + (Len(candles) - k)
      /\ \A i \in 1 .. k : new[i] = front[i]
      /\ new[k + 1] = c
      /\ \A i \in 1 .. Len(candles) - k : new[i + k + 1] = back[i]
  <2>1. new = front \o <<c>> \o back
    BY DEF Inserted
  <2> HIDE DEF new, front, back
  <2>2. front \in Seq(Candles) /\ back \in Seq(Candles)
    BY <1>1, <1>2
  <2>3. /\ new \in Seq(Candles)
        /\ Len(new) = Len(front) + 1 + Len(back)
        /\ \A i \in 1 .. Len(front) : new[i] = front[i]
        /\ new[Len(front) + 1] = c
        /\ \A i \in 1 .. Len(back) : new[i + Len(front) + 1] = back[i]
    BY <2>1, <2>2, BetweenLists, SMTT(30)
  <2> QED BY <2>3, <1>1, <1>2
<1> HIDE DEF new, front, back
<1>4. \A i \in 1 .. k : new[i] = candles[i]
  BY <1>1, <1>3
<1>5. new[k + 1] = c /\ Len(new) = Len(candles) + 1
  BY <1>0, <1>3
<1>6. \A i \in k + 2 .. Len(candles) + 1 : new[i] = candles[i - 1]
  <2> SUFFICES ASSUME NEW i \in k + 2 .. Len(candles) + 1 PROVE new[i] = candles[i - 1]
    OBVIOUS
  <2> DEFINE j == i - (k + 1)
  <2>1. j \in 1 .. Len(candles) - k /\ j + k + 1 = i /\ j + k = i - 1
    BY <1>0
  <2> HIDE DEF j
  <2>2. new[j + k + 1] = candles[j + k]
    BY <2>1, <1>2, <1>3
  <2> QED BY <2>1, <2>2
<1>7. Sorted(new)
  <2> SUFFICES ASSUME NEW i \in 1 .. Len(new), NEW j \in 1 .. Len(new), i < j
               PROVE Before(new[i], new[j])
    BY DEF Sorted
  <2>1. CASE j <= k
    BY <2>1, <1>4 DEF Sorted
  <2>2. CASE j = k + 1
    BY <2>2, <1>4, <1>5
  <2>3. CASE i = k + 1
    BY <2>3, <1>0, <1>5, <1>6
  <2>4. CASE i <= k /\ j > k + 1
    <3>1. new[i] = candles[i] /\ new[j] = candles[j - 1]
      BY <2>4, <1>0, <1>5, <1>4, <1>6
    <3>2. i \in 1 .. Len(candles) /\ j - 1 \in 1 .. Len(candles) /\ i < j - 1
      BY <2>4, <1>0, <1>5
    <3> QED BY <3>1, <3>2 DEF Sorted
  <2>5. CASE i > k + 1
    <3>1. new[i] = candles[i - 1] /\ new[j] = candles[j - 1]
      BY <2>5, <1>0, <1>5, <1>6
    <3>2. i - 1 \in 1 .. Len(candles) /\ j - 1 \in 1 .. Len(candles) /\ i - 1 < j - 1
      BY <2>5, <1>0, <1>5
    <3> QED BY <3>1, <3>2 DEF Sorted
  <2> QED BY <2>1, <2>2, <2>3, <2>4, <2>5
<1>8. \A i \in 1 .. Len(new) : new[i] = c \/ \E j \in 1 .. Len(candles) : new[i] = candles[j]
  <2> SUFFICES ASSUME NEW i \in 1 .. Len(new)
               PROVE new[i] = c \/ \E j \in 1 .. Len(candles) : new[i] = candles[j]
    OBVIOUS
  <2>1. CASE i <= k
    BY <2>1, <1>4
  <2>2. CASE i > k + 1
    BY <2>2, <1>0, <1>5, <1>6
  <2> QED BY <2>1, <2>2, <1>5
<1> QED BY <1>3, <1>5, <1>7, <1>8 DEF new

-----------------------------------------------------------------------------
(* Type correctness and the order of the list. *)

LEMMA WholeMultiple ==
  ASSUME NEW x \in Nat \ {0}, NEW t \in Nat \ {0}, x % t = 0
  PROVE t <= x
<1>1. CASE x < t
  <2>1. x % t = x
    BY <1>1, SMTT(30)
  <2> QED BY <2>1
<1> QED BY <1>1

LEMMA PartOfClock ==
  ASSUME NEW x \in Nat, NEW t \in Nat \ {0}
  PROVE x - (x % t) \in 0 .. x
<1>1. x % t \in 0 .. t - 1
  BY SMTT(30)
<1>2. x % t <= x
  <2>1. CASE x < t
    <3>1. x % t = x
      BY <2>1, SMTT(30)
    <3> QED BY <3>1
  <2>2. CASE x >= t
    BY <1>1, <2>2
  <2> QED BY <2>1, <2>2
<1> QED BY <1>1, <1>2

\* A longer candle is a candle the feed accepts.
LEMMA LongerIsBar ==
  ASSUME NEW bar \in Prices, IsShape(bar), NEW s \in Prices, IsShape(s)
  PROVE Longer(bar, s) \in Prices /\ IsShape(Longer(bar, s))
BY DEF Longer, Prices, IsShape

\* The candle that ends is a candle the feed accepts.
LEMMA EndedIsCandle ==
  ASSUME TypeOK, NEW t \in due
  PROVE Ended(t) \in Candles /\ IsShape(Ended(t))
<1>1. t \in Timeframes /\ t \in Nat \ {0} /\ t <= clock /\ clock \in Nat
  BY TapeAssumption DEF TypeOK, TapeTypeOK
<1>2. bars[t] \in Prices /\ IsShape(bars[t])
  BY <1>1 DEF TypeOK, TapeTypeOK
<1>3. clock - t \in Nat
  BY <1>1
<1>4. Ended(t) \in Candles
  BY <1>1, <1>2, <1>3 DEF Ended, Candles, Prices
<1>5. IsShape(Ended(t))
  BY <1>2 DEF Ended, IsShape
<1> QED BY <1>4, <1>5

\* Every step keeps the types and the order of the lists.
THEOREM TypeStep ==
  ASSUME TypeOK, [TapeNext]_tapeVars
  PROVE TypeOK'
<1>1. ASSUME NEW s \in Shapes, Minute(s) PROVE TypeOK'
  <2>1. clock' \in Nat /\ clock' > 0 /\ lastEvent' \in 0 .. clock'
    BY <1>1 DEF Minute, TypeOK, TapeTypeOK
  <2>2. \A t \in due' : t <= clock'
    BY <1>1, <2>1, WholeMultiple, TapeAssumption DEF Minute
  <2>3. \A t \in Timeframes : bars'[t] \in Prices /\ IsShape(bars'[t])
    <3> SUFFICES ASSUME NEW t \in Timeframes PROVE bars'[t] \in Prices /\ IsShape(bars'[t])
      OBVIOUS
    <3>1. s \in Prices /\ IsShape(s) /\ t \in Nat \ {0} /\ clock \in Nat
      BY TapeAssumption DEF TypeOK, TapeTypeOK
    <3>2. CASE clock % t = 0
      BY <1>1, <3>1, <3>2 DEF Minute
    <3>3. CASE clock % t # 0
      <4>1. clock > 0
        BY <3>1, <3>3
      <4>2. bars[t] \in Prices /\ IsShape(bars[t])
        BY <4>1 DEF TypeOK, TapeTypeOK
      <4> QED BY <1>1, <3>1, <3>3, <4>2, LongerIsBar DEF Minute
    <3> QED BY <3>2, <3>3
  <2>4. bars' \in [Timeframes -> Prices]
    BY <1>1, <2>3 DEF Minute
  <2>5. due' \subseteq Timeframes /\ IsList(candles)' /\ IsList(seen)'
    BY <1>1 DEF Minute, TypeOK, TapeTypeOK
  <2> QED BY <2>1, <2>2, <2>3, <2>4, <2>5 DEF TypeOK, TapeTypeOK
<1>2. ASSUME NEW t \in Timeframes, Confirm(t) PROVE TypeOK'
  <2> DEFINE c == Ended(t)
  <2>1. PICK k \in 0 .. Len(candles) :
          /\ \A i \in 1 .. k : Before(candles[i], c)
          /\ \A i \in k + 1 .. Len(candles) : Before(c, candles[i])
          /\ candles' = Newest(Inserted(c, k))
    BY <1>2 DEF Confirm
  <2>2. c \in Candles /\ IsShape(c)
    BY <1>2, EndedIsCandle DEF Confirm
  <2> HIDE DEF c
  <2>3. candles \in Seq(Candles) /\ Sorted(candles)
    BY DEF TypeOK, TapeTypeOK, IsList, Sorted
  <2>4. /\ Inserted(c, k) \in Seq(Candles)
        /\ Sorted(Inserted(c, k))
        /\ \A i \in 1 .. Len(Inserted(c, k)) :
             Inserted(c, k)[i] = c \/ \E j \in 1 .. Len(candles) : Inserted(c, k)[i] = candles[j]
    BY <2>1, <2>2, <2>3, InsertedInOrder
  <2>5. /\ candles' \in Seq(Candles) /\ Len(candles') <= Places
        /\ \E s \in Nat : /\ Len(candles') + s = Len(Inserted(c, k))
                          /\ \A i \in 1 .. Len(candles') : candles'[i] = Inserted(c, k)[i + s]
    BY <2>1, <2>4, NewestShifts
  <2>6. PICK s \in Nat : /\ Len(candles') + s = Len(Inserted(c, k))
                         /\ \A i \in 1 .. Len(candles') : candles'[i] = Inserted(c, k)[i + s]
    BY <2>5
  <2>7. \A i \in 1 .. Len(candles') : i + s \in 1 .. Len(Inserted(c, k))
    BY <2>4, <2>5, <2>6
  <2>8. \A i \in 1 .. Len(candles') : IsShape(candles'[i])
    <3>1. \A j \in 1 .. Len(candles) : IsShape(candles[j])
      BY DEF TypeOK, TapeTypeOK, IsList
    <3>2. \A j \in 1 .. Len(Inserted(c, k)) : IsShape(Inserted(c, k)[j])
      BY <2>2, <2>4, <3>1
    <3> QED BY <2>6, <2>7, <3>2
  <2>9. Sorted(candles')
    <3> SUFFICES ASSUME NEW i \in 1 .. Len(candles'), NEW j \in 1 .. Len(candles'), i < j
                 PROVE Before(candles'[i], candles'[j])
      BY DEF Sorted
    <3>1. i + s < j + s
      OBVIOUS
    <3>2. Before(Inserted(c, k)[i + s], Inserted(c, k)[j + s])
      BY <2>4, <2>7, <3>1 DEF Sorted
    <3> QED BY <2>6, <3>2
  <2>10. IsList(candles)'
    BY <2>5, <2>8, <2>9 DEF IsList, Sorted
  <2>11. /\ clock' = clock /\ bars' = bars /\ seen' = seen /\ due' = due \ {t}
         /\ lastEvent' = clock - t /\ t \in due
    BY <1>2 DEF Confirm
  <2>12. lastEvent' \in 0 .. clock
    BY <2>11, TapeAssumption DEF TypeOK, TapeTypeOK
  <2> QED BY <2>10, <2>11, <2>12 DEF TypeOK, TapeTypeOK
<1>3. ASSUME NEW t \in Timeframes, Form(t) PROVE TypeOK'
  <2>1. t \in Nat \ {0} /\ clock \in Nat
    BY TapeAssumption DEF TypeOK, TapeTypeOK
  <2>2. clock - (clock % t) \in 0 .. clock
    BY <2>1, PartOfClock
  <2> QED BY <1>3, <2>2 DEF Form, TypeOK, TapeTypeOK
<1>4. ASSUME Quote PROVE TypeOK'
  BY <1>4 DEF Quote, TypeOK, TapeTypeOK
<1>5. ASSUME Analyze PROVE TypeOK'
  <2>1. PICK n \in 0 .. Len(candles) : seen' = SubSeq(candles, 1, n)
    BY <1>5 DEF Analyze
  <2>2. IsList(candles)
    BY DEF TypeOK, TapeTypeOK
  <2>3. candles \in Seq(Candles) /\ Len(candles) \in Nat /\ n \in Nat /\ n <= Len(candles)
    BY <2>1, <2>2 DEF IsList
  <2>4. seen' \in Seq(Candles) /\ Len(seen') = n /\ \A i \in 1 .. n : seen'[i] = candles[i]
    BY <2>1, <2>3
  <2>5. IsList(seen)'
    BY <2>2, <2>3, <2>4, TapeAssumption DEF IsList
  <2> QED BY <1>5, <2>5 DEF Analyze, TypeOK, TapeTypeOK
<1>6. ASSUME UNCHANGED tapeVars PROVE TypeOK'
  BY <1>6 DEF tapeVars, TypeOK, TapeTypeOK
<1> QED BY <1>1, <1>2, <1>3, <1>4, <1>5, <1>6 DEF TapeNext

\* In every behaviour list and analysis stay within the places, ordered by the
\* start of the candles, and hold candles the feed accepts.
THEOREM TypeCorrect == Spec => []TypeOK
<1>1. TapeInit => TypeOK
  <2> SUFFICES ASSUME TapeInit PROVE TypeOK
    OBVIOUS
  <2>1. <<>> \in Seq(Candles) /\ Len(<<>>) = 0 /\ Places \in Nat
    BY TapeAssumption
  <2>2. IsList(candles) /\ IsList(seen)
    BY <2>1 DEF TapeInit, IsList
  <2> QED BY <2>2 DEF TapeInit, TypeOK, TapeTypeOK
<1>2. TypeOK /\ [TapeNext]_tapeVars => TypeOK'
  BY TypeStep
<1> QED BY <1>1, <1>2, PTL DEF Spec

-----------------------------------------------------------------------------
(* What the zones of one list say of its newest candle. *)

\* A gap has prices for its edges.
LEMMA GapEdges ==
  ASSUME NEW list \in Seq(Candles), NEW i \in GapsOf(list)
  PROVE /\ i - 1 \in 1 .. Len(list) /\ i \in 1 .. Len(list) /\ i + 1 \in 1 .. Len(list)
        /\ Gap(list, i).lower \in Nat /\ Gap(list, i).upper \in Nat
<1>1. i - 1 \in 1 .. Len(list) /\ i \in 1 .. Len(list) /\ i + 1 \in 1 .. Len(list)
  BY DEF GapsOf
<1>2. list[i - 1] \in Candles /\ list[i + 1] \in Candles
  BY <1>1
<1> QED BY <1>1, <1>2 DEF Gap, Candles

\* Open ticks of a gap face the newest candle of the list.
LEMMA OpenTicksFaceNewest ==
  ASSUME NEW list \in Seq(Candles), NEW i \in GapsOf(list), NEW u \in Unfilled(list, i)
  PROVE IF Gap(list, i).direction = "BULLISH" THEN u < list[Len(list)].low
        ELSE list[Len(list)].high <= u
<1>1. /\ i - 1 \in 1 .. Len(list) /\ i + 1 \in 1 .. Len(list) /\ i \in Int
      /\ Gap(list, i).lower \in Nat /\ Gap(list, i).upper \in Nat
  BY GapEdges
<1>2. u \in Gap(list, i).lower .. Gap(list, i).upper - 1
  BY DEF Unfilled
<1>3. list[Len(list)].low \in Nat /\ list[Len(list)].high \in Nat
  <2>1. list[Len(list)] \in Candles
    BY <1>1
  <2> QED BY <2>1 DEF Candles
<1>4. CASE i + 1 = Len(list)
  <2>1. CASE Rises(list, i)
    <3>1. Gap(list, i).direction = "BULLISH" /\ Gap(list, i).upper = list[Len(list)].low
      BY <2>1, <1>4 DEF Gap
    <3> QED BY <3>1, <1>1, <1>2, <1>3
  <2>2. CASE ~Rises(list, i)
    <3>1. Gap(list, i).direction = "BEARISH" /\ Gap(list, i).lower = list[Len(list)].high
      BY <2>2, <1>4 DEF Gap
    <3> QED BY <3>1, <1>1, <1>2, <1>3
  <2> QED BY <2>1, <2>2
<1>5. CASE i + 1 < Len(list)
  <2>1. Len(list) \in Later(list, i)
    BY <1>1, <1>5 DEF Later
  <2>2. ~Reaches(Gap(list, i), list[Len(list)], u)
    BY <2>1 DEF Unfilled
  <2> QED BY <2>2, <1>1, <1>2, <1>3 DEF Reaches
<1> QED BY <1>1, <1>4, <1>5

\* In every behaviour the open part of a gap lies between its filled side and
\* the price (update_fvg_fills).
THEOREM GapsFacePrice == Spec => []OpenGapsFacePrice
<1>1. TypeOK => OpenGapsFacePrice
  BY OpenTicksFaceNewest DEF TypeOK, TapeTypeOK, IsList, OpenGapsFacePrice
<1> QED BY <1>1, TypeCorrect, PTL

\* In every behaviour the newest candle has not gone beyond a block that is
\* said to hold (analyze of OrderBlockEngine).
THEOREM BlocksContainPrice == Spec => []HeldBlocksContainPrice
<1>1. TypeOK => HeldBlocksContainPrice
  <2> SUFFICES ASSUME TypeOK, NEW i \in BlocksOf(seen), i < Len(seen),
                      MitigationState(seen, i) # "INVALIDATED"
               PROVE IF Block(seen, i).direction = "BULLISH"
                     THEN Block(seen, i).lower <= seen[Len(seen)].low
                     ELSE seen[Len(seen)].high <= Block(seen, i).upper
    BY DEF HeldBlocksContainPrice
  <2>1. seen \in Seq(Candles)
    BY DEF TypeOK, TapeTypeOK, IsList
  <2>2. i \in 1 .. Len(seen) /\ i - 1 \in 1 .. Len(seen)
        /\ Len(seen) \in i + 1 .. Len(seen)
    BY <2>1 DEF BlocksOf
  <2>3. seen[i - 1] \in Candles /\ seen[Len(seen)] \in Candles
    BY <2>1, <2>2
  <2>4. ~Breaks(Block(seen, i), seen[Len(seen)])
    BY <2>2 DEF MitigationState
  <2>5. Block(seen, i).lower \in Nat /\ Block(seen, i).upper \in Nat
    BY <2>3 DEF Block, Candles
  <2>6. seen[Len(seen)].low \in Nat /\ seen[Len(seen)].high \in Nat
    BY <2>3 DEF Candles
  <2> QED BY <2>4, <2>5, <2>6 DEF Breaks
<1> QED BY <1>1, TypeCorrect, PTL

-----------------------------------------------------------------------------
(* What a list that is extended keeps of the zones. *)

\* A gap among the old candles is the same gap, and no more of it is open.
LEMMA GapsShift ==
  ASSUME NEW old \in Seq(Candles), NEW new \in Seq(Candles), NEW s \in 0 .. Len(old),
         Shifted(old, new, s)
  PROVE \A i \in 2 .. Len(old) - s - 1 :
          /\ i \in GapsOf(new) <=> i + s \in GapsOf(old)
          /\ Gap(new, i) = Gap(old, i + s)
          /\ Unfilled(new, i) \subseteq Unfilled(old, i + s)
<1> SUFFICES ASSUME NEW i \in 2 .. Len(old) - s - 1
             PROVE /\ i \in GapsOf(new) <=> i + s \in GapsOf(old)
                   /\ Gap(new, i) = Gap(old, i + s)
                   /\ Unfilled(new, i) \subseteq Unfilled(old, i + s)
  OBVIOUS
<1>0. /\ \A k \in 1 .. Len(old) - s : new[k] = old[k + s]
      /\ Len(old) - s <= Len(new) /\ Len(old) \in Nat /\ Len(new) \in Nat /\ s \in Nat
  BY DEF Shifted
<1>1. i + s \in 2 .. Len(old) - 1 /\ i \in 2 .. Len(new) - 1
  BY <1>0
<1>2. new[i - 1] = old[(i + s) - 1] /\ new[i + 1] = old[(i + s) + 1]
  <2>1. /\ i - 1 \in 1 .. Len(old) - s /\ i + 1 \in 1 .. Len(old) - s
        /\ (i - 1) + s = (i + s) - 1 /\ (i + 1) + s = (i + s) + 1
    BY <1>0
  <2>2. new[i - 1] = old[(i - 1) + s] /\ new[i + 1] = old[(i + 1) + s]
    BY <2>1, <1>0
  <2> QED BY <2>1, <2>2
<1>3. Rises(new, i) = Rises(old, i + s) /\ Falls(new, i) = Falls(old, i + s)
  BY <1>2 DEF Rises, Falls
<1>4. Gap(new, i) = Gap(old, i + s)
  BY <1>2, <1>3 DEF Gap
<1>5. i \in GapsOf(new) <=> i + s \in GapsOf(old)
  BY <1>1, <1>3, <1>4 DEF GapsOf
<1>6. \A j \in Later(old, i + s) : j - s \in Later(new, i) /\ new[j - s] = old[j]
  <2> SUFFICES ASSUME NEW j \in Later(old, i + s)
               PROVE j - s \in Later(new, i) /\ new[j - s] = old[j]
    OBVIOUS
  <2>1. j - s \in Later(new, i) /\ j - s \in 1 .. Len(old) - s /\ (j - s) + s = j
    BY <1>0, <1>1 DEF Later
  <2>2. new[j - s] = old[(j - s) + s]
    BY <2>1, <1>0
  <2> QED BY <2>1, <2>2
<1>7. Unfilled(new, i) \subseteq Unfilled(old, i + s)
  <2> SUFFICES ASSUME NEW u \in Unfilled(new, i) PROVE u \in Unfilled(old, i + s)
    OBVIOUS
  <2>1. \A j \in Later(old, i + s) : ~Reaches(Gap(old, i + s), old[j], u)
    BY <1>4, <1>6 DEF Unfilled
  <2> QED BY <2>1, <1>4 DEF Unfilled
<1> QED BY <1>4, <1>5, <1>7

\* A block among the old candles is the same block, and what it lost stays lost.
LEMMA BlocksShift ==
  ASSUME NEW old \in Seq(Candles), NEW new \in Seq(Candles), NEW s \in 0 .. Len(old),
         Shifted(old, new, s)
  PROVE \A i \in 2 .. Len(old) - s :
          /\ i \in BlocksOf(new) <=> i + s \in BlocksOf(old)
          /\ Block(new, i) = Block(old, i + s)
          /\ StateLeft(MitigationState(new, i)) \subseteq StateLeft(MitigationState(old, i + s))
<1> SUFFICES ASSUME NEW i \in 2 .. Len(old) - s
             PROVE /\ i \in BlocksOf(new) <=> i + s \in BlocksOf(old)
                   /\ Block(new, i) = Block(old, i + s)
                   /\ StateLeft(MitigationState(new, i))
                        \subseteq StateLeft(MitigationState(old, i + s))
  OBVIOUS
<1>0. /\ \A k \in 1 .. Len(old) - s : new[k] = old[k + s]
      /\ Len(old) - s <= Len(new) /\ Len(old) \in Nat /\ Len(new) \in Nat /\ s \in Nat
  BY DEF Shifted
<1>1. i + s \in 2 .. Len(old) /\ i \in 2 .. Len(new)
  BY <1>0
<1>2. new[i - 1] = old[(i + s) - 1] /\ new[i] = old[i + s]
  <2>1. i - 1 \in 1 .. Len(old) - s /\ i \in 1 .. Len(old) - s /\ (i - 1) + s = (i + s) - 1
    BY <1>0
  <2>2. new[i - 1] = old[(i - 1) + s] /\ new[i] = old[i + s]
    BY <2>1, <1>0
  <2> QED BY <2>1, <2>2
<1>3. Block(new, i) = Block(old, i + s)
  BY <1>2 DEF Block
<1>4. i \in BlocksOf(new) <=> i + s \in BlocksOf(old)
  BY <1>1, <1>2 DEF BlocksOf
<1>5. \A j \in i + s + 1 .. Len(old) : j - s \in i + 1 .. Len(new) /\ new[j - s] = old[j]
  <2> SUFFICES ASSUME NEW j \in i + s + 1 .. Len(old)
               PROVE j - s \in i + 1 .. Len(new) /\ new[j - s] = old[j]
    OBVIOUS
  <2>1. j - s \in i + 1 .. Len(new) /\ j - s \in 1 .. Len(old) - s /\ (j - s) + s = j
    BY <1>0, <1>1
  <2>2. new[j - s] = old[(j - s) + s]
    BY <2>1, <1>0
  <2> QED BY <2>1, <2>2
<1>6. MitigationState(old, i + s) = "INVALIDATED" => MitigationState(new, i) = "INVALIDATED"
  <2> SUFFICES ASSUME MitigationState(old, i + s) = "INVALIDATED"
               PROVE MitigationState(new, i) = "INVALIDATED"
    OBVIOUS
  <2>1. PICK j \in i + s + 1 .. Len(old) : Breaks(Block(old, i + s), old[j])
    BY DEF MitigationState
  <2>2. j - s \in i + 1 .. Len(new) /\ Breaks(Block(new, i), new[j - s])
    BY <2>1, <1>3, <1>5
  <2> QED BY <2>2 DEF MitigationState
<1>7. MitigationState(new, i) = "ACTIVE"
        => MitigationState(old, i + s) \in {"ACTIVE", "INVALIDATED"}
  <2> SUFFICES ASSUME MitigationState(new, i) = "ACTIVE"
               PROVE MitigationState(old, i + s) \in {"ACTIVE", "INVALIDATED"}
    OBVIOUS
  <2>1. \A j \in i + 1 .. Len(new) : ~Touches(Block(new, i), new[j])
    BY DEF MitigationState
  <2>2. \A j \in i + s + 1 .. Len(old) : ~Touches(Block(old, i + s), old[j])
    BY <2>1, <1>3, <1>5
  <2> QED BY <2>2 DEF MitigationState
<1>8. StateLeft(MitigationState(new, i)) \subseteq StateLeft(MitigationState(old, i + s))
  BY <1>6, <1>7 DEF StateLeft
<1> QED BY <1>3, <1>4, <1>8

\* The candles behind the shifted ones come after all old ones, in time too.
LEMMA AddedAreNew ==
  ASSUME NEW old \in Seq(Candles), NEW new \in Seq(Candles), NEW s \in 0 .. Len(old),
         Shifted(old, new, s), Sorted(old), Sorted(new),
         NEW i \in 1 .. Len(new), i > Len(old) - s
  PROVE Id(new[i]) \notin Ids(old)
<1> SUFFICES ASSUME NEW j \in 1 .. Len(old) PROVE Id(old[j]) # Id(new[i])
  BY DEF Ids
<1>0. Len(old) \in Nat /\ Len(new) \in Nat /\ s \in Nat /\ s < Len(old) /\ Len(old) - s <= Len(new)
  BY DEF Shifted
<1>1. new[i] \in Candles /\ old[j] \in Candles /\ old[Len(old)] \in Candles
  BY <1>0
<1>2. new[Len(old) - s] = old[Len(old)]
  <2>1. Len(old) - s \in 1 .. Len(old) - s /\ (Len(old) - s) + s = Len(old)
    BY <1>0
  <2>2. new[Len(old) - s] = old[(Len(old) - s) + s]
    BY <2>1 DEF Shifted
  <2> QED BY <2>1, <2>2
<1>3. Before(old[Len(old)], new[i])
  <2>1. Len(old) - s \in 1 .. Len(new) /\ Len(old) - s < i
    BY <1>0
  <2> QED BY <2>1, <1>2 DEF Sorted
<1>4. CASE j = Len(old)
  BY <1>1, <1>3, <1>4, BeforeIsStrict
<1>5. CASE j < Len(old)
  <2>1. Before(old[j], old[Len(old)])
    BY <1>0, <1>5 DEF Sorted
  <2>2. Before(old[j], new[i])
    BY <2>1, <1>1, <1>3, BeforeIsStrict
  <2> QED BY <2>2, <1>1, BeforeIsStrict
<1> QED BY <1>0, <1>4, <1>5

\* A candle of the old list that the new list still holds is where it was.
LEMMA CandleKeepsPlace ==
  ASSUME NEW old \in Seq(Candles), NEW new \in Seq(Candles), NEW s \in 0 .. Len(old),
         Shifted(old, new, s), Sorted(old), Sorted(new),
         NEW j \in 1 .. Len(old), Id(old[j]) \in Ids(new)
  PROVE s < j
<1>0. Len(old) \in Nat /\ Len(new) \in Nat /\ s \in Nat
  OBVIOUS
<1>1. PICK i \in 1 .. Len(new) : Id(new[i]) = Id(old[j])
  BY DEF Ids
<1>2. ~(i > Len(old) - s)
  <2>1. Id(new[i]) \in Ids(old)
    BY <1>1 DEF Ids
  <2> QED BY <2>1, AddedAreNew
<1>3. i \in 1 .. Len(old) - s /\ i + s \in 1 .. Len(old)
  BY <1>0, <1>2
<1>4. new[i] = old[i + s] /\ old[i + s] \in Candles /\ old[j] \in Candles
  BY <1>3 DEF Shifted
<1>5. ~(j < i + s)
  <2>1. j < i + s => Before(old[j], old[i + s])
    BY <1>3 DEF Sorted
  <2> QED BY <2>1, <1>1, <1>4, BeforeIsStrict
<1> QED BY <1>0, <1>3, <1>5

\* A zone of the new list is made by a candle that was added, or was there
\* before with all that is left of it.
LEMMA ZonesWereThere ==
  ASSUME NEW old \in Seq(Candles), NEW new \in Seq(Candles), NEW s \in 0 .. Len(old),
         Shifted(old, new, s), Sorted(old), Sorted(new)
  PROVE \A z \in Zones(new) :
          z.newest \in Ids(old)
            => \E y \in Zones(old) : SameZone(y, z) /\ z.left \subseteq y.left
<1>0. /\ \A k \in 1 .. Len(old) - s : new[k] = old[k + s]
      /\ Len(old) \in Nat /\ Len(new) \in Nat /\ s \in Nat
  BY DEF Shifted
<1>a. \A i \in 2 .. Len(old) - s - 1 :
        /\ i \in GapsOf(new) <=> i + s \in GapsOf(old)
        /\ Gap(new, i) = Gap(old, i + s)
        /\ Unfilled(new, i) \subseteq Unfilled(old, i + s)
  BY GapsShift
<1>b. \A i \in 2 .. Len(old) - s :
        /\ i \in BlocksOf(new) <=> i + s \in BlocksOf(old)
        /\ Block(new, i) = Block(old, i + s)
        /\ StateLeft(MitigationState(new, i)) \subseteq StateLeft(MitigationState(old, i + s))
  BY BlocksShift
<1>c. \A i \in 1 .. Len(new) : i > Len(old) - s => Id(new[i]) \notin Ids(old)
  BY AddedAreNew
<1>1. ASSUME NEW i \in GapsOf(new), GapZone(new, i).newest \in Ids(old)
      PROVE \E y \in Zones(old) : /\ SameZone(y, GapZone(new, i))
                                  /\ GapZone(new, i).left \subseteq y.left
  <2>1. i \in 2 .. Len(new) - 1 /\ Id(new[i + 1]) \in Ids(old)
    BY <1>1 DEF GapsOf, GapZone
  <2>2. i + 1 \in 1 .. Len(new) /\ ~(i + 1 > Len(old) - s)
    BY <2>1, <1>0, <1>c
  <2>3. i \in 2 .. Len(old) - s - 1
    BY <2>1, <2>2, <1>0
  <2>4. /\ i + s \in GapsOf(old) /\ Gap(new, i) = Gap(old, i + s)
        /\ Unfilled(new, i) \subseteq Unfilled(old, i + s)
    BY <2>3, <1>a
  <2>5. /\ i - 1 \in 1 .. Len(old) - s /\ i + 1 \in 1 .. Len(old) - s
        /\ (i - 1) + s = (i + s) - 1 /\ (i + 1) + s = (i + s) + 1
    BY <2>3, <1>0
  <2>6. new[i - 1] = old[(i + s) - 1] /\ new[i + 1] = old[(i + s) + 1]
    <3>1. new[i - 1] = old[(i - 1) + s] /\ new[i + 1] = old[(i + 1) + s]
      BY <2>5, <1>0
    <3> QED BY <3>1, <2>5
  <2>7. /\ SameZone(GapZone(old, i + s), GapZone(new, i))
        /\ GapZone(new, i).left \subseteq GapZone(old, i + s).left
    BY <2>4, <2>6 DEF SameZone, GapZone
  <2> QED BY <2>4, <2>7 DEF Zones
<1>2. ASSUME NEW i \in BlocksOf(new), BlockZone(new, i).newest \in Ids(old)
      PROVE \E y \in Zones(old) : /\ SameZone(y, BlockZone(new, i))
                                  /\ BlockZone(new, i).left \subseteq y.left
  <2>1. i \in 2 .. Len(new) /\ Id(new[i]) \in Ids(old)
    BY <1>2 DEF BlocksOf, BlockZone
  <2>2. i \in 1 .. Len(new) /\ ~(i > Len(old) - s)
    BY <2>1, <1>0, <1>c
  <2>3. i \in 2 .. Len(old) - s
    BY <2>1, <2>2, <1>0
  <2>4. /\ i + s \in BlocksOf(old) /\ Block(new, i) = Block(old, i + s)
        /\ StateLeft(MitigationState(new, i)) \subseteq StateLeft(MitigationState(old, i + s))
    BY <2>3, <1>b
  <2>5. i - 1 \in 1 .. Len(old) - s /\ i \in 1 .. Len(old) - s /\ (i - 1) + s = (i + s) - 1
    BY <2>3, <1>0
  <2>6. new[i - 1] = old[(i + s) - 1] /\ new[i] = old[i + s]
    <3>1. new[i - 1] = old[(i - 1) + s] /\ new[i] = old[i + s]
      BY <2>5, <1>0
    <3> QED BY <3>1, <2>5
  <2>7. /\ SameZone(BlockZone(old, i + s), BlockZone(new, i))
        /\ BlockZone(new, i).left \subseteq BlockZone(old, i + s).left
    BY <2>4, <2>6 DEF SameZone, BlockZone
  <2> QED BY <2>4, <2>7 DEF Zones
<1> QED BY <1>1, <1>2 DEF Zones

\* A zone of the old list is reported again while its oldest candle is held.
LEMMA ZonesAreKept ==
  ASSUME NEW old \in Seq(Candles), NEW new \in Seq(Candles), NEW s \in 0 .. Len(old),
         Shifted(old, new, s), Sorted(old), Sorted(new)
  PROVE \A y \in Zones(old) :
          y.oldest \in Ids(new) => \E z \in Zones(new) : SameZone(y, z)
<1>0. /\ \A k \in 1 .. Len(old) - s : new[k] = old[k + s]
      /\ Len(old) \in Nat /\ Len(new) \in Nat /\ s \in Nat
  BY DEF Shifted
<1>a. \A i \in 2 .. Len(old) - s - 1 :
        /\ i \in GapsOf(new) <=> i + s \in GapsOf(old)
        /\ Gap(new, i) = Gap(old, i + s)
        /\ Unfilled(new, i) \subseteq Unfilled(old, i + s)
  BY GapsShift
<1>b. \A i \in 2 .. Len(old) - s :
        /\ i \in BlocksOf(new) <=> i + s \in BlocksOf(old)
        /\ Block(new, i) = Block(old, i + s)
        /\ StateLeft(MitigationState(new, i)) \subseteq StateLeft(MitigationState(old, i + s))
  BY BlocksShift
<1>c. \A j \in 1 .. Len(old) : Id(old[j]) \in Ids(new) => s < j
  BY CandleKeepsPlace
<1>1. ASSUME NEW j \in GapsOf(old), GapZone(old, j).oldest \in Ids(new)
      PROVE \E z \in Zones(new) : SameZone(GapZone(old, j), z)
  <2>1. j \in 2 .. Len(old) - 1 /\ Id(old[j - 1]) \in Ids(new)
    BY <1>1 DEF GapsOf, GapZone
  <2>2. j - 1 \in 1 .. Len(old) /\ s < j - 1
    BY <2>1, <1>0, <1>c
  <2> DEFINE i == j - s
  <2>3. /\ i \in 2 .. Len(old) - s - 1 /\ i + s = j
        /\ i - 1 \in 1 .. Len(old) - s /\ i + 1 \in 1 .. Len(old) - s
        /\ (i - 1) + s = j - 1 /\ (i + 1) + s = j + 1
    BY <1>0, <2>1, <2>2
  <2> HIDE DEF i
  <2>4. i \in GapsOf(new) /\ Gap(new, i) = Gap(old, j)
    BY <2>3, <1>a
  <2>5. new[i - 1] = old[j - 1] /\ new[i + 1] = old[j + 1]
    <3>1. new[i - 1] = old[(i - 1) + s] /\ new[i + 1] = old[(i + 1) + s]
      BY <2>3, <1>0
    <3> QED BY <3>1, <2>3
  <2>6. SameZone(GapZone(old, j), GapZone(new, i))
    BY <2>4, <2>5 DEF SameZone, GapZone
  <2> QED BY <2>4, <2>6 DEF Zones
<1>2. ASSUME NEW j \in BlocksOf(old), BlockZone(old, j).oldest \in Ids(new)
      PROVE \E z \in Zones(new) : SameZone(BlockZone(old, j), z)
  <2>1. j \in 2 .. Len(old) /\ Id(old[j - 1]) \in Ids(new)
    BY <1>2 DEF BlocksOf, BlockZone
  <2>2. j - 1 \in 1 .. Len(old) /\ s < j - 1
    BY <2>1, <1>0, <1>c
  <2> DEFINE i == j - s
  <2>3. /\ i \in 2 .. Len(old) - s /\ i + s = j
        /\ i - 1 \in 1 .. Len(old) - s /\ i \in 1 .. Len(old) - s
        /\ (i - 1) + s = j - 1
    BY <1>0, <2>1, <2>2
  <2> HIDE DEF i
  <2>4. i \in BlocksOf(new) /\ Block(new, i) = Block(old, j)
    BY <2>3, <1>b
  <2>5. new[i - 1] = old[j - 1] /\ new[i] = old[j]
    <3>1. new[i - 1] = old[(i - 1) + s] /\ new[i] = old[i + s]
      BY <2>3, <1>0
    <3> QED BY <3>1, <2>3
  <2>6. SameZone(BlockZone(old, j), BlockZone(new, i))
    BY <2>4, <2>5 DEF SameZone, BlockZone
  <2> QED BY <2>4, <2>6 DEF Zones
<1> QED BY <1>1, <1>2 DEF Zones

\* Candles that are no strong moves and complete no gap add no confidence.
LEMMA ConfidenceKept ==
  ASSUME NEW old \in Seq(Candles), NEW new \in Seq(Candles), NEW s \in 0 .. Len(old),
         Shifted(old, new, s),
         \A i \in 1 .. Len(new) :
           i > Len(old) - s => ~Strong(new[i]) /\ i - 1 \notin GapsOf(new),
         NEW d
  PROVE ~(Confidence(new, d) > Confidence(old, d))
<1>0. /\ \A k \in 1 .. Len(old) - s : k + s \in 1 .. Len(old) /\ new[k] = old[k + s]
      /\ Len(old) \in Nat /\ Len(new) \in Nat /\ s \in Nat /\ Len(old) - s <= Len(new)
  BY DEF Shifted
<1>a. \A i \in 2 .. Len(old) - s - 1 :
        /\ i \in GapsOf(new) <=> i + s \in GapsOf(old)
        /\ Gap(new, i) = Gap(old, i + s)
        /\ Unfilled(new, i) \subseteq Unfilled(old, i + s)
  BY GapsShift
<1>1. Bias(new, d) => Bias(old, d)
  <2> SUFFICES ASSUME NEW i \in LatestMoves(new), Sign(new[i]) = d
               PROVE Bias(old, d)
    BY DEF Bias
  <2>1. i \in 1 .. Len(new) /\ Strong(new[i]) /\ \A j \in i + 1 .. Len(new) : ~Strong(new[j])
    BY DEF LatestMoves
  <2>2. i \in 1 .. Len(old) - s
    BY <2>1, <1>0
  <2>3. i + s \in 1 .. Len(old) /\ new[i] = old[i + s]
    BY <2>2, <1>0
  <2>4. \A j \in i + s + 1 .. Len(old) : ~Strong(old[j])
    <3> SUFFICES ASSUME NEW j \in i + s + 1 .. Len(old) PROVE ~Strong(old[j])
      OBVIOUS
    <3>1. /\ j - s \in i + 1 .. Len(new) /\ j - s \in 1 .. Len(old) - s
          /\ (j - s) + s = j
      BY <2>2, <1>0
    <3>2. new[j - s] = old[(j - s) + s]
      BY <3>1, <1>0
    <3> QED BY <3>1, <3>2, <2>1
  <2>5. i + s \in LatestMoves(old)
    BY <2>1, <2>3, <2>4 DEF LatestMoves
  <2> QED BY <2>3, <2>5 DEF Bias
<1>2. Active(new, d) # {} => Active(old, d) # {}
  <2> SUFFICES ASSUME NEW i \in GapsOf(new), Gap(new, i).direction = d, Unfilled(new, i) # {}
               PROVE Active(old, d) # {}
    BY DEF Active
  <2>1. i \in 2 .. Len(new) - 1 /\ i + 1 \in 1 .. Len(new) /\ (i + 1) - 1 = i
    BY DEF GapsOf
  <2>2. ~(i + 1 > Len(old) - s)
    BY <2>1
  <2>3. i \in 2 .. Len(old) - s - 1
    BY <2>1, <2>2, <1>0
  <2>4. /\ i + s \in GapsOf(old) /\ Gap(new, i) = Gap(old, i + s)
        /\ Unfilled(new, i) \subseteq Unfilled(old, i + s)
    BY <2>3, <1>a
  <2> QED BY <2>4 DEF Active
<1>3. CASE ~Bias(new, d)
  BY <1>3 DEF Confidence
<1>4. CASE Bias(new, d)
  BY <1>1, <1>2, <1>4 DEF Confidence
<1> QED BY <1>3, <1>4

\* Between two analyses the second list begins with what is left of the first.
LEMMA ExtendingShifts ==
  ASSUME TypeOK, TypeOK', Extends
  PROVE /\ seen \in Seq(Candles) /\ seen' \in Seq(Candles) /\ Sorted(seen) /\ Sorted(seen')
        /\ \E s \in 0 .. Len(seen) : Shifted(seen, seen', s)
BY DEF TypeOK, TapeTypeOK, IsList, Sorted, Extends, LeftInFront, Shifted

\* In every behaviour, while an analysis goes on where the last one ended, no
\* zone is found late, forgotten early or filled less than before (analyze of
\* both engines).
THEOREM ZonesOnlyShrink == Spec => ZonesMoveForward
<1>1. ASSUME TypeOK, [TapeNext]_tapeVars, Extends
      PROVE /\ \A z \in Zones(seen') :
                 z.newest \in Ids(seen)
                   => \E y \in Zones(seen) : SameZone(y, z) /\ z.left \subseteq y.left
            /\ \A y \in Zones(seen) :
                 y.oldest \in Ids(seen') => \E z \in Zones(seen') : SameZone(y, z)
  <2>1. TypeOK'
    BY <1>1, TypeStep
  <2>2. /\ seen \in Seq(Candles) /\ seen' \in Seq(Candles) /\ Sorted(seen) /\ Sorted(seen')
        /\ \E s \in 0 .. Len(seen) : Shifted(seen, seen', s)
    BY <1>1, <2>1, ExtendingShifts
  <2>3. PICK s \in 0 .. Len(seen) : Shifted(seen, seen', s)
    BY <2>2
  <2> QED BY <2>2, <2>3, ZonesWereThere, ZonesAreKept
<1>2. TypeOK /\ [TapeNext]_tapeVars
        => [Extends =>
              /\ \A z \in Zones(seen') :
                   z.newest \in Ids(seen)
                     => \E y \in Zones(seen) : SameZone(y, z) /\ z.left \subseteq y.left
              /\ \A y \in Zones(seen) :
                   y.oldest \in Ids(seen') => \E z \in Zones(seen') : SameZone(y, z)
           ]_tapeVars
  BY <1>1
<1> QED BY <1>2, TypeCorrect, PTL DEF Spec, ZonesMoveForward

\* In every behaviour, while an analysis goes on where the last one ended,
\* confidence rises by new candles alone (analyze of FVGEngine).
THEOREM ConfidenceEarned == Spec => ConfidenceIsEarned
<1>1. ASSUME TypeOK, [TapeNext]_tapeVars, Extends, NEW d \in {"BULLISH", "BEARISH"},
             Confidence(seen', d) > Confidence(seen, d)
      PROVE \E i \in 1 .. Len(seen') :
              /\ Id(seen'[i]) \notin Ids(seen)
              /\ Strong(seen'[i]) \/ i - 1 \in GapsOf(seen')
  <2>1. TypeOK'
    BY <1>1, TypeStep
  <2>2. /\ seen \in Seq(Candles) /\ seen' \in Seq(Candles) /\ Sorted(seen) /\ Sorted(seen')
        /\ \E s \in 0 .. Len(seen) : Shifted(seen, seen', s)
    BY <1>1, <2>1, ExtendingShifts
  <2>3. PICK s \in 0 .. Len(seen) : Shifted(seen, seen', s)
    BY <2>2
  <2>4. PICK i \in 1 .. Len(seen') :
          i > Len(seen) - s /\ (Strong(seen'[i]) \/ i - 1 \in GapsOf(seen'))
    BY <1>1, <2>2, <2>3, ConfidenceKept
  <2>5. Id(seen'[i]) \notin Ids(seen)
    BY <2>2, <2>3, <2>4, AddedAreNew
  <2> QED BY <2>4, <2>5
<1>2. TypeOK /\ [TapeNext]_tapeVars
        => [Extends =>
              \A d \in {"BULLISH", "BEARISH"} :
                Confidence(seen', d) > Confidence(seen, d)
                  => \E i \in 1 .. Len(seen') :
                       /\ Id(seen'[i]) \notin Ids(seen)
                       /\ Strong(seen'[i]) \/ i - 1 \in GapsOf(seen')
           ]_tapeVars
  BY <1>1
<1> QED BY <1>2, TypeCorrect, PTL DEF Spec, ConfidenceIsEarned
=============================================================================
