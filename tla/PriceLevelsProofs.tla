------------------------- MODULE PriceLevelsProofs --------------------------
(***************************************************************************)
(* Theorems about PriceLevels for every market, every set of timeframes,   *)
(* every length of the list and every strength of the swings.              *)
(***************************************************************************)
EXTENDS PriceLevels, SequenceTheorems, FiniteSetTheorems, TLAPS

-----------------------------------------------------------------------------
(* The tape is that of the zones, and what is proved of it there holds here. *)

ZoneProofs == INSTANCE PriceZonesProofs

LEMMA SameTape ==
  /\ TapeInit => ZoneProofs!TapeInit
  /\ [TapeNext]_tapeVars => [ZoneProofs!TapeNext]_(ZoneProofs!tapeVars)
  /\ ZoneProofs!TypeOK => TapeTypeOK
<1>1. /\ \A bar, s : ZoneProofs!Longer(bar, s) = Longer(bar, s)
      /\ \A t : ZoneProofs!Ended(t) = Ended(t)
      /\ \A c, k : ZoneProofs!Inserted(c, k) = Inserted(c, k)
      /\ \A list : ZoneProofs!Newest(list) = Newest(list)
      /\ \A c, d : ZoneProofs!Before(c, d) <=> Before(c, d)
  BY DEF ZoneProofs!Longer, Longer, ZoneProofs!Ended, Ended, ZoneProofs!Inserted, Inserted,
         ZoneProofs!Newest, Newest, ZoneProofs!Before, Before
<1>2. \A s : Minute(s) => ZoneProofs!Minute(s)
  BY <1>1 DEF Minute, ZoneProofs!Minute
<1>3. \A t : Confirm(t) => ZoneProofs!Confirm(t)
  BY <1>1 DEF Confirm, ZoneProofs!Confirm
<1>4. /\ \A t : Form(t) => ZoneProofs!Form(t)
      /\ Quote => ZoneProofs!Quote
      /\ Analyze => ZoneProofs!Analyze
  BY DEF Form, ZoneProofs!Form, Quote, ZoneProofs!Quote, Analyze, ZoneProofs!Analyze
<1>5. TapeNext => ZoneProofs!TapeNext
  BY <1>2, <1>3, <1>4 DEF TapeNext, ZoneProofs!TapeNext
<1>6. TapeInit => ZoneProofs!TapeInit
  BY DEF TapeInit, ZoneProofs!TapeInit
<1>7. ZoneProofs!TypeOK => TapeTypeOK
  <2>1. /\ Candles = ZoneProofs!Candles /\ Prices = ZoneProofs!Prices
        /\ \A c : IsShape(c) <=> ZoneProofs!IsShape(c)
    BY DEF Candles, ZoneProofs!Candles, Prices, ZoneProofs!Prices, IsShape, ZoneProofs!IsShape
  <2>2. \A list : ZoneProofs!IsList(list) => IsList(list)
    BY <1>1, <2>1 DEF IsList, ZoneProofs!IsList
  <2> QED BY <2>1, <2>2 DEF ZoneProofs!TypeOK, ZoneProofs!TapeTypeOK, TapeTypeOK
<1>8. [TapeNext]_tapeVars => [ZoneProofs!TapeNext]_(ZoneProofs!tapeVars)
  BY <1>5 DEF tapeVars, ZoneProofs!tapeVars
<1> QED BY <1>6, <1>7, <1>8

LEMMA SameAssumption == ZoneProofs!TapeAssumption
BY TapeAssumption
   DEF ZoneProofs!TapeAssumption, ZoneProofs!Prices, ZoneProofs!IsShape, Prices, IsShape

\* What an analysis is given is a list of candles, in order.
THEOREM TypeCorrect == Spec => []TapeTypeOK
<1>1. Spec => ZoneProofs!Spec
  BY SameTape, PTL DEF Spec, ZoneProofs!Spec
<1>2. ZoneProofs!Spec => []ZoneProofs!TypeOK
  BY SameAssumption, ZoneProofs!TypeCorrect
<1>3. []ZoneProofs!TypeOK => []TapeTypeOK
  BY SameTape, PTL
<1> QED BY <1>1, <1>2, <1>3

Sorted(list) == \A i, j \in 1 .. Len(list) : i < j => Before(list[i], list[j])

\* The new list begins with the old one without its first s candles.
Shifted(old, new, s) ==
  /\ s < Len(old) \/ old = <<>>
  /\ Len(old) - s <= Len(new)
  /\ \A i \in 1 .. Len(old) - s : new[i] = old[i + s]

LEMMA AddedAreNew ==
  ASSUME NEW old \in Seq(Candles), NEW new \in Seq(Candles), NEW s \in 0 .. Len(old),
         Shifted(old, new, s), Sorted(old), Sorted(new),
         NEW i \in 1 .. Len(new), i > Len(old) - s
  PROVE  Id(new[i]) \notin Ids(old)
<1>1. Candles = ZoneProofs!Candles /\ \A c, d : ZoneProofs!Before(c, d) <=> Before(c, d)
  BY DEF Candles, ZoneProofs!Candles, Before, ZoneProofs!Before
<1>2. ZoneProofs!Shifted(old, new, s)
  BY DEF Shifted, ZoneProofs!Shifted
<1>3. ZoneProofs!Sorted(old) /\ ZoneProofs!Sorted(new)
  BY <1>1 DEF Sorted, ZoneProofs!Sorted
<1>4. ZoneProofs!Id(new[i]) \notin ZoneProofs!Ids(old)
  <2>1. old \in Seq(ZoneProofs!Candles) /\ new \in Seq(ZoneProofs!Candles)
    BY <1>1
  <2> QED BY <1>2, <1>3, <2>1, SameAssumption, ZoneProofs!AddedAreNew
<1> QED BY <1>4 DEF Id, ZoneProofs!Id, Ids, ZoneProofs!Ids

-----------------------------------------------------------------------------
(* Breaks. *)

\* The swing the newest candle confirms is not broken by it.
LEMMA NewestHighStands ==
  ASSUME NEW list, IsList(list), BreaksHigh(list)
  PROVE  Len(list) - SwingStrength \notin HighSwings(list)
<1> DEFINE n == Len(list)
           i == n - SwingStrength
<1> SUFFICES ASSUME i \in HighSwings(list) PROVE FALSE
  OBVIOUS
<1>0. n \in Nat /\ SwingStrength \in Nat \ {0} /\ DOMAIN list = 1 .. n
  BY StrengthAssumption DEF IsList
<1>1. HighSwings(list) \subseteq SwingStrength + 1 .. i
  BY DEF HighSwings, Inner
<1>2. i \in SwingStrength + 1 .. i
  BY <1>1
<1>3. LastOf(HighSwings(list)) = i
  BY <1>0, <1>1, <1>2 DEF LastOf, Max
<1>4. n \in Right(i) \cap DOMAIN list
  BY <1>0, <1>2 DEF Right
<1>5. list[n].high <= list[i].high
  BY <1>4 DEF HighSwings
<1>6. /\ n \in 1 .. n /\ i \in 1 .. n
      /\ list[n] \in Candles /\ list[i] \in Candles /\ IsShape(list[n])
  BY <1>0, <1>2 DEF IsList
<1>7. list[n].close <= list[n].high /\ list[n].close \in Nat /\ list[n].high \in Nat
      /\ list[i].high \in Nat
  BY <1>6 DEF IsShape, Candles
<1>8. list[n].close > list[i].high
  BY <1>3 DEF BreaksHigh
<1> QED BY <1>5, <1>7, <1>8

LEMMA NewestLowStands ==
  ASSUME NEW list, IsList(list), BreaksLow(list)
  PROVE  Len(list) - SwingStrength \notin LowSwings(list)
<1> DEFINE n == Len(list)
           i == n - SwingStrength
<1> SUFFICES ASSUME i \in LowSwings(list) PROVE FALSE
  OBVIOUS
<1>0. n \in Nat /\ SwingStrength \in Nat \ {0} /\ DOMAIN list = 1 .. n
  BY StrengthAssumption DEF IsList
<1>1. LowSwings(list) \subseteq SwingStrength + 1 .. i
  BY DEF LowSwings, Inner
<1>2. i \in SwingStrength + 1 .. i
  BY <1>1
<1>3. LastOf(LowSwings(list)) = i
  BY <1>0, <1>1, <1>2 DEF LastOf, Max
<1>4. n \in Right(i) \cap DOMAIN list
  BY <1>0, <1>2 DEF Right
<1>5. list[n].low >= list[i].low
  BY <1>4 DEF LowSwings
<1>6. /\ n \in 1 .. n /\ i \in 1 .. n
      /\ list[n] \in Candles /\ list[i] \in Candles /\ IsShape(list[n])
  BY <1>0, <1>2 DEF IsList
<1>7. list[n].low <= list[n].close /\ list[n].close \in Nat /\ list[n].low \in Nat
      /\ list[i].low \in Nat
  BY <1>6 DEF IsShape, Candles
<1>8. list[n].close < list[i].low
  BY <1>3 DEF BreaksLow
<1> QED BY <1>5, <1>7, <1>8

\* Without the newest candle the same swings are found, but for the one it
\* confirms.
LEMMA SwingsBeforeNewest ==
  ASSUME NEW list \in Seq(Candles), list # <<>>
  PROVE  LET known == SubSeq(list, 1, Len(list) - 1)
             confirmed == Len(list) - SwingStrength
         IN /\ HighSwings(known) = HighSwings(list) \ {confirmed}
            /\ LowSwings(known) = LowSwings(list) \ {confirmed}
<1> DEFINE n == Len(list)
           known == SubSeq(list, 1, n - 1)
<1>0. n \in Nat \ {0} /\ SwingStrength \in Nat \ {0} /\ DOMAIN list = 1 .. n
  BY StrengthAssumption
<1>1. Len(known) = n - 1 /\ DOMAIN known = 1 .. n - 1 /\ \A j \in 1 .. n - 1 : known[j] = list[j]
  BY <1>0
<1>2. Inner(known) = Inner(list) \ {n - SwingStrength}
  BY <1>0, <1>1 DEF Inner
<1>3. \A i \in Inner(known) :
        /\ i \in 1 .. n - 1
        /\ Left(i) \cap DOMAIN known = Left(i) \cap DOMAIN list
        /\ Right(i) \cap DOMAIN known = Right(i) \cap DOMAIN list
  BY <1>0, <1>1 DEF Inner, Left, Right
<1> HIDE DEF known
<1>4. HighSwings(known) = HighSwings(list) \ {n - SwingStrength}
  BY <1>1, <1>2, <1>3 DEF HighSwings
<1>5. LowSwings(known) = LowSwings(list) \ {n - SwingStrength}
  BY <1>1, <1>2, <1>3 DEF LowSwings
<1> QED BY <1>4, <1>5 DEF known

\* In every analysis a break is of a swing that was known before the candle that
\* breaks it (analyze of MarketStructureEngine).
THEOREM BreaksAreKnown == Spec => []BreaksAreOfKnownSwings
<1>1. TapeTypeOK => BreaksAreOfKnownSwings
  <2> SUFFICES ASSUME IsList(seen) PROVE BreaksAreOfKnownSwings
    BY DEF TapeTypeOK
  <2> DEFINE known == SubSeq(seen, 1, Len(seen) - 1)
  <2>0. seen \in Seq(Candles) /\ SwingStrength \in Nat \ {0}
    BY StrengthAssumption DEF IsList
  <2>1. ASSUME BreaksHigh(seen)
        PROVE  HighSwings(known) # {} /\ LastOf(HighSwings(known)) = LastOf(HighSwings(seen))
    <3>1. HighSwings(seen) # {}
      BY <2>1 DEF BreaksHigh
    <3>2. seen # <<>>
      BY <2>0, <3>1 DEF HighSwings, Inner
    <3>3. HighSwings(known) = HighSwings(seen)
      BY <2>0, <2>1, <3>2, SwingsBeforeNewest, NewestHighStands
    <3> QED BY <3>1, <3>3
  <2>2. ASSUME BreaksLow(seen)
        PROVE  LowSwings(known) # {} /\ LastOf(LowSwings(known)) = LastOf(LowSwings(seen))
    <3>1. LowSwings(seen) # {}
      BY <2>2 DEF BreaksLow
    <3>2. seen # <<>>
      BY <2>0, <3>1 DEF LowSwings, Inner
    <3>3. LowSwings(known) = LowSwings(seen)
      BY <2>0, <2>2, <3>2, SwingsBeforeNewest, NewestLowStands
    <3> QED BY <3>1, <3>3
  <2>3. (Bos(seen) = "BULLISH" => BreaksHigh(seen)) /\ (Bos(seen) = "BEARISH" => BreaksLow(seen))
    BY DEF Bos
  <2> QED BY <2>1, <2>2, <2>3 DEF BreaksAreOfKnownSwings
<1> QED BY <1>1, TypeCorrect, PTL
-----------------------------------------------------------------------------
(* Trends. *)

LEMMA MaxIs ==
  ASSUME NEW S, S \subseteq Nat, NEW m \in S, \A x \in S : m >= x
  PROVE  Max(S) = m
<1>1. \A x \in S : (\A y \in S : x >= y) => x = m
  <2> SUFFICES ASSUME NEW x \in S, \A y \in S : x >= y PROVE x = m
    OBVIOUS
  <2>1. x >= m /\ m >= x /\ x \in Nat /\ m \in Nat
    OBVIOUS
  <2> QED BY <2>1
<1> QED BY <1>1 DEF Max

\* A nonempty set of places has a last one: of the sets of the places above each
\* of them one is the smallest.
LEMMA MaxIsLast ==
  ASSUME NEW n \in Nat, NEW S, S \subseteq 1 .. n, S # {}
  PROVE  Max(S) \in S /\ \A x \in S : Max(S) >= x
<1> DEFINE Above(x) == {y \in S : y > x}
           T == {Above(x) : x \in S}
<1>1. IsFiniteSet(1 .. n)
  BY FS_Interval
<1>2. \A U \in SUBSET (1 .. n) : IsFiniteSet(U)
  BY <1>1, FS_Subset
<1>3. T \subseteq FiniteSubsetsOf(1 .. n) /\ T # {}
  BY <1>2 DEF FiniteSubsetsOf
<1>4. \E t \in T : \A u \in T : ~(<<u, t>> \in StrictSubsetOrdering(1 .. n))
  <2>1. IsWellFoundedOn(StrictSubsetOrdering(1 .. n), FiniteSubsetsOf(1 .. n))
    BY FS_StrictSubsetOrderingWellFounded
  <2> HIDE DEF T
  <2> QED BY <1>3, <2>1, WFMin
<1>5. PICK x \in S : \A y \in S : ~(<<Above(y), Above(x)>> \in StrictSubsetOrdering(1 .. n))
  BY <1>4
<1>6. \A y \in S : x >= y
  <2> SUFFICES ASSUME NEW y \in S, y > x PROVE FALSE
    OBVIOUS
  <2>0. S \subseteq Nat
    OBVIOUS
  <2>1. Above(y) \subseteq Above(x)
    <3>1. \A z \in S : z > y => z > x
      BY <2>0
    <3> QED BY <3>1
  <2>2. y \in Above(x)
    OBVIOUS
  <2>3. y \notin Above(y)
    BY <2>0
  <2>4. <<Above(y), Above(x)>> \in StrictSubsetOrdering(1 .. n)
    <3>1. Above(y) \in SUBSET (1 .. n) /\ Above(x) \in SUBSET (1 .. n)
      OBVIOUS
    <3> HIDE DEF Above
    <3> QED BY <2>1, <2>2, <2>3, <3>1 DEF StrictSubsetOrdering
  <2> QED BY <1>5, <2>4
<1> QED BY <1>6 DEF Max

\* Of two sets of which one is what is left of the other behind a place, shifted,
\* the last two are the same.
LEMMA LastTwoShift ==
  ASSUME NEW n \in Nat, NEW A, A \subseteq 1 .. n, NEW m \in Nat, NEW B, B \subseteq 1 .. m,
         NEW s \in Nat, NEW k \in Nat,
         \A i \in B : i + s \in A,
         \A i \in A : i - s >= k => i - s \in B,
         \A i \in B : i >= k,
         Cardinality(B) > 1
  PROVE  /\ Cardinality(A) > 1
         /\ LastOf(A) = LastOf(B) + s /\ PreviousOf(A) = PreviousOf(B) + s
         /\ LastOf(B) \in B /\ PreviousOf(B) \in B
<1> DEFINE b == Max(B)
           rest == B \ {b}
           c == Max(rest)
<1>1. IsFiniteSet(A) /\ IsFiniteSet(B)
  <2>1. IsFiniteSet(1 .. n) /\ IsFiniteSet(1 .. m)
    BY FS_Interval
  <2>2. A \in SUBSET (1 .. n) /\ B \in SUBSET (1 .. m)
    OBVIOUS
  <2> QED BY <2>1, <2>2, FS_Subset
<1>2. B # {}
  BY FS_EmptySet
<1>3. b \in B /\ \A x \in B : b >= x
  BY <1>2, MaxIsLast
<1>4. rest # {}
  <2>1. rest = {} => B = {b}
    BY <1>3
  <2> QED BY <2>1, FS_Singleton
<1>5. c \in rest /\ \A x \in rest : c >= x
  <2> HIDE DEF rest
  <2>1. rest \subseteq 1 .. m
    BY DEF rest
  <2> QED BY <1>4, <2>1, MaxIsLast
<1> HIDE DEF b, c
<1>6. b \in 1 .. m /\ c \in 1 .. m /\ c < b /\ b >= k /\ c >= k
  BY <1>3, <1>5
<1>7. b + s \in A /\ c + s \in A
  BY <1>3, <1>5
<1>8. \A x \in A : b + s >= x
  BY <1>3, <1>6
<1>9. Max(A) = b + s
  <2>1. A \subseteq Nat
    OBVIOUS
  <2> QED BY <1>7, <1>8, <2>1, MaxIs
<1>10. \A x \in A \ {b + s} : c + s >= x
  <2> SUFFICES ASSUME NEW x \in A \ {b + s} PROVE c + s >= x
    OBVIOUS
  <2>1. CASE x - s >= k
    <3>1. x - s \in rest
      BY <2>1
    <3> QED BY <1>5, <1>6, <3>1
  <2>2. CASE ~(x - s >= k)
    BY <1>6, <2>2
  <2> QED BY <2>1, <2>2
<1>11. Max(A \ {b + s}) = c + s
  <2>1. c + s \in A \ {b + s} /\ A \ {b + s} \subseteq Nat
    BY <1>6, <1>7
  <2> QED BY <1>10, <2>1, MaxIs
<1>12. Cardinality(A) > 1
  <2>1. Cardinality(A) \in Nat
    BY <1>1, FS_CardinalityType
  <2>2. Cardinality(A) # 0
    BY <1>1, <1>7, FS_EmptySet
  <2>3. Cardinality(A) # 1
    BY <1>1, <1>6, <1>7, FS_Singleton
  <2> QED BY <2>1, <2>2, <2>3
<1> QED BY <1>3, <1>5, <1>9, <1>11, <1>12 DEF LastOf, PreviousOf, b, c

\* When no swing of the new list was confirmed by a new candle, its swings are
\* those of the old list that are still inside.
LEMMA SwingsShift ==
  ASSUME NEW old, NEW new, IsList(old), IsList(new), NEW s \in 0 .. Len(old),
         Shifted(old, new, s),
         \A i \in HighSwings(new) \union LowSwings(new) : Id(new[i + SwingStrength]) \in Ids(old)
  PROVE  /\ \A i \in HighSwings(new) : i + s \in HighSwings(old)
         /\ \A i \in HighSwings(old) : i - s >= SwingStrength + 1 => i - s \in HighSwings(new)
         /\ \A i \in LowSwings(new) : i + s \in LowSwings(old)
         /\ \A i \in LowSwings(old) : i - s >= SwingStrength + 1 => i - s \in LowSwings(new)
         /\ \A i \in HighSwings(new) \union LowSwings(new) : new[i] = old[i + s]
<1> DEFINE S == SwingStrength
           shared == Len(old) - s
<1>0. /\ old \in Seq(Candles) /\ new \in Seq(Candles) /\ S \in Nat \ {0}
      /\ Len(old) \in Nat /\ Len(new) \in Nat /\ shared \in Nat
      /\ DOMAIN old = 1 .. Len(old) /\ DOMAIN new = 1 .. Len(new)
      /\ Sorted(old) /\ Sorted(new)
  BY StrengthAssumption DEF IsList, Sorted
<1>1. shared <= Len(new) /\ \A i \in 1 .. shared : new[i] = old[i + s]
  BY DEF Shifted
<1>2. \A i \in HighSwings(new) \union LowSwings(new) : i \in S + 1 .. Len(new) - S /\ i + S <= shared
  <2> SUFFICES ASSUME NEW i \in HighSwings(new) \union LowSwings(new)
               PROVE  i \in S + 1 .. Len(new) - S /\ i + S <= shared
    OBVIOUS
  <2>1. i \in S + 1 .. Len(new) - S
    BY DEF HighSwings, LowSwings, Inner
  <2>2. i + S \in 1 .. Len(new)
    BY <1>0, <2>1
  <2>3. ~(i + S > shared)
    BY <1>0, <2>2, AddedAreNew
  <2> QED BY <1>0, <2>1, <2>2, <2>3
\* The surroundings of a candle that both lists hold are the same.
<1>3. ASSUME NEW i \in S + 1 .. shared - S
      PROVE  /\ i + s \in Inner(old) /\ i \in Inner(new)
             /\ new[i] = old[i + s]
             /\ \A j \in Left(i) \cap DOMAIN new :
                  j + s \in Left(i + s) \cap DOMAIN old /\ new[j] = old[j + s]
             /\ \A j \in Left(i + s) \cap DOMAIN old :
                  j - s \in Left(i) \cap DOMAIN new /\ old[j] = new[j - s]
             /\ \A j \in Right(i) \cap DOMAIN new :
                  j + s \in Right(i + s) \cap DOMAIN old /\ new[j] = old[j + s]
             /\ \A j \in Right(i + s) \cap DOMAIN old :
                  j - s \in Right(i) \cap DOMAIN new /\ old[j] = new[j - s]
  <2>1. i + s \in Inner(old) /\ i \in Inner(new) /\ i \in 1 .. shared
    BY <1>0, <1>1 DEF Inner
  <2>2. \A j \in (Left(i) \union Right(i)) \cap DOMAIN new : j \in 1 .. shared
    BY <1>0, <1>1 DEF Left, Right
  <2>3. \A j \in (Left(i + s) \union Right(i + s)) \cap DOMAIN old :
          j - s \in 1 .. shared /\ (j - s) + s = j
    BY <1>0, <1>1 DEF Left, Right
  <2>4. /\ \A j \in Left(i) \cap DOMAIN new : j + s \in Left(i + s) \cap DOMAIN old
        /\ \A j \in Right(i) \cap DOMAIN new : j + s \in Right(i + s) \cap DOMAIN old
        /\ \A j \in Left(i + s) \cap DOMAIN old : j - s \in Left(i) \cap DOMAIN new
        /\ \A j \in Right(i + s) \cap DOMAIN old : j - s \in Right(i) \cap DOMAIN new
    BY <1>0, <1>1 DEF Left, Right
  <2>5. \A j \in (Left(i + s) \union Right(i + s)) \cap DOMAIN old : old[j] = new[j - s]
    BY <1>1, <2>3
  <2> QED BY <1>1, <2>1, <2>2, <2>4, <2>5
<1>4. ASSUME NEW i \in S + 1 .. shared - S
      PROVE  /\ i \in HighSwings(new) <=> i + s \in HighSwings(old)
             /\ i \in LowSwings(new) <=> i + s \in LowSwings(old)
  <2>1. /\ (\A j \in Left(i) \cap DOMAIN new : new[j].high < new[i].high)
             <=> (\A j \in Left(i + s) \cap DOMAIN old : old[j].high < old[i + s].high)
        /\ (\A j \in Left(i) \cap DOMAIN new : new[j].low > new[i].low)
             <=> (\A j \in Left(i + s) \cap DOMAIN old : old[j].low > old[i + s].low)
    BY <1>3
  <2>2. /\ (\A j \in Right(i) \cap DOMAIN new : new[j].high <= new[i].high)
             <=> (\A j \in Right(i + s) \cap DOMAIN old : old[j].high <= old[i + s].high)
        /\ (\A j \in Right(i) \cap DOMAIN new : new[j].low >= new[i].low)
             <=> (\A j \in Right(i + s) \cap DOMAIN old : old[j].low >= old[i + s].low)
    BY <1>3
  <2>3. i \in Inner(new) /\ i + s \in Inner(old)
    BY <1>3
  <2>4. i \in HighSwings(new) <=> i + s \in HighSwings(old)
    BY <2>1, <2>2, <2>3 DEF HighSwings
  <2>5. i \in LowSwings(new) <=> i + s \in LowSwings(old)
    BY <2>1, <2>2, <2>3 DEF LowSwings
  <2> QED BY <2>4, <2>5
<1>5. \A i \in HighSwings(new) \union LowSwings(new) : i \in S + 1 .. shared - S
  BY <1>0, <1>2
<1>6. ASSUME NEW i \in HighSwings(old) \union LowSwings(old), i - s >= S + 1
      PROVE  i - s \in S + 1 .. shared - S /\ (i - s) + s = i
  <2>1. i \in S + 1 .. Len(old) - S
    BY DEF HighSwings, LowSwings, Inner
  <2> QED BY <1>0, <1>6, <2>1
<1>7. \A i \in HighSwings(old) : i - s >= S + 1 => i - s \in HighSwings(new)
  BY <1>4, <1>6
<1>8. \A i \in LowSwings(old) : i - s >= S + 1 => i - s \in LowSwings(new)
  BY <1>4, <1>6
<1>9. \A i \in HighSwings(new) \union LowSwings(new) : new[i] = old[i + s]
  BY <1>3, <1>5
<1> QED BY <1>4, <1>5, <1>7, <1>8, <1>9

\* Then no direction comes of the comparisons that the old list had not.
LEMMA TrendKept ==
  ASSUME NEW old, NEW new, IsList(old), IsList(new), NEW s \in 0 .. Len(old),
         Shifted(old, new, s),
         \A i \in HighSwings(new) \union LowSwings(new) : Id(new[i + SwingStrength]) \in Ids(old)
  PROVE  Trend(new) \in {"RANGE", Trend(old)}
<1> DEFINE k == SwingStrength + 1
           HO == HighSwings(old)
           HN == HighSwings(new)
           LO == LowSwings(old)
           LN == LowSwings(new)
<1>0. /\ Len(old) \in Nat /\ Len(new) \in Nat /\ s \in Nat /\ k \in Nat
      /\ old \in Seq(Candles)
  BY StrengthAssumption DEF IsList
<1>1. /\ HO \subseteq 1 .. Len(old) /\ LO \subseteq 1 .. Len(old)
      /\ HN \subseteq 1 .. Len(new) /\ LN \subseteq 1 .. Len(new)
      /\ \A i \in HN : i >= k
      /\ \A i \in LN : i >= k
  BY <1>0, StrengthAssumption DEF HighSwings, LowSwings, Inner
<1>2. /\ \A i \in HN : i + s \in HO /\ new[i] = old[i + s]
      /\ \A i \in LN : i + s \in LO /\ new[i] = old[i + s]
      /\ \A i \in HO : i - s >= k => i - s \in HN
      /\ \A i \in LO : i - s >= k => i - s \in LN
  BY SwingsShift
<1> HIDE DEF HO, HN, LO, LN, k
<1>3. ASSUME Cardinality(HN) > 1
      PROVE  /\ Cardinality(HO) > 1 /\ LastOf(HO) \in HO /\ PreviousOf(HO) \in HO
             /\ new[LastOf(HN)] = old[LastOf(HO)] /\ new[PreviousOf(HN)] = old[PreviousOf(HO)]
  <2>1. /\ Cardinality(HO) > 1
        /\ LastOf(HO) = LastOf(HN) + s /\ PreviousOf(HO) = PreviousOf(HN) + s
        /\ LastOf(HN) \in HN /\ PreviousOf(HN) \in HN
    BY <1>0, <1>1, <1>2, <1>3, LastTwoShift
  <2> QED BY <1>2, <2>1
<1>4. ASSUME Cardinality(LN) > 1
      PROVE  /\ Cardinality(LO) > 1
             /\ new[LastOf(LN)] = old[LastOf(LO)] /\ new[PreviousOf(LN)] = old[PreviousOf(LO)]
  <2>1. /\ Cardinality(LO) > 1
        /\ LastOf(LO) = LastOf(LN) + s /\ PreviousOf(LO) = PreviousOf(LN) + s
        /\ LastOf(LN) \in LN /\ PreviousOf(LN) \in LN
    BY <1>0, <1>1, <1>2, <1>4, LastTwoShift
  <2> QED BY <1>2, <2>1
<1>5. /\ HigherHigh(new) => HigherHigh(old)
      /\ LowerHigh(new) => LowerHigh(old)
      /\ HigherLow(new) => HigherLow(old)
      /\ LowerLow(new) => LowerLow(old)
  BY <1>3, <1>4 DEF HigherHigh, LowerHigh, HigherLow, LowerLow, HO, HN, LO, LN
<1>6. ASSUME Cardinality(HN) > 1, HigherHigh(old), LowerHigh(old) PROVE FALSE
  <2>1. LastOf(HO) \in 1 .. Len(old) /\ PreviousOf(HO) \in 1 .. Len(old)
    BY <1>1, <1>3, <1>6
  <2>2. old[LastOf(HO)] \in Candles /\ old[PreviousOf(HO)] \in Candles
    BY <1>0, <2>1, ElementOfSeq
  <2>3. old[LastOf(HO)].high \in Nat /\ old[PreviousOf(HO)].high \in Nat
    BY <2>2 DEF Candles
  <2> QED BY <1>6, <2>3 DEF HigherHigh, LowerHigh, HO
<1>7. /\ Trend(new) = "BULLISH" => Trend(old) = "BULLISH"
      /\ Trend(new) = "BEARISH" => Trend(old) = "BEARISH"
  <2>1. ASSUME HigherHigh(new), HigherLow(new) PROVE Trend(old) = "BULLISH"
    <3>1. ~LowerHigh(old)
      BY <1>5, <1>6, <2>1 DEF HigherHigh, HN
    <3> QED BY <1>5, <2>1, <3>1 DEF Trend
  <2>2. ASSUME LowerHigh(new), LowerLow(new) PROVE Trend(old) = "BEARISH"
    <3>1. ~HigherHigh(old)
      BY <1>5, <1>6, <2>2 DEF LowerHigh, HN
    <3> QED BY <1>5, <2>2, <3>1 DEF Trend
  <2> QED BY <2>1, <2>2 DEF Trend
<1>8. Trend(new) \in {"RANGE", "BULLISH", "BEARISH"}
  BY DEF Trend
<1> QED BY <1>7, <1>8

\* In every behaviour, while an analysis goes on where the last one ended, a trend
\* comes with a new swing only (analyze of MarketStructureEngine).
THEOREM TrendsAreNew == Spec => TrendsAreEarned
<1>1. ASSUME TapeTypeOK, TapeTypeOK', Extends, Trend(seen') \notin {"RANGE", Trend(seen)}
      PROVE  \E i \in HighSwings(seen') \union LowSwings(seen') :
               Id(seen'[i + SwingStrength]) \notin Ids(seen)
  <2>1. IsList(seen) /\ IsList(seen')
    BY <1>1 DEF TapeTypeOK
  <2>2. PICK s \in 0 .. Len(seen) : Shifted(seen, seen', s)
    BY <1>1 DEF Extends, LeftInFront, Shifted
  <2> QED BY <1>1, <2>1, <2>2, TrendKept
<1>2. TapeTypeOK /\ TapeTypeOK' /\ [TapeNext]_tapeVars
        => [Extends /\ Trend(seen') \notin {"RANGE", Trend(seen)}
              => \E i \in HighSwings(seen') \union LowSwings(seen') :
                   Id(seen'[i + SwingStrength]) \notin Ids(seen)]_seen
  BY <1>1
<1> QED BY <1>2, TypeCorrect, PTL DEF Spec, TrendsAreEarned
-----------------------------------------------------------------------------
(* Pools. *)

\* What holds of the first place, and of each place after one of which it holds,
\* holds of all.
LEMMA Climb ==
  ASSUME NEW N \in Nat, NEW S, 0 \in S, \A n \in 0 .. N - 1 : n \in S => n + 1 \in S
  PROVE  0 .. N \subseteq S
<1> DEFINE D == {m \in 1 .. N + 1 : \A n \in 0 .. m - 1 : n \in S}
           m == Max(D)
<1>1. 1 \in D
  OBVIOUS
<1>2. m \in D /\ \A x \in D : m >= x
  <2>1. D \subseteq 1 .. N + 1 /\ N + 1 \in Nat
    OBVIOUS
  <2> HIDE DEF D
  <2>2. D # {}
    BY <1>1
  <2> QED BY <2>1, <2>2, MaxIsLast
<1> HIDE DEF m
<1>3. m \in 1 .. N + 1 /\ \A n \in 0 .. m - 1 : n \in S
  BY <1>2
<1>4. CASE m = N + 1
  BY <1>3, <1>4
<1>5. CASE m # N + 1
  <2>1. m - 1 \in 0 .. N - 1 /\ (m - 1) + 1 = m
    BY <1>3, <1>5
  <2>2. m \in S
    BY <1>3, <2>1
  <2>3. m + 1 \in 1 .. N + 1 /\ \A n \in 0 .. m : n \in S
    BY <1>3, <1>5, <2>2
  <2>4. m + 1 \in D
    BY <1>3, <2>3
  <2> QED BY <1>2, <1>3, <2>4
<1> QED BY <1>4, <1>5

\* The group a candle joins, the groups of the first n candles, and what
\* FirstOfGroup is the last of.
Joined(prices, first, n) ==
  LET near == {j \in 1 .. n - 1 : first[j] = j /\ Near(prices[n], prices[j])}
  IN IF near = {} THEN n ELSE Min(near)

Grouped(prices, F, n) ==
  IF n = 0 THEN <<>> ELSE Append(F[n - 1], Joined(prices, F[n - 1], n))

AreFirsts(prices, N, F) == F = [n \in 0 .. N |-> Grouped(prices, F, n)]

LEMMA FirstsAre ==
  ASSUME NEW prices
  PROVE  FirstOfGroup(prices)
           = (CHOOSE F : AreFirsts(prices, Len(prices), F))[Len(prices)]
BY DEF FirstOfGroup, AreFirsts, Grouped, Joined

LEMMA FirstsExist ==
  ASSUME NEW prices, NEW N \in Nat
  PROVE  \E F : AreFirsts(prices, N, F)
<1> DEFINE S == {n \in 0 .. N : \E F : AreFirsts(prices, n, F)}
<1>1. 0 \in S
  <2> DEFINE F == [n \in 0 .. 0 |-> <<>>]
  <2>1. AreFirsts(prices, 0, F)
    BY DEF AreFirsts, Grouped
  <2> QED BY <2>1
<1>2. ASSUME NEW n \in 0 .. N - 1, n \in S
      PROVE  n + 1 \in S
  <2>1. PICK F : F = [k \in 0 .. n |-> Grouped(prices, F, k)]
    BY <1>2 DEF AreFirsts
  <2> DEFINE H == [k \in 0 .. n + 1 |-> IF k = n + 1 THEN Grouped(prices, F, k) ELSE F[k]]
  <2>2. ASSUME NEW k \in 0 .. n + 1
        PROVE  H[k] = Grouped(prices, H, k)
    <3>1. Grouped(prices, H, k) = Grouped(prices, F, k)
      <4>1. CASE k = 0
        BY <4>1 DEF Grouped
      <4>2. CASE k # 0
        <5>1. k - 1 \in 0 .. n + 1 /\ k - 1 # n + 1
          BY <4>2
        <5>2. H[k - 1] = F[k - 1]
          BY <5>1
        <5> HIDE DEF H
        <5> QED BY <5>2 DEF Grouped
      <4> QED BY <4>1, <4>2
    <3>2. CASE k = n + 1
      BY <3>1, <3>2
    <3>3. CASE k # n + 1
      <4>1. k \in 0 .. n
        BY <3>3
      <4>2. H[k] = F[k]
        BY <3>3
      <4>3. F[k] = Grouped(prices, F, k)
        BY <2>1, <4>1
      <4> QED BY <3>1, <4>2, <4>3
    <3> QED BY <3>2, <3>3
  <2>3. AreFirsts(prices, n + 1, H)
    <3>1. DOMAIN H = 0 .. n + 1 /\ H = [k \in 0 .. n + 1 |-> H[k]]
      OBVIOUS
    <3> HIDE DEF H
    <3> QED BY <2>2, <3>1 DEF AreFirsts
  <2> QED BY <2>3
<1>3. 0 .. N \subseteq S
  <2> HIDE DEF S
  <2> QED BY <1>1, <1>2, Climb
<1> QED BY <1>3

\* The groups of the first candles are the groups of the list without its last.
LEMMA FirstsGrow ==
  ASSUME NEW prices, NEW N \in Nat, NEW F, AreFirsts(prices, N, F)
  PROVE  /\ \A n \in 0 .. N : \A i \in 1 .. n : F[N][i] = F[n][i]
<1> DEFINE T == {Joined(prices, F[n - 1], n) : n \in 1 .. N}
<1>0. \A n \in 0 .. N : F[n] = Grouped(prices, F, n)
  BY DEF AreFirsts
<1>1. F[0] = <<>> /\ \A n \in 1 .. N : F[n] = Append(F[n - 1], Joined(prices, F[n - 1], n))
  <2>1. 0 \in 0 .. N /\ \A n \in 1 .. N : n \in 0 .. N /\ n # 0
    OBVIOUS
  <2> QED BY <1>0, <2>1 DEF Grouped
<1>2. \A n \in 0 .. N : F[n] \in Seq(T) /\ Len(F[n]) = n
  <2> DEFINE S == {n \in 0 .. N : F[n] \in Seq(T) /\ Len(F[n]) = n}
  <2>1. 0 \in S
    <3>1. F[0] \in Seq(T) /\ Len(F[0]) = 0
      <4> HIDE DEF T
      <4> QED BY <1>1, EmptySeq
    <3> QED BY <3>1
  <2>2. ASSUME NEW n \in 0 .. N - 1, n \in S
        PROVE  n + 1 \in S
    <3>1. n + 1 \in 1 .. N /\ (n + 1) - 1 = n
      OBVIOUS
    <3>2. F[n + 1] = Append(F[n], Joined(prices, F[n], n + 1)) /\ Joined(prices, F[n], n + 1) \in T
      BY <1>1, <3>1
    <3>3. F[n] \in Seq(T) /\ Len(F[n]) = n
      BY <2>2
    <3> HIDE DEF T
    <3>4. F[n + 1] \in Seq(T) /\ Len(F[n + 1]) = n + 1
      BY <3>2, <3>3, AppendProperties
    <3> QED BY <3>1, <3>4
  <2>3. 0 .. N \subseteq S
    <3> HIDE DEF S
    <3> QED BY <2>1, <2>2, Climb
  <2> QED BY <2>3
<1> HIDE DEF T
<1>3. ASSUME NEW n \in 0 .. N - 1
      PROVE  \A i \in 1 .. n : F[n + 1][i] = F[n][i]
  <2>1. n + 1 \in 1 .. N /\ (n + 1) - 1 = n /\ n \in 0 .. N
    OBVIOUS
  <2>2. F[n + 1] = Append(F[n], Joined(prices, F[n], n + 1))
    BY <1>1, <2>1
  <2>3. F[n] \in Seq(T) /\ Len(F[n]) = n
    BY <1>2, <2>1
  <2>4. Joined(prices, F[n], n + 1) \in T
    <3>1. \A k \in 1 .. N : Joined(prices, F[k - 1], k) \in T
      BY DEF T
    <3> QED BY <2>1, <3>1
  <2> QED BY <2>2, <2>3, <2>4, AppendProperties
<1>4. ASSUME NEW n \in 0 .. N
      PROVE  \A i \in 1 .. n : F[N][i] = F[n][i]
  <2> DEFINE S == {d \in 0 .. N - n : \A i \in 1 .. n : F[n + d][i] = F[n][i]}
  <2>1. 0 \in S
    BY <1>4
  <2>2. ASSUME NEW d \in 0 .. (N - n) - 1, d \in S
        PROVE  d + 1 \in S
    <3>1. n + d \in 0 .. N - 1 /\ n + (d + 1) = (n + d) + 1 /\ 1 .. n \subseteq 1 .. n + d
      BY <1>4
    <3>2. \A i \in 1 .. n : F[n + (d + 1)][i] = F[n + d][i]
      BY <1>3, <3>1
    <3>3. \A i \in 1 .. n : F[n + d][i] = F[n][i]
      BY <2>2
    <3> QED BY <3>2, <3>3
  <2>3. N - n \in S
    <3>1. N - n \in Nat
      BY <1>4
    <3> HIDE DEF S
    <3>2. 0 .. N - n \subseteq S
      BY <2>1, <2>2, <3>1, Climb
    <3> QED BY <3>1, <3>2
  <2> QED BY <2>3
<1> QED BY <1>4

\* The candles that are added at the end leave the groups of the others alone.
LEMMA FirstsKept ==
  ASSUME NEW p, NEW q, Len(p) \in Nat, Len(q) \in Nat, Len(p) <= Len(q),
         \A i \in 1 .. Len(p) : q[i] = p[i]
  PROVE  \A i \in 1 .. Len(p) : FirstOfGroup(q)[i] = FirstOfGroup(p)[i]
<1> DEFINE N == Len(p)
           M == Len(q)
           F == CHOOSE G : AreFirsts(p, N, G)
           H == CHOOSE G : AreFirsts(q, M, G)
<1>1. AreFirsts(p, N, F) /\ AreFirsts(q, M, H)
  BY FirstsExist
<1>2. FirstOfGroup(p) = F[N] /\ FirstOfGroup(q) = H[M]
  BY FirstsAre
<1> HIDE DEF F, H
<1> DEFINE S == {n \in 0 .. N : H[n] = F[n]}
<1>3. 0 \in S
  BY <1>1 DEF AreFirsts, Grouped
<1>4. ASSUME NEW n \in 0 .. N - 1, n \in S
      PROVE  n + 1 \in S
  <2>1. n + 1 \in 1 .. N /\ n + 1 \in 0 .. N /\ n + 1 \in 0 .. M /\ (n + 1) - 1 = n /\ n + 1 # 0
    OBVIOUS
  <2>2. /\ F[n + 1] = Append(F[n], Joined(p, F[n], n + 1))
        /\ H[n + 1] = Append(H[n], Joined(q, H[n], n + 1))
    BY <1>1, <2>1 DEF AreFirsts, Grouped
  <2>3. H[n] = F[n]
    BY <1>4
  <2>4. Joined(q, F[n], n + 1) = Joined(p, F[n], n + 1)
    <3>1. \A j \in 1 .. (n + 1) - 1 : q[j] = p[j] /\ q[n + 1] = p[n + 1]
      BY <2>1
    <3>2. {j \in 1 .. (n + 1) - 1 : F[n][j] = j /\ Near(q[n + 1], q[j])}
            = {j \in 1 .. (n + 1) - 1 : F[n][j] = j /\ Near(p[n + 1], p[j])}
      BY <3>1
    <3> QED BY <3>2 DEF Joined
  <2> QED BY <2>1, <2>2, <2>3, <2>4
<1>5. N \in S
  <2> HIDE DEF S
  <2>1. 0 .. N \subseteq S
    BY <1>3, <1>4, Climb
  <2> QED BY <2>1
<1>6. \A i \in 1 .. N : H[M][i] = H[N][i]
  <2>1. N \in 0 .. M /\ M \in Nat
    OBVIOUS
  <2> QED BY <1>1, <2>1, FirstsGrow
<1> QED BY <1>2, <1>5, <1>6

\* Candles added at the end may touch a pool again, and they complete new pools:
\* of the candles before them no other is a pool.
LEMMA PoolsKept ==
  ASSUME NEW p \in Seq(Nat), NEW q \in Seq(Nat), Len(p) <= Len(q),
         \A i \in 1 .. Len(p) : q[i] = p[i]
  PROVE  /\ \A g \in Pools(p) : \E h \in Pools(q) : g = h \cap (1 .. Len(p))
         /\ \A h \in Pools(q) : h \subseteq 1 .. Len(p) => h \in Pools(p)
<1> DEFINE F == FirstOfGroup(p)
           H == FirstOfGroup(q)
           N == Len(p)
           M == Len(q)
           InF(f) == {i \in 1 .. N : F[i] = f}
           InH(f) == {i \in 1 .. M : H[i] = f}
<1>1. N \in Nat /\ M \in Nat /\ N <= M /\ DOMAIN p = 1 .. N /\ DOMAIN q = 1 .. M
      /\ 1 .. N \subseteq 1 .. M
  BY LenProperties
<1>2. \A i \in 1 .. N : H[i] = F[i]
  BY <1>1, FirstsKept
<1>3. /\ Pools(p) = {g \in {InF(F[i]) : i \in 1 .. N} : Cardinality(g) >= 2}
      /\ Pools(q) = {h \in {InH(H[i]) : i \in 1 .. M} : Cardinality(h) >= 2}
  BY <1>1 DEF Pools, MinTouches
<1>4. \A f : InF(f) = InH(f) \cap (1 .. N)
  BY <1>1, <1>2
<1>5. \A f : Cardinality(InF(f)) \in Nat /\ Cardinality(InH(f)) \in Nat
             /\ Cardinality(InF(f)) <= Cardinality(InH(f))
  <2> TAKE f
  <2>1. IsFiniteSet(1 .. M)
    <3>1. 1 \in Int /\ M \in Int
      BY <1>1
    <3> HIDE DEF M
    <3> QED BY <3>1, FS_Interval
  <2>2. InH(f) \subseteq 1 .. M
    OBVIOUS
  <2>3. InF(f) \subseteq InH(f)
    BY <1>4
  <2> HIDE DEF InF, InH
  <2>4. IsFiniteSet(InH(f))
    BY <2>1, <2>2, FS_Subset
  <2> QED BY <2>3, <2>4, FS_Subset, FS_CardinalityType
<1> HIDE DEF F, H
<1>6. ASSUME NEW g \in Pools(p)
      PROVE  \E h \in Pools(q) : g = h \cap (1 .. N)
  <2>1. PICK k \in 1 .. N : g = InF(F[k])
    BY <1>3, <1>6
  <2>2. k \in 1 .. M /\ H[k] = F[k]
    BY <1>1, <1>2
  <2> HIDE DEF InF, InH
  <2>3. Cardinality(InH(H[k])) >= 2
    BY <1>3, <1>5, <2>1, <2>2
  <2>4. InH(H[k]) \in Pools(q)
    BY <1>3, <2>2, <2>3
  <2> QED BY <1>4, <2>1, <2>2, <2>4
<1>7. ASSUME NEW h \in Pools(q), h \subseteq 1 .. N
      PROVE  h \in Pools(p)
  <2>1. PICK k \in 1 .. M : h = InH(H[k])
    BY <1>3, <1>7
  <2>2. k \in h
    BY <2>1
  <2>3. k \in 1 .. N /\ H[k] = F[k] /\ Cardinality(h) >= 2
    BY <1>2, <1>3, <1>7, <2>2
  <2> HIDE DEF InF, InH
  <2>4. h = InF(F[k])
    BY <1>4, <1>7, <2>1, <2>3
  <2> QED BY <1>3, <2>3, <2>4
<1> QED BY <1>6, <1>7

\* A pool is of candles of the list, and ends with the last of them.
LEMMA PoolIsOf ==
  ASSUME NEW p \in Seq(Nat), NEW g \in Pools(p)
  PROVE  /\ g \subseteq 1 .. Len(p)
         /\ Max(g) \in g /\ \A x \in g : Max(g) >= x
<1>1. Len(p) \in Nat /\ DOMAIN p = 1 .. Len(p)
  BY LenProperties
<1> DEFINE F == FirstOfGroup(p)
<1> HIDE DEF F
<1>2. PICK i \in 1 .. Len(p) : g = {k \in 1 .. Len(p) : F[k] = F[i]}
  <2>1. g \in {{k \in DOMAIN p : F[k] = F[i]} : i \in DOMAIN p}
    BY DEF Pools, F
  <2> QED BY <1>1, <2>1
<1>3. g \subseteq 1 .. Len(p) /\ g # {}
  BY <1>2
<1> QED BY <1>1, <1>3, MaxIsLast

\* What is summed over the candles of a pool: the partial sums, one for each subset.
AreSums(p, S, iter) ==
  iter = [s \in SUBSET S |->
            IF s = {} THEN 0
            ELSE p[CHOOSE x \in s : TRUE] + iter[s \ {CHOOSE x \in s : TRUE}]]
SumOf(p, S) == (CHOOSE iter : AreSums(p, S, iter))[S]

LEMMA SumIs ==
  \A p, S : MapThenSumSet(LAMBDA i : p[i], S) = SumOf(p, S)
BY DEF MapThenSumSet, MapThenFoldSet, SumOf, AreSums

\* A sum depends on what is summed only.
LEMMA SumKept ==
  ASSUME NEW p, NEW q, NEW S, \A i \in S : q[i] = p[i]
  PROVE  SumOf(q, S) = SumOf(p, S)
<1>2. \A s \in SUBSET S : s # {} => q[CHOOSE x \in s : TRUE] = p[CHOOSE x \in s : TRUE]
  <2>1. \A s \in SUBSET S : s # {} => (CHOOSE x \in s : TRUE) \in S
    OBVIOUS
  <2> QED BY <2>1
<1>3. \A iter : AreSums(q, S, iter) <=> AreSums(p, S, iter)
  BY <1>2 DEF AreSums
<1> QED BY <1>3, Zenon DEF SumOf

LEMMA LevelKept ==
  ASSUME NEW p, NEW q, NEW g, \A i \in g : q[i] = p[i]
  PROVE  \A x : /\ BeyondLow(g, q, x) = BeyondLow(g, p, x)
                /\ BeyondHigh(g, q, x) = BeyondHigh(g, p, x)
<1>1. \A r, x : /\ BeyondLow(g, r, x) = (x * Cardinality(g) < SumOf(r, g))
                /\ BeyondHigh(g, r, x) = (x * Cardinality(g) > SumOf(r, g))
  BY SumIs DEF BeyondLow, BeyondHigh
<1>2. SumOf(q, g) = SumOf(p, g)
  BY SumKept
<1> QED BY <1>1, <1>2
-----------------------------------------------------------------------------
(* Sweeps. *)

\* The sweeps of each side, by the pool that is swept and the candle that sweeps it.
IsBullish(list, s) ==
  \E g \in Pools(LowsOf(list)) : \E i \in AfterPool(g, list) :
    /\ BeyondLow(g, LowsOf(list), list[i].low)
    /\ s = [direction |-> "BULLISH", at |-> i, pool |-> g,
            rejection |-> BeyondHigh(g, LowsOf(list), list[i].close)]

IsBearish(list, s) ==
  \E g \in Pools(HighsOf(list)) : \E i \in AfterPool(g, list) :
    /\ BeyondHigh(g, HighsOf(list), list[i].high)
    /\ s = [direction |-> "BEARISH", at |-> i, pool |-> g,
            rejection |-> BeyondLow(g, HighsOf(list), list[i].close)]

LEMMA SweepsAre ==
  ASSUME NEW list, NEW s
  PROVE  s \in Sweeps(list) <=> IsBullish(list, s) \/ IsBearish(list, s)
<1>1. s \in BullishSweeps(list) <=> IsBullish(list, s)
  BY DEF BullishSweeps, IsBullish
<1>2. s \in BearishSweeps(list) <=> IsBearish(list, s)
  BY DEF BearishSweeps, IsBearish
<1> QED BY <1>1, <1>2 DEF Sweeps

LEMMA SidesAre ==
  ASSUME NEW list \in Seq(Candles)
  PROVE  /\ LowsOf(list) \in Seq(Nat) /\ Len(LowsOf(list)) = Len(list)
         /\ HighsOf(list) \in Seq(Nat) /\ Len(HighsOf(list)) = Len(list)
         /\ \A i \in 1 .. Len(list) :
              LowsOf(list)[i] = list[i].low /\ HighsOf(list)[i] = list[i].high
<1>1. Len(list) \in Nat /\ DOMAIN list = 1 .. Len(list) /\ \A i \in 1 .. Len(list) : list[i] \in Candles
  BY LenProperties, ElementOfSeq
<1>2. \A i \in 1 .. Len(list) : list[i].low \in Nat /\ list[i].high \in Nat
  BY <1>1 DEF Candles
<1> QED BY <1>1, <1>2 DEF LowsOf, HighsOf

\* A sweep is by a candle of the list.
LEMMA SweepAt ==
  ASSUME NEW list \in Seq(Candles), NEW s \in Sweeps(list)
  PROVE  s.at \in 1 .. Len(list)
<1>1. /\ LowsOf(list) \in Seq(Nat) /\ HighsOf(list) \in Seq(Nat)
      /\ Len(LowsOf(list)) = Len(list) /\ Len(HighsOf(list)) = Len(list) /\ Len(list) \in Nat
  BY SidesAre, LenProperties
<1>2. \A g \in Pools(LowsOf(list)) \union Pools(HighsOf(list)) : Max(g) \in 1 .. Len(list)
  BY <1>1, PoolIsOf
<1>3. \A g \in Pools(LowsOf(list)) \union Pools(HighsOf(list)) :
        \A i \in AfterPool(g, list) : i \in 1 .. Len(list)
  BY <1>1, <1>2 DEF AfterPool
<1>4. IsBullish(list, s) \/ IsBearish(list, s)
  BY SweepsAre
<1> QED BY <1>3, <1>4 DEF IsBullish, IsBearish

\* Of the sweeps whose candle was there no new one is found, and one that is not
\* found again is of a pool that was touched again.
LEMMA SweepsKept ==
  ASSUME NEW old \in Seq(Candles), NEW new \in Seq(Candles), Len(old) <= Len(new),
         \A i \in 1 .. Len(old) : new[i] = old[i]
  PROVE  /\ \A s \in Sweeps(new) : s.at <= Len(old) => s \in Sweeps(old) /\ s.at \in 1 .. Len(old)
                                                      /\ s.pool \subseteq 1 .. Len(old)
         /\ \A s \in Sweeps(old) :
              /\ s.at \in 1 .. Len(old) /\ s.pool \subseteq 1 .. Len(old)
              /\ \/ s \in Sweeps(new)
                 \/ \E h \in Pools(LowsOf(new)) \union Pools(HighsOf(new)) :
                      s.pool \subseteq h /\ ~(h \subseteq 1 .. Len(old))
<1> DEFINE N == Len(old)
<1>1. N \in Nat /\ Len(new) \in Nat /\ N <= Len(new) /\ 1 .. N \subseteq 1 .. Len(new)
  BY LenProperties
<1>2. /\ \A i \in 1 .. N : LowsOf(new)[i] = LowsOf(old)[i] /\ HighsOf(new)[i] = HighsOf(old)[i]
      /\ LowsOf(new) \in Seq(Nat) /\ HighsOf(new) \in Seq(Nat)
      /\ LowsOf(old) \in Seq(Nat) /\ HighsOf(old) \in Seq(Nat)
      /\ Len(LowsOf(old)) = N /\ Len(HighsOf(old)) = N
      /\ Len(LowsOf(new)) = Len(new) /\ Len(HighsOf(new)) = Len(new)
  BY <1>1, SidesAre
<1>3. \A g \in Pools(LowsOf(old)) \union Pools(HighsOf(old)) :
        g \subseteq 1 .. N /\ Max(g) \in 1 .. N
  BY <1>2, PoolIsOf
<1>4. \A g \in Pools(LowsOf(new)) \union Pools(HighsOf(new)) :
        g \subseteq 1 .. Len(new) /\ Max(g) \in 1 .. Len(new) /\ \A x \in g : x <= Max(g)
  BY <1>2, PoolIsOf
<1>5. ASSUME NEW g, g \subseteq 1 .. N
      PROVE  \A x : /\ BeyondLow(g, LowsOf(new), x) = BeyondLow(g, LowsOf(old), x)
                    /\ BeyondHigh(g, LowsOf(new), x) = BeyondHigh(g, LowsOf(old), x)
                    /\ BeyondLow(g, HighsOf(new), x) = BeyondLow(g, HighsOf(old), x)
                    /\ BeyondHigh(g, HighsOf(new), x) = BeyondHigh(g, HighsOf(old), x)
  <2>1. \A i \in g : LowsOf(new)[i] = LowsOf(old)[i] /\ HighsOf(new)[i] = HighsOf(old)[i]
    BY <1>2, <1>5
  <2>2. \A x : /\ BeyondLow(g, LowsOf(new), x) = BeyondLow(g, LowsOf(old), x)
               /\ BeyondHigh(g, LowsOf(new), x) = BeyondHigh(g, LowsOf(old), x)
    BY <2>1, LevelKept
  <2>3. \A x : /\ BeyondLow(g, HighsOf(new), x) = BeyondLow(g, HighsOf(old), x)
               /\ BeyondHigh(g, HighsOf(new), x) = BeyondHigh(g, HighsOf(old), x)
    BY <2>1, LevelKept
  <2> QED BY <2>2, <2>3
<1>6. /\ \A g \in Pools(LowsOf(old)) : \E h \in Pools(LowsOf(new)) : g = h \cap (1 .. N)
      /\ \A h \in Pools(LowsOf(new)) : h \subseteq 1 .. N => h \in Pools(LowsOf(old))
  <2> DEFINE p == LowsOf(old)
             q == LowsOf(new)
  <2>1. p \in Seq(Nat) /\ q \in Seq(Nat) /\ Len(p) = N /\ Len(p) <= Len(q)
        /\ \A i \in 1 .. Len(p) : q[i] = p[i]
    BY <1>1, <1>2
  <2> HIDE DEF p, q, N
  <2>2. /\ \A g \in Pools(p) : \E h \in Pools(q) : g = h \cap (1 .. Len(p))
        /\ \A h \in Pools(q) : h \subseteq 1 .. Len(p) => h \in Pools(p)
    BY <2>1, PoolsKept
  <2> QED BY <2>1, <2>2 DEF p, q
<1>7. /\ \A g \in Pools(HighsOf(old)) : \E h \in Pools(HighsOf(new)) : g = h \cap (1 .. N)
      /\ \A h \in Pools(HighsOf(new)) : h \subseteq 1 .. N => h \in Pools(HighsOf(old))
  <2> DEFINE p == HighsOf(old)
             q == HighsOf(new)
  <2>1. p \in Seq(Nat) /\ q \in Seq(Nat) /\ Len(p) = N /\ Len(p) <= Len(q)
        /\ \A i \in 1 .. Len(p) : q[i] = p[i]
    BY <1>1, <1>2
  <2> HIDE DEF p, q, N
  <2>2. /\ \A g \in Pools(p) : \E h \in Pools(q) : g = h \cap (1 .. Len(p))
        /\ \A h \in Pools(q) : h \subseteq 1 .. Len(p) => h \in Pools(p)
    BY <2>1, PoolsKept
  <2> QED BY <2>1, <2>2 DEF p, q
<1>8. ASSUME NEW s, IsBullish(new, s), s.at <= N
      PROVE  IsBullish(old, s) /\ s.at \in 1 .. N /\ s.pool \subseteq 1 .. N
  <2>0. PICK g \in Pools(LowsOf(new)) : \E i \in AfterPool(g, new) :
          /\ BeyondLow(g, LowsOf(new), new[i].low)
          /\ s = [direction |-> "BULLISH", at |-> i, pool |-> g,
                  rejection |-> BeyondHigh(g, LowsOf(new), new[i].close)]
    BY <1>8 DEF IsBullish
  <2>1. PICK i \in AfterPool(g, new) :
          /\ BeyondLow(g, LowsOf(new), new[i].low)
          /\ s = [direction |-> "BULLISH", at |-> i, pool |-> g,
                  rejection |-> BeyondHigh(g, LowsOf(new), new[i].close)]
    BY <2>0
  <2>2. s.at = i /\ s.pool = g
    BY <2>1
  <2>3. i \in 1 .. N /\ i \in AfterPool(g, old) /\ g \subseteq 1 .. N
    <3>1. Max(g) + 1 <= i /\ i <= N /\ Max(g) \in 1 .. Len(new) /\ i \in Int
      BY <1>1, <1>4, <1>8, <2>2 DEF AfterPool
    <3>2. \A x \in g : x \in 1 .. N
      BY <1>1, <1>4, <3>1
    <3> QED BY <1>1, <3>1, <3>2 DEF AfterPool
  <2>4. g \in Pools(LowsOf(old)) /\ new[i] = old[i]
    BY <1>6, <2>3
  <2>5. /\ BeyondLow(g, LowsOf(old), old[i].low)
        /\ s = [direction |-> "BULLISH", at |-> i, pool |-> g,
                rejection |-> BeyondHigh(g, LowsOf(old), old[i].close)]
    BY <1>5, <2>1, <2>3, <2>4
  <2> QED BY <2>2, <2>3, <2>4, <2>5 DEF IsBullish
<1>9. ASSUME NEW s, IsBearish(new, s), s.at <= N
      PROVE  IsBearish(old, s) /\ s.at \in 1 .. N /\ s.pool \subseteq 1 .. N
  <2>0. PICK g \in Pools(HighsOf(new)) : \E i \in AfterPool(g, new) :
          /\ BeyondHigh(g, HighsOf(new), new[i].high)
          /\ s = [direction |-> "BEARISH", at |-> i, pool |-> g,
                  rejection |-> BeyondLow(g, HighsOf(new), new[i].close)]
    BY <1>9 DEF IsBearish
  <2>1. PICK i \in AfterPool(g, new) :
          /\ BeyondHigh(g, HighsOf(new), new[i].high)
          /\ s = [direction |-> "BEARISH", at |-> i, pool |-> g,
                  rejection |-> BeyondLow(g, HighsOf(new), new[i].close)]
    BY <2>0
  <2>2. s.at = i /\ s.pool = g
    BY <2>1
  <2>3. i \in 1 .. N /\ i \in AfterPool(g, old) /\ g \subseteq 1 .. N
    <3>1. Max(g) + 1 <= i /\ i <= N /\ Max(g) \in 1 .. Len(new) /\ i \in Int
      BY <1>1, <1>4, <1>9, <2>2 DEF AfterPool
    <3>2. \A x \in g : x \in 1 .. N
      BY <1>1, <1>4, <3>1
    <3> QED BY <1>1, <3>1, <3>2 DEF AfterPool
  <2>4. g \in Pools(HighsOf(old)) /\ new[i] = old[i]
    BY <1>7, <2>3
  <2>5. /\ BeyondHigh(g, HighsOf(old), old[i].high)
        /\ s = [direction |-> "BEARISH", at |-> i, pool |-> g,
                rejection |-> BeyondLow(g, HighsOf(old), old[i].close)]
    BY <1>5, <2>1, <2>3, <2>4
  <2> QED BY <2>2, <2>3, <2>4, <2>5 DEF IsBearish
<1>10. ASSUME NEW s, IsBullish(old, s)
       PROVE  /\ s.at \in 1 .. N /\ s.pool \subseteq 1 .. N
              /\ \/ IsBullish(new, s)
                 \/ \E h \in Pools(LowsOf(new)) : s.pool \subseteq h /\ ~(h \subseteq 1 .. N)
  <2>0. PICK g \in Pools(LowsOf(old)) : \E i \in AfterPool(g, old) :
          /\ BeyondLow(g, LowsOf(old), old[i].low)
          /\ s = [direction |-> "BULLISH", at |-> i, pool |-> g,
                  rejection |-> BeyondHigh(g, LowsOf(old), old[i].close)]
    BY <1>10 DEF IsBullish
  <2>1. PICK i \in AfterPool(g, old) :
          /\ BeyondLow(g, LowsOf(old), old[i].low)
          /\ s = [direction |-> "BULLISH", at |-> i, pool |-> g,
                  rejection |-> BeyondHigh(g, LowsOf(old), old[i].close)]
    BY <2>0
  <2>2. s.at = i /\ s.pool = g
    BY <2>1
  <2>3. i \in 1 .. N /\ i \in AfterPool(g, new) /\ g \subseteq 1 .. N /\ new[i] = old[i]
    BY <1>1, <1>3 DEF AfterPool
  <2>4. PICK h \in Pools(LowsOf(new)) : g = h \cap (1 .. N)
    BY <1>6
  <2>5. CASE h \subseteq 1 .. N
    <3>1. g \in Pools(LowsOf(new))
      <4>1. g = h
        BY <2>4, <2>5
      <4> QED BY <2>4, <4>1
    <3> QED BY <1>5, <2>1, <2>2, <2>3, <3>1 DEF IsBullish
  <2> QED BY <2>2, <2>3, <2>4, <2>5
<1>11. ASSUME NEW s, IsBearish(old, s)
       PROVE  /\ s.at \in 1 .. N /\ s.pool \subseteq 1 .. N
              /\ \/ IsBearish(new, s)
                 \/ \E h \in Pools(HighsOf(new)) : s.pool \subseteq h /\ ~(h \subseteq 1 .. N)
  <2>0. PICK g \in Pools(HighsOf(old)) : \E i \in AfterPool(g, old) :
          /\ BeyondHigh(g, HighsOf(old), old[i].high)
          /\ s = [direction |-> "BEARISH", at |-> i, pool |-> g,
                  rejection |-> BeyondLow(g, HighsOf(old), old[i].close)]
    BY <1>11 DEF IsBearish
  <2>1. PICK i \in AfterPool(g, old) :
          /\ BeyondHigh(g, HighsOf(old), old[i].high)
          /\ s = [direction |-> "BEARISH", at |-> i, pool |-> g,
                  rejection |-> BeyondLow(g, HighsOf(old), old[i].close)]
    BY <2>0
  <2>2. s.at = i /\ s.pool = g
    BY <2>1
  <2>3. i \in 1 .. N /\ i \in AfterPool(g, new) /\ g \subseteq 1 .. N /\ new[i] = old[i]
    BY <1>1, <1>3 DEF AfterPool
  <2>4. PICK h \in Pools(HighsOf(new)) : g = h \cap (1 .. N)
    BY <1>7
  <2>5. CASE h \subseteq 1 .. N
    <3>1. g \in Pools(HighsOf(new))
      <4>1. g = h
        BY <2>4, <2>5
      <4> QED BY <2>4, <4>1
    <3> QED BY <1>5, <2>1, <2>2, <2>3, <3>1 DEF IsBearish
  <2> QED BY <2>2, <2>3, <2>4, <2>5
<1>12. \A list, s : s \in Sweeps(list) <=> IsBullish(list, s) \/ IsBearish(list, s)
  BY SweepsAre
<1> QED BY <1>8, <1>9, <1>10, <1>11, <1>12

\* What is told of a sweep changes only in that the next candle followed it.
LEMMA FactKept ==
  ASSUME NEW old \in Seq(Candles), NEW new \in Seq(Candles), Len(old) <= Len(new),
         \A i \in 1 .. Len(old) : new[i] = old[i],
         NEW s, s.at \in 1 .. Len(old), s.pool \subseteq 1 .. Len(old)
  PROVE  \/ Fact(new, s) = Fact(old, s)
         \/ /\ Fact(new, s) = [Fact(old, s) EXCEPT !.displaced = TRUE]
            /\ Fact(old, s).candle = Id(old[Len(old)])
<1>1. Len(old) \in Nat /\ Len(new) \in Nat
  BY LenProperties
<1>2. new[s.at] = old[s.at]
  OBVIOUS
<1>3. {Id(new[i]) : i \in s.pool} = {Id(old[i]) : i \in s.pool}
  BY DEF Id
<1> DEFINE pool == {Id(old[i]) : i \in s.pool}
<1>4. /\ Fact(new, s) = [direction |-> s.direction, rejection |-> s.rejection,
                         displaced |-> Displaced(new, s), candle |-> Id(old[s.at]), pool |-> pool]
      /\ Fact(old, s) = [direction |-> s.direction, rejection |-> s.rejection,
                         displaced |-> Displaced(old, s), candle |-> Id(old[s.at]), pool |-> pool]
  BY <1>2, <1>3 DEF Fact
<1> HIDE DEF pool
<1>5. Displaced(new, s) \in BOOLEAN /\ Displaced(old, s) \in BOOLEAN
  BY DEF Displaced
<1>6. CASE s.at < Len(old)
  <2>1. s.at + 1 \in 1 .. Len(old) /\ s.at < Len(new)
    BY <1>1, <1>6
  <2>2. new[s.at + 1] = old[s.at + 1]
    BY <2>1
  <2>3. Displaced(new, s) = Displaced(old, s)
    BY <1>2, <1>6, <2>1, <2>2 DEF Displaced
  <2> QED BY <1>4, <2>3
<1>7. CASE s.at = Len(old)
  <2>1. Displaced(old, s) = FALSE
    BY <1>1, <1>7 DEF Displaced
  <2>2. Fact(old, s).candle = Id(old[Len(old)])
    BY <1>4, <1>7
  <2>3. CASE Displaced(new, s) = FALSE
    BY <1>4, <2>1, <2>3
  <2>4. CASE Displaced(new, s) = TRUE
    <3> DEFINE T == [direction : {s.direction}, rejection : {s.rejection}, displaced : BOOLEAN,
                     candle : {Id(old[s.at])}, pool : {pool}]
               g == [Fact(old, s) EXCEPT !.displaced = TRUE]
    <3>1. Fact(old, s) \in T /\ Fact(new, s) \in T
      BY <1>4, <1>5
    <3>2. g \in T /\ g.displaced = TRUE
      BY <3>1
    <3>3. Fact(new, s).displaced = TRUE
      BY <1>4, <2>4
    <3> HIDE DEF g
    <3>4. Fact(new, s) = g
      BY <3>1, <3>2, <3>3
    <3> QED BY <2>2, <3>4 DEF g
  <2> QED BY <1>5, <2>3, <2>4
<1> QED BY <1>1, <1>6, <1>7

\* In every behaviour, while no candle leaves the list, no sweep of a candle that
\* was there is found later, and one is lost only when its level is touched again
\* (detect_pools and detect_sweeps of LiquidityEngine).
THEOREM SweepsAreKept == Spec => SweepsStand
<1>1. ASSUME TapeTypeOK, TapeTypeOK', LeftInFront(0)
      PROVE  /\ \A f \in Facts(seen') : f.candle \in Ids(seen) => \E e \in Facts(seen) : Follows(f, e)
             /\ \A e \in Facts(seen) : (\E f \in Facts(seen') : Follows(f, e)) \/ TouchedAgain(e)
  <2>1. /\ seen \in Seq(Candles) /\ seen' \in Seq(Candles)
        /\ Sorted(seen) /\ Sorted(seen')
    BY <1>1 DEF TapeTypeOK, IsList, Sorted
  <2>2. /\ Len(seen) \in Nat /\ Len(seen') \in Nat /\ Len(seen) <= Len(seen')
        /\ \A i \in 1 .. Len(seen) : seen'[i] = seen[i]
        /\ Shifted(seen, seen', 0)
    <3>1. Len(seen) \in Nat /\ Len(seen') \in Nat
      BY <2>1, LenProperties
    <3>2. Len(seen) - 0 = Len(seen)
      BY <3>1
    <3>3. Shifted(seen, seen', 0)
      BY <1>1 DEF LeftInFront, Shifted
    <3>4. Len(seen) <= Len(seen') /\ \A i \in 1 .. Len(seen) : seen'[i] = seen[i]
      BY <3>2, <3>3 DEF Shifted
    <3> QED BY <3>1, <3>3, <3>4
  <2>3. \A i \in 1 .. Len(seen') : i > Len(seen) => Id(seen'[i]) \notin Ids(seen)
    <3> SUFFICES ASSUME NEW i \in 1 .. Len(seen'), i > Len(seen) PROVE Id(seen'[i]) \notin Ids(seen)
      OBVIOUS
    <3>1. 0 \in 0 .. Len(seen) /\ i > Len(seen) - 0
      BY <2>2
    <3> QED BY <2>1, <2>2, <3>1, AddedAreNew
  <2>4. ASSUME NEW s, s.at \in 1 .. Len(seen), s.pool \subseteq 1 .. Len(seen)
        PROVE  Follows(Fact(seen', s), Fact(seen, s))
    BY <2>1, <2>2, <2>4, FactKept DEF Follows
  <2>5. ASSUME NEW f \in Facts(seen'), f.candle \in Ids(seen)
        PROVE  \E e \in Facts(seen) : Follows(f, e)
    <3>1. PICK s \in Sweeps(seen') : f = Fact(seen', s)
      BY <2>5 DEF Facts
    <3>2. s.at <= Len(seen)
      <4>1. f.candle = Id(seen'[s.at])
        BY <3>1 DEF Fact
      <4>2. s.at \in 1 .. Len(seen')
        BY <2>1, SweepAt
      <4> QED BY <2>2, <2>3, <2>5, <4>1, <4>2
    <3>3. s \in Sweeps(seen) /\ s.at \in 1 .. Len(seen) /\ s.pool \subseteq 1 .. Len(seen)
      BY <2>1, <2>2, <3>2, SweepsKept
    <3> QED BY <2>4, <3>1, <3>3 DEF Facts
  <2>6. ASSUME NEW e \in Facts(seen)
        PROVE  (\E f \in Facts(seen') : Follows(f, e)) \/ TouchedAgain(e)
    <3>1. PICK s \in Sweeps(seen) : e = Fact(seen, s)
      BY <2>6 DEF Facts
    <3>2. /\ s.at \in 1 .. Len(seen) /\ s.pool \subseteq 1 .. Len(seen)
          /\ \/ s \in Sweeps(seen')
             \/ \E h \in Pools(LowsOf(seen')) \union Pools(HighsOf(seen')) :
                  s.pool \subseteq h /\ ~(h \subseteq 1 .. Len(seen))
      BY <2>1, <2>2, SweepsKept
    <3>3. CASE s \in Sweeps(seen')
      BY <2>4, <3>1, <3>2, <3>3 DEF Facts
    <3>4. CASE \E h \in Pools(LowsOf(seen')) \union Pools(HighsOf(seen')) :
                 s.pool \subseteq h /\ ~(h \subseteq 1 .. Len(seen))
      <4>1. PICK h \in Pools(LowsOf(seen')) \union Pools(HighsOf(seen')) :
              s.pool \subseteq h /\ ~(h \subseteq 1 .. Len(seen))
        BY <3>4
      <4>2. h \subseteq 1 .. Len(seen')
        BY <2>1, SidesAre, PoolIsOf
      <4>3. PICK i \in h : i \in 1 .. Len(seen') /\ i > Len(seen)
        BY <2>2, <4>1, <4>2
      <4>4. Id(seen'[i]) \notin Ids(seen)
        BY <2>3, <4>3
      <4>5. e.pool = {Id(seen[k]) : k \in s.pool}
        BY <3>1 DEF Fact
      <4>6. e.pool \subseteq {Id(seen'[k]) : k \in h}
        BY <2>2, <3>2, <4>1, <4>5
      <4> QED BY <4>1, <4>4, <4>6 DEF TouchedAgain
    <3> QED BY <3>2, <3>3, <3>4
  <2> QED BY <2>5, <2>6
<1>2. TapeTypeOK /\ TapeTypeOK' /\ [TapeNext]_tapeVars
        => [LeftInFront(0)
              => LET old == Facts(seen)
                     new == Facts(seen')
                 IN /\ \A f \in new : f.candle \in Ids(seen) => \E e \in old : Follows(f, e)
                    /\ \A e \in old : (\E f \in new : Follows(f, e)) \/ TouchedAgain(e)]_seen
  BY <1>1
<1> QED BY <1>2, TypeCorrect, PTL DEF Spec, SweepsStand

-----------------------------------------------------------------------------
(* Upside down: structure. *)

\* The second list shows the candles of the first upside down.
UpsideDown(list, m, sum) ==
  /\ sum \in Int
  /\ Len(m) = Len(list) /\ DOMAIN m = 1 .. Len(list)
  /\ \A i \in 1 .. Len(list) :
       /\ m[i].high = sum - list[i].low /\ m[i].low = sum - list[i].high
       /\ m[i].close = sum - list[i].close

LEMMA CandlesAre ==
  ASSUME NEW list \in Seq(Candles)
  PROVE  /\ Len(list) \in Nat /\ DOMAIN list = 1 .. Len(list)
         /\ \A i \in 1 .. Len(list) :
              list[i].open \in Nat /\ list[i].high \in Nat /\ list[i].low \in Nat /\ list[i].close \in Nat
<1>1. Len(list) \in Nat /\ DOMAIN list = 1 .. Len(list) /\ \A i \in 1 .. Len(list) : list[i] \in Candles
  BY LenProperties, ElementOfSeq
<1> QED BY <1>1 DEF Candles

LEMMA MirrorIs ==
  ASSUME NEW list \in Seq(Candles), list # <<>>
  PROVE  UpsideDown(list, Mirror(list), 2 * list[1].open)
<1> DEFINE n == Len(list)
           sum == 2 * list[1].open
           Flip(c) == [c EXCEPT !.open = sum - @, !.high = sum - c.low, !.low = sum - c.high,
                                !.close = sum - @]
           Turned == {Flip(list[i]) : i \in 1 .. n}
<1>1. n \in Nat /\ n # 0 /\ DOMAIN list = 1 .. n /\ \A i \in 1 .. n : list[i] \in Candles
  BY LenProperties, ElementOfSeq, EmptySeq
<1>2. sum \in Int
  BY <1>1, CandlesAre
<1>3. Mirror(list) = [i \in 1 .. n |-> Flip(list[i])]
  BY <1>1 DEF Mirror
<1> HIDE DEF sum
<1>4. ASSUME NEW c \in Candles
      PROVE  /\ Flip(c).high = sum - c.low /\ Flip(c).low = sum - c.high
             /\ Flip(c).close = sum - c.close
  <2> DEFINE fields == {"open", "high", "low", "close", "start", "timeframe"}
             c1 == [c EXCEPT !.open = sum - @]
             c2 == [c1 EXCEPT !.high = sum - c.low]
             c3 == [c2 EXCEPT !.low = sum - c.high]
             c4 == [c3 EXCEPT !.close = sum - @]
  <2>1. DOMAIN c = fields
    BY DEF Candles
  <2>2. DOMAIN c1 = fields /\ c1.close = c.close
    BY <2>1
  <2> HIDE DEF c1
  <2>3. DOMAIN c2 = fields /\ c2.close = c.close /\ c2.high = sum - c.low
    BY <2>2
  <2> HIDE DEF c2
  <2>4. DOMAIN c3 = fields /\ c3.close = c.close /\ c3.high = sum - c.low /\ c3.low = sum - c.high
    BY <2>3
  <2> HIDE DEF c3
  <2>5. c4.close = sum - c.close /\ c4.high = sum - c.low /\ c4.low = sum - c.high
    BY <2>4
  <2> QED BY <2>5 DEF c1, c2, c3
<1> HIDE DEF Flip
<1>5. Mirror(list) \in Seq(Turned) /\ Len(Mirror(list)) = n
  BY <1>1, <1>3
<1>6. \A i \in 1 .. n : Mirror(list)[i] = Flip(list[i])
  BY <1>3
<1>7. DOMAIN Mirror(list) = 1 .. n
  BY <1>3
<1> HIDE DEF Turned
<1> QED BY <1>1, <1>2, <1>4, <1>5, <1>6, <1>7 DEF UpsideDown, sum

\* Upside down the highs that stand out are the lows that do.
LEMMA SwingsFlip ==
  ASSUME NEW list \in Seq(Candles), NEW m, NEW sum, UpsideDown(list, m, sum)
  PROVE  /\ HighSwings(m) = LowSwings(list) /\ LowSwings(m) = HighSwings(list)
         /\ HighSwings(list) \subseteq 1 .. Len(list) /\ LowSwings(list) \subseteq 1 .. Len(list)
<1> DEFINE n == Len(list)
<1>1. n \in Nat /\ SwingStrength \in Nat /\ DOMAIN list = 1 .. n /\ DOMAIN m = 1 .. n /\ sum \in Int
  BY CandlesAre, StrengthAssumption DEF UpsideDown
<1>2. Inner(m) = Inner(list) /\ Inner(list) \subseteq 1 .. n
  BY <1>1 DEF Inner, UpsideDown
<1>3. ASSUME NEW i \in 1 .. n, NEW j \in 1 .. n
      PROVE  /\ m[j].high < m[i].high <=> list[j].low > list[i].low
             /\ m[j].high <= m[i].high <=> list[j].low >= list[i].low
             /\ m[j].low > m[i].low <=> list[j].high < list[i].high
             /\ m[j].low >= m[i].low <=> list[j].high <= list[i].high
  <2>1. /\ list[i].high \in Nat /\ list[i].low \in Nat /\ list[j].high \in Nat /\ list[j].low \in Nat
    BY CandlesAre
  <2>2. /\ m[i].high = sum - list[i].low /\ m[i].low = sum - list[i].high
        /\ m[j].high = sum - list[j].low /\ m[j].low = sum - list[j].high
    BY DEF UpsideDown
  <2>3. \A a, b \in Nat : /\ sum - a < sum - b <=> a > b
                          /\ sum - a <= sum - b <=> a >= b
                          /\ sum - a > sum - b <=> a < b
                          /\ sum - a >= sum - b <=> a <= b
    BY <1>1
  <2> QED BY <2>1, <2>2, <2>3
<1>4. HighSwings(m) = LowSwings(list)
  BY <1>1, <1>2, <1>3 DEF HighSwings, LowSwings
<1>5. LowSwings(m) = HighSwings(list)
  BY <1>1, <1>2, <1>3 DEF HighSwings, LowSwings
<1>6. HighSwings(list) \subseteq Inner(list) /\ LowSwings(list) \subseteq Inner(list)
  BY DEF HighSwings, LowSwings
<1> QED BY <1>2, <1>4, <1>5, <1>6

LEMMA LastTwoAre ==
  ASSUME NEW n \in Nat, NEW S, S \subseteq 1 .. n, Cardinality(S) > 1
  PROVE  LastOf(S) \in S /\ PreviousOf(S) \in S
<1>1. 0 \in Nat /\ (\A i \in S : i + 0 \in S) /\ (\A i \in S : i - 0 >= 0 => i - 0 \in S)
      /\ \A i \in S : i >= 0
  OBVIOUS
<1> QED BY <1>1, LastTwoShift

\* Upside down a swing above the one before is a swing below it.
LEMMA SwingsCompareFlip ==
  ASSUME NEW list \in Seq(Candles), NEW m, NEW sum, UpsideDown(list, m, sum)
  PROVE  /\ HigherHigh(m) <=> LowerLow(list)
         /\ LowerHigh(m) <=> HigherLow(list)
         /\ HigherLow(m) <=> LowerHigh(list)
         /\ LowerLow(m) <=> HigherHigh(list)
         /\ ~(HigherHigh(list) /\ LowerHigh(list)) /\ ~(HigherLow(list) /\ LowerLow(list))
<1> DEFINE h == HighSwings(list)
           l == LowSwings(list)
<1>1. HighSwings(m) = l /\ LowSwings(m) = h /\ h \subseteq 1 .. Len(list) /\ l \subseteq 1 .. Len(list)
  BY SwingsFlip
<1>2. Len(list) \in Nat /\ sum \in Int
  BY CandlesAre DEF UpsideDown
<1> HIDE DEF h, l
<1>3. ASSUME Cardinality(h) > 1
      PROVE  /\ list[LastOf(h)].high \in Nat /\ list[PreviousOf(h)].high \in Nat
             /\ m[LastOf(h)].low = sum - list[LastOf(h)].high
             /\ m[PreviousOf(h)].low = sum - list[PreviousOf(h)].high
  <2>1. LastOf(h) \in 1 .. Len(list) /\ PreviousOf(h) \in 1 .. Len(list)
    BY <1>1, <1>2, <1>3, LastTwoAre
  <2> QED BY <2>1, CandlesAre DEF UpsideDown
<1>4. ASSUME Cardinality(l) > 1
      PROVE  /\ list[LastOf(l)].low \in Nat /\ list[PreviousOf(l)].low \in Nat
             /\ m[LastOf(l)].high = sum - list[LastOf(l)].low
             /\ m[PreviousOf(l)].high = sum - list[PreviousOf(l)].low
  <2>1. LastOf(l) \in 1 .. Len(list) /\ PreviousOf(l) \in 1 .. Len(list)
    BY <1>1, <1>2, <1>4, LastTwoAre
  <2> QED BY <2>1, CandlesAre DEF UpsideDown
<1>5. /\ HigherLow(m) <=> LowerHigh(list)
      /\ LowerLow(m) <=> HigherHigh(list)
      /\ ~(HigherHigh(list) /\ LowerHigh(list))
  BY <1>1, <1>2, <1>3 DEF HigherLow, LowerLow, HigherHigh, LowerHigh, h
<1>6. /\ HigherHigh(m) <=> LowerLow(list)
      /\ LowerHigh(m) <=> HigherLow(list)
      /\ ~(HigherLow(list) /\ LowerLow(list))
  BY <1>1, <1>2, <1>4 DEF HigherLow, LowerLow, HigherHigh, LowerHigh, l
<1> QED BY <1>5, <1>6

LEMMA BreaksFlip ==
  ASSUME NEW list \in Seq(Candles), NEW m, NEW sum, UpsideDown(list, m, sum)
  PROVE  (BreaksHigh(m) <=> BreaksLow(list)) /\ (BreaksLow(m) <=> BreaksHigh(list))
<1> DEFINE h == HighSwings(list)
           l == LowSwings(list)
           n == Len(list)
<1>1. HighSwings(m) = l /\ LowSwings(m) = h /\ h \subseteq 1 .. n /\ l \subseteq 1 .. n
  BY SwingsFlip
<1>2. n \in Nat /\ sum \in Int /\ Len(m) = n
  BY CandlesAre DEF UpsideDown
<1> HIDE DEF h, l, n
<1>3. ASSUME NEW S, S \subseteq 1 .. n, S # {}
      PROVE  /\ list[n].close \in Nat /\ list[LastOf(S)].high \in Nat /\ list[LastOf(S)].low \in Nat
             /\ m[n].close = sum - list[n].close
             /\ m[LastOf(S)].high = sum - list[LastOf(S)].low
             /\ m[LastOf(S)].low = sum - list[LastOf(S)].high
  <2>1. LastOf(S) \in 1 .. n
    BY <1>2, <1>3, MaxIsLast DEF LastOf
  <2>2. n \in 1 .. n
    BY <1>2, <2>1
  <2> QED BY <2>1, <2>2, CandlesAre DEF UpsideDown, n
<1>4. BreaksHigh(m) <=> BreaksLow(list)
  BY <1>1, <1>2, <1>3 DEF BreaksHigh, BreaksLow, l, n
<1>5. BreaksLow(m) <=> BreaksHigh(list)
  BY <1>1, <1>2, <1>3 DEF BreaksHigh, BreaksLow, h, n
<1> QED BY <1>4, <1>5

LEMMA StructureFlips ==
  ASSUME NEW list \in Seq(Candles), NEW m, NEW sum, UpsideDown(list, m, sum), ~BeyondBoth(list)
  PROVE  /\ StructureBias(m) = Opposite(StructureBias(list))
         /\ Strength(m) = Strength(list)
<1>1. /\ HigherHigh(m) <=> LowerLow(list)
      /\ LowerHigh(m) <=> HigherLow(list)
      /\ HigherLow(m) <=> LowerHigh(list)
      /\ LowerLow(m) <=> HigherHigh(list)
      /\ ~(HigherHigh(list) /\ LowerHigh(list)) /\ ~(HigherLow(list) /\ LowerLow(list))
  BY SwingsCompareFlip
<1>2. /\ BreaksHigh(m) <=> BreaksLow(list)
      /\ BreaksLow(m) <=> BreaksHigh(list)
      /\ ~(BreaksHigh(list) /\ BreaksLow(list))
  BY BreaksFlip DEF BeyondBoth
<1>3. Trend(m) = Opposite(Trend(list)) /\ Trend(list) \in {"BULLISH", "BEARISH", "RANGE"}
  BY <1>1 DEF Trend, Opposite
<1>4. Bos(m) = Opposite(Bos(list)) /\ Bos(list) \in {"BULLISH", "BEARISH", "NONE"}
  BY <1>2 DEF Bos, Opposite
<1>5. Choch(m) = Opposite(Choch(list)) /\ Choch(list) \in {"BULLISH", "BEARISH", "NONE"}
  BY <1>3, <1>4 DEF Choch, Opposite
<1>6. StructureBias(m) = Opposite(StructureBias(list))
  BY <1>3, <1>4 DEF StructureBias, Opposite
<1>7. Strength(m) = Strength(list)
  <2>1. (Bos(m) # "NONE" <=> Bos(list) # "NONE") /\ (Choch(m) # "NONE" <=> Choch(list) # "NONE")
    BY <1>4, <1>5 DEF Opposite
  <2>2. \A fact, points : points \in Nat => Weight(fact, points) \in Nat
    BY DEF Weight
  <2>3. /\ Weight(HigherHigh(m), 25) = Weight(LowerLow(list), 25)
        /\ Weight(HigherLow(m), 25) = Weight(LowerHigh(list), 25)
        /\ Weight(LowerHigh(m), 25) = Weight(HigherLow(list), 25)
        /\ Weight(LowerLow(m), 25) = Weight(HigherHigh(list), 25)
        /\ Weight(Bos(m) # "NONE", 15) = Weight(Bos(list) # "NONE", 15)
        /\ Weight(Choch(m) # "NONE", 10) = Weight(Choch(list) # "NONE", 10)
    BY <1>1, <2>1 DEF Weight
  <2> QED BY <2>2, <2>3 DEF Strength
<1> QED BY <1>6, <1>7

\* In every analysis the structure of the same candles upside down is the opposite
\* one, as strong (analyze of MarketStructureEngine).
THEOREM StructureHasNoSide == Spec => [](seen # <<>> => StructureAgrees)
<1>1. TapeTypeOK => (seen # <<>> => StructureAgrees)
  <2> SUFFICES ASSUME seen \in Seq(Candles), seen # <<>>
               PROVE  StructureAgrees
    BY DEF TapeTypeOK, IsList
  <2> QED BY MirrorIs, StructureFlips DEF StructureAgrees
<1> QED BY <1>1, TypeCorrect, PTL

-----------------------------------------------------------------------------
(* Upside down: pools. *)

\* Prices of which the same are near form the same groups.
LEMMA PoolsAgree ==
  ASSUME NEW p, NEW q, Len(p) \in Nat, Len(q) = Len(p),
         DOMAIN p = 1 .. Len(p), DOMAIN q = 1 .. Len(p),
         \A i, j \in 1 .. Len(p) : Near(q[i], q[j]) <=> Near(p[i], p[j])
  PROVE  Pools(q) = Pools(p)
<1> DEFINE N == Len(p)
<1>1. \A first : \A n \in 1 .. N : Joined(q, first, n) = Joined(p, first, n)
  <2> SUFFICES ASSUME NEW first, NEW n \in 1 .. N
               PROVE  Joined(q, first, n) = Joined(p, first, n)
    OBVIOUS
  <2>1. 1 .. n - 1 \subseteq 1 .. N
    OBVIOUS
  <2>2. {j \in 1 .. n - 1 : first[j] = j /\ Near(q[n], q[j])}
          = {j \in 1 .. n - 1 : first[j] = j /\ Near(p[n], p[j])}
    BY <2>1
  <2> QED BY <2>2 DEF Joined
<1>2. \A F : \A n \in 0 .. N : Grouped(q, F, n) = Grouped(p, F, n)
  <2>1. \A n \in 0 .. N : n # 0 => n \in 1 .. N
    OBVIOUS
  <2> QED BY <1>1, <2>1 DEF Grouped
<1>3. \A F : AreFirsts(q, N, F) <=> AreFirsts(p, N, F)
  BY <1>2 DEF AreFirsts
<1>4. (CHOOSE F : AreFirsts(q, N, F)) = (CHOOSE F : AreFirsts(p, N, F))
  BY <1>3, Zenon
<1>5. FirstOfGroup(q) = FirstOfGroup(p)
  BY <1>4, FirstsAre
<1> QED BY <1>5 DEF Pools

\* What holds of a set whenever it holds of the smaller ones holds of all.
LEMMA Descend ==
  ASSUME NEW S, IsFiniteSet(S), NEW Good,
         \A s \in SUBSET S : (\A t \in SUBSET s : t # s => t \in Good) => s \in Good
  PROVE  SUBSET S \subseteq Good
<1> DEFINE Bad == (SUBSET S) \ Good
<1> SUFFICES ASSUME Bad # {} PROVE FALSE
  OBVIOUS
<1>1. IsWellFoundedOn(StrictSubsetOrdering(S), FiniteSubsetsOf(S)) /\ Bad \subseteq FiniteSubsetsOf(S)
  BY FS_StrictSubsetOrderingWellFounded, FS_Subset DEF FiniteSubsetsOf
<1>2. PICK s \in Bad : \A t \in Bad : ~(<<t, s>> \in StrictSubsetOrdering(S))
  <2> HIDE DEF Bad
  <2> QED BY <1>1, WFMin
<1>3. ASSUME NEW t \in SUBSET s, t # s
      PROVE  t \in Good
  <2>1. t \in SUBSET S /\ <<t, s>> \in StrictSubsetOrdering(S)
    BY <1>3 DEF StrictSubsetOrdering
  <2> QED BY <1>2, <2>1
<1>4. s \in SUBSET S /\ s \notin Good
  OBVIOUS
<1> HIDE DEF Bad
<1> QED BY <1>3, <1>4

\* The one that is summed first.
One(s) == CHOOSE x \in s : TRUE

LEMMA SumsAre ==
  ASSUME NEW p, NEW S, NEW f, AreSums(p, S, f), NEW s \in SUBSET S
  PROVE  /\ s = {} => f[s] = 0
         /\ s # {} => One(s) \in s /\ f[s] = p[One(s)] + f[s \ {One(s)}]
<1>1. s # {} => One(s) \in s
  BY DEF One
<1> QED BY <1>1 DEF AreSums, One

\* The partial sums of the subsets do not depend on what they are subsets of.
LEMMA SumsAgree ==
  ASSUME NEW p, NEW S, NEW R, IsFiniteSet(R), R \subseteq S,
         NEW f, AreSums(p, S, f), NEW g, AreSums(p, R, g)
  PROVE  \A s \in SUBSET R : f[s] = g[s]
<1> DEFINE Good == {s \in SUBSET R : f[s] = g[s]}
<1>1. ASSUME NEW s \in SUBSET R, \A t \in SUBSET s : t # s => t \in Good
      PROVE  s \in Good
  <2>1. s \in SUBSET S
    OBVIOUS
  <2>2. CASE s = {}
    BY <2>1, <2>2, SumsAre
  <2>3. CASE s # {}
    <3> DEFINE x == One(s)
    <3>1. x \in s /\ f[s] = p[x] + f[s \ {x}] /\ g[s] = p[x] + g[s \ {x}]
      BY <2>1, <2>3, SumsAre
    <3> HIDE DEF x
    <3>2. s \ {x} \in SUBSET s /\ s \ {x} # s
      BY <3>1
    <3>3. f[s \ {x}] = g[s \ {x}]
      BY <1>1, <3>2
    <3> QED BY <3>1, <3>3
  <2> QED BY <2>2, <2>3
<1>2. SUBSET R \subseteq Good
  <2> HIDE DEF Good
  <2> QED BY <1>1, Descend
<1> QED BY <1>2

LEMMA SumsExist ==
  ASSUME NEW p, NEW S, IsFiniteSet(S)
  PROVE  \E f : AreSums(p, S, f)
<1> DEFINE Good == {s \in SUBSET S : \E f : AreSums(p, s, f)}
<1>1. ASSUME NEW s \in SUBSET S, \A t \in SUBSET s : t # s => t \in Good
      PROVE  s \in Good
  <2> DEFINE F == [t \in SUBSET s |-> IF t = {} THEN 0 ELSE p[One(t)] + SumOf(p, t \ {One(t)})]
  <2>1. ASSUME NEW t \in SUBSET s, t # {}
        PROVE  F[t \ {One(t)}] = SumOf(p, t \ {One(t)})
    <3> DEFINE u == t \ {One(t)}
               f == CHOOSE h : AreSums(p, u, h)
    <3>1. One(t) \in t
      BY <2>1 DEF One
    <3>2. u \in SUBSET s /\ u # s
      BY <3>1
    <3>3. AreSums(p, u, f) /\ SumOf(p, u) = f[u] /\ u \in SUBSET u
      BY <1>1, <3>2 DEF SumOf
    <3>4. CASE u = {}
      <4>1. f[u] = 0
        <5> HIDE DEF f, u
        <5> QED BY <3>3, <3>4, SumsAre
      <4>2. F[u] = 0
        BY <3>2, <3>4
      <4> QED BY <3>3, <4>1, <4>2
    <3>5. CASE u # {}
      <4> DEFINE v == u \ {One(u)}
                 g == CHOOSE h : AreSums(p, v, h)
      <4>1. One(u) \in u
        BY <3>5 DEF One
      <4>2. v \in SUBSET s /\ v # s /\ v \subseteq u
        BY <3>2, <4>1
      <4>3. AreSums(p, v, g) /\ SumOf(p, v) = g[v] /\ v \in SUBSET v
        BY <1>1, <4>2 DEF SumOf
      <4>4. IsFiniteSet(v)
        BY <4>2, FS_Subset
      <4>5. f[v] = g[v]
        <5> HIDE DEF f, g, u, v
        <5> QED BY <3>3, <4>2, <4>3, <4>4, SumsAgree
      <4>6. f[u] = p[One(u)] + f[v]
        <5> HIDE DEF f, u
        <5> QED BY <3>3, <3>5, SumsAre
      <4>7. F[u] = p[One(u)] + SumOf(p, v)
        BY <3>2, <3>5
      <4> QED BY <3>3, <4>3, <4>5, <4>6, <4>7
    <3> QED BY <3>4, <3>5
  <2>2. AreSums(p, s, F)
    <3>1. \A t \in SUBSET s : F[t] = IF t = {} THEN 0 ELSE p[One(t)] + SumOf(p, t \ {One(t)})
      OBVIOUS
    <3>2. F = [t \in SUBSET s |-> F[t]]
      OBVIOUS
    <3> HIDE DEF F
    <3>3. \A t \in SUBSET s : F[t] = IF t = {} THEN 0 ELSE p[One(t)] + F[t \ {One(t)}]
      BY <2>1, <3>1
    <3> QED BY <3>2, <3>3 DEF AreSums, One
  <2> QED BY <2>2
<1>2. SUBSET S \subseteq Good
  <2> HIDE DEF Good
  <2> QED BY <1>1, Descend
<1> QED BY <1>2

\* The sum of what is missing to k is what is missing to as many k.
LEMMA SumFlips ==
  ASSUME NEW p, NEW q, NEW k \in Int, NEW S, IsFiniteSet(S),
         \A i \in S : p[i] \in Int /\ q[i] = k - p[i]
  PROVE  /\ SumOf(p, S) \in Int /\ Cardinality(S) \in Nat
         /\ SumOf(q, S) = k * Cardinality(S) - SumOf(p, S)
<1> DEFINE f == CHOOSE h : AreSums(p, S, h)
           g == CHOOSE h : AreSums(q, S, h)
           Good == {s \in SUBSET S : f[s] \in Int /\ g[s] = k * Cardinality(s) - f[s]}
<1>1. AreSums(p, S, f) /\ AreSums(q, S, g)
  BY SumsExist
<1>2. SumOf(p, S) = f[S] /\ SumOf(q, S) = g[S]
  BY DEF SumOf
<1> HIDE DEF f, g
<1>3. ASSUME NEW s \in SUBSET S, \A t \in SUBSET s : t # s => t \in Good
      PROVE  s \in Good
  <2>1. CASE s = {}
    <3>1. f[s] = 0
      BY <1>1, <2>1, SumsAre
    <3>2. g[s] = 0
      BY <1>1, <2>1, SumsAre
    <3>3. Cardinality(s) = 0
      BY <2>1, FS_EmptySet
    <3> QED BY <3>1, <3>2, <3>3
  <2>2. CASE s # {}
    <3> DEFINE x == One(s)
               t == s \ {x}
    <3>1. x \in s /\ f[s] = p[x] + f[t] /\ g[s] = q[x] + g[t]
      BY <1>1, <2>2, SumsAre
    <3> HIDE DEF x
    <3>2. t \in SUBSET s /\ t # s
      BY <3>1
    <3>3. f[t] \in Int /\ g[t] = k * Cardinality(t) - f[t]
      BY <1>3, <3>2
    <3>4. IsFiniteSet(s) /\ IsFiniteSet(t)
      BY <3>2, FS_Subset
    <3>5. Cardinality(t) \in Nat /\ Cardinality(s) \in Nat /\ Cardinality(t) = Cardinality(s) - 1
      BY <3>1, <3>4, FS_RemoveElement, FS_CardinalityType
    <3>6. p[x] \in Int /\ q[x] = k - p[x]
      BY <3>1
    <3>7. \A c \in Int : k * (c - 1) = k * c - k
      OBVIOUS
    <3> HIDE DEF t
    <3>8. k * Cardinality(t) = k * Cardinality(s) - k
      BY <3>5, <3>7
    <3>9. k * Cardinality(s) \in Int
      BY <3>5
    <3>10. f[s] \in Int /\ g[s] = k * Cardinality(s) - f[s]
      <4> HIDE DEF Good
      <4> QED BY <3>1, <3>3, <3>6, <3>8, <3>9
    <3> QED BY <3>10
  <2> QED BY <2>1, <2>2
<1>4. SUBSET S \subseteq Good
  <2> HIDE DEF Good
  <2> QED BY <1>3, Descend
<1>5. S \in Good /\ Cardinality(S) \in Nat
  BY <1>4, FS_CardinalityType
<1> QED BY <1>2, <1>5

LEMMA LevelFlips ==
  ASSUME NEW p, NEW q, NEW k \in Int, NEW g, IsFiniteSet(g),
         \A i \in g : p[i] \in Int /\ q[i] = k - p[i]
  PROVE  \A x \in Int : /\ BeyondHigh(g, q, k - x) <=> BeyondLow(g, p, x)
                        /\ BeyondLow(g, q, k - x) <=> BeyondHigh(g, p, x)
<1> DEFINE c == Cardinality(g)
<1>1. \A r, x : /\ BeyondLow(g, r, x) = (x * c < SumOf(r, g))
                /\ BeyondHigh(g, r, x) = (x * c > SumOf(r, g))
  BY SumIs DEF BeyondLow, BeyondHigh
<1>2. SumOf(p, g) \in Int /\ c \in Nat /\ SumOf(q, g) = k * c - SumOf(p, g)
  BY SumFlips
<1> HIDE DEF c
<1>3. ASSUME NEW x \in Int
      PROVE  /\ (k - x) * c > SumOf(q, g) <=> x * c < SumOf(p, g)
             /\ (k - x) * c < SumOf(q, g) <=> x * c > SumOf(p, g)
  <2>1. (k - x) * c = k * c - x * c
    BY <1>2
  <2>2. k * c \in Int /\ x * c \in Int
    BY <1>2
  <2> QED BY <1>2, <2>1, <2>2
<1> QED BY <1>1, <1>3

-----------------------------------------------------------------------------
(* Upside down: liquidity. *)

\* The percentages of the engines say the same of these candles upside down.
PercentsAgree(list, m) ==
  /\ \A i, j \in 1 .. Len(list) :
       /\ Near(m[i].high, m[j].high) <=> Near(list[i].low, list[j].low)
       /\ Near(m[i].low, m[j].low) <=> Near(list[i].high, list[j].high)
  /\ \A i \in 1 .. Len(list) : i + 1 <= Len(list) =>
       /\ 1000 * m[i + 1].close > 1001 * m[i].close <=> 1000 * list[i + 1].close < 999 * list[i].close
       /\ 1000 * m[i + 1].close < 999 * m[i].close <=> 1000 * list[i + 1].close > 1001 * list[i].close

LEMMA PoolsFlip ==
  ASSUME NEW list \in Seq(Candles), NEW m, NEW sum, UpsideDown(list, m, sum), PercentsAgree(list, m)
  PROVE  /\ Pools(HighsOf(m)) = Pools(LowsOf(list))
         /\ Pools(LowsOf(m)) = Pools(HighsOf(list))
<1> DEFINE n == Len(list)
<1>1. n \in Nat /\ DOMAIN list = 1 .. n /\ DOMAIN m = 1 .. n /\ sum \in Int
  BY CandlesAre DEF UpsideDown
<1>2. \A i \in 1 .. n : m[i].high \in Int /\ m[i].low \in Int
  <2> SUFFICES ASSUME NEW i \in 1 .. n
               PROVE  m[i].high \in Int /\ m[i].low \in Int
    OBVIOUS
  <2>1. list[i].high \in Nat /\ list[i].low \in Nat
    BY CandlesAre
  <2>2. m[i].high = sum - list[i].low /\ m[i].low = sum - list[i].high
    BY DEF UpsideDown
  <2> QED BY <1>1, <2>1, <2>2
<1>3. /\ HighsOf(m) \in Seq(Int) /\ Len(HighsOf(m)) = n
      /\ LowsOf(m) \in Seq(Int) /\ Len(LowsOf(m)) = n
      /\ \A i \in 1 .. n : HighsOf(m)[i] = m[i].high /\ LowsOf(m)[i] = m[i].low
  BY <1>1, <1>2 DEF HighsOf, LowsOf
<1>4. /\ DOMAIN HighsOf(m) = 1 .. n /\ DOMAIN LowsOf(m) = 1 .. n
      /\ DOMAIN HighsOf(list) = 1 .. n /\ DOMAIN LowsOf(list) = 1 .. n
  BY <1>1 DEF HighsOf, LowsOf
<1>5. /\ Len(HighsOf(list)) = n /\ Len(LowsOf(list)) = n
      /\ \A i \in 1 .. n : HighsOf(list)[i] = list[i].high /\ LowsOf(list)[i] = list[i].low
  BY SidesAre
<1>6. \A i, j \in 1 .. n : /\ Near(m[i].high, m[j].high) <=> Near(list[i].low, list[j].low)
                           /\ Near(m[i].low, m[j].low) <=> Near(list[i].high, list[j].high)
  BY DEF PercentsAgree
<1> HIDE DEF n
<1>7. \A i, j \in 1 .. n : Near(HighsOf(m)[i], HighsOf(m)[j]) <=> Near(LowsOf(list)[i], LowsOf(list)[j])
  BY <1>3, <1>5, <1>6
<1>8. \A i, j \in 1 .. n : Near(LowsOf(m)[i], LowsOf(m)[j]) <=> Near(HighsOf(list)[i], HighsOf(list)[j])
  BY <1>3, <1>5, <1>6
<1>9. Pools(HighsOf(m)) = Pools(LowsOf(list))
  BY <1>1, <1>3, <1>4, <1>5, <1>7, PoolsAgree
<1>10. Pools(LowsOf(m)) = Pools(HighsOf(list))
  BY <1>1, <1>3, <1>4, <1>5, <1>8, PoolsAgree
<1> QED BY <1>9, <1>10

\* The same sweep of the other side.
Other(s) ==
  [direction |-> Opposite(s.direction), at |-> s.at, pool |-> s.pool, rejection |-> s.rejection]

LEMMA SweepsFlip ==
  ASSUME NEW list \in Seq(Candles), NEW m, NEW sum, UpsideDown(list, m, sum), PercentsAgree(list, m)
  PROVE  /\ \A s \in Sweeps(list) : s.direction \in {"BULLISH", "BEARISH"} /\ Other(s) \in Sweeps(m)
         /\ \A t \in Sweeps(m) : \E s \in Sweeps(list) : t = Other(s)
<1> DEFINE n == Len(list)
           lows == LowsOf(list)
           highs == HighsOf(list)
<1>1. /\ n \in Nat /\ sum \in Int /\ Len(m) = n
      /\ DOMAIN list = 1 .. n /\ DOMAIN m = 1 .. n
      /\ \A i \in 1 .. n :
           /\ list[i].low \in Nat /\ list[i].high \in Nat /\ list[i].close \in Nat
           /\ m[i].high = sum - list[i].low /\ m[i].low = sum - list[i].high
           /\ m[i].close = sum - list[i].close
  BY CandlesAre DEF UpsideDown
<1>2. /\ lows \in Seq(Nat) /\ highs \in Seq(Nat) /\ Len(lows) = n /\ Len(highs) = n
      /\ \A i \in 1 .. n : lows[i] = list[i].low /\ highs[i] = list[i].high
  BY SidesAre
<1>3. \A i \in 1 .. n : HighsOf(m)[i] = m[i].high /\ LowsOf(m)[i] = m[i].low
  BY <1>1 DEF HighsOf, LowsOf
<1> HIDE DEF n, lows, highs
<1>4. /\ Pools(HighsOf(m)) = Pools(lows) /\ Pools(LowsOf(m)) = Pools(highs)
  BY PoolsFlip DEF lows, highs
<1>5. \A g : AfterPool(g, m) = AfterPool(g, list)
  BY <1>1 DEF AfterPool, n
<1>6. \A g \in Pools(lows) \union Pools(highs) :
        /\ g \subseteq 1 .. n /\ IsFiniteSet(g)
        /\ \A i \in AfterPool(g, list) : i \in 1 .. n
  <2> SUFFICES ASSUME NEW g \in Pools(lows) \union Pools(highs)
               PROVE  /\ g \subseteq 1 .. n /\ IsFiniteSet(g)
                      /\ \A i \in AfterPool(g, list) : i \in 1 .. n
    OBVIOUS
  <2>1. g \subseteq 1 .. n /\ Max(g) \in g
    BY <1>2, PoolIsOf
  <2>2. IsFiniteSet(1 .. n)
    BY <1>1, FS_Interval
  <2>3. IsFiniteSet(g)
    BY <2>1, <2>2, FS_Subset
  <2>4. \A i \in AfterPool(g, list) : i \in 1 .. n
    BY <1>1, <2>1 DEF AfterPool, n
  <2> QED BY <2>1, <2>3, <2>4
<1>7. ASSUME NEW g \in Pools(lows), NEW i \in 1 .. n
      PROVE  /\ BeyondHigh(g, HighsOf(m), m[i].high) <=> BeyondLow(g, lows, list[i].low)
             /\ BeyondLow(g, HighsOf(m), m[i].close) <=> BeyondHigh(g, lows, list[i].close)
  <2>1. \A j \in g : lows[j] \in Int /\ HighsOf(m)[j] = sum - lows[j]
    <3>1. \A j \in 1 .. n : lows[j] \in Nat /\ HighsOf(m)[j] = sum - lows[j]
      BY <1>1, <1>2, <1>3
    <3> QED BY <1>6, <3>1
  <2>2. \A x \in Int : /\ BeyondHigh(g, HighsOf(m), sum - x) <=> BeyondLow(g, lows, x)
                       /\ BeyondLow(g, HighsOf(m), sum - x) <=> BeyondHigh(g, lows, x)
    BY <1>1, <1>6, <2>1, LevelFlips
  <2>3. list[i].low \in Int /\ list[i].close \in Int
    BY <1>1
  <2> QED BY <1>1, <2>2, <2>3
<1>8. ASSUME NEW g \in Pools(highs), NEW i \in 1 .. n
      PROVE  /\ BeyondLow(g, LowsOf(m), m[i].low) <=> BeyondHigh(g, highs, list[i].high)
             /\ BeyondHigh(g, LowsOf(m), m[i].close) <=> BeyondLow(g, highs, list[i].close)
  <2>1. \A j \in g : highs[j] \in Int /\ LowsOf(m)[j] = sum - highs[j]
    <3>1. \A j \in 1 .. n : highs[j] \in Nat /\ LowsOf(m)[j] = sum - highs[j]
      BY <1>1, <1>2, <1>3
    <3> QED BY <1>6, <3>1
  <2>2. \A x \in Int : /\ BeyondHigh(g, LowsOf(m), sum - x) <=> BeyondLow(g, highs, x)
                       /\ BeyondLow(g, LowsOf(m), sum - x) <=> BeyondHigh(g, highs, x)
    BY <1>1, <1>6, <2>1, LevelFlips
  <2>3. list[i].high \in Int /\ list[i].close \in Int
    BY <1>1
  <2> QED BY <1>1, <2>2, <2>3
<1>9. /\ Opposite("BULLISH") = "BEARISH" /\ Opposite("BEARISH") = "BULLISH"
  BY DEF Opposite
<1> DEFINE Bull(g, i) == [direction |-> "BULLISH", at |-> i, pool |-> g,
                          rejection |-> BeyondHigh(g, lows, list[i].close)]
           Bear(g, i) == [direction |-> "BEARISH", at |-> i, pool |-> g,
                          rejection |-> BeyondLow(g, highs, list[i].close)]
           BullOf(g, i) == /\ g \in Pools(lows) /\ i \in AfterPool(g, list)
                           /\ BeyondLow(g, lows, list[i].low)
           BearOf(g, i) == /\ g \in Pools(highs) /\ i \in AfterPool(g, list)
                           /\ BeyondHigh(g, highs, list[i].high)
<1>10. \A s : s \in Sweeps(list) <=> \/ \E g, i : BullOf(g, i) /\ s = Bull(g, i)
                                     \/ \E g, i : BearOf(g, i) /\ s = Bear(g, i)
  <2>1. \A s : IsBullish(list, s) <=> \E g, i : BullOf(g, i) /\ s = Bull(g, i)
    BY DEF IsBullish, lows
  <2>2. \A s : IsBearish(list, s) <=> \E g, i : BearOf(g, i) /\ s = Bear(g, i)
    BY DEF IsBearish, highs
  <2>3. \A s : s \in Sweeps(list) <=> IsBullish(list, s) \/ IsBearish(list, s)
    BY SweepsAre
  <2> QED BY <2>1, <2>2, <2>3
<1>11. \A g, i : BullOf(g, i) =>
         /\ BeyondHigh(g, HighsOf(m), m[i].high)
         /\ BeyondLow(g, HighsOf(m), m[i].close) = BeyondHigh(g, lows, list[i].close)
  <2>1. \A g, i : BullOf(g, i) => g \in Pools(lows) /\ i \in 1 .. n /\ BeyondLow(g, lows, list[i].low)
    BY <1>6
  <2>2. \A g, x : BeyondLow(g, HighsOf(m), x) \in BOOLEAN /\ BeyondHigh(g, lows, x) \in BOOLEAN
    BY DEF BeyondLow, BeyondHigh
  <2> QED BY <1>7, <2>1, <2>2
<1>12. \A g, i : BearOf(g, i) =>
         /\ BeyondLow(g, LowsOf(m), m[i].low)
         /\ BeyondHigh(g, LowsOf(m), m[i].close) = BeyondLow(g, highs, list[i].close)
  <2>1. \A g, i : BearOf(g, i) => g \in Pools(highs) /\ i \in 1 .. n /\ BeyondHigh(g, highs, list[i].high)
    BY <1>6
  <2>2. \A g, x : BeyondHigh(g, LowsOf(m), x) \in BOOLEAN /\ BeyondLow(g, highs, x) \in BOOLEAN
    BY DEF BeyondLow, BeyondHigh
  <2> QED BY <1>8, <2>1, <2>2
<1>13. \A t : t \in Sweeps(m) <=> \/ \E g, i : BullOf(g, i) /\ t = Other(Bull(g, i))
                                  \/ \E g, i : BearOf(g, i) /\ t = Other(Bear(g, i))
  <2>1. \A t : IsBearish(m, t) <=> \E g, i : BullOf(g, i) /\ t = Other(Bull(g, i))
    <3> SUFFICES ASSUME NEW t
                 PROVE  IsBearish(m, t) <=> \E g, i : BullOf(g, i) /\ t = Other(Bull(g, i))
      OBVIOUS
    <3>1. IsBearish(m, t) <=>
            \E g \in Pools(lows) : \E i \in AfterPool(g, list) :
              /\ BeyondHigh(g, HighsOf(m), m[i].high)
              /\ t = [direction |-> "BEARISH", at |-> i, pool |-> g,
                      rejection |-> BeyondLow(g, HighsOf(m), m[i].close)]
      BY <1>4, <1>5 DEF IsBearish
    <3>2. \A g \in Pools(lows) : \A i \in AfterPool(g, list) :
            BeyondHigh(g, HighsOf(m), m[i].high) <=> BullOf(g, i)
      BY <1>6, <1>7
    <3>3. \A g, i : BullOf(g, i) =>
            Other(Bull(g, i)) = [direction |-> "BEARISH", at |-> i, pool |-> g,
                                 rejection |-> BeyondLow(g, HighsOf(m), m[i].close)]
      BY <1>9, <1>11 DEF Other
    <3> HIDE DEF Bull
    <3> QED BY <3>1, <3>2, <3>3
  <2>2. \A t : IsBullish(m, t) <=> \E g, i : BearOf(g, i) /\ t = Other(Bear(g, i))
    <3> SUFFICES ASSUME NEW t
                 PROVE  IsBullish(m, t) <=> \E g, i : BearOf(g, i) /\ t = Other(Bear(g, i))
      OBVIOUS
    <3>1. IsBullish(m, t) <=>
            \E g \in Pools(highs) : \E i \in AfterPool(g, list) :
              /\ BeyondLow(g, LowsOf(m), m[i].low)
              /\ t = [direction |-> "BULLISH", at |-> i, pool |-> g,
                      rejection |-> BeyondHigh(g, LowsOf(m), m[i].close)]
      BY <1>4, <1>5 DEF IsBullish
    <3>2. \A g \in Pools(highs) : \A i \in AfterPool(g, list) :
            BeyondLow(g, LowsOf(m), m[i].low) <=> BearOf(g, i)
      BY <1>6, <1>8
    <3>3. \A g, i : BearOf(g, i) =>
            Other(Bear(g, i)) = [direction |-> "BULLISH", at |-> i, pool |-> g,
                                 rejection |-> BeyondHigh(g, LowsOf(m), m[i].close)]
      BY <1>9, <1>12 DEF Other
    <3> HIDE DEF Bear
    <3> QED BY <3>1, <3>2, <3>3
  <2>3. \A t : t \in Sweeps(m) <=> IsBullish(m, t) \/ IsBearish(m, t)
    BY SweepsAre
  <2> QED BY <2>1, <2>2, <2>3
<1>14. \A g, i : Bull(g, i).direction = "BULLISH" /\ Bear(g, i).direction = "BEARISH"
  OBVIOUS
<1> HIDE DEF Bull, Bear, BullOf, BearOf
<1> QED BY <1>10, <1>13, <1>14

\* Of sweeps that differ by candle, side or pool one is found last.
LEMMA LastExists ==
  ASSUME NEW n \in Nat, NEW R, R # {},
         \A s \in R : s.at \in 1 .. n /\ s.direction \in {"BULLISH", "BEARISH"} /\ Min(s.pool) \in 1 .. n,
         \A s, t \in R : s.at = t.at /\ s.direction = t.direction /\ Min(s.pool) = Min(t.pool) => s = t
  PROVE  LastFound(R) \in R /\ \A t \in R : t = LastFound(R) \/ FoundAfter(LastFound(R), t)
<1> DEFINE a == Max({s.at : s \in R})
           R1 == {s \in R : s.at = a}
           d == IF \E s \in R1 : s.direction = "BEARISH" THEN "BEARISH" ELSE "BULLISH"
           R2 == {s \in R1 : s.direction = d}
           b == Max({Min(s.pool) : s \in R2})
<1>1. a \in {s.at : s \in R} /\ \A x \in {s.at : s \in R} : a >= x
  <2>1. {s.at : s \in R} \subseteq 1 .. n /\ {s.at : s \in R} # {}
    OBVIOUS
  <2> QED BY <2>1, MaxIsLast
<1> HIDE DEF a
<1>2. R1 # {} /\ \A s \in R : s \notin R1 => a > s.at
  <2>1. \A s \in R : s.at \in Nat /\ a >= s.at
    BY <1>1
  <2>2. a \in Nat /\ R1 # {}
    BY <1>1
  <2>3. \A x \in Nat : a >= x /\ x # a => a > x
    BY <2>2
  <2>4. \A s \in R : s \notin R1 => s.at # a
    OBVIOUS
  <2> QED BY <2>1, <2>2, <2>3, <2>4
<1>3. R2 # {} /\ \A s \in R1 : s \notin R2 => d = "BEARISH" /\ s.direction = "BULLISH"
  BY <1>2
<1>4. b \in {Min(s.pool) : s \in R2} /\ \A x \in {Min(s.pool) : s \in R2} : b >= x
  <2>1. {Min(s.pool) : s \in R2} \subseteq 1 .. n /\ {Min(s.pool) : s \in R2} # {}
    BY <1>3
  <2> HIDE DEF R2
  <2> QED BY <2>1, MaxIsLast
<1> HIDE DEF b
<1>5. PICK l \in R2 : Min(l.pool) = b
  BY <1>4
<1>6. l \in R /\ l.at = a /\ l.direction = d
  BY <1>5
<1>7. ASSUME NEW t \in R
      PROVE  t = l \/ FoundAfter(l, t)
  <2>1. CASE t \notin R1
    BY <1>2, <1>6, <2>1 DEF FoundAfter
  <2>2. CASE t \in R1 /\ t \notin R2
    BY <1>3, <1>6, <2>2 DEF FoundAfter
  <2>3. CASE t \in R2
    <3>1. t.at = a /\ t.direction = d /\ b >= Min(t.pool) /\ Min(t.pool) \in 1 .. n /\ b \in 1 .. n
      BY <1>4, <1>5, <1>6, <2>3
    <3>2. CASE Min(t.pool) = b
      BY <1>5, <1>6, <3>1, <3>2
    <3>3. CASE Min(t.pool) # b
      BY <1>5, <1>6, <3>1, <3>3 DEF FoundAfter
    <3> QED BY <3>2, <3>3
  <2> QED BY <2>1, <2>2, <2>3
<1>8. \E s \in R : \A t \in R : t = s \/ FoundAfter(s, t)
  BY <1>6, <1>7
<1> HIDE DEF R1, R2, d
<1> QED BY <1>8 DEF LastFound

\* The pools of a list begin with different candles.
LEMMA PoolsBegin ==
  ASSUME NEW p \in Seq(Nat)
  PROVE  /\ \A g \in Pools(p) : Min(g) \in g /\ Min(g) \in 1 .. Len(p)
         /\ \A g, h \in Pools(p) : Min(g) = Min(h) => g = h
<1>1. Len(p) \in Nat /\ DOMAIN p = 1 .. Len(p)
  BY LenProperties
<1> DEFINE F == FirstOfGroup(p)
<1> HIDE DEF F
<1>2. \A g \in Pools(p) : \E f : g = {k \in 1 .. Len(p) : F[k] = f}
  <2>1. \A g \in Pools(p) : g \in {{k \in DOMAIN p : F[k] = F[i]} : i \in DOMAIN p}
    BY DEF Pools, F
  <2> QED BY <1>1, <2>1
<1>3. \A g \in Pools(p) : g \subseteq 1 .. Len(p) /\ g # {}
  BY PoolIsOf
<1>4. ASSUME NEW g \in Pools(p)
      PROVE  Min(g) \in g
  <2>1. g \in SUBSET Nat /\ g # {}
    BY <1>1, <1>3
  <2>2. \E x \in g : \A y \in g : ~(<<y, x>> \in OpToRel(<, Nat))
    BY <2>1, NatLessThanWellFounded, WFMin
  <2>3. \A x, y \in Nat : y < x => <<y, x>> \in OpToRel(<, Nat)
    BY DEF OpToRel
  <2>4. \E x \in g : \A y \in g : x <= y
    <3>1. \A x, y \in Nat : x <= y \/ y < x
      OBVIOUS
    <3> QED BY <2>1, <2>2, <2>3, <3>1, Zenon
  <2> QED BY <2>4 DEF Min
<1>5. ASSUME NEW g \in Pools(p), NEW h \in Pools(p), Min(g) = Min(h)
      PROVE  g = h
  <2>1. PICK e : g = {k \in 1 .. Len(p) : F[k] = e}
    BY <1>2
  <2>2. PICK f : h = {k \in 1 .. Len(p) : F[k] = f}
    BY <1>2
  <2>3. Min(g) \in g /\ Min(g) \in h
    BY <1>4, <1>5
  <2> QED BY <2>1, <2>2, <2>3
<1> QED BY <1>3, <1>4, <1>5

\* Rejections of a list, and of the list upside down.
LEMMA RejectionsFlip ==
  ASSUME NEW list \in Seq(Candles), NEW m, NEW sum, UpsideDown(list, m, sum), PercentsAgree(list, m)
  PROVE  /\ \A s \in Rejections(list) : Other(s) \in Rejections(m)
         /\ \A t \in Rejections(m) : \E s \in Rejections(list) : t = Other(s)
         /\ Rejections(list) # {} =>
              /\ LastFound(Rejections(list)) \in Rejections(list)
              /\ \A t \in Rejections(list) :
                   t = LastFound(Rejections(list)) \/ FoundAfter(LastFound(Rejections(list)), t)
              /\ LastFound(Rejections(m)) \in Rejections(m)
              /\ \A t \in Rejections(m) :
                   t = LastFound(Rejections(m)) \/ FoundAfter(LastFound(Rejections(m)), t)
<1> DEFINE R == Rejections(list)
           Q == Rejections(m)
           n == Len(list)
<1>1. /\ \A s \in Sweeps(list) : s.direction \in {"BULLISH", "BEARISH"} /\ Other(s) \in Sweeps(m)
      /\ \A t \in Sweeps(m) : \E s \in Sweeps(list) : t = Other(s)
  BY SweepsFlip
<1>2. \A s : /\ Other(s).rejection = s.rejection /\ Other(s).at = s.at /\ Other(s).pool = s.pool
             /\ Other(s).direction = Opposite(s.direction)
  BY DEF Other
<1>3. /\ \A s \in R : Other(s) \in Q
      /\ \A t \in Q : \E s \in R : t = Other(s)
  BY <1>1, <1>2 DEF Rejections
<1>4. LowsOf(list) \in Seq(Nat) /\ HighsOf(list) \in Seq(Nat)
      /\ Len(LowsOf(list)) = n /\ Len(HighsOf(list)) = n /\ n \in Nat
  BY SidesAre, LenProperties
<1>5. \A s \in R : s \in Sweeps(list) /\ (IsBullish(list, s) \/ IsBearish(list, s))
  BY SweepsAre DEF Rejections
<1>6. \A s \in R : /\ s.at \in 1 .. n /\ s.direction \in {"BULLISH", "BEARISH"}
                   /\ Min(s.pool) \in 1 .. n
  <2>1. \A s \in R : s.at \in 1 .. n /\ s.direction \in {"BULLISH", "BEARISH"}
    BY <1>1, <1>5, SweepAt
  <2>2. \A s \in R : s.pool \in Pools(LowsOf(list)) \union Pools(HighsOf(list))
    BY <1>5 DEF IsBullish, IsBearish
  <2> QED BY <1>4, <2>1, <2>2, PoolsBegin
<1>7. ASSUME NEW s \in R, NEW t \in R, s.at = t.at, s.direction = t.direction, Min(s.pool) = Min(t.pool)
      PROVE  s = t
  <2>1. CASE IsBullish(list, s)
    <3>1. IsBullish(list, t)
      BY <1>5, <1>7, <2>1 DEF IsBullish, IsBearish
    <3>2. s.pool \in Pools(LowsOf(list)) /\ t.pool \in Pools(LowsOf(list))
      BY <2>1, <3>1 DEF IsBullish
    <3>3. s.pool = t.pool
      BY <1>4, <1>7, <3>2, PoolsBegin
    <3> QED BY <1>7, <2>1, <3>1, <3>3 DEF IsBullish
  <2>2. CASE IsBearish(list, s)
    <3>1. IsBearish(list, t)
      BY <1>5, <1>7, <2>2 DEF IsBullish, IsBearish
    <3>2. s.pool \in Pools(HighsOf(list)) /\ t.pool \in Pools(HighsOf(list))
      BY <2>2, <3>1 DEF IsBearish
    <3>3. s.pool = t.pool
      BY <1>4, <1>7, <3>2, PoolsBegin
    <3> QED BY <1>7, <2>2, <3>1, <3>3 DEF IsBearish
  <2> QED BY <1>5, <2>1, <2>2
<1>8. /\ Opposite("BULLISH") = "BEARISH" /\ Opposite("BEARISH") = "BULLISH"
  BY DEF Opposite
<1> HIDE DEF R, Q, n
<1>9. \A t \in Q : t.at \in 1 .. n /\ t.direction \in {"BULLISH", "BEARISH"} /\ Min(t.pool) \in 1 .. n
  BY <1>2, <1>3, <1>6, <1>8
<1>10. ASSUME NEW s \in Q, NEW t \in Q, s.at = t.at, s.direction = t.direction, Min(s.pool) = Min(t.pool)
       PROVE  s = t
  <2>1. PICK u \in R : s = Other(u)
    BY <1>3
  <2>2. PICK v \in R : t = Other(v)
    BY <1>3
  <2>3. u.at = v.at /\ Min(u.pool) = Min(v.pool) /\ Opposite(u.direction) = Opposite(v.direction)
    BY <1>2, <1>10, <2>1, <2>2
  <2>4. u.direction = v.direction
    BY <1>6, <1>8, <2>3
  <2> QED BY <1>7, <2>1, <2>2, <2>3, <2>4
<1>11. ASSUME R # {}
       PROVE  /\ LastFound(R) \in R /\ \A t \in R : t = LastFound(R) \/ FoundAfter(LastFound(R), t)
              /\ LastFound(Q) \in Q /\ \A t \in Q : t = LastFound(Q) \/ FoundAfter(LastFound(Q), t)
  <2>1. n \in Nat /\ Q # {}
    BY <1>3, <1>4, <1>11
  <2>2. LastFound(R) \in R /\ \A t \in R : t = LastFound(R) \/ FoundAfter(LastFound(R), t)
    BY <1>6, <1>7, <1>11, <2>1, LastExists
  <2>3. LastFound(Q) \in Q /\ \A t \in Q : t = LastFound(Q) \/ FoundAfter(LastFound(Q), t)
    BY <1>9, <1>10, <2>1, LastExists
  <2> QED BY <2>2, <2>3
<1> QED BY <1>3, <1>11 DEF R, Q

LEMMA LiquidityFlips ==
  ASSUME NEW list \in Seq(Candles), NEW m, NEW sum, UpsideDown(list, m, sum), PercentsAgree(list, m),
         ~BothRejected(list)
  PROVE  /\ LiquidityBias(m) = Opposite(LiquidityBias(list))
         /\ LiquidityBias(list) # "WAIT" => LiquidityConfidence(m) = LiquidityConfidence(list)
<1> DEFINE R == Rejections(list)
           Q == Rejections(m)
           l == LastFound(R)
           k == LastFound(Q)
<1>1. /\ \A s \in R : Other(s) \in Q
      /\ \A t \in Q : \E s \in R : t = Other(s)
  BY RejectionsFlip
<1>2. CASE R = {}
  <2>1. Q = {}
    BY <1>1, <1>2
  <2> QED BY <1>2, <2>1 DEF LiquidityBias, Opposite
<1>3. CASE R # {}
  <2>1. /\ l \in R /\ \A t \in R : t = l \/ FoundAfter(l, t)
        /\ k \in Q /\ \A t \in Q : t = k \/ FoundAfter(k, t)
    BY <1>3, RejectionsFlip
  <2>2. Q # {} /\ LatestSweep(list) = l /\ LatestSweep(m) = k
    BY <1>3, <2>1 DEF LatestSweep
  <2> HIDE DEF l, k
  <2>3. \A s \in R : s \in Sweeps(list) /\ s.at \in 1 .. Len(list) /\ s.direction \in {"BULLISH", "BEARISH"}
    BY SweepAt, SweepsFlip DEF Rejections
  <2>4. PICK u \in R : k = Other(u)
    BY <1>1, <2>1
  <2>5. k.at = u.at /\ k.direction = Opposite(u.direction)
        /\ Other(l).at = l.at /\ Other(l) \in Q
    BY <1>1, <2>1, <2>4 DEF Other
  <2>6. Len(list) \in Nat /\ l.at \in 1 .. Len(list) /\ u.at \in 1 .. Len(list)
    BY <2>1, <2>3, <2>4, LenProperties
  <2>7. l.at >= u.at
    BY <2>1, <2>4, <2>6 DEF FoundAfter
  <2>8. u.at >= l.at
    BY <2>1, <2>5, <2>6 DEF FoundAfter
  <2>9. u.at = l.at
    BY <2>6, <2>7, <2>8
  <2>10. u.direction = l.direction
    BY <2>1, <2>4, <2>9 DEF BothRejected
  <2>11. k.at = l.at /\ k.direction = Opposite(l.direction)
    BY <2>5, <2>9, <2>10
  <2>12. LiquidityBias(m) = Opposite(LiquidityBias(list))
    BY <1>3, <2>2, <2>11 DEF LiquidityBias
  <2>13. Displaced(m, k) <=> Displaced(list, l)
    <3>1. Len(m) = Len(list)
      BY DEF UpsideDown
    <3>2. l.direction \in {"BULLISH", "BEARISH"}
      BY <2>1, <2>3
    <3>3. l.at < Len(list) =>
            LET i == l.at
            IN /\ 1000 * m[i + 1].close > 1001 * m[i].close
                    <=> 1000 * list[i + 1].close < 999 * list[i].close
               /\ 1000 * m[i + 1].close < 999 * m[i].close
                    <=> 1000 * list[i + 1].close > 1001 * list[i].close
      <4>1. \A i \in 1 .. Len(list) : i < Len(list) => i + 1 <= Len(list)
        BY <2>6
      <4> QED BY <2>6, <4>1 DEF PercentsAgree
    <3> QED BY <2>11, <3>1, <3>2, <3>3 DEF Displaced, Opposite
  <2>14. Sweeps(m) # {} /\ Sweeps(list) # {}
    BY <1>3, <2>2 DEF Rejections
  <2>15. LiquidityConfidence(m) = LiquidityConfidence(list)
    BY <1>3, <2>2, <2>13, <2>14 DEF LiquidityConfidence, Weight
  <2> QED BY <2>12, <2>15
<1> QED BY <1>2, <1>3

-----------------------------------------------------------------------------
(* Upside down: the theorem. *)

OfLevels == {c \in Candles : {c.open, c.high, c.low, c.close} \subseteq Levels}

\* Every candle shows prices the market had.
LevelsInv ==
  /\ clock > 0 => \A t \in Timeframes :
                    {bars[t].open, bars[t].high, bars[t].low, bars[t].close} \subseteq Levels
  /\ candles \in Seq(OfLevels)
  /\ seen \in Seq(OfLevels)

LEMMA LevelsStep ==
  ASSUME TapeTypeOK, LevelsInv, [TapeNext]_tapeVars
  PROVE  LevelsInv'
<1> USE DEF LevelsInv
<1>1. ASSUME NEW s \in Shapes, Minute(s)
      PROVE  LevelsInv'
  <2>1. {s.open, s.high, s.low, s.close} \subseteq Levels
    BY DEF Levels
  <2>2. clock \in Nat /\ clock' = clock + 1 /\ candles' = candles /\ seen' = seen
    BY <1>1 DEF Minute, TapeTypeOK
  <2>3. ASSUME NEW t \in Timeframes
        PROVE  {bars'[t].open, bars'[t].high, bars'[t].low, bars'[t].close} \subseteq Levels
    <3>1. bars'[t] = IF clock % t = 0 THEN s ELSE Longer(bars[t], s)
      BY <1>1 DEF Minute
    <3>2. CASE clock % t = 0
      BY <2>1, <3>1, <3>2
    <3>3. CASE clock % t # 0
      <4>1. clock # 0
        <5>1. t \in Nat \ {0}
          BY TapeAssumption
        <5> QED BY <3>3, <5>1
      <4>2. {bars[t].open, bars[t].high, bars[t].low, bars[t].close} \subseteq Levels
        BY <2>2, <4>1
      <4> QED BY <2>1, <3>1, <3>3, <4>2 DEF Longer
    <3> QED BY <3>2, <3>3
  <2> QED BY <2>2, <2>3
<1>2. ASSUME NEW t \in Timeframes, Confirm(t)
      PROVE  LevelsInv'
  <2>1. t \in due /\ t \in Nat \ {0} /\ t <= clock /\ clock \in Nat
    BY <1>2, TapeAssumption DEF Confirm, TapeTypeOK
  <2>2. clock > 0 /\ bars[t] \in Prices
        /\ {bars[t].open, bars[t].high, bars[t].low, bars[t].close} \subseteq Levels
    BY <2>1 DEF TapeTypeOK
  <2>3. Ended(t) \in OfLevels
    BY <2>1, <2>2 DEF Ended, OfLevels, Candles, Prices
  <2>4. PICK i \in 0 .. Len(candles) : candles' = Newest(Inserted(Ended(t), i))
    BY <1>2 DEF Confirm
  <2>5. Len(candles) \in Nat
    BY LenProperties
  <2>6. SubSeq(candles, 1, i) \in Seq(OfLevels) /\ SubSeq(candles, i + 1, Len(candles)) \in Seq(OfLevels)
    BY <2>4, <2>5, SubSeqProperties
  <2>7. Inserted(Ended(t), i) \in Seq(OfLevels)
    BY <2>3, <2>6, ConcatProperties DEF Inserted
  <2>8. \A list \in Seq(OfLevels) : Newest(list) \in Seq(OfLevels)
    BY TapeAssumption, SubSeqProperties, LenProperties DEF Newest
  <2>9. candles' \in Seq(OfLevels)
    BY <2>4, <2>7, <2>8
  <2> QED BY <1>2, <2>9 DEF Confirm
<1>3. ASSUME NEW t \in Timeframes, Form(t)
      PROVE  LevelsInv'
  BY <1>3 DEF Form
<1>4. ASSUME Quote
      PROVE  LevelsInv'
  BY <1>4 DEF Quote
<1>5. ASSUME Analyze
      PROVE  LevelsInv'
  <2>1. PICK n \in 0 .. Len(candles) : seen' = SubSeq(candles, 1, n)
    BY <1>5 DEF Analyze
  <2>2. Len(candles) \in Nat
    BY LenProperties
  <2>3. seen' \in Seq(OfLevels)
    BY <2>1, <2>2, SubSeqProperties
  <2> QED BY <1>5, <2>3 DEF Analyze
<1>6. ASSUME UNCHANGED tapeVars
      PROVE  LevelsInv'
  BY <1>6 DEF tapeVars
<1> QED BY <1>1, <1>2, <1>3, <1>4, <1>5, <1>6 DEF TapeNext

LEMMA LevelsKept == Spec => []LevelsInv
<1>1. TapeInit => LevelsInv
  BY EmptySeq DEF TapeInit, LevelsInv
<1> QED BY <1>1, LevelsStep, TypeCorrect, PTL DEF Spec

LEMMA MirrorAgrees ==
  ASSUME EvenScale, NEW list \in Seq(OfLevels), list # <<>>
  PROVE  PercentsAgree(list, Mirror(list))
<1> DEFINE n == Len(list)
           m == Mirror(list)
           o == list[1].open
<1>1. n \in Nat /\ n # 0 /\ \A i \in 1 .. n : list[i] \in OfLevels
  BY LenProperties, ElementOfSeq, EmptySeq
<1>2. /\ \A i \in 1 .. n : /\ list[i].high \in Levels /\ list[i].low \in Levels
                           /\ list[i].close \in Levels
      /\ o \in Levels
  BY <1>1 DEF OfLevels
<1>3. list \in Seq(Candles)
  BY DEF OfLevels
<1>4. \A i \in 1 .. n : /\ m[i].high = 2 * o - list[i].low /\ m[i].low = 2 * o - list[i].high
                        /\ m[i].close = 2 * o - list[i].close
  BY <1>3, MirrorIs DEF UpsideDown
<1> HIDE DEF m, o
<1>5. \A a, b \in Levels :
        /\ Near(2 * o - a, 2 * o - b) <=> Near(a, b)
        /\ 1000 * (2 * o - b) > 1001 * (2 * o - a) <=> 1000 * b < 999 * a
        /\ 1000 * (2 * o - b) < 999 * (2 * o - a) <=> 1000 * b > 1001 * a
  BY <1>2 DEF EvenScale
<1>6. \A i, j \in 1 .. n :
        /\ Near(m[i].high, m[j].high) <=> Near(list[i].low, list[j].low)
        /\ Near(m[i].low, m[j].low) <=> Near(list[i].high, list[j].high)
  BY <1>2, <1>4, <1>5
<1>7. ASSUME NEW i \in 1 .. n, i + 1 <= n
      PROVE  /\ 1000 * m[i + 1].close > 1001 * m[i].close
                  <=> 1000 * list[i + 1].close < 999 * list[i].close
             /\ 1000 * m[i + 1].close < 999 * m[i].close
                  <=> 1000 * list[i + 1].close > 1001 * list[i].close
  <2>1. i + 1 \in 1 .. n
    BY <1>1, <1>7
  <2>2. m[i].close = 2 * o - list[i].close /\ m[i + 1].close = 2 * o - list[i + 1].close
    BY <1>4, <2>1
  <2>3. list[i].close \in Levels /\ list[i + 1].close \in Levels
    BY <1>2, <2>1
  <2> QED BY <1>5, <2>2, <2>3
<1> QED BY <1>6, <1>7 DEF PercentsAgree, m

\* The prices of a market are even when they lie in a range in which what is near
\* is the same number of ticks everywhere, and so is what is far.
THEOREM NarrowScalesAreEven ==
  ASSUME NEW lo \in Nat, NEW hi \in Nat, NEW near \in Nat, NEW far \in Nat,
         Levels \subseteq lo .. hi,
         10000 * near <= 15 * (2 * lo - hi), 15 * (2 * hi - lo) < 10000 * (near + 1),
         1000 * far <= 2 * lo - hi, 2 * hi - lo < 1000 * (far + 1)
  PROVE  EvenScale
<1> DEFINE Wide == 2 * lo - hi .. 2 * hi - lo
<1>1. ASSUME NEW a \in Wide, NEW b \in Wide
      PROVE  /\ Near(a, b) <=> a - b <= near /\ b - a <= near
             /\ 1000 * b > 1001 * a <=> b - a > far
             /\ 1000 * b < 999 * a <=> a - b > far
  <2>1. Near(a, b) <=> a - b <= near /\ b - a <= near
    BY DEF Near, Distance, Larger
  <2>2. 1000 * b > 1001 * a <=> b - a > far
    OBVIOUS
  <2>3. 1000 * b < 999 * a <=> a - b > far
    OBVIOUS
  <2> QED BY <2>1, <2>2, <2>3
<1>2. ASSUME NEW a \in Levels, NEW b \in Levels, NEW k \in Levels
      PROVE  /\ Near(2 * k - a, 2 * k - b) <=> Near(a, b)
             /\ 1000 * (2 * k - b) > 1001 * (2 * k - a) <=> 1000 * b < 999 * a
             /\ 1000 * (2 * k - b) < 999 * (2 * k - a) <=> 1000 * b > 1001 * a
  <2> DEFINE c == 2 * k - a
             d == 2 * k - b
  <2>1. /\ a \in Wide /\ b \in Wide /\ c \in Wide /\ d \in Wide
        /\ c - d = b - a /\ d - c = a - b
    OBVIOUS
  <2> HIDE DEF c, d, Wide
  <2>2. /\ Near(c, d) <=> Near(a, b)
        /\ 1000 * d > 1001 * c <=> 1000 * b < 999 * a
        /\ 1000 * d < 999 * c <=> 1000 * b > 1001 * a
    BY <1>1, <2>1
  <2> QED BY <2>2 DEF c, d
<1> QED BY <1>2 DEF EvenScale

\* In a market whose percentages are the same upside down neither side is favoured
\* by the two halves of the engines (analyze of both engines).
THEOREM NoSideIsAhead == ASSUME EvenScale PROVE Spec => []NoSideIsFavoured
<1>1. TapeTypeOK /\ LevelsInv => NoSideIsFavoured
  <2> SUFFICES ASSUME seen \in Seq(Candles), seen \in Seq(OfLevels), seen # <<>>
               PROVE  StructureAgrees /\ LiquidityAgrees
    BY DEF TapeTypeOK, IsList, LevelsInv, NoSideIsFavoured
  <2>1. UpsideDown(seen, Mirror(seen), 2 * seen[1].open)
    BY MirrorIs
  <2>2. PercentsAgree(seen, Mirror(seen))
    BY EvenScale, MirrorAgrees
  <2>3. StructureAgrees
    BY <2>1, StructureFlips DEF StructureAgrees
  <2>4. LiquidityAgrees
    BY <2>1, <2>2, LiquidityFlips DEF LiquidityAgrees
  <2> QED BY <2>3, <2>4
<1> QED BY <1>1, LevelsKept, TypeCorrect, PTL
=============================================================================
