-------------------------- MODULE PublicFeedProofs --------------------------
(***************************************************************************)
(* Theorems about the public feed for every set of prices and quantities   *)
(* and any number of updates, losses, repetitions and reconnections.       *)
(***************************************************************************)
EXTENDS PublicFeed, TLAPS

-----------------------------------------------------------------------------
(* Books. *)

\* A delta turns the book before it into the book after it, a snapshot
\* turns any book into the one it shows.
LEMMA UpdatedIsPublished ==
  ASSUME StreamTypeOK, book \in AllBooks,
         NEW m \in Sent,
         m.type = "delta" => m.u > 1 /\ book = published[m.u - 1]
  PROVE  Updated(m) = published[m.u] /\ published[m.u] \in Books
PROOF
<1>1. m \in Messages /\ m.u \in 1 .. Len(published)
  BY DEF Sent, Messages
<1>2. published[m.u] \in Books
  BY <1>1 DEF StreamTypeOK
<1>3. published[m.u] \in [Levels -> Quantities]
  BY <1>2 DEF Books, AllBooks
<1>4. CASE m.type = "snapshot"
  <2>1. \A l \in Levels : l \notin LevelsOf(m) => published[m.u][l] = 0
    <3>1. SUFFICES ASSUME NEW l \in Levels, l \notin LevelsOf(m)
                   PROVE  published[m.u][l] = 0
      OBVIOUS
    <3>2. published[m.u][l] \in Nat
      BY <1>3, StreamAssumption
    <3>3. ~(published[m.u][l] > 0)
      BY <3>1, <1>4 DEF LevelsOf
    <3>4. QED
      BY <3>2, <3>3
  <2>2. QED
    BY <2>1, <1>2, <1>3, <1>4 DEF Updated
<1>5. CASE m.type = "delta"
  <2>1. \A l \in Levels : l \notin LevelsOf(m) => published[m.u][l] = book[l]
    BY <1>5 DEF LevelsOf
  <2>2. QED
    BY <2>1, <1>2, <1>3, <1>5 DEF Updated
<1>6. QED
  BY <1>1, <1>4, <1>5 DEF Messages

\* The corruption of a venue's book is crossed.
LEMMA CorruptedIsCrossed ==
  ASSUME NEW b \in Books
  PROVE  Corrupted(b) \in AllBooks /\ IsCrossed(Corrupted(b))
PROOF
<1>1. b \in [Levels -> Quantities] /\ TopPrice \in Prices
  BY StreamAssumption DEF Books, AllBooks
<1>2. Corrupted(b) \in [Levels -> Quantities]
  BY <1>1, StreamAssumption DEF Corrupted
<1>3. PICK q \in Prices : b[<<"ask", q>>] > 0
  BY DEF Books, Asks
<1>4. q \in Asks(Corrupted(b))
  <2>1. <<"ask", q>> \in Levels /\ <<"ask", q>> # <<"bid", TopPrice>>
    BY DEF Levels
  <2>2. Corrupted(b)[<<"ask", q>>] = b[<<"ask", q>>]
    BY <2>1, <1>1 DEF Corrupted
  <2>3. QED
    BY <2>2, <1>3 DEF Asks
<1>5. TopPrice \in Bids(Corrupted(b))
  <2>1. <<"bid", TopPrice>> \in Levels
    BY <1>1 DEF Levels
  <2>2. Corrupted(b)[<<"bid", TopPrice>>] = 1
    BY <2>1, <1>1 DEF Corrupted
  <2>3. QED
    BY <2>2, <1>1 DEF Bids
<1>6. TopPrice >= q
  BY <1>3, StreamAssumption
<1>7. QED
  BY <1>2, <1>4, <1>5, <1>6 DEF IsCrossed, AllBooks

-----------------------------------------------------------------------------
(* The inductive invariant. *)

\* A sequence that is kept is the newest shown, and a connection on which
\* nothing was applied yet is not behind what was shown before it.
SequenceInv ==
  /\ lastSequence > 0 => lastSequence = high
  /\ phase = "open" /\ lastSequence = 0 => subscribed >= high

Inv == TypeOK /\ UsableIsVenue /\ OneVerdict /\ SequenceInv

LEMMA InitInv == Init => Inv
PROOF
<1>1. SUFFICES ASSUME Init PROVE Inv
  OBVIOUS
<1>2. PICK b \in Books : published = <<b>>
  BY <1>1 DEF Init, StreamInit
<1>3. published \in Seq(Books) /\ Len(published) = 1
  BY <1>2
<1>4. EmptyBook \in AllBooks
  BY StreamAssumption DEF EmptyBook, AllBooks
<1>5. TypeOK
  <2>1. StreamTypeOK
    BY <1>1, <1>3, StreamAssumption DEF Init, StreamInit, StreamTypeOK
  <2>2. book \in AllBooks
    BY <1>1, <1>4 DEF Init
  <2>3. phase \in Phases /\ bookReady \in BOOLEAN /\ bookInvalid \in BOOLEAN
    BY <1>1, <1>3 DEF Init, Phases
  <2>4. lastSequence \in 0 .. Len(published) /\ high \in 0 .. Len(published)
    BY <1>1, <1>3 DEF Init
  <2>5. dataQuality \in Qualities
    BY <1>1, <1>3 DEF Init, Qualities
  <2>6. continuity \in Continuities
    BY <1>1, <1>3 DEF Init, Continuities, Interrupted
  <2>7. QED
    BY <2>1, <2>2, <2>3, <2>4, <2>5, <2>6 DEF TypeOK, FeedTypeOK
<1>6. UsableIsVenue /\ OneVerdict /\ SequenceInv
  BY <1>1, <1>3 DEF Init, StreamInit, UsableIsVenue, OneVerdict, Quality, Interrupted, SequenceInv
<1>7. QED
  BY <1>5, <1>6 DEF Inv

\* What an accepted message makes of the book.
LEMMA AcceptedBook ==
  ASSUME Inv, NEW m \in Sent, InSequence(m)
  PROVE  /\ m.u \in 1 .. Len(published)
         /\ Updated(m) = published[m.u]
         /\ published[m.u] \in Books
         /\ phase = "open" => high <= m.u
PROOF
<1>1. /\ m \in Messages
      /\ m.u \in 1 .. Len(published)
      /\ m.type = "snapshot" => m.u = subscribed
      /\ m.type = "delta" => m.u > subscribed
  BY DEF Sent, Messages
<1>2. /\ lastSequence \in Nat /\ high \in Nat /\ subscribed \in Nat
      /\ StreamTypeOK /\ book \in AllBooks
  BY DEF Inv, TypeOK, FeedTypeOK, StreamTypeOK
<1>3. ASSUME m.type = "delta"
      PROVE  lastSequence > 0 /\ m.u = lastSequence + 1 /\ book = published[lastSequence]
  BY <1>1, <1>2, <1>3
     DEF InSequence, Unfounded, Regressed, Skipped, Inv, UsableIsVenue
<1>4. m.type = "delta" => m.u > 1 /\ book = published[m.u - 1]
  BY <1>2, <1>3
<1>5. ASSUME phase = "open" PROVE high <= m.u
  BY <1>1, <1>2, <1>3, <1>5 DEF InSequence, Regressed, Inv, SequenceInv, Messages
<1>6. QED
  BY <1>1, <1>2, <1>4, <1>5, UpdatedIsPublished

LEMMA NextInv == Inv /\ [Next]_vars => Inv'
PROOF
<1>1. SUFFICES ASSUME Inv, [Next]_vars PROVE Inv'
  OBVIOUS
<1> USE DEF Inv, TypeOK, FeedTypeOK, StreamTypeOK, UsableIsVenue, OneVerdict, Quality, SequenceInv
<1>2. EmptyBook \in AllBooks
  BY StreamAssumption DEF EmptyBook, AllBooks
<1>3. CASE VenuePublishes
  <2>1. PICK b \in Books : published' = Append(published, b)
    BY <1>3 DEF VenuePublishes, Publish
  <2>2. /\ published' \in Seq(Books)
        /\ Len(published') = Len(published) + 1
        /\ \A n \in 1 .. Len(published) : published'[n] = published[n]
    BY <1>1, <2>1
  <2>3. Len(published') \in 1 .. MaxUpdates
    BY <1>1, <1>3, <2>2, StreamAssumption DEF VenuePublishes, Publish
  <2>4. QED
    BY <1>1, <1>3, <2>2, <2>3 DEF VenuePublishes, Publish, feedVars
<1>4. ASSUME NEW m \in Sent, OutOfOrder(m) PROVE Inv'
  BY <1>1, <1>4 DEF OutOfOrder, Invalid, Resync, Phases, Qualities, Continuities, Interrupted
<1>5. ASSUME NEW m \in Sent, SequenceGap(m) PROVE Inv'
  BY <1>1, <1>5 DEF SequenceGap, Invalid, Resync, Phases, Qualities, Continuities, Interrupted
<1>6. ASSUME NEW m \in Sent, Crossed(m) PROVE Inv'
  <2>1. Updated(m) \in Books
    BY <1>1, <1>6, AcceptedBook DEF Crossed
  <2>2. book' \in AllBooks
    BY <1>6, <2>1, CorruptedIsCrossed DEF Crossed
  <2>3. QED
    BY <1>1, <1>6, <2>2
       DEF Crossed, Invalid, Resync, Phases, Qualities, Continuities, Interrupted
<1>7. ASSUME NEW m \in Sent, Apply(m) PROVE Inv'
  <2>1. /\ m.u \in 1 .. Len(published)
        /\ Updated(m) = published[m.u]
        /\ published[m.u] \in Books
        /\ high <= m.u
    BY <1>1, <1>7, AcceptedBook DEF Apply
  <2>2. book' = published[m.u]
    BY <1>7, <2>1, CorruptedIsCrossed DEF Apply
  <2>3. book' \in AllBooks
    BY <2>1, <2>2 DEF Books
  <2>4. high' = m.u
    BY <1>1, <1>7, <2>1 DEF Apply
  <2>5. TypeOK'
    <3>1. StreamTypeOK'
      BY <1>1, <1>7 DEF Apply
    <3>2. phase' \in Phases /\ bookReady' \in BOOLEAN /\ bookInvalid' \in BOOLEAN
      BY <1>1, <1>7, <2>1, <2>4 DEF Apply, Phases
    <3>3. lastSequence' \in 0 .. Len(published') /\ high' \in 0 .. Len(published')
      BY <1>1, <1>7, <2>1, <2>4 DEF Apply
    <3>4. dataQuality' \in Qualities
      BY <1>1, <1>7, <2>1, <2>4 DEF Apply, Qualities
    <3>5. continuity' \in Continuities
      BY <1>1, <1>7, <2>1, <2>4 DEF Apply, Continuities, Interrupted
    <3>6. QED
      BY <2>3, <3>1, <3>2, <3>3, <3>4, <3>5
  <2>6. (UsableIsVenue /\ OneVerdict)'
    BY <1>1, <1>7, <2>1, <2>2 DEF Apply, Interrupted
  <2>7. SequenceInv'
    BY <1>1, <1>7, <2>1, <2>4 DEF Apply
  <2>8. QED
    BY <2>5, <2>6, <2>7
<1>8. CASE Unusable
  BY <1>1, <1>8 DEF Unusable, Invalid, Resync, Phases, Qualities, Continuities, Interrupted
<1>9. CASE LateTrade
  BY <1>1, <1>9 DEF LateTrade, Invalid, Resync, Phases, Qualities, Continuities, Interrupted
<1>10. CASE Start
  BY <1>1, <1>10 DEF Start, Phases, Interrupted
<1>11. CASE Connect
  <2>1. TypeOK'
    <3>1. StreamTypeOK'
      BY <1>1, <1>11 DEF Connect, ResetState, Subscribe
    <3>2. book' \in AllBooks
      BY <1>2, <1>11 DEF Connect, ResetState, Subscribe
    <3>3. phase' \in Phases /\ bookReady' \in BOOLEAN /\ bookInvalid' \in BOOLEAN
      BY <1>1, <1>11 DEF Connect, ResetState, Subscribe, Phases
    <3>4. lastSequence' \in 0 .. Len(published') /\ high' \in 0 .. Len(published')
      BY <1>1, <1>11 DEF Connect, ResetState, Subscribe
    <3>5. dataQuality' \in Qualities
      BY <1>1, <1>11 DEF Connect, ResetState, Subscribe, Qualities
    <3>6. continuity' \in Continuities
      BY <1>1, <1>11 DEF Connect, ResetState, Subscribe, Continuities, Interrupted
    <3>7. QED
      BY <3>1, <3>2, <3>3, <3>4, <3>5, <3>6
  <2>2. (UsableIsVenue /\ OneVerdict)'
    BY <1>1, <1>2, <1>11 DEF Connect, ResetState, Subscribe, Interrupted
  <2>3. SequenceInv'
    BY <1>1, <1>2, <1>11 DEF Connect, ResetState, Subscribe
  <2>4. QED
    BY <2>1, <2>2, <2>3
<1>12. CASE ConnectionLost
  <2>1. TypeOK'
    <3>1. StreamTypeOK'
      BY <1>1, <1>12 DEF ConnectionLost, MarkDisconnected, Disconnect
    <3>2. book' \in AllBooks
      BY <1>2, <1>12 DEF ConnectionLost, MarkDisconnected, Disconnect
    <3>3. phase' \in Phases /\ bookReady' \in BOOLEAN /\ bookInvalid' \in BOOLEAN
      BY <1>1, <1>12 DEF ConnectionLost, MarkDisconnected, Disconnect, Phases
    <3>4. lastSequence' \in 0 .. Len(published') /\ high' \in 0 .. Len(published')
      BY <1>1, <1>12 DEF ConnectionLost, MarkDisconnected, Disconnect
    <3>5. dataQuality' \in Qualities
      BY <1>1, <1>12 DEF ConnectionLost, MarkDisconnected, Disconnect, Qualities
    <3>6. continuity' \in Continuities
      BY <1>1, <1>12 DEF ConnectionLost, MarkDisconnected, Disconnect, Continuities, Interrupted
    <3>7. QED
      BY <3>1, <3>2, <3>3, <3>4, <3>5, <3>6
  <2>2. (UsableIsVenue /\ OneVerdict)'
    BY <1>1, <1>2, <1>12 DEF ConnectionLost, MarkDisconnected, Disconnect, Interrupted
  <2>3. SequenceInv'
    BY <1>1, <1>2, <1>12 DEF ConnectionLost, MarkDisconnected, Disconnect
  <2>4. QED
    BY <2>1, <2>2, <2>3
<1>13. CASE Closed
  <2>1. TypeOK'
    <3>1. StreamTypeOK'
      BY <1>1, <1>13 DEF Closed, MarkDisconnected, Disconnect
    <3>2. book' \in AllBooks
      BY <1>2, <1>13 DEF Closed, MarkDisconnected, Disconnect
    <3>3. phase' \in Phases /\ bookReady' \in BOOLEAN /\ bookInvalid' \in BOOLEAN
      BY <1>1, <1>13 DEF Closed, MarkDisconnected, Disconnect, Phases
    <3>4. lastSequence' \in 0 .. Len(published') /\ high' \in 0 .. Len(published')
      BY <1>1, <1>13 DEF Closed, MarkDisconnected, Disconnect
    <3>5. dataQuality' \in Qualities
      BY <1>1, <1>13 DEF Closed, MarkDisconnected, Disconnect, Qualities
    <3>6. continuity' \in Continuities
      BY <1>1, <1>13 DEF Closed, MarkDisconnected, Disconnect, Continuities, Interrupted
    <3>7. QED
      BY <3>1, <3>2, <3>3, <3>4, <3>5, <3>6
  <2>2. (UsableIsVenue /\ OneVerdict)'
    BY <1>1, <1>2, <1>13 DEF Closed, MarkDisconnected, Disconnect, Interrupted
  <2>3. SequenceInv'
    BY <1>1, <1>2, <1>13 DEF Closed, MarkDisconnected, Disconnect
  <2>4. QED
    BY <2>1, <2>2, <2>3
<1>14. CASE Wake
  BY <1>1, <1>14 DEF Wake, Phases, Interrupted
<1>15. CASE Stop
  BY <1>1, <1>15 DEF Stop, Disconnect, Phases, Interrupted
<1>16. CASE UNCHANGED vars
  BY <1>1, <1>16 DEF vars
<1>17. QED
  BY <1>1, <1>3, <1>4, <1>5, <1>6, <1>7, <1>8, <1>9, <1>10, <1>11, <1>12, <1>13, <1>14,
     <1>15, <1>16 DEF Next, Receive

\* Types, flags and sequences are inductive together.
THEOREM Inductive == Spec => []Inv
PROOF
  BY InitInv, NextInv, PTL DEF Spec

-----------------------------------------------------------------------------
(* Theorems. *)

\* Every variable of the feed stays in its range (BybitMarketData).
THEOREM TypeCorrect == Spec => []TypeOK
PROOF
<1>1. Inv => TypeOK
  BY DEF Inv
<1>2. QED
  BY <1>1, Inductive, PTL

\* A book that may be used is one the venue had (_apply_orderbook).
THEOREM UsableBooksAreReal == Spec => []UsableIsVenue
PROOF
<1>1. Inv => UsableIsVenue
  BY DEF Inv
<1>2. QED
  BY <1>1, Inductive, PTL

\* No reader is ever shown a book older than one shown before
\* (_apply_orderbook, _reset_state).
THEOREM NoStepBack == Spec => []NeverOlder
PROOF
<1>1. Inv => NeverOlder
  BY DEF Inv, UsableIsVenue, SequenceInv, NeverOlder
<1>2. QED
  BY <1>1, Inductive, PTL

\* The flags agree wherever they are written (BybitMarketData.quality).
THEOREM FlagsAgree == Spec => []OneVerdict
PROOF
<1>1. Inv => OneVerdict
  BY DEF Inv
<1>2. QED
  BY <1>1, Inductive, PTL


\* The first state of the feed is a first state of the replica.
LEMMA InitReplica == Init => Replica!Init
PROOF
  BY DEF Init, StreamInit, Replica!Init

\* The feed implements the replica step by step: whatever the connection
\* does, a reader sees nothing or a newer book (BybitPublicFeed.run).
THEOREM ReplicaImplemented == Spec => ImplementsReplica
PROOF
<1>1. Inv /\ [Next]_vars => [Replica!Next]_(Replica!replicaVars)
  <2>1. SUFFICES ASSUME Inv, [Next]_vars
                 PROVE  [Replica!Next]_(Replica!replicaVars)
    OBVIOUS
  <2>2. ASSUME bookReady' = FALSE, UNCHANGED <<published, high>>
        PROVE  Replica!Hide
    BY <2>2 DEF Replica!Hide
  <2>3. ASSUME UNCHANGED <<published, high, book, bookReady>>
        PROVE  UNCHANGED Replica!replicaVars
    BY <2>3 DEF Replica!replicaVars
  <2>4. CASE VenuePublishes
    BY <2>4 DEF VenuePublishes, Publish, feedVars, Replica!Next, Replica!Publish
  <2>5. ASSUME NEW m \in Sent, OutOfOrder(m) \/ SequenceGap(m) \/ Crossed(m)
        PROVE  Replica!Hide
    BY <2>2, <2>5 DEF OutOfOrder, SequenceGap, Crossed, Invalid
  <2>6. ASSUME NEW m \in Sent, Apply(m) PROVE Replica!Show
    <3>1. /\ m.u \in 1 .. Len(published)
          /\ Updated(m) = published[m.u]
          /\ published[m.u] \in Books
          /\ high <= m.u
      BY <2>1, <2>6, AcceptedBook DEF Apply
    <3>2. book' = published[m.u]
      BY <2>6, <3>1, CorruptedIsCrossed DEF Apply
    <3>3. high \in Nat
      BY <2>1 DEF Inv, TypeOK, FeedTypeOK, StreamTypeOK
    <3>4. high' = m.u
      BY <2>6, <3>1, <3>3 DEF Apply
    <3>5. bookReady' = TRUE /\ published' = published
      BY <2>6 DEF Apply
    <3>6. QED
      BY <3>1, <3>2, <3>4, <3>5 DEF Replica!Show
  <2>7. CASE Unusable \/ LateTrade
    BY <2>2, <2>7 DEF Unusable, LateTrade, Invalid, Replica!Next
  <2>8. CASE Connect
    BY <2>2, <2>8 DEF Connect, ResetState, Subscribe, Replica!Next
  <2>9. CASE ConnectionLost \/ Closed
    BY <2>2, <2>9 DEF ConnectionLost, Closed, MarkDisconnected, Disconnect, Replica!Next
  <2>10. CASE Start \/ Wake \/ Stop
    BY <2>3, <2>10 DEF Start, Wake, Stop, Disconnect
  <2>11. CASE UNCHANGED vars
    BY <2>3, <2>11 DEF vars
  <2>12. QED
    BY <2>1, <2>4, <2>5, <2>6, <2>7, <2>8, <2>9, <2>10, <2>11 DEF Next, Receive, Replica!Next
<1>2. QED
  BY Inductive, InitReplica, <1>1, PTL DEF Spec, ImplementsReplica, Replica!Spec
=============================================================================
