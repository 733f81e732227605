---------------------------- MODULE MarketStream ----------------------------
(***************************************************************************)
(* The venue's public order-book stream, as the feed uses it.  The venue   *)
(* numbers the books it has had; a connection gets a snapshot of the book  *)
(* at the time of its subscription and a delta for every later one.        *)
(*                                                                         *)
(* What a connection delivers is a choice among everything sent on it: a   *)
(* message that is never chosen is lost, one chosen twice is a duplicate,  *)
(* and the order of the choices is the order of arrival.                   *)
(***************************************************************************)
EXTENDS Naturals, Sequences

CONSTANTS
  Prices,       \* prices a level can have
  TopPrice,     \* the highest of them
  Quantities,   \* quantities a level can have; 0 is no level
  MaxUpdates    \* bound: how many books the venue publishes

ASSUME StreamAssumption ==
  /\ Prices \subseteq Nat
  /\ TopPrice \in Prices
  /\ \A p \in Prices : p <= TopPrice
  /\ {0, 1} \subseteq Quantities
  /\ Quantities \subseteq Nat
  /\ MaxUpdates \in Nat \ {0}

VARIABLES
  published,   \* the books the venue has had, oldest first
  subscribed   \* number of the book the connection's snapshot shows, or 0

streamVars == <<published, subscribed>>

Levels == {"bid", "ask"} \X Prices
AllBooks == [Levels -> Quantities]
Bids(book) == {p \in Prices : book[<<"bid", p>>] > 0}
Asks(book) == {p \in Prices : book[<<"ask", p>>] > 0}
IsCrossed(book) == \E p \in Bids(book), q \in Asks(book) : p >= q

\* A venue quotes both sides and never crosses them.
Books == {b \in AllBooks : Bids(b) # {} /\ Asks(b) # {} /\ ~IsCrossed(b)}

Messages == [type : {"snapshot", "delta"}, u : 1 .. MaxUpdates]

\* What is sent on the connection up to now.
Sent ==
  {m \in Messages :
     /\ subscribed > 0
     /\ m.u <= Len(published)
     /\ IF m.type = "snapshot" THEN m.u = subscribed ELSE m.u > subscribed}

\* A snapshot names every level of its book, a delta those that changed.
LevelsOf(m) ==
  IF m.type = "snapshot"
  THEN {l \in Levels : published[m.u][l] > 0}
  ELSE {l \in Levels : published[m.u][l] # published[m.u - 1][l]}

StreamTypeOK ==
  /\ published \in Seq(Books)
  /\ Len(published) \in 1 .. MaxUpdates
  /\ subscribed \in 0 .. Len(published)

StreamInit ==
  /\ \E b \in Books : published = <<b>>
  /\ subscribed = 0

Publish ==
  /\ Len(published) < MaxUpdates
  /\ \E b \in Books : published' = Append(published, b)
  /\ UNCHANGED subscribed

Subscribe == subscribed' = Len(published) /\ UNCHANGED published
Disconnect == subscribed' = 0 /\ UNCHANGED published
=============================================================================
