----------------------------- MODULE PublicFeed -----------------------------
(***************************************************************************)
(* BybitPublicFeed and the MarketDataManager that owns its task: a local   *)
(* order book kept from snapshots and deltas, the flags that say whether   *)
(* it may be used, and the loop that reconnects after a gap.  One action   *)
(* is what happens between two awaits of the loop.  The ages of the data   *)
(* and the other streams appear only in what they do to the book's flags.  *)
(***************************************************************************)
EXTENDS MarketStream

CONSTANT NoBook   \* what a reader sees when there is no usable book

VARIABLES
  phase,         \* where the task of the feed is suspended
  book,          \* quantity of each level, 0 when the level is absent
  lastSequence,  \* sequence of the last applied update, or 0 for None
  bookReady,     \* an update was applied since the last reset or error
  bookInvalid,   \* an error was seen since the last reset or update
  dataQuality,   \* the feed's own verdict
  continuity,    \* continuity_status
  high           \* history: the highest sequence ever shown as ready

feedVars ==
  <<phase, book, lastSequence, bookReady, bookInvalid, dataQuality, continuity, high>>
vars == <<published, subscribed, phase, book, lastSequence, bookReady,
          bookInvalid, dataQuality, continuity, high>>

Phases == {"stopped", "connecting", "open", "closing", "sleeping"}
Qualities == {"DATA_INCOMPLETE", "DATA_INVALID", "OK"}
Interrupted == {"DISCONNECTED", "RECONNECTING", "SEQUENCE_GAP", "OUT_OF_ORDER"}
Continuities == Interrupted \union {"DEGRADED", "HEALTHY"}
Resync == {"SEQUENCE_GAP", "OUT_OF_ORDER"}

FeedTypeOK ==
  /\ StreamTypeOK
  /\ phase \in Phases
  /\ book \in AllBooks
  /\ lastSequence \in 0 .. Len(published)
  /\ bookReady \in BOOLEAN
  /\ bookInvalid \in BOOLEAN
  /\ dataQuality \in Qualities
  /\ continuity \in Continuities
  /\ high \in 0 .. Len(published)

EmptyBook == [l \in Levels |-> 0]

Init ==
  /\ StreamInit
  /\ phase = "stopped"
  /\ book = EmptyBook
  /\ lastSequence = 0
  /\ bookReady = FALSE
  /\ bookInvalid = FALSE
  /\ dataQuality = "DATA_INCOMPLETE"
  /\ continuity = "RECONNECTING"
  /\ high = 0

-----------------------------------------------------------------------------
(* The book and its flags. *)

\* BybitMarketData.quality when every other stream is present and recent.
Quality ==
  CASE dataQuality = "DATA_INVALID" \/ bookInvalid -> "DATA_INVALID"
    [] continuity \in Interrupted \/ ~bookReady -> "DATA_INCOMPLETE"
    [] OTHER -> "DATA_VALID"

ResetState ==
  /\ book' = EmptyBook
  /\ lastSequence' = 0
  /\ bookReady' = FALSE
  /\ bookInvalid' = FALSE
  /\ dataQuality' = "DATA_INCOMPLETE"
  /\ continuity' = "RECONNECTING"
  /\ UNCHANGED high

\* Mutant: the status is written into the verdict.
MarkMixedUp ==
  /\ book' = EmptyBook
  /\ lastSequence' = 0
  /\ bookReady' = FALSE
  /\ bookInvalid' = TRUE
  /\ dataQuality' = "DISCONNECTED"
  /\ continuity' = "DISCONNECTED"
  /\ UNCHANGED high

MarkDisconnected ==
  /\ book' = EmptyBook
  /\ lastSequence' = 0
  /\ bookReady' = FALSE
  /\ bookInvalid' = TRUE
  /\ dataQuality' = "DATA_INCOMPLETE"
  /\ continuity' = "DISCONNECTED"
  /\ UNCHANGED high

\* Mutant: an error leaves the book ready.
InvalidButReady(verdict) ==
  /\ bookInvalid' = TRUE
  /\ dataQuality' = "DATA_INVALID"
  /\ continuity' = verdict
  /\ phase' = IF verdict \in Resync THEN "closing" ELSE "open"
  /\ UNCHANGED <<bookReady, lastSequence, high, published, subscribed>>

\* _invalid, and the check of the loop after the message that caused it
Invalid(verdict) ==
  /\ bookReady' = FALSE
  /\ bookInvalid' = TRUE
  /\ dataQuality' = "DATA_INVALID"
  /\ continuity' = verdict
  /\ phase' = IF verdict \in Resync THEN "closing" ELSE "open"
  /\ UNCHANGED <<lastSequence, high, published, subscribed>>

-----------------------------------------------------------------------------
(* A message is received: the checks of _apply_orderbook in their order. *)

\* Mutants: no check of regressions; one lost update tolerated; no snapshot
\* needed first; no message at all accepted before the book is ready.
NeverRegressed(m) == FALSE
SkippedTwo(m) == lastSequence > 0 /\ m.u > lastSequence + 2
NeverUnfounded(m) == FALSE
AlwaysUnfounded(m) == ~bookReady

Regressed(m) == lastSequence > 0 /\ m.u <= lastSequence
Skipped(m) == lastSequence > 0 /\ m.u > lastSequence + 1
Unfounded(m) == m.type = "delta" /\ ~bookReady
InSequence(m) == ~Regressed(m) /\ ~Skipped(m) /\ ~Unfounded(m)

OutOfOrder(m) ==
  /\ phase = "open" /\ Regressed(m)
  /\ Invalid("OUT_OF_ORDER")
  /\ UNCHANGED book

SequenceGap(m) ==
  /\ phase = "open" /\ ~Regressed(m) /\ (Skipped(m) \/ Unfounded(m))
  /\ Invalid("SEQUENCE_GAP")
  /\ UNCHANGED book

\* A message that is rejected before its sequence is looked at: for another
\* symbol, without payload, malformed, of whichever stream.
Unusable ==
  /\ phase = "open"
  /\ Invalid("DEGRADED")
  /\ UNCHANGED book

\* A trade older than the last one takes the book down too.
LateTrade ==
  /\ phase = "open"
  /\ Invalid("OUT_OF_ORDER")
  /\ UNCHANGED book

\* The book after the levels of a message are set.
Updated(m) ==
  [l \in Levels |->
     IF l \in LevelsOf(m) THEN published[m.u][l]
     ELSE IF m.type = "snapshot" THEN 0 ELSE book[l]]

\* A corrupt message that puts a bid on the highest price.
Corrupted(b) == [b EXCEPT ![<<"bid", TopPrice>>] = 1]

\* The levels are set before the check that finds them crossed.
Crossed(m) ==
  /\ phase = "open" /\ InSequence(m)
  /\ book' = Corrupted(Updated(m))
  /\ IsCrossed(book')
  /\ Invalid("DEGRADED")

Apply(m) ==
  /\ phase = "open" /\ InSequence(m)
  /\ book' \in {Updated(m), Corrupted(Updated(m))}
  /\ ~IsCrossed(book')
  /\ lastSequence' = m.u
  /\ bookReady' = TRUE
  /\ bookInvalid' = FALSE
  /\ dataQuality' = "OK"
  /\ continuity' = "HEALTHY"
  /\ high' = IF m.u > high THEN m.u ELSE high
  /\ UNCHANGED <<phase, published, subscribed>>

Receive(m) == OutOfOrder(m) \/ SequenceGap(m) \/ Crossed(m) \/ Apply(m)

-----------------------------------------------------------------------------
(* The task of the feed. *)

\* MarketDataManager.start
Start ==
  /\ phase = "stopped"
  /\ phase' = "connecting"
  /\ UNCHANGED <<book, lastSequence, bookReady, bookInvalid, dataQuality, continuity,
                 high, published, subscribed>>

\* connected: the state is reset and the streams are subscribed to
Connect ==
  /\ phase = "connecting"
  /\ phase' = "open"
  /\ ResetState
  /\ Subscribe

\* The connection fails, ends, or delivers what cannot be parsed.
ConnectionLost ==
  /\ phase \in {"connecting", "open"}
  /\ phase' = "sleeping"
  /\ MarkDisconnected
  /\ Disconnect

\* websocket.close() has returned
Closed ==
  /\ phase = "closing"
  /\ phase' = "sleeping"
  /\ MarkDisconnected
  /\ Disconnect

Wake ==
  /\ phase = "sleeping"
  /\ phase' = "connecting"
  /\ UNCHANGED <<book, lastSequence, bookReady, bookInvalid, dataQuality, continuity,
                 high, published, subscribed>>

\* MarketDataManager.stop cancels the task wherever it is suspended.
Stop ==
  /\ phase # "stopped"
  /\ phase' = "stopped"
  /\ Disconnect
  /\ UNCHANGED <<book, lastSequence, bookReady, bookInvalid, dataQuality, continuity, high>>

VenuePublishes == Publish /\ UNCHANGED feedVars

Next ==
  \/ VenuePublishes
  \/ \E m \in Sent : Receive(m)
  \/ Unusable \/ LateTrade
  \/ Start \/ Connect \/ ConnectionLost \/ Closed \/ Wake \/ Stop

Spec == Init /\ [][Next]_vars

-----------------------------------------------------------------------------
(* Properties. *)

TypeOK == FeedTypeOK

\* A book that may be used is the book the venue had at the last applied
\* sequence, whatever was lost, repeated, reordered or corrupted on the way
\* (_apply_orderbook).
UsableIsVenue == bookReady => lastSequence > 0 /\ book = published[lastSequence]

\* Across gaps and reconnections a usable book is the newest ever shown.
NeverOlder == bookReady => lastSequence = high

\* Four flags written in five places are one verdict: readers that ask
\* book_ready, continuity_status or quality get the same answer.
OneVerdict ==
  /\ bookReady <=> Quality = "DATA_VALID"
  /\ bookReady <=> continuity = "HEALTHY"
  /\ bookReady <=> dataQuality = "OK"

\* Fairness of the event loop, of the venue and of the network: the loop's own
\* steps happen, an attempt to connect that is repeated for ever succeeds, and
\* so does the delivery of a snapshot that is sent again and again.
Fairness ==
  /\ WF_vars(Closed) /\ WF_vars(Wake) /\ SF_vars(Connect)
  /\ SF_vars(\E m \in Sent : m.type = "snapshot" /\ Apply(m))

FairSpec == Spec /\ Fairness

\* A feed that runs comes back to a usable book from any gap or failure.
Heals == phase \in {"closing", "sleeping", "connecting"} ~> bookReady \/ phase = "stopped"

Replica == INSTANCE BookReplica WITH view <- IF bookReady THEN book ELSE NoBook

\* The feed implements the book replica step by step.
ImplementsReplica == Replica!Spec
=============================================================================
