---------------------------- MODULE BookReplica ----------------------------
(***************************************************************************)
(* What a local order book promises its readers, whatever the connection   *)
(* does to the messages: it shows nothing, or a book the venue really had, *)
(* and never one older than a book it has shown before.                    *)
(***************************************************************************)
EXTENDS Naturals, Sequences

CONSTANTS
  Books,   \* the order books a venue can have
  NoBook   \* what a reader sees when there is no usable book

VARIABLES
  published,  \* the books the venue has had, oldest first
  view,       \* the book a reader sees, or NoBook
  high        \* number of the newest book ever shown, or 0

replicaVars == <<published, view, high>>

Init ==
  /\ \E b \in Books : published = <<b>>
  /\ view = NoBook
  /\ high = 0

Publish ==
  /\ \E b \in Books : published' = Append(published, b)
  /\ UNCHANGED <<view, high>>

Show ==
  /\ high' \in 1 .. Len(published)
  /\ high <= high'
  /\ view' = published[high']
  /\ UNCHANGED published

Hide ==
  /\ view' = NoBook
  /\ UNCHANGED <<published, high>>

Next == Publish \/ Show \/ Hide

Spec == Init /\ [][Next]_replicaVars
=============================================================================
