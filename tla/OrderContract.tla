--------------------------- MODULE OrderContract ---------------------------
(***************************************************************************)
(* What the execution layer promises about each entry order, whatever      *)
(* crashes, timeouts and late answers happen on the way: it is journalled  *)
(* before it is sent, it is sent at most once, the exchange executes only  *)
(* what was sent, and the fill rows never claim more than was executed.    *)
(***************************************************************************)
EXTENDS Naturals

CONSTANTS
  Intents,   \* client order ids
  OrderQty   \* the quantity each entry asks for

VARIABLES
  journal,   \* entries with a durable order row
  sends,     \* how often each entry was submitted to the exchange
  executed,  \* what the exchange executed of each entry
  booked     \* what the fill rows of each entry add up to

contractVars == <<journal, sends, executed, booked>>

Init ==
  /\ journal = {}
  /\ sends = [i \in Intents |-> 0]
  /\ executed = [i \in Intents |-> 0]
  /\ booked = [i \in Intents |-> 0]

Journal(i) ==
  /\ i \notin journal
  /\ journal' = journal \union {i}
  /\ UNCHANGED <<sends, executed, booked>>

\* The exchange may execute some of the entry in the call that sends it.
Submit(i) ==
  /\ i \in journal
  /\ sends[i] = 0
  /\ sends' = [sends EXCEPT ![i] = 1]
  /\ \E q \in 0 .. OrderQty : executed' = [executed EXCEPT ![i] = q]
  /\ UNCHANGED <<journal, booked>>

Execute(i) ==
  /\ sends[i] = 1
  /\ \E q \in (executed[i] + 1) .. OrderQty :
       executed' = [executed EXCEPT ![i] = q]
  /\ UNCHANGED <<journal, sends, booked>>

Book(i) ==
  /\ \E q \in (booked[i] + 1) .. executed[i] :
       booked' = [booked EXCEPT ![i] = q]
  /\ UNCHANGED <<journal, sends, executed>>

Next == \E i \in Intents : Journal(i) \/ Submit(i) \/ Execute(i) \/ Book(i)

Spec == Init /\ [][Next]_contractVars
=============================================================================
