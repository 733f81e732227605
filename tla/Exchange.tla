------------------------------ MODULE Exchange ------------------------------
(***************************************************************************)
(* The exchange as the execution adapters present it to the coordinator.   *)
(* When it is not Networked it is the in-process PaperExecutionAdapter: an *)
(* entry is filled in full by the call that submits it, nothing fails, and *)
(* a crash forgets everything.  Otherwise it is a remote service behind an *)
(* ExchangeExecutionAdapter: a call may fail before or after it took       *)
(* effect, an answer may be late, missing or out of date, and an order     *)
(* goes on filling while nobody is looking.                                *)
(***************************************************************************)
EXTENDS Ledger

CONSTANTS
  Networked,   \* the exchange is a remote service
  NamesParent  \* answers name an order's parent entry: the in-memory adapters
               \* keep the request, the Binance and Bybit adapters drop the field

ASSUME ExchangeAssumption == {Networked, NamesParent} \subseteq BOOLEAN

VARIABLES
  remote,    \* the exchange's record of each entry
  inflight,  \* entries whose request is on the wire after the call gave up
  legQty,    \* quantity of each protective leg the exchange took, or 0
  legEnded,  \* protective legs that have triggered or been cancelled
  holding,   \* the position the exchange reports for each symbol
  sends,     \* history: how often submit_order was called for each entry
  executed   \* history: quantity of each entry the exchange ever executed

exchangeVars == <<remote, inflight, legQty, legEnded, holding, sends, executed>>

View(status, qty) == [status |-> status, filled |-> qty]
NoOrder == View("NONE", 0)
RemoteStatus == {"NEW", "PARTIALLY_FILLED", "FILLED", "CANCELED", "REJECTED"}

\* Records an exchange can hold of an entry of OrderQty units.
OrderViews ==
  [status : {"NEW", "REJECTED"}, filled : {0}]
    \union [status : {"PARTIALLY_FILLED"}, filled : 1 .. (OrderQty - 1)]
    \union [status : {"FILLED"}, filled : {OrderQty}]
    \union [status : {"CANCELED"}, filled : 0 .. (OrderQty - 1)]

ExchangeTypeOK ==
  /\ remote \in [Intents -> OrderViews \union {NoOrder}]
  /\ inflight \subseteq Intents
  /\ legQty \in [Intents -> [Legs -> 0 .. OrderQty]]
  /\ legEnded \subseteq Intents \X Legs
  /\ holding \in [Symbols -> Int]
  /\ sends \in [Intents -> Nat]
  /\ executed \in [Intents -> 0 .. OrderQty]

ExchangeInit ==
  /\ remote = [i \in Intents |-> NoOrder]
  /\ inflight = {}
  /\ legQty = [i \in Intents |-> [l \in Legs |-> 0]]
  /\ legEnded = {}
  /\ holding = [s \in Symbols |-> 0]
  /\ sends = [i \in Intents |-> 0]
  /\ executed = [i \in Intents |-> 0]

-----------------------------------------------------------------------------
OnExchange(i) == remote[i] # NoOrder
Working(i, l) == legQty[i][l] > 0 /\ <<i, l>> \notin legEnded
OpenAtExchange(i) == remote[i].status \in {"NEW", "PARTIALLY_FILLED"}

\* The record an entry gets when the exchange takes it.
FirstViews ==
  IF Networked THEN OrderViews ELSE {View("FILLED", OrderQty)}

\* The exchange's record of entry i becomes v.  A paper fill replaces the whole
\* position list by the position of the order just filled.
TakeView(i, v) ==
  /\ remote' = [remote EXCEPT ![i] = v]
  /\ executed' = [executed EXCEPT ![i] = v.filled]
  /\ holding' = IF Networked
                THEN [holding EXCEPT ![SymbolOf[i]] = @ + v.filled - remote[i].filled]
                ELSE [s \in Symbols |-> IF s = SymbolOf[i] THEN v.filled ELSE 0]

\* What get_order may answer about an entry the exchange holds: its record, a
\* record it held earlier, or one whose status the adapter does not recognise.
Answers(i) ==
  {remote[i]} \union
  (IF Networked
   THEN {View("UNKNOWN", remote[i].filled)}
          \union {View("PARTIALLY_FILLED", q) : q \in 1 .. (remote[i].filled - 1)}
   ELSE {})

\* get_order may find nothing: the entry is not there, or the query failed.
MayMiss(i) == ~OnExchange(i) \/ Networked

-----------------------------------------------------------------------------
\* A request that timed out reaches the exchange after all.
Arrive(i) ==
  /\ i \in inflight
  /\ inflight' = inflight \ {i}
  /\ \E v \in OrderViews : TakeView(i, v)
  /\ UNCHANGED <<legQty, legEnded, sends>>

\* A working entry fills further or is cancelled by the exchange.
Progress(i) ==
  /\ Networked
  /\ OpenAtExchange(i)
  /\ \E v \in OrderViews :
       /\ v.status \in {"PARTIALLY_FILLED", "FILLED", "CANCELED"}
       /\ v.filled >= remote[i].filled
       /\ v # remote[i]
       /\ TakeView(i, v)
  /\ UNCHANGED <<inflight, legQty, legEnded, sends>>

\* A working leg is cancelled, or triggers and closes what it covers.
LegEnds(i, l) ==
  /\ Networked
  /\ Working(i, l)
  /\ legEnded' = legEnded \union {<<i, l>>}
  /\ \/ UNCHANGED holding
     \/ /\ holding[SymbolOf[i]] >= legQty[i][l]
        /\ holding' = [holding EXCEPT ![SymbolOf[i]] = @ - legQty[i][l]]
  /\ UNCHANGED <<remote, inflight, legQty, sends, executed>>

\* The paper adapter lives in the process: its state ends with the process.
ExchangeAfterCrash ==
  IF Networked
  THEN UNCHANGED exchangeVars
  ELSE /\ remote' = [i \in Intents |-> NoOrder]
       /\ legQty' = [i \in Intents |-> [l \in Legs |-> 0]]
       /\ holding' = [s \in Symbols |-> 0]
       /\ UNCHANGED <<inflight, legEnded, sends, executed>>
=============================================================================
