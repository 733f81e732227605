------------------------- MODULE MCExecutionRuntime -------------------------
(***************************************************************************)
(* Small instances of ExecutionRuntime for TLC.                            *)
(***************************************************************************)
EXTENDS ExecutionRuntime, TLC

\* Every intent trades the same instrument ...
OneSymbol == [i \in Intents |-> CHOOSE s \in Symbols : TRUE]

\* ... or each its own.
OwnSymbol == [i \in Intents |-> i]

\* Intents differ in nothing but their name.
Renamings == Permutations(Intents)
=============================================================================
