------------------------ MODULE MCCoordinatorProcess ------------------------
(***************************************************************************)
(* Small instances of CoordinatorProcess for TLC.                          *)
(***************************************************************************)
EXTENDS CoordinatorProcess, FiniteSetsExt, TLC

\* Every intent trades the same instrument.
OneSymbol == [i \in Intents |-> CHOOSE s \in Symbols : TRUE]

\* Intents differ in nothing but their name.
Renamings == Permutations(Intents)

\* The position row of an instrument is the sum of its fills, which is what
\* ExecutionLedger._validate_derived_state insists on.
DerivedStateConsistent ==
  \A s \in Symbols :
    position[s] = MapThenSumSet(LAMBDA i : filled[i], {i \in Intents : SymbolOf[i] = s})
=============================================================================
