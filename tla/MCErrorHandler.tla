-------------------------- MODULE MCErrorHandler ---------------------------
(***************************************************************************)
(* Instances of ErrorReports for TLC: "part" says which of the two, the    *)
(* handlers or their listener, takes steps.                                *)
(***************************************************************************)
EXTENDS ErrorReports, TLC

CONSTANT Parts

VARIABLE part

MCInit == part \in Parts /\ Init /\ NoDups!Init

HandlersStep == part = "handlers" /\ Next /\ UNCHANGED <<noDupsVars, part>>
NoDupsStep == part = "noDups" /\ NoDups!Next /\ UNCHANGED <<vars, part>>

MCNext == HandlersStep \/ NoDupsStep

MCSpec == MCInit /\ [][MCNext]_<<vars, noDupsVars, part>>

Interchangeable ==
  Permutations(Handlers) \cup Permutations(Workers) \cup Permutations(Errors)
=============================================================================
