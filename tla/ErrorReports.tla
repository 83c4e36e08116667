---------------------------- MODULE ErrorReports ----------------------------
(***************************************************************************)
(* ErrorHandler next to one of its listeners, NoDupsListener, which shares *)
(* nothing with it but the errors: a step of one is no step of the other.  *)
(***************************************************************************)
EXTENDS ErrorHandler

CONSTANTS
  Workers, Errors, None, Period, MaxTime    \* see NoDupsListener

(* With no period gc() would take a lock just made for an old one. *)
ASSUME PeriodAssumption == Period \in Nat \ {0}

VARIABLES now, dir, mtime, pc, err, left, gcExecuted, told, touched, robbed

noDupsVars == <<now, dir, mtime, pc, err, left, gcExecuted, told, touched, robbed>>

NoDups == INSTANCE NoDupsListener

(* Tool/Php/NoDupsListener.php: nothing is suppressed that was not told,   *)
(* and what was just seen is told again only after a race with gc().       *)
ToldOnce == NoDups!ToldOnce
=============================================================================
