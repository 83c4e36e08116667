----------------------------- MODULE MessageBar -----------------------------
(***************************************************************************)
(* What the messages on top of a page promise: a message goes away some    *)
(* time after the user closed it, none goes before that while the time     *)
(* is not up, and all go when it is.                                       *)
(***************************************************************************)
CONSTANT Messages

VARIABLES
  shown,     \* the messages on the page
  closed,    \* those the user has closed
  expired    \* is the time up?

vars == <<shown, closed, expired>>

Init ==
  /\ shown \in SUBSET Messages \ {{}}
  /\ closed = {} /\ expired = FALSE

Close(m) ==
  /\ m \in shown
  /\ closed' = closed \cup {m}
  /\ UNCHANGED <<shown, expired>>

Expire ==
  /\ expired' = TRUE
  /\ UNCHANGED <<shown, closed>>

Vanish ==
  /\ shown' \in SUBSET shown
  /\ expired \/ shown \ shown' \subseteq closed
  /\ UNCHANGED <<closed, expired>>

Next == (\E m \in Messages : Close(m)) \/ Expire \/ Vanish

ClosedVanish == \A m \in Messages : m \in closed ~> m \notin shown
AllVanish == expired ~> shown = {}

Safety == Init /\ [][Next]_vars
Liveness == <>expired /\ ClosedVanish /\ AllVanish
=============================================================================
