---------------------------- MODULE PageMessenger ---------------------------
(***************************************************************************)
(* The messages the server put on top of a page (PageMessenger in          *)
(* lib/base/message.ts, bundled in app.js): each is an element ".alert" in *)
(* an element ".messages" with the others of its type.  A click on its     *)
(* close button fades out the smallest element that would be left empty,   *)
(* and the callback of the animation removes it; after five seconds the    *)
(* whole bar is faded out.  Elements count until they are removed, and     *)
(* several animations run at once.                                         *)
(***************************************************************************)
EXTENDS Naturals, FiniteSets

CONSTANTS
  Messages,    \* the messages of the page
  Types,       \* the containers
  Type         \* the container of each message

ASSUME PageMessengerAssumption ==
  /\ IsFiniteSet(Messages)
  /\ Messages \cap Types = {}
  /\ Type \in [Messages -> Types]

VARIABLES
  alerts,      \* the messages in the document
  containers,  \* the containers in it
  fading,      \* the messages and containers whose animation runs
  barFading,   \* does the animation of the bar run?
  hidden,      \* is the bar hidden?
  fired,       \* are the five seconds over?
  closed       \* the messages whose button was clicked

vars == <<alerts, containers, fading, barFading, hidden, fired, closed>>

TypeOK ==
  /\ alerts \subseteq Messages
  /\ containers \subseteq Types
  /\ fading \subseteq Messages \cup Types
  /\ barFading \in BOOLEAN /\ hidden \in BOOLEAN /\ fired \in BOOLEAN
  /\ closed \subseteq Messages

Of(t) == {m \in alerts : Type[m] = t}

(* The page as it was rendered, with at least one message, and the         *)
(* PageMessenger that was made for it.                                     *)
Init ==
  /\ alerts \in SUBSET Messages \ {{}}
  /\ containers = {Type[m] : m \in alerts}
  /\ fading = {} /\ barFading = FALSE
  /\ hidden = FALSE /\ fired = FALSE /\ closed = {}

(* A variant whose comparison is off by one. *)
CloseEarly(m) ==
  /\ m \in alerts /\ ~hidden
  /\ closed' = closed \cup {m}
  /\ \/ Cardinality(alerts) <= 2 /\ barFading' = TRUE /\ fading' = fading
     \/ /\ Cardinality(alerts) > 2
        /\ fading' = fading \cup (IF Of(Type[m]) = {m} THEN {Type[m]} ELSE {m})
        /\ barFading' = barFading
  /\ UNCHANGED <<alerts, containers, hidden, fired>>

(* A click on the close button of m.  A second animation of an element     *)
(* runs after the first one, whose end leaves it nothing to do.            *)
Close(m) ==
  /\ m \in alerts /\ ~hidden
  /\ closed' = closed \cup {m}
  /\ \/ /\ alerts = {m}
        /\ barFading' = TRUE /\ fading' = fading
     \/ /\ alerts # {m}
        /\ fading' = fading \cup (IF Of(Type[m]) = {m} THEN {Type[m]} ELSE {m})
        /\ barFading' = barFading
  /\ UNCHANGED <<alerts, containers, hidden, fired>>

(* The animation of a message ends. *)
MessageFaded(m) ==
  /\ m \in fading \cap Messages
  /\ alerts' = alerts \ {m}
  /\ fading' = fading \ {m}
  /\ UNCHANGED <<containers, barFading, hidden, fired, closed>>

(* The animation of a container ends; it takes its messages with it. *)
ContainerFaded(t) ==
  /\ t \in fading \cap Types
  /\ containers' = containers \ {t}
  /\ alerts' = alerts \ Of(t)
  /\ fading' = fading \ ({t} \cup Of(t))
  /\ UNCHANGED <<barFading, hidden, fired, closed>>

(* A variant that hides the bar and forgets the containers. *)
BarFadedOnly ==
  /\ barFading
  /\ barFading' = FALSE /\ hidden' = TRUE
  /\ UNCHANGED <<alerts, containers, fading, fired, closed>>

(* The animation of the bar ends. *)
BarFaded ==
  /\ barFading
  /\ barFading' = FALSE /\ hidden' = TRUE
  /\ containers' = {} /\ alerts' = {} /\ fading' = {}
  /\ UNCHANGED <<fired, closed>>

(* A variant in which a bar without messages is taken for hidden. *)
TimeoutIfAny ==
  /\ ~fired /\ fired' = TRUE
  /\ barFading' = (barFading \/ alerts # {})
  /\ UNCHANGED <<alerts, containers, fading, hidden, closed>>

(* The timer of the constructor. *)
Timeout ==
  /\ ~fired /\ fired' = TRUE
  /\ barFading' = TRUE
  /\ UNCHANGED <<alerts, containers, fading, hidden, closed>>

Animation ==
  \/ \E m \in Messages : MessageFaded(m)
  \/ \E t \in Types : ContainerFaded(t)
  \/ BarFaded

Next == (\E m \in Messages : Close(m)) \/ Animation \/ Timeout

(* Timers and animations run; the user need not click. *)
Fairness ==
  /\ \A m \in Messages : WF_vars(MessageFaded(m))
  /\ \A t \in Types : WF_vars(ContainerFaded(t))
  /\ WF_vars(BarFaded) /\ WF_vars(Timeout)

Spec == Init /\ [][Next]_vars /\ Fairness

-----------------------------------------------------------------------------
(* Properties *)

(* A bar that was hidden holds nothing that could be shown again, and an   *)
(* animation that still ends is of an element in it (the callbacks of      *)
(* hideElWithAnim()).                                                      *)
HiddenIsEmpty ==
  /\ hidden => alerts = {} /\ containers = {} /\ fading = {}
  /\ fading \subseteq alerts \cup containers
  /\ \A m \in alerts : Type[m] \in containers

(* No message goes before the user closed it or the time is up: whatever   *)
(* element a click fades out, it keeps the promise of MessageBar.          *)
Bar == INSTANCE MessageBar WITH shown <- alerts, expired <- fired
KeepsPromise == Bar!Safety

(* A closed message goes, in the end all of them do, and a bar left        *)
(* without messages does not stay on the page: two messages closed while   *)
(* both still count leave it so until the timer hides it.                  *)
GoesAway == Bar!Liveness /\ (alerts = {} ~> hidden)
=============================================================================
