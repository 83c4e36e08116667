----------------------------- MODULE EventManager ---------------------------
(***************************************************************************)
(* EventManager of lib/base/event-manager.ts, the base class of widgets:   *)
(* lists of handlers, called one after the other.  A handler may register  *)
(* others, for the same event too, and trigger events before it returns;   *)
(* it may return false, which keeps the rest from being told, or throw.    *)
(***************************************************************************)
EXTENDS Naturals, Sequences

CONSTANTS
  Events,        \* the names of events
  MaxHandlers,   \* bound: handlers registered, of all events
  MaxDepth       \* bound: triggers inside of each other

VARIABLES
  handlers,    \* the handlers of each event, numbered as they come
  count,       \* how many there are
  stack,       \* the calls of trigger(), the innermost first: the event,
               \* the variable i, and the handlers that were called
  running      \* does a handler of the innermost one run?

vars == <<handlers, count, stack, running>>

Init ==
  /\ handlers = [e \in Events |-> <<>>] /\ count = 0
  /\ stack = <<>> /\ running = FALSE

top == stack[1]
Idle == stack = <<>> \/ running      \* code other than trigger() runs

(* A variant that puts the handler before the others. *)
OnFirst(e) ==
  /\ Idle /\ count < MaxHandlers
  /\ count' = count + 1
  /\ handlers' = [handlers EXCEPT ![e] = <<count'>> \o @]
  /\ UNCHANGED <<stack, running>>

On(e) ==
  /\ Idle /\ count < MaxHandlers
  /\ count' = count + 1
  /\ handlers' = [handlers EXCEPT ![e] = Append(@, count')]
  /\ UNCHANGED <<stack, running>>

(* trigger() of an event nobody registered for returns at once. *)
Trigger(e) ==
  /\ Idle /\ Len(stack) < MaxDepth
  /\ handlers[e] # <<>>
  /\ stack' = <<[event |-> e, i |-> 1, told |-> <<>>]>> \o stack
  /\ running' = FALSE
  /\ UNCHANGED <<handlers, count>>

(* The next handler is called; the array may have grown since the last. *)
Handler ==
  /\ ~Idle /\ top.i <= Len(handlers[top.event])
  /\ stack' = [stack EXCEPT ![1].told = Append(@, handlers[top.event][top.i])]
  /\ running' = TRUE
  /\ UNCHANGED <<handlers, count>>

Returns ==
  /\ stack # <<>> /\ running
  /\ stack' = [stack EXCEPT ![1].i = @ + 1]
  /\ running' = FALSE
  /\ UNCHANGED <<handlers, count>>

(* trigger() returns to the handler that called it. *)
Done ==
  /\ ~Idle /\ top.i > Len(handlers[top.event])
  /\ stack' = Tail(stack)
  /\ running' = (stack' # <<>>)
  /\ UNCHANGED <<handlers, count>>

ReturnsFalse ==
  /\ stack # <<>> /\ running
  /\ stack' = Tail(stack)
  /\ running' = (stack' # <<>>)
  /\ UNCHANGED <<handlers, count>>

(* An exception leaves the calls of trigger() up to a handler that catches *)
(* it, or all of them.                                                     *)
Throws ==
  /\ stack # <<>> /\ running
  /\ \E n \in 2..Len(stack) + 1 : stack' = SubSeq(stack, n, Len(stack))
  /\ running' = (stack' # <<>>)
  /\ UNCHANGED <<handlers, count>>

Next ==
  \/ \E e \in Events : On(e) \/ Trigger(e)
  \/ Handler \/ Returns \/ Done \/ ReturnsFalse \/ Throws

Spec == Init /\ [][Next]_vars

-----------------------------------------------------------------------------

(* Every trigger() tells each handler at most once and in the order of     *)
(* registration, and one that is not cut short has told all there are when *)
(* it returns, those among them that were registered while it ran.         *)
AllAreTold ==
  /\ \A k \in DOMAIN stack : \A i, j \in DOMAIN stack[k].told :
       i < j => stack[k].told[i] < stack[k].told[j]
  /\ ~Idle /\ top.i > Len(handlers[top.event])
       => top.told = handlers[top.event]
=============================================================================
