--------------------------- MODULE DelayedCallback --------------------------
(***************************************************************************)
(* delayedCallback() of lib/base/base.ts: a function that runs a callback  *)
(* once it has not been called for a while.  The browser runs the task of  *)
(* a timer some time after it is due, never while another handler runs,    *)
(* and not at all once the timer was cleared.                              *)
(***************************************************************************)
EXTENDS Naturals, Sequences

CONSTANTS
  WaitMs,     \* in ticks of the clock
  MaxTime,    \* bound: of the clock; no call whose timer would be due later
  MaxCalls    \* bound: calls of the function

VARIABLES
  now,        \* the clock
  calls,      \* when each call was made; its number stands for its arguments
  timer,      \* the variable "timer": the call whose timer was set last
  timers,     \* the calls whose timers the browser has
  ran         \* the calls whose arguments the callback was run with

vars == <<now, calls, timer, timers, ran>>

Init == now = 0 /\ calls = <<>> /\ timer = 0 /\ timers = {} /\ ran = <<>>

(* A variant without clearTimeout(). *)
CallKeepsTimer ==
  /\ now + WaitMs <= MaxTime
  /\ Len(calls) < MaxCalls
  /\ calls' = Append(calls, now)
  /\ timer' = Len(calls')
  /\ timers' = timers \cup {timer'}
  /\ UNCHANGED <<now, ran>>

(* A variant that leaves a timer that runs as it is. *)
CallKeepsFirst ==
  /\ now + WaitMs <= MaxTime
  /\ Len(calls) < MaxCalls
  /\ calls' = Append(calls, now)
  /\ timer' = IF timer \in timers THEN timer ELSE Len(calls')
  /\ timers' = timers \cup {timer'}
  /\ UNCHANGED <<now, ran>>

Call ==
  /\ now + WaitMs <= MaxTime
  /\ Len(calls) < MaxCalls
  /\ calls' = Append(calls, now)
  /\ timer' = Len(calls')
  /\ timers' = (timers \ {timer}) \cup {timer'}
  /\ UNCHANGED <<now, ran>>

Run(c) ==
  /\ c \in timers /\ calls[c] + WaitMs <= now
  /\ timers' = timers \ {c}
  /\ ran' = Append(ran, c)
  /\ UNCHANGED <<now, calls, timer>>

Tick ==
  /\ now < MaxTime
  /\ now' = now + 1
  /\ UNCHANGED <<calls, timer, timers, ran>>

Next == Call \/ Tick \/ \E c \in timers : Run(c)

Fairness == WF_vars(Tick) /\ WF_vars(\E c \in timers : Run(c))
Spec == Init /\ [][Next]_vars /\ Fairness

-----------------------------------------------------------------------------

(* The callback runs once for a burst of calls, with the arguments of the  *)
(* last one and waitMs after it, however late the browser runs timers.     *)
RunsOnceQuiet ==
  [][ran' # ran => /\ ran'[Len(ran')] = Len(calls)
                   /\ now >= calls[Len(calls)] + WaitMs]_vars

(* It does run for the last call of all. *)
RunsForLast ==
  \A n \in 1..MaxCalls :
    Len(calls) = n ~> ran # <<>> /\ ran[Len(ran)] >= n
=============================================================================
