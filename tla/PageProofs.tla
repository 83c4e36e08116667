----------------------------- MODULE PageProofs -----------------------------
(***************************************************************************)
(* Theorems about PageMessenger, for any messages and containers, and of   *)
(* what the helpers of the frontend keep, each for all values of its       *)
(* constants: calls, handlers, rows, elements and objects in any number.   *)
(***************************************************************************)
EXTENDS PageMessenger, Helpers, Sequences, SequenceTheorems, FiniteSetTheorems, TLAPS

-----------------------------------------------------------------------------
(* PageMessenger: whatever the user clicks while animations run, the page  *)
(* keeps the promise of MessageBar, and a bar that was hidden is empty.    *)

(* Whatever fades out is closed: a message, all messages of a container,   *)
(* and before the time is up all messages there are.                       *)
FadesClosed ==
  /\ \A m \in fading \cap Messages : m \in closed
  /\ \A t \in fading \cap Types : Of(t) \subseteq closed
  /\ barFading => fired \/ alerts \subseteq closed

IInv == TypeOK /\ HiddenIsEmpty /\ FadesClosed

LEMMA InitInv == Init => IInv
  BY PageMessengerAssumption DEF Init, IInv, TypeOK, HiddenIsEmpty, FadesClosed, Of

LEMMA CloseInv == ASSUME IInv, NEW m \in Messages, Close(m) PROVE IInv'
<1> USE PageMessengerAssumption DEF IInv
<1>a. Type[m] \in Types /\ Type[m] \notin Messages /\ m \notin Types
  OBVIOUS
<1>b. /\ m \in alerts /\ ~hidden /\ closed' = closed \cup {m}
      /\ UNCHANGED <<alerts, containers, hidden, fired>>
  BY DEF Close
<1>1. TypeOK'
  <2>1. fading' \subseteq Messages \cup Types /\ barFading' \in BOOLEAN
    BY <1>a DEF TypeOK, Close
  <2> QED BY <2>1, <1>b DEF TypeOK
<1>2. HiddenIsEmpty'
  <2>1. fading' \subseteq alerts \cup containers
    BY <1>a, <1>b DEF Close, HiddenIsEmpty
  <2> QED BY <2>1, <1>b DEF HiddenIsEmpty
<1>3. FadesClosed'
  <2>1. CASE alerts = {m} /\ barFading' = TRUE /\ fading' = fading
    BY <2>1, <1>b DEF FadesClosed, Of
  <2>2. CASE /\ fading' = fading \cup (IF Of(Type[m]) = {m} THEN {Type[m]} ELSE {m})
             /\ barFading' = barFading
    BY <2>2, <1>a, <1>b DEF FadesClosed, Of
  <2> QED BY <2>1, <2>2 DEF Close
<1> QED BY <1>1, <1>2, <1>3

LEMMA FadedInv == ASSUME IInv, Animation \/ Timeout PROVE IInv'
<1> USE PageMessengerAssumption DEF IInv
<1>1. ASSUME NEW m \in Messages, MessageFaded(m) PROVE IInv'
  BY <1>1 DEF MessageFaded, TypeOK, HiddenIsEmpty, FadesClosed, Of
<1>2. ASSUME NEW t \in Types, ContainerFaded(t) PROVE IInv'
  <2>1. TypeOK'
    BY <1>2 DEF ContainerFaded, TypeOK
  <2>2. HiddenIsEmpty'
    BY <1>2 DEF ContainerFaded, TypeOK, HiddenIsEmpty, Of
  <2>3. FadesClosed'
    BY <1>2 DEF ContainerFaded, TypeOK, FadesClosed, Of
  <2> QED BY <2>1, <2>2, <2>3
<1>3. CASE BarFaded
  BY <1>3 DEF BarFaded, TypeOK, HiddenIsEmpty, FadesClosed, Of
<1>4. CASE Timeout
  BY <1>4 DEF Timeout, TypeOK, HiddenIsEmpty, FadesClosed, Of
<1> QED BY <1>1, <1>2, <1>3, <1>4 DEF Animation

(* The inductive invariant: the types, what a hidden bar holds, and that   *)
(* only what the user closed fades out before the timer fires.             *)
THEOREM Invariant == Spec => []IInv
<1>1. IInv /\ [Next]_vars => IInv'
  <2> SUFFICES ASSUME IInv, [Next]_vars PROVE IInv'
    OBVIOUS
  <2>1. CASE UNCHANGED vars
    BY <2>1 DEF vars, IInv, TypeOK, HiddenIsEmpty, FadesClosed, Of
  <2> QED BY <2>1, CloseInv, FadedInv DEF Next
<1> QED BY InitInv, <1>1, PTL DEF Spec

(* The types of the state of the page, for any messages and containers.    *)
THEOREM TypeCorrect == Spec => []TypeOK
  BY Invariant, PTL DEF IInv

(* When the callback of the bar has run nothing is left that could be      *)
(* shown, and no callback is of an element that is gone.                   *)
THEOREM HiddenBarIsEmpty == Spec => []HiddenIsEmpty
  BY Invariant, PTL DEF IInv

(* Every step of the elements is one of MessageBar: no order of clicks and *)
(* callbacks takes away a message that the user has not closed.            *)
THEOREM Refinement == Spec => KeepsPromise
<1>1. Init => Bar!Init
  BY DEF Init, Bar!Init
<1>2. IInv /\ [Next]_vars => [Bar!Next]_(Bar!vars)
  <2> SUFFICES ASSUME IInv, [Next]_vars PROVE [Bar!Next]_(Bar!vars)
    OBVIOUS
  <2>1. ASSUME NEW m \in Messages, Close(m) PROVE Bar!Close(m)
    BY <2>1 DEF Close, Bar!Close
  <2>2. ASSUME NEW m \in Messages, MessageFaded(m) PROVE Bar!Vanish
    BY <2>2 DEF MessageFaded, Bar!Vanish, IInv, FadesClosed
  <2>3. ASSUME NEW t \in Types, ContainerFaded(t) PROVE Bar!Vanish
    BY <2>3 DEF ContainerFaded, Bar!Vanish, IInv, FadesClosed
  <2>4. BarFaded => Bar!Vanish
    BY DEF BarFaded, Bar!Vanish, IInv, FadesClosed
  <2>5. Timeout => Bar!Expire
    BY DEF Timeout, Bar!Expire
  <2>6. UNCHANGED vars => UNCHANGED Bar!vars
    BY DEF vars, Bar!vars
  <2> QED BY <2>1, <2>2, <2>3, <2>4, <2>5, <2>6 DEF Next, Animation, Bar!Next
<1> QED BY <1>1, <1>2, Invariant, PTL DEF Spec, KeepsPromise, Bar!Safety

-----------------------------------------------------------------------------
(* DelayedCallback *)

(* At most one timer runs, that of the last call. *)
TimerInv ==
  /\ now \in Nat /\ calls \in Seq(Nat) /\ ran \in Seq(Nat)
  /\ timer = Len(calls)
  /\ timers \subseteq {Len(calls)} /\ 0 \notin timers

LEMMA TimerInit == Delayed!Init => TimerInv
  BY DEF Delayed!Init, TimerInv

LEMMA TimerCalled == ASSUME TimerInv, Delayed!Call PROVE TimerInv'
<1>1. calls' \in Seq(Nat) /\ Len(calls') = Len(calls) + 1 /\ Len(calls) \in Nat
  BY DEF TimerInv, Delayed!Call
<1>2. timers' = {Len(calls')}
  BY <1>1 DEF TimerInv, Delayed!Call
<1> QED BY <1>1, <1>2 DEF TimerInv, Delayed!Call

LEMMA TimerRuns == ASSUME TimerInv, NEW c \in timers, Delayed!Run(c) PROVE TimerInv'
<1>1. c \in Nat
  BY DEF TimerInv
<1>2. ran' \in Seq(Nat)
  BY <1>1 DEF TimerInv, Delayed!Run
<1> QED BY <1>2 DEF TimerInv, Delayed!Run

(* The inductive invariant: clearTimeout() leaves no other timer.          *)
THEOREM OneTimer == Delayed!Spec => []TimerInv
<1>1. TimerInv /\ [Delayed!Next]_(Delayed!vars) => TimerInv'
  <2> SUFFICES ASSUME TimerInv, [Delayed!Next]_(Delayed!vars) PROVE TimerInv'
    OBVIOUS
  <2>1. CASE UNCHANGED Delayed!vars
    BY <2>1 DEF Delayed!vars, TimerInv
  <2>2. CASE Delayed!Tick
    BY <2>2 DEF Delayed!Tick, TimerInv
  <2> QED BY <2>1, <2>2, TimerCalled, TimerRuns DEF Delayed!Next
<1> QED BY TimerInit, <1>1, PTL DEF Delayed!Spec

(* Whenever the callback runs it is for the last call there was, after the *)
(* whole wait: a call made before a timer's task runs always prevents it.  *)
THEOREM OnlyTheLastRuns == Delayed!Spec => RunsOnceQuiet
<1> DEFINE Quiet == ran' # ran => /\ ran'[Len(ran')] = Len(calls)
                                  /\ now >= calls[Len(calls)] + WaitMs
<1>1. TimerInv /\ [Delayed!Next]_(Delayed!vars) => [Quiet]_(Delayed!vars)
  <2> SUFFICES ASSUME TimerInv, Delayed!Next PROVE Quiet
    OBVIOUS
  <2>1. CASE Delayed!Call \/ Delayed!Tick
    BY <2>1 DEF Delayed!Call, Delayed!Tick
  <2>2. ASSUME NEW c \in timers, Delayed!Run(c) PROVE Quiet
    <3>1. c = Len(calls) /\ ran \in Seq(Nat) /\ ran' = Append(ran, c)
      BY <2>2 DEF TimerInv, Delayed!Run
    <3>2. ran'[Len(ran')] = c
      BY <3>1
    <3>3. calls[c] \in Nat /\ now \in Nat /\ calls[c] + WaitMs <= now
      BY <2>2, <3>1 DEF TimerInv, Delayed!Run
    <3> QED BY <3>1, <3>2, <3>3
  <2> QED BY <2>1, <2>2 DEF Delayed!Next
<1> QED BY OneTimer, <1>1, PTL DEF Delayed!Spec, RunsOnceQuiet,
                                   Delayed!RunsOnceQuiet

-----------------------------------------------------------------------------
(* EventManager *)

Calls == [event : Events, i : Nat \ {0}, told : Seq(Nat)]

ManagerTypes ==
  /\ count \in Nat
  /\ handlers \in [Events -> Seq(Nat)]
  /\ stack \in Seq(Calls)
  /\ running \in BOOLEAN /\ (running => stack # <<>>)

(* The handlers of an event come in the order of their registration. *)
InOrder == \A e \in Events :
  /\ \A i \in 1 .. Len(handlers[e]) : handlers[e][i] <= count
  /\ \A i, j \in 1 .. Len(handlers[e]) : i < j => handlers[e][i] < handlers[e][j]

(* A call of trigger() has told the first n handlers of its event. *)
HasTold(call, n) ==
  /\ n <= Len(handlers[call.event]) /\ Len(call.told) = n
  /\ \A j \in 1 .. n : call.told[j] = handlers[call.event][j]

(* Those before i, and the one that runs: one of every call but the        *)
(* innermost does, since only a handler triggers within a call.            *)
PrefixesTold == \A k \in 1 .. Len(stack) :
  HasTold(stack[k], IF k = 1 /\ ~running THEN stack[k].i - 1 ELSE stack[k].i)

ManagerInv == ManagerTypes /\ InOrder /\ PrefixesTold

LEMMA ManagerInit == Manager!Init => ManagerInv
<1> SUFFICES ASSUME Manager!Init PROVE ManagerInv
  OBVIOUS
<1>1. stack = <<>> /\ running = FALSE /\ count = 0 /\ handlers = [e \in Events |-> <<>>]
  BY DEF Manager!Init
<1>2. \A e \in Events : handlers[e] = <<>>
  BY <1>1
<1>3. ManagerTypes
  <2>1. handlers \in [Events -> Seq(Nat)] /\ stack \in Seq(Calls)
    BY <1>1
  <2> QED BY <1>1, <2>1 DEF ManagerTypes
<1>4. InOrder /\ PrefixesTold
  BY <1>1, <1>2 DEF InOrder, PrefixesTold
<1> QED BY <1>3, <1>4 DEF ManagerInv

LEMMA OnKeeps ==
  ASSUME ManagerInv, NEW e \in Events, Manager!On(e)
  PROVE  ManagerInv'
<1>1. /\ count \in Nat /\ count' = count + 1
      /\ handlers[e] \in Seq(Nat) /\ handlers \in [Events -> Seq(Nat)]
      /\ handlers' = [handlers EXCEPT ![e] = Append(handlers[e], count + 1)]
      /\ stack' = stack /\ running' = running /\ stack \in Seq(Calls)
  BY DEF ManagerInv, ManagerTypes, Manager!On
<1>2. ManagerTypes'
  <2>1. Append(handlers[e], count + 1) \in Seq(Nat)
    BY <1>1
  <2> QED BY <1>1, <2>1 DEF ManagerInv, ManagerTypes
<1>3. /\ handlers'[e] = Append(handlers[e], count + 1)
      /\ \A d \in Events : d # e => handlers'[d] = handlers[d]
  BY <1>1
<1>4. /\ Len(handlers'[e]) = Len(handlers[e]) + 1
      /\ handlers'[e][Len(handlers[e]) + 1] = count + 1
      /\ \A j \in 1 .. Len(handlers[e]) : handlers'[e][j] = handlers[e][j]
  BY <1>1, <1>3
<1>5. InOrder'
  <2> SUFFICES ASSUME NEW d \in Events
               PROVE  /\ \A i \in 1 .. Len(handlers'[d]) : handlers'[d][i] <= count'
                      /\ \A i, j \in 1 .. Len(handlers'[d]) :
                           i < j => handlers'[d][i] < handlers'[d][j]
    BY DEF InOrder
  <2>1. /\ handlers[d] \in Seq(Nat)
        /\ \A i \in 1 .. Len(handlers[d]) : handlers[d][i] \in Nat /\ handlers[d][i] <= count
        /\ \A i, j \in 1 .. Len(handlers[d]) : i < j => handlers[d][i] < handlers[d][j]
    BY <1>1 DEF ManagerInv, InOrder
  <2>2. CASE d # e
    BY <1>1, <1>3, <2>1, <2>2
  <2>3. CASE d = e
    BY <1>1, <1>4, <2>1, <2>3
  <2> QED BY <2>2, <2>3
<1>6. PrefixesTold'
  <2> SUFFICES ASSUME NEW k \in 1 .. Len(stack), NEW n \in Nat, HasTold(stack[k], n)
               PROVE  HasTold(stack[k], n)'
    <3>1. ASSUME NEW k \in 1 .. Len(stack) PROVE stack[k].i \in Nat \ {0}
      <4>1. stack[k] \in Calls
        BY <1>1
      <4> QED BY <4>1 DEF Calls
    <3>2. \A k \in 1 .. Len(stack) :
            (IF k = 1 /\ ~running THEN stack[k].i - 1 ELSE stack[k].i) \in Nat
      BY <3>1
    <3> QED BY <1>1, <3>2 DEF ManagerInv, PrefixesTold
  <2>1. stack[k].event \in Events
    <3>1. stack[k] \in Calls
      BY <1>1
    <3> QED BY <3>1 DEF Calls
  <2>2. handlers[stack[k].event] \in Seq(Nat)
    BY <1>1, <2>1
  <2>3. CASE stack[k].event = e
    BY <1>1, <1>4, <2>3 DEF HasTold
  <2>4. CASE stack[k].event # e
    BY <1>1, <1>3, <2>1, <2>4 DEF HasTold
  <2> QED BY <2>3, <2>4
<1> QED BY <1>2, <1>5, <1>6 DEF ManagerInv

(* What the steps of trigger() see, all of which leave the handlers alone. *)
LEMMA ManagerFacts ==
  ASSUME ManagerInv
  PROVE  /\ stack \in Seq(Calls)
         /\ \A k \in 1 .. Len(stack) :
              /\ stack[k] \in Calls /\ stack[k].event \in Events
              /\ handlers[stack[k].event] \in Seq(Nat)
              /\ stack[k].i \in Nat \ {0} /\ stack[k].told \in Seq(Nat)
              /\ (k # 1 \/ running) => HasTold(stack[k], stack[k].i)
              /\ (k = 1 /\ ~running) => HasTold(stack[k], stack[k].i - 1)
<1>1. stack \in Seq(Calls) /\ handlers \in [Events -> Seq(Nat)]
  BY DEF ManagerInv, ManagerTypes
<1>2. ASSUME NEW k \in 1 .. Len(stack)
      PROVE  /\ stack[k] \in Calls /\ stack[k].event \in Events
             /\ handlers[stack[k].event] \in Seq(Nat)
             /\ stack[k].i \in Nat \ {0} /\ stack[k].told \in Seq(Nat)
  <2>1. stack[k] \in Calls
    BY <1>1
  <2> QED BY <1>1, <2>1 DEF Calls
<1> QED BY <1>1, <1>2 DEF ManagerInv, PrefixesTold

LEMMA TriggerKeeps ==
  ASSUME ManagerInv, NEW e \in Events, Manager!Trigger(e)
  PROVE  ManagerInv'
<1> DEFINE call == [event |-> e, i |-> 1, told |-> <<>>]
<1>1. /\ stack' = <<call>> \o stack /\ running' = FALSE
      /\ handlers' = handlers /\ count' = count
      /\ stack = <<>> \/ running
  BY DEF Manager!Trigger, Manager!Idle
<1>2. call \in Calls /\ call.i = 1 /\ call.told = <<>> /\ call.event = e
  BY DEF Calls
<1> HIDE DEF call
<1>3. /\ stack' \in Seq(Calls) /\ Len(stack') = Len(stack) + 1
      /\ stack'[1] = call
      /\ \A k \in 2 .. Len(stack') : k - 1 \in 1 .. Len(stack) /\ stack'[k] = stack[k - 1]
  BY <1>1, <1>2, ManagerFacts
<1>4. HasTold(call, 0)
  <2>1. handlers[e] \in Seq(Nat)
    BY DEF ManagerInv, ManagerTypes
  <2> QED BY <1>2, <2>1 DEF HasTold
<1>5. \A k \in 2 .. Len(stack') : HasTold(stack'[k], stack'[k].i)
  <2> SUFFICES ASSUME NEW k \in 2 .. Len(stack') PROVE HasTold(stack'[k], stack'[k].i)
    OBVIOUS
  <2>1. k - 1 \in 1 .. Len(stack) /\ stack'[k] = stack[k - 1]
    BY <1>3
  <2>2. running
    BY <1>1, <2>1
  <2> QED BY <2>1, <2>2, ManagerFacts
<1>6. PrefixesTold'
  <2> SUFFICES ASSUME NEW k \in 1 .. Len(stack')
               PROVE  HasTold(stack'[k], IF k = 1 THEN stack'[k].i - 1 ELSE stack'[k].i)
    BY <1>1 DEF PrefixesTold, HasTold
  <2>1. CASE k = 1
    BY <1>2, <1>3, <1>4, <2>1
  <2>2. CASE k # 1
    <3>1. k \in 2 .. Len(stack')
      BY <1>3, <2>2, ManagerFacts
    <3> QED BY <1>5, <2>2, <3>1
  <2> QED BY <2>1, <2>2
<1> QED
  BY <1>1, <1>3, <1>6 DEF ManagerInv, ManagerTypes, InOrder

LEMMA HandlerKeeps == ASSUME ManagerInv, Manager!Handler PROVE ManagerInv'
<1> DEFINE next == handlers[stack[1].event][stack[1].i]
<1>1. /\ stack # <<>> /\ ~running
      /\ stack[1].i <= Len(handlers[stack[1].event])
      /\ stack' = [stack EXCEPT ![1] = [stack[1] EXCEPT !.told = Append(stack[1].told, next)]]
      /\ running' = TRUE /\ handlers' = handlers /\ count' = count
  BY DEF Manager!Handler, Manager!Idle, Manager!top
<1>2. 1 \in 1 .. Len(stack)
  BY <1>1, ManagerFacts
<1>3. /\ stack[1] \in Calls /\ stack[1].event \in Events /\ handlers[stack[1].event] \in Seq(Nat)
      /\ stack[1].i \in Nat \ {0} /\ stack[1].told \in Seq(Nat)
      /\ HasTold(stack[1], stack[1].i - 1)
  BY <1>1, <1>2, ManagerFacts
<1>4. next \in Nat
  BY <1>1, <1>3
<1> HIDE DEF next
<1>5. Append(stack[1].told, next) \in Seq(Nat)
  BY <1>3, <1>4
<1> DEFINE call == [event |-> stack[1].event, i |-> stack[1].i, told |-> Append(stack[1].told, next)]
<1>6. stack' = [stack EXCEPT ![1] = call]
  <2>1. ASSUME NEW told2 PROVE
          [stack[1] EXCEPT !.told = told2] =
            [event |-> stack[1].event, i |-> stack[1].i, told |-> told2]
    BY <1>3 DEF Calls
  <2> QED BY <1>1, <2>1
<1>7. call \in Calls
  BY <1>3, <1>5 DEF Calls
<1>8. /\ call.event = stack[1].event /\ call.i = stack[1].i
      /\ call.told = Append(stack[1].told, next)
  OBVIOUS
<1> HIDE DEF call
<1>9. /\ stack' \in Seq(Calls) /\ Len(stack') = Len(stack) /\ stack'[1] = call
      /\ \A k \in 1 .. Len(stack) : k # 1 => stack'[k] = stack[k]
  BY <1>2, <1>6, <1>7, ManagerFacts
<1>10. HasTold(call, call.i)
  <2>1. /\ Len(stack[1].told) = stack[1].i - 1
        /\ \A j \in 1 .. stack[1].i - 1 : stack[1].told[j] = handlers[stack[1].event][j]
    BY <1>3 DEF HasTold
  <2>2. /\ Len(call.told) = stack[1].i /\ call.told[stack[1].i] = next
        /\ \A j \in 1 .. stack[1].i - 1 : call.told[j] = stack[1].told[j]
    BY <1>3, <1>4, <1>8, <2>1
  <2>3. \A j \in 1 .. stack[1].i : j = stack[1].i \/ j \in 1 .. stack[1].i - 1
    BY <1>3
  <2> QED BY <1>1, <1>8, <2>1, <2>2, <2>3 DEF HasTold, next
<1>11. PrefixesTold'
  <2> SUFFICES ASSUME NEW k \in 1 .. Len(stack) PROVE HasTold(stack'[k], stack'[k].i)
    BY <1>1, <1>9 DEF PrefixesTold, HasTold
  <2>1. CASE k = 1
    BY <1>9, <1>10, <2>1
  <2>2. CASE k # 1
    BY <1>9, <2>2, ManagerFacts
  <2> QED BY <2>1, <2>2
<1>12. stack' # <<>>
  BY <1>2, <1>9, ManagerFacts
<1> QED
  BY <1>1, <1>9, <1>11, <1>12 DEF ManagerInv, ManagerTypes, InOrder

LEMMA ReturnsKeeps == ASSUME ManagerInv, Manager!Returns PROVE ManagerInv'
<1>1. /\ stack # <<>> /\ running
      /\ stack' = [stack EXCEPT ![1] = [stack[1] EXCEPT !.i = stack[1].i + 1]]
      /\ running' = FALSE /\ handlers' = handlers /\ count' = count
  BY DEF Manager!Returns
<1>2. 1 \in 1 .. Len(stack)
  BY <1>1, ManagerFacts
<1>3. /\ stack[1] \in Calls /\ stack[1].event \in Events
      /\ stack[1].i \in Nat \ {0} /\ stack[1].told \in Seq(Nat)
      /\ HasTold(stack[1], stack[1].i)
  BY <1>1, <1>2, ManagerFacts
<1> DEFINE call == [event |-> stack[1].event, i |-> stack[1].i + 1, told |-> stack[1].told]
<1>4. stack' = [stack EXCEPT ![1] = call]
  <2>1. [stack[1] EXCEPT !.i = stack[1].i + 1] = call
    BY <1>3 DEF Calls
  <2> QED BY <1>1, <2>1
<1>5. call \in Calls
  BY <1>3 DEF Calls
<1>6. call.event = stack[1].event /\ call.i = stack[1].i + 1 /\ call.told = stack[1].told
  OBVIOUS
<1> HIDE DEF call
<1>7. /\ stack' \in Seq(Calls) /\ Len(stack') = Len(stack) /\ stack'[1] = call
      /\ \A k \in 1 .. Len(stack) : k # 1 => stack'[k] = stack[k]
  BY <1>2, <1>4, <1>5, ManagerFacts
<1>8. HasTold(call, call.i - 1)
  <2>1. call.i - 1 = stack[1].i
    BY <1>3, <1>6
  <2> QED BY <1>3, <1>6, <2>1 DEF HasTold
<1>9. PrefixesTold'
  <2> SUFFICES ASSUME NEW k \in 1 .. Len(stack)
               PROVE  HasTold(stack'[k], IF k = 1 THEN stack'[k].i - 1 ELSE stack'[k].i)
    BY <1>1, <1>7 DEF PrefixesTold, HasTold
  <2>1. CASE k = 1
    BY <1>7, <1>8, <2>1
  <2>2. CASE k # 1
    BY <1>7, <2>2, ManagerFacts
  <2> QED BY <2>1, <2>2
<1> QED
  BY <1>1, <1>7, <1>9 DEF ManagerInv, ManagerTypes, InOrder

(* However a call ends, those that are left wait for a handler of theirs.  *)
LEMMA EndsKeep ==
  ASSUME ManagerInv, Manager!Done \/ Manager!ReturnsFalse \/ Manager!Throws
  PROVE  ManagerInv'
<1>1. /\ running' = (stack' # <<>>) /\ handlers' = handlers /\ count' = count
      /\ \E n \in 2 .. Len(stack) + 1 : stack' = SubSeq(stack, n, Len(stack))
  <2>1. CASE Manager!Throws
    BY <2>1 DEF Manager!Throws
  <2>2. CASE Manager!Done \/ Manager!ReturnsFalse
    <3>1. stack # <<>> /\ stack' = Tail(stack)
      BY <2>2 DEF Manager!Done, Manager!ReturnsFalse, Manager!Idle
    <3>2. 2 \in 2 .. Len(stack) + 1 /\ Tail(stack) = SubSeq(stack, 2, Len(stack))
      BY <3>1, ManagerFacts
    <3> QED BY <2>2, <3>1, <3>2 DEF Manager!Done, Manager!ReturnsFalse
  <2> QED BY <2>1, <2>2
<1>2. PICK n \in 2 .. Len(stack) + 1 : stack' = SubSeq(stack, n, Len(stack))
  BY <1>1
<1>3. /\ stack' \in Seq(Calls)
      /\ \A k \in 1 .. Len(stack') :
           /\ k + n - 1 \in 2 .. Len(stack)
           /\ stack'[k] = stack[k + n - 1]
  BY <1>2, ManagerFacts
<1>4. PrefixesTold'
  <2> SUFFICES ASSUME NEW k \in 1 .. Len(stack') PROVE HasTold(stack'[k], stack'[k].i)
    <3>1. ASSUME NEW k \in 1 .. Len(stack') PROVE running'
      <4>1. stack' # <<>>
        OBVIOUS
      <4> QED BY <1>1, <4>1
    <3> QED BY <1>1, <3>1 DEF PrefixesTold, HasTold
  <2>1. k + n - 1 \in 2 .. Len(stack) /\ stack'[k] = stack[k + n - 1]
    BY <1>3
  <2>2. k + n - 1 \in 1 .. Len(stack) /\ k + n - 1 # 1
    BY <2>1
  <2> QED BY <2>1, <2>2, ManagerFacts
<1> QED
  BY <1>1, <1>3, <1>4 DEF ManagerInv, ManagerTypes, InOrder

(* The inductive invariant of trigger(). *)
THEOREM ManagerInvariant == Manager!Spec => []ManagerInv
<1>1. ManagerInv /\ [Manager!Next]_(Manager!vars) => ManagerInv'
  <2> SUFFICES ASSUME ManagerInv, [Manager!Next]_(Manager!vars) PROVE ManagerInv'
    OBVIOUS
  <2>1. CASE UNCHANGED Manager!vars
    BY <2>1 DEF Manager!vars, ManagerInv, ManagerTypes, InOrder, PrefixesTold, HasTold
  <2>2. CASE Manager!Next
    BY <2>2, OnKeeps, TriggerKeeps, HandlerKeeps, ReturnsKeeps, EndsKeep DEF Manager!Next
  <2> QED BY <2>1, <2>2
<1> QED BY ManagerInit, <1>1, PTL DEF Manager!Spec

(* Every handler of an event is told, once and in the order of their       *)
(* registration, whatever the handlers register, trigger or throw.         *)
THEOREM EveryHandlerOnce == Manager!Spec => []AllAreTold
<1>1. ManagerInv => AllAreTold
  <2> SUFFICES ASSUME ManagerInv PROVE Manager!AllAreTold
    BY DEF AllAreTold
  <2>1. ASSUME NEW k \in DOMAIN stack, NEW i \in DOMAIN stack[k].told,
               NEW j \in DOMAIN stack[k].told, i < j
        PROVE  stack[k].told[i] < stack[k].told[j]
    <3>1. k \in 1 .. Len(stack)
      BY ManagerFacts
    <3>2. /\ stack[k].event \in Events /\ stack[k].told \in Seq(Nat)
          /\ handlers[stack[k].event] \in Seq(Nat)
          /\ stack[k].i \in Nat \ {0}
          /\ HasTold(stack[k], stack[k].i) \/ HasTold(stack[k], stack[k].i - 1)
      BY <3>1, ManagerFacts
    <3>3. PICK n \in Nat : HasTold(stack[k], n)
      <4>1. stack[k].i \in Nat /\ stack[k].i - 1 \in Nat
        BY <3>2
      <4> QED BY <3>2, <4>1
    <3>4. /\ i \in 1 .. n /\ j \in 1 .. n /\ n <= Len(handlers[stack[k].event])
          /\ stack[k].told[i] = handlers[stack[k].event][i]
          /\ stack[k].told[j] = handlers[stack[k].event][j]
      <4>1. i \in 1 .. Len(stack[k].told) /\ j \in 1 .. Len(stack[k].told)
        BY <3>2
      <4> QED BY <3>3, <4>1 DEF HasTold
    <3>5. i \in 1 .. Len(handlers[stack[k].event]) /\ j \in 1 .. Len(handlers[stack[k].event])
      BY <3>2, <3>4
    <3> QED BY <2>1, <3>2, <3>4, <3>5 DEF ManagerInv, InOrder
  <2>2. ASSUME stack # <<>>, ~running, stack[1].i > Len(handlers[stack[1].event])
        PROVE  stack[1].told = handlers[stack[1].event]
    <3>1. 1 \in 1 .. Len(stack)
      BY <2>2, ManagerFacts
    <3>2. /\ handlers[stack[1].event] \in Seq(Nat) /\ stack[1].told \in Seq(Nat)
          /\ stack[1].i \in Nat \ {0} /\ HasTold(stack[1], stack[1].i - 1)
      BY <2>2, <3>1, ManagerFacts
    <3>3. /\ Len(stack[1].told) = Len(handlers[stack[1].event])
          /\ \A j \in 1 .. Len(stack[1].told) : stack[1].told[j] = handlers[stack[1].event][j]
      BY <2>2, <3>2 DEF HasTold
    <3> QED BY <3>2, <3>3, SeqEqual
  <2> QED BY <2>1, <2>2 DEF Manager!AllAreTold, Manager!Idle, Manager!top
<1> QED BY ManagerInvariant, <1>1, PTL

-----------------------------------------------------------------------------
(* Grid *)

(* In a grid of any rows, whatever the user clicks and scripts add.        *)
THEOREM BoxAgrees == Boxes!Spec => []SelectsAll
<1>1. Boxes!Init => SelectsAll
  BY DEF Boxes!Init, SelectsAll, Boxes!SelectsAll
<1>2. SelectsAll /\ [Boxes!Next]_(Boxes!vars) => SelectsAll'
  <2> SUFFICES ASSUME SelectsAll, [Boxes!Next]_(Boxes!vars) PROVE SelectsAll'
    OBVIOUS
  <2> USE DEF SelectsAll, Boxes!SelectsAll, Boxes!Called
  <2>1. CASE UNCHANGED Boxes!vars
    BY <2>1 DEF Boxes!vars
  <2>2. CASE Boxes!Construct
    BY <2>2 DEF Boxes!Construct, Boxes!InitCheckboxes, Boxes!CheckAllCheckboxes
  <2>3. CASE Boxes!CheckAll
    BY <2>3 DEF Boxes!CheckAll, Boxes!CheckAllCheckboxes
  <2>4. CASE Boxes!UncheckAll
    BY <2>4 DEF Boxes!UncheckAll, Boxes!UncheckAllCheckboxes
  <2>5. ASSUME NEW b, Boxes!Click(b) \/ Boxes!Row(b) PROVE SelectsAll'
    BY <2>5 DEF Boxes!Click, Boxes!Row
  <2> QED BY <2>1, <2>2, <2>3, <2>4, <2>5 DEF Boxes!Next
<1> QED BY <1>1, <1>2, PTL DEF Boxes!Spec

-----------------------------------------------------------------------------
(* UniqueIds *)

IdTypes ==
  /\ uuid \in Nat /\ uniqId \in Nat
  /\ ids = [e \in Elements |-> ids[e]]
  /\ classes = [e \in Elements |-> classes[e]]
  /\ runs = [e \in Elements |-> runs[e]]

(* An id is one of the page's own or a number that was given out.          *)
IdsAreGiven == \A e \in Elements :
  \/ ids[e] = <<>> \/ ids[e] = <<e>>
  \/ \E n \in Nat : n <= uuid /\ ids[e] = <<n>>

IdsDiffer == \A d, e \in Elements : d # e /\ ids[d] # <<>> => ids[d] # ids[e]

(* No element has the class of a call of once() that is still to come.     *)
ClassesAreOld == \A e \in Elements :
  /\ IsFiniteSet(classes[e]) /\ runs[e] = Cardinality(classes[e])
  /\ \A n \in classes[e] : n \in Nat /\ n < uniqId

IdInv == IdTypes /\ IdsAreGiven /\ IdsDiffer /\ ClassesAreOld

LEMMA IdInit == Ids!Init => IdInv
<1> SUFFICES ASSUME Ids!Init PROVE IdInv
  OBVIOUS
<1>1. /\ uuid = 0 /\ uniqId = 0
      /\ ids = [e \in Elements |-> <<>>]
      /\ classes = [e \in Elements |-> {}] /\ runs = [e \in Elements |-> 0]
  BY DEF Ids!Init
<1>2. IsFiniteSet({}) /\ Cardinality({}) = 0
  BY FS_EmptySet
<1> QED
  BY <1>1, <1>2 DEF IdInv, IdTypes, IdsAreGiven, IdsDiffer, ClassesAreOld

(* The Cardinality of FiniteSets by the name it has in the instance.       *)
LEMMA CardinalityOfIds == ASSUME NEW S PROVE Ids!Cardinality(S) = Cardinality(S)
  BY DEF Ids!Cardinality, Cardinality

(* uniqId(): numbers that are larger than all before, each given once.     *)
LEMMA UniqIdKeeps ==
  ASSUME IdInv, NEW S \in SUBSET Elements, Ids!UniqId(S)
  PROVE  IdInv'
<1> DEFINE new == {e \in S : ids[e] = <<>>}
<1>1. PICK number \in [new -> uuid + 1 .. uuid + Cardinality(new)] :
        /\ \A d, e \in new : number[d] = number[e] => d = e
        /\ ids' = [e \in Elements |-> IF e \in new THEN <<number[e]>> ELSE ids[e]]
        /\ uuid' = uuid + Cardinality(new)
        /\ UNCHANGED <<uniqId, classes, runs>>
  <2>1. Ids!Cardinality(new) = Cardinality(new)
    BY CardinalityOfIds
  <2> QED BY <2>1 DEF Ids!UniqId
<1>2. Cardinality(new) \in Nat /\ uuid \in Nat
  <2>1. IsFiniteSet(new)
    BY ElementsAssumption, FS_Subset
  <2> QED BY <2>1, FS_CardinalityType DEF IdInv, IdTypes
<1>3. ASSUME NEW e \in Elements
      PROVE  \/ /\ e \in new /\ ids'[e] = <<number[e]>>
                /\ number[e] \in Nat /\ number[e] > uuid /\ number[e] <= uuid'
             \/ e \notin new /\ ids'[e] = ids[e]
  <2>1. e \in new => number[e] \in uuid + 1 .. uuid + Cardinality(new)
    BY <1>1
  <2> QED BY <1>1, <1>2, <2>1
<1> HIDE DEF new
<1>4. IdTypes' /\ ClassesAreOld'
  BY <1>1, <1>2 DEF IdInv, IdTypes, ClassesAreOld
<1>5. IdsAreGiven'
  <2> SUFFICES ASSUME NEW e \in Elements
               PROVE  \/ ids'[e] = <<>> \/ ids'[e] = <<e>>
                      \/ \E n \in Nat : n <= uuid' /\ ids'[e] = <<n>>
    BY DEF IdsAreGiven
  <2>1. CASE e \in new
    BY <1>3, <2>1
  <2>2. CASE e \notin new
    <3>1. ids'[e] = ids[e] /\ uuid <= uuid' /\ uuid' \in Nat
      BY <1>1, <1>2, <1>3, <2>2
    <3> QED BY <1>2, <3>1 DEF IdInv, IdsAreGiven
  <2> QED BY <2>1, <2>2
<1>6. IdsDiffer'
  <2> SUFFICES ASSUME NEW d \in Elements, NEW e \in Elements, d # e,
                      ids'[d] # <<>>, ids'[d] = ids'[e]
               PROVE  FALSE
    BY DEF IdsDiffer
  <2>1. ASSUME NEW a \in Elements, NEW b \in Elements, a \in new, b \notin new,
               ids'[a] = ids'[b]
        PROVE  FALSE
    <3>1. ids[b] = <<number[a]>> /\ number[a] \in Nat /\ number[a] > uuid
      BY <1>3, <2>1
    <3>2. b # number[a]
      BY <3>1, ElementsAssumption
    <3>3. <<b>>[1] = b /\ <<number[a]>>[1] = number[a] /\ <<number[a]>> # <<>>
      OBVIOUS
    <3>4. PICK n \in Nat : n <= uuid /\ ids[b] = <<n>>
      BY <3>1, <3>2, <3>3 DEF IdInv, IdsAreGiven
    <3>5. <<n>>[1] = n
      OBVIOUS
    <3> QED BY <1>2, <3>1, <3>3, <3>4, <3>5
  <2>2. CASE d \in new /\ e \in new
    <3>1. <<number[d]>> = <<number[e]>>
      BY <1>3, <2>2
    <3>2. number[d] = number[e]
      BY <3>1
    <3> QED BY <1>1, <2>2, <3>2
  <2>3. CASE d \notin new /\ e \notin new
    BY <1>3, <2>3 DEF IdInv, IdsDiffer
  <2> QED BY <2>1, <2>2, <2>3
<1> QED BY <1>4, <1>5, <1>6 DEF IdInv

LEMMA RemoveKeeps ==
  ASSUME IdInv, NEW S \in SUBSET Elements, Ids!RemoveUniqId(S)
  PROVE  IdInv'
<1>1. \A e \in Elements : ids'[e] = ids[e] \/ ids'[e] = <<>>
  BY DEF Ids!RemoveUniqId
<1>2. uuid' = uuid /\ uniqId' = uniqId /\ classes' = classes /\ runs' = runs
      /\ ids' = [e \in Elements |-> ids'[e]]
  BY DEF Ids!RemoveUniqId
<1> QED
  BY <1>1, <1>2 DEF IdInv, IdTypes, IdsAreGiven, IdsDiffer, ClassesAreOld

LEMMA OnceKeeps ==
  ASSUME IdInv, NEW S \in SUBSET Elements, Ids!Once(S)
  PROVE  IdInv'
<1>1. /\ UNCHANGED <<ids, uuid>> /\ uniqId' = uniqId + 1 /\ uniqId \in Nat
      /\ classes' = [e \in Elements |-> classes'[e]]
      /\ runs' = [e \in Elements |-> runs'[e]]
  BY DEF IdInv, IdTypes, Ids!Once
<1>2. ASSUME NEW e \in Elements
      PROVE  /\ IsFiniteSet(classes'[e]) /\ runs'[e] = Cardinality(classes'[e])
             /\ \A n \in classes'[e] : n \in Nat /\ n < uniqId'
  <2>1. \/ /\ classes'[e] = classes[e] \cup {uniqId} /\ runs'[e] = runs[e] + 1
           /\ uniqId \notin classes[e]
        \/ classes'[e] = classes[e] /\ runs'[e] = runs[e]
    BY DEF Ids!Once
  <2>2. /\ IsFiniteSet(classes[e]) /\ runs[e] = Cardinality(classes[e])
        /\ \A n \in classes[e] : n \in Nat /\ n < uniqId
    BY DEF IdInv, ClassesAreOld
  <2> QED BY <1>1, <2>1, <2>2, FS_AddElement
<1> QED
  BY <1>1, <1>2 DEF IdInv, IdTypes, IdsAreGiven, IdsDiffer, ClassesAreOld

LEMMA PageKeeps ==
  ASSUME IdInv, NEW a \in Elements, Ids!Page(a)
  PROVE  IdInv'
<1>1. /\ UNCHANGED <<uuid, uniqId, classes, runs>>
      /\ ids' = [e \in Elements |-> ids'[e]]
      /\ ids'[a] = <<>> \/ ids'[a] = <<a>>
      /\ \A e \in Elements : e # a => ids'[e] = ids[e]
  BY DEF IdInv, IdTypes, Ids!Page, Ids!Given
<1>2. ASSUME NEW e \in Elements, e # a PROVE ids[e] # <<a>>
  <2>1. \A n \in Nat : n # a
    BY ElementsAssumption
  <2> QED BY <1>2, <2>1 DEF IdInv, IdsAreGiven
<1>3. IdsAreGiven'
  BY <1>1 DEF IdInv, IdsAreGiven
<1>4. IdsDiffer'
  BY <1>1, <1>2 DEF IdInv, IdsDiffer
<1> QED BY <1>1, <1>3, <1>4 DEF IdInv, IdTypes, ClassesAreOld

(* However many elements there are, and however often ids come and go.     *)
THEOREM NoIdTwice == Ids!Spec => []IdsAreUnique
<1>1. IdInv /\ [Ids!Next]_(Ids!vars) => IdInv'
  <2> SUFFICES ASSUME IdInv, [Ids!Next]_(Ids!vars) PROVE IdInv'
    OBVIOUS
  <2>1. CASE UNCHANGED Ids!vars
    BY <2>1 DEF Ids!vars, IdInv, IdTypes, IdsAreGiven, IdsDiffer, ClassesAreOld
  <2>2. CASE Ids!Next
    BY <2>2, UniqIdKeeps, RemoveKeeps, OnceKeeps, PageKeeps DEF Ids!Next
  <2> QED BY <2>1, <2>2
<1>2. IdInv => IdsAreUnique
  <2>1. \A e \in Elements : Ids!Cardinality(classes[e]) = Cardinality(classes[e])
    BY CardinalityOfIds
  <2> QED BY <2>1 DEF IdInv, IdsDiffer, ClassesAreOld, IdsAreUnique, Ids!IdsAreUnique
<1> QED BY IdInit, <1>1, <1>2, PTL DEF Ids!Spec

-----------------------------------------------------------------------------
(* Widget *)

Steps == {"made", "throws", "disposed", "normalizeConf", "init", "bindHandlers", "fields"}

WidgetTypes ==
  /\ class \in Widgets!Classes /\ step \in Steps
  /\ given \in [Widgets!Classes -> Nat]
  /\ bound \in [{"click", "submit", "change"} -> Nat]

(* How far the constructor has come with the element it was given.         *)
ElementIsTaken ==
  /\ step = "normalizeConf" => conf \in Widgets!Confs
  /\ step \in {"normalizeConf", "init"} => el = "undefined"
  /\ step = "init" /\ conf.el = "one" => conf.kind = "object"
  /\ step = "init" /\ conf.kind = "object" => conf.el \in {"one", "empty"}
  /\ step \in {"bindHandlers", "fields"} => (conf.el = "one" <=> el = "one")
  /\ step \in Widgets!Resting /\ conf.el = "one" => step # "throws" /\ el = "one"
  /\ step = "bindHandlers" /\ class = "Form" => assigned = Widgets!OwnFields(class)

(* An object of class c that will still bind its handlers.                 *)
Unbound(c) ==
  /\ class = c /\ conf.el = "one"
  /\ step \in {"normalizeConf", "init", "bindHandlers"}

HandlersOf(c) == IF Unbound(c) THEN given[c] - 1 ELSE given[c]

HandlersAreBound ==
  /\ bound.submit = HandlersOf("Form") /\ bound.change = HandlersOf("Form")
  /\ bound.click = HandlersOf("PageMessenger")

WidgetInv == WidgetTypes /\ ElementIsTaken /\ HandlersAreBound

LEMMA WidgetInit == Widgets!Init => WidgetInv
<1> SUFFICES ASSUME Widgets!Init PROVE WidgetInv
  OBVIOUS
<1> USE DEF Widgets!Init, Widgets!Classes, Widgets!Resting
<1>1. WidgetTypes
  BY DEF WidgetTypes, Steps
<1>2. ElementIsTaken
  BY DEF ElementIsTaken
<1>3. HandlersAreBound
  BY DEF HandlersAreBound, HandlersOf, Unbound
<1> QED BY <1>1, <1>2, <1>3 DEF WidgetInv

LEMMA NewKeeps ==
  ASSUME WidgetInv, NEW c \in Widgets!Classes, NEW k \in Widgets!Confs, Widgets!New(c, k)
  PROVE  WidgetInv'
<1>1. /\ step \in Widgets!Resting /\ class' = c /\ conf' = k
      /\ step' = "normalizeConf" /\ el' = "undefined" /\ bound' = bound
      /\ given' = IF k.el = "one" THEN [given EXCEPT ![c] = given[c] + 1] ELSE given
  BY DEF Widgets!New
<1>2. WidgetTypes'
  BY <1>1 DEF WidgetInv, WidgetTypes, Steps
<1>3. ElementIsTaken'
  BY <1>1 DEF ElementIsTaken, Widgets!Resting
<1>4. HandlersOf("Form")' = given["Form"] /\ HandlersOf("PageMessenger")' = given["PageMessenger"]
  BY <1>1 DEF WidgetInv, WidgetTypes, HandlersOf, Unbound, Widgets!Classes
<1>5. HandlersOf("Form") = given["Form"] /\ HandlersOf("PageMessenger") = given["PageMessenger"]
  BY <1>1 DEF HandlersOf, Unbound, Widgets!Resting
<1> QED BY <1>1, <1>2, <1>3, <1>4, <1>5 DEF WidgetInv, HandlersAreBound

LEMMA NormalizeKeeps == ASSUME WidgetInv, Widgets!NormalizeConf PROVE WidgetInv'
<1>1. /\ step = "normalizeConf" /\ step' = "init" /\ conf \in Widgets!Confs
      /\ conf' = IF conf.kind = "jquery" THEN [conf EXCEPT !.kind = "object"] ELSE conf
      /\ UNCHANGED <<class, el, assigned, bound, given>>
  BY DEF WidgetInv, ElementIsTaken, Widgets!NormalizeConf, Widgets!Returns, Widgets!After
<1>2. /\ conf'.el = conf.el
      /\ conf'.el = "one" => conf'.kind = "object"
      /\ conf'.kind = "object" => conf'.el \in {"one", "empty"}
  BY <1>1 DEF Widgets!Confs
<1>3. WidgetTypes' /\ ElementIsTaken'
  BY <1>1, <1>2 DEF WidgetInv, WidgetTypes, ElementIsTaken, Steps, Widgets!Resting
<1>4. HandlersAreBound'
  BY <1>1, <1>2 DEF WidgetInv, HandlersAreBound, HandlersOf, Unbound
<1> QED BY <1>3, <1>4 DEF WidgetInv

(* A hook that throws was given no element. *)
LEMMA InitHookKeeps == ASSUME WidgetInv, Widgets!InitHook PROVE WidgetInv'
<1>1. /\ step = "init" /\ step' \in {"bindHandlers", "throws"}
      /\ el' = IF conf.kind = "object" THEN conf.el ELSE el
      /\ step' = "throws" => el' = "undefined"
      /\ class = "Form" => assigned' = Widgets!OwnFields(class)
      /\ UNCHANGED <<class, conf, bound, given>>
  BY DEF Widgets!InitHook, Widgets!SuperInit, Widgets!FormInit, Widgets!GridInit,
         Widgets!Returns, Widgets!After
<1>2. conf.el = "one" <=> el' = "one"
  BY <1>1 DEF WidgetInv, ElementIsTaken
<1>3. WidgetTypes' /\ ElementIsTaken'
  BY <1>1, <1>2 DEF WidgetInv, WidgetTypes, ElementIsTaken, Steps, Widgets!Resting
<1>4. HandlersAreBound'
  BY <1>1, <1>2 DEF WidgetInv, HandlersAreBound, HandlersOf, Unbound
<1> QED BY <1>3, <1>4 DEF WidgetInv

LEMMA BindHookKeeps == ASSUME WidgetInv, Widgets!BindHook PROVE WidgetInv'
<1>1. /\ step = "bindHandlers" /\ (conf.el = "one" <=> el = "one")
      /\ UNCHANGED <<class, conf, el, assigned, given>>
      /\ class \in Widgets!Classes
      /\ given \in [Widgets!Classes -> Nat]
      /\ bound \in [{"click", "submit", "change"} -> Nat]
      /\ HandlersAreBound
      /\ class = "Form" => "elChangeEvents" \in assigned
  BY DEF WidgetInv, WidgetTypes, ElementIsTaken, Widgets!BindHook, Widgets!OwnFields
<1>2. /\ step' \in {"fields", "throws"}
      /\ step' = "throws" => el # "one"
      /\ bound' \in [{"click", "submit", "change"} -> Nat]
      /\ bound'.submit = IF class = "Form" /\ el = "one" THEN bound.submit + 1 ELSE bound.submit
      /\ bound'.change = IF class = "Form" /\ el = "one" THEN bound.change + 1 ELSE bound.change
      /\ bound'.click = IF class = "PageMessenger" /\ el = "one" THEN bound.click + 1
                                                                 ELSE bound.click
  <2>1. CASE Widgets!FormBinds
    <3> DEFINE One(n) == IF el = "one" THEN n + 1 ELSE n
    <3>1. /\ class = "Form" /\ "elChangeEvents" \in assigned
          /\ bound' = [bound EXCEPT !.submit = One(bound.submit), !.change = One(bound.change)]
          /\ step' = IF el = "one" THEN "fields" ELSE "throws"
      BY <1>1, <2>1 DEF Widgets!FormBinds, Widgets!One, Widgets!Returns, Widgets!After
    <3>2. One(bound.submit) \in Nat /\ One(bound.change) \in Nat
      BY <1>1
    <3> HIDE DEF One
    <3>3. /\ bound' \in [{"click", "submit", "change"} -> Nat]
          /\ bound'.submit = One(bound.submit) /\ bound'.change = One(bound.change)
          /\ bound'.click = bound.click
      BY <1>1, <3>1, <3>2
    <3> QED BY <3>1, <3>3 DEF One
  <2>2. CASE Widgets!MessengerBinds
    BY <1>1, <2>2 DEF Widgets!MessengerBinds, Widgets!One, Widgets!Returns, Widgets!After
  <2>3. CASE class \in {"Widget", "Grid"} /\ Widgets!Returns(TRUE) /\ UNCHANGED bound
    BY <1>1, <2>3 DEF Widgets!Returns, Widgets!After
  <2> QED BY <2>1, <2>2, <2>3 DEF Widgets!BindHook
<1>3. WidgetTypes' /\ ElementIsTaken'
  BY <1>1, <1>2 DEF WidgetInv, WidgetTypes, ElementIsTaken, Steps, Widgets!Resting
<1>4. HandlersAreBound'
  BY <1>1, <1>2 DEF HandlersAreBound, HandlersOf, Unbound, Widgets!Classes
<1> QED BY <1>3, <1>4 DEF WidgetInv

LEMMA RestKeeps == ASSUME WidgetInv, Widgets!Fields \/ Widgets!Dispose PROVE WidgetInv'
<1>1. /\ \/ step = "fields" /\ step' = "made"
         \/ step = "made" /\ step' = "disposed"
      /\ UNCHANGED <<class, conf, el, bound, given>>
  BY DEF Widgets!Fields, Widgets!Dispose, Widgets!Returns, Widgets!After
<1>2. WidgetTypes' /\ ElementIsTaken'
  BY <1>1 DEF WidgetInv, WidgetTypes, ElementIsTaken, Steps, Widgets!Resting
<1>3. HandlersAreBound'
  BY <1>1 DEF WidgetInv, HandlersAreBound, HandlersOf, Unbound
<1> QED BY <1>2, <1>3 DEF WidgetInv

(* Any number of objects, of whatever classes, made of anything.           *)
THEOREM WidgetsReady == Widgets!Spec => []WidgetsAreReady
<1>1. WidgetInv /\ [Widgets!Next]_(Widgets!vars) => WidgetInv'
  <2> SUFFICES ASSUME WidgetInv, [Widgets!Next]_(Widgets!vars) PROVE WidgetInv'
    OBVIOUS
  <2>1. CASE UNCHANGED Widgets!vars
    BY <2>1 DEF Widgets!vars, WidgetInv, WidgetTypes, ElementIsTaken, HandlersAreBound,
                HandlersOf, Unbound
  <2>2. CASE Widgets!Next
    BY <2>2, NewKeeps, NormalizeKeeps, InitHookKeeps, BindHookKeeps, RestKeeps
       DEF Widgets!Next
  <2> QED BY <2>1, <2>2
<1>2. WidgetInv => WidgetsAreReady
  BY DEF WidgetInv, ElementIsTaken, HandlersAreBound, HandlersOf, Unbound,
         WidgetsAreReady, Widgets!WidgetsAreReady, Widgets!Resting
<1> QED BY WidgetInit, <1>1, <1>2, PTL DEF Widgets!Spec
=============================================================================
