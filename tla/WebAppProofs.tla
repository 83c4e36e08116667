---------------------------- MODULE WebAppProofs ----------------------------
(***************************************************************************)
(* Theorems about one request of a site, for any number of turns of the    *)
(* dispatch loop and any places that throw: no exception is lost, none is  *)
(* hidden behind a page that says all is well, and no turn is taken        *)
(* without an exception that was not seen before.                          *)
(***************************************************************************)
EXTENDS WebApp, FiniteSetTheorems, TLAPS

Exceptions == [place : Places \cup Own, wraps : Nat]

\* Where an exception is on its way.
Caught == {"dispatchError", "decide", "catch", "log", "handleException"}
Labels == {"boot", "route", "loop", "act", "render", "send", "dump", "tell", "done"} \cup Caught

\* The exceptions: the last one is on its way, if one is.
ExceptionsOK ==
  /\ thrown \in Seq(Exceptions)
  /\ exc = Len(thrown)
  /\ logged \subseteq 1..Len(thrown)
  /\ pc \in Caught => thrown # <<>>

\* The rest: the loop counts a turn only after it has looked at the limit.
ControlOK ==
  /\ pc \in Labels
  /\ i \in 0..NumOfIterations
  /\ pc \in {"act", "render", "dispatchError", "decide"} => i < NumOfIterations
  /\ handler \in {"none", "action", "error"} /\ status \in Statuses
  /\ thrownExceptions \subseteq Places \cup Own
  /\ shown \in {"nothing", "page", "dump", "message", "exception"} /\ sentStatus \in Statuses

Typed == ExceptionsOK /\ ControlOK /\ isHandled \in BOOLEAN

LEMMA TypedIsTypeOK == Typed => TypeOK
<1> SUFFICES ASSUME Typed PROVE TypeOK
  OBVIOUS
<1>1. thrown \in Seq([place : Places \cup Own, wraps : Nat]) /\ exc \in 0..Len(thrown)
  BY DEF Typed, ExceptionsOK, Exceptions
<1> QED
  BY <1>1 DEF Typed, ExceptionsOK, ControlOK, TypeOK, Labels, Caught

-----------------------------------------------------------------------------
(* What it means to throw.                                                 *)

LEMMA ThrowAppends ==
  ASSUME ExceptionsOK, NEW place \in Places \cup Own, NEW wraps \in Nat, NEW catch,
         Throw(place, wraps, catch)
  PROVE  /\ thrown' \in Seq(Exceptions)
         /\ Len(thrown) \in Nat /\ Len(thrown') = Len(thrown) + 1
         /\ exc' = Len(thrown')
         /\ thrown'[exc'] = [place |-> place, wraps |-> wraps]
         /\ \A e \in 1..Len(thrown) : thrown'[e] = thrown[e]
<1>1. thrown \in Seq(Exceptions) /\ [place |-> place, wraps |-> wraps] \in Exceptions
  BY DEF ExceptionsOK, Exceptions
<1>2. thrown' = Append(thrown, [place |-> place, wraps |-> wraps])
  BY DEF Throw
<1> QED
  BY <1>1, <1>2 DEF Throw

LEMMA CaughtPlace ==
  ASSUME ExceptionsOK, pc \in Caught
  PROVE  exc \in 1..Len(thrown) /\ Place(exc) \in Places \cup Own
<1>1. exc \in 1..Len(thrown) /\ thrown[exc] \in Exceptions
  BY DEF ExceptionsOK
<1> QED
  BY <1>1 DEF Exceptions, Place

\* A step that throws logs nothing; one that does not may log what was caught.
Throwing ==
  /\ \E place \in Places \cup Own, wraps \in {0, exc},
        catch \in {"dispatchError", "catch", "handleException"} : Throw(place, wraps, catch)
  /\ logged' = logged
Going ==
  /\ UNCHANGED <<thrown, exc>> /\ logged' \subseteq logged \cup {exc}
  /\ logged' # logged \/ pc' \in Caught => pc \in Caught

LEMMA ThrowsOrGoes == ASSUME Next PROVE Throwing \/ Going
<1> USE DEF Throwing, Going, Goes, Fails, Own, Caught
<1>1. CASE Boot \/ Route \/ Render \/ Send
  BY <1>1 DEF Boot, Route, Render, Send
<1>2. CASE Iterate
  BY <1>2 DEF Iterate
<1>3. CASE Act
  BY <1>3 DEF Act
<1>4. CASE LogDispatchError \/ Catch \/ LogListener
  BY <1>4 DEF LogDispatchError, Catch, LogListener
<1>5. CASE Decide
  BY <1>5 DEF Decide, ToErrorAction
<1>6. CASE DumpListener \/ Tell \/ HandleException
  BY <1>6 DEF DumpListener, Tell, HandleException
<1> QED
  BY <1>1, <1>2, <1>3, <1>4, <1>5, <1>6 DEF Next

-----------------------------------------------------------------------------
(* Types and the limit of turns.                                           *)

LEMMA InitTyped == Init => Typed
<1> SUFFICES ASSUME Init PROVE Typed
  OBVIOUS
<1>1. ExceptionsOK
  BY DEF Init, ExceptionsOK, Caught
<1>2. ControlOK
  BY WebAppAssumption DEF Init, ControlOK, Labels, Statuses
<1>3. isHandled \in BOOLEAN
  BY Zenon DEF Init
<1> QED
  BY <1>1, <1>2, <1>3 DEF Typed

LEMMA ExceptionsTyped == ASSUME Typed, Next PROVE ExceptionsOK'
<1>1. ExceptionsOK
  BY DEF Typed
<1>2. CASE Throwing
  <2>1. PICK place \in Places \cup Own, wraps \in {0, exc},
             catch \in {"dispatchError", "catch", "handleException"} :
               Throw(place, wraps, catch)
    BY <1>2 DEF Throwing
  <2>2. wraps \in Nat
    BY <1>1, <2>1 DEF ExceptionsOK
  <2>3. /\ thrown' \in Seq(Exceptions)
        /\ Len(thrown) \in Nat /\ Len(thrown') = Len(thrown) + 1
        /\ exc' = Len(thrown')
    BY <1>1, <2>1, <2>2, ThrowAppends
  <2> QED
    BY <1>1, <1>2, <2>3 DEF ExceptionsOK, Throwing
<1>3. CASE Going
  BY <1>1, <1>3 DEF Going, ExceptionsOK
<1> QED
  BY <1>2, <1>3, ThrowsOrGoes

LEMMA ControlTyped == ASSUME ExceptionsOK, ControlOK, Next PROVE ControlOK'
<1>0. /\ \A place, wraps, catch : Throw(place, wraps, catch) => pc' = catch
      /\ \A catch : Fails(catch) => pc' = catch
      /\ \A next : Goes(next) => pc' = next
  BY DEF Throw, Fails, Goes
<1> USE <1>0, WebAppAssumption DEF ControlOK, Labels, Caught, Statuses, request, client, Own
<1>1. CASE Boot \/ Route
  BY <1>1 DEF Boot, Route
<1>2. CASE Iterate
  BY <1>2 DEF Iterate
<1>3. CASE Act
  BY <1>3 DEF Act
<1>4. CASE Render \/ Send
  BY <1>4 DEF Render, Send
<1>5. CASE LogDispatchError \/ Catch \/ LogListener
  BY <1>5 DEF LogDispatchError, Catch, LogListener
<1>6. CASE Decide
  <2>1. Place(exc) \in Places \cup Own
    BY <1>6, CaughtPlace DEF Decide
  <2> QED BY <1>6, <2>1 DEF Decide, ToErrorAction
<1>7. CASE DumpListener \/ Tell \/ HandleException
  BY <1>7 DEF DumpListener, Tell, HandleException
<1> QED
  BY <1>1, <1>2, <1>3, <1>4, <1>5, <1>6, <1>7 DEF Next

LEMMA HandledTyped == ASSUME isHandled \in BOOLEAN, Next PROVE isHandled' \in BOOLEAN
<1>1. CASE Boot \/ Route \/ Iterate \/ Act \/ Render \/ Send
  BY <1>1, Zenon DEF Boot, Route, Iterate, Act, Render, Send, request
<1>2. CASE \/ LogDispatchError \/ Decide
           \/ Catch \/ LogListener \/ DumpListener \/ Tell \/ HandleException
  BY <1>2, Zenon DEF LogDispatchError, Decide, ToErrorAction, Catch, LogListener,
                     DumpListener, Tell, HandleException, request
<1> QED
  BY <1>1, <1>2, Zenon DEF Next

\* The types, and that the loop never counts beyond its limit.
THEOREM TypeInvariant == Spec => []Typed
<1>1. Typed /\ [Next]_vars => Typed'
  <2>1. CASE Next
    BY <2>1, ExceptionsTyped, ControlTyped, HandledTyped DEF Typed
  <2>2. CASE UNCHANGED vars
    BY <2>2 DEF vars, request, client, Typed, ExceptionsOK, ControlOK
  <2> QED BY <2>1, <2>2
<1> QED
  BY InitTyped, <1>1, PTL DEF Spec

(* The types of the state of a request, for any places and any limit of    *)
(* turns: the loop of Dispatcher never counts beyond it.                   *)
THEOREM TypeCorrect == Spec => []TypeOK
  BY TypeInvariant, TypedIsTypeOK, PTL

-----------------------------------------------------------------------------
(* Turns.                                                                  *)

Turning == {"boot", "route", "loop", "act", "render", "dispatchError", "decide"}

Turns ==
  /\ IsFiniteSet(thrownExceptions)
  /\ pc \in Turning => i = Cardinality(thrownExceptions)

\* Only the error action begins another turn; all else that changes the turn
\* or leads into it has ended it.
LEMMA TurnBegins ==
  ASSUME Next, pc' \in Turning
  PROVE  \/ pc \in Turning /\ UNCHANGED <<i, thrownExceptions>>
         \/ /\ pc = "decide" /\ i' = i + 1
            /\ Place(exc) \notin thrownExceptions
            /\ thrownExceptions' = thrownExceptions \cup {Place(exc)}
<1>0. /\ \A place, wraps, catch : Throw(place, wraps, catch) => pc' = catch
      /\ \A catch : Fails(catch) => pc' = catch
      /\ \A next : Goes(next) => pc' = next
  BY DEF Throw, Fails, Goes
<1> USE <1>0 DEF Turning
<1>1. CASE Boot \/ Route \/ Iterate \/ Act
  BY <1>1 DEF Boot, Route, Iterate, Act
<1>2. CASE Render \/ Send \/ LogDispatchError
  BY <1>2 DEF Render, Send, LogDispatchError
<1>3. CASE Decide
  BY <1>3 DEF Decide, ToErrorAction
<1>4. CASE Catch \/ LogListener \/ DumpListener \/ Tell \/ HandleException
  BY <1>4 DEF Catch, LogListener, DumpListener, Tell, HandleException
<1> QED
  BY <1>1, <1>2, <1>3, <1>4 DEF Next

LEMMA PlacesStayFinite ==
  ASSUME Next, IsFiniteSet(thrownExceptions)
  PROVE  IsFiniteSet(thrownExceptions')
<1>1. thrownExceptions' \in {thrownExceptions, thrownExceptions \cup {Place(exc)}}
  BY DEF Next, Boot, Route, Iterate, Act, Render, Send, LogDispatchError, Decide,
         ToErrorAction, Catch, LogListener, DumpListener, Tell, HandleException
<1> QED
  BY <1>1, FS_AddElement

(* However often actions, the error action among them, fail in one         *)
(* request: each turn of the loop after the first goes with a place that   *)
(* was not known to throw, for any number of places and any limit.         *)
THEOREM NoTurnIsRepeated == Spec => []TurnsAreOwed
<1>1. Init => Turns
  BY FS_EmptySet DEF Init, Turns
<1>2. Turns /\ [Next]_vars => Turns'
  <2> SUFFICES ASSUME Turns, [Next]_vars PROVE Turns'
    OBVIOUS
  <2>1. CASE Next
    <3>1. IsFiniteSet(thrownExceptions')
      BY <2>1, PlacesStayFinite DEF Turns
    <3>2. ASSUME pc' \in Turning PROVE i' = Cardinality(thrownExceptions')
      <4>1. CASE pc \in Turning /\ UNCHANGED <<i, thrownExceptions>>
        BY <4>1 DEF Turns
      <4>2. CASE /\ pc = "decide" /\ i' = i + 1
                 /\ Place(exc) \notin thrownExceptions
                 /\ thrownExceptions' = thrownExceptions \cup {Place(exc)}
        BY <4>2, FS_AddElement DEF Turns, Turning
      <4> QED
        BY <2>1, <3>2, <4>1, <4>2, TurnBegins
    <3> QED
      BY <3>1, <3>2 DEF Turns
  <2>2. CASE UNCHANGED vars
    BY <2>2 DEF vars, Turns
  <2> QED BY <2>1, <2>2
<1>3. Turns => TurnsAreOwed
  BY DEF Turns, Turning, TurnsAreOwed
<1> QED
  BY <1>1, <1>2, <1>3, PTL DEF Spec

-----------------------------------------------------------------------------
(* Pages.                                                                  *)

Apart(t, n) == \A e, f \in 1..n : t[e].place = t[f].place => e = f

\* The first n exceptions of t come from as many places, those of T.
Known(T, t, n) == T = {t[e].place : e \in 1..n} /\ Apart(t, n)

Quiet == {"boot", "route", "loop", "act", "render", "send"}

\* All exceptions are remembered while none is on its way, all but that one
\* when one is; the first of them made the error action the handler, which
\* began with the status of an error.
Honest ==
  /\ pc \in {"boot", "route"} => thrown = <<>>
  /\ pc \in Quiet => Known(thrownExceptions, thrown, Len(thrown))
  /\ pc \in {"dispatchError", "decide"} => Known(thrownExceptions, thrown, Len(thrown) - 1)
  /\ pc \in Quiet /\ thrown # <<>> => handler = "error"
  /\ pc \in Quiet \cup {"dispatchError", "decide"} /\ handler = "error" => status = "serverError"
  /\ shown = "page" =>
       /\ pc = "done"
       /\ thrown # <<>> => sentStatus = "serverError"
       /\ Apart(thrown, Len(thrown))

\* One more exception leaves those before it known.
LEMMA KnownStays ==
  ASSUME ExceptionsOK, NEW catch, Fails(catch), Known(thrownExceptions, thrown, Len(thrown))
  PROVE  Known(thrownExceptions, thrown', Len(thrown') - 1)
<1>1. PICK place \in Places : Throw(place, 0, catch)
  BY DEF Fails
<1>2. /\ Len(thrown) \in Nat /\ Len(thrown') = Len(thrown) + 1
      /\ \A e \in 1..Len(thrown) : thrown'[e] = thrown[e]
  BY <1>1, ThrowAppends
<1>3. Len(thrown') - 1 = Len(thrown)
  BY <1>2
<1> QED
  BY <1>2, <1>3 DEF Known, Apart

\* An exception from a place that is not known yet becomes a known one.
LEMMA KnownGrows ==
  ASSUME ExceptionsOK, pc \in Caught, Place(exc) \notin thrownExceptions,
         Known(thrownExceptions, thrown, Len(thrown) - 1)
  PROVE  Known(thrownExceptions \cup {Place(exc)}, thrown, Len(thrown))
<1>1. Len(thrown) \in Nat /\ exc = Len(thrown) /\ exc \in 1..Len(thrown)
  BY CaughtPlace DEF ExceptionsOK
<1>2. 1..Len(thrown) = (1..(Len(thrown) - 1)) \cup {exc}
  BY <1>1
<1> QED
  BY <1>1, <1>2 DEF Known, Apart, Place

LEMMA QuietHonest ==
  ASSUME Typed, Honest, Boot \/ Route \/ Iterate \/ Act \/ Render \/ Send
  PROVE  Honest'
<1>0. ExceptionsOK /\ status \in Statuses
  BY DEF Typed, ControlOK
<1>1. /\ \A place, wraps, catch : Throw(place, wraps, catch) => pc' = catch
      /\ \A catch : Fails(catch) => pc' = catch
      /\ \A next : Goes(next) => pc' = next /\ thrown' = thrown
  BY DEF Throw, Fails, Goes
<1>2. pc \in Quiet /\ Known(thrownExceptions, thrown, Len(thrown)) /\ shown # "page"
  BY DEF Boot, Route, Iterate, Act, Render, Send, Honest, Quiet
<1>3. thrownExceptions' = thrownExceptions
  BY DEF Boot, Route, Iterate, Act, Render, Send
<1>4. ASSUME NEW catch, Fails(catch)
      PROVE  Known(thrownExceptions', thrown', Len(thrown') - 1)
  BY <1>0, <1>2, <1>3, <1>4, KnownStays
<1> USE <1>1 DEF Quiet, request, client
<1>5. CASE Boot
  BY <1>2, <1>3, <1>5 DEF Boot, Honest
<1>6. CASE Route
  BY <1>2, <1>3, <1>6 DEF Route, Honest
<1>7. CASE Iterate
  BY <1>2, <1>3, <1>7 DEF Iterate, Honest
<1>8. CASE Act
  <2>1. CASE Goes("render") /\ isHandled' = TRUE
    <3>1. /\ pc = "act" /\ UNCHANGED <<handler, client>>
          /\ status' \in IF handler = "error" THEN {status, "serverError"}
                                              ELSE Statuses \ {"serverError"}
      <4>1. ~Fails("dispatchError")
        BY <2>1
      <4> QED
        BY <1>8, <4>1, Zenon DEF Act
    <3>2. handler = "error" => status' = "serverError"
      BY <3>1 DEF Honest
    <3> QED
      BY <1>2, <1>3, <2>1, <3>1, <3>2 DEF Honest
  <2>2. CASE Fails("dispatchError") /\ UNCHANGED <<isHandled, status>>
    BY <1>2, <1>3, <1>4, <1>8, <2>2 DEF Act, Honest
  <2> QED BY <1>8, <2>1, <2>2 DEF Act
<1>9. CASE Render
  BY <1>2, <1>3, <1>4, <1>9 DEF Render, Honest
<1>10. CASE Send
  BY <1>2, <1>3, <1>10 DEF Send, Honest, Known
<1> QED
  BY <1>5, <1>6, <1>7, <1>8, <1>9, <1>10

LEMMA LoudHonest ==
  ASSUME Typed, Honest,
         \/ LogDispatchError \/ Decide
         \/ Catch \/ LogListener \/ DumpListener \/ Tell \/ HandleException
  PROVE  Honest'
<1>0. ExceptionsOK
  BY DEF Typed
<1>1. /\ \A place, wraps, catch : Throw(place, wraps, catch) => pc' = catch
      /\ \A next : Goes(next) => pc' = next /\ thrown' = thrown
  BY DEF Throw, Goes
<1>2. shown # "page" /\ shown' # "page"
  BY DEF LogDispatchError, Decide, Catch, LogListener, DumpListener, Tell, HandleException,
         Honest, client
<1> USE <1>1, <1>2 DEF Quiet, request, client
<1>3. CASE LogDispatchError
  BY <1>3 DEF LogDispatchError, Honest
<1>4. CASE Decide
  <2>1. CASE pc' = "catch"
    BY <2>1 DEF Honest
  <2>2. CASE /\ Place(exc) \notin thrownExceptions
             /\ thrownExceptions' = thrownExceptions \cup {Place(exc)}
             /\ ToErrorAction
    <3>1. Known(thrownExceptions', thrown, Len(thrown))
      BY <1>0, <1>4, <2>2, KnownGrows DEF Decide, Honest, Caught
    <3> QED
      BY <2>2, <3>1 DEF ToErrorAction, Honest
  <2> QED BY <1>4, <2>1, <2>2 DEF Decide
<1>5. CASE Catch \/ LogListener \/ DumpListener \/ Tell \/ HandleException
  BY <1>5 DEF Catch, LogListener, DumpListener, Tell, HandleException, Honest
<1> QED
  BY <1>3, <1>4, <1>5

(* Any exception that is not the last word leaves its mark on the page: it *)
(* has the status of an error, and there is none when a place threw twice. *)
THEOREM NoPageHidesErrors == Spec => []ErrorsShow
<1>1. Init => Honest
  BY DEF Init, Honest, Known, Apart, Quiet
<1>2. Typed /\ Honest /\ [Next]_vars => Honest'
  <2>1. ASSUME Typed, Honest, UNCHANGED vars PROVE Honest'
    BY <2>1 DEF vars, request, client, Honest
  <2> QED BY <2>1, QuietHonest, LoudHonest DEF Next
<1>3. Honest => ErrorsShow
  BY DEF Honest, ErrorsShow, Apart, Place
<1> QED
  BY <1>1, <1>2, <1>3, TypeInvariant, PTL DEF Spec

-----------------------------------------------------------------------------
(* Logs.                                                                   *)

Lost == (1..Len(thrown)) \ Covered

\* Labels at which the exception on its way is not in a log yet.
Pending == {"dispatchError", "catch", "log", "handleException"}

\* As long as loggers work nothing is lost but what is on its way to them.
Recorded ==
  ~conf.fallible =>
    /\ pc \in Pending => Lost \subseteq {exc}
    /\ pc \notin Pending \cup {"done"} => Lost = {}
    /\ pc = "done" /\ conf.log => Lost = {}

LEMMA ThrowLoses ==
  ASSUME ExceptionsOK, Throwing, Lost = {}
  PROVE  Lost' \subseteq {exc'}
<1>1. PICK place \in Places \cup Own, wraps \in {0, exc},
           catch \in {"dispatchError", "catch", "handleException"} :
             Throw(place, wraps, catch)
  BY DEF Throwing
<1>2. wraps \in Nat
  BY <1>1 DEF ExceptionsOK
<1>3. /\ Len(thrown) \in Nat /\ Len(thrown') = Len(thrown) + 1
      /\ exc' = Len(thrown')
      /\ \A e \in 1..Len(thrown) : thrown'[e] = thrown[e]
  BY <1>1, <1>2, ThrowAppends
<1>4. logged' = logged /\ logged \subseteq 1..Len(thrown)
  BY DEF Throwing, ExceptionsOK
<1>5. Covered \subseteq Covered'
  BY <1>3, <1>4 DEF Covered
<1> QED
  BY <1>3, <1>5 DEF Lost

LEMMA GoingFinds ==
  ASSUME UNCHANGED thrown, logged \subseteq logged'
  PROVE  /\ Lost' \subseteq Lost
         /\ exc \in logged' => exc \notin Lost'
BY DEF Lost, Covered

LEMMA StepRecords == ASSUME Typed, Recorded, Next PROVE Recorded'
<1>0. ExceptionsOK
  BY DEF Typed
<1>1. conf' = conf
  BY DEF Next, Boot, Route, Iterate, Act, Render, Send, LogDispatchError, Decide, Catch,
         LogListener, DumpListener, Tell, HandleException
<1> SUFFICES ASSUME ~conf.fallible
             PROVE  /\ pc' \in Pending => Lost' \subseteq {exc'}
                    /\ pc' \notin Pending \cup {"done"} => Lost' = {}
                    /\ pc' = "done" /\ conf.log => Lost' = {}
  BY <1>1 DEF Recorded
<1>2. /\ \A place, wraps, catch : Throw(place, wraps, catch) => pc' = catch
      /\ \A catch : Fails(catch) => pc' = catch
      /\ \A next : Goes(next) => UNCHANGED <<thrown, exc>> /\ pc' = next
  BY DEF Throw, Fails, Goes
<1>3. CASE Boot \/ Route \/ Iterate \/ Act \/ Render \/ Send \/ Decide
  <2>1. Lost = {} /\ logged' = logged
    BY <1>3 DEF Recorded, Pending, Boot, Route, Iterate, Act, Render, Send, Decide
  <2>2. CASE Throwing
    <3>1. pc' \in Pending
      BY <2>2, <1>2 DEF Throwing, Pending
    <3> QED
      BY <1>0, <2>1, <2>2, <3>1, ThrowLoses DEF Pending
  <2>3. CASE Going
    BY <2>1, <2>3, GoingFinds DEF Going
  <2> QED BY <2>2, <2>3, ThrowsOrGoes
<1>4. CASE LogDispatchError \/ LogListener
  <2>1. /\ Lost \subseteq {exc} /\ UNCHANGED <<thrown, exc>>
        /\ logged' = logged \cup {exc}
    BY <1>2, <1>4 DEF Recorded, Pending, LogDispatchError, LogListener
  <2> QED
    BY <2>1, GoingFinds
<1>5. CASE Catch
  <2>1. /\ Lost \subseteq {exc} /\ UNCHANGED <<thrown, exc, logged>>
        /\ pc' = "log"
    BY <1>2, <1>5 DEF Recorded, Pending, Catch
  <2> QED
    BY <2>1, GoingFinds DEF Pending
<1>6. CASE DumpListener \/ Tell
  <2>1. Lost = {} /\ UNCHANGED <<thrown, exc, logged>>
    BY <1>2, <1>6 DEF Recorded, Pending, DumpListener, Tell
  <2> QED
    BY <2>1, GoingFinds
<1>7. CASE HandleException
  <2>1. /\ Lost \subseteq {exc} /\ UNCHANGED <<thrown, exc>> /\ pc' = "done"
        /\ logged \subseteq logged'
        /\ conf.log => exc \in logged'
    BY <1>2, <1>7 DEF Recorded, Pending, HandleException
  <2> QED
    BY <2>1, GoingFinds DEF Pending
<1> QED
  BY <1>3, <1>4, <1>5, <1>6, <1>7 DEF Next

(* While loggers work, every exception of a request is in a log when it is *)
(* over, itself or in the one that wraps it, whatever else went wrong.     *)
THEOREM NothingIsLost == Spec => []NothingUnlogged
<1>1. Init => Recorded
  BY DEF Init, Recorded, Lost, Covered, Pending
<1>2. Typed /\ Recorded /\ [Next]_vars => Recorded'
  <2>1. ASSUME Recorded, UNCHANGED vars PROVE Recorded'
    BY <2>1 DEF vars, Recorded, Lost, Covered
  <2> QED BY <2>1, StepRecords
<1>3. Recorded => NothingUnlogged
  BY DEF Recorded, NothingUnlogged, Lost, Done
<1> QED
  BY <1>1, <1>2, <1>3, TypeInvariant, PTL DEF Spec

(* Also when loggers fail: unless both settings of PHP are off, a request  *)
(* with an exception ends with something for the client to see or with its *)
(* last exception in a log.                                                *)
THEOREM NoSilentFailure == Spec => []FailureIsKnown
<1>1. Init => FailureIsKnown
  BY DEF Init, FailureIsKnown
<1>2. FailureIsKnown /\ [Next]_vars => FailureIsKnown'
  <2> SUFFICES ASSUME FailureIsKnown, [Next]_vars, Done', (conf.display \/ conf.log)'
               PROVE  \/ ~(thrown' # <<>>)
                      \/ shown' \in {"page", "dump", "message", "exception"}
                      \/ exc' \in logged'
    BY DEF FailureIsKnown
  <2>1. /\ \A place, wraps, catch : Throw(place, wraps, catch) => pc' = catch
        /\ \A catch : Fails(catch) => pc' = catch
        /\ \A next : Goes(next) => pc' = next /\ exc' = exc
    BY DEF Throw, Fails, Goes
  <2> USE <2>1 DEF Done
  <2>2. CASE Boot \/ Route \/ Iterate \/ Act \/ Render
    BY <2>2 DEF Boot, Route, Iterate, Act, Render
  <2>3. CASE LogDispatchError \/ Decide \/ Catch \/ LogListener
    BY <2>3 DEF LogDispatchError, Decide, ToErrorAction, Catch, LogListener
  <2>4. CASE Send \/ DumpListener \/ Tell
    BY <2>4 DEF Send, DumpListener, Tell
  <2>5. CASE HandleException
    BY <2>5 DEF HandleException
  <2>6. CASE UNCHANGED vars
    BY <2>6 DEF vars, client, FailureIsKnown
  <2> QED BY <2>2, <2>3, <2>4, <2>5, <2>6 DEF Next
<1> QED
  BY <1>1, <1>2, PTL DEF Spec
=============================================================================
