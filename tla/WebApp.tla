------------------------------- MODULE WebApp -------------------------------
(***************************************************************************)
(* One request of a web site: App::__invoke() routes it, Dispatcher runs   *)
(* the action and renders its result, DispatchErrorHandler turns an        *)
(* exception into another turn of the loop with the error action, and what *)
(* escapes goes to the listeners of ErrorHandler or, at last, to           *)
(* App::handleException().  Code that this module does not look into may   *)
(* throw an exception from any place, any number of times.                 *)
(***************************************************************************)
EXTENDS Integers, FiniteSets, Sequences

CONSTANTS Places,           \* where code of the site throws: file and line
          NumOfIterations   \* $numOfIterations of Dispatcher

ASSUME WebAppAssumption == NumOfIterations \in Nat \ {0}

\* Places in the modelled code itself
Own == {"loopOfDispatcher", "exceptionLoop", "emptyHandler", "logger", "errorHandler"}
Statuses == {"ok", "redirect", "clientError", "serverError"}

VARIABLES conf,        \* of the site: see Init
          pc, i,
          isHandled, handler, status,    \* of the request and its response
          thrownExceptions,              \* the places of $thrownExceptions
          thrown,      \* every exception: its place, and the one it wraps
          exc,         \* the exception on its way, an index of thrown
          logged,      \* the exceptions that reached a log
          shown,       \* what the client gets
          sentStatus   \* with which status

request == <<isHandled, handler, status>>
client == <<shown, sentStatus>>
vars == <<conf, pc, i, request, thrownExceptions, thrown, exc, logged, client>>

Init ==
  /\ conf \in [throwErrors : BOOLEAN, exceptionHandler : BOOLEAN, dumpListener : BOOLEAN,
               fallible : BOOLEAN,   \* loggers and the error handler may fail
               display : BOOLEAN, log : BOOLEAN]
  /\ pc = "boot" /\ i = 0
  /\ isHandled = FALSE /\ handler = "none" /\ status = "ok"
  /\ thrownExceptions = {} /\ thrown = <<>> /\ exc = 0 /\ logged = {}
  /\ shown = "nothing" /\ sentStatus = "ok"

\* An exception is thrown at place and caught at the label catch.
Throw(place, wraps, catch) ==
  /\ thrown' = Append(thrown, [place |-> place, wraps |-> wraps])
  /\ exc' = Len(thrown) + 1
  /\ pc' = catch

\* The code of a site runs between two labels: it gets to the next or throws.
Fails(catch) == \E place \in Places : Throw(place, 0, catch)
Goes(next) == pc' = next /\ UNCHANGED <<thrown, exc>>

Boot ==
  /\ pc = "boot"
  /\ Goes("route") \/ Fails("handleException")
  /\ UNCHANGED <<conf, i, request, thrownExceptions, logged, client>>

Route ==
  /\ pc = "route"
  /\ \/ Goes("loop") /\ handler' = "action"
     \/ Fails("catch") /\ handler' = handler
  /\ UNCHANGED <<conf, i, isHandled, status, thrownExceptions, logged, client>>

Iterate ==
  /\ pc = "loop"
  /\ isHandled' = FALSE
  /\ IF i >= NumOfIterations THEN Throw("loopOfDispatcher", 0, "catch") ELSE Goes("act")
  /\ UNCHANGED <<conf, i, handler, status, thrownExceptions, logged, client>>

\* The action returns a result or a response with a status of its own; the
\* error action leaves the status or sets it.
Act ==
  /\ pc = "act"
  /\ \/ Goes("render") /\ isHandled' = TRUE
        /\ status' \in IF handler = "error" THEN {status, "serverError"} ELSE Statuses \ {"serverError"}
     \/ Fails("dispatchError") /\ UNCHANGED <<isHandled, status>>
  /\ UNCHANGED <<conf, i, handler, thrownExceptions, logged, client>>

\* Mutant: the loop goes on as long as the request is handled, and $i stays.
RenderLoops ==
  /\ pc = "render"
  /\ Goes("loop") \/ (status # "redirect" /\ Fails("dispatchError"))
  /\ UNCHANGED <<conf, i, request, thrownExceptions, logged, client>>

\* afterDispatch(): ResultRenderer renders anything but a redirect.
Render ==
  /\ pc = "render"
  /\ \/ Goes("send") /\ i' = i + 1
     \/ status # "redirect" /\ Fails("dispatchError") /\ i' = i
  /\ UNCHANGED <<conf, request, thrownExceptions, logged, client>>

\* The first step of DispatchErrorHandler: logError().
LogDispatchError ==
  /\ pc = "dispatchError"
  /\ \/ Goes("decide") /\ logged' = logged \cup {exc}
     \/ conf.fallible /\ Throw("logger", 0, "catch") /\ logged' = logged
  /\ UNCHANGED <<conf, i, request, thrownExceptions, client>>

Place(e) == thrown[e].place

ToErrorAction ==
  /\ handler' = "error"
  /\ isHandled' = FALSE
  /\ status' = "serverError"
  /\ i' = i + 1
  /\ Goes("loop")

\* Mutant: the exception is not remembered.
DecideForgets ==
  /\ pc = "decide"
  /\ ~conf.throwErrors /\ conf.exceptionHandler
  /\ thrownExceptions' = thrownExceptions
  /\ ToErrorAction
  /\ UNCHANGED <<conf, logged, client>>

\* Mutant: the status of the response stays.
DecideKeepsStatus ==
  /\ pc = "decide"
  /\ ~conf.throwErrors /\ conf.exceptionHandler
  /\ Place(exc) \notin thrownExceptions
  /\ thrownExceptions' = thrownExceptions \cup {Place(exc)}
  /\ handler' = "error" /\ isHandled' = FALSE /\ i' = i + 1
  /\ Goes("loop")
  /\ UNCHANGED <<conf, status, logged, client>>

\* The rest of it: throw the exception again, give up, or run the error action.
Decide ==
  /\ pc = "decide"
  /\ \/ /\ conf.throwErrors
        /\ Goes("catch") /\ UNCHANGED <<i, request, thrownExceptions>>
     \/ /\ ~conf.throwErrors /\ ~conf.exceptionHandler
        /\ Throw("emptyHandler", 0, "catch") /\ UNCHANGED <<i, request, thrownExceptions>>
     \/ /\ ~conf.throwErrors /\ conf.exceptionHandler
        /\ Place(exc) \in thrownExceptions
        /\ Throw("exceptionLoop", exc, "catch") /\ UNCHANGED <<i, request, thrownExceptions>>
     \/ /\ ~conf.throwErrors /\ conf.exceptionHandler
        /\ Place(exc) \notin thrownExceptions
        /\ thrownExceptions' = thrownExceptions \cup {Place(exc)}
        /\ ToErrorAction
  /\ UNCHANGED <<conf, logged, client>>

\* Response::send(): header() fails when there is output already.
Send ==
  /\ pc = "send"
  /\ \/ Goes("done") /\ shown' = "page" /\ sentStatus' = status
     \/ Fails("catch") /\ UNCHANGED client
  /\ UNCHANGED <<conf, i, request, thrownExceptions, logged>>

\* App::__invoke() caught it and asks for the service that handles errors.
Catch ==
  /\ pc = "catch"
  /\ Goes("log") \/ (conf.fallible /\ Throw("errorHandler", 0, "handleException"))
  /\ UNCHANGED <<conf, i, request, thrownExceptions, logged, client>>

\* Mutant: the listener that dumps and exits is before the one that logs.
LogListenerLast ==
  /\ pc = "log"
  /\ IF conf.dumpListener THEN logged' = logged ELSE logged' = logged \cup {exc}
  /\ Goes("dump")
  /\ UNCHANGED <<conf, i, request, thrownExceptions, client>>

LogListener ==
  /\ pc = "log"
  /\ \/ Goes("dump") /\ logged' = logged \cup {exc}
     \/ conf.fallible /\ Throw("logger", 0, "handleException") /\ logged' = logged
  /\ UNCHANGED <<conf, i, request, thrownExceptions, client>>

\* DumpListener exits: the listener after it does not run.
DumpListener ==
  /\ pc = "dump"
  /\ IF conf.dumpListener THEN Goes("done") /\ shown' = "dump" ELSE Goes("tell") /\ shown' = shown
  /\ UNCHANGED <<conf, i, request, thrownExceptions, logged, sentStatus>>

\* The listener of Web\ErrorHandler: a status line and a message.
Tell ==
  /\ pc = "tell"
  /\ Goes("done") /\ shown' = "message" /\ sentStatus' \in {"clientError", "serverError"}
  /\ UNCHANGED <<conf, i, request, thrownExceptions, logged>>

\* Mutant: both settings are asked for by either way.
HandleExceptionBoth ==
  /\ pc = "handleException"
  /\ Goes("done")
  /\ shown' = IF conf.display /\ conf.log THEN "exception" ELSE shown
  /\ logged' = IF conf.display /\ conf.log THEN logged \cup {exc} ELSE logged
  /\ UNCHANGED <<conf, i, request, thrownExceptions, sentStatus>>

HandleException ==
  /\ pc = "handleException"
  /\ Goes("done")
  /\ shown' = IF conf.display THEN "exception" ELSE shown
  /\ logged' = IF conf.log THEN logged \cup {exc} ELSE logged
  /\ UNCHANGED <<conf, i, request, thrownExceptions, sentStatus>>

Next ==
  \/ Boot \/ Route \/ Iterate \/ Act \/ Render \/ Send
  \/ LogDispatchError \/ Decide
  \/ Catch \/ LogListener \/ DumpListener \/ Tell \/ HandleException

Spec == Init /\ [][Next]_vars

\* The process that serves the request runs.
FairSpec == Spec /\ WF_vars(Next)

-----------------------------------------------------------------------------
(* Properties                                                              *)

TypeOK ==
  /\ pc \in {"boot", "route", "loop", "act", "render", "dispatchError", "decide", "send",
             "catch", "log", "dump", "tell", "handleException", "done"}
  /\ i \in 0..NumOfIterations
  /\ isHandled \in BOOLEAN /\ handler \in {"none", "action", "error"} /\ status \in Statuses
  /\ thrownExceptions \subseteq Places \cup Own
  /\ thrown \in Seq([place : Places \cup Own, wraps : Nat])
  /\ exc \in 0..Len(thrown) /\ logged \subseteq 1..Len(thrown)
  /\ shown \in {"nothing", "page", "dump", "message", "exception"} /\ sentStatus \in Statuses

Done == pc = "done"

\* Each turn of the loop after the first is owed to an exception from a place
\* that threw none before: an action that fails over and over is not retried.
TurnsAreOwed ==
  pc \in {"loop", "act", "dispatchError", "decide"} => i = Cardinality(thrownExceptions)

\* After any exception the client never gets a page that says all is well, and
\* gets a page at all only when no place has thrown twice.
ErrorsShow ==
  Done /\ thrown # <<>> /\ shown = "page" =>
    /\ sentStatus = "serverError"
    /\ \A e, f \in 1..Len(thrown) : Place(e) = Place(f) => e = f

\* An exception reached a log itself or as what another one wraps.
Covered == logged \cup {thrown[e].wraps : e \in logged}

\* No exception is lost: when loggers work, every exception of a request is
\* in a log when the request is over, whichever way it took.
NothingUnlogged ==
  Done /\ ~conf.fallible /\ conf.log => \A e \in 1..Len(thrown) : e \in Covered

\* When they do not, the client or the log of PHP gets to know of a failure.
FailureIsKnown ==
  Done /\ thrown # <<>> /\ (conf.display \/ conf.log) =>
    shown \in {"page", "dump", "message", "exception"} \/ exc \in logged

\* Every request comes to its end, whatever the actions throw.
Ends == <>Done

=============================================================================
