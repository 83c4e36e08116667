---------------------------- MODULE ErrorHandler ----------------------------
(***************************************************************************)
(* Tool/Php/ErrorHandler.php: objects that turn PHP errors into exceptions *)
(* and report what nobody caught.  They live on two stacks that PHP keeps  *)
(* (set_error_handler, set_exception_handler) and in the list of shutdown  *)
(* functions, from which nothing can be removed.  A program registers and  *)
(* unregisters handlers in any order, inside and outside of trackErrors(), *)
(* and ends with or without a fatal error.                                 *)
(***************************************************************************)
EXTENDS Integers, FiniteSets, Sequences, SequencesExt

CONSTANTS Handlers,       \* the ErrorHandler objects
          Base,           \* what handles errors before any of them
          Tracker,        \* the temporary handler of trackErrors()
          Tracks,         \* the program calls trackErrors()
          MaxTracks,      \* bound: calls of trackErrors() within each other
          MaxShutdown     \* bound: register() calls in the life of the program

ASSUME ErrorHandlerAssumption ==
  /\ IsFiniteSet(Handlers)
  /\ Base \notin Handlers /\ Tracker \notin Handlers /\ Base # Tracker
  /\ Tracks \in BOOLEAN
  /\ {MaxTracks, MaxShutdown} \subseteq Nat

VARIABLES errors,       \* the stack of error handlers, the active one last
          exceptions,   \* the stack of exception handlers
          registered,   \* objects whose $registered is true
          fatal,        \* objects whose $fatalErrorHandlerActive is true
          shutdown,     \* the shutdown functions still to run
          tracking,     \* trackErrors() calls that have not returned
          leaked,       \* trackErrors() calls left by an exception of $fn
          phase,        \* "runs", then the shutdown functions run: "ends",
                        \* or "dies" after a fatal error
          lastError,    \* error_get_last() is a fatal error
          reports       \* how often the fatal error went to the listeners

stacks == <<errors, exceptions>>
flags == <<registered, fatal>>
tracks == <<tracking, leaked>>
ending == <<phase, lastError, reports>>
vars == <<errors, exceptions, registered, fatal, shutdown, tracking, leaked, phase, lastError, reports>>

Init ==
  /\ errors = <<Base>> /\ exceptions = <<Base>>
  /\ registered = {} /\ fatal = {}
  /\ shutdown = <<>>
  /\ tracking = 0 /\ leaked = 0
  /\ phase = "runs" /\ lastError = FALSE /\ reports = 0

\* restore_error_handler() and restore_exception_handler()
Restore(stack) == IF Len(stack) > 1 THEN Front(stack) ELSE stack

\* Mutant: the exception handler is not restored.
UnregisterForgets(h) ==
  /\ phase = "runs" /\ h \in registered
  /\ errors' = errors
  /\ exceptions' = Restore(exceptions)
  /\ fatal' = fatal \ {h}
  /\ registered' = registered \ {h}
  /\ UNCHANGED <<shutdown, tracks, ending>>

\* Mutant: each registration keeps its own shutdown function going.
HandleFatalErrorKeeps ==
  /\ phase # "runs" /\ shutdown # <<>>
  /\ lastError' = lastError
  /\ shutdown' = Tail(shutdown)
  /\ reports' = IF lastError /\ Head(shutdown) \in fatal THEN reports + 1 ELSE reports
  /\ UNCHANGED <<stacks, flags, tracks, phase>>

Register(h) ==
  /\ phase = "runs" /\ h \notin registered
  /\ Len(shutdown) < MaxShutdown
  /\ exceptions' = Append(exceptions, h)
  /\ errors' = Append(errors, h)
  /\ shutdown' = Append(shutdown, h)
  /\ fatal' = fatal \cup {h}
  /\ registered' = registered \cup {h}
  /\ UNCHANGED <<tracks, ending>>

Unregister(h) ==
  /\ phase = "runs" /\ h \in registered
  /\ errors' = Restore(errors)
  /\ exceptions' = Restore(exceptions)
  /\ fatal' = fatal \ {h}
  /\ registered' = registered \ {h}
  /\ UNCHANGED <<shutdown, tracks, ending>>

\* trackErrors(): a handler around the call of a function
Track ==
  /\ Tracks /\ phase = "runs" /\ tracking + leaked < MaxTracks
  /\ errors' = Append(errors, Tracker)
  /\ tracking' = tracking + 1
  /\ UNCHANGED <<exceptions, leaked, flags, shutdown, ending>>

TrackReturns ==
  /\ phase = "runs" /\ tracking > 0
  /\ errors' = Restore(errors)
  /\ tracking' = tracking - 1
  /\ UNCHANGED <<exceptions, leaked, flags, shutdown, ending>>

\* The function throws: no try/finally restores the handler.
TrackThrows ==
  /\ phase = "runs" /\ tracking > 0
  /\ tracking' = tracking - 1
  /\ leaked' = leaked + 1
  /\ UNCHANGED <<stacks, flags, shutdown, ending>>

\* The program ends, with a fatal error or without.
End ==
  /\ phase = "runs"
  /\ phase' \in {"ends", "dies"}
  /\ lastError' = (phase' = "dies")
  /\ UNCHANGED <<stacks, flags, shutdown, tracks, reports>>

\* handleFatalError() of the next shutdown function: the error is cleared
\* first; the active handler reports it and exits, which is the end.
HandleFatalError ==
  /\ phase # "runs" /\ shutdown # <<>>
  /\ lastError' = FALSE
  /\ IF lastError /\ Head(shutdown) \in fatal
     THEN reports' = reports + 1 /\ shutdown' = <<>>
     ELSE reports' = reports /\ shutdown' = Tail(shutdown)
  /\ UNCHANGED <<stacks, flags, tracks, phase>>

Next ==
  \/ \E h \in Handlers : Register(h) \/ Unregister(h)
  \/ Track \/ TrackReturns \/ TrackThrows
  \/ End \/ HandleFatalError

Spec == Init /\ [][Next]_vars

-----------------------------------------------------------------------------
(* Properties                                                              *)

TypeOK ==
  /\ errors \in Seq(Handlers \cup {Base, Tracker})
  /\ exceptions \in Seq(Handlers \cup {Base})
  /\ registered \subseteq Handlers /\ fatal \subseteq Handlers
  /\ shutdown \in Seq(Handlers)
  /\ tracking \in Nat /\ leaked \in Nat
  /\ phase \in {"runs", "ends", "dies"} /\ lastError \in BOOLEAN /\ reports \in Nat

\* Whatever the order of the calls, even when handlers are not unregistered in
\* the reverse order of their registration: once none is registered and no
\* trackErrors() runs or was left by an exception, PHP is back at the handlers it had at the start.
RestoresOriginal ==
  registered = {} =>
    /\ exceptions = <<Base>>
    /\ tracking + leaked = 0 => errors = <<Base>>

\* The reason: the stacks are as high as what is installed, above the base.
Heights ==
  /\ Len(errors) = 1 + Cardinality(registered) + tracking + leaked
  /\ Len(exceptions) = 1 + Cardinality(registered)
  /\ errors[1] = Base /\ exceptions[1] = Base

\* The reason for the next one: what is still to be reported was not yet.
Unreported ==
  /\ phase = "runs" \/ lastError => reports = 0
  /\ reports \in {0, 1}

\* A fatal error is reported at most once, however often handlers were
\* registered, and only by a handler that still is.
FatalReportedOnce ==
  /\ reports <= 1
  /\ reports = 1 => fatal # {}

\* ErrorHandlerTest::testRegisterAndUnregister: while a handler is registered,
\* it is the one that handles errors and exceptions.
RegisteredIsActive ==
  \A h \in registered :
    phase = "runs" /\ tracking + leaked = 0 => Last(errors) = h /\ Last(exceptions) = h

=============================================================================
