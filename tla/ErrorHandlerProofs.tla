------------------------ MODULE ErrorHandlerProofs -------------------------
(***************************************************************************)
(* What ErrorHandler keeps for any number of handlers, registrations and   *)
(* calls of trackErrors(), and NoDupsListener for any number of workers.   *)
(***************************************************************************)
EXTENDS ErrorReports, FiniteSetTheorems, TLAPS

(* restore_error_handler() of a stack above its base: the stack without its *)
(* top; of the base alone: the same stack.                                  *)
LEMMA Restored ==
  ASSUME NEW S, NEW stack \in Seq(S)
  PROVE  /\ Restore(stack) \in Seq(S)
         /\ Len(stack) > 1 => /\ Len(Restore(stack)) = Len(stack) - 1
                              /\ Restore(stack)[1] = stack[1]
<1>1. CASE Len(stack) > 1
  <2>1. Restore(stack) = SubSeq(stack, 1, Len(stack) - 1)
    BY <1>1 DEF Restore, Front
  <2> QED
    BY <1>1, <2>1
<1>2. CASE ~(Len(stack) > 1)
  BY <1>2 DEF Restore
<1> QED
  BY <1>1, <1>2

(* set_error_handler(): one more on the stack. *)
LEMMA Pushed ==
  ASSUME NEW S, NEW stack \in Seq(S), NEW handler \in S, Len(stack) > 0
  PROVE  /\ Len(Append(stack, handler)) = Len(stack) + 1
         /\ Append(stack, handler)[1] = stack[1]
OBVIOUS

(* The type invariant is inductive. *)
THEOREM TypeCorrect == Spec => []TypeOK
<1>1. Init => TypeOK
  <2>1. /\ <<Base>> \in Seq(Handlers \cup {Base, Tracker})
        /\ <<Base>> \in Seq(Handlers \cup {Base})
        /\ <<>> \in Seq(Handlers)
    OBVIOUS
  <2>2. ASSUME Init
        PROVE  /\ errors \in Seq(Handlers \cup {Base, Tracker})
               /\ exceptions \in Seq(Handlers \cup {Base})
               /\ shutdown \in Seq(Handlers)
    BY <2>1, <2>2, Zenon DEF Init
  <2>3. ASSUME Init
        PROVE  lastError \in BOOLEAN
    BY <2>3, Zenon DEF Init
  <2>4. ASSUME Init
        PROVE  /\ registered \subseteq Handlers /\ fatal \subseteq Handlers
               /\ tracking \in Nat /\ leaked \in Nat /\ reports \in Nat
    <3>1. registered = {} /\ fatal = {} /\ tracking = 0 /\ leaked = 0 /\ reports = 0
      BY <2>4, Zenon DEF Init
    <3> QED
      BY <3>1
  <2>5. ASSUME Init
        PROVE  phase \in {"runs", "ends", "dies"}
    BY <2>5, Zenon DEF Init
  <2> QED
    BY <2>2, <2>3, <2>4, <2>5, Zenon DEF TypeOK
<1>2. TypeOK /\ [Next]_vars => TypeOK'
  <2> SUFFICES ASSUME TypeOK, [Next]_vars
               PROVE  TypeOK'
    OBVIOUS
  <2> USE DEF TypeOK, stacks, flags, tracks, ending
  <2>1. ASSUME NEW h \in Handlers, Register(h)
        PROVE  TypeOK'
    BY <2>1 DEF Register
  <2>2. ASSUME NEW h \in Handlers, Unregister(h)
        PROVE  TypeOK'
    BY <2>2, Restored DEF Unregister
  <2>3. CASE Track
    BY <2>3 DEF Track
  <2>4. CASE TrackReturns
    BY <2>4, Restored DEF TrackReturns
  <2>5. CASE TrackThrows
    BY <2>5 DEF TrackThrows
  <2>6. CASE End
    BY <2>6 DEF End
  <2>7. CASE HandleFatalError
    <3>1. shutdown' \in Seq(Handlers)
      <4>1. shutdown # <<>> /\ shutdown' \in {<<>>, Tail(shutdown)}
        BY <2>7 DEF HandleFatalError
      <4>2. Tail(shutdown) \in Seq(Handlers) /\ <<>> \in Seq(Handlers)
        BY <4>1
      <4> QED
        BY <4>1, <4>2
    <3>2. reports' \in Nat
      BY <2>7 DEF HandleFatalError
    <3>3. lastError' \in BOOLEAN
      BY <2>7, Zenon DEF HandleFatalError
    <3>4. UNCHANGED <<errors, exceptions, registered, fatal, tracking, leaked, phase>>
      BY <2>7, Zenon DEF HandleFatalError
    <3> QED
      BY <3>1, <3>2, <3>3, <3>4, Zenon
  <2>8. CASE UNCHANGED vars
    BY <2>8 DEF vars
  <2> QED
    BY <2>1, <2>2, <2>3, <2>4, <2>5, <2>6, <2>7, <2>8 DEF Next
<1> QED
  BY <1>1, <1>2, PTL DEF Spec

(* The registered objects are finitely many: a step adds or removes one.   *)
LEMMA RegisteredCount ==
  ASSUME TypeOK, NEW h \in Handlers
  PROVE  /\ Cardinality(registered) \in Nat
         /\ h \notin registered => Cardinality(registered \cup {h}) = Cardinality(registered) + 1
         /\ h \in registered => /\ Cardinality(registered \ {h}) = Cardinality(registered) - 1
                               /\ Cardinality(registered) > 0
<1>1. IsFiniteSet(registered)
  BY ErrorHandlerAssumption, FS_Subset DEF ErrorHandlerAssumption, TypeOK
<1>2. Cardinality(registered) \in Nat /\ Cardinality({}) = 0
  BY <1>1, FS_CardinalityType, FS_EmptySet
<1>3. h \notin registered => Cardinality(registered \cup {h}) = Cardinality(registered) + 1
  BY <1>1, FS_AddElement
<1>4. h \in registered => Cardinality(registered \ {h}) = Cardinality(registered) - 1
  BY <1>1, FS_RemoveElement
<1>5. h \in registered => Cardinality(registered) # 0
  BY <1>1, FS_EmptySet
<1> QED
  BY <1>2, <1>3, <1>4, <1>5

(* The stacks of PHP are as high as what is installed on them: a           *)
(* registered handler counts once on each, and so does a trackErrors().    *)
THEOREM StackHeights == Spec => []Heights
<1>1. Init => Heights
  <2> SUFFICES ASSUME Init PROVE Heights
    OBVIOUS
  <2>1. /\ errors = <<Base>> /\ exceptions = <<Base>> /\ registered = {}
        /\ tracking = 0 /\ leaked = 0
    BY Zenon DEF Init
  <2>2. Cardinality(registered) = 0
    BY <2>1, FS_EmptySet
  <2> QED
    BY <2>1, <2>2 DEF Heights
<1>2. TypeOK /\ Heights /\ [Next]_vars => Heights'
  <2> SUFFICES ASSUME TypeOK, Heights, [Next]_vars
               PROVE  Heights'
    OBVIOUS
  <2> USE DEF Heights, stacks, flags, tracks, ending
  <2>0. /\ errors \in Seq(Handlers \cup {Base, Tracker})
        /\ exceptions \in Seq(Handlers \cup {Base})
        /\ registered \subseteq Handlers
        /\ tracking \in Nat /\ leaked \in Nat
    BY DEF TypeOK
  <2>1. ASSUME NEW h \in Handlers, Register(h)
        PROVE  Heights'
    <3>1. /\ Cardinality(registered) \in Nat
          /\ Cardinality(registered') = Cardinality(registered) + 1
      BY <2>1, RegisteredCount DEF Register
    <3>2. /\ Len(errors') = Len(errors) + 1 /\ errors'[1] = errors[1]
          /\ Len(exceptions') = Len(exceptions) + 1 /\ exceptions'[1] = exceptions[1]
      <4>1. Len(errors) > 0 /\ Len(exceptions) > 0
        BY <2>0, <3>1
      <4>2. errors' = Append(errors, h) /\ exceptions' = Append(exceptions, h)
        BY <2>1, Zenon DEF Register
      <4>3. Len(Append(errors, h)) = Len(errors) + 1 /\ Append(errors, h)[1] = errors[1]
        BY <2>0, <4>1, Pushed
      <4>4. Len(Append(exceptions, h)) = Len(exceptions) + 1 /\ Append(exceptions, h)[1] = exceptions[1]
        BY <2>0, <4>1, Pushed
      <4> QED
        BY <4>2, <4>3, <4>4, Zenon
    <3>3. tracking' = tracking /\ leaked' = leaked
      BY <2>1, Zenon DEF Register
    <3>4. Len(errors) \in Nat /\ Len(exceptions) \in Nat
      BY <2>0
    <3>5. /\ Len(errors') = 1 + Cardinality(registered') + tracking' + leaked'
          /\ Len(exceptions') = 1 + Cardinality(registered')
      <4>1. tracking \in Nat /\ leaked \in Nat
        BY DEF TypeOK
      <4>2. /\ Len(errors) = 1 + Cardinality(registered) + tracking + leaked
            /\ Len(exceptions) = 1 + Cardinality(registered)
        OBVIOUS
      <4> HIDE DEF Heights
      <4>3. /\ Len(errors') = Len(errors) + 1
            /\ Len(exceptions') = Len(exceptions) + 1
        BY <3>2, Zenon
      <4>4. Len(errors') = 1 + Cardinality(registered') + tracking' + leaked'
        BY <4>1, <4>2, <4>3, <3>1, <3>3, <3>4
      <4>5. Len(exceptions') = 1 + Cardinality(registered')
        BY <4>2, <4>3, <3>1, <3>4
      <4> QED
        BY <4>4, <4>5, Zenon
    <3> QED
      BY <3>2, <3>5, Zenon
  <2>2. ASSUME NEW h \in Handlers, Unregister(h)
        PROVE  Heights'
    <3>1. /\ Cardinality(registered) \in Nat /\ Cardinality(registered) > 0
          /\ Cardinality(registered') = Cardinality(registered) - 1
      BY <2>2, RegisteredCount DEF Unregister
    <3>2. Len(errors) > 1 /\ Len(exceptions) > 1
      BY <2>0, <3>1
    <3>3. /\ Len(errors') = Len(errors) - 1 /\ errors'[1] = errors[1]
          /\ Len(exceptions') = Len(exceptions) - 1 /\ exceptions'[1] = exceptions[1]
      BY <2>0, <2>2, <3>2, Restored DEF Unregister
    <3>4. tracking' = tracking /\ leaked' = leaked
      BY <2>2, Zenon DEF Unregister
    <3>5. Len(errors) \in Nat /\ Len(exceptions) \in Nat
      BY <2>0
    <3>6. /\ Len(errors') = 1 + Cardinality(registered') + tracking' + leaked'
          /\ Len(exceptions') = 1 + Cardinality(registered')
      <4>1. tracking \in Nat /\ leaked \in Nat
        BY DEF TypeOK
      <4>2. /\ Len(errors) = 1 + Cardinality(registered) + tracking + leaked
            /\ Len(exceptions) = 1 + Cardinality(registered)
        OBVIOUS
      <4> HIDE DEF Heights
      <4>3. /\ Len(errors') = Len(errors) - 1
            /\ Len(exceptions') = Len(exceptions) - 1
        BY <3>3, Zenon
      <4>4. Len(errors') = 1 + Cardinality(registered') + tracking' + leaked'
        <5>1. Len(errors) - 1 = 1 + (Cardinality(registered) - 1) + tracking + leaked
          BY <4>1, <4>2, <3>1
        <5> QED
          BY <5>1, <4>3, <3>1, <3>4, Zenon
      <4>5. Len(exceptions') = 1 + Cardinality(registered')
        BY <4>2, <4>3, <3>1, <3>5
      <4> QED
        BY <4>4, <4>5, Zenon
    <3> QED
      BY <3>3, <3>6, Zenon
  <2>3. Cardinality(registered) \in Nat
    BY ErrorHandlerAssumption, FS_Subset, FS_CardinalityType
       DEF ErrorHandlerAssumption, TypeOK
  <2>4. CASE Track
    <3>1. Len(errors') = Len(errors) + 1 /\ errors'[1] = errors[1]
      <4>1. Len(errors) > 0
        BY <2>0, <2>3
      <4>2. errors' = Append(errors, Tracker)
        BY <2>4, Zenon DEF Track
      <4> QED
        BY <2>0, <4>1, <4>2, Pushed
    <3> QED
      BY <2>0, <2>3, <2>4, <3>1 DEF Track
  <2>5. CASE TrackReturns
    <3>1. Len(errors) > 1
      BY <2>0, <2>3, <2>5 DEF TrackReturns
    <3>2. Len(errors') = Len(errors) - 1 /\ errors'[1] = errors[1]
      BY <2>0, <2>5, <3>1, Restored DEF TrackReturns
    <3> QED
      BY <2>0, <2>3, <2>5, <3>2 DEF TrackReturns
  <2>6. CASE TrackThrows
    BY <2>0, <2>3, <2>6 DEF TrackThrows
  <2>7. CASE End
    BY <2>7 DEF End
  <2>8. CASE HandleFatalError
    <3>1. UNCHANGED <<errors, exceptions, registered, tracking, leaked>>
      BY <2>8, Zenon DEF HandleFatalError
    <3> QED
      BY <3>1
  <2>9. CASE UNCHANGED vars
    BY <2>9 DEF vars
  <2> QED
    BY <2>1, <2>2, <2>4, <2>5, <2>6, <2>7, <2>8, <2>9 DEF Next
<1> QED
  BY <1>1, <1>2, TypeCorrect, PTL DEF Spec

(* When nothing is registered or tracked, the handlers PHP had at the start *)
(* are back, in whatever order the handlers were unregistered.              *)
THEOREM OriginalRestored == Spec => []RestoresOriginal
<1>1. TypeOK /\ Heights => RestoresOriginal
  <2> SUFFICES ASSUME TypeOK, Heights, registered = {}
               PROVE  /\ exceptions = <<Base>>
                      /\ tracking + leaked = 0 => errors = <<Base>>
    BY DEF RestoresOriginal
  <2>1. Cardinality(registered) = 0
    BY FS_EmptySet
  <2>2. exceptions \in Seq(Handlers \cup {Base}) /\ errors \in Seq(Handlers \cup {Base, Tracker})
    BY DEF TypeOK
  <2>3. tracking \in Nat /\ leaked \in Nat
    BY DEF TypeOK
  <2>4. Len(exceptions) = 1 /\ exceptions[1] = Base
    BY <2>1 DEF Heights
  <2>5. tracking + leaked = 0 => Len(errors) = 1 /\ errors[1] = Base
    BY <2>1, <2>3 DEF Heights
  <2> QED
    BY <2>2, <2>4, <2>5
<1> QED
  BY <1>1, TypeCorrect, StackHeights, PTL

(* The fatal error that ends a program is reported once at most, by a       *)
(* handler that is still registered, though each registration has left a    *)
(* shutdown function.                                                       *)
THEOREM ReportedOnce == Spec => []FatalReportedOnce
<1> DEFINE Inv == Unreported /\ FatalReportedOnce
<1>1. Init => Inv
  <2>1. Init => reports = 0 /\ reports \in {0, 1}
    BY Zenon DEF Init
  <2>2. reports = 0 => FatalReportedOnce
    BY DEF FatalReportedOnce
  <2> QED
    BY <2>1, <2>2, Zenon DEF Unreported
<1>2. Inv /\ [Next]_vars => Inv'
  <2> SUFFICES ASSUME Unreported, FatalReportedOnce, [Next]_vars
               PROVE  Unreported' /\ FatalReportedOnce'
    OBVIOUS
  <2> USE DEF Unreported, FatalReportedOnce, stacks, flags, tracks, ending
  <2>1. ASSUME NEW h \in Handlers, Register(h) \/ Unregister(h)
        PROVE  Unreported' /\ FatalReportedOnce'
    <3>1. phase = "runs" /\ UNCHANGED <<phase, lastError, reports>>
      BY <2>1, Zenon DEF Register, Unregister
    <3> QED
      BY <3>1
  <2>2. CASE Track \/ TrackReturns \/ TrackThrows
    <3>1. UNCHANGED <<phase, lastError, reports, fatal>>
      BY <2>2, Zenon DEF Track, TrackReturns, TrackThrows
    <3> QED
      BY <3>1
  <2>3. CASE End
    BY <2>3 DEF End
  <2>4. CASE HandleFatalError
    <3>1. phase # "runs" /\ ~lastError' /\ UNCHANGED <<phase, fatal>>
      BY <2>4, Zenon DEF HandleFatalError
    <3>2. CASE lastError /\ Head(shutdown) \in fatal
      <4>1. reports' = reports + 1
        BY <2>4, <3>2, Zenon DEF HandleFatalError
      <4>2. reports = 0
        BY <3>2, Zenon DEF Unreported
      <4> QED
        BY <3>1, <3>2, <4>1, <4>2
    <3>3. CASE ~(lastError /\ Head(shutdown) \in fatal)
      <4>1. reports' = reports
        BY <2>4, <3>3, Zenon DEF HandleFatalError
      <4> QED
        BY <3>1, <4>1
    <3> QED
      BY <3>2, <3>3, Zenon
  <2>5. CASE UNCHANGED vars
    BY <2>5 DEF vars
  <2> QED
    BY <2>1, <2>2, <2>3, <2>4, <2>5 DEF Next
<1> QED
  BY <1>1, <1>2, PTL DEF Spec

-----------------------------------------------------------------------------
(* The listener that reports no error twice: any number of workers and     *)
(* errors, any period and an unbounded clock.                              *)

ReportSteps == {"isDir", "mkdir", "failed", "idle", "isLockExpired", "listener",
          "touch", "gc", "unlink"}

ReportTypes ==
  /\ now \in Nat
  /\ mtime \in [Errors -> Nat \cup {None}]
  /\ touched \in [Errors -> Nat \cup {None}]
  /\ pc \in [Workers -> ReportSteps]
  /\ err \in [Workers -> Errors \cup {None}]
  /\ left \in [Workers -> SUBSET Errors]
  /\ told \subseteq Errors /\ robbed \subseteq Errors

(* A worker that works on an error has one, and has had it reported when   *)
(* it goes on to touch its file.                                           *)
CallsHaveErrors == \A w \in Workers :
  /\ pc[w] \in {"isLockExpired", "listener", "touch", "unlink"} => err[w] \in Errors
  /\ pc[w] = "touch" => err[w] \in told

(* A lock file has the time of the last touch, or was collected: when that *)
(* time was long ago, or by a worker that took an older time for it.       *)
FilesAreTouched == \A e \in Errors :
  \/ mtime[e] = touched[e]
  \/ /\ mtime[e] = None /\ touched[e] # None
     /\ e \in robbed \/ touched[e] <= now - Period * 2

ReportInv == ReportTypes /\ CallsHaveErrors /\ FilesAreTouched /\ NoDups!ReportedFirst

LEMMA ReportsInit == NoDups!Init => ReportInv
  BY DEF NoDups!Init, ReportInv, ReportTypes, CallsHaveErrors, FilesAreTouched,
         NoDups!ReportedFirst, ReportSteps

(* The steps that leave the files and what is known of them alone. *)
LEMMA CallKeeps ==
  ASSUME ReportInv, NEW w \in Workers,
         \/ NoDups!IsDir(w) \/ NoDups!MkDir(w) \/ NoDups!Throws(w)
         \/ NoDups!GcEnds(w) \/ NoDups!Restart(w)
         \/ \E e \in Errors : NoDups!Invoke(w, e) \/ NoDups!GcLook(w, e)
  PROVE  ReportInv'
<1>1. UNCHANGED <<now, mtime, NoDups!ghosts>>
  BY DEF NoDups!IsDir, NoDups!MkDir, NoDups!Throws, NoDups!GcEnds, NoDups!Restart,
         NoDups!Invoke, NoDups!GcLook, NoDups!ghosts
<1>2. /\ pc' \in [Workers -> ReportSteps] /\ err' \in [Workers -> Errors \cup {None}]
      /\ left' \in [Workers -> SUBSET Errors]
  <2>1. CASE \/ NoDups!IsDir(w) \/ NoDups!MkDir(w) \/ NoDups!Throws(w)
             \/ NoDups!GcEnds(w) \/ NoDups!Restart(w)
    BY <2>1 DEF ReportInv, ReportTypes, ReportSteps, NoDups!IsDir, NoDups!MkDir,
                NoDups!Throws, NoDups!GcEnds, NoDups!Restart, NoDups!Go, NoDups!Over
  <2>2. ASSUME NEW e \in Errors, NoDups!Invoke(w, e) \/ NoDups!GcLook(w, e)
        PROVE  <1>2!:
    BY <2>2 DEF ReportInv, ReportTypes, ReportSteps, NoDups!Invoke, NoDups!GcLook,
                NoDups!Go, NoDups!Over
  <2> QED BY <2>1, <2>2
<1>3. CallsHaveErrors'
  <2>1. CASE \/ NoDups!IsDir(w) \/ NoDups!MkDir(w) \/ NoDups!Throws(w)
             \/ NoDups!GcEnds(w) \/ NoDups!Restart(w)
    BY <2>1, <1>1 DEF ReportInv, ReportTypes, CallsHaveErrors, NoDups!IsDir,
                      NoDups!MkDir, NoDups!Throws, NoDups!GcEnds, NoDups!Restart,
                      NoDups!Go, NoDups!Over, NoDups!ghosts
  <2>2. ASSUME NEW e \in Errors, NoDups!Invoke(w, e) \/ NoDups!GcLook(w, e)
        PROVE  CallsHaveErrors'
    BY <2>2, <1>1 DEF ReportInv, ReportTypes, CallsHaveErrors, NoDups!Invoke,
                      NoDups!GcLook, NoDups!Go, NoDups!Over, NoDups!ghosts
  <2> QED BY <2>1, <2>2
<1> QED
  BY <1>1, <1>2, <1>3 DEF ReportInv, ReportTypes, FilesAreTouched,
                          NoDups!ReportedFirst, NoDups!ghosts

(* Only a lock that holds lets a worker touch the file unreported, and a   *)
(* lock was reported when it was made.                                     *)
LEMMA ReportKeeps ==
  ASSUME ReportInv, NEW w \in Workers, NoDups!IsLockExpired(w) \/ NoDups!Listener(w)
  PROVE  ReportInv'
<1>1. err[w] \in Errors
  BY DEF ReportInv, CallsHaveErrors, NoDups!IsLockExpired, NoDups!Listener
<1>2. ReportTypes' /\ FilesAreTouched'
  BY <1>1 DEF ReportInv, ReportTypes, ReportSteps, FilesAreTouched,
              NoDups!IsLockExpired, NoDups!Listener, NoDups!Go, NoDups!ghosts
<1>3. CallsHaveErrors'
  <2>1. CASE NoDups!IsLockExpired(w)
    <3>1. ~NoDups!Expired(mtime[err[w]]) => err[w] \in told
      BY <1>1 DEF ReportInv, FilesAreTouched, NoDups!ReportedFirst, NoDups!Expired
    <3> QED
      BY <2>1, <3>1 DEF ReportInv, ReportTypes, CallsHaveErrors,
                        NoDups!IsLockExpired, NoDups!Go, NoDups!ghosts
  <2>2. CASE NoDups!Listener(w)
    BY <2>2, <1>1 DEF ReportInv, ReportTypes, CallsHaveErrors, NoDups!Listener,
                      NoDups!Go
  <2> QED BY <2>1, <2>2
<1>4. NoDups!ReportedFirst'
  BY DEF ReportInv, NoDups!ReportedFirst, NoDups!IsLockExpired, NoDups!Listener,
         NoDups!ghosts
<1> QED BY <1>2, <1>3, <1>4 DEF ReportInv

LEMMA TouchKeeps == ASSUME ReportInv, NEW w \in Workers, NoDups!Touch(w) PROVE ReportInv'
<1>1. err[w] \in Errors /\ err[w] \in told
  BY DEF ReportInv, CallsHaveErrors, NoDups!Touch
<1>2. ReportTypes'
  <2>1. /\ pc' \in [Workers -> ReportSteps] /\ err' \in [Workers -> Errors \cup {None}]
        /\ left' \in [Workers -> SUBSET Errors]
    BY DEF ReportInv, ReportTypes, ReportSteps, NoDups!Touch, NoDups!Go, NoDups!Over
  <2> QED BY <1>1, <2>1 DEF ReportInv, ReportTypes, NoDups!Touch
<1>3. CallsHaveErrors'
  BY DEF ReportInv, ReportTypes, CallsHaveErrors, NoDups!Touch, NoDups!Go,
         NoDups!Over
<1>4. FilesAreTouched' /\ NoDups!ReportedFirst'
  BY <1>1 DEF ReportInv, ReportTypes, FilesAreTouched, NoDups!ReportedFirst,
              NoDups!Touch
<1> QED BY <1>2, <1>3, <1>4 DEF ReportInv

(* A file that is old when it goes was touched long ago; one that is not   *)
(* makes its error robbed.                                                 *)
LEMMA UnlinkKeeps == ASSUME ReportInv, NEW w \in Workers, NoDups!GcUnlink(w) PROVE ReportInv'
<1>1. err[w] \in Errors
  BY DEF ReportInv, CallsHaveErrors, NoDups!GcUnlink
<1>2. ReportTypes'
  BY <1>1 DEF ReportInv, ReportTypes, ReportSteps, NoDups!GcUnlink, NoDups!Go
<1>3. CallsHaveErrors' /\ NoDups!ReportedFirst'
  BY DEF ReportInv, ReportTypes, CallsHaveErrors, NoDups!ReportedFirst,
         NoDups!GcUnlink, NoDups!Go
<1>4. FilesAreTouched'
  BY <1>1 DEF ReportInv, ReportTypes, FilesAreTouched, NoDups!GcUnlink, NoDups!Old
<1> QED BY <1>2, <1>3, <1>4 DEF ReportInv

LEMMA TickKeeps == ASSUME ReportInv, NoDups!Tick PROVE ReportInv'
<1>1. ReportTypes' /\ CallsHaveErrors' /\ NoDups!ReportedFirst'
  BY DEF ReportInv, ReportTypes, CallsHaveErrors, NoDups!ReportedFirst,
         NoDups!Tick, NoDups!ghosts
<1>2. FilesAreTouched'
  <2>1. /\ now' = now + 1 /\ now \in Nat
        /\ mtime' = mtime /\ touched' = touched /\ robbed' = robbed
    BY DEF ReportInv, ReportTypes, NoDups!Tick, NoDups!ghosts
  <2>2. ASSUME NEW e \in Errors, touched[e] # None, touched[e] <= now - Period * 2
        PROVE  touched[e] <= now' - Period * 2
    BY <2>1, <2>2, PeriodAssumption DEF ReportInv, ReportTypes
  <2> QED BY <2>1, <2>2 DEF ReportInv, FilesAreTouched
<1> QED BY <1>1, <1>2 DEF ReportInv

(* The inductive invariant of the lock files. *)
THEOREM LocksInvariant == NoDups!Spec => []ReportInv
<1>1. ReportInv /\ [NoDups!Next]_(NoDups!vars) => ReportInv'
  <2> SUFFICES ASSUME ReportInv, [NoDups!Next]_(NoDups!vars) PROVE ReportInv'
    OBVIOUS
  <2>1. CASE UNCHANGED NoDups!vars
    BY <2>1 DEF NoDups!vars, NoDups!ghosts, ReportInv, ReportTypes,
                CallsHaveErrors, FilesAreTouched, NoDups!ReportedFirst
  <2>2. CASE NoDups!Next
    BY <2>2, CallKeeps, ReportKeeps, TouchKeeps, UnlinkKeeps, TickKeeps
       DEF NoDups!Next
  <2> QED BY <2>1, <2>2
<1> QED BY ReportsInit, <1>1, PTL DEF NoDups!Spec

(* An error is found expired within the period of its last touch only if   *)
(* its file was collected by a worker that had taken it for an old one.    *)
LEMMA ExpiredIsRobbed ==
  ASSUME ReportInv, NoDups!Next, NEW w \in Workers, NoDups!FoundExpired(w)
  PROVE  NoDups!Expired(touched[err[w]]) \/ err[w] \in robbed
<1>1. NoDups!IsLockExpired(w)
  <2>1. ASSUME NEW v \in Workers,
               \/ NoDups!IsDir(v) \/ NoDups!MkDir(v) \/ NoDups!Throws(v)
               \/ NoDups!GcEnds(v) \/ NoDups!Restart(v)
               \/ NoDups!Listener(v) \/ NoDups!GcUnlink(v)
        PROVE  FALSE
    BY <2>1 DEF ReportInv, ReportTypes, NoDups!FoundExpired, NoDups!IsDir,
                NoDups!MkDir, NoDups!Throws, NoDups!GcEnds, NoDups!Restart,
                NoDups!Listener, NoDups!GcUnlink, NoDups!Go, NoDups!Over
  <2>2. ASSUME NEW v \in Workers, NoDups!Touch(v) PROVE FALSE
    BY <2>2 DEF ReportInv, ReportTypes, NoDups!FoundExpired, NoDups!Touch,
                NoDups!Go, NoDups!Over
  <2>3. ASSUME NEW v \in Workers, NEW e \in Errors,
               NoDups!Invoke(v, e) \/ NoDups!GcLook(v, e)
        PROVE  FALSE
    BY <2>3 DEF ReportInv, ReportTypes, NoDups!FoundExpired, NoDups!Invoke,
                NoDups!GcLook, NoDups!Go, NoDups!Over
  <2>4. ASSUME NEW v \in Workers, NoDups!IsLockExpired(v) PROVE v = w
    BY <2>4 DEF ReportInv, ReportTypes, NoDups!FoundExpired, NoDups!IsLockExpired,
                NoDups!Go
  <2>5. ~NoDups!Tick
    BY DEF NoDups!FoundExpired, NoDups!Tick
  <2> QED BY <2>1, <2>2, <2>3, <2>4, <2>5 DEF NoDups!Next
<1>2. err[w] \in Errors /\ NoDups!Expired(mtime[err[w]])
  BY <1>1 DEF ReportInv, ReportTypes, CallsHaveErrors, NoDups!FoundExpired,
              NoDups!IsLockExpired, NoDups!Go
<1>3. CASE mtime[err[w]] = touched[err[w]]
  BY <1>2, <1>3
<1>4. CASE /\ touched[err[w]] # None
           /\ touched[err[w]] <= now - Period * 2
  <2>1. touched[err[w]] \in Nat /\ now \in Nat
    BY <1>2, <1>4 DEF ReportInv, ReportTypes
  <2> QED BY <1>4, <2>1, PeriodAssumption DEF NoDups!Expired
<1> QED BY <1>2, <1>3, <1>4 DEF ReportInv, FilesAreTouched

(* No error is suppressed unheard, and none is reported twice within the   *)
(* period but for a race with gc(), by any number of workers.              *)
THEOREM ToldOnceAlways == NoDups!Spec => ToldOnce
<1>1. ReportInv => NoDups!ReportedFirst
  BY DEF ReportInv
<1>2. ReportInv /\ [NoDups!Next]_(NoDups!vars) =>
        [\A w \in Workers : NoDups!FoundExpired(w) =>
           NoDups!Expired(touched[err[w]]) \/ err[w] \in robbed]_(NoDups!vars)
  BY ExpiredIsRobbed
<1>3. NoDups!Spec => []ReportInv
  BY LocksInvariant
<1> QED BY <1>1, <1>2, <1>3, PTL DEF NoDups!Spec, ToldOnce, NoDups!ToldOnce,
                                     NoDups!DupsAreReported
=============================================================================
