---------------------------- MODULE NoDupsListener --------------------------
(***************************************************************************)
(* Tool/Php/NoDupsListener.php: a listener that hands an error on to the   *)
(* one it wraps unless the same error was seen a while ago, by whatever    *)
(* worker.  The workers share a directory with one lock file for each kind *)
(* of error; who touches one may also collect the old ones.                *)
(*                                                                         *)
(* file_exists() and filemtime() of one call are one step: PHP remembers   *)
(* what the first of them saw.                                             *)
(***************************************************************************)
EXTENDS Integers

CONSTANTS
  Workers,     \* PHP processes, each with one listener at a time
  Errors,      \* classes of exceptions at one line
  None,        \* no lock file, no error
  Period,      \* $period, in seconds, at least 1
  MaxTime      \* bound: the clock

VARIABLES
  now,         \* time()
  dir,         \* is the directory there?
  mtime,       \* the times of the lock files, None for those not there
  pc,          \* what a worker does next
  err,         \* the error it is called with, or the lock file it collects
  left,        \* the files of glob() that gc() has still to look at
  gcExecuted,  \* workers whose listener has collected
  told,        \* errors that the wrapped listener has got
  touched,     \* when an error was last touched, whatever became of its file
  robbed       \* errors whose file went although it was touched meanwhile

vars == <<now, dir, mtime, pc, err, left, gcExecuted, told, touched, robbed>>
ghosts == <<told, touched, robbed>>

Init ==
  /\ now = 0 /\ dir = FALSE
  /\ mtime = [e \in Errors |-> None]
  /\ pc = [w \in Workers |-> "isDir"] /\ err = [w \in Workers |-> None]
  /\ left = [w \in Workers |-> {}] /\ gcExecuted = {}
  /\ told = {} /\ touched = [e \in Errors |-> None] /\ robbed = {}

Go(w, to) == pc' = [pc EXCEPT ![w] = to]

(* The call is over, whether it returns or throws. *)
Over(w) == Go(w, "idle") /\ err' = [err EXCEPT ![w] = None]

Expired(time) == time = None \/ time < now - Period

(* A variant that collects locks which still hold. *)
OldTooSoon(time) == time <= now - Period

Old(time) == time <= now - Period * 2

IsDir(w) ==
  /\ pc[w] = "isDir"
  /\ Go(w, IF dir THEN "idle" ELSE "mkdir")
  /\ UNCHANGED <<now, dir, mtime, err, left, gcExecuted, ghosts>>

(* mkdir() of a directory that another worker has made in the meantime     *)
(* fails, and the constructor throws.                                      *)
MkDir(w) ==
  /\ pc[w] = "mkdir"
  /\ dir' = TRUE
  /\ Go(w, IF dir THEN "failed" ELSE "idle")
  /\ UNCHANGED <<now, mtime, err, left, gcExecuted, ghosts>>

Invoke(w, e) ==
  /\ pc[w] = "idle" /\ Go(w, "isLockExpired")
  /\ err' = [err EXCEPT ![w] = e]
  /\ UNCHANGED <<now, dir, mtime, left, gcExecuted, ghosts>>

IsLockExpired(w) ==
  /\ pc[w] = "isLockExpired"
  /\ Go(w, IF Expired(mtime[err[w]]) THEN "listener" ELSE "touch")
  /\ UNCHANGED <<now, dir, mtime, err, left, gcExecuted, ghosts>>

Listener(w) ==
  /\ pc[w] = "listener" /\ Go(w, "touch")
  /\ told' = told \cup {err[w]}
  /\ UNCHANGED <<now, dir, mtime, err, left, gcExecuted, touched, robbed>>

(* The wrapped listener throws, or the file cannot be written. *)
Throws(w) ==
  /\ pc[w] \in {"listener", "touch"} /\ Over(w)
  /\ UNCHANGED <<now, dir, mtime, left, gcExecuted, ghosts>>

(* With some probability, once, the listener also collects. *)
Touch(w) ==
  /\ pc[w] = "touch"
  /\ mtime' = [mtime EXCEPT ![err[w]] = now]
  /\ touched' = [touched EXCEPT ![err[w]] = now] /\ robbed' = robbed \ {err[w]}
  /\ \/ Over(w) /\ UNCHANGED left
     \/ /\ w \notin gcExecuted /\ Go(w, "gc")
        /\ left' = [left EXCEPT ![w] = {e \in Errors : mtime'[e] # None}]
        /\ err' = [err EXCEPT ![w] = None]
  /\ UNCHANGED <<now, dir, gcExecuted, told>>

(* filemtime() of a file that another worker has collected is a warning,   *)
(* which the error handler of the site makes an exception.                 *)
GcLook(w, e) ==
  /\ pc[w] = "gc" /\ e \in left[w]
  /\ IF mtime[e] = None
     THEN Over(w) /\ left' = [left EXCEPT ![w] = {}]
     ELSE /\ left' = [left EXCEPT ![w] = @ \ {e}]
          /\ IF Old(mtime[e])
             THEN Go(w, "unlink") /\ err' = [err EXCEPT ![w] = e]
             ELSE UNCHANGED <<pc, err>>
  /\ UNCHANGED <<now, dir, mtime, gcExecuted, ghosts>>

GcUnlink(w) ==
  LET e == err[w]
  IN  /\ pc[w] = "unlink" /\ Go(w, "gc")
      /\ robbed' = IF mtime[e] # None /\ ~Old(mtime[e]) THEN robbed \cup {e} ELSE robbed
      /\ mtime' = [mtime EXCEPT ![e] = None]
      /\ err' = [err EXCEPT ![w] = None]
      /\ UNCHANGED <<now, dir, left, gcExecuted, told, touched>>

GcEnds(w) ==
  /\ pc[w] = "gc" /\ left[w] = {} /\ Over(w)
  /\ gcExecuted' = gcExecuted \cup {w}
  /\ UNCHANGED <<now, dir, mtime, left, ghosts>>

(* The request of a worker ends, or the worker is killed; its next request *)
(* makes a new listener.                                                   *)
Restart(w) ==
  /\ Go(w, "isDir")
  /\ err' = [err EXCEPT ![w] = None] /\ left' = [left EXCEPT ![w] = {}]
  /\ gcExecuted' = gcExecuted \ {w}
  /\ UNCHANGED <<now, dir, mtime, ghosts>>

Tick == now < MaxTime /\ now' = now + 1
        /\ UNCHANGED <<dir, mtime, pc, err, left, gcExecuted, ghosts>>

Next ==
  \/ \E w \in Workers :
       \/ IsDir(w) \/ MkDir(w) \/ IsLockExpired(w) \/ Listener(w) \/ Throws(w)
       \/ Touch(w) \/ GcUnlink(w) \/ GcEnds(w) \/ Restart(w)
       \/ \E e \in Errors : Invoke(w, e) \/ GcLook(w, e)
  \/ Tick

Spec == Init /\ [][Next]_vars

-----------------------------------------------------------------------------

(* Whatever two workers do at once, whichever listener throws and whoever  *)
(* is killed: a lock was never made for an error that nobody was told of,  *)
(* so none is suppressed unheard; and an error that was touched within the *)
(* period is found expired only if its file was collected after it was     *)
(* looked at and touched again.                                            *)
ReportedFirst == \A e \in Errors : touched[e] # None => e \in told

FoundExpired(w) == pc[w] = "isLockExpired" /\ pc'[w] = "listener"

DupsAreReported == [][\A w \in Workers :
  FoundExpired(w) => Expired(touched[err[w]]) \/ err[w] \in robbed]_vars

ToldOnce == []ReportedFirst /\ DupsAreReported
=============================================================================
