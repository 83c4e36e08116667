----------------------------- MODULE CacheStore -----------------------------
(***************************************************************************)
(* The promise of a cache shared by several processes (ICache): a set of   *)
(* keys, each holding one whole entry or nothing.  A call of set() or      *)
(* delete() that reports success took effect at one instant between its    *)
(* start and its return; a get() or has() answers from the entry the key   *)
(* held at one such instant; a call that fails or is killed changes        *)
(* nothing; only clear() removes keys one after the other.                 *)
(***************************************************************************)
EXTENDS CacheEntries

CONSTANTS Procs      \* the processes (PHP workers) that use the cache

VARIABLES store,     \* what each key holds
          clock,     \* time()
          job,       \* the call a process makes: operation, key, entry
          seen,      \* what the process saw under its key
          status     \* how the call of a process ended, or "busy"

vars == <<store, clock, job, seen, status>>

NoItem == [data |-> CHOOSE v \in Values : TRUE, lifetime |-> 0]

Ops == {"set", "delete", "get", "has", "clear"}

Idle(p) == status[p] # "busy"

Answer(p, s) == status' = [status EXCEPT ![p] = s]

Doing(p, op) == status[p] = "busy" /\ job[p].op = op

Init ==
  /\ store = [k \in Keys |-> Absent]
  /\ clock = 0
  /\ \E k \in Keys : job = [p \in Procs |-> [op |-> "none", key |-> k, item |-> NoItem]]
  /\ seen = [p \in Procs |-> Absent]
  /\ status = [p \in Procs |-> "none"]

Tick ==
  /\ clock < MaxClock
  /\ clock' = clock + 1
  /\ UNCHANGED <<store, job, seen, status>>

Begin(p) ==
  /\ Idle(p)
  /\ \E op \in Ops, k \in Keys, v \in Values, ttl \in Ttls \cup {NoTtl} :
       /\ ~AsksDelete(ttl)
       /\ job' = [job EXCEPT ![p] =
            [op |-> op, key |-> k,
             item |-> [data |-> v, lifetime |-> Lifetime(ttl, clock)]]]
  /\ seen' = [seen EXCEPT ![p] = Absent]
  /\ Answer(p, "busy")
  /\ UNCHANGED <<store, clock>>

\* A call that is refused before it does anything.
Refuse(p) ==
  /\ Idle(p)
  /\ Answer(p, "threw")
  /\ UNCHANGED <<store, clock, job, seen>>

Put(p) ==
  /\ Doing(p, "set")
  /\ store' = [store EXCEPT ![job[p].key] = job[p].item]
  /\ Answer(p, "true")
  /\ UNCHANGED <<clock, job, seen>>

Remove(p) ==
  /\ Doing(p, "delete")
  /\ store' = [store EXCEPT ![job[p].key] = Absent]
  /\ Answer(p, "true")
  /\ UNCHANGED <<clock, job, seen>>

\* A failed call, or the death of the process, leaves the store alone.
Fail(p) ==
  /\ ~Idle(p)
  /\ \E s \in {"false", "threw", "crashed"} : Answer(p, s)
  /\ UNCHANGED <<store, clock, job, seen>>

Look(p) ==
  /\ Doing(p, "get") \/ Doing(p, "has")
  /\ seen' = [seen EXCEPT ![p] = store[job[p].key]]
  /\ UNCHANGED <<store, clock, job, status>>

Miss(p) ==
  /\ \/ /\ Doing(p, "get") \/ Doing(p, "has")
        /\ store[job[p].key] = Absent
     \/ /\ Doing(p, "get")
        /\ seen[p] # Absent /\ ~FreshForGet(seen[p], clock)
     \/ /\ Doing(p, "has")
        /\ seen[p] # Absent /\ ~FreshForHas(seen[p], clock)
  /\ Answer(p, "miss")
  /\ UNCHANGED <<store, clock, job, seen>>

Hit(p) ==
  /\ seen[p] # Absent
  /\ \/ Doing(p, "get") /\ FreshForGet(seen[p], clock)
     \/ Doing(p, "has") /\ FreshForHas(seen[p], clock)
  /\ Answer(p, "hit")
  /\ UNCHANGED <<store, clock, job, seen>>

Wipe(p, k) ==
  /\ Doing(p, "clear")
  /\ store' = [store EXCEPT ![k] = Absent]
  /\ UNCHANGED <<clock, job, seen, status>>

Cleared(p) ==
  /\ Doing(p, "clear")
  /\ Answer(p, "cleared")
  /\ UNCHANGED <<store, clock, job, seen>>

Next ==
  \/ Tick
  \/ \E p \in Procs :
       \/ Begin(p) \/ Refuse(p) \/ Put(p) \/ Remove(p) \/ Fail(p)
       \/ Look(p) \/ Miss(p) \/ Hit(p) \/ Cleared(p)
       \/ \E k \in Keys : Wipe(p, k)

Spec == Init /\ [][Next]_vars

=============================================================================
