---------------------------- MODULE CacheEntries ----------------------------
(***************************************************************************)
(* What the caches of Morpho\Caching store and how long it lives: the data *)
(* shared by the promise of a cache (CacheStore) and the file-based caches *)
(* (FileCache).                                                            *)
(***************************************************************************)
EXTENDS Integers

CONSTANTS Keys,        \* cache keys
          Values,      \* values a caller may store
          Ttls,        \* the time-to-live arguments callers pass, besides null
          NoTtl,       \* a null $ttl
          Absent,      \* no entry under the key
          MaxClock     \* bound: the clock, time(), stops here

ASSUME EntryAssumption ==
  /\ Ttls \subseteq Int
  /\ NoTtl \notin Ttls
  /\ MaxClock \in Nat
  /\ Values # {}

Times == 0..MaxClock

\* A stored entry: the data and the 'lifetime' written beside it, which is
\* the moment the entry expires, or 0 when it never does.
Entry == [data : Values, lifetime : Nat]

ASSUME AbsentAssumption == Absent \notin Entry

\* Cache::set(): a null ttl means for ever, a ttl of zero or less asks for
\* the deletion of the key.
AsksDelete(ttl) == ttl # NoTtl /\ ttl <= 0

Lifetime(ttl, now) == IF ttl = NoTtl THEN 0 ELSE now + ttl

\* has() and get() compare the lifetime with time() in different ways.
FreshForHas(e, now) == e.lifetime = 0 \/ e.lifetime > now

FreshForGet(e, now) == e.lifetime = 0 \/ ~(e.lifetime < now)

=============================================================================
