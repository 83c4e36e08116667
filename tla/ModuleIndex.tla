---------------------------- MODULE ModuleIndex -----------------------------
(***************************************************************************)
(* App/ModuleIndex.php, App/ModuleIndexer.php and the routes that          *)
(* App/Web/FastRouter.php makes of them: what is read from the files of    *)
(* the modules is kept in the objects of a worker and in two caches shared *)
(* by all workers.  The caches keep the promise of CacheStore: a call of   *)
(* theirs is one step here.  The files change while workers read them.     *)
(***************************************************************************)
EXTENDS Integers, FiniteSets

CONSTANTS Workers,      \* PHP processes
          Modules,      \* modules of the site
          None,         \* null
          MaxDeploys,   \* bound: changes of the files
          Wipes         \* someone empties the cache directory

ASSUME ModuleIndexAssumption == MaxDeploys \in Nat /\ Wipes \in BOOLEAN

VARIABLES files,        \* the version of the files of the modules
          indexCache,   \* for each module the version read, or None
          routesCache,  \* the index the routes were made of, or None
          pc,           \* of each worker: "ready", or where FastRouter is
          index,        \* $index of its ModuleIndex
          loaded,       \* $loaded: the modules made of it
          reading,      \* what index() has read so far, or None
          routes,       \* the dispatch data FastRouter has got
          lastClear,    \* the version of the files when the index cache was last cleared
          late,         \* workers reading since before that
          spoilt,       \* one of them has stored what it read
          robbed        \* workers whose routes went between has() and dispatch()

caches == <<indexCache, routesCache>>
objects == <<index, loaded>>
routing == <<routes, robbed>>
vars == <<files, caches, pc, objects, reading, routing, lastClear, late, spoilt>>

Versions == 0..MaxDeploys
Index == [Modules -> Versions]
Nothing == [m \in {} |-> 0]
Add(f, m, v) == [x \in DOMAIN f \cup {m} |-> IF x = m THEN v ELSE f[x]]

Init ==
  /\ files = 0
  /\ indexCache = None /\ routesCache = None
  /\ pc = [w \in Workers |-> "ready"]
  /\ index = [w \in Workers |-> None]
  /\ loaded = [w \in Workers |-> Nothing]
  /\ reading = [w \in Workers |-> None]
  /\ routes = [w \in Workers |-> None]
  /\ lastClear = 0
  /\ late = {} /\ spoilt = FALSE /\ robbed = {}

Deploy ==
  /\ files < MaxDeploys
  /\ files' = files + 1
  /\ UNCHANGED <<caches, pc, objects, reading, routing, lastClear, late, spoilt>>

\* A new request: new objects.
Begin(w) ==
  /\ pc[w] = "ready" /\ reading[w] = None
  /\ index' = [index EXCEPT ![w] = None]
  /\ loaded' = [loaded EXCEPT ![w] = Nothing]
  /\ UNCHANGED <<files, caches, pc, reading, routing, lastClear, late, spoilt>>

\* init() calls index(), which asks the cache first.
IndexGet(w) ==
  /\ pc[w] \in {"ready", "rebuildRoutes", "cleanRoutes"}
  /\ index[w] = None /\ reading[w] = None
  /\ IF indexCache # None
     THEN index' = [index EXCEPT ![w] = indexCache] /\ reading' = reading
     ELSE index' = index /\ reading' = [reading EXCEPT ![w] = Nothing]
  /\ UNCHANGED <<files, caches, pc, loaded, routing, lastClear, late, spoilt>>

\* The iterator reads the meta file of one module after the other.
Read(w) ==
  \E m \in Modules :
    /\ reading[w] # None
    /\ m \notin DOMAIN reading[w]
    /\ reading' = [reading EXCEPT ![w] = Add(@, m, files)]
    /\ UNCHANGED <<files, caches, pc, objects, routing, lastClear, late, spoilt>>

IndexSet(w) ==
  /\ reading[w] # None /\ DOMAIN reading[w] = Modules
  /\ indexCache' = reading[w]
  /\ index' = [index EXCEPT ![w] = reading[w]]
  /\ reading' = [reading EXCEPT ![w] = None]
  /\ spoilt' = (spoilt \/ w \in late) /\ late' = late \ {w}
  /\ UNCHANGED <<files, routesCache, pc, loaded, routing, lastClear>>

Module(w) ==
  \E m \in Modules :
    /\ pc[w] = "ready" /\ index[w] # None /\ m \notin DOMAIN loaded[w]
    /\ loaded' = [loaded EXCEPT ![w] = Add(@, m, index[w][m])]
    /\ UNCHANGED <<files, caches, pc, index, reading, routing, lastClear, late, spoilt>>

\* The cache is empty from now on; who is reading has begun before.
Cleared ==
  /\ indexCache' = None
  /\ lastClear' = files
  /\ late' = {v \in Workers : reading[v] # None}
  /\ spoilt' = FALSE

\* Mutant: the modules that were made stay.
RebuildKeepsLoaded(w) ==
  /\ pc[w] = "ready" /\ reading[w] = None
  /\ index' = [index EXCEPT ![w] = None]
  /\ Cleared
  /\ UNCHANGED <<files, routesCache, pc, loaded, reading, routing>>

\* Mutant: the cache stays.
RebuildKeepsCache(w) ==
  /\ pc[w] = "ready" /\ reading[w] = None
  /\ index' = [index EXCEPT ![w] = None]
  /\ loaded' = [loaded EXCEPT ![w] = Nothing]
  /\ lastClear' = files
  /\ UNCHANGED <<files, caches, pc, reading, routing, late, spoilt>>

\* rebuild() with the clear() of the indexer
Rebuild(w) ==
  /\ pc[w] = "ready" /\ reading[w] = None
  /\ index' = [index EXCEPT ![w] = None]
  /\ loaded' = [loaded EXCEPT ![w] = Nothing]
  /\ Cleared
  /\ UNCHANGED <<files, routesCache, pc, reading, routing>>

Wipe ==
  /\ Wipes
  /\ Cleared
  /\ routesCache' = None
  /\ robbed' = robbed \cup {w \in Workers : pc[w] = "getRoutes"}
  /\ UNCHANGED <<files, pc, objects, reading, routes>>

\* Mutant: the answer of has() is taken the other way round.
RouteNegated(w) ==
  /\ pc[w] = "ready" /\ reading[w] = None
  /\ pc' = [pc EXCEPT ![w] = IF routesCache = None THEN "getRoutes" ELSE "rebuildRoutes"]
  /\ UNCHANGED <<files, caches, objects, reading, routing, lastClear, late, spoilt>>

\* mkRouteDispatcher(): has(), rebuildRoutes() when there are none, get()
Route(w) ==
  /\ pc[w] = "ready" /\ reading[w] = None
  /\ pc' = [pc EXCEPT ![w] = IF routesCache # None THEN "getRoutes" ELSE "rebuildRoutes"]
  /\ UNCHANGED <<files, caches, objects, reading, routing, lastClear, late, spoilt>>

CleanRoutes(w) ==
  /\ pc[w] = "ready" /\ reading[w] = None
  /\ pc' = [pc EXCEPT ![w] = "cleanRoutes"]
  /\ UNCHANGED <<files, caches, objects, reading, routing, lastClear, late, spoilt>>

RebuildRoutes(w) ==
  /\ pc[w] \in {"rebuildRoutes", "cleanRoutes"} /\ index[w] # None
  /\ routesCache' = index[w]
  /\ pc' = [pc EXCEPT ![w] = IF @ = "rebuildRoutes" THEN "getRoutes" ELSE "ready"]
  /\ UNCHANGED <<files, indexCache, objects, reading, routing, lastClear, late, spoilt>>

GetRoutes(w) ==
  /\ pc[w] = "getRoutes"
  /\ routes' = [routes EXCEPT ![w] = routesCache]
  /\ pc' = [pc EXCEPT ![w] = "dispatch"]
  /\ UNCHANGED <<files, caches, objects, reading, robbed, lastClear, late, spoilt>>

Dispatch(w) ==
  /\ pc[w] = "dispatch"
  /\ routes' = [routes EXCEPT ![w] = None]
  /\ robbed' = robbed \ {w}
  /\ pc' = [pc EXCEPT ![w] = "ready"]
  /\ UNCHANGED <<files, caches, objects, reading, lastClear, late, spoilt>>

Next ==
  \/ Deploy \/ Wipe
  \/ \E w \in Workers :
       \/ Begin(w) \/ IndexGet(w) \/ Read(w) \/ IndexSet(w) \/ Module(w) \/ Rebuild(w)
       \/ Route(w) \/ CleanRoutes(w) \/ RebuildRoutes(w) \/ GetRoutes(w) \/ Dispatch(w)

Spec == Init /\ [][Next]_vars

-----------------------------------------------------------------------------
(* Properties                                                              *)

Partial == UNION {[D -> Versions] : D \in SUBSET Modules}

TypeOK ==
  /\ files \in Versions
  /\ indexCache \in Index \cup {None} /\ routesCache \in Index \cup {None}
  /\ pc \in [Workers -> {"ready", "rebuildRoutes", "cleanRoutes", "getRoutes", "dispatch"}]
  /\ index \in [Workers -> Index \cup {None}]
  /\ loaded \in [Workers -> Partial]
  /\ reading \in [Workers -> Partial \cup {None}]
  /\ routes \in [Workers -> Index \cup {None}]
  /\ lastClear \in Versions
  /\ late \subseteq Workers /\ spoilt \in BOOLEAN /\ robbed \subseteq Workers

\* The modules a worker has made are those of the index it has.
LoadedIsIndexed ==
  \A w \in Workers : \A m \in DOMAIN loaded[w] :
    index[w] # None /\ loaded[w][m] = index[w][m]

NotBefore(version, f) == \A m \in DOMAIN f : f[m] >= version

\* The cache never holds an index read before it was last cleared, but for one
\* reason: a worker that was reading at that time has stored it since.
OnlyLateSpoils == indexCache # None /\ ~spoilt => NotBefore(lastClear, indexCache)

\* The reason: who is not late has read nothing from before the clear.
ReadsAreNew ==
  /\ lastClear <= files
  /\ \A w \in Workers : reading[w] # None /\ w \notin late => NotBefore(lastClear, reading[w])

\* Only a worker without an index reads the files.
ReadsForItself == \A w \in Workers : reading[w] # None => index[w] = None

IInv == TypeOK /\ OnlyLateSpoils /\ ReadsAreNew /\ ReadsForItself /\ LoadedIsIndexed

\* FastRouter dispatches with the data it has just found or made, unless
\* someone has emptied the cache directory between has() and get(): the other
\* workers, which rebuild the routes and the index, never take them away.
RoutesThere ==
  \A w \in Workers : pc[w] = "dispatch" /\ w \notin robbed => routes[w] # None

\* What that rests on: the routes that were found are still in the cache.
RoutesStay ==
  /\ \A w \in Workers : pc[w] = "getRoutes" /\ w \notin robbed => routesCache # None
  /\ RoutesThere

=============================================================================
