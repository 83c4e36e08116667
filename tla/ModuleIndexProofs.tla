------------------------- MODULE ModuleIndexProofs --------------------------
(***************************************************************************)
(* What ModuleIndex keeps for any number of workers, modules and changes   *)
(* of their files.                                                         *)
(***************************************************************************)
EXTENDS ModuleIndex, TLAPS

(* What is read is a version for each module of some set of modules. *)
LEMMA Added ==
  ASSUME NEW f \in Partial, NEW m \in Modules, NEW v \in Versions
  PROVE  /\ Add(f, m, v) \in Partial
         /\ DOMAIN Add(f, m, v) = DOMAIN f \cup {m}
         /\ \A x \in DOMAIN f \cup {m} : Add(f, m, v)[x] = IF x = m THEN v ELSE f[x]
<1>1. PICK D \in SUBSET Modules : f \in [D -> Versions]
  BY DEF Partial
<1>2. Add(f, m, v) \in [D \cup {m} -> Versions]
  BY <1>1 DEF Add
<1>3. D \cup {m} \in SUBSET Modules
  OBVIOUS
<1>4. Add(f, m, v) \in Partial
  BY <1>2, <1>3 DEF Partial
<1> QED
  BY <1>1, <1>4 DEF Add

LEMMA NothingIsPartial == Nothing \in Partial /\ DOMAIN Nothing = {}
<1>1. {} \in SUBSET Modules /\ Nothing \in [{} -> Versions]
  BY DEF Nothing
<1>2. DOMAIN Nothing = {}
  BY DEF Nothing
<1> QED
  BY <1>1, <1>2 DEF Partial

LEMMA WholeIsIndex ==
  ASSUME NEW f \in Partial, DOMAIN f = Modules
  PROVE  f \in Index
BY DEF Partial, Index

(* The type invariant is inductive. *)
LEMMA TypeInductive == TypeOK /\ [Next]_vars => TypeOK'
<1> SUFFICES ASSUME TypeOK, [Next]_vars
             PROVE  TypeOK'
  OBVIOUS
<1> USE ModuleIndexAssumption DEF TypeOK, caches, objects, routing
<1>1. CASE Deploy
  BY <1>1 DEF Deploy, Versions
<1>2. CASE Wipe
  BY <1>2 DEF Wipe, Cleared
<1>3. ASSUME NEW w \in Workers, Begin(w)
      PROVE  TypeOK'
  BY <1>3, NothingIsPartial DEF Begin
<1>4. ASSUME NEW w \in Workers, IndexGet(w)
      PROVE  TypeOK'
  BY <1>4, NothingIsPartial DEF IndexGet
<1>5. ASSUME NEW w \in Workers, Read(w)
      PROVE  TypeOK'
  <2>1. PICK m \in Modules :
          /\ reading[w] # None
          /\ reading' = [reading EXCEPT ![w] = Add(reading[w], m, files)]
    BY <1>5 DEF Read
  <2>2. Add(reading[w], m, files) \in Partial
    <3>1. files \in Versions /\ reading[w] \in Partial
      BY <2>1
    <3> HIDE ModuleIndexAssumption DEF TypeOK, caches, objects, routing
    <3> QED
      BY <3>1, Added
  <2>3. reading' \in [Workers -> Partial \cup {None}]
    BY <2>1, <2>2
  <2> QED
    BY <1>5, <2>3 DEF Read
<1>6. ASSUME NEW w \in Workers, IndexSet(w)
      PROVE  TypeOK'
  <2>1. reading[w] \in Index
    BY <1>6, WholeIsIndex DEF IndexSet
  <2> QED
    BY <1>6, <2>1 DEF IndexSet
<1>7. ASSUME NEW w \in Workers, Module(w)
      PROVE  TypeOK'
  <2>1. PICK m \in Modules :
          /\ index[w] # None
          /\ loaded' = [loaded EXCEPT ![w] = Add(loaded[w], m, index[w][m])]
    BY <1>7 DEF Module
  <2>2. Add(loaded[w], m, index[w][m]) \in Partial
    <3>1. index[w][m] \in Versions
      BY <2>1 DEF Index
    <3>2. loaded[w] \in Partial
      OBVIOUS
    <3> HIDE ModuleIndexAssumption DEF TypeOK, caches, objects, routing
    <3> QED
      BY <3>1, <3>2, Added
  <2>3. loaded' \in [Workers -> Partial]
    BY <2>1, <2>2
  <2> QED
    BY <1>7, <2>3 DEF Module
<1>8. ASSUME NEW w \in Workers, Rebuild(w)
      PROVE  TypeOK'
  BY <1>8, NothingIsPartial DEF Rebuild, Cleared
<1>9. ASSUME NEW w \in Workers, Route(w) \/ CleanRoutes(w)
      PROVE  TypeOK'
  BY <1>9 DEF Route, CleanRoutes
<1>10. ASSUME NEW w \in Workers, RebuildRoutes(w)
       PROVE  TypeOK'
  BY <1>10 DEF RebuildRoutes
<1>11. ASSUME NEW w \in Workers, GetRoutes(w) \/ Dispatch(w)
       PROVE  TypeOK'
  BY <1>11 DEF GetRoutes, Dispatch
<1>12. CASE UNCHANGED vars
  BY <1>12 DEF vars
<1> QED
  BY <1>1, <1>2, <1>3, <1>4, <1>5, <1>6, <1>7, <1>8, <1>9, <1>10, <1>11, <1>12 DEF Next

LEMMA InitIInv == Init => IInv
<1> SUFFICES ASSUME Init
             PROVE  IInv
  OBVIOUS
<1> USE ModuleIndexAssumption DEF Init
<1>1. 0 \in Versions
  BY DEF Versions
<1>2. TypeOK
  BY <1>1, NothingIsPartial DEF TypeOK
<1>3. OnlyLateSpoils /\ ReadsAreNew /\ ReadsForItself /\ LoadedIsIndexed
  BY NothingIsPartial DEF OnlyLateSpoils, ReadsAreNew, ReadsForItself, LoadedIsIndexed
<1> QED
  BY <1>2, <1>3 DEF IInv

(* The modules made and the index they are made of, step by step. *)
LEMMA LoadedInductive == IInv /\ [Next]_vars => LoadedIsIndexed' /\ ReadsForItself'
<1> SUFFICES ASSUME IInv, [Next]_vars
             PROVE  LoadedIsIndexed' /\ ReadsForItself'
  OBVIOUS
<1> USE DEF IInv, TypeOK, LoadedIsIndexed, ReadsForItself, caches, objects, routing
<1>1. ASSUME UNCHANGED <<objects, reading>>
      PROVE  LoadedIsIndexed' /\ ReadsForItself'
  BY <1>1
<1>2. CASE Deploy \/ Wipe
  BY <1>1, <1>2 DEF Deploy, Wipe
<1>3. ASSUME NEW w \in Workers,
             Route(w) \/ CleanRoutes(w) \/ RebuildRoutes(w) \/ GetRoutes(w) \/ Dispatch(w)
      PROVE  LoadedIsIndexed' /\ ReadsForItself'
  BY <1>1, <1>3 DEF Route, CleanRoutes, RebuildRoutes, GetRoutes, Dispatch
<1>4. ASSUME NEW w \in Workers, Begin(w) \/ Rebuild(w)
      PROVE  LoadedIsIndexed' /\ ReadsForItself'
  <2>1. /\ index' = [index EXCEPT ![w] = None] /\ loaded' = [loaded EXCEPT ![w] = Nothing]
        /\ reading' = reading /\ reading[w] = None
    BY <1>4 DEF Begin, Rebuild
  <2> QED
    BY <2>1, NothingIsPartial
<1>5. ASSUME NEW w \in Workers, IndexGet(w)
      PROVE  LoadedIsIndexed' /\ ReadsForItself'
  <2>1. DOMAIN loaded[w] = {}
    BY <1>5 DEF IndexGet
  <2> QED
    BY <1>5, <2>1 DEF IndexGet
<1>6. ASSUME NEW w \in Workers, Read(w)
      PROVE  LoadedIsIndexed' /\ ReadsForItself'
  BY <1>6 DEF Read
<1>7. ASSUME NEW w \in Workers, IndexSet(w)
      PROVE  LoadedIsIndexed' /\ ReadsForItself'
  <2>1. DOMAIN loaded[w] = {}
    BY <1>7 DEF IndexSet
  <2> QED
    BY <1>7, <2>1 DEF IndexSet
<1>8. ASSUME NEW w \in Workers, Module(w)
      PROVE  LoadedIsIndexed' /\ ReadsForItself'
  <2>1. PICK m \in Modules :
          /\ index[w] # None
          /\ loaded' = [loaded EXCEPT ![w] = Add(loaded[w], m, index[w][m])]
    BY <1>8 DEF Module
  <2>2. index[w][m] \in Versions
    BY <2>1 DEF Index
  <2>3. \A x \in DOMAIN Add(loaded[w], m, index[w][m]) :
          Add(loaded[w], m, index[w][m])[x] = index[w][x]
    <3>1. loaded[w] \in Partial
      OBVIOUS
    <3>2. /\ DOMAIN Add(loaded[w], m, index[w][m]) = DOMAIN loaded[w] \cup {m}
          /\ \A x \in DOMAIN loaded[w] \cup {m} :
               Add(loaded[w], m, index[w][m])[x] = IF x = m THEN index[w][m] ELSE loaded[w][x]
      <4> HIDE DEF IInv, TypeOK, LoadedIsIndexed, ReadsForItself, caches, objects, routing
      <4> QED
        BY DEF Add
    <3>3. index[w] # None /\ \A x \in DOMAIN loaded[w] : loaded[w][x] = index[w][x]
      BY <2>1
    <3> QED
      BY <3>2, <3>3
  <2> QED
    BY <1>8, <2>1, <2>3 DEF Module
<1> QED
  BY <1>1, <1>2, <1>3, <1>4, <1>5, <1>6, <1>7, <1>8 DEF Next, vars

(* What is read and what is stored, step by step. *)
LEMMA NewInductive == IInv /\ [Next]_vars => OnlyLateSpoils' /\ ReadsAreNew'
<1> SUFFICES ASSUME IInv, [Next]_vars
             PROVE  OnlyLateSpoils' /\ ReadsAreNew'
  OBVIOUS
<1> USE ModuleIndexAssumption
    DEF IInv, TypeOK, OnlyLateSpoils, ReadsAreNew, NotBefore, caches, objects, routing
<1>1. ASSUME UNCHANGED <<files, indexCache, reading, lastClear, late, spoilt>>
      PROVE  OnlyLateSpoils' /\ ReadsAreNew'
  BY <1>1
<1>2. CASE Deploy
  BY <1>2 DEF Deploy, Versions
<1>3. ASSUME NEW w \in Workers,
             \/ Begin(w) \/ Module(w) \/ Route(w) \/ CleanRoutes(w)
             \/ RebuildRoutes(w) \/ GetRoutes(w) \/ Dispatch(w)
      PROVE  OnlyLateSpoils' /\ ReadsAreNew'
  BY <1>1, <1>3 DEF Begin, Module, Route, CleanRoutes, RebuildRoutes, GetRoutes, Dispatch
<1>4. ASSUME Cleared, UNCHANGED <<files, reading>>
      PROVE  OnlyLateSpoils' /\ ReadsAreNew'
  <2>1. OnlyLateSpoils'
    BY <1>4 DEF Cleared
  <2>2. \A w \in Workers : reading'[w] # None => w \in late'
    BY <1>4 DEF Cleared
  <2>3. lastClear' <= files'
    BY <1>4 DEF Cleared, Versions
  <2> QED
    BY <2>1, <2>2, <2>3
<1>5. CASE Wipe
  BY <1>4, <1>5 DEF Wipe
<1>6. ASSUME NEW w \in Workers, Rebuild(w)
      PROVE  OnlyLateSpoils' /\ ReadsAreNew'
  BY <1>4, <1>6 DEF Rebuild
<1>7. ASSUME NEW w \in Workers, IndexGet(w)
      PROVE  OnlyLateSpoils' /\ ReadsAreNew'
  BY <1>7, NothingIsPartial DEF IndexGet
<1>8. ASSUME NEW w \in Workers, Read(w)
      PROVE  OnlyLateSpoils' /\ ReadsAreNew'
  <2>1. PICK m \in Modules :
          /\ reading[w] # None
          /\ reading' = [reading EXCEPT ![w] = Add(reading[w], m, files)]
    BY <1>8 DEF Read
  <2> reading[w] \in Partial
    BY <2>1
  <2>2. /\ DOMAIN Add(reading[w], m, files) = DOMAIN reading[w] \cup {m}
        /\ \A x \in DOMAIN reading[w] \cup {m} :
             Add(reading[w], m, files)[x] = IF x = m THEN files ELSE reading[w][x]
    <3> HIDE ModuleIndexAssumption
        DEF IInv, TypeOK, OnlyLateSpoils, ReadsAreNew, NotBefore, caches, objects, routing
    <3> QED
      BY DEF Add
  <2>3. w \notin late => NotBefore(lastClear, Add(reading[w], m, files))
    BY <2>1, <2>2 DEF Versions
  <2>4. ReadsAreNew'
    BY <1>8, <2>1, <2>3 DEF Read
  <2> QED
    BY <1>8, <2>4 DEF Read
<1>9. ASSUME NEW w \in Workers, IndexSet(w)
      PROVE  OnlyLateSpoils' /\ ReadsAreNew'
  BY <1>9 DEF IndexSet
<1> QED
  BY <1>1, <1>2, <1>3, <1>5, <1>6, <1>7, <1>8, <1>9 DEF Next, vars

(* The inductive invariant. *)
THEOREM Invariant == Spec => []IInv
<1>1. IInv /\ [Next]_vars => IInv'
  BY TypeInductive, LoadedInductive, NewInductive DEF IInv
<1> QED
  BY <1>1, InitIInv, PTL DEF Spec

(* The variables keep their types. *)
THEOREM TypeCorrect == Spec => []TypeOK
<1>1. IInv => TypeOK
  BY DEF IInv
<1> QED
  BY <1>1, Invariant, PTL

(* A worker's modules are made of its index: rebuild() drops both. *)
THEOREM ModulesFollowIndex == Spec => []LoadedIsIndexed
<1>1. IInv => LoadedIsIndexed
  BY DEF IInv
<1> QED
  BY <1>1, Invariant, PTL

(* An index older than the last clear is stored only by a worker that was  *)
(* reading the files during the clear, however many workers there are.     *)
THEOREM OnlyReadersSpoil == Spec => []OnlyLateSpoils
<1>1. IInv => OnlyLateSpoils
  BY DEF IInv
<1> QED
  BY <1>1, Invariant, PTL

(* Whoever else rebuilds routes or index, mkRouteDispatcher() gets what     *)
(* has() has promised it, unless the cache directory is emptied meanwhile. *)
THEOREM RoutesAreGot == Spec => []RoutesThere
<1>1. Init => RoutesStay
  BY DEF Init, RoutesStay, RoutesThere
<1>2. IInv /\ RoutesStay /\ [Next]_vars => RoutesStay'
  <2> SUFFICES ASSUME IInv, RoutesStay, [Next]_vars
               PROVE  RoutesStay'
    OBVIOUS
  <2> USE DEF IInv, TypeOK, RoutesStay, RoutesThere, caches, objects, routing
  <2>1. ASSUME UNCHANGED <<routesCache, pc, routes, robbed>>
        PROVE  RoutesStay'
    BY <2>1
  <2>2. CASE Deploy
    BY <2>1, <2>2 DEF Deploy
  <2>3. ASSUME NEW w \in Workers,
               Begin(w) \/ IndexGet(w) \/ Read(w) \/ IndexSet(w) \/ Module(w) \/ Rebuild(w)
        PROVE  RoutesStay'
    BY <2>1, <2>3 DEF Begin, IndexGet, Read, IndexSet, Module, Rebuild
  <2>4. ASSUME NEW w \in Workers, Route(w)
        PROVE  RoutesStay'
    BY <2>4 DEF Route
  <2>5. ASSUME NEW w \in Workers, CleanRoutes(w)
        PROVE  RoutesStay'
    BY <2>5 DEF CleanRoutes
  <2>6. ASSUME NEW w \in Workers, RebuildRoutes(w)
        PROVE  RoutesStay'
    BY <2>6 DEF RebuildRoutes
  <2>7. ASSUME NEW w \in Workers, GetRoutes(w)
        PROVE  RoutesStay'
    BY <2>7 DEF GetRoutes
  <2>8. ASSUME NEW w \in Workers, Dispatch(w)
        PROVE  RoutesStay'
    BY <2>8 DEF Dispatch
  <2>9. CASE Wipe
    BY <2>9 DEF Wipe
  <2> QED
    BY <2>1, <2>2, <2>3, <2>4, <2>5, <2>6, <2>7, <2>8, <2>9 DEF Next, vars
<1>3. RoutesStay => RoutesThere
  BY DEF RoutesStay
<1> QED
  BY <1>1, <1>2, <1>3, Invariant, PTL DEF Spec
=============================================================================
