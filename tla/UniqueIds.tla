------------------------------- MODULE UniqueIds ----------------------------
(***************************************************************************)
(* The two counters of lib/base/jquery-ext.ts: uniqId(), which gives ids   *)
(* to elements that have none and removeUniqId() takes away, and once(),   *)
(* which marks elements with a class of its own.                           *)
(***************************************************************************)
EXTENDS Naturals, FiniteSets

CONSTANTS
  Elements,   \* the elements of a page
  MaxIds      \* bound: of both counters

VARIABLES
  ids,        \* the id of each element: a number of "ui-id-", 0 if it has
              \* none, or the element itself for one the page has given it
  uuid,       \* the variable "uuid"
  uniqId,     \* the variable "uniqId"
  classes,    \* the numbers of the classes "-processed" of each element
  runs        \* how often the functions given to once() ran for it

vars == <<ids, uuid, uniqId, classes, runs>>

Given(e) == <<e>>       \* an id of the page's own

Init ==
  /\ ids \in [Elements -> {<<>>}] /\ uuid = 0
  /\ uniqId = 0
  /\ classes = [e \in Elements |-> {}] /\ runs = [e \in Elements |-> 0]

(* The elements come in some order. *)
UniqId(S) ==
  LET new == {e \in S : ids[e] = <<>>}
  IN  /\ uuid + Cardinality(new) <= MaxIds
      /\ \E number \in [new -> uuid + 1 .. uuid + Cardinality(new)] :
           /\ \A d, e \in new : number[d] = number[e] => d = e
           /\ ids' = [e \in Elements |-> IF e \in new THEN <<number[e]>> ELSE ids[e]]
      /\ uuid' = uuid + Cardinality(new)
      /\ UNCHANGED <<uniqId, classes, runs>>

(* A variant that uses the numbers again. *)
RemoveUniqIdResets(S) ==
  /\ ids' = [e \in Elements |-> IF e \in S /\ ids[e] # Given(e) THEN <<>> ELSE ids[e]]
  /\ uuid' = 0
  /\ UNCHANGED <<uniqId, classes, runs>>

RemoveUniqId(S) ==
  /\ ids' = [e \in Elements |-> IF e \in S /\ ids[e] # Given(e) THEN <<>> ELSE ids[e]]
  /\ UNCHANGED <<uuid, uniqId, classes, runs>>

(* Each call has a class of its own, which no element can have yet. *)
Once(S) ==
  LET new == {e \in S : uniqId \notin classes[e]}
  IN  /\ uniqId < MaxIds
      /\ classes' = [e \in Elements |-> IF e \in new THEN classes[e] \cup {uniqId} ELSE classes[e]]
      /\ runs' = [e \in Elements |-> IF e \in new THEN runs[e] + 1 ELSE runs[e]]
      /\ uniqId' = uniqId + 1
      /\ UNCHANGED <<ids, uuid>>

(* The page gives an element an id of its own, or takes it. *)
Page(e) ==
  /\ ids' = [ids EXCEPT ![e] = IF @ = Given(e) THEN <<>> ELSE Given(e)]
  /\ UNCHANGED <<uuid, uniqId, classes, runs>>

Next ==
  \/ \E S \in SUBSET Elements : UniqId(S) \/ RemoveUniqId(S) \/ Once(S)
  \/ \E e \in Elements : Page(e)

Spec == Init /\ [][Next]_vars

-----------------------------------------------------------------------------

(* No two elements get the same id, however often ids are taken away and   *)
(* given again; and a function runs for an element each time once() is     *)
(* called with it, not only the first time, as its name says.              *)
IdsAreUnique ==
  /\ \A d, e \in Elements : d # e /\ ids[d] # <<>> => ids[d] # ids[e]
  /\ \A e \in Elements : runs[e] = Cardinality(classes[e])
=============================================================================
