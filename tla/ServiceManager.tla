--------------------------- MODULE ServiceManager ---------------------------
(***************************************************************************)
(* Base/ServiceManager.php: services are made on first use by factory      *)
(* methods, which ask the manager for other services while they run.  The  *)
(* program (its factories and aliases) is chosen at the start; the calls   *)
(* of offsetGet() nest on a stack, one frame for each running factory.     *)
(***************************************************************************)
EXTENDS Integers, FiniteSets, Sequences, SequencesExt

CONSTANTS Ids,          \* the ids of services and aliases
          None,         \* no id
          MaxDeps,      \* bound: services a factory asks for
          MaxAliases,   \* bound: aliases of the program
          Throws        \* factories may throw exceptions of their own

ASSUME ServiceManagerAssumption ==
  /\ None \notin Ids
  /\ {MaxDeps, MaxAliases} \subseteq Nat
  /\ Throws \in BOOLEAN

VARIABLES deps,       \* for each id with a factory, the ids it asks for in order
          aliases,    \* $aliases
          services,   \* the ids stored in the ArrayObject
          loading,    \* $loading
          stack,      \* running factories: the id and the next it asks for
          want,       \* the id offsetGet() is looking up
          outcome,    \* of the call of the program, "none" while it runs
          asked,      \* the id the program asked for
          before      \* the services there were when it did

program == <<deps, aliases>>
call == <<asked, before>>
vars == <<program, services, loading, stack, want, outcome, call>>

Errors == {"circular", "notFound", "thrown"}
Top == stack[Len(stack)]
Idle == stack = <<>> /\ want = None

\* The ids that following the aliases from id leads through.
AliasChain(id) ==
  {t \in Ids : \A S \in SUBSET Ids :
                 id \in S /\ (\A a \in S \cap DOMAIN aliases : aliases[a] \in S) => t \in S}

\* Mutant: offsetExists() does not resolve aliases.
EndsAtOnce(id) == {id}

\* Where offsetExists() and offsetUnset() stop: they notice an alias of itself.
Ends(id) == {t \in AliasChain(id) : t \in DOMAIN aliases => aliases[t] = t}
Exists(id) == \E t \in Ends(id) : t \in services \/ t \in DOMAIN deps

PartialFunctions(S, T) == UNION {[D -> T] : D \in SUBSET S}

Init ==
  /\ deps \in PartialFunctions(Ids, SeqOf(Ids, MaxDeps))
  /\ aliases \in {f \in PartialFunctions(Ids, Ids) : Cardinality(DOMAIN f) <= MaxAliases}
  /\ services = {} /\ loading = {}
  /\ stack = <<>> /\ want = None
  /\ outcome = "none" /\ asked = None /\ before = {}

\* The program asks for a service.
Get(id) ==
  /\ Idle
  /\ want' = id
  /\ outcome' = "none" /\ asked' = id /\ before' = services
  /\ UNCHANGED <<program, services, loading, stack>>

Follow ==
  /\ want \in DOMAIN aliases
  /\ want' = aliases[want]
  /\ UNCHANGED <<program, services, loading, stack, outcome, call>>

\* offsetGet() returns a service: to the program, or to the factory below.
Returns(frames) ==
  IF frames = <<>> THEN stack' = <<>> /\ outcome' = "ok"
  ELSE /\ stack' = [frames EXCEPT ![Len(frames)].next = @ + 1]
       /\ outcome' = outcome

\* Mutant: an id is looked up without its alias.
LooksUpAny == want \in Ids

LooksUp == want \in Ids \ DOMAIN aliases

Found ==
  /\ LooksUp /\ want \in services
  /\ Returns(stack)
  /\ want' = None
  /\ UNCHANGED <<program, services, loading, call>>

\* Mutant: no exception; the factory asks again.
CircularRetries ==
  /\ LooksUp /\ want \notin services /\ want \in loading
  /\ want' = None
  /\ UNCHANGED <<program, services, loading, stack, outcome, call>>

Circular ==
  /\ LooksUp /\ want \notin services /\ want \in loading
  /\ outcome' = "circular"
  /\ want' = None
  /\ UNCHANGED <<program, services, loading, stack, call>>

\* mkService(): the factory starts, if there is one.
MkService ==
  /\ LooksUp /\ want \notin services /\ want \notin loading
  /\ loading' = loading \cup {want}
  /\ stack' = Append(stack, [id |-> want, next |-> 1])
  /\ want' = None
  /\ outcome' = IF want \in DOMAIN deps THEN outcome ELSE "notFound"
  /\ UNCHANGED <<program, services, call>>

Running == stack # <<>> /\ want = None /\ outcome = "none"

Ask ==
  /\ Running /\ Top.next <= Len(deps[Top.id])
  /\ want' = deps[Top.id][Top.next]
  /\ UNCHANGED <<program, services, loading, stack, outcome, call>>

FactoryThrows ==
  /\ Throws /\ Running
  /\ outcome' = "thrown"
  /\ UNCHANGED <<program, services, loading, stack, want, call>>

\* Mutant: the service is stored before its factory has run to its end.
CreatedEarly ==
  /\ Running
  /\ services' = services \cup {Top.id}
  /\ loading' = loading \ {Top.id}
  /\ Returns(Front(stack))
  /\ UNCHANGED <<program, want, call>>

Created ==
  /\ Running /\ Top.next > Len(deps[Top.id])
  /\ services' = services \cup {Top.id}
  /\ loading' = loading \ {Top.id}
  /\ Returns(Front(stack))
  /\ UNCHANGED <<program, want, call>>

\* Mutant: the id stays in $loading when its factory has thrown.
UnwindKeepsLoading ==
  /\ outcome \in Errors /\ stack # <<>>
  /\ stack' = Front(stack)
  /\ UNCHANGED <<program, services, loading, want, outcome, call>>

\* The exception passes through mkService() and offsetGet() of each frame.
Unwind ==
  /\ outcome \in Errors /\ stack # <<>>
  /\ loading' = loading \ {Top.id}
  /\ stack' = Front(stack)
  /\ UNCHANGED <<program, services, want, outcome, call>>

Unset(id) ==
  /\ Idle /\ Exists(id)
  /\ services' = services \ Ends(id)
  /\ asked' = None
  /\ UNCHANGED <<program, loading, stack, want, outcome, before>>

Step ==
  \/ Follow \/ Found \/ Circular \/ MkService
  \/ Ask \/ FactoryThrows \/ Created \/ Unwind

Next == Step \/ \E id \in Ids : Get(id) \/ Unset(id)

Spec == Init /\ [][Next]_vars

\* A call of offsetGet() runs on until it returns.
FairSpec == Spec /\ WF_vars(Step)

-----------------------------------------------------------------------------
(* Properties                                                              *)

Frames == [id : Ids, next : Nat \ {0}]

TypeOK ==
  /\ DOMAIN deps \subseteq Ids /\ deps \in [DOMAIN deps -> Seq(Ids)]
  /\ DOMAIN aliases \subseteq Ids /\ aliases \in [DOMAIN aliases -> Ids]
  /\ services \subseteq Ids /\ loading \subseteq Ids /\ before \subseteq Ids
  /\ stack \in Seq(Frames)
  /\ want \in Ids \cup {None} /\ asked \in Ids \cup {None}
  /\ outcome \in {"none", "ok"} \cup Errors

\* What a factory asked for is there, in the place the aliases lead to.
Present(id) == \E t \in AliasChain(id) \ DOMAIN aliases : t \in services

\* A service is stored only when everything its factory asks for is stored:
\* no part of the program gets hold of a half-made service.
MadeInOrder ==
  [][\A id \in services' \ services :
       id \in DOMAIN deps /\ \A i \in 1..Len(deps[id]) : Present(deps[id][i])]_vars

\* $loading is what the stack of running factories says, each once: nothing
\* is left behind by an exception, and no factory runs within itself.
LoadingIsRunning ==
  /\ \A i, j \in 1..Len(stack) : stack[i].id = stack[j].id => i = j
  /\ loading = {stack[i].id : i \in 1..Len(stack)}

\* The reasons for both.  A frame waits for the frame or the lookup above it
\* and has got all it asked for before; only the top one may lack a factory.
Asks(i) == stack[i].id \in DOMAIN deps /\ stack[i].next <= Len(deps[stack[i].id])
AskedFor(i) == deps[stack[i].id][stack[i].next]

HasFactory ==
  \A i \in 1..Len(stack) :
    stack[i].id \in DOMAIN deps \/ (i = Len(stack) /\ outcome = "notFound")

HasGot ==
  \A i \in 1..Len(stack) : stack[i].id \in DOMAIN deps =>
    \A j \in 1..Len(deps[stack[i].id]) : j < stack[i].next => Present(deps[stack[i].id][j])

Waits ==
  /\ \A i \in 1..(Len(stack) - 1) : Asks(i) /\ stack[i + 1].id \in AliasChain(AskedFor(i))
  /\ want # None /\ stack # <<>> =>
       Asks(Len(stack)) /\ want \in AliasChain(AskedFor(Len(stack)))

Resolved ==
  /\ want # None => outcome = "none"
  /\ stack # <<>> => outcome # "ok"
  /\ \A i \in 1..Len(stack) : stack[i].id \notin DOMAIN aliases

IInv == TypeOK /\ LoadingIsRunning /\ HasFactory /\ HasGot /\ Waits /\ Resolved

\* The services that can be made from those of S: the least set with S in it
\* and every factory that asks only for members of it.
Makeable(S) ==
  {id \in Ids : \A T \in SUBSET Ids :
     /\ S \subseteq T
     /\ \A f \in DOMAIN deps :
          (\A i \in 1..Len(deps[f]) : \E t \in AliasChain(deps[f][i]) \ DOMAIN aliases : t \in T)
            => f \in T
     => id \in T}

\* A call succeeds exactly when the service can be made, whatever failed in
\* earlier calls; a failed call stores only services that could be made.
AnswersRight ==
  asked # None /\ Idle =>
    /\ outcome = "ok" => \E t \in Ends(asked) : t \in Makeable(before)
    /\ outcome \in {"circular", "notFound"} =>
         ~ \E t \in AliasChain(asked) \ DOMAIN aliases : t \in Makeable(before)
    /\ services \subseteq Makeable(before)

\* ServiceManagerTest::testArrayAccess_OffsetExists_...: what offsetGet()
\* can return, offsetExists() says exists, though they resolve aliases apart.
ExistsIfReturned == asked # None /\ Idle /\ outcome = "ok" => Exists(asked)

\* Unless the aliases run in a circle, every call returns or throws, also
\* when the factories ask for each other in a circle.
Circles == \E a \in DOMAIN aliases : \A t \in AliasChain(a) : t \in DOMAIN aliases
CallsReturn == (want # None /\ ~Circles) ~> Idle

=============================================================================
