------------------------ MODULE ServiceManagerProofs ------------------------
(***************************************************************************)
(* What ServiceManager keeps for any set of ids, any factories and any     *)
(* aliases: $loading follows the running factories, a service is stored    *)
(* only after everything its factory asks for, and a call answers what the *)
(* program determines; and that the factories of a site, AppServices, all  *)
(* succeed.                                                                *)
(***************************************************************************)
EXTENDS AppServices, SequenceTheorems, TLAPS

-----------------------------------------------------------------------------
(* Chains of aliases.                                                      *)

LEMMA ChainStarts ==
  ASSUME NEW id \in Ids
  PROVE  id \in AliasChain(id)
BY DEF AliasChain

LEMMA ChainGoesOn ==
  ASSUME NEW id, NEW t \in AliasChain(id), t \in DOMAIN aliases, aliases[t] \in Ids
  PROVE  aliases[t] \in AliasChain(id)
BY DEF AliasChain

-----------------------------------------------------------------------------
(* The stack: the frame on top, the stack without it, the frame below one  *)
(* step further.                                                           *)

LEMMA StackTop ==
  ASSUME stack \in Seq(Frames), stack # <<>>
  PROVE  /\ Len(stack) \in Nat \ {0}
         /\ Top = stack[Len(stack)] /\ Top \in Frames
         /\ Top.id \in Ids /\ Top.next \in Nat \ {0}
<1>1. Len(stack) \in Nat \ {0} /\ stack[Len(stack)] \in Frames
  OBVIOUS
<1> QED
  BY <1>1 DEF Top, Frames

LEMMA FrontOfSeq ==
  ASSUME NEW S, NEW s \in Seq(S), s # <<>>
  PROVE  /\ Front(s) \in Seq(S)
         /\ Len(Front(s)) = Len(s) - 1
         /\ \A i \in 1..(Len(s) - 1) : Front(s)[i] = s[i]
<1> DEFINE n == Len(s) - 1
<1>1. n \in Nat /\ \A i \in 1..n : s[i] \in S
  OBVIOUS
<1>2. Front(s) = SubSeq(s, 1, n)
  BY DEF Front
<1>3. /\ SubSeq(s, 1, n) \in Seq(S)
      /\ Len(SubSeq(s, 1, n)) = IF 1 <= n THEN n - 1 + 1 ELSE 0
      /\ \A i \in 1 .. n - 1 + 1 : SubSeq(s, 1, n)[i] = s[1 + i - 1]
  BY <1>1, SubSeqProperties
<1> HIDE DEF n
<1>4. Len(SubSeq(s, 1, n)) = n /\ \A i \in 1..n : SubSeq(s, 1, n)[i] = s[i]
  BY <1>1, <1>3
<1> QED
  BY <1>2, <1>3, <1>4 DEF n

LEMMA StackFront ==
  ASSUME stack \in Seq(Frames), stack # <<>>
  PROVE  /\ Front(stack) \in Seq(Frames)
         /\ Len(Front(stack)) = Len(stack) - 1
         /\ \A i \in 1..(Len(stack) - 1) : Front(stack)[i] = stack[i]
BY FrontOfSeq

LEMMA Advanced ==
  ASSUME NEW frames \in Seq(Frames), Returns(frames)
  PROVE  /\ stack' \in Seq(Frames) /\ Len(stack') = Len(frames)
         /\ \A i \in 1..Len(frames) :
              /\ stack'[i].id = frames[i].id
              /\ i # Len(frames) => stack'[i] = frames[i]
              /\ i = Len(frames) => stack'[i].next = frames[i].next + 1
         /\ frames # <<>> => outcome' = outcome
         /\ frames = <<>> => outcome' = "ok"
<1>1. CASE frames = <<>>
  BY <1>1 DEF Returns
<1>2. CASE frames # <<>>
  <2> DEFINE n == Len(frames)
  <2>1. n \in Nat \ {0} /\ frames[n] \in Frames
    BY <1>2
  <2>2. stack' = [frames EXCEPT ![n] = [frames[n] EXCEPT !.next = @ + 1]]
    BY <1>2 DEF Returns
  <2>3. [frames[n] EXCEPT !.next = @ + 1] \in Frames
    BY <2>1 DEF Frames
  <2>4. stack' \in Seq(Frames) /\ Len(stack') = n
    BY <2>1, <2>2, <2>3
  <2>5. \A i \in 1..n : i # n => stack'[i] = frames[i]
    BY <2>1, <2>2
  <2>6. stack'[n] = [frames[n] EXCEPT !.next = @ + 1]
    BY <2>1, <2>2
  <2>7. stack'[n].id = frames[n].id /\ stack'[n].next = frames[n].next + 1
    BY <2>1, <2>6 DEF Frames
  <2>8. outcome' = outcome
    BY <1>2 DEF Returns
  <2> QED
    BY <1>2, <2>1, <2>4, <2>5, <2>7, <2>8
<1> QED
  BY <1>1, <1>2

-----------------------------------------------------------------------------

LEMMA InitIInv == Init => IInv
<1> SUFFICES ASSUME Init PROVE IInv
  OBVIOUS
<1>1. /\ DOMAIN deps \subseteq Ids /\ deps \in [DOMAIN deps -> Seq(Ids)]
  BY DEF Init, PartialFunctions, SeqOf
<1>2. DOMAIN aliases \subseteq Ids /\ aliases \in [DOMAIN aliases -> Ids]
  BY DEF Init, PartialFunctions
<1>3. TypeOK
  BY <1>1, <1>2 DEF Init, TypeOK, Errors
<1>4. stack = <<>> /\ Len(stack) = 0 /\ loading = {} /\ want = None
  BY DEF Init
<1> QED
  BY <1>3, <1>4 DEF IInv, LoadingIsRunning, HasFactory, HasGot, Waits, Resolved

LEMMA NextTypeOK ==
  ASSUME TypeOK, HasFactory, Next
  PROVE  TypeOK'
<1> USE DEF TypeOK, Errors, program, call
<1>1. ASSUME NEW id \in Ids, Get(id)
      PROVE  TypeOK'
  BY <1>1 DEF Get
<1>2. ASSUME NEW id \in Ids, Unset(id)
      PROVE  TypeOK'
  BY <1>2 DEF Unset
<1>3. CASE Follow
  BY <1>3 DEF Follow
<1>4. CASE Found
  BY <1>4, Advanced DEF Found
<1>5. CASE Circular
  BY <1>5 DEF Circular
<1>6. CASE MkService
  <2>1. want \in Ids
    BY <1>6 DEF MkService, LooksUp
  <2>2. [id |-> want, next |-> 1] \in Frames
    BY <2>1 DEF Frames
  <2> QED
    BY <1>6, <2>1, <2>2 DEF MkService
<1>7. CASE Ask
  <2>1. Len(stack) \in 1..Len(stack) /\ Top = stack[Len(stack)] /\ Top.next \in Nat \ {0}
    BY <1>7, StackTop DEF Ask, Running
  <2>2. Top.id \in DOMAIN deps
    BY <1>7, <2>1 DEF Ask, Running, HasFactory
  <2>3. deps[Top.id] \in Seq(Ids) /\ Top.next \in 1..Len(deps[Top.id])
    BY <1>7, <2>1, <2>2 DEF Ask
  <2>4. want' \in Ids
    BY <1>7, <2>3 DEF Ask
  <2> QED
    BY <1>7, <2>4 DEF Ask
<1>8. CASE FactoryThrows
  BY <1>8 DEF FactoryThrows
<1>9. CASE Created
  BY <1>9, StackTop, StackFront, Advanced DEF Created, Running
<1>10. CASE Unwind
  BY <1>10, StackFront DEF Unwind
<1> QED
  BY <1>1, <1>2, <1>3, <1>4, <1>5, <1>6, <1>7, <1>8, <1>9, <1>10 DEF Next, Step

LEMMA NextResolved ==
  ASSUME TypeOK, Resolved, Next, TypeOK'
  PROVE  Resolved'
<1> USE DEF Resolved, program, call
<1>0. stack \in Seq(Frames) /\ stack' \in Seq(Frames)
  BY DEF TypeOK
<1>1. ASSUME NEW id \in Ids, Get(id) \/ Unset(id)
      PROVE  Resolved'
  BY <1>1 DEF Get, Unset, Idle
<1>2. CASE Follow
  BY <1>2, ServiceManagerAssumption DEF Follow, TypeOK, ServiceManagerAssumption
<1>3. CASE Found
  <2>1. /\ aliases' = aliases /\ want' = None
        /\ want \in Ids \ DOMAIN aliases /\ Returns(stack)
    BY <1>3 DEF Found, LooksUp
  <2>2. want # None
    BY <2>1, ServiceManagerAssumption DEF ServiceManagerAssumption
  <2> QED
    BY <1>0, <2>1, <2>2, Advanced
<1>4. CASE Circular
  BY <1>4 DEF Circular
<1>5. CASE MkService
  <2>1. /\ want \in Ids \ DOMAIN aliases /\ want # None /\ want' = None
        /\ stack' = Append(stack, [id |-> want, next |-> 1])
        /\ aliases' = aliases
    BY <1>5, ServiceManagerAssumption DEF MkService, LooksUp, ServiceManagerAssumption
  <2>2. outcome' # "ok"
    BY <1>5, <2>1 DEF MkService
  <2>3. Len(stack') = Len(stack) + 1 /\ stack'[Len(stack) + 1].id = want
    BY <1>0, <2>1
  <2>4. \A i \in 1..Len(stack) : stack'[i] = stack[i]
    BY <1>0, <2>1
  <2> QED
    BY <1>0, <2>1, <2>2, <2>3, <2>4
<1>6. CASE Ask
  BY <1>6 DEF Ask, Running
<1>7. CASE FactoryThrows
  BY <1>7 DEF FactoryThrows, Running
<1>8. CASE Created
  <2>1. /\ want' = None /\ stack # <<>> /\ aliases' = aliases /\ outcome = "none"
        /\ Returns(Front(stack))
    BY <1>8 DEF Created, Running
  <2> QED
    BY <1>0, <2>1, StackFront, Advanced
<1>9. CASE Unwind
  <2>1. stack # <<>> /\ stack' = Front(stack) /\ UNCHANGED <<aliases, want, outcome>>
    BY <1>9 DEF Unwind
  <2> QED
    BY <1>0, <2>1, StackFront
<1> QED
  BY <1>1, <1>2, <1>3, <1>4, <1>5, <1>6, <1>7, <1>8, <1>9 DEF Next, Step

(* What the actions do to the stack, for the lemmas that follow. *)
LEMMA StackSteps ==
  ASSUME TypeOK, Next, TypeOK'
  PROVE  /\ UNCHANGED <<deps, aliases>>
         /\ \/ stack' = stack
            \/ /\ Found /\ stack # <<>> /\ Returns(stack)
            \/ /\ MkService /\ stack' = Append(stack, [id |-> want, next |-> 1])
            \/ /\ Created /\ stack # <<>> /\ Returns(Front(stack))
            \/ /\ Unwind /\ stack # <<>> /\ stack' = Front(stack)
<1>1. ASSUME NEW id \in Ids, Get(id) \/ Unset(id)
      PROVE  UNCHANGED <<deps, aliases>> /\ stack' = stack
  BY <1>1 DEF Get, Unset, program
<1>2. CASE Follow \/ Circular \/ Ask \/ FactoryThrows
  BY <1>2 DEF Follow, Circular, Ask, FactoryThrows, program
<1>3. CASE Found
  BY <1>3 DEF Found, Returns, program
<1>4. CASE MkService
  BY <1>4 DEF MkService, program
<1>5. CASE Created
  BY <1>5 DEF Created, Running, program
<1>6. CASE Unwind
  BY <1>6 DEF Unwind, program
<1> QED
  BY <1>1, <1>2, <1>3, <1>4, <1>5, <1>6 DEF Next, Step

LEMMA NextHasFactory ==
  ASSUME TypeOK, Resolved, HasFactory, Next, TypeOK'
  PROVE  HasFactory'
<1> USE DEF HasFactory, program, call
<1>0. stack \in Seq(Frames) /\ stack' \in Seq(Frames) /\ deps' = deps
  BY StackSteps DEF TypeOK
<1>1. ASSUME NEW id \in Ids, Get(id) \/ Unset(id)
      PROVE  HasFactory'
  BY <1>1 DEF Get, Unset, Idle
<1>2. CASE Follow
  BY <1>2 DEF Follow
<1>3. CASE Found \/ Circular
  <2>1. want # None /\ outcome = "none"
    BY <1>3, ServiceManagerAssumption DEF Found, Circular, LooksUp, ServiceManagerAssumption, Resolved
  <2>2. \A i \in 1..Len(stack) : stack[i].id \in DOMAIN deps
    BY <2>1
  <2>3. Len(stack') = Len(stack) /\ \A i \in 1..Len(stack) : stack'[i].id = stack[i].id
    BY <1>0, <1>3, Advanced DEF Found, Circular
  <2> QED
    BY <1>0, <2>2, <2>3
<1>4. CASE MkService
  <2>1. want # None /\ outcome = "none"
    BY <1>4, ServiceManagerAssumption DEF MkService, LooksUp, ServiceManagerAssumption, Resolved
  <2>2. \A i \in 1..Len(stack) : stack[i].id \in DOMAIN deps
    BY <2>1
  <2>3. /\ Len(stack') = Len(stack) + 1 /\ stack'[Len(stack) + 1].id = want
        /\ \A i \in 1..Len(stack) : stack'[i] = stack[i]
    BY <1>0, <1>4 DEF MkService
  <2>4. want \in DOMAIN deps \/ outcome' = "notFound"
    BY <1>4 DEF MkService
  <2> QED
    BY <1>0, <2>2, <2>3, <2>4
<1>5. CASE Ask
  BY <1>5 DEF Ask, Running
<1>6. CASE FactoryThrows
  BY <1>6 DEF FactoryThrows, Running
<1>7. CASE Created
  <2>1. outcome = "none" /\ stack # <<>> /\ Returns(Front(stack))
    BY <1>7 DEF Created, Running
  <2>2. \A i \in 1..Len(stack) : stack[i].id \in DOMAIN deps
    BY <2>1
  <2>3. Len(stack') = Len(stack) - 1 /\ \A i \in 1..(Len(stack) - 1) : stack'[i].id = stack[i].id
    BY <1>0, <2>1, StackFront, Advanced
  <2> QED
    BY <1>0, <2>2, <2>3
<1>8. CASE Unwind
  <2>1. stack # <<>> /\ stack' = Front(stack) /\ outcome' = outcome
    BY <1>8 DEF Unwind
  <2>2. \A i \in 1..(Len(stack) - 1) : stack[i].id \in DOMAIN deps
    BY <1>0
  <2> QED
    BY <1>0, <2>1, <2>2, StackFront
<1> QED
  BY <1>1, <1>2, <1>3, <1>4, <1>5, <1>6, <1>7, <1>8 DEF Next, Step

LEMMA NextLoading ==
  ASSUME TypeOK, LoadingIsRunning, Next, TypeOK'
  PROVE  LoadingIsRunning'
<1>0. stack \in Seq(Frames) /\ stack' \in Seq(Frames)
  BY DEF TypeOK
<1>1. ASSUME NEW id \in Ids, Get(id) \/ Unset(id)
      PROVE  LoadingIsRunning'
  BY <1>1 DEF Get, Unset, LoadingIsRunning
<1>2. CASE Follow \/ Circular \/ Ask \/ FactoryThrows
  BY <1>2 DEF Follow, Circular, Ask, FactoryThrows, LoadingIsRunning
<1>3. CASE Found
  <2>1. Len(stack') = Len(stack) /\ \A i \in 1..Len(stack) : stack'[i].id = stack[i].id
    BY <1>0, <1>3, Advanced DEF Found
  <2>2. loading' = loading
    BY <1>3 DEF Found
  <2> QED
    BY <1>0, <2>1, <2>2 DEF LoadingIsRunning
<1>4. CASE MkService
  <2>1. /\ Len(stack') = Len(stack) + 1 /\ stack'[Len(stack) + 1].id = want
        /\ \A i \in 1..Len(stack) : stack'[i] = stack[i]
    BY <1>0, <1>4 DEF MkService
  <2>2. want \notin loading /\ loading' = loading \cup {want}
    BY <1>4 DEF MkService
  <2>3. \A i \in 1..Len(stack) : stack[i].id # want
    BY <2>2 DEF LoadingIsRunning
  <2>4. \A i, j \in 1..Len(stack') : stack'[i].id = stack'[j].id => i = j
    BY <1>0, <2>1, <2>3 DEF LoadingIsRunning
  <2>5. {stack'[i].id : i \in 1..Len(stack')} = loading \cup {want}
    BY <1>0, <2>1 DEF LoadingIsRunning
  <2> QED
    BY <2>2, <2>4, <2>5 DEF LoadingIsRunning
<1>5. CASE Created \/ Unwind
  <2>1. /\ stack # <<>> /\ loading' = loading \ {Top.id}
        /\ stack' = Front(stack) \/ Returns(Front(stack))
    BY <1>5 DEF Created, Unwind, Running
  <2>2. Len(stack') = Len(stack) - 1 /\ \A i \in 1..(Len(stack) - 1) : stack'[i].id = stack[i].id
    BY <1>0, <2>1, StackFront, Advanced
  <2>3. Len(stack) \in Nat \ {0} /\ Top.id = stack[Len(stack)].id
    BY <1>0, <2>1, StackTop
  <2>4. \A i, j \in 1..Len(stack') : stack'[i].id = stack'[j].id => i = j
    BY <2>2, <2>3 DEF LoadingIsRunning
  <2>5. {stack'[i].id : i \in 1..Len(stack')} = loading \ {Top.id}
    <3>1. \A i \in 1..(Len(stack) - 1) : stack[i].id # Top.id
      BY <2>3 DEF LoadingIsRunning
    <3>2. \A t \in loading : t # Top.id => \E i \in 1..(Len(stack) - 1) : t = stack[i].id
      BY <2>3 DEF LoadingIsRunning
    <3>3. \A i \in 1..(Len(stack) - 1) : stack[i].id \in loading
      BY <2>3 DEF LoadingIsRunning
    <3> QED
      BY <2>2, <2>3, <3>1, <3>2, <3>3
  <2> QED
    BY <2>1, <2>4, <2>5 DEF LoadingIsRunning
<1> QED
  BY <1>1, <1>2, <1>3, <1>4, <1>5 DEF Next, Step

-----------------------------------------------------------------------------
(* The program does not change, so neither do the chains; what is present  *)
(* stays while services are only added.                                    *)

LEMMA SameChains ==
  ASSUME aliases' = aliases, NEW id
  PROVE  AliasChain(id)' = AliasChain(id)
BY DEF AliasChain

LEMMA PresentStays ==
  ASSUME aliases' = aliases, services \subseteq services', NEW id, Present(id)
  PROVE  Present(id)'
BY SameChains DEF Present

LEMMA NextWaits ==
  ASSUME TypeOK, Resolved, HasFactory, Waits, Next, TypeOK'
  PROVE  Waits'
<1>0. /\ stack \in Seq(Frames) /\ stack' \in Seq(Frames)
      /\ deps' = deps /\ aliases' = aliases
      /\ \A id : AliasChain(id)' = AliasChain(id)
  BY StackSteps, SameChains DEF TypeOK
<1>1. ASSUME NEW id \in Ids, Get(id) \/ Unset(id)
      PROVE  Waits'
  BY <1>0, <1>1 DEF Get, Unset, Idle, Waits
<1>2. CASE Follow
  <2>1. /\ want \in DOMAIN aliases /\ want' = aliases[want] /\ stack' = stack
        /\ want # None /\ aliases[want] \in Ids
    BY <1>2, ServiceManagerAssumption DEF Follow, TypeOK, ServiceManagerAssumption
  <2>2. stack # <<>> => aliases[want] \in AliasChain(AskedFor(Len(stack)))
    BY <2>1, ChainGoesOn DEF Waits
  <2> QED
    BY <1>0, <2>1, <2>2 DEF Waits, Asks, AskedFor
<1>3. CASE Found
  <2>1. want' = None /\ Len(stack') = Len(stack)
    BY <1>0, <1>3, Advanced DEF Found
  <2>2. /\ \A i \in 1..Len(stack) : stack'[i].id = stack[i].id
        /\ \A i \in 1..(Len(stack) - 1) : stack'[i] = stack[i]
    BY <1>0, <1>3, Advanced DEF Found
  <2> QED
    BY <1>0, <2>1, <2>2 DEF Waits, Asks, AskedFor
<1>4. CASE Circular
  BY <1>0, <1>4 DEF Circular, Waits, Asks, AskedFor
<1>5. CASE MkService
  <2>1. /\ want \in Ids /\ want # None /\ want' = None
        /\ Len(stack') = Len(stack) + 1 /\ stack'[Len(stack) + 1].id = want
        /\ \A i \in 1..Len(stack) : stack'[i] = stack[i]
    BY <1>0, <1>5, ServiceManagerAssumption DEF MkService, LooksUp, ServiceManagerAssumption
  <2>2. stack # <<>> => Asks(Len(stack)) /\ want \in AliasChain(AskedFor(Len(stack)))
    BY <2>1 DEF Waits
  <2>3. \A i \in 1..Len(stack) : Asks(i)' = Asks(i) /\ AskedFor(i)' = AskedFor(i)
    BY <1>0, <2>1 DEF Asks, AskedFor
  <2>4. \A i \in 1..Len(stack) : Asks(i) /\ stack'[i + 1].id \in AliasChain(AskedFor(i))
    <3> TAKE i \in 1..Len(stack)
    <3>1. CASE i = Len(stack)
      BY <1>0, <2>1, <2>2, <3>1
    <3>2. CASE i # Len(stack)
      <4>1. i \in 1..(Len(stack) - 1) /\ i + 1 \in 1..Len(stack)
        BY <1>0, <3>2
      <4> QED
        BY <2>1, <4>1 DEF Waits
    <3> QED
      BY <3>1, <3>2
  <2>5. \A i \in 1..(Len(stack') - 1) : Asks(i)' /\ stack'[i + 1].id \in AliasChain(AskedFor(i))'
    BY <1>0, <2>1, <2>3, <2>4
  <2> QED
    BY <2>1, <2>5 DEF Waits
<1>6. CASE Ask
  <2>1. /\ stack # <<>> /\ outcome = "none" /\ stack' = stack
        /\ Len(stack) \in 1..Len(stack) /\ Top = stack[Len(stack)]
    BY <1>0, <1>6, StackTop DEF Ask, Running
  <2>2. Top.id \in DOMAIN deps /\ Top.next <= Len(deps[Top.id]) /\ want' = deps[Top.id][Top.next]
    BY <1>6, <2>1 DEF Ask, HasFactory
  <2>3. want' \in Ids
    <3>1. Top.next \in 1..Len(deps[Top.id]) /\ deps[Top.id] \in Seq(Ids)
      BY <1>0, <2>1, <2>2, StackTop DEF TypeOK
    <3> QED
      BY <2>2, <3>1
  <2>4. want' \in AliasChain(AskedFor(Len(stack)))
    BY <2>1, <2>2, <2>3, ChainStarts DEF AskedFor
  <2>5. Asks(Len(stack))
    BY <2>1, <2>2 DEF Asks
  <2> QED
    BY <1>0, <2>1, <2>4, <2>5 DEF Waits, Asks, AskedFor
<1>7. CASE FactoryThrows
  BY <1>0, <1>7 DEF FactoryThrows, Waits, Asks, AskedFor
<1>8. CASE Created
  <2>1. stack # <<>> /\ want' = None /\ Returns(Front(stack))
    BY <1>8 DEF Created, Running
  <2>2. /\ Len(stack') = Len(stack) - 1
        /\ \A i \in 1..(Len(stack) - 1) : stack'[i].id = stack[i].id
        /\ \A i \in 1..(Len(stack) - 2) : stack'[i] = stack[i]
    <3>1. /\ Front(stack) \in Seq(Frames) /\ Len(Front(stack)) = Len(stack) - 1
          /\ \A i \in 1..(Len(stack) - 1) : Front(stack)[i] = stack[i]
          /\ Len(stack) \in Nat \ {0}
      BY <1>0, <2>1, StackTop, StackFront
    <3>2. /\ Len(stack') = Len(Front(stack))
          /\ \A i \in 1..Len(Front(stack)) :
               /\ stack'[i].id = Front(stack)[i].id
               /\ i # Len(Front(stack)) => stack'[i] = Front(stack)[i]
      BY <2>1, <3>1, Advanced
    <3>3. \A i \in 1..(Len(stack) - 1) : stack'[i].id = stack[i].id
      BY <3>1, <3>2
    <3>4. \A i \in 1..(Len(stack) - 2) : i \in 1..(Len(stack) - 1) /\ i # Len(stack) - 1
      BY <3>1
    <3>5. \A i \in 1..(Len(stack) - 2) : stack'[i] = stack[i]
      BY <3>1, <3>2, <3>4
    <3> QED
      BY <3>1, <3>2, <3>3, <3>5
  <2>3. \A i \in 1..(Len(stack) - 2) :
          Asks(i)' = Asks(i) /\ AskedFor(i)' = AskedFor(i) /\ i \in 1..(Len(stack) - 1)
    BY <1>0, <2>2 DEF Asks, AskedFor
  <2>4. \A i \in 1..(Len(stack') - 1) : Asks(i)' /\ stack'[i + 1].id \in AliasChain(AskedFor(i))'
    <3> TAKE i \in 1..(Len(stack') - 1)
    <3>1. i \in 1..(Len(stack) - 2) /\ i + 1 \in 1..(Len(stack) - 1)
      BY <1>0, <2>2
    <3> QED
      BY <1>0, <2>2, <2>3, <3>1 DEF Waits
  <2> QED
    BY <2>1, <2>4 DEF Waits
<1>9. CASE Unwind
  <2>1. /\ stack # <<>> /\ stack' = Front(stack) /\ outcome \in Errors /\ want' = want
    BY <1>9 DEF Unwind
  <2>2. want' = None
    BY <2>1 DEF Resolved, Errors
  <2>3. /\ Len(stack') = Len(stack) - 1
        /\ \A i \in 1..(Len(stack) - 1) : stack'[i] = stack[i]
    BY <1>0, <2>1, StackFront
  <2>4. \A i \in 1..(Len(stack') - 1) : Asks(i)' /\ stack'[i + 1].id \in AliasChain(AskedFor(i))'
    <3> TAKE i \in 1..(Len(stack') - 1)
    <3>1. i \in 1..(Len(stack) - 1) /\ i + 1 \in 1..(Len(stack) - 1)
      BY <1>0, <2>3
    <3>2. Asks(i)' = Asks(i) /\ AskedFor(i)' = AskedFor(i)
      BY <1>0, <2>3, <3>1 DEF Asks, AskedFor
    <3> QED
      BY <1>0, <2>3, <3>1, <3>2 DEF Waits
  <2> QED
    BY <2>2, <2>4 DEF Waits
<1> QED
  BY <1>1, <1>2, <1>3, <1>4, <1>5, <1>6, <1>7, <1>8, <1>9 DEF Next, Step

(* HasGot of the next state, with the ids as they are in this one. *)
LEMMA GotNext ==
  ASSUME deps' = deps, aliases' = aliases,
         \A i \in 1..Len(stack') : stack'[i].id \in DOMAIN deps =>
           \A j \in 1..Len(deps[stack'[i].id]) : j < stack'[i].next =>
             \E x : x = deps[stack'[i].id][j] /\ Present(x)'
  PROVE  HasGot'
<1>1. \A x : AliasChain(x)' = AliasChain(x)
  BY SameChains
<1>2. \A i \in 1..Len(stack') : stack'[i].id \in DOMAIN deps =>
        \A j \in 1..Len(deps[stack'[i].id]) : j < stack'[i].next =>
          \E t \in AliasChain(deps[stack'[i].id][j]) \ DOMAIN aliases : t \in services'
  BY <1>1 DEF Present
<1> QED
  BY <1>1, <1>2 DEF HasGot, Present

(* What a frame has got when the frame or the lookup above it succeeds. *)
LEMMA NextHasGot ==
  ASSUME IInv, Next, TypeOK'
  PROVE  HasGot'
<1> USE DEF IInv
<1>0. /\ stack \in Seq(Frames) /\ stack' \in Seq(Frames)
      /\ deps' = deps /\ aliases' = aliases
  BY StackSteps DEF TypeOK
<1>a. ASSUME services \subseteq services',
             NEW i \in 1..Len(stack), stack[i].id \in DOMAIN deps,
             NEW j \in 1..Len(deps[stack[i].id]), j < stack[i].next
      PROVE  \E x : x = deps[stack[i].id][j] /\ Present(x)'
  <2>1. PICK x : x = deps[stack[i].id][j]
    OBVIOUS
  <2>2. Present(x)
    BY <1>a, <2>1 DEF HasGot
  <2>3. Present(x)'
    BY <1>0, <1>a, <2>2, PresentStays
  <2> QED
    BY <2>1, <2>3
<1>1. ASSUME services \subseteq services', Len(stack') <= Len(stack),
             \A i \in 1..Len(stack') : stack'[i] = stack[i]
      PROVE  HasGot'
  <2>1. \A i \in 1..Len(stack') : i \in 1..Len(stack)
    BY <1>0, <1>1
  <2> QED
    BY <1>0, <1>1, <1>a, <2>1, GotNext
<1>2. ASSUME NEW n \in Nat \ {0}, n <= Len(stack), Len(stack') = n, services \subseteq services',
             \A i \in 1..(n - 1) : stack'[i] = stack[i],
             stack'[n].id = stack[n].id, stack'[n].next = stack[n].next + 1,
             NEW x, x = AskedFor(n), Present(x)'
      PROVE  HasGot'
  <2> SUFFICES ASSUME NEW i \in 1..n, stack[i].id \in DOMAIN deps,
                      NEW j \in 1..Len(deps[stack[i].id]), j < stack'[i].next
               PROVE  \E y : y = deps[stack[i].id][j] /\ Present(y)'
    <3>1. \A i \in 1..n : stack'[i].id = stack[i].id
      BY <1>2
    <3> QED
      BY <1>0, <1>2, <3>1, GotNext
  <2>1. i \in 1..Len(stack)
    BY <1>0, <1>2
  <2>2. stack[i] \in Frames
    BY <1>0, <2>1
  <2>3. CASE j < stack[i].next
    BY <1>2, <1>a, <2>1, <2>3
  <2>4. CASE ~(j < stack[i].next)
    <3>1. i = n
      BY <1>2, <2>4
    <3>2. stack[n].next \in Nat /\ j \in Nat
      BY <2>2, <3>1 DEF Frames
    <3>3. j = stack[n].next
      BY <1>2, <2>4, <3>1, <3>2
    <3> QED
      BY <1>2, <3>1, <3>3 DEF AskedFor
  <2> QED
    BY <2>3, <2>4
<1>3. \A n \in 1..Len(stack) : \A t \in AliasChain(AskedFor(n)) \ DOMAIN aliases :
        t \in services' => \E x : x = AskedFor(n) /\ Present(x)'
  BY <1>0, SameChains DEF Present
<1>4. ASSUME NEW id \in Ids, Get(id) \/ Unset(id)
      PROVE  HasGot'
  BY <1>0, <1>4 DEF Get, Unset, Idle, HasGot
<1>5. CASE Follow \/ Circular \/ Ask \/ FactoryThrows
  BY <1>0, <1>1, <1>5 DEF Follow, Circular, Ask, FactoryThrows
<1>6. CASE Found
  <2>1. CASE stack = <<>>
    BY <1>0, <1>6, <2>1 DEF Found, Returns, HasGot
  <2>2. CASE stack # <<>>
    <3> DEFINE n == Len(stack)
    <3>1. n \in Nat \ {0} /\ n \in 1..Len(stack)
      BY <1>0, <2>2
    <3>2. /\ Len(stack') = n /\ stack'[n].id = stack[n].id /\ stack'[n].next = stack[n].next + 1
          /\ \A i \in 1..(n - 1) : stack'[i] = stack[i]
      BY <1>0, <1>6, <3>1, Advanced DEF Found
    <3>3. want # None /\ want \notin DOMAIN aliases /\ want \in services /\ services' = services
      BY <1>6, ServiceManagerAssumption DEF Found, LooksUp, ServiceManagerAssumption
    <3>4. want \in AliasChain(AskedFor(n))
      BY <2>2, <3>3 DEF Waits
    <3>5. PICK x : x = AskedFor(n) /\ Present(x)'
      BY <1>3, <3>1, <3>3, <3>4
    <3> QED
      BY <1>2, <3>1, <3>2, <3>3, <3>5
  <2> QED
    BY <2>1, <2>2
<1>7. CASE MkService
  <2>1. /\ Len(stack') = Len(stack) + 1 /\ stack'[Len(stack) + 1].next = 1
        /\ \A i \in 1..Len(stack) : stack'[i] = stack[i]
        /\ services' = services
    BY <1>0, <1>7 DEF MkService
  <2> SUFFICES ASSUME NEW i \in 1..Len(stack'), stack'[i].id \in DOMAIN deps,
                      NEW j \in 1..Len(deps[stack'[i].id]), j < stack'[i].next
               PROVE  \E x : x = deps[stack'[i].id][j] /\ Present(x)'
    BY <1>0, GotNext
  <2>2. i # Len(stack) + 1
    BY <2>1
  <2>3. i \in 1..Len(stack) /\ stack'[i] = stack[i]
    BY <1>0, <2>1, <2>2
  <2> QED
    BY <1>a, <2>1, <2>3
<1>8. CASE Created
  <2>1. /\ stack # <<>> /\ services' = services \cup {Top.id} /\ Returns(Front(stack))
    BY <1>8 DEF Created, Running
  <2> DEFINE n == Len(stack) - 1
  <2>2. /\ n \in Nat /\ Top.id = stack[Len(stack)].id
        /\ Len(Front(stack)) = n /\ Front(stack) \in Seq(Frames)
        /\ \A i \in 1..n : Front(stack)[i] = stack[i]
        /\ Len(stack) = n + 1
    <3>1. Len(stack) \in Nat \ {0} /\ Top.id = stack[Len(stack)].id
      BY <1>0, <2>1, StackTop
    <3> QED
      BY <1>0, <2>1, <3>1, StackFront
  <2> HIDE DEF n
  <2>3. CASE n = 0
    <3>1. stack' = <<>>
      BY <2>1, <2>2, <2>3 DEF Returns
    <3> QED
      BY <3>1 DEF HasGot
  <2>4. CASE n # 0
    <3>1. n \in Nat \ {0} /\ n <= Len(stack) /\ n \in 1..n /\ n \in 1..(Len(stack) - 1)
      BY <2>2, <2>4
    <3>2. /\ Len(stack') = n /\ stack'[n].id = stack[n].id /\ stack'[n].next = stack[n].next + 1
          /\ \A i \in 1..(n - 1) : stack'[i] = stack[i]
      <4>a. /\ Len(stack') = Len(Front(stack))
            /\ \A i \in 1..Len(Front(stack)) :
                 /\ stack'[i].id = Front(stack)[i].id
                 /\ i # Len(Front(stack)) => stack'[i] = Front(stack)[i]
                 /\ i = Len(Front(stack)) => stack'[i].next = Front(stack)[i].next + 1
        BY <2>1, <2>2, Advanced
      <4>b. Len(Front(stack)) = n
        BY <2>2
      <4>1. /\ Len(stack') = n
            /\ \A i \in 1..n : stack'[i].id = Front(stack)[i].id
            /\ \A i \in 1..n : i # n => stack'[i] = Front(stack)[i]
            /\ \A i \in 1..n : i = n => stack'[i].next = Front(stack)[i].next + 1
        BY <4>a, <4>b
      <4>2. \A i \in 1..(n - 1) : i \in 1..n /\ i # n
        BY <3>1
      <4>3. stack'[n].id = stack[n].id /\ stack'[n].next = stack[n].next + 1
        BY <2>2, <3>1, <4>1
      <4>4. \A i \in 1..(n - 1) : stack'[i] = stack[i]
        BY <2>2, <4>1, <4>2
      <4> QED
        BY <4>1, <4>3, <4>4
    <3>3. stack[n + 1].id \in AliasChain(AskedFor(n)) /\ n + 1 = Len(stack)
      BY <2>2, <3>1 DEF Waits
    <3>4. stack[n + 1].id \notin DOMAIN aliases
      BY <1>0, <2>2, <3>3 DEF Resolved
    <3>5. PICK x : x = AskedFor(n) /\ Present(x)'
      BY <1>3, <2>1, <2>2, <3>1, <3>3, <3>4
    <3> QED
      BY <1>2, <2>1, <3>1, <3>2, <3>5
  <2> QED
    BY <2>3, <2>4
<1>9. CASE Unwind
  <2>1. stack # <<>> /\ stack' = Front(stack) /\ services' = services
    BY <1>9 DEF Unwind
  <2> QED
    BY <1>0, <1>1, <2>1, StackFront
<1> QED
  BY <1>4, <1>5, <1>6, <1>7, <1>8, <1>9 DEF Next, Step

-----------------------------------------------------------------------------

LEMMA Inductive == IInv /\ [Next]_vars => IInv'
<1> SUFFICES ASSUME IInv, [Next]_vars PROVE IInv'
  OBVIOUS
<1>1. CASE Next
  <2>1. TypeOK'
    BY <1>1, NextTypeOK DEF IInv
  <2> QED
    BY <1>1, <2>1, NextResolved, NextHasFactory, NextLoading, NextWaits, NextHasGot DEF IInv
<1>2. CASE UNCHANGED vars
  <2> USE <1>2 DEF vars, program, call
  <2>1. TypeOK' /\ LoadingIsRunning' /\ HasFactory' /\ Resolved'
    BY DEF IInv, TypeOK, LoadingIsRunning, HasFactory, Resolved
  <2>2. HasGot'
    BY DEF IInv, HasGot, Present, AliasChain
  <2>3. Waits'
    BY DEF IInv, Waits, Asks, AskedFor, AliasChain
  <2> QED
    BY <2>1, <2>2, <2>3 DEF IInv
<1> QED
  BY <1>1, <1>2

THEOREM Invariant == Spec => []IInv
BY InitIInv, Inductive, PTL DEF Spec

(* The variables keep their types. *)
THEOREM TypeCorrect == Spec => []TypeOK
<1>1. IInv => TypeOK
  BY DEF IInv
<1> QED
  BY <1>1, Invariant, PTL

(* $loading holds exactly the running factories, each once, through every  *)
(* exception: no factory ever runs within itself, and after a failed call  *)
(* nothing is left in it that would make the next call fail.               *)
THEOREM LoadingFollowsFactories == Spec => []LoadingIsRunning
<1>1. IInv => LoadingIsRunning
  BY DEF IInv
<1> QED
  BY <1>1, Invariant, PTL

(* A service is stored only after every service its factory asks for is.   *)
THEOREM PartsBeforeWhole == Spec => MadeInOrder
<1>1. IInv /\ IInv' /\ [Next]_vars =>
        [\A id \in services' \ services :
           id \in DOMAIN deps /\ \A i \in 1..Len(deps[id]) : Present(deps[id][i])]_vars
  <2> SUFFICES ASSUME IInv, Next, NEW id \in services' \ services
               PROVE  id \in DOMAIN deps /\ \A i \in 1..Len(deps[id]) : Present(deps[id][i])
    OBVIOUS
  <2>1. Created
    BY DEF Next, Step, Get, Unset, Follow, Found, Circular, MkService, Ask, FactoryThrows, Unwind
  <2>2. /\ stack # <<>> /\ outcome = "none" /\ id = Top.id
        /\ Top.next > Len(deps[Top.id])
    BY <2>1 DEF Created, Running
  <2>3. stack \in Seq(Frames)
    BY DEF IInv, TypeOK
  <2>4. /\ Len(stack) \in 1..Len(stack) /\ Top = stack[Len(stack)] /\ Top.next \in Nat
    BY <2>2, <2>3, StackTop
  <2>5. id \in DOMAIN deps
    BY <2>2, <2>4 DEF IInv, HasFactory
  <2>6. deps[id] \in Seq(Ids)
    BY <2>5 DEF IInv, TypeOK
  <2>7. \A i \in 1..Len(deps[id]) : i < stack[Len(stack)].next
    BY <2>2, <2>4, <2>6
  <2> QED
    BY <2>2, <2>4, <2>5, <2>7 DEF IInv, HasGot
<1> QED
  BY <1>1, Invariant, PTL DEF Spec, MadeInOrder

-----------------------------------------------------------------------------
(* What a call answers.  Of the services there were when it began those    *)
(* are still there, others were made of them, and the frames lead from the *)
(* id that was asked for to the one that is looked up.                     *)

Blocked == ~ \E t \in AliasChain(asked) \ DOMAIN aliases : t \in Makeable(before)

CallIsRight ==
  /\ stack # <<>> \/ want # None => asked # None
  /\ asked # None => before \subseteq services /\ services \subseteq Makeable(before)
  /\ \A i \in 1..Len(stack) : stack[i].id \notin services
  /\ want # None /\ stack = <<>> => want \in AliasChain(asked)
  /\ stack # <<>> => stack[1].id \in AliasChain(asked)
  /\ outcome = "ok" /\ asked # None => Present(asked)
  /\ outcome \in {"circular", "notFound"} /\ asked # None => Blocked

(* A chain that ends has one end. *)
LEMMA OneEnd ==
  ASSUME TypeOK, NEW id \in Ids,
         NEW t \in AliasChain(id) \ DOMAIN aliases, NEW u \in AliasChain(id) \ DOMAIN aliases
  PROVE  t = u
<1> DEFINE S == {x \in Ids : t \in AliasChain(x)}
<1>1. id \in S
  OBVIOUS
<1>2. ASSUME NEW x \in S \cap DOMAIN aliases PROVE aliases[x] \in S
  <2>1. x \in Ids /\ aliases[x] \in Ids /\ t # x
    BY DEF TypeOK
  <2> DEFINE U == {x} \cup AliasChain(aliases[x])
  <2>2. U \in SUBSET Ids /\ x \in U
    BY <2>1 DEF AliasChain
  <2>3. \A a \in U \cap DOMAIN aliases : aliases[a] \in U
    <3> TAKE a \in U \cap DOMAIN aliases
    <3>1. CASE a = x
      BY <2>1, <3>1, ChainStarts
    <3>2. CASE a # x
      <4>1. a \in AliasChain(aliases[x]) /\ aliases[a] \in Ids
        BY <3>2 DEF TypeOK
      <4> QED BY <4>1, ChainGoesOn
    <3> QED BY <3>1, <3>2
  <2>4. t \in U
    <3>1. t \in AliasChain(x)
      OBVIOUS
    <3> HIDE DEF U
    <3> QED BY <2>2, <2>3, <3>1 DEF AliasChain
  <2> QED BY <2>1, <2>4
<1>3. S \in SUBSET Ids
  OBVIOUS
<1> HIDE DEF S
<1>4. u \in S
  BY <1>1, <1>2, <1>3 DEF AliasChain
<1>5. t \in AliasChain(u) /\ u \in Ids
  BY <1>4 DEF S
<1>6. {u} \in SUBSET Ids /\ \A a \in {u} \cap DOMAIN aliases : aliases[a] \in {u}
  BY <1>5
<1>7. t \in {u}
  BY <1>5, <1>6 DEF AliasChain
<1> QED BY <1>7

(* Makeable(S) has S in it and is closed under the factories; what cannot  *)
(* do without itself is not in it.                                         *)
LEMMA MakeableHas ==
  ASSUME NEW S \in SUBSET Ids
  PROVE  S \subseteq Makeable(S)
BY DEF Makeable

LEMMA MakeableGrows ==
  ASSUME NEW S, NEW f \in Ids, f \in DOMAIN deps,
         \A i \in 1..Len(deps[f]) :
           \E t \in AliasChain(deps[f][i]) \ DOMAIN aliases : t \in Makeable(S)
  PROVE  f \in Makeable(S)
<1> SUFFICES ASSUME NEW T \in SUBSET Ids, S \subseteq T,
                    \A g \in DOMAIN deps :
                      (\A i \in 1..Len(deps[g]) :
                         \E t \in AliasChain(deps[g][i]) \ DOMAIN aliases : t \in T) => g \in T
             PROVE  f \in T
  BY DEF Makeable
<1>1. \A x \in Makeable(S) : x \in T
  BY DEF Makeable
<1>2. \A i \in 1..Len(deps[f]) : \E t \in AliasChain(deps[f][i]) \ DOMAIN aliases : t \in T
  BY <1>1
<1> QED BY <1>2

LEMMA NotMakeable ==
  ASSUME TypeOK, NEW S \in SUBSET Ids, NEW X \in SUBSET Ids, S \cap X = {},
         \A f \in X \cap DOMAIN deps : \E i \in 1..Len(deps[f]) :
           \E t \in X : t \in AliasChain(deps[f][i]) \ DOMAIN aliases
  PROVE  Makeable(S) \cap X = {}
<1> DEFINE T == Ids \ X
<1>1. T \in SUBSET Ids /\ S \subseteq T
  OBVIOUS
<1>2. ASSUME NEW f \in DOMAIN deps,
             \A i \in 1..Len(deps[f]) :
               \E t \in AliasChain(deps[f][i]) \ DOMAIN aliases : t \in T
      PROVE  f \in T
  <2> SUFFICES ASSUME f \in X PROVE FALSE
    BY DEF TypeOK
  <2>1. PICK i \in 1..Len(deps[f]) :
          \E t \in X : t \in AliasChain(deps[f][i]) \ DOMAIN aliases
    OBVIOUS
  <2>2. PICK x \in X : x \in AliasChain(deps[f][i]) \ DOMAIN aliases
    BY <2>1
  <2>3. PICK y \in T : y \in AliasChain(deps[f][i]) \ DOMAIN aliases
    BY <1>2
  <2>4. deps[f][i] \in Ids
    <3>1. deps[f] \in Seq(Ids)
      BY DEF TypeOK
    <3> QED BY <3>1
  <2>5. x = y
    BY <2>2, <2>3, <2>4, OneEnd
  <2> QED BY <2>5
<1> HIDE DEF T
<1>3. ASSUME NEW id \in Makeable(S) PROVE id \in T
  BY <1>1, <1>2, <1>3 DEF Makeable
<1> QED BY <1>3 DEF T

LEMMA NextMakeable ==
  ASSUME deps' = deps, aliases' = aliases
  PROVE  Makeable(before)' = Makeable(before')
<1>1. \A x : AliasChain(x)' = AliasChain(x)
  BY SameChains
<1> QED BY <1>1 DEF Makeable

(* When a lookup fails no end of the frames below could have been made:    *)
(* each of them needs the next, and the last needs one of them or what has *)
(* no factory.                                                             *)
LEMMA Fails ==
  ASSUME IInv, CallIsRight, want \in Ids \ DOMAIN aliases, want \notin services,
         want \in loading \/ want \notin DOMAIN deps
  PROVE  Blocked
<1> DEFINE X == {want} \cup loading
<1>1. /\ TypeOK /\ stack \in Seq(Frames) /\ X \in SUBSET Ids /\ want # None
      /\ loading = {stack[i].id : i \in 1..Len(stack)} /\ asked \in Ids
  BY ServiceManagerAssumption
     DEF IInv, TypeOK, LoadingIsRunning, CallIsRight, ServiceManagerAssumption
<1>2. before \in SUBSET Ids /\ before \cap X = {}
  BY <1>1 DEF CallIsRight, TypeOK
<1>3. ASSUME NEW f \in X \cap DOMAIN deps
      PROVE  \E i \in 1..Len(deps[f]) :
               \E t \in X : t \in AliasChain(deps[f][i]) \ DOMAIN aliases
  <2>1. f \in loading
    OBVIOUS
  <2>2. PICK k \in 1..Len(stack) : f = stack[k].id
    BY <1>1, <2>1
  <2>3. Asks(k) /\ \E t \in X : t \in AliasChain(AskedFor(k)) \ DOMAIN aliases
    <3>1. CASE k = Len(stack)
      BY <1>1, <3>1 DEF IInv, Waits
    <3>2. CASE k # Len(stack)
      <4>1. k \in 1..(Len(stack) - 1) /\ k + 1 \in 1..Len(stack)
        BY <1>1, <3>2
      <4>2. stack[k + 1].id \in X /\ stack[k + 1].id \notin DOMAIN aliases
        BY <1>1, <4>1 DEF IInv, Resolved
      <4> QED BY <4>1, <4>2 DEF IInv, Waits
    <3> QED BY <3>1, <3>2
  <2>4. stack[k].next \in Nat \ {0} /\ deps[f] \in Seq(Ids)
    <3>1. stack[k] \in Frames
      BY <1>1
    <3> QED BY <1>1, <3>1 DEF Frames, TypeOK
  <2>5. stack[k].next \in 1..Len(deps[f]) /\ AskedFor(k) = deps[f][stack[k].next]
    BY <2>2, <2>3, <2>4 DEF Asks, AskedFor
  <2> QED BY <2>3, <2>5
<1>4. PICK e \in X : e \in AliasChain(asked) \ DOMAIN aliases
  <2>1. CASE stack = <<>>
    BY <1>1, <2>1 DEF CallIsRight
  <2>2. CASE stack # <<>>
    <3>1. 1 \in 1..Len(stack)
      BY <1>1, <2>2
    <3>2. stack[1].id \in X /\ stack[1].id \notin DOMAIN aliases
      BY <1>1, <3>1 DEF IInv, Resolved
    <3> QED BY <2>2, <3>2 DEF CallIsRight
  <2> QED BY <2>1, <2>2
<1> HIDE DEF X
<1>5. Makeable(before) \cap X = {}
  BY <1>1, <1>2, <1>3, NotMakeable
<1>6. ASSUME NEW t \in AliasChain(asked) \ DOMAIN aliases PROVE t = e
  BY <1>1, <1>4, OneEnd
<1> QED BY <1>4, <1>5, <1>6 DEF Blocked

LEMMA NextCallIsRight ==
  ASSUME IInv, CallIsRight, Next, IInv'
  PROVE  CallIsRight'
<1>0. /\ TypeOK /\ stack \in Seq(Frames) /\ stack' \in Seq(Frames) /\ services \in SUBSET Ids
      /\ deps' = deps /\ aliases' = aliases
      /\ \A id : AliasChain(id)' = AliasChain(id)
  BY StackSteps, SameChains DEF IInv, TypeOK
<1>a. Makeable(before)' = Makeable(before')
  BY <1>0, NextMakeable
<1>b. ASSUME asked' = asked, before' = before
      PROVE  Blocked' = Blocked
  BY <1>0, <1>a, <1>b DEF Blocked
<1>c. ASSUME NEW e \in Ids \ DOMAIN aliases, e \in AliasChain(asked), asked' = asked,
             e \in services'
      PROVE  Present(asked)'
  BY <1>0, <1>c DEF Present
<1>d. ASSUME asked' = asked, services \subseteq services', Present(asked)
      PROVE  Present(asked)'
  BY <1>0, <1>d DEF Present
<1>e. want \in Ids => want # None
  BY ServiceManagerAssumption DEF ServiceManagerAssumption
<1>1. ASSUME NEW id \in Ids, Get(id) PROVE CallIsRight'
  <2>1. /\ stack' = <<>> /\ want' = id /\ outcome' = "none" /\ asked' = id
        /\ before' = services /\ services' = services
    BY <1>1 DEF Get, Idle
  <2>2. id # None /\ id \in AliasChain(id)
    BY ServiceManagerAssumption, ChainStarts DEF ServiceManagerAssumption
  <2>3. services \subseteq Makeable(services)
    BY <1>0, MakeableHas
  <2>4. services' \subseteq Makeable(before)'
    BY <1>a, <2>1, <2>3
  <2>5. asked' \in AliasChain(asked)'
    BY <1>0, <2>1, <2>2
  <2> QED BY <2>1, <2>2, <2>4, <2>5 DEF CallIsRight
<1>2. ASSUME NEW id \in Ids, Unset(id) PROVE CallIsRight'
  <2>1. stack' = <<>> /\ want' = None /\ asked' = None
    BY <1>2 DEF Unset, Idle
  <2> QED BY <2>1 DEF CallIsRight
<1>3. CASE Follow
  <2>1. /\ want \in DOMAIN aliases /\ want' = aliases[want] /\ want # None
        /\ aliases[want] \in Ids
        /\ UNCHANGED <<services, stack, outcome, asked, before>>
    BY <1>0, <1>3, <1>e DEF Follow, call, TypeOK
  <2>2. stack = <<>> => want' \in AliasChain(asked)
    BY <2>1, ChainGoesOn DEF CallIsRight
  <2>3. outcome = "none"
    BY <2>1 DEF IInv, Resolved
  <2> QED BY <1>0, <1>a, <2>1, <2>2, <2>3 DEF CallIsRight
<1>4. CASE Found
  <2>1. /\ want \in Ids \ DOMAIN aliases /\ want # None /\ want \in services
        /\ want' = None /\ Returns(stack) /\ outcome = "none" /\ asked # None
        /\ UNCHANGED <<services, asked, before>>
    BY <1>4, <1>e DEF Found, LooksUp, call, IInv, Resolved, CallIsRight
  <2>2. CASE stack = <<>>
    <3>1. stack' = <<>> /\ outcome' = "ok"
      BY <2>1, <2>2 DEF Returns
    <3>2. Present(asked)'
      BY <1>c, <2>1, <2>2 DEF CallIsRight
    <3> QED BY <1>0, <1>a, <2>1, <3>1, <3>2 DEF CallIsRight
  <2>3. CASE stack # <<>>
    <3>1. /\ Len(stack') = Len(stack) /\ outcome' = "none"
          /\ \A i \in 1..Len(stack) : stack'[i].id = stack[i].id
      BY <1>0, <2>1, <2>3, Advanced
    <3>2. 1 \in 1..Len(stack)
      BY <1>0, <2>3
    <3> QED BY <1>0, <1>a, <2>1, <2>3, <3>1, <3>2 DEF CallIsRight
  <2> QED BY <2>2, <2>3
<1>5. CASE Circular
  <2>1. /\ want \in Ids \ DOMAIN aliases /\ want \notin services /\ want \in loading
        /\ want # None /\ want' = None /\ outcome' = "circular" /\ asked # None
        /\ UNCHANGED <<services, stack, asked, before>>
    BY <1>5, <1>e DEF Circular, LooksUp, call, CallIsRight
  <2>2. Blocked'
    BY <1>b, <2>1, Fails
  <2> QED BY <1>0, <1>a, <2>1, <2>2 DEF CallIsRight
<1>6. CASE MkService
  <2>1. /\ want \in Ids \ DOMAIN aliases /\ want \notin services /\ want # None
        /\ want' = None /\ stack' = Append(stack, [id |-> want, next |-> 1])
        /\ UNCHANGED <<services, asked, before>> /\ asked # None /\ outcome = "none"
        /\ outcome' = IF want \in DOMAIN deps THEN "none" ELSE "notFound"
    BY <1>6, <1>e DEF MkService, LooksUp, call, CallIsRight, IInv, Resolved
  <2>2. /\ Len(stack') = Len(stack) + 1 /\ stack'[Len(stack) + 1].id = want
        /\ \A i \in 1..Len(stack) : stack'[i] = stack[i]
    BY <1>0, <2>1
  <2>3. outcome' = "notFound" => Blocked'
    BY <1>b, <2>1, Fails
  <2>4. \A i \in 1..Len(stack') : stack'[i].id \notin services'
    <3> TAKE i \in 1..Len(stack')
    <3>1. i \in 1..Len(stack) \/ i = Len(stack) + 1
      BY <1>0, <2>2
    <3> QED BY <2>1, <2>2, <3>1 DEF CallIsRight
  <2>5. stack'[1].id \in AliasChain(asked)
    <3>1. CASE stack = <<>>
      BY <2>1, <2>2, <3>1 DEF CallIsRight
    <3>2. CASE stack # <<>>
      <4>1. 1 \in 1..Len(stack)
        BY <1>0, <3>2
      <4> QED BY <2>2, <3>2, <4>1 DEF CallIsRight
    <3> QED BY <3>1, <3>2
  <2> QED BY <1>0, <1>a, <2>1, <2>3, <2>4, <2>5 DEF CallIsRight
<1>7. CASE Ask \/ FactoryThrows
  <2>1. /\ stack # <<>> /\ stack' = stack /\ outcome = "none"
        /\ outcome' \in {"none", "thrown"}
        /\ UNCHANGED <<services, asked, before>>
    BY <1>7 DEF Ask, FactoryThrows, Running, call
  <2> QED BY <1>0, <1>a, <2>1 DEF CallIsRight
<1>8. CASE Created
  <2>1. /\ stack # <<>> /\ want' = None /\ outcome = "none" /\ asked # None
        /\ Top.next > Len(deps[Top.id])
        /\ services' = services \cup {Top.id} /\ Returns(Front(stack))
        /\ UNCHANGED <<asked, before>>
    BY <1>8 DEF Created, Running, call, CallIsRight
  <2>2. /\ Len(stack) \in Nat \ {0} /\ Top = stack[Len(stack)]
        /\ Top.id \in Ids /\ Top.next \in Nat \ {0}
    BY <1>0, <2>1, StackTop
  <2>3. /\ Front(stack) \in Seq(Frames) /\ Len(Front(stack)) = Len(stack) - 1
        /\ \A i \in 1..(Len(stack) - 1) : Front(stack)[i] = stack[i]
    BY <1>0, <2>1, StackFront
  <2>4. /\ Len(stack') = Len(stack) - 1
        /\ \A i \in 1..(Len(stack) - 1) : stack'[i].id = stack[i].id
        /\ Front(stack) # <<>> => outcome' = "none"
        /\ Front(stack) = <<>> => outcome' = "ok"
    BY <2>1, <2>3, Advanced
  <2>5. Top.id \in Makeable(before)
    <3>1. Top.id \in DOMAIN deps
      BY <2>1, <2>2 DEF IInv, HasFactory
    <3>2. deps[Top.id] \in Seq(Ids)
      BY <1>0, <3>1 DEF TypeOK
    <3>3. ASSUME NEW j \in 1..Len(deps[Top.id])
          PROVE  \E t \in AliasChain(deps[Top.id][j]) \ DOMAIN aliases : t \in Makeable(before)
      <4>1. j < Top.next
        BY <2>1, <2>2, <3>2
      <4>2. \E t \in AliasChain(deps[Top.id][j]) \ DOMAIN aliases : t \in services
        BY <2>2, <3>1, <4>1 DEF IInv, HasGot, Present
      <4> QED BY <2>1, <4>2 DEF CallIsRight
    <3> QED BY <2>2, <3>1, <3>3, MakeableGrows
  <2>6. asked # None => before' \subseteq services' /\ services' \subseteq Makeable(before)'
    BY <1>a, <2>1, <2>5 DEF CallIsRight
  <2>7. \A i \in 1..Len(stack') : stack'[i].id \notin services'
    <3> TAKE i \in 1..Len(stack')
    <3>1. i \in 1..(Len(stack) - 1) /\ i \in 1..Len(stack) /\ i # Len(stack)
      BY <2>2, <2>4
    <3>2. stack'[i].id = stack[i].id /\ stack[i].id # Top.id /\ stack[i].id \notin services
      BY <2>2, <2>4, <3>1 DEF IInv, LoadingIsRunning, CallIsRight
    <3> QED BY <2>1, <3>2
  <2>8. stack' # <<>> => stack'[1].id \in AliasChain(asked)
    <3>1. stack' # <<>> => 1 \in 1..(Len(stack) - 1)
      BY <1>0, <2>4
    <3> QED BY <2>1, <2>4, <3>1 DEF CallIsRight
  <2>9. outcome' = "ok" => Present(asked)'
    <3> SUFFICES ASSUME Front(stack) = <<>> PROVE Present(asked)'
      BY <2>4
    <3>1. Len(stack) = 1
      BY <2>2, <2>3
    <3>2. Top.id \in AliasChain(asked) /\ Top.id \notin DOMAIN aliases
      BY <2>1, <2>2, <3>1 DEF CallIsRight, IInv, Resolved
    <3> QED BY <1>c, <2>1, <2>2, <3>2
  <2>10. outcome' \notin {"circular", "notFound"}
    BY <2>4
  <2> QED BY <1>0, <2>1, <2>6, <2>7, <2>8, <2>9, <2>10 DEF CallIsRight
<1>9. CASE Unwind
  <2>1. /\ stack # <<>> /\ stack' = Front(stack) /\ outcome \in Errors /\ asked # None
        /\ UNCHANGED <<services, want, outcome, asked, before>>
    BY <1>9 DEF Unwind, call, CallIsRight
  <2>2. want = None /\ outcome # "ok"
    BY <2>1 DEF IInv, Resolved, Errors
  <2>3. Len(stack') = Len(stack) - 1 /\ \A i \in 1..(Len(stack) - 1) : stack'[i] = stack[i]
    BY <1>0, <2>1, StackFront
  <2>4. \A i \in 1..Len(stack') : i \in 1..(Len(stack) - 1) /\ i \in 1..Len(stack)
    BY <1>0, <2>3
  <2>5. stack' # <<>> => 1 \in 1..(Len(stack) - 1)
    BY <1>0, <2>3
  <2>6. outcome' \in {"circular", "notFound"} => Blocked'
    BY <1>b, <2>1 DEF CallIsRight
  <2> QED BY <1>0, <1>a, <2>1, <2>2, <2>3, <2>4, <2>5, <2>6 DEF CallIsRight
<1> QED
  BY <1>1, <1>2, <1>3, <1>4, <1>5, <1>6, <1>7, <1>8, <1>9 DEF Next, Step

(* The inductive invariant of the answers. *)
THEOREM CallsInvariant == Spec => [](IInv /\ CallIsRight)
<1>1. Init => CallIsRight
  BY DEF Init, CallIsRight
<1>2. IInv /\ CallIsRight /\ IInv' /\ [Next]_vars => CallIsRight'
  <2> SUFFICES ASSUME IInv, CallIsRight, IInv', [Next]_vars PROVE CallIsRight'
    OBVIOUS
  <2>1. CASE UNCHANGED vars
    <3>1. /\ aliases' = aliases /\ \A x : AliasChain(x)' = AliasChain(x)
          /\ Makeable(before)' = Makeable(before)
          /\ UNCHANGED <<services, stack, want, outcome, asked, before>>
      BY <2>1, SameChains, NextMakeable DEF vars, program, call
    <3> QED BY <3>1 DEF CallIsRight, Present, Blocked
  <2> QED BY <2>1, NextCallIsRight
<1> QED BY <1>1, <1>2, Invariant, PTL DEF Spec

(* A call answers what the program and the services there were determine,  *)
(* whatever failed in earlier calls.                                       *)
THEOREM AnswersAreRight == Spec => []AnswersRight
<1>1. IInv /\ CallIsRight => AnswersRight
  <2> SUFFICES ASSUME IInv, CallIsRight, asked # None, Idle
               PROVE  /\ outcome = "ok" => \E t \in Ends(asked) : t \in Makeable(before)
                      /\ outcome \in {"circular", "notFound"} => Blocked
                      /\ services \subseteq Makeable(before)
    BY DEF AnswersRight, Blocked
  <2>1. outcome = "ok" => \E t \in Ends(asked) : t \in Makeable(before)
    BY DEF CallIsRight, Present, Ends
  <2> QED BY <2>1 DEF CallIsRight
<1> QED BY <1>1, CallsInvariant, PTL

(* What offsetGet() has returned offsetExists() says exists. *)
THEOREM ReturnedExists == Spec => []ExistsIfReturned
<1>1. CallIsRight => ExistsIfReturned
  BY DEF CallIsRight, ExistsIfReturned, Present, Exists, Ends
<1> QED BY <1>1, CallsInvariant, PTL

-----------------------------------------------------------------------------
(* The services of a site: every factory asks for services of lower ranks. *)

Rank(id) ==
  CASE id \in SitePreset -> 0
    [] id \in {"backendModuleIterator", "routerCache", "resultRenderer",
               "dispatchErrorHandler", "templateEnginePluginFactory"} -> 1
    [] id \in {"backendModuleIndexer", "router", "templateEngine"} -> 2
    [] id = "backendModuleIndex" -> 3
    [] id \in {"dispatcher", "errorLogger", "debugLogger"} -> 4
    [] OTHER -> 5

LEMMA Ranks ==
  /\ \A id : Rank(id) \in Nat
  /\ Rank("siteConf") = 0
  /\ \A id \in {"backendModuleIterator", "routerCache", "resultRenderer",
                "dispatchErrorHandler", "templateEnginePluginFactory"} : Rank(id) = 1
  /\ \A id \in {"backendModuleIndexer", "router", "templateEngine"} : Rank(id) = 2
  /\ Rank("backendModuleIndex") = 3
  /\ \A id \in {"dispatcher", "errorLogger", "debugLogger"} : Rank(id) = 4
  /\ Rank("errorHandler") = 5
BY DEF Rank, SitePreset

LEMMA FactoryNames ==
  /\ DOMAIN ModuleIndexing =
       {"backendModuleIterator", "backendModuleIndexer", "backendModuleIndex"}
  /\ DOMAIN Dispatching = {"dispatcher", "resultRenderer", "dispatchErrorHandler"}
  /\ DOMAIN Routing = {"router", "routerCache"}
  /\ DOMAIN Reporting = {"errorHandler", "errorLogger", "debugLogger"}
  /\ DOMAIN Rendering = {"templateEngine", "templateEnginePluginFactory"}
BY DEF ModuleIndexing, Dispatching, Routing, Reporting, Rendering

(* No service has two factories. *)
LEMMA OneFactory ==
  ASSUME NEW f \in Factories, NEW id \in DOMAIN f
  PROVE  SiteDeps[id] = f[id]
<1>1. ASSUME NEW g \in Factories, id \in DOMAIN g PROVE f = g
  BY <1>1, FactoryNames DEF Factories
<1> QED BY <1>1 DEF SiteDeps

LEMMA SiteNames ==
  {"siteConf", "backendModuleIterator", "backendModuleIndexer", "backendModuleIndex",
   "resultRenderer", "dispatchErrorHandler", "routerCache", "errorLogger",
   "templateEnginePluginFactory"} \subseteq SiteIds
<1>1. SiteIds = SitePreset \cup DOMAIN ModuleIndexing \cup DOMAIN Dispatching
                  \cup DOMAIN Routing \cup DOMAIN Reporting \cup DOMAIN Rendering
  BY DEF SiteIds, SiteDeps, Factories
<1> QED BY <1>1, FactoryNames DEF SitePreset

(* What a factory asks for exists and has a lower rank. *)
Below(asks, id) ==
  asks \in Seq(SiteIds) /\ \A i \in 1..Len(asks) : Rank(asks[i]) < Rank(id)

LEMMA BelowNone == ASSUME NEW id PROVE Below(<<>>, id)
BY DEF Below

LEMMA BelowOne ==
  ASSUME NEW id, NEW a \in SiteIds, Rank(a) < Rank(id)
  PROVE  Below(<<a>>, id)
BY DEF Below

LEMMA BelowTwo ==
  ASSUME NEW id, NEW a \in SiteIds, NEW b \in SiteIds, Rank(a) < Rank(id), Rank(b) < Rank(id)
  PROVE  Below(<<a, b>>, id)
BY DEF Below

LEMMA BelowThree ==
  ASSUME NEW id, NEW a \in SiteIds, NEW b \in SiteIds, NEW c \in SiteIds,
         Rank(a) < Rank(id), Rank(b) < Rank(id), Rank(c) < Rank(id)
  PROVE  Below(<<a, b, c>>, id)
BY DEF Below

LEMMA RanksFall == ASSUME NEW id \in DOMAIN SiteDeps PROVE Below(SiteDeps[id], id)
<1> USE SiteNames, Ranks, BelowNone, BelowOne, BelowTwo, BelowThree
<1>1. ASSUME NEW f \in Factories, NEW x \in DOMAIN f PROVE Below(f[x], x)
  <2>1. CASE f = ModuleIndexing
    <3>1. \/ x = "backendModuleIterator" /\ f[x] = <<"siteConf">>
          \/ x = "backendModuleIndexer" /\ f[x] = <<"backendModuleIterator", "siteConf">>
          \/ x = "backendModuleIndex" /\ f[x] = <<"backendModuleIndexer">>
      BY <2>1, FactoryNames DEF ModuleIndexing
    <3> QED BY <3>1
  <2>2. CASE f = Dispatching
    <3>1. \/ /\ x = "dispatcher"
             /\ f[x] = <<"backendModuleIndex", "resultRenderer", "dispatchErrorHandler">>
          \/ x \in {"resultRenderer", "dispatchErrorHandler"} /\ f[x] = <<>>
      BY <2>2, FactoryNames DEF Dispatching
    <3> QED BY <3>1
  <2>3. CASE f = Routing
    <3>1. \/ x = "router" /\ f[x] = <<"routerCache">>
          \/ x = "routerCache" /\ f[x] = <<"siteConf">>
      BY <2>3, FactoryNames DEF Routing
    <3> QED BY <3>1
  <2>4. CASE f = Reporting
    <3>1. \/ x = "errorHandler" /\ f[x] = <<"errorLogger">>
          \/ x \in {"errorLogger", "debugLogger"} /\ f[x] = <<"backendModuleIndex", "siteConf">>
      BY <2>4, FactoryNames DEF Reporting
    <3> QED BY <3>1
  <2>5. CASE f = Rendering
    <3>1. \/ x = "templateEngine" /\ f[x] = <<"templateEnginePluginFactory">>
          \/ x = "templateEnginePluginFactory" /\ f[x] = <<>>
      BY <2>5, FactoryNames DEF Rendering
    <3> QED BY <3>1
  <2> QED BY <2>1, <2>2, <2>3, <2>4, <2>5 DEF Factories
<1> QED BY <1>1, OneFactory DEF SiteDeps

(* So the ranks fall from each running factory to those it waits for, and  *)
(* no lookup comes back to one of them.                                    *)
SiteIsRight ==
  /\ deps = SiteDeps /\ aliases = <<>> /\ SitePreset \subseteq services
  /\ want \in SiteIds \cup {None}
  /\ outcome \notin {"circular", "notFound"}
  /\ \A i, j \in 1..Len(stack) : i < j => Rank(stack[j].id) < Rank(stack[i].id)
  /\ want # None => \A i \in 1..Len(stack) : Rank(want) < Rank(stack[i].id)

LEMMA SiteInitRight ==
  ASSUME SiteIds \subseteq Ids, SiteInit
  PROVE  IInv /\ SiteIsRight
<1>1. /\ deps = SiteDeps /\ aliases = <<>> /\ services = SitePreset /\ loading = {}
      /\ stack = <<>> /\ want = None /\ outcome = "none" /\ asked = None /\ before = {}
  BY DEF SiteInit
<1>2. /\ DOMAIN SiteDeps \subseteq Ids /\ SitePreset \subseteq Ids
      /\ SiteDeps = [id \in DOMAIN SiteDeps |-> SiteDeps[id]]
  BY DEF SiteIds, SiteDeps
<1>3. ASSUME NEW id \in DOMAIN SiteDeps PROVE SiteDeps[id] \in Seq(Ids)
  <2>1. SiteDeps[id] \in Seq(SiteIds)
    BY RanksFall DEF Below
  <2> QED BY <2>1
<1>4. SiteDeps \in [DOMAIN SiteDeps -> Seq(Ids)]
  BY <1>2, <1>3
<1>5. DOMAIN aliases = {} /\ aliases \in [DOMAIN aliases -> Ids]
  BY <1>1
<1>6. TypeOK
  BY <1>1, <1>2, <1>4, <1>5 DEF TypeOK, Errors
<1>7. Len(stack) = 0
  BY <1>1
<1> QED
  BY <1>1, <1>6, <1>7 DEF IInv, LoadingIsRunning, HasFactory, HasGot, Waits, Resolved, SiteIsRight

(* Steps that leave no frame but those there were. *)
LEMMA FewerFrames ==
  ASSUME SiteIsRight, deps' = deps, aliases' = aliases, services \subseteq services',
         stack \in Seq(Frames), stack' \in Seq(Frames), Len(stack') <= Len(stack),
         \A i \in 1..Len(stack') : stack'[i].id = stack[i].id,
         want' = None, outcome' \notin {"circular", "notFound"}
  PROVE  SiteIsRight'
<1>1. \A i \in 1..Len(stack') : i \in 1..Len(stack)
  OBVIOUS
<1> QED BY <1>1 DEF SiteIsRight

LEMMA SiteStepRight ==
  ASSUME SiteIds \subseteq Ids, IInv, SiteIsRight, Next, SiteNext, IInv'
  PROVE  SiteIsRight'
<1>0. /\ TypeOK /\ stack \in Seq(Frames) /\ stack' \in Seq(Frames)
      /\ deps' = deps /\ aliases' = aliases
  BY StackSteps DEF IInv, TypeOK
<1>e. want \in Ids => want # None
  BY ServiceManagerAssumption DEF ServiceManagerAssumption
<1>1. ASSUME NEW id \in SiteIds, Get(id) PROVE SiteIsRight'
  BY <1>0, <1>1 DEF Get, Idle, SiteIsRight
<1>2. ~Follow
  BY DEF Follow, SiteIsRight
<1>3. CASE Found
  <2>1. /\ want # None /\ want' = None /\ services' = services /\ outcome = "none"
        /\ Returns(stack)
    BY <1>3, <1>e DEF Found, LooksUp, IInv, Resolved
  <2>2. /\ Len(stack') = Len(stack) /\ outcome' \in {"none", "ok"}
        /\ \A i \in 1..Len(stack) : stack'[i].id = stack[i].id
    BY <1>0, <2>1, Advanced
  <2> QED BY <1>0, <2>1, <2>2, FewerFrames
<1>4. ~Circular
  <2> SUFFICES ASSUME Circular PROVE FALSE
    OBVIOUS
  <2>1. want \in loading /\ want # None
    BY <1>e DEF Circular, LooksUp
  <2>2. PICK i \in 1..Len(stack) : want = stack[i].id
    BY <2>1 DEF IInv, LoadingIsRunning
  <2>3. Rank(want) < Rank(want)
    BY <2>1, <2>2 DEF SiteIsRight
  <2> QED BY <2>3, Ranks
<1>5. CASE MkService
  <2>1. /\ want \in Ids /\ want # None /\ want \notin services /\ want' = None
        /\ services' = services /\ outcome = "none"
        /\ stack' = Append(stack, [id |-> want, next |-> 1])
    BY <1>5, <1>e DEF MkService, LooksUp, IInv, Resolved
  <2>2. outcome' = "none"
    BY <1>5, <2>1 DEF MkService, SiteIsRight, SiteIds
  <2>3. /\ Len(stack') = Len(stack) + 1 /\ stack'[Len(stack) + 1].id = want
        /\ \A i \in 1..Len(stack) : stack'[i] = stack[i]
    BY <1>0, <2>1
  <2>4. ASSUME NEW i \in 1..Len(stack'), NEW j \in 1..Len(stack'), i < j
        PROVE  Rank(stack'[j].id) < Rank(stack'[i].id)
    <3>1. i \in 1..Len(stack) /\ (j \in 1..Len(stack) \/ j = Len(stack) + 1)
      BY <1>0, <2>3, <2>4
    <3> QED BY <2>1, <2>3, <2>4, <3>1 DEF SiteIsRight
  <2> QED BY <1>0, <2>1, <2>2, <2>4 DEF SiteIsRight
<1>6. CASE Ask
  <2>1. /\ stack # <<>> /\ outcome = "none" /\ Top.next <= Len(deps[Top.id])
        /\ want' = deps[Top.id][Top.next]
        /\ UNCHANGED <<services, stack, outcome>>
    BY <1>6 DEF Ask, Running
  <2>2. /\ Len(stack) \in 1..Len(stack) /\ Top = stack[Len(stack)] /\ Top.next \in Nat \ {0}
    BY <1>0, <2>1, StackTop
  <2>3. Top.id \in DOMAIN SiteDeps /\ deps = SiteDeps
    BY <2>1, <2>2 DEF IInv, HasFactory, SiteIsRight
  <2>4. Below(SiteDeps[Top.id], Top.id)
    BY <2>3, RanksFall
  <2>5. want' \in SiteIds /\ Rank(want') < Rank(Top.id)
    <3>1. SiteDeps[Top.id] \in Seq(SiteIds)
      BY <2>4 DEF Below
    <3>2. Top.next \in 1..Len(SiteDeps[Top.id])
      BY <2>1, <2>2, <2>3, <3>1
    <3> QED BY <2>1, <2>3, <2>4, <3>1, <3>2 DEF Below
  <2>6. ASSUME NEW i \in 1..Len(stack) PROVE Rank(want') < Rank(stack[i].id)
    <3>1. CASE i = Len(stack)
      BY <2>2, <2>5, <3>1
    <3>2. CASE i # Len(stack)
      <4>1. i < Len(stack)
        BY <1>0, <3>2
      <4>2. Rank(Top.id) < Rank(stack[i].id)
        BY <2>2, <4>1 DEF SiteIsRight
      <4>3. Rank(want') \in Nat /\ Rank(Top.id) \in Nat /\ Rank(stack[i].id) \in Nat
        BY Ranks
      <4> QED BY <2>5, <4>2, <4>3
    <3> QED BY <3>1, <3>2
  <2> QED BY <1>0, <2>1, <2>5, <2>6 DEF SiteIsRight
<1>7. CASE FactoryThrows
  BY <1>0, <1>7 DEF FactoryThrows, SiteIsRight
<1>8. CASE Created
  <2>1. /\ stack # <<>> /\ want' = None /\ services \subseteq services' /\ outcome = "none"
        /\ Returns(Front(stack))
    BY <1>8 DEF Created, Running
  <2>2. /\ Len(stack') = Len(stack) - 1 /\ outcome' \in {"none", "ok"}
        /\ \A i \in 1..(Len(stack) - 1) : stack'[i].id = stack[i].id
    BY <1>0, <2>1, StackFront, Advanced
  <2> QED BY <1>0, <2>1, <2>2, FewerFrames
<1>9. CASE Unwind
  <2>1. /\ stack # <<>> /\ stack' = Front(stack) /\ outcome \in Errors
        /\ UNCHANGED <<services, want, outcome>>
    BY <1>9 DEF Unwind
  <2>2. want' = None
    BY <2>1 DEF IInv, Resolved, Errors
  <2>3. /\ Len(stack') = Len(stack) - 1
        /\ \A i \in 1..(Len(stack) - 1) : stack'[i] = stack[i]
    BY <1>0, <2>1, StackFront
  <2>4. outcome' \notin {"circular", "notFound"}
    BY <2>1 DEF SiteIsRight
  <2> QED BY <1>0, <2>1, <2>2, <2>3, <2>4, FewerFrames
<1> QED
  BY <1>1, <1>2, <1>3, <1>4, <1>5, <1>6, <1>7, <1>8, <1>9 DEF SiteNext, Step

(* In whatever order a site asks for its services, whatever factories have *)
(* failed before: no factory runs into itself or lacks a service, if the   *)
(* manager may hold the names of the site and any others.                  *)
THEOREM SiteMade == ASSUME SiteIds \subseteq Ids PROVE SiteSpec => []SiteIsMade
<1>1. SiteInit => IInv /\ SiteIsRight
  BY SiteInitRight
<1>2. IInv /\ SiteIsRight /\ [SiteNext]_vars => IInv' /\ SiteIsRight'
  <2> SUFFICES ASSUME IInv, SiteIsRight, [SiteNext]_vars PROVE IInv' /\ SiteIsRight'
    OBVIOUS
  <2>1. SiteNext => Next
    BY DEF SiteNext, Next
  <2>2. IInv'
    BY <2>1, Inductive
  <2>3. CASE SiteNext
    BY <2>1, <2>2, <2>3, SiteStepRight
  <2>4. CASE UNCHANGED vars
    BY <2>2, <2>4 DEF vars, program, call, SiteIsRight
  <2> QED BY <2>2, <2>3, <2>4
<1>3. SiteIsRight => SiteIsMade
  BY DEF SiteIsRight, SiteIsMade
<1> QED BY <1>1, <1>2, <1>3, PTL DEF SiteSpec

=============================================================================
