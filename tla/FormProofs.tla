----------------------------- MODULE FormProofs -----------------------------
(***************************************************************************)
(* What Form keeps for every form, any number of requests in flight and    *)
(* any number of Form objects made for one element.                        *)
(***************************************************************************)
EXTENDS Form, TLAPS

(* In a page that has assigned the names of classes a field has a message  *)
(* only while it is invalid; the fields there were at the start have       *)
(* handlers, and there is a Form object.                                   *)
Support ==
  /\ styled => view.shown \subseteq view.invalid
  /\ Initially \subseteq bound
  /\ widgets > 0

IInv ==
  /\ TypeOK /\ Support /\ MarksAgree /\ ErrorsAreTrue
  /\ OneInFlight /\ LatestErrors /\ NothingInvalidSent

-----------------------------------------------------------------------------
(* The views the operators return *)

(* The parts of a view have the types the view says. *)
LEMMA ViewParts ==
  ASSUME NEW v \in Views
  PROVE  /\ v.invalid \subseteq Fields /\ v.shown \subseteq Fields
         /\ v.flagged \subseteq Groups /\ v.alerts \subseteq 1..MaxSends
         /\ v.marked \in BOOLEAN
BY DEF Views

LEMMA CleanView == Clean \in Views
BY DEF Clean, Views

LEMMA RemoveElErrorsView ==
  ASSUME NEW v \in Views, NEW f \in Fields
  PROVE  /\ RemoveElErrors(v, f) \in Views
         /\ RemoveElErrors(v, f).invalid = v.invalid \ {f}
         /\ RemoveElErrors(v, f).shown = v.shown \ {f}
         /\ RemoveElErrors(v, f).flagged =
              {g \in v.flagged : f \in g => g \cap (v.invalid \ {f}) # {}}
         /\ RemoveElErrors(v, f).alerts = v.alerts
BY DEF RemoveElErrors, Views

LEMMA RemoveErrorsView ==
  ASSUME NEW v \in Views
  PROVE  /\ RemoveErrors(v) \in Views
         /\ RemoveErrors(v).invalid = {}
         /\ RemoveErrors(v).shown = v.shown \ v.invalid
         /\ RemoveErrors(v).flagged = {g \in v.flagged : g \cap v.invalid = {}}
         /\ RemoveErrors(v).alerts = {}
BY DEF RemoveErrors, Views

(* The fields of F that showElErrors() gives the class "invalid". *)
Coloured(F) == IF styled THEN Reached(F) ELSE {}
Told(F) == IF Encodes THEN Reached(F) ELSE {}
GroupsOf(F) == {g \in Groups : g \cap F # {}}

LEMMA ShowElErrorsView ==
  ASSUME NEW v \in Views, NEW F \in SUBSET Fields
  PROVE  /\ ShowElErrors(v, F) \in Views
         /\ ShowElErrors(v, F).invalid = v.invalid \cup Coloured(F)
         /\ ShowElErrors(v, F).flagged =
              v.flagged \cup GroupsOf(Coloured(F))
         /\ ShowElErrors(v, F).shown = v.shown \cup Told(F)
         /\ ShowElErrors(v, F).alerts = v.alerts
<1>1. Reached(F) \subseteq Fields
  BY DEF Reached
<1> QED
  BY <1>1, FormAssumption DEF ShowElErrors, Coloured, Told, GroupsOf, Views

LEMMA ShowFormErrorsView ==
  ASSUME NEW v \in Views, NEW I \in SUBSET (1..MaxSends)
  PROVE  /\ ShowFormErrors(v, I) \in Views
         /\ ShowFormErrors(v, I).invalid = v.invalid
         /\ ShowFormErrors(v, I).flagged = v.flagged
         /\ ShowFormErrors(v, I).shown = v.shown
         /\ ShowFormErrors(v, I).alerts = v.alerts \cup I
<1>1. (v.marked \/ styled) \in BOOLEAN
  OBVIOUS
<1> QED
  BY <1>1 DEF ShowFormErrors, Views

LEMMA ShowErrorsView ==
  ASSUME NEW v \in Views, NEW F \in SUBSET Fields, NEW I \in SUBSET (1..MaxSends)
  PROVE  /\ ShowErrors(v, F, I) \in Views
         /\ ShowErrors(v, F, I).invalid = v.invalid \cup Coloured(F)
         /\ ShowErrors(v, F, I).flagged =
              v.flagged \cup GroupsOf(Coloured(F))
         /\ ShowErrors(v, F, I).shown = v.shown \cup Told(F)
         /\ ShowErrors(v, F, I).alerts \subseteq v.alerts \cup I
<1> DEFINE w == ShowElErrors(v, F)
<1>1. w \in Views /\ w.alerts = v.alerts
  BY ShowElErrorsView
<1>2. ShowErrors(v, F, I) = w \/ ShowErrors(v, F, I) = ShowFormErrors(w, I)
  BY DEF ShowErrors
<1>3. /\ ShowErrors(v, F, I) \in Views
      /\ ShowErrors(v, F, I).invalid = w.invalid
      /\ ShowErrors(v, F, I).flagged = w.flagged
      /\ ShowErrors(v, F, I).shown = w.shown
      /\ ShowErrors(v, F, I).alerts \subseteq w.alerts \cup I
  <2> HIDE DEF w
  <2> QED
    BY <1>1, <1>2, ShowFormErrorsView
<1> QED
  BY <1>1, <1>3, ShowElErrorsView

(* What a response may do to the view: at most add its own errors. *)
LEMMA HandleResponseView ==
  ASSUME view \in Views, NEW r \in Requests, NEW a \in Answers, HandleResponse(r, a)
  PROVE  /\ view' \in Views
         /\ view'.invalid = view.invalid
         /\ view'.flagged = view.flagged
         /\ view'.shown = view.shown
         /\ view'.alerts \subseteq view.alerts \cup {r.id}
<1>0. r.id \in 1..MaxSends
  BY DEF Requests
<1>1. CASE a \in {"errors", "noErrors"}
  <2>1. PICK I \in SUBSET {r.id} : view' = ShowErrors(view, {}, I)
    BY <1>1 DEF HandleResponse
  <2>2. I \in SUBSET (1..MaxSends)
    BY <1>0
  <2>3. Coloured({}) = {} /\ Told({}) = {} /\ GroupsOf({}) = {}
    BY DEF Coloured, Told, Reached, GroupsOf
  <2>4. /\ view' \in Views /\ view'.invalid = view.invalid \cup Coloured({})
        /\ view'.flagged = view.flagged \cup GroupsOf(Coloured({}))
        /\ view'.shown = view.shown \cup Told({})
        /\ view'.alerts \subseteq view.alerts \cup I
    BY <2>1, <2>2, ShowErrorsView
  <2> QED
    BY <2>3, <2>4
<1>2. CASE a \notin {"errors", "noErrors"}
  <2>1. view' = view
    BY <1>2 DEF HandleResponse
  <2> QED
    BY <2>1
<1> QED
  BY <1>1, <1>2

-----------------------------------------------------------------------------
(* The invariant *)

LEMMA InitIInv == Init => IInv
<1> SUFFICES ASSUME Init
             PROVE  IInv
  OBVIOUS
<1>1. TypeOK
  <2>1. Initially \subseteq Fields /\ MaxSends \in Nat
    BY FormAssumption
  <2>2. filled \subseteq Fields /\ present \subseteq Fields /\ bound \subseteq present
    BY <2>1 DEF Init
  <2>3. /\ widgets \in Nat /\ skip \in BOOLEAN /\ styled \in BOOLEAN /\ view \in Views /\ disabled \in BOOLEAN
        /\ native \in BOOLEAN /\ scripted \in BOOLEAN
    BY CleanView DEF Init
  <2>4. sent \in 0..MaxSends /\ requests \subseteq Requests
    BY <2>1 DEF Init
  <2>5. location \in {"here", "leaving", "left"}
    BY DEF Init
  <2> QED
    BY <2>2, <2>3, <2>4, <2>5 DEF TypeOK
<1>2. view.invalid = {} /\ view.shown = {} /\ view.flagged = {} /\ view.alerts = {}
  BY DEF Init, Clean
<1>3. Support
  BY <1>2 DEF Init, Support
<1>4. MarksAgree /\ ErrorsAreTrue /\ LatestErrors
  BY <1>2 DEF MarksAgree, ErrorsAreTrue, LatestErrors
<1>5. OneInFlight /\ NothingInvalidSent
  BY DEF Init, OneInFlight, NothingInvalidSent
<1> QED
  BY <1>1, <1>3, <1>4, <1>5 DEF IInv

(* What the three outcomes of submit() do to the view and the network. *)
LEMMA SendParts ==
  ASSUME TypeOK, NEW n \in Nat, Send(n)
  PROVE  /\ view' = RemoveErrors(view) /\ view' \in Views
         /\ disabled' = TRUE
         /\ sent' \in 0..MaxSends /\ requests' \subseteq Requests
         /\ UNCHANGED <<filled, present, bound, widgets, skip, styled, native, location>>
<1>1. view' = RemoveErrors(view) /\ view' \in Views
  BY RemoveErrorsView DEF Send, TypeOK
<1>2. sent + n <= MaxSends /\ sent' = sent + n /\ sent \in 0..MaxSends
  BY DEF Send, TypeOK
<1>3. sent' \in 0..MaxSends
  BY <1>2, FormAssumption
<1>4. Blank \in SUBSET Fields
  BY DEF Blank, TypeOK
<1>5. \A i \in sent + 1 .. sent + n : [id |-> i, blank |-> Blank] \in Requests
  <2>1. \A i \in sent + 1 .. sent + n : i \in 1..MaxSends
    BY <1>2, FormAssumption
  <2> QED
    BY <1>4, <2>1 DEF Requests
<1>6. requests' \subseteq Requests
  BY <1>5 DEF Send, TypeOK
<1>7. UNCHANGED <<filled, present, bound, widgets, skip, styled, native, location>> /\ disabled' = TRUE
  BY DEF Send, fields
<1> QED
  BY <1>1, <1>3, <1>6, <1>7

LEMMA MissingType == TypeOK => Missing \in SUBSET Fields
BY DEF TypeOK, Missing, Blank

LEMMA RejectParts ==
  ASSUME TypeOK, Reject
  PROVE  /\ view' = ShowErrors(RemoveErrors(view), Missing, {}) /\ view' \in Views
         /\ Encodes
         /\ UNCHANGED <<filled, present, bound, widgets, skip, styled, disabled, sent,
                        requests, native, location>>
<1>1. RemoveErrors(view) \in Views
  BY RemoveErrorsView DEF TypeOK
<1>2. view' = ShowErrors(RemoveErrors(view), Missing, {}) /\ view' \in Views
  BY <1>1, MissingType, ShowErrorsView DEF Reject
<1> QED
  BY <1>2 DEF Reject, fields, network

LEMMA ThrowParts ==
  ASSUME TypeOK, Throw
  PROVE  /\ \/ view' = RemoveErrors(view)
            \/ ~Encodes /\ view' = ShowErrors(RemoveErrors(view), Missing, {})
         /\ view' \in Views
         /\ Encodes => Breaks
         /\ UNCHANGED <<filled, present, bound, widgets, skip, styled, disabled, sent, requests>>
<1>1. RemoveErrors(view) \in Views
  BY RemoveErrorsView DEF TypeOK
<1>2. \/ view' = RemoveErrors(view)
      \/ ~Encodes /\ view' = ShowErrors(RemoveErrors(view), Missing, {})
  BY DEF Throw
<1>3. ShowErrors(RemoveErrors(view), Missing, {}) \in Views
  BY <1>1, MissingType, ShowErrorsView
<1>4. view' \in Views
  BY <1>1, <1>2, <1>3
<1> QED
  BY <1>2, <1>4 DEF Throw, fields, network

LEMMA TypeInductive == TypeOK /\ [Next]_vars => TypeOK'
<1> SUFFICES ASSUME TypeOK, [Next]_vars
             PROVE  TypeOK'
  OBVIOUS
<1>1. ASSUME NEW f \in Fields, Change(f)
      PROVE  TypeOK'
  <2>1. view' \in Views
    BY <1>1, RemoveElErrorsView DEF Change, TypeOK
  <2> QED
    BY <1>1, <2>1 DEF Change, TypeOK, network, place
<1>2. ASSUME NEW f \in Fields, AddField(f)
      PROVE  TypeOK'
  BY <1>2 DEF AddField, TypeOK, network, place
<1>3. CASE UserSubmits
  <2>1. scripted' = scripted /\ widgets \in Nat
    BY <1>3 DEF UserSubmits, TypeOK
  <2>2. CASE Send(widgets)
    BY <2>1, <2>2, SendParts DEF TypeOK
  <2>3. CASE Reject
    BY <2>1, <2>3, RejectParts DEF TypeOK
  <2>4. CASE Throw /\ native' = TRUE /\ location' = "leaving"
    BY <2>1, <2>4, ThrowParts DEF TypeOK
  <2> QED
    BY <1>3, <2>2, <2>3, <2>4 DEF UserSubmits
<1>4. CASE ScriptSubmits
  <2>1. scripted' = TRUE
    BY <1>4 DEF ScriptSubmits
  <2>2. CASE Send(1)
    BY <2>1, <2>2, SendParts DEF TypeOK
  <2>3. CASE Reject
    BY <2>1, <2>3, RejectParts DEF TypeOK
  <2>4. CASE Throw /\ UNCHANGED <<native, location>>
    BY <2>1, <2>4, ThrowParts DEF TypeOK
  <2> QED
    BY <1>4, <2>2, <2>3, <2>4 DEF ScriptSubmits
<1>5. CASE Construct
  BY <1>5 DEF Construct, TypeOK, network, place
<1>6. ASSUME NEW r \in requests, AjaxSuccess(r)
      PROVE  TypeOK'
  <2>1. PICK a \in Answers : HandleResponse(r, a)
    BY <1>6 DEF AjaxSuccess
  <2>2. view' \in Views
    BY <2>1, HandleResponseView DEF TypeOK
  <2>3. location' \in {"here", "leaving", "left"}
    BY <2>1 DEF HandleResponse, TypeOK
  <2> QED
    BY <1>6, <2>2, <2>3 DEF AjaxSuccess, TypeOK, fields
<1>7. ASSUME NEW r \in requests, AjaxError(r)
      PROVE  TypeOK'
  BY <1>7 DEF AjaxError, TypeOK, fields, place
<1>8. CASE Unload
  BY <1>8 DEF Unload, TypeOK, fields
<1>9. CASE Load
  <2>1. Initially \subseteq Fields /\ MaxSends \in Nat
    BY FormAssumption
  <2>2. filled' \subseteq Fields /\ present' \subseteq Fields /\ bound' \subseteq present'
    BY <1>9, <2>1 DEF Load
  <2>3. /\ widgets' \in Nat /\ skip' \in BOOLEAN /\ styled' \in BOOLEAN /\ view' \in Views /\ disabled' \in BOOLEAN
        /\ native' \in BOOLEAN /\ scripted' \in BOOLEAN
    BY <1>9, CleanView DEF Load
  <2>4. sent' \in 0..MaxSends /\ requests' \subseteq Requests
    BY <1>9, <2>1 DEF Load
  <2>5. location' \in {"here", "leaving", "left"}
    BY <1>9 DEF Load
  <2> QED
    BY <2>2, <2>3, <2>4, <2>5 DEF TypeOK
<1>10. CASE UNCHANGED vars
  BY <1>10 DEF vars, fields, network, place, TypeOK
<1> QED
  BY <1>1, <1>2, <1>3, <1>4, <1>5, <1>6, <1>7, <1>8, <1>9, <1>10 DEF Next, Answered

-----------------------------------------------------------------------------
(* The fields and their messages *)

(* Support and MarksAgree, as far as they speak of the view. *)
Agrees(v) ==
  /\ v.flagged = {g \in Groups : g \cap v.invalid # {}}
  /\ styled => /\ v.shown \subseteq v.invalid
               /\ Encodes => v.shown = v.invalid

LEMMA RemoveErrorsAgrees ==
  ASSUME NEW v \in Views, Agrees(v)
  PROVE  Agrees(RemoveErrors(v)) /\ (styled => RemoveErrors(v).shown = {})
<1>1. /\ RemoveErrors(v).invalid = {}
      /\ RemoveErrors(v).shown = v.shown \ v.invalid
      /\ RemoveErrors(v).flagged = {g \in v.flagged : g \cap v.invalid = {}}
  BY RemoveErrorsView
<1>2. styled => RemoveErrors(v).shown = {}
  BY <1>1 DEF Agrees
<1>3. RemoveErrors(v).flagged = {}
  BY <1>1 DEF Agrees
<1> QED
  BY <1>1, <1>2, <1>3 DEF Agrees

LEMMA RemoveElErrorsAgrees ==
  ASSUME NEW v \in Views, NEW f \in Fields, Agrees(v)
  PROVE  Agrees(RemoveElErrors(v, f))
<1>1. /\ RemoveElErrors(v, f).invalid = v.invalid \ {f}
      /\ RemoveElErrors(v, f).shown = v.shown \ {f}
      /\ RemoveElErrors(v, f).flagged =
           {g \in v.flagged : f \in g => g \cap (v.invalid \ {f}) # {}}
  BY RemoveElErrorsView
<1>2. {g \in v.flagged : f \in g => g \cap (v.invalid \ {f}) # {}}
        = {g \in Groups : g \cap (v.invalid \ {f}) # {}}
  BY DEF Agrees
<1> QED
  BY <1>1, <1>2 DEF Agrees

LEMMA ShowErrorsAgrees ==
  ASSUME NEW v \in Views, NEW F \in SUBSET Fields, NEW I \in SUBSET (1..MaxSends), Agrees(v)
  PROVE  /\ Agrees(ShowErrors(v, F, I))
         /\ ShowErrors(v, F, I).shown \subseteq v.shown \cup F
<1> DEFINE T == Told(F)
           C == Coloured(F)
<1>1. /\ ShowErrors(v, F, I).invalid = v.invalid \cup C
      /\ ShowErrors(v, F, I).flagged = v.flagged \cup GroupsOf(C)
      /\ ShowErrors(v, F, I).shown = v.shown \cup T
  BY ShowErrorsView
<1>2. T \subseteq F /\ (styled => T \subseteq C) /\ (Encodes /\ styled => C = T)
  BY DEF Coloured, Told, Reached
<1> HIDE DEF T, C
<1>3. v.flagged \cup GroupsOf(C)
        = {g \in Groups : g \cap (v.invalid \cup C) # {}}
  BY DEF Agrees, GroupsOf
<1> QED
  BY <1>1, <1>2, <1>3 DEF Agrees

LEMMA MarksInductive ==
  TypeOK /\ Support /\ MarksAgree /\ ErrorsAreTrue /\ [Next]_vars
    => Support' /\ MarksAgree' /\ ErrorsAreTrue'
<1> SUFFICES ASSUME TypeOK, Support, MarksAgree, ErrorsAreTrue, [Next]_vars
             PROVE  Support' /\ MarksAgree' /\ ErrorsAreTrue'
  OBVIOUS
<1>0. Agrees(view) /\ view \in Views
  BY DEF Support, MarksAgree, Agrees, TypeOK
<1>1. ASSUME Agrees(view'), styled' = styled
      PROVE  MarksAgree' /\ (styled' => view'.shown \subseteq view'.invalid)
  BY <1>1 DEF Agrees, MarksAgree
<1>2. ASSUME NEW f \in Fields, Change(f)
      PROVE  Support' /\ MarksAgree' /\ ErrorsAreTrue'
  <2>1. /\ filled' = filled \cup {f} \/ filled' = filled \ {f}
        /\ view' = IF f \in bound \cap view.invalid THEN RemoveElErrors(view, f) ELSE view
        /\ bound' = bound /\ widgets' = widgets /\ styled' = styled
    BY <1>2 DEF Change
  <2>2. Agrees(view')
    BY <1>0, <2>1, RemoveElErrorsAgrees
  <2>3. Support' /\ MarksAgree'
    BY <1>1, <2>1, <2>2 DEF Support
  <2>4. CASE f \in bound \cap view.invalid
    <3>1. view'.shown = view.shown \ {f}
      BY <1>0, <2>1, <2>4, RemoveElErrorsView
    <3> QED
      BY <2>1, <2>3, <3>1 DEF ErrorsAreTrue
  <2>5. CASE f \notin bound \cap view.invalid
    <3>1. view'.shown = view.shown /\ (styled => f \notin view.shown \cap Initially)
      BY <2>1, <2>5 DEF Support
    <3> QED
      BY <2>1, <2>3, <3>1 DEF ErrorsAreTrue
  <2> QED
    BY <2>4, <2>5
<1>3. ASSUME UNCHANGED <<filled, view, widgets, styled>>, bound \subseteq bound'
      PROVE  Support' /\ MarksAgree' /\ ErrorsAreTrue'
  BY <1>3 DEF Support, MarksAgree, ErrorsAreTrue
<1>4. ASSUME UNCHANGED <<filled, present, bound, widgets, styled>>,
             \/ view' = RemoveErrors(view)
             \/ view' = ShowErrors(RemoveErrors(view), Missing, {})
      PROVE  Support' /\ MarksAgree' /\ ErrorsAreTrue'
  <2>1. Agrees(RemoveErrors(view)) /\ RemoveErrors(view) \in Views
        /\ (styled => RemoveErrors(view).shown = {})
    BY <1>0, RemoveErrorsAgrees, RemoveErrorsView
  <2>2. Agrees(view') /\ (styled => view'.shown \subseteq Missing)
    BY <1>4, <2>1, MissingType, ShowErrorsAgrees
  <2>3. ErrorsAreTrue'
    BY <1>4, <2>2 DEF ErrorsAreTrue, Missing, Blank
  <2> QED
    BY <1>1, <1>4, <2>2, <2>3 DEF Support
<1>5. CASE UserSubmits
  <2>1. widgets \in Nat
    BY DEF TypeOK
  <2>2. CASE Send(widgets)
    BY <1>4, <2>1, <2>2, SendParts
  <2>3. CASE Reject
    BY <1>4, <2>3, RejectParts
  <2>4. CASE Throw
    BY <1>4, <2>4, ThrowParts
  <2> QED
    BY <1>5, <2>2, <2>3, <2>4 DEF UserSubmits
<1>6. CASE ScriptSubmits
  <2>1. CASE Send(1)
    BY <1>4, <2>1, SendParts
  <2>2. CASE Reject
    BY <1>4, <2>2, RejectParts
  <2>3. CASE Throw
    BY <1>4, <2>3, ThrowParts
  <2> QED
    BY <1>6, <2>1, <2>2, <2>3 DEF ScriptSubmits
<1>7. CASE Construct
  <2>1. bound \subseteq bound' /\ widgets' = widgets + 1 /\ UNCHANGED <<filled, view, styled>>
    BY <1>7 DEF Construct, TypeOK
  <2>2. widgets' > 0
    BY <2>1 DEF TypeOK
  <2> QED
    BY <2>1, <2>2 DEF Support, MarksAgree, ErrorsAreTrue
<1>8. ASSUME NEW r \in requests, AjaxSuccess(r)
      PROVE  Support' /\ MarksAgree' /\ ErrorsAreTrue'
  <2>1. PICK a \in Answers : HandleResponse(r, a)
    BY <1>8 DEF AjaxSuccess
  <2>2. /\ view'.invalid = view.invalid /\ view'.flagged = view.flagged
        /\ view'.shown = view.shown
    BY <2>1, HandleResponseView DEF TypeOK
  <2>3. UNCHANGED <<filled, bound, widgets, styled>>
    BY <1>8 DEF AjaxSuccess, fields
  <2> QED
    BY <2>2, <2>3 DEF Support, MarksAgree, ErrorsAreTrue
<1>9. ASSUME NEW r \in requests, AjaxError(r)
      PROVE  Support' /\ MarksAgree' /\ ErrorsAreTrue'
  BY <1>3, <1>9 DEF AjaxError, fields
<1>10. ASSUME NEW f \in Fields, AddField(f)
       PROVE  Support' /\ MarksAgree' /\ ErrorsAreTrue'
  BY <1>3, <1>10 DEF AddField
<1>11. CASE Unload
  BY <1>3, <1>11 DEF Unload, fields
<1>12. CASE Load
  <2>1. view'.invalid = {} /\ view'.shown = {} /\ view'.flagged = {}
    BY <1>12 DEF Load, Clean
  <2>2. bound' = Initially /\ widgets' = 1
    BY <1>12 DEF Load
  <2> QED
    BY <2>1, <2>2 DEF Support, MarksAgree, ErrorsAreTrue
<1>13. CASE UNCHANGED vars
  BY <1>3, <1>13 DEF vars, fields
<1> QED
  BY <1>2, <1>5, <1>6, <1>7, <1>8, <1>9, <1>10, <1>11, <1>12, <1>13 DEF Next, Answered

-----------------------------------------------------------------------------
(* The requests *)

LEMMA RequestsInductive ==
  TypeOK /\ Support /\ OneInFlight /\ LatestErrors /\ [Next]_vars
    => OneInFlight' /\ LatestErrors'
<1> SUFFICES ASSUME TypeOK, Support, OneInFlight, LatestErrors, [Next]_vars
             PROVE  OneInFlight' /\ LatestErrors'
  OBVIOUS
<1>1. ASSUME UNCHANGED <<disabled, sent, requests>>, ByHandOnly' => ByHandOnly,
             view'.alerts \subseteq view.alerts
      PROVE  OneInFlight' /\ LatestErrors'
  BY <1>1 DEF OneInFlight, LatestErrors
<1>2. ASSUME NEW f \in Fields, Change(f)
      PROVE  OneInFlight' /\ LatestErrors'
  <2>1. view'.alerts = view.alerts
    BY <1>2, RemoveElErrorsView DEF Change, TypeOK
  <2> QED
    BY <1>1, <1>2, <2>1 DEF Change, network, place, ByHandOnly
<1>3. ASSUME NEW f \in Fields, AddField(f)
      PROVE  OneInFlight' /\ LatestErrors'
  BY <1>1, <1>3 DEF AddField, network, place, ByHandOnly
<1>4. CASE UserSubmits
  <2>0. scripted' = scripted /\ (HasButtons => ~disabled)
    BY <1>4 DEF UserSubmits
  <2>1. RemoveErrors(view) \in Views /\ RemoveErrors(view).alerts = {}
    BY RemoveErrorsView DEF TypeOK
  <2>1a. ShowErrors(RemoveErrors(view), Missing, {}).alerts = {}
    BY <2>1, MissingType, ShowErrorsView
  <2>2. CASE Send(widgets)
    <3>1. SUFFICES ASSUME ByHandOnly'
                   PROVE  OneInFlight' /\ LatestErrors'
      BY DEF OneInFlight, LatestErrors
    <3>2. ByHandOnly /\ widgets = 1
      BY <2>0, <2>2, <3>1 DEF Send, fields, ByHandOnly
    <3>3. requests = {}
      BY <2>0, <3>2 DEF OneInFlight, ByHandOnly
    <3>4. sent \in Nat
      BY DEF TypeOK
    <3>5. sent' = sent + 1 /\ disabled' = TRUE /\ view'.alerts = {}
      BY <2>1, <2>2, <3>2 DEF Send
    <3>6. requests' = {[id |-> sent + 1, blank |-> Blank]}
      <4>1. sent + 1 .. sent + 1 = {sent + 1}
        BY <3>4
      <4>2. requests' = requests \cup {[id |-> i, blank |-> Blank] : i \in sent + 1 .. sent + 1}
        BY <2>2, <3>2 DEF Send
      <4> QED
        BY <3>3, <4>1, <4>2
    <3> QED
      BY <3>5, <3>6 DEF OneInFlight, LatestErrors
  <2>3. CASE Reject
    <3>1. view'.alerts = {}
      BY <2>1a, <2>3, RejectParts
    <3> QED
      BY <1>1, <2>0, <2>3, <3>1, RejectParts DEF ByHandOnly
  <2>4. CASE Throw /\ location' = "leaving"
    <3>1. view'.alerts = {}
      BY <2>1, <2>1a, <2>4, ThrowParts
    <3>2. ByHandOnly' => ByHandOnly
      BY <1>4, <2>0, <2>4, ThrowParts DEF ByHandOnly, UserSubmits
    <3> QED
      BY <1>1, <2>4, <3>1, <3>2, ThrowParts
  <2> QED
    BY <1>4, <2>2, <2>3, <2>4 DEF UserSubmits
<1>5. CASE ScriptSubmits
  BY <1>5 DEF ScriptSubmits, ByHandOnly, OneInFlight, LatestErrors
<1>6. CASE Construct
  <2>1. widgets' # 1
    BY <1>6 DEF Construct, Support, TypeOK
  <2> QED
    BY <2>1 DEF ByHandOnly, OneInFlight, LatestErrors
<1>7. ASSUME NEW r \in requests, AjaxSuccess(r)
      PROVE  OneInFlight' /\ LatestErrors'
  <2>1. PICK a \in Answers : HandleResponse(r, a)
    BY <1>7 DEF AjaxSuccess
  <2>2. SUFFICES ASSUME ByHandOnly'
                 PROVE  OneInFlight' /\ LatestErrors'
    BY DEF OneInFlight, LatestErrors
  <2>3. ByHandOnly /\ UNCHANGED sent
    BY <1>7, <2>2 DEF AjaxSuccess, fields, ByHandOnly
  <2>4. requests' = requests \ {r} /\ disabled' = FALSE
    BY <1>7 DEF AjaxSuccess
  <2>5. \A q \in requests : q.id = sent /\ q \in Requests
    BY <2>3 DEF OneInFlight, TypeOK
  <2>6. view'.alerts \subseteq view.alerts \cup {r.id}
    BY <2>1, HandleResponseView DEF TypeOK
  <2>7. LatestErrors'
    BY <2>3, <2>5, <2>6 DEF LatestErrors
  <2>8. requests' = {}
    BY <2>3, <2>4 DEF OneInFlight
  <2> QED
    BY <2>4, <2>7, <2>8 DEF OneInFlight
<1>8. ASSUME NEW r \in requests, AjaxError(r)
      PROVE  OneInFlight' /\ LatestErrors'
  <2>1. SUFFICES ASSUME ByHandOnly'
                 PROVE  OneInFlight' /\ LatestErrors'
    BY DEF OneInFlight, LatestErrors
  <2>2. ByHandOnly /\ UNCHANGED <<view, sent>>
    BY <1>8, <2>1 DEF AjaxError, fields, place, ByHandOnly
  <2>3. requests' = requests \ {r} /\ disabled' = FALSE
    BY <1>8 DEF AjaxError
  <2>4. requests' = {}
    BY <2>2, <2>3 DEF OneInFlight
  <2> QED
    BY <2>2, <2>3, <2>4 DEF OneInFlight, LatestErrors
<1>9. CASE Unload
  BY <1>9 DEF Unload, ByHandOnly, OneInFlight, LatestErrors
<1>10. CASE Load
  BY <1>10 DEF Load, Clean, OneInFlight, LatestErrors
<1>11. CASE UNCHANGED vars
  BY <1>1, <1>11 DEF vars, fields, network, place, ByHandOnly
<1> QED
  BY <1>2, <1>3, <1>4, <1>5, <1>6, <1>7, <1>8, <1>9, <1>10, <1>11 DEF Next, Answered

(* What leaves the page. *)
LEMMA SentInductive ==
  TypeOK /\ NothingInvalidSent /\ [Next]_vars => NothingInvalidSent'
<1> SUFFICES ASSUME TypeOK, NothingInvalidSent, [Next]_vars
             PROVE  NothingInvalidSent'
  OBVIOUS
<1>1. ASSUME UNCHANGED <<skip, native>>, requests' \subseteq requests, present \subseteq present'
      PROVE  NothingInvalidSent'
  BY <1>1 DEF NothingInvalidSent, Breaks
<1>2. ASSUME NEW n \in Nat, Send(n)
      PROVE  NothingInvalidSent'
  <2>1. UNCHANGED <<skip, native, present>>
    BY <1>2 DEF Send, fields
  <2>2. ~skip => Blank \cap Required = {}
    BY <1>2 DEF Send, Valid, Missing
  <2>3. \A q \in requests' : q \in requests \/ q.blank = Blank
    BY <1>2 DEF Send
  <2> QED
    BY <2>1, <2>2, <2>3 DEF NothingInvalidSent, Breaks
<1>3. CASE Reject
  BY <1>1, <1>3, RejectParts
<1>4. CASE UserSubmits
  <2>1. widgets \in Nat
    BY DEF TypeOK
  <2>2. CASE Throw
    <3>1. UNCHANGED <<skip, present, requests>> /\ (Encodes => Breaks)
      BY <2>2, ThrowParts
    <3> QED
      BY <3>1 DEF NothingInvalidSent, Breaks
  <2> QED
    BY <1>2, <1>3, <1>4, <2>1, <2>2 DEF UserSubmits
<1>5. CASE ScriptSubmits
  <2>1. CASE Throw /\ UNCHANGED <<native, location>>
    BY <1>1, <2>1, ThrowParts
  <2> QED
    BY <1>2, <1>3, <1>5, <2>1 DEF ScriptSubmits
<1>6. ASSUME NEW f \in Fields, Change(f) \/ AddField(f)
      PROVE  NothingInvalidSent'
  BY <1>1, <1>6 DEF Change, AddField, network, place
<1>7. ASSUME NEW r \in requests, Answered(r)
      PROVE  NothingInvalidSent'
  BY <1>1, <1>7 DEF Answered, AjaxSuccess, AjaxError, fields, place
<1>8. CASE Construct
  BY <1>1, <1>8 DEF Construct, network, place
<1>9. CASE Unload
  BY <1>1, <1>9 DEF Unload, fields
<1>10. CASE Load
  BY <1>10 DEF Load, NothingInvalidSent
<1>11. CASE UNCHANGED vars
  BY <1>1, <1>11 DEF vars, fields, network, place
<1> QED
  BY <1>4, <1>5, <1>6, <1>7, <1>8, <1>9, <1>10, <1>11 DEF Next

-----------------------------------------------------------------------------
(* The theorems *)

(* The inductive invariant. *)
THEOREM Invariant == Spec => []IInv
<1>1. IInv /\ [Next]_vars => IInv'
  BY TypeInductive, MarksInductive, RequestsInductive, SentInductive DEF IInv
<1> QED
  BY <1>1, InitIInv, PTL DEF Spec

(* The variables keep their types. *)
THEOREM TypeCorrect == Spec => []TypeOK
<1>1. IInv => TypeOK
  BY DEF IInv
<1> QED
  BY <1>1, Invariant, PTL

(* Highlighted groups, invalid fields and messages agree in every form     *)
(* (showElErrors(), removeElErrors()).                                     *)
THEOREM MarksAlwaysAgree == Spec => []MarksAgree
<1>1. IInv => MarksAgree
  BY DEF IInv
<1> QED
  BY <1>1, Invariant, PTL

(* A message never outlives its reason (the handlers of bindHandlers()). *)
THEOREM ErrorsAreAlwaysTrue == Spec => []ErrorsAreTrue
<1>1. IInv => ErrorsAreTrue
  BY DEF IInv
<1> QED
  BY <1>1, Invariant, PTL

(* Users alone never have two requests in flight (send()). *)
THEOREM OneRequest == Spec => []OneInFlight
<1>1. IInv => OneInFlight
  BY DEF IInv
<1> QED
  BY <1>1, Invariant, PTL

(* Users alone never see the errors of an earlier request (submit()). *)
THEOREM ErrorsAreLatest == Spec => []LatestErrors
<1>1. IInv => LatestErrors
  BY DEF IInv
<1> QED
  BY <1>1, Invariant, PTL

(* Validation lets nothing incomplete through (validate(), submit()). *)
THEOREM OnlyValidIsSent == Spec => []NothingInvalidSent
<1>1. IInv => NothingInvalidSent
  BY DEF IInv
<1> QED
  BY <1>1, Invariant, PTL
=============================================================================
