-------------------------------- MODULE Form --------------------------------
(***************************************************************************)
(* A form of a page (lib/base/form.ts): its script validates what the user *)
(* has filled in, sends it with $.ajax(), disables the submit buttons      *)
(* meanwhile, and shows the errors it finds and those the server answers.  *)
(* Every handler runs to its end before the next one starts; an exception  *)
(* ends a handler half way.  The operators on the view are the methods of  *)
(* form.ts, the actions are the handlers of form.js, the bundle built from *)
(* it that the browser runs.  In it the names of classes are fields of the *)
(* class Form, which are undefined again when the constructor of Widget,   *)
(* and init() in it, is done: until a script of the page assigns them the  *)
(* methods look for a class "undefined" and add none.                      *)
(***************************************************************************)
EXTENDS Naturals, FiniteSets

CONSTANTS
  Fields,      \* the elements of the form but its submit buttons
  Initially,   \* those that are there when the page is loaded
  Required,    \* those with the attribute "required"
  Texts,       \* those whose elValue() is a string, not a number or an array
  Groups,      \* the elements of the class form-group, as sets of fields
  Position,    \* the order of the fields in the form
  HasButtons,  \* has the form a button that :submit finds?
  Encodes,     \* does the page define String.prototype.encodeHtml()?
  MaxSends,    \* bound: requests per page load
  MaxWidgets   \* bound: Form objects made for the element

ASSUME FormAssumption ==
  /\ Initially \subseteq Fields
  /\ Required \subseteq Fields
  /\ Texts \subseteq Fields
  /\ Groups \subseteq SUBSET Fields
  /\ Position \in [Fields -> Nat]
  /\ HasButtons \in BOOLEAN /\ Encodes \in BOOLEAN
  /\ MaxSends \in Nat /\ MaxWidgets \in Nat

VARIABLES
  filled,      \* the fields whose value is not blank
  present,     \* the fields that are in the form
  bound,       \* those with handlers for elChangeEvents
  widgets,     \* how many Form objects listen to the element
  skip,        \* skipValidation, as a script of the page assigns it to its Forms
  styled,      \* has the script assigned the names of classes?
  view,        \* what the classes and messages of the form show
  disabled,    \* are the submit buttons disabled?
  sent,        \* requests sent since the page was loaded
  requests,    \* those in flight: their numbers and what was blank in them
  native,      \* has the browser submitted the form itself?
  location,    \* "here", "leaving" for another page, or "left"
  scripted     \* has a script called submit()?

fields == <<filled, present, bound, widgets, skip, styled>>
network == <<disabled, sent, requests>>
place == <<native, location, scripted>>
vars == <<fields, view, network, place>>

Views == [invalid : SUBSET Fields,      \* fields of the class "invalid"
          shown   : SUBSET Fields,      \* fields followed by a message
          flagged : SUBSET Groups,      \* groups of the class "has-error"
          alerts  : SUBSET (1..MaxSends),  \* requests whose errors are above
          marked  : BOOLEAN]            \* has the form the class "invalid"?
Requests == [id : 1..MaxSends, blank : SUBSET Fields]

TypeOK ==
  /\ filled \subseteq Fields /\ present \subseteq Fields
  /\ bound \subseteq present
  /\ widgets \in Nat /\ skip \in BOOLEAN /\ styled \in BOOLEAN
  /\ view \in Views
  /\ disabled \in BOOLEAN
  /\ sent \in 0..MaxSends
  /\ requests \subseteq Requests
  /\ native \in BOOLEAN
  /\ location \in {"here", "leaving", "left"}
  /\ scripted \in BOOLEAN

(* A page with the form, as the constructor of one Form leaves it. *)
Clean == [invalid |-> {}, shown |-> {}, flagged |-> {}, alerts |-> {}, marked |-> FALSE]
Init ==
  /\ filled = {} /\ present = Initially /\ bound = Initially
  /\ widgets = 1 /\ skip \in BOOLEAN /\ styled \in BOOLEAN
  /\ view = Clean
  /\ disabled = FALSE /\ sent = 0 /\ requests = {}
  /\ native = FALSE /\ location = "here" /\ scripted = FALSE

(* A variant that clears the group whatever else is in it. *)
RemoveElErrorsOfGroup(v, f) ==
  [v EXCEPT !.invalid = @ \ {f}, !.flagged = {g \in @ : f \notin g}, !.shown = @ \ {f}]

(* A variant that leaves the message. *)
RemoveElErrorsNoMessage(v, f) ==
  [v EXCEPT !.invalid = @ \ {f},
            !.flagged = {g \in @ : f \in g => g \cap (v.invalid \ {f}) # {}}]

-----------------------------------------------------------------------------
(* What is shown *)

RemoveElErrors(v, f) ==
  LET others == v.invalid \ {f}
  IN  [v EXCEPT !.invalid = others,
                !.flagged = {g \in @ : f \in g => g \cap others # {}},
                !.shown = @ \ {f}]

(* A variant that leaves the form's own messages. *)
RemoveErrorsOfEls(v) ==
  [invalid |-> {},
   shown   |-> v.shown \ v.invalid,
   flagged |-> {g \in v.flagged : g \cap v.invalid = {}},
   alerts  |-> v.alerts,
   marked  |-> FALSE]

(* removeElErrors() for every field of the class, then the form's own. *)
RemoveErrors(v) ==
  [invalid |-> {},
   shown   |-> v.shown \ v.invalid,
   flagged |-> {g \in v.flagged : g \cap v.invalid = {}},
   alerts  |-> {},
   marked  |-> FALSE]

(* The fields showElErrors() reaches: renderMessage() throws for the first *)
(* one, after its classes were added, in a page without encodeHtml().      *)
Reached(F) ==
  IF Encodes THEN F ELSE {f \in F : \A g \in F : Position[f] <= Position[g]}

ShowElErrors(v, F) ==
  LET R == Reached(F)
      C == IF styled THEN R ELSE {}
  IN  [v EXCEPT !.invalid = @ \cup C,
                !.flagged = @ \cup {g \in Groups : g \cap C # {}},
                !.shown = IF Encodes THEN @ \cup R ELSE @]

(* The messages of the requests I on top of the form, where they add up. *)
ShowFormErrors(v, I) == [v EXCEPT !.alerts = @ \cup I, !.marked = @ \/ styled]

(* The errors of the fields F and those the server found in requests I; in *)
(* a page without encodeHtml() the first message throws.                   *)
ShowErrors(v, F, I) ==
  LET w == ShowElErrors(v, F)
  IN  IF Encodes \/ (F = {} /\ I = {}) THEN ShowFormErrors(w, I) ELSE w

-----------------------------------------------------------------------------
(* Validation *)

Blank == present \ filled

(* A variant that looks only at the fields there were at the start. *)
MissingOfBound == (bound \ filled) \cap Required

(* RequiredElValidator: the fields validate() has errors for. *)
Missing == Blank \cap Required

(* validateEl() calls trim() on the value of every required element, which *)
(* a checkbox (0 or 1) and a multiple select (an array) do not have.       *)
Breaks == ~(present \cap Required \subseteq Texts)

Valid == skip \/ (~Breaks /\ Missing = {})

(* A variant that leaves the buttons enabled. *)
SendEnabled(n) ==
  /\ Valid
  /\ sent + n <= MaxSends
  /\ view' = RemoveErrors(view)
  /\ sent' = sent + n
  /\ requests' = requests \cup {[id |-> i, blank |-> Blank] : i \in sent + 1 .. sent + n}
  /\ UNCHANGED <<disabled, fields, native, location>>

(* send() of n Form objects one after the other *)
Send(n) ==
  /\ Valid
  /\ sent + n <= MaxSends
  /\ view' = RemoveErrors(view)
  /\ disabled' = TRUE
  /\ sent' = sent + n
  /\ requests' = requests \cup {[id |-> i, blank |-> Blank] : i \in sent + 1 .. sent + n}
  /\ UNCHANGED <<fields, native, location>>

(* validate() shows what is missing and submit() returns *)
Reject ==
  /\ ~Valid /\ ~Breaks /\ Encodes
  /\ view' = ShowErrors(RemoveErrors(view), Missing, {})
  /\ UNCHANGED <<fields, network, native, location>>

(* validate() throws: at a value without trim(), or at the first message *)
Throw ==
  /\ ~Valid /\ (Breaks \/ ~Encodes)
  /\ view' = IF Breaks THEN RemoveErrors(view)
             ELSE ShowErrors(RemoveErrors(view), Missing, {})
  /\ UNCHANGED <<fields, network>>

-----------------------------------------------------------------------------
(* The user *)

(* The user changes a field or only leaves it; the handler for             *)
(* elChangeEvents takes its errors away.                                   *)
Change(f) ==
  /\ location # "left" /\ f \in present
  /\ filled' \in {filled \cup {f}, filled \ {f}}
  /\ view' = IF f \in bound \cap view.invalid THEN RemoveElErrors(view, f) ELSE view
  /\ UNCHANGED <<present, bound, widgets, skip, styled, network, place>>

(* The submit event: each Form submits.  The handler's "return false"      *)
(* keeps the browser from submitting the form itself; an exception skips   *)
(* it.  A form whose buttons are all disabled cannot be submitted by hand. *)
UserSubmits ==
  /\ location # "left"
  /\ HasButtons => ~disabled
  /\ \/ Send(widgets)
     \/ Reject
     \/ Throw /\ native' = TRUE /\ location' = "leaving"
  /\ UNCHANGED scripted

-----------------------------------------------------------------------------
(* Scripts of the page *)

(* A script calls submit() of a Form; exceptions are the script's. *)
ScriptSubmits ==
  /\ location # "left"
  /\ Send(1) \/ Reject \/ (Throw /\ UNCHANGED <<native, location>>)
  /\ scripted' = TRUE

(* A script adds a field. *)
AddField(f) ==
  /\ location # "left" /\ f \notin present
  /\ present' = present \cup {f}
  /\ UNCHANGED <<filled, bound, widgets, skip, styled, view, network, place>>

(* new Form() for the same element; dispose() of the first one would       *)
(* unbind nothing.                                                         *)
Construct ==
  /\ location # "left" /\ widgets < MaxWidgets
  /\ widgets' = widgets + 1
  /\ bound' = present
  /\ UNCHANGED <<filled, present, skip, styled, view, network, place>>

-----------------------------------------------------------------------------
(* The answers *)

(* A response with a redirection, errors, an empty list of errors, or      *)
(* another one: "ok" alone, one that is reported as invalid, and null, at  *)
(* which handleResponse() throws.                                          *)
Answers == {"redirect", "errors", "noErrors", "other"}

HandleResponse(r, a) ==
  /\ view' = CASE a = "errors"   -> ShowErrors(view, {}, {r.id})
               [] a = "noErrors" -> ShowErrors(view, {}, {})
               [] OTHER          -> view
  /\ location' = IF a = "redirect" THEN "leaving" ELSE location

(* A variant that does not enable the buttons. *)
AjaxErrorDisabled(r) ==
  /\ location # "left" /\ r \in requests
  /\ requests' = requests \ {r}
  /\ UNCHANGED <<fields, view, disabled, sent, place>>

AjaxSuccess(r) ==
  /\ location # "left" /\ r \in requests
  /\ requests' = requests \ {r}
  /\ disabled' = FALSE
  /\ \E a \in Answers : HandleResponse(r, a)
  /\ UNCHANGED <<fields, sent, native, scripted>>

AjaxError(r) ==
  /\ location # "left" /\ r \in requests
  /\ requests' = requests \ {r}
  /\ disabled' = FALSE
  /\ UNCHANGED <<fields, view, sent, place>>

(* The browser leaves the page, some time after it was told to, and may    *)
(* load it again.                                                          *)
Unload ==
  /\ location = "leaving"
  /\ location' = "left" /\ requests' = {}
  /\ UNCHANGED <<fields, view, disabled, sent, native, scripted>>

Load ==
  /\ location = "left"
  /\ filled' = {} /\ present' = Initially /\ bound' = Initially
  /\ widgets' = 1 /\ skip' \in BOOLEAN /\ styled' \in BOOLEAN
  /\ view' = Clean
  /\ disabled' = FALSE /\ sent' = 0 /\ requests' = {}
  /\ native' = FALSE /\ location' = "here" /\ scripted' = FALSE

Answered(r) == AjaxSuccess(r) \/ AjaxError(r)

Next ==
  \/ \E f \in Fields : Change(f) \/ AddField(f)
  \/ UserSubmits \/ ScriptSubmits \/ Construct
  \/ \E r \in requests : Answered(r)
  \/ Unload \/ Load

(* The network answers every request or gives up; users and scripts need   *)
(* not do anything.                                                        *)
Fairness == WF_vars(\E r \in requests : Answered(r))

Spec == Init /\ [][Next]_vars /\ Fairness

-----------------------------------------------------------------------------
(* Properties *)

(* What the user sees of the fields agrees: a group is highlighted exactly *)
(* while one of its fields is invalid, and in a page that has assigned the *)
(* names of classes a field has a message exactly while it is, whatever    *)
(* was submitted, changed or added meanwhile (showElErrors() and           *)
(* removeElErrors()).                                                      *)
MarksAgree ==
  /\ view.flagged = {g \in Groups : g \cap view.invalid # {}}
  /\ Encodes /\ styled => view.shown = view.invalid

(* In such a page the message at a field that was there from the start is  *)
(* true: the field is required and still blank, although it may have       *)
(* changed since the validation (the handlers of bindHandlers()).          *)
ErrorsAreTrue == styled => view.shown \cap Initially \subseteq Required \ filled

(* One Form, its buttons and no script: nothing but the user submits. *)
ByHandOnly == HasButtons /\ widgets = 1 /\ ~scripted /\ location # "left"

(* The buttons are disabled exactly while a request is in flight, and then *)
(* there is one only: a second click sends nothing, and no answer, error   *)
(* or rejection leaves them in the wrong state (send(), ajaxSuccess(),     *)
(* ajaxError()).                                                           *)
OneInFlight ==
  ByHandOnly =>
    /\ disabled <=> requests # {}
    /\ \A q, r \in requests : q = r /\ r.id = sent

(* The errors on top of the form are those of the last request: no answer  *)
(* to an earlier one is shown or left there (removeErrors() in submit()).  *)
LatestErrors == ByHandOnly => view.alerts \subseteq {sent}

(* With validation no request carries a blank required field, and the      *)
(* browser never submits the form itself, as long as messages can be       *)
(* rendered and the values of the required fields trimmed.                 *)
NothingInvalidSent ==
  ~skip => /\ \A r \in requests : r.blank \cap Required = {}
           /\ Encodes /\ ~Breaks => ~native

(* Whatever is answered, even null, the buttons are enabled again unless   *)
(* the page is left first.                                                 *)
ButtonsComeBack == (disabled /\ location # "left") ~> (~disabled \/ location = "left")

(* "Displays either form errors or element errors or both" (showErrors()): *)
(* a submission that is rejected marks every field it finds blank and puts *)
(* a message next to it.                                                   *)
ErrorsDisplayed ==
  [][(UserSubmits \/ ScriptSubmits) /\ ~Valid /\ ~Breaks
       => Missing \subseteq view'.invalid \cap view'.shown]_vars
=============================================================================
