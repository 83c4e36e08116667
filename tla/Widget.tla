-------------------------------- MODULE Widget ------------------------------
(***************************************************************************)
(* How the constructor in lib/base/widget.ts makes an object of one of the *)
(* subclasses: it calls the hooks init() and bindHandlers() of the         *)
(* subclass, whose own fields the browser sets to undefined only when the  *)
(* constructor of Widget has returned.  A page makes one object after the  *)
(* other and may dispose of them, which unbinds nothing.                   *)
(***************************************************************************)
EXTENDS Naturals, FiniteSetsExt

CONSTANTS MaxWidgets   \* bound: objects a page makes for the element

VARIABLES
  class,       \* the class of the object that is made
  conf,        \* what its constructor is given, then its $conf
  step,        \* the hook to run, or "made", "throws" or "disposed"
  el,          \* this.el: "one" element, jQuery that is "empty", or "undefined"
  assigned,    \* the fields of the class itself that have a value
  bound,       \* how many handlers the events of the element have
  given        \* for how many objects of each class the element was given

vars == <<class, conf, step, el, assigned, bound, given>>

Classes == {"Widget", "PageMessenger", "Grid", "Form"}
Resting == {"made", "throws", "disposed"}

(* jQuery, an object with the property "el", or anything else, a selector  *)
(* among it.                                                               *)
Confs == [kind : {"jquery", "object"}, el : {"one", "empty"}]
           \cup {[kind |-> "other", el |-> "undefined"]}

OwnFields(c) ==
  IF c = "Form"
  THEN {"skipValidation", "elContainerCssClass", "formMessageContainerCssClass",
        "invalidCssClass", "elChangeEvents"}
  ELSE {}

Init ==
  /\ class = "Widget" /\ conf = [kind |-> "other", el |-> "undefined"]
  /\ step = "made" /\ el = "undefined" /\ assigned = {}
  /\ bound = [click |-> 0, submit |-> 0, change |-> 0]
  /\ given = [c \in Classes |-> 0]

(* A variant in which the fields of the class come before its handlers. *)
AfterFieldsFirst(s) ==
  CASE s = "normalizeConf" -> "init"
    [] s = "init"          -> "fields"
    [] s = "fields"        -> "bindHandlers"
    [] s = "bindHandlers"  -> "made"

After(s) ==
  CASE s = "normalizeConf" -> "init"
    [] s = "init"          -> "bindHandlers"
    [] s = "bindHandlers"  -> "fields"
    [] s = "fields"        -> "made"

(* The hook returns, or has used this.el where it must not. *)
Returns(ok) == step' = IF ok THEN After(step) ELSE "throws"

New(c, k) ==
  /\ step \in Resting
  /\ MapThenSumSet(LAMBDA d : given[d], Classes) < MaxWidgets
  /\ class' = c /\ conf' = k
  /\ step' = "normalizeConf" /\ el' = "undefined" /\ assigned' = {}
  /\ given' = IF k.el = "one" THEN [given EXCEPT ![c] = @ + 1] ELSE given
  /\ UNCHANGED bound

NormalizeConf ==
  /\ step = "normalizeConf"
  /\ conf' = IF conf.kind = "jquery" THEN [conf EXCEPT !.kind = "object"] ELSE conf
  /\ Returns(TRUE)
  /\ UNCHANGED <<class, el, assigned, bound, given>>

SuperInit == el' = IF conf.kind = "object" THEN conf.el ELSE el

(* Form.init() gives the fields their values, then sets "novalidate". *)
FormInit ==
  /\ class = "Form"
  /\ assigned' = OwnFields(class)
  /\ Returns(el' # "undefined")

(* Grid.init() looks for the checkboxes. *)
GridInit ==
  /\ class = "Grid"
  /\ Returns(el' # "undefined")
  /\ UNCHANGED assigned

InitHook ==
  /\ step = "init" /\ SuperInit
  /\ \/ FormInit \/ GridInit
     \/ class \in {"Widget", "PageMessenger"} /\ Returns(TRUE) /\ UNCHANGED assigned
  /\ UNCHANGED <<class, conf, bound, given>>

One(n) == IF el = "one" THEN n + 1 ELSE n

(* els() throws at the form of a jQuery that is empty. *)
FormBinds ==
  /\ class = "Form"
  /\ bound' = [bound EXCEPT !.submit = One(@),
                            !.change = IF "elChangeEvents" \in assigned THEN One(@) ELSE @]
  /\ Returns(el = "one")

(* The timer is a part of PageMessenger. *)
MessengerBinds ==
  /\ class = "PageMessenger"
  /\ bound' = [bound EXCEPT !.click = One(@)]
  /\ Returns(el # "undefined")

BindHook ==
  /\ step = "bindHandlers"
  /\ \/ FormBinds \/ MessengerBinds
     \/ class \in {"Widget", "Grid"} /\ Returns(TRUE) /\ UNCHANGED bound
  /\ UNCHANGED <<class, conf, el, assigned, given>>

Fields ==
  /\ step = "fields"
  /\ assigned' = assigned \ OwnFields(class)
  /\ Returns(TRUE)
  /\ UNCHANGED <<class, conf, el, bound, given>>

Dispose ==
  /\ step = "made" /\ step' = "disposed"
  /\ UNCHANGED <<class, conf, el, assigned, bound, given>>

Next ==
  \/ \E c \in Classes, k \in Confs : New(c, k)
  \/ NormalizeConf \/ InitHook \/ BindHook \/ Fields \/ Dispose

Spec == Init /\ [][Next]_vars

-----------------------------------------------------------------------------

(* Every object that is given an element is made and has the handlers of   *)
(* its class, those for elChangeEvents too although the field is undefined *)
(* afterwards; one that is not leaves none behind, made or not.            *)
WidgetsAreReady ==
  step \in Resting =>
    /\ conf.el = "one" => step # "throws" /\ el = "one"
    /\ bound.submit = given["Form"] /\ bound.change = given["Form"]
    /\ bound.click = given["PageMessenger"]
=============================================================================
