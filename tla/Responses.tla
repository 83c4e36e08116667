------------------------------- MODULE Responses ----------------------------
(***************************************************************************)
(* What the frontend shows of a message (lib/base/message.ts) and of the   *)
(* result of a request (http.ts, widget.ts, form.ts).  Texts are those of  *)
(* the module Texts; encodeHtml(), which a page must define, is taken to   *)
(* be e().                                                                 *)
(***************************************************************************)
EXTENDS Texts

(* The enumeration MessageType, whose values are flags. *)
MessageType == [Error |-> 1, Warning |-> 2, Info |-> 4, Debug |-> 8, All |-> 15]

(* The type that the constructors of the classes give to their messages. *)
TypeOf == [ErrorMessage   |-> MessageType.Error,
           WarningMessage |-> MessageType.Warning,
           InfoMessage    |-> MessageType.Warning,
           DebugMessage   |-> MessageType.Debug]

HasType(m, type) == m.type = type

(* MessageType[type]: "undefined" of a combination of flags. *)
MessageTypeToStr(type) ==
  IF type \in Range(MessageType) THEN CHOOSE n \in DOMAIN MessageType : MessageType[n] = type
  ELSE "undefined"

LowerCase == [Error |-> "error", Warning |-> "warning", Info |-> "info",
              Debug |-> "debug", All |-> "all"]

(* The <div> of the message; there is no toLowerCase() of "undefined". *)
RenderMessage(m) ==
  LET type == MessageTypeToStr(m.type)
  IN  IF type = "undefined" THEN [throws |-> TRUE]
      ELSE [throws |-> FALSE, class |-> LowerCase[type], text |-> Format(E(m.text), m.args)]

-----------------------------------------------------------------------------
(* A result has the fields "ok" and "err", which are "undefined", "falsy"  *)
(* (null, 0, false, an empty text), a "text", a "list" or an "object".     *)

Truthy(value) == value \notin {"undefined", "falsy"}

IsResponseError(response) == ~Truthy(response.ok)

ErrorToast(text) == IF Truthy(text) THEN text ELSE "Error."

ShowResponseErr(response) ==
  ErrorToast(IF response.err = "text" THEN "text" ELSE "undefined")

(* Form.handleResponse(): what it takes the result for. *)
HandledAs(response) ==
  CASE response.err = "list"                                     -> "errors"
    [] response.err \notin {"undefined", "list"}                 -> "invalid"
    [] response.err = "undefined" /\ response.ok # "undefined"   -> "ok"
    [] response.err = "undefined" /\ response.ok = "undefined"   -> "invalid"

-----------------------------------------------------------------------------
(* Laws *)

(* A message is shown with its arguments in the place of the placeholders, *)
(* which escaping leaves alone; exactly errors get the class by which a    *)
(* form finds them again; a message of several flags cannot be shown.      *)
MessageIsShown(m) ==
  LET shown == RenderMessage(m)
  IN  IF shown.throws
      THEN \A t \in Range(MessageType) : ~HasType(m, t)
      ELSE /\ shown.class = "error" <=> HasType(m, MessageType.Error)
           /\ /\ \A h \in Range(Holes) : Cardinality({k \in DOMAIN m.text : m.text[k] = h}) <= 1
              /\ \A a \in Range(m.args) : Range(a) \cap ({"$&"} \cup Range(Holes)) = {}
              => shown.text = Filled(E(m.text), m.args)

(* The two judges of a result, isResponseError() and a Form, agree unless  *)
(* it succeeds with a falsy value or is both; and a toast says something.  *)
ResultIsJudged(response) ==
  /\ (IsResponseError(response) <=> HandledAs(response) # "ok") <=>
       IF response.err = "undefined" THEN response.ok # "falsy" ELSE ~Truthy(response.ok)
  /\ ShowResponseErr(response) \notin {"undefined", "falsy"}
  /\ response.err = "text" => ShowResponseErr(response) = response.err
=============================================================================
