-------------------------------- MODULE Fields ------------------------------
(***************************************************************************)
(* The controls of a form as lib/base/form.ts sees them: their types and   *)
(* the data that is sent.  A control has a tag, the attribute "type" in    *)
(* lower case ("" if there is none), a name ("" likewise), a value, and    *)
(* may be checked.                                                         *)
(***************************************************************************)
EXTENDS Naturals, Sequences, SequencesExt

InputTypes == {"text", "radio", "submit", "button", "checkbox", "file",
               "hidden", "image", "password", "reset"}

(* Form.fieldType(); "throws" is the exception "Unknown field type". *)
FieldType(c) ==
  CASE c.tag = "INPUT" /\ c.type \in InputTypes           -> c.type
    [] c.tag = "TEXTAREA"                                 -> "textarea"
    [] c.tag = "SELECT"                                   -> "select"
    [] c.tag = "BUTTON" /\ c.type \in {"", "submit"}      -> "submit"
    [] c.tag = "BUTTON" /\ c.type = "button"              -> "button"
    [] OTHER                                              -> "throws"

(* The property "type" of the browser's object, which knows more types and *)
(* has a default for those it does not know.                               *)
DomType(c) ==
  CASE c.tag = "INPUT"    -> IF c.type \in InputTypes \cup {"email"} THEN c.type ELSE "text"
    [] c.tag = "BUTTON"   -> IF c.type \in {"button", "reset"} THEN c.type ELSE "submit"
    [] c.tag = "SELECT"   -> "select-one"
    [] c.tag = "TEXTAREA" -> "textarea"

(* The selector ":submit" of jQuery. *)
IsSubmit(c) == c.tag \in {"INPUT", "BUTTON"} /\ DomType(c) = "submit"

(* The elements of a form do not include its images. *)
Els(form) ==
  FlattenSeq([i \in DOMAIN form |-> IF DomType(form[i]) = "image" THEN <<>> ELSE <<form[i]>>])

(* A variant that leaves checkboxes to val(). *)
ElValueOfAll(c) == c.value

ElValue(c) == IF DomType(c) = "checkbox" THEN (IF c.checked THEN "1" ELSE "0") ELSE c.value

(* What formData() adds for one of them. *)
Datum(c) == IF c.name = "" THEN <<>> ELSE <<[name |-> c.name, value |-> ElValue(c)]>>

FormData(form) == FlattenSeq([i \in DOMAIN Els(form) |-> Datum(Els(form)[i])])

(* Where and how a Form sends its data.  Its element has the attributes    *)
(* "action" and "method", <<>> and "" if there are none; an address has a  *)
(* path and the arguments of its query, and "here" is the page's.          *)
Uri(form, here) == IF form.action = <<>> THEN here ELSE form.action[1]
SubmitMethod(form) == IF form.method = "" THEN "GET" ELSE form.method

(* $.ajax(): the data of GET are appended to the arguments there are. *)
Requested(form, here, data) ==
  LET uri == Uri(form, here)
  IN  IF SubmitMethod(form) = "GET" THEN [uri EXCEPT !.args = @ \o data] ELSE uri

-----------------------------------------------------------------------------
(* Laws *)

(* What PHP has for a name: the last value that was sent. *)
Received(data, n) == data[Max({i \in DOMAIN data : data[i].name = n})].value

(* What the browser itself would request, which replaces the arguments.    *)
(* Since the last argument of a name counts, the server sees the data of   *)
(* the form as they are, and next to them what the address had already.    *)
SentToTheSame(form, here, data) ==
  LET asked == Requested(form, here, data)
      native == IF form.action = <<>> THEN here ELSE form.action[1]
      Names(args) == {args[i].name : i \in DOMAIN args}
  IN  /\ asked.path = native.path
      /\ SubmitMethod(form) = "GET" =>
           /\ \A n \in Names(data) : Received(asked.args, n) = Received(data, n)
           /\ Names(asked.args) \ Names(data) = Names(native.args) \ Names(data)
      /\ SubmitMethod(form) = "POST" => asked.args = native.args

(* Without the script, a browser sends no radio button that is off. *)
Off(c) == DomType(c) \in {"radio", "checkbox"} /\ ~c.checked

(* The user's choice arrives, for a checkbox whether it is on, unless a    *)
(* radio button that is off follows the one that is on: formData() sends   *)
(* all buttons of the group, and the last one wins.                        *)
ChoiceArrives(form) ==
  LET data == FormData(form)
      Of(n) == {i \in DOMAIN form : form[i].name = n /\ DomType(form[i]) # "image"}
  IN  \A n \in {form[i].name : i \in DOMAIN form} \ {""} :
        Of(n) # {} =>
          LET last == Max(Of(n))
              on == {i \in Of(n) : ~Off(form[i])}
          IN  CASE DomType(form[last]) = "checkbox" ->
                     Received(data, n) = "1" <=> form[last].checked
                [] DomType(form[last]) # "checkbox" /\ on # {} ->
                     Received(data, n) = form[Max(on)].value
                       <=> last \in on \/ form[last].value = form[Max(on)].value
                [] OTHER -> Received(data, n) = form[last].value

(* Where fieldType() answers it agrees with the selector by which the form *)
(* disables its buttons and leaves them out of the validation.             *)
TypesAgree(c) == FieldType(c) = "throws" \/ (FieldType(c) = "submit" <=> IsSubmit(c))
=============================================================================
