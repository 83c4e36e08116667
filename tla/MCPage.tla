------------------------------- MODULE MCPage -------------------------------
(***************************************************************************)
(* The parts of the frontend that keep little or no state, one at a time:  *)
(* they share nothing, so "part" says which of them the page uses.         *)
(***************************************************************************)
EXTENDS PageMessenger, Helpers, Laws, TLC

CONSTANTS m1, m2, m3, m4, error, warning
MCMessages == {m1, m2, m3, m4}
MCTypes == {error, warning}
MCType == (m1 :> error) @@ (m2 :> error) @@ (m3 :> warning) @@ (m4 :> warning)

VARIABLE part

CONSTANTS r1, r2, e1, e2, e3

Seqs(S, n) == UNION {[1 .. k -> S] : k \in 0 .. n}

-----------------------------------------------------------------------------
(* The inputs of the pure functions. *)

Words == {<<"f">>, <<"f", "{1}">>, <<"$&">>, <<"f", "g">>, <<>>}
Formats == [law : {"format"}, text : Seqs({"{0}", "{1}", "f"}, 3), args : Seqs(Words, 2)]
Trims == [law : {"trim"}, text : Seqs(0 .. 2, 4), chars : Seqs(0 .. 2, 3) \ {<<>>}]
Escapes == [law : {"escape"}, text : Seqs({"&", "<", "amp;", "#39;", "x"}, 3)]
Names == [law : {"lname"}, text : Seqs({"a", "A", "_", "-", " "}, 4)]

Values == Seqs({"b", "=", "?", "+", "%"}, 2)
Args == [name : {<<"a">>, <<"a", "+">>, <<"toString">>}, value : Values]
Queries == [law : {"query"}, args : Seqs(Args, 2)]
Links == [law : {"link"}, link : Seqs({"/", "p", "?", "#"}, 5),
          path : {<<"/">>, <<"/", "p">>, <<"/", "p", "/">>}]

Control(tag, type, name, value, c) ==
  [tag |-> tag, type |-> type, name |-> name, value |-> value, checked |-> c]
Typed == {Control(tag, type, "n", "v", FALSE) :
            tag \in {"INPUT", "BUTTON", "SELECT", "TEXTAREA"},
            type \in InputTypes \cup {"", "email", "other"}}
Types1 == [law : {"type"}, control : Typed]
Controls == {Control("INPUT", type, name, value, c) :
               type \in {"text", "radio", "checkbox", "image"}, name \in {"", "n"},
               value \in {"v", "w"}, c \in BOOLEAN}
Forms == [law : {"data"}, form : Seqs(Controls, 3)]

Dirs == {<<"base">>, <<"base", Modules>>, <<"base", "sub">>, <<"base-ext">>,
         <<"base", Modules, "p">>, <<Modules>>, <<Modules, "p">>, <<>>,
         <<Modules, "p", Modules>>}
Files == [dir : Dirs, name : {"base", "index"}, ext : {"ts", "js"}]
Pairs == {{a, b} : a, b \in Files}
Builds1 == [law : {"build"}, input : {f \in Files : f.ext = "ts"}, files : Pairs]

Configs == [law : {"config"}, input : {f \in Files : f.ext = "ts"},
            configs : {{}} \cup {{d} : d \in Dirs} \cup {{<<"base">>, d} : d \in Dirs}]

Shown == [law : {"message"}, type : 1 .. 8 \cup {15}, text : Seqs({"{0}", "<", "x"}, 3),
          args : Seqs(Words, 1)]
Made == {[m EXCEPT !.type = TypeOf[c]] : m \in Shown, c \in DOMAIN TypeOf}
Kinds == {"undefined", "falsy", "text", "list", "object"}
Results == [law : {"result"}, ok : Kinds, err : Kinds]

Data == Seqs([name : {"a", "b"}, value : {"v", "w"}], 2)
Addresses == [path : {"p", "q"}, args : Data]
Submissions == [law : {"submit"}, here : Addresses, data : Data,
                form : [action : Seqs(Addresses, 1), method : {"", "GET", "POST"}]]

Inputs == Configs \cup Shown \cup Made \cup Results \cup Submissions \cup Formats \cup Trims \cup Escapes \cup Names \cup Queries \cup Links
            \cup Types1 \cup Forms \cup Builds1
NoInput == [law |-> "none"]

-----------------------------------------------------------------------------

MCInit ==
  /\ part \in {"messages", "callback", "events", "grid", "ids", "widget", "input"}
  /\ Init /\ (part # "messages" => alerts = {m1})
  /\ Boxes!Init /\ (part # "grid" => boxes = {})
  /\ Delayed!Init /\ Manager!Init /\ Ids!Init /\ Widgets!Init
  /\ input \in IF part = "input" THEN Inputs ELSE {NoInput}

delayedVars == <<now, calls, timer, timers, ran>>
eventVars == <<handlers, count, stack, running>>
gridVars == <<boxes, checked, clicked, before>>
idVars == <<ids, uuid, uniqId, classes, runs>>
widgetVars == <<class, conf, step, el, assigned, bound, given>>

MessagesStep ==
  /\ part = "messages" /\ Next
  /\ UNCHANGED <<delayedVars, eventVars, gridVars, idVars, widgetVars, part, input>>
CallbackStep ==
  /\ part = "callback" /\ Delayed!Next
  /\ UNCHANGED <<vars, eventVars, gridVars, idVars, widgetVars, part, input>>
EventsStep ==
  /\ part = "events" /\ Manager!Next
  /\ UNCHANGED <<vars, delayedVars, gridVars, idVars, widgetVars, part, input>>
GridStep ==
  /\ part = "grid" /\ Boxes!Next
  /\ UNCHANGED <<vars, delayedVars, eventVars, idVars, widgetVars, part, input>>
IdsStep ==
  /\ part = "ids" /\ Ids!Next
  /\ UNCHANGED <<vars, delayedVars, eventVars, gridVars, widgetVars, part, input>>

WidgetStep ==
  /\ part = "widget" /\ Widgets!Next
  /\ UNCHANGED <<vars, delayedVars, eventVars, gridVars, idVars, part, input>>

MCNext == MessagesStep \/ CallbackStep \/ EventsStep \/ GridStep \/ IdsStep
          \/ WidgetStep

allVars == <<vars, delayedVars, eventVars, gridVars, idVars, widgetVars, part, input>>

MCSpec ==
  /\ MCInit /\ [][MCNext]_allVars
  /\ part = "messages" => Fairness
  /\ part = "callback" => Delayed!Fairness

-----------------------------------------------------------------------------
(* Properties *)

(* lib/base/message.ts, the fading elements: see GoesAway. *)
MessagesGo == part = "messages" => GoesAway
=============================================================================
