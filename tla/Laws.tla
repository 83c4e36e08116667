-------------------------------- MODULE Laws --------------------------------
(***************************************************************************)
(* The laws of the pure functions of the frontend and of its build.  A     *)
(* function keeps nothing from one call to the next, so that the state is  *)
(* the input of one law, which its field "law" names.                      *)
(***************************************************************************)
EXTENDS Texts, Responses, Http, Fields, Bundles

VARIABLE input

-----------------------------------------------------------------------------

(* lib/base/bom.ts, base.ts and message.ts: the laws of format(), trimLR(), *)
(* e(), lname() and renderMessage().                                       *)
TextsAreRight ==
  CASE input.law = "format" -> FormatFills(input.text, input.args)
    [] input.law = "trim"   -> TrimStrips(input.text, input.chars)
    [] input.law = "escape" -> EscapeShows(input.text)
    [] input.law = "lname"  -> LnameIsLower(input.text)
    [] input.law = "message" -> MessageIsShown(input)
    [] OTHER                -> TRUE

(* lib/base/http.ts and app.ts, addresses; form.ts, formData(), fieldType() *)
(* and uri(): what a link, the user or the server says is taken for that.  *)
DataArrives ==
  CASE input.law = "query"  -> QueryIsRead(input.args)
    [] input.law = "link"   -> LinkIsFound(input.link, input.path)
    [] input.law = "data"   -> ChoiceArrives(input.form)
    [] input.law = "type"   -> TypesAgree(input.control)
    [] input.law = "submit" -> SentToTheSame(input.form, input.here, input.data)
    [] input.law = "result" -> ResultIsJudged(input)
    [] OTHER                -> TRUE

(* rollup.config.mjs: nothing that is built overwrites something else. *)
BuildsAreApart ==
  /\ input.law = "build" => OutputsAreApart(input.input, input.files)
  /\ input.law = "config" => InputIsCompiled(input.input, input.configs, <<"base">>)
=============================================================================
