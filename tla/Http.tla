--------------------------------- MODULE Http -------------------------------
(***************************************************************************)
(* What lib/base/http.ts and app.ts read from addresses.  An address is a  *)
(* sequence of pieces: the characters "?", "#", "&", "=" and "+", which    *)
(* are special, "%" for an escape that cannot be decoded, and others.      *)
(***************************************************************************)
EXTENDS Naturals, Sequences, SequencesExt

Inherited == {<<"toString">>}      \* names that every object has

EndOf(s, i, stop) == Min({j \in i .. Len(s) : s[j] \in stop} \cup {Len(s) + 1})

(* The matches of the regular expression, from the left: a name, "=" if it *)
(* is there, and all up to the next of the given characters.               *)
MatchesUpTo(search, stop) ==
  LET from[i \in 1 .. Len(search) + 1] ==
        IF i > Len(search) THEN <<>>
        ELSE IF search[i] \in {"=", "?", "&"} THEN from[i + 1]
        ELSE LET n == EndOf(search, i, {"=", "?", "&"})
                 v == IF n <= Len(search) /\ search[n] = "=" THEN n + 1 ELSE n
                 e == EndOf(search, v, stop)
             IN  <<[name |-> SubSeq(search, i, n - 1), value |-> SubSeq(search, v, e - 1)]>>
                   \o from[e]
  IN  from[1]

(* A variant whose values end at "=". *)
MatchesToEqual(search) == MatchesUpTo(search, {"&", "="})

Matches(search) == MatchesUpTo(search, {"&"})

Decode(s) == [i \in DOMAIN s |-> IF s[i] = "+" THEN " " ELSE s[i]]
Fails(s) == \E i \in DOMAIN s : s[i] = "%"

(* The first value of each name, but of none that every object has; or the *)
(* exception of decodeURIComponent(), wherever the malformed escape is.    *)
QueryArgs(search) ==
  LET m == Matches(search)
      names == {Decode(m[i].name) : i \in DOMAIN m}
      first(n) == Min({i \in DOMAIN m : Decode(m[i].name) = n})
  IN  [throws |-> \E i \in DOMAIN m : Fails(m[i].name) \/ Fails(m[i].value),
       args |-> [n \in names \ Inherited |-> Decode(m[first(n)].value)]]

Before(s, c) == SubSeq(s, 1, EndOf(s, 1, {c}) - 1)

(* Is the link of the main menu the one to this page? *)
LinkIsActive(link, uriPath) ==
  /\ link # <<>> /\ link[1] = "/"
  /\ Before(Before(link, "?"), "#") = uriPath

-----------------------------------------------------------------------------
(* Laws *)

(* The query string a form or a link writes for a list of arguments. *)
Written(args) ==
  <<"?">> \o FlattenSeq([i \in DOMAIN args |->
      (IF i = 1 THEN <<>> ELSE <<"&">>) \o args[i].name \o <<"=">> \o args[i].value])

(* Arguments are read as they were written, "=" and "?" in their values    *)
(* too; the first of a name counts, those with the name of something that  *)
(* every object has are lost, and one malformed escape loses all of them.  *)
QueryIsRead(args) ==
  LET read == QueryArgs(Written(args))
      names == {Decode(args[i].name) : i \in DOMAIN args}
  IN  IF \E i \in DOMAIN args : Fails(args[i].name \o args[i].value)
      THEN read.throws
      ELSE /\ ~read.throws
           /\ DOMAIN read.args = names \ Inherited
           /\ \A n \in names \ Inherited : \E i \in DOMAIN args :
                /\ Decode(args[i].name) = n /\ read.args[n] = Decode(args[i].value)
                /\ \A j \in 1 .. i - 1 : Decode(args[j].name) # n

(* A link is active on the page whose path it has, whatever query and      *)
(* fragment follow and in whichever of them the other one's sign occurs.   *)
LinkIsFound(link, uriPath) ==
  LinkIsActive(link, uriPath) <=>
    /\ link # <<>> /\ link[1] = "/"
    /\ \E rest \in {SubSeq(link, i, Len(link)) : i \in 1 .. Len(link) + 1} :
         /\ link = uriPath \o rest
         /\ rest # <<>> => rest[1] \in {"?", "#"}
         /\ \A i \in DOMAIN uriPath : uriPath[i] \notin {"?", "#"}
=============================================================================
