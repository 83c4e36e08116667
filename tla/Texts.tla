-------------------------------- MODULE Texts -------------------------------
(***************************************************************************)
(* The functions on strings that lib/base/bom.ts and base.ts add.  A text  *)
(* is a sequence of characters, or of pieces that the function does not    *)
(* look into.                                                              *)
(***************************************************************************)
EXTENDS Naturals, Sequences, SequencesExt, Functions

-----------------------------------------------------------------------------
(* format().  Pieces are the placeholders; "$&", which in the second        *)
(* argument of replace() stands for the match; and others.                 *)

Holes == <<"{0}", "{1}">>

Expand(arg, i) == [k \in DOMAIN arg |-> IF arg[k] = "$&" THEN Holes[i] ELSE arg[k]]

(* One replacement for each argument, of the first placeholder there is    *)
(* then: what an earlier argument has brought counts.                      *)
Format(text, args) ==
  FoldLeftDomain(LAMBDA val, i : ReplaceFirstSubSeq(Expand(args[i], i), <<Holes[i]>>, val),
                 text, args)

(* The arguments in the places of the text itself. *)
Filled(text, args) ==
  FlattenSeq([k \in DOMAIN text |->
    IF \E i \in DOMAIN args : text[k] = Holes[i]
    THEN args[CHOOSE i \in DOMAIN args : text[k] = Holes[i]]
    ELSE <<text[k]>>])

-----------------------------------------------------------------------------
(* trimL(), trimR() and trimLR().  Characters are numbers, in their order; *)
(* 0 is "-", the one special character of a class that RegExp.e() leaves.  *)

Dash == 0

(* How the characters of a class are read: as ranges and single ones. *)
Ranges(chars) ==
  LET from[i \in 1 .. Len(chars) + 3] ==
        IF i > Len(chars) THEN {}
        ELSE IF i + 2 <= Len(chars) /\ chars[i + 1] = Dash
        THEN {<<chars[i], chars[i + 2]>>} \cup from[i + 3]
        ELSE {<<chars[i], chars[i]>>} \cup from[i + 1]
  IN  from[1]

(* new RegExp() throws for a range that runs backwards. *)
IsClass(chars) == \A r \in Ranges(chars) : r[1] <= r[2]
Class(chars) == UNION {r[1] .. r[2] : r \in Ranges(chars)}

TrimL(s, chars) ==
  LET kept == {i \in DOMAIN s : s[i] \notin Class(chars)}
  IN  IF kept = {} THEN <<>> ELSE SubSeq(s, Min(kept), Len(s))

TrimR(s, chars) ==
  LET kept == {i \in DOMAIN s : s[i] \notin Class(chars)}
  IN  IF kept = {} THEN <<>> ELSE SubSeq(s, 1, Max(kept))

(* A variant that trims the left side again. *)
TrimLRLeft(s, chars) == TrimL(TrimL(s, chars), chars)

TrimLR(s, chars) == TrimR(TrimL(s, chars), chars)

-----------------------------------------------------------------------------
(* e() *)

Entities ==
  [c \in {"&", "<", ">", "\"", "'"} |->
     CASE c = "&"  -> <<"&", "amp;">>
       [] c = "<"  -> <<"&", "lt;">>
       [] c = ">"  -> <<"&", "gt;">>
       [] c = "\"" -> <<"&", "quot;">>
       [] c = "'"  -> <<"&", "#39;">>]

E(s) ==
  FlattenSeq([i \in DOMAIN s |->
                IF s[i] \in DOMAIN Entities THEN Entities[s[i]] ELSE <<s[i]>>])

(* What a browser makes of it: an entity of every "&" and what follows. *)
Decoded(s) ==
  LET from[i \in 1 .. Len(s) + 2] ==
        IF i > Len(s) THEN <<>>
        ELSE IF \E c \in DOMAIN Entities : IsPrefix(Entities[c], SubSeq(s, i, Len(s)))
        THEN <<CHOOSE c \in DOMAIN Entities : IsPrefix(Entities[c], SubSeq(s, i, Len(s)))>>
               \o from[i + 2]
        ELSE <<s[i]>> \o from[i + 1]
  IN  from[1]

-----------------------------------------------------------------------------
(* lname(), on names of small letters, capitals, "_", "-" and " ".  Each   *)
(* replace() is of the first match only.                                   *)

Lower == [c \in {"A", "B"} |-> IF c = "A" THEN "a" ELSE "b"]
Small == Range(Lower)

Underscore(s) == ReplaceFirstSubSeq(<<"-">>, <<"_">>, s)

Hump(s) ==
  LET H == {i \in 1 .. Len(s) - 1 : s[i] \in Small /\ s[i + 1] \in DOMAIN Lower}
  IN  IF H = {} THEN s
      ELSE LET i == Min(H)
           IN  SubSeq(s, 1, i) \o <<"-", Lower[s[i + 1]]>> \o SubSeq(s, i + 2, Len(s))

Foreign(s) ==
  LET F == {i \in DOMAIN s : s[i] \in {"_", " "}}
  IN  IF F = {} THEN s ELSE ReplaceAt(s, Min(F), "-")

Dashes(s) ==
  LET D == {i \in DOMAIN s : s[i] = "-"}
      first == Min(D)
      others == {i \in first .. Len(s) : s[i] # "-"}
  IN  IF D = {} THEN s
      ELSE SubSeq(s, 1, first)
             \o IF others = {} THEN <<>> ELSE SubSeq(s, Min(others), Len(s))

Lname(s) == Dashes(Foreign(Hump(Underscore(s))))

-----------------------------------------------------------------------------
(* Laws *)

Count(s, C) == Cardinality({i \in DOMAIN s : s[i] \in C})

(* format() puts each argument in its place, as long as no placeholder     *)
(* occurs twice, and none, nor "$&", in an argument.                       *)
FormatFills(text, args) ==
  /\ \A h \in Range(Holes) : Cardinality({k \in DOMAIN text : text[k] = h}) <= 1
  /\ \A a \in Range(args) : Range(a) \cap ({"$&"} \cup Range(Holes)) = {}
  => Format(text, args) = Filled(text, args)

(* trimLR() takes the given characters off both ends and no others, unless *)
(* a "-" between two of them makes a range.                                *)
TrimStrips(s, chars) ==
  (\A i \in DOMAIN chars : chars[i] = Dash => i \in {1, Len(chars)})
    => /\ IsClass(chars)
       /\ \E i, j \in 0 .. Len(s) :
            /\ TrimLR(s, chars) = SubSeq(s, i + 1, j)
            /\ Range(SubSeq(s, 1, i) \o SubSeq(s, j + 1, Len(s))) \subseteq Range(chars)
            /\ i < j => {s[i + 1], s[j]} \cap Range(chars) = {}

(* e() leaves nothing that is markup, and a browser shows what was there,  *)
(* a text that looks like an entity too.                                   *)
EscapeShows(s) ==
  /\ Range(E(s)) \cap DOMAIN Entities \subseteq {"&"}
  /\ Decoded(E(s)) = s

(* lname() makes a lower case name with single dashes of one in camel      *)
(* case, with an underscore or with a space, but not of one with two.      *)
LnameIsLower(s) ==
  /\ Count(s, {"_", " ", "-"} \cup DOMAIN Lower) <= 1
  /\ s # <<>> => s[1] \notin DOMAIN Lower
  => Range(Lname(s)) \subseteq Small \cup {"-"}
=============================================================================
