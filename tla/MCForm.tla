------------------------------ MODULE MCForm -------------------------------
(***************************************************************************)
(* A form with two required fields in one group; a script may add a third  *)
(* one and a required checkbox.                                            *)
(***************************************************************************)
EXTENDS Form, TLC

CONSTANTS name, note, late, agree

MCTexts == {name, note, late}
MCFields == MCTexts \cup {agree}
MCInitially == {name, note}
MCGroups == {{name, note}, {late, agree}}
MCPosition == (name :> 1) @@ (note :> 2) @@ (late :> 3) @@ (agree :> 4)
=============================================================================
