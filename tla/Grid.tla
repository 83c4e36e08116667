--------------------------------- MODULE Grid -------------------------------
(***************************************************************************)
(* The checkboxes of lib/base/grid.ts: one for each row and one to select  *)
(* all, which has the class "grid__chk" of the others too.  A click on any *)
(* of them is left to the browser; only the constructor, which runs again  *)
(* when the page is loaded again with what the browser restores, and the   *)
(* two public methods bring them in line.                                  *)
(***************************************************************************)
EXTENDS Naturals

CONSTANTS
  Rows,      \* the checkboxes of rows a grid may have
  all        \* the checkbox that selects all

VARIABLES
  boxes,     \* the checkboxes of this grid
  checked,   \* those that are checked
  clicked,   \* was one clicked, or did the rows change, since the last call?
  before     \* those that were checked before it

vars == <<boxes, checked, clicked, before>>

Init ==
  /\ boxes \in SUBSET (Rows \cup {all})
  /\ checked \in SUBSET boxes
  /\ clicked = TRUE /\ before = checked

CheckAllCheckboxes == checked' = boxes
UncheckAllCheckboxes == checked' = {}

(* A variant that takes the box that selects all for one of a row. *)
InitCheckboxesOfAll ==
  IF all \in checked \/ (boxes # {} /\ boxes \subseteq checked)
  THEN CheckAllCheckboxes
  ELSE UNCHANGED checked

InitCheckboxes ==
  IF all \in checked \/ (boxes # {} /\ boxes \ {all} \subseteq checked)
  THEN CheckAllCheckboxes
  ELSE UNCHANGED checked

Called == clicked' = FALSE /\ before' = checked /\ UNCHANGED boxes

Construct == InitCheckboxes /\ Called
CheckAll == CheckAllCheckboxes /\ Called
UncheckAll == UncheckAllCheckboxes /\ Called

(* The user clicks a checkbox. *)
Click(b) ==
  /\ b \in boxes
  /\ checked' = (checked \ {b}) \cup ({b} \ checked)
  /\ clicked' = TRUE
  /\ UNCHANGED <<boxes, before>>

(* A page script puts a row into the grid or takes one out. *)
Row(b) ==
  /\ boxes' = (boxes \ {b}) \cup ({b} \ boxes)
  /\ checked' = checked \ {b}
  /\ clicked' = TRUE
  /\ UNCHANGED before

Next ==
  \/ Construct \/ CheckAll \/ UncheckAll
  \/ \E b \in boxes : Click(b)
  \/ \E b \in Rows : Row(b)

Spec == Init /\ [][Next]_vars

-----------------------------------------------------------------------------

(* After the constructor or a method the box that selects all is checked   *)
(* exactly if all rows are; and a row changes only together with all of    *)
(* them.                                                                   *)
SelectsAll ==
  ~clicked =>
    /\ all \in boxes /\ boxes # {} /\ (boxes = {all} => checked # {})
         => (all \in checked <=> boxes \ {all} \subseteq checked)
    /\ checked \in {before, boxes, {}}
=============================================================================
