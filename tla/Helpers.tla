------------------------------- MODULE Helpers ------------------------------
(***************************************************************************)
(* The helpers of the frontend that keep a little state of their own, side *)
(* by side: a delayed callback, an EventManager, the checkboxes of a grid, *)
(* the ids of elements and the construction of widgets.  They share        *)
(* nothing; each has its state, its specification and its property.        *)
(***************************************************************************)
EXTENDS Naturals, FiniteSets

CONSTANTS
  WaitMs, MaxTime, MaxCalls,         \* see DelayedCallback
  Events, MaxHandlers, MaxDepth,     \* see EventManager
  Rows, all,                         \* see Grid
  Elements, MaxIds,                  \* see UniqueIds
  MaxWidgets                         \* see Widget

(* An element is no number, so that no id of the page is one uniqId() makes. *)
ASSUME ElementsAssumption == IsFiniteSet(Elements) /\ Elements \cap Nat = {}

VARIABLES
  now, calls, timer, timers, ran,
  handlers, count, stack, running,
  boxes, checked, clicked, before,
  ids, uuid, uniqId, classes, runs,
  class, conf, step, el, assigned, bound, given

Delayed == INSTANCE DelayedCallback
Manager == INSTANCE EventManager
Boxes == INSTANCE Grid
Ids == INSTANCE UniqueIds
Widgets == INSTANCE Widget

-----------------------------------------------------------------------------

(* lib/base/base.ts, delayedCallback(): one run for a burst of calls. *)
RunsOnceQuiet == Delayed!RunsOnceQuiet
RunsForLast == Delayed!RunsForLast

(* lib/base/event-manager.ts, trigger(): every handler, once, in order. *)
AllAreTold == Manager!AllAreTold

(* lib/base/grid.ts: the box that selects all agrees with the rows. *)
SelectsAll == Boxes!SelectsAll

(* lib/base/jquery-ext.ts: no two elements get the same id. *)
IdsAreUnique == Ids!IdsAreUnique

(* lib/base/widget.ts: what a constructor leaves, whatever it is given. *)
WidgetsAreReady == Widgets!WidgetsAreReady
=============================================================================
