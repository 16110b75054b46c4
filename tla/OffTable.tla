------------------------------- MODULE OffTable -------------------------------
(***************************************************************************)
(* Who has fallen off the table, and when the task cannot succeed any more *)
(* (robolab/core/task/off_table.py), as functions on the monitor of one    *)
(* environment.  A height is a number of drops (OFF_TABLE_DROP_M) above    *)
(* the lowest place an object can come to rest on.                         *)
(***************************************************************************)
EXTENDS Naturals, FiniteSets

CONSTANTS
  Objects,    \* contact_object_list
  Groups      \* required_groups of the success term: [objs, logical, k]

ASSUME GroupsAssumption ==
  /\ IsFiniteSet(Objects)
  /\ \A g \in Groups : /\ g.objs \subseteq Objects /\ g.objs # {}
                       /\ g.logical \in {"all", "any", "choose"} /\ g.k \in Nat

\* flagged: who was reported; lost: the loss was.  Heights are those of the first step.
NewMonitor(z) == [home |-> z, flagged |-> {}, lost |-> FALSE]

\* fallen_masks, its state: a fresh environment learns its heights and forgets its reports.
Watched(mon, z, fresh) == IF fresh THEN NewMonitor(z) ELSE mon

\* fallen_masks, its verdict.
Fallen(mon, z) == {o \in Objects : z[o] < mon.home[o]}

\* Mutant: off by one in what is left to choose from.
LostTooLate(g, fallen) ==
  CASE g.logical = "all" -> g.objs \cap fallen # {}
    [] g.logical = "any" -> g.objs \subseteq fallen
    [] OTHER -> Cardinality(g.objs \ fallen) + 1 < (IF g.k = 0 THEN 1 ELSE g.k)

\* group_lost
GroupLost(g, fallen) ==
  CASE g.logical = "all" -> g.objs \cap fallen # {}
    [] g.logical = "any" -> g.objs \subseteq fallen
    [] OTHER -> Cardinality(g.objs \ fallen) < (IF g.k = 0 THEN 1 ELSE g.k)

\* task_lost
TaskLost(fallen) == \E g \in Groups : GroupLost(g, fallen)

\* What a group needs, for reference: as many of its objects as its mode asks for.
Needed(g) == CASE g.logical = "all" -> Cardinality(g.objs)
               [] g.logical = "any" -> 1
               [] OTHER -> IF g.k = 0 THEN 1 ELSE g.k
Winnable(up) == \A g \in Groups : \E S \in SUBSET (g.objs \cap up) : Cardinality(S) = Needed(g)
===============================================================================
