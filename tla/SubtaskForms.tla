----------------------------- MODULE SubtaskForms -----------------------------
(***************************************************************************)
(* How what a task author writes becomes a stage of the ladder             *)
(* (robolab/core/task/subtask.py and subtask_utils.py), and the composite  *)
(* subtasks of core/task/conditionals.py.  A condition is written with a   *)
(* score or without one; a stage keeps the scores of a group relative to   *)
(* each other, so normalising them changes nothing here.  The conditions   *)
(* of a Python set are a sequence too, in whatever order it hands them out.*)
(***************************************************************************)
EXTENDS ConditionalsLadder, Sequences

\* A condition, and a (condition, score) tuple.
Func == [scored |-> FALSE, score |-> 0]
Pair(s) == [scored |-> TRUE, score |-> s]

\* The notations: conds are those of a callable, list or set; groups those of a dict.
One == [kind |-> "func", conds |-> <<Func>>, groups |-> <<>>]
List(cs) == [kind |-> "list", conds |-> cs, groups |-> <<>>]
Unordered(cs) == [kind |-> "set", conds |-> cs, groups |-> <<>>]
Dict(gs) == [kind |-> "dict", conds |-> <<>>, groups |-> gs]

\* Subtask(conditions, score, logical, K); a K that is None is 0.
Subtask(conditions, weight, logical, k) ==
  [conditions |-> conditions, weight |-> weight, logical |-> logical, k |-> k]

-------------------------------------------------------------------------------
\* Conditions that are all tuples or all callables, and at least one.
Uniform(cs) == cs # <<>> /\ \A i \in DOMAIN cs : cs[i].scored = cs[1].scored

\* sanitize_subtask_conditions: a list is one ordered group under "all", and
\* alternatives otherwise; a set is never ordered.
Sanitized(f, logical) ==
  CASE f.kind = "dict" -> f.groups
    [] f.kind = "func" \/ (f.kind = "list" /\ logical = "all") -> <<f.conds>>
    [] OTHER -> [i \in DOMAIN f.conds |-> <<f.conds[i]>>]

\* The scores of a group; without any they are equal.
Worths(cs) == [r \in 0 .. Len(cs) - 1 |-> IF cs[r + 1].scored THEN cs[r + 1].score ELSE 1]

\* Subtask.__post_init__, what it does not raise for.
Admitted(s) ==
  LET groups == Sanitized(s.conditions, s.logical) IN
  /\ IF s.conditions.kind = "dict"
     THEN DOMAIN groups # {} /\ \A g \in DOMAIN groups : Uniform(groups[g])
     ELSE Uniform(s.conditions.conds)
  /\ s.weight \in 0 .. Unit
  /\ s.logical = "choose" => s.k \in 1 .. Cardinality(DOMAIN groups)

\* Subtask.__post_init__, what it makes.
Built(s) ==
  LET groups == Sanitized(s.conditions, s.logical) IN
  [size   |-> [g \in DOMAIN groups |-> Len(groups[g])],
   worth  |-> [g \in DOMAIN groups |-> Worths(groups[g])],
   logical |-> s.logical, k |-> s.k, weight |-> s.weight]

-------------------------------------------------------------------------------
\* pick_and_place and pick_and_place_on_surface: only the placement earns.
PickAndPlace(objects, weight, logical, k) ==
  Subtask(Dict([o \in objects |-> <<Pair(0), Pair(weight)>>]), weight, logical, k)

\* pick_and_place_grouped, of the objects of all its groups.
PickAndPlaceGrouped(objects, weight, logical, k) ==
  Subtask(Dict([o \in objects |-> [i \in 1 .. 4 |-> Pair(1)]]), weight, logical, k)

\* count_subtasks, of one stage.
CountSubtasks(st) ==
  CASE st.logical = "all"    -> Cardinality(Groups(st))
    [] st.logical = "any"    -> 1
    [] st.logical = "choose" -> st.k
===============================================================================
