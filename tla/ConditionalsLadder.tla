-------------------------- MODULE ConditionalsLadder --------------------------
(***************************************************************************)
(* The scoring ladder of one subtask stage, as a pure step function.       *)
(*                                                                         *)
(* A stage (robolab/core/task/subtask.py) holds one sequence of conditions *)
(* ("rungs") per group.  ConditionalsStateMachine advances, regresses and  *)
(* scores each group independently; this module is that machine as         *)
(* operators over a record, so that the live ladder, the final-frame       *)
(* judgement and the proofs all use the same definitions.                  *)
(*                                                                         *)
(* A condition is abstracted to a truth value: holds[g] is the set of      *)
(* rungs of group g whose predicate is true on this frame.  Rungs are      *)
(* numbered 0..n-1 as in the code.  Scores are exact multiples of 1/Unit.  *)
(***************************************************************************)
EXTENDS Integers, FiniteSets, FiniteSetsExt, Sums

CONSTANTS
  Unit,              \* what a score of 1.0 is counted as
  ExcludeSpawnTrue   \* robolab.constants.SUBTASK_EXCLUDE_SPAWN_TRUE_RUNGS

ASSUME UnitAssumption == Unit \in Nat \ {0}
ASSUME ExcludeAssumption == ExcludeSpawnTrue \in BOOLEAN

Logicals == {"all", "any", "choose"}

\* A stage: rungs per group, the authored score of each rung, the completion
\* mode, K for "choose" (0 otherwise) and the weight of the stage.
Groups(st) == DOMAIN st.size
Rungs(st, g) == 0 .. st.size[g] - 1

IsStage(st) ==
  /\ IsFiniteSet(Groups(st)) /\ Groups(st) # {}
  /\ st.size \in [Groups(st) -> Nat \ {0}]
  /\ DOMAIN st.worth = Groups(st)
  /\ \A g \in Groups(st) : st.worth[g] \in [Rungs(st, g) -> Nat]
  /\ st.logical \in Logicals
  /\ st.k \in Nat
  /\ st.logical = "choose" => st.k \in 1 .. Cardinality(Groups(st))
  /\ st.weight \in Nat

\* A set of rungs for every group: what holds on a frame, what is completed...
IsFrame(st, h) ==
  /\ h \in [Groups(st) -> SUBSET Nat]
  /\ \A g \in Groups(st) : h[g] \subseteq Rungs(st, g)

IsMachine(st, m) ==
  /\ m \in [tracker   : [Groups(st) -> Nat],
            completed : [Groups(st) -> SUBSET Nat],
            excluded  : [Groups(st) -> SUBSET Nat],
            probed    : BOOLEAN]
  /\ \A g \in Groups(st) : m.tracker[g] <= st.size[g]
  /\ IsFrame(st, m.completed)
  /\ IsFrame(st, m.excluded)

-------------------------------------------------------------------------------
(* Construction and reset: _initialize_tracker.                            *)
Fresh(st) ==
  [tracker   |-> [g \in Groups(st) |-> 0],
   completed |-> [g \in Groups(st) |-> {}],
   excluded  |-> [g \in Groups(st) |-> {}],
   probed    |-> FALSE]

(* P64: the rungs already true when the machine first looks are excluded.  *)
Probe(st, m, holds) ==
  [tracker   |-> m.tracker,
   completed |-> m.completed,
   excluded  |-> IF ExcludeSpawnTrue THEN holds ELSE m.excluded,
   probed    |-> TRUE]

-------------------------------------------------------------------------------
(* _find_target_condition_iteratively: where group g's tracker goes.       *)

\* Mutant: a rung the scene satisfied counts (the ladder before P64).
SatisfiedCountingSpawn(st, m, holds, g) ==
  {i \in Rungs(st, g) : i >= m.tracker[g] /\ i \in holds[g]}

\* The creditable rungs from the current one on that are true now; unsatisfied
\* ones in between do not stop the scan.
Satisfied(st, m, holds, g) ==
  {i \in Rungs(st, g) : i >= m.tracker[g] /\ i \in holds[g] /\ i \notin m.excluded[g]}

\* One past the latest of them, or the current rung when there is none.
Reached(st, m, holds, g) ==
  IF Satisfied(st, m, holds, g) = {} THEN m.tracker[g]
  ELSE Max(Satisfied(st, m, holds, g)) + 1

\* Mutant: an excluded rung is not transparent.
NoWalk(st, m, holds, g) == Reached(st, m, holds, g)

\* Excluded rungs are transparent: the ladder walks past them from there.
Forward(st, m, holds, g) ==
  Min({w \in 0 .. st.size[g] :
         /\ w >= Reached(st, m, holds, g)
         /\ w = st.size[g] \/ w \notin m.excluded[g]})

\* The lowest rung of the unbroken run of lost rungs just below the tracker; a
\* rung that still holds, or that the scene satisfied, ends the run.
Backward(m, holds, g) ==
  Min({j \in 0 .. m.tracker[g] :
         \A i \in j .. m.tracker[g] - 1 : i \notin holds[g] /\ i \notin m.excluded[g]})

\* Mutant: a finished group is looked at again, and may regress.
RecheckFinished(st, m, holds, g) ==
  IF Forward(st, m, holds, g) > m.tracker[g] THEN Forward(st, m, holds, g)
  ELSE Backward(m, holds, g)

(* _step_object: the group's new tracker; a finished group is not looked   *)
(* at again, and a group regresses only when it could not advance.         *)
NextTracker(st, m, holds, g) ==
  IF m.tracker[g] >= st.size[g] THEN m.tracker[g]
  ELSE IF Forward(st, m, holds, g) > m.tracker[g] THEN Forward(st, m, holds, g)
  ELSE Backward(m, holds, g)

\* Mutant: a regression clears only the rung it falls back to.
ClearTargetOnly(st, m, holds, g) ==
  LET t == NextTracker(st, m, holds, g) IN
  IF t >= m.tracker[g] THEN m.completed[g] \cup (m.tracker[g] .. t - 1)
  ELSE m.completed[g] \ {t}

\* Advancing marks every rung passed, the skipped ones too; regressing clears
\* from the target up to the rung left.
NextCompleted(st, m, holds, g) ==
  LET t == NextTracker(st, m, holds, g) IN
  IF t >= m.tracker[g] THEN m.completed[g] \cup (m.tracker[g] .. t - 1)
  ELSE m.completed[g] \ (t .. m.tracker[g] - 1)

StepGroups(st, m, holds) ==
  [tracker   |-> [g \in Groups(st) |-> NextTracker(st, m, holds, g)],
   completed |-> [g \in Groups(st) |-> NextCompleted(st, m, holds, g)],
   excluded  |-> m.excluded,
   probed    |-> m.probed]

(* step(): nothing is credited before the probe, and the probe waits for   *)
(* the settle warm-up.                                                     *)
Step(st, m, holds, settled) ==
  IF m.probed THEN StepGroups(st, m, holds)
  ELSE IF settled THEN StepGroups(st, Probe(st, m, holds), holds)
  ELSE m

-------------------------------------------------------------------------------
(* Completion of the stage: check_all / check_any / check_choose.          *)
Finished(st, m) == {g \in Groups(st) : m.tracker[g] = st.size[g]}

StageDone(st, m) ==
  CASE st.logical = "all"    -> Finished(st, m) = Groups(st)
    [] st.logical = "any"    -> Finished(st, m) # {}
    [] st.logical = "choose" -> Cardinality(Finished(st, m)) >= st.k

(* Scores.  The rungs that may earn are renormalised to sum to one; when   *)
(* none may, the group is worth nothing.                                   *)
Worth(st, g, S) == SumOf([i \in S |-> st.worth[g][i]])

\* Mutant: the authored scores are not renormalised over the rungs left.
UnscaledScore(st, m, g) ==
  (Unit * Worth(st, g, m.completed[g] \ m.excluded[g])) \div Worth(st, g, Rungs(st, g))

GroupScore(st, m, g) ==
  LET earning == Worth(st, g, Rungs(st, g) \ m.excluded[g])
      earned  == Worth(st, g, m.completed[g] \ m.excluded[g])
  IN  IF earning = 0 THEN 0 ELSE (Unit * earned) \div earning

Total(st, m, S) == SumOf([g \in S |-> GroupScore(st, m, g)])

StageScore(st, m) ==
  CASE st.logical = "all"    -> Total(st, m, Groups(st)) \div Cardinality(Groups(st))
    [] st.logical = "any"    -> Max({GroupScore(st, m, g) : g \in Groups(st)})
    [] st.logical = "choose" -> Max({Total(st, m, S) : S \in kSubset(st.k, Groups(st))}) \div st.k
===============================================================================
