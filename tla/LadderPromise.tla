----------------------------- MODULE LadderPromise -----------------------------
(***************************************************************************)
(* What a subtask ladder promises the results row, whatever its stages,    *)
(* groups and conditions are: a score that moves up and down as the policy *)
(* achieves and loses conditions, never below what the completed stages    *)
(* have banked, and that reads full exactly when the ladder is complete,   *)
(* after which nothing moves until the environment is reset.               *)
(***************************************************************************)
EXTENDS Integers

CONSTANT Full   \* the score of a completed ladder

VARIABLES score, banked, complete

vars == <<score, banked, complete>>

Init == score = 0 /\ banked = 0 /\ complete = FALSE

\* One simulation step of an incomplete ladder.
Progress ==
  /\ ~complete
  /\ banked' \in banked .. Full
  /\ score' \in banked' .. Full
  /\ complete' = (score' = Full)

\* A reset of the environment starts from nothing.
Restart == score' = 0 /\ banked' = 0 /\ complete' = FALSE

Next == Progress \/ Restart

Spec == Init /\ [][Next]_vars
===============================================================================
