---------------------------- MODULE MCSubtaskLadder ----------------------------
(* Small ladders for TLC, written as a task author writes them.  The stages *)
(* together use every completion mode, groups of different lengths, and     *)
(* unequal rung and stage weights.                                          *)
EXTENDS SubtaskLadder, SubtaskForms, TLC

\* Two objects to place, and one of two others.
PlaceTwo == Subtask(Dict([a |-> <<Pair(1), Pair(2)>>, b |-> <<Pair(3)>>]), 1, "all", 0)
PlaceAny == Subtask(Dict([c |-> <<Func>>, d |-> <<Func>>]), 2, "any", 0)

\* Two of three objects must finish; the first has the BananasOutOfBin shape:
\* grabbed, outside, dropped (true at spawn).
TwoOfThree ==
  Subtask(Dict([a |-> <<Func, Func, Func>>, b |-> <<Func>>, c |-> <<Func>>]), 1, "choose", 2)

\* One object to pick and place, and alternatives.
PickOne == PickAndPlace({"a"}, 1, "all", 0)
Either == Subtask(List(<<Func, Func>>), 2, "any", 0)

\* Subtask.__post_init__ raises for none of them, and makes their stages.
ASSUME Authored == \A s \in {PlaceTwo, PlaceAny, TwoOfThree, PickOne, Either} : Admitted(s)
PlaceTwoStage == Built(PlaceTwo)
PlaceAnyStage == Built(PlaceAny)
TwoOfThreeStage == Built(TwoOfThree)
PickOneStage == Built(PickOne)
EitherStage == Built(Either)

TwoStages == (1 :> PlaceTwoStage @@ 2 :> PlaceAnyStage)
OneStage == (1 :> TwoOfThreeStage)
TwoSmallStages == (1 :> PickOneStage @@ 2 :> EitherStage)
===============================================================================
