------------------------------ MODULE EpisodeLog ------------------------------
(***************************************************************************)
(* What a results directory promises over any number of process deaths:    *)
(* episodes are recorded one at a time, a recorded episode stays recorded, *)
(* and the directory is complete only when all that was wanted is there.   *)
(***************************************************************************)
CONSTANT Wanted

VARIABLES recorded, complete

vars == <<recorded, complete>>

Init == recorded = {} /\ complete = FALSE

Record ==
  /\ \E ep \in Wanted \ recorded : recorded' = recorded \cup {ep}
  /\ UNCHANGED complete

Complete ==
  /\ recorded = Wanted
  /\ complete' = TRUE
  /\ UNCHANGED recorded

Next == Record \/ Complete

Spec == Init /\ [][Next]_vars
===============================================================================
