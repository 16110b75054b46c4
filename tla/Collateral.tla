------------------------------ MODULE Collateral ------------------------------
(***************************************************************************)
(* Objects that are no target and end up in a goal container               *)
(* (robolab/core/task/collateral.py), as functions on the tracker of one   *)
(* environment and one container.                                          *)
(***************************************************************************)

\* placed: the objects counted for the results row.
NewTracker == [prev |-> {}, atReset |-> {}, flagged |-> {}, placed |-> {}]

\* Mutant: what was inside at the reset is not remembered.
EnteredSince(tr, inside, warm) == IF warm THEN {} ELSE inside \ (tr.prev \cup tr.flagged)

\* The objects that have entered: not those inside already, seen in the warm-up, or flagged.
Entered(tr, inside, warm) ==
  IF warm THEN {} ELSE inside \ (tr.prev \cup tr.atReset \cup tr.flagged)

\* CollateralTracker.update
Tracked(tr, inside, warm) ==
  [prev |-> inside,
   atReset |-> IF warm THEN tr.atReset \cup inside ELSE tr.atReset,
   flagged |-> tr.flagged \cup Entered(tr, inside, warm),
   placed |-> tr.placed \cup Entered(tr, inside, warm)]
===============================================================================
