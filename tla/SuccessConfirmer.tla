--------------------------- MODULE SuccessConfirmer ---------------------------
(***************************************************************************)
(* Success that must come to rest (robolab/core/task/confirm.py), and the  *)
(* rest streak that placement predicates ask for (core/task/rest.py), as   *)
(* functions on the state of one environment.  Both forget lazily: on a    *)
(* step whose clock says that the environment was just reset, and only if  *)
(* they are asked on it.                                                   *)
(***************************************************************************)
EXTENDS Naturals

CONSTANTS
  RestSteps,    \* rest_steps: steps the targets must be at rest
  PlaceRest     \* rest_steps of PLACEMENT_REST_S; 0 switches the gate off

ASSUME RestAssumption == RestSteps \in Nat \ {0} /\ PlaceRest \in Nat

\* The environment was just reset.
IsFresh(step) == step <= 1

\* A stamp of 0 is the code's -1: not yet.
NewConfirmer == [rest |-> 0, held |-> 0, confirmed |-> 0]

\* Mutant: the confirmer does not forget.
NeverForgotten(c, step) == c

Remembered(c, step) == IF IsFresh(step) THEN NewConfirmer ELSE c

RestCount(c, still, step) == IF still THEN Remembered(c, step).rest + 1 ELSE 0

\* The success term: the predicate holds, and the targets have been at rest for long enough.
IsConfirmed(c, raw, still, step) == raw /\ RestCount(c, still, step) >= RestSteps

\* Mutant: a stamp is moved by every later confirmation.
LatestStamp(stamp, now, step) == IF now THEN step ELSE stamp

\* A stamp is given once.
FirstStamp(stamp, now, step) == IF now /\ stamp = 0 THEN step ELSE stamp

\* SuccessConfirmer.__call__, the state it leaves; the count is capped where it decides no more.
Confirmer(c, raw, still, step) ==
  LET old == Remembered(c, step)
      count == RestCount(c, still, step)
  IN  [rest |-> IF count > RestSteps THEN RestSteps ELSE count,
       held |-> FirstStamp(old.held, raw, step),
       confirmed |-> FirstStamp(old.confirmed, IsConfirmed(c, raw, still, step), step)]

\* RestTracker.update: unlike the confirmer it does not count the fresh step.
Streak(streak, slow, step) ==
  IF ~slow \/ IsFresh(step) THEN 0 ELSE IF streak >= PlaceRest THEN PlaceRest ELSE streak + 1

\* at_rest
AtRest(streak) == streak >= PlaceRest
===============================================================================
