------------------------------ MODULE RunOutcomes ------------------------------
(***************************************************************************)
(* What the results of a run are promised to be, whatever the stepping,    *)
(* freezing and recording that produce them: each environment's record is  *)
(* given at most once per run, and none changes until all are cleared      *)
(* together for the next run.                                              *)
(***************************************************************************)
CONSTANTS
  Envs,
  Pending   \* no record yet

VARIABLE record

Init == record = [e \in Envs |-> Pending]

\* Some environments end; those that have a record keep it.
Decide ==
  /\ DOMAIN record' = Envs
  /\ \A e \in Envs : record[e] # Pending => record'[e] = record[e]

Clear == record' = [e \in Envs |-> Pending]

Next == Decide \/ Clear

Spec == Init /\ [][Next]_record
===============================================================================
