------------------------------ MODULE MCVlmAgent ------------------------------
(* Servers that know the second spelling of a constrained reply or none, and  *)
(* the effort or not; the scene settles one step after the last early reset. *)
EXTENDS VlmAgent

MCEnvs == {0, 1}
MCServers == [fields : {{}, {"guided_choice"}}, effort : BOOLEAN]
MCUnits == {"MV_UP", "GRASP", "DONE"}
MCSteps == [u \in {"MV_UP", "GRASP", "RELEASE", "STILL", "DONE"} |->
              IF u \in {"STILL", "DONE"} THEN 1 ELSE 2]
===============================================================================
