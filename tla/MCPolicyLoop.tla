----------------------------- MODULE MCPolicyLoop -----------------------------
(* Two environments of a batch: one that is asked first, one that still has *)
(* a chunk while the first one's connection drops.                          *)
EXTENDS PolicyLoop, TLC

MCKinds == {"flush", "session", "served"}
MCEnvs == {0, 1}
MCSizes == {1, 3}
===============================================================================
