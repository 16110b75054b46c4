---------------------------- MODULE MCEpisodeBatch ----------------------------
(* EpisodeBatch for TLC: environments are model values and symmetric.      *)
EXTENDS EpisodeBatch, TLC

Symmetry == Permutations(Envs)
===============================================================================
