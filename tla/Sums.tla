--------------------------------- MODULE Sums ---------------------------------
(***************************************************************************)
(* Sums over a finite set, as a count: the sum of f is the number of pairs *)
(* of an element x and a number from 1 to f[x].  Written without recursion *)
(* and without a fold, for the proofs of SumTheorems.                      *)
(***************************************************************************)
EXTENDS Naturals, FiniteSets

Shares(f) == UNION {{x} \X (1 .. f[x]) : x \in DOMAIN f}

\* The sum of f[x] over DOMAIN f, for f with values in Nat.
SumOf(f) == Cardinality(Shares(f))
===============================================================================
