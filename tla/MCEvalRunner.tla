----------------------------- MODULE MCEvalRunner -----------------------------
(* EvalRunner for TLC.  The interval is taken to be narrow enough once all *)
(* episodes agree, the way the Beta posterior behaves at small n.          *)
EXTENDS EvalRunner

WideUnlessUnanimous(k, n) == k # 0 /\ k # n
===============================================================================
