------------------------------ MODULE ChunkCache ------------------------------
(***************************************************************************)
(* The action chunks that an inference client keeps for each environment   *)
(* (robolab/eval/base_client.py), as functions on the entry of one.        *)
(* Actions are not told apart; a chunk remembers (history) the run it was  *)
(* asked for in, the runs the server had seen in the conversation that     *)
(* answered, and the connection it came over.                              *)
(***************************************************************************)
EXTENDS Naturals

CONSTANT Horizon    \* open_loop_horizon

ASSUME HorizonAssumption == Horizon \in Nat \ {0}

\* The entry of an environment that is not in _chunks.
NoChunk == [cached |-> FALSE, size |-> 0, used |-> 0, of |-> 0, seen |-> {}, conn |-> 0]

\* Mutant: the last action of a chunk is followed by one more.
RefreshLate(c) == ~c.cached \/ c.used > Horizon

\* _needs_refresh
NeedsRefresh(c) == ~c.cached \/ c.used >= Horizon

\* _set_chunk
SetChunk(size, of, seen, conn) ==
  [cached |-> TRUE, size |-> size, used |-> 0, of |-> of, seen |-> seen, conn |-> conn]

\* Whether _next_action finds an action, and what it leaves.
HasNext(c) == c.used < c.size
NextAction(c) == IF HasNext(c) THEN [c EXCEPT !.used = @ + 1] ELSE c
===============================================================================
