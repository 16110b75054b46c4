------------------------------ MODULE PolicyLoop ------------------------------
(***************************************************************************)
(* The step loop of robolab/eval/episode.py seen from the policy: for each *)
(* step infer_batch asks the client for the active environments one after  *)
(* the other, then the batch steps, and some environments end.  One that   *)
(* is reset early stays active and the client is not told, so that to the  *)
(* client nothing has happened.  Runs follow each other over one client.   *)
(* Three families of clients:                                              *)
(*   "flush"    chunks, over a connection that is replaced when it drops   *)
(*              (policies/pi0_family, policies/cosmos3)                    *)
(*   "session"  chunks, and a conversation that the server remembers       *)
(*              (policies/dreamzero)                                       *)
(*   "served"   the server keeps the chunk and says when it wants to see   *)
(*              again (policies/g05_droid); its connection is not replaced *)
(***************************************************************************)
EXTENDS ChunkCache, FiniteSets

CONSTANTS
  Kinds,        \* the families to try
  Envs,         \* 0 .. num_envs - 1
  Sizes,        \* the lengths of chunk that a server may answer with
  Retries,      \* MAX_INFER_RETRIES, max_retries
  ServedSteps,  \* action_steps of the handshake
  MaxSteps,     \* the length of the step loop
  MaxRuns,      \* bound: runs
  MaxDrops      \* bound: connections lost over all runs

ASSUME LoopAssumption ==
  /\ Kinds \subseteq {"flush", "session", "served"}
  /\ Envs \subseteq Nat /\ IsFiniteSet(Envs) /\ Envs # {}
  /\ Sizes \subseteq Nat /\ Retries \in Nat \ {0} /\ ServedSteps \in Nat \ {0}
  /\ MaxSteps \in Nat \ {0} /\ MaxRuns \in Nat \ {0} /\ MaxDrops \in Nat

VARIABLES
  kind,       \* the client of this evaluation
  run, tick,  \* the run, and the steps its loop has taken
  active,     \* active_env_ids
  asked,      \* environments that infer_batch has done on this step
  raised,     \* why the evaluation died, or "no"
  resetOk,    \* history: the last client.reset() did not raise
  conn,       \* history: connections replaced so far
  linked,     \* transport.connected
  chunk,      \* _chunks and _counters
  session,    \* _env_session_id: given, the runs the server saw under it, its connection
  need,       \* _need_observation
  served      \* external: what the server still holds for a connection, asked for in which run

loopVars == <<kind, run, tick, active>>
linkVars == <<conn, linked>>
serverVars == <<need, served>>
vars == <<loopVars, asked, raised, resetOk, linkVars, chunk, session, serverVars>>

NoSession == [given |-> FALSE, seen |-> {}, conn |-> 0]
NothingServed == [left |-> 0, of |-> 0]

\* infer_batch asks for the active environments in order.
Turn(e) ==
  /\ raised = "no" /\ tick < MaxSteps
  /\ e \in active \ asked
  /\ \A d \in active : d < e => d \in asked
  /\ asked' = asked \cup {e}

\* InferenceClient.infer with the chunks cs at hand: the next action, or past the end.
Play(e, cs) ==
  /\ chunk' = [cs EXCEPT ![e] = NextAction(@)]
  /\ raised' = IF HasNext(cs[e]) THEN "no" ELSE "short"

\* A connection that is gone before the request is made is replaced too.
Renewed == IF linked THEN 0 ELSE 1

\* How often the connection drops under one request.
Drops == {n \in 0 .. Retries : conn + Renewed + n <= MaxDrops}

-------------------------------------------------------------------------------
(* Chunks over a connection that is replaced.                              *)

\* Mutant: the reconnection keeps what others have cached.
KeptChunks(drops) == chunk

\* _infer_with_retry: each reconnection flushes the cache of all environments.
FlushedChunks(drops) == IF drops = 0 THEN chunk ELSE [e \in Envs |-> NoChunk]

\* infer of pi0 and cosmos3.
InferFlush(e) ==
  /\ kind = "flush" /\ Turn(e)
  /\ IF ~NeedsRefresh(chunk[e])
     THEN Play(e, chunk) /\ UNCHANGED conn
     ELSE \/ Retries \in Drops /\ raised' = "server" /\ UNCHANGED <<chunk, conn>>
          \/ \E drops \in Drops \ {Retries}, size \in Sizes :
               /\ conn' = conn + drops
               /\ Play(e, [FlushedChunks(drops) EXCEPT ![e] = SetChunk(size, run, {run}, conn')])
  /\ UNCHANGED <<loopVars, resetOk, linked, session, serverVars>>
-------------------------------------------------------------------------------
(* Chunks and sessions.                                                    *)

\* _extract_observation mints an id where there is none, on every step.
Minted(e) ==
  IF session[e].given THEN session
  ELSE [session EXCEPT ![e] = [given |-> TRUE, seen |-> {}, conn |-> conn]]

\* The server remembers what it is shown under an id.
Shown(e) == [Minted(e) EXCEPT ![e].seen = @ \cup {run}]

\* _ensure_connected: a new connection invalidates every id.
SessionsAfter(e, renewed) == IF renewed THEN [d \in Envs |-> NoSession] ELSE Shown(e)

\* infer of dreamzero.  The request is packed, with the id of then, before _send_recv
\* finds that the connection is gone; a server that did not restart knows that id.
InferSession(e) ==
  /\ kind = "session" /\ Turn(e)
  /\ IF ~NeedsRefresh(chunk[e])
     THEN Play(e, chunk) /\ session' = Minted(e) /\ UNCHANGED linkVars
     ELSE \/ Retries \in Drops /\ raised' = "server" /\ UNCHANGED <<linkVars, chunk, session>>
          \/ \E drops \in Drops \ {Retries}, size \in Sizes :
               /\ conn' = conn + Renewed + drops /\ linked' = TRUE
               /\ session' = SessionsAfter(e, conn' > conn)
               /\ Play(e, [chunk EXCEPT ![e] = SetChunk(size, run, Shown(e)[e].seen, conn')])
  /\ UNCHANGED <<loopVars, resetOk, serverVars>>
-------------------------------------------------------------------------------
(* A server that keeps the chunk.                                          *)

\* The server's side of a request with an observation, and of an empty one.
ServedAfter(e) ==
  IF need[e] THEN [left |-> ServedSteps - 1, of |-> run]
  ELSE [served[e] EXCEPT !.left = @ - 1]

\* Mutant: without a flag in the answer nothing new is sent.
NeedsNever(left) == FALSE

\* need_obs of the answer.
NeedsAfter(left) == left = 0

\* infer of g05_droid: any failure raises, as does an empty request to a server that holds nothing.
InferServed(e) ==
  /\ kind = "served" /\ Turn(e)
  /\ \/ /\ need[e] \/ served[e].left > 0
        /\ served' = [served EXCEPT ![e] = ServedAfter(e)]
        /\ need' = [need EXCEPT ![e] = NeedsAfter(ServedAfter(e).left)]
        /\ raised' = "no"
     \/ /\ raised' = IF need[e] \/ served[e].left > 0 THEN "server" ELSE "unserved"
        /\ UNCHANGED serverVars
  /\ UNCHANGED <<loopVars, resetOk, linkVars, chunk, session>>
-------------------------------------------------------------------------------
\* env.step(): some environments freeze.
StepBatch ==
  /\ raised = "no" /\ tick < MaxSteps /\ active # {} /\ asked = active
  /\ active' \in SUBSET active
  /\ tick' = tick + 1 /\ asked' = {}
  /\ UNCHANGED <<kind, run, raised, resetOk, linkVars, chunk, session, serverVars>>

\* Mutant: only what the first environment has cached is dropped.
ResetOne == [chunk EXCEPT ![0] = NoChunk]

\* InferenceClient.reset, of all environments.
ResetChunks == [e \in Envs |-> NoChunk]

\* reset of pi0 and cosmos3: the base class.
ResetFlush ==
  /\ kind = "flush"
  /\ chunk' = ResetChunks /\ resetOk' = TRUE
  /\ UNCHANGED <<linkVars, session, serverVars>>

\* reset of dreamzero: the server is told first; when that fails nothing is cleared,
\* unless a reconnection on the way has cleared the ids.  (A last one is kept for later.)
ResetSession ==
  /\ kind = "session"
  /\ \/ /\ chunk' = ResetChunks
        /\ session' = [e \in Envs |-> NoSession]
        /\ resetOk' = TRUE /\ linked' = TRUE
        /\ \E drops \in Drops \ {Retries} : conn' = conn + Renewed + drops
     \/ /\ resetOk' = FALSE /\ linked' = FALSE /\ UNCHANGED chunk
        /\ \/ conn < MaxDrops /\ UNCHANGED <<conn, session>>
           \/ /\ conn + 1 < MaxDrops /\ conn' = conn + 1
              /\ session' = [e \in Envs |-> NoSession]
  /\ UNCHANGED serverVars

\* reset of g05_droid: the connections are reset one by one, then the flags are cleared;
\* when one fails the flags stay, those of the connections already reset too.
ResetServed ==
  /\ kind = "served"
  /\ \/ /\ served' = [e \in Envs |-> NothingServed]
        /\ need' = [e \in Envs |-> TRUE]
        /\ resetOk' = TRUE
     \/ /\ \E failing \in Envs :
             served' = [e \in Envs |-> IF e < failing THEN NothingServed ELSE served[e]]
        /\ resetOk' = FALSE
        /\ UNCHANGED need
  /\ UNCHANGED <<linkVars, chunk, session>>

\* run_episode returns: the client is reset (a failure is only logged), the next run begins.
NextRun ==
  /\ raised = "no" /\ (tick = MaxSteps \/ active = {})
  /\ run < MaxRuns
  /\ ResetFlush \/ ResetSession \/ ResetServed
  /\ run' = run + 1 /\ tick' = 0 /\ active' = Envs
  /\ UNCHANGED <<kind, asked, raised>>

Init ==
  /\ kind \in Kinds
  /\ run = 1 /\ tick = 0 /\ active = Envs /\ asked = {}
  /\ raised = "no" /\ resetOk = TRUE
  /\ conn = 0 /\ linked = TRUE
  /\ chunk = [e \in Envs |-> NoChunk] /\ session = [e \in Envs |-> NoSession]
  /\ need = [e \in Envs |-> TRUE] /\ served = [e \in Envs |-> NothingServed]

Next ==
  \/ \E e \in Envs : InferFlush(e) \/ InferSession(e) \/ InferServed(e)
  \/ StepBatch
  \/ NextRun

Spec == Init /\ [][Next]_vars
-------------------------------------------------------------------------------
(* The variables keep their types; no chunk is played past the horizon.    *)
TypeOK ==
  /\ kind \in Kinds /\ run \in 1 .. MaxRuns /\ tick \in 0 .. MaxSteps
  /\ active \subseteq Envs /\ asked \subseteq active
  /\ raised \in {"no", "server", "short", "unserved"} /\ resetOk \in BOOLEAN
  /\ conn \in 0 .. MaxDrops /\ linked \in BOOLEAN
  /\ chunk \in [Envs -> [cached : BOOLEAN, size : Sizes \cup {0}, used : 0 .. Horizon,
                         of : 0 .. MaxRuns, seen : SUBSET (1 .. MaxRuns), conn : 0 .. MaxDrops]]
  /\ session \in [Envs -> [given : BOOLEAN, seen : SUBSET (1 .. MaxRuns), conn : 0 .. MaxDrops]]
  /\ need \in [Envs -> BOOLEAN]
  /\ served \in [Envs -> [left : 0 .. ServedSteps - 1, of : 0 .. MaxRuns]]

(* What a client still has to play was asked for in this run, in a         *)
(* conversation that showed the server nothing of another, unless the      *)
(* reset between the runs failed; then a stale chunk really is played.     *)
PlaysOwnRun ==
  resetOk => \A e \in Envs :
    /\ chunk[e].cached => chunk[e].of = run /\ chunk[e].seen = {run}
    /\ ~need[e] => served[e].of = run

(* After a reconnection nothing is used that belongs to the connection     *)
(* before: chunks of pi0 and cosmos3, whose flush is meant for every       *)
(* environment of the batch, and ids of dreamzero.                         *)
OfThisConnection ==
  /\ kind = "flush" => \A e \in Envs : chunk[e].cached => chunk[e].conn = conn
  /\ kind = "session" => \A e \in Envs : session[e].given => session[e].conn = conn

(* The client sends an observation exactly when the server has run out of  *)
(* actions for that environment.  Only a failed reset can part the two,    *)
(* and only then is a server asked to go on with a chunk it does not hold. *)
AgreesWithServer ==
  /\ resetOk => \A e \in Envs : need[e] <=> served[e].left = 0
  /\ raised = "unserved" => ~resetOk
-------------------------------------------------------------------------------
(* dreamzero/client.py: after a reconnection "continuing with old session  *)
(* IDs would hand stale buffers to the model": an answer that comes over a *)
(* new connection was not asked for under an id used on an old one.        *)
RequestsKnowTheirSession ==
  [][\A e \in Envs :
       kind = "session" /\ session[e].seen # {} /\ NeedsRefresh(chunk[e]) /\ chunk'[e] # chunk[e] /\ run' = run
         => chunk'[e].conn = session[e].conn]_vars
===============================================================================
