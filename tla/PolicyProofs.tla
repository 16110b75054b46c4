----------------------------- MODULE PolicyProofs -----------------------------
(***************************************************************************)
(* Proofs about the policy clients in the step loop, for every batch,      *)
(* horizon, set of chunk lengths and number of retries, runs and drops.    *)
(***************************************************************************)
EXTENDS PolicyLoop, TLAPS

ChunkType ==
  [cached : BOOLEAN, size : Sizes \cup {0}, used : 0 .. Horizon,
   of : 0 .. MaxRuns, seen : SUBSET (1 .. MaxRuns), conn : 0 .. MaxDrops]
SessionType == [given : BOOLEAN, seen : SUBSET (1 .. MaxRuns), conn : 0 .. MaxDrops]
ServedType == [left : 0 .. ServedSteps - 1, of : 0 .. MaxRuns]

(* What each family leaves alone, and what a conversation has shown the    *)
(* server when the last reset went through.                                *)
FamiliesApart ==
  /\ kind = "served" => \A e \in Envs : ~chunk[e].cached
  /\ kind # "served" => \A e \in Envs : need[e] /\ served[e].left = 0
  /\ kind = "session" /\ resetOk => \A e \in Envs : session[e].seen \subseteq {run}

PolicyInv == TypeOK /\ FamiliesApart /\ PlaysOwnRun /\ OfThisConnection /\ AgreesWithServer

-------------------------------------------------------------------------------
(* The values that the variables start from and go back to.                *)
LEMMA StartTypes ==
  NoChunk \in ChunkType /\ NoSession \in SessionType /\ NothingServed \in ServedType
BY HorizonAssumption, LoopAssumption
   DEF NoChunk, NoSession, NothingServed, ChunkType, SessionType, ServedType

(* A chunk that needs no refresh is played within the horizon, and stays   *)
(* the chunk it was: _needs_refresh, _next_action.                         *)
LEMMA PlayedChunk ==
  ASSUME NEW c \in ChunkType, c.used < Horizon
  PROVE  /\ NextAction(c) \in ChunkType
         /\ NextAction(c).cached = c.cached /\ NextAction(c).of = c.of
         /\ NextAction(c).seen = c.seen /\ NextAction(c).conn = c.conn
<1>1. c.used \in 0 .. Horizon /\ Horizon \in Nat
  BY HorizonAssumption DEF ChunkType
<1>2. c.used + 1 \in 0 .. Horizon
  BY <1>1
<1> QED BY <1>2 DEF NextAction, HasNext, ChunkType

(* A new chunk: _set_chunk.                                                *)
LEMMA NewChunk ==
  ASSUME NEW size \in Sizes, NEW r \in 1 .. MaxRuns, NEW seen \in SUBSET (1 .. MaxRuns),
         NEW k \in 0 .. MaxDrops
  PROVE  /\ SetChunk(size, r, seen, k) \in ChunkType
         /\ SetChunk(size, r, seen, k).used < Horizon
         /\ SetChunk(size, r, seen, k).cached
         /\ SetChunk(size, r, seen, k).of = r
         /\ SetChunk(size, r, seen, k).seen = seen
         /\ SetChunk(size, r, seen, k).conn = k
BY HorizonAssumption, LoopAssumption DEF SetChunk, ChunkType

(* A conversation goes on, or is begun over the connection there is.       *)
LEMMA ShownSession ==
  ASSUME NEW e \in Envs, session \in [Envs -> SessionType], run \in 1 .. MaxRuns,
         conn \in 0 .. MaxDrops
  PROVE  /\ Minted(e) \in [Envs -> SessionType] /\ Shown(e) \in [Envs -> SessionType]
         /\ \A d \in Envs : /\ Minted(e)[d].given => session[d].given \/ d = e
                            /\ Minted(e)[d].conn \in {session[d].conn, conn}
                            /\ Minted(e)[d].conn # session[d].conn => ~session[d].given
                            /\ d = e /\ ~session[e].given => Minted(e)[d].conn = conn
                            /\ Minted(e)[d].seen \subseteq session[d].seen
                            /\ Shown(e)[d].given = Minted(e)[d].given
                            /\ Shown(e)[d].conn = Minted(e)[d].conn
                            /\ Shown(e)[d].seen \subseteq session[d].seen \cup {run}
         /\ run \in Shown(e)[e].seen
<1> DEFINE new == [given |-> TRUE, seen |-> {}, conn |-> conn]
<1>1. new \in SessionType
  BY DEF SessionType
<1>2. Minted(e) \in [Envs -> SessionType]
  BY <1>1 DEF Minted
<1>3. \A d \in Envs : Minted(e)[d] = IF d = e /\ ~session[e].given THEN new ELSE session[d]
  BY DEF Minted
<1>4. \A d \in Envs : Shown(e)[d] =
        IF d = e THEN [Minted(e)[e] EXCEPT !.seen = @ \cup {run}] ELSE Minted(e)[d]
  BY <1>2 DEF Shown
<1>5. [Minted(e)[e] EXCEPT !.seen = @ \cup {run}] \in SessionType
  BY <1>2 DEF SessionType
<1>6. Shown(e) \in [Envs -> SessionType]
  BY <1>2, <1>5 DEF Shown
<1>7. \A d \in Envs : Shown(e)[d].given = Minted(e)[d].given /\ Shown(e)[d].conn = Minted(e)[d].conn
                      /\ Shown(e)[d].seen = Minted(e)[d].seen \cup (IF d = e THEN {run} ELSE {})
  BY <1>2, <1>4 DEF SessionType
<1> QED BY <1>2, <1>3, <1>6, <1>7 DEF SessionType

(* The next action of chunks cs moves one counter and nothing else: the    *)
(* end of InferenceClient.infer.                                           *)
LEMMA PlayedChunks ==
  ASSUME NEW cs \in [Envs -> ChunkType], NEW e \in Envs, cs[e].used < Horizon, Play(e, cs)
  PROVE  /\ chunk' \in [Envs -> ChunkType]
         /\ \A d \in Envs : /\ chunk'[d].cached = cs[d].cached /\ chunk'[d].of = cs[d].of
                            /\ chunk'[d].seen = cs[d].seen /\ chunk'[d].conn = cs[d].conn
         /\ raised' \in {"no", "short"}
<1>1. chunk' = [cs EXCEPT ![e] = NextAction(cs[e])] /\ raised' \in {"no", "short"}
  BY DEF Play
<1>2. NextAction(cs[e]) \in ChunkType
  BY PlayedChunk
<1>3. \A d \in Envs : chunk'[d] = IF d = e THEN NextAction(cs[e]) ELSE cs[d]
  BY <1>1
<1> QED BY <1>1, <1>2, <1>3, PlayedChunk

-------------------------------------------------------------------------------
LEMMA InitInv == Init => PolicyInv
<1> SUFFICES ASSUME Init PROVE PolicyInv
  OBVIOUS
<1>1. TypeOK
  BY StartTypes, LoopAssumption DEF Init, TypeOK, ChunkType, SessionType, ServedType
<1>2. FamiliesApart /\ PlaysOwnRun /\ OfThisConnection /\ AgreesWithServer
  BY DEF Init, FamiliesApart, PlaysOwnRun, OfThisConnection, AgreesWithServer,
         NoChunk, NoSession, NothingServed
<1> QED BY <1>1, <1>2 DEF PolicyInv

(* The types, by their names.                                              *)
LEMMA Types ==
  ASSUME TypeOK
  PROVE  /\ kind \in Kinds /\ run \in 1 .. MaxRuns /\ tick \in 0 .. MaxSteps
         /\ active \subseteq Envs /\ asked \subseteq active
         /\ conn \in 0 .. MaxDrops /\ linked \in BOOLEAN
         /\ chunk \in [Envs -> ChunkType] /\ session \in [Envs -> SessionType]
         /\ need \in [Envs -> BOOLEAN] /\ served \in [Envs -> ServedType]
BY DEF TypeOK, ChunkType, SessionType, ServedType

LEMMA TypesNext ==
  ASSUME /\ kind' \in Kinds /\ run' \in 1 .. MaxRuns /\ tick' \in 0 .. MaxSteps
         /\ active' \subseteq Envs /\ asked' \subseteq active'
         /\ raised' \in {"no", "server", "short", "unserved"} /\ resetOk' \in BOOLEAN
         /\ conn' \in 0 .. MaxDrops /\ linked' \in BOOLEAN
         /\ chunk' \in [Envs -> ChunkType] /\ session' \in [Envs -> SessionType]
         /\ need' \in [Envs -> BOOLEAN] /\ served' \in [Envs -> ServedType]
  PROVE  TypeOK'
BY DEF TypeOK, ChunkType, SessionType, ServedType

(* The chunks after a step: kept as they were, or asked for in this run,   *)
(* over the connection there is now.                                       *)
ChunksStep ==
  /\ chunk' \in [Envs -> ChunkType]
  /\ \A d \in Envs : chunk'[d].cached =>
       \/ /\ chunk[d].cached /\ conn' = conn
          /\ chunk'[d].of = chunk[d].of /\ chunk'[d].seen = chunk[d].seen
          /\ chunk'[d].conn = chunk[d].conn
       \/ chunk'[d].of = run /\ chunk'[d].seen = {run} /\ chunk'[d].conn = conn'

(* _infer_with_retry of pi0 and cosmos3.                                   *)
LEMMA InferFlushInv ==
  ASSUME PolicyInv, NEW e \in Envs, InferFlush(e)
  PROVE  PolicyInv'
<1> USE DEF PolicyInv
<1> DEFINE Goal == ChunksStep /\ conn' \in 0 .. MaxDrops /\ raised' \in {"no", "server", "short"}
<1>1. /\ kind = "flush" /\ asked' = asked \cup {e} /\ e \in active
      /\ UNCHANGED <<kind, run, tick, active, resetOk, linked, session, need, served>>
  BY DEF InferFlush, Turn, loopVars, serverVars
<1>2. Goal
  <2>1. CASE ~NeedsRefresh(chunk[e]) /\ Play(e, chunk) /\ UNCHANGED conn
    <3>1. chunk[e].used < Horizon
      <4>1. chunk[e].used \in Nat /\ Horizon \in Nat
        BY Types, HorizonAssumption DEF ChunkType
      <4> QED BY <2>1, <4>1 DEF NeedsRefresh
    <3> QED BY <2>1, <3>1, Types, PlayedChunks DEF ChunksStep
  <2>2. CASE raised' = "server" /\ UNCHANGED <<chunk, conn>>
    BY <2>2, Types DEF ChunksStep
  <2>3. ASSUME NEW drops \in Drops \ {Retries}, NEW size \in Sizes, conn' = conn + drops,
               Play(e, [FlushedChunks(drops) EXCEPT ![e] = SetChunk(size, run, {run}, conn')])
        PROVE  Goal
    <3> DEFINE c == SetChunk(size, run, {run}, conn')
               cs == [FlushedChunks(drops) EXCEPT ![e] = c]
    <3>1. drops \in Nat /\ conn' \in 0 .. MaxDrops /\ (conn' = conn <=> drops = 0)
      BY <2>3, Types, LoopAssumption DEF Drops, Renewed
    <3>2. /\ c \in ChunkType /\ c.used < Horizon /\ c.cached
          /\ c.of = run /\ c.seen = {run} /\ c.conn = conn'
      BY <3>1, Types, NewChunk
    <3>3. FlushedChunks(drops) \in [Envs -> ChunkType]
      BY StartTypes, Types DEF FlushedChunks
    <3>4. cs \in [Envs -> ChunkType] /\ cs[e] = c /\ \A d \in Envs \ {e} : cs[d] = FlushedChunks(drops)[d]
      BY <3>2, <3>3
    <3>5. /\ chunk' \in [Envs -> ChunkType] /\ raised' \in {"no", "short"}
          /\ \A d \in Envs : /\ chunk'[d].cached = cs[d].cached /\ chunk'[d].of = cs[d].of
                             /\ chunk'[d].seen = cs[d].seen /\ chunk'[d].conn = cs[d].conn
      <4>1. Play(e, cs) /\ cs[e].used < Horizon
        BY <2>3, <3>2, <3>4
      <4> HIDE DEF c, cs
      <4> QED BY <3>4, <4>1, PlayedChunks
    <3>6. \A d \in Envs \ {e} : cs[d].cached => drops = 0 /\ cs[d] = chunk[d]
      BY <3>4 DEF FlushedChunks, NoChunk
    <3> HIDE DEF c, cs
    <3> QED BY <3>1, <3>2, <3>4, <3>5, <3>6 DEF ChunksStep
  <2> QED BY <2>1, <2>2, <2>3 DEF InferFlush
<1>3. TypeOK'
  BY <1>1, <1>2, Types, TypesNext DEF TypeOK, ChunksStep
<1>4. FamiliesApart'
  BY <1>1 DEF FamiliesApart
<1>5. PlaysOwnRun'
  BY <1>1, <1>2 DEF PlaysOwnRun, FamiliesApart, ChunksStep
<1>6. OfThisConnection'
  BY <1>1, <1>2 DEF OfThisConnection, ChunksStep
<1>7. AgreesWithServer'
  BY <1>1, <1>2 DEF AgreesWithServer
<1> QED BY <1>3, <1>4, <1>5, <1>6, <1>7

(* infer of dreamzero.                                                     *)
LEMMA InferSessionInv ==
  ASSUME PolicyInv, NEW e \in Envs, InferSession(e)
  PROVE  PolicyInv'
<1> USE DEF PolicyInv
<1> DEFINE Chunks == /\ chunk' \in [Envs -> ChunkType]
                     /\ \A d \in Envs : chunk'[d].cached =>
                          \/ /\ chunk[d].cached
                             /\ chunk'[d].of = chunk[d].of /\ chunk'[d].seen = chunk[d].seen
                          \/ chunk'[d].of = run /\ (resetOk => chunk'[d].seen = {run})
           Sessions == /\ session' \in [Envs -> SessionType]
                       /\ \A d \in Envs : /\ session'[d].given => session'[d].conn = conn'
                                          /\ resetOk => session'[d].seen \subseteq {run}
           Links == /\ conn' \in 0 .. MaxDrops /\ linked' \in BOOLEAN
                    /\ raised' \in {"no", "server", "short"}
<1>1. /\ kind = "session" /\ asked' = asked \cup {e} /\ e \in active
      /\ UNCHANGED <<kind, run, tick, active, resetOk, need, served>>
  BY DEF InferSession, Turn, loopVars, serverVars
<1>2. \A d \in Envs : /\ session[d].given => session[d].conn = conn
                      /\ resetOk => session[d].seen \subseteq {run}
  BY <1>1 DEF OfThisConnection, FamiliesApart
<1>3. Chunks /\ Sessions /\ Links
  <2>1. CASE ~NeedsRefresh(chunk[e]) /\ Play(e, chunk) /\ session' = Minted(e) /\ UNCHANGED linkVars
    <3>1. chunk[e].used < Horizon
      <4>1. chunk[e].used \in Nat /\ Horizon \in Nat
        BY Types, HorizonAssumption DEF ChunkType
      <4> QED BY <2>1, <4>1 DEF NeedsRefresh
    <3>2. Chunks /\ Links
      BY <2>1, <3>1, Types, PlayedChunks DEF linkVars
    <3>3. Sessions
      <4>1. session' = Minted(e) /\ conn' = conn /\ Minted(e) \in [Envs -> SessionType]
        BY <2>1, Types, ShownSession DEF linkVars
      <4>2. ASSUME NEW d \in Envs
            PROVE  /\ Minted(e)[d].given => Minted(e)[d].conn = conn
                   /\ resetOk => Minted(e)[d].seen \subseteq {run}
        <5>1. /\ Minted(e)[d].given => session[d].given \/ d = e
              /\ Minted(e)[d].conn # session[d].conn => ~session[d].given
              /\ d = e /\ ~session[e].given => Minted(e)[d].conn = conn
              /\ Minted(e)[d].seen \subseteq session[d].seen
          BY Types, ShownSession
        <5>2. /\ session[d].given => session[d].conn = conn
              /\ resetOk => session[d].seen \subseteq {run}
          BY <1>2
        <5> QED BY <5>1, <5>2
      <4> QED BY <4>1, <4>2
    <3> QED BY <3>2, <3>3
  <2>2. CASE raised' = "server" /\ UNCHANGED <<linkVars, chunk, session>>
    BY <1>2, <2>2, Types DEF linkVars
  <2>3. ASSUME NEW drops \in Drops \ {Retries}, NEW size \in Sizes,
               conn' = conn + Renewed + drops, linked' = TRUE,
               session' = SessionsAfter(e, conn' > conn),
               Play(e, [chunk EXCEPT ![e] = SetChunk(size, run, Shown(e)[e].seen, conn')])
        PROVE  Chunks /\ Sessions /\ Links
    <3> DEFINE c == SetChunk(size, run, Shown(e)[e].seen, conn')
               cs == [chunk EXCEPT ![e] = c]
    <3>1. drops \in Nat /\ Renewed \in Nat /\ conn' \in 0 .. MaxDrops /\ conn \in Nat
      BY <2>3, Types, LoopAssumption DEF Drops, Renewed
    <3>2. Shown(e)[e].seen \in SUBSET (1 .. MaxRuns) /\ (resetOk => Shown(e)[e].seen = {run})
      BY <1>2, Types, ShownSession DEF SessionType
    <3>3. c \in ChunkType /\ c.used < Horizon /\ c.of = run /\ (resetOk => c.seen = {run})
      BY <3>1, <3>2, Types, NewChunk
    <3>4. cs \in [Envs -> ChunkType] /\ cs[e] = c /\ \A d \in Envs \ {e} : cs[d] = chunk[d]
      BY <3>3, Types
    <3>5. Play(e, cs)
      BY <2>3
    <3>6. Chunks /\ raised' \in {"no", "short"}
      <4> HIDE DEF c, cs
      <4>1. cs[e].used < Horizon
        BY <3>3, <3>4
      <4> QED BY <3>3, <3>4, <3>5, <4>1, PlayedChunks
    <3>7. Sessions
      <4>1. CASE conn' > conn
        BY <2>3, <4>1, StartTypes DEF SessionsAfter, NoSession
      <4>2. CASE ~(conn' > conn)
        <5>1. conn' = conn /\ session' = Shown(e)
          BY <2>3, <3>1, <4>2 DEF SessionsAfter
        <5> QED BY <1>2, <5>1, Types, ShownSession
      <4> QED BY <4>1, <4>2
    <3> QED BY <2>3, <3>1, <3>6, <3>7
  <2> HIDE DEF Chunks, Sessions, Links
  <2> QED BY <2>1, <2>2, <2>3 DEF InferSession
<1>4. TypeOK'
  BY <1>1, <1>3, Types, TypesNext DEF TypeOK
<1>5. FamiliesApart'
  BY <1>1, <1>3 DEF FamiliesApart
<1>6. PlaysOwnRun'
  BY <1>1, <1>3 DEF PlaysOwnRun, FamiliesApart
<1>7. OfThisConnection'
  BY <1>1, <1>3 DEF OfThisConnection
<1>8. AgreesWithServer'
  BY <1>1, <1>3 DEF AgreesWithServer
<1> QED BY <1>4, <1>5, <1>6, <1>7, <1>8

(* infer of g05_droid.                                                     *)
LEMMA InferServedInv ==
  ASSUME PolicyInv, NEW e \in Envs, InferServed(e)
  PROVE  PolicyInv'
<1> USE DEF PolicyInv
<1>1. /\ kind = "served" /\ asked' = asked \cup {e} /\ e \in active
      /\ UNCHANGED <<kind, run, tick, active, resetOk, conn, linked, chunk, session>>
  BY DEF InferServed, Turn, loopVars, linkVars
<1> DEFINE Server == /\ served' \in [Envs -> ServedType] /\ need' \in [Envs -> BOOLEAN]
                     /\ resetOk => \A d \in Envs : /\ need'[d] <=> served'[d].left = 0
                                                   /\ ~need'[d] => served'[d].of = run
                     /\ raised' \in {"no", "server", "unserved"}
                     /\ raised' = "unserved" => ~resetOk
<1>2. /\ served \in [Envs -> ServedType] /\ need \in [Envs -> BOOLEAN]
      /\ resetOk => \A d \in Envs : /\ need[d] <=> served[d].left = 0
                                    /\ ~need[d] => served[d].of = run
  BY Types DEF AgreesWithServer, PlaysOwnRun
<1>3. Server
  <2>1. CASE /\ need[e] \/ served[e].left > 0
             /\ served' = [served EXCEPT ![e] = ServedAfter(e)]
             /\ need' = [need EXCEPT ![e] = NeedsAfter(ServedAfter(e).left)]
             /\ raised' = "no"
    <3>1. served[e].left \in 0 .. ServedSteps - 1 /\ ServedSteps \in Nat \ {0}
      BY Types, LoopAssumption DEF ServedType
    <3>2. ServedAfter(e) \in ServedType
      BY <2>1, <3>1, Types, LoopAssumption DEF ServedAfter, ServedType
    <3>3. resetOk /\ ServedAfter(e).left # 0 => ServedAfter(e).of = run
      BY <1>2 DEF ServedAfter, ServedType
    <3> QED BY <1>2, <2>1, <3>2, <3>3 DEF NeedsAfter
  <2>2. CASE /\ raised' = IF need[e] \/ served[e].left > 0 THEN "server" ELSE "unserved"
             /\ UNCHANGED <<need, served>>
    <3>1. served[e].left \in Nat
      BY Types, LoopAssumption DEF ServedType
    <3> QED BY <1>2, <2>2, <3>1
  <2> HIDE DEF Server
  <2> QED BY <2>1, <2>2 DEF InferServed, serverVars
<1>4. TypeOK'
  BY <1>1, <1>3, Types, TypesNext DEF TypeOK
<1>5. FamiliesApart'
  BY <1>1 DEF FamiliesApart
<1>6. PlaysOwnRun'
  BY <1>1, <1>3 DEF PlaysOwnRun, FamiliesApart
<1>7. OfThisConnection'
  BY <1>1 DEF OfThisConnection
<1>8. AgreesWithServer'
  BY <1>1, <1>3 DEF AgreesWithServer
<1> QED BY <1>4, <1>5, <1>6, <1>7, <1>8

LEMMA StepBatchInv ==
  ASSUME PolicyInv, StepBatch
  PROVE  PolicyInv'
<1> USE DEF PolicyInv
<1>1. /\ active' \in SUBSET active /\ tick' = tick + 1 /\ tick < MaxSteps /\ asked' = {}
      /\ UNCHANGED <<kind, run, raised, resetOk, conn, linked, chunk, session, need, served>>
  BY DEF StepBatch, linkVars, serverVars
<1>2. tick' \in 0 .. MaxSteps
  BY <1>1, Types, LoopAssumption
<1>3. TypeOK'
  BY <1>1, <1>2, Types, TypesNext DEF TypeOK
<1> QED BY <1>1, <1>3 DEF FamiliesApart, PlaysOwnRun, OfThisConnection, AgreesWithServer

(* The client is reset between two runs.                                   *)
LEMMA NextRunInv ==
  ASSUME PolicyInv, NextRun
  PROVE  PolicyInv'
<1> USE DEF PolicyInv
<1>1. /\ raised = "no" /\ run' = run + 1 /\ run < MaxRuns /\ tick' = 0 /\ active' = Envs
      /\ asked' \subseteq active' /\ UNCHANGED <<kind, raised>>
  BY Types DEF NextRun
<1>2. run' \in 1 .. MaxRuns /\ tick' \in 0 .. MaxSteps
  BY <1>1, Types, LoopAssumption
<1>3. CASE ResetFlush
  <2>1. /\ kind = "flush" /\ chunk' = [d \in Envs |-> NoChunk] /\ resetOk'
        /\ UNCHANGED <<conn, linked, session, need, served>>
    BY <1>3 DEF ResetFlush, ResetChunks, linkVars, serverVars
  <2>2. TypeOK'
    BY <1>1, <1>2, <1>3, <2>1, Types, StartTypes, TypesNext DEF TypeOK, ResetFlush
  <2> QED BY <1>1, <2>1, <2>2
          DEF FamiliesApart, PlaysOwnRun, OfThisConnection, AgreesWithServer, NoChunk
<1>4. CASE ResetSession
  <2>1. /\ kind = "session" /\ resetOk' \in BOOLEAN /\ linked' \in BOOLEAN
        /\ UNCHANGED <<need, served>>
    BY <1>4 DEF ResetSession, serverVars
  <2>2. /\ conn' \in 0 .. MaxDrops
        /\ resetOk' => /\ chunk' = [d \in Envs |-> NoChunk]
                       /\ session' = [d \in Envs |-> NoSession]
        /\ ~resetOk' => /\ chunk' = chunk
                        /\ \/ conn' = conn /\ session' = session
                           \/ session' = [d \in Envs |-> NoSession]
    <3>1. CASE /\ chunk' = ResetChunks /\ session' = [d \in Envs |-> NoSession] /\ resetOk' = TRUE
               /\ \E drops \in Drops \ {Retries} : conn' = conn + Renewed + drops
      <4>1. conn' \in 0 .. MaxDrops
        BY <3>1, Types, LoopAssumption DEF Drops, Renewed
      <4> QED BY <3>1, <4>1 DEF ResetChunks
    <3>2. CASE resetOk' = FALSE /\ UNCHANGED <<chunk, conn, session>>
      BY <3>2, Types
    <3>3. CASE /\ resetOk' = FALSE /\ UNCHANGED chunk
               /\ conn + 1 < MaxDrops /\ conn' = conn + 1
               /\ session' = [d \in Envs |-> NoSession]
      BY <3>3, Types, LoopAssumption
    <3> QED BY <1>4, <3>1, <3>2, <3>3 DEF ResetSession
  <2>3. chunk' \in [Envs -> ChunkType] /\ session' \in [Envs -> SessionType]
    BY <2>1, <2>2, Types, StartTypes
  <2>4. TypeOK'
    BY <1>1, <1>2, <2>1, <2>2, <2>3, Types, TypesNext DEF TypeOK
  <2> QED BY <1>1, <2>1, <2>2, <2>4
          DEF FamiliesApart, PlaysOwnRun, OfThisConnection, AgreesWithServer, NoChunk, NoSession
<1>5. CASE ResetServed
  <2>1. /\ kind = "served" /\ resetOk' \in BOOLEAN
        /\ UNCHANGED <<conn, linked, chunk, session>>
    BY <1>5 DEF ResetServed, linkVars
  <2>2. /\ served' \in [Envs -> ServedType] /\ need' \in [Envs -> BOOLEAN]
        /\ resetOk' => \A d \in Envs : need'[d] /\ served'[d].left = 0
    <3>1. CASE /\ served' = [d \in Envs |-> NothingServed] /\ need' = [d \in Envs |-> TRUE]
      BY <3>1, StartTypes DEF NothingServed
    <3>2. ASSUME NEW failing \in Envs,
                 served' = [d \in Envs |-> IF d < failing THEN NothingServed ELSE served[d]],
                 resetOk' = FALSE, need' = need
          PROVE  served' \in [Envs -> ServedType] /\ need' \in [Envs -> BOOLEAN] /\ ~resetOk'
      BY <3>2, Types, StartTypes
    <3> QED BY <1>5, <3>1, <3>2 DEF ResetServed
  <2>3. TypeOK'
    BY <1>1, <1>2, <2>1, <2>2, Types, TypesNext DEF TypeOK
  <2> QED BY <1>1, <2>1, <2>2, <2>3
          DEF FamiliesApart, PlaysOwnRun, OfThisConnection, AgreesWithServer
<1> QED BY <1>3, <1>4, <1>5 DEF NextRun

LEMMA NextInv == PolicyInv /\ [Next]_vars => PolicyInv'
<1> SUFFICES ASSUME PolicyInv, [Next]_vars PROVE PolicyInv'
  OBVIOUS
<1>1. CASE Next
  BY <1>1, InferFlushInv, InferSessionInv, InferServedInv, StepBatchInv, NextRunInv DEF Next
<1>2. CASE UNCHANGED vars
  BY <1>2 DEF vars, loopVars, linkVars, serverVars, PolicyInv, TypeOK, FamiliesApart,
              PlaysOwnRun, OfThisConnection, AgreesWithServer
<1> QED BY <1>1, <1>2

-------------------------------------------------------------------------------
(* The inductive invariant of the step loop.                               *)
THEOREM PolicyInvariant == Spec => []PolicyInv
BY InitInv, NextInv, PTL DEF Spec

(* The clients' variables keep their types; in particular no chunk is      *)
(* played past open_loop_horizon (base_client.py: _needs_refresh).         *)
THEOREM PolicyTypes == Spec => []TypeOK
<1>1. PolicyInv => TypeOK
  BY DEF PolicyInv
<1> QED BY <1>1, PolicyInvariant, PTL

(* What is played was asked for in this run, unless client.reset() failed. *)
THEOREM PlaysOwnRunAlways == Spec => []PlaysOwnRun
<1>1. PolicyInv => PlaysOwnRun
  BY DEF PolicyInv
<1> QED BY <1>1, PolicyInvariant, PTL

(* No chunk of pi0 and cosmos3 and no id of dreamzero outlives the         *)
(* connection it belongs to.                                               *)
THEOREM ConnectionsApart == Spec => []OfThisConnection
<1>1. PolicyInv => OfThisConnection
  BY DEF PolicyInv
<1> QED BY <1>1, PolicyInvariant, PTL

(* The flags of g05_droid agree with what its server holds, unless         *)
(* client.reset() failed.                                                  *)
THEOREM FlagsAgree == Spec => []AgreesWithServer
<1>1. PolicyInv => AgreesWithServer
  BY DEF PolicyInv
<1> QED BY <1>1, PolicyInvariant, PTL
===============================================================================
