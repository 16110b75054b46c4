----------------------------- MODULE BatchProofs -----------------------------
(***************************************************************************)
(* Proofs about the batch of environments and the demos of its runs, for   *)
(* every set of environments, episode length, flush interval, cap of early *)
(* resets and number of runs and deaths.                                   *)
(***************************************************************************)
EXTENDS EpisodeBatch, SequenceTheorems, SumTheorems

Stamps == Nat \X Nat
DemoType == [samples : Seq(Stamps), success : Flags]

(* The types of what the demos are made of.                                *)
BatchTypes ==
  /\ tick \in Nat /\ execution \in Nat
  /\ len \in [Envs -> Nat] /\ early \in [Envs -> Nat]
  /\ frozen \subseteq Envs /\ armed \subseteq Envs
  /\ stopped \in [Envs -> Nat]
  /\ buf \in [Envs -> Seq(Stamps)] /\ demo \in [Envs -> DemoType]

-------------------------------------------------------------------------------
(* A step of the batch: what it resets, freezes and saves.                 *)
LEMMA StepParts ==
  ASSUME Step
  PROVE  \E v \in [Envs -> SUBSET {"success", "target_lost"}], tried, again \in SUBSET Envs,
            stops \in SUBSET Envs, saved \in SUBSET Envs :
           /\ again \cup stops = Ending(v) /\ again \cap stops = {} /\ saved \subseteq stops
           /\ saved \subseteq tried /\ tried \subseteq stops
           /\ \A e \in again : TooSoon(e)
           /\ ResetIdx(v, again, stops, tried) /\ Record(v, saved)
<1>1. PICK v \in [Envs -> SUBSET {"success", "target_lost"}] :
        LET again == {e \in Ending(v) : TooSoon(e)}
            stops == Ending(v) \ again
            pending == {e \in stops : e \in armed \cup streaming \cup Due}
        IN  \E failed \in SUBSET (IF ExportMayFail THEN pending ELSE {}) :
              /\ \E tried \in {pending, pending \ failed} : ResetIdx(v, again, stops, tried)
              /\ Record(v, pending \ failed)
  BY DEF Step
<1> DEFINE again == {e \in Ending(v) : TooSoon(e)}
           stops == Ending(v) \ again
           pending == {e \in stops : e \in armed \cup streaming \cup Due}
<1>2. PICK failed \in SUBSET (IF ExportMayFail THEN pending ELSE {}) :
        /\ \E tried \in {pending, pending \ failed} : ResetIdx(v, again, stops, tried)
        /\ Record(v, pending \ failed)
  BY <1>1
<1>3. PICK tried \in {pending, pending \ failed} : ResetIdx(v, again, stops, tried)
  BY <1>2
<1>4. again \subseteq Envs /\ again \cup stops = Ending(v) /\ again \cap stops = {}
      /\ stops \subseteq Envs /\ pending \ failed \subseteq stops
      /\ \A e \in again : TooSoon(e)
      /\ pending \ failed \subseteq tried /\ tried \subseteq stops
  BY DEF Ending
<1> QED BY <1>2, <1>3, <1>4

LEMMA StepLoop ==
  ASSUME Step
  PROVE  /\ phase = "stepping" /\ tick' = tick + 1 /\ UNCHANGED <<run, execution, carried>>
         /\ phase' = IF frozen' = Envs \/ tick' = MaxSteps THEN "done" ELSE "stepping"
BY DEF Step

(* What is written of a running environment is a sequence.                 *)
LEMMA WrittenTypes ==
  ASSUME BatchTypes, NEW e \in Envs
  PROVE  Buffered(e) \in Seq(Stamps) /\ Written(e) \in Seq(Stamps)
<1>1. <<execution, tick + 1>> \in Stamps /\ buf[e] \in Seq(Stamps)
  BY DEF Stamps, BatchTypes
<1>2. Buffered(e) \in Seq(Stamps)
  BY <1>1, AppendProperties DEF Buffered
<1>3. (IF e \in open THEN demo[e].samples ELSE <<>>) \in Seq(Stamps)
  BY DEF BatchTypes, DemoType
<1> QED BY <1>2, <1>3, ConcatProperties DEF Written

LEMMA TypesInit == Init => BatchTypes
BY DEF Init, BatchTypes, NoDemo, DemoType, Flags

LEMMA TypesNext == BatchTypes /\ [Next]_vars => BatchTypes'
<1> SUFFICES ASSUME BatchTypes, [Next]_vars PROVE BatchTypes'
  OBVIOUS
<1> USE DEF BatchTypes
<1>0. NoDemo \in DemoType /\ <<>> \in Seq(Stamps)
  BY DEF NoDemo, DemoType, Flags
<1>1. CASE Step
  <2>1. PICK v \in [Envs -> SUBSET {"success", "target_lost"}], tried, again \in SUBSET Envs,
             stops \in SUBSET Envs, saved \in SUBSET Envs :
               ResetIdx(v, again, stops, tried) /\ Record(v, saved)
    BY <1>1, StepParts
  <2>2. tick' \in Nat /\ execution' \in Nat
    BY <1>1, StepLoop
  <2>3. /\ len' \in [Envs -> Nat] /\ early' \in [Envs -> Nat]
        /\ frozen' \subseteq Envs /\ stopped' \in [Envs -> Nat]
    BY <2>1 DEF ResetIdx
  <2>4. armed' \subseteq Envs
    BY <2>1 DEF Record
  <2>5. buf' \in [Envs -> Seq(Stamps)]
    BY <1>0, <2>1, WrittenTypes DEF Record
  <2>6. demo' \in [Envs -> DemoType]
    <3>1. \A e \in Envs : DemoFlag(Terms(v, e)) \in Flags
      BY DEF DemoFlag, Flags
    <3>2. \A e \in Envs : [samples |-> Written(e), success |-> DemoFlag(Terms(v, e))] \in DemoType
      BY <3>1, WrittenTypes DEF DemoType
    <3>3. \A e \in Envs : [samples |-> Written(e), success |-> "open"] \in DemoType
      BY WrittenTypes DEF DemoType, Flags
    <3> QED BY <2>1, <3>2, <3>3 DEF Record
  <2> QED BY <2>2, <2>3, <2>4, <2>5, <2>6
<1>2. CASE StartRun
  BY <1>2 DEF StartRun
<1>3. CASE NextRun
  BY <1>0, <1>3 DEF NextRun, ClearEvalState
<1>4. CASE Crash
  BY <1>0, <1>4 DEF Crash, ClearEvalState
<1>5. CASE UNCHANGED vars
  BY <1>5 DEF vars, loopVars, envVars, recVars, fileVars
<1> QED BY <1>1, <1>2, <1>3, <1>4, <1>5 DEF Next

-------------------------------------------------------------------------------
(* The clock of an environment that was never re-reset is the loop's.      *)
EndsInv ==
  /\ phase = "stepping" =>
       tick < MaxSteps /\ \A e \in Envs \ frozen : early[e] = 0 => len[e] = tick
  /\ EveryEpisodeEnds

LEMMA EndsNext ==
  ASSUME BatchTypes, EndsInv, [Next]_vars
  PROVE  EndsInv'
<1>1. CASE Step
  <2>1. PICK v \in [Envs -> SUBSET {"success", "target_lost"}], tried, again \in SUBSET Envs,
             stops \in SUBSET Envs, saved \in SUBSET Envs :
               /\ again \cup stops = Ending(v) /\ again \cap stops = {}
               /\ ResetIdx(v, again, stops, tried)
    BY <1>1, StepParts
  <2>2. /\ frozen' = frozen \cup stops
        /\ early' = [e \in Envs |-> IF e \in again THEN early[e] + 1 ELSE early[e]]
        /\ len' = [e \in Envs |-> IF e \in again THEN 0 ELSE len[e] + 1]
    BY <2>1 DEF ResetIdx
  <2>3. /\ phase = "stepping" /\ tick' = tick + 1 /\ tick < MaxSteps /\ MaxSteps \in Nat
        /\ phase' = IF frozen' = Envs \/ tick' = MaxSteps THEN "done" ELSE "stepping"
    BY <1>1, StepLoop, BoundAssumption DEF EndsInv
  <2>4. ASSUME NEW e \in Envs \ frozen', ~(early'[e] > 0)
        PROVE  e \notin Ending(v) /\ len[e] = tick /\ len'[e] = tick + 1
    <3>1. early[e] \in Nat /\ len[e] \in Nat /\ e \in Envs \ frozen
      BY <2>2 DEF BatchTypes
    <3>2. e \notin again /\ e \notin stops /\ early[e] = 0
      BY <2>2, <2>4, <3>1
    <3> QED BY <2>1, <2>2, <2>3, <3>1, <3>2 DEF EndsInv
  <2>5. ASSUME NEW e \in Envs \ frozen', ~(early'[e] > 0) PROVE tick + 1 < MaxSteps
    <3>1. Terms(v, e) = {}
      BY <2>2, <2>4, <2>5 DEF Ending
    <3>2. ~(len[e] + 1 >= MaxSteps)
      BY <3>1 DEF Terms
    <3> QED BY <2>3, <2>4, <2>5, <3>2 DEF BatchTypes
  <2>6. tick' < MaxSteps \/ tick' = MaxSteps
    BY <2>3 DEF BatchTypes
  <2>7. EveryEpisodeEnds'
    <3>1. ASSUME phase' = "done", NEW e \in Envs \ frozen' PROVE early'[e] > 0
      <4>1. tick' = MaxSteps
        BY <2>3, <3>1
      <4> QED BY <2>3, <2>5, <3>1, <4>1
    <3> QED BY <3>1 DEF EveryEpisodeEnds
  <2> QED BY <2>2, <2>3, <2>4, <2>6, <2>7 DEF EndsInv, BatchTypes
<1>2. CASE StartRun
  BY <1>2, BoundAssumption DEF StartRun, EndsInv, EveryEpisodeEnds
<1>3. CASE NextRun \/ Crash
  BY <1>3 DEF NextRun, Crash, EndsInv, EveryEpisodeEnds
<1>4. CASE UNCHANGED vars
  BY <1>4 DEF vars, loopVars, envVars, EndsInv, EveryEpisodeEnds
<1> QED BY <1>1, <1>2, <1>3, <1>4 DEF Next

(* The loop of run_episode is as long as the longest episode, so that      *)
(* every environment has frozen when it ends, unless it was re-reset       *)
(* (episode.py: the step loop; env.py: _reset_idx).                        *)
THEOREM EpisodesEnd == Spec => []EveryEpisodeEnds
<1>1. Init => BatchTypes /\ EndsInv
  <2>1. Init => EndsInv
    BY DEF Init, EndsInv, EveryEpisodeEnds
  <2> QED BY <2>1, TypesInit
<1>2. BatchTypes /\ EndsInv /\ [Next]_vars => (BatchTypes /\ EndsInv)'
  BY TypesNext, EndsNext
<1>3. EndsInv => EveryEpisodeEnds
  BY DEF EndsInv
<1> QED BY <1>1, <1>2, <1>3, PTL DEF Spec

-------------------------------------------------------------------------------
(* What an environment has recorded and not finished: what of its demo is  *)
(* in the file, and its buffer.                                            *)
Held(e) == (IF e \in open THEN demo[e].samples ELSE <<>>) \o buf[e]
Trace(x, n) == [i \in 1 .. n |-> <<x, i>>]

(* An environment has what the loop has stepped so far until it freezes;   *)
(* it gives up its episode index only with its buffer.                     *)
DemoInv ==
  /\ phase = "idle" =>
       frozen = {} /\ open = {} /\ \A e \in Envs \ carried : buf[e] = <<>>
  /\ phase # "idle" =>
       /\ \A e \in Envs \ armed : e \in frozen /\ buf[e] = <<>>
       /\ \A e \in Envs \ (carried \cup frozen) : Held(e) = Trace(execution, tick)
  /\ DemoIsWholeRun /\ FlagMissesNoSuccess

LEMMA TraceOf ==
  ASSUME NEW x \in Nat, NEW n \in Nat
  PROVE  /\ Trace(x, 0) = <<>> /\ Trace(x, n) \in Seq(Stamps)
         /\ Append(Trace(x, n), <<x, n + 1>>) = Trace(x, n + 1)
<1>1. Trace(x, n) \in [1 .. n -> Stamps]
  BY DEF Trace, Stamps
<1>2. Trace(x, n) \in Seq(Stamps) /\ Len(Trace(x, n)) = n
  BY <1>1
<1>3. Trace(x, 0) = <<>>
  BY DEF Trace
<1>4. <<x, n + 1>> \in Stamps
  BY DEF Stamps
<1> DEFINE s == Append(Trace(x, n), <<x, n + 1>>)
<1>5. /\ s \in Seq(Stamps) /\ Len(s) = n + 1 /\ s[n + 1] = <<x, n + 1>>
      /\ \A i \in 1 .. n : s[i] = Trace(x, n)[i]
  BY <1>2, <1>4, AppendProperties
<1>6. s = [i \in 1 .. n + 1 |-> s[i]]
  <2> HIDE DEF s
  <2> QED BY <1>5, LenProperties
<1>7. \A i \in 1 .. n + 1 : s[i] = <<x, i>>
  <2> HIDE DEF s
  <2> QED BY <1>5 DEF Trace
<1> HIDE DEF s
<1>8. s = Trace(x, n + 1)
  BY <1>6, <1>7 DEF Trace
<1> QED BY <1>2, <1>3, <1>8 DEF s

LEMMA ConcatAppend ==
  ASSUME NEW S, NEW s \in Seq(S), NEW t \in Seq(S), NEW x \in S
  PROVE  s \o Append(t, x) = Append(s \o t, x)
<1>1. <<x>> \in Seq(S) /\ s \o t \in Seq(S)
  BY ConcatProperties
<1>2. Append(t, x) = t \o <<x>> /\ Append(s \o t, x) = (s \o t) \o <<x>>
  BY <1>1, AppendIsConcat
<1>3. (s \o t) \o <<x>> = s \o (t \o <<x>>)
  BY <1>1, ConcatAssociative
<1> QED BY <1>2, <1>3

(* What is written of a running environment is what it had and one more.   *)
LEMMA WrittenHeld ==
  ASSUME BatchTypes, NEW e \in Envs \ frozen
  PROVE  /\ Written(e) = Append(Held(e), <<execution, tick + 1>>)
         /\ Buffered(e) = Append(buf[e], <<execution, tick + 1>>)
<1> DEFINE file == IF e \in open THEN demo[e].samples ELSE <<>>
           new == <<execution, tick + 1>>
<1>1. new \in Stamps /\ buf[e] \in Seq(Stamps) /\ file \in Seq(Stamps)
  BY DEF Stamps, BatchTypes, DemoType
<1>2. Buffered(e) = Append(buf[e], new)
  BY DEF Buffered, Recording
<1>3. Written(e) = file \o Append(buf[e], new) /\ Held(e) = file \o buf[e]
  BY <1>2 DEF Written, Held
<1> HIDE DEF file, new
<1>4. file \o Append(buf[e], new) = Append(file \o buf[e], new)
  BY <1>1, ConcatAppend
<1> QED BY <1>2, <1>3, <1>4 DEF new

LEMMA DemoStep ==
  ASSUME BatchTypes, DemoInv, Step
  PROVE  DemoInv'
<1>1. PICK v \in [Envs -> SUBSET {"success", "target_lost"}], tried, again \in SUBSET Envs,
           stops \in SUBSET Envs, saved \in SUBSET Envs :
             /\ again \cup stops = Ending(v) /\ saved \subseteq stops
             /\ ResetIdx(v, again, stops, tried) /\ Record(v, saved)
  BY StepParts
<1>2. /\ phase # "idle" /\ phase' # "idle" /\ tick' = tick + 1 /\ tick \in Nat /\ execution \in Nat
      /\ execution' = execution /\ carried' = carried
  BY StepLoop DEF BatchTypes
<1>3. stops \cap frozen = {} /\ saved \cap frozen = {} /\ Due \cap frozen = {}
  BY <1>1 DEF Ending, Due, Recording
<1>4. /\ frozen' = frozen \cup stops
      /\ result' = [e \in Envs |->
           IF e \in stops THEN [success |-> "success" \in Terms(v, e), step |-> len[e] + 1]
           ELSE result[e]]
      /\ stopped' = [e \in Envs |-> IF e \in stops THEN tick + 1 ELSE stopped[e]]
  BY <1>1 DEF ResetIdx
<1>5. /\ buf' = [e \in Envs |-> IF e \in Due \cup saved THEN <<>> ELSE Buffered(e)]
      /\ demo' = [e \in Envs |->
           IF e \in saved THEN [samples |-> Written(e), success |-> DemoFlag(Terms(v, e))]
           ELSE IF e \in Due THEN [samples |-> Written(e), success |-> "open"]
           ELSE demo[e]]
      /\ open' = (open \cup Due) \ saved /\ armed' = armed \ saved
  BY <1>1 DEF Record
<1>6. \A e \in Envs \ armed : e \in frozen /\ buf[e] = <<>>
  BY <1>2 DEF DemoInv
<1>7. \A e \in Envs \ armed' : e \in frozen' /\ buf'[e] = <<>>
  <2>1. ASSUME NEW e \in Envs \ armed, e \notin saved PROVE e \in frozen' /\ buf'[e] = <<>>
    <3>1. e \in frozen /\ buf[e] = <<>> /\ e \notin Due
      BY <1>3, <1>6, <2>1
    <3>2. Buffered(e) = buf[e]
      BY <3>1 DEF Buffered, Recording
    <3> QED BY <1>4, <1>5, <2>1, <3>1, <3>2
  <2>2. \A e \in saved : e \in frozen' /\ buf'[e] = <<>>
    BY <1>1, <1>4, <1>5
  <2> QED BY <1>5, <2>1, <2>2
<1>8. \A e \in Envs \ (carried \cup frozen) : Written(e) = Trace(execution, tick + 1)
  BY <1>2, WrittenHeld, TraceOf DEF DemoInv
<1>9. ASSUME NEW e \in Envs \ (carried \cup frozen') PROVE Held(e)' = Trace(execution, tick + 1)
  <2>1. e \notin frozen /\ e \notin stops /\ e \notin saved
    BY <1>1, <1>4
  <2>2. CASE e \in Due
    <3>1. e \in open' /\ demo'[e].samples = Written(e) /\ buf'[e] = <<>>
      BY <1>5, <2>1, <2>2
    <3>2. Held(e)' = Written(e) \o <<>>
      BY <3>1 DEF Held
    <3>3. Written(e) \in Seq(Stamps)
      BY WrittenTypes
    <3> QED BY <1>8, <2>1, <3>2, <3>3, ConcatEmptySeq
  <2>3. CASE e \notin Due
    <3>1. (e \in open' <=> e \in open) /\ demo'[e] = demo[e] /\ buf'[e] = Buffered(e)
      BY <1>5, <2>1, <2>3
    <3>2. Held(e)' = Written(e)
      BY <3>1 DEF Held, Written
    <3> QED BY <1>8, <2>1, <3>2
  <2> QED BY <2>2, <2>3
<1>10. ASSUME NEW e \in Envs, Exported(e)'
       PROVE  \/ /\ e \in saved /\ stopped'[e] = tick + 1 /\ e \notin frozen
                 /\ demo'[e] = [samples |-> Written(e), success |-> DemoFlag(Terms(v, e))]
                 /\ result'[e] = [success |-> "success" \in Terms(v, e), step |-> len[e] + 1]
              \/ /\ Exported(e) /\ demo'[e] = demo[e] /\ stopped'[e] = stopped[e]
                 /\ result'[e] = result[e]
  <2>1. e \in frozen' /\ e \notin armed'
    BY <1>10 DEF Exported
  <2>2. CASE e \in saved
    BY <1>1, <1>3, <1>4, <1>5, <2>2
  <2>3. CASE e \notin saved
    <3>1. e \notin armed /\ e \in frozen
      BY <1>5, <1>6, <2>1, <2>3
    <3> QED BY <1>3, <1>4, <1>5, <2>3, <3>1 DEF Exported
  <2> QED BY <2>2, <2>3
<1>11. DemoIsWholeRun'
  <2> SUFFICES ASSUME NEW e \in Envs \ carried', Exported(e)'
               PROVE  demo'[e].samples = [i \in 1 .. stopped'[e] |-> <<execution', i>>]
    BY DEF DemoIsWholeRun
  <2>1. CASE e \in saved /\ stopped'[e] = tick + 1 /\ e \notin frozen /\ demo'[e].samples = Written(e)
    BY <1>2, <1>8, <2>1 DEF Trace
  <2>2. CASE Exported(e) /\ demo'[e] = demo[e] /\ stopped'[e] = stopped[e]
    BY <1>2, <2>2 DEF DemoInv, DemoIsWholeRun
  <2>3. [samples |-> Written(e), success |-> DemoFlag(Terms(v, e))].samples = Written(e)
    OBVIOUS
  <2> QED BY <1>10, <2>1, <2>2, <2>3
<1>12. FlagMissesNoSuccess'
  <2> SUFFICES ASSUME NEW e \in Envs, Exported(e)', result'[e].success
               PROVE  demo'[e].success = "success"
    BY DEF FlagMissesNoSuccess
  <2>1. CASE /\ demo'[e] = [samples |-> Written(e), success |-> DemoFlag(Terms(v, e))]
             /\ result'[e] = [success |-> "success" \in Terms(v, e), step |-> len[e] + 1]
    <3> DEFINE given == "success" \in Terms(v, e)
    <3>1. result'[e] = [success |-> given, step |-> len[e] + 1]
      BY <2>1, Zenon
    <3>2. given
      <4>1. given \in BOOLEAN
        OBVIOUS
      <4> HIDE DEF given
      <4> QED BY <3>1, <4>1
    <3> QED BY <2>1, <3>2 DEF DemoFlag
  <2>2. CASE Exported(e) /\ demo'[e] = demo[e] /\ result'[e] = result[e]
    BY <2>2 DEF DemoInv, FlagMissesNoSuccess
  <2> QED BY <1>10, <2>1, <2>2
<1> QED BY <1>2, <1>7, <1>9, <1>11, <1>12 DEF DemoInv

LEMMA DemoNext ==
  ASSUME BatchTypes, DemoInv, [Next]_vars
  PROVE  DemoInv'
<1>1. CASE Step
  BY <1>1, DemoStep
<1>2. CASE StartRun
  <2>1. /\ phase = "idle" /\ phase' = "stepping" /\ tick' = 0 /\ execution' = execution + 1
        /\ armed' = Envs /\ open' = {} /\ frozen' = {} /\ buf' = buf /\ carried' = carried
    BY <1>2 DEF StartRun, DemoInv
  <2>2. \A e \in Envs \ carried' : Held(e)' = <<>>
    BY <2>1 DEF Held, DemoInv
  <2>3. Trace(execution', tick') = <<>>
    BY <2>1 DEF Trace
  <2>4. \A e \in Envs : ~Exported(e)'
    BY <2>1 DEF Exported
  <2> QED BY <2>1, <2>2, <2>3, <2>4 DEF DemoInv, DemoIsWholeRun, FlagMissesNoSuccess
<1>3. CASE NextRun
  <2>1. /\ phase # "idle" /\ phase' = "idle" /\ frozen' = {} /\ open' = {} /\ buf' = buf
        /\ armed \subseteq carried'
    BY <1>3 DEF NextRun, ClearEvalState
  <2> QED BY <2>1 DEF DemoInv, DemoIsWholeRun, FlagMissesNoSuccess, Exported
<1>4. CASE Crash
  BY <1>4 DEF Crash, ClearEvalState, DemoInv, DemoIsWholeRun, FlagMissesNoSuccess, Exported
<1>5. CASE UNCHANGED vars
  BY <1>5 DEF vars, loopVars, envVars, recVars, fileVars, DemoInv, Held, DemoIsWholeRun,
              FlagMissesNoSuccess, Exported
<1> QED BY <1>1, <1>2, <1>3, <1>4, <1>5 DEF Next

LEMMA Demos == Spec => [](BatchTypes /\ DemoInv)
<1>1. Init => BatchTypes /\ DemoInv
  <2>1. Init => DemoInv
    BY DEF Init, DemoInv, DemoIsWholeRun, FlagMissesNoSuccess, Exported
  <2> QED BY <2>1, TypesInit
<1>2. BatchTypes /\ DemoInv /\ [Next]_vars => (BatchTypes /\ DemoInv)'
  BY TypesNext, DemoNext
<1> QED BY <1>1, <1>2, PTL DEF Spec

(* A finished demo is all the steps of its environment in this execution,  *)
(* in order, whatever was flushed when (recorder_manager.py: record_post_  *)
(* step, export_episodes; streaming_hdf5_handler.py: append_data), unless  *)
(* the recorder entered the run with an unfinished episode.                *)
THEOREM DemosAreWhole == Spec => []DemoIsWholeRun
<1>1. DemoInv => DemoIsWholeRun
  BY DEF DemoInv
<1> QED BY <1>1, Demos, PTL

(* A success of the row is one of the file (recorder_manager.py:           *)
(* record_pre_reset; env.py: _reset_idx).                                  *)
THEOREM FlagsMissNoSuccess == Spec => []FlagMissesNoSuccess
<1>1. DemoInv => FlagMissesNoSuccess
  BY DEF DemoInv
<1> QED BY <1>1, Demos, PTL

-------------------------------------------------------------------------------
(* The record that RunOutcomes speaks of.                                  *)
Outcome == [e \in Envs |-> IF e \in frozen THEN [row |-> result[e], demo |-> demo[e]] ELSE Ungiven]

LEMMA FrozenKept ==
  ASSUME BatchTypes, Step, NEW e \in frozen
  PROVE  e \in frozen' /\ result'[e] = result[e] /\ demo'[e] = demo[e]
<1>1. PICK v \in [Envs -> SUBSET {"success", "target_lost"}], tried, again \in SUBSET Envs,
           stops \in SUBSET Envs, saved \in SUBSET Envs :
             /\ again \cup stops = Ending(v) /\ saved \subseteq stops
             /\ ResetIdx(v, again, stops, tried) /\ Record(v, saved)
  BY StepParts
<1>2. e \in Envs /\ e \notin stops /\ e \notin saved /\ e \notin Due
  BY <1>1 DEF Ending, Due, Recording, BatchTypes
<1> QED BY <1>1, <1>2 DEF ResetIdx, Record

(* Every step of the batch is one of RunOutcomes, or leaves its record.    *)
LEMMA OutcomeNext ==
  ASSUME BatchTypes, DemoInv, [Next]_vars
  PROVE  Outcomes!Next \/ Outcome' = Outcome
<1> USE DEF Outcome
<1>1. CASE Step
  <2>1. \A e \in Envs : Outcome[e] # Ungiven => Outcome'[e] = Outcome[e]
    BY <1>1, FrozenKept
  <2> QED BY <2>1 DEF Outcomes!Next, Outcomes!Decide
<1>2. CASE StartRun
  BY <1>2 DEF StartRun
<1>3. CASE NextRun \/ Crash
  <2>1. frozen' = {}
    BY <1>3 DEF NextRun, Crash, ClearEvalState
  <2> QED BY <2>1 DEF Outcomes!Next, Outcomes!Clear
<1>4. CASE UNCHANGED vars
  BY <1>4 DEF vars, envVars, fileVars
<1> QED BY <1>1, <1>2, <1>3, <1>4 DEF Next

(* The batch implements RunOutcomes: the row and the demo of a frozen      *)
(* environment are decided once and cleared together, through the flushes, *)
(* exports and early resets of the others (env.py: _reset_idx).            *)
THEOREM OutcomesAreKept == Spec => KeepsOutcomes
<1>1. Init => Outcomes!Init
  BY DEF Init, Outcomes!Init
<1>2. BatchTypes /\ DemoInv /\ [Next]_vars => [Outcomes!Next]_Outcome
  BY OutcomeNext
<1> QED BY <1>1, <1>2, Demos, PTL DEF Spec, KeepsOutcomes, Outcomes!Spec, Outcome

-------------------------------------------------------------------------------
(* Scores are judged for all, on the tick of a freeze, whenever an export  *)
(* is tried; and what is exported was tried on the tick it froze at.       *)
JudgedInv ==
  /\ \A e \in Envs : stopped[e] <= tick
  /\ phase = "idle" => \A e \in Envs : stopped[e] = 0
  /\ JudgedOnLastEnd

LEMMA JudgedStep ==
  ASSUME BatchTypes, DemoInv, JudgedInv, Step
  PROVE  JudgedInv'
<1>1. PICK v \in [Envs -> SUBSET {"success", "target_lost"}], tried, again \in SUBSET Envs,
           stops \in SUBSET Envs, saved \in SUBSET Envs :
             /\ again \cup stops = Ending(v) /\ saved \subseteq stops
             /\ saved \subseteq tried /\ tried \subseteq stops
             /\ ResetIdx(v, again, stops, tried) /\ Record(v, saved)
  BY StepParts
<1>2. /\ phase # "idle" /\ phase' # "idle" /\ tick' = tick + 1 /\ tick \in Nat
      /\ stopped \in [Envs -> Nat] /\ frozen \subseteq Envs
  BY StepLoop DEF BatchTypes
<1>3. /\ frozen' = frozen \cup stops /\ armed' = armed \ saved /\ stops \cap frozen = {}
      /\ stopped' = [e \in Envs |-> IF e \in stops THEN tick + 1 ELSE stopped[e]]
      /\ judged' = [e \in Envs |-> IF e \in Judging(tried) THEN tick + 1 ELSE judged[e]]
  BY <1>1 DEF ResetIdx, Record, Ending
<1>4. \A e \in Envs : stopped'[e] <= tick'
  BY <1>2, <1>3 DEF JudgedInv
<1>5. \A e \in Envs : Exported(e)' => e \in saved \/ Exported(e)
  <2>1. \A e \in Envs \ armed : e \in frozen
    BY <1>2 DEF DemoInv
  <2> QED BY <1>3, <2>1 DEF Exported
<1>6. CASE tried # {}
  <2>1. PICK f \in tried : f \in stops /\ f \in frozen' /\ stopped'[f] = tick + 1
    BY <1>1, <1>3, <1>6
  <2>2. \A e \in Envs : judged'[e] = tick + 1
    BY <1>3, <1>6 DEF Judging
  <2>3. JudgedOnLastEnd'
    BY <1>2, <1>4, <2>1, <2>2 DEF JudgedOnLastEnd
  <2> QED BY <1>2, <1>4, <2>3 DEF JudgedInv
<1>7. CASE tried = {}
  <2>1. judged' = [e \in Envs |-> judged[e]]
    BY <1>3, <1>7 DEF Judging
  <2>2. \A e \in Envs : Exported(e)' => Exported(e) /\ judged'[e] = judged[e]
    BY <1>1, <1>5, <1>7, <2>1
  <2>3. \A f \in frozen : f \in frozen' /\ stopped'[f] = stopped[f]
    BY <1>2, <1>3
  <2>4. JudgedOnLastEnd'
    BY <2>2, <2>3 DEF JudgedInv, JudgedOnLastEnd, Exported
  <2> QED BY <1>2, <1>4, <2>4 DEF JudgedInv
<1> QED BY <1>6, <1>7

LEMMA JudgedNext ==
  ASSUME BatchTypes, DemoInv, JudgedInv, [Next]_vars
  PROVE  JudgedInv'
<1>1. CASE Step
  BY <1>1, JudgedStep
<1>2. CASE StartRun
  BY <1>2 DEF StartRun, JudgedInv, JudgedOnLastEnd, Exported, DemoInv, BatchTypes
<1>3. CASE NextRun \/ Crash
  <2>1. /\ frozen' = {} /\ phase' = "idle" /\ tick' = tick /\ \A e \in Envs : stopped'[e] = 0
    BY <1>3 DEF NextRun, Crash, ClearEvalState
  <2> QED BY <2>1 DEF JudgedInv, JudgedOnLastEnd, Exported, BatchTypes
<1>4. CASE UNCHANGED vars
  BY <1>4 DEF vars, loopVars, envVars, recVars, JudgedInv, JudgedOnLastEnd, Exported
<1> QED BY <1>1, <1>2, <1>3, <1>4 DEF Next

(* The scores of a run are judged on the frame of the last end that was    *)
(* exported, or a later one, whichever environment ended when (env.py:     *)
(* _reset_idx; subtask_recorder.py: record_final_status).                  *)
THEOREM ScoresJudgedLast == Spec => []JudgedOnLastEnd
<1>1. Init => JudgedInv
  BY DEF Init, JudgedInv, JudgedOnLastEnd, Exported
<1>2. BatchTypes /\ DemoInv /\ JudgedInv /\ [Next]_vars => JudgedInv'
  BY JudgedNext
<1>3. JudgedInv => JudgedOnLastEnd
  BY DEF JudgedInv
<1> QED BY <1>1, <1>2, <1>3, Demos, PTL DEF Spec

-------------------------------------------------------------------------------
(* The samples that finishing demos adds up to.                            *)
LEMMA LengthIsNat ==
  ASSUME NEW S \in SUBSET Envs, NEW samples, \A e \in S : samples[e] \in Seq(Stamps)
  PROVE  IsFiniteSet(S) /\ [e \in S |-> Len(samples[e])] \in [S -> Nat] /\ LengthOf(S, samples) \in Nat
<1>1. IsFiniteSet(S)
  BY FS_Subset, EnvsAssumption
<1>2. [e \in S |-> Len(samples[e])] \in [S -> Nat]
  BY LenProperties
<1> QED BY <1>1, <1>2, SumIsNat DEF LengthOf

SameSamples(S, these, those) == \A e \in S : these[e] \in Seq(Stamps) /\ those[e] = these[e]

LEMMA LengthOfTwo ==
  ASSUME NEW S \in SUBSET Envs, NEW T \in SUBSET Envs, S \cap T = {},
         NEW old, NEW new, NEW both, SameSamples(S, old, both), SameSamples(T, new, both)
  PROVE  LengthOf(S \cup T, both) = LengthOf(S, old) + LengthOf(T, new)
<1> DEFINE f == [e \in S \cup T |-> Len(both[e])]
           g == [e \in S |-> Len(old[e])]
           h == [e \in T |-> Len(new[e])]
<1>1. IsFiniteSet(S) /\ IsFiniteSet(T) /\ g \in [S -> Nat] /\ h \in [T -> Nat]
  BY LengthIsNat DEF SameSamples
<1>2. \A e \in S \cup T : both[e] \in Seq(Stamps)
  BY DEF SameSamples
<1>3. f \in [S \cup T -> Nat]
  BY <1>2, LenProperties
<1>4. (\A e \in S : g[e] = f[e]) /\ \A e \in T : h[e] = f[e]
  BY DEF SameSamples
<1>5. SumOf(f) = SumOf(g) + SumOf(h)
  <2> HIDE DEF f, g, h
  <2> QED BY <1>1, <1>3, <1>4, SumOfTwo
<1> QED BY <1>5 DEF LengthOf

LEMMA LengthOfNothing == \A samples : LengthOf({}, samples) = 0
BY SumOfNothing DEF LengthOf

LEMMA SamplesTypes == ASSUME BatchTypes PROVE \A e \in Envs : Samples[e] \in Seq(Stamps)
BY DEF Samples, BatchTypes, DemoType

(* A counted demo is not open, so what is flushed to it re-opens it, and   *)
(* then it is no longer counted; and without a death a demo is finished    *)
(* only by its environment's end, and never flushed to again.              *)
TotalInv ==
  /\ counted \subseteq Envs /\ counted \cap open = {} /\ lost \in Nat
  /\ total = LengthOf(counted, Samples) + lost
  /\ Finished \subseteq counted
  /\ phase = "idle" =>
       /\ execution >= run - 1
       /\ execution = run - 1 => counted = {} /\ lost = 0 /\ \A e \in Envs : demo[e] = NoDemo
  /\ phase # "idle" =>
       /\ execution >= run
       /\ execution = run => counted \subseteq frozen /\ counted = Finished /\ lost = 0

LEMMA TotalStep ==
  ASSUME BatchTypes, TotalInv, Step
  PROVE  TotalInv'
<1>1. PICK v \in [Envs -> SUBSET {"success", "target_lost"}], tried, again \in SUBSET Envs,
           stops \in SUBSET Envs, saved \in SUBSET Envs :
             /\ again \cup stops = Ending(v) /\ saved \subseteq stops
             /\ ResetIdx(v, again, stops, tried) /\ Record(v, saved)
  BY StepParts
<1>2. phase # "idle" /\ phase' # "idle" /\ run' = run /\ execution' = execution
  BY StepLoop
<1>3. saved \cap frozen = {} /\ Due \cap frozen = {} /\ saved \subseteq frozen' /\ frozen \subseteq frozen'
  BY <1>1 DEF Ending, Due, Recording, ResetIdx
<1> DEFINE new == [e \in Envs |-> Written(e)]
           flushed == Due \cup saved
           keep == counted \ flushed
           gone == counted \cap flushed
<1>4. /\ demo' = [e \in Envs |->
           IF e \in saved THEN [samples |-> Written(e), success |-> DemoFlag(Terms(v, e))]
           ELSE IF e \in Due THEN [samples |-> Written(e), success |-> "open"]
           ELSE demo[e]]
      /\ open' = (open \cup Due) \ saved
      /\ total' = total + LengthOf(saved, new)
      /\ counted' = (counted \ (flushed \ open)) \cup saved
      /\ lost' = lost + LengthOf(counted \cap (flushed \ open), Samples)
  BY <1>1 DEF Record, Ended
<1>5. /\ counted \subseteq Envs /\ counted \cap open = {} /\ lost \in Nat
      /\ total = LengthOf(counted, Samples) + lost /\ Finished \subseteq counted
  BY DEF TotalInv
<1>6. /\ counted' = keep \cup saved /\ lost' = lost + LengthOf(gone, Samples)
      /\ keep \subseteq Envs /\ gone \subseteq Envs /\ keep \cap gone = {} /\ keep \cap saved = {}
      /\ counted = keep \cup gone
  <2>1. counted \ (flushed \ open) = keep /\ counted \cap (flushed \ open) = gone
    BY <1>5
  <2> QED BY <1>4, <1>5, <2>1
<1>7. counted' \subseteq Envs /\ counted' \cap open' = {}
  BY <1>4, <1>5, <1>6
<1>8. \A e \in saved : new[e] \in Seq(Stamps)
  BY WrittenTypes
<1>9. /\ \A e \in saved : demo'[e].success \in {"success", "failure"} /\ demo'[e].samples = new[e]
      /\ \A e \in Envs \ saved : e \in Due => demo'[e].success = "open"
      /\ \A e \in Envs \ flushed : demo'[e] = demo[e]
  BY <1>4 DEF DemoFlag
<1>10. Finished' = (Finished \ flushed) \cup saved
  <2>1. flushed \subseteq Envs
    BY DEF Due, Recording
  <2> QED BY <1>9, <2>1 DEF Finished
<1>11. LengthOf(counted, Samples) = LengthOf(keep, Samples) + LengthOf(gone, Samples)
  <2>1. SameSamples(keep, Samples, Samples) /\ SameSamples(gone, Samples, Samples)
    BY <1>6, SamplesTypes DEF SameSamples
  <2> HIDE DEF keep, gone
  <2> QED BY <1>6, <2>1, LengthOfTwo
<1>12. LengthOf(counted', Samples') = LengthOf(keep, Samples) + LengthOf(saved, new)
  <2>1. \A e \in keep : Samples[e] \in Seq(Stamps) /\ Samples'[e] = Samples[e]
    <3>1. \A e \in keep : e \in Envs /\ demo'[e] = demo[e]
      BY <1>6, <1>9
    <3> QED BY <3>1, SamplesTypes DEF Samples
  <2>2. \A e \in saved : Samples'[e] = new[e]
    BY <1>9 DEF Samples
  <2>3. SameSamples(keep, Samples, Samples') /\ SameSamples(saved, new, Samples')
    BY <1>8, <2>1, <2>2 DEF SameSamples
  <2> HIDE DEF keep, new
  <2> QED BY <1>6, <2>3, LengthOfTwo
<1>13. /\ LengthOf(keep, Samples) \in Nat /\ LengthOf(gone, Samples) \in Nat
       /\ LengthOf(saved, new) \in Nat
  <2>1. LengthOf(keep, Samples) \in Nat
    BY <1>6, SamplesTypes, LengthIsNat
  <2>2. LengthOf(gone, Samples) \in Nat
    BY <1>6, SamplesTypes, LengthIsNat
  <2>3. LengthOf(saved, new) \in Nat
    BY <1>8, LengthIsNat
  <2> QED BY <2>1, <2>2, <2>3
<1>14. total' = LengthOf(counted', Samples') + lost' /\ lost' \in Nat
  <2> DEFINE a == LengthOf(keep, Samples)
             b == LengthOf(gone, Samples)
             c == LengthOf(saved, new)
             d == LengthOf(counted, Samples)
             x == LengthOf(counted', Samples')
  <2>1. d = a + b /\ x = a + c /\ a \in Nat /\ b \in Nat /\ c \in Nat
    BY <1>11, <1>12, <1>13
  <2>2. total' = total + c /\ total = d + lost /\ lost' = lost + b /\ lost \in Nat
    BY <1>4, <1>5, <1>6
  <2>3. total' = x + lost' /\ lost' \in Nat
    <3> HIDE DEF a, b, c, d, x
    <3> QED BY <2>1, <2>2
  <2> QED BY <2>3
<1>15. ASSUME execution = run
       PROVE  counted' \subseteq frozen' /\ counted' = Finished' /\ lost' = 0
  <2>1. counted \subseteq frozen /\ counted = Finished /\ lost = 0
    BY <1>2, <1>15 DEF TotalInv
  <2>2. gone = {} /\ keep = counted
    BY <1>3, <2>1
  <2>3. lost' = 0
    <3>1. LengthOf(gone, Samples) = 0
      BY <2>2, LengthOfNothing
    <3> HIDE DEF gone
    <3> QED BY <1>6, <2>1, <3>1
  <2>4. counted' = counted \cup saved
    BY <1>6, <2>2
  <2>5. Finished' = Finished \cup saved
    BY <1>3, <1>10, <2>1
  <2> QED BY <1>3, <2>1, <2>3, <2>4, <2>5
<1>16. Finished' \subseteq counted'
  BY <1>5, <1>6, <1>10
<1> QED BY <1>2, <1>7, <1>14, <1>15, <1>16 DEF TotalInv

LEMMA TotalCrash ==
  ASSUME BatchTypes, TotalInv, run \in Nat, open \subseteq Envs, Crash
  PROVE  TotalInv'
<1>1. phase # "idle" /\ phase' = "idle" /\ run' = run /\ execution' = execution /\ open' = {}
  BY DEF Crash
<1>2. execution' >= run' - 1 /\ execution' # run' - 1
  BY <1>1 DEF TotalInv, BatchTypes
<1>3. CASE UNCHANGED <<demo, total, counted, lost>>
  BY <1>1, <1>2, <1>3 DEF TotalInv, Finished, Samples
<1>4. CASE demo' = [e \in Envs |-> NoDemo] /\ total' = 0 /\ counted' = {} /\ lost' = 0
  <2>1. Finished' = {}
    BY <1>4 DEF Finished, NoDemo
  <2> QED BY <1>1, <1>2, <1>4, <2>1, LengthOfNothing DEF TotalInv
<1>5. CASE /\ total' = total + Ended(open, Samples)
           /\ counted' = counted \cup open
           /\ UNCHANGED <<demo, lost>>
  <2>1. /\ counted \subseteq Envs /\ counted \cap open = {} /\ lost \in Nat
        /\ total = LengthOf(counted, Samples) + lost /\ Finished \subseteq counted
    BY DEF TotalInv
  <2>2. Samples' = Samples /\ Finished' = Finished
    BY <1>5 DEF Samples, Finished
  <2>3. SameSamples(counted, Samples, Samples) /\ SameSamples(open, Samples, Samples)
    BY <2>1, SamplesTypes DEF SameSamples
  <2>4. LengthOf(counted \cup open, Samples) = LengthOf(counted, Samples) + LengthOf(open, Samples)
    BY <2>1, <2>3, LengthOfTwo
  <2>5. LengthOf(counted, Samples) \in Nat /\ LengthOf(open, Samples) \in Nat
    BY <2>1, SamplesTypes, LengthIsNat
  <2>6. total' = LengthOf(counted', Samples') + lost'
    BY <1>5, <2>1, <2>2, <2>4, <2>5 DEF Ended
  <2> QED BY <1>1, <1>2, <1>5, <2>1, <2>2, <2>6 DEF TotalInv
<1> QED BY <1>3, <1>4, <1>5 DEF Crash

LEMMA TotalNext ==
  ASSUME BatchTypes, TotalInv, run \in Nat, open \subseteq Envs, [Next]_vars
  PROVE  TotalInv'
<1>1. CASE Step
  BY <1>1, TotalStep
<1>2. CASE StartRun
  <2>1. /\ phase = "idle" /\ phase' = "stepping" /\ run' = run /\ execution' = execution + 1
        /\ open' = {} /\ UNCHANGED <<demo, total, counted, lost>>
    BY <1>2 DEF StartRun
  <2>2. Samples' = Samples /\ Finished' = Finished
    BY <2>1 DEF Samples, Finished
  <2>3. ASSUME execution' = run PROVE counted' \subseteq frozen' /\ counted' = Finished' /\ lost' = 0
    <3>1. execution = run - 1
      BY <2>1, <2>3 DEF BatchTypes
    <3>2. counted' = {} /\ lost' = 0 /\ \A e \in Envs : demo[e].success = "absent"
      BY <2>1, <3>1 DEF TotalInv, NoDemo
    <3>3. Finished = {}
      BY <3>2 DEF Finished
    <3> QED BY <2>2, <3>2, <3>3
  <2> QED BY <2>1, <2>2, <2>3 DEF TotalInv, BatchTypes
<1>3. CASE NextRun
  <2>1. /\ phase # "idle" /\ phase' = "idle" /\ run' = run + 1 /\ execution' = execution
        /\ demo' = [e \in Envs |-> NoDemo] /\ total' = 0 /\ counted' = {} /\ lost' = 0
    BY <1>3 DEF NextRun
  <2>2. Finished' = {}
    BY <2>1 DEF Finished, NoDemo
  <2> QED BY <2>1, <2>2, LengthOfNothing DEF TotalInv, BatchTypes
<1>4. CASE Crash
  BY <1>4, TotalCrash
<1>5. CASE UNCHANGED vars
  BY <1>5 DEF vars, loopVars, envVars, fileVars, TotalInv, Finished, Samples
<1> QED BY <1>1, <1>2, <1>3, <1>4, <1>5 DEF Next

-------------------------------------------------------------------------------
(* What keeps the counters within their caps: no clock is ahead of the     *)
(* loop's, and each death is paid for when run_episode is entered again.   *)
Limits ==
  /\ phase \in {"idle", "stepping", "done"} /\ run \in 1 .. MaxRuns
  /\ execution <= run + MaxCrashes /\ (phase = "idle" => execution < run + MaxCrashes)
  /\ tick <= MaxSteps
  /\ \A e \in Envs :
       /\ len[e] <= tick /\ early[e] <= MaxEarlyResets /\ stopped[e] <= MaxSteps
       /\ result[e] \in [success : BOOLEAN, step : 0 .. MaxSteps]
       /\ judged[e] \in 0 .. MaxSteps
       /\ count[e] \in 0 .. FlushInterval - 1
  /\ result = [e \in Envs |-> result[e]] /\ judged = [e \in Envs |-> judged[e]]
  /\ count = [e \in Envs |-> count[e]]
  /\ streaming \subseteq Envs /\ carried \subseteq Envs /\ open \subseteq Envs

LEMMA LimitsStep ==
  ASSUME BatchTypes, EndsInv, Limits, Step
  PROVE  Limits'
<1>1. PICK v \in [Envs -> SUBSET {"success", "target_lost"}], tried, again \in SUBSET Envs,
           stops \in SUBSET Envs, saved \in SUBSET Envs :
             /\ \A e \in again : TooSoon(e)
             /\ saved \subseteq stops
             /\ ResetIdx(v, again, stops, tried) /\ Record(v, saved)
  BY StepParts
<1>2. /\ phase = "stepping" /\ tick' = tick + 1 /\ run' = run /\ execution' = execution
      /\ carried' = carried /\ phase' \in {"stepping", "done"}
  BY StepLoop
<1>3. /\ tick \in Nat /\ tick + 1 <= MaxSteps /\ MaxSteps \in Nat /\ MaxEarlyResets \in Nat
      /\ FlushInterval \in Nat \ {0} /\ tick + 1 \in 0 .. MaxSteps
  BY <1>2, BoundAssumption DEF EndsInv, BatchTypes
<1>4. /\ early' = [e \in Envs |-> IF e \in again THEN early[e] + 1 ELSE early[e]]
      /\ len' = [e \in Envs |-> IF e \in again THEN 0 ELSE len[e] + 1]
      /\ result' = [e \in Envs |->
           IF e \in stops THEN [success |-> "success" \in Terms(v, e), step |-> len[e] + 1]
           ELSE result[e]]
      /\ stopped' = [e \in Envs |-> IF e \in stops THEN tick + 1 ELSE stopped[e]]
      /\ judged' = [e \in Envs |-> IF e \in Judging(tried) THEN tick + 1 ELSE judged[e]]
  BY <1>1 DEF ResetIdx
<1>5. /\ count' = [e \in Envs |-> IF e \in Due \cup saved THEN 0
                                  ELSE IF e \in Recording THEN count[e] + 1 ELSE count[e]]
      /\ open' = (open \cup Due) \ saved /\ streaming' = (streaming \cup Due) \ saved
  BY <1>1 DEF Record
<1>6. Due \subseteq Envs
  BY DEF Due, Recording
<1>7. ASSUME NEW e \in Envs
      PROVE  /\ len'[e] <= tick' /\ early'[e] <= MaxEarlyResets /\ stopped'[e] <= MaxSteps
             /\ result'[e] \in [success : BOOLEAN, step : 0 .. MaxSteps]
             /\ judged'[e] \in 0 .. MaxSteps
             /\ count'[e] \in 0 .. FlushInterval - 1
  <2>1. /\ len[e] \in Nat /\ len[e] <= tick /\ early[e] \in Nat /\ early[e] <= MaxEarlyResets
        /\ stopped[e] \in Nat /\ stopped[e] <= MaxSteps /\ judged[e] \in 0 .. MaxSteps
        /\ count[e] \in 0 .. FlushInterval - 1
        /\ result[e] \in [success : BOOLEAN, step : 0 .. MaxSteps]
    BY DEF Limits, BatchTypes
  <2>2. len'[e] <= tick'
    BY <1>2, <1>3, <1>4, <2>1
  <2>3. early'[e] <= MaxEarlyResets
    <3>1. e \in again => early[e] < MaxEarlyResets
      BY <1>1 DEF TooSoon
    <3> QED BY <1>3, <1>4, <2>1, <3>1
  <2>4. stopped'[e] <= MaxSteps /\ judged'[e] \in 0 .. MaxSteps
    BY <1>3, <1>4, <2>1
  <2>5. result'[e] \in [success : BOOLEAN, step : 0 .. MaxSteps]
    <3>1. CASE e \in stops
      <4> DEFINE given == "success" \in Terms(v, e)
                 at == len[e] + 1
      <4>1. result'[e] = [success |-> given, step |-> at]
        BY <1>4, <3>1, Zenon
      <4>2. given \in BOOLEAN /\ at \in 0 .. MaxSteps
        BY <1>3, <2>1
      <4> HIDE DEF given, at
      <4> QED BY <4>1, <4>2
    <3>2. CASE e \notin stops
      <4>1. result'[e] = result[e]
        BY <1>4, <3>2, Zenon
      <4> QED BY <2>1, <4>1
    <3> QED BY <3>1, <3>2
  <2>6. count'[e] \in 0 .. FlushInterval - 1
    <3>1. e \in Recording /\ e \notin Due => ~(count[e] + 1 >= FlushInterval)
      BY DEF Due
    <3> QED BY <1>3, <1>5, <2>1, <3>1
  <2> QED BY <2>2, <2>3, <2>4, <2>5, <2>6
<1>8. /\ result' = [e \in Envs |-> result'[e]] /\ judged' = [e \in Envs |-> judged'[e]]
      /\ count' = [e \in Envs |-> count'[e]]
  <2>1. result' = [e \in Envs |-> result'[e]]
    <3> DEFINE R(e) == IF e \in stops THEN [success |-> "success" \in Terms(v, e), step |-> len[e] + 1]
                       ELSE result[e]
    <3>1. result' = [e \in Envs |-> R(e)]
      BY <1>4
    <3> HIDE DEF R
    <3> QED BY <3>1
  <2> QED BY <1>4, <1>5, <2>1
<1> QED BY <1>2, <1>3, <1>5, <1>6, <1>7, <1>8 DEF Limits

LEMMA LimitsNext ==
  ASSUME BatchTypes, EndsInv, Limits, [Next]_vars
  PROVE  Limits'
<1> USE BoundAssumption
<1>1. CASE Step
  BY <1>1, LimitsStep
<1>2. CASE StartRun
  BY <1>2 DEF StartRun, Limits, BatchTypes
<1>3. CASE NextRun
  BY <1>3 DEF NextRun, ClearEvalState, Limits, BatchTypes, Ungiven
<1>4. CASE Crash
  BY <1>4 DEF Crash, ClearEvalState, Limits, BatchTypes, Ungiven
<1>5. CASE UNCHANGED vars
  BY <1>5 DEF vars, loopVars, envVars, recVars, fileVars, Limits
<1> QED BY <1>1, <1>2, <1>3, <1>4, <1>5 DEF Next

LEMMA BatchInvariant == Spec => [](BatchTypes /\ EndsInv /\ Limits /\ TotalInv)
<1>1. Init => BatchTypes /\ EndsInv /\ Limits /\ TotalInv
  <2>1. Init => EndsInv
    BY DEF Init, EndsInv, EveryEpisodeEnds
  <2>2. Init => Limits
    BY BoundAssumption DEF Init, Limits, Ungiven
  <2>3. Init => TotalInv
    BY LengthOfNothing DEF Init, TotalInv, Finished, NoDemo
  <2> QED BY <2>1, <2>2, <2>3, TypesInit
<1>2. ASSUME BatchTypes, EndsInv, Limits, TotalInv, [Next]_vars
      PROVE  BatchTypes' /\ EndsInv' /\ Limits' /\ TotalInv'
  <2>1. run \in Nat /\ open \subseteq Envs
    BY <1>2 DEF Limits
  <2> QED BY <1>2, <2>1, TypesNext, EndsNext, LimitsNext, TotalNext
<1> QED BY <1>1, <1>2, PTL DEF Spec

(* The variables keep their types, and the counters their caps, through    *)
(* every flush, export, early reset, run and death.                        *)
THEOREM TypesKept == Spec => []TypeOK
<1>1. ASSUME BatchTypes, Limits, TotalInv PROVE TypeOK
  <2> USE <1>1
  <2>1. /\ phase \in {"idle", "stepping", "done"} /\ run \in 1 .. MaxRuns
        /\ tick \in 0 .. MaxSteps /\ frozen \subseteq Envs /\ armed \subseteq Envs
        /\ streaming \subseteq Envs /\ carried \subseteq Envs /\ open \subseteq Envs
    BY BoundAssumption DEF BatchTypes, Limits
  <2>7. counted \subseteq Envs /\ lost \in Nat /\ total \in Nat
    <3>1. /\ counted \subseteq Envs /\ lost \in Nat
          /\ total = LengthOf(counted, Samples) + lost
      BY DEF TotalInv
    <3>2. LengthOf(counted, Samples) \in Nat
      BY <3>1, SamplesTypes, LengthIsNat
    <3> QED BY <3>1, <3>2
  <2>2. execution \in 0 .. MaxRuns + MaxCrashes
    BY BoundAssumption DEF BatchTypes, Limits
  <2>3. \A e \in Envs : /\ len[e] \in 0 .. MaxSteps /\ early[e] \in 0 .. MaxEarlyResets
                        /\ stopped[e] \in 0 .. MaxSteps
    BY BoundAssumption DEF BatchTypes, Limits
  <2>4. /\ len \in [Envs -> 0 .. MaxSteps] /\ early \in [Envs -> 0 .. MaxEarlyResets]
        /\ stopped \in [Envs -> 0 .. MaxSteps]
    BY <2>3 DEF BatchTypes
  <2>5. /\ result \in [Envs -> [success : BOOLEAN, step : 0 .. MaxSteps]]
        /\ judged \in [Envs -> 0 .. MaxSteps] /\ count \in [Envs -> 0 .. FlushInterval - 1]
    BY DEF Limits
  <2>6. DOMAIN buf = Envs /\ DOMAIN demo = Envs /\ \A e \in Envs : demo[e].success \in Flags
    BY DEF BatchTypes, DemoType
  <2> QED BY <2>1, <2>2, <2>4, <2>5, <2>6, <2>7 DEF TypeOK
<1> QED BY <1>1, BatchInvariant, PTL

(* Every finished demo is in the file's total once, over every death and   *)
(* resume; besides them it holds what the exit handler closed, and what    *)
(* resumes deleted of ended demos (end_episode, close, begin_episode).     *)
THEOREM TotalsCount == Spec => []TotalCountsSamples
<1>1. TotalInv => TotalCountsSamples
  BY DEF TotalInv, TotalCountsSamples
<1> QED BY <1>1, BatchInvariant, PTL
===============================================================================
