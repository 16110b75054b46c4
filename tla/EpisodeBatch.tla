----------------------------- MODULE EpisodeBatch -----------------------------
(***************************************************************************)
(* A batch of parallel environments over the runs of one task: the step    *)
(* loop of robolab/eval/episode.py, the freezing of terminated             *)
(* environments (robolab/core/environments/env.py), the recorder manager's *)
(* buffers and auto-flush (robolab/core/logging/recorder_manager.py) and   *)
(* the demos of the run's HDF5 file (streaming_hdf5_handler.py).           *)
(*                                                                         *)
(* env.step() is sequential, so one Step moves the whole batch: which      *)
(* termination terms hold for which environment is an input.  A recorded   *)
(* sample is the stamp of the step that produced it: which execution of    *)
(* run_episode, and which step of its loop.                                *)
(***************************************************************************)
EXTENDS Integers, Sequences, FiniteSets, Sums

CONSTANTS
  Envs,
  MaxSteps,         \* max_episode_length, also the length of the step loop
  FlushInterval,    \* _flush_interval
  MaxEarlyResets,   \* MAX_EARLY_RESETS
  ExportMayFail,    \* may export_episodes raise (_reset_idx logs and goes on)?
  MaxRuns,          \* num_runs
  MaxCrashes        \* bound: deaths of the process

ASSUME EnvsAssumption == IsFiniteSet(Envs) /\ Envs # {}
ASSUME BoundAssumption ==
  /\ MaxSteps \in Nat /\ MaxSteps > 2
  /\ FlushInterval \in Nat \ {0}
  /\ MaxEarlyResets \in Nat
  /\ ExportMayFail \in BOOLEAN
  /\ MaxRuns \in Nat \ {0}
  /\ MaxCrashes \in Nat

VARIABLES
  phase,       \* "idle" before run_episode, "stepping" in its loop, "done" after it
  run,         \* the run of the task, which names the file
  execution,   \* history: how many times run_episode has been entered
  tick,        \* steps taken by the loop
  len,         \* episode_length_buf
  early,       \* _early_resets
  frozen,      \* _frozen_envs
  result,      \* _env_results and _env_term_step
  stopped,     \* history: the tick at which an environment froze
  judged,      \* _subtask_final_scores: the tick of the frame the score was judged on
  buf,         \* _episodes: the samples in memory
  count,       \* _step_count
  armed,       \* environments with a _current_episode_index
  streaming,   \* _streaming_active
  carried,     \* history: environments whose recorder entered this run unfinished
  demo,        \* the demos in the run's file
  open,        \* _open_episodes of the file handler
  total,       \* the file's "total" attribute
  counted,     \* history: the demos in the file that have been added to its total
  lost         \* history: samples that were added to it, of demos deleted since

loopVars == <<phase, run, execution, tick>>
envVars == <<len, early, frozen, result, stopped, judged>>
recVars == <<buf, count, armed, streaming, carried>>
fileVars == <<demo, open, total, counted, lost>>
vars == <<loopVars, envVars, recVars, fileVars>>

Ungiven == [success |-> FALSE, step |-> 0]
NoDemo == [samples |-> <<>>, success |-> "absent"]
Flags == {"absent", "open", "success", "failure"}
-------------------------------------------------------------------------------
(* What one step of the batch does, given the terms v[e] that hold for e.  *)

\* Mutant: time-out one step late.
LateTerms(v, e) == v[e] \cup (IF len[e] + 1 > MaxSteps THEN {"time_out"} ELSE {})

\* The termination terms of e after this step, with the time-out's own.
Terms(v, e) == v[e] \cup (IF len[e] + 1 >= MaxSteps THEN {"time_out"} ELSE {})

\* Mutant: _reset_idx does not skip the frozen environments.
EndingAgain(v) == {e \in Envs : Terms(v, e) # {}}

\* The environments _reset_idx has to deal with.
Ending(v) == {e \in Envs \ frozen : Terms(v, e) # {}}

\* Mutant: early resets are not capped.
AlwaysTooSoon(e) == len[e] + 1 <= 2

\* Terminated before the robot could act, with re-resets to spare.
TooSoon(e) == len[e] + 1 <= 2 /\ early[e] < MaxEarlyResets

\* Mutant: a success on the last step counts as a time-out.
NoLateSuccess(terms) == IF terms = {"success"} THEN "success" ELSE "failure"

\* record_pre_reset: the demo's success is termination_manager.terminated.
DemoFlag(terms) == IF terms \ {"time_out"} # {} THEN "success" ELSE "failure"

\* Mutant: every environment is recorded, the frozen ones too.
EveryEnv == Envs

\* _active_env_ids: the environments the recorder manager still records.
Recording == Envs \ frozen

Buffered(e) == IF e \in Recording THEN Append(buf[e], <<execution, tick + 1>>) ELSE buf[e]

\* The environments whose buffer is flushed after this step.
Due == {e \in Recording : count[e] + 1 >= FlushInterval}

\* append_data: opening a demo deletes what the file already holds under its name.
Written(e) == (IF e \in open THEN demo[e].samples ELSE <<>>) \o Buffered(e)

\* What each environment's demo holds.
Samples == [e \in Envs |-> demo[e].samples]

\* How many samples the demos of S hold together.
LengthOf(S, samples) == SumOf([e \in S |-> Len(samples[e])])

\* Mutant: the total is read before the demos of a step are ended, and the last to
\* be ended writes it back.
EndedLast(S, samples) == IF S = {} THEN 0 ELSE Len(samples[CHOOSE e \in S : TRUE])

\* end_episode for the demos of S: what it adds to the file's total.
Ended(S, samples) == LengthOf(S, samples)

\* Mutant: only the environments that are exported are judged.
JudgedAlone(tried) == tried

\* record_final_status: an export judges the ladder of every environment.
Judging(tried) == IF tried # {} THEN Envs ELSE {}

\* RobolabEnv._reset_idx for the environments that end now: `again` are reset at
\* once, the others freeze with their result; the exports of `tried` get to the scores.
ResetIdx(v, again, stops, tried) ==
  /\ early' = [e \in Envs |-> IF e \in again THEN early[e] + 1 ELSE early[e]]
  /\ len' = [e \in Envs |-> IF e \in again THEN 0 ELSE len[e] + 1]
  /\ frozen' = frozen \cup stops
  /\ result' = [e \in Envs |->
       IF e \in stops THEN [success |-> "success" \in Terms(v, e), step |-> len[e] + 1]
       ELSE result[e]]
  /\ stopped' = [e \in Envs |-> IF e \in stops THEN tick + 1 ELSE stopped[e]]
  /\ judged' = [e \in Envs |-> IF e \in Judging(tried) THEN tick + 1 ELSE judged[e]]

\* record_post_step with its auto-flush, then export_episodes for `saved`.
Record(v, saved) ==
  LET flushed == Due \cup saved IN
  /\ buf' = [e \in Envs |-> IF e \in flushed THEN <<>> ELSE Buffered(e)]
  /\ count' = [e \in Envs |->
       IF e \in flushed THEN 0 ELSE IF e \in Recording THEN count[e] + 1 ELSE count[e]]
  /\ demo' = [e \in Envs |->
       IF e \in saved THEN [samples |-> Written(e), success |-> DemoFlag(Terms(v, e))]
       ELSE IF e \in Due THEN [samples |-> Written(e), success |-> "open"]
       ELSE demo[e]]
  /\ open' = (open \cup Due) \ saved
  /\ streaming' = (streaming \cup Due) \ saved
  /\ armed' = armed \ saved
  /\ total' = total + Ended(saved, [e \in Envs |-> Written(e)])
  /\ counted' = (counted \ (flushed \ open)) \cup saved
  /\ lost' = lost + LengthOf(counted \cap (flushed \ open), Samples)

(* env.step(): physics, clocks, terminations, record_post_step,            *)
(* record_pre_reset, _reset_idx; the loop ends when all are frozen.        *)
Step ==
  /\ phase = "stepping"
  /\ \E v \in [Envs -> SUBSET {"success", "target_lost"}] :
       LET again == {e \in Ending(v) : TooSoon(e)}
           stops == Ending(v) \ again
           pending == {e \in stops : e \in armed \cup streaming \cup Due}
       IN  \E failed \in SUBSET (IF ExportMayFail THEN pending ELSE {}) :
             \* A failed export raises before the scores are judged or after.
             /\ \E tried \in {pending, pending \ failed} : ResetIdx(v, again, stops, tried)
             /\ Record(v, pending \ failed)
  /\ tick' = tick + 1
  /\ phase' = IF frozen' = Envs \/ tick' = MaxSteps THEN "done" ELSE "stepping"
  /\ UNCHANGED <<run, execution, carried>>

(* run_episode up to its loop: two resets of the batch, which leave the    *)
(* buffers alone, then the run's file and one episode index per            *)
(* environment.  Opening the file closes the previous run's.               *)
StartRun ==
  /\ phase = "idle"
  /\ phase' = "stepping"
  /\ execution' = execution + 1
  /\ tick' = 0
  /\ len' = [e \in Envs |-> 0]
  /\ armed' = Envs
  /\ open' = {}
  /\ UNCHANGED <<run, early, frozen, result, stopped, judged,
                 buf, count, streaming, carried, demo, total, counted, lost>>

\* reset_eval_state, once the run's rows are written; the recorder keeps its state.
ClearEvalState ==
  /\ frozen' = {}
  /\ early' = [e \in Envs |-> 0]
  /\ result' = [e \in Envs |-> Ungiven]
  /\ stopped' = [e \in Envs |-> 0]
  /\ judged' = [e \in Envs |-> 0]

NextRun ==
  /\ phase = "done" /\ run < MaxRuns
  /\ phase' = "idle"
  /\ run' = run + 1
  /\ ClearEvalState
  /\ demo' = [e \in Envs |-> NoDemo] /\ open' = {}
  /\ total' = 0 /\ counted' = {} /\ lost' = 0
  /\ carried' = armed \cup streaming
  /\ UNCHANGED <<execution, tick, len, buf, count, armed, streaming>>

(* The process dies before the run's rows are written and is started       *)
(* again: killed outright, with the file left unreadable, or through the   *)
(* exit handler, which closes the open demos.                              *)
Crash ==
  /\ phase \in {"stepping", "done"}
  /\ execution < run + MaxCrashes
  /\ phase' = "idle"
  /\ ClearEvalState
  /\ len' = [e \in Envs |-> 0]
  /\ buf' = [e \in Envs |-> <<>>] /\ count' = [e \in Envs |-> 0]
  /\ armed' = {} /\ streaming' = {} /\ carried' = {}
  /\ open' = {}
  /\ \/ UNCHANGED <<demo, total, counted, lost>>
     \/ demo' = [e \in Envs |-> NoDemo] /\ total' = 0 /\ counted' = {} /\ lost' = 0
     \/ /\ total' = total + Ended(open, Samples)
        /\ counted' = counted \cup open
        /\ UNCHANGED <<demo, lost>>
  /\ UNCHANGED <<run, execution, tick>>

Init ==
  /\ phase = "idle" /\ run = 1 /\ execution = 0 /\ tick = 0
  /\ len = [e \in Envs |-> 0] /\ early = [e \in Envs |-> 0]
  /\ frozen = {} /\ result = [e \in Envs |-> Ungiven]
  /\ stopped = [e \in Envs |-> 0] /\ judged = [e \in Envs |-> 0]
  /\ buf = [e \in Envs |-> <<>>] /\ count = [e \in Envs |-> 0]
  /\ armed = {} /\ streaming = {} /\ carried = {}
  /\ demo = [e \in Envs |-> NoDemo] /\ open = {}
  /\ total = 0 /\ counted = {} /\ lost = 0

Next == StartRun \/ Step \/ NextRun \/ Crash

Spec == Init /\ [][Next]_vars
-------------------------------------------------------------------------------
(* The variables keep their types and stay within the caps of the code.    *)
TypeOK ==
  /\ phase \in {"idle", "stepping", "done"}
  /\ run \in 1 .. MaxRuns /\ execution \in 0 .. MaxRuns + MaxCrashes
  /\ tick \in 0 .. MaxSteps
  /\ len \in [Envs -> 0 .. MaxSteps]
  /\ early \in [Envs -> 0 .. MaxEarlyResets]
  /\ frozen \subseteq Envs
  /\ result \in [Envs -> [success : BOOLEAN, step : 0 .. MaxSteps]]
  /\ stopped \in [Envs -> 0 .. MaxSteps] /\ judged \in [Envs -> 0 .. MaxSteps]
  /\ DOMAIN buf = Envs /\ count \in [Envs -> 0 .. FlushInterval - 1]
  /\ armed \subseteq Envs /\ streaming \subseteq Envs /\ carried \subseteq Envs
  /\ DOMAIN demo = Envs /\ \A e \in Envs : demo[e].success \in Flags
  /\ open \subseteq Envs /\ total \in Nat
  /\ counted \subseteq Envs /\ lost \in Nat

\* Environment e's demo is finished: it froze, and its export went through.
Exported(e) == e \in frozen /\ e \notin armed

(* Nothing is lost, repeated or mixed up on the way to the file: a         *)
(* finished demo is its environment's steps of this execution, from the    *)
(* first to the one it froze at, in order, however they were flushed and   *)
(* whatever the other environments did, a crashed execution left in the    *)
(* file, or an early reset restarted.  (An environment whose recorder      *)
(* entered the run unfinished is the exception that OneRunPerDemo finds.)  *)
DemoIsWholeRun ==
  \A e \in Envs \ carried :
    Exported(e) => demo[e].samples = [i \in 1 .. stopped[e] |-> <<execution, i>>]

(* The loop runs as long as the longest episode, so every environment that *)
(* was not re-reset has frozen when it ends.                               *)
EveryEpisodeEnds == phase = "done" => \A e \in Envs \ frozen : early[e] > 0

(* The HDF5 success flag misses no success of the results row.             *)
FlagMissesNoSuccess ==
  \A e \in Envs : Exported(e) /\ result[e].success => demo[e].success = "success"

(* The scores of a run are judged on one frame: not that of its own end,   *)
(* but that of the last export, for the others a frame of the physics that *)
(* goes on after their end.                                                *)
JudgedOnLastEnd ==
  \A e \in Envs : Exported(e) =>
    /\ \E f \in frozen : judged[e] = stopped[f]
    /\ \A f \in Envs : Exported(f) => stopped[f] <= judged[e]

\* The demos that an export has finished.
Finished == {e \in Envs : demo[e].success \in {"success", "failure"}}

(* Every finished demo is in the file's total, once, however many flushes  *)
(* it came from and whoever ended it, an export or the exit handler of a   *)
(* process that died.  What the total says besides is what resumes deleted *)
(* of demos that had been ended; a run no process died in says no more     *)
(* than its finished demos.                                                *)
TotalCountsSamples ==
  /\ total = LengthOf(counted, Samples) + lost
  /\ Finished \subseteq counted
  /\ phase # "idle" /\ execution = run => counted = Finished /\ lost = 0

(* A frozen environment's row and demo are decided once: see RunOutcomes.  *)
Outcomes == INSTANCE RunOutcomes WITH
  Pending <- Ungiven,
  record <- [e \in Envs |-> IF e \in frozen THEN [row |-> result[e], demo |-> demo[e]] ELSE Ungiven]
KeepsOutcomes == Outcomes!Spec
-------------------------------------------------------------------------------
(* What the documentation and comments say; TLC, with BatchOneRun.cfg and  *)
(* BatchFlag.cfg, finds the code disagreeing.                              *)

(* docs/data.md: "each demo_i ... with independent trajectory data"; the   *)
(* comment in _active_env_ids names the leak of one run's steps into the   *)
(* next run's demo as a failure mode it prevents.                          *)
OneRunPerDemo ==
  \A e \in Envs : Exported(e) =>
    \A i, j \in DOMAIN demo[e].samples : demo[e].samples[i][1] = demo[e].samples[j][1]

(* record_pre_reset: the HDF5 flag is "the same signal env.py uses for the *)
(* canonical jsonl".                                                       *)
FlagIsTheRows ==
  \A e \in Envs : Exported(e) => (demo[e].success = "success" <=> result[e].success)
===============================================================================
