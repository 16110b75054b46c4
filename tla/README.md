# TLA+ verification of the RoboLab evaluation core

The repository (RoboLab Verified, `src/robolab`) evaluates robot policies in a
simulator: it asks a policy for actions, steps a batch of parallel environments, scores each of them on a
ladder of conditions, records every episode to HDF5 and appends one row per
episode to a results file that a later process resumes from.  This directory
holds TLA+ modules of that core, TLC configurations that check them on small
instances, and proofs that TLAPS checks for every instance.  `PROJECT.json`
lists the components, runs, theorems and hazards, and maps every definition to
the lines it translates.

    tlc -workers 2 -config LadderStages.cfg MCSubtaskLadder
    tlapm LadderProofs.tla

## 1. Inventory

Paths are under `src/robolab`.

### Components

**Conditionals ladder** (`core/task/conditionals_state_machine.py`, `subtask.py`).
*State*: per group of conditions, the tracker (current rung), the table of
completed rungs, the rungs excluded because they were true at the probe, and
whether the probe has run.  *Operations*: construction and reset, the probe,
one step (advance, skip, walk past excluded rungs, regress), completion of the
stage under `all`/`any`/`choose K`, scores renormalised over what can be earned.
*Hard*: tracker and table are updated by separate loops; advancing skips rungs
and regressing clears several; exclusion interacts with both.  *Correct when*:
tracker and table agree, credit has evidence, a group can always reach exactly
its full score, and a finished group stays finished.

**Subtask ladder** (`core/task/subtask_state_machine.py`).
*State*: the index of the current stage and its machine.  *Operations*: step,
with the move to the next stage inside the step; reset; live score.  It is
stepped once per simulation step by the **recorder term**
(`core/events/subtask_recorder.py`), which judges the ladder again on the final
frame when a demo is exported.  *Hard*: the settle gate reads a clock of the
whole batch; the final judgement reuses a machine whose first step probes.
*Correct when*: the score never falls below the stages banked, is full exactly
when the ladder is complete, nothing is credited before the scene has settled,
and no ladder stalls.

**Environment batch** (`core/environments/env.py`) and **episode loop**
(`eval/episode.py`).  *State*: frozen environments, their results and
termination steps, early resets, episode clocks.  *Operations*: step (with
terminations, early reset or freeze), `reset_eval_state`, `run_episode`.
*Hard*: a frozen environment is still simulated and still flagged as terminated
on every step; environments end at different steps; an export may raise and is
only logged.

**Recorder manager** (`core/logging/recorder_manager.py`) and **HDF5 handler**
(`core/logging/streaming_hdf5_handler.py`).  *State*: buffers, step counts,
episode indices and streaming flags per environment; open demos and the total
per file.  *Operations*: record a step, auto-flush, export, switch files, exit
handler.  *Hard*: flushes, exports and file switches interleave; buffers
outlive resets and runs; a death leaves demos half written.  *Correct when*: a
finished demo is exactly the steps of one episode, in order, once.

**Evaluation runner** (`eval/runner.py`), **run summary** (`eval/summarize.py`),
**results file** (`core/logging/results.py`), **adaptive sampling**
(`core/utils/adaptive_sampling.py`).  *State*: the lines of
`episode_results.jsonl`, the same rows in memory, the position in the loops over
tasks and runs, `run_complete.json`.  *Operations*: start or resume, skip what
is recorded, run, append one row per environment, finish.  *Hard*: death at any
point, also inside an append; a resume knows only the file; the exit of the
`while True` loop depends on counts loaded from it.  *Correct when*: nothing
recorded is lost, nothing is skipped, repeats are bounded by the deaths, the
loop ends.

**Grasp tracker** (`core/task/grasp.py`).  *State*: per object, hand and
environment, contact, closure and grasp flags, the stamps of the current contact,
the open burst of failed attempts, the memory of commands; a window of offsets
and a queue of events for the whole batch.  *Operations*: one update per step,
the queue popped by the event check of the same step, a flush when any
environment's episode is exported.  *Hard*: flags of an episode are reset lazily,
on its first step; bursts close for three reasons; verdicts read the commands of
the whole batch; flush and pop are a step apart.  *Correct when*: grasps and
partings alternate, each failed attempt is counted once, and each line carries
the step of what it is about.

**Success confirmer** (`core/task/confirm.py`, `rest.py`).  *State*: the rest
streak of the targets, the first hold and the first confirmation.
*Operations*: one call per step by the success term, which forgets lazily on
the first step of an episode.  *Hard*: it goes on for a frozen environment; the
streak of a placement counts differently.  *Correct when*: a success has rested
for the whole time in its own episode, and its stamps are of the end it was
scored at.

**Off-table monitor** (`core/task/off_table.py`).  *State*: heights at the start,
who was reported, whether the loss was.  *Operations*: asked twice per step, by
the termination term and by the event check.  *Hard*: both paths share one
monitor, which the first of them to ask resets.  *Correct when*: line, end and
what could still be achieved agree.

**Event and collateral tracking** (`core/task/event_tracker.py`, `collateral.py`).
*State*: warm-up and settling flags, motion masks, per container what was
inside at the reset, what was flagged and what was counted.  *Operations*: one
check per step, a reset per environment.  *Hard*: flags are read before they are
refreshed; the checks run for frozen environments too; `reset_envs` clears only
a part.  *Correct when*: nothing inside at the reset counts, the count in the row
is the number of lines, and a motion the hand carried is no bump.

**Event lines** (`core/events/event_lines.py`).  Pure rules: which lines of a tick
are twins, which of the finished list are folded, what they are called.
*Correct when*: a pick reads in full, and whatever is dropped is told by a line
that is kept.

**Subtask forms** (`core/task/subtask.py`, `subtask_utils.py`, composites of
`conditionals.py`).  Pure: the notations of conditions, the groups they become,
the composites built from them, the count of subtasks.  *Correct when*: what the
constructor admits is a stage the ladder can climb.

**Inference client and policy clients** (`eval/base_client.py`,
`policies/pi0_family`, `cosmos3`, `dreamzero`, `g05_droid`, under `src/`).
*State*: a chunk of actions per environment and the position in it; session
ids; whether the server asks for an observation; the connection.
*Operations*: `infer` per active environment, `reset` between runs,
reconnection with retries inside a request.  *Hard*: one environment's
reconnection concerns the cache of all; a failed `reset` is only logged; chunks
may be shorter than the horizon.  *Correct when*: what is played belongs to this
run and connection, and client and server agree on what the server holds.

**VLM agent client** (`policies/vlm_agent`, under `src/`).  *State*: per
environment the plan, its steps left, gripper, failures in a row, settling;
what the transport has learnt about its server.  *Operations*: `infer` (settle,
play, release by itself, decide), retries, negotiation of request fields.
*Hard*: early resets do not reach it; a server can refuse two fields and name
one.  *Correct when*: only failures in a row end an evaluation, each step is
accounted for, negotiation fails no decision, and no plan outlives a reset.

**World state, predicates, metrics, offline analyses, environment factory,
other recorders, scene generation, policies, robots, tasks, scenes, dashboard,
exporters**: geometry, numerics, configuration and readers of finished runs.
Not modelled (section 8).

### How they interact

                            PolicyLoop, VlmAgent      SubtaskForms
                              ^ infer per env            | stages
                              |                          v
    EvalRunner --run_episode--> EpisodeBatch --step--> SubtaskLadder --step--> ConditionalsLadder
        |                       |          |             |
        | one row per env       | export   | step        | scores, final judgement
        v                       v          v             v
    episode_results.jsonl   run_k.hdf5   EventTracker, GraspTracker --lines--> EventLines --> row

All calls are synchronous, in one thread.  What is concurrent is the batch (its
environments end, are reset and are exported at different steps of one loop),
the world (any condition may change between two steps) and the process, which
may die anywhere and is restarted from its files.

## 2. Modules

| module | models |
|---|---|
| `ConditionalsLadder` | one stage as a pure step function over a record |
| `SubtaskLadder` | the ladder of one environment over resets and runs |
| `LadderPromise` | abstract: a score that respects what is banked |
| `EpisodeBatch` | environments, recorder and HDF5 file over the runs of a task |
| `RunOutcomes` | abstract: records decided once per run |
| `EvalRunner` | the evaluation over tasks, runs, deaths and resumes |
| `EpisodeLog` | abstract: a log that only grows |
| `SubtaskForms` | the notations of a subtask, and the stage each becomes |
| `GraspTracker` | grasps, partings and failed attempts of an object over the batch, and their lines |
| `SuccessConfirmer`, `OffTable`, `Collateral` | the confirmer, the monitor, the container tracker of one environment, as functions |
| `EventTracker` | the checks of one environment: composes the three with warm-up, settling and movement |
| `EventLines` | which lines are kept, and their names |
| `ChunkCache` | `InferenceClient`'s cache of one environment, as functions |
| `PolicyLoop` | the clients of three families of servers in the step loop |
| `VlmBackend` | what `complete` learns about its server |
| `VlmAgent` | the VLM client in the step loop |
| `Sums`, `SumTheorems` | sums over finite sets, and what the proofs need of them |
| `LadderProofs`, `BatchProofs`, `RunnerProofs`, `GraspProofs`, `EventProofs`, `PolicyProofs`, `VlmProofs` | theorems about the modules of that name; `LadderProofs` also those of `SubtaskForms`, `EventProofs` those of `EventLines` |
| `MCSubtaskLadder`, `MCEpisodeBatch`, `MCEvalRunner`, `MCGraspTracker`, `MCEventTracker`, `MCPolicyLoop`, `MCVlmAgent` | instances for TLC |

**ConditionalsLadder.**  A frame is, per group, the set of rungs whose condition
holds.  `Fresh` is `_initialize_tracker`; `Probe` is `_probe_spawn_state`; the
target search of `_find_target_condition_iteratively` is `Satisfied` (creditable
rungs from the tracker on that hold), `Reached` (one past the latest), `Forward`
(walk over excluded rungs) and `Backward` (the run of lost rungs below the
tracker); `NextTracker` and `NextCompleted` are the two results of
`_step_object`; `Step` is `step`.  Scores are integers: multiples of 1/`Unit`,
with `Unit` chosen so that the divisions of the instances are exact.

**SubtaskLadder.**  `Tick` is one simulation step as the recorder term sees it:
a new frame (any subset of conditions), the clock, then
`SubtaskStateMachine.step`, which may replace the machine by the next stage's.
`EarlyReset` is the reset in `RobolabEnv._reset_idx` of an environment that
terminated within two steps; `lead` is by how much the longest clock of the
batch is ahead of ours afterwards, which is what `_past_settle_warmup` reads.
`NewRun` resets everything.  `seen` and `won` are history variables: what was
seen true since the probe, and which stages completed with a full score, which
is what the scene did not satisfy by itself.  `Live` is `get_total_score`, `Final` is `judge_final_score`.

**EpisodeBatch.**  `Step` is a whole `env.step()`: each environment gets a set of
termination terms (`success`, `target_lost`, and the time-out that its own clock
implies), its sample is buffered, buffers at the interval are flushed, then
each ending environment is reset early or frozen, judged and exported.  The
early reset leaves the buffer alone, as the code does.  A sample is the pair
(execution of `run_episode`, step of its loop), so a demo shows where each of
its samples comes from.  `StartRun` is `run_episode` up to its loop, `NextRun`
the switch to the next run's file, `Crash` a death followed by a restart: the
file as it was, unreadable and recreated, or closed by the exit handler.
`counted` and `lost` are history: the demos in the file that its total counts,
and what it counts of demos that a resume has deleted.  The
order flush, freeze, judge, export is inside the action, because nothing runs
between them.

**EvalRunner.**  `pc` is the position in `run_evaluation`.  Each skip, run,
append and close is a step, since a process may die between any two.  A line of
the file is a row or `Junk`, with or without its newline; `Appended` joins a row
to a line cut short, as opening in append mode does, and `Readable` is
`load_jsonl`, which drops what it cannot parse.

**GraspTracker.**  A reading is what the sensors and the policy say of one
environment on one step; `Updated` and `Emitted` are what `update` makes of it,
the state and the events, with one operator per quantity of the code (`Streak`,
`Closing`, `GripStep`, `Carried`, `Towing`, `Fumbled`, ...).  `Renewed` is the lazy
reset of an episode that has just begun.  `Step` is the whole of a step of the
batch: `update`, `check_events` (`LinesOf`: lines for the environments that are not
frozen), early resets and freezes, and the flush that an export causes.  The
order is the simulator's: the recorder terms run before `_reset_idx`, so what a
freeze flushes is popped on the next step.  A frozen environment commands open,
because its action is zeroed.  `episode` and `fumbles` are history: which episode
an event is of, and how often the hand failed in it.

**SubtaskForms.**  A condition is `Func` or a scored `Pair`; `One`, `List`,
`Unordered` and `Dict` are the notations.  `Sanitized` is
`sanitize_subtask_conditions` (a list under `all` is one ordered group, and
alternatives otherwise), `Admitted` what the constructor does not raise for,
`Built` the stage.  The stages of `MCSubtaskLadder` are written in these forms,
and its `ASSUME Authored` has TLC check that each is admitted.

**EventTracker.**  A reading is what the simulator and the hand do on a step.
`Terms` are the termination terms, which see the confirmer and the monitor
first; `Check` is `check_events` after them, in its order, with what a frozen
environment still changes; `Forgotten` is `reset_envs`, which leaves the
confirmer, the monitor, the rest streaks and `_warm_now` alone.  `Step`,
`EarlyReset` and `NextRun` are those of the batch, seen from one environment.
`past` is the history of the episode the properties speak of.

**EventLines.**  A log is the sequence of lines of an episode; each rule of
`event_lines.py` maps a set of its positions to a smaller one.

**PolicyLoop.**  `infer_batch` asks for the active environments in order, one
action each: `InferFlush` (pi0, cosmos3: a reconnection drops the cache of all),
`InferSession` (dreamzero: ids per environment, invalidated by a new connection)
and `InferServed` (g05: the server keeps the chunk and says when it wants to
see).  A request meets any number of lost connections that its retries allow.
`NextRun` is the end of `run_episode` with `client.reset()`, which may fail
half-way and is then only logged.  A chunk carries the run it was asked for in,
the runs its session has shown to the server, and its connection.

**VlmAgent.**  `GoOn`, `AutoRelease` and `PlanNext` are the three ways through
`infer`; `Decided` is the bookkeeping of `_plan_next`.  `VlmBackend` says what one
`complete()` comes to against a server that knows some of the fields.
`StepBatch` may end any environment, and resets it early within two steps,
without the client hearing of it.

### Simplifications, each a decision

* Conditions, termination terms and success values are inputs; geometry is not
  modelled.  Group messages, status codes, log lines and videos are left out.
* `EpisodeData.success` before the export is overwritten on the step of the
  export, so only the exported flag is modelled; so is the flag of a demo that
  the exit handler closes (such a demo stays "open" here).
* The sample that `initial_state` adds is not counted: samples are steps.
* A failed export writes nothing, and raises before or after the scores of the
  batch are judged.
* Only `EXPORT_ALL` is modelled, the mode the evaluation uses.
* The file of an earlier run is not modelled after the switch: nothing writes
  it again.
* Starting a finished directory again with the same goal changes nothing and is
  left out; with a larger one it is an action.
* One object and one hand: pairs share only the queue, and keep no order in it
  that a line depends on.  The object is not a destination (those get no grip
  or attempt lines).  `last_grasped_step` and the pad contact columns are left
  out of `GraspTracker`, and so are stamps of a burst that is not open.  Whether an offset was
  steady is an input wherever the code has frames to compare.
* The credible interval is a parameter `TooWide(k, n)`; the width of a Beta
  posterior is numeric, the stopping rule around it is not.
* The rows in memory are a bag: no decision of the runner looks at their order.
* `EventTracker` is about one environment; its peers are one Boolean (does the
  movement check go on for somebody else?).  Left out: wrong grabs, hits of
  the table, closing on nothing, out of scene, tipped, dropped, gripper against
  objects, several grabbed: flags raised once per occurrence over geometry.
* Heights are counted in units of `OFF_TABLE_DROP_M`; a speed is on one side of
  its threshold or the other.
* Images, packing, poses, prompts and parsing are left out of the clients; a
  decision is a unit, a failure, or a server that does not answer.  The other
  policy clients (gr00t, molmoact2, volo, xiaomi) inherit the chunk cache and
  raise on a failure.
* Scores of conditions are relative within a group, as the code keeps them.

## 3. Runs

| run | shows |
|---|---|
| `ladder_stages` | `TypeOK`, the refinement of `LadderPromise`, `NeverStalls` |
| `ladder_groups` | `GroupFullIffEarned`, `CompletedIsPrefix`, `CreditIsWitnessed`; `LastRungFinishes`: a group is finished for good once its last earnable rung was seen; `ProbedNearRest`: a probe is early by no more than one run's early resets |
| `batch_recording` | `TypeOK`, `DemoIsWholeRun`, `EveryEpisodeEnds`, `FlagMissesNoSuccess`, `JudgedOnLastEnd`, `TotalCountsSamples`, the refinement of `RunOutcomes` |
| `runner_resume` | `TypeOK`, `CopiesNeedCrashes`, `FinishedMeansAll`, the refinement of `EpisodeLog` |
| `runner_adaptive` | `AdaptiveBounded`, `LossIsBounded`, `Finishes` |
| `grasp_lines` | `HandoversAlternate`: grasps and partings alternate; `FumblesAccounted`: each failed attempt is in one line or one open burst; `GripDatesItsCarry`: a carry is dated by its own grip; `BurstsStandApart`: bursts are apart from grasps and partings |
| `event_watch` | `TypeOK`, `SuccessHasSettled`, `SuccessStampsStay`, `LossEndsHopeless`, `InsideAtResetNeverCounts`, `CountIsTold` |
| `policy_chunks` | `TypeOK`, `PlaysOwnRun`, `OfThisConnection`, `AgreesWithServer` |
| `vlm_agent` | `GivesUpOnlyInARow`, `StepsAccounted`, `NegotiationIsFree`, `NoResetUnderAPlan` |
| `ladder_final_kept`, `batch_one_run`, `event_carry` | a disagreement each, section 6 |

Every property of a passing run has a mutant in `PROJECT.json`: a plausible bug
of a mapped definition (a dropped cap, a gate ignored, a rung forgotten by a
regression) under which TLC finds that property violated.

### Bounds, and why they are enough

* **Ladder.**  Two stages show sequencing; groups of one to three rungs, in stages that ask for all, any one, or two of
  three groups, show a skip, a walk over an excluded rung and a regression of two rungs.  Rung and
  stage weights are unequal, and one group has the shape of the task
  BananasOutOfBin, whose last condition is true at spawn.  `Warmup = 2`
  keeps a step before the probe; `Warmup = 4`, in the run with peers, is more than
  its early reset can set a clock back, as the real 15 steps (one second) are
  more than three resets can, so that the bound of `ProbedNearRest` binds.  Clocks
  are capped at `Warmup + 2`, above every comparison made with them.  One early
  reset and two runs reach every reset from every state; longer traces are covered because frames are
  arbitrary.  All of the ladder's properties but `NeverStalls` are
  also proved, for all ladders (section 4).
* **Batch.**  Two environments, one ahead of the other in every way; episodes of
  five steps with a flush every two show two flushes and a remainder; one early
  reset per run shows both the reset and the cap; two runs and one death show
  what carries over.  Environments are interchangeable, hence the symmetry (the
  run checks safety only).
* **Runner.**  Two tasks, two environments, two runs and two deaths: a run left
  half recorded twice, and a finished directory that is extended.  Torn lines
  are in `runner_adaptive`, with three environments per batch and a cap of
  five that is not a multiple of three.
* **Grasps.**  One environment meets every kind of contact; the other is what an
  environment can be to its peer, one that commands and one that ends (and so
  exports).  Five steps are what the longest stories need: grasp, part, touch,
  lose within the window of the parting; fail, lose, and go quiet.  A hold of one
  step and windows of two keep the order of the comparisons; the second run takes
  one step, on which the tracker forgets all it forgets.
* **Events.**  Five steps with a warm-up of three, a required rest of two steps
  and a placement rest of one: the warm-up ends, an object comes to rest inside
  it or after it, and a success confirms after a fall of its streak.  One early
  reset and two runs show each forgetting, lazy and eager.  One target that
  must be placed, two objects of which one is needed, one of them a decoy for
  the container: a fall that loses the task, one that does not, and two that do
  together.  A reading varies one group of signals at a time (the success term,
  the heights, the container, the movement): no check reads two of them, and
  they meet over the steps of an episode.  `PlaceRest`
  positive and below `Warmup` is the order of the real constants.
* **Chunks.**  A horizon of two with chunks of one (too short) and three (cut
  off); two environments, one asking while the other is mid-chunk; two tries a
  request, three lost connections and three runs, so that a failed reset is
  followed by a run on stale state and by one that recovers; a server's chunk of
  three steps ends in the middle of a run of four.
* **VLM.**  Units of one to two steps, a settling of three steps that one early
  reset shortens, two failures in a row as the limit, and seven steps, so that
  failures are interrupted by a decision and plans by a reset.  The order of
  the real constants (8 steps, 3 resets of two, 10 failures) is kept:
  `2 * MaxEarlyResets < SettleSteps` is an assumption that TLC and the proof use.
* `CHECK_DEADLOCK FALSE` is given where the program really stops: after the last
  run of a task, after a finished evaluation, and where `infer` raises, which ends
  the process.

### Fairness

`SubtaskLadder` assumes `WF(TickOn(holds))`, a step on an unchanged frame: the loop of `run_episode`
keeps calling `env.step()`, which always steps the recorder term, whether or not
anything moved.  Weak fairness of `Tick` alone would be wrong in a subtle way:
once a step on the same frame changes nothing, it would force the frame to
change, and `NeverStalls`, whose premise is that all conditions hold from some
time on, would be vacuous.  No fairness is assumed of resets, of new runs, or of
the frames.
`EvalRunner` assumes `WF(Work)`: a live process goes on with its loop.  `Start`
and `Crash` have none; `Finishes` has "not down from some time on" as its
premise.

The other modules state safety only, and no fairness.

## 4. Proofs

Each proof module states an inductive invariant, proves that every action keeps
it (one step per action), and derives the properties the runs check.  The
constants are any that satisfy the named assumptions of the modules; TLC
evaluates those assumptions on every run.

**`LadderProofs`** (every ladder of well-formed stages, warm-up, number of runs
and early resets, both values of `Peers` and `ExcludeSpawnTrue`): `LadderTypes`,
`TrackerAndTableAgree` (`CompletedIsPrefix`), `CreditNeedsEvidence`
(`CreditIsWitnessed`), `ProbeIsNearRest` (`ProbedNearRest`), and
`LadderInvariant`, from which they follow.
`NoStepStalls` is the safety half of `NeverStalls`: one settled step on a frame
where everything holds completes the stage.  None of the properties is
inductive alone.  That a step keeps the table a prefix needs the tracker in
range; evidence for a rung passed by a skip is the later rung that allowed the
skip, which must be creditable, so it needs that `Satisfied` excludes what the
probe excluded, and that what a walk passes is excluded.  The lemmas about
`Forward` and `Backward` (both are `Min` of a set: that the set has a minimum,
where it lies, what lies between) carry this.  `ProbedNearRest` needs that
`lead` is at most two steps per early reset of this run: only early resets add
to it, each resets a clock that reads at most two, and a new run clears both.
With the repository's constants (three resets, one second at 15 steps) no stage
is probed before the ninth step of its environment's own clock.

The scores rest on a second invariant, `ScoreInvariant`: no ladder stays at a stage
that is complete, and the tracker of a group that is not finished is never at a
rung that the probe excluded.  So a group whose score is full has nothing left
to pass.  `LastRungSeenFinishes` (`LastRungFinishes`) rests on it too: a last
earnable rung seen below the tracker can only have excluded ones above it, where
no tracker waits, and one at or above the tracker is reached in that step; its
invariant `SeenInv` adds that nothing is seen before the probe.
`FullMeansEarned` (`GroupFullIffEarned`) is for ladders in which each
condition is worth something.  `PromiseIsKept` is the refinement of
`LadderPromise` (`KeepsPromise`), step by step; it needs less: that the last
stage is worth something, and that in it a rung worth nothing comes before
those that are worth something.  Both hypotheses are about what an author
writes, and cannot be dropped: with a last rung worth nothing the score is full
before the ladder is complete (section 6).  `CompositesEarn` says that
`pick_and_place` and `pick_and_place_grouped` meet them.

Of `SubtaskForms`: `AdmittedMakesStage` discharges `LadderAssumption`, the
assumption on stages that the theorems above make, for whatever
`Subtask.__post_init__` admits; `CompositesAreAdmitted` says that it admits the
composites; `CountIsWhatItTakes` says that `count_subtasks` is the
number of groups that have to finish, in every mode.

**`BatchProofs`**: `TypesKept` (`TypeOK`), `EpisodesEnd`, `DemosAreWhole`,
`FlagsMissNoSuccess`, `ScoresJudgedLast` (`JudgedOnLastEnd`), `TotalsCount`
(`TotalCountsSamples`), and `OutcomesAreKept`, the refinement of `RunOutcomes`.
`EndsInv` relates every
running environment's clock to the step of the loop, which makes the time-out
fall on the loop's last step unless there was an early reset.  `DemoInv` relates
the samples of the buffer and of the open demo to the steps taken: together
they are a prefix of the episode without gap, whatever was flushed when.
`TotalInv` holds over deaths and resumes: a demo that is counted is not open, so a
flush to it re-opens and deletes it, and what it held moves from the counted
samples to the lost ones; the sums over the demos that stay, go and are ended
are then added up.  Without a death nothing is flushed to a demo that was
ended, as its environment is frozen.

**`RunnerProofs`**: `RunnerTypes`; `FinishedKnowsAll`; `RepeatsNeedDeaths`
(`CopiesNeedCrashes`, where appends are whole); `ResultsAreKept`, the refinement
of `EpisodeLog` (whole appends, fixed sampling); `AdaptiveStops` (`AdaptiveBounded`)
and `LossesAreBounded` (`LossIsBounded`), both with lines cut short.  The invariant
relates the
position in the loops to the rows that must already be known, and the rows in
memory to those readable in the file; the number of copies of an episode is at
most the deaths plus what the current run still has to write.  For the last two,
`CountInv`: while the file ends in a line cut short, what is in memory is what is
readable, and otherwise at most two rows more; per task, both are below the cap
plus one batch, and, while the rows of a batch are written, below the cap plus
the rows written so far.

**`GraspProofs`**: `GraspsAlternate` (`HandoversAlternate`), `FumblesCountedOnce`
(`FumblesAccounted`), `GripsDateTheirCarries` (`GripDatesItsCarry`), `BurstsKeptApart`
(`BurstsStandApart`) and `TypesKept`, for every batch, hold time, window and reading.
The invariant `Inv` is, per environment, about the lines, the queue and the
tracker together: the lines are in order and come of steps of this episode; of
what waits in the queue at most one burst is of an episode that still runs;
`PairInv` says what the last lines tell of the tracker (whether it holds, since
when, and that an open burst began outside the window of the last parting); and
the failed attempts of the episode are those in lines, in the queue and in the
open burst.  The queue is what makes this hard: it is filtered by episode and
flushed by the ends of other environments, so an event may become a line long
after the state it came of, or never.

**`EventProofs`**: `EventTypes`, `SuccessesHaveSettled`, `SuccessStampsAlways`,
`CountsAreTold`, `InsideNeverCounts` (where `PlaceRest > 0`) and `LossesAreHopeless`
(where no group asks for more objects than it names).  What carries the first two
is that the confirmer's count is the length of the trailing rest in the history
of this episode, although it is only cleared on a first step; that a step of
an already frozen environment cannot move a stamp already given.
`InsideNeverCounts` is delicate: the tracker is shown the warm-up flag of the step
before, and after a reset even that of the episode before, so an object inside
on the first step is not noted; it is saved by the rest gate, which holds
nothing for contained on a first step.  Without the gate the property is false
(`EventWatch.cfg` with `PlaceRest = 0` shows it).
Of `EventLines`: `PicksReadInFull`, `DroppedIsExplained`, `FoldCoversTicks`, for every
log and window.

**`PolicyProofs`**: `PolicyTypes`, `PlaysOwnRunAlways`, `ConnectionsApart`, `FlagsAgree`
from `PolicyInvariant`, for every family, horizon, number of retries, runs and
environments.  After a failed reset the invariant lets go of the run but not of
the connection.

**`VlmProofs`**: `NegotiationCostsNothing`, for every set of fields a server may
know: what the transport has learnt is always a spelling that its server
knows, and the free reply before a pinned retry has settled the effort, so the
retry cannot be refused.  `ResetsMeetNoPlan`: an environment that is reset early has taken at most
`2 * MaxEarlyResets` steps in all, so its settling is not over and it has no
plan.  `GivingUp` (`GivesUpOnlyInARow`) and `EveryStepAccounted` (`StepsAccounted`),
from `AgentInv`: the failures that an environment counts are its tries since the
last plan that was not a failure, and the turns it has taken are the settling
steps behind it and the steps of its plans that are not still ahead.
`TypesKept` is the rest of the types.

**`SumTheorems`**: sums are written as the cardinality of a set of pairs (`Sums`), not
as a fold, because what a fold computes is out of the prover's reach; the
theorems say what one more element, a changed value, and a bound do to a sum.

## 5. Only model-checked

* Liveness (`NeverStalls`, `Finishes`): the prover has neither fairness nor
  `ENABLED` for it.  `NoStepStalls` is the step that `NeverStalls` rests on.
* The properties of the three runs that expect a violation.

Every other property of a run is a theorem, most for all values of the
constants, some under a hypothesis named in section 4.  `EventLines` and
`SubtaskForms` are the other way round: pure, and only proved
(TLC evaluates `SubtaskForms` when it builds the stages of the ladder runs).

## 6. Where the code and its documentation disagree

Three are runs whose counterexample TLC prints:

* `ladder_final_kept`: the final judgement steps a fresh machine once; past the
  warm-up that step probes, so everything still true on the final frame is
  excluded and earns nothing.  In TLC's trace the policy makes the conditions of
  the first stage true after its probe found them false, the stage completes with
  a full score (`won`), everything it achieved is still there on the last frame,
  and the judged score is 0 because the second stage is not done.
* `batch_one_run`: an early reset restarts the clock, so the time-out of that
  environment can fall after the loop; it never freezes, its buffer is not
  cleared between runs, and its steps open the next run's demo.
* `event_carry`: P51 says that motion which the hand causes is suppressed.  An
  object that is held is skipped before its motion is noted
  (`event_tracker.py:475`), so what was true when it was grasped stays: an object
  that had begun to move before its grasp is reported as displaced when it
  comes to rest long after its release.

Five more have a configuration here that shows them, outside the list of runs:

    tlc -config LadderPeers.cfg MCSubtaskLadder
    tlc -config BatchFlag.cfg MCEpisodeBatch
    tlc -config RunnerStale.cfg MCEvalRunner
    tlc -config GraspBuzzer.cfg MCGraspTracker
    tlc -config PolicyRetry.cfg MCPolicyLoop

* `LadderPeers`: `_past_settle_warmup` reads the longest clock of the batch
  (`conditionals_state_machine.py:147`), so beside an environment that keeps
  running, one that is reset early is probed before its own scene has settled,
  against "the scene is at rest" (line 137).  `ProbedNearRest` says by how much.
* `BatchFlag`: the HDF5 flag is every non-time-out term, `target_lost` included;
  the row uses the success term.
* `RunnerStale`: the marker of a finished evaluation stays while the same
  directory is extended (`runner.py:240`).
* `GraspBuzzer`: a burst of failed attempts that is open when its episode ends is
  flushed into the queue, and dropped on the next step because its environment
  is frozen by then.
* `PolicyRetry`: dreamzero's ids are invalidated by a reconnection because "old
  session IDs would hand stale buffers to the model" (`dreamzero/client.py:273`),
  but the request that is sent over the new connection was packed before, with
  the old id.

Met while modelling, not given a run of their own:

* `docs/data.md:234` calls `score_peak` monotone; the live score falls when
  conditions are lost within a stage.  What is kept is `KeepsPromise`.
* A condition, or a stage, may be given a score of nothing.  When it comes last,
  the score is full before the ladder is complete (the hypotheses of
  `PromiseIsKept` and `FullMeansEarned`).
* A stage whose conditions all hold at its probe is walked through and counts in
  full, though each of its groups is worth 0 while it lasts.
* A ladder that has completed is judged 1.0 whatever the final frame shows.
* An environment re-reset early may end the run with no demo (`EveryEpisodeEnds`
  is for those that were not), and its demo also holds the steps before the
  reset.
* Scores are judged again for all environments at every export
  (`JudgedOnLastEnd`), so for most the judged frame is later than their end.
* After a death and a resume the file's total still counts samples of demos that
  re-opening deleted; `TotalCountsSamples` says that it is off by exactly those.
* Flushed attempts that no step follows stay queued and become lines of the next
  run's episode; the counts of `GraspTracker` tell them apart by `of`.
* An export closes the open bursts of all environments, so what
  `changes.md` (P47) calls one line with a count may be two.
* `grasp.py:315` says the measured joint decides release or drop only when no
  action is available; it does whenever no environment of the batch commands
  open, or did lately.  From the first freeze on, it never does.
* A death between the rows of a run repeats the rows that were there
  (`CopiesNeedCrashes` bounds them), and a line cut short spoils the next row
  (`LossIsBounded`), after which the marker can stand for a row that no longer
  parses.
* A failed `client.reset()` is only logged (`episode.py`), and the next run starts
  on the old chunks, sessions and flags; `PlaysOwnRun` is about resets that went
  through.  A partial reset of g05 makes the client ask a server to go on with a
  chunk that it has dropped (`AgreesWithServer` says this is the only way).
* A chunk shorter than `open_loop_horizon` makes the next action index past its
  end; `PolicyLoop` keeps that as the outcome "short", which ends the evaluation.
* The settling of a VLM environment is counted from the start of the run: an
  early reset shortens what is left of it (`NoResetUnderAPlan` still holds).
* Fields of a row are read after the whole batch has ended, while a frozen
  environment is still watched: the row can count a placement of after its end
  that has no line (`CountIsTold` is about running ones; `docs/data.md:235`).
* `last_grasped_step` is not cleared with the episode; clocks of different
  episodes are compared (`lastHeld`), which can only suppress lines.
* The first docstring of `event_tracker.py` promises flags that clear when a
  condition does; those of collateral placement never do.
* The pattern of `fold_duplicate_grab_lines` (`'X' grasped`, `event_lines.py:125`) is
  a text the event tracker no longer writes: the fold drops nothing (lemma
  `NoDuplicateGrabs`).  With lines for grip, carry and progress that is what
  `changes.md` (P78) now wants.
* `choose` is "exactly K" in the docstrings and at least K in the ladder.
* The docstring of `Subtask` has the functions of a list evaluated in parallel; under
  `all` they are one ordered group.  A group given as a Python set is ordered
  too, arbitrarily.
* The first rung of `pick_and_place` is worth 0, and its second may be excluded as
  true at spawn: the group is then finished by the grab alone, and earns 0.

## 7. Plan

What is left that could be modelled, in order:

1. **`EpisodeBatch` composed with `EvalRunner`**: `summarize_run` reads demos by
   name, so after a failed export it reads the demo of an earlier execution.
2. **The final status** of the recorder term: the preserved reason of an error,
   and its staleness over runs.
3. **Predicate logic** (`predicate_logic.py`) against the ladder: a `choose` of
   exactly K beside a ladder of at least K.
4. **Segmentation** (`phases.py`): smoothing and merging of finished recordings,
   as pure operators.
5. **Proofs** of what these add; and for `LadderPromise`, a weaker promise that ladders
   keep whose last rung is worth nothing.

## 8. Not modelled, and why

World state and predicates (geometry over the simulator's state: their truth
values are the inputs of the models); trajectory metrics and offline analyses
(numeric functions over finished recordings); environment factory and
registration (composition of configuration); the other recorders and reset
events (values of samples and scenes); scene generation (an offline numeric
search); policies, robots, tasks, scenes
and assets (data and back ends); dashboard, exporters and replay (readers of
finished runs).  Together they are most of the repository's lines: what is
modelled is the control of an evaluation, from a policy's request to the row.
