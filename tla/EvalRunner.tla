------------------------------ MODULE EvalRunner ------------------------------
(***************************************************************************)
(* The evaluation driver over process deaths and resumes: run_evaluation   *)
(* of robolab/eval/runner.py, the row it appends per environment           *)
(* (robolab/eval/summarize.py, robolab/core/logging/results.py) and the    *)
(* stopping rule of robolab/core/utils/adaptive_sampling.py.               *)
(*                                                                         *)
(* What an episode does is EpisodeBatch's business; here a run of the task *)
(* is a step, followed by one appended row per environment.  The results   *)
(* file is the only state a resumed process starts from.  The rows that a  *)
(* process holds in memory are a bag: nothing it decides looks at their    *)
(* order, and all of it at how many there are.                             *)
(***************************************************************************)
EXTENDS Integers, Sequences, FiniteSets, SequencesExt, Bags, Sums

CONSTANTS
  NumTasks,
  NumEnvs,
  MaxRuns,        \* num_runs of the last invocation; an earlier one may ask for fewer
  Adaptive,       \* is --num-episodes-adaptive given?
  AdaptiveMax,    \* its MAX_N
  AdaptiveMin,    \* n_min of should_continue_sampling
  TooWide(_, _),  \* the credible interval of k successes in n is wider than the target
  TornWrites,     \* may a death cut an append short?
  MaxCrashes,     \* bound: deaths of the process
  Junk            \* a line of the file that is not JSON

ASSUME SizeAssumption ==
  /\ NumTasks \in Nat \ {0} /\ NumEnvs \in Nat \ {0} /\ MaxRuns \in Nat \ {0}
  /\ MaxCrashes \in Nat
ASSUME JunkAssumption == Junk \notin [task : 1 .. NumTasks, episode : Nat, success : BOOLEAN]
ASSUME AdaptiveAssumption ==
  /\ Adaptive \in BOOLEAN /\ TornWrites \in BOOLEAN
  /\ AdaptiveMin \in Nat /\ AdaptiveMax \in Nat \ {0}
  /\ \A k, n \in 0 .. AdaptiveMax : TooWide(k, n) \in BOOLEAN

VARIABLES
  pc,        \* "down", or where run_evaluation is: "tasks", "runs", "rows", "finished"
  goal,      \* num_runs of this invocation
  task,      \* the task of the loop; NumTasks + 1 after the last
  runIdx,    \* run_idx
  row,       \* environments of the run whose row is appended
  results,   \* episode_results, in memory: a bag of rows
  file,      \* the lines of episode_results.jsonl
  marker,    \* run_complete.json exists
  crashes

vars == <<pc, goal, task, runIdx, row, results, file, marker, crashes>>

Tasks == 1 .. NumTasks
Rows == [task : Tasks, episode : Nat, success : BOOLEAN]
-------------------------------------------------------------------------------
(* The results file: a line is a row or junk, and may lack its newline.    *)

\* The lines that say r.
LinesWith(f, r) == {i \in DOMAIN f : f[i].row = r}

\* load_jsonl: malformed lines are skipped.
Readable(f) ==
  [r \in {f[i].row : i \in DOMAIN f} \ {Junk} |-> Cardinality(LinesWith(f, r))]

\* Mutant: a row is written without its newline.
WithoutNewline(f, r) ==
  IF f # <<>> /\ ~Last(f).ended THEN Append(Front(f), [row |-> Junk, ended |-> FALSE])
  ELSE Append(f, [row |-> r, ended |-> FALSE])

\* append_episode_to_jsonl: on a line cut short, the row becomes part of it.
Appended(f, r) ==
  IF f # <<>> /\ ~Last(f).ended THEN Append(Front(f), [row |-> Junk, ended |-> TRUE])
  ELSE Append(f, [row |-> r, ended |-> TRUE])

\* What a death during the append of r leaves: nothing of it, part, or all but the newline.
CutShort(f, r) ==
  {f} \cup IF ~TornWrites THEN {}
           ELSE IF f # <<>> /\ ~Last(f).ended
                THEN {Append(Front(f), [row |-> Junk, ended |-> FALSE])}
                ELSE {Append(f, [row |-> r, ended |-> FALSE]),
                      Append(f, [row |-> Junk, ended |-> FALSE])}

\* check_run_complete.
Has(rs, t, ep) == \E r \in BagToSet(rs) : r.task = t /\ r.episode = ep

\* How many rows of the bag rs are among S.
NumberOf(rs, S) == SumOf([r \in BagToSet(rs) \cap S |-> rs[r]])

\* count_task_episodes.
Episodes(rs, t) == NumberOf(rs, {r \in BagToSet(rs) : r.task = t})
Successes(rs, t) == NumberOf(rs, {r \in BagToSet(rs) : r.task = t /\ r.success})

\* Mutant: the cap is passed before it stops.
ContinuePastCap(k, n) == n <= AdaptiveMax /\ (n < AdaptiveMin \/ TooWide(k, n))

\* should_continue_sampling.
ShouldContinue(k, n) == n < AdaptiveMax /\ (n < AdaptiveMin \/ TooWide(k, n))

EpisodeOf(r, e) == r * NumEnvs + e
TotalEpisodes == IF Adaptive THEN AdaptiveMax ELSE goal * NumEnvs

\* Mutant: a run counts as recorded when its first environment's row is there.
FirstRowRecorded(r) == Has(results, task, EpisodeOf(r, 0))

\* Mutant: one environment too many is looked for.
OneEnvTooMany(r) == \A e \in 0 .. NumEnvs : Has(results, task, EpisodeOf(r, e))

\* Every environment of run r has its row.
RunRecorded(r) == \A e \in 0 .. NumEnvs - 1 : Has(results, task, EpisodeOf(r, e))

\* check_all_episodes_complete.
TaskRecorded(t) == \A ep \in 0 .. TotalEpisodes - 1 : Has(results, t, ep)

\* The task's loop goes on.
MoreRuns ==
  IF Adaptive
  THEN ShouldContinue(Successes(results, task), Episodes(results, task))
  ELSE runIdx < goal
-------------------------------------------------------------------------------
(* init_experiment, in a new process: the first, a resume after a death,   *)
(* or a later one that asks for at least as many runs.                     *)
Start ==
  /\ \/ pc = "down"
     \/ pc = "finished" /\ goal < MaxRuns
  /\ goal' \in goal .. MaxRuns
  /\ pc = "finished" => goal' > goal
  /\ pc' = "tasks" /\ task' = 1 /\ runIdx' = 0 /\ row' = 0
  /\ results' = Readable(file)
  /\ UNCHANGED <<file, marker, crashes>>

SkipTask ==
  /\ pc = "tasks" /\ task \in Tasks /\ TaskRecorded(task)
  /\ task' = task + 1
  /\ UNCHANGED <<pc, goal, runIdx, row, results, file, marker, crashes>>

\* create_env and the policy client.
OpenTask ==
  /\ pc = "tasks" /\ task \in Tasks /\ ~TaskRecorded(task)
  /\ pc' = "runs" /\ runIdx' = 0
  /\ UNCHANGED <<goal, task, row, results, file, marker, crashes>>

\* Mutant: the skipped run is tried again.
SameRun == runIdx

\* run_idx += 1
FollowingRun == runIdx + 1

SkipRun ==
  /\ pc = "runs" /\ MoreRuns /\ RunRecorded(runIdx)
  /\ runIdx' = FollowingRun
  /\ UNCHANGED <<pc, goal, task, row, results, file, marker, crashes>>

\* run_episode; its rows follow.
RunEpisode ==
  /\ pc = "runs" /\ MoreRuns /\ ~RunRecorded(runIdx)
  /\ pc' = "rows" /\ row' = 0
  /\ UNCHANGED <<goal, task, runIdx, results, file, marker, crashes>>

\* Mutant: the loop over the environments goes one too far.
OneRowTooMany == row < NumEnvs

\* Another environment of the run follows.
MoreRows == row + 1 < NumEnvs

NewRow(success) == [task |-> task, episode |-> EpisodeOf(runIdx, row), success |-> success]

\* summarize_run, environment by environment: update_experiment_results.
AppendRow ==
  /\ pc = "rows"
  /\ \E success \in BOOLEAN :
       /\ results' = results (+) SetToBag({NewRow(success)})
       /\ file' = Appended(file, NewRow(success))
  /\ IF MoreRows
     THEN row' = row + 1 /\ UNCHANGED <<pc, runIdx>>
     ELSE pc' = "runs" /\ runIdx' = FollowingRun /\ row' = 0
  /\ UNCHANGED <<goal, task, marker, crashes>>

\* env.close(), and on to the next task.
CloseTask ==
  /\ pc = "runs" /\ ~MoreRuns
  /\ pc' = "tasks" /\ task' = task + 1
  /\ UNCHANGED <<goal, runIdx, row, results, file, marker, crashes>>

\* write_run_complete_marker
Finish ==
  /\ pc = "tasks" /\ task = NumTasks + 1
  /\ pc' = "finished" /\ marker' = TRUE
  /\ UNCHANGED <<goal, task, runIdx, row, results, file, crashes>>

(* The process dies: killed, out of memory, or by an exception that        *)
(* run_evaluation does not catch (a policy server gone, an Isaac error).   *)
Crash ==
  /\ pc \in {"tasks", "runs", "rows"} /\ crashes < MaxCrashes
  /\ pc' = "down" /\ crashes' = crashes + 1
  /\ task' = 1 /\ runIdx' = 0 /\ row' = 0 /\ results' = EmptyBag
  /\ IF pc = "rows"
     THEN \E success \in BOOLEAN : file' \in CutShort(file, NewRow(success))
     ELSE UNCHANGED file
  /\ UNCHANGED <<goal, marker>>

Init ==
  /\ pc = "down" /\ goal = 1 /\ task = 1 /\ runIdx = 0 /\ row = 0
  /\ results = EmptyBag /\ file = <<>> /\ marker = FALSE /\ crashes = 0

Work == SkipTask \/ OpenTask \/ SkipRun \/ RunEpisode \/ AppendRow \/ CloseTask \/ Finish

Next == Start \/ Work \/ Crash

Spec == Init /\ [][Next]_vars

\* A process that is up goes on with its loop.
FairSpec == Spec /\ WF_vars(Work)
-------------------------------------------------------------------------------
(* The variables keep their types, and a run's rows are appended one per   *)
(* environment.                                                            *)
TypeOK ==
  /\ pc \in {"down", "tasks", "runs", "rows", "finished"}
  /\ goal \in 1 .. MaxRuns /\ task \in 1 .. NumTasks + 1
  /\ runIdx \in Nat /\ row \in 0 .. NumEnvs - 1
  /\ IsABag(results) /\ BagToSet(results) \subseteq Rows
  /\ file \in Seq([row : Rows \cup {Junk}, ended : BOOLEAN])
  /\ marker \in BOOLEAN /\ crashes \in 0 .. MaxCrashes

RowOf(t, ep, success) == [task |-> t, episode |-> ep, success |-> success]
CopiesOf(rs, r) == IF BagIn(r, rs) THEN rs[r] ELSE 0
Copies(rs, t, ep) == CopiesOf(rs, RowOf(t, ep, TRUE)) + CopiesOf(rs, RowOf(t, ep, FALSE))

(* An episode is recorded again only for a death: it has at most one row   *)
(* more than the process has died, whatever is resumed and extended.       *)
CopiesNeedCrashes ==
  \A t \in Tasks, ep \in 0 .. MaxRuns * NumEnvs - 1 : Copies(results, t, ep) <= 1 + crashes

(* When the marker is written no episode was skipped: the process that     *)
(* wrote it knew a row for every episode that was asked for.               *)
FinishedMeansAll ==
  pc = "finished" /\ ~Adaptive =>
    \A t \in Tasks, ep \in 0 .. goal * NumEnvs - 1 : Has(results, t, ep)

(* A line cut short costs at most two rows: what a process reports is what *)
(* the file will give the next one, but for the row before the cut and the *)
(* row appended to it.                                                     *)
LossIsBounded ==
  pc # "down" =>
    NumberOf(results, BagToSet(results)) <= NumberOf(Readable(file), BagToSet(Readable(file))) + 2

(* Adaptive sampling passes its cap by less than one batch, even when a    *)
(* resume repeats rows.                                                    *)
AdaptiveBounded ==
  Adaptive => \A t \in Tasks : Episodes(results, t) < AdaptiveMax + NumEnvs

(* Without torn lines the file is an EpisodeLog: what is recorded stays    *)
(* recorded, over deaths and resumes, and completion waits for all of it.  *)
Recorded == {<<r.task, r.episode>> : r \in BagToSet(Readable(file))}
Log == INSTANCE EpisodeLog WITH
  Wanted <- Tasks \X (0 .. MaxRuns * NumEnvs - 1),
  recorded <- Recorded,
  complete <- marker /\ goal = MaxRuns /\ pc = "finished"
KeepsLog == Log!Spec

(* If from some time on the process is not killed, it gets to its end.     *)
Finishes == <>[](pc # "down") => <>(pc = "finished")
-------------------------------------------------------------------------------
(* What the comments say of the marker; TLC, with RunnerStale.cfg, finds   *)
(* the code disagreeing.                                                   *)

(* write_run_complete_marker: the rows are "already flushed", and the      *)
(* marker is the signal that the run reached its end: with the marker,     *)
(* every episode asked for has a row in the file.                          *)
MarkerMeansComplete ==
  marker /\ ~Adaptive =>
    \A t \in Tasks, ep \in 0 .. goal * NumEnvs - 1 : Has(Readable(file), t, ep)
===============================================================================
