----------------------------- MODULE SubtaskLadder -----------------------------
(***************************************************************************)
(* The subtask ladder of one environment over its runs: the state machine  *)
(* of robolab/core/task/subtask_state_machine.py steps the machine of its  *)
(* current stage once per simulation step, moves to the next stage when it *)
(* completes, and reports one score for the whole ladder; at the end of    *)
(* the episode the ladder is judged again on the last frame.               *)
(*                                                                         *)
(* The world is an input: after any step any set of conditions may hold.   *)
(* An environment that terminates within its first two steps is reset      *)
(* early (robolab/core/environments/env.py), which restarts its episode    *)
(* clock but not those of the other environments of the batch.             *)
(***************************************************************************)
EXTENDS ConditionalsLadder

CONSTANTS
  Ladder,           \* the stages, in order: a function from 1..NumStages
  NumStages,
  Warmup,           \* SETTLE_WARMUP_S, in steps
  MaxEarlyResets,   \* MAX_EARLY_RESETS
  Peers,            \* does the batch hold an environment that is not reset early?
  MaxRuns           \* bound: runs of the environment

ASSUME LadderAssumption ==
  /\ NumStages \in Nat \ {0}
  /\ DOMAIN Ladder = 1 .. NumStages
  /\ \A i \in 1 .. NumStages : IsStage(Ladder[i])
ASSUME BoundAssumption ==
  /\ Warmup \in Nat \ {0}
  /\ MaxEarlyResets \in Nat
  /\ Peers \in BOOLEAN
  /\ MaxRuns \in Nat \ {0}

VARIABLES
  stage,     \* current_subtask_index: the number of completed stages
  csm,       \* the machine of the current stage; NoMachine when complete
  holds,     \* the conditions, of every stage, that are true on this frame
  clock,     \* episode_length_buf of this environment, up to ClockCap
  lead,      \* how far the batch's longest episode clock is ahead of ours
  early,     \* early resets of this environment in this run
  run,       \* runs so far
  seen,      \* history: per group, the creditable rungs seen true since the stage's probe
  won        \* history: completed stages that scored in full, on what no scene satisfied

vars == <<stage, csm, holds, clock, lead, early, run, seen, won>>

\* The clock only matters up to the warm-up and the early-reset window.
ClockCap == Warmup + 2

NoMachine == [probed |-> FALSE]

RungIds ==
  UNION {UNION {{<<i, g, r>> : r \in Rungs(Ladder[i], g)} : g \in Groups(Ladder[i])}
           : i \in 1 .. NumStages}

\* Stage i's conditions on a frame where exactly W hold.
FrameOf(i, W) ==
  [g \in Groups(Ladder[i]) |-> {r \in Rungs(Ladder[i], g) : <<i, g, r>> \in W}]

Complete == stage >= NumStages

\* _past_settle_warmup reads episode_length_buf.max(), over the whole batch.
Settled(now) == now + lead >= Warmup
-------------------------------------------------------------------------------
\* Mutant: the next stage's machine is built from the first stage.
FirstMachineFor(n) == IF n < NumStages THEN Fresh(Ladder[1]) ELSE NoMachine

\* _initialize_state_machine, for the stage after n completed ones.
MachineFor(n) == IF n < NumStages THEN Fresh(Ladder[n + 1]) ELSE NoMachine

\* The history of the stage after n completed ones: per group, nothing seen yet.
NothingSeen(n) ==
  [g \in (IF n < NumStages THEN Groups(Ladder[n + 1]) ELSE {}) |-> {}]

\* The creditable rungs seen so far, once a step with machine m on frame h is done.
Witnessed(m, h) ==
  [g \in DOMAIN seen |-> IF m.probed THEN seen[g] \cup (h[g] \ m.excluded[g]) ELSE seen[g]]

(* SubtaskStateMachine.step on a frame where W holds: step the stage's     *)
(* machine and, when the stage is complete, start the next one.            *)
StepLadder(W, now) ==
  LET st == Ladder[stage + 1]
      m  == Step(st, csm, FrameOf(stage + 1, W), Settled(now))
  IN  IF StageDone(st, m)
      THEN /\ stage' = stage + 1
           /\ csm' = MachineFor(stage + 1)
           /\ seen' = NothingSeen(stage + 1)
           /\ won' = IF StageScore(st, m) = Unit THEN won \cup {stage + 1} ELSE won
      ELSE /\ csm' = m
           /\ seen' = Witnessed(m, FrameOf(stage + 1, W))
           /\ UNCHANGED <<stage, won>>

\* One simulation step after which exactly W hold: physics, the clock, then the
\* recorder steps the ladder.
TickOn(W) ==
  LET now == IF clock < ClockCap THEN clock + 1 ELSE clock IN
  /\ holds' = W
  /\ IF Complete THEN UNCHANGED <<stage, csm, seen, won>> ELSE StepLadder(W, now)
  /\ clock' = now
  /\ UNCHANGED <<lead, early, run>>

Tick == \E W \in SUBSET RungIds : TickOn(W)

\* SubtaskStateMachine.reset, for a new scene.
ResetLadder ==
  /\ stage' = 0
  /\ csm' = MachineFor(0)
  /\ seen' = NothingSeen(0)
  /\ won' = {}
  /\ clock' = 0
  /\ holds' \in SUBSET RungIds

\* Mutant: early resets are not counted, so the cap is never reached.
UncountedReset ==
  /\ clock \in 1 .. 2
  /\ early < MaxEarlyResets
  /\ early' = early
  /\ lead' = IF Peers THEN lead + clock ELSE lead
  /\ ResetLadder
  /\ UNCHANGED run

\* RobolabEnv._reset_idx: terminated within two steps, with resets to spare.
EarlyReset ==
  /\ clock \in 1 .. 2
  /\ early < MaxEarlyResets
  /\ early' = early + 1
  /\ lead' = IF Peers THEN lead + clock ELSE lead
  /\ ResetLadder
  /\ UNCHANGED run

\* The next run of the environment: every episode clock starts again.
NewRun ==
  /\ run < MaxRuns
  /\ run' = run + 1
  /\ early' = 0
  /\ lead' = 0
  /\ ResetLadder

Init ==
  /\ stage = 0
  /\ csm = MachineFor(0)
  /\ holds \in SUBSET RungIds
  /\ clock = 0
  /\ lead = 0
  /\ early = 0
  /\ run = 1
  /\ seen = NothingSeen(0)
  /\ won = {}

Next == Tick \/ EarlyReset \/ NewRun

Spec == Init /\ [][Next]_vars

(* The simulation keeps stepping, also while the frame stays the same.     *)
(* (Fairness of Tick alone would make the frame change for ever once a     *)
(* step on the same frame changes nothing.)                                *)
FairSpec == Spec /\ WF_vars(TickOn(holds))
-------------------------------------------------------------------------------
(* Scores, counted in 1/Unit of the summed stage weights.                  *)
StageWeights(S) == SumOf([i \in S |-> Ladder[i].weight])
Full == Unit * StageWeights(1 .. NumStages)
Banked == Unit * StageWeights(1 .. stage)

\* Mutant: completed stages are not carried into the score.
LiveOfStageOnly ==
  IF Complete THEN Full ELSE Ladder[stage + 1].weight * StageScore(Ladder[stage + 1], csm)

\* get_total_score: a completed stage counts in full.
Live ==
  IF Complete THEN Full
  ELSE Banked + Ladder[stage + 1].weight * StageScore(Ladder[stage + 1], csm)

\* judge_final_score: 1.0 when the live ladder completed; otherwise every
\* stage's machine is built afresh and stepped once on the last frame.
JudgedStage(i) ==
  StageScore(Ladder[i], Step(Ladder[i], Fresh(Ladder[i]), FrameOf(i, holds), Settled(clock)))
Final ==
  IF Complete THEN Full
  ELSE SumOf([i \in 1 .. NumStages |-> Ladder[i].weight * JudgedStage(i)])
-------------------------------------------------------------------------------
(* The variables keep their types: stages completed, a well-formed machine *)
(* for the current stage, and a frame made of the ladder's own conditions. *)
TypeOK ==
  /\ stage \in 0 .. NumStages
  /\ IF Complete THEN csm = NoMachine ELSE IsMachine(Ladder[stage + 1], csm)
  /\ holds \subseteq RungIds
  /\ clock \in 0 .. ClockCap
  /\ lead \in Nat
  /\ early \in 0 .. MaxEarlyResets
  /\ run \in 1 .. MaxRuns
  /\ IF Complete THEN seen = NothingSeen(stage) ELSE IsFrame(Ladder[stage + 1], seen)
  /\ won \subseteq 1 .. stage

(* The tracker and the completed table, which _step_object updates by      *)
(* separate loops, never disagree: a group has completed exactly the rungs *)
(* below its tracker, whatever it skipped, walked past or fell back over.  *)
CompletedIsPrefix ==
  ~Complete => \A g \in Groups(Ladder[stage + 1]) :
                 csm.completed[g] = 0 .. csm.tracker[g] - 1

(* Credit is earned: a completed rung that is not excluded was itself, or  *)
(* a later rung of its group was, seen true since the stage was probed --  *)
(* the argument _find_target_condition_iteratively gives for skipping      *)
(* unsatisfied rungs, which must survive regressions and walks too.        *)
CreditIsWitnessed ==
  ~Complete => \A g \in Groups(Ladder[stage + 1]) :
                 \A r \in csm.completed[g] \ csm.excluded[g] :
                   \E q \in seen[g] : q >= r

(* The probe waits for the clock of the batch, not for ours, which an early *)
(* reset sets back: it may look at a scene that is not at rest (P74).  It   *)
(* does so by no more than the early resets of one run can set our clock    *)
(* back, whatever the peers did and however many runs came before.          *)
ProbedNearRest == ~Complete /\ csm.probed => clock + 2 * MaxEarlyResets >= Warmup

(* A group's renormalised score is full when, and only when, it has passed *)
(* every rung it can earn; excluded rungs neither block nor add (P64).     *)
GroupFullIffEarned ==
  ~Complete => \A g \in Groups(Ladder[stage + 1]) :
    LET st == Ladder[stage + 1]
        earnable == Rungs(st, g) \ csm.excluded[g]
    IN  /\ GroupScore(st, csm, g) = Unit <=> (earnable # {} /\ earnable \subseteq csm.completed[g])
        /\ GroupScore(st, csm, g) = Unit => csm.tracker[g] = st.size[g]

(* The converse of CreditIsWitnessed: once the last rung that a group can  *)
(* earn has been seen true, be it on the probe's own frame, the group is    *)
(* finished, and it stays so whatever is lost until its stage is done --    *)
(* no regression takes it back, and it never waits on an excluded rung.     *)
LastRungFinishes ==
  ~Complete => \A g \in Groups(Ladder[stage + 1]) :
    LET later(q) == q + 1 .. Ladder[stage + 1].size[g] - 1
    IN  \A q \in seen[g] : later(q) \subseteq csm.excluded[g] =>
          g \in Finished(Ladder[stage + 1], csm)

(* The ladder keeps the promise the results row relies on.                 *)
Promise == INSTANCE LadderPromise WITH score <- Live, banked <- Banked, complete <- Complete
KeepsPromise == Promise!Spec

(* No ladder stalls: if from some time on every condition holds and the    *)
(* episode goes on, the ladder completes, whatever was excluded or lost    *)
(* before (P64: an excluded last rung "would stall one short of completion *)
(* forever").                                                              *)
NeverStalls == <>[](holds = RungIds) => <>Complete
-------------------------------------------------------------------------------
(* What the documentation and comments say; TLC, with LadderFinalKept.cfg  *)
(* and LadderPeers.cfg, finds the code disagreeing.                        *)

(* README: "score is judged on the final frame": past the warm-up, a stage *)
(* that the policy won -- it completed on conditions that the scene did    *)
(* not satisfy -- counts in the judged score when all of its conditions    *)
(* hold on the last frame.                                                 *)
FinalCountsKeptStages ==
  LET kept == {i \in won : FrameOf(i, holds) = [g \in Groups(Ladder[i]) |-> Rungs(Ladder[i], g)]}
  IN  Settled(clock) => Final >= Unit * StageWeights(kept)

(* _past_settle_warmup: "Probing at the end of the settle warm-up instead: *)
(* the scene is at rest".                                                  *)
ProbedAtRest == ~Complete /\ csm.probed => clock >= Warmup
===============================================================================
