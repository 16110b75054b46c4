------------------------------- MODULE VlmAgent -------------------------------
(***************************************************************************)
(* The VLM policy (policies/vlm_agent/client.py) in the step loop of       *)
(* robolab/eval/episode.py: an answer of the model becomes a plan of       *)
(* control steps for its environment, and the next is asked for when the   *)
(* plan is played out.  An environment that ends within two steps is reset *)
(* at once (robolab/core/environments/env.py), and the client is not told. *)
(***************************************************************************)
EXTENDS VlmBackend, FiniteSets, Sums

CONSTANTS
  Envs,            \* 0 .. num_envs - 1
  Servers,         \* external: the servers to try: fields, effort
  Units,           \* the units the model may decide for
  Steps,           \* control steps of a unit
  SettleSteps,     \* SETTLE_STEPS
  MaxFailures,     \* MAX_CONSECUTIVE_FAILURES
  MaxEarlyResets,  \* MAX_EARLY_RESETS
  MaxSteps,        \* the length of the step loop
  MaxRuns          \* bound: runs

ASSUME AgentAssumption ==
  /\ Envs \subseteq Nat /\ IsFiniteSet(Envs) /\ Envs # {}
  /\ {"STILL", "RELEASE"} \subseteq DOMAIN Steps /\ Units \subseteq DOMAIN Steps
  /\ Units \cap {"none", "failed", "auto"} = {}
  /\ \A u \in DOMAIN Steps : Steps[u] \in Nat \ {0}
  /\ Steps["STILL"] = 1
  /\ SettleSteps \in Nat /\ MaxFailures \in Nat \ {0} /\ MaxEarlyResets \in Nat
  /\ 2 * MaxEarlyResets < SettleSteps
  /\ MaxSteps \in Nat \ {0} /\ MaxRuns \in Nat \ {0}
  /\ \A s \in Servers : s.effort \in BOOLEAN /\ s.fields \subseteq DialectSet

VARIABLES
  srv, mode,   \* external: the server of this evaluation; "token" or "tool"
  run, tick,   \* the run, and the steps its loop has taken
  clock,       \* episode_length_buf
  early,       \* _early_resets
  active,      \* active_env_ids
  asked,       \* environments that infer_batch has done on this step
  raised,      \* infer raised, and with it the evaluation
  backend,     \* what the transport has learnt
  agent,       \* _envs
  tries,       \* history: what came of each decision of this run
  refused      \* history: a decision failed on a field, not on the server or the reply

loopVars == <<srv, mode, run, tick, clock, early, active>>
vars == <<loopVars, asked, raised, backend, agent, tries, refused>>

Modes == {"token", "tool"}
Terminal == {"DONE", "GIVE_UP"}

\* _EnvState
NewState == [plan |-> "none", left |-> 0, gripper |-> "open", finished |-> FALSE,
             failures |-> 0, settle |-> SettleSteps]

\* infer_batch asks for the active environments in order.
Turn(e) ==
  /\ ~raised /\ tick < MaxSteps
  /\ e \in active \ asked
  /\ \A d \in active : d < e => d \in asked
  /\ asked' = asked \cup {e}
-------------------------------------------------------------------------------
(* What a decision makes of the state s of its environment.                *)

\* infer counts the settling of a reset down.
Settled(s) == IF s.settle > 0 THEN [s EXCEPT !.settle = @ - 1] ELSE s

\* _action_for_step: one control step of the plan, or a step of holding still.
Played(s) ==
  IF s.plan \in Terminal \cup {"none"} \/ s.left <= 0 THEN s ELSE [s EXCEPT !.left = @ - 1]

Gripper(s, unit) ==
  CASE unit = "GRASP" -> "closed" [] unit = "RELEASE" -> "open" [] OTHER -> s.gripper

\* Mutant: the failures of an episode are summed.
FailuresKept(s) == s.failures

\* A decision starts the count of failures anew.
FailuresAfter(s) == 0

\* _plan_next, when the model has decided for unit.
Planned(s, unit) ==
  [s EXCEPT !.failures = FailuresAfter(s), !.plan = unit, !.left = Steps[unit],
            !.gripper = Gripper(s, unit), !.finished = unit \in Terminal]

\* Mutant: holding has no plan, so nothing counts it down.
HeldForever(s) == [s EXCEPT !.failures = @ + 1, !.plan = "none", !.left = 1]

\* _plan_next, when the decision has failed: hold for one step.
Held(s) == [s EXCEPT !.failures = @ + 1, !.plan = "STILL", !.left = 1]

\* _auto_release
Released(s) ==
  [s EXCEPT !.plan = "RELEASE", !.left = Steps["RELEASE"], !.gripper = "open"]
-------------------------------------------------------------------------------
Idle(e) == agent[e].settle = 0 /\ agent[e].left = 0 /\ ~agent[e].finished

\* infer while the reset settles, and while there is a plan.
GoOn(e) ==
  /\ Turn(e) /\ ~Idle(e)
  /\ agent' = [agent EXCEPT ![e] = Played(Settled(@))]
  /\ UNCHANGED <<loopVars, raised, backend, tries, refused>>

\* infer that finds the closed gripper empty.
AutoRelease(e) ==
  /\ Turn(e) /\ Idle(e) /\ agent[e].gripper = "closed"
  /\ agent' = [agent EXCEPT ![e] = Played(Released(@))]
  /\ tries' = [tries EXCEPT ![e] = Append(@, "auto")]
  /\ UNCHANGED <<loopVars, raised, backend, refused>>

\* The outcome: a unit, or a failure that is raised when it is one too many.
Decided(e, outcome) ==
  /\ tries' = [tries EXCEPT ![e] = Append(@, outcome)]
  /\ IF outcome # "failed"
     THEN raised' = FALSE /\ agent' = [agent EXCEPT ![e] = Played(Planned(@, outcome))]
     ELSE IF Held(agent[e]).failures < MaxFailures
     THEN raised' = FALSE /\ agent' = [agent EXCEPT ![e] = Played(Held(@))]
     ELSE raised' = TRUE /\ agent' = [agent EXCEPT ![e].failures = @ + 1]

\* _plan_next: a free reply, and one constrained retry when it cannot be parsed.
\* The server may be down, for the whole of _post's retries, under either.
PlanNext(e) ==
  /\ Turn(e) /\ Idle(e)
  /\ \/ /\ Decided(e, "failed")
        /\ UNCHANGED <<backend, refused>>
     \/ \E names \in {"effort", "dialect"} :
          LET learnt == Negotiated(backend, srv, FALSE, names)
              pinned == mode = "token"
          IN
          /\ Answered(backend, srv, FALSE, names)
          /\ \/ /\ \E u \in Units : Decided(e, u)
                /\ backend' = learnt /\ UNCHANGED refused
             \/ /\ Decided(e, "failed")
                /\ backend' = learnt /\ UNCHANGED refused
             \/ /\ backend' = Negotiated(learnt, srv, pinned, names)
                /\ refused' = (refused \/ ~Answered(learnt, srv, pinned, names))
                /\ IF Answered(learnt, srv, pinned, names)
                   THEN \E u \in Units \cup {"failed"} : Decided(e, u)
                   ELSE Decided(e, "failed")
  /\ UNCHANGED loopVars
-------------------------------------------------------------------------------
\* Mutant: early resets are not capped.
AlwaysTooSoon(e) == clock[e] + 1 <= 2

\* Terminated before the robot could act, with re-resets to spare.
TooSoon(e) == clock[e] + 1 <= 2 /\ early[e] < MaxEarlyResets

\* env.step(): some environments end, for good or to be reset.
StepBatch ==
  /\ ~raised /\ tick < MaxSteps /\ active # {} /\ asked = active
  /\ \E ending \in SUBSET active :
       LET again == {e \in ending : TooSoon(e)} IN
       /\ active' = active \ (ending \ again)
       /\ early' = [e \in Envs |-> IF e \in again THEN early[e] + 1 ELSE early[e]]
       /\ clock' = [e \in Envs |-> IF e \in again THEN 0 ELSE clock[e] + 1]
  /\ tick' = tick + 1 /\ asked' = {}
  /\ UNCHANGED <<srv, mode, run, raised, backend, agent, tries, refused>>

\* run_episode returns and resets the client; the next run begins with begin_episode.
NextRun ==
  /\ ~raised /\ (tick = MaxSteps \/ active = {})
  /\ run < MaxRuns
  /\ run' = run + 1 /\ tick' = 0 /\ asked' = {} /\ active' = Envs
  /\ clock' = [e \in Envs |-> 0] /\ early' = [e \in Envs |-> 0]
  /\ agent' = [e \in Envs |-> NewState]
  /\ tries' = [e \in Envs |-> <<>>]
  /\ UNCHANGED <<srv, mode, raised, backend, refused>>

Init ==
  /\ srv \in Servers /\ mode \in Modes
  /\ run = 1 /\ tick = 0 /\ asked = {} /\ active = Envs
  /\ clock = [e \in Envs |-> 0] /\ early = [e \in Envs |-> 0]
  /\ raised = FALSE /\ backend = NewBackend
  /\ agent = [e \in Envs |-> NewState]
  /\ tries = [e \in Envs |-> <<>>] /\ refused = FALSE

Next ==
  \/ \E e \in Envs : GoOn(e) \/ AutoRelease(e) \/ PlanNext(e)
  \/ StepBatch
  \/ NextRun

Spec == Init /\ [][Next]_vars
-------------------------------------------------------------------------------
EnvState == [plan : Units \cup {"none", "STILL", "RELEASE"}, left : Nat,
             gripper : {"open", "closed"}, finished : BOOLEAN,
             failures : 0 .. MaxFailures, settle : 0 .. SettleSteps]

\* What a decision may come to; "auto" is an automatic release.
Tries == Units \cup {"failed", "auto"}

(* The variables keep their types, and a plan has at most its own steps left. *)
TypeOK ==
  /\ srv \in Servers /\ mode \in Modes /\ run \in 1 .. MaxRuns /\ tick \in 0 .. MaxSteps
  /\ clock \in [Envs -> 0 .. MaxSteps] /\ early \in [Envs -> 0 .. MaxEarlyResets]
  /\ active \subseteq Envs /\ asked \subseteq active /\ raised \in BOOLEAN
  /\ backend \in [effort : BOOLEAN, dialect : {"unnegotiated"} \cup DialectSet]
  /\ agent \in [Envs -> EnvState]
  /\ \A e \in Envs : agent[e].left <= IF agent[e].plan = "none" THEN 0 ELSE Steps[agent[e].plan]
  /\ tries \in [Envs -> Seq(Tries)]
  /\ refused \in BOOLEAN

\* The failures at the end of t: automatic releases do not part them, a success does.
InARow(t) == {i \in DOMAIN t : t[i] = "failed" /\ \A j \in i .. Len(t) : t[j] \in {"failed", "auto"}}

(* How many steps a try takes.                                             *)
StepsOf(t) == CASE t = "auto" -> Steps["RELEASE"] [] t = "failed" -> 1 [] OTHER -> Steps[t]
PlannedBy(t) == SumOf([i \in DOMAIN t |-> StepsOf(t[i])])

(* The evaluation ends with an exception only when one environment has     *)
(* failed MAX_CONSECUTIVE_FAILURES decisions with no success in between,   *)
(* and then it does: failures of other environments, of an earlier run,    *)
(* before a success, or parted by an automatic release count as they       *)
(* should.                                                                 *)
GivesUpOnlyInARow == raised <=> \E e \in Envs : Cardinality(InARow(tries[e])) >= MaxFailures

(* Every control step of a run is accounted for: it settled the scene, or  *)
(* belongs to the plan of one decision, which is played in full before the *)
(* next one is asked for; a failed decision is held for exactly one step.  *)
(* After a terminal decision the model is not asked again.                 *)
StepsAccounted ==
  ~raised => \A e \in active :
    LET s == agent[e] IN
    /\ ~s.finished =>
         tick + (IF e \in asked THEN 1 ELSE 0) = SettleSteps - s.settle + PlannedBy(tries[e]) - s.left
    /\ \A i \in DOMAIN tries[e] : tries[e][i] \in Terminal => i = Len(tries[e])

(* No environment is reset under a plan.  The client hears nothing of an   *)
(* early reset, and would go on with its plan, grip and count of failures; *)
(* but the early resets are over before the scene has settled for the      *)
(* first decision.                                                         *)
NoResetUnderAPlan ==
  [][\A e \in Envs : early'[e] > early[e] => tries[e] = <<>>]_vars

(* Finding out which fields the server knows costs no decision: the free   *)
(* reply that comes first has settled the effort before a constrained one  *)
(* can meet two unknown fields at once.                                    *)
NegotiationIsFree == ~refused
===============================================================================
