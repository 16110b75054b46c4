----------------------------- MODULE EventTracker -----------------------------
(***************************************************************************)
(* What is watched of one environment while its batch is stepped: the      *)
(* termination terms for a confirmed success and a lost target, then       *)
(* EventTracker.check_events (robolab/core/task/event_tracker.py), and the *)
(* lines and row fields that come of them, over early resets, the steps    *)
(* after a freeze, and runs.                                               *)
(*                                                                         *)
(* What the simulator and the hand do on a step is a reading:              *)
(*   raw     the success predicate holds                                   *)
(*   still   the targets are slower than the limit                         *)
(*   z       heights                                                       *)
(*   inside  objects inside the goal container                             *)
(*   slow    objects slower than the limit of a placement                  *)
(*   moving  objects faster than velocity_threshold                        *)
(*   held    objects the grasp tracker says are grasped                    *)
(*   touched objects in contact with the hand                              *)
(***************************************************************************)
EXTENDS SuccessConfirmer, OffTable, Collateral, Integers, Sequences

CONSTANTS
  Decoys,          \* objects that are neither a target nor a container
  Readings,        \* the readings to try
  Warmup,          \* steps of SETTLE_WARMUP_S
  HeldWindow,      \* steps within which recently_held says yes
  Alone,           \* no other environment of the batch makes the movement check go on
  MaxSteps,        \* max_episode_length, also the length of the step loop
  MaxEarlyResets,  \* MAX_EARLY_RESETS
  MaxRuns          \* bound: runs

ASSUME DecoyAssumption == Decoys \subseteq Objects
ASSUME StepsAssumption ==
  /\ Warmup \in Nat /\ PlaceRest < Warmup /\ HeldWindow \in Nat
  /\ Alone \in BOOLEAN /\ MaxSteps \in Nat /\ MaxSteps > 2
  /\ MaxEarlyResets \in Nat /\ MaxRuns \in Nat \ {0}

VARIABLES
  run, tick,   \* the run, and the steps its loop has taken
  clock,       \* episode_length_buf
  early,       \* _early_resets
  row,         \* _env_results and _env_term_step, with the terms that ended the episode
  conf,        \* the success term's confirmer
  streak,      \* RestTracker.streak of each decoy
  mon,         \* the OffTableMonitor
  coll,        \* the CollateralTracker
  warmNow,     \* _warm_now
  wasWarm,     \* _was_warm
  settled,     \* _settling
  moves,       \* _object_is_moving
  started,     \* _started_moving_mask
  lastHeld,    \* last_grasped_step of the grasp tracker
  lines,       \* the lines of this step
  past         \* history of the episode: rests, home, down, told, warm, carried

batchVars == <<run, tick, clock, early, row>>
watchVars == <<conf, streak, mon, coll, warmNow, wasWarm, settled, moves, started, lastHeld>>
vars == <<batchVars, watchVars, lines, past>>

NoEnd == [step |-> 0, terms |-> {}]
Never == 0 - (MaxSteps + HeldWindow + 1)
Frozen == row.step > 0
Line(kind, objs) == {[kind |-> kind, obj |-> o] : o \in objs}
NewPast(z) == [rests |-> <<>>, home |-> z, down |-> {}, told |-> {}, warm |-> {}, carried |-> {}]
-------------------------------------------------------------------------------
(* The checks of one step r of an environment whose clock is now n.        *)

IsWarm(n) == n < Warmup

MonNow(r, n) == Watched(mon, r.z, IsFresh(n))

\* Mutant: a loss ends the episode after it was reported.
LateTerms(r, n) ==
  (IF IsConfirmed(conf, r.raw, r.still, n) THEN {"success"} ELSE {})
  \cup (IF mon.lost THEN {"target_lost"} ELSE {})
  \cup (IF n >= MaxSteps THEN {"time_out"} ELSE {})

\* The termination terms.
Terms(r, n) ==
  (IF IsConfirmed(conf, r.raw, r.still, n) THEN {"success"} ELSE {})
  \cup (IF TaskLost(Fallen(MonNow(r, n), r.z)) THEN {"target_lost"} ELSE {})
  \cup (IF n >= MaxSteps THEN {"time_out"} ELSE {})

\* _check_off_table_batched, the lines.
FellLines(r, n) ==
  LET m == MonNow(r, n)
  IN  Line("fell", Fallen(m, r.z) \ m.flagged)
      \cup (IF TaskLost(Fallen(m, r.z)) /\ ~m.lost THEN {[kind |-> "lost", obj |-> "task"]} ELSE {})

\* _check_off_table_batched, the state: only what an active environment is told is flagged.
MonAfter(r, n) ==
  LET m == MonNow(r, n)
  IN  IF Frozen THEN m
      ELSE [m EXCEPT !.flagged = @ \cup Fallen(m, r.z), !.lost = @ \/ TaskLost(Fallen(m, r.z))]

StreaksAfter(r, n) == [o \in Decoys |-> Streak(streak[o], o \in r.slow, n)]

\* object_in_container: inside, and at rest.
Contained(r, n) == {o \in Decoys \cap r.inside : AtRest(StreaksAfter(r, n)[o])}

\* recently_held, which compares clocks of whatever episode.
Handled(r, n) == {o \in Objects : o \in r.held \/ n - lastHeld[o] <= HeldWindow}

\* Objects whose movement is looked at.
Eligible(r, n) == IF Frozen THEN {} ELSE Objects \ Handled(r, n)

\* What starts to move, and what has stopped that was seen to start.
Starts(r, n) == (r.moving \ moves) \cap Eligible(r, n)
Stops(r, n) == ((moves \ r.moving) \cap Eligible(r, n)) \cap started

\* Movement in the warm-up that the hand has nothing to do with.
Settling(r, n, far) == {o \in Stops(r, n) \ r.touched : IsWarm(n) /\ far # "near"}

\* The objects of a displacement line.
Displaced(r, n, far) == IF far = "near" THEN {} ELSE Stops(r, n) \ Settling(r, n, far)

\* _check_movement_transitions_batched, the state; peers: some other environment is eligible.
Moved(r, n, far, peers) ==
  LET looked == {o \in Objects : peers \/ o \in Eligible(r, n)} IN
  /\ moves' = (moves \ looked) \cup (r.moving \cap looked)
  /\ started' = (started \cup Starts(r, n)) \ (Stops(r, n) \ Settling(r, n, far))

\* check_events, in its order, for an environment that is not frozen.
LinesOf(r, n, far) ==
  FellLines(r, n)
  \cup Line("placed", Entered(coll, Contained(r, n), warmNow))
  \cup (IF wasWarm /\ ~IsWarm(n) /\ settled # {} THEN {[kind |-> "settling", obj |-> "scene"]} ELSE {})
  \cup Line("displaced", Displaced(r, n, far))

\* The history of the episode after this step.
Lived(r, n, far, said) ==
  LET p == IF n = 1 THEN [past EXCEPT !.home = r.z] ELSE past IN
  [p EXCEPT
     !.rests = Append(p.rests, r.still),
     !.told = p.told \cup said,
     !.warm = p.warm \cup (IF IsWarm(n) THEN Contained(r, n) ELSE {}),
     !.down = {o \in Objects : r.z[o] < p.home[o]},
     !.carried = (p.carried \ Starts(r, n)) \cup (r.held \cap (started \cup Starts(r, n)))]

\* The checks, for a frozen environment too; it gets no lines.
Check(r, n, far, peers) ==
  /\ conf' = Confirmer(conf, r.raw, r.still, n)
  /\ streak' = StreaksAfter(r, n)
  /\ mon' = MonAfter(r, n)
  /\ coll' = Tracked(coll, Contained(r, n), warmNow)
  /\ settled' = IF Frozen THEN settled
                ELSE (IF wasWarm /\ ~IsWarm(n) THEN {} ELSE settled) \cup Settling(r, n, far)
  /\ warmNow' = IsWarm(n)
  /\ wasWarm' = IsWarm(n)
  /\ Moved(r, n, far, peers)
  /\ lastHeld' = [o \in Objects |-> IF o \in r.held THEN n ELSE lastHeld[o]]
  /\ lines' = IF Frozen THEN {} ELSE LinesOf(r, n, far)
  /\ past' = IF Frozen THEN past ELSE Lived(r, n, far, lines')

\* Mutant: the tracker of the container outlives the reset.
ForgottenButPlaced ==
  /\ coll' = coll
  /\ wasWarm' = TRUE /\ settled' = {}
  /\ moves' = {} /\ started' = {}

\* EventTracker.reset_envs, when the recorder is reset; the confirmer, the monitor,
\* the rest and grasp trackers and _warm_now are not its own.
Forgotten ==
  /\ coll' = NewTracker
  /\ wasWarm' = TRUE /\ settled' = {}
  /\ moves' = {} /\ started' = {}
-------------------------------------------------------------------------------
\* Mutant: there is no limit to early resets.
TooSoonAgain(n) == n <= 2

TooSoon(n) == n <= 2 /\ early < MaxEarlyResets

\* env.step() when the environment goes on, is frozen by it, or is frozen already.
Step ==
  /\ tick < MaxSteps
  /\ \E r \in Readings, far \in {"near", "far"}, peers \in IF Alone THEN {FALSE} ELSE BOOLEAN :
       LET n == clock + 1
           ends == ~Frozen /\ Terms(r, n) # {}
       IN  /\ ~(ends /\ TooSoon(n))
           /\ far = "far" => Stops(r, n) # {}
           /\ Check(r, n, far, peers)
           /\ row' = IF ends THEN [step |-> n, terms |-> Terms(r, n)] ELSE row
           /\ clock' = n
  /\ tick' = tick + 1
  /\ UNCHANGED <<run, early>>

\* env.step() that ends before the robot could act: the checks have run, then the reset.
EarlyReset ==
  /\ tick < MaxSteps /\ ~Frozen
  /\ \E r \in Readings :
       LET n == clock + 1 IN
       /\ Terms(r, n) # {} /\ TooSoon(n)
       /\ conf' = Confirmer(conf, r.raw, r.still, n)
       /\ streak' = StreaksAfter(r, n)
       /\ mon' = MonAfter(r, n)
       /\ warmNow' = IsWarm(n)
       /\ lastHeld' = [o \in Objects |-> IF o \in r.held THEN n ELSE lastHeld[o]]
       /\ past' = NewPast(r.z)
  /\ Forgotten
  /\ lines' = {}
  /\ clock' = 0 /\ early' = early + 1 /\ tick' = tick + 1
  /\ UNCHANGED <<run, row>>

\* The rows are written; reset_eval_state, then run_episode resets the batch.
NextRun ==
  /\ tick = MaxSteps \/ Frozen
  /\ run < MaxRuns
  /\ run' = run + 1 /\ tick' = 0 /\ clock' = 0 /\ early' = 0
  /\ row' = NoEnd
  /\ Forgotten
  /\ lines' = {} /\ past' = NewPast(past.home)
  /\ UNCHANGED <<conf, streak, mon, warmNow, lastHeld>>

Init ==
  /\ run = 1 /\ tick = 0 /\ clock = 0 /\ early = 0 /\ row = NoEnd
  /\ conf = NewConfirmer /\ streak = [o \in Decoys |-> 0]
  /\ mon = NewMonitor([o \in Objects |-> 0])
  /\ coll = NewTracker /\ warmNow = FALSE /\ wasWarm = TRUE /\ settled = {}
  /\ moves = {} /\ started = {} /\ lastHeld = [o \in Objects |-> Never]
  /\ lines = {} /\ past = NewPast([o \in Objects |-> 0])

Next == Step \/ EarlyReset \/ NextRun

Spec == Init /\ [][Next]_vars
-------------------------------------------------------------------------------
(* The variables keep their types.                                         *)
TypeOK ==
  /\ run \in 1 .. MaxRuns /\ tick \in 0 .. MaxSteps /\ clock \in 0 .. tick
  /\ early \in 0 .. MaxEarlyResets
  /\ row.step \in 0 .. MaxSteps /\ row.terms \subseteq {"success", "target_lost", "time_out"}
  /\ conf.rest \in 0 .. RestSteps
  /\ conf.held \in 0 .. MaxSteps /\ conf.confirmed \in 0 .. MaxSteps
  /\ \A o \in Decoys : streak[o] \in 0 .. PlaceRest
  /\ mon.flagged \subseteq Objects /\ mon.lost \in BOOLEAN
  /\ \A f \in {"prev", "atReset", "flagged", "placed"} : coll[f] \subseteq Decoys
  /\ warmNow \in BOOLEAN /\ wasWarm \in BOOLEAN /\ settled \subseteq Objects
  /\ moves \subseteq Objects /\ started \subseteq Objects
  /\ \A o \in Objects : lastHeld[o] \in {Never} \cup 1 .. MaxSteps

(* An episode scored as a success had its targets at rest for the whole    *)
(* required time before it ended, in this episode: nothing of the streak   *)
(* is left over from before a reset or from the previous run.              *)
SuccessHasSettled ==
  "success" \in row.terms =>
    /\ Len(past.rests) = row.step /\ row.step >= RestSteps
    /\ \A i \in row.step - RestSteps + 1 .. row.step : past.rests[i]

(* The stamps in the row of a success are of the end it was scored at,     *)
(* whatever the scene does while the rest of the batch is still running.   *)
SuccessStampsStay ==
  "success" \in row.terms => conf.confirmed = row.step /\ conf.held \in 1 .. row.step

(* Nobody is told that the target is lost unless the episode ends on that  *)
(* very step, and it ends so exactly when no choice of the objects still   *)
(* up could meet the success term; the term and the line are computed on   *)
(* different paths, from a monitor they both reset.                        *)
LossEndsHopeless ==
  /\ "target_lost" \in row.terms <=> [kind |-> "lost", obj |-> "task"] \in past.told
  /\ "target_lost" \in row.terms <=> ~Winnable(Objects \ past.down)

(* "Objects already inside a goal container when the episode starts never  *)
(* count": no line about an object that was seen inside in the warm-up,    *)
(* although the tracker is shown the warm-up flag of the step before.      *)
InsideAtResetNeverCounts ==
  \A l \in lines : l.kind = "placed" => l.obj \notin past.warm

(* While an environment is running, the count that its row will report is  *)
(* the number of lines that its log holds, one for each object.            *)
CountIsTold ==
  ~Frozen => coll.placed = {o \in Decoys : [kind |-> "placed", obj |-> o] \in past.told}
-------------------------------------------------------------------------------
(* What the comments say; TLC, with EventCarry.cfg, finds otherwise.       *)

(* P51: movement the policy causes on purpose is suppressed, "while the    *)
(* object is grasped, and briefly after it is released": no displacement   *)
(* line measures a motion that the hand carried.                           *)
CarriesAreNotBumps ==
  [][\A l \in lines' : l.kind = "displaced" => l.obj \notin past.carried]_vars
===============================================================================
