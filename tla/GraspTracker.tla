----------------------------- MODULE GraspTracker -----------------------------
(***************************************************************************)
(* Grasps, partings and failed attempts of one object and one hand, in a   *)
(* batch of environments: GraspTracker.update of                           *)
(* robolab/core/task/grasp.py, the event check that turns its events into  *)
(* lines of an environment's log (robolab/core/task/event_tracker.py), and *)
(* the end of an episode, at which the recorder term flushes the tracker   *)
(* (robolab/core/events/subtask_recorder.py).                              *)
(*                                                                         *)
(* What the sensors and the policy say is an input, a reading per          *)
(* environment and step.  Lengths and forces are abstracted to the         *)
(* comparisons the code makes with them.                                   *)
(***************************************************************************)
EXTENDS Integers, Sequences, FiniteSets, Sums

CONSTANTS
  Envs,
  Readings(_),      \* the readings that may be taken of an environment
  HoldSteps,        \* hold_steps(): GRASP_HOLD_S in steps
  Burst,            \* GRASP_ATTEMPT_BURST_S in steps
  OpenMemory,       \* open_cmd_memory
  StepsOf,          \* bound: the runs of the batch, and the steps taken in each
  MaxEarlyResets    \* MAX_EARLY_RESETS

\* contact: the hand touches the object; closure: below the release and tow
\* thresholds, between, or beyond the attempt threshold; coupled: over the hold
\* time the offset to the hand was steady and the hand moved; aside: off-centre in
\* the jaws and lifted; openCmd: the policy commands the gripper open.
Reading == [contact : BOOLEAN, closure : {"open", "part", "closed"},
            coupled : BOOLEAN, aside : BOOLEAN, openCmd : BOOLEAN]

ASSUME EnvsAssumption == IsFiniteSet(Envs) /\ Envs # {}
ASSUME ReadingsAssumption == \A e \in Envs : Readings(e) \subseteq Reading
ASSUME BoundAssumption ==
  /\ HoldSteps \in Nat \ {0} /\ Burst \in Nat \ {0} /\ OpenMemory \in Nat \ {0}
  /\ StepsOf \in Seq(Nat) \ {<<>>} /\ MaxEarlyResets \in Nat

VARIABLES
  run,       \* the run of the batch
  tick,      \* steps taken in this run
  len,       \* episode_length_buf
  early,     \* _early_resets
  frozen,    \* _frozen_envs
  hist,      \* offsets held in rel_hist and hand_hist, at most HoldSteps + 1
  pair,      \* the _PairState of each environment
  queue,     \* _events: emitted, not yet popped, by environment
  log,       \* the recorder term's _events: the lines of the episode
  episode,   \* history: how many episodes of the environment have begun
  fumbles    \* history: failed attempts of this episode

vars == <<run, tick, len, early, frozen, hist, pair, queue, log, episode, fumbles>>

Never == -1
LongAgo == -(Burst + 1)   \* -10**9: longer ago than any window

NewPair ==
  [streak |-> 0, grasped |-> FALSE, touching |-> FALSE, closing |-> FALSE, towed |-> FALSE,
   start |-> 0, gripFlagged |-> FALSE, gripStep |-> Never, parted |-> LongAgo,
   count |-> 0, first |-> 0, last |-> 0, memory |-> 0]

Smaller(a, b) == IF a < b THEN a ELSE b
Larger(a, b) == IF a > b THEN a ELSE b
-------------------------------------------------------------------------------
(* update(), for one environment whose episode is at step `now`: r is its  *)
(* reading, p what is known of it.                                         *)

\* An episode that has just begun; the attempt stamps and the memory of commands stay.
Renewed(p, now) ==
  IF now > 1 THEN p
  ELSE [NewPair EXCEPT !.first = p.first, !.last = p.last, !.memory = p.memory]

Streak(p, r) == IF r.contact THEN Smaller(p.streak + 1, HoldSteps) ELSE 0

\* The hand has closed on the object during this contact.
Closing(p, r) == r.contact /\ (p.closing \/ r.closure = "closed")

\* Mutant: a grip is remembered beyond its contact.
StaleGrip(p, r, now) == IF Closing(p, r) /\ ~p.closing THEN now ELSE p.gripStep

\* When the jaws closed, within this contact.
GripStep(p, r, now) ==
  IF ~r.contact THEN Never
  ELSE IF Closing(p, r) /\ ~p.closing THEN now
  ELSE p.gripStep

Start(p, r, now) == IF r.contact /\ ~p.touching THEN now ELSE p.start

\* Contact for the hold time, with the object moving with the hand...
Carried(p, r) == r.contact /\ Streak(p, r) >= HoldSteps /\ r.coupled

\* ...but stuck to one finger of an open hand: a tow, never a grasp.
Towing(p, r) == Carried(p, r) /\ r.closure = "open" /\ r.aside

\* Mutant: an object in the hand is grasped again.
GrabbedAgain(p, r) == Carried(p, r) /\ ~Towing(p, r)

NewlyGrasped(p, r) == ~p.grasped /\ Carried(p, r) /\ ~Towing(p, r)

NewlyTowed(p, r) == Towing(p, r) /\ ~p.grasped /\ ~p.towed

Lost(p, r) == p.grasped /\ ~r.contact

\* Mutant: contact that flickers after a parting is an attempt (before P73).
FlickerIsAttempt(p, r, now) == ~p.grasped /\ p.touching /\ ~r.contact /\ now > 1 /\ p.closing

\* A contact on which the hand closed has ended without a carry, and not right
\* after a parting.
Fumbled(p, r, now) ==
  ~p.grasped /\ p.touching /\ ~r.contact /\ now > 1 /\ p.closing /\ now - p.parted > Burst

\* The burst of failed attempts with this step's.
Counted(p, r, now) ==
  IF ~Fumbled(p, r, now) THEN p
  ELSE [p EXCEPT !.count = @ + 1, !.last = now, !.first = IF p.count = 0 THEN now ELSE @]

\* A burst is reported when it has gone quiet or a grasp ends it.
Reported(p, r, now) ==
  LET c == Counted(p, r, now) IN c.count > 0 /\ (now - c.last > Burst \/ NewlyGrasped(p, r))

Remembered(p, r) == IF r.openCmd THEN OpenMemory ELSE Larger(p.memory - 1, 0)

\* The command decides when some environment of the batch commands open, or did
\* lately; otherwise the measured joint.
Deliberate(p, r, anyOpen) ==
  IF anyOpen THEN r.openCmd \/ p.memory > 0 ELSE r.closure = "open"

Updated(p, r, now) ==
  [streak      |-> Streak(p, r),
   grasped     |-> (p.grasped \/ NewlyGrasped(p, r)) /\ r.contact,
   touching    |-> r.contact,
   closing     |-> Closing(p, r),
   towed       |-> p.towed \/ NewlyTowed(p, r),
   start       |-> Start(p, r, now),
   gripFlagged |-> r.contact /\ (p.gripFlagged
                                  \/ (NewlyGrasped(p, r) /\ GripStep(p, r, now) # Never)),
   gripStep    |-> GripStep(p, r, now),
   parted      |-> IF Lost(p, r) THEN now ELSE p.parted,
   count       |-> IF Reported(p, r, now) THEN 0 ELSE Counted(p, r, now).count,
   first       |-> Counted(p, r, now).first,
   last        |-> Counted(p, r, now).last,
   memory      |-> Remembered(p, r)]
-------------------------------------------------------------------------------
(* Events, and the lines they become.  `of` says which episode of the      *)
(* environment an event is of.                                             *)
Event(e, kind, onset, count) ==
  [kind |-> kind, onset |-> onset, count |-> count, of |-> episode[e]]

When(condition, event) == IF condition THEN <<event>> ELSE <<>>

\* The events of e once update() has appended its own; an onset of Never is the step
\* of detection.
Emitted(e, p, r, now, anyOpen) ==
  queue[e]
    \o When(NewlyTowed(p, r), Event(e, "towed", Never, 0))
    \o When(NewlyGrasped(p, r) /\ GripStep(p, r, now) # Never /\ ~p.gripFlagged,
            Event(e, "gripped", GripStep(p, r, now), 0))
    \o When(NewlyGrasped(p, r),
            Event(e, "grabbed", Larger(Start(p, r, now), GripStep(p, r, now)), 0))
    \o When(Reported(p, r, now),
            Event(e, "attempt", Counted(p, r, now).first, Counted(p, r, now).count))
    \o When(Lost(p, r),
            Event(e, IF Deliberate(p, r, anyOpen) THEN "released" ELSE "dropped", Never, 0))

\* Mutant: a burst is cut by an export but not cleared.
FlushAgain(p) == p

\* flush_attempts: the burst is reported and closed.
Flushed(p) == [p EXCEPT !.count = 0]

OpenBurst(e, p) == When(p.count > 0, Event(e, "attempt", p.first, p.count))

\* An event's line, stamped where the thing happened.
LineOf(x, now) ==
  [kind |-> x.kind, seen |-> now, count |-> x.count, of |-> x.of,
   step |-> IF x.onset = Never THEN now ELSE x.onset]

\* check_events: the popped events of an environment that is not frozen become lines.
LinesOf(e, events, now) ==
  IF e \in frozen THEN <<>> ELSE [i \in DOMAIN events |-> LineOf(events[i], now)]

\* The offsets held after this step; they go only when every episode is new.
HistNow == IF \A e \in Envs : len[e] = 0 THEN 1 ELSE Smaller(hist + 1, HoldSteps + 1)
-------------------------------------------------------------------------------
\* What can be read of each environment; a frozen one commands open.
ReadingsNow ==
  {r \in [Envs -> UNION {Readings(e) : e \in Envs}] :
     \A e \in Envs : /\ r[e] \in Readings(e)
                     /\ r[e].coupled => HistNow > HoldSteps
                     /\ e \in frozen => r[e].openCmd}

\* Environments that are reset if they terminate on this step.
TooSoon == {e \in Envs \ frozen : len[e] + 1 <= 2 /\ early[e] < MaxEarlyResets}

\* What update() goes by, of e, and what it leaves.
Now(e) == len[e] + 1
Before(e) == Renewed(pair[e], Now(e))
After(e, r) == Updated(Before(e), r[e], Now(e))

AnyOpen(r) == \E e \in Envs : r[e].openCmd \/ After(e, r).memory > 0
Logged(e, r) == log[e] \o LinesOf(e, Emitted(e, Before(e), r[e], Now(e), AnyOpen(r)), Now(e))
Fails(e, r) == e \notin frozen /\ Fumbled(Before(e), r[e], Now(e))

(* One step of the batch: update() and check_events in record_post_step,   *)
(* with the action of a frozen environment zeroed, which commands open;    *)
(* then _reset_idx for the environments that terminate -- `again` within   *)
(* two steps, to be reset at once, `stops` to freeze.  An export flushes   *)
(* the attempts of the whole batch; a reset empties the log of the         *)
(* environment and leaves the tracker to the first step of the episode.    *)
Step ==
  /\ tick < StepsOf[run] /\ frozen # Envs
  /\ \E r \in ReadingsNow,
        again \in SUBSET TooSoon, stops \in SUBSET (Envs \ (frozen \cup TooSoon)) :
      /\ pair' = [e \in Envs |-> IF stops # {} THEN Flushed(After(e, r)) ELSE After(e, r)]
      /\ queue' = [e \in Envs |-> IF stops # {} THEN OpenBurst(e, After(e, r)) ELSE <<>>]
      /\ log' = [e \in Envs |-> IF e \in again THEN <<>> ELSE Logged(e, r)]
      /\ len' = [e \in Envs |-> IF e \in again THEN 0 ELSE Now(e)]
      /\ early' = [e \in Envs |-> early[e] + IF e \in again THEN 1 ELSE 0]
      /\ frozen' = frozen \cup stops
      /\ hist' = HistNow
      /\ episode' = [e \in Envs |-> episode[e] + IF e \in again THEN 1 ELSE 0]
      /\ fumbles' = [e \in Envs |-> IF e \in again THEN 0
                                    ELSE fumbles[e] + IF Fails(e, r) THEN 1 ELSE 0]
  /\ tick' = tick + 1
  /\ UNCHANGED run

NextRun ==
  /\ tick = StepsOf[run] \/ frozen = Envs
  /\ run < Len(StepsOf)
  /\ run' = run + 1 /\ tick' = 0
  /\ len' = [e \in Envs |-> 0] /\ early' = [e \in Envs |-> 0]
  /\ frozen' = {}
  /\ log' = [e \in Envs |-> <<>>]
  /\ episode' = [e \in Envs |-> episode[e] + 1]
  /\ fumbles' = [e \in Envs |-> 0]
  /\ UNCHANGED <<hist, pair, queue>>

Init ==
  /\ run = 1 /\ tick = 0
  /\ len = [e \in Envs |-> 0] /\ early = [e \in Envs |-> 0]
  /\ frozen = {} /\ hist = 0
  /\ pair = [e \in Envs |-> NewPair]
  /\ queue = [e \in Envs |-> <<>>] /\ log = [e \in Envs |-> <<>>]
  /\ episode = [e \in Envs |-> 1] /\ fumbles = [e \in Envs |-> 0]

Next == Step \/ NextRun

Spec == Init /\ [][Next]_vars
-------------------------------------------------------------------------------
Kinds == {"towed", "gripped", "grabbed", "attempt", "released", "dropped"}
LineType == [kind : Kinds, seen : Nat, count : Nat, of : Nat, step : Nat]
EventType == [kind : Kinds, onset : Nat \cup {Never}, count : Nat, of : Nat]
PairType ==
  [streak : 0 .. HoldSteps, grasped : BOOLEAN, touching : BOOLEAN, closing : BOOLEAN,
   towed : BOOLEAN, start : Nat, gripFlagged : BOOLEAN, gripStep : Nat \cup {Never},
   parted : Nat \cup {LongAgo}, count : Nat, first : Nat, last : Nat,
   memory : 0 .. OpenMemory]

\* The tracker's state, and a grip is on the books only within its contact.
TypeOK ==
  /\ run \in 1 .. Len(StepsOf) /\ tick \in 0 .. StepsOf[run]
  /\ len \in [Envs -> 0 .. tick] /\ early \in [Envs -> 0 .. MaxEarlyResets]
  /\ frozen \subseteq Envs /\ hist \in 0 .. HoldSteps + 1
  /\ pair \in [Envs -> PairType]
  /\ queue \in [Envs -> Seq(EventType)] /\ log \in [Envs -> Seq(LineType)]
  /\ episode \in [Envs -> Nat] /\ fumbles \in [Envs -> Nat]
  /\ \A e \in Envs : pair[e].gripStep # Never => pair[e].touching

IsParting(line) == line.kind \in {"released", "dropped"}

\* The object is in the hand after the first n lines: grabbed, and not parted with since.
InHand(lines, n) ==
  \E i \in 1 .. n : lines[i].kind = "grabbed" /\ \A j \in i .. n : ~IsParting(lines[j])

\* Grasps and partings of an object alternate in the log of an episode, starting
\* with a grasp, and the last of them says whether the object is in the hand now:
\* the log, the tracker and the predicate object_grabbed share one notion of a grasp.
HandoversAlternate ==
  \A e \in Envs :
    /\ \A i \in DOMAIN log[e] :
         /\ log[e][i].kind = "grabbed" => ~InHand(log[e], i - 1)
         /\ IsParting(log[e][i]) => InHand(log[e], i - 1)
    /\ e \notin frozen /\ len[e] > 0 => (pair[e].grasped <=> InHand(log[e], Len(log[e])))

\* The failed attempts of the episode `of` that lines, or events, tell of.
FumblesIn(lines, of) ==
  SumOf([i \in {j \in DOMAIN lines : lines[j].kind = "attempt" /\ lines[j].of = of}
           |-> lines[i].count])

\* While an episode lasts, each of its failed attempts is in exactly one of: a line of
\* the log, an event on its way there, the open burst.  Quiet, grasps and the exports
\* of other environments close bursts in any order.
FumblesAccounted ==
  \A e \in Envs \ frozen :
    len[e] > 0 =>
      FumblesIn(log[e], episode[e]) + FumblesIn(queue[e], episode[e]) + pair[e].count
        = fumbles[e]

\* A grasp ends the burst before it (see BurstsStandApart): no line of failed attempts spans a grasp.
GraspEndsBurst ==
  \A e \in Envs : \A i, j \in DOMAIN log[e] :
    log[e][j].kind = "attempt" /\ log[e][j].of = episode[e] /\ log[e][i].kind = "grabbed" =>
      ~(log[e][j].step < log[e][i].seen /\ log[e][i].seen < log[e][j].seen)

\* Read in step order the log shows a grip, then its carry (P78): a grip line is followed
\* by the line of the carry it became, stamped with the same step, and a carry
\* begins after the last parting.  No grip that came to nothing dates a later carry.
GripDatesItsCarry ==
  \A e \in Envs : \A i \in DOMAIN log[e] :
    /\ log[e][i].kind = "gripped" =>
         /\ i + 1 \in DOMAIN log[e]
         /\ log[e][i + 1].kind = "grabbed" /\ log[e][i + 1].step = log[e][i].step
    /\ log[e][i].kind = "grabbed" =>
         \A j \in 1 .. i - 1 : IsParting(log[e][j]) => log[e][j].step < log[e][i].step

\* Contact that flickers as an object leaves the hand is not a failed attempt (P73):
\* no burst, in a line or still open, begins within the window after a parting.
NoAttemptAtParting ==
  \A e \in Envs : \A i \in DOMAIN log[e] :
    LET window == log[e][i].step .. log[e][i].step + Burst
    IN  IsParting(log[e][i]) =>
          /\ \A j \in DOMAIN log[e] :
               log[e][j].kind = "attempt" /\ log[e][j].of = episode[e] => log[e][j].step \notin window
          /\ e \notin frozen /\ pair[e].count > 0 => pair[e].first \notin window

\* Bursts of failed attempts are told apart from the grasps and partings around them,
\* although a burst is closed by a quiet spell, by a grasp, by a peer's export or not
\* at all, and the window after a parting is one more clock an early reset restarts.
BurstsStandApart == GraspEndsBurst /\ NoAttemptAtParting
-------------------------------------------------------------------------------
\* What the comments say; TLC, with GraspBuzzer.cfg, finds the code disagreeing.

\* flush_attempts: "a fumble that runs into the buzzer is still reported": when an
\* environment has ended and nothing of it is queued, its log has every failed attempt.
FumblesAreReported ==
  \A e \in frozen : queue[e] = <<>> => FumblesIn(log[e], episode[e]) = fumbles[e]
===============================================================================
