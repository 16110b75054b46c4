----------------------------- MODULE EventProofs -----------------------------
(***************************************************************************)
(* Proofs about what is watched of one environment, for every set of       *)
(* objects, groups, readings, windows and caps: over early resets, the     *)
(* steps after a freeze, and runs; and about the lines that are kept of a  *)
(* log (EventLines), for every log and window.                             *)
(***************************************************************************)
EXTENDS EventTracker, EventLines, TLAPS, SequenceTheorems, FiniteSetTheorems

(* The clock starts again with a reset, and an end has its step.           *)
Clocks ==
  /\ tick \in 0 .. MaxSteps /\ clock \in 0 .. tick
  /\ row.step \in 0 .. MaxSteps /\ row.step <= clock
  /\ ~Frozen => row.terms = {}

-------------------------------------------------------------------------------
LEMMA ClocksInit == Init => Clocks
BY StepsAssumption DEF Init, Clocks, NoEnd, Frozen

LEMMA ClocksNext == Clocks /\ [Next]_vars => Clocks'
<1> SUFFICES ASSUME Clocks, [Next]_vars PROVE Clocks'
  OBVIOUS
<1> USE StepsAssumption
<1>1. CASE Step
  <2>1. /\ tick < MaxSteps /\ tick' = tick + 1 /\ clock' = clock + 1
        /\ \/ row' = row
           \/ \E terms : ~Frozen /\ row' = [step |-> clock + 1, terms |-> terms]
    BY <1>1 DEF Step
  <2>2. CASE row' = row
    BY <2>1, <2>2 DEF Clocks, Frozen
  <2>3. ASSUME NEW terms, row' = [step |-> clock + 1, terms |-> terms]
        PROVE  Clocks'
    <3>1. row'.step = clock + 1 /\ clock \in Nat /\ tick \in Nat /\ clock <= tick
      BY <2>3 DEF Clocks
    <3> QED BY <2>1, <3>1 DEF Clocks, Frozen
  <2> QED BY <2>1, <2>2, <2>3
<1>2. CASE EarlyReset
  <2>1. tick < MaxSteps /\ tick' = tick + 1 /\ clock' = 0 /\ row' = row /\ row.step = 0
    BY <1>2 DEF EarlyReset, Clocks, Frozen
  <2> QED BY <2>1 DEF Clocks, Frozen
<1>3. CASE NextRun
  <2>1. tick' = 0 /\ clock' = 0 /\ row' = NoEnd
    BY <1>3 DEF NextRun
  <2> QED BY <2>1 DEF Clocks, Frozen, NoEnd
<1>4. CASE UNCHANGED vars
  BY <1>4 DEF vars, batchVars, Clocks, Frozen
<1> QED BY <1>1, <1>2, <1>3, <1>4 DEF Next

(* A step of a running environment, whatever it leads to.                  *)
LEMMA RunningStep ==
  ASSUME Step, ~Frozen
  PROVE  \E r \in Readings, far \in {"near", "far"}, peers \in BOOLEAN :
           /\ Check(r, clock + 1, far, peers)
           /\ clock' = clock + 1
           /\ row' = IF Terms(r, clock + 1) # {} THEN [step |-> clock + 1, terms |-> Terms(r, clock + 1)]
                     ELSE row
BY DEF Step

(* A step of a frozen environment.                                         *)
LEMMA FrozenStep ==
  ASSUME Step, Frozen
  PROVE  \E r \in Readings, far \in {"near", "far"}, peers \in BOOLEAN :
           Check(r, clock + 1, far, peers) /\ clock' = clock + 1 /\ row' = row
BY DEF Step

-------------------------------------------------------------------------------
(* The lines of a step that say placed are those of the objects entered.   *)
LEMMA PlacedLines ==
  ASSUME NEW r, NEW n, NEW far, NEW o
  PROVE  [kind |-> "placed", obj |-> o] \in LinesOf(r, n, far)
           <=> o \in Entered(coll, Contained(r, n), warmNow)
<1>1. \A objs : [kind |-> "placed", obj |-> o] \notin Line("fell", objs)
  BY DEF Line
<1>2. \A objs : [kind |-> "placed", obj |-> o] \notin Line("displaced", objs)
  BY DEF Line
<1>3. \A objs : [kind |-> "placed", obj |-> o] \in Line("placed", objs) <=> o \in objs
  BY DEF Line
<1>4. [kind |-> "placed", obj |-> o] \notin FellLines(r, n)
  BY <1>1 DEF FellLines
<1>5. [kind |-> "placed", obj |-> o] # [kind |-> "settling", obj |-> "scene"]
  OBVIOUS
<1> QED BY <1>2, <1>3, <1>4, <1>5 DEF LinesOf

(* The number in the row is the number of lines in the log                 *)
(* (event_tracker.py: _check_collateral_placement).                        *)
THEOREM CountsAreTold == Spec => []CountIsTold
<1>1. Init => CountIsTold
  BY DEF Init, CountIsTold, NewTracker, NewPast
<1>2. CountIsTold /\ [Next]_vars => CountIsTold'
  <2> SUFFICES ASSUME CountIsTold, [Next]_vars, ~Frozen'
               PROVE  coll'.placed = {o \in Decoys : [kind |-> "placed", obj |-> o] \in past'.told}
    BY DEF CountIsTold
  <2>1. CASE Step /\ ~Frozen
    <3>1. PICK r \in Readings, far \in {"near", "far"}, peers \in BOOLEAN :
                 Check(r, clock + 1, far, peers)
      BY <2>1, RunningStep
    <3> DEFINE new == Entered(coll, Contained(r, clock + 1), warmNow)
               said == LinesOf(r, clock + 1, far)
    <3>2. coll'.placed = coll.placed \cup new
      BY <3>1 DEF Check, Tracked
    <3>3. past'.told = past.told \cup said
      <4>1. past' = Lived(r, clock + 1, far, lines') /\ lines' = said
        BY <2>1, <3>1 DEF Check
      <4> QED BY <4>1 DEF Lived
    <3>4. new \subseteq Decoys
      BY DEF Entered, Contained
    <3>5. \A o : [kind |-> "placed", obj |-> o] \in said <=> o \in new
      BY PlacedLines
    <3>6. coll.placed = {o \in Decoys : [kind |-> "placed", obj |-> o] \in past.told}
      BY <2>1 DEF CountIsTold
    <3> HIDE DEF new, said
    <3> QED BY <3>2, <3>3, <3>4, <3>5, <3>6
  <2>2. CASE Step /\ Frozen
    BY <2>2, FrozenStep DEF Frozen
  <2>3. CASE EarlyReset \/ NextRun
    <3>1. coll' = NewTracker /\ \E z : past' = NewPast(z)
      BY <2>3 DEF EarlyReset, NextRun, Forgotten
    <3> QED BY <3>1 DEF NewTracker, NewPast
  <2>4. CASE UNCHANGED vars
    BY <2>4 DEF vars, batchVars, watchVars, CountIsTold, Frozen
  <2> QED BY <2>1, <2>2, <2>3, <2>4 DEF Next
<1> QED BY <1>1, <1>2, PTL DEF Spec

-------------------------------------------------------------------------------
(* What was inside in the warm-up of this episode the container remembers, *)
(* and the flag it is shown is that of the step before.                    *)
WarmInv ==
  /\ streak \in [Decoys -> Nat]
  /\ ~Frozen => past.warm \subseteq coll.atReset
  /\ ~Frozen /\ clock > 0 => warmNow = IsWarm(clock)
  /\ InsideAtResetNeverCounts

(* The rest streaks are numbers; on the first step of an episode no object *)
(* is at rest, so that none is contained: RestTracker.update.              *)
LEMMA FreshStreaks ==
  ASSUME PlaceRest > 0, streak \in [Decoys -> Nat], NEW r, NEW n \in Nat \ {0}
  PROVE  /\ StreaksAfter(r, n) \in [Decoys -> Nat]
         /\ n = 1 => Contained(r, n) = {}
<1>1. StreaksAfter(r, n) \in [Decoys -> Nat]
  BY RestAssumption DEF StreaksAfter, Streak, IsFresh
<1>2. ASSUME n = 1, NEW o \in Decoys PROVE ~AtRest(StreaksAfter(r, n)[o])
  BY <1>2, RestAssumption DEF StreaksAfter, Streak, IsFresh, AtRest
<1> QED BY <1>1, <1>2 DEF Contained

LEMMA WarmRunning ==
  ASSUME PlaceRest > 0, Clocks, WarmInv, Step, ~Frozen
  PROVE  WarmInv'
<1>1. PICK r \in Readings, far \in {"near", "far"}, peers \in BOOLEAN :
        Check(r, clock + 1, far, peers) /\ clock' = clock + 1
  BY RunningStep
<1> DEFINE n == clock + 1
           inside == Contained(r, n)
<1>2. n \in Nat \ {0} /\ clock \in Nat /\ (clock > 0 <=> n # 1)
  BY StepsAssumption DEF Clocks
<1>3. streak' \in [Decoys -> Nat] /\ (n = 1 => inside = {})
  <2>1. streak' = StreaksAfter(r, n)
    BY <1>1 DEF Check
  <2> QED BY <1>2, <2>1, FreshStreaks DEF WarmInv
<1>4. /\ coll'.atReset = IF warmNow THEN coll.atReset \cup inside ELSE coll.atReset
      /\ warmNow' = IsWarm(n)
  BY <1>1 DEF Check, Tracked
<1>5. past'.warm = past.warm \cup (IF IsWarm(n) THEN inside ELSE {}) /\ lines' = LinesOf(r, n, far)
  <2>1. past' = Lived(r, n, far, lines') /\ lines' = LinesOf(r, n, far)
    BY <1>1 DEF Check
  <2> QED BY <2>1 DEF Lived
<1>6. n # 1 => warmNow = IsWarm(clock)
  BY <1>2 DEF WarmInv
<1>7. IsWarm(n) => IsWarm(clock)
  BY <1>2, StepsAssumption DEF IsWarm
<1>8. past.warm \subseteq coll.atReset
  BY DEF WarmInv
<1> HIDE DEF inside
<1>9. past'.warm \subseteq coll'.atReset
  BY <1>3, <1>4, <1>5, <1>6, <1>7, <1>8
<1>10. InsideAtResetNeverCounts'
  <2> SUFFICES ASSUME NEW l \in lines', l.kind = "placed" PROVE l.obj \notin past'.warm
    BY DEF InsideAtResetNeverCounts
  <2>1. PICK o : l = [kind |-> "placed", obj |-> o]
    BY <1>5 DEF LinesOf, FellLines, Line
  <2>2. o \in Entered(coll, inside, warmNow)
    BY <1>5, <2>1, PlacedLines DEF inside
  <2>3. ~warmNow /\ o \in inside /\ o \notin coll.atReset
    BY <2>2 DEF Entered
  <2> QED BY <1>3, <1>5, <1>6, <1>7, <1>8, <2>1, <2>3
<1> QED BY <1>1, <1>3, <1>4, <1>9, <1>10 DEF WarmInv

LEMMA WarmNext ==
  ASSUME PlaceRest > 0, Clocks, WarmInv, [Next]_vars
  PROVE  WarmInv'
<1>1. CASE Step /\ ~Frozen
  BY <1>1, WarmRunning
<1>2. CASE Step /\ Frozen
  <2>1. PICK r \in Readings, far \in {"near", "far"}, peers \in BOOLEAN :
          Check(r, clock + 1, far, peers) /\ row' = row
    BY <1>2, FrozenStep
  <2>2. lines' = {} /\ streak' = StreaksAfter(r, clock + 1)
    BY <1>2, <2>1 DEF Check
  <2>3. clock + 1 \in Nat \ {0}
    BY StepsAssumption DEF Clocks
  <2>4. streak' \in [Decoys -> Nat]
    BY <2>2, <2>3, FreshStreaks DEF WarmInv
  <2> QED BY <1>2, <2>1, <2>2, <2>4 DEF WarmInv, InsideAtResetNeverCounts, Frozen
<1>3. CASE EarlyReset
  <2>1. PICK r \in Readings : streak' = StreaksAfter(r, clock + 1) /\ past' = NewPast(r.z)
    BY <1>3 DEF EarlyReset
  <2>2. clock + 1 \in Nat \ {0} /\ clock' = 0 /\ lines' = {}
    BY <1>3, StepsAssumption DEF Clocks, EarlyReset
  <2>3. streak' \in [Decoys -> Nat]
    BY <2>1, <2>2, FreshStreaks DEF WarmInv
  <2> QED BY <2>1, <2>2, <2>3 DEF WarmInv, InsideAtResetNeverCounts, NewPast
<1>4. CASE NextRun
  <2>1. clock' = 0 /\ lines' = {} /\ past' = NewPast(past.home) /\ streak' = streak
    BY <1>4 DEF NextRun
  <2> QED BY <2>1 DEF WarmInv, InsideAtResetNeverCounts, NewPast
<1>5. CASE UNCHANGED vars
  BY <1>5 DEF vars, batchVars, watchVars, WarmInv, InsideAtResetNeverCounts, Frozen, IsWarm
<1> QED BY <1>1, <1>2, <1>3, <1>4, <1>5 DEF Next

(* No line says placed of an object that was inside in the warm-up         *)
(* (data.md), although the container is shown the warm-up flag of the step *)
(* before, and on the first step of an episode that of the run before:     *)
(* what makes it safe is that the placement waits for rest.                *)
THEOREM InsideNeverCounts ==
  ASSUME PlaceRest > 0
  PROVE  Spec => []InsideAtResetNeverCounts
<1>1. Init => Clocks /\ WarmInv
  <2>1. Init => WarmInv
    BY DEF Init, WarmInv, InsideAtResetNeverCounts, NewPast
  <2> QED BY <2>1, ClocksInit
<1>2. Clocks /\ WarmInv /\ [Next]_vars => (Clocks /\ WarmInv)'
  BY ClocksNext, WarmNext
<1>3. WarmInv => InsideAtResetNeverCounts
  BY DEF WarmInv
<1> QED BY <1>1, <1>2, <1>3, PTL DEF Spec

-------------------------------------------------------------------------------
(* The confirmer counts steps of this episode, once the first has been     *)
(* taken: before that it holds what the episode before has left.           *)
Stills == {r.still : r \in Readings}

Resting(rests, count) ==
  /\ count \in 0 .. Len(rests)
  /\ \A i \in Len(rests) - count + 1 .. Len(rests) : rests[i]

ConfInv ==
  /\ past.rests \in Seq(Stills)
  /\ ~Frozen => Len(past.rests) = clock
  /\ ~Frozen /\ clock > 0 =>
       /\ Resting(past.rests, conf.rest)
       /\ conf.confirmed = 0 /\ conf.held \in 0 .. clock
  /\ SuccessHasSettled /\ SuccessStampsStay

(* What the confirmer counts on the next step has been at rest.            *)
LEMMA CountedRests ==
  ASSUME Clocks, ConfInv, ~Frozen, NEW r \in Readings
  PROVE  Resting(Append(past.rests, r.still), RestCount(conf, r.still, clock + 1))
<1> DEFINE n == clock + 1
           c == RestCount(conf, r.still, n)
           rests == Append(past.rests, r.still)
<1>1. clock \in Nat /\ past.rests \in Seq(Stills) /\ Len(past.rests) = clock /\ r.still \in Stills
  BY StepsAssumption DEF Clocks, ConfInv, Stills
<1>2. /\ rests \in Seq(Stills) /\ Len(rests) = n /\ rests[n] = r.still
      /\ \A i \in 1 .. clock : rests[i] = past.rests[i]
  BY <1>1, AppendProperties
<1>3. c \in 0 .. n /\ \A i \in n - c + 1 .. n : rests[i]
  <2> HIDE DEF rests
  <2>1. CASE ~r.still
    <3>1. c = 0
      BY <2>1 DEF RestCount
    <3> QED BY <1>1, <3>1
  <2>2. CASE r.still /\ n = 1
    <3>1. c = 1
      BY <2>2 DEF RestCount, Remembered, IsFresh, NewConfirmer
    <3> HIDE DEF c
    <3>2. ASSUME NEW i \in n - c + 1 .. n PROVE rests[i]
      <4>1. i = n
        BY <2>2, <3>1
      <4> QED BY <1>2, <2>2, <4>1
    <3> QED BY <2>2, <3>1, <3>2
  <2>3. CASE r.still /\ n # 1
    <3>1. c = conf.rest + 1
      BY <1>1, <2>3 DEF RestCount, Remembered, IsFresh
    <3>2. conf.rest \in 0 .. clock /\ \A i \in clock - conf.rest + 1 .. clock : past.rests[i]
      BY <1>1, <2>3 DEF ConfInv, Resting
    <3>3. c \in 0 .. n /\ n - c + 1 = clock - conf.rest + 1
      BY <1>1, <3>1, <3>2
    <3>4. ASSUME NEW i \in n - c + 1 .. n PROVE rests[i]
      <4>1. CASE i = n
        BY <1>2, <2>3, <4>1
      <4>2. CASE i # n
        <5>1. i \in clock - conf.rest + 1 .. clock /\ i \in 1 .. clock
          BY <1>1, <3>2, <3>3, <4>2
        <5> QED BY <1>2, <3>2, <5>1
      <4> QED BY <4>1, <4>2
    <3> QED BY <3>3, <3>4
  <2> QED BY <2>1, <2>2, <2>3
<1> QED BY <1>2, <1>3 DEF Resting

(* Less than what has been at rest has been at rest.                       *)
LEMMA CappedRests ==
  ASSUME NEW rests \in Seq(Stills), NEW c, NEW d, Resting(rests, c), d \in 0 .. c
  PROVE  Resting(rests, d)
<1>1. Len(rests) \in Nat /\ c \in 0 .. Len(rests)
  BY LenProperties DEF Resting
<1>2. d \in 0 .. Len(rests)
        /\ \A i \in Len(rests) - d + 1 .. Len(rests) : i \in Len(rests) - c + 1 .. Len(rests)
  BY <1>1
<1> QED BY <1>2 DEF Resting

LEMMA ConfRunning ==
  ASSUME Clocks, ConfInv, Step, ~Frozen
  PROVE  ConfInv'
<1>1. PICK r \in Readings, far \in {"near", "far"}, peers \in BOOLEAN :
        /\ Check(r, clock + 1, far, peers)
        /\ clock' = clock + 1
        /\ row' = IF Terms(r, clock + 1) # {} THEN [step |-> clock + 1, terms |-> Terms(r, clock + 1)]
                  ELSE row
  BY RunningStep
<1> DEFINE n == clock + 1
           c == RestCount(conf, r.still, n)
           rests == Append(past.rests, r.still)
           now == IsConfirmed(conf, r.raw, r.still, n)
<1>2. clock \in Nat /\ n \in Nat \ {0} /\ past.rests \in Seq(Stills) /\ Len(past.rests) = clock
  BY StepsAssumption DEF Clocks, ConfInv
<1>3. past'.rests = rests
  <2>1. past' = Lived(r, n, far, lines')
    BY <1>1 DEF Check
  <2> QED BY <2>1 DEF Lived
<1>4. rests \in Seq(Stills) /\ Len(rests) = n
  BY <1>2, AppendProperties DEF Stills
<1>5. Resting(rests, c)
  BY CountedRests
<1>6. now <=> r.raw /\ c >= RestSteps
  BY DEF IsConfirmed
<1> DEFINE old == Remembered(conf, n)
<1>7. old.confirmed = 0 /\ old.held \in 0 .. clock
  BY <1>2 DEF Remembered, IsFresh, NewConfirmer, ConfInv
<1>8. /\ conf'.rest = IF c > RestSteps THEN RestSteps ELSE c
      /\ conf'.held = IF r.raw /\ old.held = 0 THEN n ELSE old.held
      /\ conf'.confirmed = IF now /\ old.confirmed = 0 THEN n ELSE old.confirmed
  <2>1. conf' = Confirmer(conf, r.raw, r.still, n)
    BY <1>1 DEF Check
  <2> QED BY <2>1 DEF Confirmer, FirstStamp
<1>9. "success" \in Terms(r, n) <=> now
  BY DEF Terms
<1>10. c \in 0 .. n
  BY <1>4, <1>5 DEF Resting
<1> HIDE DEF c, rests, now, old
<1>11. conf'.held \in 0 .. n /\ (now => conf'.held \in 1 .. n)
  BY <1>2, <1>6, <1>7, <1>8
<1>12. Resting(rests, conf'.rest)
  <2>1. conf'.rest \in 0 .. c
    BY <1>8, <1>10, RestAssumption, <1>2
  <2> QED BY <1>4, <1>5, <2>1, CappedRests
<1>13. CASE Terms(r, n) = {}
  <2>1. row' = row /\ ~now /\ ~Frozen' /\ row.terms = {}
    BY <1>1, <1>9, <1>13 DEF Frozen, Clocks
  <2>2. conf'.confirmed = 0
    BY <1>7, <1>8, <2>1
  <2> QED BY <1>1, <1>3, <1>4, <1>11, <1>12, <2>1, <2>2
          DEF ConfInv, SuccessHasSettled, SuccessStampsStay
<1>14. CASE Terms(r, n) # {}
  <2>1. row' = [step |-> n, terms |-> Terms(r, n)] /\ Frozen'
    BY <1>1, <1>2, <1>14 DEF Frozen
  <2>2. CASE ~now
    BY <1>3, <1>4, <1>9, <2>1, <2>2 DEF ConfInv, SuccessHasSettled, SuccessStampsStay
  <2>3. CASE now
    <3>1. conf'.confirmed = n /\ conf'.held \in 1 .. n
      BY <1>7, <1>8, <1>11, <2>3
    <3>2. c >= RestSteps /\ c \in 0 .. n /\ RestSteps \in Nat
      BY <1>6, <1>10, <2>3, RestAssumption
    <3>3. Resting(rests, RestSteps)
      <4>1. RestSteps \in 0 .. c
        BY <1>2, <3>2
      <4> QED BY <1>4, <1>5, <4>1, CappedRests
    <3>4. SuccessHasSettled'
      BY <1>2, <1>3, <1>4, <2>1, <3>2, <3>3 DEF SuccessHasSettled, Resting
    <3> QED BY <1>3, <1>4, <2>1, <3>1, <3>4 DEF ConfInv, SuccessStampsStay
  <2> QED BY <2>2, <2>3
<1> QED BY <1>13, <1>14

LEMMA ConfNext ==
  ASSUME Clocks, ConfInv, [Next]_vars
  PROVE  ConfInv'
<1>1. CASE Step /\ ~Frozen
  BY <1>1, ConfRunning
<1>2. CASE Step /\ Frozen
  <2>1. PICK r \in Readings, far \in {"near", "far"}, peers \in BOOLEAN :
          Check(r, clock + 1, far, peers) /\ row' = row
    BY <1>2, FrozenStep
  <2>2. past' = past /\ conf' = Confirmer(conf, r.raw, r.still, clock + 1) /\ Frozen'
    BY <1>2, <2>1 DEF Check, Frozen
  <2>3. ~IsFresh(clock + 1)
    BY <1>2, StepsAssumption DEF Clocks, Frozen, IsFresh
  <2>4. /\ conf.held # 0 => conf'.held = conf.held
        /\ conf.confirmed # 0 => conf'.confirmed = conf.confirmed
    BY <2>2, <2>3 DEF Confirmer, FirstStamp, Remembered
  <2>5. SuccessStampsStay'
    BY <1>2, <2>1, <2>4, StepsAssumption DEF ConfInv, SuccessStampsStay, Frozen, Clocks
  <2> QED BY <2>1, <2>2, <2>5 DEF ConfInv, SuccessHasSettled
<1>3. CASE EarlyReset \/ NextRun
  <2>1. clock' = 0 /\ row'.terms = {} /\ \E z : past' = NewPast(z)
    BY <1>3 DEF EarlyReset, NextRun, Clocks, NoEnd
  <2>2. past'.rests = <<>>
    BY <2>1 DEF NewPast
  <2> QED BY <2>1, <2>2 DEF ConfInv, SuccessHasSettled, SuccessStampsStay
<1>4. CASE UNCHANGED vars
  BY <1>4 DEF vars, batchVars, watchVars, ConfInv, SuccessHasSettled, SuccessStampsStay, Frozen
<1> QED BY <1>1, <1>2, <1>3, <1>4 DEF Next

LEMMA Confirming == Spec => [](Clocks /\ ConfInv)
<1>1. Init => Clocks /\ ConfInv
  <2>1. Init => ConfInv
    BY DEF Init, ConfInv, SuccessHasSettled, SuccessStampsStay, NoEnd, NewPast
  <2> QED BY <2>1, ClocksInit
<1>2. Clocks /\ ConfInv /\ [Next]_vars => (Clocks /\ ConfInv)'
  BY ClocksNext, ConfNext
<1> QED BY <1>1, <1>2, PTL DEF Spec

(* A success had its targets at rest for the whole time in this episode,   *)
(* though the confirmer forgets only when it is asked on a first step.     *)
THEOREM SuccessesHaveSettled == Spec => []SuccessHasSettled
<1>1. ConfInv => SuccessHasSettled
  BY DEF ConfInv
<1> QED BY <1>1, Confirming, PTL

(* The stamps of a success stay those of its end, while the frozen         *)
(* environment is judged on every later step of the batch.                 *)
THEOREM SuccessStampsAlways == Spec => []SuccessStampsStay
<1>1. ConfInv => SuccessStampsStay
  BY DEF ConfInv
<1> QED BY <1>1, Confirming, PTL

-------------------------------------------------------------------------------
(* No group asks for more objects than it has.                             *)
NoneTooMany == \A g \in Groups : Needed(g) <= Cardinality(g.objs)

LEMMA SubsetOfSize ==
  ASSUME NEW S, IsFiniteSet(S), NEW m \in Nat, m <= Cardinality(S)
  PROVE  \E T \in SUBSET S : Cardinality(T) = m
<1>1. Cardinality(S) \in Nat /\ ExistsBijection(1 .. Cardinality(S), S)
  BY FS_CardinalityType
<1>2. PICK f : f \in Bijection(1 .. Cardinality(S), S)
  BY <1>1 DEF ExistsBijection
<1> DEFINE T == {f[i] : i \in 1 .. m}
           g == [i \in 1 .. m |-> f[i]]
<1>3. /\ f \in [1 .. Cardinality(S) -> S]
      /\ \A i, j \in 1 .. Cardinality(S) : f[i] = f[j] => i = j
  BY <1>2 DEF Bijection, Injection, IsInjective
<1>4. 1 .. m \subseteq 1 .. Cardinality(S)
  BY <1>1
<1>5. T \subseteq S
  BY <1>3, <1>4
<1>6. g \in Bijection(1 .. m, T)
  BY <1>3, <1>4 DEF Bijection, Injection, IsInjective, Surjection
<1>7. IsFiniteSet(1 .. m) /\ Cardinality(1 .. m) = m
  BY FS_Interval
<1>8. Cardinality(T) = m
  BY <1>6, <1>7, FS_Bijection DEF ExistsBijection
<1> QED BY <1>5, <1>8

(* Enough of a set is left exactly when a subset of that size is.          *)
LEMMA EnoughLeft ==
  ASSUME NEW S, IsFiniteSet(S), NEW m \in Nat
  PROVE  m <= Cardinality(S) <=> \E T \in SUBSET S : Cardinality(T) = m
BY SubsetOfSize, FS_Subset

(* A group is lost when no choice of the objects still up will do:         *)
(* group_lost.                                                             *)
LEMMA LostGroup ==
  ASSUME NEW g \in Groups, NEW fallen \in SUBSET Objects
  PROVE  GroupLost(g, fallen) <=> ~\E S \in SUBSET (g.objs \cap (Objects \ fallen)) :
                                      Cardinality(S) = Needed(g)
<1> DEFINE up == g.objs \ fallen
<1>1. g.objs \cap (Objects \ fallen) = up
  BY GroupsAssumption
<1>2. IsFiniteSet(g.objs) /\ IsFiniteSet(up) /\ Cardinality(g.objs) \in Nat /\ Cardinality(up) \in Nat
  <2>1. IsFiniteSet(g.objs)
    BY GroupsAssumption, FS_Subset
  <2>2. IsFiniteSet(up)
    BY <2>1, FS_Subset
  <2> QED BY <2>1, <2>2, FS_CardinalityType
<1>3. Needed(g) \in Nat
  BY <1>2, GroupsAssumption DEF Needed
<1>4. Needed(g) <= Cardinality(up) <=> \E S \in SUBSET up : Cardinality(S) = Needed(g)
  BY <1>2, <1>3, EnoughLeft
<1>5. GroupLost(g, fallen) <=> ~(Needed(g) <= Cardinality(up))
  <2>1. CASE g.logical = "all"
    <3>1. Cardinality(g.objs) <= Cardinality(up) <=> g.objs = up
      BY <1>2, FS_Subset
    <3> QED BY <2>1, <3>1 DEF GroupLost, Needed
  <2>2. CASE g.logical = "any"
    <3>1. 1 <= Cardinality(up) <=> up # {}
      BY <1>2, FS_EmptySet
    <3> QED BY <2>2, <3>1 DEF GroupLost, Needed
  <2>3. CASE g.logical \notin {"all", "any"}
    BY <1>2, <1>3, <2>3 DEF GroupLost, Needed
  <2> QED BY <2>1, <2>2, <2>3
<1> QED BY <1>1, <1>4, <1>5

(* task_lost                                                               *)
LEMMA LostTask ==
  ASSUME NEW fallen \in SUBSET Objects
  PROVE  TaskLost(fallen) <=> ~Winnable(Objects \ fallen)
BY LostGroup DEF TaskLost, Winnable

LEMMA StillWinnable == NoneTooMany => Winnable(Objects)
<1> SUFFICES ASSUME NoneTooMany, NEW g \in Groups
             PROVE  \E S \in SUBSET (g.objs \cap Objects) : Cardinality(S) = Needed(g)
  BY DEF Winnable
<1>1. g.objs \cap Objects = g.objs /\ IsFiniteSet(g.objs)
  BY GroupsAssumption, FS_Subset
<1>2. Needed(g) \in Nat /\ Needed(g) <= Cardinality(g.objs)
  BY <1>1, GroupsAssumption, FS_CardinalityType DEF Needed, NoneTooMany
<1> QED BY <1>1, <1>2, EnoughLeft

(* The line that says that the task is lost.                               *)
LostLine == [kind |-> "lost", obj |-> "task"]

(* While an environment runs, its monitor has the heights of this episode, *)
(* and has reported no loss: it would have ended.                          *)
LossInv ==
  /\ DOMAIN mon = {"home", "flagged", "lost"}
  /\ ~Frozen /\ clock > 0 => mon.home = past.home /\ ~mon.lost
  /\ LossEndsHopeless

LEMMA LossRunning ==
  ASSUME Clocks, LossInv, Step, ~Frozen
  PROVE  LossInv'
<1>1. PICK r \in Readings, far \in {"near", "far"}, peers \in BOOLEAN :
        /\ Check(r, clock + 1, far, peers)
        /\ clock' = clock + 1
        /\ row' = IF Terms(r, clock + 1) # {} THEN [step |-> clock + 1, terms |-> Terms(r, clock + 1)]
                  ELSE row
  BY RunningStep
<1> DEFINE n == clock + 1
           m == MonNow(r, n)
           fell == Fallen(m, r.z)
           home == IF n = 1 THEN r.z ELSE past.home
<1>2. clock \in Nat /\ n \in Nat \ {0}
  BY StepsAssumption DEF Clocks
<1>3. DOMAIN m = {"home", "flagged", "lost"} /\ m.home = home /\ ~m.lost
  <2>1. CASE n = 1
    BY <2>1 DEF MonNow, Watched, IsFresh, NewMonitor
  <2>2. CASE n # 1
    <3>1. m = mon /\ clock > 0
      BY <1>2, <2>2 DEF MonNow, Watched, IsFresh
    <3> QED BY <2>2, <3>1 DEF LossInv
  <2> QED BY <2>1, <2>2
<1>4. past'.down = fell /\ past'.home = home /\ past'.told = past.told \cup lines'
  <2>1. past' = Lived(r, n, far, lines')
    BY <1>1 DEF Check
  <2>2. past'.down = {o \in Objects : r.z[o] < home[o]} /\ past'.home = home
        /\ past'.told = past.told \cup lines'
    BY <2>1 DEF Lived
  <2> QED BY <1>3, <2>2 DEF Fallen
<1>5. "target_lost" \in Terms(r, n) <=> TaskLost(fell)
  BY DEF Terms
<1>6. lines' = LinesOf(r, n, far)
  BY <1>1 DEF Check
<1>7. LostLine \in lines' <=> TaskLost(fell)
  <2>1. \A objs : /\ LostLine \notin Line("fell", objs) /\ LostLine \notin Line("placed", objs)
                  /\ LostLine \notin Line("displaced", objs)
    BY DEF Line, LostLine
  <2>2. LostLine # [kind |-> "settling", obj |-> "scene"]
    BY DEF LostLine
  <2>3. LostLine \in FellLines(r, n) <=> TaskLost(fell) /\ ~m.lost
    BY <2>1 DEF FellLines, LostLine
  <2> QED BY <1>3, <1>6, <2>1, <2>2, <2>3 DEF LinesOf
<1>8. DOMAIN mon' = {"home", "flagged", "lost"} /\ mon'.home = home /\ (~TaskLost(fell) => ~mon'.lost)
  <2>1. mon' = [m EXCEPT !.flagged = @ \cup fell, !.lost = @ \/ TaskLost(fell)]
    BY <1>1 DEF Check, MonAfter
  <2> HIDE DEF m, fell, home
  <2> QED BY <1>3, <2>1
<1>9. TaskLost(fell) <=> ~Winnable(Objects \ fell)
  <2>1. fell \in SUBSET Objects
    BY DEF Fallen
  <2> QED BY <2>1, LostTask
<1>10. row.terms = {} /\ LostLine \notin past.told
  BY DEF Clocks, LossInv, LossEndsHopeless, LostLine
<1> HIDE DEF m, fell, home
<1>11. CASE Terms(r, n) = {}
  <2>1. row' = row /\ row'.terms = {} /\ ~TaskLost(fell)
    BY <1>1, <1>5, <1>10, <1>11
  <2>2. LostLine \notin past'.told
    BY <1>4, <1>7, <1>10, <2>1
  <2> QED BY <1>4, <1>8, <1>9, <2>1, <2>2 DEF LossInv, LossEndsHopeless, LostLine
<1>12. CASE Terms(r, n) # {}
  <2>1. row' = [step |-> n, terms |-> Terms(r, n)] /\ Frozen'
    BY <1>1, <1>2, <1>12 DEF Frozen
  <2>2. LostLine \in past'.told <=> TaskLost(fell)
    BY <1>4, <1>7, <1>10
  <2>3. "target_lost" \in row'.terms <=> TaskLost(fell)
    BY <1>5, <2>1
  <2> QED BY <1>4, <1>8, <1>9, <2>1, <2>2, <2>3 DEF LossInv, LossEndsHopeless, LostLine
<1> QED BY <1>11, <1>12

LEMMA LossNext ==
  ASSUME NoneTooMany, Clocks, LossInv, [Next]_vars
  PROVE  LossInv'
<1>1. CASE Step /\ ~Frozen
  BY <1>1, LossRunning
<1>2. ASSUME NEW r, NEW n PROVE DOMAIN MonAfter(r, n) = {"home", "flagged", "lost"}
  <2>1. DOMAIN MonNow(r, n) = {"home", "flagged", "lost"}
    BY DEF MonNow, Watched, NewMonitor, LossInv
  <2> QED BY <2>1 DEF MonAfter
<1>3. CASE Step /\ Frozen
  <2>1. PICK r \in Readings, far \in {"near", "far"}, peers \in BOOLEAN :
          Check(r, clock + 1, far, peers) /\ row' = row
    BY <1>3, FrozenStep
  <2>2. past' = past /\ mon' = MonAfter(r, clock + 1) /\ Frozen'
    BY <1>3, <2>1 DEF Check, Frozen
  <2> QED BY <1>2, <2>1, <2>2 DEF LossInv, LossEndsHopeless
<1>4. CASE EarlyReset \/ NextRun
  <2>1. clock' = 0 /\ row'.terms = {} /\ \E z : past' = NewPast(z)
    BY <1>4 DEF EarlyReset, NextRun, Clocks, NoEnd
  <2>2. past'.told = {} /\ Objects \ past'.down = Objects
    BY <2>1 DEF NewPast
  <2>3. DOMAIN mon' = {"home", "flagged", "lost"}
    <3>1. CASE EarlyReset
      BY <1>2, <3>1 DEF EarlyReset
    <3>2. CASE NextRun
      BY <3>2 DEF NextRun, LossInv
    <3> QED BY <1>4, <3>1, <3>2
  <2> QED BY <2>1, <2>2, <2>3, StillWinnable DEF LossInv, LossEndsHopeless
<1>5. CASE UNCHANGED vars
  BY <1>5 DEF vars, batchVars, watchVars, LossInv, LossEndsHopeless, Frozen
<1> QED BY <1>1, <1>3, <1>4, <1>5 DEF Next

(* The episode is ended as lost exactly when the log says so, and exactly  *)
(* when no choice of the objects still up meets the success term           *)
(* (off_table.py: task_lost; event_tracker.py: _check_off_table_batched),  *)
(* in a task that did not ask for more objects than it names.              *)
THEOREM LossesAreHopeless ==
  ASSUME NoneTooMany
  PROVE  Spec => []LossEndsHopeless
<1>1. Init => Clocks /\ LossInv
  <2>1. ASSUME Init PROVE LossInv
    <3>1. /\ mon = NewMonitor([o \in Objects |-> 0]) /\ clock = 0 /\ row = NoEnd
          /\ past = NewPast([o \in Objects |-> 0])
      BY <2>1 DEF Init
    <3>2. past.told = {} /\ Objects \ past.down = Objects
      BY <3>1 DEF NewPast
    <3>3. DOMAIN mon = {"home", "flagged", "lost"} /\ row.terms = {}
      BY <3>1 DEF NewMonitor, NoEnd
    <3>4. LossEndsHopeless
      BY <3>2, <3>3, StillWinnable DEF LossEndsHopeless
    <3> QED BY <3>1, <3>3, <3>4 DEF LossInv
  <2> QED BY <2>1, ClocksInit
<1>2. Clocks /\ LossInv /\ [Next]_vars => (Clocks /\ LossInv)'
  BY ClocksNext, LossNext
<1>3. LossInv => LossEndsHopeless
  BY DEF LossInv
<1> QED BY <1>1, <1>2, <1>3, PTL DEF Spec

-------------------------------------------------------------------------------
(* The types of one confirmer, tracker and monitor.                        *)
ConfirmerTypes(c) ==
  c.rest \in 0 .. RestSteps /\ c.held \in 0 .. MaxSteps /\ c.confirmed \in 0 .. MaxSteps

LEMMA ConfirmerKeepsTypes ==
  ASSUME NEW c, ConfirmerTypes(c), NEW raw, NEW still, NEW n \in 1 .. MaxSteps
  PROVE  ConfirmerTypes(Confirmer(c, raw, still, n))
<1> USE RestAssumption, StepsAssumption
<1>1. ConfirmerTypes(NewConfirmer)
  BY DEF NewConfirmer, ConfirmerTypes
<1>2. ConfirmerTypes(Remembered(c, n))
  BY <1>1 DEF Remembered
<1>3. RestCount(c, still, n) \in Nat
  BY <1>2 DEF RestCount, ConfirmerTypes
<1> DEFINE count == RestCount(c, still, n)
           now == IsConfirmed(c, raw, still, n)
           old == Remembered(c, n)
<1>4. /\ Confirmer(c, raw, still, n).rest = IF count > RestSteps THEN RestSteps ELSE count
      /\ Confirmer(c, raw, still, n).held = FirstStamp(old.held, raw, n)
      /\ Confirmer(c, raw, still, n).confirmed = FirstStamp(old.confirmed, now, n)
  BY DEF Confirmer
<1> HIDE DEF count, now, old
<1>5. \A stamp \in 0 .. MaxSteps : \A b : FirstStamp(stamp, b, n) \in 0 .. MaxSteps
  BY DEF FirstStamp
<1>6. count \in Nat /\ old.held \in 0 .. MaxSteps /\ old.confirmed \in 0 .. MaxSteps
  BY <1>2, <1>3 DEF ConfirmerTypes, count, old
<1> QED BY <1>4, <1>5, <1>6 DEF ConfirmerTypes

CollateralTypes(tr) ==
  /\ tr.prev \subseteq Decoys /\ tr.atReset \subseteq Decoys
  /\ tr.flagged \subseteq Decoys /\ tr.placed \subseteq Decoys

MonitorTypes(m) ==
  /\ DOMAIN m = {"home", "flagged", "lost"}
  /\ m.flagged \subseteq Objects /\ m.lost \in BOOLEAN

(* What every kind of step does to the monitor and the streaks.            *)
LEMMA MonitorKeepsTypes ==
  ASSUME MonitorTypes(mon), NEW r, NEW n
  PROVE  MonitorTypes(MonAfter(r, n))
<1>1. MonitorTypes(MonNow(r, n))
  BY DEF MonNow, Watched, NewMonitor, MonitorTypes
<1> DEFINE m == MonNow(r, n)
           fell == Fallen(m, r.z)
<1>2. fell \subseteq Objects /\ TaskLost(fell) \in BOOLEAN
  BY DEF Fallen, TaskLost
<1>3. MonAfter(r, n) = IF Frozen THEN m ELSE [m EXCEPT !.flagged = @ \cup fell, !.lost = @ \/ TaskLost(fell)]
  BY DEF MonAfter
<1> HIDE DEF m, fell
<1>4. MonitorTypes(m)
  BY <1>1 DEF m
<1>5. CASE Frozen
  BY <1>3, <1>4, <1>5
<1>6. CASE ~Frozen
  <2>1. MonAfter(r, n) = [m EXCEPT !.flagged = @ \cup fell, !.lost = @ \/ TaskLost(fell)]
    BY <1>3, <1>6
  <2>2. DOMAIN MonAfter(r, n) = {"home", "flagged", "lost"} /\ MonAfter(r, n).flagged = m.flagged \cup fell
    BY <1>4, <2>1 DEF MonitorTypes
  <2>3. MonAfter(r, n).lost = (m.lost \/ TaskLost(fell))
    BY <1>4, <2>1 DEF MonitorTypes
  <2>4. MonAfter(r, n).lost \in BOOLEAN
    BY <1>2, <1>4, <2>3 DEF MonitorTypes
  <2> QED BY <1>2, <1>4, <2>2, <2>4 DEF MonitorTypes
<1> QED BY <1>5, <1>6

LEMMA StreaksKeepTypes ==
  ASSUME \A o \in Decoys : streak[o] \in 0 .. PlaceRest, NEW r, NEW n \in Nat
  PROVE  \A o \in Decoys : StreaksAfter(r, n)[o] \in 0 .. PlaceRest
BY RestAssumption DEF StreaksAfter, Streak, IsFresh

(* The conjuncts of TypeOK that the sections above do not have yet.        *)
PartTypes ==
  /\ run \in 1 .. MaxRuns /\ early \in 0 .. MaxEarlyResets
  /\ row.terms \subseteq {"success", "target_lost", "time_out"}
  /\ ConfirmerTypes(conf) /\ MonitorTypes(mon) /\ CollateralTypes(coll)
  /\ \A o \in Decoys : streak[o] \in 0 .. PlaceRest
  /\ warmNow \in BOOLEAN /\ wasWarm \in BOOLEAN /\ settled \subseteq Objects
  /\ moves \subseteq Objects /\ started \subseteq Objects
  /\ \A o \in Objects : lastHeld[o] \in {Never} \cup 1 .. MaxSteps

LEMMA CheckKeepsTypes ==
  ASSUME PartTypes, NEW r, NEW n \in 1 .. MaxSteps, NEW far, NEW peers, Check(r, n, far, peers)
  PROVE  /\ ConfirmerTypes(conf') /\ MonitorTypes(mon') /\ CollateralTypes(coll')
         /\ \A o \in Decoys : streak'[o] \in 0 .. PlaceRest
         /\ warmNow' \in BOOLEAN /\ wasWarm' \in BOOLEAN /\ settled' \subseteq Objects
         /\ moves' \subseteq Objects /\ started' \subseteq Objects
         /\ \A o \in Objects : lastHeld'[o] \in {Never} \cup 1 .. MaxSteps
<1> USE DEF PartTypes
<1>1. ConfirmerTypes(conf')
  BY ConfirmerKeepsTypes DEF Check
<1>2. MonitorTypes(mon')
  BY MonitorKeepsTypes DEF Check
<1>3. CollateralTypes(coll')
  <2>1. Contained(r, n) \subseteq Decoys
    BY DEF Contained
  <2> DEFINE inside == Contained(r, n)
  <2>2. coll' = Tracked(coll, inside, warmNow)
    BY DEF Check
  <2>3. inside \subseteq Decoys
    BY <2>1
  <2> HIDE DEF inside
  <2>4. Entered(coll, inside, warmNow) \subseteq Decoys
    BY <2>3 DEF Entered
  <2> QED BY <2>2, <2>3, <2>4 DEF Tracked, CollateralTypes
<1>4. \A o \in Decoys : streak'[o] \in 0 .. PlaceRest
  BY StreaksKeepTypes, StepsAssumption DEF Check
<1>5. warmNow' \in BOOLEAN /\ wasWarm' \in BOOLEAN
  BY DEF Check, IsWarm
<1>6. Eligible(r, n) \subseteq Objects
  BY DEF Eligible
<1>7. Starts(r, n) \subseteq Objects /\ Stops(r, n) \subseteq Objects /\ Settling(r, n, far) \subseteq Objects
  BY <1>6 DEF Starts, Stops, Settling
<1>8. settled' \subseteq Objects
  BY <1>7 DEF Check
<1>9. moves' \subseteq Objects /\ started' \subseteq Objects
  BY <1>7 DEF Check, Moved
<1>10. \A o \in Objects : lastHeld'[o] \in {Never} \cup 1 .. MaxSteps
  BY DEF Check
<1> QED BY <1>1, <1>2, <1>3, <1>4, <1>5, <1>8, <1>9, <1>10

LEMMA TermsAreTerms ==
  ASSUME NEW r, NEW n
  PROVE  Terms(r, n) \subseteq {"success", "target_lost", "time_out"}
BY DEF Terms

LEMMA ForgottenTypes ==
  ASSUME Forgotten
  PROVE  /\ CollateralTypes(coll') /\ wasWarm' \in BOOLEAN /\ settled' \subseteq Objects
         /\ moves' \subseteq Objects /\ started' \subseteq Objects
BY DEF Forgotten, CollateralTypes, NewTracker

LEMMA TypesInit == Init => PartTypes
<1> SUFFICES ASSUME Init PROVE PartTypes
  OBVIOUS
<1>1. ConfirmerTypes(conf)
  BY RestAssumption, StepsAssumption DEF Init, ConfirmerTypes, NewConfirmer
<1>2. MonitorTypes(mon)
  BY DEF Init, MonitorTypes, NewMonitor
<1>3. CollateralTypes(coll)
  BY DEF Init, CollateralTypes, NewTracker
<1>4. \A o \in Decoys : streak[o] \in 0 .. PlaceRest
  BY RestAssumption DEF Init
<1>5. \A o \in Objects : lastHeld[o] \in {Never} \cup 1 .. MaxSteps
  BY DEF Init
<1>6. run \in 1 .. MaxRuns /\ early \in 0 .. MaxEarlyResets /\ row.terms = {}
  BY StepsAssumption DEF Init, NoEnd
<1>7. warmNow \in BOOLEAN /\ wasWarm \in BOOLEAN /\ settled = {} /\ moves = {} /\ started = {}
  BY DEF Init
<1> QED BY <1>1, <1>2, <1>3, <1>4, <1>5, <1>6, <1>7 DEF PartTypes

LEMMA TypesNext == Clocks /\ PartTypes /\ [Next]_vars => PartTypes'
<1> SUFFICES ASSUME Clocks, PartTypes, [Next]_vars PROVE PartTypes'
  OBVIOUS
<1> USE StepsAssumption
<1>1. CASE Step
  <2>1. clock + 1 \in 1 .. MaxSteps /\ run' = run /\ early' = early
    BY <1>1 DEF Step, Clocks
  <2>2. PICK r \in Readings, far \in {"near", "far"}, peers \in BOOLEAN :
          /\ Check(r, clock + 1, far, peers)
          /\ row' = row \/ row' = [step |-> clock + 1, terms |-> Terms(r, clock + 1)]
    <3>1. CASE Frozen
      BY <1>1, <3>1, FrozenStep
    <3>2. CASE ~Frozen
      BY <1>1, <3>2, RunningStep
    <3> QED BY <3>1, <3>2
  <2>3. row'.terms \subseteq {"success", "target_lost", "time_out"}
    BY <2>2, TermsAreTerms DEF PartTypes
  <2> QED BY <2>1, <2>2, <2>3, CheckKeepsTypes DEF PartTypes
<1>2. CASE EarlyReset
  <2>1. PICK r \in Readings :
          /\ TooSoon(clock + 1)
          /\ conf' = Confirmer(conf, r.raw, r.still, clock + 1)
          /\ streak' = StreaksAfter(r, clock + 1)
          /\ mon' = MonAfter(r, clock + 1)
          /\ warmNow' = IsWarm(clock + 1)
          /\ lastHeld' = [o \in Objects |-> IF o \in r.held THEN clock + 1 ELSE lastHeld[o]]
    BY <1>2 DEF EarlyReset
  <2>2. /\ clock + 1 \in 1 .. MaxSteps /\ early' = early + 1 /\ run' = run /\ row' = row
        /\ Forgotten
    BY <1>2 DEF EarlyReset, Clocks
  <2>3. ConfirmerTypes(conf')
    BY <2>1, <2>2, ConfirmerKeepsTypes DEF PartTypes
  <2>4. MonitorTypes(mon')
    BY <2>1, MonitorKeepsTypes DEF PartTypes
  <2>5. \A o \in Decoys : streak'[o] \in 0 .. PlaceRest
    <3>1. clock + 1 \in Nat /\ \A o \in Decoys : streak[o] \in 0 .. PlaceRest
      BY <2>2 DEF PartTypes
    <3>2. \A o \in Decoys : StreaksAfter(r, clock + 1)[o] \in 0 .. PlaceRest
      BY <3>1, StreaksKeepTypes
    <3> QED BY <2>1, <3>2
  <2>6. early' \in 0 .. MaxEarlyResets
    BY <2>1, <2>2 DEF PartTypes, TooSoon
  <2>7. \A o \in Objects : lastHeld'[o] \in {Never} \cup 1 .. MaxSteps
    BY <2>1, <2>2 DEF PartTypes
  <2>8. warmNow' \in BOOLEAN
    BY <2>1 DEF IsWarm
  <2> QED BY <2>2, <2>3, <2>4, <2>5, <2>6, <2>7, <2>8, ForgottenTypes DEF PartTypes
<1>3. CASE NextRun
  <2>1. /\ run' \in 1 .. MaxRuns /\ early' = 0 /\ row'.terms = {} /\ Forgotten
        /\ conf' = conf /\ mon' = mon /\ streak' = streak /\ warmNow' = warmNow
        /\ lastHeld' = lastHeld
    BY <1>3 DEF NextRun, PartTypes, NoEnd
  <2> QED BY <2>1, ForgottenTypes DEF PartTypes, ConfirmerTypes, MonitorTypes
<1>4. CASE UNCHANGED vars
  BY <1>4 DEF vars, batchVars, watchVars, PartTypes, ConfirmerTypes, MonitorTypes, CollateralTypes
<1> QED BY <1>1, <1>2, <1>3, <1>4 DEF Next

(* What is watched of an environment keeps its types, over early resets,   *)
(* the steps after a freeze, and runs.                                     *)
THEOREM EventTypes == Spec => []TypeOK
<1>1. Clocks /\ PartTypes => TypeOK
  BY DEF Clocks, PartTypes, TypeOK, ConfirmerTypes, MonitorTypes, CollateralTypes
<1> QED BY <1>1, ClocksInit, ClocksNext, TypesInit, TypesNext, PTL DEF Spec
-------------------------------------------------------------------------------
(* The lines that are kept.                                                *)

LEMMA LineTypes ==
  ASSUME NEW log, IsLog(log), NEW i \in DOMAIN log
  PROVE  log[i].tick \in Nat /\ log[i].step \in Nat /\ log[i].kind \in Kinds
<1>1. i \in 1 .. Len(log) /\ log \in Seq(Lines)
  BY DEF IsLog
<1>2. log[i] \in Lines
  BY <1>1, ElementOfSeq
<1> QED BY <1>2 DEF Lines

(* A line of a kind that the tracker writes is no duplicate grab: the      *)
(* pattern of fold_duplicate_grab_lines matches none of them any more.     *)
LEMMA NoDuplicateGrabs ==
  ASSUME NEW log, IsLog(log), NEW S \in SUBSET DOMAIN log
  PROVE  FoldGrabs(log, S) = S
<1>1. \A i \in S : log[i].kind # "grasped"
  BY LineTypes DEF Kinds, Partings
<1> QED BY <1>1 DEF FoldGrabs

LEMMA PartingsAreWritten ==
  ASSUME NEW log, NEW i \in DOMAIN log, Parts(log[i])
  PROVE  i \in Written(log)
BY DEF Written, IsTwin, Parts, Detaches, Partings

(* "A pick reads GRIPPED, CARRIED, GRABBED_SUCCESS" (changes.md, P78), and *)
(* a parting follows it: no rule drops a line of these.                    *)
THEOREM PicksReadInFull ==
  ASSUME NEW log, IsLog(log), NEW window \in Int, NEW i \in DOMAIN log,
         log[i].kind \in Partings \cup {"gripped", "carried", "success"}
  PROVE  i \in Kept(log, window)
<1>1. ~Detaches(log[i]) /\ log[i].kind # "failed"
  BY DEF Detaches, Partings
<1>2. i \in Written(log)
  BY <1>1 DEF Written, IsTwin
<1>3. i \in FoldDetached(log, Written(log), window)
  BY <1>1, <1>2 DEF FoldDetached
<1>4. FoldDetached(log, Written(log), window) \in SUBSET DOMAIN log
  BY DEF FoldDetached, Written
<1> QED BY <1>3, <1>4, NoDuplicateGrabs DEF Kept

(* Nothing is dropped but what another line tells: an object that was      *)
(* detached, or a grab that the ladder lost, is left out of the log only   *)
(* if a parting of the same object is in it, no later than the window.     *)
THEOREM DroppedIsExplained ==
  ASSUME NEW log, IsLog(log), NEW window \in Nat,
         NEW i \in DOMAIN log \ Kept(log, window)
  PROVE  /\ Detaches(log[i]) \/ log[i].kind = "failed"
         /\ \E j \in Kept(log, window) :
              /\ Parts(log[j]) /\ log[j].obj = log[i].obj
              /\ log[j].tick \in log[i].tick .. log[i].tick + window
<1> DEFINE folded == FoldDetached(log, Written(log), window)
<1>1. folded \in SUBSET DOMAIN log
  BY DEF FoldDetached, Written
<1>2. Kept(log, window) = folded
  BY <1>1, NoDuplicateGrabs DEF Kept
<1>3. ASSUME NEW j \in DOMAIN log, Parts(log[j]) PROVE j \in Kept(log, window)
  BY <1>3, PicksReadInFull DEF Parts
<1>4. log[i].tick \in Nat /\ log[i].step \in Nat
  BY LineTypes
<1>5. CASE i \notin Written(log)
  <2>1. IsTwin(log, i)
    BY <1>5 DEF Written
  <2>2. PICK j \in DOMAIN log : Parts(log[j]) /\ log[j].tick = log[i].tick /\ log[j].obj = log[i].obj
    BY <2>1 DEF IsTwin, PartedWith
  <2>3. log[j].tick \in log[i].tick .. log[i].tick + window
    BY <1>4, <2>2
  <2> QED BY <1>3, <2>1, <2>2, <2>3 DEF IsTwin
<1>6. CASE i \in Written(log)
  <2>1. /\ Detaches(log[i])
        /\ \E j \in Written(log) : /\ Parts(log[j]) /\ log[j].obj = log[i].obj
                                   /\ log[j].step \in log[i].step .. log[i].step + window
    BY <1>2, <1>6 DEF FoldDetached
  <2>2. PICK j \in Written(log) : /\ Parts(log[j]) /\ log[j].obj = log[i].obj
                                  /\ log[j].step \in log[i].step .. log[i].step + window
    BY <2>1
  <2>3. j \in DOMAIN log
    BY DEF Written
  <2>4. log[j].step = log[j].tick /\ log[i].step = log[i].tick
    BY <2>1, <2>2, <2>3 DEF IsLog
  <2> QED BY <1>3, <2>1, <2>2, <2>3, <2>4
<1> QED BY <1>5, <1>6

(* The rule of the tick adds nothing to the log that is read: folding the  *)
(* raw lines, with any window but none, drops the same detachments (P57    *)
(* was added beside rule c, not in its place).                             *)
THEOREM FoldCoversTicks ==
  ASSUME NEW log, IsLog(log), NEW window \in Nat \ {0}, NEW i \in DOMAIN log, Detaches(log[i])
  PROVE  i \in Kept(log, window) <=> i \in FoldDetached(log, DOMAIN log, window)
<1>1. Kept(log, window) = FoldDetached(log, Written(log), window)
  <2>1. FoldDetached(log, Written(log), window) \in SUBSET DOMAIN log
    BY DEF FoldDetached, Written
  <2> QED BY <2>1, NoDuplicateGrabs DEF Kept
<1>2. Written(log) \subseteq DOMAIN log
  BY DEF Written
<1>3. ASSUME i \in Kept(log, window) PROVE i \in FoldDetached(log, DOMAIN log, window)
  BY <1>1, <1>2, <1>3, PartingsAreWritten DEF FoldDetached
<1>4. ASSUME i \in FoldDetached(log, DOMAIN log, window) PROVE i \in Kept(log, window)
  <2>1. \A j \in DOMAIN log : Parts(log[j]) /\ log[j].obj = log[i].obj =>
          log[j].step \notin log[i].step .. log[i].step + window
    BY <1>4 DEF FoldDetached
  <2>2. ASSUME IsTwin(log, i) PROVE FALSE
    <3>1. PICK j \in DOMAIN log : Parts(log[j]) /\ log[j].tick = log[i].tick /\ log[j].obj = log[i].obj
      BY <2>2 DEF IsTwin, PartedWith
    <3>2. log[j].step = log[i].step
      BY <3>1 DEF IsLog
    <3>3. log[i].step \in Nat
      BY LineTypes
    <3> QED BY <2>1, <3>1, <3>2, <3>3
  <2>3. i \in Written(log)
    BY <2>2 DEF Written
  <2> QED BY <1>1, <1>2, <2>1, <2>3 DEF FoldDetached
<1> QED BY <1>3, <1>4
===============================================================================
