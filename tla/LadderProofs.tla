----------------------------- MODULE LadderProofs -----------------------------
(***************************************************************************)
(* Proofs about the subtask ladder, for every ladder and every warm-up.    *)
(* The lemmas on the group operators are stated for an arbitrary stage,    *)
(* machine and frame; then come the theorems about Spec, and about what an *)
(* author can write.                                                       *)
(***************************************************************************)
EXTENDS SubtaskLadder, SubtaskForms, SumTheorems, FiniteSetTheorems, SequenceTheorems,
        WellFoundedInduction, TLAPS

-------------------------------------------------------------------------------
(* Every non-empty set of naturals with an upper bound has a greatest and  *)
(* a least element: Max and Min of such a set are in it.                   *)
LEMMA BoundedMax ==
  ASSUME NEW n \in Nat, NEW T \in SUBSET (0 .. n), T # {}
  PROVE  Max(T) \in T /\ \A y \in T : y <= Max(T)
<1> DEFINE U == {t .. n : t \in T}
           R == StrictSubsetOrdering(0 .. n)
<1>1. IsWellFoundedOn(R, FiniteSubsetsOf(0 .. n))
  BY FS_StrictSubsetOrderingWellFounded
<1>2. U \subseteq FiniteSubsetsOf(0 .. n)
  <2>1. \A t \in T : t .. n \in SUBSET (0 .. n) /\ IsFiniteSet(t .. n)
    BY FS_Interval
  <2> QED BY <2>1 DEF FiniteSubsetsOf
<1>3. U # {}
  OBVIOUS
<1>4. PICK u \in U : \A v \in U : <<v, u>> \notin R
  <2> HIDE DEF R, U
  <2> QED BY <1>1, <1>2, <1>3, WFMin
<1>5. PICK t \in T : u = t .. n
  OBVIOUS
<1>6. ASSUME NEW y \in T, y > t PROVE FALSE
  <2>1. y .. n \in U
    OBVIOUS
  <2>2. y .. n \in SUBSET (0 .. n) /\ t .. n \in SUBSET (0 .. n)
    OBVIOUS
  <2>3. y .. n \subseteq t .. n
    BY <1>6
  <2>4. y .. n # t .. n
    <3>1. t \in t .. n /\ t \notin y .. n
      BY <1>6
    <3> QED BY <3>1
  <2> QED BY <1>4, <1>5, <2>1, <2>2, <2>3, <2>4 DEF StrictSubsetOrdering
<1>7. \E x \in T : \A y \in T : x >= y
  BY <1>6
<1> QED BY <1>7 DEF Max

LEMMA BoundedMin ==
  ASSUME NEW n \in Nat, NEW T \in SUBSET (0 .. n), T # {}
  PROVE  Min(T) \in T /\ \A y \in T : Min(T) <= y
<1> DEFINE V == {n - t : t \in T}
<1>1. V \in SUBSET (0 .. n) /\ V # {}
  <2>1. \A t \in T : n - t \in 0 .. n
    OBVIOUS
  <2>2. PICK t \in T : TRUE
    OBVIOUS
  <2>3. n - t \in V
    OBVIOUS
  <2> QED BY <2>1, <2>3
<1>2. Max(V) \in V /\ \A y \in V : y <= Max(V)
  <2> HIDE DEF V
  <2> QED BY <1>1, BoundedMax
<1>3. PICK t \in T : Max(V) = n - t
  BY <1>2
<1>4. \A y \in T : n - y <= n - t
  BY <1>2, <1>3
<1>5. \E x \in T : \A y \in T : x =< y
  BY <1>4
<1> QED BY <1>5 DEF Min

-------------------------------------------------------------------------------
(* The parts of a well-formed machine.                                      *)
LEMMA MachineParts ==
  ASSUME NEW st, NEW m, IsMachine(st, m)
  PROVE  /\ m = [tracker |-> m.tracker, completed |-> m.completed,
                 excluded |-> m.excluded, probed |-> m.probed]
         /\ m.tracker \in [Groups(st) -> Nat]
         /\ m.completed \in [Groups(st) -> SUBSET Nat]
         /\ m.excluded \in [Groups(st) -> SUBSET Nat]
         /\ m.probed \in BOOLEAN
         /\ \A g \in Groups(st) : m.tracker[g] \in Nat /\ m.tracker[g] <= st.size[g]
<1> DEFINE T == [Groups(st) -> Nat]
           F == [Groups(st) -> SUBSET Nat]
<1>1. m \in [tracker : T, completed : F, excluded : F, probed : BOOLEAN]
  BY DEF IsMachine
<1>2. /\ m = [tracker |-> m.tracker, completed |-> m.completed,
              excluded |-> m.excluded, probed |-> m.probed]
      /\ m.tracker \in T /\ m.completed \in F /\ m.excluded \in F /\ m.probed \in BOOLEAN
  <2> HIDE DEF T, F
  <2> QED BY <1>1
<1>3. \A g \in Groups(st) : m.tracker[g] <= st.size[g]
  BY DEF IsMachine
<1>4. \A g \in Groups(st) : m.tracker[g] \in Nat
  BY <1>2
<1> QED BY <1>2, <1>3, <1>4

LEMMA MachineSizes ==
  ASSUME NEW st, IsStage(st), NEW m, IsMachine(st, m), NEW g \in Groups(st)
  PROVE  st.size[g] \in Nat \ {0} /\ m.tracker[g] \in 0 .. st.size[g]
<1>1. st.size[g] \in Nat \ {0}
  BY DEF IsStage
<1> QED BY <1>1, MachineParts

(* Where one group goes.  The hypotheses of all four lemmas: a stage, a    *)
(* machine of it and a frame of it.                                        *)
LEMMA ReachedBounds ==
  ASSUME NEW st, IsStage(st), NEW m, IsMachine(st, m), NEW h, IsFrame(st, h),
         NEW g \in Groups(st)
  PROVE  /\ Reached(st, m, h, g) \in m.tracker[g] .. st.size[g]
         /\ Reached(st, m, h, g) > m.tracker[g] =>
              Reached(st, m, h, g) - 1 \in Satisfied(st, m, h, g)
         /\ Satisfied(st, m, h, g) # {} =>
              Reached(st, m, h, g) - 1 \in Satisfied(st, m, h, g)
<1> DEFINE S == Satisfied(st, m, h, g)
           n == st.size[g]
<1>1. n \in Nat \ {0} /\ m.tracker[g] \in 0 .. n
  BY MachineSizes
<1>2. S \in SUBSET (0 .. n - 1) /\ n - 1 \in Nat
  BY <1>1 DEF Satisfied, Rungs
<1>3. CASE S = {}
  BY <1>1, <1>3 DEF Reached
<1>4. CASE S # {}
  <2> HIDE DEF n
  <2>1. Max(S) \in S
    <3> HIDE DEF S
    <3> QED BY <1>2, <1>4, BoundedMax
  <2>2. Reached(st, m, h, g) = Max(S) + 1
    BY <1>4 DEF Reached
  <2>3. Max(S) \in 0 .. n - 1 /\ Max(S) >= m.tracker[g]
    BY <2>1, <1>2 DEF Satisfied
  <2> QED BY <2>1, <2>2, <2>3, <1>1 DEF n
<1> QED BY <1>3, <1>4

LEMMA ForwardBounds ==
  ASSUME NEW st, IsStage(st), NEW m, IsMachine(st, m), NEW h, IsFrame(st, h),
         NEW g \in Groups(st)
  PROVE  /\ Forward(st, m, h, g) \in m.tracker[g] .. st.size[g]
         /\ Forward(st, m, h, g) >= Reached(st, m, h, g)
         /\ \A i \in Reached(st, m, h, g) .. Forward(st, m, h, g) - 1 : i \in m.excluded[g]
<1> DEFINE n == st.size[g]
           a == Reached(st, m, h, g)
           stops == {w \in 0 .. n : w >= a /\ (w = n \/ w \notin m.excluded[g])}
<1>1. n \in Nat \ {0} /\ m.tracker[g] \in 0 .. n /\ a \in m.tracker[g] .. n
  BY MachineSizes, ReachedBounds
<1>2. Forward(st, m, h, g) = Min(stops)
  BY DEF Forward
<1>3. stops \in SUBSET (0 .. n) /\ n \in stops
  <2> HIDE DEF n, a
  <2> QED BY <1>1
<1>4. Min(stops) \in stops /\ \A y \in stops : Min(stops) <= y
  <2> HIDE DEF stops, n, a
  <2> QED BY <1>1, <1>3, BoundedMin
<1>5. Min(stops) \in 0 .. n /\ Min(stops) >= a
  <2> HIDE DEF n, a
  <2> QED BY <1>4
<1>6. ASSUME NEW i \in a .. Min(stops) - 1 PROVE i \in m.excluded[g]
  <2> HIDE DEF n, a
  <2>1. i \in 0 .. n /\ i >= a /\ i # n /\ i < Min(stops)
    <3> HIDE DEF stops
    <3> QED BY <1>1, <1>5
  <2>2. i \notin stops
    <3>1. i \in stops => Min(stops) <= i
      BY <1>4
    <3> HIDE DEF stops
    <3> QED BY <2>1, <3>1, <1>5
  <2> QED BY <2>1, <2>2
<1> HIDE DEF stops, n, a
<1>7. Min(stops) \in m.tracker[g] .. n
  BY <1>1, <1>5
<1> QED BY <1>2, <1>5, <1>6, <1>7 DEF n, a

LEMMA BackwardBounds ==
  ASSUME NEW st, IsStage(st), NEW m, IsMachine(st, m), NEW h, IsFrame(st, h),
         NEW g \in Groups(st)
  PROVE  Backward(m, h, g) \in 0 .. m.tracker[g]
<1> DEFINE low == {j \in 0 .. m.tracker[g] :
                     \A i \in j .. m.tracker[g] - 1 : i \notin h[g] /\ i \notin m.excluded[g]}
<1>1. m.tracker[g] \in Nat
  BY MachineParts
<1>2. low \in SUBSET (0 .. m.tracker[g]) /\ m.tracker[g] \in low
  BY <1>1
<1>3. Min(low) \in low
  <2> HIDE DEF low
  <2> QED BY <1>1, <1>2, BoundedMin
<1> QED BY <1>2, <1>3 DEF Backward

LEMMA NextTrackerBounds ==
  ASSUME NEW st, IsStage(st), NEW m, IsMachine(st, m), NEW h, IsFrame(st, h),
         NEW g \in Groups(st)
  PROVE  NextTracker(st, m, h, g) \in 0 .. st.size[g]
<1>1. st.size[g] \in Nat /\ m.tracker[g] \in 0 .. st.size[g]
  BY MachineSizes
<1>2. Forward(st, m, h, g) \in 0 .. st.size[g]
  BY <1>1, ForwardBounds
<1>3. Backward(m, h, g) \in 0 .. st.size[g]
  BY <1>1, BackwardBounds
<1> QED BY <1>1, <1>2, <1>3 DEF NextTracker

-------------------------------------------------------------------------------
(* One machine: it stays well formed, and each of its groups has completed *)
(* exactly the rungs below its tracker.                                    *)
Prefix(st, m) == \A g \in Groups(st) : m.completed[g] = 0 .. m.tracker[g] - 1

LEMMA FreshMachine ==
  ASSUME NEW st, IsStage(st)
  PROVE  IsMachine(st, Fresh(st)) /\ Prefix(st, Fresh(st)) /\ ~Fresh(st).probed
BY DEF IsStage, IsMachine, IsFrame, Fresh, Prefix, Groups, Rungs

LEMMA ProbedMachine ==
  ASSUME NEW st, IsStage(st), NEW m, IsMachine(st, m), NEW h, IsFrame(st, h)
  PROVE  /\ IsMachine(st, Probe(st, m, h))
         /\ Probe(st, m, h).tracker = m.tracker
         /\ Probe(st, m, h).completed = m.completed
         /\ Probe(st, m, h).probed
BY MachineParts DEF Probe, IsFrame, IsMachine

LEMMA StepGroupsMachine ==
  ASSUME NEW st, IsStage(st), NEW m, IsMachine(st, m), NEW h, IsFrame(st, h)
  PROVE  IsMachine(st, StepGroups(st, m, h))
<1> DEFINE m2 == StepGroups(st, m, h)
<1>1. /\ m2.tracker = [g \in Groups(st) |-> NextTracker(st, m, h, g)]
      /\ m2.completed = [g \in Groups(st) |-> NextCompleted(st, m, h, g)]
      /\ m2.excluded = m.excluded /\ m2.probed = m.probed
      /\ m2 = [tracker |-> m2.tracker, completed |-> m2.completed,
               excluded |-> m.excluded, probed |-> m.probed]
  BY DEF StepGroups
<1>2. \A g \in Groups(st) : NextTracker(st, m, h, g) \in 0 .. st.size[g]
  BY NextTrackerBounds
<1>3. \A g \in Groups(st) : st.size[g] \in Nat /\ m.tracker[g] \in 0 .. st.size[g]
  BY MachineSizes
<1>4. \A g \in Groups(st) : NextCompleted(st, m, h, g) \subseteq Rungs(st, g)
  <2> TAKE g \in Groups(st)
  <2>1. m.completed[g] \subseteq 0 .. st.size[g] - 1
    BY DEF IsMachine, IsFrame, Rungs
  <2> QED BY <1>2, <1>3, <2>1 DEF NextCompleted, Rungs
<1>5. \A g \in Groups(st) : NextCompleted(st, m, h, g) \in SUBSET Nat
  BY <1>3, <1>4 DEF Rungs
<1>6. IsFrame(st, m2.completed)
  BY <1>1, <1>4, <1>5 DEF IsFrame
<1>7. m2.tracker \in [Groups(st) -> Nat] /\ \A g \in Groups(st) : m2.tracker[g] <= st.size[g]
  BY <1>1, <1>2, <1>3
<1>8. m2.excluded \in [Groups(st) -> SUBSET Nat] /\ m2.probed \in BOOLEAN
  BY <1>1, MachineParts
<1>9. IsFrame(st, m2.excluded)
  BY <1>1 DEF IsMachine
<1>10. m2.completed \in [Groups(st) -> SUBSET Nat]
  BY <1>6 DEF IsFrame
<1> DEFINE T == [Groups(st) -> Nat]
           F == [Groups(st) -> SUBSET Nat]
<1>11. m2 \in [tracker : T, completed : F, excluded : F, probed : BOOLEAN]
  <2>1. m2.tracker \in T /\ m2.completed \in F /\ m2.excluded \in F
    BY <1>7, <1>8, <1>10
  <2> HIDE DEF T, F, m2
  <2> QED BY <1>1, <1>8, <2>1
<1>12. IsMachine(st, m2)
  <2> HIDE DEF m2
  <2> QED BY <1>6, <1>7, <1>9, <1>11 DEF IsMachine
<1> QED BY <1>12

LEMMA StepGroupsPrefix ==
  ASSUME NEW st, IsStage(st), NEW m, IsMachine(st, m), NEW h, IsFrame(st, h),
         Prefix(st, m)
  PROVE  Prefix(st, StepGroups(st, m, h))
<1> SUFFICES ASSUME NEW g \in Groups(st)
             PROVE  NextCompleted(st, m, h, g) = 0 .. NextTracker(st, m, h, g) - 1
  BY DEF StepGroups, Prefix
<1>1. NextTracker(st, m, h, g) \in Nat /\ m.tracker[g] \in Nat
  BY MachineSizes, NextTrackerBounds
<1>2. m.completed[g] = 0 .. m.tracker[g] - 1
  BY DEF Prefix
<1> DEFINE t == NextTracker(st, m, h, g)
<1>3. CASE t >= m.tracker[g]
  <2> HIDE DEF t
  <2>1. (0 .. m.tracker[g] - 1) \cup (m.tracker[g] .. t - 1) = 0 .. t - 1
    BY <1>1, <1>3 DEF t
  <2> QED BY <1>2, <1>3, <2>1 DEF NextCompleted, t
<1>4. CASE ~(t >= m.tracker[g])
  <2> HIDE DEF t
  <2>1. (0 .. m.tracker[g] - 1) \ (t .. m.tracker[g] - 1) = 0 .. t - 1
    BY <1>1, <1>4 DEF t
  <2> QED BY <1>2, <1>4, <2>1 DEF NextCompleted, t
<1> QED BY <1>3, <1>4

LEMMA StepMachine ==
  ASSUME NEW st, IsStage(st), NEW m, IsMachine(st, m), NEW h, IsFrame(st, h),
         NEW settled \in BOOLEAN
  PROVE  /\ IsMachine(st, Step(st, m, h, settled))
         /\ Prefix(st, m) => Prefix(st, Step(st, m, h, settled))
         /\ Step(st, m, h, settled).probed <=> (m.probed \/ settled)
<1>1. CASE m.probed
  <2>1. StepGroups(st, m, h).probed = m.probed
    BY DEF StepGroups
  <2> QED BY <1>1, <2>1, StepGroupsMachine, StepGroupsPrefix DEF Step
<1>2. CASE ~m.probed /\ ~settled
  BY <1>2 DEF Step
<1>3. CASE ~m.probed /\ settled
  <2> DEFINE p == Probe(st, m, h)
  <2>1. IsMachine(st, p) /\ p.probed /\ (Prefix(st, m) => Prefix(st, p))
    BY ProbedMachine DEF Prefix
  <2>2. Step(st, m, h, settled) = StepGroups(st, p, h)
    BY <1>3 DEF Step
  <2>3. StepGroups(st, p, h).probed
    BY <2>1 DEF StepGroups
  <2> HIDE DEF p
  <2> QED BY <1>3, <2>1, <2>2, <2>3, StepGroupsMachine, StepGroupsPrefix
<1> QED BY <1>1, <1>2, <1>3

-------------------------------------------------------------------------------
(* Credit stays witnessed over a step, if what is creditable and true on   *)
(* the frame is added to what was seen.                                    *)
Witness(st, m, sn) ==
  \A g \in Groups(st) : \A r \in m.completed[g] \ m.excluded[g] : \E q \in sn[g] : q >= r

SeenAfter(st, m, h, sn) ==
  [g \in Groups(st) |-> IF m.probed THEN sn[g] \cup (h[g] \ m.excluded[g]) ELSE sn[g]]

Untouched(st, m) == \A g \in Groups(st) : m.completed[g] = {}

LEMMA AdvanceIsWitnessed ==
  ASSUME NEW st, IsStage(st), NEW m, IsMachine(st, m), NEW h, IsFrame(st, h),
         NEW g \in Groups(st),
         NEW r \in NextCompleted(st, m, h, g), r \notin m.completed[g], r \notin m.excluded[g]
  PROVE  \E q \in h[g] \ m.excluded[g] : q >= r
<1> DEFINE t == NextTracker(st, m, h, g)
           a == Reached(st, m, h, g)
<1>1. t \in Nat /\ m.tracker[g] \in Nat /\ st.size[g] \in Nat
  BY MachineSizes, NextTrackerBounds
<1>2. r \in m.tracker[g] .. t - 1
  BY DEF NextCompleted
<1>3. t = Forward(st, m, h, g)
  <2>1. t > m.tracker[g]
    BY <1>1, <1>2
  <2>2. Backward(m, h, g) \in 0 .. m.tracker[g]
    BY BackwardBounds
  <2> QED BY <1>1, <2>1, <2>2 DEF NextTracker
<1>4. r \notin a .. t - 1
  BY <1>3, ForwardBounds
<1>5. a \in Nat /\ a > r
  <2>1. a \in m.tracker[g] .. st.size[g]
    BY ReachedBounds
  <2> QED BY <1>1, <1>2, <1>4, <2>1
<1>6. a - 1 \in Satisfied(st, m, h, g)
  <2>1. a > m.tracker[g]
    BY <1>1, <1>2, <1>5
  <2> QED BY <2>1, ReachedBounds
<1>7. a - 1 \in h[g] \ m.excluded[g]
  BY <1>6 DEF Satisfied
<1>8. a - 1 >= r
  BY <1>1, <1>2, <1>5
<1> QED BY <1>7, <1>8

LEMMA StepGroupsWitness ==
  ASSUME NEW st, IsStage(st), NEW m, IsMachine(st, m), NEW h, IsFrame(st, h),
         NEW sn, Witness(st, m, sn)
  PROVE  \A g \in Groups(st) :
           \A r \in StepGroups(st, m, h).completed[g] \ m.excluded[g] :
             \E q \in sn[g] \cup (h[g] \ m.excluded[g]) : q >= r
<1> SUFFICES ASSUME NEW g \in Groups(st),
                    NEW r \in NextCompleted(st, m, h, g), r \notin m.excluded[g]
             PROVE  \E q \in sn[g] \cup (h[g] \ m.excluded[g]) : q >= r
  BY DEF StepGroups
<1>1. CASE r \in m.completed[g]
  BY <1>1 DEF Witness
<1>2. CASE r \notin m.completed[g]
  BY <1>2, AdvanceIsWitnessed
<1> QED BY <1>1, <1>2

LEMMA StepWitness ==
  ASSUME NEW st, IsStage(st), NEW m, IsMachine(st, m), NEW h, IsFrame(st, h),
         NEW settled \in BOOLEAN, NEW sn, Witness(st, m, sn),
         ~m.probed => Untouched(st, m)
  PROVE  LET m2 == Step(st, m, h, settled)
         IN  /\ Witness(st, m2, SeenAfter(st, m2, h, sn))
             /\ ~m2.probed => Untouched(st, m2)
<1> DEFINE m2 == Step(st, m, h, settled)
<1>1. CASE m.probed
  <2>1. m2 = StepGroups(st, m, h) /\ m2.probed /\ m2.excluded = m.excluded
    BY <1>1 DEF Step, StepGroups
  <2> QED BY <2>1, StepGroupsWitness DEF Witness, SeenAfter
<1>2. CASE ~m.probed /\ ~settled
  <2>1. m2 = m
    BY <1>2 DEF Step
  <2> QED BY <1>2, <2>1 DEF Witness, SeenAfter
<1>3. CASE ~m.probed /\ settled
  <2> DEFINE p == Probe(st, m, h)
  <2>1. IsMachine(st, p) /\ Witness(st, p, sn)
    <3>1. Untouched(st, p)
      BY <1>3, ProbedMachine DEF Untouched
    <3> QED BY <3>1, ProbedMachine DEF Untouched, Witness
  <2>2. m2 = StepGroups(st, p, h) /\ m2.probed /\ m2.excluded = p.excluded
    BY <1>3 DEF Step, StepGroups, Probe
  <2>3. \A g \in Groups(st) :
          \A r \in m2.completed[g] \ m2.excluded[g] :
            \E q \in sn[g] \cup (h[g] \ m2.excluded[g]) : q >= r
    <3> HIDE DEF p, m2
    <3> QED BY <2>1, <2>2, StepGroupsWitness
  <2>4. Witness(st, m2, SeenAfter(st, m2, h, sn)) /\ m2.probed
    <3> HIDE DEF p, m2
    <3> QED BY <2>2, <2>3 DEF Witness, SeenAfter
  <2> QED BY <2>4
<1> QED BY <1>1, <1>2, <1>3

-------------------------------------------------------------------------------
(* The specification.  The invariant adds to TypeOK what the step lemmas   *)
(* need of the current machine, and where the probe may have happened.     *)
Current == Ladder[stage + 1]

LadderInv ==
  /\ TypeOK
  /\ ~Complete => /\ Prefix(Current, csm)
                  /\ Witness(Current, csm, seen)
                  /\ csm.probed => Settled(clock)
                  /\ ~csm.probed => Untouched(Current, csm)
  /\ lead <= 2 * early

LEMMA CurrentStage == ASSUME TypeOK, ~Complete PROVE IsStage(Current) /\ stage + 1 \in 1 .. NumStages
BY LadderAssumption DEF TypeOK, Complete, Current

(* The machine a stage starts with satisfies everything the invariant says.*)
LEMMA StageStarts ==
  ASSUME NEW n \in 0 .. NumStages - 1
  PROVE  LET m == MachineFor(n)
             st == Ladder[n + 1]
         IN  /\ IsStage(st) /\ IsMachine(st, m) /\ Prefix(st, m) /\ Untouched(st, m) /\ ~m.probed
             /\ IsFrame(st, NothingSeen(n)) /\ Witness(st, m, NothingSeen(n))
<1>1. n < NumStages /\ n + 1 \in 1 .. NumStages /\ IsStage(Ladder[n + 1])
  BY LadderAssumption
<1>2. MachineFor(n) = Fresh(Ladder[n + 1])
  BY <1>1 DEF MachineFor
<1>3. NothingSeen(n) = [g \in Groups(Ladder[n + 1]) |-> {}]
  BY <1>1 DEF NothingSeen
<1>4. Untouched(Ladder[n + 1], Fresh(Ladder[n + 1]))
  BY DEF Untouched, Fresh
<1>5. Witness(Ladder[n + 1], Fresh(Ladder[n + 1]), NothingSeen(n))
  BY <1>4 DEF Witness, Untouched
<1>6. IsFrame(Ladder[n + 1], NothingSeen(n))
  BY <1>3 DEF IsFrame
<1> QED BY <1>1, <1>2, <1>4, <1>5, <1>6, FreshMachine

LEMMA FrameType ==
  ASSUME NEW i \in 1 .. NumStages, NEW W
  PROVE  IsFrame(Ladder[i], FrameOf(i, W))
<1>1. IsStage(Ladder[i])
  BY LadderAssumption
<1>2. \A g \in Groups(Ladder[i]) : Rungs(Ladder[i], g) \subseteq Nat
  BY <1>1 DEF Rungs, IsStage
<1> QED BY <1>2 DEF IsFrame, FrameOf

LEMMA InitInv == Init => LadderInv
<1> SUFFICES ASSUME Init PROVE LadderInv
  OBVIOUS
<1> USE DEF Init
<1>1. 0 \in 0 .. NumStages - 1 /\ ~Complete /\ Current = Ladder[1] /\ 0 + 1 = 1
  BY LadderAssumption DEF Complete, Current
<1>2. /\ IsMachine(Current, csm) /\ Prefix(Current, csm) /\ Untouched(Current, csm)
      /\ ~csm.probed /\ IsFrame(Current, seen) /\ Witness(Current, csm, seen)
  BY <1>1, StageStarts
<1>3. TypeOK
  BY <1>1, <1>2, BoundAssumption, LadderAssumption DEF TypeOK, Current, ClockCap
<1> QED BY <1>1, <1>2, <1>3 DEF LadderInv

LEMMA ResetInv == ASSUME LadderInv, ResetLadder, lead' \in Nat, lead' <= 2 * early',
                         early' \in 0 .. MaxEarlyResets, run' \in 1 .. MaxRuns
                  PROVE  LadderInv'
<1> USE DEF ResetLadder
<1>1. 0 \in 0 .. NumStages - 1 /\ ~Complete' /\ Current' = Ladder[1] /\ 0 + 1 = 1
  BY LadderAssumption DEF Complete, Current
<1>2. /\ IsMachine(Current, csm)' /\ Prefix(Current, csm)' /\ Untouched(Current, csm)'
      /\ ~csm'.probed /\ IsFrame(Current, seen)' /\ Witness(Current, csm, seen)'
  BY <1>1, StageStarts
<1>3. TypeOK'
  BY <1>1, <1>2, BoundAssumption, LadderAssumption DEF TypeOK, Current, ClockCap
<1> QED BY <1>1, <1>2, <1>3 DEF LadderInv

LEMMA TickInv == ASSUME LadderInv, Tick PROVE LadderInv'
<1> DEFINE now == IF clock < ClockCap THEN clock + 1 ELSE clock
<1>1. PICK W \in SUBSET RungIds :
        /\ holds' = W
        /\ IF Complete THEN UNCHANGED <<stage, csm, seen, won>> ELSE StepLadder(W, now)
  BY DEF Tick, TickOn
<1>2. /\ clock' = now /\ UNCHANGED <<lead, early, run>>
      /\ now \in 0 .. ClockCap /\ now >= clock /\ clock \in 0 .. ClockCap
      /\ ClockCap \in Nat /\ lead \in Nat
  BY BoundAssumption DEF Tick, TickOn, LadderInv, TypeOK, ClockCap
<1>3. holds' \subseteq RungIds /\ early' \in 0 .. MaxEarlyResets /\ run' \in 1 .. MaxRuns
  BY <1>1, <1>2 DEF LadderInv, TypeOK
<1>4. Settled(now) \in BOOLEAN /\ (Settled(clock) => Settled(now)) /\ (Settled(clock)' <=> Settled(now))
  BY <1>2, BoundAssumption DEF Settled
<1>5. CASE Complete
  <2>1. UNCHANGED <<stage, csm, seen, won>> /\ Complete'
    BY <1>1, <1>5 DEF Complete
  <2>2. TypeOK'
    BY <1>2, <1>3, <1>5, <2>1 DEF TypeOK, LadderInv, NothingSeen
  <2> QED BY <1>2, <2>1, <2>2 DEF LadderInv
<1>6. CASE ~Complete
  <2> DEFINE st == Ladder[stage + 1]
             h  == FrameOf(stage + 1, W)
             m  == Step(st, csm, h, Settled(now))
  <2>1. IsStage(st) /\ stage + 1 \in 1 .. NumStages /\ IsFrame(st, h) /\ st = Current
    BY <1>6, CurrentStage, FrameType DEF LadderInv, Current
  <2>2. /\ IsMachine(st, csm) /\ Prefix(st, csm) /\ Witness(st, csm, seen) /\ IsFrame(st, seen)
        /\ ~csm.probed => Untouched(st, csm)
        /\ csm.probed => Settled(clock)
    BY <1>6 DEF LadderInv, TypeOK, Current
  <2>3. IsMachine(st, m) /\ Prefix(st, m) /\ (m.probed <=> (csm.probed \/ Settled(now)))
    <3> HIDE DEF st, h
    <3> QED BY <1>4, <2>1, <2>2, StepMachine
  <2>4. Witness(st, m, SeenAfter(st, m, h, seen)) /\ (~m.probed => Untouched(st, m))
    <3> HIDE DEF st, h
    <3> QED BY <1>4, <2>1, <2>2, StepWitness
  <2>5. m.probed => Settled(now)
    BY <1>4, <2>2, <2>3
  <2>6. CASE StageDone(st, m)
    <3>1. /\ stage' = stage + 1 /\ csm' = MachineFor(stage + 1) /\ seen' = NothingSeen(stage + 1)
          /\ won' \subseteq 1 .. stage'
      <4>1. /\ stage' = stage + 1 /\ csm' = MachineFor(stage + 1) /\ seen' = NothingSeen(stage + 1)
            /\ won' \subseteq won \cup {stage + 1}
        BY <1>1, <1>6, <2>6 DEF StepLadder
      <4>2. won \subseteq 1 .. stage /\ stage \in Nat
        BY DEF LadderInv, TypeOK
      <4> QED BY <4>1, <4>2
    <3>2. CASE stage + 1 = NumStages
      <4>1. Complete' /\ csm' = NoMachine /\ stage' \in 0 .. NumStages
        BY <3>1, <3>2, LadderAssumption DEF Complete, MachineFor
      <4>2. TypeOK'
        BY <1>2, <1>3, <3>1, <4>1 DEF TypeOK
      <4> QED BY <1>2, <4>1, <4>2 DEF LadderInv
    <3>3. CASE stage + 1 # NumStages
      <4>1. stage + 1 \in 0 .. NumStages - 1 /\ stage' \in 0 .. NumStages /\ ~Complete'
        BY <2>1, <3>1, <3>3, LadderAssumption DEF Complete
      <4>2. Current' = Ladder[(stage + 1) + 1]
        BY <3>1 DEF Current
      <4>3. /\ IsMachine(Current, csm)' /\ Prefix(Current, csm)' /\ Untouched(Current, csm)'
            /\ ~csm'.probed /\ IsFrame(Current, seen)' /\ Witness(Current, csm, seen)'
        BY <3>1, <4>1, <4>2, StageStarts
      <4>4. TypeOK'
        <5>1. IsMachine(Ladder[stage' + 1], csm') /\ IsFrame(Ladder[stage' + 1], seen')
          BY <4>3 DEF Current
        <5>2. won' \subseteq 1 .. stage'
          BY <3>1
        <5> HIDE DEF now
        <5> QED BY <1>2, <1>3, <4>1, <5>1, <5>2 DEF TypeOK
      <4> QED BY <1>2, <4>1, <4>3, <4>4 DEF LadderInv
    <3> QED BY <3>2, <3>3
  <2>7. CASE ~StageDone(st, m)
    <3>1. stage' = stage /\ csm' = m /\ seen' = Witnessed(m, h) /\ won' = won
      BY <1>1, <1>6, <2>7 DEF StepLadder
    <3>2. ~Complete' /\ Current' = st /\ stage' \in 0 .. NumStages
      BY <1>6, <3>1 DEF Complete, Current, LadderInv, TypeOK
    <3>3. DOMAIN seen = Groups(st)
      BY <2>2 DEF IsFrame
    <3>4. seen' = SeenAfter(st, m, h, seen)
      BY <3>1, <3>3 DEF Witnessed, SeenAfter
    <3>5. IsFrame(st, seen')
      <4> HIDE DEF st, m, h
      <4>1. \A g \in Groups(st) : seen[g] \subseteq Rungs(st, g) /\ h[g] \subseteq Rungs(st, g)
        BY <2>1, <2>2 DEF IsFrame
      <4>2. \A g \in Groups(st) : Rungs(st, g) \subseteq Nat
        BY <2>1 DEF Rungs, IsStage
      <4> QED BY <3>4, <4>1, <4>2 DEF IsFrame, SeenAfter
    <3>6. TypeOK'
      <4>1. IsMachine(Current', csm')
        BY <2>3, <3>1, <3>2
      <4>2. IsMachine(Ladder[stage' + 1], csm') /\ IsFrame(Ladder[stage' + 1], seen')
        BY <3>2, <3>5, <4>1 DEF Current
      <4>3. won' \subseteq 1 .. stage'
        BY <3>1 DEF LadderInv, TypeOK
      <4> QED BY <1>2, <1>3, <3>2, <4>2, <4>3 DEF TypeOK
    <3>7. Prefix(Current', csm') /\ Witness(Current', csm', seen') /\ (~csm'.probed => Untouched(Current', csm'))
      BY <2>3, <2>4, <3>1, <3>2, <3>4
    <3>8. csm'.probed => Settled(clock)'
      BY <1>4, <2>5, <3>1
    <3>9. lead' <= 2 * early'
      BY <1>2 DEF LadderInv
    <3> QED BY <3>2, <3>6, <3>7, <3>8, <3>9 DEF LadderInv
  <2> QED BY <2>6, <2>7
<1> QED BY <1>5, <1>6

LEMMA NextInv == LadderInv /\ [Next]_vars => LadderInv'
<1> SUFFICES ASSUME LadderInv, [Next]_vars PROVE LadderInv'
  OBVIOUS
<1>1. CASE Tick
  BY <1>1, TickInv
<1>2. CASE EarlyReset
  <2>1. lead' \in Nat /\ lead' <= 2 * early'
    <3>1. lead \in Nat /\ lead <= 2 * early /\ early \in Nat /\ clock \in 1 .. 2
      BY <1>2, BoundAssumption DEF EarlyReset, LadderInv, TypeOK
    <3>2. lead' \in {lead, lead + clock} /\ early' = early + 1
      BY <1>2 DEF EarlyReset
    <3> QED BY <3>1, <3>2
  <2>2. early' \in 0 .. MaxEarlyResets /\ run' \in 1 .. MaxRuns
    BY <1>2, BoundAssumption DEF EarlyReset, LadderInv, TypeOK
  <2> QED BY <1>2, <2>1, <2>2, ResetInv DEF EarlyReset
<1>3. CASE NewRun
  <2>1. run' \in 1 .. MaxRuns /\ early' \in 0 .. MaxEarlyResets /\ lead' = 0 /\ early' = 0
    BY <1>3, BoundAssumption DEF NewRun, LadderInv, TypeOK
  <2> QED BY <1>3, <2>1, ResetInv DEF NewRun
<1>4. CASE UNCHANGED vars
  BY <1>4 DEF vars, LadderInv, TypeOK, Complete, Current, Prefix, Witness, Settled, Untouched
<1> QED BY <1>1, <1>2, <1>3, <1>4 DEF Next

THEOREM LadderInvariant == Spec => []LadderInv
BY InitInv, NextInv, PTL DEF Spec

(* The variables of the ladder always have their types.                    *)
THEOREM LadderTypes == Spec => []TypeOK
<1>1. LadderInv => TypeOK
  BY DEF LadderInv
<1> QED BY <1>1, LadderInvariant, PTL

(* Tracker and completed table agree (_step_object, both branches).        *)
THEOREM TrackerAndTableAgree == Spec => []CompletedIsPrefix
<1>1. LadderInv => CompletedIsPrefix
  BY DEF LadderInv, CompletedIsPrefix, Prefix, Current
<1> QED BY <1>1, LadderInvariant, PTL

(* No rung is credited that neither itself nor a later rung of its group   *)
(* was seen true after the probe, whatever the ladder and the world do.    *)
THEOREM CreditNeedsEvidence == Spec => []CreditIsWitnessed
<1>1. LadderInv => CreditIsWitnessed
  BY DEF LadderInv, CreditIsWitnessed, Witness, Current
<1> QED BY <1>1, LadderInvariant, PTL

(* The probe is early by no more than the early resets of one run can make *)
(* it (_past_settle_warmup reads the batch's clock), with peers or without *)
(* and in every run.  That it can be early at all is what LadderPeers.cfg  *)
(* shows.                                                                  *)
THEOREM ProbeIsNearRest == Spec => []ProbedNearRest
<1>1. ASSUME LadderInv PROVE ProbedNearRest
  <2> SUFFICES ASSUME ~Complete, csm.probed PROVE clock + 2 * MaxEarlyResets >= Warmup
    BY DEF ProbedNearRest
  <2>1. clock + lead >= Warmup /\ lead <= 2 * early
    BY <1>1 DEF LadderInv, Settled
  <2>2. clock \in Nat /\ lead \in Nat /\ early \in 0 .. MaxEarlyResets
    BY <1>1, BoundAssumption DEF LadderInv, TypeOK, ClockCap
  <2>3. Warmup \in Nat /\ MaxEarlyResets \in Nat
    BY BoundAssumption
  <2> QED BY <2>1, <2>2, <2>3
<1>2. LadderInv => ProbedNearRest
  BY <1>1
<1> QED BY <1>2, LadderInvariant, PTL

-------------------------------------------------------------------------------
(* What a step does to groups that could finish.                           *)
(* A group finishes in the step on which all of its rungs hold: what the   *)
(* probe excluded is walked through, and all else is reached.              *)
LEMMA HoldingFinishes ==
  ASSUME NEW st, IsStage(st), NEW m, IsMachine(st, m), NEW h, IsFrame(st, h),
         NEW g \in Groups(st), h[g] = Rungs(st, g)
  PROVE  NextTracker(st, m, h, g) = st.size[g]
<1> DEFINE n == st.size[g]
           S == Satisfied(st, m, h, g)
           f == Forward(st, m, h, g)
           stops == {w \in 0 .. n : w >= Reached(st, m, h, g) /\ (w = n \/ w \notin m.excluded[g])}
<1>1. n \in Nat \ {0} /\ m.tracker[g] \in 0 .. n
  BY MachineSizes
<1>2. f \in m.tracker[g] .. n /\ f >= Reached(st, m, h, g) /\ Reached(st, m, h, g) \in m.tracker[g] .. n
  BY ReachedBounds, ForwardBounds
<1>3. f = n \/ f \notin m.excluded[g]
  <2>1. n \in stops /\ stops \in SUBSET (0 .. n)
    <3> HIDE DEF n
    <3> QED BY <1>1, <1>2
  <2>2. Min(stops) \in stops
    <3> HIDE DEF stops, n
    <3> QED BY <1>1, <2>1, BoundedMin
  <2>3. f = Min(stops)
    BY DEF Forward
  <2>4. f \in stops
    <3> HIDE DEF stops, f
    <3> QED BY <2>2, <2>3
  <2> HIDE DEF f, n
  <2> QED BY <2>4
<1>4. ASSUME f # n PROVE FALSE
  <2>1. f \in S
    <3> HIDE DEF f
    <3> QED BY <1>1, <1>2, <1>3, <1>4 DEF Satisfied, Rungs
  <2>2. S \in SUBSET (0 .. n - 1) /\ n - 1 \in Nat
    BY <1>1 DEF Satisfied, Rungs
  <2>3. Max(S) \in S /\ \A y \in S : y <= Max(S)
    <3> HIDE DEF S, f, n
    <3> QED BY <2>1, <2>2, BoundedMax
  <2>4. Reached(st, m, h, g) = Max(S) + 1
    BY <2>1 DEF Reached
  <2> HIDE DEF S, f, n
  <2>5. f <= Max(S) /\ Max(S) \in 0 .. n - 1 /\ f \in 0 .. n - 1
    BY <2>1, <2>2, <2>3
  <2> QED BY <1>1, <1>2, <2>4, <2>5
<1> HIDE DEF f
<1> QED BY <1>1, <1>2, <1>4 DEF NextTracker, f

LEMMA HoldingCompletes ==
  ASSUME NEW st, IsStage(st), NEW m, IsMachine(st, m), NEW h, IsFrame(st, h),
         \A g \in Groups(st) : h[g] = Rungs(st, g)
  PROVE  StageDone(st, Step(st, m, h, TRUE))
<1>1. ASSUME NEW p, IsMachine(st, p) PROVE StageDone(st, StepGroups(st, p, h))
  <2>1. \A g \in Groups(st) : StepGroups(st, p, h).tracker[g] = st.size[g]
    BY <1>1, HoldingFinishes DEF StepGroups
  <2>2. Finished(st, StepGroups(st, p, h)) = Groups(st)
    BY <2>1 DEF Finished
  <2>3. /\ Groups(st) # {} /\ st.logical \in Logicals
        /\ IsFiniteSet(Groups(st))
        /\ st.logical = "choose" => st.k \in 1 .. Cardinality(Groups(st))
    BY DEF IsStage
  <2>4. Cardinality(Groups(st)) \in Nat
    BY <2>3, FS_CardinalityType
  <2>5. st.logical = "choose" => Cardinality(Groups(st)) >= st.k
    BY <2>3, <2>4
  <2> QED BY <2>2, <2>3, <2>5 DEF StageDone, Logicals
<1>2. IsMachine(st, Probe(st, m, h))
  BY ProbedMachine
<1> QED BY <1>1, <1>2 DEF Step

(* One step on a frame where every condition holds completes a stage: no   *)
(* settled ladder stalls, whatever was excluded, skipped or lost before    *)
(* (_find_target_condition_iteratively walks past excluded rungs, P64).    *)
OneFrameIsEnough ==
  [][TickOn(RungIds) /\ ~Complete /\ Settled(clock') => stage' = stage + 1]_vars

(* What NeverStalls takes for granted of a step, for every ladder: with    *)
(* it, NumStages settled steps on such frames complete any ladder.         *)
THEOREM NoStepStalls == Spec => OneFrameIsEnough
<1>1. ASSUME LadderInv, TickOn(RungIds), ~Complete, Settled(clock')
      PROVE  stage' = stage + 1
  <2> DEFINE now == IF clock < ClockCap THEN clock + 1 ELSE clock
             st  == Ladder[stage + 1]
             h   == FrameOf(stage + 1, RungIds)
  <2>1. IsStage(st) /\ IsMachine(st, csm) /\ stage + 1 \in 1 .. NumStages
    BY <1>1, CurrentStage DEF LadderInv, TypeOK, Current
  <2>2. StepLadder(RungIds, now) /\ clock' = now
    BY <1>1 DEF TickOn
  <2>3. Settled(now) = TRUE
    BY <1>1, <2>2 DEF Settled
  <2>4. IsFrame(st, h)
    BY <2>1, FrameType
  <2>5. \A g \in Groups(st) : h[g] = Rungs(st, g)
    BY <2>1 DEF FrameOf, RungIds
  <2>6. StageDone(st, Step(st, csm, h, TRUE))
    <3> HIDE DEF st, h
    <3> QED BY <2>1, <2>4, <2>5, HoldingCompletes
  <2> QED BY <2>2, <2>3, <2>6 DEF StepLadder
<1>2. LadderInv /\ [Next]_vars =>
        [TickOn(RungIds) /\ ~Complete /\ Settled(clock') => stage' = stage + 1]_vars
  BY <1>1
<1> QED BY <1>2, LadderInvariant, PTL DEF Spec, OneFrameIsEnough
-------------------------------------------------------------------------------
(* Scores.  A share of Unit is full exactly when the parts are equal.      *)
LEMMA ShareBounds ==
  ASSUME NEW a \in Nat, NEW b \in Nat \ {0}, a <= b
  PROVE  (Unit * a) \div b \in 0 .. Unit /\ ((Unit * a) \div b = Unit <=> a = b)
<1> DEFINE u == Unit
<1>1. u \in Nat \ {0}
  BY UnitAssumption
<1> HIDE DEF u
<1>2. (u * a) \div b \in 0 .. u /\ ((u * a) \div b = u <=> a = b)
  BY <1>1
<1> QED BY <1>2 DEF u

LEMMA QuotientBounds ==
  ASSUME NEW u \in Nat, NEW n \in Nat \ {0}, NEW t \in 0 .. u * n
  PROVE  t \div n \in 0 .. u /\ (t \div n = u => t = u * n)
<1>1. t \in Nat /\ t <= u * n /\ u * n \in Nat
  OBVIOUS
<1>2. t \div n \in Nat /\ n * (t \div n) <= t
  BY <1>1
<1>3. n * (t \div n) <= n * u
  BY <1>1, <1>2
<1> QED BY <1>1, <1>2, <1>3

(* The rungs of a group that may earn, and those of them that have.        *)
Earnable(st, m, g) == Rungs(st, g) \ m.excluded[g]
Earned(st, m, g) == m.completed[g] \ m.excluded[g]

LEMMA EarnedRungs ==
  ASSUME NEW st, IsStage(st), NEW m, IsMachine(st, m), NEW g \in Groups(st)
  PROVE  /\ Earned(st, m, g) \subseteq Earnable(st, m, g)
         /\ Earnable(st, m, g) \subseteq Rungs(st, g)
         /\ IsFiniteSet(Earnable(st, m, g))
         /\ \A r \in Rungs(st, g) : r \in Nat /\ st.worth[g][r] \in Nat
<1>1. st.size[g] \in Nat /\ st.worth[g] \in [Rungs(st, g) -> Nat]
  BY DEF IsStage
<1>2. IsFiniteSet(Rungs(st, g)) /\ Rungs(st, g) \subseteq Nat
  <2> DEFINE n == st.size[g]
  <2>1. 0 \in Int /\ n - 1 \in Int
    BY <1>1
  <2>2. Rungs(st, g) = 0 .. n - 1 /\ 0 .. n - 1 \subseteq Nat
    BY <1>1 DEF Rungs
  <2> HIDE DEF n
  <2>3. IsFiniteSet(0 .. n - 1)
    BY <2>1, FS_Interval
  <2> QED BY <2>2, <2>3
<1>3. m.completed[g] \subseteq Rungs(st, g)
  BY DEF IsMachine, IsFrame
<1>4. Earnable(st, m, g) \subseteq Rungs(st, g) /\ Earned(st, m, g) \subseteq Earnable(st, m, g)
  BY <1>3 DEF Earnable, Earned
<1>5. \A r \in Rungs(st, g) : r \in Nat /\ st.worth[g][r] \in Nat
  BY <1>1, <1>2
<1> QED BY <1>2, <1>4, <1>5, FS_Subset

(* What the rungs of a set are worth, and when that is nothing.            *)
LEMMA WorthOfRungs ==
  ASSUME NEW st, NEW g, NEW S, IsFiniteSet(S), \A r \in S : st.worth[g][r] \in Nat
  PROVE  /\ Worth(st, g, S) \in Nat
         /\ Worth(st, g, S) = 0 <=> \A r \in S : st.worth[g][r] = 0
<1> DEFINE f == [r \in S |-> st.worth[g][r]]
<1>1. f \in [S -> Nat] /\ \A r \in S : f[r] = st.worth[g][r]
  OBVIOUS
<1>2. Worth(st, g, S) = SumOf(f)
  BY DEF Worth
<1> HIDE DEF f
<1>3. SumOf(f) \in Nat /\ (SumOf(f) = 0 <=> \A r \in S : f[r] = 0)
  BY <1>1, SumIsNat, SumIsNothing
<1> QED BY <1>1, <1>2, <1>3

(* Fewer rungs are worth at most as much; as much only when the others are *)
(* worth nothing.                                                          *)
LEMMA WorthOfFewer ==
  ASSUME NEW st, NEW g, NEW S, NEW T, S \subseteq T, IsFiniteSet(T),
         \A r \in T : st.worth[g][r] \in Nat
  PROVE  /\ Worth(st, g, S) <= Worth(st, g, T)
         /\ Worth(st, g, S) = Worth(st, g, T) <=> \A r \in T \ S : st.worth[g][r] = 0
<1> DEFINE f == [r \in S |-> st.worth[g][r]]
           h == [r \in T |-> st.worth[g][r]]
           R == T \ S
           k == [r \in R |-> st.worth[g][r]]
<1>1. /\ f \in [S -> Nat] /\ h \in [T -> Nat] /\ k \in [R -> Nat]
      /\ (\A r \in S : f[r] = h[r]) /\ (\A r \in R : k[r] = h[r])
      /\ \A r \in R : h[r] = st.worth[g][r]
  OBVIOUS
<1>2. Worth(st, g, S) = SumOf(f) /\ Worth(st, g, T) = SumOf(h) /\ Worth(st, g, R) = SumOf(k)
  BY DEF Worth
<1>3. S \cup R = T /\ S \cap R = {}
  OBVIOUS
<1>4. IsFiniteSet(S) /\ IsFiniteSet(R)
  BY FS_Subset
<1>5. Worth(st, g, R) \in Nat /\ (Worth(st, g, R) = 0 <=> \A r \in R : st.worth[g][r] = 0)
  <2>1. \A r \in R : st.worth[g][r] \in Nat
    OBVIOUS
  <2> HIDE DEF R
  <2> QED BY <1>4, <2>1, WorthOfRungs
<1> HIDE DEF f, h, k
<1>6. SumOf(h) = SumOf(f) + SumOf(k)
  <2>1. h \in [S \cup R -> Nat]
    BY <1>1, <1>3
  <2>2. /\ f \in [S -> Nat] /\ \A x \in S : f[x] = h[x]
        /\ k \in [R -> Nat] /\ \A x \in R : k[x] = h[x]
    BY <1>1
  <2>3. S \cap R = {} /\ IsFiniteSet(S) /\ IsFiniteSet(R)
    BY <1>3, <1>4
  <2> HIDE DEF R
  <2> QED BY ONLY <2>1, <2>2, <2>3, SumOfTwo
<1>7. SumOf(f) \in Nat /\ SumOf(h) \in Nat
  BY <1>1, <1>4, SumIsNat
<1> QED BY <1>2, <1>5, <1>6, <1>7

(* A group's score is a part of Unit, and full exactly when the rungs that *)
(* may earn are worth something and what is missing is worth nothing.      *)
LEMMA GroupScoreBounds ==
  ASSUME NEW st, IsStage(st), NEW m, IsMachine(st, m), NEW g \in Groups(st)
  PROVE  /\ GroupScore(st, m, g) \in 0 .. Unit
         /\ GroupScore(st, m, g) = Unit <=>
              /\ \E r \in Earnable(st, m, g) : st.worth[g][r] > 0
              /\ \A r \in Earnable(st, m, g) \ Earned(st, m, g) : st.worth[g][r] = 0
<1> DEFINE T == Earnable(st, m, g)
           S == Earned(st, m, g)
           a == Worth(st, g, S)
           b == Worth(st, g, T)
<1>1. S \subseteq T /\ IsFiniteSet(T) /\ \A r \in T : st.worth[g][r] \in Nat
  BY EarnedRungs
<1>2. IsFiniteSet(S) /\ \A r \in S : st.worth[g][r] \in Nat
  BY <1>1, FS_Subset
<1>3. GroupScore(st, m, g) = IF b = 0 THEN 0 ELSE (Unit * a) \div b
  BY DEF GroupScore, Earnable, Earned
<1> HIDE DEF S, T
<1>4. a \in Nat /\ b \in Nat /\ (b = 0 <=> \A r \in T : st.worth[g][r] = 0)
  BY <1>1, <1>2, WorthOfRungs
<1>5. a <= b /\ (a = b <=> \A r \in T \ S : st.worth[g][r] = 0)
  BY <1>1, WorthOfFewer
<1> HIDE DEF a, b
<1>6. CASE b = 0
  BY <1>1, <1>3, <1>4, <1>6, UnitAssumption DEF S, T
<1>7. CASE b # 0
  <2>1. (Unit * a) \div b \in 0 .. Unit /\ ((Unit * a) \div b = Unit <=> a = b)
    BY <1>4, <1>5, <1>7, ShareBounds
  <2>2. \E r \in T : st.worth[g][r] > 0
    BY <1>1, <1>4, <1>7
  <2> QED BY <1>3, <1>5, <1>7, <2>1, <2>2 DEF S, T
<1> QED BY <1>6, <1>7

(* The total of some groups' scores, and the sets that "choose" picks from.*)
LEMMA TotalBounds ==
  ASSUME NEW st, IsStage(st), NEW m, IsMachine(st, m), NEW S, S \subseteq Groups(st)
  PROVE  /\ IsFiniteSet(S) /\ Cardinality(S) \in Nat
         /\ Total(st, m, S) \in 0 .. Unit * Cardinality(S)
         /\ Total(st, m, S) = Unit * Cardinality(S) =>
              \A g \in S : GroupScore(st, m, g) = Unit
<1>1. IsFiniteSet(S) /\ Cardinality(S) \in Nat
  BY FS_Subset, FS_CardinalityType DEF IsStage
<1> DEFINE f == [g \in S |-> GroupScore(st, m, g)]
<1>2. f \in [S -> 0 .. Unit] /\ \A g \in S : f[g] = GroupScore(st, m, g)
  BY GroupScoreBounds
<1>3. Total(st, m, S) = SumOf(f)
  BY DEF Total
<1> HIDE DEF f
<1>4. /\ SumOf(f) \in 0 .. Unit * Cardinality(S)
      /\ SumOf(f) = Unit * Cardinality(S) => \A g \in S : f[g] = Unit
  <2> DEFINE u == Unit
  <2>1. u \in Nat /\ f \in [S -> 0 .. u]
    BY <1>2, UnitAssumption
  <2> HIDE DEF u
  <2>2. /\ SumOf(f) \in 0 .. u * Cardinality(S)
        /\ SumOf(f) = u * Cardinality(S) => \A g \in S : f[g] = u
    BY <1>1, <2>1, SumOfAtMost
  <2> QED BY <2>2 DEF u
<1> QED BY <1>1, <1>2, <1>3, <1>4

LEMMA SomeSubset ==
  ASSUME NEW S, IsFiniteSet(S), NEW k \in 0 .. Cardinality(S)
  PROVE  kSubset(k, S) # {}
<1> DEFINE n == Cardinality(S)
<1>1. n \in Nat /\ ExistsBijection(1 .. n, S)
  BY FS_CardinalityType
<1>2. PICK b \in Bijection(1 .. n, S) : TRUE
  BY <1>1 DEF ExistsBijection
<1> DEFINE T == {b[i] : i \in 1 .. k}
           c == [i \in 1 .. k |-> b[i]]
<1> HIDE DEF n
<1>3. /\ b \in [1 .. n -> S]
      /\ \A i, j \in 1 .. n : b[i] = b[j] => i = j
  BY <1>2 DEF Bijection, Injection, IsInjective
<1>4. k \in Nat /\ 1 .. k \subseteq 1 .. n
  BY <1>1 DEF n
<1>5. T \subseteq S
  BY <1>3, <1>4
<1>6. c \in Bijection(1 .. k, T)
  <2>1. c \in [1 .. k -> T] /\ DOMAIN c = 1 .. k /\ \A i \in 1 .. k : c[i] = b[i]
    OBVIOUS
  <2>2. \A t \in T : \E i \in 1 .. k : c[i] = t
    OBVIOUS
  <2> HIDE DEF c, T
  <2>3. IsInjective(c)
    BY <1>3, <1>4, <2>1 DEF IsInjective
  <2> QED BY <2>1, <2>2, <2>3 DEF Bijection, Injection, Surjection
<1>7. IsFiniteSet(1 .. k) /\ Cardinality(1 .. k) = k
  BY <1>4, 1 \in Int, k \in Int, FS_Interval
<1>8. Cardinality(T) = k
  <2> HIDE DEF T, c
  <2>1. ExistsBijection(1 .. k, T)
    BY <1>6 DEF ExistsBijection
  <2> QED BY <1>7, <2>1, FS_Bijection
<1>9. T \in kSubset(k, S)
  <2> HIDE DEF T
  <2> QED BY <1>5, <1>8 DEF kSubset
<1> QED BY <1>9

(* The greatest of some numbers up to n is up to n, and is one of them.    *)
LEMMA GreatestOf ==
  ASSUME NEW n \in Nat, NEW T, T \subseteq 0 .. n, T # {}
  PROVE  Max(T) \in T /\ Max(T) \in 0 .. n
BY BoundedMax

LEMMA GreatestOfZero == Max({0}) = 0
<1>1. {0} \subseteq 0 .. 0 /\ {0} # {}
  OBVIOUS
<1> QED BY <1>1, GreatestOf

(* A stage's score is a part of Unit, and it is full only when so are the  *)
(* scores of as many groups as it takes to complete the stage.             *)
LEMMA StageScoreBounds ==
  ASSUME NEW st, IsStage(st), NEW m, IsMachine(st, m)
  PROVE  /\ StageScore(st, m) \in 0 .. Unit
         /\ StageScore(st, m) = Unit =>
              \E S \in SUBSET Groups(st) :
                /\ \A g \in S : GroupScore(st, m, g) = Unit
                /\ CASE st.logical = "all"    -> S = Groups(st)
                     [] st.logical = "any"    -> S # {}
                     [] st.logical = "choose" -> Cardinality(S) >= st.k
<1> DEFINE G == Groups(st)
           n == Cardinality(G)
<1>1. IsFiniteSet(G) /\ n \in Nat \ {0}
  BY FS_CardinalityType, FS_EmptySet DEF IsStage
<1>2. Unit \in Nat \ {0}
  BY UnitAssumption
<1>3. CASE st.logical = "all"
  <2> DEFINE t == Total(st, m, G)
  <2>1. StageScore(st, m) = t \div n
    BY <1>3 DEF StageScore
  <2>2. t \in 0 .. Unit * n /\ (t = Unit * n => \A g \in G : GroupScore(st, m, g) = Unit)
    BY TotalBounds
  <2> HIDE DEF t, n
  <2>3. t \div n \in 0 .. Unit /\ (t \div n = Unit => t = Unit * n)
    BY <1>1, <1>2, <2>2, QuotientBounds
  <2> QED BY <1>3, <2>1, <2>2, <2>3
<1>4. CASE st.logical = "any"
  <2> DEFINE T == {GroupScore(st, m, g) : g \in G}
  <2>1. StageScore(st, m) = Max(T)
    BY <1>4 DEF StageScore
  <2>2. T \subseteq 0 .. Unit /\ T # {}
    BY GroupScoreBounds DEF IsStage
  <2>3. Max(T) \in T /\ Max(T) \in 0 .. Unit
    <3> HIDE DEF T
    <3> QED BY <1>2, <2>2, GreatestOf
  <2>4. PICK g \in G : Max(T) = GroupScore(st, m, g)
    BY <2>3
  <2>5. Max(T) = Unit => \A x \in {g} : GroupScore(st, m, x) = Unit
    BY <2>4
  <2> HIDE DEF T
  <2> QED BY <1>4, <2>1, <2>3, <2>5
<1>5. CASE st.logical = "choose"
  <2> DEFINE k == st.k
             T == {Total(st, m, S) : S \in kSubset(k, G)}
  <2>1. StageScore(st, m) = Max(T) \div k
    BY <1>5 DEF StageScore
  <2>2. k \in 1 .. n /\ k \in Nat \ {0} /\ k \in 0 .. n
    BY <1>1, <1>5 DEF IsStage
  <2>3. T \subseteq 0 .. Unit * k
    BY <2>2, TotalBounds DEF kSubset
  <2>4. T # {}
    <3> HIDE DEF k
    <3>1. kSubset(k, G) # {}
      BY <1>1, <2>2, SomeSubset
    <3> QED BY <3>1
  <2>5. Unit * k \in Nat
    BY <1>2, <2>2
  <2>6. Max(T) \in T /\ Max(T) \in 0 .. Unit * k
    <3> DEFINE c == Unit * k
    <3>1. c \in Nat /\ T \subseteq 0 .. c
      BY <2>3, <2>5
    <3> HIDE DEF T, c
    <3>2. Max(T) \in T /\ Max(T) \in 0 .. c
      BY <2>4, <3>1, GreatestOf
    <3> QED BY <3>2 DEF c
  <2>7. PICK S \in kSubset(k, G) : Max(T) = Total(st, m, S)
    BY <2>6
  <2>8. S \subseteq G /\ Cardinality(S) = k
    BY <2>7 DEF kSubset
  <2>9. Max(T) = Unit * k => \A g \in S : GroupScore(st, m, g) = Unit
    BY <2>7, <2>8, TotalBounds
  <2> DEFINE t == Max(T)
  <2> HIDE DEF T, k
  <2>10. t \in 0 .. Unit * k /\ (t = Unit * k => \A g \in S : GroupScore(st, m, g) = Unit)
    BY <2>6, <2>9
  <2> HIDE DEF t
  <2>11. t \div k \in 0 .. Unit /\ (t \div k = Unit => t = Unit * k)
    BY <1>2, <2>2, <2>10, QuotientBounds
  <2>12. StageScore(st, m) = t \div k
    BY <2>1 DEF t
  <2>13. S \in SUBSET Groups(st) /\ Cardinality(S) >= st.k
    BY <2>2, <2>8 DEF k
  <2> QED BY <1>5, <2>10, <2>11, <2>12, <2>13
<1> QED BY <1>3, <1>4, <1>5 DEF IsStage, Logicals

(* The rung a group's tracker is at may earn, unless the group is finished:*)
(* what the probe excluded is walked past (P64).                           *)
AtEarnable(st, m) ==
  \A g \in Groups(st) : m.tracker[g] = st.size[g] \/ m.tracker[g] \notin m.excluded[g]

(* Where _find_target_condition_iteratively stops, and where a regression  *)
(* falls back to.                                                          *)
LEMMA ForwardStops ==
  ASSUME NEW st, IsStage(st), NEW m, IsMachine(st, m), NEW h, IsFrame(st, h),
         NEW g \in Groups(st)
  PROVE  Forward(st, m, h, g) = st.size[g] \/ Forward(st, m, h, g) \notin m.excluded[g]
<1> DEFINE n == st.size[g]
           stops == {w \in 0 .. n : w >= Reached(st, m, h, g) /\ (w = n \/ w \notin m.excluded[g])}
<1>1. n \in Nat /\ n >= Reached(st, m, h, g)
  BY MachineSizes, ReachedBounds
<1>2. n \in stops /\ stops \in SUBSET (0 .. n)
  <2> HIDE DEF n
  <2> QED BY <1>1
<1>3. Min(stops) \in stops
  <2> HIDE DEF stops, n
  <2> QED BY <1>1, <1>2, BoundedMin
<1>4. Forward(st, m, h, g) = Min(stops)
  BY DEF Forward
<1> DEFINE f == Min(stops)
<1>5. f = n \/ f \notin m.excluded[g]
  <2>1. f \in stops
    BY <1>3
  <2> HIDE DEF f, n
  <2> QED BY <2>1
<1> QED BY <1>4, <1>5

LEMMA BackwardStops ==
  ASSUME NEW st, IsStage(st), NEW m, IsMachine(st, m), NEW h, NEW g \in Groups(st)
  PROVE  Backward(m, h, g) = m.tracker[g] \/ Backward(m, h, g) \notin m.excluded[g]
<1> DEFINE t == m.tracker[g]
           low == {j \in 0 .. t : \A i \in j .. t - 1 : i \notin h[g] /\ i \notin m.excluded[g]}
<1>1. t \in Nat
  BY MachineParts
<1>2. t \in low /\ low \in SUBSET (0 .. t)
  <2> HIDE DEF t
  <2> QED BY <1>1
<1>3. Min(low) \in low
  <2> HIDE DEF low, t
  <2> QED BY <1>1, <1>2, BoundedMin
<1>4. Backward(m, h, g) = Min(low)
  BY DEF Backward
<1> DEFINE b == Min(low)
<1>5. b = t \/ b \notin m.excluded[g]
  <2>1. b \in low
    BY <1>3
  <2> HIDE DEF b, t
  <2>2. b \in 0 .. t /\ \A i \in b .. t - 1 : i \notin m.excluded[g]
    BY <2>1
  <2>3. b # t => b \in b .. t - 1
    BY <1>1, <2>2
  <2> QED BY <2>2, <2>3
<1> QED BY <1>4, <1>5

LEMMA StepGroupsAtEarnable ==
  ASSUME NEW st, IsStage(st), NEW m, IsMachine(st, m), NEW h, IsFrame(st, h)
  PROVE  AtEarnable(st, StepGroups(st, m, h))
<1> SUFFICES ASSUME NEW g \in Groups(st)
             PROVE  \/ NextTracker(st, m, h, g) = st.size[g]
                    \/ NextTracker(st, m, h, g) \notin m.excluded[g]
  BY DEF AtEarnable, StepGroups
<1>1. st.size[g] \in Nat /\ m.tracker[g] \in 0 .. st.size[g]
  BY MachineSizes
<1>2. Forward(st, m, h, g) \in m.tracker[g] .. st.size[g]
  BY ForwardBounds
<1>3. Forward(st, m, h, g) = st.size[g] \/ Forward(st, m, h, g) \notin m.excluded[g]
  BY ForwardStops
<1>4. Backward(m, h, g) = m.tracker[g] \/ Backward(m, h, g) \notin m.excluded[g]
  BY BackwardStops
<1>5. CASE m.tracker[g] >= st.size[g]
  BY <1>1, <1>5 DEF NextTracker
<1>6. CASE Forward(st, m, h, g) > m.tracker[g]
  BY <1>1, <1>2, <1>3, <1>6 DEF NextTracker
<1>7. CASE ~(m.tracker[g] >= st.size[g]) /\ ~(Forward(st, m, h, g) > m.tracker[g])
  <2>1. NextTracker(st, m, h, g) = Backward(m, h, g)
    BY <1>7 DEF NextTracker
  <2>2. Forward(st, m, h, g) = m.tracker[g]
    BY <1>1, <1>2, <1>7
  <2> QED BY <1>3, <1>4, <2>1, <2>2
<1> QED BY <1>5, <1>6, <1>7

LEMMA StepAtEarnable ==
  ASSUME NEW st, IsStage(st), NEW m, IsMachine(st, m), NEW h, IsFrame(st, h),
         NEW settled \in BOOLEAN, AtEarnable(st, m)
  PROVE  AtEarnable(st, Step(st, m, h, settled))
<1>1. IsMachine(st, Probe(st, m, h))
  BY ProbedMachine
<1>2. AtEarnable(st, StepGroups(st, m, h)) /\ AtEarnable(st, StepGroups(st, Probe(st, m, h), h))
  BY <1>1, StepGroupsAtEarnable
<1> QED BY <1>2 DEF Step

(* A machine as built: it is worth nothing and has finished nothing.       *)
LEMMA FreshScore ==
  ASSUME NEW st, IsStage(st)
  PROVE  /\ StageScore(st, Fresh(st)) = 0
         /\ AtEarnable(st, Fresh(st))
         /\ ~StageDone(st, Fresh(st))
<1> DEFINE m == Fresh(st)
           G == Groups(st)
<1>1. IsMachine(st, m)
  BY FreshMachine
<1>2. /\ \A g \in G : m.tracker[g] = 0 /\ m.completed[g] = {} /\ m.excluded[g] = {}
      /\ \A g \in G : st.size[g] \in Nat \ {0}
      /\ IsFiniteSet(G) /\ G # {}
      /\ st.logical = "choose" => st.k \in 1 .. Cardinality(G)
      /\ st.logical \in Logicals
  BY DEF Fresh, IsStage
<1>3. AtEarnable(st, m)
  BY <1>2 DEF AtEarnable
<1>4. ~StageDone(st, m)
  <2>1. Finished(st, m) = {}
    BY <1>2 DEF Finished
  <2>2. Cardinality({}) = 0
    BY FS_EmptySet
  <2>3. st.logical = "choose" => ~(0 >= st.k)
    <3>1. Cardinality(G) \in Nat
      BY <1>2, FS_CardinalityType
    <3> QED BY <1>2, <3>1
  <2>4. Finished(st, m) # G /\ ~(Finished(st, m) # {})
    BY <1>2, <2>1
  <2>5. st.logical = "choose" => ~(Cardinality(Finished(st, m)) >= st.k)
    BY <2>1, <2>2, <2>3
  <2> HIDE DEF m
  <2> QED BY <1>2, <2>4, <2>5 DEF StageDone, Logicals
<1>5. \A g \in G : GroupScore(st, m, g) = 0
  <2> TAKE g \in G
  <2> DEFINE a == Worth(st, g, Earned(st, m, g))
             b == Worth(st, g, Earnable(st, m, g))
  <2>1. Earned(st, m, g) = {}
    BY <1>2 DEF Earned
  <2>2. a = 0
    BY <2>1, FS_EmptySet, WorthOfRungs
  <2>3. b \in Nat
    BY <1>1, EarnedRungs, WorthOfRungs
  <2>4. GroupScore(st, m, g) = IF b = 0 THEN 0 ELSE (Unit * a) \div b
    BY DEF GroupScore, Earnable, Earned
  <2> HIDE DEF a, b, m
  <2>5. Unit * a = 0
    BY <2>2, UnitAssumption
  <2>6. b # 0 => 0 \div b = 0
    BY <2>3
  <2> QED BY <2>4, <2>5, <2>6
<1> HIDE DEF m
<1>6. \A S \in SUBSET G : Total(st, m, S) = 0
  <2> TAKE S \in SUBSET G
  <2> DEFINE f == [g \in S |-> GroupScore(st, m, g)]
  <2>1. f \in [S -> Nat] /\ \A g \in S : f[g] = 0
    BY <1>5
  <2>2. IsFiniteSet(S)
    BY <1>2, FS_Subset
  <2>3. Total(st, m, S) = SumOf(f)
    BY DEF Total
  <2> HIDE DEF f
  <2> QED BY <2>1, <2>2, <2>3, SumIsNothing
<1>7. StageScore(st, m) = 0
  <2>1. CASE st.logical = "all"
    <3>1. StageScore(st, m) = Total(st, m, G) \div Cardinality(G)
      BY <2>1 DEF StageScore
    <3>2. Cardinality(G) \in Nat \ {0} /\ Total(st, m, G) = 0
      BY <1>2, <1>6, FS_EmptySet, FS_CardinalityType
    <3>3. \A n \in Nat \ {0} : 0 \div n = 0
      OBVIOUS
    <3> QED BY <3>1, <3>2, <3>3
  <2>2. CASE st.logical = "any"
    <3>1. StageScore(st, m) = Max({GroupScore(st, m, g) : g \in G})
      BY <2>2 DEF StageScore
    <3>2. {GroupScore(st, m, g) : g \in G} = {0}
      BY <1>2, <1>5
    <3> QED BY <3>1, <3>2, GreatestOfZero
  <2>3. CASE st.logical = "choose"
    <3> DEFINE k == st.k
               T == {Total(st, m, S) : S \in kSubset(k, G)}
    <3>1. StageScore(st, m) = Max(T) \div k
      BY <2>3 DEF StageScore
    <3>2. Cardinality(G) \in Nat /\ k \in 1 .. Cardinality(G) /\ k \in 0 .. Cardinality(G) /\ k \in Nat \ {0}
      BY <1>2, <2>3, FS_CardinalityType
    <3>3. T = {0}
      <4>1. kSubset(k, G) # {} /\ kSubset(k, G) \subseteq SUBSET G
        <5> HIDE DEF k
        <5> QED BY <1>2, <3>2, SomeSubset DEF kSubset
      <4> QED BY <1>6, <4>1
    <3>4. Max(T) = 0
      BY <3>3, GreatestOfZero
    <3>5. \A n \in Nat \ {0} : 0 \div n = 0
      OBVIOUS
    <3> HIDE DEF T, k
    <3> QED BY <3>1, <3>2, <3>4, <3>5
  <2> QED BY <1>2, <2>1, <2>2, <2>3 DEF Logicals
<1> QED BY <1>3, <1>4, <1>7 DEF m

-------------------------------------------------------------------------------
(* Full scores.  An author can make a group full before it is finished, by *)
(* a last rung that is worth nothing; not with a placement that alone is   *)
(* worth something, as pick_and_place writes it.                           *)
EveryRungEarns(st) == \A g \in Groups(st) : \A r \in Rungs(st, g) : st.worth[g][r] > 0
ZerosComeFirst(st) ==
  \A g \in Groups(st) : \A q, r \in Rungs(st, g) :
    q <= r /\ st.worth[g][r] = 0 => st.worth[g][q] = 0

LEMMA FullGroupFinished ==
  ASSUME NEW st, IsStage(st), NEW m, IsMachine(st, m), Prefix(st, m), AtEarnable(st, m),
         ZerosComeFirst(st), NEW g \in Groups(st), GroupScore(st, m, g) = Unit
  PROVE  m.tracker[g] = st.size[g]
<1> DEFINE t == m.tracker[g]
<1>1. st.size[g] \in Nat \ {0} /\ t \in 0 .. st.size[g] /\ m.completed[g] = 0 .. t - 1
  BY MachineSizes DEF Prefix
<1>2. PICK r \in Earnable(st, m, g) : st.worth[g][r] > 0
  BY GroupScoreBounds
<1>3. \A q \in Earnable(st, m, g) \ Earned(st, m, g) : st.worth[g][q] = 0
  BY GroupScoreBounds
<1>4. r \in Rungs(st, g) /\ r \in Nat /\ st.worth[g][r] \in Nat /\ st.worth[g][r] # 0
  BY <1>2, EarnedRungs
<1>5. r \in m.completed[g] /\ r \in 0 .. t - 1
  BY <1>1, <1>2, <1>3, <1>4 DEF Earned
<1>6. ASSUME t # st.size[g] PROVE FALSE
  <2>1. t \in Rungs(st, g) /\ t \notin m.excluded[g] /\ t \notin m.completed[g]
    BY <1>1, <1>6 DEF AtEarnable, Rungs
  <2>2. st.worth[g][t] = 0
    BY <1>3, <2>1 DEF Earnable, Earned
  <2>3. r <= t
    BY <1>1, <1>5
  <2>4. st.worth[g][r] = 0
    BY <1>4, <2>1, <2>2, <2>3 DEF ZerosComeFirst
  <2> QED BY <1>4, <2>4
<1> QED BY <1>6

LEMMA FullStageDone ==
  ASSUME NEW st, IsStage(st), NEW m, IsMachine(st, m), Prefix(st, m), AtEarnable(st, m),
         ZerosComeFirst(st), StageScore(st, m) = Unit
  PROVE  StageDone(st, m)
<1>1. PICK S \in SUBSET Groups(st) :
        /\ \A g \in S : GroupScore(st, m, g) = Unit
        /\ CASE st.logical = "all"    -> S = Groups(st)
             [] st.logical = "any"    -> S # {}
             [] st.logical = "choose" -> Cardinality(S) >= st.k
  BY StageScoreBounds
<1>2. S \subseteq Finished(st, m)
  BY <1>1, FullGroupFinished DEF Finished
<1>3. Finished(st, m) \subseteq Groups(st) /\ IsFiniteSet(Groups(st))
  BY DEF Finished, IsStage
<1>4. IsFiniteSet(Finished(st, m)) /\ Cardinality(S) <= Cardinality(Finished(st, m))
  BY <1>2, <1>3, FS_Subset
<1>5. Cardinality(S) \in Nat /\ Cardinality(Finished(st, m)) \in Nat /\ IsFiniteSet(S)
  BY <1>2, <1>4, FS_Subset, FS_CardinalityType
<1>6. CASE st.logical = "all"
  BY <1>1, <1>2, <1>3, <1>6 DEF StageDone
<1>7. CASE st.logical = "any"
  BY <1>1, <1>2, <1>7 DEF StageDone
<1>8. CASE st.logical = "choose"
  <2>1. st.k \in Nat /\ Cardinality(S) >= st.k
    BY <1>1, <1>8 DEF IsStage
  <2>2. Cardinality(Finished(st, m)) >= st.k
    BY <1>4, <1>5, <2>1
  <2> QED BY <1>8, <2>2 DEF StageDone
<1> QED BY <1>6, <1>7, <1>8 DEF IsStage, Logicals

LEMMA FullGroupEarned ==
  ASSUME NEW st, IsStage(st), NEW m, IsMachine(st, m), EveryRungEarns(st), NEW g \in Groups(st)
  PROVE  GroupScore(st, m, g) = Unit <=>
           Earnable(st, m, g) # {} /\ Earnable(st, m, g) \subseteq m.completed[g]
<1>1. \A r \in Earnable(st, m, g) : st.worth[g][r] > 0 /\ st.worth[g][r] \in Nat
  BY EarnedRungs DEF EveryRungEarns
<1>2. Earnable(st, m, g) \ Earned(st, m, g) = {} <=> Earnable(st, m, g) \subseteq m.completed[g]
  BY DEF Earnable, Earned
<1> DEFINE T == Earnable(st, m, g)
           S == Earned(st, m, g)
<1>3. GroupScore(st, m, g) = Unit <=>
        (\E r \in T : st.worth[g][r] > 0) /\ \A r \in T \ S : st.worth[g][r] = 0
  BY GroupScoreBounds
<1>4. (\E r \in T : st.worth[g][r] > 0) <=> T # {}
  <2> HIDE DEF T
  <2> QED BY <1>1 DEF T
<1>5. (\A r \in T \ S : st.worth[g][r] = 0) <=> T \ S = {}
  BY <1>1
<1> QED BY <1>2, <1>3, <1>4, <1>5

(* The invariant adds that no ladder stays at a stage that is complete.    *)
ScoreInv ==
  /\ LadderInv
  /\ ~Complete => AtEarnable(Current, csm) /\ ~StageDone(Current, csm)

LEMMA StageStartsUnearned ==
  ASSUME NEW n \in 0 .. NumStages - 1
  PROVE  /\ StageScore(Ladder[n + 1], MachineFor(n)) = 0
         /\ AtEarnable(Ladder[n + 1], MachineFor(n))
         /\ ~StageDone(Ladder[n + 1], MachineFor(n))
<1>1. n < NumStages /\ IsStage(Ladder[n + 1])
  BY LadderAssumption
<1>2. MachineFor(n) = Fresh(Ladder[n + 1])
  BY <1>1 DEF MachineFor
<1> QED BY <1>1, <1>2, FreshScore

LEMMA InitScore == Init => ScoreInv
<1> SUFFICES ASSUME Init PROVE ScoreInv
  OBVIOUS
<1>1. 0 \in 0 .. NumStages - 1 /\ 0 + 1 = 1
  BY LadderAssumption
<1>2. AtEarnable(Ladder[1], MachineFor(0)) /\ ~StageDone(Ladder[1], MachineFor(0))
  BY <1>1, StageStartsUnearned
<1>3. Current = Ladder[1] /\ csm = MachineFor(0)
  BY <1>1 DEF Init, Current
<1> QED BY <1>2, <1>3, InitInv DEF ScoreInv

LEMMA NextScore == ScoreInv /\ [Next]_vars => ScoreInv'
<1> SUFFICES ASSUME ScoreInv, [Next]_vars PROVE ScoreInv'
  OBVIOUS
<1>1. LadderInv /\ LadderInv'
  BY NextInv DEF ScoreInv
<1>2. CASE Tick
  <2> DEFINE now == IF clock < ClockCap THEN clock + 1 ELSE clock
             st == Ladder[stage + 1]
  <2>1. PICK W \in SUBSET RungIds :
          IF Complete THEN UNCHANGED <<stage, csm, seen, won>> ELSE StepLadder(W, now)
    BY <1>2 DEF Tick, TickOn
  <2>2. CASE Complete
    BY <1>1, <2>1, <2>2 DEF ScoreInv, Complete
  <2>3. CASE ~Complete
    <3> DEFINE m == Step(st, csm, FrameOf(stage + 1, W), Settled(now))
    <3>1. IsStage(st) /\ stage + 1 \in 1 .. NumStages /\ st = Current /\ IsMachine(st, csm)
      BY <1>1, <2>3, CurrentStage DEF LadderInv, TypeOK, Current
    <3>2. AtEarnable(st, csm) /\ Settled(now) \in BOOLEAN /\ IsFrame(st, FrameOf(stage + 1, W))
      BY <2>3, <3>1, FrameType DEF ScoreInv, Settled
    <3>3. AtEarnable(st, m)
      <4> HIDE DEF st, now
      <4> QED BY <3>1, <3>2, StepAtEarnable
    <3>4. CASE StageDone(st, m)
      <4>1. stage' = stage + 1 /\ csm' = MachineFor(stage + 1)
        BY <2>1, <2>3, <3>4 DEF StepLadder
      <4>2. ASSUME ~Complete' PROVE AtEarnable(Current, csm)' /\ ~StageDone(Current, csm)'
        <5> DEFINE n == stage + 1
        <5>1. n \in 0 .. NumStages - 1
          BY <3>1, <4>1, <4>2, LadderAssumption DEF Complete
        <5>2. Current' = Ladder[n + 1] /\ csm' = MachineFor(n)
          BY <4>1 DEF Current
        <5> HIDE DEF n
        <5> QED BY <5>1, <5>2, StageStartsUnearned
      <4> QED BY <1>1, <4>2 DEF ScoreInv
    <3>5. CASE ~StageDone(st, m)
      <4>1. stage' = stage /\ csm' = m
        BY <2>1, <2>3, <3>5 DEF StepLadder
      <4>2. Current' = st
        BY <4>1 DEF Current
      <4> HIDE DEF st, m
      <4> QED BY <1>1, <3>3, <3>5, <4>1, <4>2 DEF ScoreInv
    <3> QED BY <3>4, <3>5
  <2> QED BY <2>2, <2>3
<1>3. CASE EarlyReset \/ NewRun
  <2>1. stage' = 0 /\ csm' = MachineFor(0)
    BY <1>3 DEF EarlyReset, NewRun, ResetLadder
  <2>2. 0 \in 0 .. NumStages - 1 /\ Current' = Ladder[0 + 1]
    BY <2>1, LadderAssumption DEF Current
  <2>3. AtEarnable(Current', csm') /\ ~StageDone(Current', csm')
    BY <2>1, <2>2, StageStartsUnearned
  <2> QED BY <1>1, <2>3 DEF ScoreInv
<1>4. CASE UNCHANGED vars
  BY <1>1, <1>4 DEF vars, ScoreInv, Complete, Current
<1> QED BY <1>2, <1>3, <1>4 DEF Next

THEOREM ScoreInvariant == Spec => []ScoreInv
BY InitScore, NextScore, PTL DEF Spec

(* A group is finished for good once the last rung that it can earn has    *)
(* been seen.  The machine of a stage, with what was seen since its probe: *)
LastRungs(st, m, sn) ==
  \A g \in Groups(st) : \A q \in sn[g] :
    q + 1 .. st.size[g] - 1 \subseteq m.excluded[g] => m.tracker[g] = st.size[g]

(* One group: it stays finished, and seeing its last rung finishes it, as  *)
(* no tracker waits on an excluded rung (but the very first, at a probe).  *)
LEMMA LastRungGroup ==
  ASSUME NEW st, IsStage(st), NEW m, IsMachine(st, m), NEW h, IsFrame(st, h),
         NEW g \in Groups(st), NEW q \in Rungs(st, g),
         q + 1 .. st.size[g] - 1 \subseteq m.excluded[g],
         \/ m.tracker[g] = st.size[g]
         \/ /\ q \in h[g] \ m.excluded[g]
            /\ m.tracker[g] = 0 \/ m.tracker[g] \notin m.excluded[g]
  PROVE  NextTracker(st, m, h, g) = st.size[g]
<1> DEFINE n == st.size[g]
           t == m.tracker[g]
           f == Forward(st, m, h, g)
           S == Satisfied(st, m, h, g)
<1>1. n \in Nat \ {0} /\ t \in 0 .. n /\ q \in 0 .. n - 1
  BY MachineSizes DEF Rungs
<1>2. CASE t = n
  BY <1>1, <1>2 DEF NextTracker
<1>3. CASE t # n
  <2>1. q >= t
    <3>1. t = 0 \/ t \notin m.excluded[g]
      BY <1>3
    <3>2. t > q => t \in q + 1 .. n - 1
      BY <1>1, <1>3
    <3>3. q + 1 .. n - 1 \subseteq m.excluded[g]
      OBVIOUS
    <3> HIDE DEF t, n
    <3> QED BY <1>1, <3>1, <3>2, <3>3
  <2>2. q \in S
    BY <1>3, <2>1 DEF Satisfied
  <2>3. S \in SUBSET (0 .. n - 1) /\ n - 1 \in Nat
    BY <1>1 DEF Satisfied, Rungs
  <2>4. Max(S) \in S /\ q <= Max(S)
    <3> HIDE DEF S, n
    <3> QED BY <2>2, <2>3, BoundedMax
  <2>5. Reached(st, m, h, g) = Max(S) + 1
    BY <2>2 DEF Reached
  <2>6. f \in t .. n /\ f >= Reached(st, m, h, g) /\ (f = n \/ f \notin m.excluded[g])
    BY ForwardBounds, ForwardStops
  <2>7. f > q
    <3>1. Max(S) \in 0 .. n - 1
      BY <2>3, <2>4
    <3>2. f >= Max(S) + 1
      BY <2>5, <2>6
    <3> HIDE DEF S, f, n, t
    <3> QED BY <1>1, <2>4, <2>6, <3>1, <3>2
  <2>8. f = n
    <3>1. f < n => f \in q + 1 .. n - 1
      <4> HIDE DEF f, n, t
      <4> QED BY <1>1, <2>6, <2>7
    <3>2. q + 1 .. n - 1 \subseteq m.excluded[g]
      OBVIOUS
    <3> HIDE DEF f, n, t
    <3> QED BY <1>1, <2>6, <3>1, <3>2
  <2> HIDE DEF f
  <2> QED BY <1>1, <1>3, <2>8 DEF NextTracker, f
<1> QED BY <1>2, <1>3

(* The stage: a step keeps it, with what it adds to what was seen.         *)
LEMMA LastRungsStep ==
  ASSUME NEW st, IsStage(st), NEW m, IsMachine(st, m), NEW h, IsFrame(st, h),
         NEW sn, IsFrame(st, sn), LastRungs(st, m, sn),
         \A g \in Groups(st) :
           m.tracker[g] = 0 \/ m.tracker[g] = st.size[g] \/ m.tracker[g] \notin m.excluded[g]
  PROVE  LET m2 == StepGroups(st, m, h)
         IN  \A g \in Groups(st) : \A q \in sn[g] \cup (h[g] \ m2.excluded[g]) :
               q + 1 .. st.size[g] - 1 \subseteq m2.excluded[g] => m2.tracker[g] = st.size[g]
<1> DEFINE m2 == StepGroups(st, m, h)
<1>1. m2.excluded = m.excluded /\ \A g \in Groups(st) : m2.tracker[g] = NextTracker(st, m, h, g)
  BY DEF StepGroups
<1> SUFFICES ASSUME NEW g \in Groups(st), NEW q \in sn[g] \cup (h[g] \ m.excluded[g]),
                    q + 1 .. st.size[g] - 1 \subseteq m.excluded[g]
             PROVE  NextTracker(st, m, h, g) = st.size[g]
  BY <1>1
<1>2. q \in Rungs(st, g)
  BY DEF IsFrame
<1>3. q \in sn[g] => m.tracker[g] = st.size[g]
  BY DEF LastRungs
<1>4. \/ m.tracker[g] = st.size[g]
      \/ /\ q \in h[g] \ m.excluded[g]
         /\ m.tracker[g] = 0 \/ m.tracker[g] \notin m.excluded[g]
  BY <1>3
<1> QED BY <1>2, <1>4, LastRungGroup

LEMMA LastRungsAfter ==
  ASSUME NEW st, IsStage(st), NEW m, IsMachine(st, m), NEW h, IsFrame(st, h),
         NEW settled \in BOOLEAN, NEW sn, IsFrame(st, sn), AtEarnable(st, m), Prefix(st, m),
         LastRungs(st, m, sn),
         ~m.probed => Untouched(st, m) /\ \A g \in Groups(st) : sn[g] = {}
  PROVE  LET m2 == Step(st, m, h, settled)
         IN  /\ LastRungs(st, m2, SeenAfter(st, m2, h, sn))
             /\ ~m2.probed => \A g \in Groups(st) : SeenAfter(st, m2, h, sn)[g] = {}
<1> DEFINE m2 == Step(st, m, h, settled)
<1>1. CASE m.probed
  <2>1. m2 = StepGroups(st, m, h) /\ m2.probed
    BY <1>1 DEF Step, StepGroups
  <2>2. \A g \in Groups(st) :
          m.tracker[g] = 0 \/ m.tracker[g] = st.size[g] \/ m.tracker[g] \notin m.excluded[g]
    BY DEF AtEarnable
  <2>3. \A g \in Groups(st) : \A q \in sn[g] \cup (h[g] \ m2.excluded[g]) :
          q + 1 .. st.size[g] - 1 \subseteq m2.excluded[g] => m2.tracker[g] = st.size[g]
    BY <2>1, <2>2, LastRungsStep
  <2>4. LastRungs(st, m2, SeenAfter(st, m2, h, sn)) /\ m2.probed
    <3> HIDE DEF m2
    <3> QED BY <2>1, <2>3 DEF LastRungs, SeenAfter
  <2> QED BY <2>4
<1>2. CASE ~m.probed /\ ~settled
  <2>1. m2 = m
    BY <1>2 DEF Step
  <2>2. \A g \in Groups(st) : SeenAfter(st, m, h, sn)[g] = sn[g]
    BY <1>2 DEF SeenAfter
  <2>3. LastRungs(st, m, SeenAfter(st, m, h, sn))
    BY <2>2 DEF LastRungs
  <2>4. \A g \in Groups(st) : SeenAfter(st, m, h, sn)[g] = {}
    BY <1>2, <2>2
  <2> QED BY <2>1, <2>3, <2>4
<1>3. CASE ~m.probed /\ settled
  <2> DEFINE p == Probe(st, m, h)
  <2>1. m2 = StepGroups(st, p, h) /\ m2.probed
    BY <1>3 DEF Step, StepGroups, Probe
  <2>2. IsMachine(st, p) /\ p.tracker = m.tracker
    BY ProbedMachine
  <2>3. \A g \in Groups(st) : p.tracker[g] = 0
    <3> TAKE g \in Groups(st)
    <3>1. m.completed[g] = {} /\ m.completed[g] = 0 .. m.tracker[g] - 1 /\ m.tracker[g] \in Nat
      BY <1>3, MachineParts DEF Untouched, Prefix
    <3> DEFINE t == m.tracker[g]
    <3>2. 0 .. t - 1 = {} /\ t \in Nat
      BY <3>1
    <3>3. t = 0
      <4> HIDE DEF t
      <4>1. t > 0 => 0 \in 0 .. t - 1
        BY <3>2
      <4> QED BY <3>2, <4>1
    <3> QED BY <2>2, <3>3
  <2>4. LastRungs(st, p, sn)
    BY <1>3 DEF LastRungs
  <2>5. \A g \in Groups(st) : \A q \in sn[g] \cup (h[g] \ m2.excluded[g]) :
          q + 1 .. st.size[g] - 1 \subseteq m2.excluded[g] => m2.tracker[g] = st.size[g]
    <3> HIDE DEF p
    <3> QED BY <2>1, <2>2, <2>3, <2>4, LastRungsStep
  <2>6. LastRungs(st, m2, SeenAfter(st, m2, h, sn)) /\ m2.probed
    <3> HIDE DEF m2, p
    <3> QED BY <2>1, <2>5 DEF LastRungs, SeenAfter
  <2> QED BY <2>6
<1> QED BY <1>1, <1>2, <1>3

(* The invariant: nothing is seen before the probe.                        *)
SeenInv ==
  /\ ScoreInv
  /\ ~Complete => /\ LastRungs(Current, csm, seen)
                  /\ ~csm.probed => \A g \in Groups(Current) : seen[g] = {}

LEMMA StageStartsUnseen ==
  ASSUME NEW n \in 0 .. NumStages - 1, NEW m
  PROVE  /\ LastRungs(Ladder[n + 1], m, NothingSeen(n))
         /\ \A g \in Groups(Ladder[n + 1]) : NothingSeen(n)[g] = {}
<1>1. n < NumStages
  BY LadderAssumption
<1>2. NothingSeen(n) = [g \in Groups(Ladder[n + 1]) |-> {}]
  BY <1>1 DEF NothingSeen
<1> QED BY <1>2 DEF LastRungs

LEMMA InitSeen == Init => SeenInv
<1> SUFFICES ASSUME Init PROVE SeenInv
  OBVIOUS
<1>1. 0 \in 0 .. NumStages - 1 /\ Current = Ladder[0 + 1] /\ seen = NothingSeen(0)
  BY LadderAssumption DEF Init, Current
<1>2. /\ LastRungs(Current, csm, seen)
      /\ \A g \in Groups(Current) : seen[g] = {}
  BY <1>1, StageStartsUnseen
<1> QED BY <1>2, InitScore DEF SeenInv

LEMMA NextSeen == SeenInv /\ [Next]_vars => SeenInv'
<1> SUFFICES ASSUME SeenInv, [Next]_vars PROVE SeenInv'
  OBVIOUS
<1>1. ScoreInv /\ ScoreInv'
  BY NextScore DEF SeenInv
<1>2. CASE Tick
  <2> DEFINE now == IF clock < ClockCap THEN clock + 1 ELSE clock
             st == Ladder[stage + 1]
  <2>1. PICK W \in SUBSET RungIds :
          IF Complete THEN UNCHANGED <<stage, csm, seen, won>> ELSE StepLadder(W, now)
    BY <1>2 DEF Tick, TickOn
  <2>2. CASE Complete
    BY <1>1, <2>1, <2>2 DEF SeenInv, Complete
  <2>3. CASE ~Complete
    <3> DEFINE h == FrameOf(stage + 1, W)
               m == Step(st, csm, h, Settled(now))
    <3>1. IsStage(st) /\ stage + 1 \in 1 .. NumStages /\ st = Current /\ IsMachine(st, csm)
      BY <1>1, <2>3, CurrentStage DEF ScoreInv, LadderInv, TypeOK, Current
    <3>2. Settled(now) \in BOOLEAN /\ IsFrame(st, h) /\ IsFrame(st, seen)
      BY <1>1, <2>3, <3>1, FrameType DEF ScoreInv, LadderInv, TypeOK, Settled
    <3>3. /\ AtEarnable(st, csm) /\ Prefix(st, csm) /\ LastRungs(st, csm, seen)
          /\ ~csm.probed => Untouched(st, csm) /\ \A g \in Groups(st) : seen[g] = {}
      BY <2>3, <3>1 DEF SeenInv, ScoreInv, LadderInv
    <3>4. /\ LastRungs(st, m, SeenAfter(st, m, h, seen))
          /\ ~m.probed => \A g \in Groups(st) : SeenAfter(st, m, h, seen)[g] = {}
      <4> HIDE DEF st, h, now
      <4> QED BY <3>1, <3>2, <3>3, LastRungsAfter
    <3>5. CASE StageDone(st, m)
      <4>1. stage' = stage + 1 /\ seen' = NothingSeen(stage + 1)
        BY <2>1, <2>3, <3>5 DEF StepLadder
      <4>2. ASSUME ~Complete'
            PROVE  LastRungs(Current, csm, seen)' /\ \A g \in Groups(Current') : seen'[g] = {}
        <5> DEFINE n == stage + 1
        <5>1. n \in 0 .. NumStages - 1
          BY <3>1, <4>1, <4>2, LadderAssumption DEF Complete
        <5>2. Current' = Ladder[n + 1] /\ seen' = NothingSeen(n)
          BY <4>1 DEF Current
        <5> HIDE DEF n
        <5> QED BY <5>1, <5>2, StageStartsUnseen
      <4> QED BY <1>1, <4>2 DEF SeenInv
    <3>6. CASE ~StageDone(st, m)
      <4>1. stage' = stage /\ csm' = m /\ seen' = Witnessed(m, h)
        BY <2>1, <2>3, <3>6 DEF StepLadder
      <4>2. DOMAIN seen = Groups(st)
        BY <3>2 DEF IsFrame
      <4>3. Current' = st /\ seen' = SeenAfter(st, m, h, seen)
        BY <4>1, <4>2 DEF Current, Witnessed, SeenAfter
      <4> HIDE DEF st, m, h
      <4> QED BY <1>1, <3>4, <4>1, <4>3 DEF SeenInv
    <3> QED BY <3>5, <3>6
  <2> QED BY <2>2, <2>3
<1>3. CASE EarlyReset \/ NewRun
  <2>1. stage' = 0 /\ seen' = NothingSeen(0)
    BY <1>3 DEF EarlyReset, NewRun, ResetLadder
  <2>2. 0 \in 0 .. NumStages - 1 /\ Current' = Ladder[0 + 1]
    BY <2>1, LadderAssumption DEF Current
  <2>3. LastRungs(Current', csm', seen') /\ \A g \in Groups(Current') : seen'[g] = {}
    BY <2>1, <2>2, StageStartsUnseen
  <2> QED BY <1>1, <2>3 DEF SeenInv
<1>4. CASE UNCHANGED vars
  BY <1>1, <1>4 DEF vars, SeenInv, Complete, Current
<1> QED BY <1>2, <1>3, <1>4 DEF Next

(* Once the last rung that a group can earn was seen, the group is         *)
(* finished, whatever it skipped, walked past or loses afterwards          *)
(* (_step_object and _find_target_condition_iteratively together).         *)
THEOREM LastRungSeenFinishes == Spec => []LastRungFinishes
<1>1. SeenInv => LastRungFinishes
  <2> SUFFICES ASSUME SeenInv, ~Complete, NEW g \in Groups(Ladder[stage + 1]), NEW q \in seen[g],
                      q + 1 .. Ladder[stage + 1].size[g] - 1 \subseteq csm.excluded[g]
               PROVE  g \in Finished(Ladder[stage + 1], csm)
    BY DEF LastRungFinishes
  <2>1. csm.tracker[g] = Ladder[stage + 1].size[g]
    BY DEF SeenInv, LastRungs, Current
  <2> QED BY <2>1 DEF Finished
<1> QED BY <1>1, InitSeen, NextSeen, PTL DEF Spec

(* A group's score is full when, and only when, it has passed every rung   *)
(* it can earn, and then it is finished (calculate_current_score): for     *)
(* every ladder in which no condition is given a score of nothing.         *)
THEOREM FullMeansEarned ==
  (\A i \in 1 .. NumStages : EveryRungEarns(Ladder[i])) => (Spec => []GroupFullIffEarned)
<1> SUFFICES ASSUME \A i \in 1 .. NumStages : EveryRungEarns(Ladder[i])
             PROVE  Spec => []GroupFullIffEarned
  OBVIOUS
<1>1. ASSUME ScoreInv PROVE GroupFullIffEarned
  <2> SUFFICES ASSUME ~Complete, NEW g \in Groups(Ladder[stage + 1])
               PROVE  LET st == Ladder[stage + 1]
                          earnable == Rungs(st, g) \ csm.excluded[g]
                      IN  /\ GroupScore(st, csm, g) = Unit <=>
                               (earnable # {} /\ earnable \subseteq csm.completed[g])
                          /\ GroupScore(st, csm, g) = Unit => csm.tracker[g] = st.size[g]
    BY DEF GroupFullIffEarned
  <2> DEFINE st == Ladder[stage + 1]
  <2>1. /\ IsStage(st) /\ stage + 1 \in 1 .. NumStages
        /\ IsMachine(st, csm) /\ Prefix(st, csm) /\ AtEarnable(st, csm)
    BY <1>1, CurrentStage DEF ScoreInv, LadderInv, TypeOK, Current
  <2>2. EveryRungEarns(st)
    BY <2>1
  <2>3. ZerosComeFirst(st)
    BY <2>2 DEF EveryRungEarns, ZerosComeFirst
  <2> HIDE DEF st
  <2>4. g \in Groups(st)
    BY DEF st
  <2>5. GroupScore(st, csm, g) = Unit <=>
          Earnable(st, csm, g) # {} /\ Earnable(st, csm, g) \subseteq csm.completed[g]
    BY <2>1, <2>2, <2>4, FullGroupEarned
  <2>6. GroupScore(st, csm, g) = Unit => csm.tracker[g] = st.size[g]
    BY <2>1, <2>3, <2>4, FullGroupFinished
  <2> QED BY <2>5, <2>6 DEF st, Earnable
<1>2. ScoreInv => GroupFullIffEarned
  BY <1>1
<1> QED BY <1>2, ScoreInvariant, PTL

-------------------------------------------------------------------------------
(* The ladder keeps its promise.  What it needs of an author: that the     *)
(* last stage is worth something, and that a rung of it that is worth      *)
(* nothing comes before those that are worth something.                    *)
LastStageEarns == Ladder[NumStages].weight > 0 /\ ZerosComeFirst(Ladder[NumStages])

(* The weights of the first n stages, and of one more.                     *)
LEMMA StageWeightsAdd ==
  ASSUME NEW n \in 0 .. NumStages - 1
  PROVE  /\ StageWeights(1 .. n) \in Nat
         /\ StageWeights(1 .. n + 1) = StageWeights(1 .. n) + Ladder[n + 1].weight
         /\ Ladder[n + 1].weight \in Nat
<1> DEFINE S == 1 .. n
           a == n + 1
           f == [i \in S |-> Ladder[i].weight]
           g == [i \in S \cup {a} |-> Ladder[i].weight]
<1>1. NumStages \in Nat /\ n \in Nat /\ a \in 1 .. NumStages
  BY LadderAssumption
<1>2. \A i \in 1 .. NumStages : Ladder[i].weight \in Nat
  BY LadderAssumption DEF IsStage
<1>3. 1 .. n + 1 = S \cup {a} /\ a \notin S /\ S \subseteq 1 .. NumStages
  BY <1>1
<1>4. IsFiniteSet(S)
  BY <1>1, 1 \in Int, n \in Int, FS_Interval
<1>5. /\ f \in [S -> Nat] /\ g \in [S \cup {a} -> Nat] /\ g[a] = Ladder[a].weight
      /\ \A i \in S : f[i] = g[i]
  BY <1>1, <1>2, <1>3
<1>6. StageWeights(S) = SumOf(f) /\ StageWeights(S \cup {a}) = SumOf(g)
  BY DEF StageWeights
<1> HIDE DEF f, g
<1>7. SumOf(f) \in Nat
  BY <1>4, <1>5, SumIsNat
<1>8. SumOf(g) = SumOf(f) + g[a]
  <2>1. IsFiniteSet(S) /\ a \notin S
    BY <1>3, <1>4
  <2> HIDE DEF S, a
  <2> QED BY ONLY <2>1, <1>5, SumWithOneMore
<1> QED BY <1>1, <1>2, <1>3, <1>5, <1>6, <1>7, <1>8

(* The weights of the first n stages are at most those of all, and less    *)
(* when the last stage, worth something, is not among them.                *)
LEMMA StageWeightsBound ==
  ASSUME NEW n \in 0 .. NumStages
  PROVE  /\ StageWeights(1 .. n) \in Nat /\ StageWeights(1 .. NumStages) \in Nat
         /\ StageWeights(1 .. n) <= StageWeights(1 .. NumStages)
         /\ n < NumStages /\ Ladder[NumStages].weight > 0 =>
              StageWeights(1 .. n) < StageWeights(1 .. NumStages)
<1> DEFINE S == 1 .. n
           T == 1 .. NumStages
           f == [i \in S |-> Ladder[i].weight]
           g == [i \in T |-> Ladder[i].weight]
<1>1. NumStages \in Nat \ {0} /\ n \in Nat
  BY LadderAssumption
<1>2. \A i \in T : Ladder[i].weight \in Nat
  BY LadderAssumption DEF IsStage
<1>3. S \subseteq T /\ NumStages \in T /\ (n < NumStages => NumStages \in T \ S)
  BY <1>1
<1>4. IsFiniteSet(T) /\ IsFiniteSet(S)
  BY <1>1, 1 \in Int, n \in Int, NumStages \in Int, FS_Interval
<1>5. /\ f \in [S -> Nat] /\ g \in [T -> Nat]
      /\ (\A i \in S : f[i] <= g[i]) /\ \A i \in T : g[i] = Ladder[i].weight
  BY <1>2, <1>3
<1>6. StageWeights(S) = SumOf(f) /\ StageWeights(T) = SumOf(g)
  BY DEF StageWeights
<1> HIDE DEF f, g, S, T
<1>7. SumOf(f) \in Nat /\ SumOf(g) \in Nat
  BY <1>4, <1>5, SumIsNat
<1>8. SumOf(f) <= SumOf(g) /\ (SumOf(f) = SumOf(g) => \A i \in T \ S : g[i] = 0)
  BY <1>3, <1>4, <1>5, SumOfLess
<1>9. n < NumStages /\ Ladder[NumStages].weight > 0 => SumOf(f) # SumOf(g)
  BY <1>3, <1>5, <1>8
<1>10. /\ SumOf(f) \in Nat /\ SumOf(g) \in Nat /\ SumOf(f) <= SumOf(g)
       /\ n < NumStages /\ Ladder[NumStages].weight > 0 => SumOf(f) < SumOf(g)
  BY <1>7, <1>8, <1>9
<1> QED BY <1>6, <1>10 DEF S, T

(* What is banked and what is live at any time.                            *)
LEMMA BankedBounds ==
  ASSUME NEW n \in 0 .. NumStages, NEW k \in 0 .. n
  PROVE  /\ Unit * StageWeights(1 .. n) \in Unit * StageWeights(1 .. k) .. Full
         /\ Unit * StageWeights(1 .. k) \in Nat /\ Full \in Nat
         /\ n = NumStages => Unit * StageWeights(1 .. n) = Full
<1>1. NumStages \in Nat /\ k \in 0 .. NumStages
  BY LadderAssumption
<1> DEFINE u == Unit
           a == StageWeights(1 .. k)
           b == StageWeights(1 .. n)
           c == StageWeights(1 .. NumStages)
<1>2. a \in Nat /\ b \in Nat /\ c \in Nat /\ b <= c
  BY <1>1, StageWeightsBound
<1>3. a <= b
  <2> DEFINE S == 1 .. k
             T == 1 .. n
             f == [i \in S |-> Ladder[i].weight]
             g == [i \in T |-> Ladder[i].weight]
  <2>1. S \subseteq T /\ IsFiniteSet(T)
    BY <1>1, 1 \in Int, n \in Int, FS_Interval
  <2>2. \A i \in T : Ladder[i].weight \in Nat
    BY <1>1, LadderAssumption DEF IsStage
  <2>3. f \in [S -> Nat] /\ g \in [T -> Nat] /\ \A i \in S : f[i] <= g[i]
    BY <2>1, <2>2
  <2>4. StageWeights(S) = SumOf(f) /\ StageWeights(T) = SumOf(g)
    BY DEF StageWeights
  <2> HIDE DEF S, T, f, g
  <2>5. SumOf(f) <= SumOf(g)
    BY <2>1, <2>3, SumOfLess
  <2> QED BY <2>4, <2>5 DEF S, T
<1>4. u \in Nat
  BY UnitAssumption
<1>5. Full = u * c
  BY DEF Full
<1> HIDE DEF u, a, b, c
<1>6. u * a <= u * b /\ u * b <= u * c /\ u * a \in Nat /\ u * b \in Nat /\ u * c \in Nat
  BY <1>2, <1>3, <1>4
<1>7. u * b \in u * a .. Full /\ u * a \in Nat /\ Full \in Nat
  BY <1>5, <1>6
<1> QED BY <1>5, <1>7 DEF u, a, b, c

LEMMA ScoreOfStage ==
  ASSUME LastStageEarns, ScoreInv, ~Complete
  PROVE  Live \in Banked .. Full /\ Live # Full
<1> DEFINE u == Unit
           n == stage
           w == Ladder[n + 1].weight
           s == StageScore(Current, csm)
           a == StageWeights(1 .. n)
           b == StageWeights(1 .. n + 1)
           c == StageWeights(1 .. NumStages)
<1>1. /\ n \in 0 .. NumStages - 1 /\ n + 1 \in 0 .. NumStages /\ NumStages \in Nat
      /\ IsStage(Current) /\ IsMachine(Current, csm) /\ Prefix(Current, csm)
      /\ AtEarnable(Current, csm) /\ ~StageDone(Current, csm)
  BY LadderAssumption, CurrentStage DEF ScoreInv, LadderInv, TypeOK, Complete, Current
<1>2. Live = u * a + w * s /\ Banked = u * a /\ Full = u * c
  BY DEF Live, Banked, Full, Current
<1>3. s \in 0 .. u /\ u \in Nat \ {0}
  BY <1>1, StageScoreBounds, UnitAssumption
<1>4. a \in Nat /\ b = a + w /\ w \in Nat
  BY <1>1, StageWeightsAdd
<1>5. b \in Nat /\ c \in Nat /\ b <= c /\ (n + 1 < NumStages => b < c)
  BY <1>1, StageWeightsBound DEF LastStageEarns
<1>6. n + 1 = NumStages => w > 0 /\ s # u
  BY <1>1, FullStageDone DEF LastStageEarns, Current
<1>7. n + 1 = NumStages \/ n + 1 < NumStages
  BY <1>1
<1> HIDE DEF u, n, w, s, a, b, c
<1>8. w * s <= w * u /\ w * s \in Nat /\ (w > 0 /\ s # u => w * s < w * u)
  BY <1>3, <1>4
<1>9. u * b = u * a + w * u /\ u * a \in Nat /\ u * b <= u * c /\ (b < c => u * b < u * c)
  BY <1>3, <1>4, <1>5
<1>10. u * b \in Nat /\ u * c \in Nat /\ w * u \in Nat
  BY <1>3, <1>4, <1>5
<1>11. u * a + w * s \in Nat /\ u * a + w * s >= u * a /\ u * a + w * s < u * c
  BY <1>5, <1>6, <1>7, <1>8, <1>9, <1>10
<1> QED BY <1>2, <1>9, <1>10, <1>11

LEMMA ScoreOfState ==
  ASSUME LastStageEarns, ScoreInv
  PROVE  Live \in Banked .. Full /\ (Complete <=> Live = Full)
<1>1. CASE Complete
  <2>1. Live = Full /\ stage = NumStages /\ stage \in 0 .. NumStages
    BY <1>1, LadderAssumption DEF Live, Complete, ScoreInv, LadderInv, TypeOK
  <2>2. Banked = Full /\ Full \in Nat
    BY <2>1, BankedBounds DEF Banked
  <2> QED BY <1>1, <2>1, <2>2
<1>2. CASE ~Complete
  BY <1>2, ScoreOfStage
<1> QED BY <1>1, <1>2

(* A ladder that has just been reset has earned and banked nothing.        *)
LEMMA StartOfScore ==
  ASSUME stage = 0, csm = MachineFor(0)
  PROVE  Live = 0 /\ Banked = 0 /\ Complete = FALSE
<1>1. 0 \in 0 .. NumStages - 1 /\ 0 + 1 = 1 /\ Complete = FALSE
  BY LadderAssumption DEF Complete
<1>2. StageScore(Ladder[stage + 1], csm) = 0 /\ Ladder[stage + 1].weight \in Nat
  BY <1>1, StageStartsUnearned, StageWeightsAdd
<1>3. StageWeights(1 .. 0) = 0
  <2> DEFINE f == [i \in 1 .. 0 |-> Ladder[i].weight]
  <2>1. StageWeights(1 .. 0) = SumOf(f) /\ DOMAIN f = {}
    BY DEF StageWeights
  <2> QED BY <2>1, SumOfNothing
<1>4. Banked = 0
  BY <1>3, UnitAssumption DEF Banked
<1> DEFINE s == StageScore(Ladder[stage + 1], csm)
           w == Ladder[stage + 1].weight
<1>5. Live = Banked + w * s
  BY <1>1 DEF Live
<1> HIDE DEF s, w
<1>6. w * s = 0
  BY <1>2 DEF s, w
<1> QED BY <1>1, <1>4, <1>5, <1>6

LEMMA PromiseStep ==
  ASSUME LastStageEarns, ScoreInv, ScoreInv', [Next]_vars,
         (Live \in Banked .. Full /\ (Complete <=> Live = Full))'
  PROVE  [Promise!Next]_(Promise!vars)
<1>1. CASE UNCHANGED vars
  BY <1>1 DEF vars, Promise!vars, Live, Banked, Complete, Full
<1>2. CASE EarlyReset \/ NewRun
  <2>1. stage' = 0 /\ csm' = MachineFor(0)
    BY <1>2 DEF EarlyReset, NewRun, ResetLadder
  <2>2. Live' = 0 /\ Banked' = 0 /\ Complete' = FALSE
    <3>1. (stage = 0 /\ csm = MachineFor(0) => Live = 0 /\ Banked = 0 /\ Complete = FALSE)'
      BY StartOfScore, PTL
    <3> QED BY <2>1, <3>1
  <2> QED BY <2>2 DEF Promise!Next, Promise!Restart
<1>3. CASE Tick /\ Complete
  <2>1. UNCHANGED <<stage, csm>>
    BY <1>3 DEF Tick, TickOn
  <2> QED BY <2>1 DEF Promise!vars, Live, Banked, Complete, Full
<1>4. CASE Tick /\ ~Complete
  <2>1. stage' \in {stage, stage + 1}
    BY <1>4 DEF Tick, TickOn, StepLadder
  <2>2. stage' \in 0 .. NumStages /\ stage \in 0 .. stage' /\ stage \in Nat
    BY <2>1 DEF ScoreInv, LadderInv, TypeOK
  <2>3. Banked' \in Banked .. Full
    BY <2>2, BankedBounds DEF Banked
  <2>4. Full' = Full
    BY DEF Full, StageWeights
  <2>5. Live' \in Banked' .. Full /\ (Complete' <=> Live' = Full)
    BY <2>4
  <2>6. Complete' = (Live' = Full)
    BY <2>5 DEF Complete
  <2> QED BY <1>4, <2>3, <2>5, <2>6 DEF Promise!Next, Promise!Progress
<1> QED BY <1>1, <1>2, <1>3, <1>4 DEF Next

(* The ladder implements LadderPromise (get_total_score): the score never  *)
(* falls below what the completed stages have banked, is full exactly when *)
(* the ladder is complete, and then stays until the environment is reset.  *)
THEOREM PromiseIsKept == LastStageEarns => (Spec => KeepsPromise)
<1> SUFFICES ASSUME LastStageEarns PROVE Spec => KeepsPromise
  OBVIOUS
<1>1. Init => Promise!Init
  BY StartOfScore DEF Init, Promise!Init
<1>2. ScoreInv => (Live \in Banked .. Full /\ (Complete <=> Live = Full))
  BY ScoreOfState
<1>3. (ScoreInv => (Live \in Banked .. Full /\ (Complete <=> Live = Full)))'
  BY <1>2, PTL
<1>4. ScoreInv /\ ScoreInv' /\ [Next]_vars => [Promise!Next]_(Promise!vars)
  BY <1>3, PromiseStep
<1> QED BY <1>1, <1>4, ScoreInvariant, PTL DEF Spec, KeepsPromise, Promise!Spec

-------------------------------------------------------------------------------
(* What is authored as SubtaskForms admits it, the ladder can be proved    *)
(* about: the theorems above assume stages, and these say that there is    *)
(* nothing else.                                                           *)

\* Scores are not negative.
Conditions == [scored : BOOLEAN, score : Nat]

IsForm(f) ==
  /\ f.kind \in {"func", "list", "set", "dict"}
  /\ f.conds \in Seq(Conditions)
  /\ f.kind = "func" => Len(f.conds) = 1
  /\ IsFiniteSet(DOMAIN f.groups)
  /\ f.groups \in [DOMAIN f.groups -> Seq(Conditions)]

\* What an author can write.
IsSubtask(s) ==
  /\ DOMAIN s = {"conditions", "weight", "logical", "k"}
  /\ IsForm(s.conditions) /\ s.logical \in Logicals /\ s.k \in Nat

(* The groups that sanitize_subtask_conditions makes of an admitted form:  *)
(* finitely many, at least one, and none of them empty.                    *)
LEMMA SanitizedGroups ==
  ASSUME NEW s, IsSubtask(s), Admitted(s)
  PROVE  LET groups == Sanitized(s.conditions, s.logical)
         IN  /\ IsFiniteSet(DOMAIN groups) /\ DOMAIN groups # {}
             /\ \A g \in DOMAIN groups :
                  groups[g] \in Seq(Conditions) /\ groups[g] # <<>>
<1> DEFINE f == s.conditions
           groups == Sanitized(f, s.logical)
<1> IsForm(f)
  BY DEF IsSubtask
<1>1. CASE f.kind = "dict"
  <2>1. groups = f.groups
    BY <1>1 DEF Sanitized
  <2>2. DOMAIN groups # {} /\ \A g \in DOMAIN groups : Uniform(groups[g])
    BY <1>1 DEF Admitted
  <2> QED BY <2>1, <2>2 DEF IsForm, Uniform
<1>2. CASE f.kind # "dict" /\ (f.kind = "func" \/ (f.kind = "list" /\ s.logical = "all"))
  <2>1. groups = <<f.conds>>
    BY <1>2 DEF Sanitized
  <2>2. f.conds # <<>>
    BY <1>2 DEF Admitted, Uniform
  <2>3. DOMAIN groups = {1} /\ groups[1] = f.conds
    BY <2>1
  <2>4. IsFiniteSet({1})
    BY FS_Singleton
  <2> QED BY <2>2, <2>3, <2>4 DEF IsForm
<1>3. CASE f.kind # "dict" /\ ~(f.kind = "func" \/ (f.kind = "list" /\ s.logical = "all"))
  <2>1. groups = [i \in DOMAIN f.conds |-> <<f.conds[i]>>]
    BY <1>3 DEF Sanitized
  <2>2. f.conds # <<>> /\ f.conds \in Seq(Conditions)
    BY <1>3 DEF Admitted, Uniform, IsForm
  <2>3. DOMAIN groups = 1 .. Len(f.conds) /\ Len(f.conds) \in Nat /\ Len(f.conds) # 0
    BY <2>1, <2>2
  <2>4. IsFiniteSet(1 .. Len(f.conds)) /\ 1 .. Len(f.conds) # {}
    <3> DEFINE n == Len(f.conds)
    <3>1. n \in Nat /\ n # 0
      BY <2>3
    <3> HIDE DEF n
    <3>2. IsFiniteSet(1 .. n)
      BY <3>1, FS_Interval
    <3>3. 1 \in 1 .. n
      BY <3>1
    <3> QED BY <3>2, <3>3 DEF n
  <2>5. ASSUME NEW g \in DOMAIN groups
        PROVE  groups[g] \in Seq(Conditions) /\ groups[g] # <<>>
    <3>1. g \in DOMAIN f.conds
      BY <2>1, <2>5
    <3>2. groups[g] = <<f.conds[g]>>
      BY <2>1, <3>1
    <3>3. f.conds[g] \in Conditions
      <4> DEFINE cs == f.conds
      <4>1. cs \in Seq(Conditions) /\ g \in 1 .. Len(cs)
        BY <2>2, <3>1
      <4> HIDE DEF cs
      <4>2. cs[g] \in Conditions
        BY <4>1, ElementOfSeq
      <4> QED BY <4>2 DEF cs
    <3> HIDE DEF groups
    <3> QED BY <3>2, <3>3
  <2> QED BY <2>3, <2>4, <2>5
<1> QED BY <1>1, <1>2, <1>3

(* Whatever Subtask.__post_init__ does not raise for, in any of the        *)
(* notations and with any scores, is a stage as the theorems about the     *)
(* ladder assume it (LadderAssumption).                                    *)
THEOREM AdmittedMakesStage ==
  ASSUME NEW s, IsSubtask(s), Admitted(s)
  PROVE  IsStage(Built(s))
<1> DEFINE groups == Sanitized(s.conditions, s.logical)
           st == Built(s)
<1>1. /\ IsFiniteSet(DOMAIN groups) /\ DOMAIN groups # {}
      /\ \A g \in DOMAIN groups :
           groups[g] \in Seq(Conditions) /\ groups[g] # <<>>
  BY SanitizedGroups
<1> HIDE DEF groups
<1>2. /\ st.size = [g \in DOMAIN groups |-> Len(groups[g])]
      /\ st.worth = [g \in DOMAIN groups |-> Worths(groups[g])]
      /\ st.logical = s.logical /\ st.k = s.k /\ st.weight = s.weight
  BY DEF Built, groups
<1> HIDE DEF st
<1>3. Groups(st) = DOMAIN groups
  BY <1>2 DEF Groups
<1>4. ASSUME NEW g \in DOMAIN groups
      PROVE  st.size[g] \in Nat \ {0} /\ st.worth[g] \in [Rungs(st, g) -> Nat]
  <2>1. groups[g] \in Seq(Conditions) /\ groups[g] # <<>>
    BY <1>1
  <2>2. Len(groups[g]) \in Nat \ {0}
    BY <2>1
  <2>3. ASSUME NEW r \in 0 .. Len(groups[g]) - 1 PROVE groups[g][r + 1].score \in Nat
    <3> DEFINE c == groups[g]
    <3>1. c \in Seq(Conditions) /\ r \in 0 .. Len(c) - 1 /\ Len(c) \in Nat
      BY <2>1, <2>2, <2>3
    <3> HIDE DEF c
    <3>2. r + 1 \in 1 .. Len(c)
      BY <3>1
    <3>3. c[r + 1] \in Conditions
      BY <3>1, <3>2, ElementOfSeq
    <3> QED BY <3>3 DEF c, Conditions
  <2> QED BY <1>2, <2>2, <2>3 DEF Rungs, Worths
<1>5. st.weight \in Nat /\ (st.logical = "choose" => st.k \in 1 .. Cardinality(Groups(st)))
  BY <1>2, <1>3, UnitAssumption DEF Admitted, groups
<1>6. st.logical \in Logicals /\ st.k \in Nat
  BY <1>2 DEF IsSubtask
<1>7. IsStage(st)
  BY <1>1, <1>2, <1>3, <1>4, <1>5, <1>6 DEF IsStage
<1> QED BY <1>7 DEF st

(* The composites raise for nothing their caller can name: some objects,   *)
(* a weight, and a K that "choose" can meet.                               *)
THEOREM CompositesAreAdmitted ==
  ASSUME NEW objects, objects # {}, NEW weight \in 0 .. Unit,
         NEW logical \in Logicals, NEW k, logical = "choose" => k \in 1 .. Cardinality(objects)
  PROVE  /\ Admitted(PickAndPlace(objects, weight, logical, k))
         /\ Admitted(PickAndPlaceGrouped(objects, weight, logical, k))
<1>1. ASSUME NEW groups, DOMAIN groups = objects, \A g \in objects : Uniform(groups[g])
      PROVE  Admitted(Subtask(Dict(groups), weight, logical, k))
  BY <1>1 DEF Admitted, Subtask, Dict, Sanitized
<1>2. \A s \in Nat : Pair(s).scored = TRUE
  BY DEF Pair
<1>3. Uniform(<<Pair(0), Pair(weight)>>)
  <2> DEFINE cs == <<Pair(0), Pair(weight)>>
  <2>1. DOMAIN cs = {1, 2} /\ cs[1] = Pair(0) /\ cs[2] = Pair(weight)
    OBVIOUS
  <2>2. cs # <<>>
    OBVIOUS
  <2>3. weight \in Nat /\ 0 \in Nat
    BY UnitAssumption
  <2> HIDE DEF cs
  <2>4. \A i \in DOMAIN cs : cs[i].scored = cs[1].scored
    BY <1>2, <2>1, <2>3
  <2> QED BY <2>2, <2>4 DEF Uniform, cs
<1>4. Uniform([i \in 1 .. 4 |-> Pair(1)])
  <2> DEFINE cs == [i \in 1 .. 4 |-> Pair(1)]
  <2>1. 1 \in DOMAIN cs /\ \A i \in DOMAIN cs : cs[i] = Pair(1)
    OBVIOUS
  <2>2. cs # <<>>
    BY <2>1, 1 \notin DOMAIN <<>>
  <2> HIDE DEF cs
  <2>3. \A i \in DOMAIN cs : cs[i].scored = cs[1].scored
    BY <2>1
  <2> QED BY <2>2, <2>3 DEF Uniform, cs
<1> QED BY <1>1, <1>3, <1>4 DEF PickAndPlace, PickAndPlaceGrouped

(* The composites write no rung that is worth nothing after one that is    *)
(* worth something, as PromiseIsKept needs of the last stage; the grouped  *)
(* ones write none at all.                                                 *)
THEOREM CompositesEarn ==
  ASSUME NEW objects, NEW weight \in 1 .. Unit, NEW logical, NEW k
  PROVE  /\ ZerosComeFirst(Built(PickAndPlace(objects, weight, logical, k)))
         /\ EveryRungEarns(Built(PickAndPlaceGrouped(objects, weight, logical, k)))
<1> weight \in Nat /\ weight > 0
  BY UnitAssumption
<1>1. ZerosComeFirst(Built(PickAndPlace(objects, weight, logical, k)))
  <2> DEFINE st == Built(PickAndPlace(objects, weight, logical, k))
             cs == <<Pair(0), Pair(weight)>>
  <2>1. /\ st.size = [g \in objects |-> Len(cs)]
        /\ st.worth = [g \in objects |-> Worths(cs)]
    BY DEF Built, Sanitized, PickAndPlace, Subtask, Dict
  <2>2. Len(cs) = 2 /\ cs[2] = Pair(weight)
    OBVIOUS
  <2>3. Pair(weight).scored = TRUE /\ Pair(weight).score = weight
    BY DEF Pair
  <2> HIDE DEF st, cs
  <2>4. 1 \in 0 .. Len(cs) - 1 /\ Worths(cs)[1] = weight
    <3>1. 1 \in 0 .. Len(cs) - 1 /\ 1 + 1 = 2
      BY <2>2
    <3> QED BY <2>2, <2>3, <3>1 DEF Worths
  <2>5. SUFFICES ASSUME NEW g \in Groups(st), NEW q \in Rungs(st, g), NEW r \in Rungs(st, g),
                        q <= r, st.worth[g][r] = 0
                 PROVE  st.worth[g][q] = 0
    BY DEF ZerosComeFirst, st
  <2>6. g \in objects /\ q \in 0 .. 1 /\ r \in 0 .. 1
    BY <2>1, <2>2 DEF Groups, Rungs
  <2>7. st.worth[g][1] # 0
    BY <2>1, <2>4, <2>6
  <2>8. r # 1
    BY <2>5, <2>7
  <2>9. q = r
    BY <2>5, <2>6, <2>8
  <2> QED BY <2>5, <2>9
<1>2. EveryRungEarns(Built(PickAndPlaceGrouped(objects, weight, logical, k)))
  <2> DEFINE st == Built(PickAndPlaceGrouped(objects, weight, logical, k))
             cs == [i \in 1 .. 4 |-> Pair(1)]
  <2>1. /\ st.size = [g \in objects |-> Len(cs)]
        /\ st.worth = [g \in objects |-> Worths(cs)]
    BY DEF Built, Sanitized, PickAndPlaceGrouped, Subtask, Dict
  <2>2. Pair(1).scored = TRUE /\ Pair(1).score = 1
    BY DEF Pair
  <2>3. Len(cs) = 4 /\ \A i \in 1 .. 4 : cs[i] = Pair(1)
    OBVIOUS
  <2> HIDE DEF st, cs
  <2>4. \A r \in 0 .. 3 : Worths(cs)[r] = 1
    <3>1. \A r \in 0 .. 3 : r \in 0 .. Len(cs) - 1 /\ r + 1 \in 1 .. 4
      BY <2>3
    <3> QED BY <2>2, <2>3, <3>1 DEF Worths
  <2>5. ASSUME NEW g \in Groups(st), NEW r \in Rungs(st, g) PROVE st.worth[g][r] > 0
    <3>1. g \in objects /\ r \in 0 .. 3
      BY <2>1, <2>3 DEF Groups, Rungs
    <3>2. st.worth[g][r] = 1
      BY <2>1, <2>4, <3>1
    <3> QED BY <3>2
  <2> QED BY <2>5 DEF EveryRungEarns, st
<1> QED BY <1>1, <1>2

(* The number of manipulations that a stage's difficulty is computed from  *)
(* (count_subtasks) is the number of groups that have to finish for it to  *)
(* complete, in every mode; under "choose" that is at least, not exactly.  *)
THEOREM CountIsWhatItTakes ==
  ASSUME NEW st, IsStage(st), NEW m, IsMachine(st, m)
  PROVE  StageDone(st, m) <=> Cardinality(Finished(st, m)) >= CountSubtasks(st)
<1> DEFINE F == Finished(st, m)
<1>1. F \subseteq Groups(st) /\ IsFiniteSet(Groups(st))
  BY DEF Finished, IsStage
<1>2. IsFiniteSet(F) /\ Cardinality(F) \in Nat /\ Cardinality(Groups(st)) \in Nat
  BY <1>1, FS_Subset, FS_CardinalityType
<1>3. Cardinality(F) <= Cardinality(Groups(st))
      /\ (Cardinality(F) = Cardinality(Groups(st)) => F = Groups(st))
  BY <1>1, FS_Subset
<1>4. Cardinality(F) = 0 <=> F = {}
  BY <1>2, FS_EmptySet
<1>5. CASE st.logical = "all"
  BY <1>2, <1>3, <1>5 DEF StageDone, CountSubtasks
<1>6. CASE st.logical = "any"
  BY <1>2, <1>4, <1>6 DEF StageDone, CountSubtasks
<1>7. CASE st.logical = "choose"
  BY <1>2, <1>7 DEF StageDone, CountSubtasks
<1> QED BY <1>5, <1>6, <1>7 DEF IsStage, Logicals
===============================================================================
