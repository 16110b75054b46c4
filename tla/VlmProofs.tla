------------------------------ MODULE VlmProofs ------------------------------
(***************************************************************************)
(* Proofs about the VLM policy, for every batch, set of servers and units, *)
(* plan lengths and caps: what is negotiated with the server costs no      *)
(* decision, no environment is reset under a plan, the evaluation gives up *)
(* only on failures in a row, and every control step is accounted for.     *)
(***************************************************************************)
EXTENDS VlmAgent, SequenceTheorems, SumTheorems

(* What the transport has learnt is true of its server.                    *)
Learnt == backend.dialect # "unnegotiated" => Knows(srv, backend.dialect)

BackendInv == Learnt /\ ~refused

-------------------------------------------------------------------------------
(* Of the three spellings one is the first.                                *)
LEMMA FirstOfThree ==
  ASSUME NEW S \in SUBSET (1 .. 3), S # {}
  PROVE  \E i \in S : \A j \in S : i <= j
<1>1. \A j \in S : j = 1 \/ j = 2 \/ j = 3
  OBVIOUS
<1>2. PICK k \in S : TRUE
  OBVIOUS
<1>3. CASE 1 \in S
  <2>1. \A j \in S : 1 <= j
    BY <1>1
  <2> QED BY <1>3, <2>1
<1>4. CASE 1 \notin S /\ 2 \in S
  <2>1. \A j \in S : 2 <= j
    BY <1>1, <1>4
  <2> QED BY <1>4, <2>1
<1>5. CASE 1 \notin S /\ 2 \notin S
  <2>1. \A j \in S : j = 3
    BY <1>1, <1>5
  <2> QED BY <1>2, <2>1
<1> QED BY <1>3, <1>4, <1>5

(* A request without a constraint is answered, and leaves the spelling     *)
(* alone; after it the server minds the effort no more.                    *)
LEMMA FreeReply ==
  ASSUME NEW b, NEW s, NEW names
  PROVE  /\ Answered(b, s, FALSE, names)
         /\ Negotiated(b, s, FALSE, names).dialect = b.dialect
         /\ ~EffortRefused(Negotiated(b, s, FALSE, names), s)
<1>1. Rungs(b, FALSE) = <<"none">> /\ DOMAIN Rungs(b, FALSE) = {1} /\ Rungs(b, FALSE)[1] = "none"
  BY DEF Rungs
<1>2. Knows(s, Rungs(b, FALSE)[1])
  BY <1>1 DEF Knows
<1>3. Answered(b, s, FALSE, names)
  <2> DEFINE rungs == Rungs(b, FALSE)
             stops == {i \in DOMAIN rungs :
                         Knows(s, rungs[i]) \/ (EffortRefused(b, s) /\ names = "effort")}
  <2>1. stops = {1}
    BY <1>1, <1>2
  <2>2. \E i \in stops : \A j \in stops : i <= j
    <3> HIDE DEF stops
    <3> QED BY <2>1
  <2>3. (CHOOSE i \in stops : \A j \in stops : i <= j) = 1
    <3> HIDE DEF stops
    <3> QED BY <2>1, <2>2
  <2> QED BY <1>2, <2>3 DEF Answered, StopsAt
<1> QED BY <1>3 DEF Negotiated, EffortRefused

(* A constrained request is answered once the effort is settled, in the    *)
(* spelling that was learnt or in the first that the server knows.         *)
LEMMA PinnedReply ==
  ASSUME NEW b, NEW s, NEW names,
         b.dialect # "unnegotiated" => Knows(s, b.dialect), ~EffortRefused(b, s)
  PROVE  Answered(b, s, TRUE, names)
<1> DEFINE rungs == Rungs(b, TRUE)
           stops == {i \in DOMAIN rungs :
                       Knows(s, rungs[i]) \/ (EffortRefused(b, s) /\ names = "effort")}
<1>1. stops \subseteq 1 .. 3 /\ stops # {}
  <2>1. CASE b.dialect = "unnegotiated"
    <3>1. rungs = <<"structured_outputs", "guided_choice", "none">>
      BY <2>1 DEF Rungs, Dialects
    <3>2. DOMAIN rungs = 1 .. 3 /\ rungs[3] = "none"
      <4> HIDE DEF rungs
      <4> QED BY <3>1
    <3> HIDE DEF rungs
    <3>3. Knows(s, "none")
      BY DEF Knows
    <3>4. 3 \in stops
      BY <3>2, <3>3
    <3> QED BY <3>2, <3>4
  <2>2. CASE b.dialect # "unnegotiated"
    <3>1. rungs = <<b.dialect>>
      BY <2>2 DEF Rungs
    <3>2. DOMAIN rungs = {1} /\ rungs[1] = b.dialect
      <4> HIDE DEF rungs
      <4> QED BY <3>1
    <3> HIDE DEF rungs
    <3>3. 1 \in stops
      BY <2>2, <3>2
    <3> QED BY <3>2, <3>3
  <2> QED BY <2>1, <2>2
<1>2. \A i \in stops : Knows(s, rungs[i])
  OBVIOUS
<1>3. \E i \in stops : \A j \in stops : i <= j
  BY <1>1, FirstOfThree
<1>4. (CHOOSE i \in stops : \A j \in stops : i <= j) \in stops
  <2> HIDE DEF stops
  <2> QED BY <1>3
<1> QED BY <1>2, <1>4 DEF Answered, StopsAt

(* What a request teaches is true.                                         *)
LEMMA TrueLearning ==
  ASSUME NEW b, NEW s, NEW names, NEW pinned \in BOOLEAN,
         b.dialect # "unnegotiated" => Knows(s, b.dialect), ~EffortRefused(b, s)
  PROVE  /\ Answered(b, s, pinned, names)
         /\ Negotiated(b, s, pinned, names).dialect # "unnegotiated" =>
              Knows(s, Negotiated(b, s, pinned, names).dialect)
<1>1. Answered(b, s, pinned, names)
  <2>1. CASE pinned
    BY <2>1, PinnedReply
  <2>2. CASE ~pinned
    <3>1. pinned = FALSE
      BY <2>2
    <3> QED BY <3>1, FreeReply
  <2> QED BY <2>1, <2>2
<1>2. Negotiated(b, s, pinned, names).dialect =
        IF pinned /\ Answered(b, s, pinned, names) THEN StopsAt(b, s, pinned, names) ELSE b.dialect
  BY DEF Negotiated
<1> QED BY <1>1, <1>2 DEF Answered

-------------------------------------------------------------------------------
LEMMA PlanNextLearns ==
  ASSUME BackendInv, NEW e \in Envs, PlanNext(e)
  PROVE  BackendInv'
<1>1. srv' = srv /\ (backend.dialect # "unnegotiated" => Knows(srv, backend.dialect)) /\ ~refused
  BY DEF PlanNext, loopVars, BackendInv, Learnt
<1>2. CASE UNCHANGED <<backend, refused>>
  BY <1>1, <1>2 DEF BackendInv, Learnt
<1>3. ASSUME NEW names \in {"effort", "dialect"},
             backend' = Negotiated(backend, srv, FALSE, names), UNCHANGED refused
      PROVE  BackendInv'
  BY <1>1, <1>3, FreeReply DEF BackendInv, Learnt
<1>4. ASSUME NEW names \in {"effort", "dialect"}, NEW learnt, NEW pinned \in BOOLEAN,
             learnt = Negotiated(backend, srv, FALSE, names),
             backend' = Negotiated(learnt, srv, pinned, names),
             refused' = (refused \/ ~Answered(learnt, srv, pinned, names))
      PROVE  BackendInv'
  <2>1. (learnt.dialect # "unnegotiated" => Knows(srv, learnt.dialect)) /\ ~EffortRefused(learnt, srv)
    BY <1>1, <1>4, FreeReply
  <2>2. /\ Answered(learnt, srv, pinned, names)
        /\ backend'.dialect # "unnegotiated" => Knows(srv, backend'.dialect)
    BY <1>4, <2>1, TrueLearning
  <2> QED BY <1>1, <1>4, <2>2 DEF BackendInv, Learnt
<1> QED BY <1>2, <1>3, <1>4 DEF PlanNext

(* In every state the fields that a request needs are fields of its        *)
(* server: no decision fails on a field (VlmBackend.complete), because the *)
(* free reply comes before the constrained one (_plan_next).               *)
THEOREM NegotiationCostsNothing == Spec => []NegotiationIsFree
<1>1. Init => BackendInv
  BY DEF Init, BackendInv, Learnt, NewBackend
<1>2. BackendInv /\ [Next]_vars => BackendInv'
  <2> SUFFICES ASSUME BackendInv, [Next]_vars PROVE BackendInv'
    OBVIOUS
  <2>1. CASE \E e \in Envs : PlanNext(e)
    BY <2>1, PlanNextLearns
  <2>2. CASE UNCHANGED <<srv, backend, refused>>
    BY <2>2 DEF BackendInv, Learnt
  <2>3. (\E e \in Envs : GoOn(e) \/ AutoRelease(e)) \/ StepBatch \/ NextRun \/ UNCHANGED vars
          => UNCHANGED <<srv, backend, refused>>
    BY DEF GoOn, AutoRelease, StepBatch, NextRun, vars, loopVars
  <2> QED BY <2>1, <2>2, <2>3 DEF Next
<1>3. BackendInv => NegotiationIsFree
  BY DEF BackendInv, NegotiationIsFree
<1> QED BY <1>1, <1>2, <1>3, PTL DEF Spec

-------------------------------------------------------------------------------
(* An _EnvState, as far as its settling goes.                              *)
Settles(s) == "settle" \in DOMAIN s /\ s.settle \in 0 .. SettleSteps

ClockTypes ==
  /\ tick \in Nat /\ clock \in [Envs -> Nat] /\ early \in [Envs -> 0 .. MaxEarlyResets]
  /\ active \subseteq Envs /\ asked \subseteq active
  /\ agent = [e \in Envs |-> agent[e]] /\ \A e \in Envs : Settles(agent[e])
  /\ tries \in [Envs -> Seq(Units \cup {"failed", "auto"})]

(* How many steps of the run e has been asked on, or ended before.         *)
Turns(e) == tick + (IF e \in asked THEN 1 ELSE 0)

(* The client settles once on every step; an early reset costs the loop at *)
(* most two steps; nothing is decided before the scene has settled.        *)
Settling == \A e \in Envs : SettleSteps <= agent[e].settle + Turns(e)
ResetsAreEarly == \A e \in active : tick <= 2 * early[e] + clock[e]
DecidesSettled == \A e \in Envs : tries[e] # <<>> => SettleSteps <= tick

SettleInv == ClockTypes /\ Settling /\ ResetsAreEarly /\ DecidesSettled

(* A control step of the plan, a decision, a failure and an automatic      *)
(* release leave the settling alone: _action_for_step, _plan_next,         *)
(* _auto_release.                                                          *)
LEMMA DecidedState ==
  ASSUME NEW s, Settles(s)
  PROVE  /\ Settles(Played(s)) /\ Played(s).settle = s.settle
         /\ \A u \in Units : Settles(Planned(s, u)) /\ Planned(s, u).settle = s.settle
         /\ Settles(Held(s)) /\ Held(s).settle = s.settle
         /\ Settles(Released(s)) /\ Released(s).settle = s.settle
         /\ Settles([s EXCEPT !.failures = @ + 1])
         /\ [s EXCEPT !.failures = @ + 1].settle = s.settle
<1>1. Settles(Played(s)) /\ Played(s).settle = s.settle
  BY DEF Settles, Played
<1>2. ASSUME NEW u \in Units
      PROVE  Settles(Planned(s, u)) /\ Planned(s, u).settle = s.settle
  BY DEF Settles, Planned, FailuresAfter
<1>3. Settles(Held(s)) /\ Held(s).settle = s.settle
  BY DEF Settles, Held
<1>4. Settles(Released(s)) /\ Released(s).settle = s.settle
  BY DEF Settles, Released
<1>5. /\ Settles([s EXCEPT !.failures = @ + 1])
      /\ [s EXCEPT !.failures = @ + 1].settle = s.settle
  BY DEF Settles
<1> QED BY <1>1, <1>2, <1>3, <1>4, <1>5

(* A turn of e that keeps its settling, or counts it down by one.          *)
LEMMA TurnSettles ==
  ASSUME SettleInv, NEW e \in Envs, NEW s, Settles(s), Turn(e),
         s.settle + 1 >= agent[e].settle, agent' = [agent EXCEPT ![e] = s],
         \/ tries' = tries
         \/ \E t \in Units \cup {"failed", "auto"} :
              agent[e].settle = 0 /\ tries' = [tries EXCEPT ![e] = Append(@, t)],
         UNCHANGED <<tick, clock, early, active>>
  PROVE  SettleInv'
<1> USE DEF SettleInv
<1>1. e \in active /\ e \notin asked /\ asked' = asked \cup {e}
  BY DEF Turn
<1>2. tries' \in [Envs -> Seq(Units \cup {"failed", "auto"})]
  <2> DEFINE T == Units \cup {"failed", "auto"}
  <2>1. tries \in [Envs -> Seq(T)]
    BY DEF ClockTypes
  <2>2. ASSUME NEW t \in T, tries' = [tries EXCEPT ![e] = Append(@, t)]
        PROVE  tries' \in [Envs -> Seq(T)]
    <3> HIDE DEF T
    <3>1. Append(tries[e], t) \in Seq(T)
      BY <2>1
    <3> QED BY <2>1, <2>2, <3>1
  <2> QED BY <2>1, <2>2
<1>3. ClockTypes'
  BY <1>1, <1>2 DEF ClockTypes
<1>4. Settling'
  <2> SUFFICES ASSUME NEW d \in Envs PROVE SettleSteps <= agent'[d].settle + Turns(d)'
    BY DEF Settling
  <2>1. SettleSteps <= agent[d].settle + Turns(d) /\ tick \in Nat /\ agent[d].settle \in Nat /\ s.settle \in Nat
    BY AgentAssumption DEF Settling, ClockTypes, Settles
  <2>2. CASE d = e
    <3>1. agent'[d] = s /\ Turns(d) = tick /\ Turns(d)' = tick + 1
      BY <1>1, <2>2 DEF Turns, ClockTypes
    <3> QED BY <2>1, <2>2, <3>1, AgentAssumption
  <2>3. CASE d # e
    <3>1. agent'[d] = agent[d] /\ Turns(d)' = Turns(d)
      BY <1>1, <2>3 DEF Turns, ClockTypes
    <3> QED BY <2>1, <3>1
  <2> QED BY <2>2, <2>3
<1>5. ResetsAreEarly'
  BY DEF ResetsAreEarly
<1>6. DecidesSettled'
  <2>1. agent[e].settle = 0 => SettleSteps <= tick
    BY <1>1, AgentAssumption DEF Settling, Turns, ClockTypes
  <2>2. \A d \in Envs \ {e} : tries'[d] = tries[d]
    BY DEF ClockTypes
  <2> QED BY <2>1, <2>2 DEF DecidesSettled
<1> QED BY <1>3, <1>4, <1>5, <1>6

LEMMA GoOnSettles ==
  ASSUME SettleInv, NEW e \in Envs, GoOn(e)
  PROVE  SettleInv'
<1> DEFINE s == Settled(agent[e])
<1>1. Settles(agent[e])
  BY DEF SettleInv, ClockTypes
<1>2. agent[e].settle \in 0 .. SettleSteps /\ SettleSteps \in Nat
  BY <1>1, AgentAssumption DEF Settles
<1>3. Settles(s) /\ s.settle + 1 >= agent[e].settle
  <2>1. CASE agent[e].settle > 0
    <3>1. agent[e].settle - 1 \in 0 .. SettleSteps
      BY <1>2, <2>1
    <3> QED BY <1>1, <1>2, <2>1, <3>1 DEF Settles, Settled
  <2>2. CASE ~(agent[e].settle > 0)
    BY <1>1, <1>2, <2>2 DEF Settled
  <2> QED BY <2>1, <2>2
<1>4. /\ Turn(e) /\ tries' = tries /\ UNCHANGED <<tick, clock, early, active>>
      /\ agent' = [agent EXCEPT ![e] = Played(s)]
  BY DEF GoOn, loopVars
<1> HIDE DEF s
<1>5. Settles(Played(s)) /\ Played(s).settle = s.settle
  BY <1>3, DecidedState
<1> QED BY <1>3, <1>4, <1>5, TurnSettles

LEMMA AutoReleaseSettles ==
  ASSUME SettleInv, NEW e \in Envs, AutoRelease(e)
  PROVE  SettleInv'
<1>1. Settles(agent[e])
  BY DEF SettleInv, ClockTypes
<1>2. /\ Settles(Played(Released(agent[e])))
      /\ Played(Released(agent[e])).settle = agent[e].settle
  BY <1>1, DecidedState
<1>3. /\ Turn(e) /\ agent[e].settle = 0
      /\ agent' = [agent EXCEPT ![e] = Played(Released(agent[e]))]
      /\ tries' = [tries EXCEPT ![e] = Append(@, "auto")]
      /\ UNCHANGED <<tick, clock, early, active>>
  BY DEF AutoRelease, Idle, loopVars
<1>4. agent[e].settle + 1 >= agent[e].settle
  BY <1>1, AgentAssumption DEF Settles
<1> QED BY <1>2, <1>3, <1>4, TurnSettles

LEMMA PlanNextSettles ==
  ASSUME SettleInv, NEW e \in Envs, PlanNext(e)
  PROVE  SettleInv'
<1>1. Settles(agent[e])
  BY DEF SettleInv, ClockTypes
<1>2. Turn(e) /\ agent[e].settle = 0 /\ UNCHANGED <<tick, clock, early, active>>
  BY DEF PlanNext, Idle, loopVars
<1>3. \E outcome \in Units \cup {"failed"} : Decided(e, outcome)
  BY DEF PlanNext
<1>4. PICK outcome \in Units \cup {"failed"} : Decided(e, outcome)
  BY <1>3
<1>5. \E s : Settles(s) /\ s.settle = agent[e].settle /\ agent' = [agent EXCEPT ![e] = s]
  <2>1. CASE outcome # "failed"
    <3>1. outcome \in Units /\ agent' = [agent EXCEPT ![e] = Played(Planned(agent[e], outcome))]
      BY <1>4, <2>1 DEF Decided
    <3> QED BY <1>1, <3>1, DecidedState
  <2>2. CASE outcome = "failed" /\ Held(agent[e]).failures < MaxFailures
    <3>1. agent' = [agent EXCEPT ![e] = Played(Held(agent[e]))]
      BY <1>4, <2>2 DEF Decided
    <3> QED BY <1>1, <3>1, DecidedState
  <2>3. CASE outcome = "failed" /\ ~(Held(agent[e]).failures < MaxFailures)
    <3>1. agent' = [agent EXCEPT ![e] = [agent[e] EXCEPT !.failures = @ + 1]]
      BY <1>4, <2>3 DEF Decided
    <3> QED BY <1>1, <3>1, DecidedState
  <2> QED BY <2>1, <2>2, <2>3
<1>6. tries' = [tries EXCEPT ![e] = Append(@, outcome)]
  BY <1>4 DEF Decided
<1>7. agent[e].settle + 1 >= agent[e].settle
  BY <1>1, AgentAssumption DEF Settles
<1> QED BY <1>2, <1>5, <1>6, <1>7, TurnSettles

(* A step of the batch: what it resets has taken two steps at most.        *)
LEMMA StepBatchSettles ==
  ASSUME SettleInv, StepBatch
  PROVE  /\ SettleInv'
         /\ \A e \in Envs : early'[e] > early[e] => tries[e] = <<>>
<1> USE DEF SettleInv
<1>1. PICK ending \in SUBSET active :
        LET again == {e \in ending : TooSoon(e)} IN
        /\ active' = active \ (ending \ again)
        /\ early' = [e \in Envs |-> IF e \in again THEN early[e] + 1 ELSE early[e]]
        /\ clock' = [e \in Envs |-> IF e \in again THEN 0 ELSE clock[e] + 1]
  BY DEF StepBatch
<1> DEFINE again == {e \in ending : TooSoon(e)}
<1>2. /\ active' = active \ (ending \ again)
      /\ early' = [e \in Envs |-> IF e \in again THEN early[e] + 1 ELSE early[e]]
      /\ clock' = [e \in Envs |-> IF e \in again THEN 0 ELSE clock[e] + 1]
  BY <1>1
<1>3. \A e \in again : e \in active /\ clock[e] + 1 <= 2 /\ early[e] < MaxEarlyResets
  BY <1>1 DEF TooSoon
<1> HIDE DEF again
<1>4. /\ tick' = tick + 1 /\ asked = active /\ asked' = {} /\ agent' = agent /\ tries' = tries
      /\ active' \subseteq active
  BY <1>2 DEF StepBatch
<1>5. /\ tick \in Nat /\ clock \in [Envs -> Nat] /\ early \in [Envs -> 0 .. MaxEarlyResets]
      /\ active \subseteq Envs /\ MaxEarlyResets \in Nat /\ SettleSteps \in Nat
      /\ 2 * MaxEarlyResets < SettleSteps
  BY AgentAssumption DEF ClockTypes
<1>6. \A e \in again : early[e] + 1 \in 0 .. MaxEarlyResets
  BY <1>3, <1>5
<1>7. ClockTypes'
  <2>1. early' \in [Envs -> 0 .. MaxEarlyResets] /\ clock' \in [Envs -> Nat] /\ tick' \in Nat
    BY <1>2, <1>4, <1>5, <1>6
  <2> QED BY <1>4, <2>1 DEF ClockTypes
<1>8. Settling'
  <2> SUFFICES ASSUME NEW e \in Envs PROVE SettleSteps <= agent'[e].settle + Turns(e)'
    BY DEF Settling
  <2>1. SettleSteps <= agent[e].settle + Turns(e) /\ agent[e].settle \in Nat
    BY <1>5 DEF Settling, ClockTypes, Settles
  <2>2. Turns(e) \in Nat /\ Turns(e)' >= Turns(e) /\ Turns(e)' \in Nat
    BY <1>4, <1>5 DEF Turns
  <2> QED BY <1>4, <1>5, <2>1, <2>2
<1>9. ResetsAreEarly'
  <2> SUFFICES ASSUME NEW e \in active' PROVE tick' <= 2 * early'[e] + clock'[e]
    BY DEF ResetsAreEarly
  <2>1. /\ e \in Envs /\ tick <= 2 * early[e] + clock[e]
        /\ early[e] \in Nat /\ clock[e] \in Nat
    BY <1>4, <1>5 DEF ResetsAreEarly
  <2>2. CASE e \in again
    <3>1. early'[e] = early[e] + 1 /\ clock'[e] = 0 /\ clock[e] + 1 <= 2
      BY <1>2, <1>3, <2>1, <2>2
    <3> QED BY <1>4, <1>5, <2>1, <3>1
  <2>3. CASE e \notin again
    <3>1. early'[e] = early[e] /\ clock'[e] = clock[e] + 1
      BY <1>2, <2>1, <2>3
    <3> QED BY <1>4, <1>5, <2>1, <3>1
  <2> QED BY <2>2, <2>3
<1>10. DecidesSettled'
  BY <1>4, <1>5 DEF DecidesSettled
<1>11. ASSUME NEW e \in Envs, early'[e] > early[e] PROVE tries[e] = <<>>
  <2>1. early[e] \in Nat /\ clock[e] \in Nat
    BY <1>5
  <2>2. e \in again
    BY <1>2, <1>11, <2>1
  <2>3. tick <= 2 * early[e] + clock[e] /\ clock[e] + 1 <= 2 /\ early[e] + 1 <= MaxEarlyResets
    BY <1>3, <1>5, <2>1, <2>2 DEF ResetsAreEarly
  <2>4. tick < SettleSteps
    BY <1>5, <2>1, <2>3
  <2> QED BY <1>5, <2>4 DEF DecidesSettled
<1> QED BY <1>7, <1>8, <1>9, <1>10, <1>11

LEMMA NextRunSettles ==
  ASSUME SettleInv, NextRun
  PROVE  SettleInv'
<1>1. /\ tick' = 0 /\ asked' = {} /\ active' = Envs /\ clock' = [e \in Envs |-> 0]
      /\ early' = [e \in Envs |-> 0] /\ agent' = [e \in Envs |-> NewState]
      /\ tries' = [e \in Envs |-> <<>>]
  BY DEF NextRun
<1>2. Settles(NewState) /\ NewState.settle = SettleSteps /\ SettleSteps \in Nat
  BY AgentAssumption DEF Settles, NewState
<1>3. ClockTypes'
  BY <1>1, <1>2, AgentAssumption DEF ClockTypes
<1> QED BY <1>1, <1>2, <1>3 DEF SettleInv, Settling, Turns, ResetsAreEarly, DecidesSettled

LEMMA SettleInvariant ==
  /\ Init => SettleInv
  /\ SettleInv /\ [Next]_vars => SettleInv' /\ \A e \in Envs : early'[e] > early[e] => tries[e] = <<>>
<1>1. ASSUME Init PROVE SettleInv
  <2>1. /\ tick = 0 /\ asked = {} /\ active = Envs /\ clock = [e \in Envs |-> 0]
        /\ early = [e \in Envs |-> 0] /\ agent = [e \in Envs |-> NewState]
        /\ tries = [e \in Envs |-> <<>>]
    BY <1>1 DEF Init
  <2>2. Settles(NewState) /\ NewState.settle = SettleSteps /\ SettleSteps \in Nat
    BY AgentAssumption DEF Settles, NewState
  <2>3. ClockTypes
    BY <2>1, <2>2, AgentAssumption DEF ClockTypes
  <2> QED BY <2>1, <2>2, <2>3 DEF SettleInv, Settling, Turns, ResetsAreEarly, DecidesSettled
<1>2. ASSUME SettleInv, [Next]_vars
      PROVE  SettleInv' /\ \A e \in Envs : early'[e] > early[e] => tries[e] = <<>>
  <2>1. \A e \in Envs : early[e] \in Int
    BY <1>2, AgentAssumption DEF SettleInv, ClockTypes
  <2>2. CASE \E e \in Envs : GoOn(e) \/ AutoRelease(e) \/ PlanNext(e)
    <3>1. SettleInv'
      BY <1>2, <2>2, GoOnSettles, AutoReleaseSettles, PlanNextSettles
    <3>2. early' = early
      BY <2>2 DEF GoOn, AutoRelease, PlanNext, loopVars
    <3> QED BY <2>1, <3>1, <3>2
  <2>3. CASE StepBatch
    BY <1>2, <2>3, StepBatchSettles
  <2>4. CASE NextRun
    <3>1. SettleInv'
      BY <1>2, <2>4, NextRunSettles
    <3>2. \A e \in Envs : ~(early'[e] > early[e])
      BY <1>2, <2>4, AgentAssumption DEF NextRun, SettleInv, ClockTypes
    <3> QED BY <3>1, <3>2
  <2>5. CASE UNCHANGED vars
    BY <1>2, <2>1, <2>5
       DEF vars, loopVars, SettleInv, ClockTypes, Settling, Turns, ResetsAreEarly, DecidesSettled
  <2> QED BY <1>2, <2>2, <2>3, <2>4, <2>5 DEF Next
<1> QED BY <1>1, <1>2

(* In every behaviour an environment that env.step() resets early has no   *)
(* plan and has decided nothing, because the caps of the two files fit:    *)
(* 2 * MAX_EARLY_RESETS < SETTLE_STEPS, which no line of the code says.    *)
THEOREM ResetsMeetNoPlan == Spec => NoResetUnderAPlan
<1>1. SettleInv /\ [Next]_vars => [\A e \in Envs : early'[e] > early[e] => tries[e] = <<>>]_vars
  BY SettleInvariant
<1>2. Init => SettleInv
  BY SettleInvariant
<1>3. SettleInv /\ [Next]_vars => SettleInv'
  BY SettleInvariant
<1> QED BY <1>1, <1>2, <1>3, PTL DEF Spec, NoResetUnderAPlan

-------------------------------------------------------------------------------
(* The operators on what was tried.                                        *)
LEMMA OneMoreTry ==
  ASSUME NEW t \in Seq(Tries), NEW x \in Tries
  PROVE  /\ Append(t, x) \in Seq(Tries) /\ Len(t) \in Nat
         /\ Len(Append(t, x)) = Len(t) + 1
         /\ DOMAIN t = 1 .. Len(t) /\ DOMAIN Append(t, x) = 1 .. Len(t) + 1
         /\ \A i \in 1 .. Len(t) : Append(t, x)[i] = t[i]
         /\ Append(t, x)[Len(t) + 1] = x
         /\ DOMAIN Append(t, x) = DOMAIN t \cup {Len(t) + 1}
<1>1. /\ Append(t, x) \in Seq(Tries) /\ Len(Append(t, x)) = Len(t) + 1
      /\ \A i \in 1 .. Len(t) : Append(t, x)[i] = t[i]
      /\ Append(t, x)[Len(t) + 1] = x
  BY AppendProperties
<1>2. Len(t) \in Nat /\ DOMAIN t = 1 .. Len(t) /\ DOMAIN Append(t, x) = 1 .. Len(t) + 1
  BY <1>1
<1>3. 1 .. Len(t) + 1 = 1 .. Len(t) \cup {Len(t) + 1}
  BY <1>2
<1> QED BY <1>1, <1>2, <1>3

LEMMA InARowIsNat ==
  ASSUME NEW t \in Seq(Tries)
  PROVE  IsFiniteSet(InARow(t)) /\ Cardinality(InARow(t)) \in Nat
<1>1. InARow(t) \subseteq 1 .. Len(t)
  BY DEF InARow
<1>2. IsFiniteSet(1 .. Len(t))
  BY FS_Interval
<1> QED BY <1>1, <1>2, FS_Subset, FS_CardinalityType

(* A failure counts on, an automatic release does not part the count, and  *)
(* any other try starts it again.                                          *)
LEMMA InARowGrows ==
  ASSUME NEW t \in Seq(Tries), NEW x \in Tries
  PROVE  Cardinality(InARow(Append(t, x))) =
           CASE x = "failed" -> Cardinality(InARow(t)) + 1
             [] x = "auto"   -> Cardinality(InARow(t))
             [] OTHER        -> 0
<1> DEFINE n == Len(t)
           u == Append(t, x)
           Quiet == {"failed", "auto"}
<1>1. /\ n \in Nat /\ DOMAIN t = 1 .. n /\ DOMAIN u = 1 .. n + 1 /\ Len(u) = n + 1
      /\ (\A i \in 1 .. n : u[i] = t[i]) /\ u[n + 1] = x
  BY OneMoreTry
<1>2. IsFiniteSet(InARow(t)) /\ Cardinality(InARow(t)) \in Nat
  BY InARowIsNat
<1>3. /\ InARow(t) = {i \in 1 .. n : t[i] = "failed" /\ \A j \in i .. n : t[j] \in Quiet}
      /\ InARow(u) = {i \in 1 .. n + 1 : u[i] = "failed" /\ \A j \in i .. n + 1 : u[j] \in Quiet}
  BY <1>1 DEF InARow
<1> HIDE DEF n, u
<1>4. CASE x \in Quiet
  <2>1. \A i \in 1 .. n : i \in InARow(u) <=> i \in InARow(t)
    <3> SUFFICES ASSUME NEW i \in 1 .. n
                 PROVE  (\A j \in i .. n + 1 : u[j] \in Quiet) <=> (\A j \in i .. n : t[j] \in Quiet)
      BY <1>1, <1>3
    <3>1. i .. n + 1 = i .. n \cup {n + 1} /\ i .. n \subseteq 1 .. n
      BY <1>1
    <3> QED BY <1>1, <1>4, <3>1
  <2>2. n + 1 \in InARow(u) <=> x = "failed"
    BY <1>1, <1>3, <1>4
  <2>3. n + 1 \notin InARow(t) /\ InARow(t) \subseteq 1 .. n /\ InARow(u) \subseteq 1 .. n \cup {n + 1}
    BY <1>1, <1>3
  <2>4. InARow(u) = IF x = "failed" THEN InARow(t) \cup {n + 1} ELSE InARow(t)
    <3>1. CASE x = "failed"
      <4>1. InARow(u) \subseteq InARow(t) \cup {n + 1} /\ InARow(t) \cup {n + 1} \subseteq InARow(u)
        BY <2>1, <2>2, <2>3, <3>1
      <4> QED BY <3>1, <4>1
    <3>2. CASE x # "failed"
      <4>1. InARow(u) \subseteq InARow(t) /\ InARow(t) \subseteq InARow(u)
        BY <2>1, <2>2, <2>3, <3>2
      <4> QED BY <3>2, <4>1
    <3> QED BY <3>1, <3>2
  <2>5. Cardinality(InARow(t) \cup {n + 1}) = Cardinality(InARow(t)) + 1
    BY <1>2, <2>3, FS_AddElement
  <2> QED BY <1>4, <2>4, <2>5 DEF u
<1>5. CASE x \notin Quiet
  <2>1. InARow(u) = {}
    BY <1>1, <1>3, <1>5
  <2>2. Cardinality(InARow(u)) = 0
    BY <2>1, FS_EmptySet
  <2> QED BY <1>5, <2>2 DEF u
<1> QED BY <1>4, <1>5

LEMMA StepsOfIsNat ==
  ASSUME NEW x \in Tries
  PROVE  StepsOf(x) \in Nat /\ (x = "auto" => StepsOf(x) = Steps["RELEASE"])
         /\ (x = "failed" => StepsOf(x) = 1) /\ (x \in Units => StepsOf(x) = Steps[x])
BY AgentAssumption DEF Tries, StepsOf

(* What is planned grows by the steps of one try.                          *)
LEMMA PlannedByGrows ==
  ASSUME NEW t \in Seq(Tries), NEW x \in Tries
  PROVE  /\ PlannedBy(t) \in Nat
         /\ PlannedBy(Append(t, x)) = PlannedBy(t) + StepsOf(x)
         /\ PlannedBy(<<>>) = 0
<1> DEFINE n == Len(t)
           u == Append(t, x)
           D == 1 .. n
           f == [i \in D |-> StepsOf(t[i])]
           k == n + 1
           g == [i \in D \cup {k} |-> StepsOf(u[i])]
<1>1. /\ n \in Nat /\ DOMAIN t = D /\ DOMAIN u = D \cup {k} /\ k \notin D
      /\ (\A i \in D : u[i] = t[i]) /\ u[k] = x /\ u \in Seq(Tries) /\ DOMAIN u = 1 .. Len(u)
  BY OneMoreTry
<1>2. (\A i \in D : t[i] \in Tries) /\ \A i \in DOMAIN u : u[i] \in Tries
  BY <1>1, ElementOfSeq
<1>3. f \in [D -> Nat] /\ g \in [D \cup {k} -> Nat] /\ \A i \in D : f[i] = g[i]
  <2>1. \A i \in D : StepsOf(t[i]) \in Nat
    BY <1>2, StepsOfIsNat
  <2>2. \A i \in D \cup {k} : StepsOf(u[i]) \in Nat
    BY <1>1, <1>2, StepsOfIsNat
  <2>3. \A i \in D : f[i] = g[i]
    BY <1>1
  <2> HIDE DEF u, n, D, k
  <2> QED BY <2>1, <2>2, <2>3
<1>4. IsFiniteSet(D)
  BY <1>1, FS_Interval
<1>5. PlannedBy(t) = SumOf(f) /\ PlannedBy(u) = SumOf(g) /\ g[k] = StepsOf(x)
  BY <1>1 DEF PlannedBy
<1>6. SumOf(f) \in Nat
  BY <1>3, <1>4, SumIsNat
<1>7. SumOf(g) = SumOf(f) + g[k]
  <2>1. k \notin D /\ \A i \in D : f[i] = g[i]
    BY <1>1, <1>3
  <2> HIDE DEF f, g, D, k
  <2> QED BY <2>1, <1>3, <1>4, SumWithOneMore
<1>8. PlannedBy(<<>>) = 0
  <2>1. DOMAIN [i \in DOMAIN <<>> |-> StepsOf(<<>>[i])] = {}
    OBVIOUS
  <2> QED BY <2>1, SumOfNothing DEF PlannedBy
<1> QED BY <1>5, <1>6, <1>7, <1>8

-------------------------------------------------------------------------------
(* A state of the client: the plan has its own steps left at most, it is   *)
(* terminal when the environment is finished, and there is none before the *)
(* scene has settled.                                                      *)
Sound(s) ==
  /\ s \in EnvState
  /\ s.left <= IF s.plan = "none" THEN 0 ELSE Steps[s.plan]
  /\ s.finished <=> s.plan \in Terminal
  /\ s.settle > 0 => s.plan = "none"

(* The count of failures is that of the tries since the last success.      *)
Counts(e) ==
  /\ agent[e].failures = Cardinality(InARow(tries[e]))
  /\ agent[e].settle > 0 => tries[e] = <<>>
  /\ \A i \in DOMAIN tries[e] :
       tries[e][i] \in Terminal => i = Len(tries[e]) /\ agent[e].finished

Balanced(e) ==
  ~agent[e].finished =>
    Turns(e) = SettleSteps - agent[e].settle + PlannedBy(tries[e]) - agent[e].left

CountInv ==
  /\ raised \in BOOLEAN
  /\ \A e \in Envs : Sound(agent[e]) /\ Counts(e)
  /\ raised <=> \E e \in Envs : agent[e].failures >= MaxFailures
  /\ ~raised => \A e \in active : Balanced(e)

AgentInv == SettleInv /\ CountInv

(* A turn that settles or plays the plan, in infer.                        *)
LEMMA GoOnState ==
  ASSUME NEW s, Sound(s), s.settle > 0 \/ s.left > 0 \/ s.finished
  PROVE  LET t == Played(Settled(s)) IN
         /\ Sound(t) /\ t.failures = s.failures /\ t.finished = s.finished
         /\ t.settle > 0 => s.settle > 0
         /\ ~s.finished => t.left + t.settle + 1 = s.left + s.settle
<1>1. /\ s.left \in Nat /\ s.settle \in 0 .. SettleSteps /\ SettleSteps \in Nat /\ s \in EnvState
      /\ s.finished \in BOOLEAN
  BY AgentAssumption DEF Sound, EnvState
<1>2. CASE s.settle > 0
  <2>1. s.plan = "none" /\ s.left = 0
    BY <1>1, <1>2 DEF Sound
  <2>2. Played(Settled(s)) = [s EXCEPT !.settle = @ - 1]
    BY <1>1, <1>2, <2>1 DEF Played, Settled, EnvState
  <2>3. s.settle - 1 \in 0 .. SettleSteps
    BY <1>1, <1>2
  <2>4. Sound([s EXCEPT !.settle = @ - 1])
    BY <1>1, <2>1, <2>3 DEF Sound, EnvState
  <2> QED BY <1>1, <1>2, <2>1, <2>2, <2>4 DEF EnvState
<1>3. CASE ~(s.settle > 0) /\ ~s.finished
  <2>1. s.left > 0 /\ s.plan # "none" /\ s.plan \notin Terminal
    BY <1>1, <1>3 DEF Sound
  <2>2. Settled(s) = s
    BY <1>3 DEF Settled
  <2>3. Played(s) = [s EXCEPT !.left = @ - 1]
    BY <1>1, <2>1 DEF Played
  <2>4. s.plan \in DOMAIN Steps /\ Steps[s.plan] \in Nat /\ s.left - 1 \in Nat
    BY <1>1, <2>1, AgentAssumption DEF EnvState
  <2>5. Sound([s EXCEPT !.left = @ - 1])
    BY <1>1, <1>3, <2>1, <2>4 DEF Sound, EnvState
  <2> QED BY <1>1, <1>3, <2>1, <2>2, <2>3, <2>5 DEF EnvState
<1>4. CASE ~(s.settle > 0) /\ s.finished
  <2>1. Settled(s) = s
    BY <1>4 DEF Settled
  <2>2. Played(s) = s
    BY <1>4 DEF Played, Sound
  <2> QED BY <1>4, <2>1, <2>2
<1> QED BY <1>2, <1>3, <1>4

(* The first step of a new plan.                                           *)
LEMMA FirstStepOfPlan ==
  ASSUME NEW t \in EnvState, t.settle = 0, t.plan # "none", t.left = Steps[t.plan],
         t.finished <=> t.plan \in Terminal
  PROVE  /\ Sound(Played(t)) /\ Played(t).settle = 0 /\ Played(t).failures = t.failures
         /\ Played(t).finished = t.finished
         /\ ~t.finished => Played(t).left + 1 = Steps[t.plan]
<1>1. t.plan \in DOMAIN Steps
  BY AgentAssumption DEF EnvState
<1>2. Steps[t.plan] \in Nat \ {0}
  BY <1>1, AgentAssumption
<1>3. CASE t.plan \in Terminal
  BY <1>2, <1>3 DEF Played, Sound
<1>4. CASE t.plan \notin Terminal
  <2>1. Played(t) = [t EXCEPT !.left = @ - 1]
    BY <1>2, <1>4 DEF Played
  <2>2. t.left - 1 \in Nat /\ t.left - 1 <= Steps[t.plan]
    BY <1>2
  <2>3. Sound(Played(t))
    BY <1>4, <2>1, <2>2 DEF Sound, EnvState
  <2> QED BY <1>2, <2>1, <2>3 DEF EnvState
<1> QED BY <1>3, <1>4

(* What a try makes of an idle state, in _auto_release and _plan_next.     *)
LEMMA TriedState ==
  ASSUME NEW s, Sound(s), s.settle = 0, s.left = 0, ~s.finished, s.failures < MaxFailures
  PROVE  /\ LET t == Played(Released(s)) IN
              /\ Sound(t) /\ t.settle = 0 /\ t.failures = s.failures /\ ~t.finished
              /\ t.left + 1 = StepsOf("auto")
         /\ \A u \in Units :
              LET t == Played(Planned(s, u)) IN
              /\ Sound(t) /\ t.settle = 0 /\ t.failures = 0 /\ (t.finished <=> u \in Terminal)
              /\ ~t.finished => t.left + 1 = StepsOf(u)
         /\ Held(s).failures = s.failures + 1
         /\ Held(s).failures < MaxFailures =>
              LET t == Played(Held(s)) IN
              /\ Sound(t) /\ t.settle = 0 /\ t.failures = s.failures + 1 /\ ~t.finished
              /\ t.left + 1 = StepsOf("failed")
         /\ ~(Held(s).failures < MaxFailures) =>
              LET t == [s EXCEPT !.failures = @ + 1] IN
              /\ Sound(t) /\ t.settle = 0 /\ t.failures = s.failures + 1 /\ ~t.finished
<1>1. /\ s \in EnvState /\ s.failures \in 0 .. MaxFailures /\ MaxFailures \in Nat \ {0}
      /\ s.failures + 1 \in 0 .. MaxFailures /\ s.finished = FALSE
  BY AgentAssumption DEF Sound, EnvState
<1>2. /\ Steps["RELEASE"] \in Nat /\ Steps["STILL"] = 1
      /\ StepsOf("auto") = Steps["RELEASE"] /\ StepsOf("failed") = 1
      /\ \A u \in Units : Steps[u] \in Nat /\ StepsOf(u) = Steps[u] /\ u # "none"
  BY AgentAssumption, StepsOfIsNat DEF Tries
<1>3. LET t == Played(Released(s)) IN
        /\ Sound(t) /\ t.settle = 0 /\ t.failures = s.failures /\ ~t.finished
        /\ t.left + 1 = StepsOf("auto")
  <2> DEFINE t == Released(s)
  <2>1. /\ t \in EnvState /\ t.settle = 0 /\ t.plan = "RELEASE" /\ t.left = Steps[t.plan]
        /\ t.finished = FALSE /\ t.failures = s.failures
    BY <1>1, <1>2 DEF Released, EnvState
  <2> HIDE DEF t
  <2>2. t.plan \notin Terminal
    BY <2>1 DEF Terminal
  <2>3. /\ Sound(Played(t)) /\ Played(t).settle = 0 /\ Played(t).failures = t.failures
        /\ Played(t).finished = t.finished /\ Played(t).left + 1 = Steps[t.plan]
    BY <2>1, <2>2, FirstStepOfPlan
  <2> QED BY <1>2, <2>1, <2>3 DEF t
<1>4. ASSUME NEW u \in Units
      PROVE  LET t == Played(Planned(s, u)) IN
             /\ Sound(t) /\ t.settle = 0 /\ t.failures = 0 /\ (t.finished <=> u \in Terminal)
             /\ ~t.finished => t.left + 1 = StepsOf(u)
  <2> DEFINE t == Planned(s, u)
  <2>1. Gripper(s, u) \in {"open", "closed"}
    BY <1>1 DEF Gripper, EnvState
  <2>2. /\ t \in EnvState /\ t.settle = 0 /\ t.failures = 0 /\ t.plan = u /\ t.left = Steps[u]
        /\ t.finished <=> u \in Terminal
    <3> DEFINE done == u \in Terminal
    <3>1. t = [s EXCEPT !.failures = 0, !.plan = u, !.left = Steps[u], !.gripper = Gripper(s, u),
                        !.finished = done]
      BY DEF Planned, FailuresAfter
    <3>2. done \in BOOLEAN /\ (done <=> u \in Terminal)
      OBVIOUS
    <3> HIDE DEF t, done
    <3>3. /\ t.settle = 0 /\ t.failures = 0 /\ t.plan = u /\ t.left = Steps[u]
          /\ t.finished = done
      BY <1>1, <3>1 DEF EnvState
    <3>4. t \in EnvState
      <4>1. 0 \in 0 .. MaxFailures /\ Steps[u] \in Nat
        BY <1>1, <1>2
      <4> DEFINE grip == Gripper(s, u)
                 steps == Steps[u]
      <4>2. /\ t = [s EXCEPT !.failures = 0, !.plan = u, !.left = steps, !.gripper = grip,
                            !.finished = done]
            /\ steps \in Nat /\ grip \in {"open", "closed"}
        BY <2>1, <3>1, <4>1
      <4> HIDE DEF grip, steps
      <4> QED BY <1>1, <3>2, <4>1, <4>2 DEF EnvState
    <3> QED BY <3>2, <3>3, <3>4
  <2> HIDE DEF t
  <2>3. /\ Sound(Played(t)) /\ Played(t).settle = 0 /\ Played(t).failures = t.failures
        /\ Played(t).finished = t.finished
        /\ ~t.finished => Played(t).left + 1 = Steps[t.plan]
    BY <1>2, <2>2, FirstStepOfPlan
  <2> QED BY <1>2, <2>2, <2>3 DEF t
<1>5. Held(s).failures = s.failures + 1
  BY <1>1 DEF Held, EnvState
<1>6. LET t == Played(Held(s)) IN
        /\ Sound(t) /\ t.settle = 0 /\ t.failures = s.failures + 1 /\ ~t.finished
        /\ t.left + 1 = StepsOf("failed")
  <2> DEFINE t == Held(s)
  <2>1. /\ t \in EnvState /\ t.settle = 0 /\ t.plan = "STILL" /\ t.left = Steps[t.plan]
        /\ t.finished = FALSE /\ t.failures = s.failures + 1
    BY <1>1, <1>2 DEF Held, EnvState
  <2> HIDE DEF t
  <2>2. t.plan \notin Terminal
    BY <2>1 DEF Terminal
  <2>3. /\ Sound(Played(t)) /\ Played(t).settle = 0 /\ Played(t).failures = t.failures
        /\ Played(t).finished = t.finished /\ Played(t).left + 1 = Steps[t.plan]
    BY <2>1, <2>2, FirstStepOfPlan
  <2> QED BY <1>2, <2>1, <2>3 DEF t
<1>7. LET t == [s EXCEPT !.failures = @ + 1] IN
        /\ Sound(t) /\ t.settle = 0 /\ t.failures = s.failures + 1 /\ ~t.finished
  BY <1>1 DEF Sound, EnvState
<1> QED BY <1>3, <1>4, <1>5, <1>6, <1>7

(* A turn of e on which nothing is tried: settling, or a step of the plan. *)
LEMMA GoOnCounts ==
  ASSUME AgentInv, NEW e \in Envs, GoOn(e)
  PROVE  CountInv'
<1> DEFINE s == agent[e]
           t == Played(Settled(s))
<1>1. /\ Sound(s) /\ Counts(e) /\ e \in active /\ e \notin asked /\ asked' = asked \cup {e}
      /\ raised = FALSE /\ raised' = raised /\ tries' = tries /\ active' = active /\ tick' = tick
      /\ agent' = [agent EXCEPT ![e] = t] /\ Balanced(e) /\ active \subseteq Envs
  BY DEF AgentInv, CountInv, GoOn, Turn, loopVars, SettleInv, ClockTypes
<1>2. /\ s.left \in Nat /\ s.settle \in Nat /\ s \in EnvState /\ SettleSteps \in Nat /\ tick \in Nat
  BY <1>1, AgentAssumption DEF Sound, EnvState, AgentInv, SettleInv, ClockTypes
<1>3. s.settle > 0 \/ s.left > 0 \/ s.finished
  BY <1>2 DEF GoOn, Idle
<1>4. /\ Sound(t) /\ t.failures = s.failures /\ t.finished = s.finished
      /\ t.settle > 0 => s.settle > 0
      /\ ~s.finished => t.left + t.settle + 1 = s.left + s.settle
  BY <1>1, <1>3, GoOnState
<1>5. agent'[e] = t /\ \A d \in Envs \ {e} : agent'[d] = agent[d]
  BY <1>1 DEF AgentInv, SettleInv, ClockTypes
<1> HIDE DEF t
<1>6. ASSUME NEW d \in Envs PROVE Sound(agent'[d]) /\ Counts(d)' /\ agent'[d].failures = agent[d].failures
  BY <1>1, <1>4, <1>5 DEF AgentInv, CountInv, Counts
<1>7. ASSUME NEW d \in active PROVE Balanced(d)'
  <2>1. Balanced(d) /\ d \in Envs
    BY <1>1 DEF AgentInv, CountInv
  <2>2. CASE d = e
    <3>1. Turns(e) = tick /\ Turns(e)' = tick + 1
      BY <1>1, <1>2 DEF Turns
    <3>2. PlannedBy(tries[e]) \in Nat /\ t.left \in Nat /\ t.settle \in Nat
      <4>1. tries[e] \in Seq(Tries) /\ "auto" \in Tries
        BY DEF AgentInv, SettleInv, ClockTypes, Tries
      <4> QED BY <1>4, <4>1, PlannedByGrows, AgentAssumption DEF Sound, EnvState
    <3> HIDE DEF s
    <3>3. ~t.finished => tick + 1 = SettleSteps - t.settle + PlannedBy(tries[e]) - t.left
      BY <1>1, <1>2, <1>4, <3>1, <3>2 DEF Balanced, s
    <3> QED BY <1>1, <1>5, <2>2, <3>1, <3>3 DEF Balanced
  <2>3. CASE d # e
    <3>1. Turns(d)' = Turns(d)
      BY <1>1, <2>3 DEF Turns
    <3> QED BY <1>1, <1>5, <2>1, <2>3, <3>1 DEF Balanced
  <2> QED BY <2>2, <2>3
<1> QED BY <1>1, <1>6, <1>7 DEF AgentInv, CountInv

(* A turn of e on which x is tried.                                        *)
LEMMA TryCounts ==
  ASSUME AgentInv, NEW e \in Envs, Turn(e), Idle(e), NEW x \in Tries,
         UNCHANGED <<tick, active>>, tries' = [tries EXCEPT ![e] = Append(@, x)],
         NEW t, agent' = [agent EXCEPT ![e] = t], Sound(t), t.settle = 0,
         t.failures = CASE x = "failed" -> agent[e].failures + 1
                        [] x = "auto" -> agent[e].failures
                        [] OTHER -> 0,
         t.finished <=> x \in Terminal,
         raised' \in BOOLEAN, raised' <=> t.failures >= MaxFailures,
         ~raised' /\ ~t.finished => t.left + 1 = StepsOf(x)
  PROVE  CountInv'
<1> DEFINE s == agent[e]
           u == tries[e]
<1>1. /\ Sound(s) /\ Counts(e) /\ e \in active /\ e \notin asked /\ asked' = asked \cup {e}
      /\ ~raised /\ active' = active /\ tick' = tick /\ Balanced(e) /\ active \subseteq Envs
  BY DEF AgentInv, CountInv, Turn, SettleInv, ClockTypes
<1>2. s.settle = 0 /\ s.left = 0 /\ ~s.finished
  BY DEF Idle
<1>3. /\ agent'[e] = t /\ (\A d \in Envs \ {e} : agent'[d] = agent[d])
      /\ tries'[e] = Append(u, x) /\ \A d \in Envs \ {e} : tries'[d] = tries[d]
  BY DEF AgentInv, SettleInv, ClockTypes
<1>4. u \in Seq(Tries)
  BY DEF AgentInv, SettleInv, ClockTypes, Tries
<1>5. /\ Len(u) \in Nat /\ Len(Append(u, x)) = Len(u) + 1
      /\ DOMAIN u = 1 .. Len(u) /\ DOMAIN Append(u, x) = 1 .. Len(u) + 1
      /\ (\A i \in 1 .. Len(u) : Append(u, x)[i] = u[i]) /\ Append(u, x)[Len(u) + 1] = x
  BY <1>4, OneMoreTry
<1>6. ASSUME NEW d \in Envs PROVE Sound(agent'[d]) /\ Counts(d)'
  <2>1. Sound(agent[d]) /\ Counts(d)
    BY DEF AgentInv, CountInv
  <2>2. CASE d # e
    BY <1>3, <2>1, <2>2 DEF Counts
  <2>3. CASE d = e
    <3>1. agent'[e].failures = Cardinality(InARow(tries'[e]))
      <4>1. s.failures = Cardinality(InARow(u))
        BY <1>1 DEF Counts
      <4>2. Cardinality(InARow(Append(u, x))) =
              CASE x = "failed" -> Cardinality(InARow(u)) + 1
                [] x = "auto"   -> Cardinality(InARow(u))
                [] OTHER        -> 0
        BY <1>4, InARowGrows
      <4> HIDE DEF u
      <4> QED BY <1>3, <4>1, <4>2 DEF s
    <3>2. \A i \in 1 .. Len(u) : u[i] \notin Terminal
      BY <1>1, <1>2, <1>5 DEF Counts
    <3>3. ASSUME NEW i \in DOMAIN tries'[e], tries'[e][i] \in Terminal
          PROVE  i = Len(tries'[e]) /\ agent'[e].finished
      <4>1. i \in 1 .. Len(u) \/ i = Len(u) + 1
        BY <1>3, <1>5
      <4> QED BY <1>3, <1>5, <3>2, <3>3, <4>1
    <3>4. ~(agent'[e].settle > 0)
      BY <1>3
    <3> QED BY <1>3, <2>3, <3>1, <3>3, <3>4 DEF Counts
  <2> QED BY <2>2, <2>3
<1>7. raised' <=> \E d \in Envs : agent'[d].failures >= MaxFailures
  <2>1. \A d \in Envs \ {e} : ~(agent[d].failures >= MaxFailures)
    BY <1>1 DEF AgentInv, CountInv
  <2> QED BY <1>3, <2>1
<1>8. ASSUME ~raised', NEW d \in active PROVE Balanced(d)'
  <2>1. Balanced(d) /\ d \in Envs
    BY <1>1 DEF AgentInv, CountInv
  <2>2. CASE d = e
    <3>1. Turns(e) = tick /\ Turns(e)' = tick + 1 /\ tick \in Nat /\ SettleSteps \in Nat
      BY <1>1, AgentAssumption DEF Turns, AgentInv, SettleInv, ClockTypes
    <3>2. /\ PlannedBy(u) \in Nat /\ PlannedBy(Append(u, x)) = PlannedBy(u) + StepsOf(x)
          /\ StepsOf(x) \in Nat /\ t.left \in Nat
      BY <1>4, PlannedByGrows, StepsOfIsNat DEF Sound, EnvState
    <3>3. tick = SettleSteps - 0 + PlannedBy(u) - 0
      BY <1>1, <1>2, <3>1 DEF Balanced
    <3>4. ~t.finished => tick + 1 = SettleSteps - 0 + PlannedBy(Append(u, x)) - t.left
      <4> HIDE DEF u
      <4> QED BY <1>8, <3>1, <3>2, <3>3
    <3> QED BY <1>3, <2>2, <3>1, <3>4 DEF Balanced
  <2>3. CASE d # e
    <3>1. Turns(d)' = Turns(d)
      BY <1>1, <2>3 DEF Turns
    <3> QED BY <1>3, <2>1, <2>3, <3>1 DEF Balanced
  <2> QED BY <2>2, <2>3
<1> QED BY <1>1, <1>6, <1>7, <1>8 DEF CountInv

LEMMA IdleStates ==
  ASSUME AgentInv, NEW e \in Envs, Turn(e), Idle(e)
  PROVE  LET s == agent[e] IN
         /\ Sound(s) /\ s.settle = 0 /\ s.left = 0 /\ ~s.finished /\ s.failures < MaxFailures
         /\ s.failures \in Nat /\ MaxFailures \in Nat \ {0} /\ raised = FALSE
BY AgentAssumption DEF AgentInv, CountInv, Turn, Idle, Sound, EnvState

LEMMA AutoReleaseCounts ==
  ASSUME AgentInv, NEW e \in Envs, AutoRelease(e)
  PROVE  CountInv'
<1>1. /\ Turn(e) /\ Idle(e) /\ UNCHANGED <<tick, active>> /\ raised' = raised
      /\ agent' = [agent EXCEPT ![e] = Played(Released(agent[e]))]
      /\ tries' = [tries EXCEPT ![e] = Append(@, "auto")]
  BY DEF AutoRelease, loopVars
<1> DEFINE s == agent[e]
           t == Played(Released(s))
<1>2. /\ Sound(s) /\ s.settle = 0 /\ s.left = 0 /\ ~s.finished /\ s.failures < MaxFailures
      /\ s.failures \in Nat /\ MaxFailures \in Nat /\ raised = FALSE
  BY <1>1, IdleStates
<1>3. /\ Sound(t) /\ t.settle = 0 /\ t.failures = s.failures /\ ~t.finished
      /\ t.left + 1 = StepsOf("auto")
  BY <1>2, TriedState
<1>4. "auto" \in Tries /\ "auto" \notin Terminal
  BY DEF Tries, Terminal
<1>5. /\ t.failures = CASE "auto" = "failed" -> s.failures + 1
                        [] "auto" = "auto" -> s.failures [] OTHER -> 0
      /\ ~(t.failures >= MaxFailures)
  BY <1>2, <1>3
<1> HIDE DEF t
<1> QED BY <1>1, <1>2, <1>3, <1>4, <1>5, TryCounts DEF t

LEMMA PlanNextCounts ==
  ASSUME AgentInv, NEW e \in Envs, PlanNext(e)
  PROVE  CountInv'
<1>1. Turn(e) /\ Idle(e) /\ UNCHANGED <<tick, active>>
  BY DEF PlanNext, loopVars
<1>2. \E outcome \in Units \cup {"failed"} : Decided(e, outcome)
  BY DEF PlanNext
<1>3. PICK x \in Units \cup {"failed"} : Decided(e, x)
  BY <1>2
<1> DEFINE s == agent[e]
<1>4. /\ Sound(s) /\ s.settle = 0 /\ s.left = 0 /\ ~s.finished /\ s.failures < MaxFailures
      /\ s.failures \in Nat /\ MaxFailures \in Nat \ {0} /\ raised = FALSE
  BY <1>1, IdleStates
<1>5. x \in Tries /\ x # "auto" /\ tries' = [tries EXCEPT ![e] = Append(@, x)]
  BY <1>3, AgentAssumption DEF Tries, Decided
<1>6. CASE x # "failed"
  <2> DEFINE t == Played(Planned(s, x))
  <2>1. x \in Units /\ raised' = FALSE /\ agent' = [agent EXCEPT ![e] = t]
    BY <1>3, <1>6 DEF Decided
  <2>2. /\ Sound(t) /\ t.settle = 0 /\ t.failures = 0 /\ (t.finished <=> x \in Terminal)
        /\ ~t.finished => t.left + 1 = StepsOf(x)
    BY <1>4, <2>1, TriedState
  <2>3. /\ t.failures = CASE x = "failed" -> s.failures + 1
                          [] x = "auto" -> s.failures [] OTHER -> 0
        /\ ~(t.failures >= MaxFailures)
    BY <1>4, <1>5, <1>6, <2>2
  <2> HIDE DEF t
  <2> QED BY <1>1, <1>5, <2>1, <2>2, <2>3, TryCounts
<1>7. CASE x = "failed" /\ Held(s).failures < MaxFailures
  <2> DEFINE t == Played(Held(s))
  <2>1. raised' = FALSE /\ agent' = [agent EXCEPT ![e] = t]
    BY <1>3, <1>7 DEF Decided
  <2>2. /\ Sound(t) /\ t.settle = 0 /\ t.failures = s.failures + 1 /\ ~t.finished
        /\ t.left + 1 = StepsOf(x) /\ Held(s).failures = s.failures + 1
    BY <1>4, <1>7, TriedState
  <2>3. /\ t.failures = CASE x = "failed" -> s.failures + 1
                          [] x = "auto" -> s.failures [] OTHER -> 0
        /\ ~(t.failures >= MaxFailures) /\ x \notin Terminal
    BY <1>4, <1>7, <2>2 DEF Terminal
  <2> HIDE DEF t
  <2> QED BY <1>1, <1>5, <2>1, <2>2, <2>3, TryCounts
<1>8. CASE x = "failed" /\ ~(Held(s).failures < MaxFailures)
  <2> DEFINE t == [s EXCEPT !.failures = @ + 1]
  <2>1. raised' = TRUE /\ agent' = [agent EXCEPT ![e] = t]
    BY <1>3, <1>8 DEF Decided
  <2>2. /\ Sound(t) /\ t.settle = 0 /\ t.failures = s.failures + 1 /\ ~t.finished
        /\ Held(s).failures = s.failures + 1
    BY <1>4, <1>8, TriedState
  <2>3. /\ t.failures = CASE x = "failed" -> s.failures + 1
                          [] x = "auto" -> s.failures [] OTHER -> 0
        /\ t.failures >= MaxFailures /\ x \notin Terminal
    BY <1>4, <1>8, <2>2 DEF Terminal
  <2> HIDE DEF t
  <2> QED BY <1>1, <1>5, <2>1, <2>2, <2>3, TryCounts
<1> QED BY <1>3, <1>6, <1>7, <1>8

(* A step of the batch ends the turns of all, which have all been taken.   *)
LEMMA StepBatchCounts ==
  ASSUME AgentInv, StepBatch
  PROVE  CountInv'
<1>1. /\ asked = active /\ asked' = {} /\ tick' = tick + 1 /\ tick \in Nat /\ raised' = raised
      /\ agent' = agent /\ tries' = tries /\ active' \subseteq active /\ ~raised
  BY DEF StepBatch, AgentInv, SettleInv, ClockTypes
<1>2. \A d \in active : Turns(d) = tick + 1
  BY <1>1 DEF Turns
<1>3. \A d \in active' : Turns(d)' = tick + 1
  BY <1>1 DEF Turns
<1>4. \A d \in active' : Balanced(d)'
  BY <1>1, <1>2, <1>3 DEF Balanced, AgentInv, CountInv
<1>5. \A d \in Envs : Sound(agent'[d]) /\ Counts(d)'
  BY <1>1 DEF AgentInv, CountInv, Counts
<1> QED BY <1>1, <1>4, <1>5 DEF AgentInv, CountInv

(* The client as begin_episode leaves it, at the start of a run.           *)
Fresh ==
  /\ tick = 0 /\ asked = {} /\ agent = [e \in Envs |-> NewState] /\ active \subseteq Envs
  /\ tries = [e \in Envs |-> <<>>] /\ raised = FALSE

LEMMA FreshCounts == Fresh => CountInv
<1> SUFFICES ASSUME Fresh PROVE CountInv
  OBVIOUS
<1> USE DEF Fresh
<1>1. Sound(NewState) /\ NewState.failures = 0
  BY AgentAssumption DEF Sound, NewState, EnvState, Terminal
<1>2. InARow(<<>>) = {} /\ PlannedBy(<<>>) = 0
  <2>1. <<>> \in Seq(Tries) /\ "auto" \in Tries /\ DOMAIN <<>> = {}
    BY DEF Tries
  <2> QED BY <2>1, PlannedByGrows DEF InARow
<1>3. Cardinality(InARow(<<>>)) = 0
  BY <1>2, FS_EmptySet
<1>4. \A e \in Envs : agent[e] = NewState /\ tries[e] = <<>>
  OBVIOUS
<1>5. \A e \in Envs : Sound(agent[e]) /\ Counts(e)
  BY <1>1, <1>3, <1>4 DEF Counts
<1>6. \A e \in active : Balanced(e)
  <2> TAKE e \in active
  <2>1. Turns(e) = 0 /\ agent[e] = NewState /\ PlannedBy(tries[e]) = 0
    BY <1>2, <1>4 DEF Turns
  <2> QED BY <2>1, AgentAssumption DEF Balanced, NewState
<1>7. ~\E e \in Envs : agent[e].failures >= MaxFailures
  BY <1>1, <1>4, AgentAssumption
<1>8. raised = FALSE
  OBVIOUS
<1> QED BY <1>5, <1>6, <1>7, <1>8 DEF CountInv

LEMMA CountInvariant ==
  /\ Init => AgentInv
  /\ AgentInv /\ [Next]_vars => AgentInv'
<1>1. ASSUME Init PROVE CountInv
  BY <1>1, FreshCounts DEF Init, Fresh
<1>2. ASSUME AgentInv, [Next]_vars PROVE CountInv'
  <2>1. CASE NextRun
    <3>1. Fresh'
      BY <1>2, <2>1 DEF NextRun, AgentInv, CountInv, Fresh
    <3> QED BY <3>1, FreshCounts, PTL
  <2>2. CASE UNCHANGED vars
    BY <1>2, <2>2
       DEF vars, loopVars, AgentInv, CountInv, Counts, Balanced, Turns
  <2> QED BY <1>2, <2>1, <2>2, GoOnCounts, AutoReleaseCounts, PlanNextCounts, StepBatchCounts
          DEF Next
<1> QED BY <1>1, <1>2, SettleInvariant DEF AgentInv

(* In every behaviour the evaluation ends with an exception exactly when   *)
(* one environment has failed MAX_CONSECUTIVE_FAILURES decisions in a row. *)
THEOREM GivingUp == Spec => []GivesUpOnlyInARow
<1>1. AgentInv => GivesUpOnlyInARow
  BY DEF AgentInv, CountInv, Counts, GivesUpOnlyInARow
<1> QED BY <1>1, CountInvariant, PTL DEF Spec

(* In every behaviour each control step settled the scene or belongs to    *)
(* the plan of one try, which is played in full before the next.           *)
THEOREM EveryStepAccounted == Spec => []StepsAccounted
<1>1. ASSUME AgentInv PROVE StepsAccounted
  <2> SUFFICES ASSUME ~raised, NEW e \in active
               PROVE  /\ ~agent[e].finished =>
                           tick + (IF e \in asked THEN 1 ELSE 0) =
                             SettleSteps - agent[e].settle + PlannedBy(tries[e]) - agent[e].left
                      /\ \A i \in DOMAIN tries[e] : tries[e][i] \in Terminal => i = Len(tries[e])
    BY DEF StepsAccounted
  <2>1. Balanced(e) /\ Counts(e)
    BY <1>1 DEF AgentInv, CountInv, SettleInv, ClockTypes
  <2> QED BY <2>1 DEF Balanced, Counts, Turns
<1> QED BY <1>1, CountInvariant, PTL DEF Spec

-------------------------------------------------------------------------------
Backends == [effort : BOOLEAN, dialect : {"unnegotiated"} \cup DialectSet]

RestTypes ==
  /\ srv \in Servers /\ mode \in Modes /\ run \in 1 .. MaxRuns /\ tick \in 0 .. MaxSteps
  /\ \A e \in Envs : clock[e] \in 0 .. tick
  /\ backend \in Backends /\ refused \in BOOLEAN

(* What complete() leaves behind is a state of the transport.              *)
LEMMA NegotiatedType ==
  ASSUME NEW b \in Backends, NEW s \in Servers, NEW choices \in BOOLEAN, NEW names
  PROVE  Negotiated(b, s, choices, names) \in Backends
<1>1. /\ b.effort \in BOOLEAN /\ b.dialect \in {"unnegotiated"} \cup DialectSet
      /\ s.effort \in BOOLEAN /\ s.fields \cup {"none"} \subseteq DialectSet
  BY AgentAssumption DEF Backends, DialectSet
<1>2. Answered(b, s, choices, names) => StopsAt(b, s, choices, names) \in DialectSet
  BY <1>1 DEF Answered, Knows
<1> DEFINE effort == b.effort /\ s.effort
           dialect == IF choices /\ Answered(b, s, choices, names)
                      THEN StopsAt(b, s, choices, names) ELSE b.dialect
<1>3. effort \in BOOLEAN /\ dialect \in {"unnegotiated"} \cup DialectSet
  BY <1>1, <1>2
<1>4. Negotiated(b, s, choices, names) = [effort |-> effort, dialect |-> dialect]
  BY DEF Negotiated
<1> HIDE DEF effort, dialect
<1> QED BY <1>3, <1>4 DEF Backends

LEMMA RestTypesNext ==
  ASSUME RestTypes, AgentInv, [Next]_vars
  PROVE  RestTypes'
<1>1. ASSUME NEW e \in Envs, GoOn(e) \/ AutoRelease(e) PROVE RestTypes'
  BY <1>1 DEF RestTypes, GoOn, AutoRelease, loopVars
<1>2. ASSUME NEW e \in Envs, PlanNext(e) PROVE RestTypes'
  <2>1. UNCHANGED <<srv, mode, run, tick, clock>>
    BY <1>2 DEF PlanNext, loopVars
  <2>2. backend' \in Backends /\ refused' \in BOOLEAN
    <3>1. CASE UNCHANGED <<backend, refused>>
      BY <3>1 DEF RestTypes
    <3>2. ASSUME NEW names \in {"effort", "dialect"},
                 backend' = Negotiated(backend, srv, FALSE, names), UNCHANGED refused
          PROVE  backend' \in Backends /\ refused' \in BOOLEAN
      BY <3>2, NegotiatedType DEF RestTypes
    <3>3. ASSUME NEW names \in {"effort", "dialect"}, NEW learnt, NEW pinned \in BOOLEAN,
                 learnt = Negotiated(backend, srv, FALSE, names),
                 backend' = Negotiated(learnt, srv, pinned, names),
                 refused' = (refused \/ ~Answered(learnt, srv, pinned, names))
          PROVE  backend' \in Backends /\ refused' \in BOOLEAN
      <4>1. learnt \in Backends /\ refused' \in BOOLEAN
        BY <3>3, NegotiatedType DEF RestTypes
      <4> QED BY <3>3, <4>1, NegotiatedType DEF RestTypes
    <3> QED BY <1>2, <3>1, <3>2, <3>3 DEF PlanNext
  <2> QED BY <2>1, <2>2 DEF RestTypes
<1>3. CASE StepBatch
  <2>1. /\ UNCHANGED <<srv, mode, run, backend, refused>> /\ tick' = tick + 1 /\ tick < MaxSteps
        /\ \A e \in Envs : clock'[e] = 0 \/ clock'[e] = clock[e] + 1
    BY <1>3 DEF StepBatch
  <2> QED BY <2>1, AgentAssumption DEF RestTypes
<1>4. CASE NextRun
  <2>1. /\ UNCHANGED <<srv, mode, backend, refused>> /\ tick' = 0 /\ run' = run + 1
        /\ run < MaxRuns /\ \A e \in Envs : clock'[e] = 0
    BY <1>4 DEF NextRun
  <2>2. run' \in 1 .. MaxRuns /\ tick' \in 0 .. MaxSteps /\ \A e \in Envs : clock'[e] \in 0 .. tick'
    BY <2>1, AgentAssumption DEF RestTypes
  <2> QED BY <2>1, <2>2 DEF RestTypes
<1>5. CASE UNCHANGED vars
  BY <1>5 DEF RestTypes, vars, loopVars
<1> QED BY <1>1, <1>2, <1>3, <1>4, <1>5 DEF Next

(* The variables keep their types, and a plan has at most its own steps    *)
(* left: whatever is decided, played and reset.                            *)
THEOREM TypesKept == Spec => []TypeOK
<1>1. ASSUME Init PROVE RestTypes
  <2>1. /\ srv \in Servers /\ mode \in Modes /\ run = 1 /\ tick = 0 /\ backend = NewBackend
        /\ refused = FALSE /\ \A e \in Envs : clock[e] = 0
    BY <1>1 DEF Init
  <2>2. NewBackend \in Backends
    BY DEF NewBackend, Backends
  <2>3. 1 \in 1 .. MaxRuns /\ 0 \in 0 .. MaxSteps /\ 0 \in 0 .. 0
    BY AgentAssumption
  <2> QED BY <2>1, <2>2, <2>3 DEF RestTypes
<1>2. AgentInv /\ RestTypes /\ [Next]_vars => RestTypes'
  BY RestTypesNext
<1>3. ASSUME AgentInv, RestTypes PROVE TypeOK
  <2>1. /\ clock \in [Envs -> Nat] /\ early \in [Envs -> 0 .. MaxEarlyResets]
        /\ active \subseteq Envs /\ asked \subseteq active /\ raised \in BOOLEAN
        /\ agent = [e \in Envs |-> agent[e]] /\ tries \in [Envs -> Seq(Tries)]
        /\ \A e \in Envs : Sound(agent[e])
    BY <1>3 DEF AgentInv, SettleInv, ClockTypes, CountInv, Tries
  <2>2. \A e \in Envs : clock[e] \in 0 .. MaxSteps
    BY <1>3, AgentAssumption DEF RestTypes
  <2>3. clock \in [Envs -> 0 .. MaxSteps]
    BY <2>1, <2>2
  <2>4. agent \in [Envs -> EnvState]
    BY <2>1 DEF Sound
  <2> QED BY <1>3, <2>1, <2>3, <2>4 DEF TypeOK, RestTypes, Backends, Sound
<1> QED BY <1>1, <1>2, <1>3, CountInvariant, PTL DEF Spec
===============================================================================
