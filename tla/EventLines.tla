------------------------------ MODULE EventLines ------------------------------
(***************************************************************************)
(* Which of the lines written for an episode are kept, and what they are   *)
(* called (robolab/core/events/event_lines.py): twins of one tick are      *)
(* dropped as they are written, by the recorder term, and the finished     *)
(* list is folded when it is read (get_events).                            *)
(*                                                                         *)
(* A line is [tick, step, kind, obj, pred]: the tick it was written on,    *)
(* the step it is stamped with, what it says, of which object, and, for a  *)
(* line of the ladder ("success", "failed", "completed"), the predicate    *)
(* that flipped.  A log holds the lines as they come; what is kept of it   *)
(* is a set of its positions: get_events sorts by step, on which no rule   *)
(* depends.                                                                *)
(***************************************************************************)
EXTENDS Integers, Sequences

CONSTANT Codes    \* the <<predicate, verdict>> that StatusCode has a member for

\* _RELEASE_CODES
Partings == {"released", "dropped", "towed"}

Parts(l) == l.kind \in Partings
Detaches(l) == l.kind = "detached"

\* released_objects, of the tick of line i.
PartedWith(log, i) ==
  {log[j].obj : j \in {k \in DOMAIN log : Parts(log[k]) /\ log[k].tick = log[i].tick}}

\* dedupe_tick: rule c of a detached object, rule a of a grab the ladder has lost.
IsTwin(log, i) ==
  /\ log[i].obj \in PartedWith(log, i)
  /\ \/ Detaches(log[i])
     \/ log[i].kind = "failed" /\ log[i].pred = "object_grabbed"

Written(log) == {i \in DOMAIN log : ~IsTwin(log, i)}

\* dedupe_tick and name_for_ladder_line: rules b and d; code is what the machine reported.
NameOf(l, code) ==
  IF l.kind = "completed" THEN "SUBTASK_COMPLETED"
  ELSE IF <<l.pred, l.kind>> \in Codes THEN <<l.pred, l.kind>> ELSE code

-------------------------------------------------------------------------------
\* fold_detach_into_release, of the lines at positions S: rule e.
FoldDetached(log, S, window) ==
  IF window <= 0 THEN S
  ELSE {i \in S :
          ~ /\ Detaches(log[i])
            /\ \E j \in S : /\ Parts(log[j]) /\ log[j].obj = log[i].obj
                            /\ log[j].step \in log[i].step .. log[i].step + window}

\* Where the ladder has credited the grab of line i's object, from line i on.
CreditsAfter(log, S, i) ==
  {log[j].step : j \in {k \in S : /\ log[k].kind = "success" /\ log[k].pred = "object_grabbed"
                                  /\ log[k].obj = log[i].obj /\ log[k].step >= log[i].step}}

\* fold_duplicate_grab_lines: a line "grasped" whose grab the ladder credits before the hand parts.
FoldGrabs(log, S) ==
  {i \in S :
     ~ /\ log[i].kind = "grasped"
       /\ \E c \in CreditsAfter(log, S, i) :
            /\ \A d \in CreditsAfter(log, S, i) : c <= d
            /\ ~\E j \in S : /\ Parts(log[j]) /\ log[j].obj = log[i].obj
                             /\ log[i].step < log[j].step /\ log[j].step < c}

\* get_events
Kept(log, window) == FoldGrabs(log, FoldDetached(log, Written(log), window))
-------------------------------------------------------------------------------
\* What the event tracker and the ladder write.  A parting and a detachment are stamped
\* with the step of their tick; a grasp is written as "gripped" and "carried".
Kinds == Partings \cup {"detached", "gripped", "carried", "attempt", "other",
                        "success", "failed", "completed"}

Lines == [tick : Nat, step : Nat, kind : Kinds, obj : STRING, pred : STRING]

IsLog(log) ==
  /\ log \in Seq(Lines)
  /\ \A i \in DOMAIN log : Parts(log[i]) \/ Detaches(log[i]) => log[i].step = log[i].tick
===============================================================================
