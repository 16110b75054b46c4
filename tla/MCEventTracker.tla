---------------------------- MODULE MCEventTracker ----------------------------
(* A target t that must be placed, two spares of which one is needed, and a  *)
(* decoy d that could end up in the container.  On a step one group of      *)
(* signals varies and the others are quiet.                                 *)
EXTENDS EventTracker, TLC

MCObjects == {"t", "u", "d"}
MCGroups == {[objs |-> {"t"}, logical |-> "all", k |-> 1],
             [objs |-> {"u", "d"}, logical |-> "choose", k |-> 1]}
Up == [o \in MCObjects |-> 1]

Quiet == [raw |-> FALSE, still |-> TRUE, z |-> Up, inside |-> {}, slow |-> {"d"},
          moving |-> {}, held |-> {}, touched |-> {}]

Succeeding == {[Quiet EXCEPT !.raw = a, !.still = b] : a \in BOOLEAN, b \in BOOLEAN}
Falling == {[Quiet EXCEPT !.z = [o \in MCObjects |-> IF o \in f THEN 0 ELSE 1]] : f \in SUBSET MCObjects}
Placing == {[Quiet EXCEPT !.inside = {"d"}, !.slow = s] : s \in {{}, {"d"}}}
Moving == {[Quiet EXCEPT !.moving = {"t"}, !.held = h, !.touched = h] : h \in {{}, {"t"}}}

MCReadings == Succeeding \cup Falling \cup Placing \cup Moving
===============================================================================
