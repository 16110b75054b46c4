------------------------------ MODULE VlmBackend ------------------------------
(***************************************************************************)
(* What the chat transport of the VLM policy learns about its server       *)
(* (policies/vlm_agent/vlm_backend.py): whether a graded reasoning effort  *)
(* may be sent, and in which spelling a constrained reply may be asked     *)
(* for.  An operator gives the outcome of one complete() against a server  *)
(* that is up; srv says which fields it knows.                             *)
(***************************************************************************)
EXTENDS Naturals, Sequences

\* _CHOICE_DIALECTS; "none" asks for no constraint.
Dialects == <<"structured_outputs", "guided_choice", "none">>
DialectSet == {"structured_outputs", "guided_choice", "none"}

\* _send_reasoning_effort, _choice_dialect
NewBackend == [effort |-> TRUE, dialect |-> "unnegotiated"]

Knows(srv, dialect) == dialect \in srv.fields \cup {"none"}

\* The spellings that complete() will try.
Rungs(b, choices) ==
  IF ~choices THEN <<"none">>
  ELSE IF b.dialect = "unnegotiated" THEN Dialects ELSE <<b.dialect>>

EffortRefused(b, srv) == b.effort /\ ~srv.effort

\* The rung on which complete() stops: one the server knows, or the first when the
\* server complains of the effort.  A server that minds both names one of them.
StopsAt(b, srv, choices, names) ==
  LET rungs == Rungs(b, choices)
      stops == {i \in DOMAIN rungs :
                  Knows(srv, rungs[i]) \/ (EffortRefused(b, srv) /\ names = "effort")}
  IN  rungs[CHOOSE i \in stops : \A j \in stops : i <= j]

\* Without the effort the rung is posted once more, and that may be refused too.
Answered(b, srv, choices, names) == Knows(srv, StopsAt(b, srv, choices, names))

\* Mutant: the effort is left out of this request only.
EffortForgotten(b, srv, choices, names) ==
  [effort |-> b.effort,
   dialect |-> IF choices /\ Answered(b, srv, choices, names)
               THEN StopsAt(b, srv, choices, names) ELSE b.dialect]

\* What complete() leaves behind.
Negotiated(b, srv, choices, names) ==
  [effort |-> b.effort /\ srv.effort,
   dialect |-> IF choices /\ Answered(b, srv, choices, names)
               THEN StopsAt(b, srv, choices, names) ELSE b.dialect]
===============================================================================
