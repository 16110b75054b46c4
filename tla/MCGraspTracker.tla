---------------------------- MODULE MCGraspTracker ----------------------------
(* Two environments: e1 meets every kind of contact; e2 is what an           *)
(* environment can be to its peer, one that commands and one that ends.      *)
EXTENDS GraspTracker

CONSTANTS e1, e2

Apart(cmd, closures) ==
  [contact : {FALSE}, closure : closures, coupled : {FALSE}, aside : {FALSE}, openCmd : {cmd}]

Touching(closure, coupling, sides) ==
  [contact : {TRUE}, closure : {closure}, coupled : coupling, aside : sides, openCmd : {FALSE}]

Peer == Apart(TRUE, {"closed"}) \cup Apart(FALSE, {"open"})

Full ==
  Peer \cup Apart(FALSE, {"closed"}) \cup Touching("closed", BOOLEAN, {FALSE})
    \cup Touching("part", {FALSE}, {FALSE}) \cup Touching("open", {TRUE}, BOOLEAN)

OneRun == <<5>>
TwoRuns == <<5, 1>>

MCReadings(e) == IF e = e1 THEN Full ELSE Peer
===============================================================================
