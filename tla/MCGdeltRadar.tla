----------------------------- MODULE MCGdeltRadar -----------------------------
(* Small instances of GdeltRadar for TLC. *)
EXTENDS GdeltRadar

CONSTANTS a1, a2

\* Two articles in one minute, one of them again in the next.
MCMatches == [m \in Minutes |-> IF m = 1 THEN {a1, a2} ELSE {a2}]
=============================================================================
