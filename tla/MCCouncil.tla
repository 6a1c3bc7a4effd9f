------------------------------ MODULE MCCouncil ------------------------------
(* Small instances of Council for TLC. *)
EXTENDS Council

CONSTANTS w1, w2, w3

TeamOfTwo == <<w1, w2>>
TeamOfThree == <<w1, w2, w3>>
=============================================================================
