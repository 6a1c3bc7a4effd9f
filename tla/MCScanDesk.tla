------------------------------ MODULE MCScanDesk ------------------------------
(* Small instances of ScanDesk for TLC. *)
EXTENDS ScanDesk, TLC

DeskSymmetry ==
    Permutations(Images) \cup Permutations(Batches) \cup Permutations(Requests)
=============================================================================
