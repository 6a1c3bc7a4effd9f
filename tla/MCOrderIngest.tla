---------------------------- MODULE MCOrderIngest ----------------------------
(* Small instances of OrderIngest for TLC. *)
EXTENDS OrderIngest, TLC

IngestSymmetry ==
    Permutations(Ingesters) \cup Permutations(Holdings) \cup Permutations(Orders)
=============================================================================
