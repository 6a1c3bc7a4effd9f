---------------------------- MODULE MCEbayPublish ----------------------------
(* Small instances of EbayPublish for TLC. *)
EXTENDS EbayPublish, TLC

PublishSymmetry == Permutations(Publishers)
=============================================================================
