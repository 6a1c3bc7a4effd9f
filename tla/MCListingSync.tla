---------------------------- MODULE MCListingSync ----------------------------
(* Small instances of ListingSync for TLC. *)
EXTENDS ListingSync
=============================================================================
