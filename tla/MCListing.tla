----------------------------- MODULE MCListing -----------------------------
(* The instance of Listing for TLC: ids are numbers, patches are symmetric. *)
EXTENDS Listing, TLC

MCId == 1..3
Symmetry == Permutations(Patcher)
=============================================================================
