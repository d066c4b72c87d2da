--------------------------- MODULE MCModelListing ---------------------------
(* Two listings of two providers; one version of a row of each kind. *)
EXTENDS ModelListing, TLC

CONSTANTS r1, r2, a, b, upstream, sourced, command, invalid

ListingSymmetry == Permutations(Requests) \cup Permutations(Names)
=============================================================================
