---------------------------- MODULE MCUserListing ----------------------------
(* UserListing for TLC: two stamps, so that rows tie, a default limit below
   the maximum, and a limit above the maximum, which means the default. *)
EXTENDS UserListing

TwoStamps == 1..2
Ids == 1..4
Limits == {1, 3, 4}
=============================================================================
