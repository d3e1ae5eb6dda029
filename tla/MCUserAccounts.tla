--------------------------- MODULE MCUserAccounts ---------------------------
(* UserAccounts for TLC: the symmetry of its identities. *)
EXTENDS UserAccounts, TLC

Symmetry ==
  Permutations(Id) \cup Permutations(Email) \cup Permutations(Password) \cup Permutations(Proc)
=============================================================================
