---------------------------- MODULE MCAuthService ----------------------------
(* AuthService for TLC: the symmetry of its sets of identities. *)
EXTENDS AuthService, TLC

Identities ==
  Permutations(Proc) \cup Permutations(User) \cup Permutations(Chain) \cup Permutations(Token)
=============================================================================
