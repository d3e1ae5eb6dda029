----------------------------- MODULE MCRateLimit -----------------------------
(* RateLimit for TLC: the symmetry of its addresses, limiters and goroutines. *)
EXTENDS RateLimit, TLC

Symmetry == Permutations(Ip) \cup Permutations(Port) \cup Permutations(Limiter) \cup Permutations(Proc)
=============================================================================
