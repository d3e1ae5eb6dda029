----------------------------- MODULE MCLifecycle -----------------------------
(* Lifecycle for TLC: three connections, two signals. *)
EXTENDS Lifecycle

Conns == 1..3
=============================================================================
