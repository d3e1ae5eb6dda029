----------------------------- MODULE MCUnitOfWork -----------------------------
(* UnitOfWork for TLC. *)
EXTENDS UnitOfWork
=============================================================================
