--------------------------- MODULE MCAtomicWriter ---------------------------
(* The instance of AtomicWriter that TLC explores: three targets, so that a
   rename can fail with a committed target behind it and a staged one ahead. *)
EXTENDS AtomicWriter

CONSTANTS private, shared

MCModes == {private, shared}
=============================================================================
