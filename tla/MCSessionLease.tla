--------------------------- MODULE MCSessionLease ---------------------------
(* Model checking of SessionLease. *)
EXTENDS SessionLease, TLC
LeaseSymmetry == Permutations(Procs) \cup Permutations(Handles)
=============================================================================
