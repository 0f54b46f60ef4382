----------------------------- MODULE MCAsyncJobs -----------------------------
(* Model checking of AsyncJobs: an id that two jobs take in turn, and the     *)
(* session that owns it left twice.                                          *)
EXTENDS AsyncJobs
=============================================================================
