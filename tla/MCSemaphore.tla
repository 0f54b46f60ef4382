----------------------------- MODULE MCSemaphore -----------------------------
(* Model checking of Semaphore: unlimited in both ways it can be written, and *)
(* two ceilings below the number of callers.                                  *)
EXTENDS Semaphore
MCLimits == {-1, 0, 1, 2}
=============================================================================
