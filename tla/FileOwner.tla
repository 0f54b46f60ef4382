------------------------------ MODULE FileOwner ------------------------------
(***************************************************************************)
(* What session-lease.ts promises: a session file has at most one owning   *)
(* process at a time, from open to close or to the end of the process.     *)
(***************************************************************************)
CONSTANTS Procs, NoProc

VARIABLE owner

Init == owner = NoProc

Take == owner = NoProc /\ owner' \in Procs

\* The last reference is released, or the owner dies.
Give == owner # NoProc /\ owner' = NoProc

Next == Take \/ Give

Spec == Init /\ [][Next]_owner
=============================================================================
