---------------------------- MODULE MCDaemonRecord -----------------------------
(* The instances TLC checks of DaemonRecord.                                 *)
EXTENDS DaemonRecord

(* A command that is relaunched when it fails, and a detached service.       *)
Supervised == {[det |-> FALSE, policy |-> "on-failure"],
               [det |-> TRUE, policy |-> "always"]}

(* A command that runs once.                                                 *)
Once == {[det |-> FALSE, policy |-> "no"]}
=============================================================================
