-------------------------- MODULE MCAgentLifecycle --------------------------
(* Model checking of AgentLifecycle. *)
EXTENDS AgentLifecycle, TLC
CallerSymmetry == Permutations(Callers)
=============================================================================
