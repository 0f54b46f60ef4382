---------------------------- MODULE MCReplyWait ----------------------------
(* A root, its subagent and the subagents of that one: one, or two.        *)
EXTENDS ReplyWait, TLC

CONSTANTS P, C, D, E

Chain == P :> None @@ C :> P @@ D :> C
Tree  == Chain @@ E :> C

Siblings == Permutations({D, E})
=============================================================================
