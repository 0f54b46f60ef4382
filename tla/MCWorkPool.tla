------------------------------ MODULE MCWorkPool -------------------------------
(* The instances TLC checks of WorkPool.                                     *)
EXTENDS WorkPool

OneOrTwo == {1, 2}
=============================================================================
