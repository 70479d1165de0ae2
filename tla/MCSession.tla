------------------------------ MODULE MCSession ------------------------------
(* Two users of one session object and up to two resources per login.  The   *)
(* tasks are the two that login starts; applications may start and stop them *)
(* as well.                                                                  *)
EXTENDS Session, TLC

CONSTANTS u1, u2

MCUsers == {u1, u2}
MCPositions == 1..2
Symmetry == Permutations(MCUsers)
=============================================================================
