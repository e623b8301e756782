------------------------------ MODULE MCAttempt ------------------------------
(* Small instances of Attempt for TLC.                                       *)
EXTENDS Attempt

CONSTANTS x, y, f, s

=============================================================================
