------------------------------- MODULE MCGate -------------------------------
(* A small instance of Gate for TLC.                                          *)
EXTENDS Gate

CONSTANTS c1, c2, c3, c4

=============================================================================
