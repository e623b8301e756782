------------------------------ MODULE MCReload -------------------------------
(* Small instances of Reload for TLC.                                        *)
EXTENDS Reload

CONSTANTS r1, r2, r3

C(a, q, i, w) ==
  [ver |-> 0, accounts |-> a, queue |-> q, ids |-> i, wellFormed |-> w]

\* Two sizes of the account list, an unset queue size, missing ids, and two ways
\* to be rejected.
Mixed == {C(1, 0, FALSE, TRUE), C(2, 1, TRUE, TRUE), C(0, 1, TRUE, TRUE),
          C(1, 1, TRUE, FALSE)}

\* Configurations that differ in the number of accounts only.
Sizes == {C(1, 1, TRUE, TRUE), C(2, 1, TRUE, TRUE)}

=============================================================================
