------------------------------ MODULE MCRunner ------------------------------
(* Small instances of Runner for TLC.                                        *)
EXTENDS Runner, TLC

CONSTANTS a, b, cred, j1, j2, o1, o2

Acc(n) == [name |-> n, cred |-> cred]

\* One account that stays.
One == {<<Acc(a)>>}

\* Two accounts, one of which a reload may take out.
Shrinking == {<<Acc(a), Acc(b)>>, <<Acc(b)>>}

\* An attempt reports at most twice, so MaxReports is never reached and the count
\* of reports makes no difference.
Live == Listed \cup Leased
RunView == <<clock, store, list, [o \in Live |-> <<snapshot[o], lastUsedAt[o]>>],
             busy, disabled \cap Live, jobs, reloads, run>>

=============================================================================
