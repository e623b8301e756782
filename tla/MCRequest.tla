------------------------------ MODULE MCRequest ------------------------------
(* A small instance of ImageRequest for TLC.                                 *)
EXTENDS ImageRequest

CONSTANTS r1, r2, r3

\* Bounds of the instance, on arrivals, on departures and on what jobs return.  The
\* requests arrive in the order of their names and ask for the same number of
\* images; a refused one is alone; one client goes away at most; a request of one
\* job brings at most one image; and a third request comes only when the first two
\* have one job each and the first client has stayed.  The bounds leave every
\* handler's step enabled, and every job free to end.
In(r)      == stage[r] # "new"
Refused(r) == reply[r].status \in {400, 401}
Bounded ==
  /\ Cardinality(gone) <= 1
  /\ \A r \in Calls : n[r] = 1 => ImagesOf(r) <= 1
  /\ In(r2) => In(r1) /\ n[r1] = n[r2] /\ ~Refused(r1) /\ ~Refused(r2)
  /\ In(r3) => In(r2) /\ n[r2] = n[r3] /\ n[r3] = 1 /\ ~Refused(r3)
               /\ r1 \notin gone \cup late

MCSpec ==
  RequestInit /\ [][RequestNext /\ Bounded']_reqVars
    /\ \A r \in Calls : WF_reqVars(HandlerRuns(r))

=============================================================================
