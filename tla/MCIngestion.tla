------------------------------ MODULE MCIngestion ------------------------------
(* The instances of Ingestion that TLC checks; each cfg gives the constants. *)
EXTENDS Ingestion, FiniteSets, TLC

CONSTANTS h1, h2, p1, p2   \* the handlers and polls

\* The handlers run the same code; no property of the run that uses this tells
\* them apart, and it checks no liveness property.
HandlerSymmetry == Permutations({h1, h2})

\* Bound: a re-run takes the place of a delivery and of a failure.  Deliveries race
\* and calls fail around one attempt, or one delivery, late or not, meets a re-run.
Reruns == Cardinality({<<r, a>> \in Runs \X Attempts : 1 < a /\ a <= forge[r].attempt})
Within == Reruns + faults <= 1 /\ Reruns + received <= 2

Bounded == Init /\ [][Next /\ Within']_vars
=============================================================================
