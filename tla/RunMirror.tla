------------------------------- MODULE RunMirror -------------------------------
(***************************************************************************)
(* What the ingestion of runs promises: the runs table is a mirror of the    *)
(* forge, late but never false.  Attempts end on the forge, once each; the    *)
(* mirror learns of one run at a time, perhaps of an earlier attempt than it  *)
(* showed, and forgets neither a run nor its commit metadata.  Deliveries,    *)
(* polls, writers, failures and restarts do nothing else to it.              *)
(***************************************************************************)
CONSTANTS
    Runs, Attempts, Conclusions,
    Rows,    \* what may be shown of a run
    NoRow    \* nothing is shown of it

VARIABLES
    ended,   \* how each attempt of each run ended, "none" when it has not
    row      \* what is shown of each run

vars == <<ended, row>>

Init ==
    /\ ended = [r \in Runs |-> [a \in Attempts |-> "none"]]
    /\ row = [r \in Runs |-> NoRow]

\* A completed run is shown as one attempt of it ended, with its metadata; another
\* has no conclusion.
Holds(r, shown) ==
    IF shown.status = "completed"
    THEN /\ shown.meta
         /\ shown.started \in Attempts
         /\ shown.conclusion \in Conclusions
         /\ ended[r][shown.started] = shown.conclusion
    ELSE shown.conclusion = "none"

\* An attempt ends.
End(r, a, c) ==
    /\ ended[r][a] = "none"
    /\ ended' = [ended EXCEPT ![r][a] = c]
    /\ UNCHANGED row

\* Something true is stored of a run.
Learn(r) ==
    /\ \E shown \in Rows \ {NoRow} :
         /\ Holds(r, shown)
         /\ row[r].meta => shown.meta
         /\ row' = [row EXCEPT ![r] = shown]
    /\ UNCHANGED ended

Next ==
    \/ \E r \in Runs, a \in Attempts, c \in Conclusions : End(r, a, c)
    \/ \E r \in Runs : Learn(r)

Spec == Init /\ [][Next]_vars
=============================================================================
