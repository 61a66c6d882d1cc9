-------------------------------- MODULE MCPolls --------------------------------
(***************************************************************************)
(* Polls alone, as where the webhook could not be created or lost every      *)
(* delivery: of a GitHub repository, by the ticker, or of a Forgejo one, by   *)
(* the ticker and by a push delivery at once.                               *)
(***************************************************************************)
CONSTANTS j1, p1, p2, NoETag   \* a job, the polls, and the empty ETag

VARIABLES
    client,  \* which forge the repository is on
    forge, fjobs, outcome, net, servesJobs, runs, jobs, writer, faults,
    received, touched, acked, etag, poll

\* Two runs and a page of one: a run may be pushed off the page before it is stored.
\* One attempt, one job, one failing call.
GitHub == INSTANCE Ingestion WITH
    NumRuns <- 2, PageSize <- 1, MaxAttempts <- 1, Jobs <- {j1}, MaxFaults <- 1,
    Handlers <- {}, MaxDeliveries <- 0,
    Pollers <- {p1}, Writers <- {p1}, Conditional <- TRUE

Forgejo == INSTANCE Ingestion WITH
    NumRuns <- 2, PageSize <- 1, MaxAttempts <- 1, Jobs <- {j1}, MaxFaults <- 1,
    Handlers <- {}, MaxDeliveries <- 0,
    Pollers <- {p1, p2}, Writers <- {p1, p2}, Conditional <- FALSE

vars == <<client, Forgejo!vars>>

Init ==
    \/ client = "GitHub" /\ GitHub!Init
    \/ client = "Forgejo" /\ Forgejo!Init

\* Bound: with two polls at once the forge creates one run.
OneRun == forge'[2] = forge[2]

Next ==
    /\ \/ client = "GitHub" /\ GitHub!Next
       \/ client = "Forgejo" /\ Forgejo!Next /\ OneRun
    /\ UNCHANGED client

WriterStepOf(w) == w \in DOMAIN writer /\ Forgejo!WriterStepOf(w) /\ UNCHANGED client
PollStepOf(p) ==
    /\ p \in DOMAIN poll
    /\ IF client = "GitHub" THEN GitHub!PollStepOf(p) ELSE Forgejo!PollStepOf(p)
    /\ UNCHANGED client

\* Ingestion's Fairness, for the one client or the other.
Fairness == \A p \in {p1, p2} : WF_vars(WriterStepOf(p)) /\ WF_vars(PollStepOf(p))

FairSpec == Init /\ [][Next]_vars /\ Fairness

\* A run that stays on the page of either forge gets a row (see Ingestion).
EveryListedRunRecorded == Forgejo!EveryListedRunRecorded

\* The stored runs of the page become what either forge lists (see Ingestion).
PollsConverge == Forgejo!PollsConverge

\* Forgejo's jobs likewise, once it serves them (see Ingestion).
JobsConverge == client = "Forgejo" => Forgejo!JobsConverge
=============================================================================
