----------------------------- MODULE GitHubForge -----------------------------
(***************************************************************************)
(* The forge, as the code in src/ uses it (external): it creates runs,      *)
(* finishes their jobs and then the run, re-runs a completed run as a new   *)
(* attempt of the same run id with new job ids, and sends a webhook          *)
(* delivery for each of these.  It answers two requests: the page of the    *)
(* most recent runs, and the jobs of a run's latest attempt.  A Forgejo      *)
(* instance may be of a release without the second (404), until an upgrade   *)
(* brings it.                                                               *)
(***************************************************************************)
EXTENDS RunData

CONSTANT
    Conditional  \* TRUE: GitHub, polled with an ETag; FALSE: Forgejo

ASSUME ForgeAssumption == Conditional \in BOOLEAN

VARIABLES
    forge,    \* what the forge would list for each run now
    fjobs,    \* the phases of the jobs of each run's latest attempt
    outcome,  \* history: how each attempt of each run ended
    net,      \* every delivery sent so far; it may be lost (never received),
              \* received again (redelivered) and received in any order
    servesJobs  \* whether it has the endpoint for a run's jobs

forgeVars == <<forge, fjobs, outcome, net, servesJobs>>

RunEvents == [event: {"workflow_run"}, run: Runs, state: ListedRun]
JobEvents == [event: {"workflow_job"}, run: Runs, attempt: Attempts,
              job: Jobs, phase: Phases]
Deliveries == RunEvents \union JobEvents

RunEvent(r, l) == [event |-> "workflow_run", run |-> r, state |-> l]
JobEvent(r, a, j, p) ==
    [event |-> "workflow_job", run |-> r, attempt |-> a, job |-> j, phase |-> p]

\* The page of a listing: the PageSize most recently created runs.
OnPage(f) == {r \in Runs :
                /\ f[r].attempt > 0
                /\ \A q \in Runs : q >= r + PageSize => f[q].attempt = 0}

\* The body of the answer to a poll.  Its ETag identifies the body, so the
\* body stands for it.
Page(f) == [r \in Runs |-> IF r \in OnPage(f) THEN f[r] ELSE UnlistedRun]

\* The jobs a request for them brings: a 404 is "no job detail available", not an
\* error (forgejo/client.go, fetchWorkflowJobs).
ServedJobs(r) == IF servesJobs THEN fjobs[r] ELSE NoJobs

ForgeInit ==
    /\ forge = [r \in Runs |-> UnlistedRun]
    /\ fjobs = [r \in Runs |-> NoJobs]
    /\ outcome = [r \in Runs |-> [a \in Attempts |-> "none"]]
    /\ net = {}
    /\ servesJobs \in BOOLEAN
    /\ Conditional => servesJobs

BeginAttempt(r) ==
    LET started == [attempt |-> forge[r].attempt + 1, status |-> "in_progress",
                    conclusion |-> "none"]
    IN  /\ forge[r].attempt < MaxAttempts
        /\ forge' = [forge EXCEPT ![r] = started]
        /\ fjobs' = [fjobs EXCEPT ![r] = [j \in Jobs |-> "in_progress"]]
        /\ net' = net \union {RunEvent(r, started)}
                      \union {JobEvent(r, started.attempt, j, "in_progress") : j \in Jobs}
        /\ UNCHANGED <<outcome, servesJobs>>

StartRun(r) ==
    /\ forge[r].attempt = 0
    /\ \A q \in Runs : q < r => forge[q].attempt > 0
    /\ BeginAttempt(r)

Rerun(r) ==
    /\ forge[r].status = "completed"
    /\ BeginAttempt(r)

FinishJob(r, j, c) ==
    /\ fjobs[r][j] = "in_progress"
    /\ fjobs' = [fjobs EXCEPT ![r][j] = c]
    /\ net' = net \union {JobEvent(r, forge[r].attempt, j, c)}
    /\ UNCHANGED <<forge, outcome, servesJobs>>

FinishRun(r) ==
    LET c == IF \E j \in Jobs : fjobs[r][j] = "failure" THEN "failure" ELSE "success"
        finished == [attempt |-> forge[r].attempt, status |-> "completed",
                     conclusion |-> c]
    IN  /\ forge[r].status = "in_progress"
        /\ \A j \in Jobs : fjobs[r][j] \in Conclusions
        /\ forge' = [forge EXCEPT ![r] = finished]
        /\ outcome' = [outcome EXCEPT ![r][forge[r].attempt] = c]
        /\ net' = net \union {RunEvent(r, finished)}
        /\ UNCHANGED <<fjobs, servesJobs>>

\* The instance is upgraded to a release with the endpoint.
Upgrade ==
    /\ ~servesJobs
    /\ servesJobs' = TRUE
    /\ UNCHANGED <<forge, fjobs, outcome, net>>

ForgeNext ==
    \/ \E r \in Runs :
         \/ StartRun(r)
         \/ Rerun(r)
         \/ \E j \in Jobs, c \in Conclusions : FinishJob(r, j, c)
         \/ FinishRun(r)
    \/ Upgrade
=============================================================================
