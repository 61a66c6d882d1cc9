------------------------------- MODULE Ingestion -------------------------------
(***************************************************************************)
(* The ingestion of one repository's workflow runs: the forge, the webhook   *)
(* handlers and the reconciliation polls running concurrently over the same  *)
(* tables, with lost, repeated and reordered deliveries, failing calls and   *)
(* restarts of the server.                                                  *)
(***************************************************************************)
EXTENDS WebhookReceiver, Reconciler

ASSUME ProcessesAssumption == Writers = Handlers \union Pollers /\ Handlers \cap Pollers = {}

vars == <<forgeVars, storeVars, writer, faults, webhookVars, etag, poll>>

Init == ForgeInit /\ StoreInit /\ WebhookInit /\ ReconcilerInit

ForgeStep == ForgeNext /\ UNCHANGED <<storeVars, writer, faults, webhookVars, etag, poll>>
WriterStepOf(w) == WriterStep(w) /\ UNCHANGED <<forgeVars, webhookVars, etag, poll>>
StatementFailsFor(w) == StatementFails(w) /\ UNCHANGED <<forgeVars, webhookVars, etag, poll>>
ReceiveBy(h) == Receive(h) /\ UNCHANGED <<etag, poll>>
AnswerBy(h) == (Accept(h) \/ Reject(h)) /\ UNCHANGED <<etag, poll>>
PollStepOf(p) == PollStep(p) /\ UNCHANGED webhookVars
PollFailsFor(p) == PollFails(p) /\ UNCHANGED webhookVars

\* The server stops between two steps and starts again: what was in memory is
\* gone, what was written stays.
Restart ==
    /\ faults < MaxFaults
    /\ faults' = faults + 1
    /\ writer' = [w \in Writers |-> IdleWriter]
    /\ poll' = [p \in Pollers |-> IdlePoll]
    /\ UNCHANGED <<forgeVars, storeVars, webhookVars, etag>>

Next ==
    \/ ForgeStep
    \/ \E w \in Writers : WriterStepOf(w) \/ StatementFailsFor(w)
    \/ \E h \in Handlers : ReceiveBy(h) \/ AnswerBy(h)
    \/ \E p \in Pollers : PollStepOf(p) \/ PollFailsFor(p)
    \/ Restart

Spec == Init /\ [][Next]_vars

\* The scheduler runs every goroutine, the forge answers every request it is
\* sent (the clients set no response timeout) and the ticker keeps ticking.
\* The forge's own progress, deliveries and faults are not promised.
Fairness ==
    /\ \A w \in Writers : WF_vars(WriterStepOf(w))
    /\ \A h \in Handlers : WF_vars(AnswerBy(h))
    /\ \A p \in Pollers : WF_vars(PollStepOf(p))

FairSpec == Spec /\ Fairness

-----------------------------------------------------------------------------
(* Safety *)

TypeOK ==
    /\ forge \in Listings
    /\ fjobs \in [Runs -> JobPhases]
    /\ outcome \in [Runs -> [Attempts -> OrNone(Conclusions)]]
    /\ net \subseteq Deliveries
    /\ servesJobs \in BOOLEAN
    /\ runs \in [Runs -> RunRow]
    /\ jobs \in [JobKeys -> JobRow]
    /\ writer \in [Writers -> WriterState]
    /\ faults \in 0..MaxFaults
    /\ received \in 0..MaxDeliveries
    /\ touched \subseteq Runs
    /\ acked \subseteq AckKeys
    /\ etag \in Listings \union {NoETag}
    /\ poll \in [Pollers -> PollState]

\* A stored run has a conclusion exactly when it is completed, and then a start
\* and its commit metadata: no mix of a stub and a completed run is ever stored,
\* whichever handlers and polls overwrote the row (UpsertRun overwrites all but
\* the COALESCEd columns).  Durations and pass rates are computed from these.
RowCoherent ==
    \A r \in Runs :
        /\ runs[r].status = "completed" <=> runs[r].conclusion # "none"
        /\ runs[r].status = "completed" => runs[r].started > 0 /\ runs[r].meta

\* A run stored as completed ended that way on the forge, in the attempt whose
\* start the row carries, however late or stale the payload that wrote it.
NoFabricatedCompletion ==
    \A r \in Runs : runs[r].status = "completed" =>
        runs[r].conclusion = outcome[r][runs[r].started]

\* A run stored as successful has no job or step list of that attempt stored as
\* failed, though the run and its jobs arrive by different deliveries and
\* requests and are written by different writers.
RunAndJobsAgree ==
    \A r \in Runs, j \in Jobs : runs[r].conclusion = "success" =>
        LET row == jobs[<<r, runs[r].started, j>>]
        IN  row.phase # "failure" /\ row.steps # "failure"

\* A delivery answered 202 is stored: its run has a row and, for a workflow_job,
\* its job a row and a step list (processGitHubWorkflowJob's three calls).
AckedIsStored ==
    \A k \in acked :
        /\ runs[k[1]] # NoRunRow
        /\ k[3] # "none" => jobs[k].phase # "none" /\ jobs[k].steps # "none"

\* Every run of the page the saved ETag identifies has a row, whatever failed
\* or restarted between listing the page and saving its ETag (SetReconcileETag
\* is ReconcileRepo's last call).
ETagVouches ==
    etag # NoETag => \A r \in OnPage(etag) : runs[r] # NoRunRow

\* When the forge would answer 304 to the saved ETag, the runs of its page that
\* no webhook delivery was about are stored exactly as the forge lists them:
\* answering NotModified loses nothing a poll alone would have stored.
NotModifiedIsSound ==
    etag = Page(forge) =>
        \A r \in OnPage(forge) \ touched : runs[r] = RowOf(forge[r])

\* The runs a poll lists without asking for their jobs (runIsUpToDate).
Skipped(p) ==
    {r \in OnPage(poll[p].listing) :
        /\ poll[p].fetched[r] = NotFetched
        /\ \/ poll[p].pc = "fetch" /\ r \notin poll[p].todo
           \/ poll[p].pc = "store" /\ r \in poll[p].todo}

\* While the forge still has the run as listed, skipping its jobs request is
\* safe: "that call would return data identical to what's already persisted"
\* (ListRunsRequest.KnownRuns).
SkipIsSafe ==
    \A p \in Pollers : \A r \in Skipped(p) : forge[r] = poll[p].listing[r] =>
        \A j \in Jobs : jobs[<<r, forge[r].attempt, j>>]
                          = [phase |-> fjobs[r][j], steps |-> fjobs[r][j]]

-----------------------------------------------------------------------------
(* Action properties *)

\* Commit metadata once stored stays, though a workflow_job stub of the same
\* run carries none and overwrites every other column.
MetadataNeverLost == [][\A r \in Runs : runs[r].meta => runs'[r].meta]_runs

\* A completed run is taken back to in_progress only after a delivery about it
\* or a re-run: polls alone never reopen one, one poll at a time (GitHub's; two
\* concurrent polls of Forgejo may, when the older listing is stored last).
ReopenedOnlyForCause ==
    [][\A r \in Runs :
        runs[r].status = "completed" /\ runs'[r].status # "completed" =>
            r \in touched \/ forge[r].attempt > runs[r].started]_vars

-----------------------------------------------------------------------------
(* The abstract specification Ingestion implements *)

Mirror == INSTANCE RunMirror WITH ended <- outcome, row <- runs,
                                  Rows <- RunRow, NoRow <- NoRunRow

\* Handlers, polls, the store and the forge together implement RunMirror: of all
\* their statements only UpsertRun's second shows on a run, and what it stores is
\* true, also when its payload is of an attempt long over.
MirrorsForge == Mirror!Spec

-----------------------------------------------------------------------------
(* Liveness, under FairSpec *)

\* A run that stays on the forge's page gets a row, whatever deliveries were
\* lost and however calls failed before.
EveryListedRunRecorded ==
    \A r \in Runs :
        r \in OnPage(forge) ~> runs[r] # NoRunRow \/ r \notin OnPage(forge)

\* Once the forge is quiet the stored runs of its page are, for good, what the
\* forge lists (the self-healing ADR 0003 promises, for the runs themselves).
PollsConverge ==
    \A r \in Runs : <>[](r \in OnPage(forge) => runs[r] = RowOf(forge[r]))

\* Forgejo: likewise the jobs and steps of those runs, since every poll asks for
\* every run's jobs (forgejo/client.go, ListRecentRuns), from when the instance
\* serves them: also those of runs first stored without.
JobsConverge ==
    \A r \in Runs, j \in Jobs :
        <>[](servesJobs /\ r \in OnPage(forge) =>
                jobs[<<r, forge[r].attempt, j>>] = [phase |-> fjobs[r][j], steps |-> fjobs[r][j]])

\* A stub of a run that is over is filled in: "a later workflow_run event, or
\* reconciliation, fills in the rest" (webhook.go, processGitHubWorkflowJob).
StubFilledIn ==
    \A r \in Runs :
        /\ runs[r].status = "in_progress" /\ runs[r].started = 0
        /\ forge[r].status = "completed" /\ r \in OnPage(forge)
        ~> runs[r].started > 0
=============================================================================
