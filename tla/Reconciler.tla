------------------------------ MODULE Reconciler ------------------------------
(***************************************************************************)
(* Polls of one repository (ingestion/reconcile.go) and the two forge        *)
(* clients' ListRecentRuns.  A poll reads the saved ETag and the stored run  *)
(* states, lists the forge's page of runs, fetches the jobs of the runs      *)
(* that are not up to date one request at a time, stores run after run, and  *)
(* saves the page's ETag last.  GitHub is polled by one goroutine;           *)
(* a Forgejo repository is polled by it and by every push delivery           *)
(* (ProcessForgejoEvent calls ReconcileRepo), concurrently.                  *)
(***************************************************************************)
EXTENDS GitHubForge, RunStore

CONSTANTS
    Pollers,  \* polls that may be under way at once
    NoETag    \* the empty ETag of a repository never polled to the end

ASSUME PollersAssumption ==
    /\ Pollers \subseteq Writers
    /\ Conditional => \A p, q \in Pollers : p = q
    /\ NoETag \notin Listings

VARIABLES
    etag,  \* repos.reconcile_etag: NoETag, or the page it identifies
    poll   \* each poll's progress and what it has in hand

PollPCs == {"idle", "states", "list", "fetch", "store"}
FetchedJobs == [attempt: 0..MaxAttempts, phases: JobPhases]
NotFetched == [attempt |-> 0, phases |-> NoJobs]

PollState == [pc: PollPCs, etag: Listings \union {NoETag}, known: SUBSET (Runs \X Conclusions),
              listing: Listings, todo: SUBSET Runs, fetched: [Runs -> FetchedJobs]]
IdlePoll == [pc |-> "idle", etag |-> NoETag, known |-> {},
             listing |-> [r \in Runs |-> UnlistedRun], todo |-> {},
             fetched |-> [r \in Runs |-> NotFetched]]

ReconcilerInit ==
    /\ etag = NoETag
    /\ poll = [p \in Pollers |-> IdlePoll]

\* Runs are handled in listing order, the most recent first: the next one.
Newest(S) == {r \in S : \A q \in S : q <= r}

\* RunStates, as far as runIsUpToDate uses it: the runs stored as completed,
\* with their conclusions.
KnownCompleted == {k \in Runs \X Conclusions : /\ runs[k[1]].status = "completed"
                                               /\ runs[k[1]].conclusion = k[2]}

\* A defect: a completed run is never asked for its jobs.
RunIsUpToDate_IgnoresStored(known, r, l) == l.status = "completed"

\* runIsUpToDate: completed on both sides, with the same conclusion.
RunIsUpToDate(known, r, l) ==
    l.status = "completed" /\ <<r, l.conclusion>> \in known

\* The poll after a change to the runs it still has to handle: when the last
\* one's jobs are in hand, storing begins with the whole page.
Fetching(rec, left) ==
    IF left = {} THEN [rec EXCEPT !.pc = "store", !.todo = OnPage(rec.listing)]
                 ELSE [rec EXCEPT !.pc = "fetch", !.todo = left]

\* ListRepos: the repository as stored now, with its ETag.
PollStart(p) ==
    /\ poll[p].pc = "idle"
    /\ poll' = [poll EXCEPT ![p].pc = "states", ![p].etag = etag]
    /\ UNCHANGED <<forgeVars, storeVars, writer, faults, etag>>

PollRunStates(p) ==
    /\ poll[p].pc = "states"
    /\ poll' = [poll EXCEPT ![p].pc = "list", ![p].known = KnownCompleted]
    /\ UNCHANGED <<forgeVars, storeVars, writer, faults, etag>>

PollNotModified(p) ==
    /\ poll[p].pc = "list"
    /\ Conditional
    /\ poll[p].etag = Page(forge)
    /\ poll' = [poll EXCEPT ![p] = IdlePoll]
    /\ UNCHANGED <<forgeVars, storeVars, writer, faults, etag>>

\* A defect: the Forgejo client skips up-to-date runs too.
PollList_AlwaysSkips(p) ==
    LET page    == Page(forge)
        skipped == {r \in OnPage(page) : RunIsUpToDate(poll[p].known, r, page[r])}
        listed  == [IdlePoll EXCEPT !.listing = page]
    IN  /\ poll[p].pc = "list"
        /\ poll' = [poll EXCEPT ![p] = Fetching(listed, OnPage(page) \ skipped)]
        /\ UNCHANGED <<forgeVars, storeVars, writer, faults, etag>>

\* ListRecentRuns, a 200 answer: the page, and which of its runs are skipped.
PollList(p) ==
    LET page    == Page(forge)
        skipped == {r \in OnPage(page) :
                      Conditional /\ RunIsUpToDate(poll[p].known, r, page[r])}
        listed  == [IdlePoll EXCEPT !.listing = page]
    IN  /\ poll[p].pc = "list"
        /\ Conditional => poll[p].etag # page
        /\ poll' = [poll EXCEPT ![p] = Fetching(listed, OnPage(page) \ skipped)]
        /\ UNCHANGED <<forgeVars, storeVars, writer, faults, etag>>

\* A defect: an instance that does not serve jobs fails the poll.
PollFetchJobs_NotFoundFails(p) ==
    /\ poll[p].pc = "fetch"
    /\ \E r \in Newest(poll[p].todo) :
         LET got == [attempt |-> forge[r].attempt, phases |-> fjobs[r]] IN
         poll' = [poll EXCEPT ![p] =
                    IF servesJobs
                    THEN Fetching([poll[p] EXCEPT !.fetched[r] = got], poll[p].todo \ {r})
                    ELSE IdlePoll]
    /\ UNCHANGED <<forgeVars, storeVars, writer, faults, etag>>

\* One request per run, so the jobs may be of a later moment than the listing.
PollFetchJobs(p) ==
    /\ poll[p].pc = "fetch"
    /\ \E r \in Newest(poll[p].todo) :
         LET got == [attempt |-> forge[r].attempt, phases |-> ServedJobs(r)] IN
         poll' = [poll EXCEPT ![p] = Fetching([poll[p] EXCEPT !.fetched[r] = got],
                                              poll[p].todo \ {r})]
    /\ UNCHANGED <<forgeVars, storeVars, writer, faults, etag>>

\* Defects: jobs are matched by name within the listed run and not by job id;
\* a run listed without jobs is stored as a stub.
PollStoreRun_JobsByName(p) ==
    /\ poll[p].pc = "store"
    /\ writer[p].pc = "idle"
    /\ \E r \in Newest(poll[p].todo) :
         writer' = [writer EXCEPT ![p] =
                      WriteRequest(r, RowOf(poll[p].listing[r]),
                                   poll[p].listing[r].attempt, poll[p].fetched[r].phases)]
    /\ UNCHANGED <<forgeVars, storeVars, faults, poll, etag>>
PollStoreRun_StubWithoutJobs(p) ==
    /\ poll[p].pc = "store"
    /\ writer[p].pc = "idle"
    /\ \E r \in Newest(poll[p].todo) :
         LET row == IF poll[p].fetched[r] = NotFetched THEN StubRow
                                                      ELSE RowOf(poll[p].listing[r])
         IN  writer' = [writer EXCEPT ![p] =
                          WriteRequest(r, row, poll[p].fetched[r].attempt,
                                       poll[p].fetched[r].phases)]
    /\ UNCHANGED <<forgeVars, storeVars, faults, poll, etag>>

\* storeRunSnapshot begins for the next run of the page.
PollStoreRun(p) ==
    /\ poll[p].pc = "store"
    /\ writer[p].pc = "idle"
    /\ \E r \in Newest(poll[p].todo) :
         writer' = [writer EXCEPT ![p] =
                      WriteRequest(r, RowOf(poll[p].listing[r]),
                                   poll[p].fetched[r].attempt, poll[p].fetched[r].phases)]
    /\ UNCHANGED <<forgeVars, storeVars, faults, poll, etag>>

PollRunStored(p) ==
    /\ writer[p].pc = "done"
    /\ writer' = [writer EXCEPT ![p] = IdleWriter]
    /\ poll' = [poll EXCEPT ![p].todo = @ \ {writer[p].run},
                            ![p].fetched[writer[p].run] = NotFetched]
    /\ UNCHANGED <<forgeVars, storeVars, faults, etag>>

\* A defect: the ETag saved is that of the page as it is by then.
PollSaveETag_OfCurrentPage(p) ==
    /\ poll[p].pc = "store"
    /\ poll[p].todo = {}
    /\ etag' = Page(forge)
    /\ poll' = [poll EXCEPT ![p] = IdlePoll]
    /\ UNCHANGED <<forgeVars, storeVars, writer, faults>>

\* Every run is stored.  Forgejo's ETag is empty and is not saved.
PollSaveETag(p) ==
    /\ poll[p].pc = "store"
    /\ poll[p].todo = {}
    /\ etag' = IF Conditional THEN poll[p].listing ELSE etag
    /\ poll' = [poll EXCEPT ![p] = IdlePoll]
    /\ UNCHANGED <<forgeVars, storeVars, writer, faults>>

\* A defect: the error is logged and the ETag saved all the same.
PollAborts_SavesETag(p) ==
    /\ writer[p].pc = "failed"
    /\ writer' = [writer EXCEPT ![p] = IdleWriter]
    /\ etag' = poll[p].listing
    /\ poll' = [poll EXCEPT ![p] = IdlePoll]
    /\ UNCHANGED <<forgeVars, storeVars, faults>>

\* storeRunSnapshot returned an error: the rest of the page and the ETag are
\* left for the next poll.
PollAborts(p) ==
    /\ writer[p].pc = "failed"
    /\ writer' = [writer EXCEPT ![p] = IdleWriter]
    /\ poll' = [poll EXCEPT ![p] = IdlePoll]
    /\ UNCHANGED <<forgeVars, storeVars, faults, etag>>

\* A read of the database or a request to the forge fails.
PollFails(p) ==
    /\ poll[p].pc \in {"states", "list", "fetch"}
    /\ faults < MaxFaults
    /\ faults' = faults + 1
    /\ poll' = [poll EXCEPT ![p] = IdlePoll]
    /\ UNCHANGED <<forgeVars, storeVars, writer, etag>>

PollStep(p) ==
    \/ PollStart(p)
    \/ PollRunStates(p)
    \/ PollNotModified(p)
    \/ PollList(p)
    \/ PollFetchJobs(p)
    \/ PollStoreRun(p)
    \/ PollRunStored(p)
    \/ PollSaveETag(p)
    \/ PollAborts(p)
=============================================================================
