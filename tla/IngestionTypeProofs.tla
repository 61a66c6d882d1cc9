-------------------------- MODULE IngestionTypeProofs --------------------------
(***************************************************************************)
(* Type correctness of Ingestion, for any number of runs, attempts, jobs,    *)
(* webhook handlers and polls, any page size and either forge client.        *)
(***************************************************************************)
EXTENDS Ingestion, TLAPS

Busy(w) == writer[w].pc # "idle"

-----------------------------------------------------------------------------
(* Type correctness *)

\* A delivery names an attempt that exists, so a run without one has no job.
NotStarted ==
    \A r \in Runs : forge[r].attempt = 0 => forge[r] = UnlistedRun /\ fjobs[r] = NoJobs

\* A writer that answers a delivery or a poll was given a run.
WritersHaveRuns == \A w \in Writers : Busy(w) => writer[w].run \in Runs

TypeInv == TypeOK /\ NotStarted /\ WritersHaveRuns

USE DEF Runs, Attempts, Statuses, Conclusions, Phases, OrNone

\* The initial values and the values processes go back to have their types.
LEMMA ConstantsTyped ==
    /\ UnlistedRun \in ListedRun
    /\ NoRunRow \in RunRow
    /\ StubRow \in RunRow
    /\ NoJobs \in JobPhases
    /\ IdleWriter \in WriterState
    /\ IdlePoll \in PollState
BY RunDataAssumption DEF UnlistedRun, ListedRun, NoRunRow, StubRow, RunRow, NoJobs,
   JobPhases, IdleWriter, WriterState, WriterPCs, IdlePoll, PollState, PollPCs,
   NotFetched, FetchedJobs, Listings

\* The empty tables, idle writers and idle polls have their types.
LEMMA TypeInit == Init => TypeInv
<1> SUFFICES ASSUME Init PROVE TypeInv
  OBVIOUS
<1> USE ConstantsTyped, RunDataAssumption, WritersAssumption, HandlersAssumption
    DEF Init, ForgeInit, StoreInit, WebhookInit, ReconcilerInit
<1>1. TypeOK
  BY DEF TypeOK, Listings, JobKeys, NoJobRow, JobRow, Deliveries
<1>2. NotStarted
  BY DEF NotStarted
<1>3. WritersHaveRuns
  BY DEF WritersHaveRuns, Busy, IdleWriter
<1> QED
  BY <1>1, <1>2, <1>3 DEF TypeInv

\* Each module's step, typed: the forge, a writer, a handler, a poll.
LEMMA ForgeTyped == TypeInv /\ ForgeStep => TypeInv'
<1> SUFFICES ASSUME TypeInv, ForgeStep PROVE TypeInv'
  OBVIOUS
<1> DEFINE ForgeOK == /\ forge \in Listings
                      /\ fjobs \in [Runs -> JobPhases]
                      /\ outcome \in [Runs -> [Attempts -> OrNone(Conclusions)]]
                      /\ net \subseteq Deliveries
                      /\ NotStarted
<1>1. ForgeOK /\ ForgeNext
  BY DEF TypeInv, TypeOK, ForgeStep
<1>2. ASSUME NEW r \in Runs, BeginAttempt(r) PROVE ForgeOK'
  <2> DEFINE started == [attempt |-> forge[r].attempt + 1, status |-> "in_progress",
                         conclusion |-> "none"]
  <2>1. started \in ListedRun /\ started.attempt \in Attempts /\ started.attempt # 0
    BY <1>1, <1>2, RunDataAssumption DEF BeginAttempt, Listings, ListedRun
  <2>2. forge' = [forge EXCEPT ![r] = started] /\ UNCHANGED outcome
    BY <1>2 DEF BeginAttempt
  <2>3. fjobs' = [fjobs EXCEPT ![r] = [j \in Jobs |-> "in_progress"]]
    BY <1>2 DEF BeginAttempt
  <2>4. net' = net \union {RunEvent(r, started)}
                   \union {JobEvent(r, started.attempt, j, "in_progress") : j \in Jobs}
    BY <1>2 DEF BeginAttempt
  <2> HIDE DEF started
  <2>5. net' \subseteq Deliveries
    BY <1>1, <2>1, <2>4 DEF Deliveries, RunEvents, JobEvents, RunEvent, JobEvent
  <2>6. forge' \in Listings /\ fjobs' \in [Runs -> JobPhases]
    BY <1>1, <2>1, <2>2, <2>3 DEF Listings, JobPhases
  <2>7. NotStarted'
    BY <1>1, <2>1, <2>2, <2>3 DEF NotStarted, Listings
  <2> QED
    BY <1>1, <2>2, <2>5, <2>6, <2>7
<1>3. ASSUME NEW r \in Runs, NEW j \in Jobs, NEW c \in Conclusions, FinishJob(r, j, c)
      PROVE  ForgeOK'
  <2>1. forge[r].attempt \in Attempts
    BY <1>1, <1>3, RunDataAssumption
       DEF FinishJob, NotStarted, NoJobs, Listings, ListedRun
  <2>2. NotStarted' /\ fjobs' \in [Runs -> JobPhases]
    BY <1>1, <1>3, <2>1 DEF FinishJob, NotStarted, JobPhases
  <2>3. net' \subseteq Deliveries
    BY <1>1, <1>3, <2>1 DEF FinishJob, Deliveries, RunEvents, JobEvents, JobEvent
  <2> QED
    BY <1>1, <1>3, <2>2, <2>3 DEF FinishJob
<1>4. ASSUME NEW r \in Runs, FinishRun(r) PROVE ForgeOK'
  <2> DEFINE c == IF \E j \in Jobs : fjobs[r][j] = "failure" THEN "failure" ELSE "success"
             finished == [attempt |-> forge[r].attempt, status |-> "completed",
                          conclusion |-> c]
  <2>1. finished \in ListedRun /\ c \in Conclusions /\ forge[r].attempt # 0
    BY <1>1, <1>4 DEF FinishRun, Listings, ListedRun, NotStarted, UnlistedRun
  <2>2. /\ forge' = [forge EXCEPT ![r] = finished]
        /\ outcome' = [outcome EXCEPT ![r][forge[r].attempt] = c]
        /\ net' = net \union {RunEvent(r, finished)}
        /\ UNCHANGED fjobs
    BY <1>4 DEF FinishRun
  <2>3. finished.attempt # 0
    BY <2>1
  <2> HIDE DEF c, finished
  <2>4. forge' \in Listings /\ NotStarted'
    BY <1>1, <2>1, <2>2, <2>3 DEF Listings, NotStarted
  <2>5. net' \subseteq Deliveries
    BY <1>1, <2>1, <2>2 DEF Deliveries, RunEvents, RunEvent
  <2> QED
    BY <1>1, <2>1, <2>2, <2>4, <2>5
<1>5. ASSUME Upgrade PROVE ForgeOK'
  BY <1>1, <1>5 DEF Upgrade, NotStarted
<1>6. ForgeOK'
  <2> HIDE DEF ForgeOK
  <2> QED BY <1>1, <1>2, <1>3, <1>4, <1>5 DEF ForgeNext, StartRun, Rerun
<1>7. servesJobs' \in BOOLEAN
  BY DEF TypeInv, TypeOK, ForgeStep, ForgeNext, StartRun, Rerun, BeginAttempt, FinishJob,
     FinishRun, Upgrade
<1> QED
  BY <1>6, <1>7 DEF TypeInv, TypeOK, ForgeStep, storeVars, webhookVars, WritersHaveRuns, Busy

\* A writer takes a step of its own: its state stays one, and about a run.
LEMMA WriterMoves ==
    ASSUME writer \in [Writers -> WriterState], WritersHaveRuns,
           NEW w \in Writers, NEW next \in WriterState,
           next.pc # "idle" => next.run \in Runs,
           writer' = [writer EXCEPT ![w] = next]
    PROVE  writer' \in [Writers -> WriterState] /\ WritersHaveRuns'
BY DEF WritersHaveRuns, Busy

\* A phase or a step list of the payload is written into the job's row.
LEMMA JobsTyped ==
    ASSUME jobs \in [JobKeys -> JobRow], NEW w \in Writers, writer[w].todo \in JobPhases
    PROVE  LET p == writer[w].todo[writer[w].job] IN
           /\ [jobs EXCEPT ![JobKeyOf(w)].phase = p] \in [JobKeys -> JobRow]
           /\ [jobs EXCEPT ![JobKeyOf(w)].steps = p] \in [JobKeys -> JobRow]
<1> DEFINE key == JobKeyOf(w)
           p == writer[w].todo[writer[w].job]
<1>1. ASSUME key \in JobKeys PROVE p \in OrNone(Phases)
  BY <1>1 DEF JobKeyOf, JobKeys, JobPhases
<1> HIDE DEF key, p
<1>2. /\ [jobs EXCEPT ![key].phase = p] \in [JobKeys -> JobRow]
      /\ [jobs EXCEPT ![key].steps = p] \in [JobKeys -> JobRow]
  BY <1>1 DEF JobRow
<1> QED
  BY <1>2 DEF key, p

\* The store's statements (UpsertRun, UpsertJob, ReplaceSteps) keep the types.
LEMMA WriterTyped ==
    ASSUME TypeInv, NEW w \in Writers, WriterStepOf(w) \/ StatementFailsFor(w)
    PROVE  TypeInv'
<1> DEFINE StoreOK == /\ runs \in [Runs -> RunRow]
                      /\ jobs \in [JobKeys -> JobRow]
                      /\ writer \in [Writers -> WriterState]
                      /\ faults \in 0..MaxFaults
                      /\ WritersHaveRuns
           now == writer[w]
           Moves(next) == writer' = [writer EXCEPT ![w] = next]
           AtWork(next) == next \in WriterState /\ next.run \in Runs
<1>1. StoreOK
  BY DEF TypeInv, TypeOK
<1>2. UNCHANGED <<forgeVars, webhookVars, etag, poll>>
  BY DEF WriterStepOf, StatementFailsFor
<1>3. now \in WriterState /\ (now.pc # "idle" => now.run \in Runs)
  BY <1>1 DEF WritersHaveRuns, Busy
<1>4. ASSUME FindRun(w) PROVE StoreOK'
  <2> DEFINE next == [now EXCEPT !.pc = "writeRun", !.found = runs[now.run] # NoRunRow]
  <2>1. AtWork(next) /\ Moves(next)
    BY <1>1, <1>3, <1>4 DEF FindRun, WriterState, WriterPCs
  <2> QED
    BY <1>1, <1>4, <2>1, WriterMoves DEF FindRun
<1>5. ASSUME WriteRun(w) PROVE StoreOK'
  <2> DEFINE next == [now EXCEPT !.pc = NextJob(now.todo), !.found = FALSE]
  <2>1. AtWork(next) /\ Moves(next)
    BY <1>1, <1>3, <1>5 DEF WriteRun, NextJob, WriterState, WriterPCs
  <2>2. now.row \in RunRow /\ UpdatedRun(runs[now.run], now.row) \in RunRow
    BY <1>1, <1>3, <1>5 DEF WriteRun, WriterState, UpdatedRun, RunRow
  <2>3. runs' \in [Runs -> RunRow]
    BY <1>1, <1>5, <2>2 DEF WriteRun
  <2> QED
    BY <1>1, <1>5, <2>1, <2>3, WriterMoves DEF WriteRun
<1>6. ASSUME RunInsertFails(w) \/ JobInsertFails(w) \/ StatementFails(w) PROVE StoreOK'
  <2> DEFINE next == [now EXCEPT !.pc = "failed"]
  <2>1. AtWork(next) /\ Moves(next)
    BY <1>1, <1>3, <1>6
       DEF RunInsertFails, JobInsertFails, StatementFails, Writing, WriterState, WriterPCs
  <2>2. UNCHANGED <<runs, jobs>> /\ faults' \in 0..MaxFaults
    BY <1>1, <1>6, WritersAssumption DEF RunInsertFails, JobInsertFails, StatementFails
  <2> QED
    BY <1>1, <2>1, <2>2, WriterMoves
<1>7. ASSUME FindJob(w) PROVE StoreOK'
  <2>1. PICK j \in JobsLeft(now.todo) :
          Moves([now EXCEPT !.pc = "writeJob", !.job = j,
                            !.found = jobs[<<now.run, now.attempt, j>>] # NoJobRow])
    BY <1>1, <1>7 DEF FindJob, WriterState
  <2> DEFINE next == [now EXCEPT !.pc = "writeJob", !.job = j,
                            !.found = jobs[<<now.run, now.attempt, j>>] # NoJobRow]
  <2>2. AtWork(next)
    BY <1>3, <1>7 DEF FindJob, JobsLeft, WriterState, WriterPCs
  <2> QED
    BY <1>1, <1>7, <2>1, <2>2, WriterMoves DEF FindJob
<1>8. ASSUME WriteJob(w) PROVE StoreOK'
  <2> DEFINE next == [now EXCEPT !.pc = "writeSteps", !.found = FALSE]
  <2>1. AtWork(next) /\ Moves(next)
    BY <1>1, <1>3, <1>8 DEF WriteJob, WriterState, WriterPCs
  <2>2. jobs' \in [JobKeys -> JobRow]
    BY <1>1, <1>3, <1>8, JobsTyped DEF WriteJob, WriterState
  <2> QED
    BY <1>1, <1>8, <2>1, <2>2, WriterMoves DEF WriteJob
<1>9. ASSUME WriteSteps(w) PROVE StoreOK'
  <2> DEFINE left == [now.todo EXCEPT ![now.job] = "none"]
             next == [now EXCEPT !.pc = NextJob(left), !.todo = left]
  <2>1. Moves(next)
    BY <1>1, <1>9 DEF WriteSteps, WriterState
  <2>2. left \in JobPhases
    BY <1>3 DEF WriterState, JobPhases
  <2>3. AtWork(next)
    BY <1>3, <1>9, <2>2 DEF WriteSteps, NextJob, WriterState, WriterPCs
  <2>4. jobs' \in [JobKeys -> JobRow]
    BY <1>1, <1>3, <1>9, JobsTyped DEF WriteSteps, WriterState
  <2> QED
    BY <1>1, <1>9, <2>1, <2>3, <2>4, WriterMoves DEF WriteSteps
<1>10. StoreOK'
  <2> HIDE DEF StoreOK
  <2> QED
    BY <1>4, <1>5, <1>6, <1>7, <1>8, <1>9 DEF WriterStepOf, StatementFailsFor, WriterStep
<1> QED
  BY <1>2, <1>10 DEF TypeInv, TypeOK, NotStarted, forgeVars, webhookVars

\* Receiving and answering a delivery (receive in webhooks.go) keeps the types.
LEMMA HandlerTyped ==
    ASSUME TypeInv, NEW h \in Handlers, ReceiveBy(h) \/ AnswerBy(h)
    PROVE  TypeInv'
<1> DEFINE WebhookOK == /\ writer \in [Writers -> WriterState]
                        /\ WritersHaveRuns
                        /\ received \in 0..MaxDeliveries
                        /\ touched \subseteq Runs
                        /\ acked \subseteq AckKeys
<1>1. WebhookOK /\ h \in Writers
  BY HandlersAssumption DEF TypeInv, TypeOK
<1>2. UNCHANGED <<forgeVars, storeVars, faults, etag, poll>>
  BY DEF ReceiveBy, AnswerBy, Receive, Accept, Reject
<1>3. ASSUME Receive(h) PROVE WebhookOK'
  <2>1. PICK m \in net : /\ writer' = [writer EXCEPT ![h] = RequestOf(m)]
                         /\ touched' = touched \union {m.run}
    BY <1>3 DEF Receive
  <2>2. m.run \in Runs /\ RequestOf(m) \in WriterState /\ RequestOf(m).run = m.run
    BY SMTT(30), RunDataAssumption, ConstantsTyped
       DEF TypeInv, TypeOK, Deliveries, RunEvents, JobEvents, RequestOf, WriteRequest,
           RowOf, WriterState, WriterPCs, ListedRun, RunRow, NoJobs, JobPhases
  <2>3. writer' \in [Writers -> WriterState] /\ WritersHaveRuns'
    BY <1>1, <2>1, <2>2, WriterMoves
  <2>4. received' \in 0..MaxDeliveries
    BY <1>1, <1>3, HandlersAssumption DEF Receive
  <2> QED
    BY <1>1, <1>3, <2>1, <2>2, <2>3, <2>4 DEF Receive
<1>4. ASSUME Accept(h) PROVE WebhookOK'
  <2>1. JobKeyOf(h) \in AckKeys
    BY <1>1, <1>4 DEF Accept, JobKeyOf, AckKeys, WritersHaveRuns, Busy, WriterState
  <2> QED
    BY <1>1, <1>4, <2>1, WriterMoves, ConstantsTyped DEF Accept, IdleWriter
<1>5. ASSUME Reject(h) PROVE WebhookOK'
  BY <1>1, <1>5, WriterMoves, ConstantsTyped DEF Reject, IdleWriter, webhookVars
<1>6. WebhookOK'
  <2> HIDE DEF WebhookOK
  <2> QED
    BY <1>3, <1>4, <1>5 DEF ReceiveBy, AnswerBy
<1> QED
  BY <1>2, <1>6 DEF TypeInv, TypeOK, NotStarted, forgeVars, storeVars

\* A page of a listing is a listing, of runs.
LEMMA PageTyped ==
    ASSUME NEW f \in Listings
    PROVE  Page(f) \in Listings /\ OnPage(f) \subseteq Runs
BY ConstantsTyped DEF Page, OnPage, Listings

\* Fetching keeps a poll a poll when what is left was to be done.
LEMMA FetchingTyped ==
    ASSUME NEW rec \in PollState, NEW left \in SUBSET Runs
    PROVE  Fetching(rec, left) \in PollState
BY PageTyped DEF Fetching, PollState, PollPCs

\* The steps of ReconcileRepo and ListRecentRuns keep the types.
LEMMA PollTyped ==
    ASSUME TypeInv, NEW p \in Pollers, PollStepOf(p) \/ PollFailsFor(p)
    PROVE  TypeInv'
<1> DEFINE PollsOK == /\ writer \in [Writers -> WriterState]
                      /\ WritersHaveRuns
                      /\ faults \in 0..MaxFaults
                      /\ etag \in Listings \union {NoETag}
                      /\ poll \in [Pollers -> PollState]
           now == poll[p]
           Moves(next) == poll' = [poll EXCEPT ![p] = next] /\ next \in PollState
           page == Page(forge)
<1>1. PollsOK /\ p \in Writers /\ now \in PollState /\ page \in Listings
  BY PollersAssumption, PageTyped DEF TypeInv, TypeOK
<1>2. UNCHANGED <<forgeVars, storeVars, webhookVars>>
  BY DEF PollStepOf, PollFailsFor, PollStep, PollFails, PollStart, PollRunStates,
     PollNotModified, PollList, PollFetchJobs, PollStoreRun, PollRunStored,
     PollSaveETag, PollAborts
<1>3. ASSUME PollStart(p) PROVE PollsOK'
  <2>1. Moves([now EXCEPT !.pc = "states", !.etag = etag])
    BY <1>1, <1>3 DEF PollStart, PollState, PollPCs
  <2> QED
    BY <1>1, <1>3, <2>1 DEF PollStart, WritersHaveRuns, Busy
<1>4. ASSUME PollRunStates(p) PROVE PollsOK'
  <2>1. Moves([now EXCEPT !.pc = "list", !.known = KnownCompleted])
    BY <1>1, <1>4 DEF PollRunStates, KnownCompleted, PollState, PollPCs
  <2> QED
    BY <1>1, <1>4, <2>1 DEF PollRunStates, WritersHaveRuns, Busy
<1>5. ASSUME PollNotModified(p) \/ PollFails(p) PROVE PollsOK'
  <2>1. Moves(IdlePoll)
    BY <1>5, ConstantsTyped DEF PollNotModified, PollFails
  <2>2. faults' \in 0..MaxFaults /\ UNCHANGED <<writer, etag>>
    BY <1>1, <1>5, WritersAssumption DEF PollNotModified, PollFails
  <2> QED
    BY <1>1, <2>1, <2>2 DEF WritersHaveRuns, Busy
<1>6. ASSUME PollList(p) PROVE PollsOK'
  <2> DEFINE listed == [IdlePoll EXCEPT !.listing = page]
             left == OnPage(page) \ {r \in OnPage(page) :
                       Conditional /\ RunIsUpToDate(poll[p].known, r, page[r])}
  <2>1. listed \in PollState
    BY <1>1, ConstantsTyped DEF PollState
  <2>2. left \in SUBSET Runs
    BY <1>1, PageTyped
  <2>3. poll' = [poll EXCEPT ![p] = Fetching(listed, left)]
    BY <1>6 DEF PollList
  <2> HIDE DEF listed, left
  <2>4. Fetching(listed, left) \in PollState
    BY <2>1, <2>2, FetchingTyped
  <2> QED
    BY <1>1, <1>6, <2>3, <2>4 DEF PollList, WritersHaveRuns, Busy
<1>7. ASSUME PollFetchJobs(p) PROVE PollsOK'
  <2>1. PICK r \in Newest(now.todo) :
          poll' = [poll EXCEPT ![p] =
                     Fetching([now EXCEPT !.fetched[r] = [attempt |-> forge[r].attempt,
                                                          phases |-> ServedJobs(r)]],
                              now.todo \ {r})]
    BY <1>7 DEF PollFetchJobs
  <2>2. r \in Runs /\ now.todo \ {r} \in SUBSET Runs
    BY <1>1 DEF Newest, PollState
  <2> DEFINE got == [attempt |-> forge[r].attempt, phases |-> ServedJobs(r)]
             next == [now EXCEPT !.fetched[r] = got]
  <2>3. got \in FetchedJobs
    BY <2>2, ConstantsTyped DEF TypeInv, TypeOK, Listings, ListedRun, FetchedJobs, ServedJobs
  <2> HIDE DEF got
  <2>4. next \in PollState
    BY <1>1, <2>2, <2>3 DEF PollState
  <2>5. Fetching(next, now.todo \ {r}) \in PollState
    BY <2>2, <2>4, FetchingTyped
  <2> QED
    BY <1>1, <1>7, <2>1, <2>5 DEF PollFetchJobs, WritersHaveRuns, Busy, got
<1>8. ASSUME PollStoreRun(p) PROVE PollsOK'
  <2>1. PICK r \in Newest(now.todo) :
          writer' = [writer EXCEPT ![p] =
                       WriteRequest(r, RowOf(now.listing[r]), now.fetched[r].attempt,
                                    now.fetched[r].phases)]
    BY <1>8 DEF PollStoreRun
  <2> DEFINE next == WriteRequest(r, RowOf(now.listing[r]), now.fetched[r].attempt,
                                  now.fetched[r].phases)
  <2>2. r \in Runs /\ now.listing[r] \in ListedRun /\ now.fetched[r] \in FetchedJobs
    BY <1>1 DEF Newest, PollState, Listings
  <2>3. RowOf(now.listing[r]) \in RunRow
    BY <2>2 DEF RowOf, ListedRun, RunRow
  <2>4. next \in WriterState /\ next.run \in Runs
    BY <2>2, <2>3, RunDataAssumption DEF WriteRequest, WriterState, WriterPCs, FetchedJobs
  <2> HIDE DEF next
  <2>5. writer' \in [Writers -> WriterState] /\ WritersHaveRuns'
    BY <1>1, <2>1, <2>4, WriterMoves DEF next
  <2> QED
    BY <1>1, <1>8, <2>5 DEF PollStoreRun
<1>9. ASSUME PollRunStored(p) PROVE PollsOK'
  <2> DEFINE next == [now EXCEPT !.todo = @ \ {writer[p].run},
                                 !.fetched[writer[p].run] = NotFetched]
  <2>1. next \in PollState
    <3>1. NotFetched \in FetchedJobs
      BY RunDataAssumption DEF NotFetched, FetchedJobs, NoJobs, JobPhases
    <3>2. [now.fetched EXCEPT ![writer[p].run] = NotFetched] \in [Runs -> FetchedJobs]
      BY <1>1, <3>1 DEF PollState
    <3> QED
      BY <1>1, <3>2 DEF PollState
  <2>2. poll' = [poll EXCEPT ![p] = next]
    BY <1>1, <1>9 DEF PollRunStored
  <2>3. writer' \in [Writers -> WriterState] /\ WritersHaveRuns'
    BY <1>1, <1>9, WriterMoves, ConstantsTyped DEF PollRunStored, IdleWriter
  <2> QED
    BY <1>1, <1>9, <2>1, <2>2, <2>3 DEF PollRunStored
<1>10. ASSUME PollSaveETag(p) PROVE PollsOK'
  <2>1. etag' \in Listings \union {NoETag}
    BY <1>1, <1>10 DEF PollSaveETag, PollState
  <2> QED
    BY <1>1, <1>10, <2>1, ConstantsTyped DEF PollSaveETag, WritersHaveRuns, Busy
<1>11. ASSUME PollAborts(p) PROVE PollsOK'
  BY <1>1, <1>11, WriterMoves, ConstantsTyped DEF PollAborts, IdleWriter
<1>12. PollsOK'
  <2> HIDE DEF PollsOK
  <2> QED
    BY <1>3, <1>4, <1>5, <1>6, <1>7, <1>8, <1>9, <1>10, <1>11
       DEF PollStepOf, PollFailsFor, PollStep
<1> QED
  BY <1>2, <1>12 DEF TypeInv, TypeOK, NotStarted, forgeVars, storeVars, webhookVars

\* A restart leaves idle writers and idle polls.
LEMMA RestartTyped == TypeInv /\ Restart => TypeInv'
<1> SUFFICES ASSUME TypeInv, Restart PROVE TypeInv'
  OBVIOUS
<1>1. /\ writer' \in [Writers -> WriterState] /\ WritersHaveRuns'
      /\ poll' \in [Pollers -> PollState]
  BY ConstantsTyped DEF Restart, WritersHaveRuns, Busy, IdleWriter
<1>2. faults' \in 0..MaxFaults
  BY WritersAssumption DEF TypeInv, TypeOK, Restart
<1> QED
  BY <1>1, <1>2 DEF TypeInv, TypeOK, NotStarted, Restart, forgeVars, storeVars, webhookVars

\* Every step of the ingestion keeps the types.
LEMMA TypeStep == TypeInv /\ [Next]_vars => TypeInv'
<1> SUFFICES ASSUME TypeInv, [Next]_vars PROVE TypeInv'
  OBVIOUS
<1>1. CASE Next
  BY <1>1, ForgeTyped, WriterTyped, HandlerTyped, PollTyped, RestartTyped DEF Next
<1>2. CASE UNCHANGED vars
  BY <1>2 DEF TypeInv, TypeOK, NotStarted, WritersHaveRuns, Busy, vars, forgeVars,
     storeVars, webhookVars
<1> QED
  BY <1>1, <1>2

\* Every variable of the ingestion has its type in every reachable state, and a
\* delivery never names an attempt the forge has not begun.
THEOREM TypeCorrect == Spec => []TypeOK
<1>1. Spec => []TypeInv
  BY TypeInit, TypeStep, PTL DEF Spec
<1>2. TypeInv => TypeOK
  BY DEF TypeInv
<1> QED
  BY <1>1, <1>2, PTL
================================================================================
