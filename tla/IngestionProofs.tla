---------------------------- MODULE IngestionProofs ----------------------------
(***************************************************************************)
(* What Ingestion stores, proved for any number of runs, attempts, jobs,     *)
(* webhook handlers and polls, any page size and either forge client.        *)
(* Two inductive invariants on top of the types: TruthInv (every payload,    *)
(* listing and row says what happened on the forge) and WroteInv (what a     *)
(* writer is past is in the tables).                                         *)
(***************************************************************************)
EXTENDS IngestionTypeProofs

USE DEF Runs, Attempts, Statuses, Conclusions, Phases, OrNone

-----------------------------------------------------------------------------
(* What is said of a run, by a payload, a listing or a row, is what happened:  *)
(* the inductive invariant behind RowCoherent, NoFabricatedCompletion and      *)
(* RunAndJobsAgree.  What is said may be late, but the forge never takes back  *)
(* how an attempt ended, so late is not false.                                 *)

\* What has happened on the forge: <<run, attempt, conclusion>> of the attempts
\* that ended, <<run, attempt, job>> of the jobs whose failure stands.
Endings == {e \in Runs \X Attempts \X Conclusions : outcome[e[1]][e[2]] = e[3]}

FailedJobs ==
    {k \in JobKeys :
        \/ outcome[k[1]][k[2]] = "failure"
        \/ /\ outcome[k[1]][k[2]] = "none"
           /\ forge[k[1]].attempt = k[2]
           /\ fjobs[k[1]][k[3]] = "failure"}

\* What a listing or an event, a row, and a set of jobs say is what happened.
TrueRun(endings, r, l) ==
    IF l.status = "completed" THEN <<r, l.attempt, l.conclusion>> \in endings
                              ELSE l.conclusion = "none"

TrueRow(endings, r, row) ==
    IF row.status = "completed" THEN row.meta /\ <<r, row.started, row.conclusion>> \in endings
                                ELSE row.conclusion = "none"

TruePhase(failed, r, a, j, p) == p = "failure" => <<r, a, j>> \in failed

TrueJobs(failed, r, a, js) ==
    \/ js = NoJobs
    \/ a \in Attempts /\ \A j \in Jobs : TruePhase(failed, r, a, j, js[j])

\* The forge ends an attempt once, when all its jobs have ended, and as they did.
ForgeTrue ==
    \A r \in Runs :
        /\ forge[r].attempt > 0 => TrueRun(Endings, r, forge[r])
        /\ forge[r].status = "completed" =>
             \A j \in Jobs : /\ fjobs[r][j] \in Conclusions
                             /\ forge[r].conclusion = "success" => fjobs[r][j] # "failure"
        /\ \A a \in Attempts :
             a > forge[r].attempt \/ (a = forge[r].attempt /\ forge[r].status # "completed")
                 => outcome[r][a] = "none"

NetTrue ==
    \A m \in net :
        IF m.event = "workflow_run"
        THEN TrueRun(Endings, m.run, m.state)
        ELSE TruePhase(FailedJobs, m.run, m.attempt, m.job, m.phase)

RowsTrue == \A r \in Runs : TrueRow(Endings, r, runs[r])

JobRowsTrue ==
    \A r \in Runs, a \in Attempts, j \in Jobs :
        /\ TruePhase(FailedJobs, r, a, j, jobs[<<r, a, j>>].phase)
        /\ TruePhase(FailedJobs, r, a, j, jobs[<<r, a, j>>].steps)

TrueWriter(endings, failed, rec) ==
    rec.pc # "idle" => /\ TrueRow(endings, rec.run, rec.row)
                       /\ TrueJobs(failed, rec.run, rec.attempt, rec.todo)

WritersTrue == \A w \in Writers : TrueWriter(Endings, FailedJobs, writer[w])

TruePoll(endings, failed, rec) ==
    \A r \in Runs : /\ TrueRun(endings, r, rec.listing[r])
                    /\ TrueJobs(failed, r, rec.fetched[r].attempt, rec.fetched[r].phases)

PollsTrue == \A p \in Pollers : TruePoll(Endings, FailedJobs, poll[p])

\* A job is written in its turn, so its key names an attempt and a job.
InTurn ==
    \A w \in Writers : writer[w].pc \in {"writeJob", "writeSteps"} =>
        writer[w].job \in JobsLeft(writer[w].todo)

TruthInv == ForgeTrue /\ NetTrue /\ RowsTrue /\ JobRowsTrue /\ WritersTrue /\ PollsTrue /\ InTurn

\* Membership in the history, in terms of the forge's variables.
LEMMA HistoryDef ==
    /\ \A r \in Runs, a \in Attempts, c \in Conclusions :
         <<r, a, c>> \in Endings <=> outcome[r][a] = c
    /\ \A r \in Runs, a \in Attempts, j \in Jobs :
         <<r, a, j>> \in FailedJobs <=>
            \/ outcome[r][a] = "failure"
            \/ /\ outcome[r][a] = "none"
               /\ forge[r].attempt = a
               /\ fjobs[r][j] = "failure"
BY DEF Endings, FailedJobs, JobKeys

\* Whatever is true of a longer history than the payload was made in.
LEMMA TruthLasts ==
    ASSUME NEW endings, NEW failed, NEW endings2, NEW failed2,
           endings \subseteq endings2, failed \subseteq failed2
    PROVE  /\ \A r, l : TrueRun(endings, r, l) => TrueRun(endings2, r, l)
           /\ \A r, row : TrueRow(endings, r, row) => TrueRow(endings2, r, row)
           /\ \A r, a, j, p : TruePhase(failed, r, a, j, p) => TruePhase(failed2, r, a, j, p)
           /\ \A r, a, js : TrueJobs(failed, r, a, js) => TrueJobs(failed2, r, a, js)
BY DEF TrueRun, TrueRow, TruePhase, TrueJobs

\* An idle writer and an idle poll say nothing that could be false.
LEMMA IdleTrue ==
    ASSUME NEW endings, NEW failed
    PROVE  TrueWriter(endings, failed, IdleWriter) /\ TruePoll(endings, failed, IdlePoll)
BY DEF TrueWriter, TruePoll, IdleWriter, IdlePoll, NotFetched, TrueRun, TrueJobs, UnlistedRun

\* Nothing is said of any run at first.
LEMMA TruthInit == Init => TruthInv
<1> SUFFICES ASSUME Init PROVE TruthInv
  OBVIOUS
<1>1. ForgeTrue /\ NetTrue
  BY RunDataAssumption DEF Init, ForgeInit, ForgeTrue, NetTrue, UnlistedRun
<1>2. RowsTrue /\ JobRowsTrue
  BY DEF Init, StoreInit, RowsTrue, JobRowsTrue, TrueRow, TruePhase, NoRunRow, NoJobRow, JobKeys
<1>3. WritersTrue /\ PollsTrue /\ InTurn
  BY IdleTrue DEF Init, StoreInit, ReconcilerInit, WritersTrue, PollsTrue, InTurn, IdleWriter
<1> QED
  BY <1>1, <1>2, <1>3 DEF TruthInv

\* A step of the forge adds to the history and keeps what it said of it true.
LEMMA ForgeTruth ==
    ASSUME TypeInv, ForgeTrue, NetTrue, ForgeStep
    PROVE  /\ Endings \subseteq Endings' /\ FailedJobs \subseteq FailedJobs'
           /\ ForgeTrue' /\ NetTrue'
<1> DEFINE Grows == Endings \subseteq Endings' /\ FailedJobs \subseteq FailedJobs'
           Events == \A m \in net' \ net :
                        IF m.event = "workflow_run"
                        THEN TrueRun(Endings', m.run, m.state)
                        ELSE TruePhase(FailedJobs', m.run, m.attempt, m.job, m.phase)
<1>1. /\ forge \in Listings /\ fjobs \in [Runs -> JobPhases]
      /\ outcome \in [Runs -> [Attempts -> OrNone(Conclusions)]]
      /\ ForgeNext
  BY DEF TypeInv, TypeOK, ForgeStep
<1>2. ASSUME NEW r \in Runs, BeginAttempt(r), forge[r].attempt = 0 \/ forge[r].status = "completed"
      PROVE  Grows /\ ForgeTrue' /\ Events
  <2>1. forge[r].attempt \in 0..MaxAttempts /\ fjobs' \in [Runs -> JobPhases]
    BY <1>1, <1>2 DEF BeginAttempt, Listings, ListedRun, JobPhases
  <2>2. Grows
    <3>1. Endings \subseteq Endings'
      BY <1>2 DEF BeginAttempt, Endings
    <3>2. ASSUME NEW q \in Runs, NEW a \in Attempts, NEW j \in Jobs, <<q, a, j>> \in FailedJobs
          PROVE  <<q, a, j>> \in FailedJobs'
      <4>1. CASE q = r /\ outcome[q][a] = "none"
        <5>1. forge[r].attempt = a /\ a > 0
          BY <3>2, <4>1, HistoryDef, RunDataAssumption
        <5>2. <<r, a, forge[r].conclusion>> \in Endings
          BY <1>2, <5>1 DEF ForgeTrue, TrueRun
        <5> QED
          BY <4>1, <5>2 DEF Endings
      <4>2. CASE q # r \/ outcome[q][a] # "none"
        BY <1>1, <1>2, <3>2, <4>2, HistoryDef DEF BeginAttempt, FailedJobs, JobKeys
      <4> QED
        BY <4>1, <4>2
    <3> QED
      BY <3>1, <3>2 DEF FailedJobs, JobKeys
  <2>3. ForgeTrue'
    <3> DEFINE started == [attempt |-> forge[r].attempt + 1, status |-> "in_progress",
                           conclusion |-> "none"]
    <3>1. /\ forge' = [forge EXCEPT ![r] = started] /\ UNCHANGED outcome
          /\ fjobs' = [fjobs EXCEPT ![r] = [j \in Jobs |-> "in_progress"]]
      BY <1>2 DEF BeginAttempt
    <3>2. /\ started.attempt = forge[r].attempt + 1
          /\ started.status = "in_progress" /\ started.conclusion = "none"
      OBVIOUS
    <3> HIDE DEF started
    <3>3. ASSUME NEW q \in Runs PROVE forge'[q].attempt > 0 => TrueRun(Endings', q, forge'[q])
      BY <1>1, <2>2, <3>1, <3>2 DEF ForgeTrue, TrueRun
    <3>4. ASSUME NEW q \in Runs, forge'[q].status = "completed", NEW j \in Jobs
          PROVE  /\ fjobs'[q][j] \in Conclusions
                 /\ forge'[q].conclusion = "success" => fjobs'[q][j] # "failure"
      BY <1>1, <3>1, <3>2, <3>4 DEF ForgeTrue, Listings
    <3>5. ASSUME NEW q \in Runs, NEW b \in Attempts,
                 b > forge'[q].attempt \/ (b = forge'[q].attempt /\ forge'[q].status # "completed")
          PROVE  outcome'[q][b] = "none"
      <4>1. forge[q].attempt \in Nat /\ b \in Nat
        BY <1>1 DEF Listings, ListedRun
      <4> QED
        BY <1>1, <2>1, <3>1, <3>2, <3>5, <4>1 DEF ForgeTrue
    <3> QED
      BY <3>3, <3>4, <3>5 DEF ForgeTrue
  <2>4. Events
    BY <1>2 DEF BeginAttempt, RunEvent, JobEvent, TrueRun, TruePhase
  <2> QED
    BY <2>2, <2>3, <2>4
<1>3. ASSUME NEW r \in Runs, NEW j \in Jobs, NEW c \in Conclusions, FinishJob(r, j, c)
      PROVE  Grows /\ ForgeTrue' /\ Events
  <2>1. Grows
    BY <1>1, <1>3 DEF FinishJob, Endings, FailedJobs, JobKeys, JobPhases
  <2>2. forge[r].status # "completed"
    BY <1>3 DEF ForgeTrue, FinishJob
  <2>3. ForgeTrue'
    BY <1>1, <1>3, <2>1, <2>2 DEF ForgeTrue, FinishJob, TrueRun
  <2>4. forge[r].attempt \in Attempts
    BY <1>1, <1>3, RunDataAssumption DEF FinishJob, TypeInv, NotStarted, NoJobs, Listings, ListedRun
  <2>5. c = "failure" => <<r, forge[r].attempt, j>> \in FailedJobs'
    BY <1>1, <1>3, <2>2, <2>4 DEF FinishJob, FailedJobs, JobKeys, ForgeTrue, JobPhases
  <2>6. Events
    BY <1>3, <2>5 DEF FinishJob, JobEvent, TruePhase
  <2> QED
    BY <2>1, <2>3, <2>6
<1>4. ASSUME NEW r \in Runs, FinishRun(r) PROVE Grows /\ ForgeTrue' /\ Events
  <2> DEFINE c == IF \E j \in Jobs : fjobs[r][j] = "failure" THEN "failure" ELSE "success"
             a == forge[r].attempt
             finished == [attempt |-> a, status |-> "completed", conclusion |-> c]
  <2>1. a \in Attempts /\ outcome[r][a] = "none"
    BY <1>1, <1>4, RunDataAssumption
       DEF FinishRun, TypeInv, NotStarted, UnlistedRun, Listings, ListedRun, ForgeTrue
  <2>2. /\ forge' = [forge EXCEPT ![r] = finished]
        /\ outcome' = [outcome EXCEPT ![r][a] = c]
        /\ net' = net \union {RunEvent(r, finished)}
        /\ UNCHANGED fjobs
        /\ \A j \in Jobs : fjobs[r][j] \in Conclusions
    BY <1>4 DEF FinishRun
  <2>3. /\ c \in Conclusions
        /\ \A j \in Jobs : fjobs[r][j] = "failure" => c = "failure"
        /\ finished.attempt = a /\ finished.status = "completed" /\ finished.conclusion = c
    OBVIOUS
  <2> HIDE DEF c, a, finished
  <2>4. Grows
    BY <1>1, <2>1, <2>2, <2>3 DEF Endings, FailedJobs, JobKeys, a
  <2>5. <<r, a, c>> \in Endings'
    BY <1>1, <2>1, <2>2, <2>3 DEF Endings
  <2>6. ForgeTrue'
    <3>1. ASSUME NEW q \in Runs PROVE forge'[q].attempt > 0 => TrueRun(Endings', q, forge'[q])
      BY <1>1, <2>2, <2>3, <2>4, <2>5 DEF ForgeTrue, TrueRun
    <3>2. ASSUME NEW q \in Runs, forge'[q].status = "completed", NEW j \in Jobs
          PROVE  /\ fjobs'[q][j] \in Conclusions
                 /\ forge'[q].conclusion = "success" => fjobs'[q][j] # "failure"
      BY <1>1, <2>2, <2>3, <3>2 DEF ForgeTrue
    <3>3. ASSUME NEW q \in Runs, NEW b \in Attempts,
                 b > forge'[q].attempt \/ (b = forge'[q].attempt /\ forge'[q].status # "completed")
          PROVE  outcome'[q][b] = "none"
      BY <1>1, <2>1, <2>2, <2>3, <3>3 DEF ForgeTrue, Listings, a
    <3> QED
      BY <3>1, <3>2, <3>3 DEF ForgeTrue
  <2>7. Events
    BY <2>2, <2>3, <2>5 DEF RunEvent, TrueRun
  <2> QED
    BY <2>4, <2>6, <2>7
<1>5. ASSUME Upgrade PROVE Grows /\ ForgeTrue' /\ Events
  <2>1. UNCHANGED <<forge, fjobs, outcome, net>>
    BY <1>5 DEF Upgrade
  <2>2. Endings' = Endings /\ FailedJobs' = FailedJobs
    BY <2>1 DEF Endings, FailedJobs
  <2>3. ForgeTrue'
    BY <1>1, <2>1, <2>2 DEF ForgeTrue, TrueRun
  <2> QED
    BY <2>1, <2>2, <2>3
<1>6. Grows /\ ForgeTrue' /\ Events
  <2> HIDE DEF Grows, Events
  <2> QED
    BY <1>1, <1>2, <1>3, <1>4, <1>5 DEF ForgeNext, StartRun, Rerun
<1>7. NetTrue'
  <2> SUFFICES ASSUME NEW m \in net'
               PROVE  IF m.event = "workflow_run"
                      THEN TrueRun(Endings', m.run, m.state)
                      ELSE TruePhase(FailedJobs', m.run, m.attempt, m.job, m.phase)
    BY DEF NetTrue
  <2>1. CASE m \in net
    BY <1>6, <2>1 DEF NetTrue, TrueRun, TruePhase
  <2>2. CASE m \notin net
    BY <1>6, <2>2
  <2> QED
    BY <2>1, <2>2
<1> QED
  BY <1>6, <1>7

\* Steps that are not the forge's leave the history as it is.
LEMMA HistoryKept ==
    ASSUME UNCHANGED forgeVars, ForgeTrue, NetTrue
    PROVE  Endings' = Endings /\ FailedJobs' = FailedJobs /\ ForgeTrue' /\ NetTrue'
<1>1. Endings' = Endings /\ FailedJobs' = FailedJobs
  BY DEF forgeVars, Endings, FailedJobs
<1> QED
  BY <1>1 DEF forgeVars, ForgeTrue, NetTrue

\* UpsertRun's UPDATE of any row by a true one leaves a true one.
LEMMA UpdatedTrue ==
    ASSUME NEW endings, NEW r, NEW old \in RunRow, NEW row \in RunRow, TrueRow(endings, r, row)
    PROVE  TrueRow(endings, r, UpdatedRun(old, row))
BY DEF UpdatedRun, TrueRow, RunRow

\* The store's statements write what the payload says, so what is true.
LEMMA WriterTruth ==
    ASSUME TypeInv, TruthInv, NEW w \in Writers, WriterStepOf(w) \/ StatementFailsFor(w)
    PROVE  TruthInv'
<1> DEFINE now == writer[w]
           TrueStore == RowsTrue /\ JobRowsTrue /\ WritersTrue /\ InTurn
           Moves(next) ==
               /\ writer' = [writer EXCEPT ![w] = next]
               /\ TrueWriter(Endings, FailedJobs, next)
               /\ next.pc \in {"writeJob", "writeSteps"} => next.job \in JobsLeft(next.todo)
<1>1. /\ runs \in [Runs -> RunRow] /\ jobs \in [JobKeys -> JobRow]
      /\ writer \in [Writers -> WriterState] /\ now \in WriterState
      /\ now.pc # "idle" => now.run \in Runs
  BY DEF TypeInv, TypeOK, WritersHaveRuns, Busy
<1>2. TrueStore /\ TrueWriter(Endings, FailedJobs, now)
  BY DEF TruthInv, WritersTrue
<1>3. now.pc \in {"writeJob", "writeSteps"} =>
        /\ now.job \in JobsLeft(now.todo) /\ now.job \in Jobs /\ now.attempt \in Attempts
        /\ JobKeyOf(w) \in JobKeys
        /\ TruePhase(FailedJobs, now.run, now.attempt, now.job, now.todo[now.job])
  BY <1>1, <1>2 DEF InTurn, JobsLeft, TrueWriter, TrueJobs, NoJobs, JobKeyOf, JobKeys
<1>4. /\ UNCHANGED <<etag, poll>> /\ ForgeTrue' /\ NetTrue'
      /\ Endings' = Endings /\ FailedJobs' = FailedJobs
  BY HistoryKept DEF TruthInv, WriterStepOf, StatementFailsFor
<1>5. ASSUME NEW next, Moves(next) PROVE WritersTrue' /\ InTurn'
  <2>1. \A v \in Writers : writer'[v] = IF v = w THEN next ELSE writer[v]
    BY <1>1, <1>5
  <2> HIDE DEF Moves
  <2>2. WritersTrue'
    BY <1>2, <1>4, <1>5, <2>1 DEF WritersTrue, Moves
  <2>3. InTurn'
    BY <1>2, <1>5, <2>1 DEF InTurn, Moves
  <2> QED
    BY <2>2, <2>3
<1>6. ASSUME UNCHANGED runs PROVE RowsTrue'
  BY <1>2, <1>4, <1>6 DEF RowsTrue
<1>7. ASSUME UNCHANGED jobs PROVE JobRowsTrue'
  BY <1>2, <1>4, <1>7 DEF JobRowsTrue
<1>8. ASSUME FindRun(w) PROVE TrueStore'
  <2>1. Moves([now EXCEPT !.pc = "writeRun", !.found = runs[now.run] # NoRunRow])
    BY <1>1, <1>2, <1>8 DEF FindRun, TrueWriter, WriterState
  <2> QED
    BY <1>5, <1>6, <1>7, <1>8, <2>1 DEF FindRun
<1>9. ASSUME WriteRun(w) PROVE TrueStore'
  <2>1. Moves([now EXCEPT !.pc = NextJob(now.todo), !.found = FALSE])
    BY <1>1, <1>2, <1>9 DEF WriteRun, TrueWriter, NextJob, WriterState
  <2>2. TrueRow(Endings, now.run, now.row) /\ now.row \in RunRow /\ now.run \in Runs
    BY <1>1, <1>2, <1>9 DEF WriteRun, TrueWriter, WriterState
  <2>3. TrueRow(Endings, now.run, runs'[now.run])
    BY <1>1, <1>9, <2>2, UpdatedTrue DEF WriteRun
  <2>4. \A r \in Runs : r # now.run => runs'[r] = runs[r]
    BY <1>1, <1>9 DEF WriteRun
  <2>5. RowsTrue'
    BY <1>2, <1>4, <2>3, <2>4 DEF RowsTrue
  <2> QED
    BY <1>5, <1>7, <1>9, <2>1, <2>5 DEF WriteRun
<1>10. ASSUME RunInsertFails(w) \/ JobInsertFails(w) \/ StatementFails(w) PROVE TrueStore'
  <2>1. Moves([now EXCEPT !.pc = "failed"])
    BY <1>1, <1>2, <1>10
       DEF RunInsertFails, JobInsertFails, StatementFails, Writing, TrueWriter, WriterState
  <2>2. UNCHANGED <<runs, jobs>>
    BY <1>10 DEF RunInsertFails, JobInsertFails, StatementFails
  <2> QED
    BY <1>5, <1>6, <1>7, <2>1, <2>2
<1>11. ASSUME FindJob(w) PROVE TrueStore'
  <2> DEFINE next(j) == [now EXCEPT !.pc = "writeJob", !.job = j,
                                    !.found = jobs[<<now.run, now.attempt, j>>] # NoJobRow]
  <2>1. PICK j \in JobsLeft(now.todo) : writer' = [writer EXCEPT ![w] = next(j)]
    BY <1>1, <1>11 DEF FindJob, WriterState
  <2>2. Moves(next(j))
    BY <1>1, <1>2, <1>11, <2>1 DEF FindJob, TrueWriter, WriterState
  <2> QED
    BY <1>5, <1>6, <1>7, <1>11, <2>2 DEF FindJob
<1>12. ASSUME WriteJob(w) PROVE TrueStore'
  <2>1. Moves([now EXCEPT !.pc = "writeSteps", !.found = FALSE])
    BY <1>1, <1>2, <1>3, <1>12 DEF WriteJob, TrueWriter, WriterState
  <2>2. jobs' = [jobs EXCEPT ![JobKeyOf(w)].phase = now.todo[now.job]] /\ now.pc = "writeJob"
    BY <1>12 DEF WriteJob
  <2>3. JobRowsTrue'
    <3> SUFFICES ASSUME NEW r \in Runs, NEW a \in Attempts, NEW j \in Jobs
                 PROVE  /\ TruePhase(FailedJobs, r, a, j, jobs'[<<r, a, j>>].phase)
                        /\ TruePhase(FailedJobs, r, a, j, jobs'[<<r, a, j>>].steps)
      BY <1>4 DEF JobRowsTrue
    <3>1. /\ <<r, a, j>> \in JobKeys
          /\ TruePhase(FailedJobs, r, a, j, jobs[<<r, a, j>>].phase)
          /\ TruePhase(FailedJobs, r, a, j, jobs[<<r, a, j>>].steps)
      BY <1>2 DEF JobRowsTrue, JobKeys
    <3>2. CASE <<r, a, j>> # JobKeyOf(w)
      <4>1. jobs'[<<r, a, j>>] = jobs[<<r, a, j>>]
        BY <1>1, <2>2, <3>1, <3>2
      <4> QED
        BY <3>1, <4>1
    <3>3. CASE <<r, a, j>> = JobKeyOf(w)
      <4>1. r = now.run /\ a = now.attempt /\ j = now.job
        BY <3>3 DEF JobKeyOf
      <4>2. TruePhase(FailedJobs, r, a, j, now.todo[now.job])
        BY <1>3, <2>2, <4>1
      <4>3. jobs[<<r, a, j>>] \in JobRow
        BY <1>1, <3>1
      <4>4. /\ jobs'[<<r, a, j>>].phase = now.todo[now.job]
            /\ jobs'[<<r, a, j>>].steps = jobs[<<r, a, j>>].steps
        BY <1>1, <2>2, <3>1, <3>3, <4>3 DEF JobRow
      <4> QED
        BY <3>1, <4>2, <4>4
    <3> QED
      BY <3>2, <3>3
  <2> QED
    BY <1>5, <1>6, <1>12, <2>1, <2>3 DEF WriteJob
<1>13. ASSUME WriteSteps(w) PROVE TrueStore'
  <2> DEFINE left == [now.todo EXCEPT ![now.job] = "none"]
             next == [now EXCEPT !.pc = NextJob(left), !.todo = left]
  <2>1. writer' = [writer EXCEPT ![w] = next]
    BY <1>1, <1>13 DEF WriteSteps, WriterState
  <2>2. TrueJobs(FailedJobs, now.run, now.attempt, left)
    BY <1>1, <1>2, <1>3, <1>13
       DEF WriteSteps, TrueWriter, TrueJobs, TruePhase, WriterState, JobPhases, NoJobs, JobsLeft
  <2>3. Moves(next)
    BY <1>1, <1>2, <1>13, <2>1, <2>2 DEF WriteSteps, TrueWriter, NextJob, WriterState
  <2>4. jobs' = [jobs EXCEPT ![JobKeyOf(w)].steps = now.todo[now.job]] /\ now.pc = "writeSteps"
    BY <1>13 DEF WriteSteps
  <2>5. JobRowsTrue'
    <3> SUFFICES ASSUME NEW r \in Runs, NEW a \in Attempts, NEW j \in Jobs
                 PROVE  /\ TruePhase(FailedJobs, r, a, j, jobs'[<<r, a, j>>].phase)
                        /\ TruePhase(FailedJobs, r, a, j, jobs'[<<r, a, j>>].steps)
      BY <1>4 DEF JobRowsTrue
    <3>1. /\ <<r, a, j>> \in JobKeys
          /\ TruePhase(FailedJobs, r, a, j, jobs[<<r, a, j>>].phase)
          /\ TruePhase(FailedJobs, r, a, j, jobs[<<r, a, j>>].steps)
      BY <1>2 DEF JobRowsTrue, JobKeys
    <3>2. CASE <<r, a, j>> # JobKeyOf(w)
      <4>1. jobs'[<<r, a, j>>] = jobs[<<r, a, j>>]
        BY <1>1, <2>4, <3>1, <3>2
      <4> QED
        BY <3>1, <4>1
    <3>3. CASE <<r, a, j>> = JobKeyOf(w)
      <4>1. r = now.run /\ a = now.attempt /\ j = now.job
        BY <3>3 DEF JobKeyOf
      <4>2. TruePhase(FailedJobs, r, a, j, now.todo[now.job])
        BY <1>3, <2>4, <4>1
      <4>3. jobs[<<r, a, j>>] \in JobRow
        BY <1>1, <3>1
      <4>4. /\ jobs'[<<r, a, j>>].steps = now.todo[now.job]
            /\ jobs'[<<r, a, j>>].phase = jobs[<<r, a, j>>].phase
        BY <1>1, <2>4, <3>1, <3>3, <4>3 DEF JobRow
      <4> QED
        BY <3>1, <4>2, <4>4
    <3> QED
      BY <3>2, <3>3
  <2> QED
    BY <1>5, <1>6, <1>13, <2>3, <2>5 DEF WriteSteps
<1>14. TrueStore'
  <2> HIDE DEF TrueStore
  <2> QED
    BY <1>8, <1>9, <1>10, <1>11, <1>12, <1>13 DEF WriterStepOf, StatementFailsFor, WriterStep
<1>15. PollsTrue'
  BY <1>4 DEF TruthInv, PollsTrue
<1> QED
  BY <1>4, <1>14, <1>15 DEF TruthInv

\* A delivery, however late, asks the store to write what happened.
LEMMA HandlerTruth ==
    ASSUME TypeInv, TruthInv, NEW h \in Handlers, ReceiveBy(h) \/ AnswerBy(h)
    PROVE  TruthInv'
<1> DEFINE Moves(next) ==
               /\ writer' = [writer EXCEPT ![h] = next]
               /\ TrueWriter(Endings, FailedJobs, next)
               /\ next.pc \notin {"writeJob", "writeSteps"}
<1>1. h \in Writers /\ writer \in [Writers -> WriterState]
  BY HandlersAssumption DEF TypeInv, TypeOK
<1>2. /\ UNCHANGED <<runs, jobs, poll>> /\ ForgeTrue' /\ NetTrue'
      /\ Endings' = Endings /\ FailedJobs' = FailedJobs
  BY HistoryKept DEF TruthInv, ReceiveBy, AnswerBy, Receive, Accept, Reject, storeVars
<1>3. \E next : Moves(next)
  <2>1. CASE Receive(h)
    <3>1. PICK m \in net : writer' = [writer EXCEPT ![h] = RequestOf(m)]
      BY <2>1 DEF Receive
    <3>2. CASE m.event = "workflow_run"
      <4>1. TrueRun(Endings, m.run, m.state)
        BY <3>2 DEF TruthInv, NetTrue
      <4>2. TrueWriter(Endings, FailedJobs, RequestOf(m)) /\ RequestOf(m).pc = "findRun"
        BY <3>2, <4>1
           DEF RequestOf, WriteRequest, RowOf, TrueWriter, TrueRun, TrueRow, TrueJobs
      <4> QED
        BY <3>1, <4>2
    <3>3. CASE m.event # "workflow_run"
      <4>1. m \in JobEvents /\ TruePhase(FailedJobs, m.run, m.attempt, m.job, m.phase)
        BY <3>3 DEF TruthInv, NetTrue, TypeInv, TypeOK, Deliveries, RunEvents
      <4>2. TrueJobs(FailedJobs, m.run, m.attempt, [NoJobs EXCEPT ![m.job] = m.phase])
        BY <4>1 DEF JobEvents, TrueJobs, TruePhase, NoJobs
      <4>3. TrueWriter(Endings, FailedJobs, RequestOf(m)) /\ RequestOf(m).pc = "findRun"
        BY <3>3, <4>2 DEF RequestOf, WriteRequest, StubRow, TrueWriter, TrueRow
      <4> QED
        BY <3>1, <4>3
    <3> QED
      BY <3>2, <3>3
  <2>2. CASE Accept(h) \/ Reject(h)
    BY <2>2, IdleTrue DEF Accept, Reject, IdleWriter
  <2> QED
    BY <2>1, <2>2 DEF ReceiveBy, AnswerBy
<1>4. WritersTrue' /\ InTurn'
  <2>1. PICK next : Moves(next)
    BY <1>3
  <2>2. \A v \in Writers : writer'[v] = IF v = h THEN next ELSE writer[v]
    BY <1>1, <2>1
  <2> QED
    BY <1>2, <2>1, <2>2 DEF TruthInv, WritersTrue, InTurn
<1>5. RowsTrue' /\ JobRowsTrue' /\ PollsTrue'
  BY <1>2 DEF TruthInv, RowsTrue, JobRowsTrue, PollsTrue
<1> QED
  BY <1>2, <1>4, <1>5 DEF TruthInv

\* Going on with a poll does not change what it has in hand.
LEMMA FetchingKeeps ==
    ASSUME NEW rec \in PollState, NEW left
    PROVE  /\ Fetching(rec, left).listing = rec.listing
           /\ Fetching(rec, left).fetched = rec.fetched
BY DEF Fetching, PollState

\* A poll has in hand what the forge said, and asks the store to write that.
LEMMA PollTruth ==
    ASSUME TypeInv, TruthInv, NEW p \in Pollers, PollStepOf(p) \/ PollFailsFor(p)
    PROVE  TruthInv'
<1> DEFINE now == poll[p]
           Tells(next) == TruePoll(Endings, FailedJobs, next)
           Polled == \E next : poll' = [poll EXCEPT ![p] = next] /\ Tells(next)
           Asked == \/ writer' = writer
                    \/ \E next : /\ writer' = [writer EXCEPT ![p] = next]
                                 /\ TrueWriter(Endings, FailedJobs, next)
                                 /\ next.pc \notin {"writeJob", "writeSteps"}
<1>1. /\ p \in Writers /\ writer \in [Writers -> WriterState]
      /\ poll \in [Pollers -> PollState] /\ now \in PollState /\ Tells(now)
      /\ forge \in Listings
  BY PollersAssumption DEF TypeInv, TypeOK, TruthInv, PollsTrue
<1>2. /\ UNCHANGED <<runs, jobs>> /\ ForgeTrue' /\ NetTrue'
      /\ Endings' = Endings /\ FailedJobs' = FailedJobs
  BY HistoryKept
     DEF TruthInv, PollStepOf, PollFailsFor, PollStep, PollFails, PollStart, PollRunStates,
         PollNotModified, PollList, PollFetchJobs, PollStoreRun, PollRunStored,
         PollSaveETag, PollAborts, storeVars
<1>3. ASSUME PollStart(p) \/ PollRunStates(p) PROVE Polled /\ Asked
  <2>1. PICK next : /\ poll' = [poll EXCEPT ![p] = next]
                    /\ next.listing = now.listing /\ next.fetched = now.fetched
    <3>1. CASE PollStart(p)
      <4> DEFINE next == [now EXCEPT !.pc = "states", !.etag = etag]
      <4>1. /\ poll' = [poll EXCEPT ![p] = next]
            /\ next.listing = now.listing /\ next.fetched = now.fetched
        BY <1>1, <3>1 DEF PollStart, PollState
      <4> QED
        BY <4>1
    <3>2. CASE PollRunStates(p)
      <4> DEFINE next == [now EXCEPT !.pc = "list", !.known = KnownCompleted]
      <4>1. /\ poll' = [poll EXCEPT ![p] = next]
            /\ next.listing = now.listing /\ next.fetched = now.fetched
        BY <1>1, <3>2 DEF PollRunStates, PollState
      <4> QED
        BY <4>1
    <3> QED
      BY <1>3, <3>1, <3>2
  <2>2. Tells(next)
    BY <1>1, <2>1 DEF TruePoll
  <2> QED
    BY <1>3, <2>1, <2>2 DEF PollStart, PollRunStates
<1>4. ASSUME PollNotModified(p) \/ PollFails(p) \/ PollSaveETag(p) \/ PollAborts(p)
      PROVE  Polled /\ Asked
  BY <1>4, IdleTrue DEF PollNotModified, PollFails, PollSaveETag, PollAborts, IdleWriter
<1>5. ASSUME PollList(p) PROVE Polled /\ Asked
  <2> DEFINE page == Page(forge)
             listed == [IdlePoll EXCEPT !.listing = page]
  <2>1. PICK left : poll' = [poll EXCEPT ![p] = Fetching(listed, left)]
    BY <1>5 DEF PollList
  <2>2. listed \in PollState /\ listed.listing = page /\ listed.fetched = IdlePoll.fetched
    BY <1>1, ConstantsTyped, PageTyped DEF PollState
  <2>3. \A r \in Runs : TrueRun(Endings, r, page[r])
    BY <1>1 DEF TruthInv, ForgeTrue, Page, OnPage, UnlistedRun, TrueRun
  <2> HIDE DEF listed, page
  <2>4. Tells(Fetching(listed, left))
    BY <2>2, <2>3, FetchingKeeps, IdleTrue DEF TruePoll
  <2> QED
    BY <1>5, <2>1, <2>4 DEF PollList
<1>6. ASSUME PollFetchJobs(p) PROVE Polled /\ Asked
  <2> DEFINE got(r) == [attempt |-> forge[r].attempt, phases |-> ServedJobs(r)]
             next(r) == [now EXCEPT !.fetched[r] = got(r)]
  <2>1. PICK r \in Newest(now.todo) :
          poll' = [poll EXCEPT ![p] = Fetching(next(r), now.todo \ {r})]
    BY <1>6 DEF PollFetchJobs
  <2>2. r \in Runs
    BY <1>1, <2>1 DEF Newest, PollState
  <2>3. /\ fjobs[r] \in JobPhases
        /\ forge[r].attempt = 0 => fjobs[r] = NoJobs
        /\ forge[r].attempt # 0 => forge[r].attempt \in Attempts
    BY <1>1, <2>2, RunDataAssumption DEF TypeInv, TypeOK, NotStarted, Listings, ListedRun
  <2>4. TrueJobs(FailedJobs, r, forge[r].attempt, fjobs[r])
    <3>1. CASE forge[r].attempt = 0
      BY <2>3, <3>1 DEF TrueJobs
    <3>2. CASE forge[r].attempt # 0
      <4> DEFINE a == forge[r].attempt
      <4>1. a \in Attempts /\ outcome[r][a] \in OrNone(Conclusions)
        BY <2>2, <2>3, <3>2 DEF TypeInv, TypeOK
      <4>2. ASSUME NEW j \in Jobs, fjobs[r][j] = "failure", outcome[r][a] = "success"
            PROVE  FALSE
        <5>1. forge[r].status = "completed"
          BY <2>2, <4>1, <4>2 DEF TruthInv, ForgeTrue
        <5>2. <<r, a, forge[r].conclusion>> \in Endings
          BY <1>1, <2>2, <3>2, <5>1 DEF TruthInv, ForgeTrue, TrueRun, Listings, ListedRun
        <5>3. forge[r].conclusion = "success"
          BY <4>2, <5>2 DEF Endings
        <5> QED
          BY <2>2, <4>2, <5>1, <5>3 DEF TruthInv, ForgeTrue
      <4>3. ASSUME NEW j \in Jobs, fjobs[r][j] = "failure" PROVE <<r, a, j>> \in FailedJobs
        BY <2>2, <4>1, <4>2, <4>3, HistoryDef
      <4> QED
        BY <4>1, <4>3 DEF TrueJobs, TruePhase
    <3> QED
      BY <3>1, <3>2
  <2>5. got(r) \in FetchedJobs
    BY <1>1, <2>2, <2>3, ConstantsTyped DEF FetchedJobs, Listings, ListedRun, ServedJobs
  <2>6. /\ got(r).attempt = forge[r].attempt
        /\ TrueJobs(FailedJobs, r, forge[r].attempt, got(r).phases)
    BY <2>4 DEF ServedJobs, NoJobs, TrueJobs, TruePhase
  <2> HIDE DEF got
  <2>7. /\ next(r) \in PollState /\ next(r).listing = now.listing
        /\ next(r).fetched = [now.fetched EXCEPT ![r] = got(r)]
    BY <1>1, <2>2, <2>5 DEF PollState
  <2> HIDE DEF next
  <2>8. Tells(next(r))
    BY <1>1, <2>2, <2>4, <2>6, <2>7 DEF TruePoll, PollState
  <2>9. Tells(Fetching(next(r), now.todo \ {r}))
    BY <2>7, <2>8, FetchingKeeps DEF TruePoll
  <2> QED
    BY <1>6, <2>1, <2>9 DEF PollFetchJobs
<1>7. ASSUME PollStoreRun(p) PROVE writer' # writer => Asked
  <2> DEFINE next(r) == WriteRequest(r, RowOf(now.listing[r]), now.fetched[r].attempt,
                                     now.fetched[r].phases)
  <2>1. PICK r \in Newest(now.todo) : writer' = [writer EXCEPT ![p] = next(r)]
    BY <1>7 DEF PollStoreRun
  <2>2. r \in Runs
    BY <1>1 DEF Newest, PollState
  <2>3. TrueWriter(Endings, FailedJobs, next(r)) /\ next(r).pc = "findRun"
    BY <1>1, <2>2 DEF TruePoll, TrueRun, WriteRequest, RowOf, TrueWriter, TrueRow
  <2> QED
    BY <2>1, <2>3
<1>8. ASSUME PollRunStored(p) PROVE Polled /\ Asked
  <2> DEFINE next == [now EXCEPT !.todo = @ \ {writer[p].run},
                                 !.fetched[writer[p].run] = NotFetched]
  <2>1. poll' = [poll EXCEPT ![p] = next]
    BY <1>1, <1>8 DEF PollRunStored, PollState
  <2>2. Tells(next)
    BY <1>1 DEF TruePoll, PollState, NotFetched, TrueJobs
  <2>3. writer' = [writer EXCEPT ![p] = IdleWriter] /\ IdleWriter.pc = "idle"
    BY <1>8 DEF PollRunStored, IdleWriter
  <2>4. Asked
    BY <2>3, IdleTrue
  <2> HIDE DEF next
  <2> QED
    BY <2>1, <2>2, <2>4
<1>9. (poll' = poll \/ Polled) /\ Asked
  <2> HIDE DEF Polled, Asked
  <2>1. PollStoreRun(p) => poll' = poll /\ Asked
    BY <1>7 DEF PollStoreRun, Asked
  <2> QED
    BY <1>3, <1>4, <1>5, <1>6, <1>8, <2>1 DEF PollStepOf, PollFailsFor, PollStep
<1>10. PollsTrue'
  BY <1>1, <1>2, <1>9 DEF TruthInv, PollsTrue
<1>11. WritersTrue' /\ InTurn'
  BY <1>1, <1>2, <1>9 DEF TruthInv, WritersTrue, InTurn
<1>12. RowsTrue' /\ JobRowsTrue'
  BY <1>2 DEF TruthInv, RowsTrue, JobRowsTrue
<1> QED
  BY <1>2, <1>10, <1>11, <1>12 DEF TruthInv

\* Every step of the ingestion keeps what is said of the runs true.
LEMMA TruthStep == TypeInv /\ TruthInv /\ [Next]_vars => TruthInv'
<1> SUFFICES ASSUME TypeInv, TruthInv, [Next]_vars PROVE TruthInv'
  OBVIOUS
<1>1. CASE ForgeStep
  <2>1. UNCHANGED <<runs, jobs, writer, poll>>
    BY <1>1 DEF ForgeStep, storeVars
  <2>2. /\ Endings \subseteq Endings' /\ FailedJobs \subseteq FailedJobs'
        /\ ForgeTrue' /\ NetTrue'
    BY <1>1, ForgeTruth DEF TruthInv
  <2>3. RowsTrue' /\ JobRowsTrue'
    BY <2>1, <2>2, TruthLasts DEF TruthInv, RowsTrue, JobRowsTrue
  <2>4. WritersTrue' /\ InTurn'
    BY <2>1, <2>2, TruthLasts DEF TruthInv, WritersTrue, TrueWriter, InTurn
  <2>5. PollsTrue'
    BY <2>1, <2>2, TruthLasts DEF TruthInv, PollsTrue, TruePoll
  <2> QED
    BY <2>2, <2>3, <2>4, <2>5 DEF TruthInv
<1>2. CASE Restart
  <2>1. /\ UNCHANGED <<runs, jobs>> /\ ForgeTrue' /\ NetTrue'
        /\ Endings' = Endings /\ FailedJobs' = FailedJobs
    BY <1>2, HistoryKept DEF TruthInv, Restart, storeVars
  <2>2. WritersTrue' /\ InTurn' /\ PollsTrue'
    BY <1>2, <2>1, IdleTrue DEF Restart, WritersTrue, InTurn, PollsTrue, IdleWriter
  <2> QED
    BY <2>1, <2>2 DEF TruthInv, RowsTrue, JobRowsTrue
<1>3. CASE UNCHANGED vars
  <2>1. /\ UNCHANGED <<runs, jobs, writer, poll>> /\ ForgeTrue' /\ NetTrue'
        /\ Endings' = Endings /\ FailedJobs' = FailedJobs
    BY <1>3, HistoryKept DEF TruthInv, vars, storeVars
  <2> QED
    BY <2>1 DEF TruthInv, RowsTrue, JobRowsTrue, WritersTrue, InTurn, PollsTrue
<1> QED
  BY <1>1, <1>2, <1>3, WriterTruth, HandlerTruth, PollTruth DEF Next

\* Types and truth together are an invariant of the ingestion.
LEMMA TruthAlways == Spec => [](TypeInv /\ TruthInv)
BY TypeInit, TypeStep, TruthInit, TruthStep, PTL DEF Spec

\* No interleaving of handlers and polls stores a mix of a stub and a completed
\* run (UpsertRun's overwrite).
THEOREM RowsCoherent == Spec => []RowCoherent
<1>1. TypeInv /\ TruthInv => RowCoherent
  <2> SUFFICES ASSUME TypeInv, TruthInv, NEW r \in Runs
               PROVE  /\ runs[r].status = "completed" <=> runs[r].conclusion # "none"
                      /\ runs[r].status = "completed" => runs[r].started > 0 /\ runs[r].meta
    BY DEF RowCoherent
  <2>1. TrueRow(Endings, r, runs[r])
    BY DEF TruthInv, RowsTrue
  <2> QED
    BY <2>1, RunDataAssumption DEF TrueRow, Endings
<1> QED
  BY <1>1, TruthAlways, PTL

\* A stored completion is one the forge reported for the attempt the row names.
THEOREM CompletionsHappened == Spec => []NoFabricatedCompletion
<1>1. TypeInv /\ TruthInv => NoFabricatedCompletion
  BY DEF TruthInv, RowsTrue, TrueRow, Endings, NoFabricatedCompletion
<1> QED
  BY <1>1, TruthAlways, PTL

\* A run stored as successful has no job stored as failed, whichever writers
\* stored them and in whatever order.
THEOREM RunsAndJobsAgree == Spec => []RunAndJobsAgree
<1>1. TypeInv /\ TruthInv => RunAndJobsAgree
  <2> SUFFICES ASSUME TypeInv, TruthInv, NEW r \in Runs, NEW j \in Jobs,
                      runs[r].conclusion = "success"
               PROVE  LET row == jobs[<<r, runs[r].started, j>>]
                      IN  row.phase # "failure" /\ row.steps # "failure"
    BY DEF RunAndJobsAgree
  <2>1. <<r, runs[r].started, "success">> \in Endings
    BY DEF TruthInv, RowsTrue, TrueRow
  <2>2. runs[r].started \in Attempts /\ outcome[r][runs[r].started] = "success"
    BY <2>1 DEF Endings
  <2>3. <<r, runs[r].started, j>> \notin FailedJobs
    BY <2>2, HistoryDef
  <2> QED
    BY <2>2, <2>3 DEF TruthInv, JobRowsTrue, TruePhase
<1> QED
  BY <1>1, TruthAlways, PTL

-----------------------------------------------------------------------------
(* What a writer has written is in the tables, and no row is ever removed: the *)
(* inductive invariant behind AckedIsStored and ETagVouches.                   *)

RunsStored == {r \in Runs : runs[r] # NoRunRow}
JobsStored == {k \in JobKeys : jobs[k].phase # "none"}
StepsStored == {k \in JobKeys : jobs[k].steps # "none"}

\* What a writer in the middle of its calls has written.
Wrote(rs, js, ss, rec) ==
    LET key == <<rec.run, rec.attempt, rec.job>> IN
    /\ rec.pc # "idle" => rec.row # NoRunRow
    /\ rec.pc \in {"findRun", "writeRun"} => rec.job = "none"
    /\ rec.pc \in {"findJob", "writeJob", "writeSteps", "done"} => rec.run \in rs
    /\ rec.pc = "writeSteps" => key \in js
    /\ rec.pc \in {"findJob", "done"} /\ rec.job # "none" => key \in js \intersect ss

WritersWrote == \A w \in Writers : Wrote(RunsStored, JobsStored, StepsStored, writer[w])

\* The runs of the page a poll is done with have been stored.
PollWrote(rs, rec) == rec.pc = "store" => OnPage(rec.listing) \ rec.todo \subseteq rs

PollsWrote == \A p \in Pollers : PollWrote(RunsStored, poll[p])

AckedWrote ==
    \A k \in acked : /\ k[1] \in RunsStored
                     /\ k[3] # "none" => k \in JobsStored \intersect StepsStored

WroteInv == WritersWrote /\ PollsWrote /\ AckedWrote /\ ETagVouches

\* An idle writer and an idle poll owe nothing to the tables.
LEMMA IdleWrote ==
    ASSUME NEW rs, NEW js, NEW ss
    PROVE  Wrote(rs, js, ss, IdleWriter) /\ PollWrote(rs, IdlePoll)
BY DEF Wrote, PollWrote, IdleWriter, IdlePoll

\* Nothing is acknowledged or vouched for at first.
LEMMA WroteInit == Init => WroteInv
BY IdleWrote DEF Init, StoreInit, WebhookInit, ReconcilerInit, WroteInv, WritersWrote,
   PollsWrote, AckedWrote, ETagVouches

\* What was written stays written while rows stay.
LEMMA WroteLasts ==
    ASSUME NEW rs, NEW js, NEW ss, NEW rs2, NEW js2, NEW ss2,
           rs \subseteq rs2, js \subseteq js2, ss \subseteq ss2
    PROVE  /\ \A rec : Wrote(rs, js, ss, rec) => Wrote(rs2, js2, ss2, rec)
           /\ \A rec : PollWrote(rs, rec) => PollWrote(rs2, rec)
BY DEF Wrote, PollWrote

\* Other steps than a writer's leave the tables as they are.
LEMMA TablesKept ==
    ASSUME UNCHANGED storeVars
    PROVE  RunsStored' = RunsStored /\ JobsStored' = JobsStored /\ StepsStored' = StepsStored
BY DEF storeVars, RunsStored, JobsStored, StepsStored

\* A written row is a row, whatever it is written over.
LEMMA UpdatedIsRow ==
    ASSUME NEW old \in RunRow, NEW row \in RunRow, row # NoRunRow
    PROVE  UpdatedRun(old, row) # NoRunRow
<1>1. CASE row.meta
  BY <1>1 DEF UpdatedRun, RunRow, NoRunRow
<1>2. CASE ~row.meta
  BY <1>2 DEF UpdatedRun, RunRow, NoRunRow
<1> QED
  BY <1>1, <1>2

\* A writer past a statement finds what it wrote in the tables.
LEMMA WriterWrote ==
    ASSUME TypeInv, TruthInv, WroteInv, NEW w \in Writers,
           WriterStepOf(w) \/ StatementFailsFor(w)
    PROVE  WroteInv'
<1> DEFINE now == writer[w]
           key == JobKeyOf(w)
           Stays == /\ RunsStored \subseteq RunsStored'
                    /\ JobsStored \subseteq JobsStored'
                    /\ StepsStored \subseteq StepsStored'
           Moves(next) == /\ writer' = [writer EXCEPT ![w] = next]
                          /\ Wrote(RunsStored', JobsStored', StepsStored', next)
           Done == Stays /\ \E next : Moves(next)
<1>1. /\ runs \in [Runs -> RunRow] /\ jobs \in [JobKeys -> JobRow]
      /\ writer \in [Writers -> WriterState] /\ now \in WriterState
      /\ now.pc # "idle" => now.run \in Runs
  BY DEF TypeInv, TypeOK, WritersHaveRuns, Busy
<1>2. Wrote(RunsStored, JobsStored, StepsStored, now)
  BY DEF WroteInv, WritersWrote
<1>3. now.pc \in {"writeJob", "writeSteps"} =>
        /\ now.todo[now.job] # "none" /\ key \in JobKeys
        /\ now.todo[now.job] \in Phases
  BY <1>1 DEF TruthInv, InTurn, WritersTrue, TrueWriter, TrueJobs, JobsLeft, NoJobs,
     JobKeyOf, JobKeys, WriterState, JobPhases
<1>4. UNCHANGED storeVars => Stays
  BY TablesKept
<1>5. ASSUME FindRun(w) PROVE Done
  <2> DEFINE next == [now EXCEPT !.pc = "writeRun", !.found = runs[now.run] # NoRunRow]
  <2>1. Moves(next)
    BY <1>1, <1>2, <1>5, TablesKept DEF FindRun, Wrote, WriterState, storeVars
  <2> QED
    BY <1>4, <1>5, <2>1 DEF FindRun, storeVars
<1>6. ASSUME WriteRun(w) PROVE Done
  <2> DEFINE next == [now EXCEPT !.pc = NextJob(now.todo), !.found = FALSE]
  <2>1. now.run \in Runs /\ now.row \in RunRow /\ now.row # NoRunRow
    BY <1>1, <1>2, <1>6 DEF WriteRun, Wrote, WriterState
  <2>2. runs'[now.run] # NoRunRow /\ \A r \in Runs : r # now.run => runs'[r] = runs[r]
    BY <1>1, <1>6, <2>1, UpdatedIsRow DEF WriteRun
  <2>3. Stays /\ now.run \in RunsStored'
    BY <1>1, <1>6, <2>1, <2>2 DEF WriteRun, RunsStored, JobsStored, StepsStored
  <2>4. Moves(next)
    BY <1>1, <1>2, <1>6, <2>3 DEF WriteRun, Wrote, NextJob, WriterState
  <2> QED
    BY <2>3, <2>4
<1>7. ASSUME RunInsertFails(w) \/ JobInsertFails(w) \/ StatementFails(w) PROVE Done
  <2> DEFINE next == [now EXCEPT !.pc = "failed"]
  <2>1. UNCHANGED storeVars /\ now.pc # "idle" /\ writer' = [writer EXCEPT ![w] = next]
    BY <1>1, <1>7 DEF RunInsertFails, JobInsertFails, StatementFails, Writing, storeVars
  <2>2. Wrote(RunsStored', JobsStored', StepsStored', next)
    BY <1>1, <1>2, <2>1 DEF Wrote, WriterState
  <2> HIDE DEF next
  <2> QED
    BY <1>4, <2>1, <2>2
<1>8. ASSUME FindJob(w) PROVE Done
  <2> DEFINE next(j) == [now EXCEPT !.pc = "writeJob", !.job = j,
                                    !.found = jobs[<<now.run, now.attempt, j>>] # NoJobRow]
  <2>1. PICK j \in JobsLeft(now.todo) : writer' = [writer EXCEPT ![w] = next(j)]
    BY <1>1, <1>8 DEF FindJob, WriterState
  <2>2. Wrote(RunsStored', JobsStored', StepsStored', next(j))
    BY <1>1, <1>2, <1>8, TablesKept DEF FindJob, Wrote, WriterState, storeVars
  <2> HIDE DEF next
  <2> QED
    BY <1>4, <1>8, <2>1, <2>2 DEF FindJob, storeVars
<1>9. ASSUME WriteJob(w) PROVE Done
  <2> DEFINE next == [now EXCEPT !.pc = "writeSteps", !.found = FALSE]
  <2>1. jobs' = [jobs EXCEPT ![key].phase = now.todo[now.job]] /\ UNCHANGED runs
    BY <1>9 DEF WriteJob
  <2>2. now.pc = "writeJob" /\ key = <<now.run, now.attempt, now.job>>
    BY <1>9 DEF WriteJob, JobKeyOf
  <2> HIDE DEF key
  <2>3. Stays /\ key \in JobsStored'
    BY <1>1, <1>3, <2>1, <2>2 DEF RunsStored, JobsStored, StepsStored, JobRow
  <2>4. writer' = [writer EXCEPT ![w] = next]
    BY <1>1, <1>9 DEF WriteJob
  <2>5. Wrote(RunsStored', JobsStored', StepsStored', next)
    BY <1>1, <1>2, <2>2, <2>3 DEF Wrote, WriterState
  <2> HIDE DEF next
  <2> QED
    BY <2>3, <2>4, <2>5
<1>10. ASSUME WriteSteps(w) PROVE Done
  <2> DEFINE left == [now.todo EXCEPT ![now.job] = "none"]
             next == [now EXCEPT !.pc = NextJob(left), !.todo = left]
  <2>1. jobs' = [jobs EXCEPT ![key].steps = now.todo[now.job]] /\ UNCHANGED runs
    BY <1>10 DEF WriteSteps
  <2>2. now.pc = "writeSteps" /\ key = <<now.run, now.attempt, now.job>>
    BY <1>10 DEF WriteSteps, JobKeyOf
  <2>3. writer' = [writer EXCEPT ![w] = next]
    BY <1>1, <1>10 DEF WriteSteps
  <2> HIDE DEF key
  <2>4. Stays /\ key \in StepsStored'
    BY <1>1, <1>3, <2>1, <2>2 DEF RunsStored, JobsStored, StepsStored, JobRow
  <2>5. key \in JobsStored' /\ now.run \in RunsStored'
    BY <1>2, <2>2, <2>4 DEF Wrote
  <2>6. /\ next.pc \in {"findJob", "done"} /\ next.run = now.run /\ next.row = now.row
        /\ next.attempt = now.attempt /\ next.job = now.job
    BY <1>1 DEF NextJob, WriterState
  <2>7. Wrote(RunsStored', JobsStored', StepsStored', next)
    BY <1>2, <2>2, <2>4, <2>5, <2>6 DEF Wrote
  <2> HIDE DEF next
  <2> QED
    BY <2>3, <2>4, <2>7
<1>11. Done
  <2> HIDE DEF Done
  <2> QED
    BY <1>5, <1>6, <1>7, <1>8, <1>9, <1>10 DEF WriterStepOf, StatementFailsFor, WriterStep
<1>12. WritersWrote'
  <2>1. PICK next : Moves(next)
    BY <1>11
  <2>2. \A v \in Writers : writer'[v] = IF v = w THEN next ELSE writer[v]
    BY <1>1, <2>1
  <2>3. \A v \in Writers : Wrote(RunsStored', JobsStored', StepsStored', writer[v])
    BY <1>11, WroteLasts DEF WroteInv, WritersWrote
  <2> QED
    BY <2>1, <2>2, <2>3 DEF WritersWrote
<1>13. UNCHANGED <<poll, acked, etag>>
  BY DEF WriterStepOf, StatementFailsFor, webhookVars
<1>14. PollsWrote'
  BY <1>11, <1>13, WroteLasts DEF WroteInv, PollsWrote
<1>15. AckedWrote' /\ ETagVouches'
  <2>1. AckedWrote'
    BY <1>11, <1>13 DEF WroteInv, AckedWrote
  <2>2. ETagVouches'
    BY <1>11, <1>13 DEF WroteInv, ETagVouches, RunsStored, OnPage
  <2> QED
    BY <2>1, <2>2
<1> QED
  BY <1>12, <1>14, <1>15 DEF WroteInv

\* A handler answers 202 only when all its statements are done.
LEMMA HandlerWrote ==
    ASSUME TypeInv, WroteInv, NEW h \in Handlers, ReceiveBy(h) \/ AnswerBy(h)
    PROVE  WroteInv'
<1> DEFINE Moves(next) == /\ writer' = [writer EXCEPT ![h] = next]
                          /\ Wrote(RunsStored, JobsStored, StepsStored, next)
<1>1. h \in Writers /\ writer \in [Writers -> WriterState]
  BY HandlersAssumption DEF TypeInv, TypeOK
<1>2. /\ UNCHANGED <<poll, etag, storeVars>>
      /\ RunsStored' = RunsStored /\ JobsStored' = JobsStored /\ StepsStored' = StepsStored
  BY TablesKept DEF ReceiveBy, AnswerBy, Receive, Accept, Reject
<1>3. ASSUME Receive(h) PROVE (\E next : Moves(next)) /\ AckedWrote'
  <2>1. PICK m \in net : writer' = [writer EXCEPT ![h] = RequestOf(m)]
    BY <1>3 DEF Receive
  <2>2. RowOf(m.state) # NoRunRow /\ StubRow # NoRunRow
    BY DEF RowOf, StubRow, NoRunRow
  <2>3. Wrote(RunsStored, JobsStored, StepsStored, RequestOf(m))
    BY <2>2 DEF RequestOf, WriteRequest, Wrote
  <2> QED
    BY <1>2, <1>3, <2>1, <2>3 DEF Receive, WroteInv, AckedWrote
<1>4. ASSUME Accept(h) PROVE (\E next : Moves(next)) /\ AckedWrote'
  <2>1. Moves(IdleWriter)
    BY <1>4, IdleWrote DEF Accept
  <2>2. /\ writer[h].run \in RunsStored
        /\ writer[h].job # "none" => JobKeyOf(h) \in JobsStored \intersect StepsStored
    BY <1>1, <1>4 DEF Accept, WroteInv, WritersWrote, Wrote, JobKeyOf
  <2>3. /\ JobKeyOf(h)[1] = writer[h].run /\ JobKeyOf(h)[3] = writer[h].job
        /\ acked' = acked \union {JobKeyOf(h)}
    BY <1>4 DEF Accept, JobKeyOf
  <2>4. AckedWrote'
    BY <1>2, <2>2, <2>3 DEF WroteInv, AckedWrote
  <2> QED
    BY <2>1, <2>4
<1>5. ASSUME Reject(h) PROVE (\E next : Moves(next)) /\ AckedWrote'
  BY <1>2, <1>5, IdleWrote DEF Reject, webhookVars, WroteInv, AckedWrote
<1>6. (\E next : Moves(next)) /\ AckedWrote'
  <2> HIDE DEF Moves
  <2> QED
    BY <1>3, <1>4, <1>5 DEF ReceiveBy, AnswerBy
<1>7. WritersWrote'
  BY <1>1, <1>2, <1>6 DEF WroteInv, WritersWrote
<1>8. PollsWrote' /\ ETagVouches'
  BY <1>2 DEF WroteInv, PollsWrote, ETagVouches, storeVars, OnPage
<1> QED
  BY <1>6, <1>7, <1>8 DEF WroteInv

\* Storing begins with the whole page to do.
LEMMA FetchingWrote ==
    ASSUME NEW rs, NEW rec \in PollState, NEW left, rec.pc # "store"
    PROVE  PollWrote(rs, Fetching(rec, left))
BY DEF Fetching, PollWrote, PollState

\* A poll saves the ETag only when all the runs of its page are stored.
LEMMA PollWroteStep ==
    ASSUME TypeInv, WroteInv, NEW p \in Pollers, PollStepOf(p) \/ PollFailsFor(p)
    PROVE  WroteInv'
<1> DEFINE now == poll[p]
           Polled == \E next : poll' = [poll EXCEPT ![p] = next] /\ PollWrote(RunsStored, next)
           Asked == \/ writer' = writer
                    \/ \E next : /\ writer' = [writer EXCEPT ![p] = next]
                                 /\ Wrote(RunsStored, JobsStored, StepsStored, next)
           Done == (poll' = poll \/ Polled) /\ Asked /\ ETagVouches'
<1>1. /\ p \in Writers /\ writer \in [Writers -> WriterState]
      /\ poll \in [Pollers -> PollState] /\ now \in PollState /\ PollWrote(RunsStored, now)
      /\ Wrote(RunsStored, JobsStored, StepsStored, writer[p])
  BY PollersAssumption DEF TypeInv, TypeOK, WroteInv, PollsWrote, WritersWrote
<1>2. /\ UNCHANGED <<runs, jobs, acked>>
      /\ RunsStored' = RunsStored /\ JobsStored' = JobsStored /\ StepsStored' = StepsStored
  BY TablesKept
     DEF PollStepOf, PollFailsFor, PollStep, PollFails, PollStart, PollRunStates,
         PollNotModified, PollList, PollFetchJobs, PollStoreRun, PollRunStored,
         PollSaveETag, PollAborts, storeVars, webhookVars
<1>3. ASSUME etag' = etag PROVE ETagVouches'
  BY <1>2, <1>3 DEF WroteInv, ETagVouches, OnPage
<1>4. ASSUME PollStart(p) PROVE Done
  <2> DEFINE next == [now EXCEPT !.pc = "states", !.etag = etag]
  <2>1. poll' = [poll EXCEPT ![p] = next] /\ next.pc = "states"
    BY <1>1, <1>4 DEF PollStart, PollState
  <2> HIDE DEF next
  <2> QED
    BY <1>3, <1>4, <2>1 DEF PollStart, PollWrote
<1>5. ASSUME PollRunStates(p) PROVE Done
  <2> DEFINE next == [now EXCEPT !.pc = "list", !.known = KnownCompleted]
  <2>1. poll' = [poll EXCEPT ![p] = next] /\ next.pc = "list"
    BY <1>1, <1>5 DEF PollRunStates, PollState
  <2> HIDE DEF next
  <2> QED
    BY <1>3, <1>5, <2>1 DEF PollRunStates, PollWrote
<1>6. ASSUME PollNotModified(p) \/ PollFails(p) \/ PollAborts(p) PROVE Done
  BY <1>3, <1>6, IdleWrote DEF PollNotModified, PollFails, PollAborts
<1>7. ASSUME PollList(p) PROVE Done
  <2> DEFINE listed == [IdlePoll EXCEPT !.listing = Page(forge)]
  <2>1. PICK left : poll' = [poll EXCEPT ![p] = Fetching(listed, left)]
    BY <1>7 DEF PollList
  <2>2. listed \in PollState /\ listed.pc = "idle"
    BY ConstantsTyped, PageTyped DEF TypeInv, TypeOK, IdlePoll, PollState
  <2> HIDE DEF listed
  <2>3. PollWrote(RunsStored, Fetching(listed, left))
    BY <2>2, FetchingWrote
  <2> QED
    BY <1>3, <1>7, <2>1, <2>3 DEF PollList
<1>8. ASSUME PollFetchJobs(p) PROVE Done
  <2> DEFINE got(r) == [attempt |-> forge[r].attempt, phases |-> ServedJobs(r)]
             next(r) == [now EXCEPT !.fetched[r] = got(r)]
  <2>1. PICK r \in Newest(now.todo) :
          poll' = [poll EXCEPT ![p] = Fetching(next(r), now.todo \ {r})]
    BY <1>8 DEF PollFetchJobs
  <2>2. r \in Runs /\ got(r) \in FetchedJobs
    BY <1>1, <2>1, ConstantsTyped
       DEF Newest, PollState, TypeInv, TypeOK, Listings, ListedRun, FetchedJobs, ServedJobs
  <2> HIDE DEF got
  <2>3. next(r) \in PollState /\ next(r).pc # "store"
    BY <1>1, <1>8, <2>2 DEF PollFetchJobs, PollState
  <2> HIDE DEF next
  <2>4. PollWrote(RunsStored, Fetching(next(r), now.todo \ {r}))
    BY <2>3, FetchingWrote
  <2> QED
    BY <1>3, <1>8, <2>1, <2>4 DEF PollFetchJobs
<1>9. ASSUME PollStoreRun(p) PROVE Done
  <2> DEFINE next(r) == WriteRequest(r, RowOf(now.listing[r]), now.fetched[r].attempt,
                                     now.fetched[r].phases)
  <2>1. PICK r \in Newest(now.todo) : writer' = [writer EXCEPT ![p] = next(r)]
    BY <1>9 DEF PollStoreRun
  <2>2. Wrote(RunsStored, JobsStored, StepsStored, next(r))
    BY DEF WriteRequest, RowOf, NoRunRow, Wrote
  <2> HIDE DEF next
  <2> QED
    BY <1>3, <1>9, <2>1, <2>2 DEF PollStoreRun
<1>10. ASSUME PollRunStored(p) PROVE Done
  <2> DEFINE next == [now EXCEPT !.todo = @ \ {writer[p].run},
                                 !.fetched[writer[p].run] = NotFetched]
  <2>1. poll' = [poll EXCEPT ![p] = next]
    BY <1>1, <1>10 DEF PollRunStored, PollState
  <2>2. next.pc = now.pc /\ next.listing = now.listing /\ next.todo = now.todo \ {writer[p].run}
    BY <1>1 DEF PollState
  <2>3. writer[p].run \in RunsStored
    BY <1>1, <1>10 DEF PollRunStored, Wrote
  <2> HIDE DEF next
  <2>4. PollWrote(RunsStored, next)
    BY <1>1, <2>2, <2>3 DEF PollWrote
  <2> QED
    BY <1>3, <1>10, <2>1, <2>4, IdleWrote DEF PollRunStored
<1>11. ASSUME PollSaveETag(p) PROVE Done
  <2>1. OnPage(now.listing) \subseteq RunsStored
    BY <1>1, <1>11 DEF PollSaveETag, PollWrote
  <2>2. etag' = now.listing \/ etag' = etag
    BY <1>11 DEF PollSaveETag
  <2>3. ASSUME etag' = now.listing PROVE ETagVouches'
    BY <1>2, <2>1, <2>3 DEF ETagVouches, OnPage, RunsStored
  <2>4. ETagVouches'
    BY <1>3, <2>2, <2>3
  <2> QED
    BY <1>11, <2>4, IdleWrote DEF PollSaveETag
<1>12. Done
  <2> HIDE DEF Done
  <2> QED
    BY <1>4, <1>5, <1>6, <1>7, <1>8, <1>9, <1>10, <1>11
       DEF PollStepOf, PollFailsFor, PollStep
<1>13. WritersWrote'
  BY <1>1, <1>2, <1>12 DEF WroteInv, WritersWrote
<1>14. PollsWrote'
  BY <1>1, <1>2, <1>12 DEF WroteInv, PollsWrote
<1>15. AckedWrote'
  BY <1>2 DEF WroteInv, AckedWrote
<1> QED
  BY <1>12, <1>13, <1>14, <1>15 DEF WroteInv

\* Every step of the ingestion keeps what was written in the tables.
LEMMA WroteStep == TypeInv /\ TruthInv /\ WroteInv /\ [Next]_vars => WroteInv'
<1> SUFFICES ASSUME TypeInv, TruthInv, WroteInv, [Next]_vars PROVE WroteInv'
  OBVIOUS
<1>1. ASSUME UNCHANGED <<storeVars, webhookVars, etag>>,
             UNCHANGED <<writer, poll>> \/ Restart
      PROVE  WroteInv'
  <2>1. RunsStored' = RunsStored /\ JobsStored' = JobsStored /\ StepsStored' = StepsStored
    BY <1>1, TablesKept
  <2>2. WritersWrote' /\ PollsWrote'
    BY <1>1, <2>1, IdleWrote DEF WroteInv, WritersWrote, PollsWrote, Restart
  <2>3. AckedWrote'
    BY <1>1, <2>1 DEF WroteInv, AckedWrote, webhookVars
  <2>4. ETagVouches'
    BY <1>1 DEF WroteInv, ETagVouches, OnPage, storeVars
  <2> QED
    BY <2>2, <2>3, <2>4 DEF WroteInv
<1>2. CASE ForgeStep \/ Restart \/ UNCHANGED vars
  BY <1>1, <1>2 DEF ForgeStep, Restart, vars, storeVars, webhookVars
<1> QED
  BY <1>2, WriterWrote, HandlerWrote, PollWroteStep DEF Next

\* Types, truth and what was written together are an invariant.
LEMMA WroteAlways == Spec => [](TypeInv /\ TruthInv /\ WroteInv)
BY TypeInit, TypeStep, TruthInit, TruthStep, WroteInit, WroteStep, PTL DEF Spec

\* A 202 is never sent for a delivery that is not in the tables, though a handler
\* makes up to five statements and others write between them.
THEOREM AcksAreStored == Spec => []AckedIsStored
<1>1. WroteInv => AckedIsStored
  BY DEF WroteInv, AckedWrote, AckedIsStored, RunsStored, JobsStored, StepsStored
<1> QED
  BY <1>1, WroteAlways, PTL

\* A saved ETag never hides a run: every run of its page has a row.
THEOREM ETagsVouch == Spec => []ETagVouches
<1>1. WroteInv => ETagVouches
  BY DEF WroteInv
<1> QED
  BY <1>1, WroteAlways, PTL

\* No step of any writer takes a stored run's commit metadata away.
THEOREM MetadataStays == Spec => MetadataNeverLost
<1>1. TypeInv /\ [Next]_vars => [\A r \in Runs : runs[r].meta => runs'[r].meta]_runs
  <2> SUFFICES ASSUME TypeInv, [Next]_vars, runs' # runs, NEW r \in Runs, runs[r].meta
               PROVE  runs'[r].meta
    OBVIOUS
  <2>1. PICK w \in Writers : WriteRun(w)
    BY DEF Next, ForgeStep, WriterStepOf, WriterStep, StatementFailsFor, StatementFails,
       FindRun, RunInsertFails, FindJob, WriteJob, JobInsertFails, WriteSteps, ReceiveBy,
       AnswerBy, Receive, Accept, Reject, PollStepOf, PollFailsFor, PollStep, PollFails,
       PollStart, PollRunStates, PollNotModified, PollList, PollFetchJobs, PollStoreRun,
       PollRunStored, PollSaveETag, PollAborts, Restart, vars, storeVars
  <2>2. /\ runs \in [Runs -> RunRow] /\ writer[w].row \in RunRow
    BY DEF TypeInv, TypeOK, WriterState
  <2>3. CASE writer[w].run = r /\ writer[w].found
    BY <2>1, <2>2, <2>3 DEF WriteRun, UpdatedRun, RunRow
  <2>4. CASE writer[w].run = r /\ ~writer[w].found
    BY <2>1, <2>4 DEF WriteRun, NoRunRow
  <2>5. CASE writer[w].run # r
    BY <2>1, <2>2, <2>5 DEF WriteRun
  <2> QED
    BY <2>3, <2>4, <2>5
<1>2. Spec => []TypeInv
  BY TypeInit, TypeStep, PTL DEF Spec
<1> QED
  BY <1>1, <1>2, PTL DEF Spec, MetadataNeverLost
=============================================================================
