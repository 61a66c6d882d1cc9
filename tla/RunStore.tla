------------------------------- MODULE RunStore -------------------------------
(***************************************************************************)
(* The runs, jobs and steps tables and the one way both ingestion paths     *)
(* write them: UpsertRun, then UpsertJob and ReplaceSteps for each job.     *)
(*                                                                         *)
(* The database has one connection (db.go), so a statement is atomic and    *)
(* the statements of concurrent writers interleave.  UpsertRun and          *)
(* UpsertJob are two statements each, a SELECT and an UPDATE or INSERT;      *)
(* ReplaceSteps is one transaction.  UNIQUE(repo_id, forge_run_id) and       *)
(* UNIQUE(run_id, forge_job_id) make the tables functions of those keys, and *)
(* an INSERT of a key another writer inserted since the SELECT fails.        *)
(***************************************************************************)
EXTENDS RunData

CONSTANTS
    Writers,   \* webhook handlers and reconciliation polls
    MaxFaults  \* bound: calls that fail for a reason of their own

ASSUME WritersAssumption == MaxFaults \in Nat

VARIABLES
    runs,    \* the runs table
    jobs,    \* the jobs and steps tables
    writer,  \* each writer's progress through the calls
    faults   \* how many calls have failed so far

storeVars == <<runs, jobs>>

WriterPCs == {"idle", "findRun", "writeRun", "findJob", "writeJob",
              "writeSteps", "done", "failed"}
Writing == {"findRun", "writeRun", "findJob", "writeJob", "writeSteps"}

WriterState == [pc: WriterPCs, run: 0..NumRuns, row: RunRow,
                attempt: 0..MaxAttempts, todo: JobPhases, job: OrNone(Jobs),
                found: BOOLEAN]
IdleWriter == [pc |-> "idle", run |-> 0, row |-> NoRunRow, attempt |-> 0,
               todo |-> NoJobs, job |-> "none", found |-> FALSE]

\* What a handler or a poll asks the store to write.
WriteRequest(r, row, a, js) ==
    [pc |-> "findRun", run |-> r, row |-> row, attempt |-> a, todo |-> js,
     job |-> "none", found |-> FALSE]

StoreInit ==
    /\ runs = [r \in Runs |-> NoRunRow]
    /\ jobs = [k \in JobKeys |-> NoJobRow]
    /\ writer = [w \in Writers |-> IdleWriter]
    /\ faults = 0

JobKeyOf(w) == <<writer[w].run, writer[w].attempt, writer[w].job>>
JobsLeft(js) == {j \in Jobs : js[j] # "none"}

\* Where a writer goes when its run, or one of its jobs, has been written.
NextJob(js) == IF JobsLeft(js) = {} THEN "done" ELSE "findJob"

\* Defects of the UPDATE: the metadata is not COALESCEd; the conclusion, or
\* started_at, is too; an existing row is left alone (INSERT OR IGNORE).
UpdatedRun_OverwritesMeta(old, new) == new
UpdatedRun_KeepsConclusion(old, new) ==
    IF new.conclusion = "none" THEN [new EXCEPT !.conclusion = old.conclusion] ELSE new
UpdatedRun_KeepsStart(old, new) ==
    IF old.started > 0 THEN [new EXCEPT !.started = old.started] ELSE new
UpdatedRun_Ignored(old, new) == old

\* UpsertRun's UPDATE: every column is overwritten but the commit metadata,
\* which a NULL in the new row leaves as it was (COALESCE).
UpdatedRun(old, new) == [new EXCEPT !.meta = new.meta \/ old.meta]

FindRun(w) ==
    /\ writer[w].pc = "findRun"
    /\ writer' = [writer EXCEPT ![w].pc = "writeRun",
                                ![w].found = runs[writer[w].run] # NoRunRow]
    /\ UNCHANGED <<runs, jobs, faults>>

WriteRun(w) ==
    LET r == writer[w].run IN
    /\ writer[w].pc = "writeRun"
    /\ writer[w].found \/ runs[r] = NoRunRow
    /\ runs' = [runs EXCEPT ![r] = IF writer[w].found
                                   THEN UpdatedRun(@, writer[w].row)
                                   ELSE writer[w].row]
    /\ writer' = [writer EXCEPT ![w].pc = NextJob(writer[w].todo),
                                ![w].found = FALSE]
    /\ UNCHANGED <<jobs, faults>>

\* The INSERT violates UNIQUE(repo_id, forge_run_id): UpsertRun returns the error.
RunInsertFails(w) ==
    /\ writer[w].pc = "writeRun"
    /\ ~writer[w].found
    /\ runs[writer[w].run] # NoRunRow
    /\ writer' = [writer EXCEPT ![w].pc = "failed"]
    /\ UNCHANGED <<runs, jobs, faults>>

FindJob(w) ==
    /\ writer[w].pc = "findJob"
    /\ \E j \in JobsLeft(writer[w].todo) :
         LET key == <<writer[w].run, writer[w].attempt, j>> IN
         writer' = [writer EXCEPT ![w].pc = "writeJob", ![w].job = j,
                                  ![w].found = jobs[key] # NoJobRow]
    /\ UNCHANGED <<runs, jobs, faults>>

WriteJob(w) ==
    LET key == JobKeyOf(w) IN
    /\ writer[w].pc = "writeJob"
    /\ writer[w].found \/ jobs[key] = NoJobRow
    /\ jobs' = [jobs EXCEPT ![key].phase = writer[w].todo[writer[w].job]]
    /\ writer' = [writer EXCEPT ![w].pc = "writeSteps", ![w].found = FALSE]
    /\ UNCHANGED <<runs, faults>>

\* A defect: a conflicting job insert is taken for "already stored".
JobInsertFails_TakenForDone(w) ==
    /\ writer[w].pc = "writeJob"
    /\ ~writer[w].found
    /\ jobs[JobKeyOf(w)] # NoJobRow
    /\ writer' = [writer EXCEPT ![w].pc = "done"]
    /\ UNCHANGED <<runs, jobs, faults>>

\* The INSERT violates UNIQUE(run_id, forge_job_id): UpsertJob returns the error.
JobInsertFails(w) ==
    /\ writer[w].pc = "writeJob"
    /\ ~writer[w].found
    /\ jobs[JobKeyOf(w)] # NoJobRow
    /\ writer' = [writer EXCEPT ![w].pc = "failed"]
    /\ UNCHANGED <<runs, jobs, faults>>

WriteSteps(w) ==
    LET j    == writer[w].job
        left == [writer[w].todo EXCEPT ![j] = "none"]
    IN  /\ writer[w].pc = "writeSteps"
        /\ jobs' = [jobs EXCEPT ![JobKeyOf(w)].steps = writer[w].todo[j]]
        /\ writer' = [writer EXCEPT ![w].pc = NextJob(left), ![w].todo = left]
        /\ UNCHANGED <<runs, faults>>

\* A statement fails on its own (context cancelled, disk error): the first
\* error ends the calls and what was written stays.
StatementFails(w) ==
    /\ writer[w].pc \in Writing
    /\ faults < MaxFaults
    /\ faults' = faults + 1
    /\ writer' = [writer EXCEPT ![w].pc = "failed"]
    /\ UNCHANGED <<runs, jobs>>

WriterStep(w) ==
    \/ FindRun(w)
    \/ WriteRun(w)
    \/ RunInsertFails(w)
    \/ FindJob(w)
    \/ WriteJob(w)
    \/ JobInsertFails(w)
    \/ WriteSteps(w)
=============================================================================
