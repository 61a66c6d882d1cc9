------------------------------- MODULE RunData -------------------------------
(***************************************************************************)
(* What the forge, the webhook receiver, the reconciler and the store say   *)
(* to each other about workflow runs and jobs of ONE tracked repository     *)
(* (runs of different repositories share no row).                           *)
(*                                                                         *)
(* Abstractions.  The code compares a status with "completed" and nothing   *)
(* else, so every other status is "in_progress".  run_started_at names the  *)
(* attempt that started then, and is modelled as that attempt's number; 0   *)
(* is a NULL started_at.  completed_at is set by every writer exactly when  *)
(* the status it writes is "completed", so it has no field of its own.      *)
(* Branch, commit, message and actor are one bit: known or NULL.  A job's   *)
(* status and conclusion, and the contents of its step list, are copied     *)
(* verbatim together and are one value, the job's phase.                    *)
(***************************************************************************)
EXTENDS Integers

CONSTANTS
    NumRuns,      \* bound: runs the forge ever creates
    PageSize,     \* runs in the one page a poll lists (per_page=20)
    MaxAttempts,  \* bound: attempts of a run, the first one and its re-runs
    Jobs          \* the jobs of a run's workflow

ASSUME RunDataAssumption ==
    /\ NumRuns \in Nat \ {0}
    /\ PageSize \in Nat \ {0}
    /\ MaxAttempts \in Nat \ {0}

Runs == 1..NumRuns          \* numbered in the order the forge created them
Attempts == 1..MaxAttempts
JobKeys == Runs \X Attempts \X Jobs   \* an attempt's jobs have ids of their own

Statuses == {"none", "in_progress", "completed"}
Conclusions == {"success", "failure"}
Phases == {"in_progress"} \union Conclusions

OrNone(S) == S \union {"none"}

\* An entry of the forge's run listing; attempt 0 is a run it does not show.
ListedRun == [attempt: 0..MaxAttempts, status: Statuses,
              conclusion: OrNone(Conclusions)]
UnlistedRun == [attempt |-> 0, status |-> "none", conclusion |-> "none"]
Listings == [Runs -> ListedRun]

\* A row of the runs table; status "none" is no row.
RunRow == [status: Statuses, conclusion: OrNone(Conclusions),
           started: 0..MaxAttempts, meta: BOOLEAN]
NoRunRow == [status |-> "none", conclusion |-> "none",
             started |-> 0, meta |-> FALSE]

\* A row of the jobs table with its rows of the steps table, which are one
\* step list of the job as some payload carried it; "none" is no such row.
JobRow == [phase: OrNone(Phases), steps: OrNone(Phases)]
NoJobRow == [phase |-> "none", steps |-> "none"]

\* The jobs a payload or a snapshot brings; "none" is a job it leaves out.
JobPhases == [Jobs -> OrNone(Phases)]
NoJobs == [j \in Jobs |-> "none"]

\* A defect: the two columns are bound to the same value.
RowOf_StatusAsConclusion(l) == [status |-> l.status, conclusion |-> l.status,
                                started |-> l.attempt, meta |-> TRUE]

\* What the listing and a workflow_run event say of a run, as the row both
\* write (processGitHubWorkflowRun, storeRunSnapshot).
RowOf(l) == [status |-> l.status, conclusion |-> l.conclusion,
             started |-> l.attempt, meta |-> TRUE]

\* What a workflow_job event knows of its parent run.
StubRow == [status |-> "in_progress", conclusion |-> "none",
            started |-> 0, meta |-> FALSE]
=============================================================================
