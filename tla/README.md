# TLA+ specification of pipeline-analytics

pipeline-analytics collects the workflow runs of GitHub and Forgejo repositories and shows
how healthy their pipelines are. This directory holds TLA+ modules of its core, the TLC
configurations that check them, and TLAPS proofs about them. Paths below are relative to
`src/`.

To check: `tlc -config webhooks.cfg MCIngestion`, and likewise for the other configurations
(`MCPolls` with `polls.cfg`, `MCDashboard` with `dashboard.cfg`, `MCMetrics`, `Accounts`);
`tlapm IngestionProofs.tla`, and likewise for the other modules named `...Proofs`.
`PROJECT.json` lists the runs, the source lines each definition stands for, and for each
property a defect of the code that violates it: the operators with a suffix
(`UpdatedRun_OverwritesMeta`) are such defects, never used by the model itself.

## 1. The system

One Go server with an SQLite database and a web interface.

| Component | State | Operations | Talks to |
| --- | --- | --- | --- |
| Run, job and step store (`internal/ingestion/sqlite/runs.go`) | tables `runs`, `jobs`, `steps` | `UpsertRun`, `UpsertJob`, `ReplaceSteps`, `RunStates`, ETag columns | called by handlers and reconciler, read by the metrics |
| Webhook handlers (`httpserver/webhooks.go`, `ingestion/webhook.go`) | none of their own; one goroutine a delivery | resolve and verify; `workflow_run`, `workflow_job`, push; 202 or 500 | forges, store |
| Reconciler (`ingestion/reconcile.go`) | `repos.reconcile_etag` | polls each repository in turn on a ticker; a Forgejo push delivery polls one at once | forge clients, store |
| Forge clients (`ingestion/github`, `ingestion/forgejo`) | rate-limit notes | list runs (conditionally on GitHub), fetch jobs, create hooks, re-run, cancel, logs | forges |
| Registration (`ingestion/registrar.go`, `httpserver/repos.go`) | table `repos`; webhooks on the forges | register, remove, discover | store, forge clients |
| Saved tokens (`ingestion/forge_tokens.go`, `httpserver/forge_tokens.go`) | table `forge_tokens` | save, replace, delete | registration |
| Run actions and logs (`ingestion/run_actions.go`, `joblog_service.go`) | none | re-run, cancel, the end of a job's log | store, forge clients |
| Settings (`internal/settings`) | one row of overrides | read, patch, reset | web interface |
| Accounts (`internal/auth`, `httpserver/auth.go`, `session.go`) | users, passkeys, ceremonies, sessions, API tokens | register, sign in, add and revoke a passkey, sign out, tokens | browser, WebAuthn library, database |
| Metrics and insights (`internal/metrics`) | none; computed on each request | pipelines, health, trends, steps, flaky steps, failure insights, run list | store |
| Step quarantine (`metrics/quarantine.go`) | `step_quarantines` | set or renew, remove, expiry | metrics |
| Server (`cmd/pipeline-analytics/main.go`) | goroutines | start, drain, stop | everything |
| REST and MCP handlers, migrations, configuration, encryption, web interface | none of interest here | | |

The database has one connection (`db.go`, `SetMaxOpenConns(1)`), so one statement runs at
a time. Statements of different goroutines still interleave, and only `ReplaceSteps`,
`RevokeCredential` and the settings use a transaction. Nothing else is locked.

**What is hard.** Two paths write the same run: deliveries, which may be lost, repeated or
late, and polls, which carry snapshots minutes old by the time they are stored. Each write
is several statements, and each may fail. A poll answered 304 stores nothing, so whatever
the ETag vouches for had better be stored. A run is re-run under its old id. Ceremonies
and revocations overlap, and the last passkey is the only way in. Several views compute
the same notions (failed, flaky, a window) separately, and the store compares timestamps as
text where the code compares instants. A registration is five calls under
the context of an HTTP request that may end at any of them, while the repository it creates
can already be polled, removed and registered again; a name may be tracked on two instances,
each with its own token and secret. The full list, each at its line and
with the properties that catch it, is under `hazards` in `PROJECT.json`.

**What makes each component correct.**

- Store and handlers: no row mixes two snapshots; 202 means stored; commit metadata stays.
- Reconciler: the saved ETag covers only stored runs; whatever failed, the stored runs
  converge on the forge's; what it skips is stored already.
- Accounts: one account; whoever is signed in can sign in again; the last passkey stays;
  no request holds the connection for ever.
- Metrics: each figure is what its comment defines and agrees with the others about it.
- Quarantine: a mark mutes a flaky step's effect on health, and nothing else.
- Registration: a repository is active only with a hook, and pending only for a reason; a
  token goes to its own instance only; a delivery is taken for no repository but the one
  that asked for it; nothing is left of a removed repository's runs.
- Run actions: what is offered is what is accepted. Settings: no change is lost.
- Server: each tracked repository is polled again and again, whatever stops and fails.

## 2. The modules

```
RunData ─ GitHubForge ─┬─ WebhookReceiver ─┬─ Ingestion ─┬─ MCIngestion, MCPolls
          RunStore ────┴─ Reconciler ──────┘      │      └─ IngestionTypeProofs ─ IngestionProofs ─ PollProofs
                                      RunMirror ──┴──────────────── MirrorProofs ──┘

RepositoryStore ─ Registration ─┬─ RunRequests ─┬─ Dashboard ─┬─ MCDashboard
                                └─ Tracking ────┤             └─ DashboardProofs
                                   Settings ────┘
Keyring ─ Accounts ─ AccountsProofs
Figures ─┬─ Metrics ─┬─ MCMetrics
         │           └─────── MetricsProofs
         └─ FiguresProofs ────┘
```

`RunRequests` uses `Figures` too, and `DashboardProofs` uses `FiguresProofs`.

### Ingestion of one repository

Runs of different repositories share no row, so one repository is modelled.

- **RunData** – the shapes of listings, events and rows, and what is abstracted: every
  status but `completed` is one value; `run_started_at` is the attempt that started then;
  commit metadata is one bit, known or NULL; a job's contents are its phase.
- **GitHubForge** (external) – the forge as the code uses it: runs and jobs progress, a
  completed run may be re-run, each change adds a delivery to `net`. A delivery is never
  removed from `net`: it may be received late, twice or not at all. A page is its ETag.
  `Conditional` tells GitHub from Forgejo. Some releases of Forgejo have no endpoint for a
  run's jobs; `servesJobs` says whether the instance does, and `Upgrade` that it now does.
- **RunStore** – `runs` and `jobs`, and each writer's progress through `UpsertRun`
  (SELECT, then UPDATE or INSERT), then for each job `UpsertJob` (likewise) and
  `ReplaceSteps` (one transaction). An INSERT that lost the race fails on UNIQUE.
- **WebhookReceiver** – a handler receives a delivery, has it stored, answers 202 or 500.
- **Reconciler** – `ReconcileRepo`: read the ETag and run states, list, fetch the jobs of
  the runs that are not up to date one request at a time, store run after run, save the
  ETag last; every error ends the poll. Forgejo's 404 for a run's jobs is no error: the run
  is stored without any (`ServedJobs`).
- **Ingestion** composes them, and adds a restart: what is in memory is gone.
- **RunMirror** – what all of that promises, in two actions: an attempt ends on the forge
  for good, and the stored row of a run learns something the forge's run was: that it
  started, or how one of its attempts ended. A row may lag, be repeated or go back to an
  older truth; it never invents an ending and a run once stored stays. `Ingestion`'s
  property `MirrorsForge` is `RunMirror`'s specification under the refinement mapping
  `Mirror` (its `INSTANCE` in `Ingestion`).

| Variable | In the code |
| --- | --- |
| `forge`, `fjobs`, `net`, `outcome`, `servesJobs` | the forge's runs, their jobs, deliveries; history of how attempts ended; whether it serves jobs |
| `runs`, `jobs` | tables `runs`, `jobs` with `steps` |
| `writer[w]` | the local state of a handler or poll inside the store's calls |
| `poll[p]` | the local variables of `ReconcileRepo` and `ListRecentRuns` |
| `etag` | `repos.reconcile_etag` |
| `received`, `touched`, `acked`, `faults` | the bounds' counters; history of deliveries handled and answered |

### The dashboard's repositories, requests and settings

What a delivery or a poll stores is the matter of `Ingestion`; here it is only that some run
of the repository is stored, so that many operations on several repositories can be
composed.

- **RepositoryStore** – the tables `repos`, `forge_tokens` and (per repository: any or none)
  `runs`, with the constraints that matter (uniqueness, the foreign key and its cascade),
  and the webhooks on the forges. Repositories of different names share only the saved
  tokens, so there is one name, tracked at several *places*: a forge and an instance URL
  as somebody typed it. A token is the instance it was issued for, a secret the number of
  its repository.
- **Registration** – `Registrar.Register`, one call or statement a step, and what cutting a
  request short leaves behind.
- **Tracking** – which repository a delivery is taken for and whether its signature
  matches; the reconciler's pass over all repositories by one goroutine.
- **RunRequests** – re-run, cancel, job log, discovery: run, repository, token and forge,
  one after the other; the end of a log as a ring of lines under a cap of bytes.
- **Settings** – a PATCH reads and writes the overrides in one transaction, which holds the
  only connection.
- **Dashboard** composes them under the server's life: a signal starts the drain and ends
  the reconciler's context, Shutdown waits for the requests in progress until its timeout,
  then the database is closed; or the process is killed; then it starts again.

| Variable | In the code |
| --- | --- |
| `repos`, `created`, `saved`, `runs` | tables `repos`, `forge_tokens` and `runs`; how many rows were ever created, whose next number stands for the random id and secret |
| `hooks` | the webhooks that exist on the forges; none is ever removed |
| `request[s]` | the local variables of one HTTP handler, from registration to delivery |
| `pass` | the local variables of `ReconcileAll` and of the poll it is in |
| `overrides`, `patch`, `holder` | the settings' row, the PATCHes in progress, whose transaction has the connection |
| `server` | `up`, `draining`, `closing`, `down` |
| `requests`, `faults`, `cut` | the bounds' counters; history of registrations cut short |

### Accounts

**Accounts** has one step per statement of the five dashboard requests (and their options
requests): register, sign in, add a passkey, revoke one, sign out. `conn` is the slot whose
transaction holds the connection. Numbers stand for random ids: what a request makes has
the number of the request. The WebAuthn library is external: it accepts an answer exactly
when it was made for the ceremony's user by a passkey the ceremony offered.

**Keyring** – what these requests promise together, without requests: passkeys are made for
an account, or to found one; an account is founded by its passkey's ceremony, once, and
stays; a passkey opens the account it was made for, no other, and is revoked only beside
another of the account; a session begins for an account with a passkey, and ends. A request
must hold a passkey to store it (`held`), and may take hold of one that is enrolled or was
never revoked (`Hold`). A passkey revoked while a request held it may be stored again
(`Return`): the code does that and its specification says otherwise, see the violations
below. What `Keyring` does exclude is that a revoked passkey comes back in any other way, in
particular that a request begun after the revocation brings it back.
`Accounts`'s property `KeepsKeyring` is `Keyring`'s specification under the refinement
mapping `Ring`: the ceremonies' handles say whom a passkey was made for, the requests'
progress which passkeys are held, the tables and the history `revoked` the rest; other
progress, the connection and expired ceremonies are hidden. What Keyring does not promise,
the code does not either: that there is one account, and that an account has a passkey from
the start (see the violations below).

### Metrics

**Figures** is the arithmetic: nearest-rank percentile, windows, buckets, pages (by the
service from a list, and by the store with one row too many). A rate is the pair of its
counts; the code's floating-point comparisons (a rate of at least 0.2, a rank of 0.9n) give
the same answers for the sizes that occur.

**Metrics** holds the stored runs with their steps and the quarantine marks, changes them
as ingestion and requests do, and defines every figure over that state: health signals,
the trends, the list of pipelines with its filter and sorts, unhealthy and flaky steps, pass
rate, time to recovery, failure groups and stages, the run list. Where the code leaves an
order open (a sort of equal times, a Go map), the operator ranges over all of them. A step
of one name may be in several jobs of a run (`JobSteps`), and figures count its occurrences
(`Occurrences`), as the store's join returns them.

The driver writes a timestamp as Go's `time.Time` prints itself, in whatever zone it is in,
and SQLite compares the text: `TextBefore`. A start is in the zone its forge gave it in
(`offset`), the moments of the insights' windows in the server's (`ServerOffset`), with the
clock reading that `time.Now()` has behind the zone (`StartsPast`). The code compares
instants. Left out: averages of queue and execution time, runner minutes, categories by
name, branches, and the reads of one figure being several statements.

## 3. What TLC checks

| Run | Shows | Bounds |
| --- | --- | --- |
| `webhooks` | `TypeOK`, `RowCoherent`, `AckedIsStored`, `ETagVouches`, `NoFabricatedCompletion`, `RunAndJobsAgree`, `NotModifiedIsSound`, `MetadataNeverLost`, `ReopenedOnlyForCause`, and that `Ingestion` implements `RunMirror` (`MirrorsForge`) | one run with one job, two handlers and a poll at once; two deliveries and one fault around one attempt, or a re-run and one delivery, late or not |
| `polls` | `EveryListedRunRecorded`, `PollsConverge`, `JobsConverge` | polls alone, one fault: of GitHub over two runs and a page of one, or two at once of a Forgejo repository with one run, on an instance that serves jobs, does not, or does after an upgrade |
| `accounts` | `TypeOK`, `SignedInHasPasskey`, `KeepsAPasskey`, `EveryRequestAnswered`, and that `Accounts` implements `Keyring` (`KeepsKeyring`) | two requests at once, five in all, one fault; new installation or two passkeys |
| `dashboard` | `TypeOK`, `TokensStayHome`, `PendingIsExplained`, `ActiveHasHook`, `NoOrphanRuns`, `OfferedActionsAreTaken`, `LogTailIsItsEnd`, `DeliveriesFindTheirRepository`, `PatchIsExact`, `EveryRepositoryPolled` | two repositories at three places (GitHub and two spellings of one Forgejo instance), two handlers at once, two requests of the dashboard and any number of deliveries and passes, one fault |
| `metrics` | `TypeOK`, eight properties of the figures, `QuarantineMutesOnlyFlakiness` | three runs of two pipelines over three instants, two over four, one over five (`Extent`); one step in two jobs; windows of three runs (two buckets of a trend), of one, three and four units of time; two zones while there are at most two runs (`ZonedRuns`); a mark (`MarkedRuns`), and a re-run, timeout, cancellation or different results of the step in its two jobs (`RareRuns`), while there is one |

**Why these are enough.** A row is a function of its run, and its writers meet only there:
two handlers and a poll on one run give each pair of writers on one key, with a third
between them. Two attempts are needed for late payloads of an earlier one; a re-run takes
the place of a delivery and of the fault (`Bounded` of `MCIngestion`), because a late
payload meets the new attempt with or without them. Two runs with a page of one make a run
fall off the page. Two requests interleave every pair of account operations, and five
requests are enough to set up each (a ceremony takes two). Two spellings of one instance are
what `tokenScope` must treat as one and the table of repositories treats as two; two
requests at once interleave two registrations of one place, a registration with the removal
of its repository, and either with a delivery, a pass and a stop of the server. Three runs
give two failures before a recovery, a step that failed, passed and was cancelled, and a
page after the first; three instants put them in different windows. One run is flaky by
itself when its two jobs end differently, so a mark and its expiry are checked with one run.
The window is of as many runs as there are, so that in TLC the earlier window is empty (the
theorems hold for every size), and runs of two zones fill few pages. The proofs remove the
bounds for nearly all the safety properties of ingestion, accounts and the dashboard.

Deadlock is not checked in any run: the system really stops when the bounded forge,
deliveries, requests or time are used up. In `polls`, `accounts` and `dashboard` the
liveness properties say what must not wait.

**Fairness.** Weak fairness of each writer's, handler's and poll's steps: the Go scheduler
runs every goroutine, and the ticker keeps ticking. It includes that a forge answers each
request: the HTTP clients set no response timeout (`github/client.go:71`), so a forge that
accepts a request and never answers stops all polling, which is a hazard and not modelled.
In Dashboard, of the reconciler, of the patches, whose transaction the reconciler may wait
for, and of the requests still under way when the server closes, which Shutdown waits for;
and a server told to stop stops, and is started again by whoever runs it. The other
requests need not end.
In Accounts, weak fairness of each request's steps: a goroutine is scheduled, and
`database/sql` hands a free connection to a request waiting for it. Nothing is promised of
the forge's progress, of deliveries, of requests arriving, or of faults.

### Where the code and its documents disagree

Each is a run TLC must find violated.

- `stub_filled_in` – a `workflow_job` delivery handled after the run was completed and its
  ETag saved turns the run back into a stub; every later poll is answered 304, so nothing
  "fills it in" (`ingestion/webhook.go:155`).
- `skip_is_safe` – the jobs of a run are skipped when status and conclusion match, also
  when the run came by a delivery and its jobs' deliveries were lost: the skipped call
  would not "return data identical to what's already persisted" (`ingestion.go:212`).
- `one_account` – two registrations that finish together both count no account and both
  insert one (`auth/sqlite/store.go:36`).
- `account_has_passkey` – a failure between the account and its passkey leaves an account
  nobody can sign in to, and no second registration (`auth/service.go:85`).
- `revoked_stays_out` – a revoked passkey "can no longer be used to log in"
  (`openspec/specs/dashboard-auth/spec.md:99`); a login that had loaded it before the
  revocation stores it again (`auth/service.go:131`, `:141`; `auth/sqlite/store.go:87`), and
  it opens the account from then on.
- `deliveries_recorded` – a delivery "with a valid signature for a tracked repository" is
  recorded (`openspec/specs/forge-ingestion/spec.md:40`); when a name is tracked on two
  Forgejo instances, `RepoByIdentifier` (`ingestion/sqlite/runs.go:14`) does not look at the
  instance, and the delivery of one is checked against the secret of the other's row and
  answered 401. `DeliveriesFindTheirRepository`, in the passing run, says what does hold: it
  is never taken for the other.
- `failed_steps_listed` – the insights and the run outcomes count a timeout as a failure,
  so that "'failed' can't mean two things" (`metrics/outcome.go:23`); step figures and
  health count only `failure` (`metrics.go:717`, `:859`), so a step that always times out is
  not among the unhealthy steps and its pipeline is healthy.

Three more are not runs of their own; the properties named say what does hold.

- `windowSteps` lists the steps "of runs that started in [since, until)"
  (`metrics/insights.go:162`), and the store's `PipelineRuns` returns a pipeline's runs "most
  recent first". Both compare the text of timestamps, so a run stored in another zone than the
  server's may be counted without its steps near an end of a window, or be taken for more
  recent than it is. `InsightWindowsMeet` says how near (`Clear`); `PipelineListPages` and
  `TrendAccountsForWindow` ask for the order in time only of a pipeline whose runs were
  stored in one zone (`OneZone`). Without these provisos TLC refutes all three within one or
  two runs.
- `ListFlakyRuns` returns "every run in which the named step failed" (`metrics/metrics.go:409`);
  a run is listed once for each of its jobs in which the step failed. `FlakyViewsAgree` says
  that the runs listed are those, and the entries as many as the failures its rate counts.
- A log's end is "marked truncated" beyond the cap (`ingestion/github/joblog.go:17`), which
  it need not be; see section 5.

## 4. What is proved

By TLAPS, for every value of the constants (any numbers of runs, attempts, jobs, handlers,
polls, requests, faults; either forge client), from the `ASSUME`s of the modules only.

**Ingestion** (`IngestionTypeProofs`, `IngestionProofs`). `TypeInv` adds to `TypeOK` what a
writer and a poll have in hand at each step (that a run to be written is a run). The safety
properties are not inductive: a row is written from a payload read long before. Two
invariants on top of it are.

1. `TruthInv`: whatever a delivery in `net`, a listing, a writer's row or a stored row says
   of a run happened on the forge. The forge never takes back how an attempt ended, so late
   is not false (`TruthLasts`): every payload in anybody's hands stays true while the forge
   moves. From it follow `RowCoherent`, `NoFabricatedCompletion` and `RunAndJobsAgree`.
2. `WroteInv`: what a writer's progress says it is past is in the tables, and rows are never
   deleted. From it follow `AckedIsStored`, `ETagVouches` (a poll at its last step is past
   all runs of its page) and `MetadataNeverLost`.

**Accounts** (`AccountsProofs`). `IInv` is `TypeOK` with: numbers in use are distinct
(`NumbersInv`), a stored passkey belongs to the user of the ceremony that made it
(`PasskeysInv`), what each request has in hand at each step (`RequestInv`), and
`SignedInHasPasskey`. `RequestInv` is needed because between the account's INSERT, the
passkey's and the session's a request relies on rows others may remove: a request about to
create a session has an account with a passkey, which stays because a revocation removes
one only while it holds the connection and has seen another. Proved: types,
`SignedInHasPasskey`, `KeepsAPasskey`.

`AccountsKeepKeyring`: `Accounts` implements `Keyring`. It needs `RingInv` on top: the
account a passkey is stored for, or a request goes on for, exists (accounts are never
deleted), the number of a request under way is not yet a session's, and a passkey that a
request is about to store is one it took hold of before it was revoked, if it was. Then six
of the statements are a step of `Keyring` each (the ceremony's INSERT, the account's, the
passkey's and the session's, and the two DELETEs), or none when they find nothing to change
(a passkey stored again at sign-in); so is the expiry of a session, and what a request comes
to hold when it loads a passkey. All else is a stutter, or a request's letting go.

**Refinement** (`MirrorProofs`). `IngestionMirrors`: `Ingestion` implements `RunMirror`. The
initial states correspond, and each step is a stutter, an ending on the forge, or one row
learning what its writer has in hand: that this is true of the forge is `TruthInv`, that it
is the row of a run is part of `WroteInv`.

**Dashboard** (`DashboardProofs`). `Sane` is inductive: `StoreInv` (rows, tokens, runs and
hooks are well-formed; an active repository has its hook; runs belong to rows), `RequestInv`
and `PassInv` (what each request and the pass have in hand). Two parts are needed beyond
the properties. `Sound`: the token and place that a request or the pass remembers agree,
although the row they were read from may be gone, which is what makes a stale copy
harmless. Numbers: no row, webhook or request has a number above `created`, so that a new
repository's secret is not one an old webhook signs with (`Room` says that the bound on
numbers leaves one for each registration under way). From `Sane` follow the types,
`TokensStayHome`, `ActiveHasHook`, `NoOrphanRuns` and `DeliveriesFindTheirRepository`
(`DeliveriesFind`: a delivery is taken only for the row with the secret it is signed with,
which is tracked on the instance that sent it).
`PendingIsExplained` is inductive on top
of it: a pending row is some request's or was cut, and no step but the end of its
registration or a cut takes the request away. `SettingsInv` (the patch that holds the
connection read what is still stored) gives `PatchIsExact`.

**Polls** (`PollProofs`). `NotModifiedSound`: whenever a poll is answered 304, the runs of
the saved page that no delivery was about are stored as that page listed them.
`ReopenedForCause`: a completed row no delivery was about is reopened only when the forge
has re-run the run since. Neither is inductive. `PollInv` adds what makes them so: the
forge shows a run's attempts and statuses in one order only (`Past`), so that a page, once
shown, stays behind the forge for good (`PagesBehind`); a row no handler touched is behind
the forge, and behind the page that a poll is storing (`RowsBehind`); the runs a poll skips
or is done with are stored as listed (`ListedStored`); and the ETag a poll sent is still the
saved one, and not that of the page it was answered (`ETagKnown`), so that saving its own
replaces a page by a newer one. All of it holds with one poll at a time. For GitHub that is so (one
reconciler goroutine, no other caller), which is an assumption of `Reconciler`
(`PollersAssumption`). On Forgejo, where a push delivery starts a poll beside the
reconciler's, no ETag is kept, so `NotModifiedSound` holds anyway; `ReopenedForCause` is
stated for one poll (`OnePoll`): of two, the slower may store an older page over a newer.

**Dashboard's offers and logs** (also in `DashboardProofs`). `OfferedTaken`: what the run list
offers for a run, re-run or cancel, is what the run action accepts for it. `LogTailEnds`: the
ring in which `tailLines` keeps lines is after every line the end of what was read
(`KeepsTheEnd`), so that what is shown of a job's log is the end of what was read of it, for
logs of any length and any cap, and it is called truncated exactly when lines of that are
missing; within the cap all of the log is read.

**Figures** (`FiguresProofs`). The percentile's rank is the nearest rank, and what is at that
place of the sorted values has as many values below and above it as the definition asks;
the page the store's query cuts is the page the service would cut from the whole list;
consecutive pages meet and `more` is said exactly when the next has an entry; the two
windows are together the most recent runs; the buckets of a trend are consecutive parts of
the window, each place in one of them. A recursive function is shown to be what it should be
from its least wrong value (`LeastNumber`, `SameIteration`, `IterationExists`), which takes
no induction theorem.

**Metrics** (`MetricsProofs`), for any finite sets of pipelines, steps and jobs, any zones,
windows, bucket size, spans and time. `TablesInv` is inductive: beyond the types, a run with
a conclusion ended, not before it started, and none starts in the future (`GoodRows`); the
latest run of a pipeline and the order of a trend depend on it. On it rest:

- `InsightWindows`: no run is in both windows of an insight, and a run is in the one it
  started in, and its steps are read when it is counted, unless it started nearer to an end
  of a query's window than its zone is to the server's (`PastWhenLater`: beyond that the text
  and the instant are on one side).
- `FlakyViews`: the flaky view, the step figures and the health signals have one notion of
  a flaky step, and one rate for it, by which its failed runs are listed.
- `MarksMute`: a mark, set, renewed, removed or expired, shows or hides only the step it
  marks, only while that step is flaky; setting or removing one changes no number of
  distinct steps.
- `PercentilesAreNearest`: a duration reported as p50 or p90 is the nearest-rank one.
- `RunListPaged`, `PipelineListPaged`: the two lists are what their pages make up, for every
  filter, either sort and any page size; the orders are total, also those of text
  (`StartsInOrder`); no pipeline is in neither the healthy nor the unhealthy list, or in both.
- `FailureViews`: failure groups, stages and rates count the same failures.
- `RecoveryIsPerOutage`: the loop of `meanTimeToRecovery` adds up each outage once. Its
  invariant (`Counted`) says what it knows after each run: the outages that ended by then,
  and the beginning of the one that has not. Each outage but the last is over before the
  next begins, so that a run changes the sum at one outage only (`TotalChanged`).
- `TrendsAddUp`: the buckets of a trend account for every run of the window, once.

The order in time that the list of pipelines and the trends promise is proved where a
pipeline's runs are in one zone (`OneZone`).

The lemmas under them are about sorting: `InOrder(S, ord)` is the sequence of the finite
set S in the order ord, and a total order has exactly one (`InOrderSorts`). The model
sorts with it, and sums with recursive functions, because both can be reasoned about from
their definitions, where folds would need induction over an operator.

**Only model-checked.** Liveness (`PollsConverge`, `JobsConverge`, `EveryListedRunRecorded`,
`EveryRequestAnswered`, `EveryRepositoryPolled`) is out of the prover's reach.
All other properties that the passing runs check are theorems, so that the bounds of the
runs, kept small enough for a minute each, limit only what is said of liveness. Requests and patches
take the first free slot (`FreeSlot` of Registration and of Accounts, `FreeEditor`), for the
slots are alike.

## 5. Not modelled

- **REST and MCP handlers, configuration, encryption, migrations, the web interface.**
  Parsing, formatting and presentation, without state that interleaves with anything. The
  constraints the migrations create are part of the store modules.
- **API tokens.** Issuing, looking up and revoking one is a single statement each, on a row
  nothing else touches; there is nothing to interleave.
- **Rate limits.** The GitHub client remembers the limits of its last answer under a mutex,
  to show them; nothing waits for them.
- **Parts of the metrics**: averages of queue and execution time, runner minutes, categories
  by name, branches, one run's steps: sums and projections of the rows the other figures use.
  A figure is computed from one state, where the code reads runs, steps and marks one after
  the other; the repository promises no snapshot.
- **Logs beyond the cap.** For a log of more than 64 MiB the end shown is that of its first
  64 MiB (`ingestion/github/joblog.go`, `maxLogBytes`), and `LogTailIsItsEnd` says no more of
  it. The comment there has such a tail "marked truncated"; the code marks it when more lines
  were read than asked for, so that a log of few and very long lines is not. That long lines
  are cut short (`MaxLogLineLength`) is left out.
- **A forge that never answers**, see fairness above.
- **A status that is stale when a run action is checked against it**, or a run that fell off
  the forge's page before any poll stored it: the forge refuses the one, nothing looks for the
  other, and no property speaks of either.
- **The reconciler at shutdown**: it is stopped by the signal's context but not awaited
  (`main.go:202`), and may run into the closed database. The model ends its pass with the
  signal.
- **The webhook of a removed repository** stays on the forge, in the model as in the code;
  its deliveries are refused, as `DeliveriesFindTheirRepository` says.
