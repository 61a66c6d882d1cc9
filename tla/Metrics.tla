------------------------------- MODULE Metrics -------------------------------
(***************************************************************************)
(* The figures computed from the stored runs and steps of every pipeline     *)
(* (metrics/metrics.go, insights.go, flaky.go, quarantine.go and their store) *)
(* while runs are queued, started, finished and re-run, steps are            *)
(* quarantined and time passes.                                             *)
(*                                                                         *)
(* The runs table is a sequence in the order of insertion; the index stands   *)
(* for the id that breaks ties between equal start times.  A run's conclusion *)
(* follows from its steps', as on the forge, and they are stored with it; a   *)
(* step of one name may be in several of its jobs.  A start is kept in the    *)
(* zone the forge gave it in, and the store compares the text of timestamps,  *)
(* the code their instants.  A figure is computed from one state, where the   *)
(* code reads runs, steps and quarantines one after the other.               *)
(***************************************************************************)
EXTENDS Figures, SequencesExt

CONSTANTS
    Pipelines,
    Steps,
    JobSteps,        \* the steps of each job of a run, as pairs
    Offsets,         \* the zones starts are stored in, by their offset from UTC
    ServerOffset,    \* the server's zone
    MaxRuns,         \* bound: runs stored
    MaxTime,         \* bound: the clock
    Extent,          \* bound: runs stored and the clock together
    WindowRuns,      \* a pipeline's window, in runs
    Spans,           \* the lengths of the insights' windows, in time
    BucketSize,      \* runs in a bucket of a trend
    QuarantineTime,  \* how long a quarantine lasts
    MaxMarks,        \* bound: quarantines set
    MarkedRuns,      \* bound: runs stored where a step is quarantined
    RareRuns,        \* bound: runs stored where one is re-run, times out, is cancelled or
                     \*        has jobs in which a step's results differ
    ZonedRuns        \* bound: runs stored where one started in another zone than the server's;
                     \*        and no mark is set then

ASSUME MetricsAssumption ==
    /\ {MaxRuns, MaxTime, WindowRuns, BucketSize, QuarantineTime} \subseteq Nat \ {0}
    /\ Spans \subseteq Nat \ {0}
    /\ {Extent, MaxMarks, MarkedRuns, RareRuns, ZonedRuns} \subseteq Nat
    /\ IsFiniteSet(Pipelines) /\ IsFiniteSet(Steps)
    /\ IsFiniteSet(JobSteps) /\ \A e \in JobSteps : e = <<e[1], e[2]>> /\ e[2] \in Steps
    /\ Offsets \subseteq Int /\ ServerOffset \in Offsets

VARIABLES
    rows,    \* the runs table with the steps of each run
    expiry,  \* the step_quarantines table: when each mark expires; 0 is no mark
    marked,  \* how many quarantines were set
    now      \* the clock

vars == <<rows, expiry, marked, now>>

Conclusions == {"success", "failure", "timed_out", "cancelled"}
StepResults == {"running"} \union Conclusions
OrNone(S) == S \union {"none"}

\* started 0 is a NULL started_at: a run known from a job's event only.
RunRow == [pipeline: Pipelines, conclusion: OrNone(Conclusions), started: 0..MaxTime,
           offset: Offsets, completed: 0..MaxTime, steps: [JobSteps -> StepResults]]
Ids == 1..Len(rows)
Completed(i) == rows[i].conclusion # "none"

\* isFailed
Failing == {"failure", "timed_out"}
Failed(i) == rows[i].conclusion \in Failing
Passed(i) == rows[i].conclusion = "success"

Init ==
    /\ rows = <<>>
    /\ expiry = [k \in Pipelines \X Steps |-> 0]
    /\ marked = 0
    /\ now = 1

-----------------------------------------------------------------------------
(* What happens to the tables *)

NewRow(p, t, z) ==
    [pipeline |-> p, conclusion |-> "none", started |-> t, offset |-> z, completed |-> 0,
     steps |-> [e \in JobSteps |-> "running"]]

Zoned == \E i \in Ids : rows[i].offset # ServerOffset

\* A run appears, as a stub that has not started or already started.
AddRun(p) ==
    /\ Len(rows) < MaxRuns /\ Len(rows) + now < Extent
    /\ marked > 0 => Len(rows) < MarkedRuns
    /\ Zoned => Len(rows) < ZonedRuns
    /\ \E t \in {0, now}, z \in Offsets :
         /\ z # ServerOffset => t = now /\ Len(rows) < ZonedRuns /\ marked = 0
         /\ rows' = Append(rows, NewRow(p, t, z))
    /\ UNCHANGED <<expiry, marked, now>>

\* It starts, or starts again: a re-run's row is of the new attempt while the
\* steps stored are still the last attempt's.  A defect: how it ended is kept.
StartRun_KeepsConclusion(i) ==
    /\ rows[i].started = 0 \/ (Completed(i) /\ Len(rows) <= RareRuns)
    /\ \E z \in Offsets :
         /\ z # ServerOffset => Len(rows) <= ZonedRuns /\ marked = 0
         /\ rows' = [rows EXCEPT ![i].started = now, ![i].offset = z, ![i].completed = 0]
    /\ UNCHANGED <<expiry, marked, now>>
StartRun(i) ==
    /\ rows[i].started = 0 \/ (Completed(i) /\ Len(rows) <= RareRuns)
    /\ \E z \in Offsets :
         /\ z # ServerOffset => Len(rows) <= ZonedRuns /\ marked = 0
         /\ rows' = [rows EXCEPT ![i].started = now, ![i].offset = z, ![i].completed = 0,
                                 ![i].conclusion = "none"]
    /\ UNCHANGED <<expiry, marked, now>>

FinishRun(i) ==
    /\ rows[i].started > 0 /\ ~Completed(i)
    /\ \E c \in Conclusions :
       \E results \in [JobSteps -> IF c \in Failing THEN {"success", c} ELSE {c}] :
         /\ c \in {"timed_out", "cancelled"} => Len(rows) <= RareRuns
         /\ Len(rows) <= RareRuns \/ \A d, e \in JobSteps : d[2] = e[2] => results[d] = results[e]
         /\ c \in Failing => \E e \in JobSteps : results[e] = c
         /\ rows' = [rows EXCEPT ![i].completed = now, ![i].conclusion = c, ![i].steps = results]
    /\ UNCHANGED <<expiry, marked, now>>

Known(p) == \E i \in Ids : rows[i].pipeline = p

QuarantineStep(p, s) ==
    /\ marked < MaxMarks /\ Len(rows) <= MarkedRuns /\ ~Zoned
    /\ Known(p)
    /\ marked' = marked + 1
    /\ expiry' = [expiry EXCEPT ![<<p, s>>] = now + QuarantineTime]
    /\ UNCHANGED <<rows, now>>

UnquarantineStep(p, s) ==
    /\ Known(p)
    /\ expiry' = [expiry EXCEPT ![<<p, s>>] = 0]
    /\ UNCHANGED <<rows, marked, now>>

Tick ==
    /\ now < MaxTime /\ Len(rows) + now < Extent
    /\ now' = now + 1
    /\ UNCHANGED <<rows, expiry, marked>>

Next ==
    \/ \E p \in Pipelines : AddRun(p)
    \/ \E i \in Ids : StartRun(i) \/ FinishRun(i)
    \/ \E p \in Pipelines, s \in Steps : QuarantineStep(p, s) \/ UnquarantineStep(p, s)
    \/ Tick

Spec == Init /\ [][Next]_vars

-----------------------------------------------------------------------------
(* Timestamps in the store: TEXT, as time.Time's String writes them *)

\* "+0100" is before "-0500".
OffsetBefore(a, b) == IF a >= 0 THEN b < 0 \/ a < b ELSE b < a

\* The clock of the zone comes first in the text, then its offset.
Text(t, offset) == [clock |-> t + offset, offset |-> offset]
TextBefore(x, y) ==
    x.clock < y.clock \/ (x.clock = y.clock /\ OffsetBefore(x.offset, y.offset))
StartText(i) == Text(rows[i].started, rows[i].offset)

\* ORDER BY started_at DESC, id DESC: NULLs come last.
StartsLater(i, j) ==
    rows[i].started > 0 /\ (rows[j].started = 0 \/ TextBefore(StartText(j), StartText(i)))
MoreRecent(i, j) == StartsLater(i, j) \/ (~StartsLater(j, i) /\ i > j)

-----------------------------------------------------------------------------
(* Health of a pipeline, over its most recent runs *)

\* PipelineRuns without its limit
RunsOf(p) ==
    InOrder({i \in Ids : rows[i].pipeline = p}, {e \in Ids \X Ids : MoreRecent(e[1], e[2])})

\* PipelineRuns of twice the window, split.
Windows(p) ==
    LET all == RunsOf(p)
    IN  SplitWindow(SubSeq(all, 1, Least(2 * WindowRuns, Len(all))), WindowRuns)

Rate(S, T) == [num |-> Cardinality(S), den |-> Cardinality(T)]

\* overallFailureRate
OverallFailureRate(seq) ==
    LET done == {i \in ToSet(seq) : Completed(i)}
    IN  Rate({i \in done : rows[i].conclusion = "failure"}, done)

\* durationSeconds of the runs of a list that have one, sorted
Duration(i) == rows[i].completed - rows[i].started
Timed(seq) == {i \in ToSet(seq) : rows[i].started > 0 /\ rows[i].completed > 0}
Quicker(i, j) == Duration(i) < Duration(j) \/ (Duration(i) = Duration(j) /\ i < j)
Durations(seq) ==
    LET order == InOrder(Timed(seq), {e \in Ids \X Ids : Quicker(e[1], e[2])})
    IN  [k \in 1..Cardinality(Timed(seq)) |-> Duration(order[k])]

\* regressed: half as slow again
Regressed(current, prior) ==
    LET c == Percentile(Durations(current), 9, 10)
        p == Percentile(Durations(prior), 9, 10)
    IN  c # 0 /\ p # 0 /\ 2 * c >= 3 * p

\* The occurrences of a step in runs S, each a run and a step of a job in it.
Occurrences(S, s) == S \X {e \in JobSteps : e[2] = s}
Result(o) == rows[o[1]].steps[o[2]]

\* aggregateSteps, for one step of a pipeline over runs S
StepFigures(S, s) ==
    LET done   == {o \in Occurrences(S, s) : Result(o) # "running"}
        failed == {o \in done : Result(o) = "failure"}
    IN  [rate  |-> Rate(failed, done),
         flaky |-> failed # {} /\ \E o \in done : Result(o) = "success"]

Quarantined(p, s) == expiry[<<p, s>>] > now

\* countsAsFlaky
CountsAsFlaky(p, s, S) == StepFigures(S, s).flaky /\ ~Quarantined(p, s)

\* computeHealth; a failure rate of at least 0.2 is elevated
TriggeredSignals(p) ==
    LET w    == Windows(p)
        rate == OverallFailureRate(w.current)
    IN  (IF rate.den > 0 /\ 5 * rate.num >= rate.den THEN {"failure_rate"} ELSE {})
        \union (IF Regressed(w.current, w.prior) THEN {"duration_regression"} ELSE {})
        \union (IF \E s \in Steps : CountsAsFlaky(p, s, ToSet(w.current))
                THEN {"flaky_step"} ELSE {})

\* failureRateTrend: the runs in buckets, oldest first, those without a completed
\* run left out.
Buckets(p) == BucketRuns(Reverse(Windows(p).current), BucketSize)
FailureRateTrend(p) ==
    LET buckets == Buckets(p)
        shown   == {b \in DOMAIN buckets : OverallFailureRate(buckets[b]).den > 0}
        order   == InOrder(shown, Ascending(shown))
    IN  [k \in 1..Cardinality(shown) |-> OverallFailureRate(buckets[order[k]])]

\* ListUnhealthySteps, of one pipeline.  A defect: a mark hides any step.
UnhealthySteps_MarkHides(p) ==
    LET S == ToSet(Windows(p).current)
    IN  {s \in Steps : LET f == StepFigures(S, s) IN
           ~Quarantined(p, s) /\ (f.flaky \/ f.rate.num > 0)}
UnhealthySteps(p) ==
    LET S == ToSet(Windows(p).current)
    IN  {s \in Steps : LET f == StepFigures(S, s) IN
           ~(f.flaky /\ Quarantined(p, s)) /\ (f.flaky \/ f.rate.num > 0)}

\* ListFlakyRuns: an entry for every time a step failed in a run of the window.
FlakyRuns(p, s) == {o \in Occurrences(ToSet(Windows(p).current), s) : Result(o) = "failure"}

\* durationTrend: the median and the 90th percentile of each bucket with a timed
\* run, at the start of the last run in it that has one.
LastStart(bucket) ==
    LET last == {k \in DOMAIN bucket : /\ rows[bucket[k]].started > 0
                                      /\ \A j \in DOMAIN bucket : j > k => rows[bucket[j]].started = 0}
    IN  IF last = {} THEN 0 ELSE rows[bucket[CHOOSE k \in last : TRUE]].started
DurationTrend(p) ==
    LET buckets  == Buckets(p)
        shown    == {b \in DOMAIN buckets : Timed(buckets[b]) # {}}
        order    == InOrder(shown, Ascending(shown))
        point(b) == LET d == Durations(buckets[b])
                    IN  [at |-> LastStart(buckets[b]), runs |-> Len(d),
                         p50 |-> Percentile(d, 1, 2), p90 |-> Percentile(d, 9, 10)]
    IN  [k \in 1..Cardinality(shown) |-> point(order[k])]

-----------------------------------------------------------------------------
(* The list of pipelines *)

\* lastRunAt, of the runs read most recent first; 0 is none
LastRunAt(p) ==
    LET last == rows[Head(Windows(p).current)]
    IN  IF last.started > 0 THEN last.started ELSE last.completed

\* pipelineListQuery: the pipelines with a run, here of every repository and forge
ListedPipelines == {p \in Pipelines : Known(p)}

\* What the list shows of each of them (summarizeFromRuns), in the store's order: by
\* name, of which any order may be the alphabet's.
Summary(p) ==
    [pipeline |-> p, lastRunAt |-> LastRunAt(p),
     health |-> IF TriggeredSignals(p) = {} THEN "healthy" ELSE "unhealthy"]
Position(x, seq) == CHOOSE k \in DOMAIN seq : seq[k] = x
InOrderOf(names, summaries) ==
    InOrder(summaries, {e \in summaries \X summaries :
                          Position(e[1].pipeline, names) < Position(e[2].pipeline, names)})

\* listAcrossPipelines up to its page: those of another health left out; the sort by
\* last run is stable.
AcrossPipelines(all, health, sort) ==
    LET kept   == {k \in DOMAIN all : health \in {"any", all[k].health}}
        later  == {e \in kept \X kept : \/ all[e[1]].lastRunAt > all[e[2]].lastRunAt
                                        \/ all[e[1]].lastRunAt = all[e[2]].lastRunAt /\ e[1] < e[2]}
        order  == InOrder(kept, IF sort = "lastRun" THEN later ELSE Ascending(kept))
    IN  [k \in 1..Cardinality(kept) |-> all[order[k]]]

\* ListPipelines: the plain list is paged by the store's query, any other after all
\* of it is summarised.  A defect: the store pages it first.
ListPipelines_PagesFirst(all, health, sort, limit, offset) ==
    LET page == QueryPage(all, limit, offset)
    IN  [items |-> AcrossPipelines(page.items, health, sort), more |-> page.more]
ListPipelines(all, health, sort, limit, offset) ==
    IF health = "any" /\ sort = "name" THEN QueryPage(all, limit, offset)
    ELSE Paginate(AcrossPipelines(all, health, sort), limit, offset)

-----------------------------------------------------------------------------
(* The insights, over a span of time and every pipeline *)

\* WindowRuns: started_at >= since AND started_at < until, as text; NULL is in none.  The
\* query's moments are in the server's zone and end with a clock reading ("m=+..."), so
\* a start with the same text up to there comes before them.
StartsPast(i, moment) == TextBefore(Text(moment, ServerOffset), StartText(i))
StartedIn(since, until) ==
    {i \in Ids : rows[i].started > 0 /\ StartsPast(i, since) /\ ~StartsPast(i, until)}

\* GetFailureInsights reads both windows at once and divides them at the boundary, by
\* instant.  A defect: the run that started at the boundary goes with the earlier ones.
InsightRuns_BoundaryEarlier(span) ==
    LET both == StartedIn(now - 2 * span, now)
    IN  [current |-> {i \in both : rows[i].started > now - span},
         prior   |-> {i \in both : rows[i].started <= now - span}]
InsightRuns(span) ==
    LET both == StartedIn(now - 2 * span, now)
    IN  [current |-> {i \in both : rows[i].started >= now - span},
         prior   |-> {i \in both : rows[i].started < now - span}]

\* windowSteps of the window that ends now, by the runs they belong to.
StepRuns(span) == StartedIn(now - span, now)

PassRate(S) == Rate({i \in S : Passed(i)}, {i \in S : Passed(i) \/ Failed(i)})

FailedRuns(S, p) == {i \in S : rows[i].pipeline = p /\ Failed(i)}
TopFailingPipelines(S) == {p \in Pipelines : FailedRuns(S, p) # {}}

\* Every order slices.SortFunc may give the concluded runs of a pipeline: by the
\* time they finished, those that finished together in any order.
FinishOrders(S, p) ==
    {seq \in SetToSeqs({i \in S : rows[i].pipeline = p /\ (Passed(i) \/ Failed(i))}) :
        \A a, b \in DOMAIN seq : a < b => rows[seq[a]].completed <= rows[seq[b]].completed}

\* meanTimeToRecovery's loop over one pipeline's runs; down is when the outage
\* began, 0 of none.  A defect: an outage is counted from its last failure.
NothingDown == [total |-> 0, recoveries |-> 0, down |-> 0]
Recovered(acc, t) ==
    [total |-> acc.total + t - acc.down, recoveries |-> acc.recoveries + 1, down |-> 0]
RecoveryTimes_FromLastFailure(seq) ==
    LET acc[k \in 0..Len(seq)] ==
          IF k = 0 THEN NothingDown
          ELSE IF Failed(seq[k]) THEN [acc[k - 1] EXCEPT !.down = rows[seq[k]].completed]
          ELSE IF acc[k - 1].down # 0 THEN Recovered(acc[k - 1], rows[seq[k]].completed)
          ELSE acc[k - 1]
    IN  acc[Len(seq)]
RecoveryTimes(seq) ==
    LET acc[k \in 0..Len(seq)] ==
          IF k = 0 THEN NothingDown
          ELSE IF Failed(seq[k]) /\ acc[k - 1].down = 0
          THEN [acc[k - 1] EXCEPT !.down = rows[seq[k]].completed]
          ELSE IF Passed(seq[k]) /\ acc[k - 1].down # 0
          THEN Recovered(acc[k - 1], rows[seq[k]].completed)
          ELSE acc[k - 1]
    IN  acc[Len(seq)]

\* The failed executions of a step, and stageDistribution's count of them.
FailedSteps(S, s) == {o \in Occurrences(S, s) : Result(o) \in Failing}
StageFailures(S, s) == Cardinality(FailedSteps(S, s))

\* mostCommon over the counted conclusions, visited in some order (a Go map); the
\* alphabet decides a tie.  A defect: the one visited last decides it.
MostCommon_LastWins(counts, keys) ==
    LET best[k \in 0..Len(keys)] ==
          IF k = 0 THEN [key |-> "", count |-> 0]
          ELSE IF counts[keys[k]] >= best[k - 1].count
          THEN [key |-> keys[k], count |-> counts[keys[k]]]
          ELSE best[k - 1]
    IN  best[Len(keys)]
MostCommon(counts, keys) ==
    LET best[k \in 0..Len(keys)] ==
          IF k = 0 THEN [key |-> "", count |-> 0]
          ELSE IF \/ counts[keys[k]] > best[k - 1].count
                  \/ counts[keys[k]] = best[k - 1].count /\ keys[k] = "failure"
          THEN [key |-> keys[k], count |-> counts[keys[k]]]
          ELSE best[k - 1]
    IN  best[Len(keys)]

\* failureGroups: the possible entries of a step that failed, one for each order.
FailureGroups(S, s) ==
    LET counts == [c \in Failing |-> Cardinality({o \in Occurrences(S, s) : Result(o) = c})]
        seen   == {c \in Failing : counts[c] > 0}
    IN  {[conclusion |-> MostCommon(counts, keys).key,
          occurrences |-> counts["failure"] + counts["timed_out"]] : keys \in SetToSeqs(seen)}

\* ListFlakySteps' entries: flakyStep over a step's completed executions.  A
\* defect: those neither passed nor failed are left out of the rate.
FlakyStep_DecidedOnly(S, s) ==
    LET passed == {o \in Occurrences(S, s) : Result(o) = "success"}
        failed == {o \in Occurrences(S, s) : Result(o) = "failure"}
    IN  IF passed = {} \/ failed = {} THEN {} ELSE {Rate(failed, passed \union failed)}
FlakyStep(S, s) ==
    LET done   == {o \in Occurrences(S, s) : Result(o) # "running"}
        passed == {o \in done : Result(o) = "success"}
        failed == {o \in done : Result(o) = "failure"}
    IN  IF passed = {} \/ failed = {} THEN {} ELSE {Rate(failed, done)}

\* ListFlakySteps' ranking: by rate, then by runs, then by name.
FlakySteps(span) ==
    UNION {{[key |-> <<p, s>>, rate |-> r] :
              r \in FlakyStep({i \in StepRuns(span) : rows[i].pipeline = p}, s)} :
           p \in Pipelines, s \in Steps}
RankedBefore(a, b, keys) ==
    LET x == a.rate.num * b.rate.den
        y == b.rate.num * a.rate.den
    IN  \/ x > y
        \/ x = y /\ a.rate.den > b.rate.den
        \/ x = y /\ a.rate.den = b.rate.den /\ Position(a.key, keys) < Position(b.key, keys)

\* flakyStepRatio: the steps the pipelines ran
FlakyStepRatio(S) ==
    LET of(p) == {i \in S : rows[i].pipeline = p}
        known == {k \in Pipelines \X Steps : Occurrences(of(k[1]), k[2]) # {}}
    IN  Rate({k \in known : CountsAsFlaky(k[1], k[2], of(k[1]))}, known)

\* ListRuns: a run that has not started first, then by start, newest first.
RunList(status) ==
    LET newer(i, j) == IF rows[i].started = 0 \/ rows[j].started = 0
                       THEN \/ rows[i].started = 0 /\ rows[j].started > 0
                            \/ rows[i].started = rows[j].started /\ i > j
                       ELSE MoreRecent(i, j)
        kept(i) == CASE status = "failed"  -> rows[i].conclusion \in {"failure", "timed_out"}
                     [] status = "running" -> ~Completed(i)
                     [] status = "success" -> Passed(i)
                     [] OTHER              -> TRUE
    IN  InOrder({i \in Ids : kept(i)}, {e \in Ids \X Ids : newer(e[1], e[2])})

-----------------------------------------------------------------------------
(* Properties *)

\* The tables have their types, and a row is completed with a conclusion at a time
\* no earlier than its start, also after it is started again.
TypeOK ==
    /\ Len(rows) <= MaxRuns /\ ToSet(rows) \subseteq RunRow
    /\ \A i \in Ids : LET r == rows[i] IN
         /\ Completed(i) <=> r.completed > 0
         /\ Completed(i) => r.started \in 1..r.completed
    /\ expiry \in [Pipelines \X Steps -> 0..MaxTime + QuarantineTime]
    /\ marked \in 0..MaxMarks
    /\ now \in 1..MaxTime

\* The outages by their definition (meanTimeToRecovery's comment), of the times of
\* failures and of passes: each begins with a failure that no other precedes without a
\* pass between, and ends with the first pass after it.
Outages(failures, passes) ==
    LET begins == {t \in failures : \A u \in failures :
                     u < t => \E v \in passes : u < v /\ v < t}
    IN  {t \in begins : \E v \in passes : t < v}
EndOf(t, passes) == CHOOSE v \in passes : t < v /\ \A w \in passes : t < w => v <= w
RecoveriesByDefinition(S, p) ==
    LET mine     == {i \in S : rows[i].pipeline = p}
        failures == {rows[i].completed : i \in {j \in mine : Failed(j)}}
        passes   == {rows[i].completed : i \in {j \in mine : Passed(j)}}
        outages  == Outages(failures, passes)
    IN  [total      |-> Total([t \in 1..MaxTime |->
                            IF t \in outages THEN EndOf(t, passes) - t ELSE 0]),
         recoveries |-> Cardinality(outages)]

\* meanTimeToRecovery (insights.go) adds up every outage once, from its first
\* failure to the next success, whatever order the sort and the query leave equal
\* times in, provided no run of the pipeline failed at the time another succeeded.
RecoveryTimeIsPerOutage ==
    \A span \in Spans : LET S == InsightRuns(span).current IN
    \A p \in Pipelines :
        LET mine == {i \in S : rows[i].pipeline = p}
            tied == \E i, j \in mine : Failed(i) /\ Passed(j) /\ rows[i].completed = rows[j].completed
        IN  ~tied => \A order \in FinishOrders(S, p) :
                LET t == RecoveryTimes(order)
                IN  [total |-> t.total, recoveries |-> t.recoveries] = RecoveriesByDefinition(S, p)

\* percentile (metrics.go) over the durations of either window is the nearest
\* rank: a duration that at least the asked share of them do not exceed, and the
\* least such one.
PercentileIsNearestRank ==
    \A p \in Pipelines : \A window \in {Windows(p).current, Windows(p).prior} :
    \A share \in {<<1, 2>>, <<9, 10>>} :
        LET d          == Durations(window)
            covered(v) == share[2] * Cardinality({k \in DOMAIN d : d[k] <= v}) >= share[1] * Len(d)
            v          == Percentile(d, share[1], share[2])
        IN  d # <<>> => v \in ToSet(d) /\ covered(v) /\ \A w \in ToSet(d) : w < v => ~covered(w)

\* Flakiness has one meaning (flaky.go: "the same figure Step.FailureRate
\* reports"): the flaky view lists a step exactly when the step figures call it
\* flaky, with the same rate; a step's failed runs (ListFlakyRuns) are those in which
\* it failed, with as many entries as its rate counts; and a pipeline has the
\* flaky_step signal exactly when the list of unhealthy steps shows a flaky one.
FlakyViewsAgree ==
    \A p \in Pipelines :
        LET W == ToSet(Windows(p).current)
        IN  /\ \A span \in Spans, s \in Steps :
                 LET S == {i \in StepRuns(span) : rows[i].pipeline = p}
                     f == StepFigures(S, s)
                 IN  FlakyStep(S, s) = IF f.flaky THEN {f.rate} ELSE {}
            /\ \A s \in Steps :
                 /\ Cardinality(FlakyRuns(p, s)) = StepFigures(W, s).rate.num
                 /\ {o[1] : o \in FlakyRuns(p, s)}
                      = {i \in W : \E e \in JobSteps : e[2] = s /\ rows[i].steps[e] = "failure"}
            /\ "flaky_step" \in TriggeredSignals(p)
                 <=> \E s \in UnhealthySteps(p) : StepFigures(W, s).flaky

\* The failure views agree (insights.go): a failure group has one conclusion
\* whatever order a map is visited in, its occurrences are the step's count in the
\* stage distribution, and the list of failed runs holds those counted as failed.
FailureViewsAgree ==
    \A span \in Spans :
        LET S      == InsightRuns(span).current
            rate   == PassRate(S)
            listed == ToSet(RunList("failed")) \intersect S
        IN  /\ \A s \in Steps : FailedSteps(S, s) # {} =>
                 LET groups == FailureGroups(S, s) IN
                 /\ Cardinality(groups) = 1
                 /\ \A g \in groups :
                      /\ g.occurrences = StageFailures(S, s)
                      /\ \E o \in FailedSteps(S, s) : Result(o) = g.conclusion
            /\ listed = UNION {FailedRuns(S, p) : p \in TopFailingPipelines(S)}
            /\ Cardinality(listed) = rate.den - rate.num

\* A run started further from a moment than its zone is from the server's.
Clear(i, moment) ==
    LET ahead == rows[i].offset - ServerOffset
        skew  == Most(ahead, -ahead)
    IN  rows[i].started < moment - skew \/ rows[i].started > moment + skew

\* The insights' windows meet (GetFailureInsights): no run is in both, and a run is in the
\* one it started in, and its steps are read (windowSteps) when it is counted,
\* provided it did not start so near an end of the query's window that the text of its
\* start, in another zone, is on the other side.
InsightWindowsMeet ==
    \A span \in Spans : \A i \in Ids : rows[i].started > 0 =>
        LET window == InsightRuns(span)
            start  == rows[i].started
        IN  /\ ~(i \in window.current /\ i \in window.prior)
            /\ Clear(i, now - 2 * span) /\ Clear(i, now) =>
                 /\ i \in window.current <=> now - span <= start /\ start < now
                 /\ i \in window.prior <=> now - 2 * span < start /\ start < now - span
            /\ Clear(i, now - span) /\ Clear(i, now) =>
                 (i \in StepRuns(span) <=> i \in window.current)

\* The pages ListRuns gives of a list of runs make it up, and are paginate's.
RunPagesOf(list) ==
    \A limit \in 1..Len(list) + 1 :
        LET pages == Most(Ceiling(Len(list), limit), 1)
            page  == [k \in 1..pages |-> QueryPage(list, limit, (k - 1) * limit)]
        IN  /\ FlattenSeq([k \in 1..pages |-> page[k].items]) = list
            /\ \A k \in 1..pages :
                 /\ page[k].more <=> k < pages
                 /\ page[k] = Paginate(list, limit, (k - 1) * limit)

\* Paging through the list of runs (ListRuns) or through a ranked list (paginate)
\* shows every entry once, in order, and "more" is false on the last page only; the
\* flaky steps, read from a map for every page, have one ranking.
RunListPages ==
    /\ \A span \in Spans :
         LET flaky == FlakySteps(span) IN
         \A a, b \in flaky : a # b =>
            \A keys \in SetToSeqs(Pipelines \X Steps) :
                RankedBefore(a, b, keys) <=> ~RankedBefore(b, a, keys)
    /\ \A status \in {"failed", "running", "success", "all"} : RunPagesOf(RunList(status))

\* The pages ListPipelines gives of a list of summaries are its parts, in order.
PagesOf(all, list, health, sort) ==
    \A limit \in 1..Most(Len(list), 1) : \A k \in 1..Most(Ceiling(Len(list), limit), 1) :
        LET page == ListPipelines(all, health, sort, limit, (k - 1) * limit)
            end  == Least(k * limit, Len(list))
        IN  /\ page.items = SubSeq(list, (k - 1) * limit + 1, end)
            /\ page.more <=> end < Len(list)

\* The runs of a pipeline started in one zone: else the store's order of them may not be
\* that of their instants.
OneZone(p) ==
    \A i, j \in Ids :
        /\ rows[i].pipeline = p /\ rows[i].started > 0
        /\ rows[j].pipeline = p /\ rows[j].started > 0
        => rows[i].offset = rows[j].offset

\* What ListPipelines may answer for the summaries in name order "all", with a sort.
ListPages(all, sort) ==
    LET any       == AcrossPipelines(all, "any", sort)
        healthy   == AcrossPipelines(all, "healthy", sort)
        unhealthy == AcrossPipelines(all, "unhealthy", sort)
        starts(x) == {rows[i].started : i \in {j \in Ids : rows[j].pipeline = x.pipeline}}
    IN  /\ PagesOf(all, any, "any", sort)
        /\ PagesOf(all, healthy, "healthy", sort)
        /\ PagesOf(all, unhealthy, "unhealthy", sort)
        /\ Len(healthy) + Len(unhealthy) = Len(any)
        /\ {x.pipeline : x \in ToSet(healthy \o unhealthy)} = {rows[i].pipeline : i \in Ids}
        /\ sort = "lastRun" => \A a, b \in DOMAIN any : a < b /\ OneZone(any[b].pipeline) =>
             \A t \in starts(any[b]) : \E u \in starts(any[a]) : t <= u

\* The pages of the pipeline list (ListPipelines) make up the whole list, "more"
\* being false on the last only, for every health asked for and either sort; every
\* pipeline is in the healthy list or in the unhealthy one; and sorted by last run,
\* none with its runs in one zone comes after one whose last run started earlier.
PipelineListPages ==
    LET summaries == {Summary(p) : p \in ListedPipelines}
    IN  \A names \in SetToSeqs(Pipelines), sort \in {"name", "lastRun"} :
            ListPages(InOrderOf(names, summaries), sort)

\* The trends account for the window (failureRateTrend, durationTrend and
\* overallFailureRate): their buckets hold all of its completed runs, all of its
\* failures and all of its timed runs, and the durations go forward in time where the
\* runs are in one zone.
TrendAccountsForWindow ==
    \A p \in Pipelines :
        LET trend == FailureRateTrend(p)
            times == DurationTrend(p)
            whole == OverallFailureRate(Windows(p).current)
        IN  /\ Total([k \in DOMAIN trend |-> trend[k].den]) = whole.den
            /\ Total([k \in DOMAIN trend |-> trend[k].num]) = whole.num
            /\ Total([k \in DOMAIN times |-> times[k].runs]) = Len(Durations(Windows(p).current))
            /\ \A k \in DOMAIN times : times[k].p50 <= times[k].p90
            /\ OneZone(p) => \A j, k \in DOMAIN times : j < k => times[j].at <= times[k].at

\* A mark, set, renewed, removed or expired (quarantine.go: "a mark on a step that isn't
\* [flaky] does nothing until it is"), shows or hides only the step it marks, only while
\* that step is flaky; and setting or removing one changes no number of distinct steps.
AnyMark == \E k \in DOMAIN expiry : expiry[k] > 0
QuarantineMutesOnlyFlakiness ==
    [][/\ expiry' # expiry \/ (now' # now /\ AnyMark) =>
            \A p \in Pipelines, s \in Steps :
              (s \in UnhealthySteps(p))' # (s \in UnhealthySteps(p)) =>
                  /\ Quarantined(p, s)' # Quarantined(p, s)
                  /\ StepFigures(ToSet(Windows(p).current), s).flaky
       /\ expiry' # expiry => \A span \in Spans :
              FlakyStepRatio(StepRuns(span))'.den = FlakyStepRatio(StepRuns(span)).den]_vars

\* Every step that failed in a pipeline's window is in the list of unhealthy
\* steps, unless it is quarantined (outcome.go: "A failure is whatever isFailed
\* says ... so "failed" can't mean two things"; dashboard-ui/spec.md: "every flaky
\* or failing step").
FailedStepsAreListed ==
    \A p \in Pipelines, s \in Steps :
        FailedSteps(ToSet(Windows(p).current), s) # {} /\ ~Quarantined(p, s)
            => s \in UnhealthySteps(p)
=============================================================================
