----------------------------- MODULE MetricsProofs -----------------------------
(***************************************************************************)
(* What the figures of Metrics say, proved for any number of pipelines,      *)
(* steps and runs, any window, bucket, span and moment.                      *)
(***************************************************************************)
EXTENDS Metrics, FiguresProofs, FiniteSetTheorems

-----------------------------------------------------------------------------
(* The tables *)

\* The rows TypeOK allows.
GoodRows ==
    {r \in RunRow :
        /\ r.conclusion # "none" <=> r.completed > 0
        /\ r.conclusion # "none" => r.started \in 1..r.completed}

\* A sequence of such rows, none of a run that starts in the future.
TablesInv ==
    /\ rows \in Seq(GoodRows)
    /\ Len(rows) <= MaxRuns
    /\ \A i \in Ids : rows[i].started <= now
    /\ expiry \in [Pipelines \X Steps -> 0..MaxTime + QuarantineTime]
    /\ marked \in 0..MaxMarks
    /\ now \in 1..MaxTime

\* Some facts about the bounds.
LEMMA Bounds ==
    /\ MaxRuns \in Nat \ {0} /\ MaxTime \in Nat \ {0} /\ WindowRuns \in Nat \ {0}
    /\ BucketSize \in Nat \ {0} /\ QuarantineTime \in Nat \ {0}
    /\ MaxMarks \in Nat /\ MarkedRuns \in Nat /\ RareRuns \in Nat
    /\ \A span \in Spans : span \in Nat /\ span > 0
    /\ Offsets \subseteq Int /\ ServerOffset \in Offsets
    /\ IsFiniteSet(Steps) /\ IsFiniteSet(JobSteps)
BY MetricsAssumption

\* At first the tables are empty.
LEMMA TablesInit == Init => TablesInv
BY Bounds DEF Init, TablesInv, Ids

\* A row is in the table, and is one of those.
LEMMA RowsTyped ==
    ASSUME TablesInv
    PROVE  /\ Len(rows) \in Nat /\ rows \in [Ids -> GoodRows]
           /\ \A i \in Ids : rows[i] \in GoodRows
BY DEF TablesInv, Ids

\* Replacing a row by another such row, or adding one, keeps the table.
LEMMA RowReplaced ==
    ASSUME TablesInv, NEW i \in Ids, NEW r \in GoodRows, r.started <= now,
           rows' = [rows EXCEPT ![i] = r], UNCHANGED <<expiry, marked, now>>
    PROVE  TablesInv'
<1>1. rows' \in Seq(GoodRows) /\ Len(rows') = Len(rows)
  BY DEF TablesInv, Ids
<1>2. \A j \in Ids : rows'[j] = IF j = i THEN r ELSE rows[j]
  BY RowsTyped
<1> QED
  BY <1>1, <1>2 DEF TablesInv, Ids

\* Runs start and end at the current time, and a run that starts again has no end.
LEMMA TablesStep == TablesInv /\ [Next]_vars => TablesInv'
<1> SUFFICES ASSUME TablesInv, [Next]_vars PROVE TablesInv'
  OBVIOUS
<1>1. now \in 1..MaxTime /\ now \in Nat /\ MaxTime \in Nat
  BY Bounds DEF TablesInv
<1>2. ASSUME NEW p \in Pipelines, AddRun(p) PROVE TablesInv'
  <2>1. PICK t \in {0, now}, z \in Offsets : rows' = Append(rows, NewRow(p, t, z))
    BY <1>2 DEF AddRun
  <2>2. NewRow(p, t, z) \in GoodRows /\ NewRow(p, t, z).started = t
    <3>1. "none" \in OrNone(Conclusions) /\ [e \in JobSteps |-> "running"] \in [JobSteps -> StepResults]
      BY DEF OrNone, StepResults
    <3>2. NewRow(p, t, z) \in RunRow
      BY <1>1, <3>1 DEF NewRow, RunRow
    <3> QED
      BY <3>2 DEF NewRow, GoodRows
  <2>3. /\ rows' \in Seq(GoodRows) /\ Len(rows') = Len(rows) + 1
        /\ \A j \in Ids : rows'[j] = rows[j]
        /\ rows'[Len(rows) + 1] = NewRow(p, t, z)
    <3> DEFINE r == NewRow(p, t, z)
    <3> HIDE DEF r
    <3> QED
      BY <2>1, <2>2 DEF TablesInv, Ids, r
  <2>4. Len(rows) \in Nat /\ Len(rows) + 1 <= MaxRuns
    BY <1>2, Bounds DEF AddRun, TablesInv
  <2>5. \A j \in Ids' : j \in Ids \/ j = Len(rows) + 1
    BY <2>3, <2>4 DEF Ids
  <2>6. \A j \in Ids' : rows'[j].started <= now
    BY <1>1, <2>2, <2>3, <2>5 DEF TablesInv
  <2> QED
    BY <1>2, <2>3, <2>4, <2>6 DEF AddRun, TablesInv
<1>3. ASSUME NEW i \in Ids, StartRun(i) PROVE TablesInv'
  <2>1. PICK z \in Offsets :
          rows' = [rows EXCEPT ![i].started = now, ![i].offset = z, ![i].completed = 0,
                              ![i].conclusion = "none"]
    BY <1>3 DEF StartRun
  <2> DEFINE r == [rows[i] EXCEPT !.started = now, !.offset = z, !.completed = 0,
                                  !.conclusion = "none"]
  <2>2. rows' = [rows EXCEPT ![i] = r] /\ UNCHANGED <<expiry, marked, now>>
    BY <1>3, <2>1, RowsTyped DEF StartRun
  <2>3. rows[i] \in RunRow /\ "none" \in OrNone(Conclusions)
    BY RowsTyped DEF GoodRows, OrNone
  <2>4. r \in RunRow /\ r.started = now /\ r.completed = 0 /\ r.conclusion = "none"
    <3>1. now \in 0..MaxTime /\ 0 \in 0..MaxTime
      BY <1>1
    <3> DEFINE old  == rows[i]
               zero == 0
               none == "none"
    <3>2. old \in RunRow /\ none \in OrNone(Conclusions) /\ zero \in 0..MaxTime
      BY <2>3, <3>1
    <3> HIDE DEF old, none, zero
    <3>3. LET s == [old EXCEPT !.started = now, !.offset = z, !.completed = zero,
                               !.conclusion = none]
          IN  s \in RunRow /\ s.started = now /\ s.completed = zero /\ s.conclusion = none
      BY <3>1, <3>2 DEF RunRow
    <3> QED
      BY <3>3 DEF old, zero, none
  <2> HIDE DEF r
  <2>5. r \in GoodRows /\ r.started <= now
    BY <1>1, <2>4 DEF GoodRows
  <2> QED
    BY <2>2, <2>5, RowReplaced
<1>4. ASSUME NEW i \in Ids, FinishRun(i) PROVE TablesInv'
  <2>1. PICK c \in Conclusions :
               \E results \in [JobSteps -> IF c \in Failing THEN {"success", c} ELSE {c}] :
                   rows' = [rows EXCEPT ![i].completed = now, ![i].conclusion = c, ![i].steps = results]
    BY <1>4 DEF FinishRun
  <2>2. PICK results \in [JobSteps -> IF c \in Failing THEN {"success", c} ELSE {c}] :
               rows' = [rows EXCEPT ![i].completed = now, ![i].conclusion = c, ![i].steps = results]
    BY <2>1
  <2>3. c \in OrNone(Conclusions) /\ c # "none"
    BY DEF OrNone, Conclusions
  <2>4. results \in [JobSteps -> StepResults]
    BY DEF StepResults, Conclusions
  <2> DEFINE r == [rows[i] EXCEPT !.completed = now, !.conclusion = c, !.steps = results]
  <2>5. rows' = [rows EXCEPT ![i] = r] /\ UNCHANGED <<expiry, marked, now>>
    BY <1>4, <2>2, RowsTyped DEF FinishRun
  <2>6. rows[i] \in RunRow /\ rows[i].started > 0 /\ rows[i].started <= now
    BY <1>4, RowsTyped DEF GoodRows, FinishRun, TablesInv
  <2>7. r \in RunRow /\ r.started = rows[i].started /\ r.completed = now /\ r.conclusion = c
    <3>1. now \in 0..MaxTime
      BY <1>1
    <3> DEFINE old == rows[i]
    <3>2. old \in RunRow
      BY <2>6
    <3> HIDE DEF old
    <3>3. LET s == [old EXCEPT !.completed = now, !.conclusion = c, !.steps = results]
          IN  s \in RunRow /\ s.started = old.started /\ s.completed = now /\ s.conclusion = c
      BY <2>3, <2>4, <3>1, <3>2 DEF RunRow
    <3> QED
      BY <3>3 DEF old
  <2>8. r.started \in 1..now /\ now > 0
    BY <1>1, <2>6, <2>7 DEF RunRow
  <2> HIDE DEF r
  <2>9. r \in GoodRows /\ r.started <= now
    BY <1>1, <2>3, <2>7, <2>8 DEF GoodRows
  <2> QED
    BY <2>5, <2>9, RowReplaced
<1>5. ASSUME NEW p \in Pipelines, NEW s \in Steps, QuarantineStep(p, s) \/ UnquarantineStep(p, s)
      PROVE  TablesInv'
  <2>1. now + QuarantineTime \in 0..MaxTime + QuarantineTime /\ 0 \in 0..MaxTime + QuarantineTime
    BY <1>1, Bounds
  <2>2. expiry' \in [Pipelines \X Steps -> 0..MaxTime + QuarantineTime]
    BY <1>5, <2>1 DEF QuarantineStep, UnquarantineStep, TablesInv
  <2>3. marked' \in 0..MaxMarks
    BY <1>5, Bounds DEF QuarantineStep, UnquarantineStep, TablesInv
  <2> QED
    BY <1>5, <2>2, <2>3 DEF QuarantineStep, UnquarantineStep, TablesInv, Ids
<1>6. CASE Tick
  <2>1. now' \in 1..MaxTime /\ now <= now'
    BY <1>1, <1>6 DEF Tick
  <2>2. \A i \in Ids : rows[i].started \in Nat
    BY RowsTyped DEF GoodRows, RunRow
  <2> QED
    BY <1>1, <1>6, <2>1, <2>2 DEF Tick, TablesInv, Ids
<1>7. CASE UNCHANGED vars
  BY <1>7 DEF vars, TablesInv, Ids
<1> QED
  BY <1>2, <1>3, <1>4, <1>5, <1>6, <1>7 DEF Next

\* The tables always have their types.
LEMMA TablesAlways == Spec => []TablesInv
BY TablesInit, TablesStep, PTL DEF Spec

\* UpsertRun's rows: a run has an end exactly when it has a conclusion, and then no
\* earlier than its start, though a re-run takes its row back to one without an end.
THEOREM MetricsTypes == Spec => []TypeOK
<1>1. TablesInv => TypeOK
  <2> SUFFICES ASSUME TablesInv PROVE TypeOK
    OBVIOUS
  <2>1. \A i \in Ids : rows[i] \in GoodRows
    BY RowsTyped
  <2>2. ToSet(rows) \subseteq RunRow
    BY <2>1 DEF ToSet, Ids, TablesInv, GoodRows
  <2> QED
    BY <2>1, <2>2 DEF TypeOK, TablesInv, GoodRows, Completed
<1> QED
  BY <1>1, TablesAlways, PTL

-----------------------------------------------------------------------------
(* The windows of the insights *)

\* The text of a start clear of a moment is past the moment's when the start is, and also
\* past that of any earlier moment.
LEMMA PastWhenLater ==
    ASSUME TablesInv, NEW i \in Ids, NEW moment \in Int, Clear(i, moment)
    PROVE  /\ StartsPast(i, moment) <=> rows[i].started > moment
           /\ rows[i].started # moment
           /\ \A earlier \in Int :
                earlier <= moment /\ rows[i].started > moment => StartsPast(i, earlier)
<1> DEFINE start == rows[i].started
           zone  == rows[i].offset
           skew  == Most(zone - ServerOffset, -(zone - ServerOffset))
<1>1. start \in Int /\ zone \in Int /\ ServerOffset \in Int
  <2>1. rows[i] \in RunRow
    BY RowsTyped DEF GoodRows
  <2>2. start \in 0..MaxTime /\ zone \in Offsets
    BY <2>1 DEF RunRow
  <2> HIDE DEF start, zone
  <2>3. start \in Int
    BY <2>2
  <2>4. Offsets \subseteq Int /\ ServerOffset \in Offsets
    BY Bounds
  <2>5. zone \in Int /\ ServerOffset \in Int
    BY <2>2, <2>4
  <2> QED
    BY <2>3, <2>5
<1>2. start < moment - skew \/ start > moment + skew
  BY Zenon DEF Clear
<1>3. \A m : StartsPast(i, m)
               <=> \/ m + ServerOffset < start + zone
                   \/ m + ServerOffset = start + zone /\ OffsetBefore(ServerOffset, zone)
  BY DEF StartsPast, TextBefore, StartText, Text
<1> HIDE DEF start, zone
<1>4. skew >= zone - ServerOffset /\ skew >= ServerOffset - zone /\ skew \in Int
  BY <1>1 DEF Most
<1> HIDE DEF skew
<1>5. CASE start < moment - skew
  <2>1. start + zone < moment + ServerOffset /\ start < moment
    BY <1>1, <1>4, <1>5
  <2> QED
    BY <1>1, <1>3, <2>1 DEF start
<1>6. CASE start > moment + skew
  <2>1. start + zone > moment + ServerOffset /\ start > moment
    BY <1>1, <1>4, <1>6
  <2>2. \A earlier \in Int : earlier <= moment => earlier + ServerOffset < start + zone
    BY <1>1, <2>1
  <2> QED
    BY <1>1, <1>3, <2>1, <2>2 DEF start
<1> QED
  BY <1>2, <1>5, <1>6

\* GetFailureInsights reads the runs of both windows in one query, by the text of their
\* start, and divides them at the boundary, by its instant: they share no run, and a
\* run is where it started, and its steps are read when it is counted, unless its start
\* is nearer to an end of a query's window than its zone is to the server's.
THEOREM InsightWindows == Spec => []InsightWindowsMeet
<1>1. TablesInv => InsightWindowsMeet
  <2> SUFFICES ASSUME TablesInv, NEW span \in Spans, NEW i \in Ids, rows[i].started > 0
               PROVE  LET window == InsightRuns(span)
                          start  == rows[i].started
                      IN  /\ ~(i \in window.current /\ i \in window.prior)
                          /\ Clear(i, now - 2 * span) /\ Clear(i, now) =>
                               /\ i \in window.current <=> now - span <= start /\ start < now
                               /\ i \in window.prior <=> now - 2 * span < start /\ start < now - span
                          /\ Clear(i, now - span) /\ Clear(i, now) =>
                               (i \in StepRuns(span) <=> i \in window.current)
    BY Zenon DEF InsightWindowsMeet
  <2> DEFINE start == rows[i].started
             since == now - 2 * span
             half  == now - span
             both  == StartedIn(since, now)
  <2>1. start \in Int /\ now \in Int /\ span \in Nat /\ span > 0
    BY Bounds, RowsTyped DEF TablesInv, GoodRows, RunRow
  <2>2. since \in Int /\ half \in Int /\ since < half /\ half < now
    BY <2>1
  <2>3. /\ i \in InsightRuns(span).current <=> i \in both /\ start >= half
        /\ i \in InsightRuns(span).prior <=> i \in both /\ start < half
    <3>1. \A r \in both : r \in Ids
      BY DEF StartedIn
    <3>2. /\ InsightRuns(span).current = {r \in both : rows[r].started >= half}
          /\ InsightRuns(span).prior = {r \in both : rows[r].started < half}
      BY DEF InsightRuns
    <3> HIDE DEF both, half
    <3> QED
      BY <3>2
  <2>4. /\ i \in both <=> StartsPast(i, since) /\ ~StartsPast(i, now)
        /\ i \in StepRuns(span) <=> StartsPast(i, half) /\ ~StartsPast(i, now)
    <3>1. \A m : i \in StartedIn(m, now) <=> StartsPast(i, m) /\ ~StartsPast(i, now)
      BY DEF StartedIn
    <3> QED
      BY <3>1, Zenon DEF StepRuns
  <2> HIDE DEF start, since, half, both
  <2>5. ~(i \in InsightRuns(span).current /\ i \in InsightRuns(span).prior)
    BY <2>1, <2>2, <2>3
  <2>6. Clear(i, now) => (~StartsPast(i, now) <=> start < now)
    BY <2>1, PastWhenLater DEF start
  <2>7. Clear(i, since) => (StartsPast(i, since) <=> start > since)
    BY <2>2, PastWhenLater DEF start
  <2>8. Clear(i, half) =>
          /\ StartsPast(i, half) <=> start > half
          /\ start # half
          /\ start > half => StartsPast(i, since)
    BY <2>2, PastWhenLater DEF start
  <2>9. Clear(i, since) /\ Clear(i, now) =>
          /\ i \in InsightRuns(span).current <=> half <= start /\ start < now
          /\ i \in InsightRuns(span).prior <=> since < start /\ start < half
    BY <2>1, <2>2, <2>3, <2>4, <2>6, <2>7
  <2>10. Clear(i, half) /\ Clear(i, now) => (i \in StepRuns(span) <=> i \in InsightRuns(span).current)
    BY <2>1, <2>2, <2>3, <2>4, <2>8
  <2> QED
    BY <2>5, <2>9, <2>10, Zenon DEF start, since, half
<1> QED
  BY <1>1, TablesAlways, PTL

-----------------------------------------------------------------------------
(* Flakiness *)

\* aggregateSteps's figures of a step, by field.
LEMMA FiguresOfStep ==
    ASSUME NEW S, NEW s
    PROVE  LET done   == {o \in Occurrences(S, s) : Result(o) # "running"}
               failed == {o \in Occurrences(S, s) : Result(o) = "failure"}
               passed == {o \in Occurrences(S, s) : Result(o) = "success"}
           IN  /\ StepFigures(S, s).rate = [num |-> Cardinality(failed), den |-> Cardinality(done)]
               /\ StepFigures(S, s).flaky <=> failed # {} /\ passed # {}
<1> DEFINE done   == {o \in Occurrences(S, s) : Result(o) # "running"}
           failed == {o \in Occurrences(S, s) : Result(o) = "failure"}
           passed == {o \in Occurrences(S, s) : Result(o) = "success"}
<1>1. {o \in done : Result(o) = "failure"} = failed
  OBVIOUS
<1>2. (\E o \in done : Result(o) = "success") <=> passed # {}
  OBVIOUS
<1>3. StepFigures(S, s) = [rate  |-> [num |-> Cardinality(failed), den |-> Cardinality(done)],
                           flaky |-> failed # {} /\ \E o \in done : Result(o) = "success"]
  BY <1>1 DEF StepFigures, Rate
<1>4. /\ StepFigures(S, s).rate = [num |-> Cardinality(failed), den |-> Cardinality(done)]
      /\ StepFigures(S, s).flaky = (failed # {} /\ \E o \in done : Result(o) = "success")
  <2> DEFINE record(r, f) == [rate |-> r, flaky |-> f]
             share == [num |-> Cardinality(failed), den |-> Cardinality(done)]
             both  == failed # {} /\ \E o \in done : Result(o) = "success"
  <2>1. \A r, f : record(r, f).rate = r /\ record(r, f).flaky = f
    OBVIOUS
  <2>2. StepFigures(S, s) = record(share, both)
    BY <1>3
  <2> HIDE DEF record, share, both
  <2>3. StepFigures(S, s).rate = share /\ StepFigures(S, s).flaky = both
    BY <2>1, <2>2, Zenon
  <2> QED
    BY <2>3, Zenon DEF share, both
<1> QED
  BY <1>2, <1>4, Zenon

\* flakyStep (flaky.go) lists a step exactly when the step's figures call it flaky,
\* at the rate they report.
LEMMA FlakyStepIsFlaky ==
    ASSUME NEW S, NEW s
    PROVE  FlakyStep(S, s) = IF StepFigures(S, s).flaky THEN {StepFigures(S, s).rate} ELSE {}
<1> DEFINE done   == {o \in Occurrences(S, s) : Result(o) # "running"}
           failed == {o \in Occurrences(S, s) : Result(o) = "failure"}
           passed == {o \in Occurrences(S, s) : Result(o) = "success"}
<1>1. /\ {o \in done : Result(o) = "failure"} = failed
      /\ {o \in done : Result(o) = "success"} = passed
  OBVIOUS
<1>2. FlakyStep(S, s) = IF passed = {} \/ failed = {} THEN {}
                        ELSE {[num |-> Cardinality(failed), den |-> Cardinality(done)]}
  BY <1>1 DEF FlakyStep, Rate
<1>3. /\ StepFigures(S, s).rate = [num |-> Cardinality(failed), den |-> Cardinality(done)]
      /\ StepFigures(S, s).flaky <=> failed # {} /\ passed # {}
  BY FiguresOfStep
<1> HIDE DEF done, failed, passed
<1> QED
  BY <1>2, <1>3

\* computeHealth's flaky_step signal is of a flaky step without a mark.
LEMMA FlakySignal ==
    ASSUME NEW p
    PROVE  LET W == ToSet(Windows(p).current)
           IN  "flaky_step" \in TriggeredSignals(p)
                 <=> \E s \in Steps : StepFigures(W, s).flaky /\ ~Quarantined(p, s)
<1> DEFINE w    == Windows(p)
           rate == OverallFailureRate(w.current)
           slow == Regressed(w.current, w.prior)
           high == rate.den > 0 /\ 5 * rate.num >= rate.den
           mark == \E s \in Steps : CountsAsFlaky(p, s, ToSet(w.current))
<1>1. TriggeredSignals(p) = (IF high THEN {"failure_rate"} ELSE {})
                            \union (IF slow THEN {"duration_regression"} ELSE {})
                            \union (IF mark THEN {"flaky_step"} ELSE {})
  BY DEF TriggeredSignals
<1>2. mark <=> \E s \in Steps : StepFigures(ToSet(w.current), s).flaky /\ ~Quarantined(p, s)
  BY DEF CountsAsFlaky
<1> HIDE DEF w, rate, slow, high, mark
<1>3. "flaky_step" \in TriggeredSignals(p) <=> mark
  BY <1>1
<1> QED
  BY <1>2, <1>3 DEF w

\* The flaky view (ListFlakySteps), the figures of a step (aggregateSteps), the list
\* of its failed runs (ListFlakyRuns), the list of unhealthy steps and the pipeline's
\* signal mean the same by "flaky", whatever the tables hold.
THEOREM FlakyViews == Spec => []FlakyViewsAgree
<1>1. FlakyViewsAgree
  <2> SUFFICES ASSUME NEW p \in Pipelines
               PROVE  LET W == ToSet(Windows(p).current)
                      IN  /\ \A span \in Spans, s \in Steps :
                               LET S == {i \in StepRuns(span) : rows[i].pipeline = p}
                                   f == StepFigures(S, s)
                               IN  FlakyStep(S, s) = IF f.flaky THEN {f.rate} ELSE {}
                          /\ \A s \in Steps :
                               /\ Cardinality(FlakyRuns(p, s)) = StepFigures(W, s).rate.num
                               /\ {o[1] : o \in FlakyRuns(p, s)}
                                    = {i \in W : \E e \in JobSteps :
                                                   e[2] = s /\ rows[i].steps[e] = "failure"}
                          /\ "flaky_step" \in TriggeredSignals(p)
                               <=> \E s \in UnhealthySteps(p) : StepFigures(W, s).flaky
    BY Zenon DEF FlakyViewsAgree
  <2> DEFINE W == ToSet(Windows(p).current)
  <2>1. \A span \in Spans, s \in Steps :
           LET S == {i \in StepRuns(span) : rows[i].pipeline = p}
               f == StepFigures(S, s)
           IN  FlakyStep(S, s) = IF f.flaky THEN {f.rate} ELSE {}
    <3> SUFFICES ASSUME NEW span \in Spans, NEW s \in Steps
                 PROVE  LET S == {i \in StepRuns(span) : rows[i].pipeline = p}
                            f == StepFigures(S, s)
                        IN  FlakyStep(S, s) = IF f.flaky THEN {f.rate} ELSE {}
      BY Zenon
    <3> DEFINE S == {i \in StepRuns(span) : rows[i].pipeline = p}
    <3>1. FlakyStep(S, s) = IF StepFigures(S, s).flaky THEN {StepFigures(S, s).rate} ELSE {}
      BY FlakyStepIsFlaky
    <3> QED
      BY <3>1
  <2>2. ASSUME NEW s \in Steps
        PROVE  /\ Cardinality(FlakyRuns(p, s)) = StepFigures(W, s).rate.num
               /\ {o[1] : o \in FlakyRuns(p, s)}
                    = {i \in W : \E e \in JobSteps : e[2] = s /\ rows[i].steps[e] = "failure"}
    <3>1. FlakyRuns(p, s) = {o \in Occurrences(W, s) : Result(o) = "failure"}
      BY DEF FlakyRuns
    <3> HIDE DEF W
    <3>2. StepFigures(W, s).rate
            = [num |-> Cardinality({o \in Occurrences(W, s) : Result(o) = "failure"}),
               den |-> Cardinality({o \in Occurrences(W, s) : Result(o) # "running"})]
      BY FiguresOfStep
    <3>3. Cardinality(FlakyRuns(p, s)) = StepFigures(W, s).rate.num
      BY <3>1, <3>2
    <3>4. ASSUME NEW i
          PROVE  i \in {o[1] : o \in FlakyRuns(p, s)}
                   <=> i \in W /\ \E e \in JobSteps : e[2] = s /\ rows[i].steps[e] = "failure"
      <4>1. ASSUME NEW o \in FlakyRuns(p, s), i = o[1]
            PROVE  i \in W /\ \E e \in JobSteps : e[2] = s /\ rows[i].steps[e] = "failure"
        <5>1. o \in W \X {e \in JobSteps : e[2] = s} /\ rows[o[1]].steps[o[2]] = "failure"
          BY <3>1 DEF Occurrences, Result
        <5> QED
          BY <4>1, <5>1
      <4>2. ASSUME i \in W, NEW e \in JobSteps, e[2] = s, rows[i].steps[e] = "failure"
            PROVE  i \in {o[1] : o \in FlakyRuns(p, s)}
        <5> DEFINE o == <<i, e>>
        <5>1. o \in Occurrences(W, s) /\ o[1] = i /\ o[2] = e
          BY <4>2 DEF Occurrences
        <5>2. Result(o) = "failure"
          BY <4>2, <5>1 DEF Result
        <5> HIDE DEF o
        <5>3. o \in FlakyRuns(p, s)
          BY <3>1, <5>1, <5>2
        <5> QED
          BY <5>1, <5>3
      <4> QED
        BY <4>1, <4>2
    <3>5. {o[1] : o \in FlakyRuns(p, s)}
            = {i \in W : \E e \in JobSteps : e[2] = s /\ rows[i].steps[e] = "failure"}
      BY <3>4
    <3> QED
      BY <3>3, <3>5
  <2>3. "flaky_step" \in TriggeredSignals(p)
          <=> \E s \in Steps : StepFigures(W, s).flaky /\ ~Quarantined(p, s)
    BY FlakySignal
  <2>4. \A s \in Steps : StepFigures(W, s).flaky /\ ~Quarantined(p, s)
                           <=> s \in UnhealthySteps(p) /\ StepFigures(W, s).flaky
    BY DEF UnhealthySteps
  <2>5. \A s \in UnhealthySteps(p) : s \in Steps
    BY DEF UnhealthySteps
  <2> HIDE DEF W
  <2>6. "flaky_step" \in TriggeredSignals(p) <=> \E s \in UnhealthySteps(p) : StepFigures(W, s).flaky
    BY <2>3, <2>4, <2>5
  <2> QED
    BY <2>1, <2>2, <2>6, Zenon DEF W
<1> QED
  BY <1>1, PTL

-----------------------------------------------------------------------------
(* Quarantine *)

\* A mark, set or removed, changes no run and takes no time, and time changes no run.
LEMMA MarksChangeNoRun ==
    ASSUME [Next]_vars, expiry' # expiry \/ now' # now
    PROVE  /\ rows' = rows
           /\ expiry' # expiry => now' = now
<1>1. \A p \in Pipelines : ~AddRun(p)
  BY DEF AddRun
<1>2. \A i \in Ids : ~StartRun(i) /\ ~FinishRun(i)
  BY DEF StartRun, FinishRun
<1>3. ~UNCHANGED vars
  BY DEF vars
<1>4. CASE Tick
  BY <1>4 DEF Tick
<1>5. CASE \E p \in Pipelines, s \in Steps : QuarantineStep(p, s) \/ UnquarantineStep(p, s)
  BY <1>5 DEF QuarantineStep, UnquarantineStep
<1> QED
  BY <1>1, <1>2, <1>3, <1>4, <1>5 DEF Next

\* What is computed of the runs alone stays as it is while the runs do.
LEMMA SameRunsSameFigures ==
    ASSUME rows' = rows
    PROVE  /\ \A p : Windows(p)' = Windows(p)
           /\ \A S, s : StepFigures(S, s)' = StepFigures(S, s)
<1>1. Ids' = Ids
  BY DEF Ids
<1>2. ASSUME NEW p PROVE Windows(p)' = Windows(p)
  <2> DEFINE mine == {i \in Ids : rows[i].pipeline = p}
             ord  == {e \in Ids \X Ids : MoreRecent(e[1], e[2])}
  <2>1. mine' = mine
    BY <1>1
  <2>2. ord' = ord
    BY <1>1 DEF MoreRecent, StartsLater, TextBefore, StartText
  <2>3. RunsOf(p) = InOrder(mine, ord) /\ RunsOf(p)' = InOrder(mine', ord')
    BY DEF RunsOf
  <2> HIDE DEF mine, ord
  <2>4. RunsOf(p)' = RunsOf(p)
    BY <2>1, <2>2, <2>3
  <2> QED
    BY <2>4 DEF Windows
<1>3. ASSUME NEW S, NEW s PROVE StepFigures(S, s)' = StepFigures(S, s)
  <2> DEFINE done   == {o \in Occurrences(S, s) : Result(o) # "running"}
             failed == {o \in done : Result(o) = "failure"}
             passes == \E o \in done : Result(o) = "success"
  <2>1. done' = done
    BY DEF Result, Occurrences
  <2>2. failed' = failed /\ passes' = passes
    BY DEF Result, Occurrences
  <2>3. /\ StepFigures(S, s) = [rate |-> Rate(failed, done), flaky |-> failed # {} /\ passes]
        /\ StepFigures(S, s)' = [rate |-> Rate(failed', done'), flaky |-> failed' # {} /\ passes']
    BY Zenon DEF StepFigures, Rate
  <2> HIDE DEF done, failed, passes
  <2> QED
    BY <2>1, <2>2, <2>3, Zenon
<1> QED
  BY <1>2, <1>3

\* A mark on a step (QuarantineStep, UnquarantineStep), set, renewed, removed or expired,
\* shows or hides only that step, only while it is flaky, and setting or removing one
\* leaves the number of distinct steps as it is.
THEOREM MarksMute == Spec => QuarantineMutesOnlyFlakiness
<1> DEFINE Muted ==
      /\ expiry' # expiry \/ (now' # now /\ AnyMark) =>
           \A p \in Pipelines, s \in Steps :
             (s \in UnhealthySteps(p))' # (s \in UnhealthySteps(p)) =>
                 /\ Quarantined(p, s)' # Quarantined(p, s)
                 /\ StepFigures(ToSet(Windows(p).current), s).flaky
      /\ expiry' # expiry => \A span \in Spans :
             FlakyStepRatio(StepRuns(span))'.den = FlakyStepRatio(StepRuns(span)).den
<1>1. ASSUME [Next]_vars PROVE [Muted]_vars
  <2> SUFFICES ASSUME expiry' # expiry \/ now' # now PROVE Muted
    OBVIOUS
  <2>1. rows' = rows /\ (expiry' # expiry => now' = now)
    BY <1>1, MarksChangeNoRun
  <2>2. ASSUME now' = now, NEW span \in Spans
        PROVE  FlakyStepRatio(StepRuns(span))'.den = FlakyStepRatio(StepRuns(span)).den
    <3> DEFINE S     == StepRuns(span)
               known == {k \in Pipelines \X Steps :
                           Occurrences({i \in S : rows[i].pipeline = k[1]}, k[2]) # {}}
               flaky == {k \in known : CountsAsFlaky(k[1], k[2], {i \in S : rows[i].pipeline = k[1]})}
    <3>1. S' = S
      <4>1. \A i, m : StartsPast(i, m)' <=> StartsPast(i, m)
        BY <2>1 DEF StartsPast, TextBefore, StartText
      <4> DEFINE since == now - span
      <4>2. since' = since /\ now' = now /\ Ids' = Ids
        BY <2>1, <2>2 DEF Ids
      <4> HIDE DEF since
      <4>3. StartedIn(since, now)' = StartedIn(since, now)
        BY <2>1, <4>1, <4>2 DEF StartedIn
      <4> QED
        BY <4>3 DEF since, StepRuns
    <3>2. FlakyStepRatio(S) = Rate(flaky, known) /\ FlakyStepRatio(S)' = Rate(flaky', known')
      BY Zenon DEF FlakyStepRatio
    <3> HIDE DEF S
    <3>3. known' = known
      BY <2>1, <3>1 DEF Occurrences
    <3> HIDE DEF known, flaky
    <3>4. Rate(flaky, known).den = Cardinality(known) /\ Rate(flaky', known').den = Cardinality(known')
      BY DEF Rate
    <3>5. FlakyStepRatio(S)'.den = FlakyStepRatio(S).den
      BY <3>2, <3>3, <3>4
    <3> QED
      BY <3>5 DEF S
  <2>3. ASSUME NEW p \in Pipelines, NEW s \in Steps, (s \in UnhealthySteps(p))' # (s \in UnhealthySteps(p))
        PROVE  /\ Quarantined(p, s)' # Quarantined(p, s)
               /\ StepFigures(ToSet(Windows(p).current), s).flaky
    <3> DEFINE W == ToSet(Windows(p).current)
               f == StepFigures(W, s)
               q == Quarantined(p, s)
    <3>1. W' = W
      BY <2>1, SameRunsSameFigures DEF ToSet
    <3>2. s \in UnhealthySteps(p) <=> ~(f.flaky /\ q) /\ (f.flaky \/ f.rate.num > 0)
      BY DEF UnhealthySteps
    <3>3. s \in UnhealthySteps(p)' <=> ~(f'.flaky /\ q') /\ (f'.flaky \/ f'.rate.num > 0)
      BY DEF UnhealthySteps
    <3> HIDE DEF W, q
    <3>4. f' = f
      BY <2>1, <3>1, SameRunsSameFigures
    <3> HIDE DEF f
    <3>5. f.flaky /\ ~(q' <=> q)
      <4>1. s \in UnhealthySteps(p)' <=> ~(f.flaky /\ q') /\ (f.flaky \/ f.rate.num > 0)
        BY <3>3, <3>4, Zenon
      <4>2. ~(s \in UnhealthySteps(p)' <=> s \in UnhealthySteps(p))
        BY <2>3
      <4> QED
        BY <3>2, <4>1, <4>2, Zenon
    <3> QED
      BY <3>5, Zenon DEF f, W, q
  <2> QED
    BY <2>1, <2>2, <2>3, Zenon DEF Muted
<1>2. Spec => [][Next]_vars
  BY DEF Spec
<1> QED
  BY <1>1, <1>2, PTL DEF QuarantineMutesOnlyFlakiness

-----------------------------------------------------------------------------
(* Lists of runs, sorted *)

\* The rows are finitely many, and their times are numbers.
LEMMA RowTimes ==
    ASSUME TablesInv
    PROVE  /\ IsFiniteSet(Ids) /\ Ids \subseteq Nat
           /\ \A i \in Ids : rows[i].started \in Nat /\ rows[i].completed \in Nat
           /\ \A i \in Ids : Duration(i) \in Int
<1>1. Len(rows) \in Nat /\ \A i \in Ids : rows[i] \in GoodRows
  BY RowsTyped
<1>2. IsFiniteSet(Ids)
  BY <1>1, FS_Interval DEF Ids
<1>3. \A i \in Ids : rows[i].started \in Nat /\ rows[i].completed \in Nat
  BY <1>1, Bounds DEF GoodRows, RunRow
<1> QED
  BY <1>1, <1>2, <1>3 DEF Ids, Duration

\* An order of a finite set as a sequence of its elements.
LEMMA OrderedSeq ==
    ASSUME NEW T, NEW S \in SUBSET T, IsFiniteSet(S), NEW before, Sorts(before, S)
    PROVE  /\ InOrder(S, before) \in Seq(T)
           /\ Len(InOrder(S, before)) = Cardinality(S)
           /\ ToSet(InOrder(S, before)) = S
<1> DEFINE f == InOrder(S, before)
           n == Cardinality(S)
<1>1. /\ f \in [1..n -> S] /\ n \in Nat
      /\ \A x \in S : \E k \in 1..n : f[k] = x
  BY InOrderSorts
<1> HIDE DEF f, n
<1>2. f \in Seq(T) /\ Len(f) = n /\ DOMAIN f = 1..n
  BY <1>1
<1>3. ToSet(f) = S
  BY <1>1, <1>2 DEF ToSet
<1> QED
  BY <1>2, <1>3 DEF f, n

\* The text of the starts orders the runs weakly, and a run that has not started is last.
LEMMA StartsInOrder ==
    ASSUME TablesInv
    PROVE  /\ \A i, j \in Ids : StartsLater(i, j) => ~StartsLater(j, i)
           /\ \A i, j, k \in Ids : StartsLater(i, j) /\ StartsLater(j, k) => StartsLater(i, k)
           /\ \A i, j, k \in Ids : ~StartsLater(i, j) /\ ~StartsLater(j, k) => ~StartsLater(i, k)
           /\ \A i, j \in Ids :
                rows[i].started > 0 /\ rows[j].started > 0 /\ rows[i].offset = rows[j].offset
                  => (StartsLater(i, j) <=> rows[i].started > rows[j].started)
           /\ \A i, j \in Ids : rows[i].started = 0 \/ rows[j].started = 0
                  => (StartsLater(i, j) <=> rows[i].started > 0 /\ rows[j].started = 0)
<1>1. \A i \in Ids : rows[i].started \in Nat /\ rows[i].offset \in Int
  <2>1. \A i \in Ids : rows[i] \in RunRow
    BY RowsTyped DEF GoodRows
  <2>2. \A r \in RunRow : r.offset \in Offsets
    BY DEF RunRow
  <2>3. Offsets \subseteq Int
    BY Bounds
  <2> QED
    BY <2>1, <2>2, <2>3, RowTimes
<1>2. \A i, j : TextBefore(StartText(j), StartText(i))
         <=> \/ rows[j].started + rows[j].offset < rows[i].started + rows[i].offset
             \/ /\ rows[j].started + rows[j].offset = rows[i].started + rows[i].offset
                /\ OffsetBefore(rows[j].offset, rows[i].offset)
  BY DEF TextBefore, StartText, Text
<1>3. /\ \A a, b \in Int : OffsetBefore(a, b) => ~OffsetBefore(b, a)
      /\ \A a, b \in Int : a # b => OffsetBefore(a, b) \/ OffsetBefore(b, a)
      /\ \A a, b, c \in Int : OffsetBefore(a, b) /\ OffsetBefore(b, c) => OffsetBefore(a, c)
      /\ \A a \in Int : ~OffsetBefore(a, a)
  BY DEF OffsetBefore
<1> DEFINE later(i, j) == TextBefore(StartText(j), StartText(i))
<1>4. \A i, j \in Ids : later(i, j) => ~later(j, i)
  BY <1>1, <1>2, <1>3
<1>5. \A i, j, k \in Ids : later(i, j) /\ later(j, k) => later(i, k)
  BY <1>1, <1>2, <1>3
<1>6. \A i, j, k \in Ids : ~later(i, j) /\ ~later(j, k) => ~later(i, k)
  BY <1>1, <1>2, <1>3
<1>7. \A i, j \in Ids : rows[i].offset = rows[j].offset
        => (later(i, j) <=> rows[i].started > rows[j].started)
  BY <1>1, <1>2, <1>3
<1>8. \A i, j \in Ids : StartsLater(i, j)
        <=> rows[i].started > 0 /\ (rows[j].started = 0 \/ later(i, j))
  BY DEF StartsLater
<1> HIDE DEF later
<1> QED
  BY <1>1, <1>4, <1>5, <1>6, <1>7, <1>8

\* The orders of the queries (ORDER BY) and of slices.Sort leave no two runs equal.
LEMMA RunOrders ==
    ASSUME TablesInv, NEW S \in SUBSET Ids
    PROVE  /\ Sorts({e \in Ids \X Ids : MoreRecent(e[1], e[2])}, S)
           /\ Sorts({e \in Ids \X Ids : Quicker(e[1], e[2])}, S)
<1>1. /\ \A i \in Ids : i \in Nat /\ rows[i].started \in Nat
      /\ \A i \in Ids : Duration(i) \in Int
  BY RowTimes
<1>2. Sorts({e \in Ids \X Ids : MoreRecent(e[1], e[2])}, S)
  <2> DEFINE ord == {e \in Ids \X Ids : MoreRecent(e[1], e[2])}
  <2>1. \A i, j \in S : <<i, j>> \in ord <=> MoreRecent(i, j)
    OBVIOUS
  <2>2. \A i, j \in Ids : MoreRecent(i, j)
          <=> StartsLater(i, j) \/ (~StartsLater(j, i) /\ i > j)
    BY DEF MoreRecent
  <2>3. \A i \in S : i \in Ids /\ i \in Nat
    BY <1>1
  <2> HIDE DEF ord
  <2>4. /\ \A i \in S : ~MoreRecent(i, i)
        /\ \A i, j \in S : i # j => MoreRecent(i, j) \/ MoreRecent(j, i)
    BY <2>2, <2>3, StartsInOrder
  <2>5. \A i, j, k \in S : MoreRecent(i, j) /\ MoreRecent(j, k) => MoreRecent(i, k)
    BY <2>2, <2>3, StartsInOrder
  <2>6. Sorts(ord, S)
    BY <2>1, <2>4, <2>5 DEF Sorts
  <2> QED
    BY <2>6 DEF ord
<1>3. Sorts({e \in Ids \X Ids : Quicker(e[1], e[2])}, S)
  <2> DEFINE ord == {e \in Ids \X Ids : Quicker(e[1], e[2])}
  <2>1. \A i, j \in S : <<i, j>> \in ord <=> Quicker(i, j)
    OBVIOUS
  <2> HIDE DEF ord
  <2>2. Sorts(ord, S)
    BY <1>1, <2>1 DEF Sorts, Quicker
  <2> QED
    BY <2>2 DEF ord
<1> QED
  BY <1>2, <1>3

\* The more recent of two runs of a pipeline has started when the other has, and where
\* its runs are in one zone it started no earlier.
LEMMA MoreRecentStarted ==
    ASSUME TablesInv, NEW i \in Ids, NEW j \in Ids, MoreRecent(i, j)
    PROVE  /\ rows[j].started > 0 => rows[i].started > 0
           /\ \A p : OneZone(p) /\ rows[i].pipeline = p /\ rows[j].pipeline = p
                     => rows[j].started <= rows[i].started
<1>1. rows[i].started \in Nat /\ rows[j].started \in Nat
  BY RowTimes
<1>2. ~StartsLater(j, i)
  BY StartsInOrder DEF MoreRecent
<1>3. rows[j].started > 0 => rows[i].started > 0
  BY <1>1, <1>2, StartsInOrder
<1>4. ASSUME NEW p, OneZone(p), rows[i].pipeline = p, rows[j].pipeline = p
      PROVE  rows[j].started <= rows[i].started
  <2>1. CASE rows[i].started > 0 /\ rows[j].started > 0
    <3>1. rows[i].offset = rows[j].offset
      BY <1>4, <2>1 DEF OneZone
    <3> QED
      BY <1>1, <1>2, <2>1, <3>1, StartsInOrder
  <2> QED
    BY <1>1, <1>3, <2>1
<1> QED
  BY <1>3, <1>4

\* PipelineRuns lists the pipeline's runs, and a window is a part of the list.
LEMMA RunsListed ==
    ASSUME TablesInv, NEW p
    PROVE  /\ RunsOf(p) \in Seq(Ids)
           /\ ToSet(RunsOf(p)) = {i \in Ids : rows[i].pipeline = p}
           /\ Len(RunsOf(p)) = Cardinality({i \in Ids : rows[i].pipeline = p})
<1> DEFINE mine == {i \in Ids : rows[i].pipeline = p}
           ord  == {e \in Ids \X Ids : MoreRecent(e[1], e[2])}
<1>1. mine \in SUBSET Ids /\ IsFiniteSet(mine)
  BY RowTimes, FS_Subset
<1>2. Sorts(ord, mine)
  BY <1>1, RunOrders
<1>3. RunsOf(p) = InOrder(mine, ord)
  BY DEF RunsOf
<1> HIDE DEF mine, ord
<1>4. InOrder(mine, ord) \in Seq(Ids) /\ ToSet(InOrder(mine, ord)) = mine
      /\ Len(InOrder(mine, ord)) = Cardinality(mine)
  BY <1>1, <1>2, OrderedSeq
<1> QED
  BY <1>3, <1>4 DEF mine

\* Both halves of a window list stored runs, the current one a first part of the list.
LEMMA WindowsListed ==
    ASSUME TablesInv, NEW p
    PROVE  /\ Windows(p).current \in Seq(Ids) /\ Windows(p).prior \in Seq(Ids)
           /\ Windows(p).current = SubSeq(RunsOf(p), 1, Least(WindowRuns, Len(RunsOf(p))))
<1> DEFINE all  == RunsOf(p)
           n    == Least(2 * WindowRuns, Len(all))
           both == SubSeq(all, 1, n)
           cur  == Least(WindowRuns, Len(both))
           end  == Least(2 * WindowRuns, Len(both))
<1>1. all \in Seq(Ids) /\ Len(all) \in Nat /\ \A k \in 1..Len(all) : all[k] \in Ids
  BY RunsListed, LenProperties, ElementOfSeq
<1> HIDE DEF all
<1>2. n \in 0..Len(all) /\ n <= 2 * WindowRuns
  BY <1>1, Bounds DEF Least
<1>3. both \in Seq(Ids) /\ Len(both) = n
  <2>1. 1 \in Int /\ n \in Int /\ \A k \in 1..n : all[k] \in Ids
    BY <1>1, <1>2
  <2> HIDE DEF n
  <2> QED
    BY <1>2, <2>1, SubSeqProperties
<1>4. cur \in 0..n /\ end \in 0..n /\ cur = Least(WindowRuns, Len(all))
  BY <1>1, <1>3, Bounds DEF Least
<1>5. \A k \in 1..n : both[k] = all[k]
  <2>1. 1 \in Int /\ n \in Int /\ \A k \in 1..n : all[k] \in Ids
    BY <1>1, <1>2
  <2> HIDE DEF n
  <2>2. \A k \in 1..(n - 1 + 1) : both[k] = all[1 + k - 1]
    BY <2>1, SubSeqProperties
  <2> HIDE DEF both
  <2> QED
    BY <1>2, <2>2
<1>6. Windows(p) = [current |-> SubSeq(both, 1, cur), prior |-> SubSeq(both, WindowRuns + 1, end)]
  BY DEF Windows, SplitWindow, all
<1> HIDE DEF both, n, cur, end
<1>7. SubSeq(both, 1, cur) \in Seq(Ids) /\ SubSeq(both, WindowRuns + 1, end) \in Seq(Ids)
  <2>1. \A k \in 1..n : both[k] \in Ids
    BY <1>3, ElementOfSeq
  <2>2. cur \in Int /\ end \in Int /\ WindowRuns + 1 \in Int
        /\ (\A k \in 1..cur : both[k] \in Ids) /\ (\A k \in (WindowRuns + 1)..end : both[k] \in Ids)
    BY <1>2, <1>4, <2>1, Bounds
  <2> DEFINE from == WindowRuns + 1
  <2>3. from \in Int /\ \A k \in from..end : both[k] \in Ids
    BY <2>2
  <2> HIDE DEF from
  <2>4. SubSeq(both, from, end) \in Seq(Ids)
    BY <2>2, <2>3, SubSeqProperties
  <2>5. SubSeq(both, 1, cur) \in Seq(Ids)
    BY <2>2, SubSeqProperties
  <2> QED
    BY <2>4, <2>5 DEF from
<1>8. SubSeq(both, 1, cur) = SubSeq(all, 1, cur)
  BY <1>1, <1>2, <1>3, <1>4, <1>5
<1> QED
  BY <1>4, <1>6, <1>7, <1>8 DEF all

\* durationSeconds of the runs of a list, sorted.
LEMMA DurationsSorted ==
    ASSUME TablesInv, NEW window \in Seq(Ids)
    PROVE  LET d == Durations(window)
           IN  /\ d \in Seq(Int) /\ Len(d) = Cardinality(Timed(window))
               /\ \A j, k \in 1..Len(d) : j < k => d[j] <= d[k]
<1> DEFINE T   == Timed(window)
           ord == {e \in Ids \X Ids : Quicker(e[1], e[2])}
           f   == InOrder(T, ord)
           n   == Cardinality(T)
           d   == [k \in 1..n |-> Duration(f[k])]
<1>1. T \in SUBSET Ids
  <2>1. ToSet(window) \subseteq Ids
    BY DEF ToSet
  <2> QED
    BY <2>1 DEF Timed
<1>2. IsFiniteSet(T) /\ Sorts(ord, T)
  BY <1>1, RowTimes, FS_Subset, RunOrders
<1>3. Durations(window) = d
  BY DEF Durations
<1>4. \A j, k : <<j, k>> \in ord => Quicker(j, k)
  OBVIOUS
<1> HIDE DEF T, ord
<1>5. /\ f \in [1..n -> T] /\ n \in Nat
      /\ \A j, k \in 1..n : j < k => <<f[j], f[k]>> \in ord
  BY <1>2, InOrderSorts
<1> HIDE DEF f, n
<1>6. \A k \in 1..n : d[k] = Duration(f[k]) /\ d[k] \in Int
  BY <1>1, <1>5, RowTimes
<1>7. d \in Seq(Int) /\ Len(d) = n
  <2>1. d \in [1..n -> Int]
    BY <1>6
  <2> HIDE DEF d
  <2> QED
    BY <1>5, <2>1
<1>8. ASSUME NEW j \in 1..n, NEW k \in 1..n, j < k PROVE d[j] <= d[k]
  <2>1. Quicker(f[j], f[k])
    BY <1>4, <1>5, <1>8
  <2> HIDE DEF d
  <2> QED
    BY <1>6, <2>1 DEF Quicker
<1> HIDE DEF d
<1> QED
  BY <1>3, <1>7, <1>8 DEF n, T

\* percentile over the durations of either window of any pipeline is a duration that at
\* least the asked share of them do not exceed, and the least such one.
THEOREM PercentilesAreNearest == Spec => []PercentileIsNearestRank
<1>1. ASSUME TablesInv, NEW window \in Seq(Ids), NEW share \in {<<1, 2>>, <<9, 10>>}
      PROVE  LET d          == Durations(window)
                 covered(v) == share[2] * Cardinality({k \in DOMAIN d : d[k] <= v}) >= share[1] * Len(d)
                 v          == Percentile(d, share[1], share[2])
             IN  d # <<>> => v \in ToSet(d) /\ covered(v) /\ \A w \in ToSet(d) : w < v => ~covered(w)
  <2> DEFINE d   == Durations(window)
             num == share[1]
             den == share[2]
             v   == Percentile(d, num, den)
             upTo(w) == Cardinality({k \in 1..Len(d) : d[k] <= w})
             covered(w) == den * Cardinality({k \in DOMAIN d : d[k] <= w}) >= num * Len(d)
  <2>1. /\ d \in Seq(Int)
        /\ \A j, k \in 1..Len(d) : j < k => d[j] <= d[k]
    BY <1>1, DurationsSorted
  <2>2. den \in Nat \ {0} /\ num \in 0..den
    BY <1>1
  <2> SUFFICES ASSUME d # <<>>
               PROVE  v \in ToSet(d) /\ covered(v) /\ \A w \in ToSet(d) : w < v => ~covered(w)
    OBVIOUS
  <2> HIDE DEF d, num, den
  <2>3. /\ \E k \in 1..Len(d) : d[k] = v
        /\ den * upTo(v) >= num * Len(d)
        /\ \A k \in 1..Len(d) : d[k] < v => den * upTo(d[k]) < num * Len(d)
    BY <2>1, <2>2, PercentileIsNearest
  <2>4. DOMAIN d = 1..Len(d) /\ ToSet(d) = {d[k] : k \in 1..Len(d)}
    BY <2>1, LenProperties DEF ToSet
  <2>5. \A w : covered(w) <=> den * upTo(w) >= num * Len(d)
    BY <2>4
  <2>6. \A k \in 1..Len(d) : upTo(d[k]) \in Nat
    <3> TAKE k \in 1..Len(d)
    <3> DEFINE B == {j \in 1..Len(d) : d[j] <= d[k]}
               I == 1..Len(d)
    <3>1. B \in SUBSET I /\ IsFiniteSet(I)
      BY <2>1, LenProperties, FS_Interval
    <3> HIDE DEF B, I
    <3>2. Cardinality(B) \in Nat
      BY <3>1, FS_Subset, FS_CardinalityType
    <3> QED
      BY <3>2 DEF B
  <2> HIDE DEF v, upTo, covered
  <2>7. ASSUME NEW k \in 1..Len(d), d[k] < v PROVE ~covered(d[k])
    <3>1. den * upTo(d[k]) < num * Len(d) /\ upTo(d[k]) \in Nat
      BY <2>3, <2>6, <2>7
    <3>2. den * upTo(d[k]) \in Int /\ num * Len(d) \in Int
      BY <2>1, <2>2, <3>1, LenProperties
    <3> QED
      BY <2>5, <3>1, <3>2
  <2> QED
    BY <2>3, <2>4, <2>5, <2>7
<1>2. TablesInv => PercentileIsNearestRank
  <2> SUFFICES ASSUME TablesInv, NEW p \in Pipelines,
                      NEW window \in {Windows(p).current, Windows(p).prior},
                      NEW share \in {<<1, 2>>, <<9, 10>>}
               PROVE  LET d          == Durations(window)
                          covered(v) == share[2] * Cardinality({k \in DOMAIN d : d[k] <= v}) >= share[1] * Len(d)
                          v          == Percentile(d, share[1], share[2])
                      IN  d # <<>> => v \in ToSet(d) /\ covered(v) /\ \A w \in ToSet(d) : w < v => ~covered(w)
    BY Zenon DEF PercentileIsNearestRank
  <2>1. window \in Seq(Ids)
    BY WindowsListed
  <2> QED
    BY <1>1, <2>1, Zenon
<1> QED
  BY <1>2, TablesAlways, PTL

-----------------------------------------------------------------------------
(* Pages of a list *)

\* A sequence of sequences laid end to end is what its first ones made, part by part.
MadeOf(part, seqs, n) ==
    /\ part = [k \in 1..n |-> part[k]]
    /\ part[1] = seqs[1]
    /\ \A k \in 1..n : k # 1 => part[k] = part[k - 1] \o seqs[k]
LEMMA Flattened ==
    ASSUME NEW n \in Nat \ {0}, NEW seqs, Len(seqs) = n, NEW part, MadeOf(part, seqs, n)
    PROVE  FlattenSeq(seqs) = part[n]
<1> DEFINE After(f) == [i \in 1..n |-> IF i = 1 THEN seqs[i] ELSE f[i - 1] \o seqs[i]]
           flat     == CHOOSE f : f = After(f)
<1>1. part = After(part)
  <2> DEFINE g == After(part)
  <2>1. \A k \in 1..n : g[k] = IF k = 1 THEN seqs[k] ELSE part[k - 1] \o seqs[k]
    OBVIOUS
  <2>2. g = [k \in 1..n |-> g[k]]
    OBVIOUS
  <2> HIDE DEF g
  <2>3. ASSUME NEW k \in 1..n PROVE g[k] = part[k]
    BY <2>1 DEF MadeOf
  <2>4. [k \in 1..n |-> part[k]] = [k \in 1..n |-> g[k]]
    BY <2>3
  <2> QED
    BY <2>2, <2>4 DEF g, MadeOf
<1>2. flat = After(flat)
  <2> HIDE DEF After
  <2> QED
    BY <1>1
<1>3. \A k \in 1..n : flat[k] = IF k = 1 THEN seqs[k] ELSE flat[k - 1] \o seqs[k]
  <2> DEFINE g == After(flat)
  <2>1. \A k \in 1..n : g[k] = IF k = 1 THEN seqs[k] ELSE flat[k - 1] \o seqs[k]
    OBVIOUS
  <2> HIDE DEF g, flat
  <2>2. flat = g
    BY <1>2 DEF g
  <2> QED
    BY <2>1, <2>2
<1>4. FlattenSeq(seqs) = flat[n]
  BY DEF FlattenSeq
<1> HIDE DEF flat, After
<1>5. flat[1] = part[1] /\ \A k \in 1..n : k # 1 /\ flat[k - 1] = part[k - 1] => flat[k] = part[k]
  <2>1. 1 \in 1..n
    OBVIOUS
  <2>2. flat[1] = part[1]
    BY <1>3, <2>1 DEF MadeOf
  <2>3. ASSUME NEW k \in 1..n, k # 1, flat[k - 1] = part[k - 1] PROVE flat[k] = part[k]
    BY <1>3, <2>3, ZenonT(60) DEF MadeOf
  <2> QED
    BY <2>2, <2>3
<1>6. Alike(flat, part, 1, n)
  BY <1>5 DEF Alike
<1>7. \A k \in 1..n : flat[k] = part[k]
  BY <1>6, SameIteration
<1> QED
  BY <1>4, <1>7

\* Where the pages of a list begin: each but the last is full.
LEMMA PageBounds ==
    ASSUME NEW len \in Nat, NEW limit \in Nat \ {0}
    PROVE  LET pages  == Most(Ceiling(len, limit), 1)
               cut(k) == Least(k * limit, len)
           IN  /\ pages \in Nat \ {0} /\ cut(0) = 0 /\ cut(pages) = len
               /\ \A k \in 1..pages : /\ (k - 1) * limit \in Nat
                                      /\ cut(k - 1) = (k - 1) * limit
                                      /\ cut(k - 1) \in 0..cut(k) /\ cut(k) \in 0..len
                                      /\ cut(k) = Least((k - 1) * limit + limit, len)
                                      /\ cut(k) < len <=> k < pages
<1> DEFINE pages  == Most(Ceiling(len, limit), 1)
           q      == Ceiling(len, limit)
           cut(k) == Least(k * limit, len)
<1>1. q \in Nat /\ len <= limit * q /\ limit * (q - 1) < len
  BY CeilingIsLeast
<1> HIDE DEF q
<1>2. pages = (IF q >= 1 THEN q ELSE 1) /\ pages \in Nat \ {0}
  BY <1>1 DEF Most, q
<1>3. \A k \in Nat : k * limit \in Nat
  BY SMT
<1>4. cut(0) = 0
  BY DEF Least
<1>5. cut(pages) = len
  <2>1. limit * q <= pages * limit
    BY <1>1, <1>2, SMT
  <2> HIDE DEF pages
  <2>2. len <= pages * limit /\ pages * limit \in Nat /\ limit * q \in Nat
    BY <1>1, <1>2, <1>3, <2>1, SMT
  <2> QED
    BY <2>2 DEF Least
<1>6. ASSUME NEW k \in 1..pages
      PROVE  /\ (k - 1) * limit \in Nat
             /\ cut(k - 1) = (k - 1) * limit
             /\ cut(k - 1) \in 0..cut(k) /\ cut(k) \in 0..len
             /\ cut(k) = Least((k - 1) * limit + limit, len)
             /\ cut(k) < len <=> k < pages
  <2>1. k \in Nat /\ k - 1 \in Nat /\ k <= pages
    BY <1>2
  <2>2. (k - 1) * limit \in Nat /\ k * limit \in Nat /\ k * limit = (k - 1) * limit + limit
    BY <2>1, SMT
  <2>3. k < pages => k * limit < len
    <3> SUFFICES ASSUME k < pages PROVE k * limit < len
      OBVIOUS
    <3>1. pages = q /\ q \in Nat /\ k <= q - 1
      BY <1>1, <1>2, <2>1
    <3>2. k * limit <= limit * (q - 1)
      BY <2>1, <3>1, SMT
    <3>3. limit * (q - 1) \in Int
      BY <3>1, SMT
    <3> QED
      BY <1>1, <2>2, <3>2, <3>3
  <2>4. (k - 1) * limit <= len
    <3>1. CASE k = 1
      BY <3>1, SMT
    <3>2. CASE k # 1
      <4>1. pages = q /\ q \in Nat /\ k - 1 <= q - 1
        BY <1>1, <1>2, <2>1, <3>2
      <4>2. (k - 1) * limit <= limit * (q - 1)
        BY <2>1, <4>1, SMT
      <4>3. limit * (q - 1) \in Int
        BY <4>1, SMT
      <4> QED
        BY <1>1, <2>2, <4>2, <4>3
    <3> QED
      BY <3>1, <3>2
  <2>5. k = pages => cut(k) = len
    BY <1>5
  <2> DEFINE a == (k - 1) * limit
             b == k * limit
  <2>6. a \in Nat /\ b \in Nat /\ b = a + limit /\ a <= len /\ (k < pages => b < len)
    BY <2>2, <2>3, <2>4
  <2>7. cut(k - 1) = Least(a, len) /\ cut(k) = Least(b, len)
    OBVIOUS
  <2> HIDE DEF a, b, cut
  <2>8. cut(k - 1) = a /\ cut(k) \in a..len /\ cut(k) = Least(a + limit, len)
    BY <2>6, <2>7 DEF Least
  <2>9. cut(k) < len <=> k < pages
    BY <1>2, <2>1, <2>5, <2>6, <2>7 DEF Least
  <2> QED
    BY <2>6, <2>8, <2>9 DEF a
<1> QED
  BY <1>2, <1>4, <1>5, <1>6

\* Paging through a list, by the store's queries or by paginate, shows all of it in
\* order, and "more" is said on every page but the last.
LEMMA PagesMakeUpList ==
    ASSUME NEW S, NEW list \in Seq(S), NEW limit \in Nat \ {0}
    PROVE  LET pages == Most(Ceiling(Len(list), limit), 1)
               page  == [k \in 1..pages |-> QueryPage(list, limit, (k - 1) * limit)]
           IN  /\ FlattenSeq([k \in 1..pages |-> page[k].items]) = list
               /\ \A k \in 1..pages : /\ page[k].more <=> k < pages
                                      /\ page[k] = Paginate(list, limit, (k - 1) * limit)
<1> DEFINE len   == Len(list)
           pages == Most(Ceiling(len, limit), 1)
           page  == [k \in 1..pages |-> QueryPage(list, limit, (k - 1) * limit)]
           cut(k) == Least(k * limit, len)
           part  == [k \in 1..pages |-> SubSeq(list, 1, cut(k))]
           seqs  == [k \in 1..pages |-> page[k].items]
<1>1. len \in Nat
  BY LenProperties
<1>2. /\ pages \in Nat \ {0} /\ cut(0) = 0 /\ cut(pages) = len
      /\ \A k \in 1..pages : /\ (k - 1) * limit \in Nat
                             /\ cut(k - 1) = (k - 1) * limit
                             /\ cut(k - 1) \in 0..cut(k) /\ cut(k) \in 0..len
                             /\ cut(k) = Least((k - 1) * limit + limit, len)
                             /\ cut(k) < len <=> k < pages
  <2> HIDE DEF len
  <2> QED
    BY <1>1, PageBounds
<1> HIDE DEF len, pages
<1>3. ASSUME NEW k \in 1..pages
      PROVE  /\ page[k] = Paginate(list, limit, (k - 1) * limit)
             /\ page[k].items = SubSeq(list, cut(k - 1) + 1, cut(k))
             /\ page[k].more <=> k < pages
  <2> DEFINE a == (k - 1) * limit
             b == cut(k)
             o == cut(k - 1)
  <2>1. a \in Nat /\ o = a /\ a <= b /\ b \in 0..len /\ b = Least(a + limit, len)
    BY <1>2
  <2>2. b < len <=> k < pages
    BY <1>2
  <2>3. page[k] = QueryPage(list, limit, a)
    OBVIOUS
  <2> HIDE DEF a, b, o, cut, page
  <2>4. page[k] = Paginate(list, limit, a)
    BY <2>1, <2>3, QueryPageIsPaginate
  <2>5. Least(Most(a, 0), len) = a
    BY <1>1, <2>1 DEF Least, Most
  <2>6. Paginate(list, limit, a) = [items |-> SubSeq(list, a + 1, b), more |-> len > b]
    BY <2>1, <2>5, Zenon DEF Paginate, len
  <2>7. Paginate(list, limit, a).items = SubSeq(list, a + 1, b) /\ Paginate(list, limit, a).more = (len > b)
    <3> DEFINE record(i, m) == [items |-> i, more |-> m]
               items == SubSeq(list, a + 1, b)
               more  == len > b
    <3>1. \A i, m : record(i, m).items = i /\ record(i, m).more = m
      OBVIOUS
    <3>2. Paginate(list, limit, a) = record(items, more)
      BY <2>6, Zenon
    <3> HIDE DEF record, items, more
    <3>3. Paginate(list, limit, a).items = items /\ Paginate(list, limit, a).more = more
      BY <3>1, <3>2, Zenon
    <3> QED
      BY <3>3, Zenon DEF items, more
  <2>9. page[k].more <=> len > b
    BY <2>4, <2>7, Zenon
  <2>10. len > b <=> b < len
    BY <1>1, <2>1
  <2>11. page[k].more <=> k < pages
    BY <2>2, <2>9, <2>10, Zenon
  <2>12. page[k].items = SubSeq(list, o + 1, b)
    BY <2>1, <2>4, <2>7
  <2> QED
    BY <2>4, <2>11, <2>12, Zenon DEF a, b, o
<1>4. \A k \in 1..pages : part[k] = SubSeq(list, 1, cut(k)) /\ seqs[k] = SubSeq(list, cut(k - 1) + 1, cut(k))
  <2> HIDE DEF page
  <2> QED
    BY <1>3
<1>5. part[1] = seqs[1]
  <2>1. 1 \in 1..pages /\ 1 - 1 = 0
    BY <1>2
  <2>2. cut(1 - 1) = 0
    BY <1>2, <2>1
  <2> HIDE DEF part, seqs, cut
  <2>3. seqs[1] = SubSeq(list, 0 + 1, cut(1))
    BY <1>4, <2>1, <2>2
  <2>4. part[1] = SubSeq(list, 1, cut(1))
    BY <1>4, <2>1
  <2> QED
    BY <2>3, <2>4
<1>6. ASSUME NEW k \in 1..pages, k # 1 PROVE part[k] = part[k - 1] \o seqs[k]
  <2> DEFINE a == cut(k - 1)
             b == cut(k)
  <2>1. k - 1 \in 1..pages /\ a \in 0..b /\ b \in 0..len
    BY <1>2, <1>6
  <2>2. part[k] = SubSeq(list, 1, b) /\ seqs[k] = SubSeq(list, a + 1, b) /\ part[k - 1] = SubSeq(list, 1, a)
    BY <1>4, <2>1
  <2> HIDE DEF part, seqs, a, b
  <2> DEFINE one == 1
  <2>3. one \in 1..(len + 1) /\ a \in (one - 1)..len /\ b \in a..len
    BY <1>1, <2>1
  <2> HIDE DEF one
  <2>4. SubSeq(list, one, a) \o SubSeq(list, a + 1, b) = SubSeq(list, one, b)
    BY <2>3, ConcatAdjacentSubSeq DEF len
  <2> QED
    BY <2>2, <2>4 DEF one
<1>7. FlattenSeq(seqs) = part[pages]
  <2>1. Len(seqs) = pages
    BY <1>2
  <2>2. part = [k \in 1..pages |-> part[k]]
    OBVIOUS
  <2> HIDE DEF seqs, part
  <2> QED
    <3>1. MadeOf(part, seqs, pages)
      BY <1>5, <1>6, <2>2 DEF MadeOf
    <3> QED
      BY <1>2, <2>1, <3>1, Flattened
<1>8. part[pages] = list
  <2>1. pages \in 1..pages /\ cut(pages) = len
    BY <1>2
  <2> HIDE DEF part, cut
  <2>2. part[pages] = SubSeq(list, 1, len)
    BY <1>4, <2>1
  <2> QED
    BY <2>2, SubSeqFull DEF len
<1>9. /\ FlattenSeq([k \in 1..pages |-> page[k].items]) = list
      /\ \A k \in 1..pages : /\ page[k].more <=> k < pages
                             /\ page[k] = Paginate(list, limit, (k - 1) * limit)
  <2>1. FlattenSeq([k \in 1..pages |-> page[k].items]) = list
    BY <1>7, <1>8, Zenon
  <2> HIDE DEF page, part, cut
  <2> QED
    BY <1>3, <2>1, Zenon
<1> HIDE DEF part, cut, seqs
<1> QED
  BY <1>9, Zenon DEF len, pages

\* ListRuns lists stored runs, those that have not started first.
LEMMA RunListed ==
    ASSUME TablesInv, NEW status
    PROVE  /\ RunList(status) \in Seq(Ids)
           /\ status = "failed" => ToSet(RunList(status)) = {i \in Ids : Failed(i)}
<1> DEFINE newer(i, j) == IF rows[i].started = 0 \/ rows[j].started = 0
                          THEN \/ rows[i].started = 0 /\ rows[j].started > 0
                               \/ rows[i].started = rows[j].started /\ i > j
                          ELSE MoreRecent(i, j)
           kept(i) == CASE status = "failed"  -> rows[i].conclusion \in {"failure", "timed_out"}
                        [] status = "running" -> ~Completed(i)
                        [] status = "success" -> Passed(i)
                        [] OTHER              -> TRUE
           S   == {i \in Ids : kept(i)}
           ord == {e \in Ids \X Ids : newer(e[1], e[2])}
<1>1. S \in SUBSET Ids /\ IsFiniteSet(S)
  BY RowTimes, FS_Subset
<1>2. Sorts(ord, S)
  <2>1. \A i \in Ids : i \in Nat /\ rows[i].started \in Nat
    BY RowTimes
  <2>2. \A i, j \in S : <<i, j>> \in ord <=> newer(i, j)
    OBVIOUS
  <2>3. \A i \in S : i \in Ids
    OBVIOUS
  <2>4. \A i, j \in Ids : MoreRecent(i, j)
          <=> StartsLater(i, j) \/ (~StartsLater(j, i) /\ i > j)
    BY DEF MoreRecent
  <2>5. \A i, j \in Ids :
          newer(i, j) <=>
            \/ rows[i].started = 0 /\ rows[j].started > 0
            \/ rows[i].started = 0 /\ rows[j].started = 0 /\ i > j
            \/ rows[i].started > 0 /\ rows[j].started > 0 /\ MoreRecent(i, j)
    BY <2>1
  <2> HIDE DEF S, ord, newer
  <2>6. /\ \A i \in Ids : ~newer(i, i)
        /\ \A i, j \in Ids : i # j => newer(i, j) \/ newer(j, i)
    <3>1. \A i, j \in Ids : StartsLater(i, j) => ~StartsLater(j, i)
      BY StartsInOrder
    <3> QED
      BY <2>1, <2>4, <2>5, <3>1
  <2>7. \A i, j, k \in Ids : newer(i, j) /\ newer(j, k) => newer(i, k)
    <3>1. \A i, j, k \in Ids : MoreRecent(i, j) /\ MoreRecent(j, k) => MoreRecent(i, k)
      BY <2>1, <2>4, StartsInOrder
    <3> HIDE DEF newer
    <3> QED
      BY <2>1, <2>5, <3>1
  <2> QED
    BY <2>2, <2>3, <2>6, <2>7 DEF Sorts
<1>3. RunList(status) = InOrder(S, ord)
  BY Zenon DEF RunList
<1>4. status = "failed" => S = {i \in Ids : Failed(i)}
  BY DEF Failed, Failing
<1> HIDE DEF S, ord
<1>5. InOrder(S, ord) \in Seq(Ids) /\ ToSet(InOrder(S, ord)) = S
  BY <1>1, <1>2, OrderedSeq
<1> QED
  BY <1>3, <1>4, <1>5

\* The occurrences of a step in some of the runs are finitely many.
LEMMA OccurrencesFinite ==
    ASSUME TablesInv, NEW S \in SUBSET Ids, NEW s
    PROVE  IsFiniteSet(Occurrences(S, s))
<1>1. IsFiniteSet(S)
  BY RowTimes, FS_Subset
<1>2. IsFiniteSet({e \in JobSteps : e[2] = s})
  BY Bounds, FS_Subset
<1> QED
  BY <1>1, <1>2, FS_Product DEF Occurrences

\* ListFlakySteps's entries: one for a step at most, with numbers for its rate.
LEMMA FlakyEntries ==
    ASSUME TablesInv, NEW span, NEW a \in FlakySteps(span)
    PROVE  /\ a.key \in Pipelines \X Steps
           /\ a.rate.num \in Nat /\ a.rate.den \in Nat
           /\ \A b \in FlakySteps(span) : a.key = b.key => a = b
<1> DEFINE of(p)   == {i \in StepRuns(span) : rows[i].pipeline = p}
           f(p, s) == StepFigures(of(p), s)
<1>1. ASSUME NEW b \in FlakySteps(span)
      PROVE  \E p \in Pipelines, s \in Steps : b = [key |-> <<p, s>>, rate |-> f(p, s).rate]
  <2>0. PICK p \in Pipelines, s \in Steps :
               \E r \in FlakyStep(of(p), s) : b = [key |-> <<p, s>>, rate |-> r]
    BY <1>1, SMTT(60) DEF FlakySteps
  <2>1. PICK r \in FlakyStep(of(p), s) : b = [key |-> <<p, s>>, rate |-> r]
    BY <2>0
  <2>2. FlakyStep(of(p), s) = IF f(p, s).flaky THEN {f(p, s).rate} ELSE {}
    <3> HIDE DEF of
    <3> QED
      BY FlakyStepIsFlaky
  <2>3. r = f(p, s).rate
    <3> HIDE DEF f
    <3> QED
      BY <2>1, <2>2
  <2> QED
    BY <2>1, <2>3
<1>2. ASSUME NEW p \in Pipelines, NEW s \in Steps
      PROVE  f(p, s).rate.num \in Nat /\ f(p, s).rate.den \in Nat
  <2> DEFINE done   == {o \in Occurrences(of(p), s) : Result(o) # "running"}
             failed == {o \in Occurrences(of(p), s) : Result(o) = "failure"}
  <2>1. IsFiniteSet(done) /\ IsFiniteSet(failed)
    <3>1. of(p) \in SUBSET Ids
      BY DEF StepRuns, StartedIn
    <3> HIDE DEF of
    <3>2. IsFiniteSet(Occurrences(of(p), s))
      BY <3>1, OccurrencesFinite
    <3> QED
      BY <3>2, FS_Subset
  <2>2. f(p, s).rate = [num |-> Cardinality(failed), den |-> Cardinality(done)]
    <3> HIDE DEF of
    <3> QED
      BY FiguresOfStep
  <2> HIDE DEF done, failed, f
  <2>3. Cardinality(failed) \in Nat /\ Cardinality(done) \in Nat
    BY <2>1, FS_CardinalityType
  <2> QED
    BY <2>2, <2>3
<1> HIDE DEF f
<1>3. PICK p \in Pipelines, s \in Steps : a = [key |-> <<p, s>>, rate |-> f(p, s).rate]
  BY <1>1
<1>4. a.key = <<p, s>> /\ a.rate = f(p, s).rate
  BY <1>3
<1>5. ASSUME NEW b \in FlakySteps(span), a.key = b.key PROVE a = b
  <2>1. PICK q \in Pipelines, t \in Steps : b = [key |-> <<q, t>>, rate |-> f(q, t).rate]
    BY <1>1
  <2>2. q = p /\ t = s
    BY <1>4, <1>5, <2>1
  <2> QED
    BY <1>3, <2>1, <2>2
<1> QED
  BY <1>2, <1>4, <1>5

\* A list of the elements of a finite set has each of them.
LEMMA ListsEach ==
    ASSUME NEW K, IsFiniteSet(K), NEW keys \in SetToSeqs(K)
    PROVE  /\ keys \in Seq(K) /\ DOMAIN keys = 1..Len(keys) /\ Len(keys) \in Nat
           /\ \A k \in 1..Len(keys) : keys[k] \in K
           /\ \A key \in K : \E k \in 1..Len(keys) : keys[k] = key
<1> DEFINE n == Cardinality(K)
<1>1. n \in Nat /\ IsFiniteSet(1..n) /\ Cardinality(1..n) = n
  BY FS_CardinalityType, FS_Interval
<1>2. keys \in [1..n -> K] /\ \A k, l \in 1..n : k # l => keys[k] # keys[l]
  BY DEF SetToSeqs
<1>3. \A key \in K : \E k \in 1..n : keys[k] = key
  <2> HIDE DEF n
  <2>1. keys \in Injection(1..n, K)
    BY <1>2 DEF Injection, IsInjective
  <2>2. keys \in Surjection(1..n, K)
    BY <1>1, <2>1, FS_Injection DEF n
  <2> QED
    BY <2>2 DEF Surjection
<1> HIDE DEF n
<1>4. keys \in Seq(K) /\ Len(keys) = n /\ DOMAIN keys = 1..n
  BY <1>1, <1>2
<1> QED
  BY <1>1, <1>2, <1>3, <1>4

\* A list of the elements of a finite set gives each a place of its own.
LEMMA PlacesDiffer ==
    ASSUME NEW K, IsFiniteSet(K), NEW keys \in SetToSeqs(K), NEW a \in K, NEW b \in K
    PROVE  Position(a, keys) \in Nat /\ (a # b => Position(a, keys) # Position(b, keys))
<1> DEFINE n == Len(keys)
           i == Position(a, keys)
           j == Position(b, keys)
<1>1. n \in Nat /\ DOMAIN keys = 1..n /\ \A key \in K : \E k \in 1..n : keys[k] = key
  BY ListsEach
<1> HIDE DEF n
<1>2. i \in 1..n /\ keys[i] = a /\ j \in 1..n /\ keys[j] = b
  BY <1>1 DEF Position
<1> HIDE DEF i, j
<1> QED
  BY <1>1, <1>2 DEF i, j

\* The ranking of the flaky steps puts one of any two before the other.
LEMMA RankingIsTotal ==
    ASSUME TablesInv, NEW span, NEW a \in FlakySteps(span), NEW b \in FlakySteps(span), a # b,
           NEW keys \in SetToSeqs(Pipelines \X Steps)
    PROVE  RankedBefore(a, b, keys) <=> ~RankedBefore(b, a, keys)
<1> DEFINE K == Pipelines \X Steps
           x == a.rate.num * b.rate.den
           y == b.rate.num * a.rate.den
           i == Position(a.key, keys)
           j == Position(b.key, keys)
<1>1. /\ a.key \in K /\ b.key \in K /\ a.key # b.key
      /\ a.rate.num \in Nat /\ a.rate.den \in Nat /\ b.rate.num \in Nat /\ b.rate.den \in Nat
  BY FlakyEntries
<1>2. IsFiniteSet(K)
  <2>1. IsFiniteSet(Pipelines) /\ IsFiniteSet(Steps)
    BY MetricsAssumption
  <2> QED
    BY <2>1, FS_Product
<1>3. keys \in SetToSeqs(K)
  OBVIOUS
<1> HIDE DEF K
<1>4. i # j /\ i \in Nat /\ j \in Nat
  BY <1>1, <1>2, <1>3, PlacesDiffer
<1>5. x \in Nat /\ y \in Nat
  BY <1>1, SMT
<1>6. /\ RankedBefore(a, b, keys) <=> \/ x > y
                                      \/ x = y /\ a.rate.den > b.rate.den
                                      \/ x = y /\ a.rate.den = b.rate.den /\ i < j
      /\ RankedBefore(b, a, keys) <=> \/ y > x
                                      \/ y = x /\ b.rate.den > a.rate.den
                                      \/ y = x /\ b.rate.den = a.rate.den /\ j < i
  BY Zenon DEF RankedBefore
<1> DEFINE c == a.rate.den
           d == b.rate.den
<1>7. c \in Nat /\ d \in Nat
  BY <1>1
<1> HIDE DEF x, y, i, j, c, d
<1> QED
  BY <1>5, <1>4, <1>6, <1>7 DEF c, d

\* Paging through the list of runs shows each once, in order, and says "more" on all
\* pages but the last, at any limit; the flaky steps have one ranking.
THEOREM RunListPaged == Spec => []RunListPages
<1>1. TablesInv => RunListPages
  <2> SUFFICES ASSUME TablesInv PROVE RunListPages
    OBVIOUS
  <2>1. \A span \in Spans : \A a, b \in FlakySteps(span) : a # b =>
           \A keys \in SetToSeqs(Pipelines \X Steps) :
               RankedBefore(a, b, keys) <=> ~RankedBefore(b, a, keys)
    BY RankingIsTotal
  <2>2. ASSUME NEW status \in {"failed", "running", "success", "all"}
        PROVE  RunPagesOf(RunList(status))
    <3> DEFINE list == RunList(status)
    <3>1. list \in Seq(Ids)
      BY RunListed
    <3> HIDE DEF list
    <3>2. ASSUME NEW limit \in 1..Len(list) + 1
          PROVE  LET pages == Most(Ceiling(Len(list), limit), 1)
                     page  == [k \in 1..pages |-> QueryPage(list, limit, (k - 1) * limit)]
                 IN  /\ FlattenSeq([k \in 1..pages |-> page[k].items]) = list
                     /\ \A k \in 1..pages :
                          /\ page[k].more <=> k < pages
                          /\ page[k] = Paginate(list, limit, (k - 1) * limit)
      <4>1. limit \in Nat \ {0}
        BY <3>1
      <4> QED
        BY <3>1, <4>1, PagesMakeUpList, Zenon
    <3>3. RunPagesOf(list)
      BY <3>2, Zenon DEF RunPagesOf
    <3> QED
      BY <3>3, Zenon DEF list
  <2> QED
    BY <2>1, <2>2, Zenon DEF RunListPages
<1> QED
  BY <1>1, TablesAlways, PTL

-----------------------------------------------------------------------------
(* Failures *)

\* mostCommon's choice as it goes through the counted conclusions.
NoChoice == [key |-> "", count |-> 0]
Choose(counts, key, best) ==
    IF counts[key] > best.count \/ (counts[key] = best.count /\ key = "failure")
    THEN [key |-> key, count |-> counts[key]]
    ELSE best
Chooses(f, counts, keys, n) ==
    /\ f = [k \in 0..n |-> f[k]]
    /\ f[0] = NoChoice
    /\ \A k \in 1..n : f[k] = Choose(counts, keys[k], f[k - 1])

\* The recursion goes through those choices.
LEMMA MostCommonIs ==
    ASSUME NEW counts, NEW n \in Nat, NEW keys, Len(keys) = n, NEW part, Chooses(part, counts, keys, n)
    PROVE  MostCommon(counts, keys) = part[n]
<1> DEFINE After(f) == [k \in 0..n |-> IF k = 0 THEN NoChoice ELSE Choose(counts, keys[k], f[k - 1])]
           best == CHOOSE f : f = After(f)
<1>1. part = After(part)
  <2> DEFINE g == After(part)
  <2>1. \A k \in 0..n : g[k] = IF k = 0 THEN NoChoice ELSE Choose(counts, keys[k], part[k - 1])
    OBVIOUS
  <2>2. g = [k \in 0..n |-> g[k]]
    OBVIOUS
  <2> HIDE DEF g
  <2>3. ASSUME NEW k \in 0..n PROVE g[k] = part[k]
    <3>1. CASE k = 0
      BY <2>1, <3>1 DEF Chooses
    <3>2. CASE k # 0
      <4>1. k \in 1..n
        BY <3>2
      <4> QED
        BY <2>1, <3>2, <4>1 DEF Chooses
    <3> QED
      BY <3>1, <3>2
  <2>4. [k \in 0..n |-> part[k]] = [k \in 0..n |-> g[k]]
    BY <2>3
  <2> QED
    BY <2>2, <2>4 DEF g, Chooses
<1>2. best = After(best)
  <2> HIDE DEF After
  <2> QED
    BY <1>1
<1>3. \A k \in 0..n : best[k] = IF k = 0 THEN NoChoice ELSE Choose(counts, keys[k], best[k - 1])
  <2> DEFINE g == After(best)
  <2>1. \A k \in 0..n : g[k] = IF k = 0 THEN NoChoice ELSE Choose(counts, keys[k], best[k - 1])
    OBVIOUS
  <2> HIDE DEF g, best
  <2>2. best = g
    BY <1>2 DEF g
  <2> QED
    BY <2>1, <2>2
<1>4. MostCommon(counts, keys) = best[n]
  BY DEF MostCommon, Choose, NoChoice
<1>5. Alike(best, part, 0, n)
  <2> HIDE DEF best, After
  <2>1. best[0] = part[0]
    <3>1. 0 \in 0..n
      OBVIOUS
    <3> QED
      BY <1>3, <3>1 DEF Chooses
  <2>2. ASSUME NEW k \in 0..n, k # 0, best[k - 1] = part[k - 1] PROVE best[k] = part[k]
    <3>1. k \in 1..n
      BY <2>2
    <3>2. part[k] = Choose(counts, keys[k], part[k - 1])
      BY <3>1 DEF Chooses
    <3> QED
      BY <1>3, <2>2, <3>2
  <2> QED
    BY <2>1, <2>2 DEF Alike
<1> HIDE DEF best, After
<1>6. \A k \in 0..n : best[k] = part[k]
  <2> DEFINE a == 0
  <2>1. Alike(best, part, a, n) /\ a \in Nat
    BY <1>5
  <2> HIDE DEF a
  <2>2. \A k \in a..n : best[k] = part[k]
    BY <2>1, SameIteration
  <2> QED
    BY <2>2 DEF a
<1> QED
  BY <1>4, <1>6

\* Of the two ways a step fails mostCommon takes the more frequent one, and of equally
\* frequent ones the first by name, in whatever order it visits them.
LEMMA MostCommonOfFailing ==
    ASSUME NEW counts \in [Failing -> Nat], NEW keys \in SetToSeqs({c \in Failing : counts[c] > 0}),
           {c \in Failing : counts[c] > 0} # {}
    PROVE  MostCommon(counts, keys).key
             = IF counts["failure"] >= counts["timed_out"] THEN "failure" ELSE "timed_out"
<1> DEFINE seen == {c \in Failing : counts[c] > 0}
           n    == Cardinality(seen)
           winner == IF counts["failure"] >= counts["timed_out"] THEN "failure" ELSE "timed_out"
<1>1. counts["failure"] \in Nat /\ counts["timed_out"] \in Nat
  BY DEF Failing
<1>2. keys \in [1..n -> seen] /\ \A i, j \in 1..n : i # j => keys[i] # keys[j]
  BY DEF SetToSeqs
<1>3. CASE counts["failure"] = 0 \/ counts["timed_out"] = 0
  <2>1. seen = {winner} /\ counts[winner] > 0 /\ counts[winner] \in Nat
    BY <1>1, <1>3 DEF Failing
  <2>2. n = 1
    BY <2>1, FS_Singleton
  <2>3. keys[1] = winner /\ Len(keys) = 1
    BY <1>2, <2>1, <2>2
  <2> DEFINE one  == [key |-> winner, count |-> counts[winner]]
             part == [k \in 0..1 |-> IF k = 0 THEN NoChoice ELSE one]
  <2>4. part[0] = NoChoice /\ part[1] = one /\ one.key = winner /\ part = [k \in 0..1 |-> part[k]]
    OBVIOUS
  <2>5. one = Choose(counts, winner, NoChoice)
    BY <2>1 DEF Choose, NoChoice
  <2> HIDE DEF one, winner, seen, n, part
  <2>6. Chooses(part, counts, keys, 1)
    BY <2>3, <2>4, <2>5 DEF Chooses
  <2>7. MostCommon(counts, keys) = part[1]
    BY <2>3, <2>6, MostCommonIs
  <2> QED
    BY <2>4, <2>7 DEF winner
<1>4. CASE counts["failure"] # 0 /\ counts["timed_out"] # 0
  <2>1. seen = {"failure", "timed_out"}
    BY <1>1, <1>4 DEF Failing
  <2>2. n = 2
    <3>1. IsFiniteSet({"failure"}) /\ Cardinality({"failure"}) = 1
      BY FS_Singleton
    <3>2. Cardinality({"failure"} \union {"timed_out"}) = 1 + 1
      BY <3>1, FS_AddElement
    <3>3. seen = {"failure"} \union {"timed_out"}
      BY <2>1
    <3> QED
      BY <3>2, <3>3
  <2> HIDE DEF seen, n
  <2>3. /\ Len(keys) = 2
        /\ \/ keys[1] = "failure" /\ keys[2] = "timed_out"
           \/ keys[1] = "timed_out" /\ keys[2] = "failure"
    BY <1>2, <2>1, <2>2
  <2> DEFINE one  == [key |-> keys[1], count |-> counts[keys[1]]]
             two  == Choose(counts, keys[2], one)
             part == [k \in 0..2 |-> IF k = 0 THEN NoChoice ELSE IF k = 1 THEN one ELSE two]
  <2>4. part[0] = NoChoice /\ part[1] = one /\ part[2] = two /\ part = [k \in 0..2 |-> part[k]]
    OBVIOUS
  <2>5. one = Choose(counts, keys[1], NoChoice)
    <3>1. NoChoice.count = 0
      BY DEF NoChoice
    <3>2. counts[keys[1]] > 0
      BY <1>1, <1>4, <2>3
    <3> QED
      BY <3>1, <3>2 DEF Choose
  <2>6. two.key = winner
    BY <1>1, <2>3 DEF Choose
  <2> HIDE DEF one, two, winner, part
  <2>7. Chooses(part, counts, keys, 2)
    <3>1. ASSUME NEW k \in 1..2 PROVE part[k] = Choose(counts, keys[k], part[k - 1])
      <4>1. k = 1 \/ k = 2
        OBVIOUS
      <4>2. part[1] = Choose(counts, keys[1], part[1 - 1])
        BY <2>4, <2>5
      <4>3. part[2] = Choose(counts, keys[2], part[2 - 1])
        BY <2>4 DEF two
      <4> QED
        BY <4>1, <4>2, <4>3
    <3> QED
      BY <2>4, <3>1 DEF Chooses
  <2>8. MostCommon(counts, keys) = part[2]
    BY <2>3, <2>7, MostCommonIs, ZenonT(60)
  <2> QED
    BY <2>4, <2>6, <2>8 DEF winner
<1> QED
  BY <1>3, <1>4

\* A step's failures in a window, counted by how they ended and together.
Ended(S, s, c) == {o \in Occurrences(S, s) : Result(o) = c}
FailureCounts(S, s) == [c \in Failing |-> Cardinality(Ended(S, s, c))]
LEMMA StageCounts ==
    ASSUME TablesInv, NEW S \in SUBSET Ids, NEW s
    PROVE  LET counts == FailureCounts(S, s)
           IN  /\ counts \in [Failing -> Nat]
               /\ counts["failure"] + counts["timed_out"] = StageFailures(S, s)
               /\ \A c \in Failing : counts[c] > 0 <=> Ended(S, s, c) # {}
<1> DEFINE ended(c) == Ended(S, s, c)
           counts   == FailureCounts(S, s)
           f == ended("failure")
           t == ended("timed_out")
<1>1. \A c : IsFiniteSet(ended(c)) /\ Cardinality(ended(c)) \in Nat
             /\ (Cardinality(ended(c)) = 0 <=> ended(c) = {})
  <2> TAKE c
  <2>1. IsFiniteSet(Occurrences(S, s)) /\ ended(c) \subseteq Occurrences(S, s)
    BY OccurrencesFinite DEF Ended
  <2> DEFINE e == ended(c)
  <2> HIDE DEF e
  <2> QED
    BY <2>1, FS_Subset, FS_CardinalityType, FS_EmptySet DEF e
<1>2. IsFiniteSet(f) /\ IsFiniteSet(t) /\ Cardinality(f) \in Nat /\ Cardinality(t) \in Nat
  BY <1>1
<1>3. f \intersect t = {} /\ FailedSteps(S, s) = f \union t
  BY DEF FailedSteps, Failing, Ended
<1> HIDE DEF ended, f, t
<1>4. Cardinality(f \union t) = Cardinality(f) + Cardinality(t)
  BY <1>2, <1>3, FS_Union, FS_EmptySet
<1>5. counts["failure"] = Cardinality(f) /\ counts["timed_out"] = Cardinality(t)
  BY DEF Failing, FailureCounts, f, t, ended
<1>6. counts["failure"] + counts["timed_out"] = StageFailures(S, s)
  BY <1>3, <1>4, <1>5 DEF StageFailures
<1>7. counts \in [Failing -> Nat] /\ \A c \in Failing : counts[c] > 0 <=> ended(c) # {}
  BY <1>1 DEF FailureCounts, ended
<1> HIDE DEF counts
<1> QED
  BY <1>6, <1>7 DEF counts, ended

\* failureGroups's entry of a step that failed is one, whatever order a map is visited in.
LEMMA OneFailureGroup ==
    ASSUME TablesInv, NEW S \in SUBSET Ids, NEW s, FailedSteps(S, s) # {}
    PROVE  LET groups == FailureGroups(S, s) IN
           /\ Cardinality(groups) = 1
           /\ \A g \in groups :
                /\ g.occurrences = StageFailures(S, s)
                /\ \E o \in FailedSteps(S, s) : Result(o) = g.conclusion
<1> DEFINE ended(c) == Ended(S, s, c)
           counts   == FailureCounts(S, s)
           seen     == {c \in Failing : counts[c] > 0}
           winner   == IF counts["failure"] >= counts["timed_out"] THEN "failure" ELSE "timed_out"
           total    == counts["failure"] + counts["timed_out"]
           group    == [conclusion |-> winner, occurrences |-> total]
           groups   == FailureGroups(S, s)
<1>1. /\ counts \in [Failing -> Nat] /\ total = StageFailures(S, s)
      /\ \A c \in Failing : counts[c] > 0 <=> ended(c) # {}
  BY StageCounts
<1>2. groups = {[conclusion |-> MostCommon(counts, keys).key, occurrences |-> total] : keys \in SetToSeqs(seen)}
  BY Zenon DEF FailureGroups, FailureCounts, Ended
<1>3. seen # {}
  <2>1. PICK o \in Occurrences(S, s) : Result(o) \in Failing
    BY DEF FailedSteps
  <2> DEFINE c == Result(o)
  <2>2. c \in Failing /\ ended(c) # {}
    BY <2>1 DEF Ended
  <2> HIDE DEF counts, ended, c
  <2> QED
    BY <1>1, <2>2
<1>4. winner \in seen
  <2>1. counts["failure"] \in Nat /\ counts["timed_out"] \in Nat
    BY <1>1 DEF Failing
  <2> HIDE DEF counts
  <2> QED
    BY <1>3, <2>1 DEF Failing
<1>5. \A keys \in SetToSeqs(seen) : MostCommon(counts, keys).key = winner
  <2> HIDE DEF counts
  <2> QED
    BY <1>1, <1>3, MostCommonOfFailing
<1>6. SetToSeqs(seen) # {}
  <2>1. seen \in SUBSET {"failure", "timed_out"}
    BY DEF Failing
  <2>2. IsFiniteSet({"failure", "timed_out"})
    <3>1. IsFiniteSet({"failure"} \union {"timed_out"})
      BY FS_Singleton, FS_AddElement
    <3>2. {"failure", "timed_out"} = {"failure"} \union {"timed_out"}
      OBVIOUS
    <3> QED
      BY <3>1, <3>2
  <2> HIDE DEF seen
  <2>3. IsFiniteSet(seen)
    BY <2>1, <2>2, FS_Subset
  <2>4. PICK f \in Bijection(1..Cardinality(seen), seen) : TRUE
    BY <2>3, FS_CardinalityType DEF ExistsBijection
  <2>5. f \in SetToSeqs(seen)
    BY <2>4 DEF SetToSeqs, Bijection, Injection, IsInjective
  <2> QED
    BY <2>5
<1>7. winner \in Failing /\ \E o \in FailedSteps(S, s) : Result(o) = winner
  <2>1. winner \in Failing /\ ended(winner) # {}
    <3> HIDE DEF counts, winner, ended
    <3> QED
      BY <1>1, <1>4
  <2> HIDE DEF winner
  <2> QED
    BY <2>1 DEF FailedSteps, Ended, ended
<1> HIDE DEF counts, seen, winner, total, ended, groups
<1>8. groups = {group}
  BY <1>2, <1>5, <1>6
<1>9. group.occurrences = StageFailures(S, s) /\ group.conclusion = winner
  BY <1>1
<1> HIDE DEF group
<1> QED
  BY <1>7, <1>8, <1>9, FS_Singleton DEF groups

\* A failed step has one failure group with the stage distribution's count, and the runs
\* listed as failed (ListRuns) are those the pass rate counts as failed and those of the
\* top failing pipelines, in any window.
THEOREM FailureViews == Spec => []FailureViewsAgree
<1>1. ASSUME TablesInv, NEW span \in Spans
      PROVE  LET S      == InsightRuns(span).current
                 rate   == PassRate(S)
                 listed == ToSet(RunList("failed")) \intersect S
             IN  /\ \A s \in Steps : FailedSteps(S, s) # {} =>
                      LET groups == FailureGroups(S, s) IN
                      /\ Cardinality(groups) = 1
                      /\ \A g \in groups :
                           /\ g.occurrences = StageFailures(S, s)
                           /\ \E o \in FailedSteps(S, s) : Result(o) = g.conclusion
                 /\ listed = UNION {FailedRuns(S, p) : p \in TopFailingPipelines(S)}
                 /\ Cardinality(listed) = rate.den - rate.num
  <2> DEFINE S      == InsightRuns(span).current
             rate   == PassRate(S)
             listed == ToSet(RunList("failed")) \intersect S
             failed == {i \in S : Failed(i)}
             passed == {i \in S : Passed(i)}
  <2>1. S \in SUBSET Ids
    BY DEF InsightRuns, StartedIn
  <2> HIDE DEF S
  <2>2. \A s \in Steps : FailedSteps(S, s) # {} =>
           LET groups == FailureGroups(S, s) IN
           /\ Cardinality(groups) = 1
           /\ \A g \in groups :
                /\ g.occurrences = StageFailures(S, s)
                /\ \E o \in FailedSteps(S, s) : Result(o) = g.conclusion
    BY <1>1, <2>1, OneFailureGroup
  <2>3. listed = failed
    <3>1. ToSet(RunList("failed")) = {i \in Ids : Failed(i)}
      BY <1>1, RunListed
    <3> QED
      BY <2>1, <3>1
  <2>4. failed = UNION {FailedRuns(S, p) : p \in TopFailingPipelines(S)}
    <3>1. \A i \in S : rows[i].pipeline \in Pipelines
      BY <1>1, <2>1, RowsTyped DEF GoodRows, RunRow
    <3>2. \A p \in TopFailingPipelines(S) : FailedRuns(S, p) \subseteq failed
      BY DEF FailedRuns
    <3>3. \A i \in failed : i \in FailedRuns(S, rows[i].pipeline)
      BY DEF FailedRuns
    <3>4. \A i \in failed : rows[i].pipeline \in TopFailingPipelines(S)
      BY <3>1, <3>3 DEF TopFailingPipelines
    <3> HIDE DEF failed
    <3> QED
      BY <3>2, <3>3, <3>4
  <2>5. Cardinality(failed) = rate.den - rate.num
    <3>1. {i \in S : Passed(i) \/ Failed(i)} = passed \union failed /\ passed \intersect failed = {}
      BY DEF Passed, Failed, Failing
    <3>2. rate.num = Cardinality(passed) /\ rate.den = Cardinality(passed \union failed)
      BY <3>1 DEF PassRate, Rate
    <3>3. passed \in SUBSET Ids /\ failed \in SUBSET Ids
      BY <2>1
    <3> HIDE DEF passed, failed, rate
    <3>4. /\ IsFiniteSet(passed) /\ IsFiniteSet(failed)
          /\ Cardinality(passed) \in Nat /\ Cardinality(failed) \in Nat
      BY <1>1, <3>3, RowTimes, FS_Subset, FS_CardinalityType
    <3>5. Cardinality(passed \union failed) = Cardinality(passed) + Cardinality(failed)
      <4>1. Cardinality(passed \union failed)
              = Cardinality(passed) + Cardinality(failed) - Cardinality(passed \intersect failed)
        BY <3>4, FS_Union
      <4>2. Cardinality(passed \intersect failed) = 0
        BY <3>1, FS_EmptySet
      <4> QED
        BY <3>4, <4>1, <4>2
    <3> QED
      BY <3>2, <3>4, <3>5
  <2> HIDE DEF rate, listed, failed
  <2>6. /\ listed = UNION {FailedRuns(S, p) : p \in TopFailingPipelines(S)}
        /\ Cardinality(listed) = rate.den - rate.num
    BY <2>3, <2>4, <2>5
  <2> QED
    BY <2>2, <2>6, Zenon DEF S, rate, listed
<1>2. TablesInv => FailureViewsAgree
  BY <1>1, Zenon DEF FailureViewsAgree
<1> QED
  BY <1>2, TablesAlways, PTL

-----------------------------------------------------------------------------
(* Trends *)

\* The elements of a sequence are at its places.
LEMMA ElementsAt ==
    ASSUME NEW T, NEW seq \in Seq(T)
    PROVE  \A x : x \in ToSet(seq) <=> \E i \in 1..Len(seq) : x = seq[i]
<1>1. DOMAIN seq = 1..Len(seq)
  OBVIOUS
<1> QED
  BY <1>1 DEF ToSet

\* Parts of which no two share anything, what they make up, and their sizes.
Apart(part, m) == \A j, k \in 1..m : j # k => part[j] \intersect part[k] = {}
Union(part, m) == UNION {part[k] : k \in 1..m}
Sizes(part, m) == [k \in 1..m |-> Cardinality(part[k])]

\* The sizes of disjoint parts add up to the size of what they make up.
LEMMA PartsAddUp ==
    ASSUME NEW m \in Nat, NEW part, IsFiniteSet(Union(part, m)), Apart(part, m)
    PROVE  Total(Sizes(part, m)) = Cardinality(Union(part, m))
<1> DEFINE U(n)  == UNION {part[k] : k \in 1..n}
           seq   == [k \in 1..m |-> Cardinality(part[k])]
           sums  == [n \in 0..m |-> Cardinality(U(n))]
<1>1. \A n \in 0..m : IsFiniteSet(U(n)) /\ Cardinality(U(n)) \in Nat
  <2>1. \A n \in 0..m : U(n) \subseteq U(m)
    <3>1. \A n \in 0..m : \A k \in 1..n : k \in 1..m
      OBVIOUS
    <3> QED
      BY <3>1, Zenon
  <2> HIDE DEF U
  <2>2. IsFiniteSet(U(m))
    BY DEF U, Union
  <2> QED
    BY <2>1, <2>2, FS_Subset, FS_CardinalityType
<1>2. \A k \in 1..m : IsFiniteSet(part[k]) /\ Cardinality(part[k]) \in Nat
  <2>1. \A k \in 1..m : part[k] \subseteq U(m)
    OBVIOUS
  <2> HIDE DEF U
  <2> QED
    BY <1>1, <2>1, FS_Subset, FS_CardinalityType
<1>3. seq \in Seq(Int) /\ Len(seq) = m
  <2>1. seq \in [1..m -> Int]
    BY <1>2
  <2> HIDE DEF seq
  <2> QED
    BY <2>1
<1>4. sums[0] = 0
  <2>1. U(0) = {}
    OBVIOUS
  <2>2. 0 \in 0..m
    OBVIOUS
  <2> QED
    BY <2>1, <2>2, FS_EmptySet
<1>5. ASSUME NEW k \in 1..m PROVE sums[k] = sums[k - 1] + seq[k]
  <2>1. U(k) = U(k - 1) \union part[k]
    <3>1. 1..k = 1..(k - 1) \union {k}
      OBVIOUS
    <3> QED
      BY <3>1
  <2>2. U(k - 1) \intersect part[k] = {}
    <3>1. \A j \in 1..(k - 1) : j \in 1..m /\ j # k
      OBVIOUS
    <3> QED
      BY <3>1 DEF Apart
  <2>3. k - 1 \in 0..m /\ k \in 0..m
    OBVIOUS
  <2> HIDE DEF U
  <2>4. Cardinality(U(k - 1) \union part[k])
          = Cardinality(U(k - 1)) + Cardinality(part[k]) - Cardinality(U(k - 1) \intersect part[k])
    BY <1>1, <1>2, <2>3, FS_Union
  <2>5. Cardinality(U(k - 1) \intersect part[k]) = 0
    BY <2>2, FS_EmptySet
  <2>6. Cardinality(U(k)) = Cardinality(U(k - 1)) + Cardinality(part[k])
    BY <1>1, <1>2, <2>1, <2>3, <2>4, <2>5
  <2> QED
    BY <2>3, <2>6
<1>6. sums = [k \in 0..Len(seq) |-> sums[k]]
  BY <1>3
<1>7. sums[m] = Cardinality(U(m))
  OBVIOUS
<1> HIDE DEF seq, sums, U
<1>8. Total(seq) = sums[Len(seq)]
  BY <1>3, <1>4, <1>5, <1>6, TotalIs
<1> QED
  BY <1>3, <1>7, <1>8 DEF U, seq, Union, Sizes

\* How many of the elements of a kind there are in each of the shown buckets, in order.
InBuckets(X, buckets, shown) ==
    [k \in 1..Cardinality(shown) |->
        Cardinality(X \intersect ToSet(buckets[InOrder(shown, Ascending(shown))[k]]))]
NoneTwice(seq) == \A i, j \in 1..Len(seq) : seq[i] = seq[j] => i = j
Shown(X, buckets, q, shown) ==
    /\ shown \subseteq 1..q
    /\ \A b \in 1..q : X \intersect ToSet(buckets[b]) # {} => b \in shown

\* Of a list without repetition, the elements of a kind are in buckets that share none:
\* counted bucket by bucket they are all counted, and once.
LEMMA BucketsAddUp ==
    ASSUME NEW S, IsFiniteSet(S), NEW seq \in Seq(S), NoneTwice(seq), NEW size \in Nat \ {0}, NEW X,
           NEW shown, Shown(X, BucketRuns(seq, size), Ceiling(Len(seq), size), shown)
    PROVE  Total(InBuckets(X, BucketRuns(seq, size), shown)) = Cardinality(X \intersect ToSet(seq))
<1> DEFINE q        == Ceiling(Len(seq), size)
           bucket   == BucketRuns(seq, size)
           m        == Cardinality(shown)
           order    == InOrder(shown, Ascending(shown))
           part     == [k \in 1..m |-> X \intersect ToSet(bucket[order[k]])]
<1>1. /\ \A i, j \in 1..Len(seq) : seq[i] = seq[j] => i = j
      /\ shown \in SUBSET (1..q)
      /\ \A b \in 1..q : X \intersect ToSet(bucket[b]) # {} => b \in shown
  BY DEF NoneTwice, Shown
<1>2. CutUp(bucket, q, S, seq, size)
  BY BucketPlaces
<1>3. /\ order \in [1..m -> shown] /\ m \in Nat
      /\ \A j, k \in 1..m : j < k => <<order[j], order[k]>> \in Ascending(shown)
      /\ \A j, k \in 1..m : order[j] = order[k] => j = k
      /\ \A b \in shown : \E k \in 1..m : order[k] = b
  <2>1. shown \in SUBSET Int /\ IsFiniteSet(shown)
    <3>1. q \in Nat /\ shown \in SUBSET (1..q)
      BY <1>1, <1>2 DEF CutUp
    <3> HIDE DEF q
    <3>2. IsFiniteSet(1..q) /\ 1..q \subseteq Int
      BY <3>1, FS_Interval
    <3> QED
      BY <3>1, <3>2, FS_Subset
  <2> QED
    BY <2>1, AscendingSorts, InOrderSorts
<1> HIDE DEF m, order
<1>4. shown \subseteq 1..q
  BY <1>1
<1> HIDE DEF q, bucket
<1>5. /\ \A b \in 1..q :
           /\ Before(b, size) \in Nat /\ bucket[b] \in Seq(S) /\ Len(bucket[b]) \in Nat
           /\ Before(b, size) + Len(bucket[b]) <= Len(seq)
           /\ \A i \in 1..Len(bucket[b]) : bucket[b][i] = seq[Before(b, size) + i]
      /\ \A b, c \in 1..q : b < c => Before(b, size) + Len(bucket[b]) <= Before(c, size)
      /\ \A i \in 1..Len(seq) : \E b \in 1..q : \E j \in 1..Len(bucket[b]) : i = Before(b, size) + j
  BY <1>2 DEF CutUp
<1>6. \A b \in 1..q : \A x : x \in ToSet(bucket[b]) <=> \E i \in 1..Len(bucket[b]) : x = seq[Before(b, size) + i]
  <2> SUFFICES ASSUME NEW b \in 1..q, NEW x
               PROVE  x \in ToSet(bucket[b]) <=> \E i \in 1..Len(bucket[b]) : x = seq[Before(b, size) + i]
    OBVIOUS
  <2>1. x \in ToSet(bucket[b]) <=> \E i \in 1..Len(bucket[b]) : x = bucket[b][i]
    <3> DEFINE list == bucket[b]
    <3>1. list \in Seq(S)
      BY <1>5
    <3> HIDE DEF list
    <3>2. x \in ToSet(list) <=> \E i \in 1..Len(list) : x = list[i]
      BY <3>1, ElementsAt
    <3> QED
      BY <3>2 DEF list
  <2>2. \A i \in 1..Len(bucket[b]) : bucket[b][i] = seq[Before(b, size) + i]
    BY <1>5
  <2> QED
    BY <2>1, <2>2, Zenon
<1>7. \A b, c \in 1..q : b # c => ToSet(bucket[b]) \intersect ToSet(bucket[c]) = {}
  <2>1. ASSUME NEW b \in 1..q, NEW c \in 1..q, b < c,
               NEW i \in 1..Len(bucket[b]), NEW j \in 1..Len(bucket[c])
        PROVE  seq[Before(b, size) + i] # seq[Before(c, size) + j]
    <3>1. /\ Before(b, size) \in Nat /\ Len(bucket[b]) \in Nat /\ Before(b, size) + Len(bucket[b]) <= Before(c, size)
          /\ Before(c, size) \in Nat /\ Len(bucket[c]) \in Nat /\ Before(c, size) + Len(bucket[c]) <= Len(seq)
      BY <1>5, <2>1, LenProperties
    <3> DEFINE f == Before(b, size)
               g == Before(c, size)
               l == Len(bucket[b])
               n == Len(bucket[c])
               x == f + i
               y == g + j
    <3>2. x \in 1..Len(seq) /\ y \in 1..Len(seq) /\ x # y
      <4>1. f \in Nat /\ g \in Nat /\ l \in Nat /\ n \in Nat /\ f + l <= g /\ g + n <= Len(seq)
            /\ Len(seq) \in Nat /\ i \in 1..l /\ j \in 1..n
        BY <3>1, LenProperties
      <4> HIDE DEF f, g, l, n
      <4> QED
        BY <4>1
    <3> HIDE DEF f, g, l, n, x, y
    <3>3. seq[x] # seq[y]
      BY <1>1, <3>2
    <3> QED
      BY <3>3 DEF x, y, f, g
  <2>2. ASSUME NEW b \in 1..q, NEW c \in 1..q, b < c PROVE ToSet(bucket[b]) \intersect ToSet(bucket[c]) = {}
    <3> SUFFICES ASSUME NEW x, x \in ToSet(bucket[b]), x \in ToSet(bucket[c]) PROVE FALSE
      OBVIOUS
    <3>1. PICK i \in 1..Len(bucket[b]) : x = seq[Before(b, size) + i]
      BY <1>6
    <3>2. PICK j \in 1..Len(bucket[c]) : x = seq[Before(c, size) + j]
      BY <1>6
    <3>3. seq[Before(b, size) + i] # seq[Before(c, size) + j]
      BY <2>1, <2>2
    <3> QED
      BY <3>1, <3>2, <3>3
  <2>3. \A b, c \in 1..q : b # c => b < c \/ c < b
    BY <1>5
  <2> QED
    BY <2>2, <2>3
<1>8. ToSet(seq) = UNION {ToSet(bucket[b]) : b \in 1..q}
  <2>1. \A x : x \in ToSet(seq) <=> \E i \in 1..Len(seq) : x = seq[i]
    BY ElementsAt
  <2>2. \A b \in 1..q : \A i \in 1..Len(bucket[b]) : Before(b, size) + i \in 1..Len(seq)
    <3> SUFFICES ASSUME NEW b \in 1..q, NEW i \in 1..Len(bucket[b]) PROVE Before(b, size) + i \in 1..Len(seq)
      OBVIOUS
    <3>1. /\ Before(b, size) \in Nat /\ Len(bucket[b]) \in Nat /\ Len(seq) \in Nat
          /\ Before(b, size) + Len(bucket[b]) <= Len(seq)
      BY <1>5, LenProperties
    <3> DEFINE f == Before(b, size)
               l == Len(bucket[b])
    <3> HIDE DEF f, l
    <3> QED
      BY <3>1 DEF f, l
  <2>3. ASSUME NEW i \in 1..Len(seq) PROVE \E b \in 1..q : seq[i] \in ToSet(bucket[b])
    <3>1. PICK b \in 1..q : \E j \in 1..Len(bucket[b]) : i = Before(b, size) + j
      BY <1>5
    <3> QED
      BY <1>6, <3>1
  <2>4. ASSUME NEW b \in 1..q PROVE ToSet(bucket[b]) \subseteq ToSet(seq)
    <3>1. \A x \in ToSet(bucket[b]) : \E i \in 1..Len(bucket[b]) : x = seq[Before(b, size) + i]
      BY <1>6
    <3> QED
      BY <2>1, <2>2, <3>1, Zenon
  <2>5. \A x : x \in ToSet(seq) <=> \E b \in 1..q : x \in ToSet(bucket[b])
    <3> SUFFICES ASSUME NEW x PROVE x \in ToSet(seq) <=> \E b \in 1..q : x \in ToSet(bucket[b])
      OBVIOUS
    <3>1. ASSUME x \in ToSet(seq) PROVE \E b \in 1..q : x \in ToSet(bucket[b])
      <4>1. PICK i \in 1..Len(seq) : x = seq[i]
        BY <2>1, <3>1
      <4> QED
        BY <2>3, <4>1
    <3>2. ASSUME NEW b \in 1..q, x \in ToSet(bucket[b]) PROVE x \in ToSet(seq)
      BY <2>4, <3>2
    <3> QED
      BY <3>1, <3>2, Zenon
  <2> QED
    BY <2>5, Zenon
<1>9. X \intersect ToSet(seq) = Union(part, m)
  <2>1. \A k \in 1..m : order[k] \in 1..q /\ part[k] = X \intersect ToSet(bucket[order[k]])
    BY <1>3, <1>4
  <2>2. ASSUME NEW x \in X \intersect ToSet(seq) PROVE \E k \in 1..m : x \in part[k]
    <3>1. PICK b \in 1..q : x \in ToSet(bucket[b])
      BY <1>8
    <3>2. b \in shown
      BY <1>1, <3>1
    <3>3. PICK k \in 1..m : order[k] = b
      BY <1>3, <3>2
    <3> QED
      BY <2>1, <3>1, <3>3
  <2>3. ASSUME NEW k \in 1..m PROVE part[k] \subseteq X \intersect ToSet(seq)
    BY <1>8, <2>1
  <2> HIDE DEF part
  <2>4. Union(part, m) \subseteq X \intersect ToSet(seq)
    <3> SUFFICES ASSUME NEW x \in Union(part, m) PROVE x \in X \intersect ToSet(seq)
      OBVIOUS
    <3>1. PICK k \in 1..m : x \in part[k]
      BY DEF Union
    <3> QED
      BY <2>3, <3>1
  <2>5. X \intersect ToSet(seq) \subseteq Union(part, m)
    BY <2>2, Zenon DEF Union
  <2> QED
    BY <2>4, <2>5, Zenon
<1>10. IsFiniteSet(X \intersect ToSet(seq))
  <2>1. X \intersect ToSet(seq) \in SUBSET S
    BY DEF ToSet
  <2> QED
    BY <2>1, FS_Subset
<1>11. Apart(part, m)
  <2>1. \A j, k \in 1..m : j # k => order[j] \in 1..q /\ order[k] \in 1..q /\ order[j] # order[k]
    BY <1>3, <1>4
  <2>2. \A k \in 1..m : part[k] = X \intersect ToSet(bucket[order[k]])
    OBVIOUS
  <2> HIDE DEF part
  <2> QED
    <3> SUFFICES ASSUME NEW j \in 1..m, NEW k \in 1..m, j # k PROVE part[j] \intersect part[k] = {}
      BY DEF Apart
    <3>1. ToSet(bucket[order[j]]) \intersect ToSet(bucket[order[k]]) = {}
      BY <1>7, <2>1
    <3> QED
      BY <2>2, <3>1
<1>12. Total(Sizes(part, m)) = Cardinality(X \intersect ToSet(seq))
  <2> HIDE DEF part
  <2>1. IsFiniteSet(Union(part, m))
    BY <1>9, <1>10
  <2> QED
    BY <1>3, <1>9, <1>11, <2>1, PartsAddUp
<1>13. Sizes(part, m) = InBuckets(X, bucket, shown)
  BY DEF Sizes, InBuckets, m, order
<1> QED
  BY <1>12, <1>13 DEF bucket

\* A trend goes through the runs of the current window from the oldest on, each once.
LEMMA TrendRuns ==
    ASSUME TablesInv, NEW p
    PROVE  LET rev == Reverse(Windows(p).current)
           IN  /\ rev \in Seq(Ids) /\ ToSet(rev) = ToSet(Windows(p).current) /\ NoneTwice(rev)
               /\ \A i, j \in 1..Len(rev) : i < j /\ rows[rev[i]].started > 0 => rows[rev[j]].started > 0
               /\ OneZone(p) => \A i, j \in 1..Len(rev) :
                                  i < j => rows[rev[i]].started <= rows[rev[j]].started
<1> DEFINE mine == {i \in Ids : rows[i].pipeline = p}
           ord  == {e \in Ids \X Ids : MoreRecent(e[1], e[2])}
           all  == RunsOf(p)
           cur  == Windows(p).current
           n    == Len(cur)
           rev  == Reverse(cur)
<1>1. \A j, k : <<j, k>> \in ord => MoreRecent(j, k) /\ j \in Ids /\ k \in Ids
  OBVIOUS
<1>2. /\ Len(all) \in Nat
      /\ \A j, k \in 1..Len(all) : j < k => MoreRecent(all[j], all[k]) /\ all[j] \in Ids /\ all[k] \in Ids
      /\ \A j, k \in 1..Len(all) : all[j] = all[k] => j = k
      /\ \A k \in 1..Len(all) : rows[all[k]].pipeline = p
  <2>1. mine \in SUBSET Ids /\ IsFiniteSet(mine)
    BY RowTimes, FS_Subset
  <2>2. Sorts(ord, mine)
    BY <2>1, RunOrders
  <2>3. all = InOrder(mine, ord) /\ Len(all) = Cardinality(mine)
    BY RunsListed DEF RunsOf
  <2> HIDE DEF mine, ord, all
  <2>4. /\ Cardinality(mine) \in Nat
        /\ \A j, k \in 1..Cardinality(mine) : j < k => <<all[j], all[k]>> \in ord
        /\ \A j, k \in 1..Cardinality(mine) : all[j] = all[k] => j = k
        /\ \A k \in 1..Cardinality(mine) : all[k] \in mine
    BY <2>1, <2>2, <2>3, InOrderSorts
  <2>5. \A i \in mine : rows[i].pipeline = p
    BY DEF mine
  <2> QED
    BY <1>1, <2>3, <2>4, <2>5
<1>3. /\ cur \in Seq(Ids) /\ n \in 0..Len(all)
      /\ \A k \in 1..n : cur[k] = all[k] /\ cur[k] \in Ids
  <2> DEFINE m == Least(WindowRuns, Len(all))
  <2>1. cur \in Seq(Ids) /\ cur = SubSeq(all, 1, m)
    BY WindowsListed
  <2>2. m \in 0..Len(all)
    BY <1>2, Bounds DEF Least
  <2>3. all \in Seq(Ids)
    BY RunsListed
  <2> HIDE DEF m, cur, all
  <2>4. Len(SubSeq(all, 1, m)) = m /\ \A k \in 1..m : SubSeq(all, 1, m)[k] = all[k]
    BY <1>2, <2>2, <2>3
  <2>5. \A k \in 1..Len(cur) : cur[k] \in Ids
    BY <2>1, ElementOfSeq
  <2> QED
    BY <2>1, <2>2, <2>4, <2>5 DEF n
<1> HIDE DEF cur, n, all, ord, mine
<1>4. n \in Nat
  BY <1>2, <1>3
<1>5. rev = [i \in 1..n |-> cur[(n - i) + 1]]
  BY DEF Reverse, n
<1>6. \A i \in 1..n : (n - i) + 1 \in 1..n /\ rev[i] = cur[(n - i) + 1] /\ rev[i] \in Ids
  BY <1>3, <1>4, <1>5
<1>7. rev \in Seq(Ids) /\ Len(rev) = n
  <2>1. rev \in [1..n -> Ids]
    BY <1>5, <1>6
  <2> HIDE DEF rev
  <2> QED
    BY <1>4, <2>1
<1> HIDE DEF rev
<1>8. ToSet(rev) = ToSet(cur)
  <2>1. \A x : x \in ToSet(rev) <=> \E i \in 1..n : x = rev[i]
    BY <1>7, ElementsAt
  <2>2. \A x : x \in ToSet(cur) <=> \E i \in 1..n : x = cur[i]
    BY <1>3, ElementsAt DEF n
  <2>3. ASSUME NEW i \in 1..n PROVE \E j \in 1..n : cur[i] = rev[j]
    <3>1. (n - i) + 1 \in 1..n /\ (n - ((n - i) + 1)) + 1 = i
      BY <1>4
    <3> QED
      BY <1>6, <3>1
  <2>4. \A i \in 1..n : \E j \in 1..n : rev[i] = cur[j]
    BY <1>6
  <2>5. \A x : x \in ToSet(rev) <=> x \in ToSet(cur)
    BY <2>1, <2>2, <2>3, <2>4
  <2> QED
    BY <2>5, Zenon
<1>9. ASSUME NEW i \in 1..n, NEW j \in 1..n, i < j
      PROVE  /\ rows[rev[i]].started > 0 => rows[rev[j]].started > 0
             /\ OneZone(p) => rows[rev[i]].started <= rows[rev[j]].started
             /\ rev[i] # rev[j]
  <2> DEFINE x == (n - j) + 1
             y == (n - i) + 1
  <2>1. x \in 1..n /\ y \in 1..n /\ x < y /\ rev[i] = cur[y] /\ rev[j] = cur[x]
    BY <1>4, <1>6, <1>9
  <2> HIDE DEF x, y
  <2>2. x \in 1..Len(all) /\ y \in 1..Len(all) /\ x < y /\ rev[i] = all[y] /\ rev[j] = all[x]
    BY <1>2, <1>3, <2>1
  <2>3. MoreRecent(all[x], all[y]) /\ all[x] \in Ids /\ all[y] \in Ids /\ all[x] # all[y]
    BY <1>2, <2>2
  <2>4. /\ rows[all[y]].started > 0 => rows[all[x]].started > 0
        /\ OneZone(p) => rows[all[y]].started <= rows[all[x]].started
    BY <1>2, <2>2, <2>3, MoreRecentStarted
  <2> QED
    BY <2>2, <2>3, <2>4
<1>10. NoneTwice(rev)
  BY <1>4, <1>7, <1>9 DEF NoneTwice
<1> QED
  BY <1>7, <1>8, <1>9, <1>10 DEF cur, rev

\* The kinds of run a trend counts.
CompletedRuns == {i \in Ids : Completed(i)}
FailureRuns   == {i \in Ids : Completed(i) /\ rows[i].conclusion = "failure"}
TimedRuns     == {i \in Ids : rows[i].started > 0 /\ rows[i].completed > 0}

\* overallFailureRate and durationSeconds count the runs of a list that are of a kind.
LEMMA KindsInList ==
    ASSUME TablesInv, NEW list \in Seq(Ids)
    PROVE  /\ OverallFailureRate(list).den = Cardinality(CompletedRuns \intersect ToSet(list))
           /\ OverallFailureRate(list).num = Cardinality(FailureRuns \intersect ToSet(list))
           /\ Timed(list) = TimedRuns \intersect ToSet(list)
           /\ Len(Durations(list)) = Cardinality(TimedRuns \intersect ToSet(list))
           /\ IsFiniteSet(ToSet(list))
<1>1. ToSet(list) \in SUBSET Ids /\ IsFiniteSet(ToSet(list))
  <2>1. ToSet(list) \in SUBSET Ids
    BY DEF ToSet
  <2> QED
    BY <2>1, RowTimes, FS_Subset
<1>2. Timed(list) = TimedRuns \intersect ToSet(list)
  BY <1>1 DEF Timed, TimedRuns
<1>3. Len(Durations(list)) = Cardinality(Timed(list))
  BY DurationsSorted
<1>4. /\ OverallFailureRate(list).den = Cardinality(CompletedRuns \intersect ToSet(list))
      /\ OverallFailureRate(list).num = Cardinality(FailureRuns \intersect ToSet(list))
  <2> DEFINE done == {i \in ToSet(list) : Completed(i)}
             bad  == {i \in done : rows[i].conclusion = "failure"}
  <2>1. OverallFailureRate(list) = [num |-> Cardinality(bad), den |-> Cardinality(done)]
    BY DEF OverallFailureRate, Rate
  <2>2. done = CompletedRuns \intersect ToSet(list) /\ bad = FailureRuns \intersect ToSet(list)
    BY <1>1 DEF CompletedRuns, FailureRuns
  <2> HIDE DEF done, bad
  <2> QED
    BY <2>1, <2>2
<1> QED
  BY <1>1, <1>2, <1>3, <1>4

\* The buckets of a trend.
LEMMA TrendBuckets ==
    ASSUME TablesInv, NEW p
    PROVE  LET rev == Reverse(Windows(p).current)
               q   == Ceiling(Len(rev), BucketSize)
           IN  /\ rev \in Seq(Ids)
               /\ Buckets(p) = BucketRuns(rev, BucketSize)
               /\ CutUp(Buckets(p), q, Ids, rev, BucketSize)
               /\ DOMAIN Buckets(p) = 1..q
               /\ \A b \in 1..q : Buckets(p)[b] \in Seq(Ids)
               /\ \A X, shown : Shown(X, Buckets(p), q, shown) =>
                    Total(InBuckets(X, Buckets(p), shown))
                      = Cardinality(X \intersect ToSet(Windows(p).current))
<1> DEFINE cur == Windows(p).current
           rev == Reverse(cur)
           q   == Ceiling(Len(rev), BucketSize)
<1>1. Buckets(p) = BucketRuns(rev, BucketSize)
  BY DEF Buckets
<1>2. rev \in Seq(Ids) /\ NoneTwice(rev) /\ ToSet(rev) = ToSet(cur)
  BY TrendRuns
<1> HIDE DEF cur, rev
<1>3. CutUp(Buckets(p), q, Ids, rev, BucketSize)
  BY <1>1, <1>2, Bounds, BucketPlaces
<1>4. DOMAIN Buckets(p) = 1..q /\ \A b \in 1..q : Buckets(p)[b] \in Seq(Ids)
  <2> HIDE DEF q
  <2> QED
    BY <1>3 DEF CutUp
<1>5. ASSUME NEW X, NEW shown, Shown(X, Buckets(p), q, shown)
      PROVE  Total(InBuckets(X, Buckets(p), shown)) = Cardinality(X \intersect ToSet(cur))
  <2>1. Total(InBuckets(X, BucketRuns(rev, BucketSize), shown)) = Cardinality(X \intersect ToSet(rev))
    BY <1>1, <1>2, <1>5, Bounds, RowTimes, BucketsAddUp
  <2> QED
    BY <1>1, <1>2, <2>1
<1> QED
  BY <1>1, <1>2, <1>3, <1>4, <1>5 DEF cur, rev

\* failureRateTrend counts every completed run of the window and every failure.
LEMMA FailureTrendAddsUp ==
    ASSUME TablesInv, NEW p
    PROVE  LET trend == FailureRateTrend(p)
               whole == OverallFailureRate(Windows(p).current)
           IN  /\ Total([k \in DOMAIN trend |-> trend[k].den]) = whole.den
               /\ Total([k \in DOMAIN trend |-> trend[k].num]) = whole.num
<1> DEFINE cur     == Windows(p).current
           buckets == Buckets(p)
           q       == Ceiling(Len(Reverse(cur)), BucketSize)
           shown   == {b \in DOMAIN buckets : OverallFailureRate(buckets[b]).den > 0}
           order   == InOrder(shown, Ascending(shown))
           n       == Cardinality(shown)
           trend   == FailureRateTrend(p)
           whole   == OverallFailureRate(cur)
<1>1. /\ DOMAIN buckets = 1..q /\ q \in Nat
      /\ \A b \in 1..q : buckets[b] \in Seq(Ids)
      /\ \A X, s : Shown(X, buckets, q, s) => Total(InBuckets(X, buckets, s)) = Cardinality(X \intersect ToSet(cur))
  BY TrendBuckets DEF CutUp
<1>2. trend = [k \in 1..n |-> OverallFailureRate(buckets[order[k]])]
  BY DEF FailureRateTrend
<1>3. cur \in Seq(Ids)
  BY WindowsListed
<1> HIDE DEF cur, buckets, q, trend
<1>4. \A b \in 1..q :
        /\ OverallFailureRate(buckets[b]).den = Cardinality(CompletedRuns \intersect ToSet(buckets[b]))
        /\ OverallFailureRate(buckets[b]).num = Cardinality(FailureRuns \intersect ToSet(buckets[b]))
        /\ IsFiniteSet(ToSet(buckets[b]))
  BY <1>1, KindsInList
<1>5. shown \subseteq 1..q /\ IsFiniteSet(shown)
  <2>1. shown \in SUBSET (1..q)
    BY <1>1
  <2>2. IsFiniteSet(1..q)
    BY <1>1, FS_Interval
  <2> HIDE DEF shown
  <2> QED
    BY <2>1, <2>2, FS_Subset
<1>6. ASSUME NEW b \in 1..q, CompletedRuns \intersect ToSet(buckets[b]) # {} PROVE b \in shown
  <2> DEFINE X == CompletedRuns \intersect ToSet(buckets[b])
  <2>1. X \in SUBSET ToSet(buckets[b]) /\ X # {}
    BY <1>6
  <2> HIDE DEF X
  <2>2. Cardinality(X) \in Nat /\ Cardinality(X) # 0
    BY <1>4, <2>1, FS_Subset, FS_CardinalityType, FS_EmptySet
  <2>3. OverallFailureRate(buckets[b]).den > 0
    <3>1. OverallFailureRate(buckets[b]).den = Cardinality(X)
      BY <1>4 DEF X
    <3> QED
      BY <2>2, <3>1
  <2> QED
    BY <1>1, <2>3
<1>7. Shown(CompletedRuns, buckets, q, shown) /\ Shown(FailureRuns, buckets, q, shown)
  <2>1. FailureRuns \subseteq CompletedRuns
    BY DEF FailureRuns, CompletedRuns
  <2>2. \A b \in 1..q : FailureRuns \intersect ToSet(buckets[b]) # {}
                          => CompletedRuns \intersect ToSet(buckets[b]) # {}
    BY <2>1
  <2> HIDE DEF shown
  <2> QED
    BY <1>5, <1>6, <2>2 DEF Shown
<1> HIDE DEF shown
<1>8. order \in [1..n -> shown] /\ n \in Nat
  <2>1. shown \in SUBSET Int
    BY <1>1, <1>5
  <2> QED
    BY <1>5, <2>1, AscendingSorts, InOrderSorts
<1>9. \A k \in 1..n : order[k] \in 1..q
  BY <1>5, <1>8
<1>10. /\ [k \in DOMAIN trend |-> trend[k].den] = InBuckets(CompletedRuns, buckets, shown)
       /\ [k \in DOMAIN trend |-> trend[k].num] = InBuckets(FailureRuns, buckets, shown)
  <2> HIDE DEF order, n
  <2>1. DOMAIN trend = 1..n /\ \A k \in 1..n : trend[k] = OverallFailureRate(buckets[order[k]])
    BY <1>2
  <2>2. \A k \in 1..n :
          /\ trend[k].den = Cardinality(CompletedRuns \intersect ToSet(buckets[order[k]]))
          /\ trend[k].num = Cardinality(FailureRuns \intersect ToSet(buckets[order[k]]))
    BY <1>4, <1>9, <2>1
  <2>3. [k \in DOMAIN trend |-> trend[k].den]
          = [k \in 1..n |-> Cardinality(CompletedRuns \intersect ToSet(buckets[order[k]]))]
    BY <2>1, <2>2
  <2>4. [k \in DOMAIN trend |-> trend[k].num]
          = [k \in 1..n |-> Cardinality(FailureRuns \intersect ToSet(buckets[order[k]]))]
    BY <2>1, <2>2
  <2> QED
    BY <2>3, <2>4 DEF InBuckets, order, n
<1>11. /\ Total(InBuckets(CompletedRuns, buckets, shown)) = whole.den
       /\ Total(InBuckets(FailureRuns, buckets, shown)) = whole.num
  BY <1>1, <1>3, <1>7, KindsInList
<1> QED
  BY <1>10, <1>11 DEF trend, cur

\* The median is no greater than the 90th percentile.
LEMMA MedianFirst ==
    ASSUME NEW d \in Seq(Int), d # <<>>, \A j, k \in 1..Len(d) : j < k => d[j] <= d[k]
    PROVE  Percentile(d, 1, 2) <= Percentile(d, 9, 10)
<1> DEFINE n == Len(d)
           a == Rank(n, 1, 2)
           b == Rank(n, 9, 10)
<1>1. n \in Nat \ {0} /\ \A k \in 1..n : d[k] \in Int
  BY LenProperties, ElementOfSeq, EmptySeq
<1>2. Percentile(d, 1, 2) = d[a] /\ Percentile(d, 9, 10) = d[b]
  BY DEF Percentile
<1> HIDE DEF n
<1>3. a \in 1..n /\ b \in 1..n /\ a <= b
  BY <1>1 DEF Rank, Ceiling, Least, Most
<1> HIDE DEF a, b
<1>4. a = b \/ a < b
  BY <1>1, <1>3
<1> QED
  BY <1>1, <1>2, <1>3, <1>4 DEF n

\* The time of a point of the trend is the start of a run in its bucket.
LEMMA LastStartIsOfRun ==
    ASSUME TablesInv, NEW bucket \in Seq(Ids), Timed(bucket) # {},
           \A i, j \in 1..Len(bucket) :
              i < j /\ rows[bucket[i]].started > 0 => rows[bucket[j]].started > 0
    PROVE  \E i \in 1..Len(bucket) : LastStart(bucket) = rows[bucket[i]].started
<1> DEFINE n    == Len(bucket)
           last == {k \in DOMAIN bucket : /\ rows[bucket[k]].started > 0
                                          /\ \A j \in DOMAIN bucket : j > k => rows[bucket[j]].started = 0}
<1>1. n \in Nat /\ DOMAIN bucket = 1..n
  BY LenProperties
<1>2. \A k \in 1..n : rows[bucket[k]].started \in Nat
  BY ElementOfSeq, RowTimes
<1>3. PICK i \in 1..n : rows[bucket[i]].started > 0
  BY ElementsAt DEF Timed
<1>4. n \in last
  <2>1. n \in 1..n /\ (i = n \/ i < n)
    <3> HIDE DEF n
    <3> QED
      BY <1>1
  <2>2. rows[bucket[n]].started > 0
    BY <1>2, <1>3, <2>1
  <2>3. \A j \in 1..n : ~(j > n)
    BY <1>1
  <2> QED
    BY <1>1, <2>1, <2>2, <2>3
<1>5. LastStart(bucket) = IF last = {} THEN 0 ELSE rows[bucket[CHOOSE k \in last : TRUE]].started
  BY DEF LastStart
<1>6. last \subseteq 1..n
  BY <1>1
<1> HIDE DEF last
<1>7. (CHOOSE k \in last : TRUE) \in 1..n
  BY <1>4, <1>6
<1> QED
  BY <1>4, <1>5, <1>7 DEF n

\* durationTrend counts every timed run of the window, and goes forward in time where the
\* runs are in one zone.
LEMMA DurationTrendAddsUp ==
    ASSUME TablesInv, NEW p
    PROVE  LET times == DurationTrend(p)
           IN  /\ Total([k \in DOMAIN times |-> times[k].runs]) = Len(Durations(Windows(p).current))
               /\ \A k \in DOMAIN times : times[k].p50 <= times[k].p90
               /\ OneZone(p) => \A j, k \in DOMAIN times : j < k => times[j].at <= times[k].at
<1> DEFINE cur     == Windows(p).current
           rev     == Reverse(cur)
           buckets == Buckets(p)
           q       == Ceiling(Len(rev), BucketSize)
           shown   == {b \in DOMAIN buckets : Timed(buckets[b]) # {}}
           order   == InOrder(shown, Ascending(shown))
           n       == Cardinality(shown)
           point(b) == LET d == Durations(buckets[b])
                       IN  [at |-> LastStart(buckets[b]), runs |-> Len(d),
                            p50 |-> Percentile(d, 1, 2), p90 |-> Percentile(d, 9, 10)]
           times   == DurationTrend(p)
<1>1. /\ DOMAIN buckets = 1..q /\ q \in Nat
      /\ CutUp(buckets, q, Ids, rev, BucketSize)
      /\ \A b \in 1..q : buckets[b] \in Seq(Ids)
      /\ \A X, s : Shown(X, buckets, q, s) => Total(InBuckets(X, buckets, s)) = Cardinality(X \intersect ToSet(cur))
  BY TrendBuckets DEF CutUp
<1>2. times = [k \in 1..n |-> point(order[k])]
  BY DEF DurationTrend
<1>3. cur \in Seq(Ids)
  BY WindowsListed
<1>4. /\ rev \in Seq(Ids) /\ Len(rev) \in Nat
      /\ \A i, j \in 1..Len(rev) : i < j /\ rows[rev[i]].started > 0 => rows[rev[j]].started > 0
      /\ OneZone(p) => \A i, j \in 1..Len(rev) :
                         i < j => rows[rev[i]].started <= rows[rev[j]].started
  BY TrendRuns, LenProperties
<1> HIDE DEF cur, rev, buckets, q, times
<1>5. \A b \in 1..q : /\ Timed(buckets[b]) = TimedRuns \intersect ToSet(buckets[b])
                      /\ Len(Durations(buckets[b])) = Cardinality(TimedRuns \intersect ToSet(buckets[b]))
                      /\ IsFiniteSet(ToSet(buckets[b]))
  BY <1>1, KindsInList
<1>6. /\ shown \subseteq 1..q /\ IsFiniteSet(shown)
      /\ \A b \in shown : Timed(buckets[b]) # {}
      /\ Shown(TimedRuns, buckets, q, shown)
  <2>1. shown \in SUBSET (1..q) /\ \A b \in shown : Timed(buckets[b]) # {}
    BY <1>1
  <2>2. \A b \in 1..q : TimedRuns \intersect ToSet(buckets[b]) # {} => b \in shown
    BY <1>1, <1>5
  <2>3. IsFiniteSet(1..q)
    BY <1>1, FS_Interval
  <2> HIDE DEF shown
  <2> QED
    BY <2>1, <2>2, <2>3, FS_Subset DEF Shown
<1> HIDE DEF shown
<1>7. /\ order \in [1..n -> shown] /\ n \in Nat
      /\ \A j, k \in 1..n : j < k => order[j] < order[k]
  <2>1. shown \in SUBSET Int
    BY <1>1, <1>6
  <2>2. \A j, k : <<j, k>> \in Ascending(shown) => j < k
    BY DEF Ascending
  <2>3. /\ order \in [1..n -> shown] /\ n \in Nat
        /\ \A j, k \in 1..n : j < k => <<order[j], order[k]>> \in Ascending(shown)
    BY <1>6, <2>1, AscendingSorts, InOrderSorts
  <2> HIDE DEF order, n
  <2> QED
    BY <2>2, <2>3
<1>8. \A k \in 1..n : order[k] \in 1..q /\ Timed(buckets[order[k]]) # {}
  BY <1>6, <1>7
<1>9. DOMAIN times = 1..n
      /\ \A k \in 1..n : LET d == Durations(buckets[order[k]]) IN
           /\ times[k].at = LastStart(buckets[order[k]]) /\ times[k].runs = Len(d)
           /\ times[k].p50 = Percentile(d, 1, 2) /\ times[k].p90 = Percentile(d, 9, 10)
  <2> HIDE DEF order, n
  <2> QED
    BY <1>2
<1>10. Total([k \in DOMAIN times |-> times[k].runs]) = Len(Durations(cur))
  <2>1. [k \in DOMAIN times |-> times[k].runs] = InBuckets(TimedRuns, buckets, shown)
    <3> HIDE DEF order, n
    <3>1. \A k \in 1..n : times[k].runs = Cardinality(TimedRuns \intersect ToSet(buckets[order[k]]))
      BY <1>5, <1>8, <1>9
    <3>2. [k \in DOMAIN times |-> times[k].runs]
            = [k \in 1..n |-> Cardinality(TimedRuns \intersect ToSet(buckets[order[k]]))]
      BY <1>9, <3>1
    <3> QED
      BY <3>2 DEF InBuckets, order, n
  <2>2. Total(InBuckets(TimedRuns, buckets, shown)) = Len(Durations(cur))
    BY <1>1, <1>3, <1>6, KindsInList
  <2> QED
    BY <2>1, <2>2
<1>11. ASSUME NEW k \in 1..n PROVE times[k].p50 <= times[k].p90
  <2> DEFINE bucket == buckets[order[k]]
             d == Durations(bucket)
  <2>1. bucket \in Seq(Ids) /\ Timed(bucket) # {} /\ IsFiniteSet(Timed(bucket))
    <3>1. order[k] \in 1..q
      BY <1>8
    <3>2. Timed(bucket) \in SUBSET ToSet(bucket)
      BY DEF Timed
    <3> QED
      BY <1>1, <1>5, <1>8, <3>1, <3>2, FS_Subset
  <2> HIDE DEF bucket
  <2>2. Len(d) # 0 /\ d \in Seq(Int) /\ \A i, j \in 1..Len(d) : i < j => d[i] <= d[j]
    BY <2>1, DurationsSorted, FS_EmptySet
  <2> HIDE DEF d
  <2>3. Percentile(d, 1, 2) <= Percentile(d, 9, 10)
    BY <2>2, MedianFirst, EmptySeq
  <2> QED
    BY <1>9, <2>3 DEF d, bucket
<1>12. ASSUME NEW b \in 1..q, Timed(buckets[b]) # {}
       PROVE  \E x \in 1..Len(buckets[b]) :
                 /\ LastStart(buckets[b]) = rows[rev[Before(b, BucketSize) + x]].started
                 /\ Before(b, BucketSize) + x \in 1..Len(rev)
  <2> DEFINE bucket == buckets[b]
             f == Before(b, BucketSize)
             l == Len(bucket)
  <2>1. /\ bucket \in Seq(Ids) /\ f \in Nat /\ l \in Nat /\ f + l <= Len(rev)
        /\ \A i \in 1..l : bucket[i] = rev[f + i]
    BY <1>1, LenProperties DEF CutUp
  <2> HIDE DEF bucket, f
  <2>2. \A i \in 1..l : f + i \in 1..Len(rev)
    <3> HIDE DEF l
    <3> QED
      BY <1>4, <2>1
  <2>3. \A i, j \in 1..l : i < j /\ rows[bucket[i]].started > 0 => rows[bucket[j]].started > 0
    <3> SUFFICES ASSUME NEW i \in 1..l, NEW j \in 1..l, i < j, rows[bucket[i]].started > 0
                 PROVE  rows[bucket[j]].started > 0
      OBVIOUS
    <3> DEFINE x == f + i
               y == f + j
    <3>1. x \in 1..Len(rev) /\ y \in 1..Len(rev) /\ x < y /\ bucket[i] = rev[x] /\ bucket[j] = rev[y]
      BY <2>1, <2>2
    <3> HIDE DEF x, y
    <3> QED
      BY <1>4, <3>1
  <2>4. PICK i \in 1..l : LastStart(bucket) = rows[bucket[i]].started
    BY <1>12, <2>1, <2>3, LastStartIsOfRun DEF bucket
  <2>5. LastStart(bucket) = rows[rev[f + i]].started /\ f + i \in 1..Len(rev)
    BY <2>1, <2>2, <2>4
  <2> QED
    BY <2>5 DEF bucket, f
<1>13. ASSUME OneZone(p), NEW j \in 1..n, NEW k \in 1..n, j < k PROVE times[j].at <= times[k].at
  <2> DEFINE b == order[j]
             c == order[k]
             f == Before(b, BucketSize)
             g == Before(c, BucketSize)
  <2>1. b \in 1..q /\ c \in 1..q /\ b < c /\ Timed(buckets[b]) # {} /\ Timed(buckets[c]) # {}
    BY <1>7, <1>8, <1>13
  <2>2. times[j].at = LastStart(buckets[b]) /\ times[k].at = LastStart(buckets[c])
    BY <1>9
  <2> HIDE DEF b, c
  <2>3. PICK x \in 1..Len(buckets[b]) : LastStart(buckets[b]) = rows[rev[f + x]].started /\ f + x \in 1..Len(rev)
    BY <1>12, <2>1
  <2>4. PICK y \in 1..Len(buckets[c]) : LastStart(buckets[c]) = rows[rev[g + y]].started /\ g + y \in 1..Len(rev)
    BY <1>12, <2>1
  <2>5. f \in Nat /\ g \in Nat /\ f + Len(buckets[b]) <= g /\ Len(buckets[b]) \in Nat /\ Len(buckets[c]) \in Nat
    BY <1>1, <2>1, LenProperties DEF CutUp
  <2> DEFINE u == f + x
             v == g + y
  <2>6. u < v
    <3> DEFINE l == Len(buckets[b])
               m == Len(buckets[c])
    <3>1. x \in 1..l /\ y \in 1..m /\ l \in Nat /\ m \in Nat /\ f + l <= g
      BY <2>5
    <3> HIDE DEF f, g, l, m
    <3> QED
      BY <2>5, <3>1
  <2>7. u \in 1..Len(rev) /\ v \in 1..Len(rev)
        /\ times[j].at = rows[rev[u]].started /\ times[k].at = rows[rev[v]].started
    BY <2>2, <2>3, <2>4
  <2> HIDE DEF u, v
  <2> QED
    BY <1>4, <1>13, <2>6, <2>7
<1> QED
  BY <1>9, <1>10, <1>11, <1>13 DEF times, cur

\* The trends of every pipeline (failureRateTrend, durationTrend) hold all of its
\* window's completed runs, failures and timed runs, whatever the sizes of the window
\* and of the buckets, and the durations go forward in time where its runs are in one zone.
THEOREM TrendsAddUp == Spec => []TrendAccountsForWindow
<1>1. TablesInv => TrendAccountsForWindow
  BY FailureTrendAddsUp, DurationTrendAddsUp DEF TrendAccountsForWindow
<1> QED
  BY <1>1, TablesAlways, PTL

-----------------------------------------------------------------------------
(* The list of pipelines *)

\* The ascending order of 1, ..., n is 1, ..., n.
LEMMA AscendingIsIdentity ==
    ASSUME NEW n \in Nat
    PROVE  \A k \in 1..n : InOrder(1..n, Ascending(1..n))[k] = k
<1> DEFINE f   == InOrder(1..n, Ascending(1..n))
           Bad == {k \in 1..n : f[k] # k}
<1>1. IsFiniteSet(1..n) /\ Cardinality(1..n) = n /\ Sorts(Ascending(1..n), 1..n)
  <2>1. 1..n \in SUBSET Int
    OBVIOUS
  <2> QED
    BY <2>1, AscendingSorts, FS_Interval
<1>2. \A j, k : <<j, k>> \in Ascending(1..n) => j < k
  BY DEF Ascending
<1>3. /\ f \in [1..n -> 1..n]
      /\ \A j, k \in 1..n : j < k => <<f[j], f[k]>> \in Ascending(1..n)
      /\ \A x \in 1..n : \E k \in 1..n : f[k] = x
  BY <1>1, InOrderSorts
<1> HIDE DEF f
<1>4. \A j, k \in 1..n : j < k => f[j] < f[k]
  BY <1>2, <1>3
<1>5. SUFFICES ASSUME Bad # {} PROVE FALSE
  BY DEF f
<1>6. PICK k \in Bad : \A j \in Bad : k <= j
  <2>1. Bad \in SUBSET Nat
    OBVIOUS
  <2> HIDE DEF Bad
  <2> QED
    BY <1>5, <2>1, LeastNumber
<1>7. k \in 1..n /\ f[k] # k /\ \A j \in 1..n : j < k => f[j] = j
  BY <1>6
<1> HIDE DEF Bad
<1>8. f[k] > k
  <2>1. CASE k = 1
    BY <1>3, <1>7, <2>1
  <2>2. CASE k # 1
    <3>1. k - 1 \in 1..n /\ k - 1 < k
      BY <1>7, <2>2
    <3>2. f[k] \in 1..n
      BY <1>3, <1>7
    <3>3. f[k - 1] = k - 1
      BY <1>7, <3>1
    <3>4. f[k - 1] < f[k]
      BY <1>4, <1>7, <3>1
    <3> QED
      BY <1>7, <3>2, <3>3, <3>4
  <2> QED
    BY <2>1, <2>2
<1>9. PICK m \in 1..n : f[m] = k
  BY <1>3, <1>7
<1>10. m < k \/ m = k \/ k < m
  BY <1>7
<1>11. k < m => f[k] < f[m]
  BY <1>4, <1>7
<1>12. m < k => f[m] = m
  BY <1>7
<1>13. f[k] \in 1..n
  BY <1>3, <1>7
<1> QED
  BY <1>7, <1>8, <1>9, <1>10, <1>11, <1>12, <1>13

\* lastRunAt is the latest start of the pipeline's runs where they are in one zone: a run
\* that has not started has not ended either.
LEMMA LastRunIsLatest ==
    ASSUME TablesInv, NEW p, Known(p)
    PROVE  \E i \in Ids : /\ rows[i].pipeline = p /\ LastRunAt(p) = rows[i].started
                          /\ OneZone(p) => \A j \in Ids :
                               rows[j].pipeline = p => rows[j].started <= rows[i].started
<1> DEFINE mine == {i \in Ids : rows[i].pipeline = p}
           ord  == {e \in Ids \X Ids : MoreRecent(e[1], e[2])}
           all  == RunsOf(p)
           n    == Cardinality(mine)
           cur  == Windows(p).current
           i    == all[1]
<1>1. mine \in SUBSET Ids /\ IsFiniteSet(mine) /\ mine # {}
  BY RowTimes, FS_Subset DEF Known
<1>2. /\ n \in Nat
      /\ all \in [1..n -> mine] /\ all \in Seq(Ids) /\ Len(all) = n
      /\ \A j, k \in 1..n : j < k => <<all[j], all[k]>> \in ord
      /\ \A x \in mine : \E k \in 1..n : all[k] = x
  <2>1. Sorts(ord, mine)
    BY <1>1, RunOrders
  <2>2. all = InOrder(mine, ord) /\ all \in Seq(Ids) /\ Len(all) = n
    BY RunsListed DEF RunsOf
  <2> HIDE DEF mine, ord, all
  <2> QED
    BY <1>1, <2>1, <2>2, InOrderSorts
<1>3. n > 0
  <2> HIDE DEF mine
  <2> QED
    BY <1>1, <1>2, FS_EmptySet
<1>4. cur # <<>> /\ Head(cur) = i
  <2> DEFINE m == Least(WindowRuns, Len(all))
  <2>1. cur \in Seq(Ids) /\ cur = SubSeq(all, 1, m)
    BY WindowsListed
  <2>2. m \in 1..n
    BY <1>2, <1>3, Bounds DEF Least
  <2> HIDE DEF m, cur, all, n
  <2>3. Len(SubSeq(all, 1, m)) = m /\ \A k \in 1..m : SubSeq(all, 1, m)[k] = all[k]
    BY <1>2, <2>2
  <2>4. Len(cur) = m /\ cur[1] = all[1]
    BY <1>2, <2>1, <2>2, <2>3
  <2>5. Len(cur) # 0
    BY <2>2, <2>4
  <2>6. cur # <<>>
    BY <2>5
  <2>7. Head(cur) = cur[1]
    BY <2>1, <2>6
  <2> QED
    BY <2>4, <2>6, <2>7
<1>5. \A j, k : <<j, k>> \in ord => MoreRecent(j, k)
  OBVIOUS
<1>6. i \in mine
  <2> HIDE DEF mine, all, n
  <2> QED
    BY <1>2, <1>3
<1>7. LastRunAt(p) = rows[i].started
  <2>1. LastRunAt(p) = IF rows[i].started > 0 THEN rows[i].started ELSE rows[i].completed
    BY <1>4 DEF LastRunAt
  <2>2. rows[i] \in GoodRows /\ rows[i].started \in Nat /\ rows[i].completed \in Nat
    BY <1>6, RowsTyped, RowTimes
  <2>3. rows[i].started = 0 => rows[i].completed = 0
    BY <2>2 DEF GoodRows
  <2> HIDE DEF i
  <2> QED
    BY <2>1, <2>2, <2>3
<1>8. ASSUME OneZone(p), NEW j \in mine PROVE rows[j].started <= rows[i].started
  <2> HIDE DEF ord
  <2>1. PICK k \in 1..n : all[k] = j
    BY <1>2
  <2>2. /\ rows[i].started \in Nat /\ rows[j].started \in Nat /\ i \in Ids /\ j \in Ids
        /\ rows[i].pipeline = p /\ rows[j].pipeline = p
    BY <1>1, <1>6, <1>8, RowTimes
  <2> HIDE DEF mine, all, n
  <2>3. CASE k = 1
    BY <2>1, <2>2, <2>3
  <2>4. CASE k # 1
    <3>1. 1 \in 1..n /\ 1 < k
      BY <1>2, <1>3, <2>1, <2>4
    <3>2. MoreRecent(i, j)
      BY <1>2, <1>5, <2>1, <3>1
    <3> QED
      BY <1>8, <2>2, <3>2, MoreRecentStarted
  <2> QED
    BY <2>3, <2>4
<1> QED
  BY <1>6, <1>7, <1>8

\* The summaries ListPipelines lists.
Summaries == {Summary(p) : p \in ListedPipelines}

\* The summary of a pipeline with a run, of either health, with its last run's start.
LEMMA SummaryIs ==
    ASSUME TablesInv
    PROVE  /\ IsFiniteSet(Summaries)
           /\ \A x \in Summaries :
                /\ x.pipeline \in ListedPipelines /\ x = Summary(x.pipeline)
                /\ x.lastRunAt = LastRunAt(x.pipeline) /\ x.lastRunAt \in Nat
                /\ x.health \in {"healthy", "unhealthy"}
           /\ \A p \in ListedPipelines : \E x \in Summaries : x.pipeline = p
<1>1. IsFiniteSet(ListedPipelines) /\ \A p \in ListedPipelines : Known(p)
  <2>1. ListedPipelines \in SUBSET Pipelines
    BY DEF ListedPipelines
  <2>2. IsFiniteSet(Pipelines)
    BY MetricsAssumption
  <2> QED
    BY <2>1, <2>2, FS_Subset DEF ListedPipelines
<1>2. ASSUME NEW p \in ListedPipelines
      PROVE  /\ Summary(p).pipeline = p /\ Summary(p).lastRunAt = LastRunAt(p)
             /\ LastRunAt(p) \in Nat
             /\ Summary(p).health \in {"healthy", "unhealthy"}
  <2>1. LastRunAt(p) \in Nat
    BY <1>1, LastRunIsLatest, RowTimes
  <2> QED
    BY <2>1 DEF Summary
<1>3. IsFiniteSet(Summaries)
  <2> DEFINE f == [p \in ListedPipelines |-> Summary(p)]
  <2>1. f \in Surjection(ListedPipelines, Summaries)
    BY DEF Surjection, Summaries
  <2> HIDE DEF f
  <2> QED
    BY <1>1, <2>1, FS_Surjection
<1>4. \A x \in Summaries : \E p \in ListedPipelines : x = Summary(p)
  BY DEF Summaries
<1>5. \A p \in ListedPipelines : Summary(p) \in Summaries
  BY DEF Summaries
<1>6. ASSUME NEW x \in Summaries
      PROVE  /\ x.pipeline \in ListedPipelines /\ x = Summary(x.pipeline)
             /\ x.lastRunAt = LastRunAt(x.pipeline) /\ x.lastRunAt \in Nat
             /\ x.health \in {"healthy", "unhealthy"}
  <2>1. PICK p \in ListedPipelines : x = Summary(p)
    BY <1>4
  <2> QED
    BY <1>2, <2>1
<1>7. \A p \in ListedPipelines : \E x \in Summaries : x.pipeline = p
  BY <1>2, <1>5
<1> QED
  BY <1>3, <1>6, <1>7

\* The list of the summaries by name has each of them once.
LEMMA SummariesInOrder ==
    ASSUME TablesInv, NEW names \in SetToSeqs(Pipelines)
    PROVE  LET all == InOrderOf(names, Summaries)
           IN  all \in Seq(Summaries) /\ ToSet(all) = Summaries
<1> DEFINE ord == {e \in Summaries \X Summaries :
                     Position(e[1].pipeline, names) < Position(e[2].pipeline, names)}
<1>1. /\ IsFiniteSet(Summaries) /\ Summaries \in SUBSET Summaries
      /\ \A x \in Summaries : x.pipeline \in Pipelines /\ x = Summary(x.pipeline)
  BY SummaryIs DEF ListedPipelines
<1>2. \A x, y \in Summaries :
         /\ Position(x.pipeline, names) \in Nat
         /\ x # y => Position(x.pipeline, names) # Position(y.pipeline, names)
  <2>1. IsFiniteSet(Pipelines)
    BY MetricsAssumption
  <2>2. \A x, y \in Summaries : x # y => x.pipeline # y.pipeline
    BY <1>1
  <2> QED
    BY <1>1, <2>1, <2>2, PlacesDiffer
<1>3. Sorts(ord, Summaries)
  <2>1. \A x, y \in Summaries : <<x, y>> \in ord <=> Position(x.pipeline, names) < Position(y.pipeline, names)
    OBVIOUS
  <2> HIDE DEF ord
  <2> QED
    BY <1>2, <2>1 DEF Sorts
<1>4. InOrderOf(names, Summaries) = InOrder(Summaries, ord)
  BY DEF InOrderOf
<1> HIDE DEF ord
<1>5. InOrder(Summaries, ord) \in Seq(Summaries) /\ ToSet(InOrder(Summaries, ord)) = Summaries
  BY <1>1, <1>3, OrderedSeq
<1> QED
  BY <1>4, <1>5

\* The places of a list that are of a health.
Kept(all, health) == {k \in DOMAIN all : health \in {"any", all[k].health}}

\* Every summary has a last run's start.
Dated(S) == \A x \in S : x.lastRunAt \in Nat

\* listAcrossPipelines up to its page keeps those of the health asked for, each once, and
\* sorted by last run none comes after one whose last run is earlier; sorted by name they
\* stay as they are.
LEMMA AcrossSorted ==
    ASSUME NEW S, NEW all \in Seq(S), Dated(S), NEW health, NEW sort
    PROVE  LET list == AcrossPipelines(all, health, sort)
           IN  /\ list \in Seq(S)
               /\ IsFiniteSet(Kept(all, health)) /\ Len(list) = Cardinality(Kept(all, health))
               /\ \A x : x \in ToSet(list) <=> \E k \in Kept(all, health) : x = all[k]
               /\ sort = "lastRun" =>
                    \A a, b \in 1..Len(list) : a < b => list[a].lastRunAt >= list[b].lastRunAt
               /\ health = "any" /\ sort # "lastRun" => list = all
<1> DEFINE kept  == Kept(all, health)
           later == {e \in kept \X kept : \/ all[e[1]].lastRunAt > all[e[2]].lastRunAt
                                          \/ all[e[1]].lastRunAt = all[e[2]].lastRunAt /\ e[1] < e[2]}
           ord   == IF sort = "lastRun" THEN later ELSE Ascending(kept)
           order == InOrder(kept, ord)
           n     == Cardinality(kept)
           list  == AcrossPipelines(all, health, sort)
<1>1. list = [k \in 1..n |-> all[order[k]]]
  BY Zenon DEF AcrossPipelines, Kept
<1>2. Len(all) \in Nat /\ DOMAIN all = 1..Len(all) /\ \A k \in 1..Len(all) : all[k] \in S
  BY LenProperties, ElementOfSeq
<1>3. kept \subseteq 1..Len(all) /\ IsFiniteSet(kept) /\ n \in Nat
  <2>1. kept \in SUBSET (1..Len(all))
    BY <1>2 DEF Kept
  <2>2. IsFiniteSet(1..Len(all))
    BY <1>2, FS_Interval
  <2> HIDE DEF kept
  <2> QED
    BY <2>1, <2>2, FS_Subset, FS_CardinalityType
<1>4. \A k \in kept : all[k] \in S /\ all[k].lastRunAt \in Nat /\ k \in Nat
  <2> HIDE DEF kept
  <2> QED
    BY <1>2, <1>3 DEF Dated
<1>5. \A j, k \in kept : <<j, k>> \in later <=> \/ all[j].lastRunAt > all[k].lastRunAt
                                                \/ all[j].lastRunAt = all[k].lastRunAt /\ j < k
  OBVIOUS
<1> HIDE DEF kept, later, list
<1>6. Sorts(ord, kept)
  <2>1. CASE sort = "lastRun"
    <3>1. Sorts(later, kept)
      BY <1>4, <1>5 DEF Sorts
    <3> QED
      BY <2>1, <3>1
  <2>2. CASE sort # "lastRun"
    <3>1. kept \in SUBSET Int
      BY <1>4
    <3> QED
      BY <2>2, <3>1, AscendingSorts
  <2> QED
    BY <2>1, <2>2
<1>7. /\ order \in [1..n -> kept]
      /\ \A j, k \in 1..n : j < k => <<order[j], order[k]>> \in ord
      /\ \A x \in kept : \E k \in 1..n : order[k] = x
  <2> HIDE DEF ord
  <2> QED
    BY <1>3, <1>6, InOrderSorts
<1>8. list \in Seq(S) /\ Len(list) = n
  <2> HIDE DEF order, n
  <2>1. list \in [1..n -> S]
    BY <1>1, <1>4, <1>7
  <2> QED
    BY <1>3, <2>1 DEF n
<1>9. \A x : x \in ToSet(list) <=> \E k \in kept : x = all[k]
  <2>1. \A x : x \in ToSet(list) <=> \E k \in 1..n : x = list[k]
    BY <1>8, ElementsAt
  <2> HIDE DEF order, n
  <2>2. \A k \in 1..n : list[k] = all[order[k]] /\ order[k] \in kept
    BY <1>1, <1>7
  <2> QED
    BY <1>7, <2>1, <2>2
<1>10. ASSUME sort = "lastRun", NEW a \in 1..n, NEW b \in 1..n, a < b
       PROVE  list[a].lastRunAt >= list[b].lastRunAt
  <2>1. <<order[a], order[b]>> \in later /\ order[a] \in kept /\ order[b] \in kept
    BY <1>7, <1>10
  <2> HIDE DEF order, n
  <2>2. list[a] = all[order[a]] /\ list[b] = all[order[b]]
    BY <1>1
  <2> QED
    BY <1>4, <1>5, <2>1, <2>2, SMTT(60)
<1>11. ASSUME health = "any", sort # "lastRun" PROVE list = all
  <2>1. kept = 1..Len(all)
    BY <1>2, <1>11 DEF kept, Kept
  <2>2. n = Len(all)
    BY <1>2, <2>1, FS_Interval
  <2>3. order = InOrder(1..Len(all), Ascending(1..Len(all)))
    BY <1>11, <2>1
  <2> HIDE DEF order, n
  <2>4. \A k \in 1..n : order[k] = k
    BY <1>2, <2>2, <2>3, AscendingIsIdentity
  <2>5. list = [k \in 1..n |-> all[k]]
    BY <1>1, <2>4
  <2>6. all = [k \in 1..Len(all) |-> all[k]]
    BY <1>2
  <2> QED
    BY <2>2, <2>5, <2>6
<1> QED
  BY <1>3, <1>8, <1>9, <1>10, <1>11 DEF kept, list

\* A page of paginate starts where the one before ended, and "more" is said unless it ends
\* the list.
LEMMA PageOf ==
    ASSUME NEW S, NEW list \in Seq(S), NEW limit \in Nat \ {0},
           NEW k \in 1..Most(Ceiling(Len(list), limit), 1)
    PROVE  LET page == Paginate(list, limit, (k - 1) * limit)
               end  == Least(k * limit, Len(list))
           IN  /\ (k - 1) * limit \in Nat
               /\ page.items = SubSeq(list, (k - 1) * limit + 1, end)
               /\ page.more <=> end < Len(list)
<1> DEFINE n   == Len(list)
           o   == (k - 1) * limit
           end == Least(k * limit, n)
<1>1. n \in Nat
  BY LenProperties
<1>2. /\ o \in Nat /\ Least(o, n) = o
      /\ end \in 0..n /\ end = Least(o + limit, n)
  <2> HIDE DEF n
  <2> DEFINE pages  == Most(Ceiling(n, limit), 1)
             cut(j) == Least(j * limit, n)
  <2>1. \A j \in 1..pages : /\ (j - 1) * limit \in Nat
                            /\ cut(j - 1) = (j - 1) * limit
                            /\ cut(j) \in 0..n
                            /\ cut(j) = Least((j - 1) * limit + limit, n)
    BY <1>1, PageBounds
  <2>2. k \in 1..pages
    BY DEF n
  <2> HIDE DEF pages
  <2> QED
    BY <2>1, <2>2
<1>3. Most(o, 0) = o
  <2> HIDE DEF o
  <2> QED
    BY <1>2 DEF Most
<1> DEFINE items == SubSeq(list, o + 1, end)
           more  == n > end
           record(a, b) == [items |-> a, more |-> b]
<1>4. \A a, b : record(a, b).items = a /\ record(a, b).more = b
  OBVIOUS
<1>5. Paginate(list, limit, o) = record(items, more)
  BY <1>2, <1>3, Zenon DEF Paginate
<1> HIDE DEF o, end, n, items, more, record
<1>6. Paginate(list, limit, o).items = items /\ Paginate(list, limit, o).more = more
  BY <1>4, <1>5, Zenon
<1>7. n > end <=> end < n
  BY <1>1, <1>2
<1> QED
  BY <1>2, <1>6, <1>7 DEF items, more, o, end, n

\* The pages ListPipelines gives of a list, by the store's query or after summarising all
\* of it, are its parts, in order.
LEMMA PipelinesPaged ==
    ASSUME NEW S, NEW all \in Seq(S), Dated(S), NEW health, NEW sort \in {"name", "lastRun"}
    PROVE  PagesOf(all, AcrossPipelines(all, health, sort), health, sort)
<1> DEFINE list == AcrossPipelines(all, health, sort)
<1>1. list \in Seq(S) /\ (health = "any" /\ sort = "name" => list = all)
  BY AcrossSorted
<1> HIDE DEF list
<1>2. ASSUME NEW limit \in 1..Most(Len(list), 1), NEW k \in 1..Most(Ceiling(Len(list), limit), 1)
      PROVE  LET page == ListPipelines(all, health, sort, limit, (k - 1) * limit)
                 end  == Least(k * limit, Len(list))
             IN  /\ page.items = SubSeq(list, (k - 1) * limit + 1, end)
                 /\ page.more <=> end < Len(list)
  <2> DEFINE offset == (k - 1) * limit
             page   == ListPipelines(all, health, sort, limit, offset)
             end    == Least(k * limit, Len(list))
             paged  == Paginate(list, limit, offset)
  <2>1. limit \in Nat \ {0}
    <3> DEFINE m == Most(Len(list), 1)
    <3>1. m \in Nat /\ limit \in 1..m
      BY <1>1, LenProperties DEF Most
    <3> HIDE DEF m
    <3> QED
      BY <3>1
  <2>2. /\ offset \in Nat
        /\ paged.items = SubSeq(list, offset + 1, end)
        /\ paged.more <=> end < Len(list)
    BY <1>1, <2>1, PageOf
  <2> HIDE DEF offset, end, paged
  <2>3. page = paged
    <3>1. CASE health = "any" /\ sort = "name"
      <4>1. page = QueryPage(all, limit, offset)
        BY <3>1 DEF ListPipelines
      <4>2. QueryPage(all, limit, offset) = Paginate(all, limit, offset)
        BY <2>1, <2>2, QueryPageIsPaginate
      <4> QED
        BY <1>1, <3>1, <4>1, <4>2 DEF paged
    <3>2. CASE ~(health = "any" /\ sort = "name")
      BY <3>2, Zenon DEF ListPipelines, paged, list
    <3> QED
      BY <3>1, <3>2
  <2> HIDE DEF page
  <2>4. page.items = SubSeq(list, offset + 1, end) /\ (page.more <=> end < Len(list))
    BY <2>2, <2>3
  <2> QED
    BY <2>4, Zenon DEF page, offset, end
<1> QED
  BY <1>2, Zenon DEF PagesOf, list

\* Every summary is in the healthy list or in the unhealthy one, and in one only.
LEMMA HealthsAddUp ==
    ASSUME TablesInv, NEW all \in Seq(Summaries), ToSet(all) = Summaries, NEW sort
    PROVE  LET any       == AcrossPipelines(all, "any", sort)
               healthy   == AcrossPipelines(all, "healthy", sort)
               unhealthy == AcrossPipelines(all, "unhealthy", sort)
           IN  /\ Len(healthy) + Len(unhealthy) = Len(any)
               /\ ToSet(healthy \o unhealthy) = Summaries
<1> DEFINE any       == AcrossPipelines(all, "any", sort)
           healthy   == AcrossPipelines(all, "healthy", sort)
           unhealthy == AcrossPipelines(all, "unhealthy", sort)
           K == Kept(all, "any")
           H == Kept(all, "healthy")
           U == Kept(all, "unhealthy")
<1>1. /\ \A x \in Summaries : x.health \in {"healthy", "unhealthy"}
      /\ Dated(Summaries)
  BY SummaryIs DEF Dated
<1>2. /\ \A k \in DOMAIN all : all[k] \in Summaries
      /\ \A x \in Summaries : \E k \in DOMAIN all : x = all[k]
  BY LenProperties, ElementOfSeq DEF ToSet
<1>3. K = H \union U /\ H \intersect U = {} /\ K = DOMAIN all
  BY <1>1, <1>2 DEF Kept
<1>4. /\ healthy \in Seq(Summaries) /\ unhealthy \in Seq(Summaries)
      /\ Len(any) = Cardinality(K) /\ Len(healthy) = Cardinality(H) /\ Len(unhealthy) = Cardinality(U)
      /\ IsFiniteSet(H) /\ IsFiniteSet(U)
      /\ \A x : x \in ToSet(healthy) <=> \E k \in H : x = all[k]
      /\ \A x : x \in ToSet(unhealthy) <=> \E k \in U : x = all[k]
  BY <1>1, AcrossSorted
<1> HIDE DEF any, healthy, unhealthy, K, H, U
<1>5. Len(healthy) + Len(unhealthy) = Len(any)
  <2>1. Cardinality(H \union U) = Cardinality(H) + Cardinality(U) - Cardinality(H \intersect U)
    BY <1>4, FS_Union
  <2>2. Cardinality(H \intersect U) = 0
    BY <1>3, FS_EmptySet
  <2>3. Cardinality(H) \in Nat /\ Cardinality(U) \in Nat
    BY <1>4, FS_CardinalityType
  <2>4. Cardinality(K) = Cardinality(H \union U)
    BY <1>3
  <2> DEFINE h == Cardinality(H)
             u == Cardinality(U)
             c == Cardinality(H \union U)
             i == Cardinality(H \intersect U)
  <2>5. c = h + u - i /\ i = 0 /\ h \in Nat /\ u \in Nat
    BY <2>1, <2>2, <2>3
  <2>6. Len(any) = c /\ Len(healthy) = h /\ Len(unhealthy) = u
    BY <1>4, <2>4
  <2> HIDE DEF h, u, c, i
  <2> QED
    BY <2>5, <2>6
<1>6. ToSet(healthy \o unhealthy) = Summaries
  <2> DEFINE both == healthy \o unhealthy
             h == Len(healthy)
             u == Len(unhealthy)
  <2>1. /\ both \in Seq(Summaries) /\ h \in Nat /\ u \in Nat /\ Len(both) = h + u
        /\ \A i \in 1..h : both[i] = healthy[i]
        /\ \A i \in 1..u : both[h + i] = unhealthy[i]
    <3>1. /\ both \in Seq(Summaries) /\ Len(both) = h + u
          /\ \A i \in 1..(h + u) : both[i] = IF i <= h THEN healthy[i] ELSE unhealthy[i - h]
      BY <1>4, ConcatProperties
    <3>2. h \in Nat /\ u \in Nat
      BY <1>4, LenProperties
    <3> HIDE DEF both, h, u
    <3>3. \A i \in 1..u : h + i \in 1..(h + u) /\ ~(h + i <= h) /\ h + i - h = i
      BY <3>2
    <3>4. \A i \in 1..h : i \in 1..(h + u) /\ i <= h
      BY <3>2
    <3> QED
      BY <3>1, <3>2, <3>3, <3>4
  <2>2. /\ \A x : x \in ToSet(both) <=> \E i \in 1..Len(both) : x = both[i]
        /\ \A x : x \in ToSet(healthy) <=> \E i \in 1..h : x = healthy[i]
        /\ \A x : x \in ToSet(unhealthy) <=> \E i \in 1..u : x = unhealthy[i]
    BY <1>4, <2>1, ElementsAt, ZenonT(60)
  <2> HIDE DEF both, h, u
  <2>3. ASSUME NEW x \in Summaries PROVE x \in ToSet(both)
    <3>1. PICK k \in DOMAIN all : x = all[k]
      BY <1>2
    <3>2. CASE k \in H
      <4>1. PICK i \in 1..h : x = healthy[i]
        BY <1>4, <2>2, <3>1, <3>2
      <4>2. i \in 1..Len(both) /\ x = both[i]
        BY <2>1, <4>1
      <4> QED
        BY <2>2, <4>2
    <3>3. CASE k \in U
      <4>1. PICK i \in 1..u : x = unhealthy[i]
        BY <1>4, <2>2, <3>1, <3>3
      <4>2. h + i \in 1..Len(both) /\ x = both[h + i]
        BY <2>1, <4>1
      <4> QED
        BY <2>2, <4>2
    <3> QED
      BY <1>3, <3>1, <3>2, <3>3
  <2>4. ToSet(both) \subseteq Summaries
    BY <2>1, <2>2, ElementOfSeq
  <2> QED
    BY <2>3, <2>4 DEF both
<1> QED
  BY <1>5, <1>6 DEF any, healthy, unhealthy

\* The pipeline list (ListPipelines) is what its pages make up, for every health asked
\* for, either sort and any size of page; every pipeline with a run is in the healthy list
\* or in the unhealthy one; and sorted by last run none with its runs in one zone comes
\* after one whose last run started earlier.
THEOREM PipelineListPaged == Spec => []PipelineListPages
<1>1. ASSUME TablesInv, NEW names \in SetToSeqs(Pipelines), NEW sort \in {"name", "lastRun"}
      PROVE  ListPages(InOrderOf(names, Summaries), sort)
  <2> DEFINE all       == InOrderOf(names, Summaries)
             any       == AcrossPipelines(all, "any", sort)
             healthy   == AcrossPipelines(all, "healthy", sort)
             unhealthy == AcrossPipelines(all, "unhealthy", sort)
             starts(x) == {rows[i].started : i \in {j \in Ids : rows[j].pipeline = x.pipeline}}
  <2>1. all \in Seq(Summaries) /\ ToSet(all) = Summaries
    BY <1>1, SummariesInOrder
  <2>2. /\ \A x \in Summaries : /\ x.pipeline \in ListedPipelines
                                /\ x.lastRunAt = LastRunAt(x.pipeline) /\ x.lastRunAt \in Nat
        /\ \A p \in ListedPipelines : \E x \in Summaries : x.pipeline = p
        /\ Dated(Summaries)
    BY <1>1, SummaryIs DEF Dated
  <2> HIDE DEF all
  <2>3. /\ PagesOf(all, any, "any", sort)
        /\ PagesOf(all, healthy, "healthy", sort)
        /\ PagesOf(all, unhealthy, "unhealthy", sort)
    BY <2>1, <2>2, PipelinesPaged
  <2>4. /\ Len(healthy) + Len(unhealthy) = Len(any)
        /\ ToSet(healthy \o unhealthy) = Summaries
    BY <1>1, <2>1, HealthsAddUp
  <2>5. {x.pipeline : x \in Summaries} = {rows[i].pipeline : i \in Ids}
    <3>1. \A i \in Ids : rows[i].pipeline \in ListedPipelines
      BY <1>1, RowsTyped DEF ListedPipelines, Known, GoodRows, RunRow
    <3>2. \A p \in ListedPipelines : \E i \in Ids : rows[i].pipeline = p
      BY DEF ListedPipelines, Known
    <3>3. \A p : (\E x \in Summaries : p = x.pipeline) <=> \E i \in Ids : p = rows[i].pipeline
      BY <2>2, <3>1, <3>2
    <3> QED
      BY <3>3
  <2>6. ASSUME sort = "lastRun", NEW a \in DOMAIN any, NEW b \in DOMAIN any, a < b,
               OneZone(any[b].pipeline)
        PROVE  \A t \in starts(any[b]) : \E u \in starts(any[a]) : t <= u
    <3>1. any \in Seq(Summaries) /\ \A i, j \in 1..Len(any) : i < j => any[i].lastRunAt >= any[j].lastRunAt
      BY <2>1, <2>2, <2>6, AcrossSorted
    <3> HIDE DEF any
    <3>2. a \in 1..Len(any) /\ b \in 1..Len(any) /\ any[a] \in Summaries /\ any[b] \in Summaries
      BY <2>6, <3>1, LenProperties, ElementOfSeq
    <3> DEFINE x == any[a]
               y == any[b]
    <3>3. x \in Summaries /\ y \in Summaries /\ x.lastRunAt >= y.lastRunAt
      BY <2>6, <3>1, <3>2
    <3>4. OneZone(y.pipeline)
      BY <2>6
    <3> HIDE DEF x, y
    <3>5. Known(x.pipeline) /\ Known(y.pipeline)
      BY <2>2, <3>3 DEF ListedPipelines
    <3>6. PICK i \in Ids : rows[i].pipeline = x.pipeline /\ LastRunAt(x.pipeline) = rows[i].started
      BY <1>1, <3>5, LastRunIsLatest
    <3>7. PICK k \in Ids : /\ LastRunAt(y.pipeline) = rows[k].started
                           /\ \A j \in Ids : rows[j].pipeline = y.pipeline => rows[j].started <= rows[k].started
      BY <1>1, <3>5, <3>4, LastRunIsLatest
    <3>8. ASSUME NEW t \in starts(y) PROVE \E u \in starts(x) : t <= u
      <4>1. PICK j \in Ids : rows[j].pipeline = y.pipeline /\ t = rows[j].started
        OBVIOUS
      <4>2. rows[i].started \in starts(x)
        BY <3>6
      <4>3. rows[i].started >= rows[k].started /\ rows[j].started <= rows[k].started
        BY <2>2, <3>3, <3>6, <3>7, <4>1
      <4>4. rows[i].started \in Nat /\ rows[j].started \in Nat /\ rows[k].started \in Nat
        BY <1>1, RowTimes
      <4>5. t <= rows[i].started
        BY <4>1, <4>3, <4>4
      <4> HIDE DEF starts
      <4> QED
        BY <4>2, <4>5
    <3> QED
      BY <3>8 DEF x, y
  <2> HIDE DEF any, healthy, unhealthy
  <2>7. {x.pipeline : x \in ToSet(healthy \o unhealthy)} = {rows[i].pipeline : i \in Ids}
    BY <2>4, <2>5
  <2> QED
    BY <2>3, <2>4, <2>6, <2>7 DEF ListPages, all, any, healthy, unhealthy
<1>2. TablesInv => PipelineListPages
  BY <1>1 DEF PipelineListPages, Summaries
<1> QED
  BY <1>2, TablesAlways, PTL

-----------------------------------------------------------------------------
(* Recovery *)

\* How long each outage lasted, by the time it began.
Lengths(failures, passes) ==
    [t \in 1..MaxTime |-> IF t \in Outages(failures, passes) THEN EndOf(t, passes) - t ELSE 0]

\* What meanTimeToRecovery's loop knows after the runs with those times: what the outages
\* that ended add up to, and when the one that has not began.
Counted(acc, failures, passes) ==
    /\ acc.total = Total(Lengths(failures, passes))
    /\ acc.recoveries = Cardinality(Outages(failures, passes))
    /\ acc.down = 0 => \A u \in failures : \E v \in passes : u < v
    /\ acc.down # 0 =>
         /\ acc.down \in failures /\ \A v \in passes : v < acc.down
         /\ \A u \in failures : u < acc.down => \E v \in passes : u < v /\ v < acc.down

\* An outage ends at the first pass after it began.
LEMMA EndIsFirst ==
    ASSUME NEW passes \in SUBSET Nat, NEW t, \E v \in passes : t < v
    PROVE  /\ EndOf(t, passes) \in passes /\ t < EndOf(t, passes)
           /\ \A w \in passes : t < w => EndOf(t, passes) <= w
<1> DEFINE later == {v \in passes : t < v}
           First(v) == v \in passes /\ t < v /\ \A w \in passes : t < w => v <= w
<1>1. later \in SUBSET Nat /\ later # {}
  OBVIOUS
<1>2. \A v : v \in later <=> v \in passes /\ t < v
  OBVIOUS
<1> HIDE DEF later
<1>3. PICK m \in later : \A k \in later : m <= k
  BY <1>1, LeastNumber
<1>4. First(m)
  BY <1>2, <1>3
<1>5. \E v \in passes : t < v /\ \A w \in passes : t < w => v <= w
  BY <1>4
<1> QED
  BY <1>5 DEF EndOf

\* And there is one such time.
LEMMA EndIs ==
    ASSUME NEW passes \in SUBSET Nat, NEW t, NEW v \in passes, t < v,
           \A w \in passes : t < w => v <= w
    PROVE  EndOf(t, passes) = v
<1> DEFINE e == EndOf(t, passes)
<1>1. e \in passes /\ t < e /\ \A w \in passes : t < w => e <= w
  BY EndIsFirst
<1> HIDE DEF e
<1>2. e <= v /\ v <= e /\ e \in Nat /\ v \in Nat
  BY <1>1
<1>3. e = v
  BY <1>2
<1> QED
  BY <1>3 DEF e

\* Each outage lasted for a time.
LEMMA LengthsAre ==
    ASSUME NEW failures \in SUBSET (1..MaxTime), NEW passes \in SUBSET (1..MaxTime)
    PROVE  /\ Outages(failures, passes) \in SUBSET (1..MaxTime)
           /\ IsFiniteSet(Outages(failures, passes))
           /\ \A t \in Outages(failures, passes) : \E v \in passes : t < v
           /\ Lengths(failures, passes) \in Seq(Int) /\ Len(Lengths(failures, passes)) = MaxTime
           /\ \A t \in 1..MaxTime :
                Lengths(failures, passes)[t] =
                  IF t \in Outages(failures, passes) THEN EndOf(t, passes) - t ELSE 0
<1> DEFINE out     == Outages(failures, passes)
           lengths == Lengths(failures, passes)
<1>1. out \in SUBSET (1..MaxTime) /\ \A t \in out : \E v \in passes : t < v
  BY DEF Outages
<1>2. IsFiniteSet(out)
  <2> HIDE DEF out
  <2>1. IsFiniteSet(1..MaxTime)
    BY Bounds, FS_Interval
  <2> QED
    BY <1>1, <2>1, FS_Subset
<1>3. \A t \in 1..MaxTime : lengths[t] = IF t \in out THEN EndOf(t, passes) - t ELSE 0
  BY DEF Lengths
<1>4. lengths = [t \in 1..MaxTime |-> lengths[t]]
  BY DEF Lengths
<1> HIDE DEF out, lengths
<1>5. passes \in SUBSET Nat
  OBVIOUS
<1>6. \A t \in out : EndOf(t, passes) \in Nat
  BY <1>1, <1>5, EndIsFirst
<1>7. \A t \in 1..MaxTime : lengths[t] \in Int
  <2> TAKE t \in 1..MaxTime
  <2>1. CASE t \in out
    <3>1. EndOf(t, passes) \in Nat /\ lengths[t] = EndOf(t, passes) - t /\ t \in Nat
      BY <1>3, <1>6, <2>1
    <3> QED
      BY <3>1
  <2>2. CASE t \notin out
    BY <1>3, <2>2
  <2> QED
    BY <2>1, <2>2
<1>8. lengths \in Seq(Int) /\ Len(lengths) = MaxTime
  <2>1. lengths \in [1..MaxTime -> Int]
    BY <1>4, <1>7
  <2> QED
    BY <2>1, Bounds
<1> QED
  BY <1>1, <1>2, <1>3, <1>8 DEF out, lengths

\* A failure at a time that is not before any of the others ends no outage, and begins
\* one if none has begun.
LEMMA FailureCounted ==
    ASSUME NEW F \in SUBSET (1..MaxTime), NEW P \in SUBSET (1..MaxTime), NEW acc, Counted(acc, F, P),
           NEW x \in 1..MaxTime, x \notin P, \A y \in F \union P : y <= x, NEW new,
           new.total = acc.total, new.recoveries = acc.recoveries,
           new.down = IF acc.down = 0 THEN x ELSE acc.down
    PROVE  Counted(new, F \union {x}, P)
<1> DEFINE G == F \union {x}
<1>1. /\ \A y \in F : y \in Int /\ y > 0 /\ y <= x
      /\ \A v \in P : v \in Int /\ v > 0 /\ v < x
      /\ x \in Int /\ x > 0 /\ x \in G /\ F \subseteq G /\ \A y \in G : y \in F \/ y = x
  OBVIOUS
<1> HIDE DEF G
<1>2. Outages(G, P) = Outages(F, P)
  <2>1. ASSUME NEW t \in Outages(G, P) PROVE t \in Outages(F, P)
    <3>1. t \in G /\ \E v \in P : t < v
      BY DEF Outages
    <3>2. t \in F
      BY <1>1, <3>1
    <3> QED
      BY <1>1, <3>2 DEF Outages
  <2>2. ASSUME NEW t \in Outages(F, P) PROVE t \in Outages(G, P)
    <3>1. t \in F /\ ~(x < t)
      BY <1>1 DEF Outages
    <3> QED
      BY <1>1, <3>1 DEF Outages
  <2> QED
    BY <2>1, <2>2
<1>3. Lengths(G, P) = Lengths(F, P)
  BY <1>2 DEF Lengths
<1>4. CASE acc.down = 0
  <2>1. new.down = x /\ \A u \in F : \E v \in P : u < v
    BY <1>4 DEF Counted
  <2>2. \A u \in G : u < x => \E v \in P : u < v /\ v < x
    <3> SUFFICES ASSUME NEW u \in G, u < x PROVE \E v \in P : u < v /\ v < x
      OBVIOUS
    <3>1. u \in F
      BY <1>1
    <3>2. PICK v \in P : u < v
      BY <2>1, <3>1
    <3> QED
      BY <1>1, <3>2
  <2>3. x # 0 /\ x \in G /\ \A v \in P : v < x
    BY <1>1
  <2> QED
    BY <1>2, <1>3, <2>1, <2>2, <2>3 DEF Counted, G
<1>5. CASE acc.down # 0
  <2> DEFINE d == acc.down
  <2>1. /\ new.down = d /\ d # 0 /\ d \in F /\ \A v \in P : v < d
        /\ \A u \in F : u < d => \E v \in P : u < v /\ v < d
    BY <1>5 DEF Counted
  <2> HIDE DEF d
  <2>2. \A u \in G : u < d => \E v \in P : u < v /\ v < d
    <3> SUFFICES ASSUME NEW u \in G, u < d PROVE \E v \in P : u < v /\ v < d
      OBVIOUS
    <3>1. d \in Int /\ d <= x
      BY <1>1, <2>1
    <3>2. u \in F
      BY <1>1, <3>1
    <3> QED
      BY <2>1, <3>2
  <2> QED
    BY <1>1, <1>2, <1>3, <2>1, <2>2 DEF Counted, G
<1> QED
  BY <1>4, <1>5

\* A pass at a time that is not before any of the others ends the outage there is, if any,
\* and no other.
LEMMA PassCounted ==
    ASSUME NEW F \in SUBSET (1..MaxTime), NEW P \in SUBSET (1..MaxTime), NEW acc, Counted(acc, F, P),
           NEW x \in 1..MaxTime, x \notin F, \A y \in F \union P : y <= x, NEW new,
           new.down = 0,
           acc.down = 0 => new.total = acc.total /\ new.recoveries = acc.recoveries,
           acc.down # 0 => /\ new.total = acc.total + x - acc.down
                           /\ new.recoveries = acc.recoveries + 1
    PROVE  Counted(new, F, P \union {x})
<1> DEFINE Q == P \union {x}
           d == acc.down
<1>1. /\ \A y \in F : y \in Int /\ y > 0 /\ y < x
      /\ \A v \in P : v \in Int /\ v > 0 /\ v <= x
      /\ x \in Int /\ x > 0 /\ x \in Q /\ P \subseteq Q /\ \A v \in Q : v \in P \/ v = x
      /\ Q \in SUBSET (1..MaxTime) /\ P \in SUBSET Nat /\ Q \in SUBSET Nat
  OBVIOUS
<1> HIDE DEF Q
<1>2. /\ Outages(F, P) \subseteq Outages(F, Q) /\ Outages(F, P) \subseteq F
      /\ \A t \in Outages(F, P) : \E v \in P : t < v
  <2>1. \A t \in Outages(F, P) : t \in F /\ \E v \in P : t < v
    BY DEF Outages
  <2>2. ASSUME NEW t \in Outages(F, P) PROVE t \in Outages(F, Q)
    BY <1>1 DEF Outages
  <2> QED
    BY <2>1, <2>2
<1>3. ASSUME NEW t \in Outages(F, P) PROVE EndOf(t, Q) = EndOf(t, P)
  <2> DEFINE e == EndOf(t, P)
  <2>1. e \in P /\ t < e /\ \A w \in P : t < w => e <= w
    BY <1>1, <1>2, EndIsFirst
  <2> HIDE DEF e
  <2>2. e \in Q /\ \A w \in Q : t < w => e <= w
    BY <1>1, <2>1
  <2>3. EndOf(t, Q) = e
    BY <1>1, <2>1, <2>2, EndIs
  <2> QED
    BY <2>3 DEF e
<1>4. ASSUME NEW t \in Outages(F, Q)
      PROVE  t \in F /\ \A u \in F : u < t => \E v \in P : u < v /\ v < t
  <2>1. t \in F /\ \A u \in F : u < t => \E v \in Q : u < v /\ v < t
    BY DEF Outages
  <2>2. ASSUME NEW u \in F, u < t PROVE \E v \in P : u < v /\ v < t
    <3>1. PICK v \in Q : u < v /\ v < t
      BY <2>1, <2>2
    <3>2. v # x
      BY <1>1, <2>1, <3>1
    <3> QED
      BY <1>1, <3>1, <3>2
  <2> QED
    BY <2>1, <2>2
<1>5. \A u \in F : \E v \in Q : u < v
  BY <1>1
<1>6. CASE d = 0
  <2>1. \A u \in F : \E v \in P : u < v
    BY <1>6 DEF Counted
  <2>2. ASSUME NEW t \in Outages(F, Q) PROVE t \in Outages(F, P)
    BY <1>4, <2>1 DEF Outages
  <2>3. Outages(F, Q) = Outages(F, P)
    BY <1>2, <2>2
  <2>4. Lengths(F, Q) = Lengths(F, P)
    BY <1>3, <2>3 DEF Lengths
  <2> QED
    BY <1>5, <1>6, <2>3, <2>4 DEF Counted, Q
<1>7. CASE d # 0
  <2>1. /\ d \in F /\ \A v \in P : v < d
        /\ \A u \in F : u < d => \E v \in P : u < v /\ v < d
        /\ acc.total = Total(Lengths(F, P)) /\ acc.recoveries = Cardinality(Outages(F, P))
        /\ new.total = acc.total + x - d /\ new.recoveries = acc.recoveries + 1 /\ new.down = 0
    BY <1>7 DEF Counted
  <2> HIDE DEF d
  <2>2. d \in 1..MaxTime /\ d < x
    BY <1>1, <2>1
  <2>3. d \notin Outages(F, P)
    BY <1>1, <1>2, <2>1, <2>2
  <2>4. d \in Outages(F, Q)
    BY <1>1, <2>1, <2>2 DEF Outages
  <2>5. ASSUME NEW t \in Outages(F, Q), t # d PROVE t \in Outages(F, P)
    <3>4. t \in F /\ \A u \in F : u < t => \E v \in P : u < v /\ v < t
      BY <1>4
    <3>1. t \in F /\ t \in Int /\ d \in Int /\ \A u \in F : u < t => \E v \in P : u < v /\ v < t
      BY <1>1, <2>2, <3>4
    <3>2. t < d
      <4>1. ASSUME d < t PROVE FALSE
        <5>1. PICK v \in P : d < v
          BY <2>1, <3>1, <4>1
        <5> QED
          BY <1>1, <2>1, <2>2, <5>1
      <4> QED
        BY <2>5, <3>1, <4>1
    <3>3. \E v \in P : t < v
      BY <2>1, <3>1, <3>2
    <3> QED
      BY <3>1, <3>3 DEF Outages
  <2>6. Outages(F, Q) = Outages(F, P) \union {d}
    BY <1>2, <2>4, <2>5
  <2>7. Cardinality(Outages(F, Q)) = Cardinality(Outages(F, P)) + 1
    <3>1. IsFiniteSet(Outages(F, P))
      BY LengthsAre
    <3> DEFINE out == Outages(F, P)
    <3> HIDE DEF out
    <3>2. Cardinality(out \union {d}) = Cardinality(out) + 1
      BY <2>3, <3>1, FS_AddElement DEF out
    <3> QED
      BY <2>6, <3>2 DEF out
  <2>8. EndOf(d, Q) = x
    <3>1. \A w \in Q : d < w => x <= w
      BY <1>1, <2>1, <2>2
    <3> QED
      BY <1>1, <2>2, <3>1, EndIs
  <2>9. Total(Lengths(F, Q)) = Total(Lengths(F, P)) + x - d
    <3> DEFINE a == Lengths(F, P)
               b == Lengths(F, Q)
    <3>1. /\ a \in Seq(Int) /\ Len(a) = MaxTime
          /\ \A t \in 1..MaxTime : a[t] = IF t \in Outages(F, P) THEN EndOf(t, P) - t ELSE 0
      BY LengthsAre
    <3>2. /\ b \in Seq(Int) /\ Len(b) = MaxTime
          /\ \A t \in 1..MaxTime : b[t] = IF t \in Outages(F, Q) THEN EndOf(t, Q) - t ELSE 0
      BY <1>1, LengthsAre
    <3> HIDE DEF a, b
    <3>3. \A t \in 1..MaxTime : t # d => b[t] = a[t]
      BY <1>3, <2>6, <3>1, <3>2
    <3>4. a[d] = 0 /\ b[d] = x - d
      BY <2>2, <2>3, <2>4, <2>8, <3>1, <3>2
    <3>5. Total(b) = Total(a) + b[d] - a[d]
      <4>1. d \in 1..Len(a) /\ DifferAt(a, b, d)
        BY <2>2, <3>1, <3>2, <3>3 DEF DifferAt
      <4> QED
        BY <3>1, <3>2, <4>1, TotalChanged
    <3>6. Total(a) \in Int
      BY <3>1, TotalIsNumber
    <3>7. Total(b) = Total(a) + x - d
      BY <1>1, <2>2, <3>4, <3>5, <3>6
    <3> QED
      BY <3>7 DEF a, b
  <2> QED
    BY <1>5, <2>1, <2>7, <2>9 DEF Counted, Q
<1> QED
  BY <1>6, <1>7

\* One round of meanTimeToRecovery's loop, and what it keeps.
Round(acc, i) ==
    IF Failed(i) /\ acc.down = 0 THEN [acc EXCEPT !.down = rows[i].completed]
    ELSE IF Passed(i) /\ acc.down # 0 THEN Recovered(acc, rows[i].completed)
    ELSE acc
Account == [total : Int, recoveries : Int, down : Int]

\* A round keeps that, and does one of three things.
LEMMA RoundIs ==
    ASSUME TablesInv, NEW acc \in Account, NEW i \in Ids
    PROVE  /\ Round(acc, i) \in Account
           /\ Failed(i) =>
                /\ Round(acc, i).total = acc.total /\ Round(acc, i).recoveries = acc.recoveries
                /\ Round(acc, i).down = IF acc.down = 0 THEN rows[i].completed ELSE acc.down
           /\ Passed(i) =>
                /\ Round(acc, i).down = 0
                /\ acc.down = 0 => /\ Round(acc, i).total = acc.total
                                   /\ Round(acc, i).recoveries = acc.recoveries
                /\ acc.down # 0 => /\ Round(acc, i).total = acc.total + rows[i].completed - acc.down
                                   /\ Round(acc, i).recoveries = acc.recoveries + 1
<1> DEFINE x    == rows[i].completed
           new  == Round(acc, i)
           down == [acc EXCEPT !.down = x]
           up   == Recovered(acc, x)
<1>1. x \in Nat /\ acc.total \in Int /\ acc.recoveries \in Int /\ acc.down \in Int
  BY RowTimes DEF Account
<1>2. ~(Failed(i) /\ Passed(i))
  BY DEF Failed, Passed, Failing
<1>3. new = IF Failed(i) /\ acc.down = 0 THEN down ELSE IF Passed(i) /\ acc.down # 0 THEN up ELSE acc
  BY DEF Round
<1> HIDE DEF x, new
<1>4. down \in Account /\ down.total = acc.total /\ down.recoveries = acc.recoveries /\ down.down = x
  BY <1>1 DEF Account
<1>5. up \in Account /\ up.total = acc.total + x - acc.down /\ up.recoveries = acc.recoveries + 1 /\ up.down = 0
  BY <1>1 DEF Account, Recovered
<1> HIDE DEF down, up
<1> QED
  BY <1>2, <1>3, <1>4, <1>5 DEF x, new

\* The loop goes through the runs round by round.
LEMMA LoopRounds ==
    ASSUME TablesInv, NEW seq \in Seq(Ids)
    PROVE  \E acc \in [0..Len(seq) -> Account] :
             /\ RecoveryTimes(seq) = acc[Len(seq)]
             /\ acc[0] = NothingDown
             /\ \A k \in 1..Len(seq) : acc[k] = Round(acc[k - 1], seq[k])
<1> DEFINE n    == Len(seq)
           step == [k \in 1..n |-> [a \in Account |-> Round(a, seq[k])]]
           Rounds(f) == [k \in 0..n |->
                         IF k = 0 THEN NothingDown
                         ELSE IF Failed(seq[k]) /\ f[k - 1].down = 0
                         THEN [f[k - 1] EXCEPT !.down = rows[seq[k]].completed]
                         ELSE IF Passed(seq[k]) /\ f[k - 1].down # 0
                         THEN Recovered(f[k - 1], rows[seq[k]].completed)
                         ELSE f[k - 1]]
           loop == CHOOSE f : f = Rounds(f)
<1>1. n \in Nat /\ \A k \in 1..n : seq[k] \in Ids
  BY LenProperties, ElementOfSeq
<1>2. RecoveryTimes(seq) = loop[n]
  BY Zenon DEF RecoveryTimes
<1> HIDE DEF n
<1>3. \A f : Rounds(f) = [k \in 0..n |-> IF k = 0 THEN NothingDown ELSE Round(f[k - 1], seq[k])]
  BY DEF Round
<1> HIDE DEF Rounds
<1>4. \A k \in 1..n, a \in Account : step[k][a] = Round(a, seq[k]) /\ Round(a, seq[k]) \in Account
  BY <1>1, RoundIs
<1>5. step \in [1..n -> [Account -> Account]]
  BY <1>4
<1>6. NothingDown \in Account
  BY DEF NothingDown, Account
<1> HIDE DEF step
<1>7. PICK acc \in [0..n -> Account] : acc[0] = NothingDown /\ \A k \in 1..n : acc[k] = step[k][acc[k - 1]]
  <2> DEFINE X == Account
             x == NothingDown
  <2>1. x \in X /\ step \in [1..n -> [X -> X]]
    BY <1>5, <1>6
  <2> HIDE DEF X, x
  <2>2. Iterates(X, x, n, step)
    BY <1>1, <2>1, IterationExists
  <2> QED
    BY <2>2 DEF Iterates, X, x
<1>8. \A k \in 1..n : k \in 0..n /\ k - 1 \in 0..n /\ k # 0
  BY <1>1
<1>9. \A k \in 1..n : acc[k] = Round(acc[k - 1], seq[k])
  BY <1>4, <1>7, <1>8
<1>10. acc = Rounds(acc)
  <2> DEFINE g == [k \in 0..n |-> IF k = 0 THEN NothingDown ELSE Round(acc[k - 1], seq[k])]
  <2>1. \A k \in 0..n : k = 0 \/ k \in 1..n
    BY <1>1
  <2>2. \A k \in 0..n : g[k] = acc[k]
    BY <1>7, <1>8, <1>9, <2>1
  <2>3. acc = [k \in 0..n |-> acc[k]] /\ g = [k \in 0..n |-> g[k]]
    OBVIOUS
  <2>4. g = Rounds(acc)
    BY <1>3
  <2> HIDE DEF g
  <2>5. [k \in 0..n |-> acc[k]] = [k \in 0..n |-> g[k]]
    BY <2>2
  <2> QED
    BY <2>3, <2>4, <2>5
<1>11. loop = Rounds(loop)
  BY <1>10
<1> HIDE DEF loop
<1>12. loop[0] = NothingDown /\ \A k \in 1..n : loop[k] = Round(loop[k - 1], seq[k])
  <2> DEFINE g == [k \in 0..n |-> IF k = 0 THEN NothingDown ELSE Round(loop[k - 1], seq[k])]
  <2>1. loop = g
    BY <1>3, <1>11
  <2>2. g[0] = NothingDown /\ \A k \in 1..n : g[k] = Round(loop[k - 1], seq[k])
    BY <1>1, <1>8
  <2> HIDE DEF g
  <2> QED
    BY <2>1, <2>2
<1>13. Alike(loop, acc, 0, n)
  <2>1. \A k \in 0..n : k # 0 => k \in 1..n
    BY <1>1
  <2> QED
    BY <1>7, <1>9, <1>12, <2>1 DEF Alike
<1>14. loop[n] = acc[n]
  <2>1. \A k \in 0..n : loop[k] = acc[k]
    BY <1>1, <1>13, SameIteration
  <2> QED
    BY <1>1, <2>1
<1> QED
  BY <1>2, <1>7, <1>9, <1>14 DEF n

\* When the first k runs of a list failed, and when they passed.
FailTimes(seq, k) == {rows[seq[i]].completed : i \in {j \in 1..k : Failed(seq[j])}}
PassTimes(seq, k) == {rows[seq[i]].completed : i \in {j \in 1..k : Passed(seq[j])}}

\* Runs in the order they finished, none of which failed when another passed.
Finishing(seq) ==
    /\ \A i \in 1..Len(seq) : Failed(seq[i]) \/ Passed(seq[i])
    /\ \A i, j \in 1..Len(seq) : i < j => rows[seq[i]].completed <= rows[seq[j]].completed
    /\ \A i, j \in 1..Len(seq) :
         Failed(seq[i]) /\ Passed(seq[j]) => rows[seq[i]].completed # rows[seq[j]].completed

\* The next run of such a list is not before the others.
LEMMA NextFinishes ==
    ASSUME TablesInv, NEW seq \in Seq(Ids), Finishing(seq), NEW k \in 1..Len(seq)
    PROVE  LET x == rows[seq[k]].completed
               F == FailTimes(seq, k - 1)
               P == PassTimes(seq, k - 1)
           IN  /\ x \in 1..MaxTime /\ F \in SUBSET (1..MaxTime) /\ P \in SUBSET (1..MaxTime)
               /\ \A y \in F \union P : y <= x
               /\ Failed(seq[k]) => /\ x \notin P /\ PassTimes(seq, k) = P
                                    /\ FailTimes(seq, k) = F \union {x}
               /\ Passed(seq[k]) => /\ x \notin F /\ FailTimes(seq, k) = F
                                    /\ PassTimes(seq, k) = P \union {x}
<1> DEFINE c == [i \in 1..Len(seq) |-> rows[seq[i]].completed]
           D == {i \in 1..Len(seq) : Failed(seq[i])}
           E == {i \in 1..Len(seq) : Passed(seq[i])}
           x == rows[seq[k]].completed
           F == FailTimes(seq, k - 1)
           P == PassTimes(seq, k - 1)
           G == FailTimes(seq, k)
           Q == PassTimes(seq, k)
<1>1. Len(seq) \in Nat /\ \A i \in 1..Len(seq) : seq[i] \in Ids
  BY LenProperties, ElementOfSeq
<1>2. \A i \in 1..Len(seq) : c[i] = rows[seq[i]].completed
  OBVIOUS
<1>3. \A i \in 1..Len(seq) : c[i] \in 1..MaxTime
  <2>1. ASSUME NEW i \in 1..Len(seq) PROVE rows[seq[i]].completed \in 1..MaxTime
    <3>1. rows[seq[i]] \in GoodRows /\ (Failed(seq[i]) \/ Passed(seq[i]))
      BY <1>1, RowsTyped DEF Finishing
    <3> QED
      BY <3>1, Bounds DEF GoodRows, RunRow, Failed, Passed, Failing
  <2> QED
    BY <1>2, <2>1
<1>4. /\ \A i \in 1..Len(seq) : i \in D \/ i \in E
      /\ \A i \in D : i \notin E /\ i \in 1..Len(seq)
      /\ \A i \in E : i \in 1..Len(seq)
      /\ \A i, j \in 1..Len(seq) : i < j => c[i] <= c[j]
      /\ \A i \in D, j \in E : c[i] # c[j]
  BY <1>2 DEF Finishing, Failed, Passed, Failing
<1>5. \A i \in 1..Len(seq) : (i \in D <=> Failed(seq[i])) /\ (i \in E <=> Passed(seq[i]))
  OBVIOUS
<1>6. /\ k \in 1..Len(seq) /\ k \in Nat /\ k - 1 \in Nat /\ x = c[k]
      /\ \A i \in 1..k : i \in 1..Len(seq) /\ (i \in 1..(k - 1) \/ i = k)
      /\ \A i \in 1..(k - 1) : i \in 1..k /\ i < k /\ i \in 1..Len(seq)
  BY <1>1
<1>7. /\ \A y : y \in F <=> \E i \in 1..(k - 1) : i \in D /\ y = c[i]
      /\ \A y : y \in P <=> \E i \in 1..(k - 1) : i \in E /\ y = c[i]
      /\ \A y : y \in G <=> \E i \in 1..k : i \in D /\ y = c[i]
      /\ \A y : y \in Q <=> \E i \in 1..k : i \in E /\ y = c[i]
  <2> HIDE DEF c, D, E
  <2> QED
    BY <1>2, <1>5, <1>6 DEF FailTimes, PassTimes
<1> HIDE DEF c, D, E, x, F, P, G, Q
<1>8. x \in 1..MaxTime /\ F \in SUBSET (1..MaxTime) /\ P \in SUBSET (1..MaxTime)
  BY <1>3, <1>6, <1>7
<1>9. \A y \in F \union P : y <= x
  BY <1>4, <1>6, <1>7
<1>10. ASSUME k \in D PROVE x \notin P /\ Q = P /\ G = F \union {x}
  <2>1. x \notin P
    BY <1>4, <1>6, <1>7, <1>10
  <2>2. \A y : y \in Q <=> y \in P
    BY <1>4, <1>6, <1>7, <1>10
  <2>3. \A y : y \in G <=> y \in F \/ y = x
    BY <1>4, <1>6, <1>7, <1>10
  <2> QED
    BY <2>1, <2>2, <2>3
<1>11. ASSUME k \in E PROVE x \notin F /\ G = F /\ Q = P \union {x}
  <2>1. x \notin F
    BY <1>4, <1>6, <1>7, <1>11
  <2>2. \A y : y \in G <=> y \in F
    BY <1>4, <1>6, <1>7, <1>11
  <2>3. \A y : y \in Q <=> y \in P \/ y = x
    BY <1>4, <1>6, <1>7, <1>11
  <2> QED
    BY <2>1, <2>2, <2>3
<1> QED
  BY <1>5, <1>8, <1>9, <1>10, <1>11 DEF x, F, P, G, Q

\* After any number of rounds the loop has counted the runs so far: it has so before the
\* first, and then after each.
LEMMA LoopCounts ==
    ASSUME TablesInv, NEW seq \in Seq(Ids), Finishing(seq)
    PROVE  Counted(RecoveryTimes(seq), FailTimes(seq, Len(seq)), PassTimes(seq, Len(seq)))
<1> DEFINE n == Len(seq)
<1>1. n \in Nat /\ \A k \in 1..n : seq[k] \in Ids
  BY LenProperties, ElementOfSeq
<1>2. PICK acc \in [0..n -> Account] :
             /\ RecoveryTimes(seq) = acc[n]
             /\ acc[0] = NothingDown
             /\ \A k \in 1..n : acc[k] = Round(acc[k - 1], seq[k])
  BY LoopRounds
<1>3. \A k \in 1..n : Failed(seq[k]) \/ Passed(seq[k])
  BY DEF Finishing
<1> DEFINE Right(k) == Counted(acc[k], FailTimes(seq, k), PassTimes(seq, k))
           Wrong    == {k \in 0..n : ~Right(k)}
<1>4. Right(0)
  <2>1. FailTimes(seq, 0) = {} /\ PassTimes(seq, 0) = {}
    BY DEF FailTimes, PassTimes
  <2>2. Outages({}, {}) = {}
    BY DEF Outages
  <2>3. Cardinality(Outages({}, {})) = 0
    BY <2>2, FS_EmptySet
  <2>4. Total(Lengths({}, {})) = 0
    <3> DEFINE a == Lengths({}, {})
               none == {}
    <3>0. none \in SUBSET (1..MaxTime) /\ none = {}
      OBVIOUS
    <3> HIDE DEF none
    <3>1. /\ Lengths(none, none) \in Seq(Int) /\ Len(Lengths(none, none)) = MaxTime
          /\ \A t \in 1..MaxTime : Lengths(none, none)[t] =
               IF t \in Outages(none, none) THEN EndOf(t, none) - t ELSE 0
      BY <3>0, LengthsAre
    <3>2. a \in Seq(Int) /\ \A t \in 1..Len(a) : a[t] = 0
      BY <2>2, <3>0, <3>1
    <3> HIDE DEF a
    <3>3. Total(a) = 0
      BY <3>2, TotalOfZeros
    <3> QED
      BY <3>3 DEF a
  <2>5. Counted(NothingDown, {}, {})
    BY <2>3, <2>4 DEF Counted, NothingDown
  <2> QED
    BY <1>2, <2>1, <2>5
<1> HIDE DEF n
<1>5. ASSUME NEW k \in 1..n, Right(k - 1) PROVE Right(k)
  <2> DEFINE i == seq[k]
             x == rows[i].completed
             F == FailTimes(seq, k - 1)
             P == PassTimes(seq, k - 1)
             old == acc[k - 1]
             new == Round(old, i)
  <2>1. /\ x \in 1..MaxTime /\ F \in SUBSET (1..MaxTime) /\ P \in SUBSET (1..MaxTime)
        /\ \A y \in F \union P : y <= x
        /\ Failed(i) => /\ x \notin P /\ PassTimes(seq, k) = P
                        /\ FailTimes(seq, k) = F \union {x}
        /\ Passed(i) => /\ x \notin F /\ FailTimes(seq, k) = F
                        /\ PassTimes(seq, k) = P \union {x}
    BY NextFinishes DEF n
  <2>2. old \in Account /\ i \in Ids /\ acc[k] = new /\ (Failed(i) \/ Passed(i))
    BY <1>1, <1>2, <1>3
  <2>3. Counted(old, F, P)
    BY <1>5
  <2>4. /\ Failed(i) => /\ new.total = old.total /\ new.recoveries = old.recoveries
                        /\ new.down = IF old.down = 0 THEN x ELSE old.down
        /\ Passed(i) =>
             /\ new.down = 0
             /\ old.down = 0 => new.total = old.total /\ new.recoveries = old.recoveries
             /\ old.down # 0 => /\ new.total = old.total + x - old.down
                                /\ new.recoveries = old.recoveries + 1
    BY <2>2, RoundIs
  <2> HIDE DEF i, x, F, P, old, new
  <2>5. CASE Failed(i)
    <3>1. Counted(new, F \union {x}, P)
      BY <2>1, <2>3, <2>4, <2>5, FailureCounted
    <3> QED
      BY <2>1, <2>2, <2>5, <3>1
  <2>6. CASE Passed(i)
    <3>1. Counted(new, F, P \union {x})
      BY <2>1, <2>3, <2>4, <2>6, PassCounted
    <3> QED
      BY <2>1, <2>2, <2>6, <3>1
  <2> QED
    BY <2>2, <2>5, <2>6
<1>6. Wrong \in SUBSET Nat /\ \A k : k \in Wrong <=> k \in 0..n /\ ~Right(k)
  OBVIOUS
<1> HIDE DEF Wrong
<1>7. ASSUME Wrong # {} PROVE FALSE
  <2>1. PICK k \in Wrong : \A j \in Wrong : k <= j
    BY <1>6, <1>7, LeastNumber
  <2>2. k \in 0..n /\ k # 0 /\ ~Right(k)
    BY <1>4, <1>6, <2>1
  <2>3. k \in 1..n /\ k - 1 \in 0..n /\ ~(k <= k - 1)
    BY <1>1, <2>2
  <2>4. Right(k - 1)
    BY <1>6, <2>1, <2>3
  <2> QED
    BY <1>5, <2>2, <2>3, <2>4
<1>8. Right(n)
  BY <1>1, <1>6, <1>7
<1> QED
  BY <1>2, <1>8 DEF n

\* Sets with the same elements are the same.
LEMMA SameElements == ASSUME NEW A, NEW B, \A y : y \in A <=> y \in B PROVE A = B
OBVIOUS

\* meanTimeToRecovery adds up each outage of a pipeline once, from its first failure to
\* the next success, in whatever order runs that finished together are visited, as long
\* as none of them failed and another passed; for any number of runs.
THEOREM RecoveryIsPerOutage == Spec => []RecoveryTimeIsPerOutage
<1>1. ASSUME TablesInv, NEW span \in Spans, NEW p \in Pipelines
      PROVE  LET S    == InsightRuns(span).current
                 mine == {i \in S : rows[i].pipeline = p}
                 tied == \E i, j \in mine : Failed(i) /\ Passed(j) /\ rows[i].completed = rows[j].completed
             IN  ~tied => \A order \in FinishOrders(S, p) :
                     LET t == RecoveryTimes(order)
                     IN  [total |-> t.total, recoveries |-> t.recoveries] = RecoveriesByDefinition(S, p)
  <2> DEFINE S    == InsightRuns(span).current
             mine == {i \in S : rows[i].pipeline = p}
             tied == \E i, j \in mine : Failed(i) /\ Passed(j) /\ rows[i].completed = rows[j].completed
             T    == {i \in S : rows[i].pipeline = p /\ (Passed(i) \/ Failed(i))}
             failures == {rows[i].completed : i \in {j \in mine : Failed(j)}}
             passes   == {rows[i].completed : i \in {j \in mine : Passed(j)}}
  <2>1. S \in SUBSET Ids
    BY DEF InsightRuns, StartedIn
  <2> HIDE DEF S
  <2>2. /\ T \in SUBSET Ids
        /\ \A i : i \in T <=> i \in mine /\ (Failed(i) \/ Passed(i))
    BY <2>1
  <2>3. IsFiniteSet(T)
    <3> HIDE DEF T
    <3> QED
      BY <1>1, <2>2, RowTimes, FS_Subset
  <2>4. RecoveriesByDefinition(S, p)
          = [total |-> Total(Lengths(failures, passes)),
             recoveries |-> Cardinality(Outages(failures, passes))]
    BY Zenon DEF RecoveriesByDefinition, Lengths
  <2>5. ASSUME ~tied, NEW seq \in FinishOrders(S, p)
        PROVE  [total |-> RecoveryTimes(seq).total, recoveries |-> RecoveryTimes(seq).recoveries]
                 = RecoveriesByDefinition(S, p)
    <3>1. /\ seq \in SetToSeqs(T)
          /\ \A a, b \in DOMAIN seq : a < b => rows[seq[a]].completed <= rows[seq[b]].completed
      BY <2>5 DEF FinishOrders
    <3>2. \A i, j \in mine : Failed(i) /\ Passed(j) => rows[i].completed # rows[j].completed
      BY <2>5
    <3>3. \A y : y \in failures <=> \E i \in mine : Failed(i) /\ y = rows[i].completed
      OBVIOUS
    <3>4. \A y : y \in passes <=> \E i \in mine : Passed(i) /\ y = rows[i].completed
      OBVIOUS
    <3> HIDE DEF T, mine, tied, failures, passes
    <3>5. /\ seq \in Seq(T) /\ DOMAIN seq = 1..Len(seq) /\ Len(seq) \in Nat
          /\ \A k \in 1..Len(seq) : seq[k] \in T
          /\ \A i \in T : \E k \in 1..Len(seq) : seq[k] = i
      BY <2>3, <3>1, ListsEach
    <3>6. seq \in Seq(Ids)
      BY <2>2, <3>5
    <3>7. Finishing(seq)
      BY <2>2, <3>1, <3>2, <3>5 DEF Finishing
    <3>8. FailTimes(seq, Len(seq)) = failures
      <4>1. \A y : y \in FailTimes(seq, Len(seq)) <=> \E k \in 1..Len(seq) : Failed(seq[k]) /\ y = rows[seq[k]].completed
        BY DEF FailTimes
      <4>2. \A y : y \in FailTimes(seq, Len(seq)) <=> y \in failures
        BY <2>2, <3>3, <3>5, <4>1
      <4> QED
        BY <4>2, SameElements
    <3>9. PassTimes(seq, Len(seq)) = passes
      <4>1. \A y : y \in PassTimes(seq, Len(seq)) <=> \E k \in 1..Len(seq) : Passed(seq[k]) /\ y = rows[seq[k]].completed
        BY DEF PassTimes
      <4>2. \A y : y \in PassTimes(seq, Len(seq)) <=> y \in passes
        BY <2>2, <3>4, <3>5, <4>1
      <4> QED
        BY <4>2, SameElements
    <3>10. /\ RecoveryTimes(seq).total = Total(Lengths(failures, passes))
           /\ RecoveryTimes(seq).recoveries = Cardinality(Outages(failures, passes))
      <4>1. Counted(RecoveryTimes(seq), failures, passes)
        BY <1>1, <3>6, <3>7, <3>8, <3>9, LoopCounts
      <4> QED
        BY <4>1 DEF Counted
    <3> QED
      BY <2>4, <3>10, Zenon
  <2> QED
    BY <2>5 DEF S
<1>2. TablesInv => RecoveryTimeIsPerOutage
  BY <1>1 DEF RecoveryTimeIsPerOutage
<1> QED
  BY <1>2, TablesAlways, PTL
=============================================================================
