------------------------------ MODULE PollProofs ------------------------------
(***************************************************************************)
(* What polls store, proved for any number of runs, attempts, jobs and webhook *)
(* handlers and any page size: an answer 304 loses nothing, and polls alone    *)
(* reopen no completed run.  Both rest on the order in which the forge says    *)
(* things of a run, and on there being one poll at a time: always so for       *)
(* GitHub, and for Forgejo as long as no push delivery starts another.         *)
(***************************************************************************)
EXTENDS IngestionProofs

USE DEF Runs, Attempts, Statuses, Conclusions, Phases, OrNone

\* What is said of a run with an attempt and a status is not later than entry m.
Past(attempt, status, m) ==
    \/ attempt < m.attempt
    \/ attempt = m.attempt /\ (status = "completed" => m.status = "completed")

Behind(listing) == \A r \in Runs : Past(listing[r].attempt, listing[r].status, forge[r])

\* The forge creates runs in the order of their numbers.
CreatedInOrder == \A q, r \in Runs : q < r /\ forge[q].attempt = 0 => forge[r].attempt = 0

\* The saved page is one the forge has shown, and so is the one a poll has in hand.
PagesBehind ==
    /\ etag # NoETag => Behind(etag)
    /\ \A p \in Pollers : Behind(poll[p].listing)

\* The rows no handler touched say nothing later than the forge, or than the page
\* a poll has in hand.
RowsBehind ==
    /\ \A r \in Runs \ touched : Past(runs[r].started, runs[r].status, forge[r])
    /\ \A p \in Pollers : poll[p].pc \in {"fetch", "store"} =>
         \A r \in OnPage(poll[p].listing) \ touched :
            Past(runs[r].started, runs[r].status, poll[p].listing[r])

\* A handler's run is touched, and a poll's writer writes a run of its page as listed.
WritersKnown ==
    /\ \A h \in Handlers : writer[h].pc # "idle" => writer[h].run \in touched
    /\ \A p \in Pollers : writer[p].pc # "idle" =>
         /\ poll[p].pc = "store" /\ writer[p].run \in poll[p].todo
         /\ writer[p].row = RowOf(poll[p].listing[writer[p].run])

\* The saved ETag is the one a poll sent, and not that of the page it was answered.
ETagKnown ==
    \A p \in Pollers :
        /\ poll[p].pc \in {"states", "list"} => poll[p].etag = etag
        /\ poll[p].pc \in {"fetch", "store"} => etag # Page(forge)

\* Where a writer is that has written its run's row.
RunWritten == {"findJob", "writeJob", "writeSteps", "done"}

\* The runs of its page a poll is done with are stored as listed.
ListedStored ==
    \A p \in Pollers : poll[p].pc = "store" =>
        /\ poll[p].todo \subseteq OnPage(poll[p].listing)
        /\ \A r \in OnPage(poll[p].listing) \ touched :
             \/ r \notin poll[p].todo
             \/ writer[p].run = r /\ writer[p].pc \in RunWritten
             => runs[r] = RowOf(poll[p].listing[r])

\* There is one poll at a time: GitHub's, or Forgejo's when no push delivery starts another.
OnePoll == \A p, q \in Pollers : p = q

\* Of Forgejo no ETag is saved.
OnlyGitHubETags == ~Conditional => etag = NoETag

PollInv ==
    /\ OnlyGitHubETags
    /\ CreatedInOrder /\ PagesBehind /\ RowsBehind /\ WritersKnown
    /\ ETagKnown /\ ListedStored /\ NotModifiedIsSound

-----------------------------------------------------------------------------
(* The order in which the forge says things of a run *)

\* An entry of a listing has its type.
LEMMA EntryTyped ==
    ASSUME NEW f \in Listings, NEW r \in Runs
    PROVE  f[r] \in ListedRun /\ f[r].attempt \in Nat
BY RunDataAssumption DEF Listings, ListedRun

\* What is not later than an entry is not later than a later entry.
LEMMA PastLasts ==
    ASSUME NEW a \in Nat, NEW s, NEW l \in ListedRun, NEW m \in ListedRun,
           Past(a, s, l), Past(l.attempt, l.status, m)
    PROVE  Past(a, s, m)
<1>1. l.attempt \in Nat /\ m.attempt \in Nat
  BY DEF ListedRun
<1> QED
  BY <1>1 DEF Past

\* A step of the forge leaves the listing or replaces one entry by a later one, and
\* shows a new run only after all earlier ones.
LEMMA ForgeGoesOn ==
    ASSUME TypeInv, ForgeStep, forge' # forge
    PROVE  \E r \in Runs, l \in ListedRun :
             /\ forge' = [forge EXCEPT ![r] = l]
             /\ Past(forge[r].attempt, forge[r].status, l)
             /\ ~Past(l.attempt, l.status, forge[r])
             /\ l.attempt > 0
             /\ forge[r].attempt = 0 => \A q \in Runs : q < r => forge[q].attempt > 0
<1>1. forge \in Listings /\ forge' \in Listings
  BY TypeStep DEF TypeInv, TypeOK, Next
<1>2. ASSUME NEW r \in Runs, StartRun(r) \/ Rerun(r)
      PROVE  /\ forge' = [forge EXCEPT ![r] = forge'[r]]
             /\ forge'[r].attempt = forge[r].attempt + 1
  BY <1>1, <1>2 DEF StartRun, Rerun, BeginAttempt, Listings
<1>3. ASSUME NEW r \in Runs, StartRun(r) \/ Rerun(r)
      PROVE  forge[r].attempt = 0 => \A q \in Runs : q < r => forge[q].attempt > 0
  BY <1>3 DEF StartRun, Rerun, TypeInv, NotStarted, UnlistedRun
<1>4. ASSUME NEW r \in Runs, FinishRun(r)
      PROVE  /\ forge' = [forge EXCEPT ![r] = forge'[r]]
             /\ forge'[r].attempt = forge[r].attempt /\ forge'[r].status = "completed"
             /\ forge[r].status # "completed" /\ forge[r].attempt # 0
  BY <1>1, <1>4 DEF FinishRun, Listings, TypeInv, NotStarted, UnlistedRun
<1>5. PICK r \in Runs : StartRun(r) \/ Rerun(r) \/ FinishRun(r)
  BY DEF ForgeStep, ForgeNext, FinishJob, Upgrade
<1>6. /\ forge[r].attempt \in Nat /\ forge'[r].attempt \in Nat
      /\ forge'[r] \in ListedRun
  BY <1>1, EntryTyped
<1>7. /\ Past(forge[r].attempt, forge[r].status, forge'[r])
      /\ ~Past(forge'[r].attempt, forge'[r].status, forge[r])
      /\ forge'[r].attempt > 0
  BY <1>2, <1>4, <1>5, <1>6 DEF Past
<1> QED
  BY <1>2, <1>3, <1>4, <1>5, <1>6, <1>7

\* Runs go on being created in order.
LEMMA OrderKept ==
    ASSUME TypeInv, ForgeStep, CreatedInOrder
    PROVE  CreatedInOrder'
<1>1. forge \in Listings
  BY DEF TypeInv, TypeOK
<1>2. CASE forge' = forge
  BY <1>2 DEF CreatedInOrder
<1>3. CASE forge' # forge
  <2>1. PICK r \in Runs, l \in ListedRun :
             /\ forge' = [forge EXCEPT ![r] = l]
             /\ l.attempt > 0
             /\ forge[r].attempt = 0 => \A q \in Runs : q < r => forge[q].attempt > 0
    BY <1>3, ForgeGoesOn
  <2>2. \A q \in Runs : forge'[q] = IF q = r THEN l ELSE forge[q]
    BY <1>1, <2>1 DEF Listings
  <2>3. l.attempt # 0 /\ \A q \in Runs : forge[q].attempt > 0 <=> forge[q].attempt # 0
    BY <1>1, <2>1, EntryTyped
  <2> QED
    BY <2>1, <2>2, <2>3 DEF CreatedInOrder
<1> QED
  BY <1>2, <1>3

\* What the forge once said stays behind it.
LEMMA PastKept ==
    ASSUME TypeInv, ForgeStep, NEW a \in Nat, NEW s, NEW q \in Runs, Past(a, s, forge[q])
    PROVE  Past(a, s, forge'[q])
<1>1. forge \in Listings
  BY DEF TypeInv, TypeOK
<1>2. CASE forge' # forge
  <2>1. PICK r \in Runs, l \in ListedRun :
             /\ forge' = [forge EXCEPT ![r] = l]
             /\ Past(forge[r].attempt, forge[r].status, l)
    BY <1>2, ForgeGoesOn
  <2>2. forge'[q] = IF q = r THEN l ELSE forge[q]
    BY <1>1, <2>1 DEF Listings
  <2> QED
    BY <1>1, <2>1, <2>2, EntryTyped, PastLasts
<1> QED
  BY <1>2

\* Once the forge shows another page than it did, it never shows that page again:
\* an ETag that did not match goes on not matching.
LEMMA PagesDoNotReturn ==
    ASSUME TypeInv, ForgeStep, CreatedInOrder,
           NEW e \in Listings \union {NoETag}, e # NoETag => Behind(e), e # Page(forge)
    PROVE  e # Page(forge)'
<1>1. forge \in Listings
  BY DEF TypeInv, TypeOK
<1>2. CASE forge' = forge
  BY <1>2 DEF Page, OnPage
<1>3. CASE e = NoETag
  BY <1>3, TypeStep, PageTyped, PollersAssumption DEF TypeInv, TypeOK, Next
<1>4. CASE forge' # forge /\ e # NoETag
  <2>1. PICK r \in Runs, l \in ListedRun :
             /\ forge' = [forge EXCEPT ![r] = l]
             /\ ~Past(l.attempt, l.status, forge[r])
             /\ l.attempt > 0
             /\ forge[r].attempt = 0 => \A q \in Runs : q < r => forge[q].attempt > 0
    BY <1>4, ForgeGoesOn
  <2>2. \A q \in Runs : forge'[q] = IF q = r THEN l ELSE forge[q]
    BY <1>1, <2>1 DEF Listings
  <2>3. CASE r \in OnPage(forge)'
    <3>1. Page(forge)'[r] = l
      BY <2>2, <2>3 DEF Page
    <3>2. Past(e[r].attempt, e[r].status, forge[r])
      BY <1>4 DEF Behind
    <3> QED
      BY <2>1, <3>1, <3>2
  <2>4. CASE r \notin OnPage(forge)'
    <3>1. forge[r].attempt # 0
      <4> SUFFICES ASSUME forge[r].attempt = 0 PROVE r \in OnPage(forge)'
        BY <2>4
      <4>1. ASSUME NEW q \in Runs, q >= r + PageSize PROVE forge'[q].attempt = 0
        <5>1. r < q /\ q # r
          BY <4>1, RunDataAssumption
        <5> QED
          BY <2>2, <5>1 DEF CreatedInOrder
      <4> QED
        BY <2>1, <2>2, <4>1 DEF OnPage
    <3>2. forge[r].attempt > 0 /\ l.attempt # 0
      BY <1>1, <2>1, <3>1, EntryTyped
    <3>3. OnPage(forge)' = OnPage(forge)
      BY <2>1, <2>2, <3>1, <3>2 DEF OnPage
    <3>4. Page(forge)' = Page(forge)
      BY <2>2, <2>4, <3>3 DEF Page
    <3> QED
      BY <3>4
  <2> QED
    BY <2>3, <2>4
<1> QED
  BY <1>2, <1>3, <1>4

\* A page lists the runs on it, and lists them as the forge does.
LEMMA PageLists ==
    ASSUME NEW f \in Listings
    PROVE  /\ OnPage(Page(f)) = OnPage(f)
           /\ \A r \in OnPage(f) : Page(f)[r] = f[r]
<1>1. \A r \in Runs : Page(f)[r] = IF r \in OnPage(f) THEN f[r] ELSE UnlistedRun
  BY DEF Page
<1>2. \A r \in OnPage(f) : r \in Runs /\ f[r].attempt > 0
  BY DEF OnPage
<1>3. UnlistedRun.attempt = 0
  BY DEF UnlistedRun
<1>4. ASSUME NEW r \in OnPage(f) PROVE r \in OnPage(Page(f))
  BY <1>1, <1>2, <1>3, <1>4 DEF OnPage
<1>5. ASSUME NEW r \in OnPage(Page(f)) PROVE r \in OnPage(f)
  <2>1. r \in Runs /\ Page(f)[r].attempt > 0
    BY <1>5 DEF OnPage
  <2> QED
    BY <1>1, <1>3, <2>1
<1> QED
  BY <1>1, <1>2, <1>4, <1>5

-----------------------------------------------------------------------------
(* No step of the ingestion undoes PollInv, when there is one poll at a time *)

\* At first nothing is saved, listed or written.
LEMMA PollInit == Init => PollInv
<1> SUFFICES ASSUME Init PROVE PollInv
  OBVIOUS
<1> USE DEF Init, ForgeInit, StoreInit, WebhookInit, ReconcilerInit
<1>1. OnlyGitHubETags /\ CreatedInOrder
  BY DEF OnlyGitHubETags, CreatedInOrder, UnlistedRun
<1>2. PagesBehind
  BY DEF PagesBehind, Behind, Past, IdlePoll, UnlistedRun
<1>3. RowsBehind
  BY DEF RowsBehind, Past, IdlePoll, UnlistedRun, NoRunRow
<1>4. WritersKnown
  BY HandlersAssumption, PollersAssumption DEF WritersKnown, IdleWriter
<1>5. ETagKnown /\ ListedStored
  BY DEF ETagKnown, ListedStored, IdlePoll
<1>6. NotModifiedIsSound
  <2>1. Page(forge) # NoETag
    BY TypeInit, PageTyped, PollersAssumption DEF TypeInv, TypeOK
  <2> QED
    BY <2>1 DEF NotModifiedIsSound
<1> QED
  BY <1>1, <1>2, <1>3, <1>4, <1>5, <1>6 DEF PollInv

\* The forge goes on: what is stored stays behind it, and a page that is no longer
\* shown is not shown again.
LEMMA ForgePollInv ==
    ASSUME TypeInv, PollInv, ForgeStep
    PROVE  PollInv'
<1>1. /\ forge \in Listings /\ etag \in Listings \union {NoETag}
      /\ poll \in [Pollers -> PollState] /\ runs \in [Runs -> RunRow]
  BY DEF TypeInv, TypeOK
<1>2. UNCHANGED <<runs, writer, touched, etag, poll>>
  BY DEF ForgeStep, storeVars, webhookVars
<1>3. ASSUME NEW l \in Listings, Behind(l) PROVE Behind(l)'
  BY <1>3, PastKept, EntryTyped DEF Behind
<1>4. OnlyGitHubETags' /\ CreatedInOrder' /\ WritersKnown' /\ ListedStored'
  BY <1>2, OrderKept DEF PollInv, OnlyGitHubETags, WritersKnown, ListedStored, OnPage
<1>5. PagesBehind'
  <2>1. etag' # NoETag => Behind(etag)'
    <3> SUFFICES ASSUME etag # NoETag PROVE Behind(etag)'
      BY <1>2
    <3>1. etag \in Listings /\ \A r \in Runs : Past(etag[r].attempt, etag[r].status, forge[r])
      BY <1>1 DEF PollInv, PagesBehind, Behind
    <3> QED
      BY <1>2, <3>1, PastKept, EntryTyped DEF Behind
  <2>2. ASSUME NEW p \in Pollers PROVE Behind(poll[p].listing)'
    <3>1. /\ poll[p].listing \in Listings
          /\ \A r \in Runs : Past(poll[p].listing[r].attempt, poll[p].listing[r].status, forge[r])
      BY <1>1 DEF PollInv, PagesBehind, Behind, PollState
    <3> QED
      BY <1>2, <3>1, PastKept, EntryTyped DEF Behind
  <2> QED
    BY <2>1, <2>2 DEF PagesBehind
<1>6. RowsBehind'
  <2>1. \A r \in Runs : runs[r].started \in Nat
    BY <1>1 DEF RunRow
  <2>2. \A r \in Runs \ touched : Past(runs[r].started, runs[r].status, forge'[r])
    BY <2>1, PastKept DEF PollInv, RowsBehind
  <2> QED
    BY <1>2, <2>2 DEF PollInv, RowsBehind, OnPage
<1>7. etag # Page(forge) => etag # Page(forge)'
  BY <1>1, PagesDoNotReturn DEF PollInv, PagesBehind
<1>8. ETagKnown'
  BY <1>2, <1>7 DEF PollInv, ETagKnown
<1>9. NotModifiedIsSound'
  <2> SUFFICES ASSUME etag = Page(forge)', NEW r \in OnPage(forge)' \ touched
               PROVE  runs[r] = RowOf(forge'[r])
    BY <1>2 DEF NotModifiedIsSound
  <2>1. forge' \in Listings
    BY TypeStep DEF TypeInv, TypeOK, Next
  <2>2. Page(forge) = Page(forge)' /\ etag = Page(forge)
    BY <1>7
  <2>3. OnPage(forge') = OnPage(forge) /\ OnPage(forge)' = OnPage(forge')
    <3>1. OnPage(Page(forge)) = OnPage(forge) /\ OnPage(Page(forge')) = OnPage(forge')
      BY <1>1, <2>1, PageLists
    <3>2. Page(forge)' = Page(forge') /\ OnPage(forge)' = OnPage(forge')
      BY DEF Page, OnPage
    <3> QED
      BY <2>2, <3>1, <3>2
  <2>4. forge'[r] = forge[r]
    <3>1. Page(forge)' = Page(forge')
      BY DEF Page, OnPage
    <3>2. Page(forge)[r] = forge[r] /\ Page(forge')[r] = forge'[r]
      BY <1>1, <2>1, <2>3, PageLists
    <3> QED
      BY <2>2, <3>1, <3>2
  <2> QED
    BY <2>2, <2>3, <2>4 DEF PollInv, NotModifiedIsSound
<1> QED
  BY <1>4, <1>5, <1>6, <1>8, <1>9 DEF PollInv

\* A statement of a writer leaves the runs table, or writes the writer's row to its
\* run's; the writer goes on with the same run and row.
LEMMA WriterGoesOn ==
    ASSUME TypeInv, NEW w \in Writers, WriterStepOf(w) \/ StatementFailsFor(w)
    PROVE  /\ writer[w].pc # "idle" /\ writer'[w].pc # "idle"
           /\ writer'[w].run = writer[w].run /\ writer'[w].row = writer[w].row
           /\ \A v \in Writers \ {w} : writer'[v] = writer[v]
           /\ \/ runs' = runs /\ (writer'[w].pc \in RunWritten => writer[w].pc \in RunWritten)
              \/ WriteRun(w)
           /\ UNCHANGED <<forge, touched, etag, poll>>
<1> DEFINE Moves(next) == writer' = [writer EXCEPT ![w] = next]
           Kept(next) == next.run = writer[w].run /\ next.row = writer[w].row
<1>1. writer \in [Writers -> WriterState] /\ writer[w] \in WriterState
  BY DEF TypeInv, TypeOK
<1>2. UNCHANGED <<forge, touched, etag, poll>>
  BY DEF WriterStepOf, StatementFailsFor, forgeVars, webhookVars
<1>3. CASE FindRun(w)
  <2>1. Moves([writer[w] EXCEPT !.pc = "writeRun", !.found = runs[writer[w].run] # NoRunRow])
    BY <1>1, <1>3 DEF FindRun
  <2> QED
    BY <1>1, <1>2, <1>3, <2>1 DEF FindRun, WriterState, RunWritten
<1>4. CASE WriteRun(w)
  <2>1. Moves([writer[w] EXCEPT !.pc = NextJob(writer[w].todo), !.found = FALSE])
    BY <1>1, <1>4 DEF WriteRun
  <2>2. writer[w].pc # "idle"
    BY <1>4 DEF WriteRun
  <2> QED
    BY <1>1, <1>2, <1>4, <2>1, <2>2 DEF WriterState, NextJob
<1>5. CASE RunInsertFails(w) \/ JobInsertFails(w) \/ StatementFails(w)
  <2>1. Moves([writer[w] EXCEPT !.pc = "failed"])
    BY <1>1, <1>5 DEF RunInsertFails, JobInsertFails, StatementFails
  <2>2. runs' = runs /\ writer[w].pc # "idle"
    BY <1>5 DEF RunInsertFails, JobInsertFails, StatementFails, Writing
  <2> QED
    BY <1>1, <1>2, <2>1, <2>2 DEF WriterState, RunWritten
<1>6. CASE FindJob(w)
  <2> DEFINE next(j) == [writer[w] EXCEPT !.pc = "writeJob", !.job = j,
                                          !.found = jobs[<<writer[w].run, writer[w].attempt, j>>] # NoJobRow]
  <2>1. PICK j \in JobsLeft(writer[w].todo) : Moves(next(j))
    BY <1>1, <1>6 DEF FindJob, WriterState
  <2> QED
    BY <1>1, <1>2, <1>6, <2>1 DEF FindJob, WriterState, RunWritten
<1>7. CASE WriteJob(w)
  <2>1. Moves([writer[w] EXCEPT !.pc = "writeSteps", !.found = FALSE])
    BY <1>1, <1>7 DEF WriteJob
  <2> QED
    BY <1>1, <1>2, <1>7, <2>1 DEF WriteJob, WriterState, RunWritten
<1>8. CASE WriteSteps(w)
  <2> DEFINE left == [writer[w].todo EXCEPT ![writer[w].job] = "none"]
  <2>1. Moves([writer[w] EXCEPT !.pc = NextJob(left), !.todo = left])
    BY <1>1, <1>8 DEF WriteSteps
  <2>2. writer[w].pc \in RunWritten /\ writer[w].pc # "idle" /\ runs' = runs
    BY <1>8 DEF WriteSteps, RunWritten
  <2>3. NextJob(left) # "idle"
    BY DEF NextJob
  <2> HIDE DEF left
  <2> QED
    BY <1>1, <1>2, <2>1, <2>2, <2>3 DEF WriterState
<1> QED
  BY <1>3, <1>4, <1>5, <1>6, <1>7, <1>8 DEF WriterStepOf, StatementFailsFor, WriterStep

\* UpsertRun of a run as listed stores it as listed, whatever was stored.
LEMMA WrittenAsListed ==
    ASSUME TypeInv, NEW w \in Writers, WriteRun(w), NEW l \in ListedRun,
           writer[w].row = RowOf(l)
    PROVE  runs' = [runs EXCEPT ![writer[w].run] = RowOf(l)]
<1>1. writer[w].run \in Runs /\ runs \in [Runs -> RunRow]
  BY DEF TypeInv, TypeOK, WritersHaveRuns, Busy, WriteRun
<1>2. \A old : UpdatedRun(old, RowOf(l)) = RowOf(l)
  <2> DEFINE row == RowOf(l)
  <2>1. row.meta = TRUE /\ row \in RunRow
    BY DEF RowOf, ListedRun, RunRow
  <2> HIDE DEF row
  <2>2. \A old : UpdatedRun(old, row) = [row EXCEPT !.meta = TRUE]
    BY <2>1 DEF UpdatedRun
  <2>3. [row EXCEPT !.meta = TRUE] = row
    BY <2>1 DEF RunRow
  <2> QED
    BY <2>2, <2>3 DEF row
<1>3. runs' = [runs EXCEPT ![writer[w].run] =
                 IF writer[w].found THEN UpdatedRun(runs[writer[w].run], RowOf(l)) ELSE RowOf(l)]
  BY <1>1 DEF WriteRun
<1> QED
  BY <1>1, <1>2, <1>3

\* A handler writes rows that are touched; a poll writes its page's as listed, and only
\* when its page is not the one the saved ETag is of.
LEMMA WriterPollInv ==
    ASSUME OnePoll, TypeInv, PollInv, NEW w \in Writers, WriterStepOf(w) \/ StatementFailsFor(w)
    PROVE  PollInv'
<1> DEFINE now == writer[w]
<1>1. /\ now.pc # "idle" /\ writer'[w].pc # "idle"
      /\ writer'[w].run = now.run /\ writer'[w].row = now.row
      /\ \A v \in Writers \ {w} : writer'[v] = writer[v]
      /\ \/ runs' = runs /\ (writer'[w].pc \in RunWritten => now.pc \in RunWritten)
         \/ WriteRun(w)
      /\ UNCHANGED <<forge, touched, etag, poll>>
  BY WriterGoesOn
<1>2. /\ now.run \in Runs /\ runs \in [Runs -> RunRow] /\ forge \in Listings
      /\ poll \in [Pollers -> PollState]
      /\ \A p \in Pollers : poll[p].listing \in Listings
  BY <1>1 DEF TypeInv, TypeOK, WritersHaveRuns, Busy, PollState
<1>3. Page(forge)' = Page(forge) /\ OnPage(forge)' = OnPage(forge)
  BY <1>1 DEF Page, OnPage
<1>4. OnlyGitHubETags' /\ CreatedInOrder' /\ PagesBehind' /\ ETagKnown'
  <2>1. OnlyGitHubETags' /\ CreatedInOrder'
    BY <1>1 DEF PollInv, OnlyGitHubETags, CreatedInOrder
  <2>2. PagesBehind'
    BY <1>1 DEF PollInv, PagesBehind, Behind
  <2>3. ETagKnown'
    BY <1>1, <1>3 DEF PollInv, ETagKnown
  <2> QED
    BY <2>1, <2>2, <2>3
<1>5. WritersKnown'
  BY <1>1, HandlersAssumption, PollersAssumption DEF PollInv, WritersKnown
<1>6. \A r \in Runs : r # now.run => runs'[r] = runs[r]
  BY <1>1, <1>2 DEF WriteRun
<1>7. CASE w \in Handlers
  <2>1. now.run \in touched
    BY <1>1, <1>7 DEF PollInv, WritersKnown
  <2>2. \A p \in Pollers : writer'[p] = writer[p]
    BY <1>1, <1>7, ProcessesAssumption
  <2>3. \A r \in Runs \ touched : runs'[r] = runs[r]
    BY <1>6, <2>1
  <2>4. RowsBehind'
    BY <1>1, <2>3 DEF PollInv, RowsBehind, OnPage
  <2>5. ListedStored'
    BY <1>1, <2>2, <2>3 DEF PollInv, ListedStored, OnPage
  <2>6. NotModifiedIsSound'
    BY <1>1, <1>3, <2>3 DEF PollInv, NotModifiedIsSound, OnPage
  <2> QED
    BY <1>4, <1>5, <2>4, <2>5, <2>6 DEF PollInv
<1>8. CASE w \in Pollers
  <2> DEFINE listing == poll[w].listing
             l == listing[now.run]
  <2>1. \A p \in Pollers : p = w
    BY <1>8 DEF OnePoll
  <2>2. /\ poll[w].pc = "store" /\ now.run \in poll[w].todo /\ now.row = RowOf(l)
        /\ now.run \in OnPage(listing)
    BY <1>1, <1>8 DEF PollInv, WritersKnown, ListedStored
  <2>3. l \in ListedRun /\ l.attempt \in Nat
    BY <1>2, <1>8, EntryTyped
  <2>4. WriteRun(w) => runs' = [runs EXCEPT ![now.run] = RowOf(l)]
    BY <2>2, <2>3, WrittenAsListed
  <2>5. RowsBehind'
    <3>1. Past(l.attempt, l.status, l) /\ Past(l.attempt, l.status, forge[now.run])
      BY <1>2, <1>8, <2>3 DEF Past, PollInv, PagesBehind, Behind
    <3>2. WriteRun(w) => runs'[now.run].started = l.attempt /\ runs'[now.run].status = l.status
      <4>1. RowOf(l).started = l.attempt /\ RowOf(l).status = l.status
        BY DEF RowOf
      <4> HIDE DEF l
      <4> QED
        BY <1>2, <2>4, <4>1
    <3>3. \A r \in Runs \ touched : Past(runs'[r].started, runs'[r].status, forge[r])
      BY <1>1, <1>6, <3>1, <3>2 DEF PollInv, RowsBehind
    <3>4. \A r \in OnPage(listing) \ touched : Past(runs'[r].started, runs'[r].status, listing[r])
      BY <1>1, <1>6, <1>8, <2>2, <3>1, <3>2 DEF PollInv, RowsBehind, OnPage
    <3> QED
      BY <1>1, <2>1, <3>3, <3>4 DEF RowsBehind, OnPage
  <2>6. ListedStored'
    <3> SUFFICES ASSUME NEW r \in OnPage(listing) \ touched,
                        \/ r \notin poll[w].todo
                        \/ now.run = r /\ writer'[w].pc \in RunWritten
                 PROVE  runs'[r] = RowOf(listing[r])
      BY <1>1, <1>8, <2>1, <2>2 DEF PollInv, ListedStored, OnPage
    <3>1. r \in Runs
      BY DEF OnPage
    <3>2. CASE r = now.run /\ WriteRun(w)
      BY <1>2, <2>4, <3>2
    <3>3. CASE r # now.run
      BY <1>6, <1>8, <2>2, <3>1, <3>3 DEF PollInv, ListedStored
    <3>4. CASE r = now.run /\ ~WriteRun(w)
      BY <1>1, <1>8, <2>2, <3>4 DEF PollInv, ListedStored
    <3> QED
      BY <3>2, <3>3, <3>4
  <2>7. NotModifiedIsSound'
    BY <1>1, <1>3, <1>8, <2>2 DEF PollInv, ETagKnown, NotModifiedIsSound
  <2> QED
    BY <1>4, <1>5, <2>5, <2>6, <2>7 DEF PollInv
<1> QED
  BY <1>7, <1>8, ProcessesAssumption

\* A handler touches its run before it writes, and leaves its writer idle.
LEMMA HandlerPollInv ==
    ASSUME TypeInv, PollInv, NEW h \in Handlers, ReceiveBy(h) \/ AnswerBy(h)
    PROVE  PollInv'
<1>1. /\ UNCHANGED <<forge, runs, etag, poll>>
      /\ touched \subseteq touched'
      /\ \A w \in Writers \ {h} : writer'[w] = writer[w]
      /\ writer'[h].pc # "idle" => writer'[h].run \in touched'
  <2>1. writer \in [Writers -> WriterState] /\ h \in Writers
    BY HandlersAssumption DEF TypeInv, TypeOK
  <2>2. CASE Receive(h)
    <3>1. PICK m \in net : writer' = [writer EXCEPT ![h] = RequestOf(m)] /\ touched' = touched \union {m.run}
      BY <2>2 DEF Receive
    <3>2. RequestOf(m).run = m.run
      BY DEF RequestOf, WriteRequest
    <3> QED
      BY <2>1, <2>2, <3>1, <3>2 DEF Receive, ReceiveBy, AnswerBy, forgeVars, storeVars
  <2>3. CASE Accept(h) \/ Reject(h)
    <3>1. writer' = [writer EXCEPT ![h] = IdleWriter] /\ IdleWriter.pc = "idle"
      BY <2>3 DEF Accept, Reject, IdleWriter
    <3> QED
      BY <2>1, <2>3, <3>1 DEF Accept, Reject, ReceiveBy, AnswerBy, forgeVars, storeVars, webhookVars
  <2> QED
    BY <2>2, <2>3 DEF ReceiveBy, AnswerBy
<1>2. \A p \in Pollers : writer'[p] = writer[p]
  BY <1>1, ProcessesAssumption
<1>3. Page(forge)' = Page(forge) /\ OnPage(forge)' = OnPage(forge)
  BY <1>1 DEF Page, OnPage
<1>4. OnlyGitHubETags' /\ CreatedInOrder' /\ PagesBehind' /\ RowsBehind'
  BY <1>1 DEF PollInv, OnlyGitHubETags, CreatedInOrder, PagesBehind, RowsBehind, Behind, OnPage
<1>5. WritersKnown'
  BY <1>1, <1>2, ProcessesAssumption DEF PollInv, WritersKnown
<1>6. ETagKnown'
  BY <1>1, <1>3 DEF PollInv, ETagKnown
<1>7. ListedStored'
  BY <1>1, <1>2 DEF PollInv, ListedStored, OnPage
<1>8. NotModifiedIsSound'
  BY <1>1, <1>3 DEF PollInv, NotModifiedIsSound
<1> QED
  BY <1>4, <1>5, <1>6, <1>7, <1>8 DEF PollInv

\* What PollInv says of one poll, given its record and its writer.
GoodPoll(rec, wr) ==
    /\ Behind(rec.listing)
    /\ rec.pc \in {"fetch", "store"} =>
         /\ etag # Page(forge)
         /\ \A r \in OnPage(rec.listing) \ touched :
              Past(runs[r].started, runs[r].status, rec.listing[r])
    /\ wr.pc # "idle" => /\ rec.pc = "store" /\ wr.run \in rec.todo
                         /\ wr.row = RowOf(rec.listing[wr.run])
    /\ rec.pc \in {"states", "list"} => rec.etag = etag
    /\ rec.pc = "store" =>
         /\ rec.todo \subseteq OnPage(rec.listing)
         /\ \A r \in OnPage(rec.listing) \ touched :
              r \notin rec.todo \/ (wr.run = r /\ wr.pc \in RunWritten)
              => runs[r] = RowOf(rec.listing[r])

\* PollInv says so of every poll.
LEMMA GoodPolls ==
    ASSUME PollInv, NEW p \in Pollers
    PROVE  GoodPoll(poll[p], writer[p])
BY DEF PollInv, GoodPoll, PagesBehind, RowsBehind, WritersKnown, ETagKnown, ListedStored

\* A poll that is over is in order, whatever it was doing.
LEMMA IdleGood ==
    ASSUME forge \in Listings, NEW wr, wr.pc = "idle"
    PROVE  GoodPoll(IdlePoll, wr)
<1>1. \A r \in Runs : IdlePoll.listing[r].attempt = 0 /\ IdlePoll.listing[r].status = "none"
  BY DEF IdlePoll, UnlistedRun
<1>2. Behind(IdlePoll.listing)
  BY <1>1, EntryTyped DEF Behind, Past
<1>3. IdlePoll.pc = "idle"
  BY DEF IdlePoll
<1> QED
  BY <1>2, <1>3 DEF GoodPoll

\* The next jobs request, or the first run to store, begins with nothing written.
LEMMA FetchingGood ==
    ASSUME NEW rec \in PollState, NEW left, NEW wr, wr.pc = "idle",
           Behind(rec.listing), etag # Page(forge),
           \A r \in OnPage(rec.listing) \ touched :
              Past(runs[r].started, runs[r].status, rec.listing[r])
    PROVE  GoodPoll(Fetching(rec, left), wr)
<1> DEFINE next == Fetching(rec, left)
<1>1. next.listing = rec.listing /\ next.pc \in {"fetch", "store"}
  BY DEF Fetching, PollState
<1>2. next.pc = "store" => next.todo = OnPage(rec.listing)
  BY DEF Fetching, PollState
<1> HIDE DEF next
<1>3. GoodPoll(next, wr)
  BY <1>1, <1>2 DEF GoodPoll, RunWritten
<1> QED
  BY <1>3 DEF next

\* Until it saves an ETag, a step of a poll of GitHub is about its own record and
\* writer, and leaves them in order.
LEMMA OnePollGoesOn ==
    ASSUME OnePoll, TypeInv, PollInv, NEW p \in Pollers,
           PollStepOf(p) \/ PollFailsFor(p), ~PollSaveETag(p)
    PROVE  /\ GoodPoll(poll'[p], writer'[p])
           /\ UNCHANGED <<forge, runs, touched, etag>>
           /\ \A w \in Writers \ {p} : writer'[w] = writer[w]
<1> DEFINE now == poll[p]
           Done == /\ GoodPoll(poll'[p], writer'[p])
                   /\ UNCHANGED <<forge, runs, touched, etag>>
                   /\ \A w \in Writers \ {p} : writer'[w] = writer[w]
<1>1. /\ poll \in [Pollers -> PollState] /\ writer \in [Writers -> WriterState]
      /\ now \in PollState /\ p \in Writers /\ forge \in Listings
  BY PollersAssumption DEF TypeInv, TypeOK
<1>2. GoodPoll(now, writer[p])
  BY GoodPolls
<1>3. touched' = touched
  BY DEF PollStepOf, PollFailsFor, webhookVars
<1>4. CASE PollStart(p)
  <2> DEFINE next == [now EXCEPT !.pc = "states", !.etag = etag]
  <2>1. /\ poll' = [poll EXCEPT ![p] = next] /\ now.pc = "idle"
        /\ UNCHANGED <<forge, runs, etag, writer>>
    BY <1>1, <1>4 DEF PollStart, forgeVars, storeVars
  <2>2. next.pc = "states" /\ next.etag = etag /\ next.listing = now.listing
    BY <1>1 DEF PollState
  <2> HIDE DEF next
  <2>3. GoodPoll(next, writer[p])
    BY <1>2, <2>1, <2>2 DEF GoodPoll
  <2> QED
    BY <1>1, <1>3, <2>1, <2>3
<1>5. CASE PollRunStates(p)
  <2> DEFINE next == [now EXCEPT !.pc = "list", !.known = KnownCompleted]
  <2>1. /\ poll' = [poll EXCEPT ![p] = next] /\ now.pc = "states"
        /\ UNCHANGED <<forge, runs, etag, writer>>
    BY <1>1, <1>5 DEF PollRunStates, forgeVars, storeVars
  <2>2. next.pc = "list" /\ next.etag = now.etag /\ next.listing = now.listing
    BY <1>1 DEF PollState
  <2> HIDE DEF next
  <2>3. GoodPoll(next, writer[p])
    BY <1>2, <2>1, <2>2 DEF GoodPoll
  <2> QED
    BY <1>1, <1>3, <2>1, <2>3
<1>6. CASE PollNotModified(p) \/ PollFails(p)
  <2>1. /\ poll' = [poll EXCEPT ![p] = IdlePoll] /\ now.pc # "store"
        /\ UNCHANGED <<forge, runs, etag, writer>>
    BY <1>6 DEF PollNotModified, PollFails, forgeVars, storeVars
  <2>2. writer[p].pc = "idle"
    BY <1>2, <2>1 DEF GoodPoll
  <2> QED
    BY <1>1, <1>3, <2>1, <2>2, IdleGood
<1>7. CASE PollAborts(p)
  <2>1. /\ poll' = [poll EXCEPT ![p] = IdlePoll] /\ writer' = [writer EXCEPT ![p] = IdleWriter]
        /\ UNCHANGED <<forge, runs, etag>> /\ IdleWriter.pc = "idle"
    BY <1>7 DEF PollAborts, forgeVars, storeVars, IdleWriter
  <2> QED
    BY <1>1, <1>3, <2>1, IdleGood
<1>8. CASE PollList(p)
  <2> DEFINE page == Page(forge)
             rec == [IdlePoll EXCEPT !.listing = page]
  <2>1. PICK left : poll' = [poll EXCEPT ![p] = Fetching(rec, left)]
    BY <1>8 DEF PollList
  <2>2. now.pc = "list" /\ etag # page /\ UNCHANGED <<forge, runs, etag, writer>>
    <3>1. page # NoETag
      BY PageTyped, PollersAssumption DEF TypeInv, TypeOK
    <3> QED
      BY <1>2, <1>8, <3>1 DEF PollList, GoodPoll, PollInv, OnlyGitHubETags, forgeVars, storeVars
  <2>3. rec \in PollState /\ rec.listing = page
    BY ConstantsTyped, PageTyped DEF TypeInv, TypeOK, IdlePoll, PollState
  <2>4. \A r \in OnPage(page) : page[r] = forge[r] /\ r \in Runs
    BY <1>1, PageLists DEF OnPage
  <2>5. Behind(page)
    <3>1. \A r \in Runs : page[r] = IF r \in OnPage(forge) THEN forge[r] ELSE UnlistedRun
      BY DEF Page
    <3>2. \A r \in Runs : forge[r].attempt \in Nat
      BY <1>1, EntryTyped
    <3> HIDE DEF page
    <3> QED
      BY <3>1, <3>2 DEF Behind, Past, UnlistedRun
  <2>6. \A r \in OnPage(page) \ touched : Past(runs[r].started, runs[r].status, page[r])
    BY <2>4 DEF PollInv, RowsBehind
  <2>7. writer[p].pc = "idle"
    BY <1>2, <2>2 DEF GoodPoll
  <2> HIDE DEF rec, page
  <2>8. GoodPoll(Fetching(rec, left), writer[p])
    BY <2>2, <2>3, <2>5, <2>6, <2>7, FetchingGood DEF page
  <2> QED
    BY <1>1, <1>3, <2>1, <2>2, <2>8
<1>9. CASE PollFetchJobs(p)
  <2> DEFINE got(r) == [attempt |-> forge[r].attempt, phases |-> ServedJobs(r)]
             rec(r) == [now EXCEPT !.fetched[r] = got(r)]
  <2>1. PICK r \in Newest(now.todo) :
          poll' = [poll EXCEPT ![p] = Fetching(rec(r), now.todo \ {r})]
    BY <1>9 DEF PollFetchJobs
  <2>2. now.pc = "fetch" /\ UNCHANGED <<forge, runs, etag, writer>>
    BY <1>9 DEF PollFetchJobs, forgeVars, storeVars
  <2>3. r \in Runs /\ got(r) \in FetchedJobs
    BY <1>1, <2>1, ConstantsTyped
       DEF Newest, PollState, TypeInv, TypeOK, Listings, ListedRun, FetchedJobs, ServedJobs
  <2> HIDE DEF got
  <2>4. rec(r) \in PollState /\ rec(r).listing = now.listing
    BY <1>1, <2>3 DEF PollState
  <2>5. writer[p].pc = "idle"
    BY <1>2, <2>2 DEF GoodPoll
  <2> HIDE DEF rec
  <2>6. GoodPoll(Fetching(rec(r), now.todo \ {r}), writer[p])
    BY <1>2, <2>2, <2>4, <2>5, FetchingGood DEF GoodPoll
  <2> QED
    BY <1>1, <1>3, <2>1, <2>2, <2>6
<1>10. CASE PollStoreRun(p)
  <2> DEFINE next(r) == WriteRequest(r, RowOf(now.listing[r]), now.fetched[r].attempt,
                                     now.fetched[r].phases)
  <2>1. PICK r \in Newest(now.todo) : writer' = [writer EXCEPT ![p] = next(r)]
    BY <1>10 DEF PollStoreRun
  <2>2. now.pc = "store" /\ writer[p].pc = "idle" /\ UNCHANGED <<forge, runs, etag, poll>>
    BY <1>10 DEF PollStoreRun, forgeVars, storeVars
  <2>3. /\ next(r).run = r /\ next(r).row = RowOf(now.listing[r]) /\ next(r).pc = "findRun"
        /\ r \in now.todo
    BY <2>1 DEF WriteRequest, Newest
  <2> HIDE DEF next
  <2>4. GoodPoll(now, next(r))
    BY <1>2, <2>2, <2>3 DEF GoodPoll, RunWritten
  <2> QED
    BY <1>1, <1>3, <2>1, <2>2, <2>4
<1>11. CASE PollRunStored(p)
  <2> DEFINE next == [now EXCEPT !.todo = @ \ {writer[p].run},
                                 !.fetched[writer[p].run] = NotFetched]
  <2>1. /\ poll' = [poll EXCEPT ![p] = next] /\ writer' = [writer EXCEPT ![p] = IdleWriter]
        /\ writer[p].pc = "done" /\ UNCHANGED <<forge, runs, etag>> /\ IdleWriter.pc = "idle"
    BY <1>1, <1>11 DEF PollRunStored, PollState, forgeVars, storeVars, IdleWriter
  <2>2. next.pc = now.pc /\ next.listing = now.listing /\ next.todo = now.todo \ {writer[p].run}
    BY <1>1 DEF PollState
  <2> HIDE DEF next
  <2>3. GoodPoll(next, IdleWriter)
    BY <1>2, <2>1, <2>2 DEF GoodPoll, RunWritten
  <2> QED
    BY <1>1, <1>3, <2>1, <2>3
<1> HIDE DEF Done
<1> QED
  BY <1>4, <1>5, <1>6, <1>7, <1>8, <1>9, <1>10, <1>11
     DEF PollStepOf, PollFailsFor, PollStep, Done

\* The ETag is saved when every run of its page is stored as listed.
LEMMA SavePollInv ==
    ASSUME OnePoll, TypeInv, PollInv, NEW p \in Pollers, PollSaveETag(p), UNCHANGED webhookVars
    PROVE  PollInv'
<1> DEFINE now == poll[p]
<1>1. /\ poll \in [Pollers -> PollState] /\ now \in PollState /\ now.listing \in Listings
      /\ forge \in Listings
  BY DEF TypeInv, TypeOK, PollState
<1>2. \A q \in Pollers : q = p
  BY DEF OnePoll
<1>3. /\ now.pc = "store" /\ now.todo = {}
      /\ etag' = IF Conditional THEN now.listing ELSE etag
      /\ poll' = [poll EXCEPT ![p] = IdlePoll]
      /\ UNCHANGED <<forge, runs, writer, touched>>
  BY DEF PollSaveETag, forgeVars, storeVars, webhookVars
<1>4. GoodPoll(now, writer[p])
  BY GoodPolls
<1>5. writer[p].pc = "idle"
  BY <1>3, <1>4 DEF GoodPoll
<1>6. poll'[p] = IdlePoll /\ GoodPoll(IdlePoll, writer[p]) /\ IdlePoll.pc = "idle"
  BY <1>1, <1>3, <1>5, IdleGood DEF IdlePoll
<1>7. OnlyGitHubETags' /\ CreatedInOrder'
  BY <1>3 DEF PollInv, OnlyGitHubETags, CreatedInOrder
<1>8. PagesBehind'
  BY <1>2, <1>3, <1>4, <1>6 DEF PollInv, PagesBehind, GoodPoll, Behind
<1>9. RowsBehind'
  BY <1>2, <1>3, <1>6 DEF PollInv, RowsBehind, OnPage
<1>10. WritersKnown'
  BY <1>2, <1>3, <1>5 DEF PollInv, WritersKnown
<1>11. ETagKnown' /\ ListedStored'
  BY <1>2, <1>6 DEF ETagKnown, ListedStored
<1>12. NotModifiedIsSound'
  <2>1. Page(forge)' = Page(forge) /\ OnPage(forge)' = OnPage(forge)
    BY <1>3 DEF Page, OnPage
  <2>2. CASE ~Conditional
    BY <1>3, <2>1, <2>2 DEF PollInv, NotModifiedIsSound
  <2>3. CASE Conditional
    <3> SUFFICES ASSUME now.listing = Page(forge), NEW r \in OnPage(forge) \ touched
                 PROVE  runs[r] = RowOf(forge[r])
      BY <1>3, <2>1, <2>3 DEF NotModifiedIsSound
    <3>1. r \in OnPage(now.listing) /\ now.listing[r] = forge[r]
      BY <1>1, PageLists
    <3> QED
      BY <1>3, <1>4, <3>1 DEF GoodPoll
  <2> QED
    BY <2>2, <2>3
<1> QED
  BY <1>7, <1>8, <1>9, <1>10, <1>11, <1>12 DEF PollInv

\* No step of a poll undoes PollInv: there is only the one.
LEMMA PollPollInv ==
    ASSUME OnePoll, TypeInv, PollInv, NEW p \in Pollers, PollStepOf(p) \/ PollFailsFor(p)
    PROVE  PollInv'
<1>1. CASE PollSaveETag(p)
  BY <1>1, SavePollInv DEF PollStepOf, PollFailsFor
<1>2. CASE ~PollSaveETag(p)
  <2>1. /\ GoodPoll(poll'[p], writer'[p])
        /\ UNCHANGED <<forge, runs, touched, etag>>
        /\ \A w \in Writers \ {p} : writer'[w] = writer[w]
    BY <1>2, OnePollGoesOn
  <2>2. \A q \in Pollers : q = p
    BY DEF OnePoll
  <2>3. Page(forge)' = Page(forge) /\ OnPage(forge)' = OnPage(forge)
    BY <2>1 DEF Page, OnPage
  <2>4. OnlyGitHubETags' /\ CreatedInOrder' /\ NotModifiedIsSound'
    BY <2>1, <2>3 DEF PollInv, OnlyGitHubETags, CreatedInOrder, NotModifiedIsSound
  <2>5. PagesBehind'
    BY <2>1, <2>2 DEF PollInv, PagesBehind, GoodPoll, Behind
  <2>6. RowsBehind'
    BY <2>1, <2>2 DEF PollInv, RowsBehind, GoodPoll, OnPage
  <2>7. WritersKnown'
    BY <2>1, <2>2, ProcessesAssumption DEF PollInv, WritersKnown, GoodPoll
  <2>8. ETagKnown' /\ ListedStored'
    BY <2>1, <2>2, <2>3 DEF ETagKnown, ListedStored, GoodPoll, OnPage
  <2> QED
    BY <2>4, <2>5, <2>6, <2>7, <2>8 DEF PollInv
<1> QED
  BY <1>1, <1>2

\* A restart forgets the polls and handlers under way, and nothing that is stored.
LEMMA RestartPollInv == ASSUME TypeInv, PollInv, Restart PROVE PollInv'
<1>1. /\ UNCHANGED <<forge, runs, touched, etag>>
      /\ \A w \in Writers : writer'[w].pc = "idle"
      /\ \A p \in Pollers : poll'[p] = IdlePoll /\ IdlePoll.pc = "idle"
  BY DEF Restart, forgeVars, storeVars, webhookVars, IdleWriter, IdlePoll
<1>2. forge \in Listings
  BY DEF TypeInv, TypeOK
<1>3. \A p \in Pollers : Behind(IdlePoll.listing)
  <2>1. Behind(IdlePoll.listing)
    BY <1>2, EntryTyped DEF IdlePoll, UnlistedRun, Behind, Past
  <2> QED
    BY <2>1
<1>4. OnlyGitHubETags' /\ CreatedInOrder' /\ NotModifiedIsSound'
  BY <1>1 DEF PollInv, OnlyGitHubETags, CreatedInOrder, NotModifiedIsSound, Page, OnPage
<1>5. PagesBehind' /\ RowsBehind'
  BY <1>1, <1>3 DEF PollInv, PagesBehind, RowsBehind, Behind
<1>6. WritersKnown' /\ ETagKnown' /\ ListedStored'
  BY <1>1, HandlersAssumption, PollersAssumption DEF WritersKnown, ETagKnown, ListedStored
<1> QED
  BY <1>4, <1>5, <1>6 DEF PollInv

\* Every step of the ingestion keeps PollInv, when there is one poll at a time.
LEMMA PollInvStep == OnePoll /\ TypeInv /\ PollInv /\ [Next]_vars => PollInv'
<1> SUFFICES ASSUME OnePoll, TypeInv, PollInv, [Next]_vars PROVE PollInv'
  OBVIOUS
<1>1. CASE UNCHANGED vars
  <2>1. UNCHANGED <<forge, runs, touched, etag, poll, writer>>
    BY <1>1 DEF vars, forgeVars, storeVars, webhookVars
  <2> QED
    BY <2>1 DEF PollInv, OnlyGitHubETags, CreatedInOrder, PagesBehind, RowsBehind, WritersKnown, ETagKnown,
       ListedStored, NotModifiedIsSound, Behind, Page, OnPage
<1> QED
  BY <1>1, ForgePollInv, WriterPollInv, HandlerPollInv, PollPollInv, RestartPollInv DEF Next

\* A poll of Forgejo saves no ETag.
LEMMA NoETagStep ==
    ASSUME ~Conditional, etag = NoETag, [Next]_vars
    PROVE  etag' = NoETag
BY DEF Next, ForgeStep, WriterStepOf, StatementFailsFor, ReceiveBy, AnswerBy, PollStepOf,
   PollFailsFor, PollStep, PollFails, PollStart, PollRunStates, PollNotModified, PollList,
   PollFetchJobs, PollStoreRun, PollRunStored, PollSaveETag, PollAborts, Restart, vars

-----------------------------------------------------------------------------
(* What follows *)

\* A GitHub poll answered 304 loses nothing: when the page the forge shows is the one
\* the saved ETag is of, the runs of it no delivery was about are stored as listed
\* (SetReconcileETag after every storeRunSnapshot of the page; of Forgejo no ETag is
\* kept).  It takes any number of polls, failures and restarts to reach such a state.
THEOREM NotModifiedSound == Spec => []NotModifiedIsSound
<1> DEFINE Inv == TypeInv /\ IF Conditional THEN PollInv ELSE etag = NoETag
<1>1. Init => Inv
  BY TypeInit, PollInit DEF Init, ReconcilerInit
<1>2. Inv /\ [Next]_vars => Inv'
  BY TypeStep, PollInvStep, NoETagStep, PollersAssumption DEF OnePoll
<1>3. Inv => NotModifiedIsSound
  <2> SUFFICES ASSUME Inv PROVE NotModifiedIsSound
    OBVIOUS
  <2>1. CASE Conditional
    BY <2>1 DEF PollInv
  <2>2. CASE ~Conditional
    <3>1. Page(forge) # NoETag
      BY PageTyped, PollersAssumption DEF TypeInv, TypeOK
    <3> QED
      BY <2>2, <3>1 DEF NotModifiedIsSound
  <2> QED
    BY <2>1, <2>2
<1> HIDE DEF Inv
<1> QED
  BY <1>1, <1>2, <1>3, PTL DEF Spec

\* One poll at a time, and polls alone reopen no completed run: one is taken back to in_progress by
\* UpsertRun only when a delivery was about it, or when the forge has re-run it since
\* (storeRunSnapshot writes a listing that may be old by then, but never older than
\* the row).
THEOREM ReopenedForCause == ASSUME OnePoll PROVE Spec => ReopenedOnlyForCause
<1>1. ASSUME TypeInv, PollInv, [Next]_vars, NEW r \in Runs,
             runs[r].status = "completed", runs'[r].status # "completed", r \notin touched
      PROVE  forge[r].attempt > runs[r].started
  <2>1. /\ runs \in [Runs -> RunRow] /\ forge \in Listings /\ writer \in [Writers -> WriterState]
        /\ poll \in [Pollers -> PollState]
    BY <1>1 DEF TypeInv, TypeOK
  <2>2. PICK w \in Writers : WriteRun(w)
    BY <1>1 DEF Next, ForgeStep, WriterStepOf, WriterStep, StatementFailsFor, StatementFails,
       FindRun, RunInsertFails, FindJob, WriteJob, JobInsertFails, WriteSteps, ReceiveBy,
       AnswerBy, Receive, Accept, Reject, PollStepOf, PollFailsFor, PollStep, PollFails,
       PollStart, PollRunStates, PollNotModified, PollList, PollFetchJobs, PollStoreRun,
       PollRunStored, PollSaveETag, PollAborts, Restart, vars, storeVars
  <2>3. writer[w].run = r /\ writer[w].pc = "writeRun"
    BY <1>1, <2>1, <2>2 DEF WriteRun
  <2>4. w \in Pollers
    BY <1>1, <2>3, ProcessesAssumption DEF PollInv, WritersKnown
  <2> DEFINE l == poll[w].listing[r]
  <2>5. /\ poll[w].pc = "store" /\ writer[w].row = RowOf(l)
        /\ r \in OnPage(poll[w].listing)
    BY <1>1, <2>3, <2>4 DEF PollInv, WritersKnown, ListedStored
  <2>6. l \in ListedRun /\ l.attempt \in Nat /\ forge[r].attempt \in Nat /\ runs[r].started \in Nat
    BY <2>1, <2>4, EntryTyped DEF PollState, RunRow
  <2>7. Past(runs[r].started, "completed", l) /\ Past(l.attempt, l.status, forge[r])
    BY <1>1, <2>4, <2>5 DEF PollInv, RowsBehind, PagesBehind, Behind
  <2>8. l.status # "completed"
    <3>1. runs' = [runs EXCEPT ![r] = RowOf(l)]
      BY <1>1, <2>2, <2>3, <2>5, <2>6, WrittenAsListed
    <3>2. RowOf(l).status = l.status
      BY DEF RowOf
    <3> HIDE DEF l
    <3> QED
      BY <1>1, <2>1, <3>1, <3>2
  <2>9. runs[r].started < l.attempt /\ l.attempt <= forge[r].attempt
    BY <2>6, <2>7, <2>8 DEF Past
  <2> QED
    BY <2>6, <2>9
<1>2. TypeInv /\ PollInv /\ [Next]_vars =>
        [\A r \in Runs :
            runs[r].status = "completed" /\ runs'[r].status # "completed" =>
                r \in touched \/ forge[r].attempt > runs[r].started]_vars
  BY <1>1
<1>3. Spec => [](TypeInv /\ PollInv)
  <2>1. TypeInv /\ PollInv /\ [Next]_vars => TypeInv' /\ PollInv'
    BY TypeStep, PollInvStep
  <2> QED
    BY <2>1, TypeInit, PollInit, PTL DEF Spec
<1> QED
  BY <1>2, <1>3, PTL DEF Spec, ReopenedOnlyForCause
=============================================================================
