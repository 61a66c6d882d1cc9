------------------------------ MODULE MirrorProofs ------------------------------
(***************************************************************************)
(* Ingestion implements RunMirror, for any number of runs, attempts, jobs,   *)
(* handlers and polls and either forge client.  The refinement mapping keeps  *)
(* the history of endings and the runs table; all else is hidden.            *)
(***************************************************************************)
EXTENDS IngestionProofs

\* The initial states are the mirror's.
LEMMA MirrorInit == Init => Mirror!Init
BY DEF Init, ForgeInit, StoreInit, Mirror!Init

\* Of the forge's steps only the end of an attempt is seen, and an attempt ends once.
LEMMA ForgeMirrored ==
    ASSUME TypeInv, TruthInv, ForgeStep
    PROVE  Mirror!Next \/ UNCHANGED Mirror!vars
<1>1. runs' = runs
  BY DEF ForgeStep, storeVars
<1>2. CASE \E r \in Runs : FinishRun(r)
  <2>1. PICK r \in Runs : FinishRun(r)
    BY <1>2
  <2> DEFINE a == forge[r].attempt
             c == IF \E j \in Jobs : fjobs[r][j] = "failure" THEN "failure" ELSE "success"
  <2>2. forge[r] \in ListedRun /\ forge[r].status = "in_progress"
    BY <2>1 DEF FinishRun, TypeInv, TypeOK, Listings
  <2>3. a \in Attempts
    BY <2>2, RunDataAssumption DEF TypeInv, NotStarted, UnlistedRun, ListedRun, Attempts
  <2>4. outcome[r][a] = "none"
    BY <2>2, <2>3 DEF TruthInv, ForgeTrue
  <2>5. outcome' = [outcome EXCEPT ![r] = [outcome[r] EXCEPT ![a] = c]] /\ c \in Conclusions
    BY <2>1 DEF FinishRun, Conclusions
  <2>6. Mirror!End(r, a, c)
    BY <1>1, <2>4, <2>5 DEF Mirror!End
  <2> HIDE DEF a, c
  <2> QED
    BY <2>3, <2>5, <2>6 DEF Mirror!Next
<1>3. CASE ~\E r \in Runs : FinishRun(r)
  <2>1. outcome' = outcome
    BY <1>3 DEF ForgeStep, ForgeNext, StartRun, Rerun, BeginAttempt, FinishJob,
       Upgrade
  <2> QED
    BY <1>1, <2>1 DEF Mirror!vars
<1> QED
  BY <1>2, <1>3

\* UpsertRun's second statement learns what the payload says of its run.
LEMMA WriteMirrored ==
    ASSUME TypeInv, TruthInv, TruthInv', TypeInv', WroteInv, NEW w \in Writers,
           WriteRun(w), UNCHANGED forgeVars
    PROVE  Mirror!Next
<1> DEFINE r == writer[w].run
           shown == runs'[r]
<1>1. /\ r \in Runs /\ writer[w] \in WriterState /\ writer[w].pc = "writeRun"
      /\ runs \in [Runs -> RunRow] /\ runs' \in [Runs -> RunRow]
  BY DEF TypeInv, TypeOK, WritersHaveRuns, Busy, WriteRun
<1>2. writer[w].row \in RunRow /\ writer[w].row # NoRunRow
  BY <1>1 DEF WroteInv, WritersWrote, Wrote, WriterState
<1>3. shown = IF writer[w].found THEN UpdatedRun(runs[r], writer[w].row) ELSE writer[w].row
  BY <1>1 DEF WriteRun
<1>4. shown \in RunRow /\ shown # NoRunRow
  BY <1>1, <1>2, <1>3, UpdatedIsRow
<1>5. Mirror!Holds(r, shown)
  <2>1. TrueRow(Endings', r, shown) /\ Endings' = Endings
    BY <1>1 DEF TruthInv, RowsTrue, Endings, forgeVars
  <2> HIDE DEF shown
  <2> QED
    BY <1>1, <2>1 DEF TrueRow, Endings, Mirror!Holds
<1>6. runs[r].meta => shown.meta
  <2>1. CASE writer[w].found
    BY <1>1, <1>2, <1>3, <2>1 DEF UpdatedRun, RunRow
  <2>2. CASE ~writer[w].found
    BY <1>1, <2>2 DEF WriteRun, NoRunRow
  <2> QED
    BY <2>1, <2>2
<1>7. runs' = [runs EXCEPT ![r] = shown] /\ outcome' = outcome
  BY <1>1 DEF WriteRun, forgeVars
<1> HIDE DEF r, shown
<1>8. Mirror!Learn(r)
  BY <1>4, <1>5, <1>6, <1>7 DEF Mirror!Learn
<1> QED
  BY <1>1, <1>8 DEF Mirror!Next

\* Every step is a step of the mirror or leaves it as it is.
LEMMA MirrorStep ==
    TypeInv /\ TruthInv /\ WroteInv /\ TypeInv' /\ TruthInv' /\ [Next]_vars
        => [Mirror!Next]_(Mirror!vars)
<1> SUFFICES ASSUME TypeInv, TruthInv, WroteInv, TypeInv', TruthInv', [Next]_vars
             PROVE  Mirror!Next \/ UNCHANGED Mirror!vars
  OBVIOUS
<1>1. CASE ForgeStep
  BY <1>1, ForgeMirrored
<1>2. CASE \E w \in Writers : WriteRun(w) /\ UNCHANGED forgeVars
  BY <1>2, WriteMirrored
<1>3. CASE ~ForgeStep /\ ~\E w \in Writers : WriteRun(w) /\ UNCHANGED forgeVars
  <2>1. UNCHANGED <<runs, outcome>>
    BY <1>3 DEF Next, WriterStepOf, WriterStep, StatementFailsFor, StatementFails,
       FindRun, RunInsertFails, FindJob, WriteJob, JobInsertFails, WriteSteps, ReceiveBy,
       AnswerBy, Receive, Accept, Reject, PollStepOf, PollFailsFor, PollStep, PollFails,
       PollStart, PollRunStates, PollNotModified, PollList, PollFetchJobs, PollStoreRun,
       PollRunStored, PollSaveETag, PollAborts, Restart, vars, storeVars, forgeVars
  <2> QED
    BY <2>1 DEF Mirror!vars
<1> QED
  BY <1>1, <1>2, <1>3

\* The ingestion implements its abstract specification: whatever is lost, late,
\* repeated, interleaved or fails, the runs table is a mirror of the forge.
THEOREM IngestionMirrors == Spec => MirrorsForge
<1>1. TypeInv /\ TruthInv /\ [Next]_vars => TypeInv' /\ TruthInv'
  BY TypeStep, TruthStep
<1> QED
  BY <1>1, MirrorInit, MirrorStep, WroteAlways, PTL DEF Spec, MirrorsForge, Mirror!Spec
=============================================================================
