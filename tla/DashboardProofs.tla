---------------------------- MODULE DashboardProofs ----------------------------
(***************************************************************************)
(* Dashboard, proved for any places, tokens, requests, settings and faults.   *)
(* Sane joins what the rows, the saved tokens and the webhooks say of each    *)
(* other (StoreInv), what a request's local variables say of them at each     *)
(* point of its progress (RequestInv), and the same of the reconciler's pass  *)
(* (PassInv); StoreMove and RowsKept say what a step may do to the tables,     *)
(* so that a request stays sound while others run.  The settings have their    *)
(* own invariant: a patch in its transaction has read what is stored.        *)
(***************************************************************************)
EXTENDS Dashboard, FiguresProofs

-----------------------------------------------------------------------------
(* Settings: the transaction's owner has read the stored overrides.          *)

SettingsInv ==
    /\ SettingsTypes
    /\ \A e \in Editors :
         /\ Valid(patch[e].update)
         /\ patch[e].pc = "write" => holder = e /\ patch[e].read = overrides

\* What a step may do to the settings.
SettingsMove ==
    \/ \E e \in Editors : SubmitPatch(e) \/ SubmitReset(e) \/ SettingsStep(e)
    \/ UNCHANGED overrides /\ patch' = [e \in Editors |-> IdlePatch] /\ holder' = "none"
    \/ UNCHANGED settingsVars

\* An idle patch and an update have their types.
LEMMA PatchesTyped ==
    /\ NoUpdate \in [Keys -> Update]
    /\ IdlePatch \in [pc: {"idle", "begin", "write"}, update: [Keys -> Update], read: Overrides]
    /\ \A u \in [Keys -> Update], o \in Overrides : Valid(u) => Merged(o, u) \in Overrides
<1>1. NoUpdate \in [Keys -> Update]
  BY DEF NoUpdate, Update
<1>2. [k \in Keys |-> "default"] \in Overrides
  BY DEF Overrides
<1>3. IdlePatch \in [pc: {"idle", "begin", "write"}, update: [Keys -> Update], read: Overrides]
  BY <1>1, <1>2 DEF IdlePatch
<1>4. ASSUME NEW u \in [Keys -> Update], NEW o \in Overrides, Valid(u)
      PROVE  Merged(o, u) \in Overrides
  BY <1>4 DEF Merged, Overrides, Update, Valid
<1> QED
  BY <1>1, <1>3, <1>4

\* Every step keeps it: while a patch holds the connection nobody else writes.
LEMMA SettingsKept == SettingsInv /\ SettingsMove => SettingsInv'
<1> DEFINE Patches == [pc: {"idle", "begin", "write"}, update: [Keys -> Update], read: Overrides]
           \* One patch changes: its new state and what it must be.
           Sound(e, next, o, h) ==
               /\ next \in Patches /\ Valid(next.update)
               /\ next.pc = "write" => h = e /\ next.read = o
<1> SUFFICES ASSUME SettingsInv, SettingsMove PROVE SettingsInv'
  OBVIOUS
<1>1. /\ overrides \in Overrides /\ patch \in [Editors -> Patches] /\ holder \in Editors \union {"none"}
      /\ \A e \in Editors : Sound(e, patch[e], overrides, holder)
  BY DEF SettingsInv, SettingsTypes
<1>2. IdlePatch \in Patches /\ Valid(IdlePatch.update) /\ IdlePatch.pc = "idle"
  BY PatchesTyped DEF IdlePatch, Valid, NoUpdate
<1>3. ASSUME NEW e \in Editors, NEW next, patch' = [patch EXCEPT ![e] = next],
             overrides' \in Overrides, holder' \in Editors \union {"none"},
             Sound(e, next, overrides', holder'),
             \A f \in Editors \ {e} : patch[f].pc = "write" => holder' = f /\ overrides' = overrides
      PROVE  SettingsInv'
  <2>1. \A f \in Editors : patch'[f] = IF f = e THEN next ELSE patch[f]
    BY <1>1, <1>3
  <2>2. \A f \in Editors : Sound(f, patch'[f], overrides', holder')
    BY <1>1, <1>3, <2>1
  <2>3. patch' \in [Editors -> Patches]
    BY <1>1, <1>3
  <2> QED
    BY <1>3, <2>2, <2>3 DEF SettingsInv, SettingsTypes
<1>4. CASE \E e \in Editors : SubmitPatch(e) \/ SubmitReset(e)
  <2>1. PICK e \in Editors : SubmitPatch(e) \/ SubmitReset(e)
    BY <1>4
  <2>2. PICK u \in [Keys -> Update] :
            Valid(u) /\ patch' = [patch EXCEPT ![e] = [patch[e] EXCEPT !.pc = "begin", !.update = u]]
    <3>1. CASE SubmitPatch(e)
      <4>1. PICK u \in [Keys -> Update] :
                Valid(u) /\ patch' = [patch EXCEPT ![e].pc = "begin", ![e].update = u]
        BY <3>1, Zenon DEF SubmitPatch
      <4> QED
        BY <1>1, <4>1
    <3>2. CASE SubmitReset(e)
      <4> DEFINE u == [k \in Keys |-> IF k \in FilterKeys THEN "default" ELSE "absent"]
      <4>1. u \in [Keys -> Update] /\ Valid(u)
        BY DEF Update, Valid
      <4>2. patch' = [patch EXCEPT ![e] = [patch[e] EXCEPT !.pc = "begin", !.update = u]]
        BY <1>1, <3>2 DEF SubmitReset
      <4> HIDE DEF u
      <4> QED
        BY <4>1, <4>2
    <3> QED
      BY <2>1, <3>1, <3>2
  <2> DEFINE next == [patch[e] EXCEPT !.pc = "begin", !.update = u]
  <2>3. next \in Patches /\ next.pc = "begin" /\ next.update = u
    BY <1>1, <2>2
  <2>4. UNCHANGED <<overrides, holder>>
    BY <2>1 DEF SubmitPatch, SubmitReset
  <2> HIDE DEF next
  <2>5. patch' = [patch EXCEPT ![e] = next]
    BY <2>2 DEF next
  <2>6. Sound(e, next, overrides', holder')
    BY <2>2, <2>3
  <2> QED
    BY <1>1, <1>3, <2>4, <2>5, <2>6
<1>5. CASE \E e \in Editors : BeginPatch(e)
  <2>1. PICK e \in Editors : BeginPatch(e)
    BY <1>5
  <2> DEFINE next == [patch[e] EXCEPT !.pc = "write", !.read = overrides]
  <2>2. holder = "none" /\ holder' = e /\ overrides' = overrides
    BY <2>1 DEF BeginPatch
  <2>3. patch[e] \in Patches /\ Valid(patch[e].update)
    BY <1>1
  <2>4. next \in Patches /\ next.pc = "write" /\ next.update = patch[e].update /\ next.read = overrides
    BY <1>1, <2>3
  <2>5. patch' = [patch EXCEPT ![e] = next]
    BY <1>1, <2>1 DEF BeginPatch
  <2> HIDE DEF next
  <2>6. Sound(e, next, overrides', holder')
    BY <2>2, <2>3, <2>4
  <2>7. \A f \in Editors : patch[f].pc # "write"
    <3>1. \A f \in Editors : f # "none"
      BY SettingsAssumption
    <3> QED
      BY <2>2, <3>1 DEF SettingsInv
  <2> QED
    BY <1>1, <1>3, <2>2, <2>5, <2>6, <2>7
<1>6. CASE \E e \in Editors : CommitPatch(e)
  <2>1. PICK e \in Editors : CommitPatch(e)
    BY <1>6
  <2>2. overrides' \in Overrides /\ holder = e
    BY <1>1, <2>1, PatchesTyped DEF CommitPatch
  <2>3. Sound(e, IdlePatch, overrides', holder')
    BY <1>2
  <2> QED
    BY <1>1, <1>3, <2>1, <2>2, <2>3 DEF CommitPatch
<1>7. CASE \E e \in Editors : AbortPatch(e)
  <2>1. PICK e \in Editors : AbortPatch(e)
    BY <1>7
  <2>2. Sound(e, IdlePatch, overrides', holder')
    BY <1>2
  <2> QED
    BY <1>1, <1>3, <2>1, <2>2 DEF AbortPatch
<1>8. CASE UNCHANGED overrides /\ patch' = [e \in Editors |-> IdlePatch] /\ holder' = "none"
  BY <1>1, <1>2, <1>8 DEF SettingsInv, SettingsTypes
<1>9. CASE UNCHANGED settingsVars
  BY <1>9 DEF SettingsInv, SettingsTypes, settingsVars
<1> QED
  BY <1>4, <1>5, <1>6, <1>7, <1>8, <1>9 DEF SettingsMove, SettingsStep

\* What a step of the server does to the settings is one of these.
LEMMA SettingsMoves == [Next]_vars => SettingsMove
BY DEF Next, vars, SettingsMove, RequestArrives, RequestDoes, RequestCutShort, DeliveryArrives,
   ShortRequest, Pass, PatchArrives, PatchDoes, Signal, Shutdown, Stop, Crash, Start, Gone

\* Nothing is set at first.
LEMMA SettingsAtFirst == Init => SettingsInv
BY PatchesTyped DEF Init, SettingsInit, SettingsInv, SettingsTypes, IdlePatch, Valid, NoUpdate, Overrides

\* So it holds in every behaviour.
LEMMA SettingsAlways == Spec => []SettingsInv
BY SettingsAtFirst, SettingsMoves, SettingsKept, PTL DEF Spec

\* No patch of the settings loses another's change or sets what it was not asked
\* to: the read and the write of a patch are one transaction.
THEOREM PatchesAreExact == Spec => PatchIsExact
<1>1. SettingsInv /\ [Next]_vars =>
        [\A e \in Editors : patch[e].pc = "write" /\ overrides' # overrides /\ patch'[e].pc = "idle" =>
           \A k \in Keys : overrides'[k] = IF patch[e].update[k] = "absent" THEN overrides[k]
                                            ELSE patch[e].update[k]]_<<overrides, patch>>
  <2> SUFFICES ASSUME SettingsInv, SettingsMove, NEW e \in Editors, patch[e].pc = "write",
                      overrides' # overrides, NEW k \in Keys
               PROVE  overrides'[k] = IF patch[e].update[k] = "absent" THEN overrides[k]
                                      ELSE patch[e].update[k]
    BY SettingsMoves
  <2>1. PICK f \in Editors : CommitPatch(f)
    BY DEF SettingsMove, SettingsStep, SubmitPatch, SubmitReset, BeginPatch, AbortPatch, settingsVars
  <2>2. f = e /\ patch[e].read = overrides
    BY <2>1 DEF CommitPatch, SettingsInv
  <2> QED
    BY <2>1, <2>2 DEF CommitPatch, Merged
<1> QED
  BY <1>1, SettingsAlways, PTL DEF Spec, PatchIsExact

-----------------------------------------------------------------------------
(* The tables and the webhooks.                                              *)

\* What the rows say of each other and of the webhooks: a token is one of its
\* place or scope, a webhook is where its repository is, runs have a row.
StoreInv ==
    /\ StoreTypes
    /\ \A i \in TrackedIds : i <= created /\ repos[i].token = Site(repos[i].place)
    /\ \A x \in saved : x.token = x.scope
    /\ \A h \in hooks :
         h.secret <= created /\ (Tracked(h.secret) => h.site = Site(repos[h.secret].place))
    /\ ActiveHasHook
    /\ NoOrphanRuns

\* What a step may do to the tables and the webhooks.
StoreMove ==
    \/ UNCHANGED <<storeVars, hooks>>
    \/ \E p \in Places : created < MaxRepositories /\ Insert(created + 1, p, Site(p)) /\ UNCHANGED hooks
    \/ \E p \in Places, i \in Ids :
         /\ i <= created /\ (Tracked(i) => repos[i].place = p)
         /\ hooks' = hooks \union {Hook(p, i)} /\ UNCHANGED storeVars
    \/ \E i \in Ids : Tracked(i) /\ Hook(repos[i].place, i) \in hooks /\ SetStatus(i, "active") /\ UNCHANGED hooks
    \/ \E i \in Ids : SetStatus(i, "degraded") /\ UNCHANGED hooks
    \/ \E i \in Int : StoreRun(i) /\ UNCHANGED hooks
    \/ \E i \in Ids : DeleteRepo(i) /\ UNCHANGED hooks
    \/ \E p \in Places : SaveForgeToken(p) /\ UNCHANGED hooks
    \/ \E x \in saved : DeleteForgeToken(x) /\ UNCHANGED hooks

\* A number is never used again: a row keeps its place until it is gone.
RowsKept ==
    /\ created' \in Int /\ created <= created'
    /\ hooks \subseteq hooks'
    /\ \A i \in Ids : i <= created /\ repos'[i] # NoRepo =>
         repos[i] # NoRepo /\ repos'[i].place = repos[i].place

\* A hook of a row is on the row's instance and signs with its number.
LEMMA HookFields ==
    \A p, i : Hook(p, i).site = Site(p) /\ Hook(p, i).secret = i
BY DEF Hook, GitHubHook, ForgejoHook

\* A new row is one; no row is the absence of one.
LEMMA RowsTyped ==
    /\ \A p \in Places, status \in RepoStatuses : NewRow(p, Site(p), status) \in RepoRow
    /\ \A r \in RepoRow : r # NoRepo /\ r.place \in Places
    /\ \A r \in RepoRow, status \in RepoStatuses :
         /\ [r EXCEPT !.status = status] \in RepoRow
         /\ [r EXCEPT !.status = status].place = r.place
         /\ [r EXCEPT !.status = status].token = r.token
         /\ [r EXCEPT !.status = status].status = status
BY PlacesAssumption DEF NewRow, RepoRow, NoRepo, Sites

\* What StoreInv says of one row, whatever its status.
RowOK(i, row, n, hs) ==
    /\ row \in RepoRow
    /\ i <= n
    /\ row.token = Site(row.place)
    /\ row.status = "active" => Hook(row.place, i) \in hs

\* StoreInv, row by row.
LEMMA StoreInvParts ==
    StoreInv <=>
      /\ StoreTypes
      /\ \A i \in Ids : repos[i] = NoRepo \/ RowOK(i, repos[i], created, hooks)
      /\ \A x \in saved : x.token = x.scope
      /\ \A h \in hooks : h.secret <= created /\ (Tracked(h.secret) => h.site = Site(repos[h.secret].place))
      /\ NoOrphanRuns
BY DEF StoreInv, StoreTypes, RowOK, ActiveHasHook, TrackedIds, Tracked

\* Every step of the tables and the webhooks keeps it.
LEMMA StoreKept == StoreInv /\ StoreMove => StoreInv' /\ RowsKept
<1> SUFFICES ASSUME StoreInv, StoreMove PROVE StoreInv' /\ RowsKept
  OBVIOUS
<1> DEFINE RowsFit == \A i \in Ids : repos[i] = NoRepo \/ RowOK(i, repos[i], created, hooks)
           HooksFit == \A h \in hooks :
                         h.secret <= created /\ (Tracked(h.secret) => h.site = Site(repos[h.secret].place))
           SavedFit == \A x \in saved : x.token = x.scope
<1>1. StoreTypes /\ RowsFit /\ SavedFit /\ HooksFit /\ NoOrphanRuns
  BY StoreInvParts
<1>2. /\ repos \in [Ids -> RepoRow \union {NoRepo}] /\ created \in 0..MaxRepositories
      /\ saved \subseteq [scope: Scopes, token: Sites] /\ runs \subseteq Ids
      /\ hooks \subseteq {Hook(p, i) : p \in Places, i \in Ids}
      /\ MaxRepositories \in Nat
  BY <1>1, PlacesAssumption DEF StoreTypes
<1>3. ASSUME StoreTypes', RowsFit', SavedFit', HooksFit', NoOrphanRuns', RowsKept
      PROVE  StoreInv' /\ RowsKept
  <2>1. (/\ StoreTypes /\ RowsFit /\ SavedFit /\ HooksFit /\ NoOrphanRuns => StoreInv)'
    BY StoreInvParts, PTL
  <2> QED
    BY <1>3, <2>1
<1>4. CASE UNCHANGED <<storeVars, hooks>>
  <2>1. StoreInv'
    BY <1>4 DEF StoreInv, StoreTypes, TrackedIds, Tracked, ActiveHasHook, NoOrphanRuns, storeVars
  <2>2. RowsKept
    BY <1>2, <1>4 DEF RowsKept, storeVars
  <2> QED
    BY <2>1, <2>2
<1>5. ASSUME NEW p \in Places, created < MaxRepositories, Insert(created + 1, p, Site(p)), UNCHANGED hooks
      PROVE  StoreInv' /\ RowsKept
  <2> DEFINE new == created + 1
  <2>1. /\ new \in Ids /\ created' = new /\ saved' = saved /\ runs' = runs /\ hooks' = hooks
        /\ repos' = [repos EXCEPT ![new] = NewRow(p, Site(p), "pending")]
    BY <1>2, <1>5 DEF Insert, Ids
  <2>2. repos[new] = NoRepo
    BY <1>1, <1>2, <2>1 DEF RowOK
  <2>3. NewRow(p, Site(p), "pending") \in RepoRow
    BY RowsTyped DEF RepoStatuses
  <2>4. StoreTypes'
    BY <1>2, <2>1, <2>3 DEF StoreTypes, Ids
  <2>5. RowsFit'
    <3>1. RowOK(new, NewRow(p, Site(p), "pending"), new, hooks)
      BY <1>2, <2>3 DEF RowOK, NewRow
    <3>2. \A i \in Ids : repos'[i] = IF i = new THEN NewRow(p, Site(p), "pending") ELSE repos[i]
      BY <1>2, <2>1
    <3> QED
      BY <1>1, <1>2, <2>1, <3>1, <3>2 DEF RowOK, Ids
  <2>6. HooksFit'
    <3>1. \A h \in hooks : h.secret # new /\ h.secret \in Int /\ h.secret <= new
      BY <1>1, <1>2, HookFields DEF Ids
    <3> QED
      BY <1>1, <1>2, <2>1, <3>1 DEF Tracked
  <2>7. SavedFit' /\ NoOrphanRuns'
    BY <1>1, <1>2, <2>1, <2>2, <2>3, RowsTyped DEF NoOrphanRuns, Tracked
  <2>8. RowsKept
    BY <1>2, <2>1 DEF RowsKept, Ids
  <2> QED
    BY <1>3, <2>4, <2>5, <2>6, <2>7, <2>8
<1>6. ASSUME NEW p \in Places, NEW i \in Ids, i <= created, Tracked(i) => repos[i].place = p,
             hooks' = hooks \union {Hook(p, i)}, UNCHANGED storeVars
      PROVE  StoreInv' /\ RowsKept
  <2>1. UNCHANGED <<repos, created, saved, runs>>
    BY <1>6 DEF storeVars
  <2>2. StoreTypes'
    BY <1>2, <1>6, <2>1 DEF StoreTypes
  <2>3. RowsFit' /\ SavedFit' /\ NoOrphanRuns'
    BY <1>1, <1>6, <2>1 DEF RowOK, NoOrphanRuns, Tracked
  <2>4. HooksFit'
    BY <1>1, <1>6, <2>1, HookFields DEF Tracked
  <2>5. RowsKept
    BY <1>2, <1>6, <2>1 DEF RowsKept
  <2> QED
    BY <1>3, <2>2, <2>3, <2>4, <2>5
<1>7. ASSUME NEW i \in Ids, NEW status \in {"active", "degraded"}, SetStatus(i, status), UNCHANGED hooks,
             Tracked(i) /\ status = "active" => Hook(repos[i].place, i) \in hooks
      PROVE  StoreInv' /\ RowsKept
  <2>1. UNCHANGED <<created, saved, runs, hooks>>
    BY <1>7 DEF SetStatus
  <2>2. CASE ~Tracked(i)
    BY <1>4, <1>7, <2>1, <2>2 DEF SetStatus, storeVars
  <2>3. CASE Tracked(i)
    <3> DEFINE row == [repos[i] EXCEPT !.status = status]
    <3>1. repos[i] \in RepoRow
      BY <1>2, <2>3 DEF Tracked
    <3>2. /\ row \in RepoRow /\ row # NoRepo
          /\ row.place = repos[i].place /\ row.token = repos[i].token /\ row.status = status
      <4>1. status \in RepoStatuses
        BY <1>7 DEF RepoStatuses
      <4> QED
        BY <3>1, <4>1, RowsTyped, Zenon
    <3>3. repos' = [repos EXCEPT ![i] = row]
      BY <1>2, <1>7, <2>3 DEF SetStatus
    <3> HIDE DEF row
    <3>4. \A j \in Ids : repos'[j] = IF j = i THEN row ELSE repos[j]
      BY <1>2, <3>3
    <3>5. StoreTypes'
      BY <1>2, <2>1, <3>2, <3>3 DEF StoreTypes
    <3>6. RowsFit'
      BY <1>1, <1>7, <2>1, <2>3, <3>2, <3>4 DEF RowOK, Tracked
    <3>7. HooksFit' /\ SavedFit' /\ NoOrphanRuns'
      BY <1>1, <2>1, <2>3, <3>2, <3>4 DEF Tracked, NoOrphanRuns
    <3>8. RowsKept
      BY <1>2, <2>1, <2>3, <3>2, <3>4 DEF RowsKept, Tracked
    <3> QED
      BY <1>3, <3>5, <3>6, <3>7, <3>8
  <2> QED
    BY <2>2, <2>3
<1>8. ASSUME NEW i \in Int, StoreRun(i), UNCHANGED hooks
      PROVE  StoreInv' /\ RowsKept
  <2>1. UNCHANGED <<repos, created, saved, hooks>> /\ \A j \in runs' : j \in runs \/ Tracked(j)
    BY <1>8 DEF StoreRun
  <2>2. StoreTypes'
    BY <1>2, <2>1 DEF StoreTypes, Tracked
  <2>3. RowsFit' /\ SavedFit' /\ HooksFit' /\ NoOrphanRuns'
    BY <1>1, <2>1 DEF RowOK, NoOrphanRuns, Tracked
  <2>4. RowsKept
    BY <1>2, <2>1 DEF RowsKept
  <2> QED
    BY <1>3, <2>2, <2>3, <2>4
<1>9. ASSUME NEW i \in Ids, DeleteRepo(i), UNCHANGED hooks
      PROVE  StoreInv' /\ RowsKept
  <2>1. /\ UNCHANGED <<created, saved, hooks>> /\ runs' = runs \ {i}
        /\ repos' = [repos EXCEPT ![i] = NoRepo]
    BY <1>9 DEF DeleteRepo
  <2>2. \A j \in Ids : repos'[j] = IF j = i THEN NoRepo ELSE repos[j]
    BY <1>2, <2>1
  <2>3. StoreTypes'
    BY <1>2, <2>1 DEF StoreTypes
  <2>4. RowsFit' /\ SavedFit' /\ HooksFit'
    BY <1>1, <2>1, <2>2 DEF RowOK, Tracked
  <2>5. NoOrphanRuns'
    BY <1>1, <1>2, <2>1, <2>2 DEF NoOrphanRuns, Tracked
  <2>6. RowsKept
    BY <1>2, <2>1, <2>2 DEF RowsKept
  <2> QED
    BY <1>3, <2>3, <2>4, <2>5, <2>6
<1>10. ASSUME saved' \subseteq [scope: Scopes, token: Sites], SavedFit',
              UNCHANGED <<repos, created, runs, hooks>>
       PROVE  StoreInv' /\ RowsKept
  <2>1. StoreTypes'
    BY <1>2, <1>10 DEF StoreTypes
  <2>2. RowsFit' /\ HooksFit' /\ NoOrphanRuns'
    BY <1>1, <1>10 DEF RowOK, Tracked, NoOrphanRuns
  <2>3. RowsKept
    BY <1>2, <1>10 DEF RowsKept
  <2> QED
    BY <1>3, <1>10, <2>1, <2>2, <2>3
<1>11. ASSUME NEW p \in Places, SaveForgeToken(p), UNCHANGED hooks
       PROVE  StoreInv' /\ RowsKept
  <2>1. TokenScope(p) = Site(p) /\ TokenScope(p) \in Scopes /\ Site(p) \in Sites
    BY DEF TokenScope, Site, Scopes, Sites
  <2>2. saved' = {x \in saved : x.scope # TokenScope(p)}
                   \union {[scope |-> TokenScope(p), token |-> Site(p)]}
    BY <1>11 DEF SaveForgeToken
  <2>3. saved' \subseteq [scope: Scopes, token: Sites] /\ SavedFit'
    BY <1>1, <1>2, <2>1, <2>2
  <2> QED
    BY <1>10, <1>11, <2>3 DEF SaveForgeToken
<1>12. ASSUME NEW x \in saved, DeleteForgeToken(x), UNCHANGED hooks
       PROVE  StoreInv' /\ RowsKept
  <2>1. saved' \subseteq saved
    BY <1>12 DEF DeleteForgeToken
  <2> QED
    BY <1>1, <1>2, <1>10, <1>12, <2>1 DEF DeleteForgeToken
<1> QED
  BY <1>4, <1>5, <1>6, <1>7, <1>8, <1>9, <1>11, <1>12 DEF StoreMove

-----------------------------------------------------------------------------
(* The requests.                                                             *)

PCs == {"idle"} \union RegisterPCs \union OtherPCs

\* What a request's local variables say of the rows rs, of which n were created,
\* and the webhooks hs, at each point of its progress.
Sound(r, rs, n, hs) ==
    /\ r.id <= n
    /\ r.pc \in {"check", "create"} => r.id = 0
    /\ r.pc \in RegisterPCs \union {"token", "ask"} => r.place \in Places
    /\ r.pc \in {"check", "create", "hook", "ask"} => r.token = Site(r.place)
    /\ r.pc \in {"hook", "activate", "degrade"} => r.id \in Ids
    /\ r.pc \in {"hook", "activate", "degrade", "token"} =>
         (r.id \in Ids /\ rs[r.id] # NoRepo => rs[r.id].place = r.place)
    /\ r.pc = "activate" => Hook(r.place, r.id) \in hs

\* There is a number left for every registration that may still create a row.
Room == created + Cardinality(Registering) <= MaxRepositories

RequestInv ==
    /\ request \in [Slots -> RequestState]
    /\ \A s \in Slots : Sound(request[s], repos, created, hooks)
    /\ Room

\* A request stays sound while others change the tables: its number is not
\* given to another row.
LEMMA SoundKept ==
    ASSUME StoreInv, RowsKept, NEW r \in RequestState, Sound(r, repos, created, hooks)
    PROVE  Sound(r, repos', created', hooks')
BY DEF Sound, RowsKept, RequestState, StoreInv, StoreTypes, Ids

\* An idle request is sound, and has the type.
LEMMA IdleSound ==
    /\ IdleRequest \in RequestState /\ IdleRequest.pc = "idle" /\ IdleRequest.id = 0
    /\ \A rs, hs : \A n \in Nat : Sound(IdleRequest, rs, n, hs)
BY PlacesAssumption DEF IdleRequest, RequestState, Sound, RegisterPCs, OtherPCs, Asks

\* What going on to another point leaves of a request.
LEMMA RequestFields ==
    ASSUME NEW r \in RequestState, NEW pc \in PCs
    PROVE  LET next == [r EXCEPT !.pc = pc] IN
           /\ next \in RequestState /\ next.pc = pc /\ next.id = r.id
           /\ next.place = r.place /\ next.token = r.token /\ next.ask = r.ask
BY DEF RequestState, PCs

\* A request that has created its row goes on with the row's number.
LEMMA CreatedFields ==
    ASSUME NEW r \in RequestState, NEW id \in 0..MaxRepositories
    PROVE  LET next == [r EXCEPT !.pc = "hook", !.id = id] IN
           /\ next \in RequestState /\ next.pc = "hook" /\ next.id = id
           /\ next.place = r.place /\ next.token = r.token
BY DEF RequestState, RegisterPCs

\* A request about a run goes on with its repository's place.
LEMMA PlacedFields ==
    ASSUME NEW r \in RequestState, NEW place \in Places
    PROVE  LET next == [r EXCEPT !.pc = "token", !.place = place] IN
           next \in RequestState /\ next.pc = "token" /\ next.id = r.id /\ next.place = place
BY DEF RequestState, OtherPCs
\* And with its token.
LEMMA TokenFields ==
    ASSUME NEW r \in RequestState, NEW token \in Sites
    PROVE  LET next == [r EXCEPT !.pc = "ask", !.token = token] IN
           /\ next \in RequestState /\ next.pc = "ask" /\ next.id = r.id
           /\ next.place = r.place /\ next.token = token
BY DEF RequestState, OtherPCs

\* The registrations that may create a row are finitely many.
LEMMA RegisteringIsFinite ==
    IsFiniteSet(Registering) /\ Cardinality(Registering) \in Nat
<1>1. Registering \in SUBSET Slots /\ IsFiniteSet(Slots)
  BY RequestsAssumption DEF Registering
<1> QED
  BY <1>1, FS_Subset, FS_CardinalityType

\* No step takes the room of a registration in progress.
LEMMA RoomKept ==
    ASSUME StoreInv, Room, NEW s \in Slots,
           \/ created' = created /\ Registering' \subseteq Registering
           \/ created' = created /\ Registering' \subseteq Registering \union {s}
              /\ created + Cardinality(Registering) < MaxRepositories
           \/ created' = created + 1 /\ s \in Registering /\ Registering' \subseteq Registering \ {s}
    PROVE  Room'
<1> DEFINE before == Registering
           after == Registering'
<1>1. /\ created \in Nat /\ MaxRepositories \in Nat
      /\ IsFiniteSet(before) /\ Cardinality(before) \in Nat
  BY RegisteringIsFinite, PlacesAssumption DEF StoreInv, StoreTypes
<1>2. created + Cardinality(before) <= MaxRepositories
  BY DEF Room
<1>3. (created' + Cardinality(after) <= MaxRepositories) => Room'
  BY DEF Room
<1>4. \/ created' = created /\ after \subseteq before
      \/ created' = created /\ after \subseteq before \union {s}
         /\ created + Cardinality(before) < MaxRepositories
      \/ created' = created + 1 /\ s \in before /\ after \subseteq before \ {s}
  OBVIOUS
<1> HIDE DEF before, after
<1>5. CASE created' = created /\ after \subseteq before
  <2>1. Cardinality(after) \in Nat /\ Cardinality(after) <= Cardinality(before)
    BY <1>1, <1>5, FS_Subset, FS_CardinalityType
  <2> QED
    BY <1>1, <1>2, <1>3, <1>5, <2>1
<1>6. CASE created' = created /\ after \subseteq before \union {s}
           /\ created + Cardinality(before) < MaxRepositories
  <2>1. /\ IsFiniteSet(before \union {s})
        /\ Cardinality(before \union {s}) = IF s \in before THEN Cardinality(before)
                                                           ELSE Cardinality(before) + 1
    BY <1>1, FS_AddElement
  <2>2. Cardinality(after) \in Nat /\ Cardinality(after) <= Cardinality(before \union {s})
    BY <1>6, <2>1, FS_Subset, FS_CardinalityType
  <2> QED
    BY <1>1, <1>3, <1>6, <2>1, <2>2
<1>7. CASE created' = created + 1 /\ s \in before /\ after \subseteq before \ {s}
  <2>1. IsFiniteSet(before \ {s}) /\ Cardinality(before \ {s}) = Cardinality(before) - 1
    BY <1>1, <1>7, FS_RemoveElement
  <2>2. Cardinality(after) \in Nat /\ Cardinality(after) <= Cardinality(before \ {s})
    BY <1>7, <2>1, FS_Subset, FS_CardinalityType
  <2> QED
    BY <1>1, <1>2, <1>3, <1>7, <2>1, <2>2
<1> QED
  BY <1>4, <1>5, <1>6, <1>7

\* Every request is sound after a step that changes one of them, to next, and
\* leaves room for the others.
LEMMA RequestGoesOn ==
    ASSUME StoreInv, RequestInv, RowsKept, NEW s \in Slots, NEW next \in RequestState,
           request' = [request EXCEPT ![s] = next],
           Sound(next, repos', created', hooks'),
           \/ created' = created /\ (next.pc \in {"check", "create"} => request[s].pc \in {"check", "create"})
           \/ created' = created /\ created + Cardinality(Registering) < MaxRepositories
           \/ created' = created + 1 /\ request[s].pc = "create" /\ next.pc \notin {"check", "create"}
    PROVE  RequestInv'
<1>1. \A t \in Slots : request'[t] = IF t = s THEN next ELSE request[t]
  BY DEF RequestInv
<1>2. request' \in [Slots -> RequestState]
  BY DEF RequestInv
<1>3. \A t \in Slots : Sound(request'[t], repos', created', hooks')
  BY <1>1, SoundKept DEF RequestInv
<1>4. Room'
  <2>1. \/ created' = created /\ Registering' \subseteq Registering
        \/ created' = created /\ Registering' \subseteq Registering \union {s}
           /\ created + Cardinality(Registering) < MaxRepositories
        \/ created' = created + 1 /\ s \in Registering /\ Registering' \subseteq Registering \ {s}
    BY <1>1 DEF Registering
  <2> QED
    BY <2>1, RoomKept DEF RequestInv
<1> QED
  BY <1>2, <1>3, <1>4 DEF RequestInv

\* Every request is sound after a step that changes none, or ends all.
LEMMA RequestsStay ==
    ASSUME StoreInv, RequestInv, RowsKept, created' = created,
           UNCHANGED request \/ request' = [t \in Slots |-> IdleRequest]
    PROVE  RequestInv'
<1>1. request' \in [Slots -> RequestState]
  BY IdleSound DEF RequestInv
<1>2. \A t \in Slots : Sound(request'[t], repos', created', hooks')
  <2>1. created' \in Nat
    BY PlacesAssumption DEF StoreInv, StoreTypes
  <2>2. CASE UNCHANGED request
    <3>1. \A t \in Slots : Sound(request[t], repos', created', hooks')
      BY SoundKept DEF RequestInv
    <3> QED
      BY <2>2, <3>1
  <2>3. CASE request' = [t \in Slots |-> IdleRequest]
    BY <2>1, <2>3, IdleSound
  <2> QED
    BY <2>2, <2>3
<1>3. Room'
  <2>1. Registering' \subseteq Registering
    BY IdleSound DEF Registering
  <2>2. CASE Slots = {}
    <3>1. Registering' = Registering
      BY <2>2 DEF Registering
    <3> QED
      BY <3>1 DEF RequestInv, Room
  <2> QED
    BY <2>1, <2>2, RoomKept DEF RequestInv
<1> QED
  BY <1>1, <1>2, <1>3 DEF RequestInv

-----------------------------------------------------------------------------
(* The reconciler's pass.                                                    *)

PassInv ==
    /\ PassTypes
    /\ pass.pc = "list" => pass.repo \in RepoRow /\ pass.repo.token = Site(pass.repo.place)

\* The pass goes on to a repository it has not polled, or ends.
LEMMA NextOfTyped ==
    ASSUME NEW todo \in SUBSET Ids
    PROVE  /\ NextOf(todo) \in [pc: {"idle", "token", "list", "store"}, id: 0..MaxRepositories,
                                todo: SUBSET Ids, repo: RepoRow \union {NoRepo}]
           /\ NextOf(todo).pc # "list"
<1>1. MaxRepositories \in Nat
  BY PlacesAssumption
<1>2. CASE todo = {}
  BY <1>1, <1>2 DEF NextOf, IdlePass
<1>3. CASE todo # {}
  <2> DEFINE least == CHOOSE i \in todo : \A j \in todo : i <= j
  <2>1. least \in todo
    <3>1. todo \in SUBSET Nat
      BY DEF Ids
    <3> QED
      BY <1>3, <3>1, LeastNumber
  <2>2. NextOf(todo) = [pc |-> "token", todo |-> todo, repo |-> NoRepo, id |-> least]
    BY <1>3 DEF NextOf
  <2> HIDE DEF least
  <2> QED
    BY <1>1, <2>1, <2>2 DEF Ids
<1> QED
  BY <1>2, <1>3

\* A step of the pass keeps its part of the state.
LEMMA PassKept == StoreInv /\ PassInv /\ [Next]_vars => PassInv'
<1> SUFFICES ASSUME StoreInv, PassInv, [Next]_vars PROVE PassInv'
  OBVIOUS
<1> DEFINE State == [pc: {"idle", "token", "list", "store"}, id: 0..MaxRepositories,
                     todo: SUBSET Ids, repo: RepoRow \union {NoRepo}]
<1>1. pass \in State /\ pass.todo \subseteq Ids
  BY DEF PassInv, PassTypes
<1>2. ASSUME NEW todo \in SUBSET Ids, pass' = NextOf(todo)
      PROVE  PassInv'
  BY <1>2, NextOfTyped DEF PassInv, PassTypes
<1>3. NextOf({}) = IdlePass
  BY DEF NextOf
<1>4. \A failed : Rest(pass, failed) = NextOf(pass.todo \ {pass.id})
  BY DEF Rest
<1>5. CASE UNCHANGED pass
  BY <1>5 DEF PassInv, PassTypes
<1>6. CASE pass' = IdlePass
  BY <1>2, <1>3, <1>6
<1>7. CASE BeginPass
  BY <1>2, <1>7 DEF BeginPass, TrackedIds
<1>8. CASE PassReadToken
  <2>1. CASE Tracked(pass.id)
    <3>1. repos[pass.id] \in RepoRow /\ repos[pass.id].token = Site(repos[pass.id].place)
      BY <2>1, StoreInvParts DEF RowOK, Tracked
    <3>2. pass' = [pass EXCEPT !.pc = "list", !.repo = repos[pass.id]]
      BY <1>8, <2>1 DEF PassReadToken
    <3>3. pass' \in State /\ pass'.repo = repos[pass.id]
      BY <1>1, <3>1, <3>2
    <3> QED
      BY <3>1, <3>3 DEF PassInv, PassTypes
  <2>2. CASE ~Tracked(pass.id)
    BY <1>1, <1>2, <1>4, <1>8, <2>2 DEF PassReadToken
  <2> QED
    BY <2>1, <2>2
<1>9. CASE PassList
  <2>1. CASE pass' = [pass EXCEPT !.pc = "store", !.repo = NoRepo]
    <3>1. pass' \in State /\ pass'.pc = "store"
      BY <1>1, <2>1
    <3> QED
      BY <3>1 DEF PassInv, PassTypes
  <2>2. CASE \E failed \in BOOLEAN : pass' = Rest(pass, failed)
    BY <1>1, <1>2, <1>4, <2>2
  <2> QED
    BY <1>9, <2>1, <2>2 DEF PassList
<1>10. CASE PassStore
  BY <1>1, <1>2, <1>4, <1>10 DEF PassStore
<1>11. UNCHANGED pass \/ pass' = IdlePass \/ PassStep
  BY DEF Next, vars, RequestArrives, RequestDoes, RequestCutShort, DeliveryArrives, ShortRequest,
         Pass, PatchArrives, PatchDoes, Signal, Shutdown, Stop, Crash, Start, Gone, Process, Receive
<1> QED
  BY <1>5, <1>6, <1>7, <1>8, <1>9, <1>10, <1>11 DEF PassStep

-----------------------------------------------------------------------------
(* What each step does to the tables, the webhooks and the requests.          *)

\* Before a step, what the invariants say.
Sane == StoreInv /\ RequestInv /\ PassInv

\* After it: the tables moved as they may, and the requests are sound.
Good == StoreMove /\ RequestInv'

\* A step that changes the tables as they may and one request.
LEMMA GoodStep ==
    ASSUME Sane, StoreMove, NEW s \in Slots, NEW next \in RequestState,
           request' = [request EXCEPT ![s] = next],
           Sound(next, repos', created', hooks'),
           \/ created' = created /\ (next.pc \in {"check", "create"} => request[s].pc \in {"check", "create"})
           \/ created' = created /\ created + Cardinality(Registering) < MaxRepositories
           \/ created' = created + 1 /\ request[s].pc = "create" /\ next.pc \notin {"check", "create"}
    PROVE  Good
BY StoreKept, RequestGoesOn DEF Sane, Good

\* A step that changes the tables as they may and answers a request, or none.
LEMMA GoodEnd ==
    ASSUME Sane, StoreMove, created' = created,
           \/ UNCHANGED request
           \/ \E s \in Slots : request' = [request EXCEPT ![s] = IdleRequest]
           \/ request' = [t \in Slots |-> IdleRequest]
    PROVE  Good
<1>1. RowsKept
  BY StoreKept DEF Sane
<1>2. CASE \E s \in Slots : request' = [request EXCEPT ![s] = IdleRequest]
  <2>1. PICK s \in Slots : request' = [request EXCEPT ![s] = IdleRequest]
    BY <1>2
  <2>2. created' \in Nat
    BY PlacesAssumption DEF Sane, StoreInv, StoreTypes
  <2>3. Sound(IdleRequest, repos', created', hooks') /\ IdleRequest \in RequestState
        /\ IdleRequest.pc \notin {"check", "create"}
    BY <2>2, IdleSound
  <2> QED
    BY <2>1, <2>3, GoodStep
<1>3. CASE UNCHANGED request \/ request' = [t \in Slots |-> IdleRequest]
  BY <1>1, <1>3, RequestsStay DEF Sane, Good
<1> QED
  BY <1>2, <1>3

\* A request that goes on in Tables as they are.
LEMMA GoodGo ==
    ASSUME Sane, NEW s \in Slots, NEW next \in RequestState, UNCHANGED <<storeVars, hooks>>,
           request' = [request EXCEPT ![s] = next],
           Sound(next, repos, created, hooks),
           \/ (next.pc \in {"check", "create"} => request[s].pc \in {"check", "create"})
           \/ created + Cardinality(Registering) < MaxRepositories
    PROVE  Good
<1>1. UNCHANGED <<repos, created, hooks>> /\ StoreMove
  BY DEF StoreMove, storeVars
<1>2. Sound(next, repos', created', hooks')
  BY <1>1
<1> QED
  BY <1>1, <1>2, GoodStep

\* Registration: each of its statements and calls.
LEMMA RegistrationGood ==
    ASSUME Sane, NEW s \in Slots, RegistrationStep(s)
    PROVE  Good
<1> DEFINE r == request[s]
<1>1. r \in RequestState /\ Sound(r, repos, created, hooks)
  BY DEF Sane, RequestInv
<1>2. /\ created \in Nat /\ created <= MaxRepositories /\ MaxRepositories \in Nat
      /\ repos \in [Ids -> RepoRow \union {NoRepo}]
  BY PlacesAssumption DEF Sane, StoreInv, StoreTypes
<1>3. CASE CheckRepo(s)
  <2>1. CASE Answer(s)
    BY <1>3, <2>1, GoodEnd DEF CheckRepo, Answer, StoreMove, storeVars
  <2>2. CASE Goto(s, "create")
    <3> DEFINE next == [r EXCEPT !.pc = "create"]
    <3>1. next \in RequestState /\ next.pc = "create" /\ next.id = r.id /\ next.place = r.place /\ next.token = r.token
      BY <1>1, RequestFields DEF PCs, RegisterPCs
    <3>2. request' = [request EXCEPT ![s] = next]
      BY <2>2 DEF Goto
    <3>3. r.pc = "check" /\ UNCHANGED <<storeVars, hooks>>
      BY <1>3 DEF CheckRepo
    <3> HIDE DEF next
    <3>4. Sound(next, repos, created, hooks)
      BY <1>1, <3>1, <3>3 DEF Sound, RegisterPCs
    <3> QED
      BY <3>1, <3>2, <3>3, <3>4, GoodGo
  <2> QED
    BY <1>3, <2>1, <2>2 DEF CheckRepo
<1>4. CASE CreateRepo(s)
  <2>1. CASE Answer(s) /\ UNCHANGED storeVars
    BY <1>4, <2>1, GoodEnd DEF CreateRepo, Answer, StoreMove, storeVars
  <2>2. CASE /\ Insert(created + 1, r.place, r.token)
             /\ request' = [request EXCEPT ![s].pc = "hook", ![s].id = created + 1]
    <3> DEFINE next == [r EXCEPT !.pc = "hook", !.id = created + 1]
    <3>1. r.pc = "create" /\ UNCHANGED hooks
      BY <1>4 DEF CreateRepo
    <3>2. r.place \in Places /\ r.token = Site(r.place)
      BY <1>1, <3>1 DEF Sound, RegisterPCs
    <3>3. created < MaxRepositories
      <4>1. s \in Registering
        BY <3>1 DEF Registering
      <4>2. Cardinality(Registering) # 0 /\ Cardinality(Registering) \in Nat
        BY <4>1, RegisteringIsFinite, FS_EmptySet
      <4> QED
        BY <1>2, <4>2 DEF Sane, RequestInv, Room
    <3>4. next \in RequestState /\ next.pc = "hook" /\ next.id = created + 1 /\ next.place = r.place /\ next.token = r.token
      <4>1. created + 1 \in 0..MaxRepositories
        BY <1>2, <3>3
      <4> QED
        BY <1>1, <4>1, CreatedFields
    <3>5. request' = [request EXCEPT ![s] = next]
      BY <2>2 DEF Sane, RequestInv
    <3>6. StoreMove
      BY <2>2, <3>1, <3>2, <3>3 DEF StoreMove
    <3>7. created' = created + 1 /\ created + 1 \in Ids /\ hooks' = hooks
          /\ repos'[created + 1] = NewRow(r.place, r.token, "pending")
      BY <1>2, <2>2, <3>1, <3>3 DEF Insert, Ids
    <3> HIDE DEF next
    <3>8. Sound(next, repos', created', hooks')
      BY <1>2, <3>2, <3>4, <3>7 DEF Sound, RegisterPCs, NewRow
    <3> QED
      BY <3>1, <3>4, <3>5, <3>6, <3>7, <3>8, GoodStep
  <2> QED
    BY <1>4, <2>1, <2>2 DEF CreateRepo
<1>5. CASE CreateWebhook(s)
  <2>1. r.pc = "hook" /\ UNCHANGED storeVars /\ hooks' \in {hooks, hooks \union {HookOf(s)}}
    BY <1>5 DEF CreateWebhook
  <2>2. r.place \in Places /\ r.id \in Ids /\ r.id <= created
        /\ (repos[r.id] # NoRepo => repos[r.id].place = r.place)
    BY <1>1, <2>1 DEF Sound, RegisterPCs
  <2>3. StoreMove
    BY <2>1, <2>2 DEF StoreMove, HookOf, Tracked
  <2>4. PICK pc \in {"activate", "degrade"} :
            Goto(s, pc) /\ (pc = "activate" => hooks' = hooks \union {HookOf(s)})
    BY <1>5 DEF CreateWebhook
  <2> DEFINE next == [r EXCEPT !.pc = pc]
  <2>5. next \in RequestState /\ next.pc = pc /\ next.id = r.id /\ next.place = r.place /\ next.token = r.token
    BY <1>1, RequestFields DEF PCs, RegisterPCs
  <2>6. request' = [request EXCEPT ![s] = next]
    BY <2>4 DEF Goto
  <2>7. UNCHANGED <<repos, created>>
    BY <2>1 DEF storeVars
  <2> HIDE DEF next
  <2>8. Sound(next, repos', created', hooks')
    BY <2>2, <2>4, <2>5, <2>7 DEF Sound, RegisterPCs, HookOf
  <2> QED
    BY <2>3, <2>4, <2>5, <2>6, <2>7, <2>8, GoodStep
<1>6. CASE Activate(s)
  <2>1. r.pc = "activate" /\ SetStatus(r.id, "active") /\ Answer(s) /\ UNCHANGED hooks
    BY <1>6 DEF Activate
  <2>2. r.id \in Ids /\ (Tracked(r.id) => Hook(repos[r.id].place, r.id) \in hooks)
    BY <1>1, <2>1 DEF Sound, Tracked
  <2>3. StoreMove
    BY <2>1, <2>2 DEF StoreMove, SetStatus, storeVars
  <2> QED
    BY <2>1, <2>3, GoodEnd DEF SetStatus, Answer
<1>7. CASE Degrade(s)
  <2>1. r.pc = "degrade" /\ SetStatus(r.id, "degraded") /\ Answer(s) /\ UNCHANGED hooks
    BY <1>7 DEF Degrade
  <2>2. StoreMove
    BY <1>1, <2>1 DEF StoreMove, Sound
  <2> QED
    BY <2>1, <2>2, GoodEnd DEF SetStatus, Answer
<1> QED
  BY <1>3, <1>4, <1>5, <1>6, <1>7 DEF RegistrationStep

\* A given token and a saved one are the place's instance's.
LEMMA TokensFit ==
    ASSUME StoreInv, NEW p \in Places, NEW given \in BOOLEAN, NEW t \in TokensFor(p, given)
    PROVE  t = Site(p) /\ t \in Sites
<1>1. Site(p) \in Sites /\ TokenScope(p) = Site(p)
  BY DEF Site, Sites, TokenScope
<1>2. CASE given
  BY <1>1, <1>2 DEF TokensFor
<1>3. CASE ~given
  <2>1. PICK x \in saved : x.scope = TokenScope(p) /\ t = x.token
    BY <1>3 DEF TokensFor, SavedFor
  <2> QED
    BY <1>1, <2>1 DEF StoreInv
<1> QED
  BY <1>2, <1>3

\* A request of a place as it begins, and what it begins with.
At(pc, p, t) == [IdleRequest EXCEPT !.pc = pc, !.place = p, !.token = t]
LEMMA PlaceBegun ==
    ASSUME NEW pc \in {"check", "ask"}, NEW p \in Places, NEW t \in Sites
    PROVE  /\ At(pc, p, t) \in RequestState
           /\ At(pc, p, t).pc = pc /\ At(pc, p, t).id = 0
           /\ At(pc, p, t).place = p /\ At(pc, p, t).token = t
<1>1. IdleRequest \in RequestState /\ IdleRequest.id = 0
  BY IdleSound
<1> QED
  BY <1>1 DEF At, RequestState, RegisterPCs, OtherPCs
\* The same of a request about a run.
LEMMA RunBegun ==
    ASSUME NEW i \in Ids, NEW ask \in Asks
    PROVE  LET next == [IdleRequest EXCEPT !.pc = "getRepo", !.id = i, !.ask = ask] IN
           next \in RequestState /\ next.pc = "getRepo" /\ next.id = i
<1>1. IdleRequest \in RequestState /\ i \in 0..MaxRepositories
  BY IdleSound, PlacesAssumption DEF Ids
<1> QED
  BY <1>1 DEF RequestState, OtherPCs

\* And of a delivery that was taken.
LEMMA ProcessBegun ==
    ASSUME NEW i \in Ids
    PROVE  LET next == [IdleRequest EXCEPT !.pc = "process", !.id = i] IN
           next \in RequestState /\ next.pc = "process" /\ next.id = i
<1>1. IdleRequest \in RequestState /\ i \in 0..MaxRepositories
  BY IdleSound, PlacesAssumption DEF Ids
<1> QED
  BY <1>1 DEF RequestState, OtherPCs

\* A request arrives.
LEMMA ArrivalGood ==
    ASSUME Sane, NEW s \in Slots, RequestArrives(s)
    PROVE  Good
<1>1. /\ UNCHANGED <<storeVars, hooks>>
      /\ \/ \E p \in Places, given \in BOOLEAN : Register(s, p, given)
         \/ \E i \in Ids, a \in Actions : BeginAction(s, i, a)
         \/ \E i \in Ids : BeginLog(s, i)
         \/ \E p \in Places, given \in BOOLEAN : BeginDiscover(s, p, given)
  BY DEF RequestArrives, Register, BeginAction, BeginLog, BeginDiscover
<1>2. created \in Nat /\ MaxRepositories \in Nat /\ runs \subseteq Ids
      /\ \A i \in runs : i <= created
  BY PlacesAssumption DEF Sane, StoreInv, StoreTypes, NoOrphanRuns, TrackedIds, Tracked
<1>3. ASSUME NEW p \in Places, NEW given \in BOOLEAN, Register(s, p, given)
      PROVE  Good
  <2>1. PICK t \in TokensFor(p, given) :
            Begin(s, [IdleRequest EXCEPT !.pc = "check", !.place = p, !.token = t])
    BY <1>3 DEF Register
  <2> DEFINE next == At("check", p, t)
  <2>2. t = Site(p)
    BY TokensFit DEF Sane
  <2>3. t \in Sites
    BY TokensFit DEF Sane
  <2>4. request' = [request EXCEPT ![s] = next]
    BY <2>1 DEF Begin, At
  <2>5. next \in RequestState /\ next.pc = "check" /\ next.id = 0 /\ next.place = p /\ next.token = t
    BY <2>3, PlaceBegun
  <2> HIDE DEF next
  <2>6. Sound(next, repos, created, hooks)
    BY <1>2, <2>2, <2>5 DEF Sound, RegisterPCs
  <2>7. created + Cardinality(Registering) < MaxRepositories
    BY <1>3 DEF Register
  <2> QED
    BY <1>1, <2>4, <2>5, <2>6, <2>7, GoodGo
<1>4. ASSUME NEW i \in runs, NEW ask \in Asks,
             Begin(s, [IdleRequest EXCEPT !.pc = "getRepo", !.id = i, !.ask = ask])
      PROVE  Good
  <2> DEFINE next == [IdleRequest EXCEPT !.pc = "getRepo", !.id = i, !.ask = ask]
  <2>1. request' = [request EXCEPT ![s] = next]
    BY <1>4 DEF Begin
  <2>2. next \in RequestState /\ next.pc = "getRepo" /\ next.id = i
    BY <1>2, RunBegun
  <2> HIDE DEF next
  <2>3. Sound(next, repos, created, hooks)
    BY <1>2, <2>2 DEF Sound, RegisterPCs
  <2> QED
    BY <1>1, <2>1, <2>2, <2>3, GoodGo
<1>5. ASSUME NEW i \in Ids, NEW a \in Actions, BeginAction(s, i, a)
      PROVE  Good
  BY <1>4, <1>5 DEF BeginAction, RunByID, Asks
<1>6. ASSUME NEW i \in Ids, BeginLog(s, i)
      PROVE  Good
  BY <1>4, <1>6 DEF BeginLog, LocateJob, Asks
<1>7. ASSUME NEW p \in Places, NEW given \in BOOLEAN, BeginDiscover(s, p, given)
      PROVE  Good
  <2>1. PICK t \in TokensFor(p, given) :
            Begin(s, [IdleRequest EXCEPT !.pc = "ask", !.place = p, !.token = t])
    BY <1>7 DEF BeginDiscover
  <2> DEFINE next == At("ask", p, t)
  <2>2. t = Site(p)
    BY TokensFit DEF Sane
  <2>3. t \in Sites
    BY TokensFit DEF Sane
  <2>4. request' = [request EXCEPT ![s] = next]
    BY <2>1 DEF Begin, At
  <2>5. next \in RequestState /\ next.pc = "ask" /\ next.id = 0 /\ next.place = p /\ next.token = t
    BY <2>3, PlaceBegun
  <2> HIDE DEF next
  <2>6. Sound(next, repos, created, hooks)
    BY <1>2, <2>2, <2>5 DEF Sound, RegisterPCs
  <2> QED
    BY <1>1, <2>4, <2>5, <2>6, GoodGo
<1> QED
  BY <1>1, <1>3, <1>5, <1>6, <1>7

\* A request about a run goes on.
LEMMA RunRequestGood ==
    ASSUME Sane, NEW s \in Slots, RunRequestStep(s)
    PROVE  Good
<1> DEFINE r == request[s]
<1>1. r \in RequestState /\ Sound(r, repos, created, hooks) /\ created \in Nat
  BY PlacesAssumption DEF Sane, RequestInv, StoreInv, StoreTypes
<1>2. UNCHANGED <<storeVars, hooks>>
  BY DEF RunRequestStep, GetActionRepo, GetLogRepo, GetRepo, ReadToken, PostRunAction, JobLogTail, Discover, Ask
<1>3. CASE Answer(s)
  BY <1>2, <1>3, GoodEnd DEF Answer, StoreMove, storeVars
<1>4. CASE \E served \in SUBSET Forges : GetRepo(s, served) /\ ~Answer(s)
  <2> DEFINE place == repos[r.id].place
             next == [r EXCEPT !.pc = "token", !.place = place]
  <2>1. Tracked(r.id) /\ request' = [request EXCEPT ![s].pc = "token", ![s].place = place]
    BY <1>4 DEF GetRepo
  <2>2. place \in Places
    BY <2>1, RowsTyped DEF Sane, StoreInv, StoreTypes, Tracked
  <2>3. request' = [request EXCEPT ![s] = next]
    BY <2>1 DEF Sane, RequestInv
  <2> HIDE DEF place
  <2>4. next \in RequestState /\ next.pc = "token" /\ next.id = r.id /\ next.place = place
    BY <1>1, <2>2, PlacedFields
  <2> HIDE DEF next
  <2>5. Sound(next, repos, created, hooks)
    BY <1>1, <2>2, <2>4 DEF Sound, RegisterPCs, place
  <2> QED
    BY <1>2, <2>3, <2>4, <2>5, GoodGo
<1>5. CASE ReadToken(s) /\ ~Answer(s)
  <2> DEFINE token == repos[r.id].token
             next == [r EXCEPT !.pc = "ask", !.token = token]
  <2>1. r.pc = "token" /\ Tracked(r.id) /\ request' = [request EXCEPT ![s].pc = "ask", ![s].token = token]
    BY <1>5 DEF ReadToken
  <2>2. token \in Sites /\ token = Site(repos[r.id].place) /\ repos[r.id].place = r.place /\ r.place \in Places
    BY <1>1, <2>1, StoreInvParts DEF Sane, RowOK, RepoRow, Tracked, Sound
  <2>3. request' = [request EXCEPT ![s] = next]
    BY <2>1 DEF Sane, RequestInv
  <2> HIDE DEF token
  <2>4. next \in RequestState /\ next.pc = "ask" /\ next.id = r.id /\ next.place = r.place /\ next.token = token
    BY <1>1, <2>2, TokenFields
  <2> HIDE DEF next
  <2>5. Sound(next, repos, created, hooks)
    BY <1>1, <2>2, <2>4 DEF Sound, RegisterPCs
  <2> QED
    BY <1>2, <2>3, <2>4, <2>5, GoodGo
<1> QED
  BY <1>3, <1>4, <1>5 DEF RunRequestStep, GetActionRepo, GetLogRepo, PostRunAction, JobLogTail, Discover, Ask

\* Every other step answers a request, or none, or ends all.
LEMMA OtherStepsGood ==
    ASSUME Sane, [Next]_vars,
           ~ \E s \in Slots : RequestArrives(s) \/ RegistrationStep(s) \/ RunRequestStep(s)
    PROVE  Good
<1> DEFINE Ends == \/ UNCHANGED request
                   \/ \E s \in Slots : request' = [request EXCEPT ![s] = IdleRequest]
                   \/ request' = [t \in Slots |-> IdleRequest]
<1>1. ASSUME UNCHANGED <<storeVars, hooks>>, Ends
      PROVE  Good
  BY <1>1, GoodEnd DEF StoreMove, storeVars
<1>2. ASSUME NEW s \in Slots, Process(s)
      PROVE  Good
  <2>1. request[s].id \in Int
    BY DEF Sane, RequestInv, RequestState
  <2>2. StoreMove /\ created' = created
    BY <1>2, <2>1 DEF Process, StoreMove, StoreRun, storeVars
  <2> QED
    BY <1>2, <2>2, GoodEnd DEF Process, Answer
<1>3. ASSUME NEW s \in Slots, RequestCutShort(s)
      PROVE  Good
  <2> DEFINE r == request[s]
  <2>1. UNCHANGED storeVars /\ request' = [request EXCEPT ![s] = IdleRequest]
        /\ hooks' \in IF r.pc = "hook" THEN {hooks, hooks \union {HookOf(s)}} ELSE {hooks}
    BY <1>3 DEF RequestCutShort, CutShort
  <2>2. r.pc = "hook" => /\ r.place \in Places /\ r.id \in Ids /\ r.id <= created
                         /\ (repos[r.id] # NoRepo => repos[r.id].place = r.place)
    BY DEF Sane, RequestInv, Sound, RegisterPCs
  <2>3. StoreMove
    BY <2>1, <2>2 DEF StoreMove, HookOf, Tracked
  <2> QED
    BY <2>1, <2>3, GoodEnd DEF storeVars
<1>4. ASSUME NEW s \in Slots, NEW h \in hooks, Receive(s, h)
      PROVE  Good
  <2>1. PICK i \in Takers(h) :
            request' = [request EXCEPT ![s] = [IdleRequest EXCEPT !.pc = "process", !.id = i]]
    BY <1>4 DEF Receive
  <2> DEFINE next == [IdleRequest EXCEPT !.pc = "process", !.id = i]
  <2>2. Tracked(i) /\ i \in Ids /\ i <= created
    BY StoreInvParts DEF Sane, Takers, RepoByIdentifier, TrackedIds, Tracked, RowOK
  <2>3. next \in RequestState /\ next.pc = "process" /\ next.id = i
    BY <2>2, ProcessBegun
  <2>4. request' = [request EXCEPT ![s] = next]
    BY <2>1
  <2> HIDE DEF next
  <2>5. Sound(next, repos, created, hooks)
    BY <2>2, <2>3 DEF Sound, RegisterPCs
  <2> QED
    BY <1>4, <2>3, <2>4, <2>5, GoodGo DEF Receive
<1>5. CASE ShortRequest
  <2>1. StoreMove /\ UNCHANGED request /\ created' = created
    BY <1>5 DEF ShortRequest, StoreMove, UntrackRepo, SaveToken, DeleteToken, DeleteRepo,
                SaveForgeToken, DeleteForgeToken
  <2> QED
    BY <2>1, GoodEnd
<1>6. CASE Pass
  <2>1. pass.id \in Int
    BY DEF Sane, PassInv, PassTypes
  <2>2. StoreMove /\ UNCHANGED request /\ created' = created
    BY <1>6, <2>1 DEF Pass, PassStep, BeginPass, PassReadToken, PassList, PassStore, StoreMove,
                      StoreRun, requestVars, storeVars
  <2> QED
    BY <2>2, GoodEnd
<1>7. CASE Stop \/ Crash
  BY <1>1, <1>7 DEF Stop, Crash, Gone
<1>8. CASE \/ \E e \in Editors : PatchArrives(e) \/ PatchDoes(e)
           \/ Signal \/ Shutdown \/ Start \/ UNCHANGED vars
  BY <1>1, <1>8 DEF PatchArrives, PatchDoes, Signal, Shutdown, Start, requestVars, vars
<1>9. \/ \E s \in Slots : Process(s) \/ RequestCutShort(s) \/ \E h \in hooks : Receive(s, h)
      \/ ShortRequest \/ Pass \/ Stop \/ Crash
      \/ \E e \in Editors : PatchArrives(e) \/ PatchDoes(e)
      \/ Signal \/ Shutdown \/ Start \/ UNCHANGED vars
  BY DEF Next, RequestDoes, DeliveryArrives
<1> QED
  BY <1>2, <1>3, <1>4, <1>5, <1>6, <1>7, <1>8, <1>9

\* So every step is good.
LEMMA EveryStepGood == Sane /\ [Next]_vars => Good
BY ArrivalGood, RegistrationGood, RunRequestGood, OtherStepsGood

\* Every step keeps what the invariants say.
LEMMA SaneKept == Sane /\ [Next]_vars => Sane'
BY EveryStepGood, StoreKept, PassKept DEF Sane, Good

\* At first the tables, the webhooks, the requests and the pass are sane.
LEMMA SaneAtFirst == Init => Sane
<1> SUFFICES ASSUME Init PROVE Sane
  OBVIOUS
<1>1. MaxRepositories \in Nat /\ Installed \subseteq Places /\ (Installed # {} => 1 \in Ids)
  BY PlacesAssumption DEF Ids
<1>2. saved = {} /\ runs = {}
  BY DEF Init, StoreInit
<1>3. StoreInv
  <2>1. CASE repos = [i \in Ids |-> NoRepo] /\ created = 0 /\ hooks = {}
    BY <1>1, <1>2, <2>1, StoreInvParts DEF StoreTypes, NoOrphanRuns
  <2>2. CASE \E p \in Installed :
               /\ repos = [i \in Ids |-> IF i = 1 THEN NewRow(p, Site(p), "active") ELSE NoRepo]
               /\ created = 1
               /\ hooks = {Hook(p, 1)}
    <3>1. PICK p \in Installed :
               /\ repos = [i \in Ids |-> IF i = 1 THEN NewRow(p, Site(p), "active") ELSE NoRepo]
               /\ created = 1
               /\ hooks = {Hook(p, 1)}
      BY <2>2
    <3> DEFINE row == NewRow(p, Site(p), "active")
    <3>2. p \in Places /\ row \in RepoRow /\ 1 \in Ids
      BY <1>1, RowsTyped DEF RepoStatuses
    <3>3. row.place = p /\ row.token = Site(p)
      BY DEF NewRow
    <3> HIDE DEF row
    <3>4. repos = [i \in Ids |-> IF i = 1 THEN row ELSE NoRepo]
      BY <3>1 DEF row
    <3>5. StoreTypes
      BY <1>1, <1>2, <3>1, <3>2, <3>4 DEF StoreTypes, Ids
    <3>6. \A i \in Ids : repos[i] = NoRepo \/ RowOK(i, repos[i], created, hooks)
      BY <3>1, <3>2, <3>3, <3>4 DEF RowOK
    <3>7. \A h \in hooks : h.secret <= created /\ (Tracked(h.secret) => h.site = Site(repos[h.secret].place))
      BY <3>1, <3>2, <3>3, <3>4, HookFields
    <3> QED
      BY <1>2, <3>5, <3>6, <3>7, StoreInvParts DEF NoOrphanRuns
  <2> QED
    BY <2>1, <2>2 DEF Init, StoreInit
<1>4. RequestInv
  <2>1. request = [s \in Slots |-> IdleRequest]
    BY DEF Init, RegistrationInit
  <2>2. created \in Nat /\ created <= MaxRepositories
    BY <1>1, <1>3 DEF StoreInv, StoreTypes
  <2>3. Registering = {}
    BY <2>1, IdleSound DEF Registering
  <2>4. Room
    BY <2>2, <2>3, FS_EmptySet DEF Room
  <2> QED
    BY <2>1, <2>2, <2>4, IdleSound DEF RequestInv
<1>5. PassInv
  BY <1>1 DEF Init, TrackingInit, IdlePass, PassInv, PassTypes
<1> QED
  BY <1>3, <1>4, <1>5 DEF Sane

\* So they are in every behaviour.
LEMMA SaneAlways == Spec => []Sane
BY SaneAtFirst, SaneKept, PTL DEF Spec

-----------------------------------------------------------------------------
(* Pending repositories.                                                     *)

Pending(row) == row # NoRepo /\ row.status = "pending"

\* The registration of a slot's request is in progress on row i.
RegistersRow(r, i) == r.id = i /\ r.pc \in RegisterPCs

\* A row whose status was set is not pending, be it there or not.
LEMMA StatusSet ==
    ASSUME StoreInv, NEW i \in Ids, NEW status \in {"active", "degraded"}, SetStatus(i, status)
    PROVE  ~Pending(repos'[i])
<1>1. repos \in [Ids -> RepoRow \union {NoRepo}]
  BY DEF StoreInv, StoreTypes
<1>2. CASE ~Tracked(i)
  BY <1>2 DEF SetStatus, Tracked, Pending
<1>3. CASE Tracked(i)
  <2> DEFINE row == [repos[i] EXCEPT !.status = status]
  <2>1. row.status = status
    BY <1>1, <1>3, RowsTyped DEF RepoStatuses, Tracked
  <2>2. repos' = [repos EXCEPT ![i] = row]
    BY <1>1, <1>3 DEF SetStatus
  <2> HIDE DEF row
  <2> QED
    BY <1>1, <2>1, <2>2 DEF Pending
<1> QED
  BY <1>2, <1>3

\* Only CreateRepo makes a row pending.
LEMMA PendingRows ==
    ASSUME StoreInv, StoreMove, NEW i \in Ids, Pending(repos'[i])
    PROVE  Pending(repos[i]) \/ (i = created + 1 /\ created' = created + 1)
<1>1. repos \in [Ids -> RepoRow \union {NoRepo}]
  BY DEF StoreInv, StoreTypes
<1>2. CASE UNCHANGED repos
  BY <1>2
<1>3. ASSUME NEW p \in Places, Insert(created + 1, p, Site(p))
      PROVE  Pending(repos[i]) \/ (i = created + 1 /\ created' = created + 1)
  BY <1>1, <1>3 DEF Insert
<1>4. ASSUME NEW j \in Ids, NEW status \in {"active", "degraded"}, SetStatus(j, status)
      PROVE  Pending(repos[i])
  <2>1. i # j
    BY <1>4, StatusSet
  <2>2. repos'[i] = repos[i]
    BY <1>1, <1>4, <2>1 DEF SetStatus
  <2> QED
    BY <2>2
<1>5. ASSUME NEW j \in Ids, DeleteRepo(j)
      PROVE  Pending(repos[i])
  BY <1>1, <1>5 DEF DeleteRepo, Pending
<1> QED
  BY <1>2, <1>3, <1>4, <1>5 DEF StoreMove, StoreRun, SaveForgeToken, DeleteForgeToken, storeVars

\* What was explained stays so if a registration goes on, has set the status or is
\* cut short.
LEMMA ExplainedStays ==
    ASSUME Sane, PendingIsExplained, StoreMove, cut \subseteq cut',
           \A i \in Ids : Pending(repos'[i]) =>
               \/ \E s \in Slots : RegistersRow(request'[s], i)
               \/ /\ i # created + 1 \/ created' # created + 1
                  /\ \A s \in Slots : RegistersRow(request[s], i) => i \in cut'
    PROVE  PendingIsExplained'
<1> SUFFICES ASSUME NEW i \in Ids, Pending(repos'[i])
             PROVE  i \in cut' \/ \E s \in Slots : RegistersRow(request'[s], i)
  BY DEF PendingIsExplained, TrackedIds, Tracked, Pending, RegistersRow
<1>1. CASE \E s \in Slots : RegistersRow(request'[s], i)
  BY <1>1
<1>2. CASE /\ i # created + 1 \/ created' # created + 1
           /\ \A s \in Slots : RegistersRow(request[s], i) => i \in cut'
  <2>1. Pending(repos[i])
    BY <1>2, PendingRows DEF Sane
  <2>2. i \in cut \/ \E s \in Slots : RegistersRow(request[s], i)
    BY <2>1 DEF PendingIsExplained, TrackedIds, Tracked, Pending, RegistersRow
  <2> QED
    BY <1>2, <2>2
<1> QED
  BY <1>1, <1>2

\* A repository is pending only while it is being registered or when that was cut
\* short, whatever step is taken.
LEMMA PendingKept == Sane /\ PendingIsExplained /\ [Next]_vars => PendingIsExplained'
<1> SUFFICES ASSUME Sane, PendingIsExplained, [Next]_vars PROVE PendingIsExplained'
  OBVIOUS
<1>1. StoreMove /\ request \in [Slots -> RequestState] /\ created \in Nat
  BY EveryStepGood, PlacesAssumption DEF Good, Sane, RequestInv, StoreInv, StoreTypes
<1>2. ASSUME created' = created, cut \subseteq cut',
             \A s \in Slots, i \in Ids :
                RegistersRow(request[s], i) => RegistersRow(request'[s], i) \/ i \in cut'
      PROVE  PendingIsExplained'
  BY <1>1, <1>2, ExplainedStays
<1>3. ASSUME NEW s \in Slots, NEW next, created' = created, cut' = cut,
             request' = [request EXCEPT ![s] = next],
             request[s].pc \in RegisterPCs => request[s].id = 0
      PROVE  PendingIsExplained'
  <2>1. \A t \in Slots \ {s} : request'[t] = request[t]
    BY <1>1, <1>3
  <2>2. \A i \in Ids : ~RegistersRow(request[s], i)
    BY <1>3 DEF RegistersRow, Ids
  <2> QED
    BY <1>2, <1>3, <2>1, <2>2
<1>4. \A s \in Slots : IdleRequest.pc = "idle" /\ Sound(request[s], repos, created, hooks)
  BY IdleSound DEF Sane, RequestInv
<1>5. ASSUME NEW s \in Slots, RequestArrives(s)
      PROVE  PendingIsExplained'
  <2>1. PICK next : request[s].pc = "idle" /\ request' = [request EXCEPT ![s] = next] /\ cut' = cut /\ created' = created
    BY <1>5 DEF RequestArrives, Register, BeginAction, BeginLog, BeginDiscover, Begin, storeVars
  <2> QED
    BY <1>3, <2>1 DEF RegisterPCs
<1>6. ASSUME NEW s \in Slots, CheckRepo(s)
      PROVE  PendingIsExplained'
  <2>1. PICK next : request' = [request EXCEPT ![s] = next] /\ cut' = cut /\ created' = created
    BY <1>6 DEF CheckRepo, Answer, Goto, storeVars
  <2> QED
    BY <1>3, <1>4, <1>6, <2>1 DEF CheckRepo, Sound
<1>7. ASSUME NEW s \in Slots, CreateRepo(s)
      PROVE  PendingIsExplained'
  <2>1. request[s].pc = "create" /\ request[s].id = 0 /\ cut' = cut
    BY <1>4, <1>7 DEF CreateRepo, Answer, Sound
  <2>2. CASE Answer(s) /\ UNCHANGED storeVars
    BY <1>3, <2>1, <2>2 DEF Answer, storeVars
  <2>3. CASE /\ Insert(created + 1, request[s].place, request[s].token)
             /\ request' = [request EXCEPT ![s].pc = "hook", ![s].id = created + 1]
    <3>1. RegistersRow(request'[s], created + 1)
      <4>1. request[s] \in RequestState
        BY <1>1
      <4>2. request'[s] = [request[s] EXCEPT !.pc = "hook", !.id = created + 1]
        BY <1>1, <2>3
      <4> QED
        BY <4>1, <4>2 DEF RegistersRow, RegisterPCs, RequestState
    <3>2. \A t \in Slots \ {s} : request'[t] = request[t]
      BY <1>1, <2>3
    <3>3. \A i \in Ids : ~RegistersRow(request[s], i)
      BY <2>1 DEF RegistersRow, Ids
    <3>4. \A i \in Ids, t \in Slots : RegistersRow(request[t], i) => RegistersRow(request'[t], i)
      BY <3>2, <3>3
    <3> QED
      BY <1>1, <2>1, <3>1, <3>4, ExplainedStays
  <2> QED
    BY <1>7, <2>2, <2>3 DEF CreateRepo
<1>8. ASSUME NEW s \in Slots, CreateWebhook(s)
      PROVE  PendingIsExplained'
  <2>1. PICK pc \in {"activate", "degrade"} :
            request' = [request EXCEPT ![s].pc = pc] /\ cut' = cut /\ created' = created
    BY <1>8 DEF CreateWebhook, Goto, storeVars
  <2>2. request[s] \in RequestState /\ request'[s] = [request[s] EXCEPT !.pc = pc]
        /\ \A t \in Slots \ {s} : request'[t] = request[t]
    BY <1>1, <2>1
  <2>3. request'[s].id = request[s].id /\ request'[s].pc = pc
    BY <2>2, RequestFields DEF PCs, RegisterPCs
  <2>4. \A t \in Slots, i \in Ids : RegistersRow(request[t], i) => RegistersRow(request'[t], i)
    BY <2>2, <2>3 DEF RegistersRow, RegisterPCs
  <2> QED
    BY <1>2, <2>1, <2>4
<1>9. ASSUME NEW s \in Slots, Activate(s) \/ Degrade(s)
      PROVE  PendingIsExplained'
  <2> DEFINE j == request[s].id
  <2>1. PICK status \in {"active", "degraded"} : SetStatus(j, status) /\ Answer(s)
    BY <1>9 DEF Activate, Degrade
  <2>2. created' = created /\ cut' = cut /\ \A t \in Slots \ {s} : request'[t] = request[t]
    BY <1>1, <2>1 DEF SetStatus, Answer
  <2>3. j \in Ids => ~Pending(repos'[j])
    BY <2>1, StatusSet DEF Sane
  <2>4. \A i \in Ids, t \in Slots : Pending(repos'[i]) /\ RegistersRow(request[t], i) => RegistersRow(request'[t], i)
    BY <2>2, <2>3 DEF RegistersRow
  <2> QED
    BY <1>1, <2>2, <2>4, ExplainedStays
<1>10. ASSUME NEW s \in Slots, RunRequestStep(s) \/ Process(s) \/ \E h \in hooks : Receive(s, h)
       PROVE  PendingIsExplained'
  <2>1. request[s].pc \notin RegisterPCs
    BY <1>10 DEF RunRequestStep, GetActionRepo, GetLogRepo, GetRepo, ReadToken, PostRunAction, JobLogTail,
                 Discover, Ask, Process, Receive, RegisterPCs
  <2>2. created' = created /\ cut' = cut
    BY <1>10 DEF RunRequestStep, GetActionRepo, GetLogRepo, GetRepo, ReadToken, PostRunAction, JobLogTail,
                 Discover, Ask, Process, Receive, Answer, StoreRun, storeVars
  <2>3. \A t \in Slots \ {s} : request'[t] = request[t]
    BY <1>1, <1>10 DEF RunRequestStep, GetActionRepo, GetLogRepo, GetRepo, ReadToken, PostRunAction,
                       JobLogTail, Discover, Ask, Process, Receive, Answer
  <2> QED
    BY <1>2, <2>1, <2>2, <2>3 DEF RegistersRow
<1>11. ASSUME NEW s \in Slots, RequestCutShort(s)
       PROVE  PendingIsExplained'
  <2>1. created' = created /\ \A t \in Slots \ {s} : request'[t] = request[t]
    BY <1>1, <1>11 DEF RequestCutShort, CutShort, storeVars
  <2>2. cut \subseteq cut' /\ \A i \in Ids : RegistersRow(request[s], i) => i \in cut'
    BY <1>11 DEF RequestCutShort, CutShort, RegistersRow, LeftBy, Ids
  <2> QED
    BY <1>2, <2>1, <2>2
<1>12. CASE Crash
  <2>1. created' = created /\ cut \subseteq cut'
        /\ \A s \in Slots, i \in Ids : RegistersRow(request[s], i) => i \in cut'
    BY <1>12 DEF Crash, Gone, RegistersRow, LeftBy, Ids, storeVars
  <2> QED
    BY <1>2, <2>1
<1>13. CASE Stop
  <2>1. created' = created /\ cut' = cut /\ \A s \in Slots, i \in Ids : ~RegistersRow(request[s], i)
    BY <1>13 DEF Stop, Gone, RegistersRow, RegisterPCs, storeVars
  <2> QED
    BY <1>2, <2>1
<1>14. CASE created' = created /\ cut' = cut /\ UNCHANGED request
  BY <1>2, <1>14
<1>15. CASE ShortRequest
  BY <1>14, <1>15 DEF ShortRequest, UntrackRepo, SaveToken, DeleteToken, DeleteRepo, SaveForgeToken,
                      DeleteForgeToken
<1>16. CASE Pass
  BY <1>14, <1>16 DEF Pass, PassStep, BeginPass, PassReadToken, PassList, PassStore, StoreRun,
                      requestVars, storeVars
<1>17. CASE \/ \E e \in Editors : PatchArrives(e) \/ PatchDoes(e)
            \/ Signal \/ Shutdown \/ Start \/ UNCHANGED vars
  BY <1>14, <1>17 DEF PatchArrives, PatchDoes, Signal, Shutdown, Start, requestVars, storeVars, vars
<1>18. \/ \E s \in Slots : RequestArrives(s) \/ RegistrationStep(s) \/ RunRequestStep(s) \/ Process(s)
                          \/ RequestCutShort(s) \/ \E h \in hooks : Receive(s, h)
       \/ ShortRequest \/ Pass \/ Stop \/ Crash
       \/ \E e \in Editors : PatchArrives(e) \/ PatchDoes(e)
       \/ Signal \/ Shutdown \/ Start \/ UNCHANGED vars
  BY DEF Next, RequestDoes, DeliveryArrives
<1> QED
  BY <1>5, <1>6, <1>7, <1>8, <1>9, <1>10, <1>11, <1>12, <1>13, <1>15, <1>16, <1>17, <1>18
     DEF RegistrationStep

\* The bounds and the server's state.
CountersOK ==
    /\ requests \in 0..MaxRequests
    /\ faults \in 0..MaxFaults
    /\ cut \subseteq Ids
    /\ server \in {"up", "draining", "closing", "down"}

\* Every step keeps them.
LEMMA CountersKept == Sane /\ CountersOK /\ [Next]_vars => CountersOK'
<1> SUFFICES ASSUME Sane, CountersOK, [Next]_vars PROVE CountersOK'
  OBVIOUS
<1>1. \A S \in SUBSET Slots : LeftBy(S) \subseteq Ids
  <2>1. \A s \in Slots : request[s].id \in 0..MaxRepositories
    BY DEF Sane, RequestInv, RequestState
  <2>2. MaxRepositories \in Nat
    BY PlacesAssumption
  <2> QED
    BY <2>1, <2>2 DEF LeftBy, Ids
<1>2. cut' \subseteq Ids
  <2>1. ASSUME NEW s \in Slots, RequestCutShort(s)
        PROVE  cut' \subseteq Ids
    BY <1>1, <2>1 DEF RequestCutShort, CutShort, CountersOK
  <2>2. CASE Crash
    BY <1>1, <2>2 DEF Crash, CountersOK
  <2>3. CASE UNCHANGED cut
    BY <2>3 DEF CountersOK
  <2>4. ASSUME NEW s \in Slots, RequestArrives(s) \/ RegistrationStep(s) \/ RunRequestStep(s)
        PROVE  UNCHANGED cut
    BY <2>4 DEF RequestArrives, Register, BeginAction, BeginLog, BeginDiscover, Begin, RegistrationStep,
                CheckRepo, CreateRepo, CreateWebhook, Activate, Degrade, RunRequestStep, GetActionRepo,
                GetLogRepo, GetRepo, ReadToken, PostRunAction, JobLogTail, Discover, Ask, Answer, Goto
  <2>5. ASSUME NEW s \in Slots, Process(s) \/ \E h \in hooks : Receive(s, h)
        PROVE  UNCHANGED cut
    BY <2>5 DEF Process, Receive, Answer
  <2>6. CASE \/ ShortRequest \/ Pass \/ Stop \/ Signal \/ Shutdown \/ Start \/ UNCHANGED vars
             \/ \E e \in Editors : PatchArrives(e) \/ PatchDoes(e)
    BY <2>6 DEF ShortRequest, Pass, PassStep, BeginPass, PassReadToken, PassList, PassStore, Stop, Signal,
                Shutdown, Start, PatchArrives, PatchDoes, requestVars, vars, CountersOK
  <2> QED
    BY <2>1, <2>2, <2>3, <2>4, <2>5, <2>6 DEF Next, RequestDoes, DeliveryArrives
<1>3. requests' \in 0..MaxRequests
  <2>1. MaxRequests \in Nat
    BY RequestsAssumption
  <2>2. (requests < MaxRequests /\ requests' = requests + 1) \/ UNCHANGED requests
    <3>1. ASSUME NEW s \in Slots, RequestArrives(s) \/ RegistrationStep(s) \/ RunRequestStep(s)
          PROVE  (requests < MaxRequests /\ requests' = requests + 1) \/ UNCHANGED requests
      BY <3>1 DEF RequestArrives, Register, BeginAction, BeginLog, BeginDiscover, Begin, RegistrationStep,
                  CheckRepo, CreateRepo, CreateWebhook, Activate, Degrade, RunRequestStep, GetActionRepo,
                  GetLogRepo, GetRepo, ReadToken, PostRunAction, JobLogTail, Discover, Ask, Answer, Goto
    <3>2. ASSUME NEW s \in Slots, Process(s) \/ RequestCutShort(s) \/ \E h \in hooks : Receive(s, h)
          PROVE  UNCHANGED requests
      BY <3>2 DEF Process, Receive, Answer, RequestCutShort, CutShort
    <3>3. CASE Pass \/ Stop \/ Crash \/ Signal \/ Shutdown \/ Start \/ UNCHANGED vars
      BY <3>3 DEF Pass, PassStep, BeginPass, PassReadToken, PassList, PassStore, Stop, Crash, Gone, Signal,
                  Shutdown, Start, requestVars, vars
    <3>4. CASE ShortRequest \/ \E e \in Editors : PatchArrives(e) \/ PatchDoes(e)
      BY <3>4 DEF ShortRequest, PatchArrives, PatchDoes, requestVars
    <3> QED
      BY <3>1, <3>2, <3>3, <3>4 DEF Next, RequestDoes, DeliveryArrives
  <2> QED
    BY <2>1, <2>2 DEF CountersOK
<1>4. faults' \in 0..MaxFaults
  <2>1. MaxFaults \in Nat
    BY RequestsAssumption
  <2>2. (faults < MaxFaults /\ faults' = faults + 1) \/ UNCHANGED faults
    <3>1. ASSUME NEW s \in Slots, RequestArrives(s) \/ RegistrationStep(s) \/ RunRequestStep(s)
          PROVE  UNCHANGED faults
      BY <3>1 DEF RequestArrives, Register, BeginAction, BeginLog, BeginDiscover, Begin, RegistrationStep,
                  CheckRepo, CreateRepo, CreateWebhook, Activate, Degrade, RunRequestStep, GetActionRepo,
                  GetLogRepo, GetRepo, ReadToken, PostRunAction, JobLogTail, Discover, Ask, Answer, Goto
    <3>2. ASSUME NEW s \in Slots, Process(s) \/ RequestCutShort(s) \/ \E h \in hooks : Receive(s, h)
          PROVE  (faults < MaxFaults /\ faults' = faults + 1) \/ UNCHANGED faults
      BY <3>2 DEF Process, Receive, Answer, RequestCutShort, CutShort
    <3>3. CASE Pass \/ Stop \/ Crash \/ Signal \/ Shutdown \/ Start \/ UNCHANGED vars
      BY <3>3 DEF Pass, PassStep, BeginPass, PassReadToken, PassList, PassStore, Stop, Crash, Signal,
                  Shutdown, Start, requestVars, vars
    <3>4. CASE ShortRequest \/ \E e \in Editors : PatchArrives(e) \/ PatchDoes(e)
      BY <3>4 DEF ShortRequest, PatchArrives, PatchDoes, requestVars
    <3> QED
      BY <3>1, <3>2, <3>3, <3>4 DEF Next, RequestDoes, DeliveryArrives
  <2> QED
    BY <2>1, <2>2 DEF CountersOK
<1>5. server' \in {"up", "draining", "closing", "down"}
  BY DEF Next, vars, RequestArrives, RequestDoes, RequestCutShort, DeliveryArrives, ShortRequest, Pass,
         PatchArrives, PatchDoes, Signal, Shutdown, Stop, Crash, Gone, Start, CountersOK
<1> QED
  BY <1>2, <1>3, <1>4, <1>5 DEF CountersOK

-----------------------------------------------------------------------------
(* The theorems.                                                             *)

\* Every reachable state has its type.
THEOREM DashboardTypes == Spec => []TypeOK
<1>1. Init => CountersOK
  BY RequestsAssumption DEF Init, RegistrationInit, CountersOK
<1>2. Sane /\ SettingsInv /\ CountersOK => TypeOK
  BY DEF TypeOK, Sane, StoreInv, RequestInv, RequestTypes, PassInv, SettingsInv, CountersOK
<1> QED
  BY <1>1, <1>2, SaneAlways, SettingsAlways, CountersKept, PTL DEF Spec

\* No request to a forge carries a token issued for another instance: the
\* token rule, the saved tokens' scopes and RepoToken all keep to the place.
THEOREM TokensStay == Spec => []TokensStayHome
<1>1. Sane => TokensStayHome
  BY DEF Sane, RequestInv, PassInv, Sound, TokensStayHome
<1> QED
  BY <1>1, SaneAlways, PTL

\* A registration that is not cut short ends with a status set, for any number
\* of concurrent registrations and removals.
THEOREM PendingExplained == Spec => []PendingIsExplained
<1>1. Init => PendingIsExplained
  <2> SUFFICES ASSUME Init, NEW i \in TrackedIds PROVE repos[i].status = "active"
    BY DEF PendingIsExplained
  <2>1. \A p : NewRow(p, Site(p), "active").status = "active"
    BY DEF NewRow
  <2> QED
    BY <2>1 DEF Init, StoreInit, TrackedIds, Tracked
<1> QED
  BY <1>1, SaneAlways, PendingKept, PTL DEF Spec

\* The status is set to active only after the forge said the webhook is there,
\* and the number the webhook signs with is no other row's.
THEOREM ActiveOnesHaveHooks == Spec => []ActiveHasHook
<1>1. Sane => ActiveHasHook
  BY DEF Sane, StoreInv
<1> QED
  BY <1>1, SaneAlways, PTL

\* The foreign key and DeleteRepo's cascade leave no run behind.
THEOREM RunsHaveRepositories == Spec => []NoOrphanRuns
<1>1. Sane => NoOrphanRuns
  BY DEF Sane, StoreInv
<1> QED
  BY <1>1, SaneAlways, PTL

\* A delivery is taken for no repository but the one whose webhook sent it, which is of
\* the instance that sent it and always among those it may be resolved to: an active
\* repository's number signs for it alone, and its row stays at its place.
THEOREM DeliveriesFind == Spec => []DeliveriesFindTheirRepository
<1>1. Sane => DeliveriesFindTheirRepository
  <2> SUFFICES ASSUME Sane, NEW h \in hooks
               PROVE  /\ Takers(h) = {h.secret} \intersect TrackedIds
                      /\ Tracked(h.secret) => Site(repos[h.secret].place) = h.site
    BY DEF DeliveriesFindTheirRepository
  <2>1. Takers(h) = {i \in RepoByIdentifier(h.site.forge) : i = h.secret}
    BY DEF Takers, VerifySignature
  <2>2. Tracked(h.secret) => h.site = Site(repos[h.secret].place)
    BY DEF Sane, StoreInv
  <2>3. ASSUME h.secret \in TrackedIds
        PROVE  h.secret \in RepoByIdentifier(h.site.forge)
    <3>1. Site(repos[h.secret].place).forge = Forge(repos[h.secret].place)
      BY DEF Site
    <3> QED
      BY <2>2, <2>3, <3>1 DEF RepoByIdentifier, TrackedIds
  <2> QED
    BY <2>1, <2>2, <2>3 DEF RepoByIdentifier
<1> QED
  BY <1>1, SaneAlways, PTL

\* The actions the run list offers of a run (ActionsFor) are those act passes on to
\* the run's forge: its client takes run actions, and the run's status allows it.
THEOREM OfferedTaken == Spec => []OfferedActionsAreTaken
<1>1. ASSUME NEW forge \in Forges, NEW completed \in Completed
      PROVE  ActionsFor(forge, completed) = {a \in Actions : StatusAllows(completed, a) /\ HasActor(forge)}
  <2>1. CASE forge = "forgejo"
    BY <2>1 DEF ActionsFor, HasActor
  <2>2. CASE forge = "github" /\ completed
    BY <2>2 DEF ActionsFor, HasActor, StatusAllows, Actions, Completed
  <2>3. CASE forge = "github" /\ ~completed
    BY <2>3 DEF ActionsFor, HasActor, StatusAllows, Actions, Completed
  <2> QED
    BY <2>1, <2>2, <2>3 DEF Forges
<1>2. \A p : Forge(p) \in Forges
  BY DEF Forge, Forges
<1>3. OfferedActionsAreTaken
  BY <1>1, <1>2 DEF OfferedActionsAreTaken
<1> QED
  BY <1>3, PTL

-----------------------------------------------------------------------------
(* The end of a job's log.                                                *)

\* A line after a part of a list makes the part one longer.
LEMMA PartAppended ==
    ASSUME NEW S, NEW read \in Seq(S), NEW k \in 1..Len(read), NEW a \in 1..k
    PROVE  Append(SubSeq(read, a, k - 1), read[k]) = SubSeq(read, a, k)
<1>1. Len(read) \in Nat /\ read[k] \in S /\ a \in 1..Len(read) /\ k \in a..Len(read)
  BY LenProperties, ElementOfSeq
<1>2. SubSeq(read, a, k) = SubSeq(read, a, k - 1) \o <<read[k]>>
  BY <1>1, SubSeqRecursiveSecond
<1>3. SubSeq(read, a, k - 1) \in Seq(S)
  <2>1. \A i \in a..(k - 1) : read[i] \in S
    BY <1>1, ElementOfSeq
  <2> QED
    BY <1>1, <2>1, SubSeqProperties
<1>4. Append(SubSeq(read, a, k - 1), read[k]) = SubSeq(read, a, k - 1) \o <<read[k]>>
  BY <1>1, <1>3, AppendIsConcat
<1> QED
  BY <1>2, <1>4

\* The last n of the first k lines.
Ending(read, k, n) == SubSeq(read, Most(k - n, 0) + 1, k)

\* A ring of these keeps the next line as it should.
LEMMA KeepsTheEnd ==
    ASSUME NEW S, NEW read \in Seq(S), NEW n \in Nat \ {0}, NEW k \in 1..Len(read)
    PROVE  Keep(Ending(read, k - 1, n), read[k], n) = Ending(read, k, n)
<1>1. Len(read) \in Nat /\ k \in Nat /\ n \in Nat /\ n > 0 /\ k > 0 /\ \A i \in 1..Len(read) : read[i] \in S
  BY LenProperties, ElementOfSeq
<1> DEFINE ring == Ending(read, k - 1, n)
<1>2. CASE k - 1 >= n
  <2> DEFINE a == k - n
  <2>1. a \in 1..Len(read) /\ k - 1 \in a..Len(read) /\ a + 1 \in 1..k /\ k - 1 - a + 1 = n
    BY <1>1, <1>2
  <2>2. ring = SubSeq(read, a, k - 1) /\ Ending(read, k, n) = SubSeq(read, a + 1, k)
    BY <1>1, <1>2 DEF Ending, Most
  <2> HIDE DEF a
  <2>3. Len(SubSeq(read, a, k - 1)) = n
    <3>1. \A i \in a..(k - 1) : read[i] \in S
      BY <1>1, <2>1
    <3>2. a \in Int /\ k - 1 \in Int /\ a <= k - 1
      BY <1>1, <2>1
    <3>3. Len(SubSeq(read, a, k - 1)) = k - 1 - a + 1
      BY <3>1, <3>2, SubSeqProperties
    <3> QED
      BY <2>1, <3>3
  <2>4. Tail(SubSeq(read, a, k - 1)) = SubSeq(read, a + 1, k - 1)
    BY <2>1, HeadTailOfSubSeq
  <2>5. Append(SubSeq(read, a + 1, k - 1), read[k]) = SubSeq(read, a + 1, k)
    BY <2>1, PartAppended
  <2> QED
    BY <2>2, <2>3, <2>4, <2>5 DEF Keep
<1>3. CASE k - 1 < n
  <2>1. ring = SubSeq(read, 1, k - 1) /\ Ending(read, k, n) = SubSeq(read, 1, k)
    BY <1>1, <1>3 DEF Ending, Most
  <2>2. Len(SubSeq(read, 1, k - 1)) # n
    <3>1. \A i \in 1..(k - 1) : read[i] \in S
      BY <1>1
    <3>2. Len(SubSeq(read, 1, k - 1)) = IF 1 <= k - 1 THEN k - 1 - 1 + 1 ELSE 0
      BY <1>1, <3>1, SubSeqProperties
    <3> QED
      BY <1>1, <1>3, <3>2
  <2>3. Append(SubSeq(read, 1, k - 1), read[k]) = SubSeq(read, 1, k)
    BY <1>1, PartAppended
  <2> QED
    BY <2>1, <2>2, <2>3 DEF Keep
<1> QED
  BY <1>1, <1>2, <1>3

\* tailLines shows the last n of the lines it read, and says whether there were more.
LEMMA TailIsEnd ==
    ASSUME NEW log, NEW cap, NEW S, ReadUpTo(log, cap) \in Seq(S), NEW n \in Nat \ {0}
    PROVE  /\ TailLines(log, n, cap).lines = LastOf(ReadUpTo(log, cap), n)
           /\ TailLines(log, n, cap).truncated = (Len(ReadUpTo(log, cap)) > n)
<1> DEFINE read == ReadUpTo(log, cap)
           m    == Len(read)
           Rounds(f) == [k \in 0..m |-> IF k = 0 THEN <<>> ELSE Keep(f[k - 1], read[k], n)]
           ring == CHOOSE f : f = Rounds(f)
           ends == [k \in 0..m |-> Ending(read, k, n)]
           more == m > n
           record(a, b) == [lines |-> a, truncated |-> b]
<1>1. TailLines(log, n, cap) = record(ring[m], more)
  BY Zenon DEF TailLines
<1>2. \A a, b : record(a, b).lines = a /\ record(a, b).truncated = b
  OBVIOUS
<1>3. m \in Nat /\ read \in Seq(S)
  BY LenProperties
<1> HIDE DEF read, m, more, record
<1>4. \A k \in 0..m : ends[k] = Ending(read, k, n)
  OBVIOUS
<1>5. \A k \in 1..m : k \in 0..m /\ k - 1 \in 0..m /\ k # 0
  BY <1>3
<1>6. \A k \in 1..m : ends[k] = Keep(ends[k - 1], read[k], n)
  <2>1. \A k \in 1..m : Keep(Ending(read, k - 1, n), read[k], n) = Ending(read, k, n)
    BY <1>3, KeepsTheEnd DEF m
  <2> HIDE DEF ends
  <2> QED
    BY <1>4, <1>5, <2>1
<1>7. ends[0] = <<>>
  <2>1. Ending(read, 0, n) = SubSeq(read, 1, 0)
    BY DEF Ending, Most
  <2>2. SubSeq(read, 1, 0) = <<>>
    BY SubSeqEmpty
  <2> QED
    BY <1>3, <2>1, <2>2
<1>8. ends = Rounds(ends)
  <2> DEFINE g == Rounds(ends)
  <2>1. \A k \in 0..m : k = 0 \/ k \in 1..m
    BY <1>3
  <2>2. \A k \in 0..m : g[k] = IF k = 0 THEN <<>> ELSE Keep(ends[k - 1], read[k], n)
    OBVIOUS
  <2>3. ends = [k \in 0..m |-> ends[k]] /\ g = [k \in 0..m |-> g[k]]
    OBVIOUS
  <2> HIDE DEF g, ends
  <2>4. \A k \in 0..m : g[k] = ends[k]
    BY <1>6, <1>7, <2>1, <2>2
  <2>5. [k \in 0..m |-> ends[k]] = [k \in 0..m |-> g[k]]
    BY <2>4
  <2> QED
    BY <2>3, <2>5 DEF g
<1>9. ring = Rounds(ring)
  <2> HIDE DEF Rounds
  <2> QED
    BY <1>8
<1> HIDE DEF ring, ends
<1>10. ring[0] = <<>> /\ \A k \in 1..m : ring[k] = Keep(ring[k - 1], read[k], n)
  <2> DEFINE g == Rounds(ring)
  <2>1. g[0] = <<>> /\ \A k \in 1..m : g[k] = Keep(ring[k - 1], read[k], n)
    BY <1>3, <1>5
  <2>2. ring = g
    BY <1>9
  <2> HIDE DEF g
  <2> QED
    BY <2>1, <2>2
<1>11. Alike(ring, ends, 0, m)
  <2>1. \A k \in 0..m : k # 0 => k \in 1..m
    BY <1>3
  <2> QED
    BY <1>6, <1>7, <1>10, <2>1 DEF Alike
<1>12. ring[m] = Ending(read, m, n)
  <2>1. \A k \in 0..m : ring[k] = ends[k]
    BY <1>3, <1>11, SameIteration
  <2> QED
    BY <1>3, <1>4, <2>1
<1>13. TailLines(log, n, cap).lines = ring[m] /\ TailLines(log, n, cap).truncated = more
  BY <1>1, <1>2, Zenon
<1>14. Ending(read, m, n) = LastOf(read, n)
  BY DEF Ending, LastOf, m
<1> QED
  BY <1>12, <1>13, <1>14 DEF read, m, more

\* What is read of a log are lines, and the whole log if that is not more than the cap.
LEMMA ReadIs ==
    ASSUME NEW log \in Seq(Nat \ {0}), NEW cap \in Nat
    PROVE  /\ ReadUpTo(log, cap) \in Seq(Int)
           /\ Total(log) <= cap => ReadUpTo(log, cap) = log
<1> DEFINE n == Len(log)
           Rounds(f) == [k \in 0..n |-> IF k = 0 THEN cap ELSE Most(f[k - 1] - log[k], 0)]
           left == CHOOSE f : f = Rounds(f)
           read == {k \in 1..n : left[k - 1] > 0}
           c    == Cardinality(read)
<1>1. /\ n \in Nat /\ log \in Seq(Int) /\ log = [k \in 1..n |-> log[k]]
      /\ \A k \in 1..n : log[k] \in Nat /\ log[k] > 0 /\ log[k] \in Int
  BY LenProperties, ElementOfSeq
<1>2. ReadUpTo(log, cap) = [k \in 1..c |-> Least(log[k], left[k - 1])]
  BY Zenon DEF ReadUpTo
<1>3. PICK part \in [0..n -> Int] : /\ part[0] = 0
                                    /\ \A k \in 1..n : part[k] = part[k - 1] + log[k]
                                    /\ Total(log) = part[n]
  BY <1>1, TotalParts
<1> DEFINE g == [k \in 0..n |-> Most(cap - part[k], 0)]
<1> HIDE DEF n
<1>4. \A k \in 1..n : k \in 0..n /\ k - 1 \in 0..n /\ k # 0 /\ part[k - 1] \in Int /\ part[k] \in Int
  <2>1. \A k \in 1..n : k \in 0..n /\ k - 1 \in 0..n /\ k # 0
    BY <1>1
  <2> QED
    BY <2>1
<1>5. \A k \in 0..n : g[k] = Most(cap - part[k], 0)
  OBVIOUS
<1>6. ASSUME NEW k \in 1..n PROVE g[k] = Most(g[k - 1] - log[k], 0)
  <2> DEFINE a == part[k - 1]
             b == part[k]
             l == log[k]
  <2>1. a \in Int /\ b = a + l /\ l \in Nat /\ g[k] = Most(cap - b, 0) /\ g[k - 1] = Most(cap - a, 0)
    BY <1>1, <1>3, <1>4, <1>5
  <2> HIDE DEF a, b, l, g
  <2>2. Most(cap - b, 0) = Most(Most(cap - a, 0) - l, 0)
    BY <2>1 DEF Most
  <2> QED
    BY <2>1, <2>2 DEF l
<1>7. g[0] = cap
  BY <1>1, <1>3, <1>5 DEF Most
<1>8. g = Rounds(g)
  <2> DEFINE h == Rounds(g)
  <2>1. \A k \in 0..n : k = 0 \/ k \in 1..n
    BY <1>1
  <2>2. \A k \in 0..n : h[k] = IF k = 0 THEN cap ELSE Most(g[k - 1] - log[k], 0)
    OBVIOUS
  <2>3. g = [k \in 0..n |-> g[k]] /\ h = [k \in 0..n |-> h[k]]
    OBVIOUS
  <2> HIDE DEF g, h
  <2>4. \A k \in 0..n : h[k] = g[k]
    BY <1>6, <1>7, <2>1, <2>2
  <2>5. [k \in 0..n |-> g[k]] = [k \in 0..n |-> h[k]]
    BY <2>4
  <2> QED
    BY <2>3, <2>5 DEF h
<1>9. left = Rounds(left)
  <2> HIDE DEF Rounds, g
  <2> QED
    BY <1>8
<1> HIDE DEF left, g
<1>10. left[0] = cap /\ \A k \in 1..n : left[k] = Most(left[k - 1] - log[k], 0)
  <2> DEFINE h == Rounds(left)
  <2>1. h[0] = cap /\ \A k \in 1..n : h[k] = Most(left[k - 1] - log[k], 0)
    BY <1>1, <1>4
  <2>2. left = h
    BY <1>9
  <2> HIDE DEF h
  <2> QED
    BY <2>1, <2>2
<1>11. Alike(left, g, 0, n)
  <2>1. \A k \in 0..n : k # 0 => k \in 1..n
    BY <1>1
  <2> QED
    BY <1>6, <1>7, <1>10, <2>1 DEF Alike
<1>12. \A k \in 0..n : left[k] = Most(cap - part[k], 0)
  <2>1. \A k \in 0..n : left[k] = g[k]
    BY <1>1, <1>11, SameIteration
  <2> QED
    BY <1>5, <2>1
<1>13. c \in Nat /\ c <= n
  <2>1. read \in SUBSET (1..n)
    OBVIOUS
  <2>2. IsFiniteSet(1..n) /\ Cardinality(1..n) = n
    <3>1. n \in Nat /\ 1 \in Int /\ n \in Int /\ n = IF 1 > n THEN 0 ELSE n - 1 + 1
      BY <1>1
    <3> QED
      BY <3>1, FS_Interval
  <2> HIDE DEF read
  <2> QED
    BY <2>1, <2>2, FS_Subset, FS_CardinalityType
<1>14. ReadUpTo(log, cap) \in Seq(Int)
  <2> HIDE DEF c
  <2>1. ASSUME NEW k \in 1..c PROVE Least(log[k], left[k - 1]) \in Int
    <3>1. k \in 1..n
      BY <1>1, <1>13
    <3>2. log[k] \in Int /\ left[k - 1] \in Int
      BY <1>1, <1>4, <1>12, <3>1 DEF Most
    <3> QED
      BY <3>2 DEF Least
  <2> QED
    BY <1>2, <1>13, <2>1
<1>15. ASSUME Total(log) <= cap PROVE ReadUpTo(log, cap) = log
  <2>1. ASSUME NEW k \in 1..n PROVE left[k - 1] > 0 /\ Least(log[k], left[k - 1]) = log[k]
    <3>1. \A j \in 1..n : part[j - 1] <= part[j]
      BY <1>1, <1>3, <1>4
    <3>2. part[k] <= part[n]
      BY <1>1, <1>4, <3>1, PartsGrow
    <3> DEFINE a == part[k - 1]
               b == part[k]
               t == part[n]
               l == log[k]
               r == left[k - 1]
    <3>3. /\ a \in Int /\ b \in Int /\ t \in Int /\ b = a + l /\ l \in Nat /\ l > 0
          /\ b <= t /\ t <= cap /\ r = Most(cap - a, 0)
      BY <1>1, <1>3, <1>4, <1>12, <1>15, <3>2
    <3> HIDE DEF a, b, t, l, r
    <3>4. r > 0 /\ Least(l, r) = l
      BY <3>3 DEF Most, Least
    <3> QED
      BY <3>4 DEF l, r
  <2>2. read = 1..n
    BY <2>1
  <2>3. c = n
    <3>1. n \in Nat /\ 1 \in Int /\ n \in Int /\ n = IF 1 > n THEN 0 ELSE n - 1 + 1
      BY <1>1
    <3>2. Cardinality(1..n) = n
      BY <3>1, FS_Interval
    <3> QED
      BY <2>2, <3>2
  <2> HIDE DEF c
  <2>4. [k \in 1..n |-> Least(log[k], left[k - 1])] = [k \in 1..n |-> log[k]]
    BY <2>1
  <2> QED
    BY <1>1, <1>2, <2>3, <2>4 DEF n
<1> QED
  BY <1>14, <1>15

\* The tail a forge's log is shown by is the end of what was read of it, and said to be
\* truncated when lines of that are missing, for logs of any number of lines of any length
\* and any number of lines asked for; all is read of a log within the cap (tailLines).
THEOREM LogTailEnds == Spec => []LogTailIsItsEnd
<1>1. ASSUME NEW log \in Logs, NEW n \in 1..MaxLines
      PROVE  LET tail == TailLines(log, n, Cap)
                 read == ReadUpTo(log, Cap)
             IN  /\ tail.lines = LastOf(read, n)
                 /\ tail.truncated = (Len(read) > n)
                 /\ Total(log) <= Cap => read = log
  <2>1. Cap \in Nat /\ MaxLines \in Nat /\ LineSizes \subseteq Nat \ {0}
    BY LogsAssumption
  <2>2. log \in Seq(Nat \ {0})
    <3>1. PICK len \in 0..MaxLines : log \in [1..len -> LineSizes]
      BY DEF Logs
    <3>2. len \in Nat
      BY <2>1
    <3> DEFINE P == Nat \ {0}
    <3>3. LineSizes \subseteq P
      BY <2>1
    <3> HIDE DEF P
    <3>4. log \in [1..len -> P]
      BY <3>1, <3>3
    <3>5. log \in Seq(P)
      BY <3>2, <3>4
    <3> QED
      BY <3>5 DEF P
  <2>3. ReadUpTo(log, Cap) \in Seq(Int) /\ (Total(log) <= Cap => ReadUpTo(log, Cap) = log)
    BY <2>1, <2>2, ReadIs
  <2>4. n \in Nat \ {0}
    BY <2>1
  <2>5. /\ TailLines(log, n, Cap).lines = LastOf(ReadUpTo(log, Cap), n)
        /\ TailLines(log, n, Cap).truncated = (Len(ReadUpTo(log, Cap)) > n)
    BY <2>3, <2>4, TailIsEnd
  <2> QED
    BY <2>3, <2>5, Zenon
<1>2. LogTailIsItsEnd
  BY <1>1 DEF LogTailIsItsEnd
<1> QED
  BY <1>2, PTL DEF Spec
=============================================================================
