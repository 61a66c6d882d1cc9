------------------------------- MODULE Dashboard -------------------------------
(***************************************************************************)
(* The server around the ingestion of runs: registration, removal, saved     *)
(* tokens, deliveries, the reconciler's passes, requests about runs and the  *)
(* settings, concurrently over one database, while the server is stopped,     *)
(* killed and started again (cmd/pipeline-analytics/main.go).                 *)
(***************************************************************************)
EXTENDS RunRequests, Tracking, Settings

CONSTANTS
    LineSizes, MaxLines, Cap   \* bounds of the logs a forge may hold

\* A line has a byte at least: its newline, or what follows the last one.
ASSUME LogsAssumption == LineSizes \subseteq Nat \ {0} /\ {MaxLines, Cap} \subseteq Nat

VARIABLE server   \* "up", "draining" (a signal was received), "closing" (Shutdown), "down"

vars == <<storeVars, hooks, requestVars, pass, settingsVars, server>>

Init ==
    /\ StoreInit /\ RegistrationInit /\ TrackingInit /\ SettingsInit
    /\ server = "up"

\* New requests are accepted, also while draining.
Listening == server \in {"up", "draining"}

\* A transaction of the settings holds the database's only connection.
Free == holder = "none"
AtForge(s) == request[s].pc \in {"check", "hook", "ask"}

\* A statement or a call of a request or a delivery.
RequestDoes(s) ==
    /\ Free \/ AtForge(s)
    /\ \/ RegistrationStep(s) /\ UNCHANGED pass
       \/ RunRequestStep(s) /\ UNCHANGED pass
       \/ Process(s)
    /\ UNCHANGED <<settingsVars, server>>
RequestArrives(s) ==
    /\ Listening /\ Free
    /\ \/ \E p \in Places, given \in BOOLEAN : Register(s, p, given)
       \/ \E i \in Ids, a \in Actions : BeginAction(s, i, a)
       \/ \E i \in Ids : BeginLog(s, i)
       \/ \E p \in Places, given \in BOOLEAN : BeginDiscover(s, p, given)
    /\ UNCHANGED <<pass, settingsVars, server>>

\* Requests of one statement.
ShortRequest ==
    /\ Listening /\ Free
    /\ requests < MaxRequests
    /\ requests' = requests + 1
    /\ \/ \E i \in Ids : UntrackRepo(i)
       \/ \E p \in Places : SaveToken(p)
       \/ \E x \in saved : DeleteToken(x)
    /\ UNCHANGED <<request, faults, cut, pass, settingsVars, server>>

RequestCutShort(s) == CutShort(s) /\ UNCHANGED <<pass, settingsVars, server>>

DeliveryArrives(s) ==
    /\ Listening /\ Free
    /\ \E h \in hooks : Receive(s, h)
    /\ UNCHANGED <<settingsVars, server>>

\* The reconciler runs under the signal's context, so not while draining.
Pass ==
    /\ server = "up"
    /\ Free \/ pass.pc = "list"
    /\ PassStep
    /\ UNCHANGED <<settingsVars, server>>

PatchArrives(e) ==
    /\ Listening /\ Free
    /\ requests < MaxRequests
    /\ requests' = requests + 1
    /\ SubmitPatch(e) \/ SubmitReset(e)
    /\ UNCHANGED <<storeVars, hooks, request, faults, cut, pass, server>>
PatchDoes(e) == SettingsStep(e) /\ UNCHANGED <<storeVars, hooks, requestVars, pass, server>>

\* runServe's context is done: the pass's calls fail from here on.
Signal ==
    /\ server = "up"
    /\ faults < MaxFaults
    /\ faults' = faults + 1
    /\ server' = "draining"
    /\ pass' = IdlePass
    /\ UNCHANGED <<storeVars, hooks, request, requests, cut, settingsVars>>

\* The drain period is over: Shutdown closes the listener.
Shutdown ==
    /\ server = "draining"
    /\ server' = "closing"
    /\ UNCHANGED <<storeVars, hooks, requestVars, pass, settingsVars>>

\* What is in memory is gone.
Gone ==
    /\ server' = "down"
    /\ request' = [s \in Slots |-> IdleRequest]
    /\ pass' = IdlePass
    /\ patch' = [e \in Editors |-> IdlePatch]
    /\ holder' = "none"
    /\ UNCHANGED <<storeVars, hooks, requests, overrides>>

\* A defect: the connection is closed without waiting for them.
Stop_DoesNotWait ==
    /\ server = "closing"
    /\ Gone
    /\ UNCHANGED <<faults, cut>>

\* Shutdown has waited for the requests in progress; the connection is closed.
Stop ==
    /\ server = "closing"
    /\ \A s \in Slots : request[s].pc = "idle"
    /\ \A e \in Editors : patch[e].pc = "idle"
    /\ Gone
    /\ UNCHANGED <<faults, cut>>

\* The process is killed, or Shutdown's timeout passes.
Crash ==
    /\ server # "down"
    /\ faults < MaxFaults
    /\ faults' = faults + 1
    /\ cut' = cut \union LeftBy({s \in Slots : request[s].pc \in RegisterPCs})
    /\ Gone

Start ==
    /\ server = "down"
    /\ server' = "up"
    /\ UNCHANGED <<storeVars, hooks, requestVars, pass, settingsVars>>

Next ==
    \/ \E s \in Slots : RequestArrives(s) \/ RequestDoes(s) \/ RequestCutShort(s)
                       \/ DeliveryArrives(s)
    \/ ShortRequest \/ Pass
    \/ \E e \in Editors : PatchArrives(e) \/ PatchDoes(e)
    \/ Signal \/ Shutdown \/ Stop \/ Crash \/ Start

Spec == Init /\ [][Next]_vars

\* The scheduler runs the reconciler, which waits for no request but for the
\* transaction of a patch; a request need not end before the server closes, and a
\* server told to stop stops and is started again.
FairSpec ==
    /\ Spec
    /\ WF_vars(Pass)
    /\ WF_vars(\E e \in Editors : PatchDoes(e))
    /\ WF_vars(server = "closing" /\ \E s \in Slots : RequestDoes(s))
    /\ WF_vars(Shutdown \/ Stop \/ Start)

-----------------------------------------------------------------------------
(* Safety *)

StoreTypes ==
    /\ repos \in [Ids -> RepoRow \union {NoRepo}]
    /\ created \in 0..MaxRepositories
    /\ saved \subseteq [scope: Scopes, token: Sites]
    /\ runs \subseteq Ids
    /\ hooks \subseteq {Hook(p, i) : p \in Places, i \in Ids}
RequestTypes ==
    /\ request \in [Slots -> RequestState]
    /\ requests \in 0..MaxRequests
    /\ faults \in 0..MaxFaults
    /\ cut \subseteq Ids
PassTypes ==
    pass \in [pc: {"idle", "token", "list", "store"}, id: 0..MaxRepositories,
              todo: SUBSET Ids, repo: RepoRow \union {NoRepo}]
SettingsTypes ==
    /\ overrides \in Overrides
    /\ patch \in [Editors -> [pc: {"idle", "begin", "write"}, update: [Keys -> Update],
                              read: Overrides]]
    /\ holder \in Editors \union {"none"}

\* The tables, the requests, the pass and the patches have their types.
TypeOK ==
    /\ StoreTypes /\ RequestTypes /\ PassTypes /\ SettingsTypes
    /\ server \in {"up", "draining", "closing", "down"}

\* Every request to a forge carries a token issued for that instance, whether
\* it was given, saved for the forge and instance (givenOrSavedToken) or read
\* with a repository that may have been removed and registered again since.
TokensStayHome ==
    /\ \A s \in Slots : request[s].pc \in {"check", "create", "hook", "ask"} =>
         request[s].token = Site(request[s].place)
    /\ pass.pc = "list" => pass.repo.token = Site(pass.repo.place)

\* A repository is pending only while its registration is in progress, or when
\* that was cut short: whatever the forge answered, and however the server was
\* stopped in good order, Register leaves it active or degraded.
PendingIsExplained ==
    \A i \in TrackedIds : repos[i].status = "pending" =>
        i \in cut \/ \E s \in Slots : request[s].id = i /\ request[s].pc \in RegisterPCs

\* An active repository has a webhook that signs with its secret on the
\* instance it is tracked on, so its deliveries are those of its runs.
ActiveHasHook ==
    \A i \in TrackedIds : repos[i].status = "active" =>
        Hook(repos[i].place, i) \in hooks

\* No run is stored of a repository that is not tracked, though a delivery or
\* a poll may be under way when it is removed (DeleteRepo's cascade).
NoOrphanRuns == \A i \in runs : Tracked(i)

\* The actions the run list offers are those the action endpoints pass on to
\* the forge: ActionsFor is "the one rule behind the run list's actions and
\* the state check of the action endpoints".
OfferedActionsAreTaken ==
    \A i \in TrackedIds, completed \in Completed :
        LET forge == Forge(repos[i].place) IN
        ActionsFor(forge, completed)
          = {a \in Actions : StatusAllows(completed, a) /\ HasActor(forge)}

\* A delivery is taken for no repository but the one whose webhook sent it, from the
\* instance that one is tracked on, and that one is always among those it may be
\* resolved to; it is not always the one (DeliveriesRecorded).
DeliveriesFindTheirRepository ==
    \A h \in hooks :
        /\ Takers(h) = {h.secret} \intersect TrackedIds
        /\ Tracked(h.secret) => Site(repos[h.secret].place) = h.site

\* A delivery of a tracked repository's webhook is not refused: RepoByIdentifier is "how
\* an incoming webhook is resolved to the repo it belongs to" (ingestion/runs.go), and
\* one "delivered with a valid signature for a tracked repository" is recorded
\* (forge-ingestion/spec.md).
DeliveriesRecorded == \A h \in hooks : Tracked(h.secret) => ~MayBeRefused(h)

Logs == UNION {[1..len -> LineSizes] : len \in 0..MaxLines}
LastOf(lines, n) == SubSeq(lines, Most(Len(lines) - n, 0) + 1, Len(lines))

\* A log's tail is the last lines of what was read of it, and is said to be truncated
\* when lines of that are missing.  Of a log no longer than the cap all is read;
\* of a longer one (maxLogBytes) lines are missing that this does not tell.
LogTailIsItsEnd ==
    (\E s \in Slots : request[s].pc = "ask" /\ request[s].ask = "log") =>
        \A log \in Logs, n \in 1..MaxLines :
            LET tail == TailLines(log, n, Cap)
                read == ReadUpTo(log, Cap)
            IN  /\ tail.lines = LastOf(read, n)
                /\ tail.truncated = (Len(read) > n)
                /\ Total(log) <= Cap => read = log

-----------------------------------------------------------------------------
(* Action properties *)

\* A patch of the settings changes exactly what its update says, each key or
\* none, and no key a concurrent patch has just set.
PatchIsExact ==
    [][\A e \in Editors : patch[e].pc = "write" /\ overrides' # overrides /\ patch'[e].pc = "idle" =>
        \A k \in Keys : overrides'[k] = IF patch[e].update[k] = "absent" THEN overrides[k]
                                                                       ELSE patch[e].update[k]]_<<overrides, patch>>

-----------------------------------------------------------------------------
(* Liveness, under FairSpec *)

\* A repository that stays tracked is polled again and again, though others of
\* the same pass fail, are removed, or are refused by their forges, and the
\* server is stopped and started.
EveryRepositoryPolled ==
    \A i \in Ids : <>[]Tracked(i) => []<>(pass.pc = "list" /\ pass.id = i)
=============================================================================
