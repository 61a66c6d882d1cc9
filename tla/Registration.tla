----------------------------- MODULE Registration -----------------------------
(***************************************************************************)
(* Registrar.Register (ingestion/registrar.go) behind POST /api/repos: ask    *)
(* the forge whether the repository may be tracked, create its row as         *)
(* pending, create its webhook, record how that went.  Each is a request to   *)
(* the forge or a statement of its own, under the HTTP request's context: a   *)
(* client that goes away, a failing statement or a stopping server ends the   *)
(* registration wherever it is.                                             *)
(***************************************************************************)
EXTENDS RepositoryStore

CONSTANTS
    Slots,        \* requests that may be in progress at once
    MaxRequests,  \* bound: requests of the dashboard
    MaxFaults     \* bound: requests cut short, stops and crashes

ASSUME RequestsAssumption == IsFiniteSet(Slots) /\ MaxRequests \in Nat /\ MaxFaults \in Nat

VARIABLES
    request,   \* each slot's request: its progress and its local variables
    requests,  \* how many were made
    faults,    \* how many faults happened
    cut        \* history: repositories whose registration was cut short

requestVars == <<request, requests, faults, cut>>

RegisterPCs == {"check", "create", "hook", "activate", "degrade"}
OtherPCs == {"getRepo", "token", "ask", "process"}   \* RunRequests, Tracking
Asks == {"action", "log"}
IdleRequest == [pc |-> "idle", place |-> "none", token |-> NoSite, id |-> 0, ask |-> "none"]
RequestState == [pc: {"idle"} \union RegisterPCs \union OtherPCs, place: Places \union {"none"},
                 token: Sites \union {NoSite}, id: 0..MaxRepositories, ask: Asks \union {"none"}]

RegistrationInit ==
    /\ request = [s \in Slots |-> IdleRequest]
    /\ requests = 0
    /\ faults = 0
    /\ cut = {}

\* A new request takes a free slot; which one makes no difference.
FreeSlot == CHOOSE s \in Slots : request[s].pc = "idle"
Begin(s, r) ==
    /\ request[s].pc = "idle" /\ s = FreeSlot
    /\ requests < MaxRequests
    /\ requests' = requests + 1
    /\ request' = [request EXCEPT ![s] = r]
    /\ UNCHANGED <<faults, cut>>

\* A request goes on, or is answered.
Goto(s, pc) ==
    /\ request' = [request EXCEPT ![s].pc = pc]
    /\ UNCHANGED <<requests, faults, cut>>
Answer(s) ==
    /\ request' = [request EXCEPT ![s] = IdleRequest]
    /\ UNCHANGED <<requests, faults, cut>>

\* registerRepo: without a token given or saved nothing is registered.
Registering == {s \in Slots : request[s].pc \in {"check", "create"}}
Register(s, p, given) ==
    /\ created + Cardinality(Registering) < MaxRepositories
    /\ \E t \in TokensFor(p, given) :
         Begin(s, [IdleRequest EXCEPT !.pc = "check", !.place = p, !.token = t])
    /\ UNCHANGED <<storeVars, hooks>>

\* GetRepo: archived, a fork or a mirror is answered 409; any other answer, or
\* none (then nothing is known), and the registration goes on.
CheckRepo(s) ==
    /\ request[s].pc = "check"
    /\ Answer(s) \/ Goto(s, "create")
    /\ UNCHANGED <<storeVars, hooks>>

\* CreateRepo; a row of the same place is a 409.
CreateRepo(s) ==
    /\ request[s].pc = "create"
    /\ \/ /\ AlreadyTracked(request[s].place)
          /\ Answer(s)
          /\ UNCHANGED storeVars
       \/ /\ ~AlreadyTracked(request[s].place)
          /\ Insert(created + 1, request[s].place, request[s].token)
          /\ request' = [request EXCEPT ![s].pc = "hook", ![s].id = created + 1]
          /\ UNCHANGED <<requests, faults, cut>>
    /\ UNCHANGED hooks

HookOf(s) == Hook(request[s].place, request[s].id)

\* Defects: an error of CreateWebhook is returned before the status is set; it
\* is taken for success.
CreateWebhook_ReturnsError(s) ==
    /\ request[s].pc = "hook"
    /\ \/ hooks' = hooks \union {HookOf(s)} /\ Goto(s, "activate")
       \/ hooks' \in {hooks, hooks \union {HookOf(s)}} /\ Answer(s)
    /\ UNCHANGED storeVars
CreateWebhook_IgnoresError(s) ==
    /\ request[s].pc = "hook"
    /\ hooks' \in {hooks, hooks \union {HookOf(s)}}
    /\ Goto(s, "activate")
    /\ UNCHANGED storeVars

\* CreateWebhook: done, or an error, after which the hook may exist all the
\* same (the answer was lost).
CreateWebhook(s) ==
    /\ request[s].pc = "hook"
    /\ \/ hooks' = hooks \union {HookOf(s)} /\ Goto(s, "activate")
       \/ hooks' \in {hooks, hooks \union {HookOf(s)}} /\ Goto(s, "degrade")
    /\ UNCHANGED storeVars

\* SetIngestionStatus(active): 201; 500 when the repository was removed since.
Activate(s) ==
    /\ request[s].pc = "activate"
    /\ SetStatus(request[s].id, "active")
    /\ Answer(s)
    /\ UNCHANGED hooks

\* degrade: 201 too, with the reason on the repository.
Degrade(s) ==
    /\ request[s].pc = "degrade"
    /\ SetStatus(request[s].id, "degraded")
    /\ Answer(s)
    /\ UNCHANGED hooks

\* The rows a request leaves pending when it goes no further.
LeftBy(S) == {request[s].id : s \in S} \ {0}

\* The client goes away or a statement fails.  The calls that remain all fail
\* with the request's context: a hook being created may exist, no row changes.
CutShort(s) ==
    /\ request[s].pc # "idle"
    /\ faults < MaxFaults
    /\ faults' = faults + 1
    /\ request' = [request EXCEPT ![s] = IdleRequest]
    /\ cut' = cut \union (IF request[s].pc \in RegisterPCs THEN LeftBy({s}) ELSE {})
    /\ hooks' \in IF request[s].pc = "hook" THEN {hooks, hooks \union {HookOf(s)}} ELSE {hooks}
    /\ UNCHANGED <<storeVars, requests>>

RegistrationStep(s) == CheckRepo(s) \/ CreateRepo(s) \/ CreateWebhook(s) \/ Activate(s) \/ Degrade(s)
=============================================================================
