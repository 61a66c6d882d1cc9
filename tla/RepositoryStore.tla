---------------------------- MODULE RepositoryStore ----------------------------
(***************************************************************************)
(* The tables repos, forge_tokens and runs (ingestion/sqlite/store.go) as    *)
(* registration, deliveries, polls and run requests see them, and what the   *)
(* forges have of it.                                                       *)
(*                                                                         *)
(* Repositories of different names share nothing but the saved tokens, so    *)
(* there is one name, tracked at several places.  A place is a forge and an  *)
(* instance URL as a client writes it.  A repository's number is its id and  *)
(* its webhook secret: both are drawn afresh for each row.  A token is the   *)
(* forge instance it was issued for.  Of its runs only counts whether any is  *)
(* stored.                                                                  *)
(***************************************************************************)
EXTENDS Integers, FiniteSets

CONSTANTS
    Places,           \* what a registration may name
    GitHubPlaces,     \* those on GitHub; the others are Forgejo's
    Bare,             \* each place's instance URL without trailing slashes
    Installed,        \* places where a repository may be tracked at first
    MaxRepositories   \* bound: repositories ever created

ASSUME PlacesAssumption ==
    /\ GitHubPlaces \subseteq Places
    /\ Installed \subseteq Places
    /\ "none" \notin Places
    /\ MaxRepositories \in Nat
    /\ Installed # {} => MaxRepositories > 0

VARIABLES
    repos,     \* the rows of repos, NoRepo where there is none
    created,   \* how many were created: the next one's number comes after
    saved,     \* forge_tokens: the saved tokens, each with its scope
    runs,      \* the repositories that have rows in runs
    hooks      \* on the forges: the webhooks, each with its instance and secret

storeVars == <<repos, created, saved, runs>>

Ids == 1..MaxRepositories
Forge(p) == IF p \in GitHubPlaces THEN "github" ELSE "forgejo"

\* The instance a place is on: GitHub is one, however the place spells a URL.
Site(p) == [forge |-> Forge(p), url |-> IF p \in GitHubPlaces THEN "" ELSE Bare[p]]
Sites == {Site(p) : p \in Places}

\* tokenScope: GitHub has no instance, and a trailing slash makes no other one.
TokenScope(p) == [forge |-> Forge(p), url |-> IF p \in GitHubPlaces THEN "" ELSE Bare[p]]
Scopes == {TokenScope(p) : p \in Places}

RepoStatuses == {"pending", "active", "degraded"}
NoSite == [forge |-> "none", url |-> ""]
NoRepo == [place |-> "none", token |-> NoSite, status |-> "none"]
NewRow(p, t, status) == [place |-> p, token |-> t, status |-> status]
RepoRow == [place: Places, token: Sites, status: RepoStatuses]

\* The webhook a client creates for row i.  GitHub's is sent what happens to runs
\* and jobs; Forgejo has no such event, and a push is the cue to poll.
GitHubHook(p, i) == [site |-> Site(p), secret |-> i, events |-> {"workflow_run", "workflow_job"}]
ForgejoHook(p, i) == [site |-> Site(p), secret |-> i, events |-> {"push"}]
Hook(p, i) == IF p \in GitHubPlaces THEN GitHubHook(p, i) ELSE ForgejoHook(p, i)

\* A new database, or one repository registered before.
StoreInit ==
    /\ \/ /\ repos = [i \in Ids |-> NoRepo]
          /\ created = 0
          /\ hooks = {}
       \/ \E p \in Installed :
            /\ repos = [i \in Ids |-> IF i = 1 THEN NewRow(p, Site(p), "active") ELSE NoRepo]
            /\ created = 1
            /\ hooks = {Hook(p, 1)}
    /\ saved = {}
    /\ runs = {}

Tracked(i) == i \in Ids /\ repos[i] # NoRepo
TrackedIds == {i \in Ids : Tracked(i)}

\* ForgeToken: the token saved for a place's scope, if any.
SavedFor(p) == {x.token : x \in {y \in saved : y.scope = TokenScope(p)}}

\* A defect: any saved token will do.
TokensFor_AnyScope(p, given) == IF given THEN {Site(p)} ELSE {x.token : x \in saved}

\* givenOrSavedToken: the token a request carries, else the one saved for its
\* scope; none is a 400.
TokensFor(p, given) == IF given THEN {Site(p)} ELSE SavedFor(p)

\* The unique index on forge, identifier and instance URL as it was written.
AlreadyTracked(p) == \E i \in TrackedIds : repos[i].place = p

\* CreateRepo: a row with an id and a secret of its own, pending.
Insert(i, p, t) ==
    /\ repos' = [repos EXCEPT ![i] = NewRow(p, t, "pending")]
    /\ created' = i
    /\ UNCHANGED <<saved, runs>>

\* A defect: the row is taken to be there.
SetStatus_AnyRow(i, status) ==
    /\ repos' = [repos EXCEPT ![i].status = status]
    /\ UNCHANGED <<created, saved, runs>>

\* SetIngestionStatus; ErrRepoNotFound when no row is affected.
SetStatus(i, status) ==
    /\ repos' = IF Tracked(i) THEN [repos EXCEPT ![i].status = status] ELSE repos
    /\ UNCHANGED <<created, saved, runs>>

\* A defect: the foreign key of runs is not enforced.
StoreRun_AnyRepo(i) ==
    /\ runs' = runs \union {i}
    /\ UNCHANGED <<repos, created, saved>>

\* UpsertRun: a run of a repository that is gone fails on its foreign key.
StoreRun(i) ==
    /\ runs' = IF Tracked(i) THEN runs \union {i} ELSE runs
    /\ UNCHANGED <<repos, created, saved>>

\* DeleteRepo: its runs go with the row (ON DELETE CASCADE).
DeleteRepo(i) ==
    /\ repos' = [repos EXCEPT ![i] = NoRepo]
    /\ runs' = runs \ {i}
    /\ UNCHANGED <<created, saved>>

\* untrackRepo: the webhook on the forge stays; 404 when there is no such row.
UntrackRepo(i) == Tracked(i) /\ DeleteRepo(i) /\ UNCHANGED hooks

\* SaveForgeToken: replaces the one saved for the same scope.
SaveForgeToken(p) ==
    /\ saved' = {x \in saved : x.scope # TokenScope(p)}
                  \union {[scope |-> TokenScope(p), token |-> Site(p)]}
    /\ UNCHANGED <<repos, created, runs>>

DeleteForgeToken(x) ==
    /\ saved' = saved \ {x}
    /\ UNCHANGED <<repos, created, runs>>

\* The settings page's requests: save a token (the same one again changes
\* nothing), delete one.
SaveToken(p) == SavedFor(p) = {} /\ SaveForgeToken(p) /\ UNCHANGED hooks
DeleteToken(x) == x \in saved /\ DeleteForgeToken(x) /\ UNCHANGED hooks
=============================================================================
