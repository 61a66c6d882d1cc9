------------------------------- MODULE Tracking -------------------------------
(***************************************************************************)
(* How a tracked repository is followed: webhook deliveries are resolved to  *)
(* a repository and verified (httpserver/webhooks.go, receive), and the       *)
(* reconciler polls every repository in turn (ingestion/reconcile.go).  What  *)
(* a delivery or a poll stores is the matter of module Ingestion; here it is  *)
(* that runs of the repository are stored.                                  *)
(***************************************************************************)
EXTENDS Registration

VARIABLE pass   \* the reconciler's pass over the repositories

IdlePass == [pc |-> "idle", todo |-> {}, repo |-> NoRepo, id |-> 0]

TrackingInit == pass = IdlePass

-----------------------------------------------------------------------------
(* Deliveries *)

\* RepoByIdentifier: any row of that forge and name, whatever its instance.
RepoByIdentifier(forge) == {i \in TrackedIds : Forge(repos[i].place) = forge}

\* A defect: the signature is not compared with this repository's secret.
VerifySignature_AnySecret(i, hook) == TRUE

\* VerifySignature: signed with the secret of the repository found.
VerifySignature(i, hook) == hook.secret = i

\* The repositories a delivery of hook h may be taken for, and whether it may be
\* answered 401: none is found, or the one found has another secret.
Takers(h) == {i \in RepoByIdentifier(h.site.forge) : VerifySignature(i, h)}
MayBeRefused(h) == Takers(h) # RepoByIdentifier(h.site.forge) \/ Takers(h) = {}

\* The event types that make anything happen; the others are answered 202.
Handled(forge) == IF forge = "github" THEN {"workflow_run", "workflow_job"} ELSE {"push"}

\* receive: a delivery of hook h is taken.  A refused one changes nothing.
Receive(s, h) ==
    /\ request[s].pc = "idle" /\ s = FreeSlot
    /\ h.events \intersect Handled(h.site.forge) # {}
    /\ \E i \in Takers(h) :
         request' = [request EXCEPT ![s] = [IdleRequest EXCEPT !.pc = "process", !.id = i]]
    /\ UNCHANGED <<storeVars, hooks, requests, faults, cut, pass>>

\* ProcessGitHubEvent stores what the payload says; ProcessForgejoEvent polls
\* the repository, with its token if it is still there.  202, or 500 when the
\* repository was removed since.  Other event types store nothing.
Process(s) ==
    /\ request[s].pc = "process"
    /\ StoreRun(request[s].id) \/ UNCHANGED storeVars
    /\ Answer(s)
    /\ UNCHANGED <<hooks, pass>>

-----------------------------------------------------------------------------
(* The reconciler's pass *)

\* The oldest repository left (ORDER BY created_at), or the end of the pass.
NextOf(todo) ==
    IF todo = {} THEN IdlePass
    ELSE [pc |-> "token", todo |-> todo, repo |-> NoRepo,
          id |-> CHOOSE i \in todo : \A j \in todo : i <= j]

\* Defect: a repository's error is returned, and Run returns it.
Rest_EndsRun(rec, failed) ==
    IF failed THEN [IdlePass EXCEPT !.pc = "ended"] ELSE NextOf(rec.todo \ {rec.id})

\* ReconcileAll: one repository's failure is logged and the next one polled.
Rest(rec, failed) == NextOf(rec.todo \ {rec.id})

\* ReconcileAll: ListRepos, read once for the whole pass.
BeginPass ==
    /\ pass.pc = "idle"
    /\ TrackedIds # {}
    /\ pass' = NextOf(TrackedIds)
    /\ UNCHANGED <<storeVars, hooks, requestVars>>

\* RepoToken: ErrRepoNotFound when the repository was removed since ListRepos.
PassReadToken ==
    /\ pass.pc = "token"
    /\ pass' = IF Tracked(pass.id) THEN [pass EXCEPT !.pc = "list", !.repo = repos[pass.id]]
                                   ELSE Rest(pass, TRUE)
    /\ UNCHANGED <<storeVars, hooks, requestVars>>

\* ListRecentRuns: runs to store; none (GitHub's 304, Forgejo's 404 of a
\* repository without Actions); or an error.
PassList ==
    /\ pass.pc = "list"
    /\ \E failed \in BOOLEAN : pass' \in {[pass EXCEPT !.pc = "store", !.repo = NoRepo], Rest(pass, failed)}
    /\ UNCHANGED <<storeVars, hooks, requestVars>>

\* storeRunSnapshot; an error when the repository was removed meanwhile.
PassStore ==
    /\ pass.pc = "store"
    /\ StoreRun(pass.id)
    /\ pass' = Rest(pass, ~Tracked(pass.id))
    /\ UNCHANGED <<hooks, requestVars>>

PassStep == BeginPass \/ PassReadToken \/ PassList \/ PassStore
=============================================================================
