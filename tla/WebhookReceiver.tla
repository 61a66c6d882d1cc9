---------------------------- MODULE WebhookReceiver ----------------------------
(***************************************************************************)
(* The handlers of GitHub webhook deliveries that passed the signature      *)
(* check (httpserver/webhooks.go, ingestion/webhook.go).  Each runs in a    *)
(* goroutine of its own: it takes a delivery, asks the store to write what   *)
(* the delivery says, and answers 202, or 500 when the store failed.  A      *)
(* delivery answered 500 is not applied later by anyone: GitHub does not     *)
(* retry.                                                                   *)
(***************************************************************************)
EXTENDS GitHubForge, RunStore

CONSTANTS
    Handlers,      \* webhook requests served at once
    MaxDeliveries  \* bound: deliveries received (0: the webhook was never
                   \* created, the repository is "degraded" and only polled)

ASSUME HandlersAssumption == Handlers \subseteq Writers /\ MaxDeliveries \in Nat

VARIABLES
    received,  \* how many deliveries were received
    touched,   \* history: runs whose row a handler wrote
    acked      \* history: <<run, attempt, job>> of deliveries answered 202

webhookVars == <<received, touched, acked>>

AckKeys == Runs \X (0..MaxAttempts) \X OrNone(Jobs)

WebhookInit == received = 0 /\ touched = {} /\ acked = {}

\* processGitHubWorkflowRun writes the run the event describes;
\* processGitHubWorkflowJob writes a stub of the parent run, then the job.
RequestOf(m) ==
    IF m.event = "workflow_run"
    THEN WriteRequest(m.run, RowOf(m.state), m.state.attempt, NoJobs)
    ELSE WriteRequest(m.run, StubRow, m.attempt, [NoJobs EXCEPT ![m.job] = m.phase])

Receive(h) ==
    /\ writer[h].pc = "idle"
    /\ received < MaxDeliveries
    /\ received' = received + 1
    /\ \E m \in net : /\ writer' = [writer EXCEPT ![h] = RequestOf(m)]
                      /\ touched' = touched \union {m.run}
    /\ UNCHANGED <<forgeVars, storeVars, faults, acked>>

Accept(h) ==
    /\ writer[h].pc = "done"
    /\ acked' = acked \union {JobKeyOf(h)}
    /\ writer' = [writer EXCEPT ![h] = IdleWriter]
    /\ UNCHANGED <<forgeVars, storeVars, faults, received, touched>>

Reject(h) ==
    /\ writer[h].pc = "failed"
    /\ writer' = [writer EXCEPT ![h] = IdleWriter]
    /\ UNCHANGED <<forgeVars, storeVars, faults, webhookVars>>
=============================================================================
