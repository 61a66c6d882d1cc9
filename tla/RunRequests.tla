------------------------------ MODULE RunRequests ------------------------------
(***************************************************************************)
(* What the dashboard asks a forge about one run: re-run it, cancel it       *)
(* (ingestion/run_actions.go), show the end of a job's log                    *)
(* (ingestion/joblog_service.go).  Both find the run in the database, then    *)
(* its repository, then the repository's token, in statements of their own,   *)
(* and ask the forge last; what the forge refuses is only reported.          *)
(***************************************************************************)
EXTENDS Registration, Figures

Actions == {"rerun", "cancel"}
Completed == BOOLEAN   \* whether a stored run's status is completed

\* The forge clients that implement RunActor (github/run_actions.go); both
\* implement JobLogReader.
Forges == {"github", "forgejo"}
HasActor(forge) == forge = "github"

\* A defect: the actions are listed whatever the forge.
ActionsFor_AnyForge(forge, completed) == IF completed THEN {"rerun"} ELSE {"cancel"}

\* ActionsFor: the actions the run list offers.
ActionsFor(forge, completed) ==
    IF forge # "github" THEN {} ELSE IF completed THEN {"rerun"} ELSE {"cancel"}

\* act: a re-run of a completed run, a cancel of another.
StatusAllows(completed, action) == completed = (action = "rerun")

\* RunByID and LocateJob: of the runs only whether the repository has any is kept.
RunByID(i) == i \in runs
LocateJob(i) == i \in runs

\* A re-run or cancel is asked for: act finds the run and checks its status.
BeginAction(s, i, action) ==
    /\ RunByID(i)
    /\ \E completed \in Completed : StatusAllows(completed, action)
    /\ Begin(s, [IdleRequest EXCEPT !.pc = "getRepo", !.id = i, !.ask = "action"])
    /\ UNCHANGED <<storeVars, hooks>>

BeginLog(s, i) ==
    /\ LocateJob(i)
    /\ Begin(s, [IdleRequest EXCEPT !.pc = "getRepo", !.id = i, !.ask = "log"])
    /\ UNCHANGED <<storeVars, hooks>>

\* discoverRepos, with registration's token rule.
BeginDiscover(s, p, given) ==
    /\ \E t \in TokensFor(p, given) :
         Begin(s, [IdleRequest EXCEPT !.pc = "ask", !.place = p, !.token = t])
    /\ UNCHANGED <<storeVars, hooks>>

\* GetRepo: a repository removed meanwhile is a 404, a forge without a client
\* for this a 501.
GetRepo(s, served) ==
    LET row == repos[request[s].id] IN
    /\ request[s].pc = "getRepo"
    /\ IF Tracked(request[s].id) /\ Forge(row.place) \in served
         THEN /\ request' = [request EXCEPT ![s].pc = "token", ![s].place = row.place]
              /\ UNCHANGED <<requests, faults, cut>>
         ELSE Answer(s)
    /\ UNCHANGED <<storeVars, hooks>>
GetActionRepo(s) == request[s].ask = "action" /\ GetRepo(s, {f \in Forges : HasActor(f)})
GetLogRepo(s) == request[s].ask = "log" /\ GetRepo(s, Forges)

\* RepoToken; a 500 when the repository was removed since GetRepo.
ReadToken(s) ==
    /\ request[s].pc = "token"
    /\ IF Tracked(request[s].id)
         THEN /\ request' = [request EXCEPT ![s].pc = "ask",
                                            ![s].token = repos[request[s].id].token]
              /\ UNCHANGED <<requests, faults, cut>>
         ELSE Answer(s)
    /\ UNCHANGED <<storeVars, hooks>>

\* Whatever the forge answers, or when it does not, is passed on and nothing is
\* stored: a run action, a log's tail (Forgejo's is "unsupported"), a list of
\* the token's repositories.
Ask(s, what) ==
    /\ request[s].pc = "ask" /\ request[s].ask = what
    /\ Answer(s)
    /\ UNCHANGED <<storeVars, hooks>>
PostRunAction(s) == Ask(s, "action")
JobLogTail(s) == Ask(s, "log")
Discover(s) == Ask(s, "none")

RunRequestStep(s) ==
    \/ GetActionRepo(s) \/ GetLogRepo(s) \/ ReadToken(s)
    \/ PostRunAction(s) \/ JobLogTail(s) \/ Discover(s)

-----------------------------------------------------------------------------
(* The end of a job's log (github/joblog.go).  A log is the sizes of its      *)
(* lines: what is read of it ends at Cap, in the middle of a line if need be. *)

\* The whole lines and the part of one within the first cap bytes of a log; left is how
\* many of these are left after each line.
ReadUpTo(log, cap) ==
    LET left[k \in 0..Len(log)] == IF k = 0 THEN cap ELSE Most(left[k - 1] - log[k], 0)
        read == {k \in 1..Len(log) : left[k - 1] > 0}
    IN  [k \in 1..Cardinality(read) |-> Least(log[k], left[k - 1])]

\* A line is kept, in the place of the first if there are n.  A defect: one kept less.
Keep_OneLess(ring, line, n) == Append(IF Len(ring) + 1 >= n /\ ring # <<>> THEN Tail(ring) ELSE ring, line)
Keep(ring, line, n) == Append(IF Len(ring) = n THEN Tail(ring) ELSE ring, line)

\* tailLines: a ring of the last n lines read, and whether there were more.
TailLines(log, n, cap) ==
    LET read == ReadUpTo(log, cap)
        ring[k \in 0..Len(read)] == IF k = 0 THEN <<>> ELSE Keep(ring[k - 1], read[k], n)
    IN  [lines |-> ring[Len(read)], truncated |-> Len(read) > n]
=============================================================================
