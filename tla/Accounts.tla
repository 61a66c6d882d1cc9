------------------------------- MODULE Accounts -------------------------------
(***************************************************************************)
(* The dashboard's account: the WebAuthn registration, login and             *)
(* add-a-passkey ceremonies, sign-in sessions and the revocation of passkeys *)
(* (auth/service.go, auth/sqlite/store.go, httpserver/auth.go), as requests  *)
(* served concurrently over one database connection.                        *)
(*                                                                         *)
(* A request is the sequence of statements its handler runs, and one step    *)
(* here is one statement; only RevokeCredential's are in a transaction,      *)
(* which holds the connection (db.go, SetMaxOpenConns(1)).                   *)
(*                                                                         *)
(* Requests are numbered as they arrive, and what a request makes has its    *)
(* number: the ceremony of an options request, the passkey the browser       *)
(* creates in it, the account it may found (user_handle and id), the session *)
(* of a finishing request.  All these ids are random in the code.            *)
(*                                                                         *)
(* External: the WebAuthn library accepts an answer exactly when it was made *)
(* for the ceremony's user handle and, to sign in, by a passkey the ceremony  *)
(* offered that the account still has.                                      *)
(***************************************************************************)
EXTENDS Integers, Sequences

CONSTANTS
    Slots,        \* requests served at once
    MaxRequests,  \* bound: requests ever received
    MaxFaults,    \* bound: failing statements and restarts
    Enrolled      \* how many passkeys the account may have at the start;
                  \* 0: no account yet

ASSUME AccountsAssumption ==
    /\ MaxRequests \in Nat
    /\ MaxFaults \in Nat
    /\ Enrolled \subseteq 0..MaxRequests
    /\ 0 \notin Slots

VARIABLES
    users,     \* the webauthn_users table, oldest first
    creds,     \* the webauthn_credentials table: whose each passkey is; 0 is no row
    ceremony,  \* every ceremony begun; "stored" is its row in webauthn_ceremonies
    expired,   \* the ceremonies past their expires_at
    session,   \* the sessions table: who is signed in; 0 is no session
    revoked,   \* history: the passkeys ever revoked
    req,       \* the request each slot serves
    conn,      \* the slot whose transaction holds the connection; 0 is nobody
    served,    \* how many requests were received
    faults     \* how many failures there were

tables == <<users, creds, ceremony, expired, session, revoked>>
vars == <<users, creds, ceremony, expired, session, revoked, req, conn, served, faults>>

Ids == 1..MaxRequests
OrZero == 0..MaxRequests

Kinds == {"none", "register", "login", "add"}
Ceremony == [kind: Kinds, handle: OrZero, offered: SUBSET Ids, key: OrZero, stored: BOOLEAN]
NoCeremony == [kind |-> "none", handle |-> 0, offered |-> {}, key |-> 0, stored |-> FALSE]

Ops == {"none", "registerOptions", "register", "loginOptions", "login",
        "addOptions", "add", "revoke", "logout"}
PCs == {"idle", "auth", "check", "save", "take", "delete", "user", "creds",
        "count", "insert", "put", "session", "revoke", "remove", "logout"}
Request == [op: Ops, pc: PCs, id: OrZero, cer: OrZero, sess: OrZero,
            user: OrZero, key: OrZero, loaded: SUBSET Ids]
Idle == [op |-> "none", pc |-> "idle", id |-> 0, cer |-> 0, sess |-> 0,
         user |-> 0, key |-> 0, loaded |-> {}]

PasskeysOf(u) == {k \in Ids : creds[k] = u}

\* A new installation (n = 0), or an account that registered, added passkeys and
\* is signed in.
Installed(n) ==
    /\ users = IF n = 0 THEN <<>> ELSE <<1>>
    /\ creds = [k \in Ids |-> IF k <= n THEN 1 ELSE 0]
    /\ ceremony = [c \in Ids |->
         IF c > n THEN NoCeremony
         ELSE [kind |-> IF c = 1 THEN "register" ELSE "add", handle |-> 1,
               offered |-> {}, key |-> c, stored |-> FALSE]]
    /\ expired = {}
    /\ session = [s \in Ids |-> IF s = 1 /\ n > 0 THEN 1 ELSE 0]
    /\ revoked = {}
    /\ req = [p \in Slots |-> Idle]
    /\ conn = 0
    /\ served = n
    /\ faults = 0

Init == \E n \in Enrolled : Installed(n)

-----------------------------------------------------------------------------
(* Requests *)

NewRequest(n, op, pc, s, c, k) ==
    [op |-> op, pc |-> pc, id |-> n, cer |-> c, sess |-> s, user |-> 0,
     key |-> k, loaded |-> {}]

Begun(kinds) == {c \in Ids : ceremony[c].kind \in kinds}

\* The requests a browser sends: options, the answer to a ceremony it began
\* (possibly sent twice), and what a page offers while it is signed in.
Incoming(n) ==
    {NewRequest(n, "registerOptions", "check", 0, 0, 0),
     NewRequest(n, "loginOptions", "user", 0, 0, 0)}
    \union {NewRequest(n, ceremony[c].kind, "take", 0, c, ceremony[c].key) :
              c \in Begun({"register", "login"})}
    \union {NewRequest(n, "addOptions", "auth", s, 0, 0) : s \in Ids}
    \union {NewRequest(n, "add", "auth", s, c, ceremony[c].key) :
              s \in Ids, c \in Begun({"add"})}
    \union {NewRequest(n, "revoke", "auth", s, 0, k) :
              s \in Ids, k \in Begun({"register", "add"})}
    \union {NewRequest(n, "logout", "logout", s, 0, 0) : s \in Ids}

\* A new request takes a free slot; which one makes no difference.
FreeSlot == CHOOSE p \in Slots : req[p].pc = "idle"

Receive(p) ==
    /\ req[p].pc = "idle" /\ p = FreeSlot
    /\ served < MaxRequests
    /\ served' = served + 1
    /\ \E r \in Incoming(served + 1) :
         /\ r.sess # 0 => session[r.sess] # 0
         /\ req' = [req EXCEPT ![p] = r]
    /\ UNCHANGED <<tables, conn, faults>>

\* A statement runs when its request gets the connection.
At(p, pc) == req[p].pc = pc /\ conn = 0
Goto(p, pc) == req' = [req EXCEPT ![p].pc = pc]
Answer(p) == req' = [req EXCEPT ![p] = Idle]

\* requireSession
Authenticate(p) ==
    /\ At(p, "auth")
    /\ IF session[req[p].sess] = 0 THEN Answer(p)
       ELSE req' = [req EXCEPT ![p].user = session[req[p].sess],
                               ![p].pc = CASE req[p].op = "addOptions" -> "user"
                                           [] req[p].op = "add" -> "take"
                                           [] OTHER -> "revoke"]
    /\ UNCHANGED <<tables, conn, served, faults>>

\* BeginRegistration's GetUser
CheckNoUser(p) ==
    /\ At(p, "check")
    /\ IF users # <<>> THEN Answer(p) ELSE Goto(p, "save")
    /\ UNCHANGED <<tables, conn, served, faults>>

\* userWithCredentials' GetUser: LIMIT 1, the oldest account
LoadUser(p) ==
    /\ At(p, "user")
    /\ IF users = <<>> THEN Answer(p)
       ELSE req' = [req EXCEPT ![p].user = users[1], ![p].pc = "creds"]
    /\ UNCHANGED <<tables, conn, served, faults>>

\* The library's verdict on the browser's answer, for the account loaded.
Verified(r, loaded) ==
    /\ ceremony[r.cer].handle = r.user
    /\ r.op = "login" => r.key \in ceremony[r.cer].offered \intersect loaded

\* userWithCredentials' CredentialsForUser, and what the library then makes of it
LoadCredentials(p) ==
    LET loaded == PasskeysOf(req[p].user)
        next(pc) == req' = [req EXCEPT ![p].loaded = loaded, ![p].pc = pc]
    IN  /\ At(p, "creds")
        /\ CASE req[p].op = "loginOptions" -> IF loaded = {} THEN Answer(p) ELSE next("save")
             [] req[p].op = "addOptions" -> next("save")
             [] OTHER -> IF Verified(req[p], loaded) THEN next("put") ELSE Answer(p)
        /\ UNCHANGED <<tables, conn, served, faults>>

\* saveCeremony.  Registering and adding make a new passkey; a browser signs in
\* with one it was offered.
SaveCeremony(p) ==
    LET n == req[p].id
        begun(kind, handle, k) == [kind |-> kind, handle |-> handle, offered |-> req[p].loaded,
                                   key |-> k, stored |-> TRUE]
    IN  /\ At(p, "save")
        /\ \E row \in CASE req[p].op = "registerOptions" -> {begun("register", n, n)}
                        [] req[p].op = "addOptions" -> {begun("add", req[p].user, n)}
                        [] OTHER -> {begun("login", req[p].user, k) : k \in req[p].loaded} :
             ceremony' = [ceremony EXCEPT ![n] = row]
        /\ Answer(p)
        /\ UNCHANGED <<users, creds, expired, session, revoked, conn, served, faults>>

\* TakeCeremony is a SELECT and a DELETE.
FindCeremony(p) ==
    /\ At(p, "take")
    /\ IF ceremony[req[p].cer].stored THEN Goto(p, "delete") ELSE Answer(p)
    /\ UNCHANGED <<tables, conn, served, faults>>

DeleteCeremony(p) ==
    /\ At(p, "delete")
    /\ ceremony' = [ceremony EXCEPT ![req[p].cer].stored = FALSE]
    /\ IF req[p].cer \in expired THEN Answer(p)
       ELSE Goto(p, IF req[p].op = "register" THEN "count" ELSE "user")
    /\ UNCHANGED <<users, creds, expired, session, revoked, conn, served, faults>>

\* CreateUser is a SELECT COUNT and an INSERT.
CountUsers(p) ==
    /\ At(p, "count")
    /\ IF users # <<>> THEN Answer(p) ELSE Goto(p, "insert")
    /\ UNCHANGED <<tables, conn, served, faults>>

\* A defect: the session is created before the passkey is saved.
InsertUser_SessionFirst(p) ==
    LET h == ceremony[req[p].cer].handle IN
    /\ At(p, "insert")
    /\ IF \E i \in DOMAIN users : users[i] = h
       THEN Answer(p) /\ UNCHANGED users
       ELSE /\ users' = Append(users, h)
            /\ req' = [req EXCEPT ![p].user = h, ![p].pc = "session"]
    /\ UNCHANGED <<creds, ceremony, expired, session, revoked, conn, served, faults>>

\* A defect: the account gets a new handle, not the one its passkey was made for.
InsertUser_NewHandle(p) ==
    LET h == req[p].id IN
    /\ At(p, "insert")
    /\ users' = Append(users, h)
    /\ req' = [req EXCEPT ![p].user = h, ![p].pc = "put"]
    /\ UNCHANGED <<creds, ceremony, expired, session, revoked, conn, served, faults>>

\* A defect: user_handle is not UNIQUE.
InsertUser_NotUnique(p) ==
    LET h == ceremony[req[p].cer].handle IN
    /\ At(p, "insert")
    /\ users' = Append(users, h)
    /\ req' = [req EXCEPT ![p].user = h, ![p].pc = "put"]
    /\ UNCHANGED <<creds, ceremony, expired, session, revoked, conn, served, faults>>

\* user_handle is UNIQUE: the same ceremony cannot found two accounts.
InsertUser(p) ==
    LET h == ceremony[req[p].cer].handle IN
    /\ At(p, "insert")
    /\ IF \E i \in DOMAIN users : users[i] = h
       THEN Answer(p) /\ UNCHANGED users
       ELSE /\ users' = Append(users, h)
            /\ req' = [req EXCEPT ![p].user = h, ![p].pc = "put"]
    /\ UNCHANGED <<creds, ceremony, expired, session, revoked, conn, served, faults>>

\* PutCredential and PutCredentialLabeled: an upsert that keeps the row's user.
PutCredential(p) ==
    LET k == req[p].key IN
    /\ At(p, "put")
    /\ creds' = [creds EXCEPT ![k] = IF @ = 0 THEN req[p].user ELSE @]
    /\ IF req[p].op = "add" THEN Answer(p) ELSE Goto(p, "session")
    /\ UNCHANGED <<users, ceremony, expired, session, revoked, conn, served, faults>>

CreateSession(p) ==
    /\ At(p, "session")
    /\ session' = [session EXCEPT ![req[p].id] = req[p].user]
    /\ Answer(p)
    /\ UNCHANGED <<users, creds, ceremony, expired, revoked, conn, served, faults>>

HasSpare(u) == \E k, l \in PasskeysOf(u) : k # l

\* Defects: the count and the delete are not in one transaction; the early
\* return keeps the transaction open.
RevokeCount_NoTransaction(p) ==
    /\ At(p, "revoke")
    /\ IF HasSpare(req[p].user) THEN Goto(p, "remove") ELSE Answer(p)
    /\ UNCHANGED <<tables, conn, served, faults>>
RevokeCount_NoRollback(p) ==
    /\ At(p, "revoke")
    /\ IF HasSpare(req[p].user) THEN Goto(p, "remove") ELSE Answer(p)
    /\ conn' = p
    /\ UNCHANGED <<tables, served, faults>>

\* RevokeCredential begins its transaction and counts: the last passkey stays.
RevokeCount(p) ==
    /\ At(p, "revoke")
    /\ IF HasSpare(req[p].user)
       THEN Goto(p, "remove") /\ conn' = p
       ELSE Answer(p) /\ UNCHANGED conn
    /\ UNCHANGED <<tables, served, faults>>

\* It deletes the row, if it is the account's, and commits.
RevokeCommit(p) ==
    LET k == req[p].key IN
    /\ req[p].pc = "remove"
    /\ creds' = [creds EXCEPT ![k] = IF @ = req[p].user THEN 0 ELSE @]
    /\ revoked' = revoked \union {l \in Ids : creds[l] # 0 /\ creds'[l] = 0}
    /\ conn' = 0
    /\ Answer(p)
    /\ UNCHANGED <<users, ceremony, expired, session, served, faults>>

Logout(p) ==
    /\ At(p, "logout")
    /\ session' = [session EXCEPT ![req[p].sess] = 0]
    /\ Answer(p)
    /\ UNCHANGED <<users, creds, ceremony, expired, revoked, conn, served, faults>>

RequestStep(p) ==
    \/ Authenticate(p)
    \/ CheckNoUser(p)
    \/ LoadUser(p)
    \/ LoadCredentials(p)
    \/ SaveCeremony(p)
    \/ FindCeremony(p)
    \/ DeleteCeremony(p)
    \/ CountUsers(p)
    \/ InsertUser(p)
    \/ PutCredential(p)
    \/ CreateSession(p)
    \/ RevokeCount(p)
    \/ RevokeCommit(p)
    \/ Logout(p)

-----------------------------------------------------------------------------
(* What happens around them *)

\* A statement fails, for one because the browser went away and the request's
\* context is cancelled: the handler answers and rolls its transaction back.
StatementFails(p) ==
    /\ req[p].pc # "idle"
    /\ faults < MaxFaults
    /\ faults' = faults + 1
    /\ Answer(p)
    /\ conn' = IF conn = p THEN 0 ELSE conn
    /\ UNCHANGED <<tables, served>>

Restart ==
    /\ faults < MaxFaults
    /\ faults' = faults + 1
    /\ req' = [p \in Slots |-> Idle]
    /\ conn' = 0
    /\ UNCHANGED <<tables, served>>

CeremonyExpires ==
    /\ \E c \in Ids : ceremony[c].stored /\ expired' = expired \union {c}
    /\ UNCHANGED <<users, creds, ceremony, session, revoked, req, conn, served, faults>>

SessionExpires ==
    /\ \E s \in Ids : session[s] # 0 /\ session' = [session EXCEPT ![s] = 0]
    /\ UNCHANGED <<users, creds, ceremony, expired, revoked, req, conn, served, faults>>

Next ==
    \/ \E p \in Slots : Receive(p) \/ RequestStep(p) \/ StatementFails(p)
    \/ Restart
    \/ CeremonyExpires
    \/ SessionExpires

Spec == Init /\ [][Next]_vars

\* The scheduler runs every request's goroutine and database/sql gives a free
\* connection to a request that waits for it.
Fairness == \A p \in Slots : WF_vars(RequestStep(p))

FairSpec == Spec /\ Fairness

-----------------------------------------------------------------------------
TypeOK ==
    /\ users \in Seq(Ids)
    /\ \A i, j \in DOMAIN users : users[i] = users[j] => i = j
    /\ creds \in [Ids -> OrZero]
    /\ ceremony \in [Ids -> Ceremony]
    /\ expired \subseteq Ids
    /\ session \in [Ids -> OrZero]
    /\ revoked \subseteq Ids
    /\ req \in [Slots -> Request]
    /\ conn \in Slots \union {0}
    /\ served \in OrZero
    /\ faults \in 0..MaxFaults

\* An account that has a passkey keeps at least one, "so a concurrent revoke of
\* the account's last two credentials can't zero it out" (auth.go, Store).
KeepsAPasskey ==
    [][\A u \in Ids : PasskeysOf(u) # {} => PasskeysOf(u)' # {}]_creds

\* Whoever is signed in has a passkey to sign in with again, whatever ceremonies,
\* revocations and failures overlap (FinishRegistration and FinishLogin save the
\* passkey before they create the session).
SignedInHasPasskey ==
    \A s \in Ids : session[s] # 0 => PasskeysOf(session[s]) # {}

\* "exactly one user account" (dashboard-auth/spec.md): CreateUser refuses a second.
OneAccount == Len(users) <= 1

\* An account has a passkey once no request is still founding it ("creates the
\* single user account bound to that credential", dashboard-auth/spec.md).
AccountHasPasskey ==
    \A i \in DOMAIN users :
        \/ PasskeysOf(users[i]) # {}
        \/ \E p \in Slots : req[p].pc = "put" /\ req[p].user = users[i]

\* A passkey that was revoked is not stored again: "it can no longer be used to log
\* in" (dashboard-auth/spec.md, "A user revokes a lost passkey").
RevokedStaysRevoked == \A k \in revoked : creds[k] = 0

-----------------------------------------------------------------------------
(* Accounts implements Keyring *)

Founded == {users[i] : i \in DOMAIN users}
MadeFor == [k \in Ids |-> IF ceremony[k].kind \in {"register", "add"}
                          THEN ceremony[k].handle ELSE 0]

\* A request that may store its passkey without looking again at what is stored:
\* it found its ceremony, or the library accepted its sign-in.
HoldsPasskey(r) ==
    \/ r.op \in {"register", "add"} /\ r.pc \in {"delete", "user", "creds", "count", "insert", "put"}
    \/ r.op = "login" /\ r.pc = "put"

Held == {req[p].key : p \in {q \in Slots : HoldsPasskey(req[q])}}

Ring == INSTANCE Keyring WITH accounts <- Founded, made <- MadeFor, owner <- creds,
                              held <- Held, Nobody <- 0

\* However ceremonies, revocations and failures overlap, all they do to accounts,
\* passkeys and sessions is what Keyring says, one change at a time: a passkey is
\* stored for the account its ceremony was for and no other, signing in takes one,
\* and one that was revoked is stored again only by a request that held it by then
\* (FinishRegistration, FinishLogin, FinishAddCredential, RevokeCredential).
KeepsKeyring == Ring!Spec

-----------------------------------------------------------------------------
(* Liveness, under FairSpec *)

\* Every request is answered: no transaction keeps the one connection for itself
\* (every path out of RevokeCredential commits or rolls back).
EveryRequestAnswered == \A p \in Slots : req[p].pc # "idle" ~> req[p].pc = "idle"
=============================================================================
