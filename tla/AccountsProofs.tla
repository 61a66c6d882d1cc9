---------------------------- MODULE AccountsProofs ----------------------------
(***************************************************************************)
(* Accounts for any number of concurrent requests, ceremonies and failures:  *)
(* types, that an account never loses its last passkey, and that the        *)
(* statements of the handlers together implement Keyring.                   *)
(***************************************************************************)
EXTENDS Accounts, SequenceTheorems, TLAPS

NewKey == {"register", "add"}            \* ceremonies that make a passkey
Finishing == {"register", "login", "add"}
Beginning == {"registerOptions", "loginOptions", "addOptions"}
Busy(p) == req[p].pc # "idle"

\* Numbers not received yet are unused, and requests under way have their own.
NumbersInv ==
    /\ \A c \in Ids : c > served => ceremony[c].kind = "none"
    /\ \A p \in Slots : Busy(p) => req[p].id \in 1..served
    /\ \A p, q \in Slots : Busy(p) /\ Busy(q) /\ req[p].id = req[q].id => p = q
    /\ \A p \in Slots : Busy(p) /\ req[p].op \in Beginning =>
                            ceremony[req[p].id].kind = "none"

\* A stored passkey belongs to the handle of the ceremony that made it.
PasskeysInv ==
    /\ \A k \in Ids : creds[k] # 0 =>
           creds[k] = ceremony[k].handle /\ ceremony[k].kind \in NewKey
    /\ \A c \in Ids : ceremony[c].kind \in NewKey => ceremony[c].key = c
    /\ \A c \in Ids : ceremony[c].kind = "register" => ceremony[c].handle = c

\* Which requests take which steps.
OpAtPC(r) ==
    /\ r.pc = "auth" => r.op \in {"addOptions", "add", "revoke"}
    /\ r.pc = "check" => r.op = "registerOptions"
    /\ r.pc \in {"user", "creds"} => r.op \in {"loginOptions", "login", "addOptions", "add"}
    /\ r.pc = "save" => r.op \in Beginning
    /\ r.pc \in {"take", "delete", "put"} => r.op \in Finishing
    /\ r.pc \in {"count", "insert"} => r.op = "register"
    /\ r.pc \in {"revoke", "remove"} => r.op = "revoke"
    /\ r.loaded # {} => r.pc \in {"save", "put", "session"}

\* What a request has in hand.
RequestInv(p) ==
    LET r == req[p] IN
    /\ OpAtPC(r)
    /\ r.op \in Finishing => /\ r.cer \in Ids
                             /\ ceremony[r.cer].kind = r.op
                             /\ r.key = ceremony[r.cer].key
    /\ \A k \in r.loaded : ceremony[k].handle = r.user /\ ceremony[k].kind \in NewKey
    /\ r.pc \in {"auth", "logout"} => r.sess \in Ids
    /\ r.pc \in {"creds", "put", "session"} => r.user # 0
    /\ r.pc = "save" /\ r.op = "addOptions" => r.user # 0
    /\ r.pc = "put" => /\ r.key \in Ids
                       /\ ceremony[r.key].handle = r.user
                       /\ ceremony[r.key].kind \in NewKey
    /\ r.pc = "session" => PasskeysOf(r.user) # {}
    /\ r.pc = "remove" => conn = p /\ HasSpare(r.user)

IInv ==
    /\ TypeOK
    /\ NumbersInv
    /\ PasskeysInv
    /\ \A p \in Slots : RequestInv(p)
    /\ SignedInHasPasskey

USE DEF Ids, OrZero

-----------------------------------------------------------------------------
(* Frames: what a step of one request leaves alone *)

\* The request of p becomes r, and goes on with what it was or ends.
MovesTo(p, r) ==
    /\ r \in Request
    /\ req' = [req EXCEPT ![p] = r]
    /\ r = Idle \/ (Busy(p) /\ r.pc # "idle" /\ r.id = req[p].id /\ r.op = req[p].op)

\* Ceremonies already begun and passkeys an account relies on stay.
Keeps ==
    /\ \A c \in Ids : ceremony[c].kind # "none" =>
           /\ ceremony'[c].kind = ceremony[c].kind
           /\ ceremony'[c].handle = ceremony[c].handle
           /\ ceremony'[c].key = ceremony[c].key
    /\ \A u \in Ids : PasskeysOf(u) # {} => PasskeysOf(u)' # {}

\* The idle request is a request and has nothing in hand.
LEMMA IdleTyped == Idle \in Request
BY AccountsAssumption DEF Idle, Request, Ops, PCs

\* An idle slot satisfies what is said of requests.
LEMMA IdleHasNothing ==
    ASSUME NEW p \in Slots, req'[p] = Idle
    PROVE  RequestInv(p)'
BY DEF RequestInv, OpAtPC, Idle, Finishing

\* The numbers stay in use as they were while a request moves.
LEMMA NumbersKept ==
    ASSUME IInv, NEW p \in Slots, NEW r, MovesTo(p, r), served' = served,
           \A c \in Ids : \/ ceremony'[c].kind = ceremony[c].kind
                          \/ Busy(p) /\ c = req[p].id /\ r = Idle
    PROVE  NumbersInv'
<1>1. NumbersInv /\ req \in [Slots -> Request] /\ served \in OrZero
  BY DEF IInv, TypeOK
<1>2. \A q \in Slots : req'[q] = IF q = p THEN r ELSE req[q]
  BY <1>1 DEF MovesTo
<1>3. \A q \in Slots : Busy(q)' => /\ Busy(q) /\ req'[q].id = req[q].id
                                   /\ req'[q].op = req[q].op
  BY <1>2 DEF MovesTo, Busy, Idle
<1>4. \A q \in Slots : Busy(q) => req[q].id \in 1..served /\ req[q].id \in Ids
  BY <1>1, AccountsAssumption DEF NumbersInv
<1>5. \A c \in Ids : c > served => ceremony'[c].kind = "none"
  BY <1>1, <1>4, AccountsAssumption DEF NumbersInv
<1>6. \A q \in Slots : Busy(q)' /\ req'[q].op \in Beginning =>
                           ceremony'[req'[q].id].kind = "none"
  <2> SUFFICES ASSUME NEW q \in Slots, Busy(q)', req'[q].op \in Beginning
               PROVE  ceremony'[req[q].id].kind = "none"
    BY <1>3
  <2>1. Busy(q) /\ ceremony[req[q].id].kind = "none" /\ req[q].id \in Ids
    BY <1>1, <1>3, <1>4 DEF NumbersInv
  <2>2. ~(Busy(p) /\ req[q].id = req[p].id /\ r = Idle)
    BY <1>1, <1>2, <2>1 DEF NumbersInv, Busy, Idle
  <2> QED
    BY <2>1, <2>2
<1>7. \A q \in Slots : Busy(q)' => req'[q].id \in 1..served'
  BY <1>3, <1>4
<1>8. \A q, s \in Slots : Busy(q)' /\ Busy(s)' /\ req'[q].id = req'[s].id => q = s
  BY <1>1, <1>3 DEF NumbersInv
<1> QED
  BY <1>5, <1>6, <1>7, <1>8 DEF NumbersInv

\* The other requests keep what they have in hand.
LEMMA OthersKept ==
    ASSUME IInv, NEW q \in Slots, req'[q] = req[q], Keeps,
           req[q].pc = "remove" => conn' = conn /\ creds' = creds
    PROVE  RequestInv(q)'
<1>1. RequestInv(q) /\ req[q] \in Request
  BY DEF IInv, TypeOK
<1> DEFINE r == req[q]
<1>2. r.op \in Finishing => /\ r.cer \in Ids
                            /\ ceremony'[r.cer].kind = r.op
                            /\ r.key = ceremony'[r.cer].key
  BY <1>1 DEF RequestInv, Keeps, Finishing
<1>3. \A k \in r.loaded : ceremony'[k].handle = r.user /\ ceremony'[k].kind \in NewKey
  BY <1>1 DEF RequestInv, Keeps, NewKey, Request
<1>4. r.pc = "put" => /\ r.key \in Ids
                      /\ ceremony'[r.key].handle = r.user
                      /\ ceremony'[r.key].kind \in NewKey
  BY <1>1 DEF RequestInv, Keeps, NewKey
<1>5. r.pc = "session" => PasskeysOf(r.user)' # {}
  BY <1>1 DEF RequestInv, Keeps, Request
<1>6. r.pc = "remove" => conn' = q /\ HasSpare(r.user)'
  BY <1>1 DEF RequestInv, HasSpare, PasskeysOf
<1>7. /\ OpAtPC(r)
      /\ r.pc \in {"auth", "logout"} => r.sess \in Ids
      /\ r.pc \in {"creds", "put", "session"} => r.user # 0
      /\ r.pc = "save" /\ r.op = "addOptions" => r.user # 0
  BY <1>1 DEF RequestInv
<1> QED
  BY <1>2, <1>3, <1>4, <1>5, <1>6, <1>7 DEF RequestInv

\* A request's step keeps the invariant if its own part of it does.
LEMMA StepKept ==
    ASSUME IInv, NEW p \in Slots, NEW r, MovesTo(p, r), Keeps, served' = served,
           TypeOK', PasskeysInv', SignedInHasPasskey', RequestInv(p)',
           \A c \in Ids : \/ ceremony'[c].kind = ceremony[c].kind
                          \/ Busy(p) /\ c = req[p].id /\ r = Idle,
           \A q \in Slots \ {p} : req[q].pc = "remove" => conn' = conn /\ creds' = creds
    PROVE  IInv'
<1>1. NumbersInv'
  BY NumbersKept
<1>2. ASSUME NEW q \in Slots PROVE RequestInv(q)'
  <2>1. CASE q = p
    BY <2>1
  <2>2. CASE q # p
    <3>1. req'[q] = req[q]
      BY <2>2 DEF MovesTo, IInv, TypeOK
    <3> QED
      BY <2>2, <3>1, OthersKept
  <2> QED
    BY <2>1, <2>2
<1> QED
  BY <1>1, <1>2 DEF IInv

\* A step that only reads keeps the invariant if what the request then has in
\* hand is as said.
LEMMA ReadKept ==
    ASSUME IInv, NEW p \in Slots, NEW r, MovesTo(p, r),
           UNCHANGED <<tables, conn, served, faults>>, RequestInv(p)'
    PROVE  IInv'
<1>1. TypeOK'
  BY DEF IInv, TypeOK, MovesTo, tables
<1>2. Keeps
  BY DEF Keeps, tables, PasskeysOf
<1>3. PasskeysInv' /\ SignedInHasPasskey'
  BY DEF IInv, PasskeysInv, SignedInHasPasskey, PasskeysOf, tables
<1> QED
  BY <1>1, <1>2, <1>3, StepKept DEF tables

\* A request that only ends leaves everything as it was.
LEMMA AnswerKept ==
    ASSUME IInv, NEW p \in Slots, Answer(p), UNCHANGED <<tables, conn, served, faults>>
    PROVE  IInv'
<1>1. MovesTo(p, Idle)
  BY IdleTyped DEF MovesTo, Answer
<1>2. RequestInv(p)'
  BY IdleHasNothing DEF Answer, IInv, TypeOK
<1> QED
  BY <1>1, <1>2, ReadKept

-----------------------------------------------------------------------------
(* The steps of a request that only read *)

\* The session's account is handed to the handler.
LEMMA AuthenticateKeeps ==
    ASSUME IInv, NEW p \in Slots, Authenticate(p)
    PROVE  IInv'
<1>1. CASE session[req[p].sess] = 0
  BY <1>1, AnswerKept DEF Authenticate
<1>2. CASE session[req[p].sess] # 0
  <2> DEFINE pc == CASE req[p].op = "addOptions" -> "user"
                     [] req[p].op = "add" -> "take"
                     [] OTHER -> "revoke"
             r == [req[p] EXCEPT !.user = session[req[p].sess], !.pc = pc]
  <2>1. req[p] \in Request /\ RequestInv(p) /\ req[p].pc = "auth" /\ session \in [Ids -> OrZero]
    BY DEF IInv, TypeOK, Authenticate, At
  <2>2. pc \in {"user", "take", "revoke"} /\ OpAtPC([req[p] EXCEPT !.pc = pc])
    BY <2>1 DEF RequestInv, OpAtPC, Finishing, Request
  <2>3. req' = [req EXCEPT ![p] = r]
    BY <1>2 DEF Authenticate, IInv, TypeOK
  <2> HIDE DEF pc
  <2>4. session[req[p].sess] \in OrZero
    BY <2>1 DEF RequestInv
  <2>5. r \in Request
    BY <2>1, <2>2, <2>4 DEF Request, PCs
  <2>6. MovesTo(p, r)
    BY <2>1, <2>2, <2>3, <2>5 DEF MovesTo, Busy, Request
  <2>7. RequestInv(p)'
    <3>1. req'[p] = r /\ UNCHANGED tables
      BY <2>3 DEF IInv, TypeOK, Authenticate
    <3>2. /\ r.op = req[p].op /\ r.pc = pc /\ r.loaded = req[p].loaded
          /\ r.cer = req[p].cer /\ r.key = req[p].key
      BY <2>1 DEF Request
    <3>3. r.loaded = {}
      BY <2>1, <3>2 DEF RequestInv, OpAtPC
    <3>4. OpAtPC(r)
      BY <2>1, <2>2, <3>2 DEF OpAtPC, Request
    <3> HIDE DEF r
    <3>5. r.pc \in {"user", "take", "revoke"}
      BY <2>2, <3>2
    <3>6. r.op \in Finishing => /\ r.cer \in Ids
                                /\ ceremony[r.cer].kind = r.op
                                /\ r.key = ceremony[r.cer].key
      BY <2>1, <3>2 DEF RequestInv
    <3> QED
      BY <3>1, <3>3, <3>4, <3>5, <3>6 DEF RequestInv, OpAtPC, tables
  <2> QED
    BY <2>6, <2>7, ReadKept DEF Authenticate
<1> QED
  BY <1>1, <1>2

\* A step that only moves on to another statement of the same request.
LEMMA GotoKept ==
    ASSUME IInv, NEW p \in Slots, NEW pc \in PCs \ {"idle", "put", "session", "remove", "creds", "auth", "logout"},
           Goto(p, pc), req[p].loaded = {}, req[p].pc # "idle", OpAtPC([req[p] EXCEPT !.pc = pc]),
           pc = "save" => req[p].op # "addOptions",
           UNCHANGED <<tables, conn, served, faults>>
    PROVE  IInv'
<1> DEFINE r == [req[p] EXCEPT !.pc = pc]
<1>1. req[p] \in Request /\ RequestInv(p)
  BY DEF IInv, TypeOK
<1>2. r \in Request /\ req' = [req EXCEPT ![p] = r]
  BY <1>1 DEF Request, Goto, IInv, TypeOK
<1>3. MovesTo(p, r)
  BY <1>1, <1>2 DEF MovesTo, Busy, Request
<1>4. RequestInv(p)'
  BY <1>1, <1>2 DEF RequestInv, tables, Request, IInv, TypeOK
<1> QED
  BY <1>3, <1>4, ReadKept

\* An account exists: its passkeys are loaded next.
LEMMA LoadUserKeeps ==
    ASSUME IInv, NEW p \in Slots, LoadUser(p)
    PROVE  IInv'
<1>1. CASE users = <<>>
  BY <1>1, AnswerKept DEF LoadUser
<1>2. CASE users # <<>>
  <2>1. req[p] \in Request /\ RequestInv(p) /\ req[p].pc = "user"
    BY DEF IInv, TypeOK, LoadUser, At
  <2>2. PICK u \in Ids : u = users[1]
    <3>1. users \in Seq(Ids)
      BY DEF IInv, TypeOK
    <3>2. Len(users) \in Nat \ {0}
      BY <1>2, <3>1, EmptySeq, Zenon
    <3>3. 1 \in 1..Len(users)
      BY <3>2
    <3> QED
      BY <3>1, <3>3, ElementOfSeq, Zenon
  <2> DEFINE r == [req[p] EXCEPT !.user = u, !.pc = "creds"]
  <2>3. req' = [req EXCEPT ![p] = r]
    BY <1>2, <2>2 DEF LoadUser, IInv, TypeOK
  <2>4. u # 0 /\ u \in OrZero
    BY AccountsAssumption
  <2> HIDE DEF Ids, OrZero
  <2>5. r \in Request
    BY <2>1, <2>4 DEF Request, PCs
  <2>6. MovesTo(p, r)
    BY <2>1, <2>3, <2>5 DEF MovesTo, Busy, Request
  <2>7. req'[p] = r /\ req[p].loaded = {}
    BY <2>1, <2>3 DEF IInv, TypeOK, RequestInv, OpAtPC
  <2>8. RequestInv(p)'
    BY <2>1, <2>4, <2>7 DEF RequestInv, OpAtPC, LoadUser, tables, Request
  <2> QED
    BY <2>6, <2>8, ReadKept DEF LoadUser
<1> QED
  BY <1>1, <1>2

\* What is loaded belongs to the account, and a verified answer's passkey too.
LEMMA LoadCredentialsKeeps ==
    ASSUME IInv, NEW p \in Slots, LoadCredentials(p)
    PROVE  IInv'
<1> DEFINE loaded == PasskeysOf(req[p].user)
           to(pc) == [req[p] EXCEPT !.loaded = loaded, !.pc = pc]
<1>1. /\ req[p] \in Request /\ RequestInv(p) /\ req[p].pc = "creds"
      /\ PasskeysInv /\ req[p].user # 0
  BY DEF IInv, TypeOK, LoadCredentials, At, RequestInv
<1>2. loaded \subseteq Ids
  BY DEF PasskeysOf
<1>3. \A k \in loaded : ceremony[k].handle = req[p].user /\ ceremony[k].kind \in NewKey
  BY <1>1 DEF PasskeysInv, PasskeysOf
<1>4. ASSUME NEW pc \in {"save", "put"}, req' = [req EXCEPT ![p] = to(pc)],
             pc = "save" => req[p].op \in Beginning,
             pc = "put" => req[p].op \in Finishing /\ Verified(req[p], loaded)
      PROVE  IInv'
  <2> HIDE DEF loaded
  <2>1. to(pc) \in Request /\ req'[p] = to(pc)
    BY <1>1, <1>2, <1>4 DEF Request, PCs, IInv, TypeOK
  <2>2. MovesTo(p, to(pc))
    BY <1>1, <1>4, <2>1 DEF MovesTo, Busy, Request
  <2>3. UNCHANGED <<tables, conn, served, faults>>
    BY DEF LoadCredentials
  <2>4. CASE pc = "put"
    <3>1. /\ req[p].cer \in Ids
          /\ ceremony[req[p].cer].kind = req[p].op
          /\ req[p].key = ceremony[req[p].cer].key
          /\ ceremony[req[p].cer].handle = req[p].user
          /\ req[p].op = "login" => req[p].key \in loaded
      BY <1>1, <1>4, <2>4 DEF RequestInv, Verified
    <3>2. /\ req[p].key \in Ids
          /\ ceremony[req[p].key].handle = req[p].user
          /\ ceremony[req[p].key].kind \in NewKey
      <4>1. CASE req[p].op = "login"
        BY <1>2, <1>3, <3>1, <4>1
      <4>2. CASE req[p].op # "login"
        <5>1. req[p].op \in NewKey
          BY <1>4, <2>4, <4>2 DEF Finishing, NewKey
        <5>2. req[p].key = req[p].cer
          BY <1>1, <3>1, <5>1 DEF PasskeysInv
        <5> QED
          BY <3>1, <5>1, <5>2
      <4> QED
        BY <4>1, <4>2
    <3>3. RequestInv(p)'
      BY <1>1, <1>3, <1>4, <2>1, <2>3, <2>4, <3>1, <3>2 DEF RequestInv, OpAtPC, tables, Request
    <3> QED
      BY <2>2, <2>3, <3>3, ReadKept
  <2>5. CASE pc = "save"
    <3>1. req[p].op \notin Finishing
      BY <1>4, <2>5 DEF Beginning, Finishing
    <3>2. RequestInv(p)'
      BY <1>1, <1>3, <1>4, <2>1, <2>3, <2>5, <3>1 DEF RequestInv, OpAtPC, tables, Request
    <3> QED
      BY <2>2, <2>3, <3>2, ReadKept
  <2> QED
    BY <2>4, <2>5
<1>5. CASE Answer(p)
  BY <1>5, AnswerKept DEF LoadCredentials
<1>6. req[p].op \in {"loginOptions", "login", "addOptions", "add"}
  BY <1>1 DEF RequestInv, OpAtPC
<1>7. CASE req[p].op = "loginOptions"
  BY <1>4, <1>5, <1>7 DEF LoadCredentials, Beginning
<1>8. CASE req[p].op = "addOptions"
  BY <1>4, <1>8 DEF LoadCredentials, Beginning
<1>9. CASE req[p].op \in {"login", "add"}
  BY <1>4, <1>5, <1>9 DEF LoadCredentials, Finishing
<1> QED
  BY <1>6, <1>7, <1>8, <1>9

\* The reads whose answer only decides whether the request goes on.
LEMMA ChecksKeep ==
    ASSUME IInv, NEW p \in Slots, CheckNoUser(p) \/ FindCeremony(p) \/ CountUsers(p)
    PROVE  IInv'
<1>1. req[p] \in Request /\ RequestInv(p)
  BY DEF IInv, TypeOK
<1>2. CASE Answer(p)
  BY <1>2, AnswerKept DEF CheckNoUser, FindCeremony, CountUsers
<1>3. CASE CheckNoUser(p) /\ Goto(p, "save")
  BY <1>1, <1>3, GotoKept DEF CheckNoUser, At, RequestInv, OpAtPC, PCs, Beginning, Request
<1>4. CASE FindCeremony(p) /\ Goto(p, "delete")
  BY <1>1, <1>4, GotoKept DEF FindCeremony, At, RequestInv, OpAtPC, PCs, Request
<1>5. CASE CountUsers(p) /\ Goto(p, "insert")
  BY <1>1, <1>5, GotoKept DEF CountUsers, At, RequestInv, OpAtPC, PCs, Request
<1> QED
  BY <1>2, <1>3, <1>4, <1>5 DEF CheckNoUser, FindCeremony, CountUsers

-----------------------------------------------------------------------------
(* The steps of a request that write *)

\* A new ceremony takes the number of its request, which was unused.
LEMMA SaveCeremonyKeeps ==
    ASSUME IInv, NEW p \in Slots, SaveCeremony(p)
    PROVE  IInv'
<1> DEFINE n == req[p].id
<1>1. /\ req[p] \in Request /\ RequestInv(p) /\ req[p].pc = "save" /\ Busy(p)
      /\ ceremony \in [Ids -> Ceremony]
  BY DEF IInv, TypeOK, SaveCeremony, At, Busy
<1>2. req[p].op \in Beginning
  BY <1>1 DEF RequestInv, OpAtPC
<1>3. n \in Ids /\ ceremony[n].kind = "none"
  BY <1>1, <1>2, AccountsAssumption DEF IInv, NumbersInv, TypeOK
<1>4. PICK row : /\ ceremony' = [ceremony EXCEPT ![n] = row]
                 /\ row \in Ceremony
                 /\ row.kind \in NewKey => row.key = n
                 /\ row.kind = "register" => row.handle = n
  <2> DEFINE begun(kind, handle, k) == [kind |-> kind, handle |-> handle,
                 offered |-> req[p].loaded, key |-> k, stored |-> TRUE]
  <2>1. PICK row \in CASE req[p].op = "registerOptions" -> {begun("register", n, n)}
                       [] req[p].op = "addOptions" -> {begun("add", req[p].user, n)}
                       [] OTHER -> {begun("login", req[p].user, k) : k \in req[p].loaded} :
               ceremony' = [ceremony EXCEPT ![n] = row]
    BY DEF SaveCeremony
  <2>2. req[p].user \in OrZero /\ req[p].loaded \subseteq Ids /\ n \in OrZero
    BY <1>1 DEF Request
  <2> DEFINE Good == /\ row \in Ceremony
                     /\ row.kind \in NewKey => row.key = n
                     /\ row.kind = "register" => row.handle = n
  <2>3. ASSUME req[p].op = "registerOptions" PROVE Good
    <3>1. row = begun("register", n, n)
      BY <2>1, <2>3
    <3>2. row \in Ceremony
      BY <2>2, <3>1 DEF Ceremony, Kinds
    <3> QED
      BY <3>1, <3>2
  <2>4. ASSUME req[p].op = "addOptions" PROVE Good
    <3>1. row = begun("add", req[p].user, n)
      BY <2>1, <2>4
    <3>2. row \in Ceremony
      BY <2>2, <3>1 DEF Ceremony, Kinds
    <3> QED
      BY <3>1, <3>2
  <2>5. ASSUME req[p].op = "loginOptions" PROVE Good
    <3>1. PICK k \in req[p].loaded : row = begun("login", req[p].user, k)
      BY <2>1, <2>5
    <3>2. k \in OrZero
      BY <2>2
    <3>3. row \in Ceremony
      BY <2>2, <3>1, <3>2 DEF Ceremony, Kinds
    <3> QED
      BY <3>1, <3>3 DEF NewKey
  <2> QED
    BY <1>2, <2>1, <2>3, <2>4, <2>5 DEF Beginning
<1>5. MovesTo(p, Idle)
  BY IdleTyped DEF MovesTo, SaveCeremony, Answer
<1>6. UNCHANGED <<users, creds, expired, session, revoked, conn, served, faults>>
  BY DEF SaveCeremony
<1>7. Keeps
  BY <1>1, <1>3, <1>4, <1>6 DEF Keeps, PasskeysOf
<1>8. TypeOK'
  BY <1>1, <1>4, <1>5, <1>6 DEF IInv, TypeOK, MovesTo
<1>9. PasskeysInv' /\ SignedInHasPasskey'
  <2>1. PasskeysInv /\ SignedInHasPasskey
    BY DEF IInv
  <2>2. \A c \in Ids : ceremony'[c] = IF c = n THEN row ELSE ceremony[c]
    BY <1>1, <1>3, <1>4
  <2>3. \A k \in Ids : creds'[k] # 0 => k # n
    BY <1>3, <1>6, <2>1 DEF PasskeysInv, NewKey
  <2> QED
    BY <1>4, <1>6, <2>1, <2>2, <2>3 DEF PasskeysInv, SignedInHasPasskey, PasskeysOf
<1>10. RequestInv(p)'
  BY <1>1, <1>5, IdleHasNothing DEF MovesTo, IInv, TypeOK
<1>11. \A c \in Ids : \/ ceremony'[c].kind = ceremony[c].kind
                      \/ Busy(p) /\ c = req[p].id /\ Idle = Idle
  BY <1>1, <1>4
<1> QED
  BY <1>5, <1>6, <1>7, <1>8, <1>9, <1>10, <1>11, StepKept

\* Taking a ceremony only clears its row.
LEMMA DeleteCeremonyKeeps ==
    ASSUME IInv, NEW p \in Slots, DeleteCeremony(p)
    PROVE  IInv'
<1> DEFINE next == IF req[p].cer \in expired THEN Idle
                   ELSE [req[p] EXCEPT !.pc = IF req[p].op = "register" THEN "count" ELSE "user"]
<1>1. /\ req[p] \in Request /\ RequestInv(p) /\ req[p].pc = "delete" /\ Busy(p)
      /\ req[p].op \in Finishing /\ req[p].loaded = {} /\ req[p].cer \in Ids
      /\ ceremony \in [Ids -> Ceremony]
  BY DEF IInv, TypeOK, DeleteCeremony, At, Busy, RequestInv, OpAtPC
<1>2. req' = [req EXCEPT ![p] = next]
  BY <1>1 DEF DeleteCeremony, Goto, Answer, IInv, TypeOK
<1>3. /\ ceremony' = [ceremony EXCEPT ![req[p].cer].stored = FALSE]
      /\ UNCHANGED <<users, creds, expired, session, revoked, conn, served, faults>>
  BY DEF DeleteCeremony
<1>4. ceremony' \in [Ids -> Ceremony]
  <2> DEFINE row == [ceremony[req[p].cer] EXCEPT !.stored = FALSE]
  <2>1. ceremony[req[p].cer] \in Ceremony
    BY <1>1
  <2>2. row \in Ceremony
    BY <2>1 DEF Ceremony
  <2> QED
    BY <1>1, <1>3, <2>2
<1>5. \A c \in Ids : /\ ceremony'[c].kind = ceremony[c].kind
                     /\ ceremony'[c].handle = ceremony[c].handle
                     /\ ceremony'[c].key = ceremony[c].key
  BY <1>1, <1>3 DEF Ceremony
<1>6. next \in Request
  BY <1>1, IdleTyped DEF Request, PCs
<1>7. MovesTo(p, next)
  BY <1>1, <1>2, <1>6 DEF MovesTo, Request
<1>8. Keeps
  BY <1>3, <1>5 DEF Keeps, PasskeysOf
<1>9. TypeOK'
  BY <1>2, <1>3, <1>4, <1>6 DEF IInv, TypeOK
<1>10. PasskeysInv' /\ SignedInHasPasskey'
  BY <1>3, <1>5 DEF IInv, PasskeysInv, SignedInHasPasskey, PasskeysOf
<1>11. req'[p] = next
  BY <1>2 DEF IInv, TypeOK
<1>12. RequestInv(p)'
  <2>1. CASE req[p].cer \in expired
    BY <1>11, <2>1, IdleHasNothing
  <2>2. CASE req[p].cer \notin expired
    <3> DEFINE r == [req[p] EXCEPT !.pc = IF req[p].op = "register" THEN "count" ELSE "user"]
    <3>1. req'[p] = r
      BY <1>11, <2>2
    <3>2. /\ ceremony[req[p].cer].kind = req[p].op
          /\ req[p].key = ceremony[req[p].cer].key
      BY <1>1 DEF RequestInv
    <3> QED
      BY <1>1, <1>5, <3>1, <3>2 DEF RequestInv, OpAtPC, Request, Finishing
  <2> QED
    BY <2>1, <2>2
<1> HIDE DEF next
<1> QED
  BY <1>3, <1>5, <1>7, <1>8, <1>9, <1>10, <1>12, StepKept

\* While the connection is free no revocation is between its count and commit.
LEMMA NobodyRemoves ==
    ASSUME IInv, conn = 0
    PROVE  \A q \in Slots : req[q].pc # "remove"
BY AccountsAssumption DEF IInv, RequestInv

\* Signed-in accounts keep a passkey if every account does.
LEMMA SignedInKept ==
    ASSUME IInv, Keeps, session' = session
    PROVE  SignedInHasPasskey'
<1> SUFFICES ASSUME NEW s \in Ids, session[s] # 0
             PROVE  PasskeysOf(session[s])' # {}
  BY DEF SignedInHasPasskey
<1>1. PasskeysOf(session[s]) # {}
  BY DEF IInv, SignedInHasPasskey
<1>2. session[s] \in Ids
  <2>1. session[s] \in OrZero
    BY DEF IInv, TypeOK
  <2> QED
    BY <2>1, AccountsAssumption
<1>3. PICK u \in Ids : u = session[s]
  BY <1>2
<1>4. PasskeysOf(u)' # {}
  BY <1>1, <1>3 DEF Keeps
<1> QED
  BY <1>3, <1>4 DEF PasskeysOf

\* A new account is that of the ceremony being finished, whose passkey is next.
LEMMA InsertUserKeeps ==
    ASSUME IInv, NEW p \in Slots, InsertUser(p)
    PROVE  IInv'
<1> DEFINE h == ceremony[req[p].cer].handle
<1>1. CASE \E i \in DOMAIN users : users[i] = h
  BY <1>1, AnswerKept DEF InsertUser, tables
<1>2. CASE ~\E i \in DOMAIN users : users[i] = h
  <2> DEFINE r == [req[p] EXCEPT !.user = h, !.pc = "put"]
  <2>1. /\ req[p] \in Request /\ RequestInv(p) /\ req[p].pc = "insert" /\ Busy(p)
        /\ req[p].op = "register" /\ req[p].loaded = {} /\ req[p].cer \in Ids
        /\ ceremony[req[p].cer].kind = "register" /\ conn = 0
        /\ req[p].key = ceremony[req[p].cer].key
    BY DEF IInv, TypeOK, InsertUser, At, Busy, RequestInv, OpAtPC, Finishing
  <2>2. h = req[p].cer /\ req[p].key = req[p].cer
    BY <2>1 DEF IInv, PasskeysInv, NewKey
  <2>3. /\ users' = Append(users, h) /\ req' = [req EXCEPT ![p] = r]
        /\ UNCHANGED <<creds, ceremony, expired, session, revoked, conn, served, faults>>
    BY <1>2 DEF InsertUser, IInv, TypeOK
  <2>4. h \in Ids /\ h \in OrZero /\ h # 0
    BY <2>1, <2>2, AccountsAssumption
  <2>5. users' \in Seq(Ids) /\ \A i, j \in DOMAIN users' : users'[i] = users'[j] => i = j
    <3>1. users \in Seq(Ids) /\ \A i, j \in DOMAIN users : users[i] = users[j] => i = j
      BY DEF IInv, TypeOK
    <3> HIDE DEF h, Ids
    <3>2. /\ users' \in Seq(Ids)
          /\ Len(users') = Len(users) + 1
          /\ \A i \in 1..Len(users) : users'[i] = users[i]
          /\ users'[Len(users) + 1] = h
      BY <2>3, <2>4, <3>1, AppendProperties
    <3>3. Len(users) \in Nat /\ DOMAIN users = 1..Len(users)
          /\ DOMAIN users' = 1..(Len(users) + 1)
      BY <3>1, <3>2, LenProperties
    <3> QED
      BY <1>2, <3>1, <3>2, <3>3
  <2> HIDE DEF h, Ids, OrZero
  <2>6. r \in Request /\ req'[p] = r
    BY <2>1, <2>3, <2>4 DEF Request, PCs, IInv, TypeOK
  <2>7. MovesTo(p, r)
    BY <2>1, <2>3, <2>6 DEF MovesTo, Request
  <2>8. Keeps
    BY <2>3 DEF Keeps, PasskeysOf
  <2>9. TypeOK'
    BY <2>3, <2>5, <2>6 DEF IInv, TypeOK
  <2>10. PasskeysInv' /\ SignedInHasPasskey'
    BY <2>3 DEF IInv, PasskeysInv, SignedInHasPasskey, PasskeysOf
  <2>11. RequestInv(p)'
    <3>1. ceremony'[req[p].key].handle = h /\ ceremony'[req[p].key].kind \in NewKey
      BY <2>1, <2>2, <2>3 DEF NewKey, h
    <3>2. /\ r.pc = "put" /\ r.user = h /\ r.op = "register" /\ r.loaded = {}
          /\ r.key = req[p].key /\ r.cer = req[p].cer
      BY <2>1 DEF Request
    <3>3. OpAtPC(r)
      BY <3>2 DEF OpAtPC, Finishing
    <3> HIDE DEF r
    <3> QED
      BY <2>1, <2>2, <2>3, <2>4, <2>6, <3>1, <3>2, <3>3 DEF RequestInv
  <2> HIDE DEF r
  <2> QED
    BY <2>3, <2>7, <2>8, <2>9, <2>10, <2>11, StepKept
<1> QED
  BY <1>1, <1>2

\* The passkey stored is the account's, whether the row is new or not.
LEMMA PutCredentialKeeps ==
    ASSUME IInv, NEW p \in Slots, PutCredential(p)
    PROVE  IInv' /\ \A u \in Ids : PasskeysOf(u) # {} => PasskeysOf(u)' # {}
<1> DEFINE k == req[p].key
           v == req[p].user
           next == IF req[p].op = "add" THEN Idle ELSE [req[p] EXCEPT !.pc = "session"]
<1>1. /\ req[p] \in Request /\ RequestInv(p) /\ req[p].pc = "put" /\ Busy(p)
      /\ conn = 0 /\ k \in Ids /\ v \in Ids /\ ceremony[k].handle = v
      /\ ceremony[k].kind \in NewKey /\ req[p].op \in Finishing
  <2>1. req[p] \in Request /\ RequestInv(p) /\ req[p].pc = "put" /\ Busy(p) /\ conn = 0
    BY DEF IInv, TypeOK, PutCredential, At, Busy
  <2>2. req[p].op \in Finishing /\ v \in Ids
    BY <2>1, AccountsAssumption DEF RequestInv, OpAtPC, Request
  <2> QED
    BY <2>1, <2>2, AccountsAssumption DEF RequestInv, OpAtPC
<1>2. /\ creds' = [creds EXCEPT ![k] = IF @ = 0 THEN v ELSE @]
      /\ UNCHANGED <<users, ceremony, expired, session, revoked, conn, served, faults>>
  BY DEF PutCredential
<1>3. creds \in [Ids -> OrZero] /\ PasskeysInv
  BY DEF IInv, TypeOK
<1>4. /\ creds'[k] = v
      /\ \A l \in Ids : l # k => creds'[l] = creds[l]
      /\ \A l \in Ids : creds[l] # 0 => creds'[l] = creds[l]
  BY <1>1, <1>2, <1>3 DEF PasskeysInv
<1>5. req' = [req EXCEPT ![p] = next] /\ next \in Request
  BY <1>1, IdleTyped DEF PutCredential, Goto, Answer, IInv, TypeOK, Request, PCs
<1>6. MovesTo(p, next)
  BY <1>1, <1>5 DEF MovesTo, Request
<1>7. Keeps
  <2>1. \A u \in Ids : PasskeysOf(u) \subseteq PasskeysOf(u)'
    BY <1>4, AccountsAssumption DEF PasskeysOf
  <2> QED
    BY <1>2, <2>1 DEF Keeps
<1>8. TypeOK'
  BY <1>1, <1>2, <1>3, <1>5, AccountsAssumption DEF IInv, TypeOK
<1>9. PasskeysInv'
  BY <1>1, <1>2, <1>3, <1>4 DEF PasskeysInv
<1>10. SignedInHasPasskey'
  BY <1>2, <1>7, SignedInKept
<1>11. RequestInv(p)'
  <2>1. CASE req[p].op = "add"
    BY <1>5, <2>1, IdleHasNothing DEF IInv, TypeOK
  <2>2. CASE req[p].op # "add"
    <3>1. req'[p] = [req[p] EXCEPT !.pc = "session"]
      BY <1>5, <2>2 DEF IInv, TypeOK
    <3>2. PasskeysOf(v)' # {}
      BY <1>1, <1>4, <3>1 DEF PasskeysOf, Request
    <3> QED
      BY <1>1, <1>2, <3>1, <3>2 DEF RequestInv, OpAtPC, Request
  <2> QED
    BY <2>1, <2>2
<1> HIDE DEF next
<1>12. IInv'
  BY <1>1, <1>2, <1>6, <1>7, <1>8, <1>9, <1>10, <1>11, StepKept, NobodyRemoves
<1> QED
  BY <1>7, <1>12 DEF Keeps

\* The session is of an account whose passkey is stored by now.
LEMMA CreateSessionKeeps ==
    ASSUME IInv, NEW p \in Slots, CreateSession(p)
    PROVE  IInv'
<1>1. /\ req[p] \in Request /\ PasskeysOf(req[p].user) # {} /\ conn = 0
  BY DEF IInv, TypeOK, CreateSession, At, RequestInv
<1>2. /\ session' = [session EXCEPT ![req[p].id] = req[p].user]
      /\ UNCHANGED <<users, creds, ceremony, expired, revoked, conn, served, faults>>
      /\ req' = [req EXCEPT ![p] = Idle]
  BY DEF CreateSession, Answer
<1>3. MovesTo(p, Idle)
  BY <1>2, IdleTyped DEF MovesTo
<1>4. Keeps
  BY <1>2 DEF Keeps, PasskeysOf
<1>5. TypeOK'
  BY <1>1, <1>2, IdleTyped DEF IInv, TypeOK, Request
<1>6. PasskeysInv'
  BY <1>2 DEF IInv, PasskeysInv
<1>7. SignedInHasPasskey'
  BY <1>1, <1>2 DEF IInv, TypeOK, SignedInHasPasskey, PasskeysOf
<1>8. RequestInv(p)'
  BY <1>2, IdleHasNothing DEF IInv, TypeOK
<1> QED
  BY <1>2, <1>3, <1>4, <1>5, <1>6, <1>7, <1>8, StepKept

\* A revocation that goes on has the connection and a passkey to spare.
LEMMA RevokeCountKeeps ==
    ASSUME IInv, NEW p \in Slots, RevokeCount(p)
    PROVE  IInv'
<1>1. CASE ~HasSpare(req[p].user)
  BY <1>1, AnswerKept DEF RevokeCount
<1>2. CASE HasSpare(req[p].user)
  <2> DEFINE r == [req[p] EXCEPT !.pc = "remove"]
  <2>1. /\ req[p] \in Request /\ RequestInv(p) /\ req[p].pc = "revoke" /\ Busy(p)
        /\ conn = 0 /\ req[p].op = "revoke" /\ req[p].loaded = {}
    BY DEF IInv, TypeOK, RevokeCount, At, Busy, RequestInv, OpAtPC
  <2>2. /\ req' = [req EXCEPT ![p] = r] /\ conn' = p
        /\ UNCHANGED <<tables, served, faults>>
    BY <1>2, <2>1 DEF RevokeCount, Goto, IInv, TypeOK
  <2>3. r \in Request /\ req'[p] = r
    BY <2>1, <2>2 DEF Request, PCs, IInv, TypeOK
  <2>4. MovesTo(p, r)
    BY <2>1, <2>2, <2>3 DEF MovesTo, Request
  <2>5. Keeps
    BY <2>2 DEF Keeps, PasskeysOf, tables
  <2>6. TypeOK'
    BY <2>2, <2>3 DEF IInv, TypeOK, tables
  <2>7. PasskeysInv' /\ SignedInHasPasskey'
    BY <2>2 DEF IInv, PasskeysInv, SignedInHasPasskey, PasskeysOf, tables
  <2>8. RequestInv(p)'
    <3>1. HasSpare(req[p].user)'
      BY <1>2, <2>2, <2>3 DEF HasSpare, PasskeysOf, tables, Request
    <3> QED
      BY <1>2, <2>1, <2>2, <2>3, <3>1
         DEF RequestInv, OpAtPC, Request, Finishing, HasSpare, PasskeysOf, tables
  <2> HIDE DEF r
  <2> QED
    BY <2>1, <2>2, <2>4, <2>5, <2>6, <2>7, <2>8, StepKept, NobodyRemoves DEF tables
<1> QED
  BY <1>1, <1>2

\* The passkey removed is not the account's last, for nobody else could remove
\* one since they were counted.
LEMMA RevokeCommitKeeps ==
    ASSUME IInv, NEW p \in Slots, RevokeCommit(p)
    PROVE  IInv' /\ \A u \in Ids : PasskeysOf(u) # {} => PasskeysOf(u)' # {}
<1> DEFINE k == req[p].key
           v == req[p].user
<1>1. req[p] \in Request /\ conn = p /\ HasSpare(v)
  BY DEF IInv, TypeOK, RevokeCommit, RequestInv
<1>2. /\ creds' = [creds EXCEPT ![k] = IF @ = v THEN 0 ELSE @]
      /\ UNCHANGED <<users, ceremony, expired, session, served, faults>>
      /\ conn' = 0 /\ req' = [req EXCEPT ![p] = Idle]
  BY DEF RevokeCommit, Answer
<1>3. creds \in [Ids -> OrZero]
  BY DEF IInv, TypeOK
<1>4. \A l \in Ids : /\ creds'[l] # 0 => creds'[l] = creds[l]
                     /\ l # k \/ creds[l] # v => creds'[l] = creds[l]
  BY <1>2, <1>3
<1>5. \A u \in Ids : PasskeysOf(u) # {} => PasskeysOf(u)' # {}
  <2> SUFFICES ASSUME NEW u \in Ids, PasskeysOf(u) # {} PROVE \E l \in Ids : creds'[l] = u
    BY DEF PasskeysOf
  <2>1. CASE u = v
    <3>1. PICK l \in PasskeysOf(v) : l # k
      BY <1>1 DEF HasSpare
    <3> QED
      BY <1>4, <2>1, <3>1 DEF PasskeysOf
  <2>2. CASE u # v
    BY <1>4, <2>2 DEF PasskeysOf
  <2> QED
    BY <2>1, <2>2
<1>6. MovesTo(p, Idle)
  BY <1>2, IdleTyped DEF MovesTo
<1>7. Keeps
  BY <1>2, <1>5 DEF Keeps
<1>8. TypeOK'
  <2>1. 0 \in OrZero
    BY AccountsAssumption
  <2>2. revoked' \subseteq Ids
    BY DEF RevokeCommit, IInv, TypeOK
  <2> HIDE DEF Ids, OrZero
  <2>3. creds' \in [Ids -> OrZero]
    BY <1>2, <1>3, <2>1
  <2> QED
    BY <1>2, <2>2, <2>3, IdleTyped DEF IInv, TypeOK
<1>9. PasskeysInv'
  BY <1>2, <1>4 DEF IInv, PasskeysInv
<1>10. SignedInHasPasskey'
  BY <1>2, <1>7, SignedInKept
<1>11. RequestInv(p)'
  BY <1>2, IdleHasNothing DEF IInv, TypeOK
<1>12. \A q \in Slots \ {p} : req[q].pc # "remove"
  BY <1>1 DEF IInv, RequestInv
<1> QED
  BY <1>2, <1>5, <1>6, <1>7, <1>8, <1>9, <1>10, <1>11, <1>12, StepKept

\* Signing out removes a session and nothing else.
LEMMA LogoutKeeps ==
    ASSUME IInv, NEW p \in Slots, Logout(p)
    PROVE  IInv'
<1>1. /\ session' = [session EXCEPT ![req[p].sess] = 0]
      /\ UNCHANGED <<users, creds, ceremony, expired, revoked, conn, served, faults>>
      /\ req' = [req EXCEPT ![p] = Idle]
  BY DEF Logout, Answer
<1>2. MovesTo(p, Idle)
  BY <1>1, IdleTyped DEF MovesTo
<1>3. Keeps
  BY <1>1 DEF Keeps, PasskeysOf
<1>4. TypeOK'
  <2>1. session \in [Ids -> OrZero] /\ 0 \in OrZero
    BY AccountsAssumption DEF IInv, TypeOK
  <2> HIDE DEF Ids, OrZero
  <2>2. session' \in [Ids -> OrZero]
    BY <1>1, <2>1
  <2> QED
    BY <1>1, <2>2, IdleTyped DEF IInv, TypeOK
<1>5. PasskeysInv' /\ SignedInHasPasskey'
  BY <1>1 DEF IInv, TypeOK, PasskeysInv, SignedInHasPasskey, PasskeysOf
<1>6. RequestInv(p)'
  BY <1>1, IdleHasNothing DEF IInv, TypeOK
<1> QED
  BY <1>1, <1>2, <1>3, <1>4, <1>5, <1>6, StepKept

-----------------------------------------------------------------------------
(* New requests, failures and the passing of time *)

\* A request arrives with a number of its own and with what its page knows.
LEMMA ReceiveKeeps ==
    ASSUME IInv, NEW p \in Slots, Receive(p)
    PROVE  IInv'
<1> DEFINE n == served + 1
<1>1. PICK r \in Incoming(n) : req' = [req EXCEPT ![p] = r]
  BY DEF Receive
<1>2. /\ req[p].pc = "idle" /\ n \in Ids /\ n \in OrZero /\ served' = n
      /\ UNCHANGED <<tables, conn, faults>>
  BY AccountsAssumption DEF Receive, IInv, TypeOK
<1>3. /\ TypeOK /\ NumbersInv /\ PasskeysInv /\ SignedInHasPasskey
      /\ ceremony \in [Ids -> Ceremony]
  BY DEF IInv, TypeOK
<1> DEFINE Good == /\ r \in Request /\ r.id = n /\ r.loaded = {}
                   /\ r.pc \in {"auth", "check", "user", "take", "logout"}
                   /\ OpAtPC(r)
                   /\ r.op \in Finishing => /\ r.cer \in Ids
                                            /\ ceremony[r.cer].kind = r.op
                                            /\ r.key = ceremony[r.cer].key
                   /\ r.pc \in {"auth", "logout"} => r.sess \in Ids
<1>4. Good
  <2>1. 0 \in OrZero /\ \A c \in Ids : c \in OrZero /\ ceremony[c].key \in OrZero
    BY <1>3, AccountsAssumption DEF Ceremony
  <2> HIDE DEF Ids, OrZero
  <2>2. \/ r = NewRequest(n, "registerOptions", "check", 0, 0, 0)
        \/ r = NewRequest(n, "loginOptions", "user", 0, 0, 0)
        \/ \E c \in Ids : /\ ceremony[c].kind \in {"register", "login"}
                          /\ r = NewRequest(n, ceremony[c].kind, "take", 0, c, ceremony[c].key)
        \/ \E s \in Ids : r = NewRequest(n, "addOptions", "auth", s, 0, 0)
        \/ \E s, c \in Ids : /\ ceremony[c].kind = "add"
                             /\ r = NewRequest(n, "add", "auth", s, c, ceremony[c].key)
        \/ \E s, k \in Ids : r = NewRequest(n, "revoke", "auth", s, 0, k)
        \/ \E s \in Ids : r = NewRequest(n, "logout", "logout", s, 0, 0)
    BY DEF Incoming, Begun
  <2> USE <1>2, <2>1 DEF NewRequest, Request, Ops, PCs, OpAtPC, Finishing, Beginning
  <2>3. ASSUME \/ r = NewRequest(n, "registerOptions", "check", 0, 0, 0)
               \/ r = NewRequest(n, "loginOptions", "user", 0, 0, 0)
        PROVE  Good
    BY <2>3
  <2>4. ASSUME NEW c \in Ids, ceremony[c].kind \in {"register", "login"},
               r = NewRequest(n, ceremony[c].kind, "take", 0, c, ceremony[c].key)
        PROVE  Good
    BY <2>4
  <2>5. ASSUME NEW s \in Ids, \/ r = NewRequest(n, "addOptions", "auth", s, 0, 0)
                              \/ r = NewRequest(n, "logout", "logout", s, 0, 0)
        PROVE  Good
    BY <2>5
  <2>6. ASSUME NEW s \in Ids, NEW c \in Ids, ceremony[c].kind = "add",
               r = NewRequest(n, "add", "auth", s, c, ceremony[c].key)
        PROVE  Good
    BY <2>6
  <2>7. ASSUME NEW s \in Ids, NEW k \in Ids, r = NewRequest(n, "revoke", "auth", s, 0, k)
        PROVE  Good
    BY <2>7
  <2> HIDE DEF Good, NewRequest
  <2> QED
    BY <2>2, <2>3, <2>4, <2>5, <2>6, <2>7
<1>5. \A q \in Slots : req'[q] = IF q = p THEN r ELSE req[q]
  BY <1>1, <1>3 DEF TypeOK
<1>6. TypeOK'
  BY <1>1, <1>2, <1>3, <1>4 DEF TypeOK, tables
<1>7. PasskeysInv' /\ SignedInHasPasskey'
  BY <1>2, <1>3 DEF PasskeysInv, SignedInHasPasskey, PasskeysOf, tables
<1>8. NumbersInv'
  <2>1. \A c \in Ids : c > served' => ceremony'[c].kind = "none"
    BY <1>2, <1>3, AccountsAssumption DEF NumbersInv, tables, TypeOK
  <2>2. ceremony'[n].kind = "none"
    BY <1>2, <1>3, AccountsAssumption DEF NumbersInv, tables, TypeOK
  <2>3. \A q \in Slots \ {p} : Busy(q)' => Busy(q) /\ req'[q] = req[q] /\ req[q].id \in 1..served
    BY <1>3, <1>5 DEF Busy, NumbersInv
  <2>4. \A q \in Slots \ {p} : Busy(q)' => req'[q].id # n /\ req'[q].id \in 1..n
    BY <1>3, <2>3, AccountsAssumption DEF TypeOK
  <2>5. req'[p].id = n
    BY <1>4, <1>5
  <2>6. \A q \in Slots : Busy(q)' => req'[q].id \in 1..served'
    BY <1>2, <2>4, <2>5
  <2>7. \A q, s \in Slots : Busy(q)' /\ Busy(s)' /\ req'[q].id = req'[s].id => q = s
    BY <1>3, <2>3, <2>4, <2>5 DEF NumbersInv
  <2>8. \A q \in Slots : Busy(q)' /\ req'[q].op \in Beginning => ceremony'[req'[q].id].kind = "none"
    BY <1>2, <1>3, <2>2, <2>3, <2>5 DEF NumbersInv, tables
  <2> QED
    BY <2>1, <2>6, <2>7, <2>8 DEF NumbersInv
<1>9. ASSUME NEW q \in Slots PROVE RequestInv(q)'
  <2>1. CASE q = p
    BY <1>2, <1>4, <1>5, <2>1 DEF RequestInv, tables
  <2>2. CASE q # p
    <3>1. Keeps /\ req'[q] = req[q] /\ conn' = conn /\ creds' = creds
      BY <1>2, <1>5, <2>2 DEF Keeps, PasskeysOf, tables
    <3> QED
      BY <3>1, OthersKept
  <2> QED
    BY <2>1, <2>2
<1> QED
  BY <1>6, <1>7, <1>8, <1>9 DEF IInv

\* A failing statement ends its request and gives the connection back.
LEMMA FailsKeep ==
    ASSUME IInv, NEW p \in Slots, StatementFails(p)
    PROVE  IInv'
<1>1. /\ req' = [req EXCEPT ![p] = Idle] /\ UNCHANGED <<tables, served>>
      /\ conn' = IF conn = p THEN 0 ELSE conn
      /\ faults' \in 0..MaxFaults
  BY AccountsAssumption DEF StatementFails, Answer, IInv, TypeOK
<1>2. MovesTo(p, Idle) /\ Keeps
  BY <1>1, IdleTyped DEF MovesTo, Keeps, PasskeysOf, tables
<1>3. TypeOK' /\ PasskeysInv' /\ SignedInHasPasskey'
  BY <1>1, IdleTyped DEF IInv, TypeOK, PasskeysInv, SignedInHasPasskey, PasskeysOf, tables
<1>4. RequestInv(p)'
  BY <1>1, IdleHasNothing DEF IInv, TypeOK
<1>5. \A q \in Slots \ {p} : req[q].pc = "remove" => conn' = conn /\ creds' = creds
  BY <1>1 DEF IInv, RequestInv, tables
<1> QED
  BY <1>1, <1>2, <1>3, <1>4, <1>5, StepKept DEF tables

\* After a restart no request is under way.
LEMMA RestartKeeps ==
    ASSUME IInv, Restart
    PROVE  IInv'
<1>1. /\ req' = [p \in Slots |-> Idle] /\ UNCHANGED <<tables, served>>
      /\ conn' = 0 /\ faults' \in 0..MaxFaults
  BY AccountsAssumption DEF Restart, IInv, TypeOK
<1>2. TypeOK' /\ PasskeysInv' /\ SignedInHasPasskey'
  BY <1>1, IdleTyped DEF IInv, TypeOK, PasskeysInv, SignedInHasPasskey, PasskeysOf, tables
<1>3. NumbersInv'
  BY <1>1 DEF IInv, NumbersInv, Busy, Idle, tables
<1>4. \A p \in Slots : RequestInv(p)'
  BY <1>1, IdleHasNothing
<1> QED
  BY <1>2, <1>3, <1>4 DEF IInv

\* Ceremonies and sessions that expire leave passkeys and requests alone.
LEMMA ExpiryKeeps ==
    ASSUME IInv, CeremonyExpires \/ SessionExpires
    PROVE  IInv'
<1>1. /\ UNCHANGED <<users, creds, ceremony, revoked, req, conn, served, faults>>
      /\ expired' \subseteq Ids /\ session' \in [Ids -> OrZero]
      /\ \A s \in Ids : session'[s] # 0 => session'[s] = session[s]
  <2>1. /\ expired \subseteq Ids /\ session \in [Ids -> OrZero] /\ 0 \in OrZero
    BY AccountsAssumption DEF IInv, TypeOK
  <2>2. CASE CeremonyExpires
    BY <2>1, <2>2 DEF CeremonyExpires
  <2>3. CASE SessionExpires
    BY <2>1, <2>3 DEF SessionExpires
  <2> QED
    BY <2>2, <2>3
<1>2. TypeOK' /\ PasskeysInv' /\ NumbersInv'
  BY <1>1 DEF IInv, TypeOK, PasskeysInv, NumbersInv, Busy
<1>3. SignedInHasPasskey'
  BY <1>1 DEF IInv, SignedInHasPasskey, PasskeysOf
<1>4. ASSUME NEW p \in Slots PROVE RequestInv(p)'
  BY <1>1, OthersKept DEF Keeps, PasskeysOf
<1> QED
  BY <1>2, <1>3, <1>4 DEF IInv

-----------------------------------------------------------------------------
(* The invariant, and what follows from it *)

\* A new installation and an account with its passkeys satisfy the invariant.
LEMMA InvariantInit == Init => IInv
<1> SUFFICES ASSUME NEW n \in Enrolled, Installed(n) PROVE IInv
  BY DEF Init
<1>1. /\ n \in OrZero /\ n \in Nat /\ MaxRequests \in Nat /\ MaxFaults \in Nat
      /\ 0 \in OrZero
      /\ n # 0 => 1 \in Ids /\ 1 \in OrZero
      /\ \A c \in Ids : c \in OrZero /\ c \in Nat \ {0}
  BY AccountsAssumption
<1>2. /\ \A c \in Ids : c > n => ceremony[c] = NoCeremony
      /\ \A c \in Ids : c <= n =>
           ceremony[c] = [kind |-> IF c = 1 THEN "register" ELSE "add", handle |-> 1,
                          offered |-> {}, key |-> c, stored |-> FALSE]
      /\ ceremony = [c \in Ids |-> ceremony[c]]
  BY <1>1 DEF Installed
<1>3. \A c \in Ids : c <= n \/ c > n
  BY <1>1
<1>4. \A k \in Ids : creds[k] = IF k <= n THEN 1 ELSE 0
  BY DEF Installed
<1> HIDE DEF Ids, OrZero
<1>5. TypeOK
  <2>1. users \in Seq(Ids) /\ \A i, j \in DOMAIN users : users[i] = users[j] => i = j
    <3>1. CASE n = 0
      BY <3>1 DEF Installed
    <3>2. CASE n # 0
      <4>1. users = <<1>> /\ 1 \in Ids
        BY <1>1, <3>2 DEF Installed
      <4>2. <<1>> = Append(<<>>, 1)
        OBVIOUS
      <4>3. /\ users \in Seq(Ids) /\ Len(users) = 1
        BY <4>1
      <4>4. DOMAIN users = 1..1
        BY <4>3, LenProperties
      <4> QED
        BY <4>3, <4>4
    <3> QED
      BY <3>1, <3>2
  <2>2. ASSUME NEW c \in Ids PROVE ceremony[c] \in Ceremony
    <3>1. CASE c <= n
      <4>1. 1 \in OrZero /\ c \in OrZero
        BY <1>1, <3>1
      <4>2. PICK k \in Kinds : ceremony[c] = [kind |-> k, handle |-> 1, offered |-> {},
                                            key |-> c, stored |-> FALSE]
        <5>1. CASE c = 1
          BY <1>2, <3>1, <5>1 DEF Kinds
        <5>2. CASE c # 1
          BY <1>2, <3>1, <5>2 DEF Kinds
        <5> QED
          BY <5>1, <5>2
      <4> QED
        BY <4>1, <4>2 DEF Ceremony
    <3>2. CASE c > n
      <4>1. NoCeremony \in Ceremony
        BY <1>1 DEF Ceremony, NoCeremony, Kinds
      <4> QED
        BY <1>2, <3>2, <4>1
    <3> QED
      BY <1>3, <3>1, <3>2
  <2>3. ceremony \in [Ids -> Ceremony]
    BY <1>2, <2>2
  <2>4. creds \in [Ids -> OrZero] /\ session \in [Ids -> OrZero]
    <3>1. \A k \in Ids : (k <= n \/ n > 0) => 1 \in OrZero
      BY <1>1
    <3>2. \A k \in Ids : creds[k] \in OrZero /\ session[k] \in OrZero
      BY <1>1, <1>4, <3>1 DEF Installed
    <3> QED
      BY <3>2 DEF Installed
  <2>5. req \in [Slots -> Request]
    BY IdleTyped DEF Installed
  <2> QED
    BY <1>1, <2>1, <2>3, <2>4, <2>5 DEF TypeOK, Installed
<1>6. NumbersInv
  BY <1>1, <1>2 DEF NumbersInv, Busy, Idle, NoCeremony, Installed
<1>7. PasskeysInv
  BY <1>1, <1>2, <1>3, <1>4 DEF PasskeysInv, NewKey, NoCeremony
<1>8. \A p \in Slots : RequestInv(p)
  BY DEF RequestInv, OpAtPC, Idle, Finishing, Installed
<1>9. SignedInHasPasskey
  <2> SUFFICES ASSUME NEW s \in Ids, session[s] # 0 PROVE PasskeysOf(session[s]) # {}
    BY DEF SignedInHasPasskey
  <2>1. s = 1 /\ n > 0 /\ session[s] = 1
    BY DEF Installed
  <2> QED
    BY <1>1, <1>4, <2>1 DEF PasskeysOf
<1> QED
  BY <1>5, <1>6, <1>7, <1>8, <1>9 DEF IInv

\* Every step of a request keeps the invariant and everybody's last passkey.
LEMMA RequestKeeps ==
    ASSUME IInv, NEW p \in Slots, RequestStep(p)
    PROVE  IInv' /\ \A u \in Ids : PasskeysOf(u) # {} => PasskeysOf(u)' # {}
<1>1. CASE PutCredential(p) \/ RevokeCommit(p)
  BY <1>1, PutCredentialKeeps, RevokeCommitKeeps
<1>2. CASE ~(PutCredential(p) \/ RevokeCommit(p))
  <2>1. IInv'
    BY <1>2, AuthenticateKeeps, ChecksKeep, LoadUserKeeps, LoadCredentialsKeeps,
       SaveCeremonyKeeps, DeleteCeremonyKeeps, InsertUserKeeps, CreateSessionKeeps,
       RevokeCountKeeps, LogoutKeeps DEF RequestStep
  <2>2. creds' = creds
    BY <1>2 DEF RequestStep, Authenticate, CheckNoUser, LoadUser, LoadCredentials,
       SaveCeremony, FindCeremony, DeleteCeremony, CountUsers, InsertUser, CreateSession,
       RevokeCount, Logout, tables
  <2> QED
    BY <2>1, <2>2 DEF PasskeysOf
<1> QED
  BY <1>1, <1>2

\* So does every step of the system.
LEMMA InvariantStep ==
    ASSUME IInv, [Next]_vars
    PROVE  IInv' /\ \A u \in Ids : PasskeysOf(u) # {} => PasskeysOf(u)' # {}
<1>1. ASSUME NEW p \in Slots, RequestStep(p)
      PROVE  IInv' /\ \A u \in Ids : PasskeysOf(u) # {} => PasskeysOf(u)' # {}
  BY <1>1, RequestKeeps
<1>2. ASSUME NEW p \in Slots, Receive(p) \/ StatementFails(p)
      PROVE  IInv' /\ creds' = creds
  BY <1>2, ReceiveKeeps, FailsKeep DEF Receive, StatementFails, tables
<1>3. ASSUME Restart \/ CeremonyExpires \/ SessionExpires
      PROVE  IInv' /\ creds' = creds
  BY <1>3, RestartKeeps, ExpiryKeeps DEF Restart, CeremonyExpires, SessionExpires, tables
<1>4. ASSUME UNCHANGED vars
      PROVE  IInv' /\ creds' = creds
  <2>1. UNCHANGED <<tables, req, conn, served, faults>>
    BY <1>4 DEF vars, tables
  <2>2. TypeOK' /\ NumbersInv' /\ PasskeysInv' /\ SignedInHasPasskey'
    BY <2>1 DEF IInv, TypeOK, NumbersInv, Busy, PasskeysInv, SignedInHasPasskey,
       PasskeysOf, tables
  <2>3. ASSUME NEW p \in Slots PROVE RequestInv(p)'
    BY <2>1, OthersKept DEF Keeps, PasskeysOf, tables
  <2> QED
    BY <2>1, <2>2, <2>3 DEF IInv, tables
<1>5. creds' = creds => \A u \in Ids : PasskeysOf(u) # {} => PasskeysOf(u)' # {}
  BY DEF PasskeysOf
<1> QED
  BY <1>1, <1>2, <1>3, <1>4, <1>5 DEF Next

\* The invariant holds in every reachable state.
LEMMA Invariance == Spec => []IInv
<1>1. IInv /\ [Next]_vars => IInv'
  BY InvariantStep
<1> QED
  BY InvariantInit, <1>1, PTL DEF Spec

\* The tables and requests have their types, and no two accounts share a handle.
THEOREM AccountsTypeCorrect == Spec => []TypeOK
<1>1. IInv => TypeOK
  BY DEF IInv
<1> QED
  BY Invariance, <1>1, PTL

\* Whoever is signed in has a passkey stored to sign in with again, for any number
\* of concurrent ceremonies, revocations, failures and restarts.
THEOREM SignedInCanReturn == Spec => []SignedInHasPasskey
<1>1. IInv => SignedInHasPasskey
  BY DEF IInv
<1> QED
  BY Invariance, <1>1, PTL

\* No step takes an account's last passkey, whatever revocations overlap.
THEOREM LastPasskeyStays == Spec => KeepsAPasskey
<1>1. IInv /\ [Next]_vars => [\A u \in Ids : PasskeysOf(u) # {} => PasskeysOf(u)' # {}]_creds
  BY InvariantStep
<1> QED
  BY Invariance, <1>1, PTL DEF Spec, KeepsAPasskey

-----------------------------------------------------------------------------
(* Accounts implements Keyring *)

\* Beyond IInv: whom passkeys and requests are for exists, and the number of a
\* request under way, or to come, is no session's yet.
RingInv ==
    /\ \A k \in Ids : creds[k] # 0 => creds[k] \in Founded
    /\ \A p \in Slots : req[p].user # 0 => req[p].user \in Founded
    /\ \A s \in Ids : s > served => session[s] = 0
    /\ \A p \in Slots : Busy(p) => session[req[p].id] = 0

\* The request of p ends, or goes on for an account that exists.
GoesOn(p) ==
    /\ Busy(p)
    /\ served' = served
    /\ \E r : /\ req' = [req EXCEPT ![p] = r]
              /\ r = Idle \/ (r.id = req[p].id /\ r.user \in Founded \union {0})

\* It ends, or goes on as it was.
LEMMA GoesOnAsBefore ==
    ASSUME IInv, RingInv, NEW p \in Slots, Busy(p), served' = served,
           Answer(p) \/ \E pc \in PCs : Goto(p, pc)
    PROVE  GoesOn(p)
<1>1. CASE Answer(p)
  BY <1>1 DEF Answer, GoesOn
<1>2. ASSUME NEW pc \in PCs, Goto(p, pc) PROVE GoesOn(p)
  <2> DEFINE r == [req[p] EXCEPT !.pc = pc]
  <2>1. req[p] \in Request
    BY DEF IInv, TypeOK
  <2>2. req' = [req EXCEPT ![p] = r] /\ r.id = req[p].id /\ r.user = req[p].user
    BY <1>2, <2>1 DEF Goto, Request, IInv, TypeOK
  <2>3. r.user \in Founded \union {0}
    BY <2>2 DEF RingInv
  <2> HIDE DEF r
  <2> QED
    BY <2>2, <2>3 DEF GoesOn
<1> QED
  BY <1>1, <1>2

\* A request's step keeps what Keyring rests on, if passkeys it stores are of accounts
\* that exist and the session it creates has its number.
LEMMA RingKept ==
    ASSUME IInv, RingInv, NEW p \in Slots, GoesOn(p), Founded \subseteq Founded',
           \A k \in Ids : creds'[k] \in {0, creds[k]} \/ creds'[k] \in Founded,
           \A s \in Ids : \/ session'[s] \in {0, session[s]}
                          \/ s = req[p].id /\ req'[p] = Idle
    PROVE  RingInv'
<1>1. PICK r : /\ req' = [req EXCEPT ![p] = r]
               /\ r = Idle \/ (r.id = req[p].id /\ r.user \in Founded \union {0})
  BY DEF GoesOn
<1>2. /\ Busy(p) /\ served' = served /\ served \in Nat
      /\ \A q \in Slots : req'[q] = IF q = p THEN r ELSE req[q]
  BY <1>1, AccountsAssumption DEF GoesOn, IInv, TypeOK
<1>3. \A k \in Ids : creds'[k] # 0 => creds'[k] \in Founded'
  BY DEF RingInv
<1>4. \A q \in Slots : req'[q].user # 0 => req'[q].user \in Founded'
  BY <1>1, <1>2 DEF RingInv, Idle
<1>5. \A q \in Slots : Busy(q) => req[q].id \in Ids /\ req[q].id <= served
  BY <1>2, AccountsAssumption DEF IInv, NumbersInv, TypeOK
<1>6. \A s \in Ids : s > served' => session'[s] = 0
  BY <1>2, <1>5 DEF RingInv
<1>7. ASSUME NEW q \in Slots, Busy(q)' PROVE session'[req'[q].id] = 0
  <2>1. Busy(q) /\ req'[q].id = req[q].id /\ req'[q] # Idle
    BY <1>1, <1>2, <1>7 DEF Busy, Idle
  <2>2. session[req[q].id] = 0 /\ req[q].id \in Ids
    BY <1>5, <2>1 DEF RingInv
  <2>3. ~(req[q].id = req[p].id /\ req'[p] = Idle)
    BY <1>2, <2>1 DEF IInv, NumbersInv
  <2> QED
    BY <2>1, <2>2, <2>3
<1> QED
  BY <1>3, <1>4, <1>6, <1>7 DEF RingInv

\* A step that changes no account, passkey or session is none of Keyring's.
LEMMA RingQuiet ==
    ASSUME users' = users, creds' = creds, session' = session, revoked' = revoked,
           \A c \in Ids : /\ ceremony'[c].kind = ceremony[c].kind
                          /\ ceremony'[c].handle = ceremony[c].handle
    PROVE  Founded' = Founded /\ UNCHANGED Ring!keys
<1>1. MadeFor' = MadeFor
  BY DEF MadeFor
<1>2. Founded' = Founded
  BY DEF Founded
<1> QED
  BY <1>1, <1>2 DEF Ring!keys

RingMoves == RingInv' /\ (Ring!Change \/ UNCHANGED Ring!keys)

\* A request that only reads, for an account that exists.
LEMMA ReadsRing ==
    ASSUME IInv, RingInv, NEW p \in Slots, GoesOn(p), UNCHANGED tables
    PROVE  RingMoves
<1>1. Founded' = Founded /\ UNCHANGED Ring!keys
  BY RingQuiet DEF tables
<1>2. RingInv'
  BY <1>1, RingKept DEF tables
<1> QED
  BY <1>1, <1>2 DEF RingMoves

\* The account of whoever is signed in exists.
LEMMA SignedInIsFounded ==
    ASSUME IInv, RingInv
    PROVE  \A s \in Ids : session[s] # 0 => session[s] \in Founded
BY DEF IInv, SignedInHasPasskey, PasskeysOf, RingInv

\* The account of the session exists.
LEMMA AuthenticateRing ==
    ASSUME IInv, RingInv, NEW p \in Slots, Authenticate(p)
    PROVE  RingMoves
<1>1. /\ req[p] \in Request /\ Busy(p) /\ served' = served /\ UNCHANGED tables
      /\ req[p].sess \in Ids
  BY DEF Authenticate, At, Busy, IInv, TypeOK, RequestInv
<1>2. CASE session[req[p].sess] = 0
  BY <1>1, <1>2, GoesOnAsBefore, ReadsRing DEF Authenticate
<1>3. CASE session[req[p].sess] # 0
  <2> DEFINE pc == CASE req[p].op = "addOptions" -> "user"
                     [] req[p].op = "add" -> "take"
                     [] OTHER -> "revoke"
             r == [req[p] EXCEPT !.user = session[req[p].sess], !.pc = pc]
  <2>1. req' = [req EXCEPT ![p] = r]
    BY <1>3 DEF Authenticate, IInv, TypeOK
  <2> HIDE DEF pc
  <2>2. r.id = req[p].id /\ r.user \in Founded
    BY <1>1, <1>3, SignedInIsFounded DEF Request
  <2> HIDE DEF r
  <2>3. GoesOn(p)
    BY <1>1, <2>1, <2>2 DEF GoesOn
  <2> QED
    BY <1>1, <2>3, ReadsRing
<1> QED
  BY <1>2, <1>3

\* The other steps that only read.
LEMMA ReadingRing ==
    ASSUME IInv, RingInv, NEW p \in Slots,
           \/ CheckNoUser(p) \/ LoadUser(p) \/ LoadCredentials(p)
           \/ FindCeremony(p) \/ CountUsers(p) \/ RevokeCount(p)
    PROVE  RingMoves
<1>1. req[p] \in Request /\ Busy(p) /\ served' = served /\ UNCHANGED tables
  BY DEF CheckNoUser, LoadUser, LoadCredentials, FindCeremony, CountUsers, RevokeCount,
     At, Busy, IInv, TypeOK
<1>2. CASE Answer(p) \/ \E pc \in PCs : Goto(p, pc)
  BY <1>1, <1>2, GoesOnAsBefore, ReadsRing
<1>3. CASE LoadUser(p) /\ users # <<>>
  <2>1. users[1] \in Founded
    <3>1. users \in Seq(Ids)
      BY DEF IInv, TypeOK
    <3>2. Len(users) \in Nat \ {0}
      BY <1>3, <3>1, EmptySeq, Zenon
    <3>3. 1 \in DOMAIN users
      BY <3>1, <3>2, LenProperties
    <3> QED
      BY <3>3 DEF Founded
  <2> DEFINE r == [req[p] EXCEPT !.user = users[1], !.pc = "creds"]
  <2>2. req' = [req EXCEPT ![p] = r] /\ r.id = req[p].id /\ r.user = users[1]
    BY <1>1, <1>3 DEF LoadUser, Request, IInv, TypeOK
  <2> HIDE DEF r
  <2>3. GoesOn(p)
    BY <1>1, <2>1, <2>2 DEF GoesOn
  <2> QED
    BY <1>1, <2>3, ReadsRing
<1>4. CASE LoadCredentials(p) /\ ~Answer(p)
  <2> DEFINE loaded == PasskeysOf(req[p].user)
             to(pc) == [req[p] EXCEPT !.loaded = loaded, !.pc = pc]
  <2> HIDE DEF loaded
  <2>1. PICK pc \in {"save", "put"} : req' = [req EXCEPT ![p] = to(pc)]
    BY <1>4 DEF LoadCredentials, IInv, TypeOK, loaded
  <2>2. to(pc).id = req[p].id /\ to(pc).user = req[p].user
    BY <1>1 DEF Request
  <2>3. to(pc).user \in Founded \union {0}
    BY <2>2 DEF RingInv
  <2> HIDE DEF to
  <2>4. GoesOn(p)
    BY <1>1, <2>1, <2>2, <2>3 DEF GoesOn
  <2> QED
    BY <1>1, <2>4, ReadsRing
<1>5. \A pc \in {"save", "delete", "insert", "remove"} : pc \in PCs
  BY DEF PCs
<1> QED
  BY <1>2, <1>3, <1>4, <1>5
     DEF CheckNoUser, LoadUser, FindCeremony, CountUsers, RevokeCount

\* A ceremony that makes a passkey makes it for an account that exists, or is the
\* one to found an account with its own number.
LEMMA SaveCeremonyRing ==
    ASSUME IInv, RingInv, NEW p \in Slots, SaveCeremony(p)
    PROVE  RingMoves
<1> DEFINE n == req[p].id
<1>1. /\ req[p] \in Request /\ RequestInv(p) /\ req[p].pc = "save" /\ Busy(p)
      /\ ceremony \in [Ids -> Ceremony] /\ Answer(p)
      /\ UNCHANGED <<users, creds, expired, session, revoked, conn, served, faults>>
  BY DEF IInv, TypeOK, SaveCeremony, At, Busy
<1>2. req[p].op \in Beginning
  BY <1>1 DEF RequestInv, OpAtPC
<1>3. n \in Ids /\ ceremony[n].kind = "none"
  BY <1>1, <1>2, AccountsAssumption DEF IInv, NumbersInv, TypeOK
<1>4. GoesOn(p)
  BY <1>1, GoesOnAsBefore
<1>5. Founded' = Founded
  BY <1>1 DEF Founded
<1>6. RingInv'
  BY <1>1, <1>4, <1>5, RingKept
<1>7. PICK row : /\ ceremony' = [ceremony EXCEPT ![n] = row]
                 /\ \/ row.kind = "login"
                    \/ row.kind = "register" /\ row.handle = n
                    \/ row.kind = "add" /\ row.handle = req[p].user
                         /\ req[p].op = "addOptions"
  <2> DEFINE begun(kind, handle, k) == [kind |-> kind, handle |-> handle,
                 offered |-> req[p].loaded, key |-> k, stored |-> TRUE]
  <2>1. PICK row \in CASE req[p].op = "registerOptions" -> {begun("register", n, n)}
                       [] req[p].op = "addOptions" -> {begun("add", req[p].user, n)}
                       [] OTHER -> {begun("login", req[p].user, k) : k \in req[p].loaded} :
               ceremony' = [ceremony EXCEPT ![n] = row]
    BY DEF SaveCeremony
  <2>2. CASE req[p].op = "registerOptions"
    <3>1. row = begun("register", n, n)
      BY <2>1, <2>2
    <3>2. row.kind = "register" /\ row.handle = n
      BY <3>1
    <3> QED
      BY <2>1, <3>2
  <2>3. CASE req[p].op = "addOptions"
    <3>1. row = begun("add", req[p].user, n)
      BY <2>1, <2>3
    <3>2. row.kind = "add" /\ row.handle = req[p].user
      BY <3>1
    <3> QED
      BY <2>1, <2>3, <3>2
  <2>4. CASE req[p].op = "loginOptions"
    <3>1. PICK k \in req[p].loaded : row = begun("login", req[p].user, k)
      BY <2>1, <2>4
    <3>2. row.kind = "login"
      BY <3>1
    <3> QED
      BY <2>1, <3>2
  <2> QED
    BY <1>2, <2>2, <2>3, <2>4 DEF Beginning
<1>8. /\ \A c \in Ids : ceremony'[c] = IF c = n THEN row ELSE ceremony[c]
      /\ MadeFor[n] = 0
  BY <1>1, <1>3, <1>7 DEF MadeFor
<1>9. CASE row.kind = "login"
  <2>1. MadeFor' = MadeFor
    BY <1>3, <1>8, <1>9 DEF MadeFor
  <2> QED
    BY <1>1, <1>5, <1>6, <2>1 DEF RingMoves, Ring!keys
<1>10. CASE row.kind # "login"
  <2>1. row.handle \in Founded \union {n}
    <3>1. CASE row.kind = "add"
      <4>1. req[p].user # 0
        BY <1>1, <1>7, <3>1 DEF RequestInv
      <4> QED
        BY <1>7, <3>1, <4>1 DEF RingInv
    <3> QED
      BY <1>7, <1>10, <3>1
  <2>2. MadeFor' = [MadeFor EXCEPT ![n] = row.handle]
    <3>1. row.kind \in {"register", "add"}
      BY <1>7, <1>10
    <3>2. \A c \in Ids : MadeFor'[c] = IF c = n THEN row.handle ELSE MadeFor[c]
      BY <1>8, <3>1 DEF MadeFor
    <3> QED
      BY <1>3, <3>2 DEF MadeFor
  <2>3. Ring!Make(n)
    BY <1>1, <1>5, <1>8, <2>1, <2>2 DEF Ring!Make
  <2> QED
    BY <1>3, <1>6, <2>3 DEF RingMoves, Ring!Change
<1> QED
  BY <1>9, <1>10

\* Taking a ceremony changes none of whom its passkey is for.
LEMMA DeleteCeremonyRing ==
    ASSUME IInv, RingInv, NEW p \in Slots, DeleteCeremony(p)
    PROVE  RingMoves
<1>1. /\ Busy(p) /\ UNCHANGED <<users, creds, expired, session, revoked, conn, served, faults>>
      /\ Answer(p) \/ \E pc \in PCs : Goto(p, pc)
  BY DEF DeleteCeremony, At, Busy, PCs
<1>2. \A c \in Ids : /\ ceremony'[c].kind = ceremony[c].kind
                     /\ ceremony'[c].handle = ceremony[c].handle
  <2>1. ceremony \in [Ids -> Ceremony]
    BY DEF IInv, TypeOK
  <2> QED
    BY <2>1 DEF DeleteCeremony, Ceremony
<1>3. Founded' = Founded /\ UNCHANGED Ring!keys
  BY <1>1, <1>2, RingQuiet
<1>4. GoesOn(p)
  BY <1>1, GoesOnAsBefore
<1>5. RingInv'
  BY <1>1, <1>3, <1>4, RingKept
<1> QED
  BY <1>3, <1>5 DEF RingMoves

\* An account is founded by the ceremony whose passkey was made for it, once.
LEMMA InsertUserRing ==
    ASSUME IInv, RingInv, NEW p \in Slots, InsertUser(p)
    PROVE  RingMoves
<1> DEFINE h == ceremony[req[p].cer].handle
<1>1. /\ req[p] \in Request /\ RequestInv(p) /\ req[p].pc = "insert" /\ Busy(p)
      /\ req[p].op = "register" /\ req[p].cer \in Ids
      /\ ceremony[req[p].cer].kind = "register"
      /\ UNCHANGED <<creds, ceremony, expired, session, revoked, conn, served, faults>>
  BY DEF IInv, TypeOK, InsertUser, At, Busy, RequestInv, OpAtPC, Finishing
<1>2. h = req[p].cer
  BY <1>1 DEF IInv, PasskeysInv
<1>3. CASE \E i \in DOMAIN users : users[i] = h
  <2>1. Answer(p) /\ UNCHANGED users
    BY <1>3 DEF InsertUser
  <2> QED
    BY <1>1, <2>1, GoesOnAsBefore, ReadsRing DEF tables
<1>4. CASE ~\E i \in DOMAIN users : users[i] = h
  <2> DEFINE r == [req[p] EXCEPT !.user = h, !.pc = "put"]
  <2>1. users' = Append(users, h) /\ req' = [req EXCEPT ![p] = r]
    BY <1>4 DEF InsertUser, IInv, TypeOK
  <2>2. r.id = req[p].id /\ r.user = h
    BY <1>1 DEF Request
  <2>3. Founded' = Founded \union {h}
    <3>1. users \in Seq(Ids) /\ h \in Ids
      BY <1>1, <1>2 DEF IInv, TypeOK
    <3> HIDE DEF h, Ids
    <3>2. /\ users' \in Seq(Ids)
          /\ Len(users') = Len(users) + 1
          /\ \A i \in 1..Len(users) : users'[i] = users[i]
          /\ users'[Len(users) + 1] = h
      BY <2>1, <3>1, AppendProperties
    <3>3. /\ Len(users) \in Nat /\ DOMAIN users = 1..Len(users)
          /\ DOMAIN users' = 1..(Len(users) + 1)
      BY <3>1, <3>2, LenProperties
    <3> QED
      BY <3>2, <3>3 DEF Founded
  <2>4. h \notin Founded
    BY <1>4 DEF Founded
  <2>5. MadeFor[h] = h /\ MadeFor' = MadeFor
    BY <1>1, <1>2 DEF MadeFor
  <2>6. Ring!Found(h)
    BY <1>1, <2>3, <2>4, <2>5 DEF Ring!Found
  <2> HIDE DEF r
  <2>7. RingInv'
    <3>1. PICK u : u = h
      OBVIOUS
    <3>2. /\ served' = served /\ creds' = creds /\ session' = session
          /\ \A q \in Slots : req'[q] = IF q = p THEN r ELSE req[q]
      BY <1>1, <2>1 DEF IInv, TypeOK
    <3>3. \A q \in Slots : req'[q].user # 0 => req'[q].user \in Founded'
      BY <2>2, <2>3, <3>2 DEF RingInv
    <3>4. \A q \in Slots : Busy(q)' => Busy(q) /\ req'[q].id = req[q].id
      BY <1>1, <2>2, <3>2 DEF Busy
    <3> QED
      BY <2>3, <3>2, <3>3, <3>4 DEF RingInv
  <2> QED
    BY <1>1, <1>2, <2>6, <2>7 DEF RingMoves, Ring!Change
<1> QED
  BY <1>3, <1>4

\* A passkey stored anew is enrolled with the account it was made for.
LEMMA PutCredentialRing ==
    ASSUME IInv, RingInv, NEW p \in Slots, PutCredential(p)
    PROVE  RingMoves
<1> DEFINE k == req[p].key
           v == req[p].user
<1>1. /\ RequestInv(p) /\ req[p].pc = "put" /\ Busy(p) /\ creds \in [Ids -> OrZero]
      /\ UNCHANGED <<users, ceremony, expired, session, revoked, conn, served, faults>>
      /\ creds' = [creds EXCEPT ![k] = IF @ = 0 THEN v ELSE @]
      /\ Answer(p) \/ \E pc \in PCs : Goto(p, pc)
  BY DEF IInv, TypeOK, PutCredential, At, Busy, PCs
<1>2. v \in Founded /\ k \in Ids /\ MadeFor[k] = v
  BY <1>1 DEF RequestInv, RingInv, MadeFor, NewKey
<1>3. GoesOn(p)
  BY <1>1, GoesOnAsBefore
<1>4. Founded' = Founded /\ MadeFor' = MadeFor
  BY <1>1 DEF Founded, MadeFor
<1>5. \A l \in Ids : creds'[l] = creds[l] \/ creds'[l] \in Founded
  BY <1>1, <1>2
<1>6. RingInv'
  BY <1>1, <1>3, <1>4, <1>5, RingKept
<1>7. CASE creds[k] = 0
  <2>1. k \in Held
    BY <1>1 DEF Held, HoldsPasskey, RequestInv, OpAtPC, Finishing
  <2>2. Ring!Store(k)
    BY <1>1, <1>2, <1>4, <1>7, <2>1 DEF Ring!Store
  <2>3. Ring!Enrol(k) \/ Ring!Return(k)
    BY <2>2 DEF Ring!Enrol, Ring!Return
  <2> QED
    BY <1>2, <1>6, <2>3 DEF RingMoves, Ring!Change
<1>8. CASE creds[k] # 0
  <2>1. creds' = creds
    BY <1>1, <1>8
  <2> QED
    BY <1>1, <1>4, <1>6, <2>1 DEF RingMoves, Ring!keys
<1> QED
  BY <1>7, <1>8

\* The session is new, and of an account that has a passkey.
LEMMA CreateSessionRing ==
    ASSUME IInv, RingInv, NEW p \in Slots, CreateSession(p)
    PROVE  RingMoves
<1> DEFINE n == req[p].id
           v == req[p].user
<1>1. /\ RequestInv(p) /\ req[p].pc = "session" /\ Busy(p)
      /\ UNCHANGED <<users, creds, ceremony, expired, revoked, conn, served, faults>>
      /\ session' = [session EXCEPT ![n] = v] /\ session \in [Ids -> OrZero]
      /\ Answer(p) /\ req'[p] = Idle
  BY DEF IInv, TypeOK, CreateSession, At, Busy, Answer
<1>2. v \in Founded /\ PasskeysOf(v) # {} /\ session[n] = 0
  BY <1>1 DEF RequestInv, RingInv
<1>3. n \in Ids
  BY <1>1, AccountsAssumption DEF IInv, NumbersInv, TypeOK
<1>4. GoesOn(p)
  BY <1>1, GoesOnAsBefore
<1>5. Founded' = Founded /\ MadeFor' = MadeFor
  BY <1>1 DEF Founded, MadeFor
<1>6. RingInv'
  BY <1>1, <1>4, <1>5, RingKept
<1>7. Ring!SignIn(n)
  BY <1>1, <1>2, <1>5 DEF Ring!SignIn, Ring!KeysOf, PasskeysOf
<1> QED
  BY <1>3, <1>6, <1>7 DEF RingMoves, Ring!Change

\* The passkey revoked is not its account's last.
LEMMA RevokeCommitRing ==
    ASSUME IInv, RingInv, NEW p \in Slots, RevokeCommit(p)
    PROVE  RingMoves
<1> DEFINE k == req[p].key
           v == req[p].user
<1>1. /\ HasSpare(v) /\ Busy(p) /\ creds \in [Ids -> OrZero] /\ Answer(p)
      /\ UNCHANGED <<users, ceremony, expired, session, served, faults>>
      /\ creds' = [creds EXCEPT ![k] = IF @ = v THEN 0 ELSE @]
      /\ revoked' = revoked \union {l \in Ids : creds[l] # 0 /\ creds'[l] = 0}
  BY DEF IInv, TypeOK, RevokeCommit, RequestInv, Busy
<1>2. GoesOn(p)
  BY <1>1, GoesOnAsBefore
<1>3. Founded' = Founded /\ MadeFor' = MadeFor
  BY <1>1 DEF Founded, MadeFor
<1>4. \A l \in Ids : creds'[l] \in {0, creds[l]}
  BY <1>1
<1>5. RingInv'
  BY <1>1, <1>2, <1>3, <1>4, RingKept
<1>6. CASE k \in Ids /\ creds[k] = v /\ v # 0
  <2>1. PasskeysOf(creds[k]) # {k}
    BY <1>1, <1>6 DEF HasSpare
  <2>2. revoked' = revoked \union {k}
    <3>1. \A l \in Ids : creds[l] # 0 /\ creds'[l] = 0 <=> l = k
      BY <1>1, <1>6
    <3> QED
      BY <1>1, <1>6, <3>1
  <2>3. Ring!Revoke(k)
    BY <1>1, <1>3, <1>6, <2>1, <2>2 DEF Ring!Revoke, Ring!KeysOf, PasskeysOf
  <2> QED
    BY <1>5, <1>6, <2>3 DEF RingMoves, Ring!Change
<1>7. CASE ~(k \in Ids /\ creds[k] = v /\ v # 0)
  <2>1. \A l \in Ids : creds'[l] = creds[l]
    BY <1>1, <1>7
  <2>2. creds' = creds /\ revoked' = revoked
    BY <1>1, <2>1
  <2> QED
    BY <1>1, <1>3, <1>5, <2>2 DEF RingMoves, Ring!keys
<1> QED
  BY <1>6, <1>7

\* A session that ends is the only thing to change.
LEMMA SignedOut ==
    ASSUME IInv, RingInv, NEW s \in Ids, session' = [session EXCEPT ![s] = 0],
           UNCHANGED <<users, creds, ceremony, revoked, served>>
    PROVE  /\ Ring!Change \/ UNCHANGED Ring!keys
           /\ Founded' = Founded
           /\ \A i \in Ids : session'[i] \in {0, session[i]}
<1>1. session \in [Ids -> OrZero]
  BY DEF IInv, TypeOK
<1>2. Founded' = Founded /\ MadeFor' = MadeFor
  BY DEF Founded, MadeFor
<1>3. CASE session[s] # 0
  <2>1. Ring!SignOut(s)
    BY <1>2, <1>3 DEF Ring!SignOut
  <2> QED
    BY <1>1, <1>2, <2>1 DEF Ring!Change
<1>4. CASE session[s] = 0
  <2>1. session' = session
    BY <1>1, <1>4
  <2> QED
    BY <1>2, <2>1 DEF Ring!keys
<1> QED
  BY <1>3, <1>4

\* Signing out ends a session.
LEMMA LogoutRing ==
    ASSUME IInv, RingInv, NEW p \in Slots, Logout(p)
    PROVE  RingMoves
<1>1. /\ req[p].sess \in Ids /\ Busy(p) /\ Answer(p)
      /\ UNCHANGED <<users, creds, ceremony, expired, revoked, conn, served, faults>>
      /\ session' = [session EXCEPT ![req[p].sess] = 0]
  BY DEF IInv, TypeOK, RequestInv, Logout, At, Busy
<1>2. /\ Ring!Change \/ UNCHANGED Ring!keys
      /\ Founded' = Founded
      /\ \A i \in Ids : session'[i] \in {0, session[i]}
  BY <1>1, SignedOut
<1>3. RingInv'
  BY <1>1, <1>2, GoesOnAsBefore, RingKept
<1> QED
  BY <1>2, <1>3 DEF RingMoves

\* What happens around the requests: a new one has no account yet and a number that
\* is no session's, and what ends, ends.
LEMMA AroundRing ==
    ASSUME IInv, RingInv,
           \/ \E p \in Slots : Receive(p) \/ StatementFails(p)
           \/ Restart \/ CeremonyExpires \/ SessionExpires \/ UNCHANGED vars
    PROVE  RingMoves
<1>1. /\ UNCHANGED <<users, creds, ceremony, revoked>>
      /\ session' = session \/ SessionExpires
  BY DEF Receive, StatementFails, Restart, CeremonyExpires, SessionExpires, tables, vars
<1>2. Founded' = Founded
  BY <1>1 DEF Founded
<1>3. /\ Ring!Change \/ UNCHANGED Ring!keys
      /\ \A s \in Ids : session'[s] \in {0, session[s]}
  <2>1. CASE session' = session
    BY <1>1, <2>1, RingQuiet
  <2>2. CASE SessionExpires
    <3>1. PICK s \in Ids : session' = [session EXCEPT ![s] = 0]
      BY <2>2 DEF SessionExpires
    <3>2. served' = served
      BY <2>2 DEF SessionExpires
    <3> QED
      BY <1>1, <3>1, <3>2, SignedOut
  <2> QED
    BY <1>1, <2>1, <2>2
<1>4. /\ served \in Nat /\ served' \in Nat /\ served <= served'
      /\ \A q \in Slots : \/ req'[q] \in {Idle, req[q]}
                          \/ req'[q].user = 0 /\ req'[q].id = served' /\ served' = served + 1
                             /\ served' \in Ids
  <2>1. req \in [Slots -> Request] /\ served \in Nat
    BY AccountsAssumption DEF IInv, TypeOK
  <2>2. ASSUME NEW p \in Slots, Receive(p)
        PROVE  /\ served' = served + 1 /\ served' \in Ids
               /\ \A q \in Slots : \/ req'[q] = req[q]
                                   \/ req'[q].user = 0 /\ req'[q].id = served'
    <3>1. PICK r \in Incoming(served + 1) : req' = [req EXCEPT ![p] = r]
      BY <2>2 DEF Receive
    <3>2. r.user = 0 /\ r.id = served + 1
      BY <3>1 DEF Incoming, NewRequest
    <3> QED
      BY <2>1, <2>2, <3>1, <3>2, AccountsAssumption DEF Receive
  <2>3. ASSUME NEW p \in Slots, StatementFails(p)
        PROVE  served' = served /\ \A q \in Slots : req'[q] \in {Idle, req[q]}
    BY <2>1, <2>3 DEF StatementFails, Answer
  <2>4. ASSUME Restart \/ CeremonyExpires \/ SessionExpires \/ UNCHANGED vars
        PROVE  served' = served /\ \A q \in Slots : req'[q] \in {Idle, req[q]}
    BY <2>4 DEF Restart, CeremonyExpires, SessionExpires, vars
  <2> QED
    BY <2>1, <2>2, <2>3, <2>4
<1>5. ASSUME NEW q \in Slots, Busy(q)' PROVE session'[req'[q].id] = 0
  <2>1. CASE req'[q] \in {Idle, req[q]}
    <3>1. Busy(q) /\ req'[q] = req[q]
      BY <1>5, <2>1 DEF Busy, Idle
    <3>2. req[q].id \in Ids /\ session[req[q].id] = 0
      BY <3>1, AccountsAssumption DEF IInv, NumbersInv, TypeOK, RingInv
    <3> QED
      BY <1>3, <3>1, <3>2
  <2>2. CASE req'[q].id = served + 1 /\ served + 1 \in Ids
    <3>1. session[served + 1] = 0
      BY <1>4, <2>2 DEF RingInv
    <3> QED
      BY <1>3, <2>2, <3>1
  <2> QED
    BY <1>4, <2>1, <2>2
<1>6. RingInv'
  <2>1. \A q \in Slots : req'[q].user # 0 => req'[q].user \in Founded'
    BY <1>2, <1>4 DEF RingInv, Idle
  <2>2. \A s \in Ids : s > served' => session'[s] = 0
    BY <1>3, <1>4 DEF RingInv
  <2> QED
    BY <1>1, <1>2, <1>5, <2>1, <2>2 DEF RingInv
<1> QED
  BY <1>3, <1>6 DEF RingMoves

-----------------------------------------------------------------------------
(* What requests hold *)

\* A passkey that was ever stored has its ceremony taken, and so has one that a
\* request is past taking.
TakenInv ==
    /\ \A k \in Ids : k \in revoked \/ creds[k] # 0 =>
           ceremony[k].kind \in NewKey /\ ~ceremony[k].stored
    /\ \A p \in Slots : HoldsPasskey(req[p]) /\ req[p].pc # "delete" =>
           ~ceremony[req[p].key].stored

HeldMoves == TakenInv' /\ (Held' \subseteq Held \/ \E k \in Ids : Ring!Hold(k))

\* No request comes to hold a passkey, nor to be past taking its ceremony.
NobodyTakes ==
    \A q \in Slots : HoldsPasskey(req'[q]) =>
        /\ HoldsPasskey(req[q]) /\ req'[q].key = req[q].key
        /\ req'[q].pc = "delete" \/ req[q].pc # "delete"

\* The passkey a request holds is that of a ceremony begun.
LEMMA HeldIsMade ==
    ASSUME IInv, NEW p \in Slots, HoldsPasskey(req[p])
    PROVE  /\ req[p].key \in Ids /\ ceremony[req[p].key].kind \in NewKey
           /\ req[p].op \in NewKey => req[p].key = req[p].cer
<1>1. RequestInv(p) /\ PasskeysInv
  BY DEF IInv
<1>2. CASE req[p].op \in NewKey
  BY <1>1, <1>2 DEF RequestInv, PasskeysInv, NewKey, Finishing
<1>3. CASE req[p].op = "login" /\ req[p].pc = "put"
  BY <1>1, <1>3 DEF RequestInv, NewKey
<1> QED
  BY <1>2, <1>3 DEF HoldsPasskey, NewKey

\* A request that goes on takes no passkey if where it stands it holds none it did not.
LEMMA OneTakesNone ==
    ASSUME req \in [Slots -> Request], NEW p \in Slots, NEW r, req' = [req EXCEPT ![p] = r],
           HoldsPasskey(r) => /\ HoldsPasskey(req[p]) /\ r.key = req[p].key
                              /\ r.pc = "delete" \/ req[p].pc # "delete"
    PROVE  NobodyTakes
<1>1. \A q \in Slots : req'[q] = IF q = p THEN r ELSE req[q]
  OBVIOUS
<1> QED
  BY <1>1 DEF NobodyTakes

\* Where no request takes one, and passkeys and ceremonies stay, nothing changes.
LEMMA HeldQuiet ==
    ASSUME TakenInv, UNCHANGED <<creds, revoked, ceremony>>, NobodyTakes
    PROVE  HeldMoves
<1>1. TakenInv'
  BY DEF TakenInv, NobodyTakes
<1>2. Held' \subseteq Held
  BY DEF Held, NobodyTakes
<1> QED
  BY <1>1, <1>2 DEF HeldMoves

\* One more request holds a passkey.
LEMMA HeldBy ==
    ASSUME IInv, TakenInv, NEW p \in Slots, NEW r, UNCHANGED tables,
           req' = [req EXCEPT ![p] = r], ~HoldsPasskey(req[p]), HoldsPasskey(r), r.key \in Ids,
           r.key \notin revoked \/ creds[r.key] # 0,
           r.pc = "delete" \/ ~ceremony[r.key].stored
    PROVE  HeldMoves
<1>1. \A q \in Slots : req'[q] = IF q = p THEN r ELSE req[q]
  BY DEF IInv, TypeOK
<1>2. TakenInv'
  BY <1>1 DEF TakenInv, tables
<1>3. Held' = Held \union {r.key}
  BY <1>1 DEF Held
<1>4. Founded' = Founded /\ MadeFor' = MadeFor
  BY DEF tables, Founded, MadeFor
<1>5. Ring!Hold(r.key)
  BY <1>3, <1>4 DEF Ring!Hold, Ring!keys, tables
<1> QED
  BY <1>2, <1>5 DEF HeldMoves

\* Most steps of a request take no passkey.
LEMMA QuietHeld ==
    ASSUME IInv, TakenInv, NEW p \in Slots,
           \/ Authenticate(p) \/ CheckNoUser(p) \/ LoadUser(p) \/ CountUsers(p)
           \/ InsertUser(p) \/ CreateSession(p) \/ RevokeCount(p) \/ Logout(p)
    PROVE  HeldMoves
<1>1. req \in [Slots -> Request] /\ RequestInv(p)
  BY DEF IInv, TypeOK
<1>2. UNCHANGED <<creds, revoked, ceremony>>
  BY DEF Authenticate, CheckNoUser, LoadUser, CountUsers, InsertUser, CreateSession,
     RevokeCount, Logout, tables
<1>3. ~HoldsPasskey(Idle)
  BY DEF HoldsPasskey, Idle
<1>4. CASE Answer(p)
  <2>1. NobodyTakes
    BY <1>1, <1>3, <1>4 DEF Answer, NobodyTakes
  <2> QED
    BY <1>2, <2>1, HeldQuiet
<1>5. CASE ~Answer(p)
  <2>1. PICK r : /\ req' = [req EXCEPT ![p] = r] /\ r.op = req[p].op /\ r.key = req[p].key
                 /\ \/ req[p].pc = "auth" /\ r.pc \in {"user", "take", "revoke"}
                    \/ req[p].pc = "check" /\ r.pc = "save"
                    \/ req[p].pc = "user" /\ r.pc = "creds"
                    \/ req[p].pc = "count" /\ r.pc = "insert"
                    \/ req[p].pc = "insert" /\ r.pc = "put"
                    \/ req[p].pc = "revoke" /\ r.pc = "remove"
                 /\ req[p].pc = "auth" /\ r.pc = "user" => r.op = "addOptions"
    <3>1. CASE Authenticate(p)
      <4> DEFINE pc == CASE req[p].op = "addOptions" -> "user"
                         [] req[p].op = "add" -> "take"
                         [] OTHER -> "revoke"
                 r == [req[p] EXCEPT !.user = session[req[p].sess], !.pc = pc]
      <4>1. req' = [req EXCEPT ![p] = r] /\ req[p].pc = "auth"
        BY <1>1, <1>5, <3>1 DEF Authenticate, At
      <4>2. pc \in {"user", "take", "revoke"} /\ (pc = "user" => req[p].op = "addOptions")
        BY <1>1, <4>1 DEF RequestInv, OpAtPC
      <4> HIDE DEF pc
      <4>3. r.op = req[p].op /\ r.key = req[p].key /\ r.pc = pc
        BY <1>1 DEF Request
      <4> HIDE DEF r
      <4> QED
        BY <4>1, <4>2, <4>3
    <3>2. CASE InsertUser(p)
      <4> DEFINE r == [req[p] EXCEPT !.user = ceremony[req[p].cer].handle, !.pc = "put"]
      <4>1. req' = [req EXCEPT ![p] = r] /\ req[p].pc = "insert"
        BY <1>1, <1>5, <3>2 DEF InsertUser, At
      <4>2. r.op = req[p].op /\ r.key = req[p].key /\ r.pc = "put"
        BY <1>1 DEF Request
      <4> HIDE DEF r
      <4> QED
        BY <4>1, <4>2
    <3>3. CASE LoadUser(p)
      <4> DEFINE r == [req[p] EXCEPT !.user = users[1], !.pc = "creds"]
      <4>1. req' = [req EXCEPT ![p] = r] /\ req[p].pc = "user"
        BY <1>1, <1>5, <3>3 DEF LoadUser, At
      <4>2. r.op = req[p].op /\ r.key = req[p].key /\ r.pc = "creds"
        BY <1>1 DEF Request
      <4> HIDE DEF r
      <4> QED
        BY <4>1, <4>2
    <3>4. ASSUME NEW from, NEW pc, req[p].pc = from, Goto(p, pc),
                 <<from, pc>> \in {<<"check", "save">>, <<"count", "insert">>,
                                   <<"revoke", "remove">>}
          PROVE  \E r : /\ req' = [req EXCEPT ![p] = r] /\ r.op = req[p].op
                        /\ r.key = req[p].key /\ r.pc = pc
      <4> DEFINE r == [req[p] EXCEPT !.pc = pc]
      <4>1. req' = [req EXCEPT ![p] = r] /\ r.op = req[p].op /\ r.key = req[p].key /\ r.pc = pc
        BY <1>1, <3>4 DEF Goto, Request
      <4> HIDE DEF r
      <4> QED
        BY <4>1
    <3>5. CASE CheckNoUser(p)
      <4>1. Goto(p, "save") /\ req[p].pc = "check"
        BY <1>5, <3>5 DEF CheckNoUser, At
      <4> QED
        BY <3>4, <4>1
    <3>6. CASE CountUsers(p)
      <4>1. Goto(p, "insert") /\ req[p].pc = "count"
        BY <1>5, <3>6 DEF CountUsers, At
      <4> QED
        BY <3>4, <4>1
    <3>7. CASE RevokeCount(p)
      <4>1. Goto(p, "remove") /\ req[p].pc = "revoke"
        BY <1>5, <3>7 DEF RevokeCount, At
      <4> QED
        BY <3>4, <4>1
    <3>8. ~CreateSession(p) /\ ~Logout(p)
      BY <1>5 DEF CreateSession, Logout
    <3> QED
      BY <3>1, <3>2, <3>3, <3>5, <3>6, <3>7, <3>8
  <2>2. HoldsPasskey(r) => /\ HoldsPasskey(req[p]) /\ r.key = req[p].key
                           /\ r.pc = "delete" \/ req[p].pc # "delete"
    <3>1. req[p].pc \in {"count", "insert"} => req[p].op = "register"
      BY <1>1 DEF RequestInv, OpAtPC
    <3> QED
      BY <2>1, <3>1 DEF HoldsPasskey
  <2>3. NobodyTakes
    BY <1>1, <2>1, <2>2, OneTakesNone
  <2> QED
    BY <1>2, <2>3, HeldQuiet
<1> QED
  BY <1>4, <1>5

\* What happens around the requests takes no passkey either.
LEMMA AroundHeld ==
    ASSUME IInv, TakenInv,
           \/ \E p \in Slots : Receive(p) \/ StatementFails(p)
           \/ Restart \/ CeremonyExpires \/ SessionExpires \/ UNCHANGED vars
    PROVE  HeldMoves
<1>1. req \in [Slots -> Request]
  BY DEF IInv, TypeOK
<1>2. UNCHANGED <<creds, revoked, ceremony>>
  BY DEF Receive, StatementFails, Restart, CeremonyExpires, SessionExpires, tables, vars
<1>3. ~HoldsPasskey(Idle)
  BY DEF HoldsPasskey, Idle
<1>4. ASSUME NEW p \in Slots, Receive(p) PROVE NobodyTakes
  <2>1. PICK r \in Incoming(served + 1) : req' = [req EXCEPT ![p] = r]
    BY <1>4 DEF Receive
  <2>2. ~HoldsPasskey(r)
    BY <2>1 DEF Incoming, NewRequest, HoldsPasskey
  <2> QED
    BY <1>1, <2>1, <2>2 DEF NobodyTakes
<1>5. ASSUME NEW p \in Slots, StatementFails(p) PROVE NobodyTakes
  BY <1>1, <1>3, <1>5 DEF StatementFails, Answer, NobodyTakes
<1>6. ASSUME Restart \/ CeremonyExpires \/ SessionExpires \/ UNCHANGED vars
      PROVE  NobodyTakes
  BY <1>1, <1>3, <1>6 DEF Restart, CeremonyExpires, SessionExpires, vars, NobodyTakes
<1> QED
  BY <1>2, <1>4, <1>5, <1>6, HeldQuiet

\* An answer holds its passkey from when its ceremony was found: it was not taken
\* before, so the passkey was never stored.
LEMMA FindCeremonyHeld ==
    ASSUME IInv, TakenInv, NEW p \in Slots, FindCeremony(p)
    PROVE  HeldMoves
<1>1. /\ req \in [Slots -> Request] /\ RequestInv(p) /\ req[p].pc = "take"
      /\ UNCHANGED tables /\ PasskeysInv
  BY DEF IInv, TypeOK, FindCeremony, At
<1>2. ~HoldsPasskey(Idle) /\ ~HoldsPasskey(req[p])
  BY <1>1 DEF HoldsPasskey, Idle
<1>3. CASE Answer(p)
  <2>1. NobodyTakes
    BY <1>1, <1>2, <1>3 DEF Answer, NobodyTakes
  <2> QED
    BY <1>1, <2>1, HeldQuiet DEF tables
<1>4. CASE ~Answer(p)
  <2> DEFINE r == [req[p] EXCEPT !.pc = "delete"]
  <2>1. req' = [req EXCEPT ![p] = r] /\ ceremony[req[p].cer].stored
    BY <1>1, <1>4 DEF FindCeremony, Goto
  <2>2. r.op = req[p].op /\ r.key = req[p].key /\ r.pc = "delete"
    BY <1>1 DEF Request
  <2> HIDE DEF r
  <2>3. req[p].op \in Finishing /\ req[p].cer \in Ids /\ ceremony[req[p].cer].kind = req[p].op
    BY <1>1 DEF RequestInv, OpAtPC
  <2>4. CASE req[p].op \in NewKey
    <3>1. req[p].key = req[p].cer
      BY <1>1, <2>3, <2>4 DEF RequestInv, PasskeysInv
    <3>2. r.key \notin revoked
      BY <2>1, <2>2, <2>3, <3>1 DEF TakenInv
    <3>3. HoldsPasskey(r)
      BY <2>2, <2>4 DEF HoldsPasskey, NewKey
    <3> QED
      BY <1>1, <1>2, <2>1, <2>2, <2>3, <3>1, <3>2, <3>3, HeldBy
  <2>5. CASE req[p].op = "login"
    <3>1. NobodyTakes
      BY <1>1, <1>2, <2>1, <2>2, <2>5 DEF NobodyTakes, HoldsPasskey
    <3> QED
      BY <1>1, <3>1, HeldQuiet DEF tables
  <2> QED
    BY <2>3, <2>4, <2>5 DEF Finishing, NewKey
<1> QED
  BY <1>3, <1>4

\* A sign-in holds the passkey it was verified with, which is stored.
LEMMA LoadCredentialsHeld ==
    ASSUME IInv, TakenInv, NEW p \in Slots, LoadCredentials(p)
    PROVE  HeldMoves
<1> DEFINE loaded == PasskeysOf(req[p].user)
           to(pc) == [req[p] EXCEPT !.loaded = loaded, !.pc = pc]
<1>1. /\ req \in [Slots -> Request] /\ req[p] \in Request /\ RequestInv(p)
      /\ req[p].pc = "creds" /\ UNCHANGED tables
  BY DEF IInv, TypeOK, LoadCredentials, At
<1>2. ~HoldsPasskey(Idle)
  BY DEF HoldsPasskey, Idle
<1>3. CASE Answer(p)
  <2>1. NobodyTakes
    BY <1>1, <1>2, <1>3 DEF Answer, NobodyTakes
  <2> QED
    BY <1>1, <2>1, HeldQuiet DEF tables
<1>4. CASE ~Answer(p)
  <2>1. req[p].op \in {"loginOptions", "login", "addOptions", "add"} /\ req[p].user # 0
    BY <1>1 DEF RequestInv, OpAtPC
  <2>2. PICK pc \in {"save", "put"} :
          /\ req' = [req EXCEPT ![p] = to(pc)]
          /\ pc = "save" <=> req[p].op \in {"loginOptions", "addOptions"}
          /\ req[p].op = "login" => req[p].key \in loaded
    BY <1>1, <1>4, <2>1 DEF LoadCredentials, Verified
  <2>3. to(pc).op = req[p].op /\ to(pc).key = req[p].key /\ to(pc).pc = pc
    BY <1>1 DEF Request
  <2> HIDE DEF to
  <2>4. CASE req[p].op = "login"
    <3>1. req[p].key \in Ids /\ creds[req[p].key] # 0
      BY <2>1, <2>2, <2>4 DEF PasskeysOf
    <3>2. ~HoldsPasskey(req[p]) /\ HoldsPasskey(to(pc)) /\ ~ceremony[req[p].key].stored
      BY <1>1, <2>2, <2>3, <2>4, <3>1 DEF HoldsPasskey, TakenInv
    <3> QED
      BY <1>1, <2>2, <2>3, <3>1, <3>2, HeldBy
  <2>5. CASE req[p].op # "login"
    <3>1. NobodyTakes
      BY <1>1, <2>2, <2>3, <2>5 DEF NobodyTakes, HoldsPasskey
    <3> QED
      BY <1>1, <3>1, HeldQuiet DEF tables
  <2> QED
    BY <2>4, <2>5
<1> QED
  BY <1>3, <1>4

\* The new ceremony's passkey is not stored, and no request holds it yet.
LEMMA SaveCeremonyHeld ==
    ASSUME IInv, TakenInv, NEW p \in Slots, SaveCeremony(p)
    PROVE  HeldMoves
<1> DEFINE n == req[p].id
<1>1. /\ req \in [Slots -> Request] /\ RequestInv(p) /\ req[p].pc = "save" /\ Busy(p)
      /\ ceremony \in [Ids -> Ceremony] /\ Answer(p) /\ UNCHANGED <<creds, revoked>>
  BY DEF IInv, TypeOK, SaveCeremony, At, Busy
<1>2. n \in Ids /\ ceremony[n].kind = "none"
  BY <1>1, AccountsAssumption DEF IInv, NumbersInv, TypeOK, RequestInv, OpAtPC
<1>3. \A c \in Ids \ {n} : ceremony'[c] = ceremony[c]
  BY <1>1 DEF SaveCeremony
<1>4. NobodyTakes
  BY <1>1 DEF Answer, NobodyTakes, HoldsPasskey, Idle
<1>5. Held' \subseteq Held
  BY <1>4 DEF Held, NobodyTakes
<1>6. ASSUME NEW k \in Ids, k \in revoked' \/ creds'[k] # 0
      PROVE  ceremony'[k].kind \in NewKey /\ ~ceremony'[k].stored
  BY <1>1, <1>2, <1>3, <1>6 DEF TakenInv, NewKey
<1>7. ASSUME NEW q \in Slots, HoldsPasskey(req'[q]), req'[q].pc # "delete"
      PROVE  ~ceremony'[req'[q].key].stored
  <2>1. HoldsPasskey(req[q]) /\ req'[q].key = req[q].key /\ req[q].pc # "delete"
    BY <1>4, <1>7 DEF NobodyTakes
  <2>2. req[q].key \in Ids \ {n}
    BY <1>2, <2>1, HeldIsMade DEF NewKey
  <2> QED
    BY <1>3, <2>1, <2>2 DEF TakenInv
<1> QED
  BY <1>5, <1>6, <1>7 DEF HeldMoves, TakenInv

\* The request that takes its ceremony goes on with the passkey it holds.
LEMMA DeleteCeremonyHeld ==
    ASSUME IInv, TakenInv, NEW p \in Slots, DeleteCeremony(p)
    PROVE  HeldMoves
<1>1. /\ req \in [Slots -> Request] /\ RequestInv(p) /\ req[p].pc = "delete"
      /\ ceremony \in [Ids -> Ceremony] /\ UNCHANGED <<creds, revoked>>
      /\ req[p].op \in Finishing /\ req[p].cer \in Ids
      /\ ceremony' = [ceremony EXCEPT ![req[p].cer].stored = FALSE]
  BY DEF IInv, TypeOK, DeleteCeremony, At, RequestInv, OpAtPC
<1>2. \A c \in Ids : /\ ceremony'[c].kind = ceremony[c].kind
                     /\ ceremony'[c].stored => ceremony[c].stored /\ c # req[p].cer
  BY <1>1 DEF Ceremony
<1>3. \A q \in Slots \ {p} : req'[q] = req[q]
  BY <1>1 DEF DeleteCeremony, Answer, Goto
<1>4. /\ \/ req'[p] = Idle
         \/ req'[p].op = req[p].op /\ req'[p].key = req[p].key
      /\ HoldsPasskey(req'[p]) => req[p].op \in NewKey
  <2>1. CASE Answer(p)
    BY <1>1, <2>1 DEF Answer, HoldsPasskey, Idle
  <2>2. ASSUME NEW pc \in {"count", "user"}, Goto(p, pc), pc = "count" => req[p].op = "register"
        PROVE  /\ req'[p].op = req[p].op /\ req'[p].key = req[p].key
               /\ HoldsPasskey(req'[p]) => req[p].op \in NewKey
    <3>1. req'[p] = [req[p] EXCEPT !.pc = pc]
      BY <1>1, <2>2 DEF Goto
    <3>2. req'[p].op = req[p].op /\ req'[p].key = req[p].key /\ req'[p].pc = pc
      BY <1>1, <3>1 DEF Request
    <3> QED
      BY <2>2, <3>2 DEF HoldsPasskey, NewKey
  <2> QED
    BY <2>1, <2>2 DEF DeleteCeremony
<1>5. ~HoldsPasskey(Idle)
  BY DEF HoldsPasskey, Idle
<1>6. HoldsPasskey(req'[p]) =>
          HoldsPasskey(req[p]) /\ req'[p].key = req[p].key /\ req[p].key = req[p].cer
  <2> SUFFICES ASSUME HoldsPasskey(req'[p])
               PROVE  HoldsPasskey(req[p]) /\ req'[p].key = req[p].key
                      /\ req[p].key = req[p].cer
    OBVIOUS
  <2>1. HoldsPasskey(req[p])
    BY <1>1, <1>4 DEF HoldsPasskey, NewKey
  <2> QED
    BY <1>4, <1>5, <2>1, HeldIsMade
<1>7. Held' \subseteq Held
  BY <1>3, <1>6 DEF Held
<1>8. ASSUME NEW k \in Ids, k \in revoked' \/ creds'[k] # 0
      PROVE  ceremony'[k].kind \in NewKey /\ ~ceremony'[k].stored
  BY <1>1, <1>2, <1>8 DEF TakenInv
<1>9. ASSUME NEW q \in Slots, HoldsPasskey(req'[q]), req'[q].pc # "delete"
      PROVE  ~ceremony'[req'[q].key].stored
  <2>1. CASE q = p
    BY <1>1, <1>2, <1>6, <1>9, <2>1
  <2>2. CASE q # p
    <3>1. req'[q] = req[q] /\ req[q].key \in Ids
      BY <1>3, <1>9, <2>2, HeldIsMade
    <3> QED
      BY <1>2, <1>9, <3>1 DEF TakenInv
  <2> QED
    BY <2>1, <2>2
<1> QED
  BY <1>7, <1>8, <1>9 DEF HeldMoves, TakenInv

\* The passkey stored is one whose ceremony was taken, and it is let go of.
LEMMA PutCredentialHeld ==
    ASSUME IInv, TakenInv, NEW p \in Slots, PutCredential(p)
    PROVE  HeldMoves
<1> DEFINE k == req[p].key
<1>1. /\ req \in [Slots -> Request] /\ RequestInv(p) /\ req[p].pc = "put"
      /\ creds \in [Ids -> OrZero] /\ UNCHANGED <<ceremony, revoked>>
      /\ creds' = [creds EXCEPT ![k] = IF @ = 0 THEN req[p].user ELSE @]
      /\ Answer(p) \/ Goto(p, "session")
  BY DEF IInv, TypeOK, PutCredential, At
<1>2. HoldsPasskey(req[p])
  BY <1>1 DEF HoldsPasskey, RequestInv, OpAtPC, Finishing
<1>3. k \in Ids /\ ceremony[k].kind \in NewKey /\ ~ceremony[k].stored
  BY <1>1, <1>2, HeldIsMade DEF TakenInv
<1>4. NobodyTakes
  <2>1. CASE Answer(p)
    BY <1>1, <2>1, OneTakesNone DEF Answer, HoldsPasskey, Idle
  <2>2. CASE Goto(p, "session")
    <3> DEFINE r == [req[p] EXCEPT !.pc = "session"]
    <3>1. req' = [req EXCEPT ![p] = r] /\ r.pc = "session"
      BY <1>1, <2>2 DEF Goto, Request
    <3> HIDE DEF r
    <3> QED
      BY <1>1, <3>1, OneTakesNone DEF HoldsPasskey
  <2> QED
    BY <1>1, <2>1, <2>2
<1>5. Held' \subseteq Held
  BY <1>4 DEF Held, NobodyTakes
<1>6. TakenInv'
  BY <1>1, <1>3, <1>4 DEF TakenInv, NobodyTakes
<1> QED
  BY <1>5, <1>6 DEF HeldMoves

\* A passkey revoked was stored.
LEMMA RevokeCommitHeld ==
    ASSUME IInv, TakenInv, NEW p \in Slots, RevokeCommit(p)
    PROVE  HeldMoves
<1>1. /\ req \in [Slots -> Request] /\ creds \in [Ids -> OrZero]
      /\ UNCHANGED ceremony /\ Answer(p)
      /\ \A l \in Ids : creds'[l] \in {0, creds[l]}
      /\ revoked' = revoked \union {l \in Ids : creds[l] # 0 /\ creds'[l] = 0}
  BY DEF IInv, TypeOK, RevokeCommit
<1>2. NobodyTakes
  BY <1>1 DEF Answer, NobodyTakes, HoldsPasskey, Idle
<1>3. Held' \subseteq Held
  BY <1>2 DEF Held, NobodyTakes
<1>4. TakenInv'
  BY <1>1, <1>2 DEF TakenInv, NobodyTakes
<1> QED
  BY <1>3, <1>4 DEF HeldMoves

\* Every step keeps TakenInv, and lets a request hold a passkey or lets go of some.
LEMMA HeldStep ==
    ASSUME IInv, TakenInv, [Next]_vars
    PROVE  HeldMoves
<1>1. ASSUME NEW p \in Slots, RequestStep(p) PROVE HeldMoves
  BY <1>1, QuietHeld, FindCeremonyHeld, LoadCredentialsHeld, SaveCeremonyHeld,
     DeleteCeremonyHeld, PutCredentialHeld, RevokeCommitHeld DEF RequestStep
<1> QED
  BY <1>1, AroundHeld DEF Next

\* What is stored at the start was answered for long ago, and nobody holds a passkey.
LEMMA HeldInit == Init => TakenInv /\ Held = {}
<1> SUFFICES ASSUME NEW n \in Enrolled, Installed(n) PROVE TakenInv /\ Held = {}
  BY DEF Init
<1>1. n \in 0..MaxRequests /\ MaxRequests \in Nat
  BY AccountsAssumption
<1>2. \A p \in Slots : ~HoldsPasskey(req[p])
  BY DEF Installed, Idle, HoldsPasskey
<1> QED
  BY <1>1, <1>2 DEF TakenInv, Held, Installed, NewKey

\* Every step keeps RingInv and changes what Keyring changes, or nothing.
LEMMA RingStep ==
    ASSUME IInv, RingInv, [Next]_vars
    PROVE  RingMoves
<1>1. ASSUME NEW p \in Slots, RequestStep(p) PROVE RingMoves
  BY <1>1, AuthenticateRing, ReadingRing, SaveCeremonyRing, DeleteCeremonyRing, InsertUserRing,
     PutCredentialRing, CreateSessionRing, RevokeCommitRing, LogoutRing DEF RequestStep
<1> QED
  BY <1>1, AroundRing DEF Next

\* A new installation and one with an account are states of Keyring.
LEMMA RingInit == Init => RingInv /\ Ring!Init
<1> SUFFICES ASSUME NEW n \in Enrolled, Installed(n) PROVE RingInv /\ Ring!Init
  BY DEF Init
<1>1. IInv
  BY InvariantInit DEF Init
<1>2. n \in 0..MaxRequests /\ MaxRequests \in Nat
  BY AccountsAssumption
<1>3. n # 0 => 1 \in Founded
  <2> SUFFICES ASSUME n # 0 PROVE 1 \in Founded
    OBVIOUS
  <2>1. users = <<1>>
    BY DEF Installed
  <2>2. 1 \in DOMAIN users /\ users[1] = 1
    BY <2>1
  <2> QED
    BY <2>2 DEF Founded
<1>4. RingInv
  BY <1>2, <1>3 DEF RingInv, Installed, Idle, Busy
<1>5. Founded \subseteq Ids
  <2>1. users \in Seq(Ids)
    BY <1>1 DEF IInv, TypeOK
  <2> HIDE DEF Ids
  <2> QED
    BY <2>1, ElementOfSeq, LenProperties DEF Founded
<1>6. {MadeFor, creds, session} \subseteq [Ids -> Ids \union {0}]
  <2>1. /\ ceremony \in [Ids -> Ceremony]
        /\ creds \in [Ids -> OrZero] /\ session \in [Ids -> OrZero]
    BY <1>1 DEF IInv, TypeOK
  <2>2. OrZero = Ids \union {0}
    BY <1>2
  <2>3. \A k \in Ids : ceremony[k].handle \in OrZero
    BY <2>1 DEF Ceremony
  <2> HIDE DEF Ids, OrZero
  <2> QED
    BY <2>1, <2>2, <2>3 DEF MadeFor
<1>7. Ring!Consistent
  <2>1. \A k \in Ids : creds[k] # 0 => creds[k] = MadeFor[k] /\ creds[k] \in Founded
    BY <1>1, <1>4 DEF IInv, PasskeysInv, NewKey, MadeFor, RingInv
  <2>2. \A s \in Ids : session[s] # 0 =>
                          session[s] \in Founded /\ PasskeysOf(session[s]) # {}
    BY <1>1, <1>4, SignedInIsFounded DEF IInv, SignedInHasPasskey
  <2> QED
    BY <2>1, <2>2 DEF Ring!Consistent, Ring!KeysOf, PasskeysOf
<1> QED
  BY <1>4, <1>5, <1>6, <1>7, HeldInit DEF Ring!Init, Init, Installed

\* Accounts implements Keyring: whatever ceremonies, repeated answers, revocations,
\* failures and restarts overlap, each statement changes at most one account, passkey or
\* session, as Keyring allows, for any numbers of them.
THEOREM AccountsKeepKeyring == Spec => KeepsKeyring
<1>1. ASSUME IInv, RingInv, TakenInv, [Next]_vars
      PROVE  IInv' /\ RingInv' /\ TakenInv' /\ [Ring!Next]_(Ring!vars)
  <2>1. IInv' /\ RingMoves /\ HeldMoves
    BY <1>1, InvariantStep, RingStep, HeldStep
  <2> QED
    BY <2>1 DEF RingMoves, HeldMoves, Ring!Next, Ring!keys, Ring!vars
<1>2. IInv /\ RingInv /\ TakenInv /\ [Next]_vars
        => IInv' /\ RingInv' /\ TakenInv' /\ [Ring!Next]_(Ring!vars)
  BY <1>1
<1> QED
  BY <1>2, InvariantInit, RingInit, HeldInit, PTL DEF Spec, KeepsKeyring, Ring!Spec
=============================================================================
