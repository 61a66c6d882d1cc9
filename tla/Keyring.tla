------------------------------- MODULE Keyring -------------------------------
(***************************************************************************)
(* What the accounts keep to: a passkey is made for one account and opens    *)
(* that one only; an account is never lost, nor its last passkey; a session  *)
(* begins with a passkey of its account; a passkey that was revoked is no     *)
(* request's any more, but for those that hold it already.  Ceremonies,      *)
(* repeated answers, requests cut short, restarts and expiries do nothing    *)
(* else to it.                                                              *)
(***************************************************************************)
CONSTANTS
    Ids,     \* of accounts, passkeys and sessions
    Nobody

VARIABLES
    accounts,  \* the accounts there are
    made,      \* whom each passkey was made for
    owner,     \* whom it opens the account of
    revoked,   \* the passkeys ever revoked
    session,   \* who is signed in with each session
    held       \* the passkeys a request under way may store

keys == <<accounts, made, owner, revoked, session>>
vars == <<accounts, made, owner, revoked, session, held>>

KeysOf(u) == {k \in Ids : owner[k] = u}

\* Passkeys open the accounts they were made for, and whoever is signed in has one.
Consistent ==
    /\ \A k \in Ids : owner[k] # Nobody => owner[k] = made[k] /\ made[k] \in accounts
    /\ \A s \in Ids : session[s] # Nobody =>
                        session[s] \in accounts /\ KeysOf(session[s]) # {}

Init ==
    /\ accounts \subseteq Ids
    /\ {made, owner, session} \subseteq [Ids -> Ids \union {Nobody}]
    /\ Consistent
    /\ revoked = {} /\ held = {}

\* A browser makes a passkey, for an account or to found one.
Make(k) ==
    /\ made[k] = Nobody
    /\ \E u \in accounts \union {k} : made' = [made EXCEPT ![k] = u]
    /\ UNCHANGED <<accounts, owner, revoked, session>>

Found(u) ==
    /\ u \notin accounts
    /\ made[u] = u
    /\ accounts' = accounts \union {u}
    /\ UNCHANGED <<made, owner, revoked, session>>

Store(k) ==
    /\ k \in held
    /\ owner[k] = Nobody
    /\ made[k] \in accounts
    /\ owner' = [owner EXCEPT ![k] = made[k]]
    /\ UNCHANGED <<accounts, made, revoked, session>>

Enrol(k) == k \notin revoked /\ Store(k)

\* A revoked passkey comes back, as dashboard-auth/spec.md says it does not: a request
\* that held it when it was revoked stores it (Accounts, RevokedStaysRevoked).
Return(k) == k \in revoked /\ Store(k)

\* Not the last one.
Revoke(k) ==
    /\ owner[k] # Nobody
    /\ KeysOf(owner[k]) # {k}
    /\ owner' = [owner EXCEPT ![k] = Nobody]
    /\ revoked' = revoked \union {k}
    /\ UNCHANGED <<accounts, made, session>>

SignIn(s) ==
    /\ session[s] = Nobody
    /\ \E u \in accounts : KeysOf(u) # {} /\ session' = [session EXCEPT ![s] = u]
    /\ UNCHANGED <<accounts, made, owner, revoked>>

SignOut(s) ==
    /\ session[s] # Nobody
    /\ session' = [session EXCEPT ![s] = Nobody]
    /\ UNCHANGED <<accounts, made, owner, revoked>>

Change ==
    \E i \in Ids :
        \/ Make(i) \/ Found(i) \/ Enrol(i) \/ Return(i) \/ Revoke(i)
        \/ SignIn(i) \/ SignOut(i)

\* A request is let store a passkey: one never revoked, or one that is enrolled.
Hold(k) ==
    /\ k \notin revoked \/ owner[k] # Nobody
    /\ held' = held \union {k}
    /\ UNCHANGED keys

\* Requests end, and let go of their passkeys, at any time.
Next ==
    \/ \E k \in Ids : Hold(k)
    \/ held' \subseteq held /\ (Change \/ UNCHANGED keys)

Spec == Init /\ [][Next]_vars
=============================================================================
