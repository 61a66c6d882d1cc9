------------------------------- MODULE Settings -------------------------------
(***************************************************************************)
(* The account's settings (internal/settings): one row of overrides, merged  *)
(* with the defaults when read.  A PATCH of some keys is validated as a        *)
(* whole, then read, merged and written in one transaction, which holds the    *)
(* database's only connection.                                              *)
(***************************************************************************)
EXTENDS Integers

CONSTANTS
    Keys,         \* the settings
    FilterKeys,   \* those "reset filters" clears
    Values,       \* what each key may be set to
    Editors       \* PATCH requests that may be in progress at once

ASSUME SettingsAssumption ==
    /\ FilterKeys \subseteq Keys
    /\ "absent" \notin Values /\ "invalid" \notin Values
    /\ "none" \notin Editors

VARIABLES
    overrides,  \* account_settings.data: a value for each key, or "default"
    patch,      \* each PATCH request's progress
    holder      \* whose transaction holds the connection; "none" when free

settingsVars == <<overrides, patch, holder>>

\* What a body says of a key: nothing, null, a value it may have, another one.
Update == {"absent", "default", "invalid"} \union Values
Overrides == [Keys -> Values \union {"default"}]
NoUpdate == [k \in Keys |-> "absent"]
IdlePatch == [pc |-> "idle", update |-> NoUpdate, read |-> [k \in Keys |-> "default"]]

SettingsInit ==
    /\ overrides = [k \in Keys |-> "default"]
    /\ patch = [e \in Editors |-> IdlePatch]
    /\ holder = "none"

\* Service.Update: one key with an unknown value rejects the whole request.
Valid(update) == \A k \in Keys : update[k] # "invalid"

\* Patch's merge: null deletes an override, an absent key keeps it.
Merged(stored, update) ==
    [k \in Keys |-> IF update[k] = "absent" THEN stored[k] ELSE update[k]]

\* A PATCH is taken by an editor that has none; which one makes no difference.
FreeEditor == CHOOSE e \in Editors : patch[e].pc = "idle"

SubmitPatch(e) ==
    /\ patch[e].pc = "idle" /\ e = FreeEditor
    /\ \E u \in [Keys -> Update] :
         /\ u # NoUpdate /\ Valid(u)
         /\ patch' = [patch EXCEPT ![e].pc = "begin", ![e].update = u]
    /\ UNCHANGED <<overrides, holder>>

\* ResetPipelinesFilters: null for each filter, whatever else is sent.
SubmitReset(e) ==
    /\ patch[e].pc = "idle" /\ e = FreeEditor
    /\ patch' = [patch EXCEPT ![e].pc = "begin",
                             ![e].update = [k \in Keys |-> IF k \in FilterKeys THEN "default" ELSE "absent"]]
    /\ UNCHANGED <<overrides, holder>>

\* A defect: read and written without a transaction.
BeginPatch_NoTransaction(e) ==
    /\ patch[e].pc = "begin"
    /\ patch' = [patch EXCEPT ![e].pc = "write", ![e].read = overrides]
    /\ UNCHANGED <<overrides, holder>>

\* BeginTx takes the connection; the stored overrides are read.
BeginPatch(e) ==
    /\ patch[e].pc = "begin"
    /\ holder = "none"
    /\ holder' = e
    /\ patch' = [patch EXCEPT ![e].pc = "write", ![e].read = overrides]
    /\ UNCHANGED overrides

\* The upsert of the merged overrides, and the commit.
CommitPatch(e) ==
    /\ patch[e].pc = "write"
    /\ overrides' = Merged(patch[e].read, patch[e].update)
    /\ patch' = [patch EXCEPT ![e] = IdlePatch]
    /\ holder' = "none"

\* A statement fails or the client goes away: the transaction is rolled back.
AbortPatch(e) ==
    /\ patch[e].pc # "idle"
    /\ patch' = [patch EXCEPT ![e] = IdlePatch]
    /\ holder' = IF holder = e THEN "none" ELSE holder
    /\ UNCHANGED overrides

SettingsStep(e) == BeginPatch(e) \/ CommitPatch(e) \/ AbortPatch(e)
=============================================================================
