-------------------------- MODULE SecretForms --------------------------
(***************************************************************************)
(* The two dialogs that change one secret: the form to create or edit it   *)
(* (SecretFormDialog.tsx) and its history (SecretHistoryDialog.tsx), from  *)
(* which an earlier version is restored.                                   *)
(*                                                                         *)
(* A value is represented by the secret it was typed for: the form that    *)
(* was open, or NewSecret in the form that creates one.                    *)
(***************************************************************************)
EXTENDS Naturals, Sequences

CONSTANTS
    FormSecrets, NewSecret, Nothing,
    MaxVersions,    \* bound on the versions of two secrets
    Saves           \* the mutations a page can have in flight

ASSUME FormConstants ==
    /\ MaxVersions \in Nat \ {0} /\ Saves # {} /\ NewSecret # Nothing
    /\ {NewSecret, Nothing} \cap FormSecrets = {}

VARIABLES
    stored,         \* server: the values of each secret, oldest first; none if it does not exist
    known,          \* query cache: how many versions the page knows of
    form,           \* what the form is open for: a secret, NewSecret, or Nothing
    keyTyped,       \* a key name is in the box
    value,          \* the text of the value box, Nothing when it is blank
    saves,          \* create and update mutations in flight
    historyOf,      \* the secret whose history is open
    revealed,       \* the version shown and its value
    confirm,        \* the version whose Restore button asks for a second click
    lookup,         \* the version asked for by a reveal in flight
    restoring       \* the restore in flight

formState == <<form, keyTyped, value>>
historyState == <<historyOf, revealed, confirm, lookup>>
formVars == <<stored, known, formState, saves, historyState, restoring>>

Subjects == FormSecrets \cup {NewSecret}
Versions == 0..MaxVersions      \* 0: no version
\* latest: no later mutate() of the same hook dropped the callbacks of this one
SaveSet == [of : Subjects \cup {Nothing}, value : Subjects \cup {Nothing}, latest : BOOLEAN]
NoSave == [of |-> Nothing, value |-> Nothing, latest |-> FALSE]
Shown == [version : Versions, value : Subjects \cup {Nothing}]
NotShown == [version |-> 0, value |-> Nothing]
\* mine: the history dialog that sent it is still open
Restores == [of : FormSecrets \cup {Nothing}, version : Versions, mine : BOOLEAN]
NoRestore == [of |-> Nothing, version |-> 0, mine |-> FALSE]

Exists(s) == stored[s] # <<>>
Add(s, v) == stored' = [stored EXCEPT ![s] = Append(@, v)]
Room(s) ==
    /\ Len(stored[s]) < MaxVersions
    /\ \A t \in FormSecrets \ {s} : Len(stored[s]) + Len(stored[t]) < MaxVersions
NoDialog == form = Nothing /\ historyOf = Nothing

\* The page refetches its lists after each mutation and when the window is focused.
Refetch ==
    /\ known' = [s \in FormSecrets |-> Len(stored[s])] /\ known' # known
    /\ UNCHANGED <<stored, formState, saves, historyState, restoring>>

------------------------------------------------------------------------------
(* The form *)

\* Fault: the value stays in the form for the next secret.
KeepValue(s) == keyTyped' = (s \in FormSecrets) /\ UNCHANGED value

\* The effect that runs whenever the form opens, closes or is given another secret: the
\* key is filled in, the value never is.
ResetForms(s) == keyTyped' = (s \in FormSecrets) /\ value' = Nothing

OpenForm(s) ==
    /\ NoDialog
    /\ s = NewSecret \/ (s \in FormSecrets /\ known[s] > 0)
    /\ form' = s /\ ResetForms(s)
    /\ UNCHANGED <<stored, known, saves, historyState, restoring>>

CloseForm ==
    /\ form # Nothing /\ form' = Nothing
    /\ ResetForms(Nothing)
    /\ UNCHANGED <<stored, known, saves, historyState, restoring>>

TypeKey ==
    /\ form = NewSecret /\ keyTyped' = ~keyTyped
    /\ UNCHANGED <<stored, known, form, value, saves, historyState, restoring>>

TypeValue ==
    /\ form # Nothing
    /\ value' = IF value = Nothing THEN form ELSE Nothing
    /\ UNCHANGED <<stored, known, form, keyTyped, saves, historyState, restoring>>

FreeSave == CHOOSE c \in Saves : saves[c] = NoSave

\* A blank value is not sent when a secret is edited.  Nothing stops a second click: the
\* form does not wait for the answer.
SubmitForm(c) ==
    /\ form # Nothing /\ saves[c] = NoSave /\ c = FreeSave
    /\ form = NewSecret => keyTyped /\ value # Nothing
    /\ saves' = [d \in Saves |->
                   IF d = c THEN [of |-> form, value |-> value, latest |-> TRUE]
                   ELSE IF (saves[d].of = NewSecret) = (form = NewSecret)
                        THEN [saves[d] EXCEPT !.latest = FALSE] ELSE saves[d]]
    /\ UNCHANGED <<stored, known, formState, historyState, restoring>>

\* The row of a create is the value typed for the secret it makes.
Saved(c) ==
    LET r == saves[c]
    IN  \/ /\ r.of = NewSecret
           /\ \E s \in FormSecrets :
                ~Exists(s) /\ Room(s) /\ Add(s, IF r.value = NewSecret THEN s ELSE r.value)
        \/ /\ r.of \in FormSecrets
           /\ IF r.value = Nothing THEN UNCHANGED stored ELSE Room(r.of) /\ Add(r.of, r.value)

\* The answer closes whatever form of that kind is open by then.
SaveAnswered(c) ==
    /\ Saved(c)
    /\ IF saves[c].latest /\ form # Nothing /\ (form = NewSecret) = (saves[c].of = NewSecret)
       THEN form' = Nothing /\ ResetForms(Nothing) ELSE UNCHANGED formState
    /\ saves' = [saves EXCEPT ![c] = NoSave]
    /\ UNCHANGED <<known, historyState, restoring>>

\* Refused, or carried out and the answer lost; the form stays open.
SaveFailed(c) ==
    /\ saves[c] # NoSave
    /\ Saved(c) \/ UNCHANGED stored
    /\ saves' = [saves EXCEPT ![c] = NoSave]
    /\ UNCHANGED <<known, formState, historyState, restoring>>

------------------------------------------------------------------------------
(* The history *)

\* The dialog is mounted only while it is open: its state starts afresh.
FreshHistory == revealed' = NotShown /\ confirm' = 0 /\ lookup' = 0

OpenHistory(s) ==
    /\ NoDialog /\ known[s] > 0
    /\ historyOf' = s /\ FreshHistory
    /\ UNCHANGED <<stored, known, formState, saves, restoring>>

CloseHistory ==
    /\ historyOf # Nothing /\ historyOf' = Nothing
    /\ FreshHistory
    /\ restoring' = [restoring EXCEPT !.mine = FALSE]
    /\ UNCHANGED <<stored, known, formState, saves>>

\* Bound: one reveal and one restore in flight.
ClickVersion(n) ==
    /\ historyOf # Nothing /\ n \in 1..known[historyOf] /\ revealed.version # n
    /\ lookup = 0 /\ lookup' = n
    /\ UNCHANGED <<stored, known, formState, saves, historyOf, revealed, confirm, restoring>>

VersionAnswered ==
    /\ lookup # 0 /\ lookup' = 0
    /\ revealed' = [version |-> lookup, value |-> stored[historyOf][lookup]]
    /\ UNCHANGED <<stored, known, formState, saves, historyOf, confirm, restoring>>

VersionFailed ==
    /\ lookup # 0 /\ lookup' = 0
    /\ UNCHANGED <<stored, known, formState, saves, historyOf, revealed, confirm, restoring>>

HideVersion ==
    /\ revealed # NotShown /\ revealed' = NotShown
    /\ UNCHANGED <<stored, known, formState, saves, historyOf, confirm, lookup, restoring>>

\* The newest version known has no Restore button; the others ask for a second click.
ClickRestore(n) ==
    /\ historyOf # Nothing /\ n \in 1..(known[historyOf] - 1) /\ confirm # n
    /\ confirm' = n
    /\ UNCHANGED <<stored, known, formState, saves, historyOf, revealed, lookup, restoring>>

ConfirmRestore ==
    /\ confirm # 0 /\ confirm < known[historyOf] /\ restoring = NoRestore
    /\ restoring' = [of |-> historyOf, version |-> confirm, mine |-> TRUE]
    /\ UNCHANGED <<stored, known, formState, saves, historyState>>

\* The restored value becomes a new version; the confirmation goes away either way.
RestoreAnswered ==
    /\ restoring # NoRestore /\ Room(restoring.of)
    /\ Add(restoring.of, stored[restoring.of][restoring.version])
    /\ IF restoring.mine THEN revealed' = NotShown /\ confirm' = 0
       ELSE UNCHANGED <<revealed, confirm>>
    /\ restoring' = NoRestore
    /\ UNCHANGED <<known, formState, saves, historyOf, lookup>>

RestoreFailed ==
    /\ restoring # NoRestore /\ restoring' = NoRestore
    /\ confirm' = IF restoring.mine THEN 0 ELSE confirm
    /\ UNCHANGED <<stored, known, formState, saves, historyOf, revealed, lookup>>

------------------------------------------------------------------------------
FormInit ==
    /\ LET first == CHOOSE s \in FormSecrets : TRUE
       IN  /\ stored = [s \in FormSecrets |-> IF s = first THEN <<s>> ELSE <<>>]
           /\ known = [s \in FormSecrets |-> IF s = first THEN 1 ELSE 0]
    /\ form = Nothing /\ keyTyped = FALSE /\ value = Nothing
    /\ saves = [c \in Saves |-> NoSave]
    /\ historyOf = Nothing /\ revealed = NotShown /\ confirm = 0 /\ lookup = 0
    /\ restoring = NoRestore

FormNext ==
    \/ \E s \in Subjects : OpenForm(s)
    \/ \E s \in FormSecrets : OpenHistory(s)
    \/ \E c \in Saves : SubmitForm(c) \/ SaveAnswered(c) \/ SaveFailed(c)
    \/ \E n \in 1..MaxVersions : ClickVersion(n) \/ ClickRestore(n)
    \/ CloseForm \/ TypeKey \/ TypeValue \/ Refetch
    \/ CloseHistory \/ VersionAnswered \/ VersionFailed \/ HideVersion
    \/ ConfirmRestore \/ RestoreAnswered \/ RestoreFailed

FormSpec == FormInit /\ [][FormNext]_formVars

FormTypeOK ==
    /\ \A s \in FormSecrets : stored[s] \in Seq(Subjects) /\ Len(stored[s]) <= MaxVersions
    /\ known \in [FormSecrets -> Versions]
    /\ form \in Subjects \cup {Nothing} /\ keyTyped \in BOOLEAN
    /\ value \in Subjects \cup {Nothing} /\ saves \in [Saves -> SaveSet]
    /\ historyOf \in FormSecrets \cup {Nothing} /\ revealed \in Shown
    /\ confirm \in Versions /\ lookup \in Versions /\ restoring \in Restores

\* Every value stored for a secret was typed with the form open on that secret (or to create
\* it), and the history of a secret shows only values of its own: no text left in the form,
\* late answer or restore carries the value of one secret into another.
ValueTypedForSecret ==
    /\ \A s \in FormSecrets : \A i \in 1..Len(stored[s]) : stored[s][i] = s
    /\ revealed # NotShown => revealed.value = historyOf
=============================================================================
