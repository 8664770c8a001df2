----------------------------- MODULE VaultPage -----------------------------
(***************************************************************************)
(* The page of one vault in the web client (pages/VaultPage.tsx): the      *)
(* environment tabs, the filtered table of secrets and its check boxes,    *)
(* the reveal dialog with its countdown, the confirmation dialogs, and the *)
(* mutations the page sends.  The server is what the page's requests do to *)
(* it; other people change it too.  The page shows cached lists, which the *)
(* query library replaces by the server's whenever it refetches.           *)
(*                                                                         *)
(* Dialogs are modal (a backdrop covers the page and Tab stays inside), so *)
(* at most one is open, but a request outlives the dialog that sent it.    *)
(***************************************************************************)
EXTENDS Naturals, FiniteSets

CONSTANTS
    Vaults, Envs, Secrets, Names,
    VaultOf,        \* the vault of an environment
    NameOf,         \* the name of an environment, unique in a vault at any time
    HomeOf,         \* the environment of a secret
    Existing,       \* the environments and secrets there are when the page opens
    Shared,         \* those of all environments and secrets that other people change
    Filters,        \* the sets of secrets a text in the filter box can match
    Role,           \* the role of the user in these vaults
    Countdown,      \* seconds a revealed value stays, as the API answers (expiresIn)
    Slots,          \* requests in flight at a time
    Loops,          \* bulk deletions running at a time
    Beside,         \* the requests considered in flight together with a bulk deletion
    MaxFocus,       \* renders of the page caused by nothing else (window focus)
    None

ASSUME PageConstants ==
    /\ VaultOf \in [Envs -> Vaults] /\ NameOf \in [Envs -> Names]
    /\ HomeOf \in [Secrets -> Envs] /\ Envs \cap Secrets = {}
    /\ Existing \subseteq Envs \cup Secrets
    /\ \A s \in Secrets \cap Existing : HomeOf[s] \in Existing
    /\ Filters \subseteq SUBSET Secrets
    /\ Countdown \in Nat \ {0} /\ MaxFocus \in Nat /\ IsFiniteSet(Secrets)
    /\ None \notin Vaults \cup Envs \cup Secrets \cup Names \cup Nat

VARIABLES
    life,           \* server: "new", "live" or "gone" for environments and secrets
    vault,          \* the vault of the address (useParams)
    envCache,       \* cached environment list of each vault
    list,           \* cached secret list of each environment
    active,         \* activeEnv, a name
    filter,         \* the secrets that match the filter box
    selected,       \* selectedSecrets
    dialog,         \* the dialog on top: its kind and its secret
    typed,          \* text in the confirmation dialog
    shown,          \* revealedValue: the secret it is the value of
    left,           \* seconds before the value is hidden
    calls,          \* requests in flight
    loops,          \* handleBulkDelete loops in progress
    toast,          \* what the toast of a bulk deletion says when it comes up: the ids asked
                    \* for and those reported as not deleted
    focus,          \* window focus events since the reveal dialog opened
    moved,          \* history: the page went to another tab or vault while boxes were ticked,
                    \* because the user chose so or because an environment was made or deleted
                    \* here
    typedNow,       \* history: the user has typed in this confirmation dialog
    stray           \* history: another secret's reveal was in flight when the dialog opened

server == <<life>>
cache == <<envCache, list>>
revealing == <<shown, left, stray>>
texts == <<typed, typedNow>>
vars == <<life, vault, envCache, list, active, filter, selected, dialog, texts, shown, left,
          calls, loops, toast, focus, moved, typedNow, stray>>

------------------------------------------------------------------------------
(* Types and derived values *)

\* A dialog is about a secret or about the page.
SecretKinds == {"reveal", "delete", "edit"}
PageKinds == {"none", "bulk", "deleteEnv", "create", "createEnv"}
Dialogs == [kind : SecretKinds, of : Secrets] \cup [kind : PageKinds, of : {None}]
Closed == [kind |-> "none", of |-> None]

\* A request: what it is about and whether its own callbacks still run.  The query library
\* drops the callbacks given to mutate() when the same mutation is started again.
SecretOps == {"reveal", "delete", "update"}
EnvOps == {"deleteEnv", "create", "createEnv"}
Requests == [op : SecretOps, of : Secrets, cb : BOOLEAN]
              \cup [op : EnvOps, of : Envs, cb : BOOLEAN]
IdleCall == [op |-> "reveal", of |-> None, cb |-> FALSE]
Calls == Requests \cup {IdleCall}
NoToast == [asked |-> {}, failed |-> {}]
IdleLoop == [todo |-> {}, asked |-> {}, failed |-> {}]

\* ROLE_PERMISSIONS, the matrix the page shares with the API
Grants == [owner     |-> {"canWrite", "canReveal"},
           admin     |-> {"canWrite", "canReveal"},
           developer |-> {"canWrite"},
           oncall    |-> {"canReveal"},
           viewer    |-> {}]
Can(permission) == permission \in Grants[Role]

\* The step may leave the environment whose boxes are ticked.
MayMove == moved' = (moved \/ (selected # {} /\ <<vault', active'>> # <<vault, active>>))

Live(x) == life[x] = "live"
ServerEnvs(v) == {e \in Envs : Live(e) /\ VaultOf[e] = v}
ServerSecrets(e) == {s \in Secrets : Live(s) /\ HomeOf[s] = e}

Environments == envCache[vault]
CurrentIs(e) == e \in Environments /\ NameOf[e] = active
AllSecrets == UNION {list[e] : e \in {x \in Environments : NameOf[x] = active}}
VisibleSecrets == AllSecrets \cap filter
HasEnv == \E e \in Envs : CurrentIs(e)
Displayed == dialog.kind = "reveal" /\ shown # None
Idle(c) == calls[c] = IdleCall
IsOpen(kind) == dialog.kind = kind
NothingOpen == IsOpen("none")

\* Fault: the effect picks the first environment whenever the list changes.
AlwaysFirst(name, E) == IF E = {} THEN {name} ELSE {NameOf[e] : e \in E}

\* After any change of the list or of the tab, the effects of the page make sure that the
\* tab is one of the list; which environment is first is left open.
Settle(name, E) ==
    IF \E e \in E : NameOf[e] = name THEN {name}
    ELSE IF E = {} THEN {name} ELSE {NameOf[e] : e \in E}

\* Fault: the countdown starts at one second more.
StartOneLater == left' = IF Displayed' THEN Countdown + 1 ELSE 0

\* Rendering the page gives the reveal dialog a new onClose, and its effect starts the
\* countdown again from the beginning.
Rendered == left' = IF Displayed' THEN Countdown ELSE 0

\* Fault: the confirmation keeps the text of the time before.
KeepTyped == UNCHANGED typed

ClearTyped == typed' = None

\* The confirmation starts empty every time it opens.  Nobody sees or changes its text while
\* it is closed, so here the text is emptied when a dialog closes.
CloseAny == dialog' = Closed /\ ClearTyped /\ typedNow' = FALSE
KeepOpen == UNCHANGED <<dialog, texts>>
Close(kind) == IF IsOpen(kind) THEN CloseAny ELSE KeepOpen

WithoutCallbacks(op) ==
    [c \in Slots |-> IF calls[c].op = op THEN [calls[c] EXCEPT !.cb = FALSE] ELSE calls[c]]

\* Starting a mutation: the callbacks of an earlier one that still runs are dropped.
Send(op, x, cb) ==
    \E c \in Slots :
        /\ Idle(c)
        /\ op \in Beside \/ \A l \in Loops : loops[l] = IdleLoop
        /\ calls' = [WithoutCallbacks(op) EXCEPT ![c] = [op |-> op, of |-> x, cb |-> cb]]

------------------------------------------------------------------------------
(* The server seen by the page, other people, and refetches *)

\* An environment takes its secrets with it.
Gone(X) == life' = [x \in DOMAIN life |->
                      IF x \in X \/ (x \in Secrets /\ HomeOf[x] \in X) THEN "gone" ELSE life[x]]
Born(x) == life' = [life EXCEPT ![x] = "live"]

NameFree(e) == ~\E d \in ServerEnvs(VaultOf[e]) : NameOf[d] = NameOf[e]

\* Somebody else deletes a secret or an environment, or makes an environment again.
OthersChange ==
    /\ \/ \E x \in Shared : Live(x) /\ Gone({x})
       \/ \E e \in Shared \cap Envs : life[e] = "new" /\ NameFree(e) /\ Born(e)
    /\ UNCHANGED <<vault, cache, active, filter, selected, dialog, texts, revealing, calls,
                   loops, focus, moved>>

\* useEnvironments answers: mounted, window focus, or invalidated by a mutation.
RefetchEnvs ==
    /\ Environments # ServerEnvs(vault)
    /\ envCache' = [envCache EXCEPT ![vault] = ServerEnvs(vault)]
    /\ active' \in Settle(active, ServerEnvs(vault))
    /\ UNCHANGED <<server, vault, list, filter, selected, dialog, texts, shown, stray, calls,
                   loops, focus, moved>>
    /\ Rendered

\* useSecrets answers for the environment shown.
RefetchSecrets ==
    /\ \E e \in Envs :
         /\ CurrentIs(e)
         /\ list[e] # ServerSecrets(e)
         /\ list' = [list EXCEPT ![e] = ServerSecrets(e)]
    /\ UNCHANGED <<server, vault, envCache, active, filter, selected, dialog, texts, shown,
                   stray, calls, loops, focus, moved>>
    /\ Rendered

\* The window gets the focus: the vault is fetched again and the page rendered.
WindowFocus ==
    /\ Displayed /\ focus < MaxFocus
    /\ focus' = focus + 1
    /\ UNCHANGED <<server, vault, cache, active, filter, selected, dialog, texts, shown, stray,
                   calls, loops, moved>>
    /\ Rendered

------------------------------------------------------------------------------
(* Tabs, filter, search results and check boxes *)

PickTab(e) ==
    /\ NothingOpen /\ e \in Environments /\ NameOf[e] # active
    /\ active' = NameOf[e] /\ vault' = vault /\ MayMove
    /\ UNCHANGED <<server, cache, filter, selected, dialog, texts, revealing, calls, loops,
                   focus>>

TypeFilter(F) ==
    /\ NothingOpen /\ F # filter
    /\ filter' = F
    /\ UNCHANGED <<server, vault, cache, active, selected, dialog, texts, revealing, calls,
                   loops, focus, moved>>

\* The tab asked for by ?env= is taken if the list shown has it; otherwise it is dropped.
Follow(name, E) == IF \E e \in E : NameOf[e] = name THEN {name} ELSE Settle(active, E)

\* A search result of this or another vault.  The route is the same, so the page stays
\* mounted and keeps its state; the list of another vault is the cached one or fetched.
FollowResult(s, F) ==
    /\ NothingOpen /\ Live(s) /\ s \in F
    /\ vault' = VaultOf[HomeOf[s]]
    /\ \E E \in {envCache[vault'], ServerEnvs(vault')} :
         /\ E # {} /\ (vault' = vault => E = Environments)
         /\ envCache' = [envCache EXCEPT ![vault'] = E]
         /\ active' \in Follow(NameOf[HomeOf[s]], E)
    /\ filter' = F /\ MayMove
    /\ UNCHANGED <<server, list, selected, dialog, texts, revealing, calls, loops, focus>>

ToggleSecret(s) ==
    /\ NothingOpen /\ s \in VisibleSecrets
    /\ selected' = IF s \in selected THEN selected \ {s} ELSE selected \cup {s}
    /\ moved' = (moved /\ selected' # {})
    /\ UNCHANGED <<server, vault, cache, active, filter, dialog, texts, revealing, calls,
                   loops, focus>>

\* The box in the header compares sizes, and ticks what the filter lets through instead of
\* what was ticked before.
ToggleAll ==
    /\ NothingOpen /\ VisibleSecrets # {}
    /\ IF Cardinality(selected) = Cardinality(VisibleSecrets)
       THEN selected' = {} ELSE selected' = VisibleSecrets
    /\ moved' = FALSE
    /\ UNCHANGED <<server, vault, cache, active, filter, dialog, texts, revealing, calls,
                   loops, focus>>

------------------------------------------------------------------------------
(* Reveal dialog *)

\* Fault: a reveal dialog opens with the value of the one before.
KeepValue == UNCHANGED shown

DropValue == shown' = None

OpenReveal(s) ==
    /\ NothingOpen /\ Can("canReveal") /\ s \in VisibleSecrets
    /\ dialog' = [kind |-> "reveal", of |-> s]
    /\ DropValue
    /\ stray' = \E c \in Slots : calls[c].op = "reveal" /\ calls[c].of \notin {s, None}
    /\ UNCHANGED <<server, vault, cache, active, filter, selected, texts, left, calls, loops,
                   focus, moved>>

ClickReveal ==
    /\ IsOpen("reveal") /\ ~Displayed
    /\ Send("reveal", dialog.of, FALSE)
    /\ UNCHANGED <<server, vault, cache, active, filter, selected, dialog, texts, revealing,
                   loops, focus, moved>>

HideValue ==
    /\ dialog' = Closed /\ shown' = None /\ left' = 0 /\ stray' = FALSE /\ focus' = 0
    /\ toast' = NoToast
    /\ UNCHANGED <<server, vault, cache, active, filter, selected, texts, calls, loops, moved>>

CloseReveal == IsOpen("reveal") /\ HideValue

\* Fault: the countdown stops at zero without closing the dialog.
TickOnly ==
    /\ Displayed /\ left > 0
    /\ left' = left - 1 /\ toast' = NoToast
    /\ UNCHANGED <<server, vault, cache, active, filter, selected, dialog, texts, shown, stray,
                   calls, loops, focus, moved>>

Tick ==
    \/ Displayed /\ left <= 1 /\ HideValue
    \/ /\ Displayed /\ left > 1
       /\ left' = left - 1 /\ toast' = NoToast
       /\ UNCHANGED <<server, vault, cache, active, filter, selected, dialog, texts, shown,
                      stray, calls, loops, focus, moved>>

------------------------------------------------------------------------------
(* Confirmation dialogs: the user must type a text *)

OpenConfirm(kind, s) == dialog' = [kind |-> kind, of |-> s] /\ UNCHANGED texts

PageUnchanged == UNCHANGED <<server, vault, cache, active, filter, selected, revealing, calls,
                             loops, focus, moved>>

OpenDelete(s) ==
    /\ NothingOpen /\ Can("canWrite") /\ s \in VisibleSecrets
    /\ OpenConfirm("delete", s) /\ PageUnchanged

OpenBulkDelete ==
    /\ NothingOpen /\ Can("canWrite") /\ selected # {} /\ HasEnv
    /\ OpenConfirm("bulk", None) /\ PageUnchanged

OpenDeleteEnv ==
    /\ NothingOpen /\ Can("canWrite") /\ HasEnv
    /\ OpenConfirm("deleteEnv", None) /\ PageUnchanged

\* The text asked for: the key, the phrase with the number of secrets, or the tab's name
Wanted ==
    CASE IsOpen("delete")    -> dialog.of
      [] IsOpen("bulk")      -> Cardinality(selected)
      [] IsOpen("deleteEnv") -> active
      [] OTHER               -> None

TypeConfirmation ==
    /\ Wanted # None /\ typed # Wanted
    /\ typed' = Wanted /\ typedNow' = TRUE
    /\ UNCHANGED <<dialog>> /\ PageUnchanged

\* A secret that is no longer in the list has no key to type.
CanConfirm == typed = Wanted \/ (IsOpen("delete") /\ dialog.of \notin AllSecrets)

\* The Cancel buttons of every dialog but the reveal dialog
Cancel ==
    /\ ~NothingOpen /\ ~IsOpen("reveal")
    /\ CloseAny /\ PageUnchanged

ConfirmDelete ==
    /\ IsOpen("delete") /\ CanConfirm
    /\ Send("delete", dialog.of, TRUE)
    /\ UNCHANGED <<server, vault, cache, active, filter, selected, dialog, texts, revealing,
                   loops, focus, moved>>

ConfirmDeleteEnv ==
    /\ IsOpen("deleteEnv") /\ CanConfirm
    /\ \E e \in Envs : CurrentIs(e) /\ Send("deleteEnv", e, FALSE)
    /\ UNCHANGED <<server, vault, cache, active, filter, selected, dialog, texts, revealing,
                   loops, focus, moved>>

\* Starting the loop; the ids are those selected now.  It shares the mutation of the single
\* deletion, whose callbacks no longer run.
ConfirmBulkDelete ==
    /\ IsOpen("bulk") /\ CanConfirm
    /\ \A c \in Slots : Idle(c) \/ calls[c].op \in Beside
    /\ \E l \in Loops :
         /\ loops[l] = IdleLoop
         /\ loops' = [loops EXCEPT ![l] =
                        [todo |-> selected, asked |-> selected, failed |-> {}]]
    /\ calls' = WithoutCallbacks("delete")
    /\ UNCHANGED <<server, vault, cache, active, filter, selected, dialog, texts, revealing,
                   focus, moved>>

------------------------------------------------------------------------------
(* The forms for secrets and environments *)

Open(kind, s) == dialog' = [kind |-> kind, of |-> s] /\ UNCHANGED texts /\ PageUnchanged

OpenCreate == NothingOpen /\ Can("canWrite") /\ HasEnv /\ Open("create", None)
OpenEdit(s) == NothingOpen /\ Can("canWrite") /\ s \in VisibleSecrets /\ Open("edit", s)
OpenCreateEnv == NothingOpen /\ Can("canWrite") /\ Open("createEnv", None)

OnlyCalls == UNCHANGED <<server, vault, cache, active, filter, selected, dialog, texts,
                         revealing, loops, focus, moved>>

\* onSave sends the environment of the tab shown at that moment.
SaveNewSecret ==
    IsOpen("create") /\ (\E e \in Envs : CurrentIs(e) /\ Send("create", e, TRUE)) /\ OnlyCalls

SaveEdit == IsOpen("edit") /\ HasEnv /\ Send("update", dialog.of, TRUE) /\ OnlyCalls

\* The form refuses a name the cached list already has.
SaveNewEnv(e) ==
    /\ IsOpen("createEnv") /\ life[e] = "new" /\ VaultOf[e] = vault
    /\ ~\E d \in Environments : NameOf[d] = NameOf[e]
    /\ Send("createEnv", e, TRUE)
    /\ OnlyCalls

------------------------------------------------------------------------------
(* Answers: the server acts on the request and the page on its answer.  A request can fail  *)
(* for any reason; the page cannot tell why.                                                *)

Done(c) == calls' = [calls EXCEPT ![c] = IdleCall]
Pending(c, op) == ~Idle(c) /\ calls[c].op = op
Kept == <<vault, cache, filter, selected, stray, loops, focus>>
PageState == <<Kept, moved>>

RevealAnswered(c) ==
    /\ Pending(c, "reveal") /\ Done(c)
    /\ \/ Live(calls[c].of) /\ shown' = calls[c].of
       \/ UNCHANGED shown
    /\ KeepOpen
    /\ UNCHANGED <<server, active, PageState>>
    /\ Rendered

DeleteAnswered(c) ==
    /\ Pending(c, "delete") /\ Done(c)
    /\ \/ Live(calls[c].of) /\ Gone({calls[c].of})
       \/ UNCHANGED life
    /\ IF calls[c].cb THEN Close("delete") ELSE KeepOpen
    /\ UNCHANGED shown
    /\ UNCHANGED <<active, PageState>>
    /\ Rendered

\* On success the tab is reset, and the effects pick the first of the cached list.
DeleteEnvAnswered(c) ==
    /\ Pending(c, "deleteEnv") /\ Done(c)
    /\ \/ Live(calls[c].of) /\ Gone({calls[c].of}) /\ active' \in Settle(None, Environments)
       \/ UNCHANGED <<life, active>>
    /\ Close("deleteEnv")
    /\ UNCHANGED <<shown, Kept>> /\ MayMove
    /\ Rendered

CreateAnswered(c) ==
    /\ Pending(c, "create") /\ Done(c)
    /\ \/ /\ Live(calls[c].of)
          /\ \E s \in Secrets : life[s] = "new" /\ HomeOf[s] = calls[c].of /\ Born(s)
          /\ IF calls[c].cb THEN Close("create") ELSE KeepOpen
       \/ KeepOpen /\ UNCHANGED life
    /\ UNCHANGED shown
    /\ UNCHANGED <<active, PageState>>
    /\ Rendered

UpdateAnswered(c) ==
    /\ Pending(c, "update") /\ Done(c)
    /\ \/ /\ Live(calls[c].of)
          /\ IF calls[c].cb THEN Close("edit") ELSE KeepOpen
       \/ KeepOpen
    /\ UNCHANGED shown
    /\ UNCHANGED <<server, active, PageState>>
    /\ Rendered

\* setActiveEnv(created.name) runs before the list with the new environment arrives, so the
\* effects may take it back.
CreateEnvAnswered(c) ==
    /\ Pending(c, "createEnv") /\ Done(c)
    /\ LET e == calls[c].of IN
         \/ /\ life[e] = "new" /\ NameFree(e) /\ Born(e)
            /\ IF calls[c].cb
               THEN Close("createEnv") /\ active' \in Settle(NameOf[e], Environments)
               ELSE KeepOpen /\ UNCHANGED active
         \/ KeepOpen /\ UNCHANGED <<life, active>>
    /\ UNCHANGED <<shown, Kept>> /\ MayMove
    /\ Rendered

\* Fault: a failure is not noted for the toast.
ForgetFailure(l, s) == loops[l].failed

NoteFailure(l, s) == loops[l].failed \cup {s}

\* One id of a bulk deletion is answered.  The next one is sent, with the mutation of the
\* single deletion; after the last one the dialog closes, the boxes are cleared and a toast
\* names the ids that were not deleted.
BulkStep(l, s) ==
    /\ s \in loops[l].todo
    /\ \E failed \in SUBSET loops[l].asked :
         /\ \/ Live(s) /\ Gone({s}) /\ failed = loops[l].failed
            \/ UNCHANGED life /\ failed = NoteFailure(l, s)
         /\ IF loops[l].todo = {s}
            THEN /\ loops' = [loops EXCEPT ![l] = IdleLoop]
                 /\ toast' = [asked |-> loops[l].asked, failed |-> failed]
                 /\ selected' = {} /\ moved' = FALSE /\ Close("bulk") /\ UNCHANGED calls
            ELSE /\ loops' = [loops EXCEPT ![l].todo = @ \ {s}, ![l].failed = failed]
                 /\ toast' = NoToast /\ KeepOpen /\ UNCHANGED <<selected, moved>>
                 /\ calls' = WithoutCallbacks("delete")
    /\ UNCHANGED shown
    /\ UNCHANGED <<vault, cache, active, filter, stray, focus>>
    /\ Rendered

------------------------------------------------------------------------------
Init ==
    /\ life = [x \in Secrets \cup Envs |-> IF x \in Existing THEN "live" ELSE "new"]
    /\ vault \in Vaults
    /\ envCache = [v \in Vaults |-> ServerEnvs(v)]
    /\ list = [e \in Envs |-> ServerSecrets(e)]
    /\ active \in Settle(None, ServerEnvs(vault))
    /\ filter \in Filters
    /\ selected = {} /\ dialog = Closed /\ typed = None /\ typedNow = FALSE
    /\ shown = None /\ left = 0 /\ stray = FALSE
    /\ calls = [c \in Slots |-> IdleCall]
    /\ loops = [l \in Loops |-> IdleLoop]
    /\ toast = NoToast
    /\ focus = 0 /\ moved = FALSE

TabBar == (\E e \in Envs : PickTab(e)) \/ OpenCreateEnv \/ OpenDeleteEnv
Toolbar == (\E F \in Filters : TypeFilter(F)) \/ OpenBulkDelete \/ OpenCreate
Table ==
    \/ ToggleAll
    \/ \E s \in Secrets : ToggleSecret(s) \/ OpenReveal(s) \/ OpenDelete(s) \/ OpenEdit(s)
DialogButtons ==
    \/ ClickReveal \/ CloseReveal
    \/ TypeConfirmation \/ Cancel
    \/ ConfirmDelete \/ ConfirmDeleteEnv \/ ConfirmBulkDelete
    \/ SaveNewSecret \/ SaveEdit \/ \E e \in Envs : SaveNewEnv(e)
UserStep ==
    \/ TabBar \/ Toolbar \/ Table \/ DialogButtons
    \/ \E F \in Filters, s \in Secrets : FollowResult(s, F)

Answered(c) ==
    \/ RevealAnswered(c) \/ DeleteAnswered(c) \/ DeleteEnvAnswered(c)
    \/ CreateAnswered(c) \/ UpdateAnswered(c) \/ CreateEnvAnswered(c)

Next ==
    \/ \E l \in Loops, s \in Secrets : BulkStep(l, s)
    \/ Tick
    \/ /\ \/ UserStep
          \/ \E c \in Slots : Answered(c)
          \/ OthersChange \/ RefetchEnvs \/ RefetchSecrets \/ WindowFocus
       /\ toast' = NoToast

\* The only fairness needed is that of the timer of the reveal dialog.
Spec == Init /\ [][Next]_vars /\ WF_vars(Tick)

------------------------------------------------------------------------------
(* Properties *)

\* Every variable has its type.
TypeOK ==
    /\ life \in [Secrets \cup Envs -> {"new", "live", "gone"}]
    /\ vault \in Vaults
    /\ envCache \in [Vaults -> SUBSET Envs] /\ list \in [Envs -> SUBSET Secrets]
    /\ active \in Names \cup {None} /\ filter \in Filters
    /\ selected \in SUBSET Secrets /\ moved \in BOOLEAN
    /\ dialog \in Dialogs
    /\ typed \in Secrets \cup Names \cup Nat \cup {None} /\ typedNow \in BOOLEAN
    /\ shown \in Secrets \cup {None} /\ left \in 0..Countdown /\ stray \in BOOLEAN
    /\ calls \in [Slots -> Calls]
    /\ loops \in [Loops -> [todo : SUBSET Secrets, asked : SUBSET Secrets,
                            failed : SUBSET Secrets]]
    /\ toast \in [asked : SUBSET Secrets, failed : SUBSET Secrets]
    /\ focus \in 0..MaxFocus

\* The value in the reveal dialog is that of the secret the dialog names, unless the reveal
\* of another secret was still on its way when the dialog opened: handleReveal stores the
\* answer whatever dialog is open by then.
RevealMatches == Displayed => (shown = dialog.of \/ stray)

\* A bulk deletion that starts is of the environment the page shows, which its dialog names:
\* no refetch, deletion by others or environment they make puts the page on another one under
\* the ticked boxes (an id whose secret is gone deletes nothing).  Boxes that stay ticked when
\* the page is moved here are the exception: they are deleted under another environment's name.
BulkFromItsEnvironment ==
    [][\A l \in Loops : loops[l] = IdleLoop /\ loops'[l] # IdleLoop =>
         moved \/ \A s \in loops'[l].todo : Live(s) => CurrentIs(HomeOf[s])]_vars

\* When the toast says which secrets of a bulk deletion were not deleted, all the others
\* asked for are gone, also when other people deleted some of them first.
BulkReportsFailures == {s \in toast.asked : Live(s)} \subseteq toast.failed

\* No deletion is sent unless the user typed the text asked for after that dialog opened; a
\* secret that has left the list meanwhile is the one exception (confirmText is undefined).
Deleting ==
    \/ \E c \in Slots : /\ calls[c] # calls'[c]
                        /\ calls'[c].op \in {"delete", "deleteEnv"} /\ calls'[c].of # None
                        /\ Idle(c)
    \/ \E l \in Loops : loops[l] = IdleLoop /\ loops'[l] # IdleLoop
ConfirmedByTyping ==
    [][Deleting => (typedNow \/ (IsOpen("delete") /\ dialog.of \notin AllSecrets))]_vars

\* A value on the screen does not stay there for ever, although every render starts its
\* countdown again.
ValueIsHidden == Displayed ~> ~Displayed
=============================================================================
