-------------------------- MODULE VaultPageProofs --------------------------
(***************************************************************************)
(* Proofs about VaultPage, for any vaults, environments, secrets, filters, *)
(* role, countdown and numbers of requests in flight.                      *)
(***************************************************************************)
EXTENDS VaultPage, FiniteSetTheorems, TLAPS

(* The inductive invariant, part by part *)

\* While the reveal dialog is open and no reveal of another secret was in flight when it
\* opened, the value shown and every reveal in flight are of its secret.
RevealKnown ==
    (IsOpen("reveal") /\ ~stray) =>
        /\ shown \in {None, dialog.of}
        /\ \A c \in Slots : calls[c].op = "reveal" => calls[c].of \in {None, dialog.of}

\* A text in the confirmation dialog was typed in it.
TypedHere == typed # None => typedNow

PageInvariant == TypeOK /\ RevealKnown /\ TypedHere

------------------------------------------------------------------------------
(* What the operators that steps are made of do *)

\* A request without its callbacks is still a request.
LEMMA DroppedCallbacks == ASSUME NEW k \in Calls PROVE [k EXCEPT !.cb = FALSE] \in Calls
  <1>1. CASE k = IdleCall
    <2>1. \A r \in [op : {"reveal"}, of : {None}, cb : {FALSE}] :
            r = [op |-> r.op, of |-> r.of, cb |-> r.cb]
      OBVIOUS
    <2>2. [k EXCEPT !.cb = FALSE] \in [op : {"reveal"}, of : {None}, cb : {FALSE}]
      BY <1>1 DEF IdleCall
    <2>3. [k EXCEPT !.cb = FALSE] = IdleCall
      BY <2>1, <2>2 DEF IdleCall
    <2> QED BY <2>3 DEF Calls
  <1>2. CASE k \in [op : SecretOps, of : Secrets, cb : BOOLEAN]
    BY <1>2 DEF Calls, Requests
  <1>3. CASE k \in [op : EnvOps, of : Envs, cb : BOOLEAN]
    BY <1>3 DEF Calls, Requests
  <1> QED BY <1>1, <1>2, <1>3 DEF Calls, Requests

LEMMA WithoutCallbacksTyped ==
    ASSUME calls \in [Slots -> Calls], NEW op, calls' = WithoutCallbacks(op)
    PROVE  /\ calls' \in [Slots -> Calls]
           /\ \A c \in Slots : calls'[c].op = calls[c].op /\ calls'[c].of = calls[c].of
  <1>1. ASSUME NEW c \in Slots
        PROVE  calls'[c] \in {calls[c], [calls[c] EXCEPT !.cb = FALSE]}
    BY DEF WithoutCallbacks
  <1>2. ASSUME NEW c \in Slots PROVE [calls[c] EXCEPT !.cb = FALSE] \in Calls
    BY DroppedCallbacks
  <1>3. calls' \in [Slots -> Calls]
    BY <1>2 DEF WithoutCallbacks
  <1>4. ASSUME NEW c \in Slots
        PROVE  calls'[c].op = calls[c].op /\ calls'[c].of = calls[c].of
    BY <1>1 DEF Calls, Requests, IdleCall
  <1> QED BY <1>3, <1>4

\* Sending a request fills one free slot and changes the others only in whether their
\* callbacks run.
LEMMA SendFillsSlot ==
    ASSUME calls \in [Slots -> Calls], NEW op, NEW x, NEW cb \in BOOLEAN,
           [op |-> op, of |-> x, cb |-> cb] \in Requests, Send(op, x, cb)
    PROVE  /\ calls' \in [Slots -> Calls]
           /\ \A d \in Slots : \/ calls'[d].op = op /\ calls'[d].of = x
                               \/ calls'[d].op = calls[d].op /\ calls'[d].of = calls[d].of
  <1>1. PICK c \in Slots :
          calls' = [d \in Slots |->
             IF d = c THEN [op |-> op, of |-> x, cb |-> cb]
             ELSE IF calls[d].op = op THEN [calls[d] EXCEPT !.cb = FALSE] ELSE calls[d]]
    BY DEF Send, WithoutCallbacks
  <1>2. ASSUME NEW d \in Slots PROVE [calls[d] EXCEPT !.cb = FALSE] \in Calls
    BY DroppedCallbacks
  <1>3. [op |-> op, of |-> x, cb |-> cb] \in Calls
    BY DEF Calls
  <1>4. calls' \in [Slots -> Calls]
    BY <1>1, <1>2, <1>3
  <1>5. ASSUME NEW d \in Slots
        PROVE  \/ calls'[d].op = op /\ calls'[d].of = x
               \/ calls'[d].op = calls[d].op /\ calls'[d].of = calls[d].of
    BY <1>1 DEF Calls, Requests, IdleCall
  <1> QED BY <1>4, <1>5

\* An answer frees its slot and leaves the others alone.
LEMMA DoneFreesSlot ==
    ASSUME calls \in [Slots -> Calls], NEW c \in Slots, Done(c)
    PROVE  /\ calls' \in [Slots -> Calls]
           /\ \A d \in Slots : calls'[d] \in {calls[d], IdleCall}
  BY DEF Done, Calls

\* A request in flight is about a secret or an environment, as its kind says.
LEMMA PendingAbout ==
    ASSUME TypeOK, NEW c \in Slots, NEW op, Pending(c, op)
    PROVE  /\ op \in SecretOps => calls[c].of \in Secrets
           /\ op \in EnvOps => calls[c].of \in Envs
  BY DEF TypeOK, Pending, Idle, Calls, Requests, SecretOps, EnvOps

\* An answer closes a dialog with its text, or leaves both.
LEMMA CloseOrKeep ==
    ASSUME NEW kind, Close(kind) \/ KeepOpen
    PROVE  \/ dialog' = Closed /\ typed' = None /\ typedNow' = FALSE
           \/ UNCHANGED <<dialog, typed, typedNow>>
  BY DEF Close, KeepOpen, CloseAny, ClearTyped, texts

\* The countdown starts at Countdown or is off.
LEMMA RenderedCountdown == ASSUME Rendered PROVE left' \in 0..Countdown
  BY PageConstants DEF Rendered

\* The text a confirmation asks for is a key, a number or a name.
LEMMA WantedTyped == ASSUME TypeOK PROVE Wanted \in Secrets \cup Names \cup Nat \cup {None}
  <1>1. Cardinality(selected) \in Nat
    BY PageConstants, FS_Subset, FS_CardinalityType DEF TypeOK
  <1>2. IsOpen("delete") => dialog.of \in Secrets
    BY DEF TypeOK, IsOpen, Dialogs, SecretKinds, PageKinds
  <1> QED BY <1>1, <1>2 DEF Wanted, TypeOK

\* A tab that is settled is one of the list, or none.
LEMMA SettleTyped ==
    ASSUME NEW name \in Names \cup {None}, NEW E \in SUBSET Envs
    PROVE  Settle(name, E) \subseteq Names \cup {None}
  BY PageConstants DEF Settle

\* What is deleted or made keeps the type of the server's state.
LEMMA LifeTyped ==
    ASSUME TypeOK, NEW x, Gone({x}) \/ Born(x) \/ UNCHANGED life
    PROVE  life' \in [Secrets \cup Envs -> {"new", "live", "gone"}]
  BY DEF TypeOK, Gone, Born

LEMMA MoveTyped == ASSUME TypeOK, MayMove PROVE moved' \in BOOLEAN
  <1>1. moved \in BOOLEAN
    BY DEF TypeOK
  <1> QED BY <1>1, Zenon DEF MayMove

\* What every answer does
LEMMA AnswerTyped ==
    ASSUME TypeOK, NEW c \in Slots, Done(c), NEW kind, Close(kind) \/ KeepOpen, Rendered
    PROVE  /\ calls' \in [Slots -> Calls] /\ left' \in 0..Countdown
           /\ dialog' \in Dialogs
           /\ typed' \in Secrets \cup Names \cup Nat \cup {None} /\ typedNow' \in BOOLEAN
  <1>1. calls' \in [Slots -> Calls] /\ left' \in 0..Countdown
    BY DoneFreesSlot, RenderedCountdown DEF TypeOK
  <1>2. Closed \in Dialogs
    BY DEF Closed, Dialogs, PageKinds
  <1>3. /\ dialog' \in Dialogs
        /\ typed' \in Secrets \cup Names \cup Nat \cup {None} /\ typedNow' \in BOOLEAN
    BY <1>2, CloseOrKeep DEF TypeOK
  <1> QED BY <1>1, <1>3

------------------------------------------------------------------------------
(* Types: the steps with more than a few changes *)

LEMMA ClickRevealTypes ==
    ASSUME TypeOK, toast' = NoToast, ClickReveal PROVE TypeOK'
  <1>1. Send("reveal", dialog.of, FALSE)
    BY DEF ClickReveal
  <1>2. [op |-> "reveal", of |-> dialog.of, cb |-> FALSE] \in Requests
    BY DEF ClickReveal, TypeOK, IsOpen, Dialogs, SecretKinds, PageKinds, Requests, SecretOps
  <1>3. calls' \in [Slots -> Calls]
    BY <1>1, <1>2, SendFillsSlot DEF TypeOK
  <1> QED BY <1>3 DEF TypeOK, ClickReveal, NoToast, server, cache, texts, revealing

LEMMA ConfirmDeleteTypes ==
    ASSUME TypeOK, toast' = NoToast, ConfirmDelete PROVE TypeOK'
  <1>1. Send("delete", dialog.of, TRUE)
    BY DEF ConfirmDelete
  <1>2. [op |-> "delete", of |-> dialog.of, cb |-> TRUE] \in Requests
    BY DEF ConfirmDelete, TypeOK, IsOpen, Dialogs, SecretKinds, PageKinds, Requests,
         SecretOps
  <1>3. calls' \in [Slots -> Calls]
    BY <1>1, <1>2, SendFillsSlot DEF TypeOK
  <1> QED BY <1>3 DEF TypeOK, ConfirmDelete, NoToast, server, cache, texts, revealing

LEMMA ConfirmDeleteEnvTypes ==
    ASSUME TypeOK, toast' = NoToast, ConfirmDeleteEnv PROVE TypeOK'
  <1>1. PICK e \in Envs : Send("deleteEnv", e, FALSE)
    BY DEF ConfirmDeleteEnv
  <1>2. [op |-> "deleteEnv", of |-> e, cb |-> FALSE] \in Requests
    BY DEF Requests, EnvOps
  <1>3. calls' \in [Slots -> Calls]
    BY <1>1, <1>2, SendFillsSlot DEF TypeOK
  <1> QED BY <1>3 DEF TypeOK, ConfirmDeleteEnv, NoToast, server, cache, texts, revealing

LEMMA SaveNewSecretTypes ==
    ASSUME TypeOK, toast' = NoToast, SaveNewSecret PROVE TypeOK'
  <1>1. PICK e \in Envs : Send("create", e, TRUE)
    BY DEF SaveNewSecret
  <1>2. [op |-> "create", of |-> e, cb |-> TRUE] \in Requests
    BY DEF Requests, EnvOps
  <1>3. calls' \in [Slots -> Calls]
    BY <1>1, <1>2, SendFillsSlot DEF TypeOK
  <1> QED BY <1>3 DEF TypeOK, SaveNewSecret, NoToast, server, cache, texts, revealing, OnlyCalls

LEMMA SaveEditTypes ==
    ASSUME TypeOK, toast' = NoToast, SaveEdit PROVE TypeOK'
  <1>1. Send("update", dialog.of, TRUE)
    BY DEF SaveEdit
  <1>2. [op |-> "update", of |-> dialog.of, cb |-> TRUE] \in Requests
    BY DEF SaveEdit, TypeOK, IsOpen, Dialogs, SecretKinds, PageKinds, Requests, SecretOps
  <1>3. calls' \in [Slots -> Calls]
    BY <1>1, <1>2, SendFillsSlot DEF TypeOK
  <1> QED BY <1>3 DEF TypeOK, SaveEdit, NoToast, server, cache, texts, revealing, OnlyCalls

LEMMA SaveNewEnvTypes ==
    ASSUME TypeOK, toast' = NoToast, NEW e \in Envs, SaveNewEnv(e) PROVE TypeOK'
  <1>1. Send("createEnv", e, TRUE)
    BY DEF SaveNewEnv
  <1>2. [op |-> "createEnv", of |-> e, cb |-> TRUE] \in Requests
    BY DEF Requests, EnvOps
  <1>3. calls' \in [Slots -> Calls]
    BY <1>1, <1>2, SendFillsSlot DEF TypeOK
  <1> QED BY <1>3 DEF TypeOK, SaveNewEnv, NoToast, server, cache, texts, revealing, OnlyCalls

LEMMA HideValueTypes == ASSUME TypeOK, HideValue PROVE TypeOK'
  <1>1. Closed \in Dialogs /\ 0 \in 0..Countdown /\ 0 \in 0..MaxFocus
    BY PageConstants DEF Closed, Dialogs, PageKinds
  <1> QED BY <1>1 DEF TypeOK, HideValue, NoToast, server, cache, texts

LEMMA TickTypes == ASSUME TypeOK, Tick PROVE TypeOK'
  <1>1. CASE HideValue
    BY <1>1, HideValueTypes
  <1>2. CASE left > 1 /\ left' = left - 1
    <2>1. left' \in 0..Countdown
      BY <1>2, PageConstants DEF TypeOK
    <2>2. /\ toast' = NoToast
          /\ UNCHANGED <<server, vault, cache, active, filter, selected, dialog, texts, shown,
                         stray, calls, loops, focus, moved>>
      BY <1>2 DEF Tick, HideValue
    <2> QED BY <2>1, <2>2 DEF TypeOK, NoToast, server, cache, texts
  <1> QED BY <1>1, <1>2 DEF Tick

LEMMA ConfirmBulkDeleteTypes ==
    ASSUME TypeOK, toast' = NoToast, ConfirmBulkDelete PROVE TypeOK'
  <1>1. calls' \in [Slots -> Calls]
    BY WithoutCallbacksTyped DEF TypeOK, ConfirmBulkDelete
  <1>2. loops' \in [Loops -> [todo : SUBSET Secrets, asked : SUBSET Secrets,
                              failed : SUBSET Secrets]]
    BY DEF TypeOK, ConfirmBulkDelete
  <1> QED BY <1>1, <1>2 DEF TypeOK, ConfirmBulkDelete, NoToast, server, cache, texts, revealing

LEMMA RevealAnsweredTypes ==
    ASSUME TypeOK, toast' = NoToast, NEW c \in Slots, RevealAnswered(c) PROVE TypeOK'
  <1>1. /\ calls' \in [Slots -> Calls] /\ left' \in 0..Countdown
        /\ dialog' \in Dialogs
        /\ typed' \in Secrets \cup Names \cup Nat \cup {None} /\ typedNow' \in BOOLEAN
    BY AnswerTyped DEF RevealAnswered
  <1>2. life' \in [Secrets \cup Envs -> {"new", "live", "gone"}]
    BY DEF RevealAnswered, TypeOK, server
  <1>3. active' \in Names \cup {None} /\ shown' \in Secrets \cup {None}
    BY PendingAbout DEF RevealAnswered, TypeOK, SecretOps
  <1> QED BY <1>1, <1>2, <1>3 DEF TypeOK, RevealAnswered, PageState, Kept, NoToast, cache

LEMMA DeleteAnsweredTypes ==
    ASSUME TypeOK, toast' = NoToast, NEW c \in Slots, DeleteAnswered(c) PROVE TypeOK'
  <1>1. /\ calls' \in [Slots -> Calls] /\ left' \in 0..Countdown
        /\ dialog' \in Dialogs
        /\ typed' \in Secrets \cup Names \cup Nat \cup {None} /\ typedNow' \in BOOLEAN
    BY AnswerTyped DEF DeleteAnswered
  <1>2. Gone({calls[c].of}) \/ Born(calls[c].of) \/ UNCHANGED life
    BY DEF DeleteAnswered
  <1>3. life' \in [Secrets \cup Envs -> {"new", "live", "gone"}]
    BY <1>2, LifeTyped
  <1>4. active' \in Names \cup {None} /\ shown' \in Secrets \cup {None}
    BY DEF DeleteAnswered, TypeOK
  <1> QED BY <1>1, <1>3, <1>4 DEF TypeOK, DeleteAnswered, PageState, Kept, NoToast, cache

LEMMA DeleteEnvAnsweredTypes ==
    ASSUME TypeOK, toast' = NoToast, NEW c \in Slots, DeleteEnvAnswered(c) PROVE TypeOK'
  <1>1. /\ calls' \in [Slots -> Calls] /\ left' \in 0..Countdown
        /\ dialog' \in Dialogs
        /\ typed' \in Secrets \cup Names \cup Nat \cup {None} /\ typedNow' \in BOOLEAN
    BY AnswerTyped DEF DeleteEnvAnswered
  <1>2. Gone({calls[c].of}) \/ Born(calls[c].of) \/ UNCHANGED life
    BY DEF DeleteEnvAnswered
  <1>3. life' \in [Secrets \cup Envs -> {"new", "live", "gone"}]
    BY <1>2, LifeTyped
  <1>4. active' \in Names \cup {None} /\ shown' \in Secrets \cup {None}
    <2>1. Environments \in SUBSET Envs
      BY DEF TypeOK, Environments
    <2> QED BY <2>1, SettleTyped DEF DeleteEnvAnswered, TypeOK
  <1> QED BY <1>1, <1>3, <1>4, MoveTyped DEF TypeOK, DeleteEnvAnswered, Kept, NoToast, cache

LEMMA CreateAnsweredTypes ==
    ASSUME TypeOK, toast' = NoToast, NEW c \in Slots, CreateAnswered(c) PROVE TypeOK'
  <1>1. /\ calls' \in [Slots -> Calls] /\ left' \in 0..Countdown
        /\ dialog' \in Dialogs
        /\ typed' \in Secrets \cup Names \cup Nat \cup {None} /\ typedNow' \in BOOLEAN
    BY AnswerTyped DEF CreateAnswered
  <1>2. UNCHANGED life \/ \E s \in Secrets : Born(s)
    BY DEF CreateAnswered
  <1>3. life' \in [Secrets \cup Envs -> {"new", "live", "gone"}]
    BY <1>2, LifeTyped
  <1>4. active' \in Names \cup {None} /\ shown' \in Secrets \cup {None}
    BY DEF CreateAnswered, TypeOK
  <1> QED BY <1>1, <1>3, <1>4 DEF TypeOK, CreateAnswered, PageState, Kept, NoToast, cache

LEMMA UpdateAnsweredTypes ==
    ASSUME TypeOK, toast' = NoToast, NEW c \in Slots, UpdateAnswered(c) PROVE TypeOK'
  <1>1. /\ calls' \in [Slots -> Calls] /\ left' \in 0..Countdown
        /\ dialog' \in Dialogs
        /\ typed' \in Secrets \cup Names \cup Nat \cup {None} /\ typedNow' \in BOOLEAN
    BY AnswerTyped DEF UpdateAnswered
  <1>2. life' \in [Secrets \cup Envs -> {"new", "live", "gone"}]
    BY DEF UpdateAnswered, TypeOK, server
  <1>3. active' \in Names \cup {None} /\ shown' \in Secrets \cup {None}
    BY DEF UpdateAnswered, TypeOK
  <1> QED BY <1>1, <1>2, <1>3 DEF TypeOK, UpdateAnswered, PageState, Kept, NoToast, cache

LEMMA CreateEnvAnsweredTypes ==
    ASSUME TypeOK, toast' = NoToast, NEW c \in Slots, CreateEnvAnswered(c) PROVE TypeOK'
  <1>1. /\ calls' \in [Slots -> Calls] /\ left' \in 0..Countdown
        /\ dialog' \in Dialogs
        /\ typed' \in Secrets \cup Names \cup Nat \cup {None} /\ typedNow' \in BOOLEAN
    BY AnswerTyped DEF CreateEnvAnswered
  <1>2. Gone({calls[c].of}) \/ Born(calls[c].of) \/ UNCHANGED life
    BY DEF CreateEnvAnswered
  <1>3. life' \in [Secrets \cup Envs -> {"new", "live", "gone"}]
    BY <1>2, LifeTyped
  <1>4. active' \in Names \cup {None} /\ shown' \in Secrets \cup {None}
    <2>1. Environments \in SUBSET Envs
      BY DEF TypeOK, Environments
    <2>2. NameOf[calls[c].of] \in Names
      BY PendingAbout, PageConstants DEF CreateEnvAnswered, EnvOps
    <2> QED BY <2>1, <2>2, SettleTyped DEF CreateEnvAnswered, TypeOK
  <1> QED BY <1>1, <1>3, <1>4, MoveTyped DEF TypeOK, CreateEnvAnswered, Kept, NoToast, cache

LEMMA FollowResultTypes ==
    ASSUME TypeOK, toast' = NoToast, NEW s \in Secrets, NEW F \in Filters, FollowResult(s, F)
    PROVE  TypeOK'
  <1>1. vault' \in Vaults
    BY PageConstants DEF FollowResult
  <1>2. PICK E \in {envCache[vault'], ServerEnvs(vault')} :
          /\ envCache' = [envCache EXCEPT ![vault'] = E]
          /\ active' \in Follow(NameOf[HomeOf[s]], E)
    BY DEF FollowResult
  <1>3. E \in SUBSET Envs
    BY <1>1 DEF TypeOK, ServerEnvs
  <1>4. active' \in Names \cup {None}
    <2>1. NameOf[HomeOf[s]] \in Names
      BY PageConstants
    <2> QED BY <1>2, <1>3, <2>1, SettleTyped DEF Follow, TypeOK
  <1>5. envCache' \in [Vaults -> SUBSET Envs]
    BY <1>1, <1>2, <1>3 DEF TypeOK
  <1>6. moved' \in BOOLEAN
    BY MoveTyped DEF FollowResult
  <1> QED BY <1>1, <1>4, <1>5, <1>6 DEF TypeOK, FollowResult, server, texts, revealing, NoToast

LEMMA BulkStepTypes ==
    ASSUME TypeOK, NEW l \in Loops, NEW s \in Secrets, BulkStep(l, s) PROVE TypeOK'
  <1> DEFINE Loop == [todo : SUBSET Secrets, asked : SUBSET Secrets, failed : SUBSET Secrets]
  <1>1. left' \in 0..Countdown
    BY RenderedCountdown DEF BulkStep
  <1>2. /\ dialog' \in Dialogs
        /\ typed' \in Secrets \cup Names \cup Nat \cup {None} /\ typedNow' \in BOOLEAN
    <2>1. Closed \in Dialogs
      BY DEF Closed, Dialogs, PageKinds
    <2> QED BY <2>1, CloseOrKeep DEF BulkStep, TypeOK
  <1>3. life' \in [Secrets \cup Envs -> {"new", "live", "gone"}]
    BY LifeTyped DEF BulkStep
  <1>4. PICK failed \in SUBSET loops[l].asked :
          IF loops[l].todo = {s}
            THEN /\ loops' = [loops EXCEPT ![l] = IdleLoop]
                 /\ toast' = [asked |-> loops[l].asked, failed |-> failed]
                 /\ selected' = {} /\ moved' = FALSE /\ UNCHANGED calls
            ELSE /\ loops' = [loops EXCEPT ![l].todo = @ \ {s}, ![l].failed = failed]
                 /\ toast' = NoToast /\ UNCHANGED <<selected, moved>>
                 /\ calls' = WithoutCallbacks("delete")
    BY DEF BulkStep
  <1>5. loops[l] \in Loop
    BY DEF TypeOK
  <1>6. IdleLoop \in Loop /\ [loops[l] EXCEPT !.todo = @ \ {s}, !.failed = failed] \in Loop
    BY <1>5 DEF IdleLoop
  <1>7. loops' \in [Loops -> Loop]
    BY <1>4, <1>6 DEF TypeOK
  <1>8. /\ toast' \in [asked : SUBSET Secrets, failed : SUBSET Secrets]
        /\ selected' \in SUBSET Secrets
    BY <1>4, <1>5 DEF TypeOK, NoToast
  <1>10. moved' \in BOOLEAN
    BY <1>4, Zenon DEF TypeOK
  <1>9. calls' \in [Slots -> Calls]
    BY <1>4, WithoutCallbacksTyped DEF TypeOK
  <1> QED BY <1>1, <1>2, <1>3, <1>7, <1>8, <1>9, <1>10 DEF TypeOK, BulkStep, cache

------------------------------------------------------------------------------
(* Every variable keeps its type *)

LEMMA InitTypes == Init => TypeOK
  <1> SUFFICES ASSUME Init PROVE TypeOK
    OBVIOUS
  <1>1. active \in Names \cup {None}
    <2>1. ServerEnvs(vault) \in SUBSET Envs
      BY DEF ServerEnvs
    <2> QED BY <2>1, SettleTyped DEF Init
  <1>2. calls \in [Slots -> Calls] /\ dialog \in Dialogs
    BY DEF Init, Calls, Closed, Dialogs, PageKinds
  <1>3. 0 \in 0..Countdown /\ 0 \in 0..MaxFocus
    BY PageConstants
  <1> QED BY <1>1, <1>2, <1>3 DEF Init, TypeOK, ServerEnvs, ServerSecrets, IdleLoop, NoToast

LEMMA TypesKept == ASSUME TypeOK, [Next]_vars PROVE TypeOK'
  <1>1. ASSUME OthersChange, toast' = NoToast
        PROVE  TypeOK'
    BY <1>1, PageConstants DEF TypeOK, OthersChange, Gone, Born, cache, texts, revealing,
         NoToast
  <1>2. ASSUME RefetchEnvs, toast' = NoToast
        PROVE  TypeOK'
    BY <1>2, RenderedCountdown, SettleTyped DEF TypeOK, RefetchEnvs, Environments,
         ServerEnvs, server, texts, NoToast
  <1>3. ASSUME RefetchSecrets, toast' = NoToast
        PROVE  TypeOK'
    BY <1>3, RenderedCountdown DEF TypeOK, RefetchSecrets, ServerSecrets, server, texts,
         NoToast
  <1>4. ASSUME WindowFocus, toast' = NoToast
        PROVE  TypeOK'
    BY <1>4, RenderedCountdown, PageConstants DEF TypeOK, WindowFocus, server, cache, texts,
         NoToast
  <1>5. ASSUME NEW e \in Envs, PickTab(e), toast' = NoToast
        PROVE  TypeOK'
    BY <1>5, MoveTyped, PageConstants DEF TypeOK, PickTab, Environments, server, cache, texts,
         revealing, NoToast
  <1>6. ASSUME NEW F \in Filters, TypeFilter(F), toast' = NoToast
        PROVE  TypeOK'
    BY <1>6 DEF TypeOK, TypeFilter, server, cache, texts, revealing, NoToast
  <1>7. ASSUME NEW s \in Secrets, NEW F \in Filters, FollowResult(s, F), toast' = NoToast
        PROVE  TypeOK'
    BY <1>7, FollowResultTypes
  <1>8. ASSUME NEW s \in Secrets, ToggleSecret(s), toast' = NoToast
        PROVE  TypeOK'
    <2>1. moved' \in BOOLEAN
      BY <1>8, Zenon DEF TypeOK, ToggleSecret
    <2> QED
      BY <1>8, <2>1 DEF TypeOK, ToggleSecret, VisibleSecrets, server, cache, texts, revealing,
         AllSecrets, Environments, NoToast
  <1>9. ASSUME ToggleAll, toast' = NoToast
        PROVE  TypeOK'
    <2>1. VisibleSecrets \in SUBSET Secrets
      BY DEF TypeOK, VisibleSecrets, AllSecrets, Environments
    <2>2. selected' \in SUBSET Secrets /\ moved' = FALSE
      BY <1>9, <2>1, Zenon DEF ToggleAll
    <2>3. moved' \in BOOLEAN
      BY <2>2
    <2> QED
      BY <1>9, <2>2, <2>3 DEF TypeOK, ToggleAll, server, cache, texts, revealing, NoToast
  <1>10. ASSUME NEW s \in Secrets, OpenReveal(s), toast' = NoToast
        PROVE  TypeOK'
    BY <1>10 DEF TypeOK, OpenReveal, VisibleSecrets, DropValue, server, cache, texts,
         AllSecrets, Environments, NoToast, Dialogs, SecretKinds, PageKinds, Closed
  <1>11. ASSUME ClickReveal, toast' = NoToast
        PROVE  TypeOK'
    BY <1>11, ClickRevealTypes
  <1>12. CASE CloseReveal
    BY <1>12, HideValueTypes DEF CloseReveal
  <1>13. CASE Tick
    BY <1>13, TickTypes
  <1>14. ASSUME NEW s \in Secrets, OpenDelete(s), toast' = NoToast
        PROVE  TypeOK'
    BY <1>14 DEF TypeOK, OpenDelete, VisibleSecrets, OpenConfirm, PageUnchanged, AllSecrets,
         texts, server, cache, revealing, Environments, NoToast, Dialogs, SecretKinds,
         PageKinds, Closed
  <1>15. ASSUME OpenBulkDelete, toast' = NoToast
        PROVE  TypeOK'
    BY <1>15 DEF TypeOK, OpenBulkDelete, OpenConfirm, PageUnchanged, texts, server, cache,
         revealing, NoToast, Dialogs, SecretKinds, PageKinds, Closed
  <1>16. ASSUME OpenDeleteEnv, toast' = NoToast
        PROVE  TypeOK'
    BY <1>16 DEF TypeOK, OpenDeleteEnv, OpenConfirm, PageUnchanged, texts, server, cache,
         revealing, NoToast, Dialogs, SecretKinds, PageKinds, Closed
  <1>17. ASSUME TypeConfirmation, toast' = NoToast
        PROVE  TypeOK'
    BY <1>17, WantedTyped DEF TypeOK, TypeConfirmation, PageUnchanged, server, cache,
         revealing, NoToast
  <1>18. ASSUME Cancel, toast' = NoToast
        PROVE  TypeOK'
    BY <1>18 DEF TypeOK, Cancel, PageUnchanged, server, cache, revealing, NoToast, Dialogs,
         SecretKinds, PageKinds, Closed, CloseAny, ClearTyped
  <1>19. ASSUME ConfirmDelete, toast' = NoToast
        PROVE  TypeOK'
    BY <1>19, ConfirmDeleteTypes
  <1>20. ASSUME ConfirmDeleteEnv, toast' = NoToast
        PROVE  TypeOK'
    BY <1>20, ConfirmDeleteEnvTypes
  <1>21. ASSUME ConfirmBulkDelete, toast' = NoToast
        PROVE  TypeOK'
    BY <1>21, ConfirmBulkDeleteTypes
  <1>22. ASSUME OpenCreate, toast' = NoToast
        PROVE  TypeOK'
    BY <1>22 DEF TypeOK, OpenCreate, Open, texts, PageUnchanged, server, cache, revealing,
         NoToast, Dialogs, SecretKinds, PageKinds, Closed
  <1>23. ASSUME NEW s \in Secrets, OpenEdit(s), toast' = NoToast
        PROVE  TypeOK'
    BY <1>23 DEF TypeOK, OpenEdit, VisibleSecrets, Open, AllSecrets, texts, PageUnchanged,
         Environments, server, cache, revealing, NoToast, Dialogs, SecretKinds, PageKinds,
         Closed
  <1>24. ASSUME OpenCreateEnv, toast' = NoToast
        PROVE  TypeOK'
    BY <1>24 DEF TypeOK, OpenCreateEnv, Open, texts, PageUnchanged, server, cache, revealing,
         NoToast, Dialogs, SecretKinds, PageKinds, Closed
  <1>25. ASSUME SaveNewSecret, toast' = NoToast
        PROVE  TypeOK'
    BY <1>25, SaveNewSecretTypes
  <1>26. ASSUME SaveEdit, toast' = NoToast
        PROVE  TypeOK'
    BY <1>26, SaveEditTypes
  <1>27. ASSUME NEW e \in Envs, SaveNewEnv(e), toast' = NoToast
        PROVE  TypeOK'
    BY <1>27, SaveNewEnvTypes
  <1>28. ASSUME NEW c \in Slots, RevealAnswered(c), toast' = NoToast
        PROVE  TypeOK'
    BY <1>28, RevealAnsweredTypes
  <1>29. ASSUME NEW c \in Slots, DeleteAnswered(c), toast' = NoToast
        PROVE  TypeOK'
    BY <1>29, DeleteAnsweredTypes
  <1>30. ASSUME NEW c \in Slots, DeleteEnvAnswered(c), toast' = NoToast
        PROVE  TypeOK'
    BY <1>30, DeleteEnvAnsweredTypes
  <1>31. ASSUME NEW c \in Slots, CreateAnswered(c), toast' = NoToast
        PROVE  TypeOK'
    BY <1>31, CreateAnsweredTypes
  <1>32. ASSUME NEW c \in Slots, UpdateAnswered(c), toast' = NoToast
        PROVE  TypeOK'
    BY <1>32, UpdateAnsweredTypes
  <1>33. ASSUME NEW c \in Slots, CreateEnvAnswered(c), toast' = NoToast
        PROVE  TypeOK'
    BY <1>33, CreateEnvAnsweredTypes
  <1>34. ASSUME NEW l \in Loops, NEW s \in Secrets, BulkStep(l, s)
        PROVE  TypeOK'
    BY <1>34, BulkStepTypes
  <1>35. CASE UNCHANGED vars
    BY <1>35 DEF TypeOK, vars, texts
  <1> QED BY <1>1, <1>2, <1>3, <1>4, <1>5, <1>6, <1>7, <1>8, <1>9, <1>10, <1>11, <1>12,
       <1>13, <1>14, <1>15, <1>16, <1>17, <1>18, <1>19, <1>20, <1>21, <1>22, <1>23, <1>24,
       <1>25, <1>26, <1>27, <1>28, <1>29, <1>30, <1>31, <1>32, <1>33, <1>34, <1>35 DEF Next,
       UserStep, TabBar, Toolbar, Table, DialogButtons, Answered

------------------------------------------------------------------------------
(* The text typed *)

LEMMA TypedKept == ASSUME TypedHere, [Next]_vars PROVE TypedHere'
  <1> DEFINE Same == typed' = typed /\ typedNow' = typedNow
             Emptied == typed' = None
  <1>1. TabBar \/ Toolbar => Same
    BY DEF TabBar, PickTab, OpenCreateEnv, OpenDeleteEnv, Toolbar, TypeFilter, OpenBulkDelete,
           OpenCreate, Open, OpenConfirm, texts
  <1>2. Table => Same
    BY DEF Table, ToggleAll, ToggleSecret, OpenReveal, OpenDelete, OpenEdit, Open, OpenConfirm,
           texts
  <1>3. DialogButtons => Same \/ typedNow' \/ Emptied
    BY DEF DialogButtons, ClickReveal, CloseReveal, HideValue, TypeConfirmation, Cancel,
           CloseAny, ClearTyped, ConfirmDelete, ConfirmDeleteEnv, ConfirmBulkDelete,
           SaveNewSecret, SaveEdit, SaveNewEnv, OnlyCalls, texts
  <1>4. ASSUME NEW kind, Close(kind) \/ KeepOpen PROVE Same \/ Emptied
    BY <1>4, CloseOrKeep
  <1>5. (\E c \in Slots : Answered(c)) => Same \/ Emptied
    BY <1>4 DEF Answered, RevealAnswered, DeleteAnswered, DeleteEnvAnswered, CreateAnswered,
           UpdateAnswered, CreateEnvAnswered
  <1>6. ASSUME NEW l \in Loops, NEW s \in Secrets, BulkStep(l, s) PROVE Same \/ Emptied
    BY <1>4, <1>6 DEF BulkStep
  <1>7. OthersChange \/ RefetchEnvs \/ RefetchSecrets \/ WindowFocus => Same
    BY DEF OthersChange, RefetchEnvs, RefetchSecrets, WindowFocus, texts
  <1>8. Tick => Same
    BY DEF Tick, HideValue, texts
  <1>9. ASSUME NEW F \in Filters, NEW s \in Secrets, FollowResult(s, F) PROVE Same
    BY <1>9 DEF FollowResult, texts
  <1>10. UNCHANGED vars => Same
    BY DEF vars, texts
  <1>11. Same \/ typedNow' \/ Emptied => TypedHere'
    BY DEF TypedHere
  <1> HIDE DEF Same, Emptied
  <1> QED BY <1>1, <1>2, <1>3, <1>5, <1>6, <1>7, <1>8, <1>9, <1>10, <1>11 DEF Next, UserStep

------------------------------------------------------------------------------
(* The value shown *)

\* An answer may change the value only to that of its own request.
LEMMA AnswerShows ==
    ASSUME TypeOK, RevealKnown, NEW c \in Slots, Done(c),
           NEW kind, Close(kind) \/ KeepOpen, UNCHANGED stray,
           shown' = shown \/ (calls[c].op = "reveal" /\ shown' = calls[c].of)
    PROVE  RevealKnown'
  <1> SUFFICES ASSUME IsOpen("reveal")', ~stray'
               PROVE  /\ shown' \in {None, dialog'.of}
                      /\ \A d \in Slots :
                           calls'[d].op = "reveal" => calls'[d].of \in {None, dialog'.of}
    BY DEF RevealKnown
  <1>1. IsOpen("reveal") /\ UNCHANGED dialog /\ ~stray
    <2>1. dialog' = Closed \/ UNCHANGED dialog
      BY CloseOrKeep
    <2> QED BY <2>1 DEF IsOpen, Closed
  <1>2. /\ shown \in {None, dialog.of}
        /\ \A d \in Slots : calls[d].op = "reveal" => calls[d].of \in {None, dialog.of}
    BY <1>1 DEF RevealKnown
  <1>3. \A d \in Slots : calls'[d] \in {calls[d], IdleCall}
    BY DoneFreesSlot DEF TypeOK
  <1>4. IdleCall.of = None
    BY DEF IdleCall
  <1> QED BY <1>1, <1>2, <1>3, <1>4

LEMMA RevealKept == ASSUME TypeOK, RevealKnown, [Next]_vars PROVE RevealKnown'
  <1>1. CASE OthersChange
    BY <1>1 DEF RevealKnown, IsOpen, OthersChange, cache, texts, revealing
  <1>2. CASE RefetchEnvs
    BY <1>2 DEF RevealKnown, IsOpen, RefetchEnvs, server, texts
  <1>3. CASE RefetchSecrets
    BY <1>3 DEF RevealKnown, IsOpen, RefetchSecrets, server, texts
  <1>4. CASE WindowFocus
    BY <1>4 DEF RevealKnown, IsOpen, WindowFocus, server, cache, texts
  <1>5. ASSUME NEW e \in Envs, PickTab(e) PROVE RevealKnown'
    BY <1>5 DEF RevealKnown, IsOpen, PickTab, server, cache, texts, revealing
  <1>6. ASSUME NEW F \in Filters, TypeFilter(F) PROVE RevealKnown'
    BY <1>6 DEF RevealKnown, IsOpen, TypeFilter, server, cache, texts, revealing
  <1>7. ASSUME NEW s \in Secrets, NEW F \in Filters, FollowResult(s, F) PROVE RevealKnown'
    BY <1>7 DEF RevealKnown, IsOpen, FollowResult, server, texts, revealing
  <1>8. ASSUME NEW s \in Secrets, ToggleSecret(s) PROVE RevealKnown'
    BY <1>8 DEF RevealKnown, IsOpen, ToggleSecret, server, cache, texts, revealing
  <1>9. CASE ToggleAll
    BY <1>9 DEF RevealKnown, IsOpen, ToggleAll, server, cache, texts, revealing
  <1>10. ASSUME NEW s \in Secrets, OpenReveal(s) PROVE RevealKnown'
    BY <1>10 DEF RevealKnown, IsOpen, OpenReveal, DropValue, server, cache, texts
  <1>11. CASE ClickReveal
    <2>1. /\ calls \in [Slots -> Calls]
          /\ [op |-> "reveal", of |-> dialog.of, cb |-> FALSE] \in Requests
      BY <1>11 DEF ClickReveal, TypeOK, IsOpen, Dialogs, SecretKinds, PageKinds, Requests, SecretOps
    <2>2. \A d \in Slots : \/ calls'[d].of = dialog.of
                           \/ calls'[d].op = calls[d].op /\ calls'[d].of = calls[d].of
      <3>1. Send("reveal", dialog.of, FALSE)
        BY <1>11 DEF ClickReveal
      <3>2. ASSUME NEW d \in Slots
            PROVE  \/ calls'[d].op = "reveal" /\ calls'[d].of = dialog.of
                   \/ calls'[d].op = calls[d].op /\ calls'[d].of = calls[d].of
        <4>1. FALSE \in BOOLEAN
          OBVIOUS
        <4> QED BY <2>1, <3>1, <4>1, SendFillsSlot
      <3> QED BY <3>2
    <2> QED BY <1>11, <2>2 DEF RevealKnown, IsOpen, ClickReveal, revealing
  <1>12. CASE CloseReveal
    BY <1>12 DEF RevealKnown, IsOpen, CloseReveal, HideValue, Closed
  <1>13. CASE Tick
    BY <1>13 DEF RevealKnown, IsOpen, Tick, HideValue, Closed
  <1>14. ASSUME NEW s \in Secrets, OpenDelete(s) PROVE RevealKnown'
    BY <1>14 DEF RevealKnown, IsOpen, OpenDelete, OpenConfirm, PageUnchanged, texts, server,
         cache, revealing
  <1>15. CASE OpenBulkDelete
    BY <1>15 DEF RevealKnown, IsOpen, OpenBulkDelete, OpenConfirm, PageUnchanged, texts,
         server, cache, revealing
  <1>16. CASE OpenDeleteEnv
    BY <1>16 DEF RevealKnown, IsOpen, OpenDeleteEnv, OpenConfirm, PageUnchanged, texts,
         server, cache, revealing
  <1>17. CASE TypeConfirmation
    BY <1>17 DEF RevealKnown, IsOpen, TypeConfirmation, PageUnchanged, server, cache,
         revealing
  <1>18. CASE Cancel
    BY <1>18 DEF RevealKnown, IsOpen, Cancel, CloseAny, Closed
  <1>19. CASE ConfirmDelete
    BY <1>19 DEF RevealKnown, IsOpen, ConfirmDelete, server, cache, texts, revealing
  <1>20. CASE ConfirmDeleteEnv
    BY <1>20 DEF RevealKnown, IsOpen, ConfirmDeleteEnv, server, cache, texts, revealing
  <1>21. CASE ConfirmBulkDelete
    <2>1. \A c \in Slots : calls'[c].op = calls[c].op /\ calls'[c].of = calls[c].of
      BY <1>21, WithoutCallbacksTyped DEF ConfirmBulkDelete, TypeOK
    <2> QED
      BY <1>21, <2>1 DEF RevealKnown, IsOpen, ConfirmBulkDelete, server, cache, texts, revealing
  <1>22. CASE OpenCreate
    BY <1>22 DEF RevealKnown, IsOpen, OpenCreate, Open, texts, PageUnchanged, server, cache,
         revealing
  <1>23. ASSUME NEW s \in Secrets, OpenEdit(s) PROVE RevealKnown'
    BY <1>23 DEF RevealKnown, IsOpen, OpenEdit, Open, texts, PageUnchanged, server, cache,
         revealing
  <1>24. CASE OpenCreateEnv
    BY <1>24 DEF RevealKnown, IsOpen, OpenCreateEnv, Open, texts, PageUnchanged, server,
         cache, revealing
  <1>25. CASE SaveNewSecret
    BY <1>25 DEF RevealKnown, IsOpen, SaveNewSecret, OnlyCalls, server, cache, texts,
         revealing
  <1>26. CASE SaveEdit
    BY <1>26 DEF RevealKnown, IsOpen, SaveEdit, OnlyCalls, server, cache, texts, revealing
  <1>27. ASSUME NEW e \in Envs, SaveNewEnv(e) PROVE RevealKnown'
    BY <1>27 DEF RevealKnown, IsOpen, SaveNewEnv, OnlyCalls, server, cache, texts, revealing
  <1>28. ASSUME NEW c \in Slots, RevealAnswered(c) PROVE RevealKnown'
    BY <1>28, AnswerShows DEF RevealAnswered, PageState, Kept, Pending
  <1>29. ASSUME NEW c \in Slots, DeleteAnswered(c) PROVE RevealKnown'
    BY <1>29, AnswerShows DEF DeleteAnswered, PageState, Kept
  <1>30. ASSUME NEW c \in Slots, DeleteEnvAnswered(c) PROVE RevealKnown'
    BY <1>30, AnswerShows DEF DeleteEnvAnswered, PageState, Kept
  <1>31. ASSUME NEW c \in Slots, CreateAnswered(c) PROVE RevealKnown'
    BY <1>31, AnswerShows DEF CreateAnswered, PageState, Kept
  <1>32. ASSUME NEW c \in Slots, UpdateAnswered(c) PROVE RevealKnown'
    BY <1>32, AnswerShows DEF UpdateAnswered, PageState, Kept
  <1>33. ASSUME NEW c \in Slots, CreateEnvAnswered(c) PROVE RevealKnown'
    BY <1>33, AnswerShows DEF CreateEnvAnswered, PageState, Kept
  <1>34. ASSUME NEW l \in Loops, NEW s \in Secrets, BulkStep(l, s) PROVE RevealKnown'
    <2>1. UNCHANGED <<shown, stray>>
      BY <1>34 DEF BulkStep
    <2>2. dialog' = Closed \/ UNCHANGED dialog
      BY <1>34, CloseOrKeep DEF BulkStep
    <2>3. \A c \in Slots : calls'[c].op = calls[c].op /\ calls'[c].of = calls[c].of
      BY <1>34, WithoutCallbacksTyped DEF BulkStep, TypeOK
    <2> QED BY <2>1, <2>2, <2>3 DEF RevealKnown, IsOpen, Closed
  <1>35. CASE UNCHANGED vars
    BY <1>35 DEF RevealKnown, IsOpen, vars, texts
  <1> QED BY <1>1, <1>2, <1>3, <1>4, <1>5, <1>6, <1>7, <1>8, <1>9, <1>10, <1>11, <1>12,
       <1>13, <1>14, <1>15, <1>16, <1>17, <1>18, <1>19, <1>20, <1>21, <1>22, <1>23, <1>24,
       <1>25, <1>26, <1>27, <1>28, <1>29, <1>30, <1>31, <1>32, <1>33, <1>34, <1>35 DEF Next,
       UserStep, TabBar, Toolbar, Table, DialogButtons, Answered

------------------------------------------------------------------------------
(* Bulk deletions and confirmations *)

\* Bulk deletions change only when one is confirmed or answered.
LEMMA LoopsChange ==
    ASSUME [Next]_vars
    PROVE  \/ ConfirmBulkDelete \/ UNCHANGED loops
           \/ \E l \in Loops, s \in Secrets : BulkStep(l, s)
  <1>1. TabBar \/ Toolbar => UNCHANGED loops
    BY DEF TabBar, PickTab, OpenCreateEnv, OpenDeleteEnv, Toolbar, TypeFilter, OpenBulkDelete,
           OpenCreate, Open, PageUnchanged
  <1>2. Table => UNCHANGED loops
    BY DEF Table, ToggleAll, ToggleSecret, OpenReveal, OpenDelete, OpenEdit, Open, PageUnchanged
  <1>3. DialogButtons => ConfirmBulkDelete \/ UNCHANGED loops
    BY DEF DialogButtons, ClickReveal, CloseReveal, HideValue, TypeConfirmation, Cancel,
           ConfirmDelete, ConfirmDeleteEnv, SaveNewSecret, SaveEdit, SaveNewEnv, OnlyCalls,
           PageUnchanged
  <1>4. (\E c \in Slots : Answered(c)) => UNCHANGED loops
    BY DEF Answered, RevealAnswered, DeleteAnswered, DeleteEnvAnswered, CreateAnswered,
           UpdateAnswered, CreateEnvAnswered, PageState, Kept
  <1>5. OthersChange \/ RefetchEnvs \/ RefetchSecrets \/ WindowFocus => UNCHANGED loops
    BY DEF OthersChange, RefetchEnvs, RefetchSecrets, WindowFocus
  <1>6. Tick => UNCHANGED loops
    BY DEF Tick, HideValue
  <1>7. ASSUME NEW F \in Filters, NEW s \in Secrets, FollowResult(s, F) PROVE UNCHANGED loops
    BY <1>7 DEF FollowResult
  <1>8. UNCHANGED vars => UNCHANGED loops
    BY DEF vars
  <1> QED
    BY <1>1, <1>2, <1>3, <1>4, <1>5, <1>6, <1>7, <1>8 DEF Next, UserStep

\* Requests in flight change only when one is sent or answered, or a bulk deletion is
\* confirmed.
LEMMA CallsChange ==
    ASSUME [Next]_vars
    PROVE  \/ UNCHANGED calls \/ ConfirmBulkDelete \/ ClickReveal
           \/ ConfirmDelete \/ ConfirmDeleteEnv
           \/ SaveNewSecret \/ SaveEdit \/ \E e \in Envs : SaveNewEnv(e)
           \/ \E c \in Slots : Done(c)
           \/ calls' = WithoutCallbacks("delete")
  <1>1. TabBar \/ Toolbar => UNCHANGED calls
    BY DEF TabBar, PickTab, OpenCreateEnv, OpenDeleteEnv, Toolbar, TypeFilter, OpenBulkDelete,
           OpenCreate, Open, PageUnchanged
  <1>2. Table => UNCHANGED calls
    BY DEF Table, ToggleAll, ToggleSecret, OpenReveal, OpenDelete, OpenEdit, Open, PageUnchanged
  <1>3. CloseReveal \/ TypeConfirmation \/ Cancel => UNCHANGED calls
    BY DEF CloseReveal, HideValue, TypeConfirmation, Cancel, PageUnchanged
  <1>4. (\E c \in Slots : Answered(c)) => \E c \in Slots : Done(c)
    BY DEF Answered, RevealAnswered, DeleteAnswered, DeleteEnvAnswered, CreateAnswered,
           UpdateAnswered, CreateEnvAnswered
  <1>5. OthersChange \/ RefetchEnvs \/ RefetchSecrets \/ WindowFocus => UNCHANGED calls
    BY DEF OthersChange, RefetchEnvs, RefetchSecrets, WindowFocus
  <1>6. Tick => UNCHANGED calls
    BY DEF Tick, HideValue
  <1>7. ASSUME NEW F \in Filters, NEW s \in Secrets, FollowResult(s, F) PROVE UNCHANGED calls
    BY <1>7 DEF FollowResult
  <1>8. ASSUME NEW l \in Loops, NEW s \in Secrets, BulkStep(l, s)
        PROVE  UNCHANGED calls \/ calls' = WithoutCallbacks("delete")
    BY <1>8 DEF BulkStep
  <1>9. UNCHANGED vars => UNCHANGED calls
    BY DEF vars
  <1> QED
    BY <1>1, <1>2, <1>3, <1>4, <1>5, <1>6, <1>7, <1>8, <1>9 DEF Next, UserStep, DialogButtons

\* A loop starts only when a bulk deletion is confirmed.
LEMMA BulkStarts ==
    ASSUME TypeOK, [Next]_vars, NEW l \in Loops, loops[l] = IdleLoop, loops'[l] # IdleLoop
    PROVE  ConfirmBulkDelete
  <1>1. loops \in [Loops -> [todo : SUBSET Secrets, asked : SUBSET Secrets,
                             failed : SUBSET Secrets]]
    BY DEF TypeOK
  <1>2. ASSUME NEW k \in Loops, NEW s \in Secrets PROVE ~BulkStep(k, s)
    <2> SUFFICES ASSUME BulkStep(k, s) PROVE FALSE
      OBVIOUS
    <2>1. k # l
      BY DEF BulkStep, IdleLoop
    <2>2. loops'[l] = loops[l]
      BY <1>1, <2>1 DEF BulkStep
    <2> QED BY <2>2
  <1> QED BY <1>2, LoopsChange

\* No step that is not a confirmation starts a deletion.
LEMMA OnlyConfirmationsDelete ==
    ASSUME PageInvariant, [Next]_vars, Deleting
    PROVE  ConfirmDelete \/ ConfirmDeleteEnv \/ ConfirmBulkDelete
  <1>1. ASSUME NEW c \in Slots, calls'[c].op \in {"delete", "deleteEnv"}, calls'[c].of # None,
               Idle(c), ~ConfirmBulkDelete
        PROVE  ConfirmDelete \/ ConfirmDeleteEnv
    <2>1. calls \in [Slots -> Calls] /\ calls[c] = IdleCall
      BY <1>1 DEF PageInvariant, TypeOK, Idle
    <2>2. calls[c].op = "reveal" /\ calls[c].of = None
      BY <2>1 DEF IdleCall
    <2>3. ASSUME NEW op, NEW x, NEW cb \in BOOLEAN, op \notin {"delete", "deleteEnv"},
                 [op |-> op, of |-> x, cb |-> cb] \in Requests
          PROVE  ~Send(op, x, cb)
      BY <1>1, <2>1, <2>2, <2>3, SendFillsSlot
    <2>4. dialog \in Dialogs
      BY DEF PageInvariant, TypeOK
    <2>5. ~ClickReveal
      <3> SUFFICES ASSUME ClickReveal PROVE FALSE
        OBVIOUS
      <3>1. [op |-> "reveal", of |-> dialog.of, cb |-> FALSE] \in Requests
        BY <2>4 DEF ClickReveal, IsOpen, Dialogs, SecretKinds, PageKinds, Requests, SecretOps
      <3> QED BY <2>3, <3>1 DEF ClickReveal
    <2>6. ~SaveEdit
      <3> SUFFICES ASSUME SaveEdit PROVE FALSE
        OBVIOUS
      <3>1. [op |-> "update", of |-> dialog.of, cb |-> TRUE] \in Requests
        BY <2>4 DEF SaveEdit, IsOpen, Dialogs, SecretKinds, PageKinds, Requests, SecretOps
      <3> QED BY <2>3, <3>1 DEF SaveEdit
    <2>7. ~SaveNewSecret /\ \A e \in Envs : ~SaveNewEnv(e)
      <3>1. ASSUME NEW e \in Envs
            PROVE  /\ [op |-> "create", of |-> e, cb |-> TRUE] \in Requests
                   /\ [op |-> "createEnv", of |-> e, cb |-> TRUE] \in Requests
        BY DEF Requests, EnvOps
      <3>2. ASSUME NEW e \in Envs PROVE ~Send("create", e, TRUE) /\ ~Send("createEnv", e, TRUE)
        BY <2>3, <3>1
      <3> QED BY <3>2 DEF SaveNewSecret, SaveNewEnv
    <2>8. \A d \in Slots : ~Done(d)
      BY <1>1, <2>1, <2>2, DoneFreesSlot
    <2>9. calls' # calls
      BY <1>1, <2>2
    <2>10. calls' # WithoutCallbacks("delete")
      BY <1>1, <2>1, <2>2, WithoutCallbacksTyped
    <2> QED BY <1>1, <2>5, <2>6, <2>7, <2>8, <2>9, <2>10, CallsChange
  <1>2. ASSUME NEW l \in Loops, loops[l] = IdleLoop, loops'[l] # IdleLoop
        PROVE  ConfirmBulkDelete
    BY <1>2, BulkStarts DEF PageInvariant
  <1> QED BY <1>1, <1>2 DEF Deleting

------------------------------------------------------------------------------
(* What a bulk deletion asked for *)

NoneNew(S) == \A s \in S : life[s] # "new"

\* The page knows only secrets that the server has or had.
PageKnows ==
    /\ \A e \in Envs : NoneNew(list[e])
    /\ NoneNew(selected)
    /\ \A l \in Loops : NoneNew(loops[l].asked)

\* Of the secrets a bulk deletion asks for, those that live are still to do or noted as failed.
LoopsAccount ==
    \A l \in Loops : {s \in loops[l].asked : Live(s)} \subseteq loops[l].todo \cup loops[l].failed

BulkInvariant == TypeOK /\ PageKnows /\ LoopsAccount /\ BulkReportsFailures

\* Environments and secrets go or come; a secret comes only to an environment that is there.
LEMMA LifeChange ==
    ASSUME TypeOK, [Next]_vars
    PROVE  \/ UNCHANGED life \/ (\E X : Gone(X))
           \/ \E e \in Envs : life[e] = "new" /\ Born(e)
           \/ \E s \in Secrets : life[s] = "new" /\ Live(HomeOf[s]) /\ Born(s)
  <1> DEFINE Moved == \/ UNCHANGED life \/ (\E X : Gone(X))
                      \/ \E e \in Envs : life[e] = "new" /\ Born(e)
                      \/ \E s \in Secrets : life[s] = "new" /\ Live(HomeOf[s]) /\ Born(s)
  <1>1. TabBar \/ Toolbar => UNCHANGED life
    BY DEF TabBar, PickTab, OpenCreateEnv, OpenDeleteEnv, Toolbar, TypeFilter, OpenBulkDelete,
           OpenCreate, Open, PageUnchanged, server
  <1>2. Table => UNCHANGED life
    BY DEF Table, ToggleAll, ToggleSecret, OpenReveal, OpenDelete, OpenEdit, Open, PageUnchanged,
           server
  <1>3. DialogButtons => UNCHANGED life
    BY DEF DialogButtons, ClickReveal, CloseReveal, HideValue, TypeConfirmation, Cancel,
           ConfirmDelete, ConfirmDeleteEnv, ConfirmBulkDelete, SaveNewSecret, SaveEdit,
           SaveNewEnv, OnlyCalls, PageUnchanged, server
  <1>4. ASSUME NEW c \in Slots, Answered(c) PROVE Moved
    <2>1. RevealAnswered(c) \/ UpdateAnswered(c) => Moved
      BY DEF RevealAnswered, UpdateAnswered, server
    <2>2. DeleteAnswered(c) \/ DeleteEnvAnswered(c) => Moved
      BY DEF DeleteAnswered, DeleteEnvAnswered
    <2>3. CreateAnswered(c) => Moved
      <3> SUFFICES ASSUME CreateAnswered(c) PROVE Moved
        OBVIOUS
      <3> QED BY Zenon DEF CreateAnswered
    <2>4. CreateEnvAnswered(c) => Moved
      BY PendingAbout DEF CreateEnvAnswered, EnvOps
    <2> QED BY <1>4, <2>1, <2>2, <2>3, <2>4 DEF Answered
  <1>5. OthersChange => Moved
    BY DEF OthersChange
  <1>6. RefetchEnvs \/ RefetchSecrets \/ WindowFocus \/ Tick => UNCHANGED life
    BY DEF RefetchEnvs, RefetchSecrets, WindowFocus, Tick, HideValue, server
  <1>7. ASSUME NEW F \in Filters, NEW r \in Secrets, FollowResult(r, F) PROVE UNCHANGED life
    BY <1>7 DEF FollowResult, server
  <1>8. ASSUME NEW l \in Loops, NEW r \in Secrets, BulkStep(l, r) PROVE Moved
    BY <1>8 DEF BulkStep
  <1>9. UNCHANGED vars => UNCHANGED life
    BY DEF vars, server
  <1>10. UNCHANGED life => Moved
    OBVIOUS
  <1> HIDE DEF Moved
  <1>11. Moved
    BY <1>1, <1>2, <1>3, <1>4, <1>5, <1>6, <1>7, <1>8, <1>9, <1>10 DEF Next, UserStep
  <1> QED BY <1>11 DEF Moved

\* A secret that is known does not become new or live again.
LEMMA KnownStays ==
    ASSUME TypeOK, [Next]_vars, NEW s \in Secrets, life[s] # "new"
    PROVE  life'[s] # "new" /\ (Live(s)' => Live(s))
  <1>1. life \in [Secrets \cup Envs -> {"new", "live", "gone"}]
    BY DEF TypeOK
  <1>2. ASSUME NEW X, Gone(X) PROVE life'[s] \in {"gone", life[s]}
    BY <1>1, <1>2 DEF Gone
  <1>3. ASSUME NEW x \in Secrets \cup Envs, life[x] = "new", Born(x) PROVE life'[s] = life[s]
    BY <1>1, <1>3 DEF Born
  <1> QED BY <1>2, <1>3, LifeChange DEF Live

\* The page learns of secrets only when a list is fetched, and of those the server has.
LEMMA ListChange ==
    ASSUME [Next]_vars
    PROVE  UNCHANGED list \/ RefetchSecrets
  <1>1. TabBar \/ Toolbar => UNCHANGED list
    BY DEF TabBar, PickTab, OpenCreateEnv, OpenDeleteEnv, Toolbar, TypeFilter, OpenBulkDelete,
           OpenCreate, Open, PageUnchanged, cache
  <1>2. Table => UNCHANGED list
    BY DEF Table, ToggleAll, ToggleSecret, OpenReveal, OpenDelete, OpenEdit, Open, PageUnchanged,
           cache
  <1>3. DialogButtons => UNCHANGED list
    BY DEF DialogButtons, ClickReveal, CloseReveal, HideValue, TypeConfirmation, Cancel,
           ConfirmDelete, ConfirmDeleteEnv, ConfirmBulkDelete, SaveNewSecret, SaveEdit,
           SaveNewEnv, OnlyCalls, PageUnchanged, cache
  <1>4. (\E c \in Slots : Answered(c)) => UNCHANGED list
    BY DEF Answered, RevealAnswered, DeleteAnswered, DeleteEnvAnswered, CreateAnswered,
           UpdateAnswered, CreateEnvAnswered, PageState, Kept, cache
  <1>5. OthersChange \/ RefetchEnvs \/ WindowFocus \/ Tick => UNCHANGED list
    BY DEF OthersChange, RefetchEnvs, WindowFocus, Tick, HideValue, cache
  <1>6. ASSUME NEW F \in Filters, NEW s \in Secrets, FollowResult(s, F) PROVE UNCHANGED list
    BY <1>6 DEF FollowResult
  <1>7. ASSUME NEW l \in Loops, NEW s \in Secrets, BulkStep(l, s) PROVE UNCHANGED list
    BY <1>7 DEF BulkStep, cache
  <1>8. UNCHANGED vars => UNCHANGED list
    BY DEF vars, cache
  <1> QED BY <1>1, <1>2, <1>3, <1>4, <1>5, <1>6, <1>7, <1>8 DEF Next, UserStep

\* The boxes ticked next are of secrets ticked before or shown.
LEMMA SelectedChange ==
    ASSUME TypeOK, [Next]_vars
    PROVE  selected' \subseteq selected \cup UNION {list[e] : e \in Envs}
  <1>0. VisibleSecrets \subseteq UNION {list[e] : e \in Envs}
    BY DEF VisibleSecrets, AllSecrets, Environments, TypeOK
  <1> DEFINE Known == selected' \subseteq selected \cup UNION {list[e] : e \in Envs}
  <1>1. ToggleAll \/ (\E s \in Secrets : ToggleSecret(s)) => Known
    BY <1>0 DEF ToggleAll, ToggleSecret
  <1>2. ASSUME NEW l \in Loops, NEW s \in Secrets, BulkStep(l, s) PROVE Known
    BY <1>2 DEF BulkStep
  <1>3. TabBar \/ Toolbar => UNCHANGED selected
    BY DEF TabBar, PickTab, OpenCreateEnv, OpenDeleteEnv, Toolbar, TypeFilter, OpenBulkDelete,
           OpenCreate, Open, PageUnchanged
  <1>4. (\E s \in Secrets : OpenReveal(s) \/ OpenDelete(s) \/ OpenEdit(s)) => UNCHANGED selected
    BY DEF OpenReveal, OpenDelete, OpenEdit, Open, PageUnchanged
  <1>5. DialogButtons => UNCHANGED selected
    BY DEF DialogButtons, ClickReveal, CloseReveal, HideValue, TypeConfirmation, Cancel,
           ConfirmDelete, ConfirmDeleteEnv, ConfirmBulkDelete, SaveNewSecret, SaveEdit,
           SaveNewEnv, OnlyCalls, PageUnchanged
  <1>6. (\E c \in Slots : Answered(c)) => UNCHANGED selected
    BY DEF Answered, RevealAnswered, DeleteAnswered, DeleteEnvAnswered, CreateAnswered,
           UpdateAnswered, CreateEnvAnswered, PageState, Kept
  <1>7. OthersChange \/ RefetchEnvs \/ RefetchSecrets \/ WindowFocus \/ Tick => UNCHANGED selected
    BY DEF OthersChange, RefetchEnvs, RefetchSecrets, WindowFocus, Tick, HideValue
  <1>8. ASSUME NEW F \in Filters, NEW s \in Secrets, FollowResult(s, F) PROVE UNCHANGED selected
    BY <1>8 DEF FollowResult
  <1>9. UNCHANGED vars => UNCHANGED selected
    BY DEF vars
  <1>10. UNCHANGED selected => Known
    OBVIOUS
  <1> HIDE DEF Known
  <1>11. Known
    BY <1>1, <1>2, <1>3, <1>4, <1>5, <1>6, <1>7, <1>8, <1>9, <1>10 DEF Next, UserStep, Table
  <1> QED BY <1>11 DEF Known

\* What a step of a bulk deletion does to the loops
LEMMA BulkStepLoops ==
    ASSUME TypeOK, NEW l \in Loops, NEW s \in Secrets, BulkStep(l, s)
    PROVE  \E failed \in SUBSET loops[l].asked :
             /\ \/ life'[s] = "gone" /\ failed = loops[l].failed
                \/ failed = loops[l].failed \cup {s}
             /\ \A k \in Loops \ {l} : loops'[k] = loops[k]
             /\ \/ loops'[l] = IdleLoop /\ toast' = [asked |-> loops[l].asked, failed |-> failed]
                   /\ loops[l].todo = {s}
                \/ /\ loops'[l] = [todo |-> loops[l].todo \ {s}, asked |-> loops[l].asked,
                                   failed |-> failed]
                   /\ toast' = NoToast
  <1>1. /\ loops \in [Loops -> [todo : SUBSET Secrets, asked : SUBSET Secrets,
                                failed : SUBSET Secrets]]
        /\ life \in [Secrets \cup Envs -> {"new", "live", "gone"}]
    BY DEF TypeOK
  <1>2. PICK failed \in SUBSET loops[l].asked :
          /\ \/ Live(s) /\ Gone({s}) /\ failed = loops[l].failed
             \/ UNCHANGED life /\ failed = NoteFailure(l, s)
          /\ IF loops[l].todo = {s}
             THEN /\ loops' = [loops EXCEPT ![l] = IdleLoop]
                  /\ toast' = [asked |-> loops[l].asked, failed |-> failed]
             ELSE /\ loops' = [loops EXCEPT ![l].todo = @ \ {s}, ![l].failed = failed]
                  /\ toast' = NoToast
    BY DEF BulkStep
  <1>3. \/ life'[s] = "gone" /\ failed = loops[l].failed
        \/ failed = loops[l].failed \cup {s}
    BY <1>1, <1>2 DEF Gone, NoteFailure
  <1>4. \A k \in Loops \ {l} : loops'[k] = loops[k]
    BY <1>1, <1>2
  <1>5. CASE loops[l].todo = {s}
    BY <1>1, <1>2, <1>3, <1>4, <1>5
  <1>6. CASE loops[l].todo # {s}
    <2>1. loops'[l] = [todo |-> loops[l].todo \ {s}, asked |-> loops[l].asked, failed |-> failed]
      BY <1>1, <1>2, <1>6
    <2> QED BY <1>2, <1>3, <1>4, <1>6, <2>1
  <1> QED BY <1>5, <1>6

\* Other steps than those of a bulk deletion take the toast down.
LEMMA ToastChange ==
    ASSUME [Next]_vars
    PROVE  \/ toast' = NoToast \/ UNCHANGED <<toast, life>>
           \/ \E l \in Loops, s \in Secrets : BulkStep(l, s)
  BY DEF Next, Tick, HideValue, vars, server

LEMMA BulkInit == Init => BulkInvariant
  <1> SUFFICES ASSUME Init PROVE BulkInvariant
    OBVIOUS
  <1>1. PageKnows
    BY DEF Init, PageKnows, NoneNew, ServerSecrets, Live, IdleLoop
  <1>2. LoopsAccount
    BY DEF Init, LoopsAccount, IdleLoop
  <1>3. BulkReportsFailures
    BY DEF Init, BulkReportsFailures, NoToast
  <1> QED BY <1>1, <1>2, <1>3, InitTypes DEF BulkInvariant

LEMMA BulkKept == ASSUME BulkInvariant, [Next]_vars PROVE BulkInvariant'
  <1>0. /\ TypeOK /\ PageKnows /\ LoopsAccount /\ BulkReportsFailures
        /\ loops \in [Loops -> [todo : SUBSET Secrets, asked : SUBSET Secrets,
                                failed : SUBSET Secrets]]
        /\ list \in [Envs -> SUBSET Secrets] /\ selected \in SUBSET Secrets
    BY DEF BulkInvariant, TypeOK
  <1>1. \A s \in Secrets : life[s] # "new" => life'[s] # "new" /\ (Live(s)' => Live(s))
    BY <1>0, KnownStays
  <1>2. \A e \in Envs : NoneNew(list[e])'
    <2>1. CASE UNCHANGED list
      BY <1>0, <1>1, <2>1 DEF PageKnows, NoneNew
    <2>2. CASE RefetchSecrets
      BY <1>0, <1>1, <2>2
      DEF RefetchSecrets, PageKnows, NoneNew, ServerSecrets, Live, server
    <2> QED BY <2>1, <2>2, ListChange
  <1>3. NoneNew(selected)'
    <2>1. \A s \in selected' : s \in Secrets /\ life[s] # "new"
      BY <1>0, SelectedChange DEF PageKnows, NoneNew
    <2> QED BY <1>1, <2>1 DEF NoneNew
  <1>4. (\A l \in Loops : NoneNew(loops[l].asked)') /\ LoopsAccount'
    <2>1. CASE UNCHANGED loops
      BY <1>0, <1>1, <2>1 DEF PageKnows, NoneNew, LoopsAccount
    <2>2. CASE ConfirmBulkDelete
      <3>1. PICK k \in Loops : loops' = [loops EXCEPT ![k] =
                        [todo |-> selected, asked |-> selected, failed |-> {}]]
        BY <2>2 DEF ConfirmBulkDelete
      <3>2. \A l \in Loops : \/ loops'[l] = loops[l]
                             \/ loops'[l].todo = selected /\ loops'[l].asked = selected
        BY <1>0, <3>1
      <3> QED BY <1>0, <1>1, <3>2 DEF PageKnows, NoneNew, LoopsAccount
    <2>3. ASSUME NEW l \in Loops, NEW s \in Secrets, BulkStep(l, s)
          PROVE  (\A k \in Loops : NoneNew(loops[k].asked)') /\ LoopsAccount'
      <3>1. PICK failed \in SUBSET loops[l].asked :
              /\ \/ life'[s] = "gone" /\ failed = loops[l].failed
                 \/ failed = loops[l].failed \cup {s}
              /\ \A k \in Loops \ {l} : loops'[k] = loops[k]
              /\ \/ loops'[l] = IdleLoop /\ toast' = [asked |-> loops[l].asked, failed |-> failed]
                    /\ loops[l].todo = {s}
                 \/ /\ loops'[l] = [todo |-> loops[l].todo \ {s}, asked |-> loops[l].asked,
                                    failed |-> failed]
                    /\ toast' = NoToast
        BY <1>0, <2>3, BulkStepLoops
      <3>2. \A k \in Loops : NoneNew(loops[k].asked)'
        BY <1>0, <1>1, <3>1 DEF PageKnows, NoneNew, IdleLoop
      <3>3. ASSUME NEW k \in Loops, NEW r \in loops'[k].asked, Live(r)'
            PROVE  r \in loops'[k].todo \cup loops'[k].failed
        <4>1. CASE k # l
          BY <1>0, <1>1, <3>1, <3>3, <4>1 DEF LoopsAccount, PageKnows, NoneNew
        <4>2. CASE k = l
          <5>1. /\ r \in loops[l].asked
                /\ loops'[l] = [todo |-> loops[l].todo \ {s}, asked |-> loops[l].asked,
                                failed |-> failed]
            BY <3>1, <3>3, <4>2 DEF IdleLoop
          <5>2. r \in loops[l].todo \cup loops[l].failed
            BY <1>0, <1>1, <3>3, <5>1 DEF LoopsAccount, PageKnows, NoneNew
          <5>3. r = s => failed = loops[l].failed \cup {s}
            BY <3>1, <3>3 DEF Live
          <5> QED BY <3>1, <4>2, <5>1, <5>2, <5>3
        <4> QED BY <4>1, <4>2
      <3> QED BY <3>2, <3>3 DEF LoopsAccount
    <2> QED BY <2>1, <2>2, <2>3, LoopsChange
  <1>5. BulkReportsFailures'
    <2>1. CASE toast' = NoToast
      BY <2>1 DEF BulkReportsFailures, NoToast
    <2>2. CASE UNCHANGED <<toast, life>>
      BY <1>0, <2>2 DEF BulkReportsFailures, Live
    <2>3. ASSUME NEW l \in Loops, NEW s \in Secrets, BulkStep(l, s) PROVE BulkReportsFailures'
      <3>1. PICK failed \in SUBSET loops[l].asked :
              /\ \/ life'[s] = "gone" /\ failed = loops[l].failed
                 \/ failed = loops[l].failed \cup {s}
              /\ \A k \in Loops \ {l} : loops'[k] = loops[k]
              /\ \/ loops'[l] = IdleLoop /\ toast' = [asked |-> loops[l].asked, failed |-> failed]
                    /\ loops[l].todo = {s}
                 \/ /\ loops'[l] = [todo |-> loops[l].todo \ {s}, asked |-> loops[l].asked,
                                    failed |-> failed]
                    /\ toast' = NoToast
        BY <1>0, <2>3, BulkStepLoops
      <3>2. CASE toast' = NoToast
        BY <2>1, <3>2
      <3>3. CASE toast' = [asked |-> loops[l].asked, failed |-> failed] /\ loops[l].todo = {s}
        <4>1. ASSUME NEW r \in loops[l].asked, Live(r)' PROVE r \in failed
          <5>1. r \in {s} \cup loops[l].failed
            BY <1>0, <1>1, <3>3, <4>1 DEF LoopsAccount, PageKnows, NoneNew
          <5>2. r = s => failed = loops[l].failed \cup {s}
            BY <3>1, <4>1 DEF Live
          <5> QED BY <3>1, <5>1, <5>2
        <4> QED BY <3>3, <4>1 DEF BulkReportsFailures
      <3> QED BY <3>1, <3>2, <3>3
    <2> QED BY <2>1, <2>2, <2>3, ToastChange
  <1> QED BY <1>0, <1>2, <1>3, <1>4, <1>5, TypesKept DEF BulkInvariant, PageKnows

------------------------------------------------------------------------------
(* Where the ticked boxes are *)

\* The page knows the vault of an environment and the environment of a secret, and no secret
\* outlives its environment.
HomesKnown ==
    /\ \A v \in Vaults : \A e \in envCache[v] : VaultOf[e] = v
    /\ \A e \in Envs : \A s \in list[e] : HomeOf[s] = e
    /\ \A s \in Secrets : Live(s) => Live(HomeOf[s])

\* Unless the page was moved, the ticked secrets that live are of the environment it shows.
TickedHere == moved \/ \A s \in selected : Live(s) => CurrentIs(HomeOf[s])

PlaceInvariant == BulkInvariant /\ HomesKnown /\ TickedHere

\* The page goes elsewhere only by a refetch or in a step that says so.
LEMMA PlaceChange ==
    ASSUME TypeOK, [Next]_vars
    PROVE  \/ UNCHANGED <<vault, envCache, active>>
           \/ RefetchEnvs
           \/ UNCHANGED selected /\ MayMove /\ (vault' = vault => UNCHANGED envCache)
  <1> DEFINE Same == UNCHANGED <<vault, envCache, active>>
             Gone1 == UNCHANGED selected /\ MayMove /\ (vault' = vault => UNCHANGED envCache)
  <1>1. ASSUME NEW e \in Envs, PickTab(e) PROVE Gone1
    BY <1>1 DEF PickTab, cache
  <1>2. OpenCreateEnv \/ OpenDeleteEnv \/ Toolbar => Same
    BY DEF OpenCreateEnv, OpenDeleteEnv, Toolbar, TypeFilter, OpenBulkDelete, OpenCreate, Open,
           PageUnchanged, cache
  <1>3. Table => Same
    BY DEF Table, ToggleAll, ToggleSecret, OpenReveal, OpenDelete, OpenEdit, Open, PageUnchanged,
           cache
  <1>4. DialogButtons => Same
    BY DEF DialogButtons, ClickReveal, CloseReveal, HideValue, TypeConfirmation, Cancel,
           ConfirmDelete, ConfirmDeleteEnv, ConfirmBulkDelete, SaveNewSecret, SaveEdit,
           SaveNewEnv, OnlyCalls, PageUnchanged, cache
  <1>5. ASSUME NEW c \in Slots, Answered(c) PROVE Same \/ Gone1
    <2>1. RevealAnswered(c) \/ DeleteAnswered(c) \/ CreateAnswered(c) \/ UpdateAnswered(c) => Same
      BY DEF RevealAnswered, DeleteAnswered, CreateAnswered, UpdateAnswered, PageState, Kept,
             cache
    <2>2. DeleteEnvAnswered(c) \/ CreateEnvAnswered(c) => Gone1
      BY DEF DeleteEnvAnswered, CreateEnvAnswered, Kept, cache
    <2> HIDE DEF Same, Gone1
    <2> QED BY <1>5, <2>1, <2>2 DEF Answered
  <1>6. OthersChange \/ RefetchSecrets \/ WindowFocus \/ Tick => Same
    BY DEF OthersChange, RefetchSecrets, WindowFocus, Tick, HideValue, cache
  <1>7. ASSUME NEW F \in Filters, NEW s \in Secrets, FollowResult(s, F) PROVE Gone1
    <2>1. UNCHANGED selected /\ MayMove
      BY <1>7 DEF FollowResult
    <2>2. ASSUME vault' = vault PROVE envCache' = envCache
      <3>1. envCache' = [envCache EXCEPT ![vault] = envCache[vault]]
        BY <1>7, <2>2 DEF FollowResult, Environments
      <3> QED BY <3>1 DEF TypeOK
    <2> QED BY <2>1, <2>2
  <1>8. ASSUME NEW l \in Loops, NEW s \in Secrets, BulkStep(l, s) PROVE Same
    BY <1>8 DEF BulkStep, cache
  <1>9. UNCHANGED vars => Same
    BY DEF vars, cache
  <1> HIDE DEF Same, Gone1
  <1>10. Same \/ RefetchEnvs \/ Gone1
    BY <1>1, <1>2, <1>3, <1>4, <1>5, <1>6, <1>7, <1>8, <1>9 DEF Next, UserStep, TabBar
  <1> QED BY <1>10 DEF Same, Gone1

\* A ticked box was ticked before, and the page is moved still if it was, or is one of those
\* shown, and then the page stays where it is.
LEMMA BoxesChange ==
    ASSUME [Next]_vars
    PROVE  \/ \A s \in selected' : s \in selected /\ (moved => moved')
           \/ /\ UNCHANGED <<vault, envCache, active>>
              /\ \A s \in selected' : s \in VisibleSecrets \/ (s \in selected /\ (moved => moved'))
  <1> DEFINE Same == UNCHANGED selected /\ (UNCHANGED moved \/ MayMove)
             Kept1 == \A s \in selected' : s \in selected /\ (moved => moved')
             Shown == /\ UNCHANGED <<vault, envCache, active>>
                      /\ \A s \in selected' :
                           s \in VisibleSecrets \/ (s \in selected /\ (moved => moved'))
  <1>1. ToggleAll \/ (\E s \in Secrets : ToggleSecret(s)) => Shown
    <2>1. ToggleAll => Shown
      BY DEF ToggleAll, cache
    <2>2. ASSUME NEW s \in Secrets, ToggleSecret(s) PROVE Shown
      <3>1. s \in VisibleSecrets /\ UNCHANGED <<vault, envCache, active>>
        BY <2>2 DEF ToggleSecret, cache
      <3>2. \A x \in selected' : x \in selected \/ x = s
        BY <2>2 DEF ToggleSecret
      <3>3. ASSUME NEW x \in selected', moved PROVE moved'
        BY <2>2, <3>3, Zenon DEF ToggleSecret
      <3> QED BY <3>1, <3>2, <3>3
    <2> QED BY <2>1, <2>2
  <1>2. ASSUME NEW l \in Loops, NEW s \in Secrets, BulkStep(l, s) PROVE Kept1
    BY <1>2 DEF BulkStep
  <1>3. MayMove => (moved => moved')
    BY Zenon DEF MayMove
  <1>4. ASSUME NEW e \in Envs, PickTab(e) PROVE Same
    BY <1>3, <1>4 DEF PickTab
  <1>5. OpenCreateEnv \/ OpenDeleteEnv \/ Toolbar => Same
    BY DEF OpenCreateEnv, OpenDeleteEnv, Toolbar, TypeFilter, OpenBulkDelete, OpenCreate, Open,
           PageUnchanged
  <1>6. (\E s \in Secrets : OpenReveal(s) \/ OpenDelete(s) \/ OpenEdit(s)) => Same
    BY DEF OpenReveal, OpenDelete, OpenEdit, Open, PageUnchanged
  <1>7. DialogButtons => Same
    BY DEF DialogButtons, ClickReveal, CloseReveal, HideValue, TypeConfirmation, Cancel,
           ConfirmDelete, ConfirmDeleteEnv, ConfirmBulkDelete, SaveNewSecret, SaveEdit,
           SaveNewEnv, OnlyCalls, PageUnchanged
  <1>8. (\E c \in Slots : Answered(c)) => Same
    BY <1>3 DEF Answered, RevealAnswered, DeleteAnswered, DeleteEnvAnswered, CreateAnswered,
           UpdateAnswered, CreateEnvAnswered, PageState, Kept
  <1>9. OthersChange \/ RefetchEnvs \/ RefetchSecrets \/ WindowFocus \/ Tick => Same
    BY DEF OthersChange, RefetchEnvs, RefetchSecrets, WindowFocus, Tick, HideValue
  <1>10. ASSUME NEW F \in Filters, NEW s \in Secrets, FollowResult(s, F) PROVE Same
    BY <1>3, <1>10 DEF FollowResult
  <1>11. UNCHANGED vars => Same
    BY DEF vars
  <1>12. Same => Kept1
    BY <1>3, Zenon
  <1> HIDE DEF Same, Kept1, Shown
  <1>13. Kept1 \/ Shown
    BY <1>1, <1>2, <1>4, <1>5, <1>6, <1>7, <1>8, <1>9, <1>10, <1>11, <1>12
       DEF Next, UserStep, TabBar, Table
  <1> QED BY <1>13 DEF Kept1, Shown

\* A cached list of environments is kept or replaced by the server's.
LEMMA CacheChange ==
    ASSUME TypeOK, [Next]_vars, NEW v \in Vaults
    PROVE  envCache'[v] \in {envCache[v], ServerEnvs(v)}
  <1>0. envCache \in [Vaults -> SUBSET Envs] /\ vault \in Vaults
    BY DEF TypeOK
  <1>1. CASE UNCHANGED envCache
    BY <1>1
  <1>2. CASE RefetchEnvs
    BY <1>0, <1>2 DEF RefetchEnvs
  <1>3. ASSUME NEW F \in Filters, NEW s \in Secrets, FollowResult(s, F)
        PROVE  envCache'[v] \in {envCache[v], ServerEnvs(v)}
    <2>1. PICK E \in {envCache[vault'], ServerEnvs(vault')} :
            envCache' = [envCache EXCEPT ![vault'] = E]
      BY <1>3 DEF FollowResult
    <2>2. CASE v = vault'
      BY <1>0, <2>1, <2>2
    <2>3. CASE v # vault'
      BY <1>0, <2>1, <2>3
    <2> QED BY <2>2, <2>3
  <1>4. TabBar \/ Toolbar \/ Table => UNCHANGED envCache
    BY DEF TabBar, PickTab, OpenCreateEnv, OpenDeleteEnv, Toolbar, TypeFilter, OpenBulkDelete,
           OpenCreate, Open, PageUnchanged, cache, Table, ToggleAll, ToggleSecret, OpenReveal,
           OpenDelete, OpenEdit
  <1>5. DialogButtons => UNCHANGED envCache
    BY DEF DialogButtons, ClickReveal, CloseReveal, HideValue, TypeConfirmation, Cancel,
           ConfirmDelete, ConfirmDeleteEnv, ConfirmBulkDelete, SaveNewSecret, SaveEdit,
           SaveNewEnv, OnlyCalls, PageUnchanged, cache
  <1>6. (\E c \in Slots : Answered(c)) => UNCHANGED envCache
    BY DEF Answered, RevealAnswered, DeleteAnswered, DeleteEnvAnswered, CreateAnswered,
           UpdateAnswered, CreateEnvAnswered, PageState, Kept, cache
  <1>7. OthersChange \/ RefetchSecrets \/ WindowFocus \/ Tick => UNCHANGED envCache
    BY DEF OthersChange, RefetchSecrets, WindowFocus, Tick, HideValue, cache
  <1>8. ASSUME NEW l \in Loops, NEW s \in Secrets, BulkStep(l, s) PROVE UNCHANGED envCache
    BY <1>8 DEF BulkStep, cache
  <1>9. UNCHANGED vars => UNCHANGED envCache
    BY DEF vars, cache
  <1> QED BY <1>1, <1>2, <1>3, <1>4, <1>5, <1>6, <1>7, <1>8, <1>9 DEF Next, UserStep

LEMMA HomesKept == ASSUME TypeOK, HomesKnown, [Next]_vars PROVE HomesKnown'
  <1>1. ASSUME NEW v \in Vaults, NEW e \in envCache'[v] PROVE VaultOf[e] = v
    <2>1. envCache'[v] \in {envCache[v], ServerEnvs(v)}
      BY CacheChange
    <2> QED BY <1>1, <2>1 DEF HomesKnown, ServerEnvs
  <1>2. ASSUME NEW e \in Envs, NEW s \in list'[e] PROVE HomeOf[s] = e
    <2>1. CASE UNCHANGED list
      BY <1>2, <2>1 DEF HomesKnown
    <2>2. CASE RefetchSecrets
      <3>1. list'[e] \in {list[e], ServerSecrets(e)}
        BY <2>2 DEF RefetchSecrets, TypeOK
      <3> QED BY <1>2, <3>1 DEF HomesKnown, ServerSecrets
    <2> QED BY <2>1, <2>2, ListChange
  <1>3. ASSUME NEW s \in Secrets, Live(s)' PROVE Live(HomeOf[s])'
    <2>0. /\ life \in [Secrets \cup Envs -> {"new", "live", "gone"}]
          /\ HomeOf[s] \in Envs /\ HomeOf[s] \notin Secrets
      BY PageConstants DEF TypeOK
    <2>1. CASE UNCHANGED life
      BY <1>3, <2>1 DEF HomesKnown, Live
    <2>2. ASSUME NEW X, Gone(X) PROVE Live(HomeOf[s])'
      BY <1>3, <2>0, <2>2 DEF Gone, HomesKnown, Live
    <2>3. ASSUME NEW e \in Envs, Born(e) PROVE Live(HomeOf[s])'
      <3>1. e # s
        BY PageConstants
      <3> QED BY <1>3, <2>0, <2>3, <3>1 DEF Born, HomesKnown, Live
    <2>4. ASSUME NEW r \in Secrets, Live(HomeOf[r]), Born(r) PROVE Live(HomeOf[s])'
      <3>1. Live(HomeOf[s])
        BY <1>3, <2>0, <2>4 DEF Born, HomesKnown, Live
      <3> QED BY <2>0, <2>4, <3>1 DEF Born, Live
    <2> QED BY <2>1, <2>2, <2>3, <2>4, LifeChange
  <1> QED BY <1>1, <1>2, <1>3 DEF HomesKnown

\* A box that is shown is of the environment shown.
LEMMA ShownHere ==
    ASSUME TypeOK, HomesKnown, NEW s \in VisibleSecrets
    PROVE  CurrentIs(HomeOf[s])
  <1>1. PICK e \in {x \in Environments : NameOf[x] = active} : s \in list[e]
    BY DEF VisibleSecrets, AllSecrets
  <1>2. e \in Envs
    BY <1>1 DEF TypeOK, Environments
  <1> QED BY <1>1, <1>2 DEF HomesKnown, CurrentIs

LEMMA TickedKept == ASSUME PlaceInvariant, [Next]_vars PROVE TickedHere'
  <1>0. TypeOK /\ PageKnows /\ HomesKnown /\ TickedHere /\ selected \in SUBSET Secrets
    BY DEF PlaceInvariant, BulkInvariant, TypeOK
  <1> SUFFICES ASSUME NEW s \in selected', ~moved', Live(s)'
               PROVE  CurrentIs(HomeOf[s])'
    BY DEF TickedHere
  <1> DEFINE e == HomeOf[s]
  <1>1. UNCHANGED <<vault, envCache, active>> => (CurrentIs(e) => CurrentIs(e)')
    BY DEF CurrentIs, Environments
  <1>2. CASE UNCHANGED <<vault, envCache, active>> /\ s \in VisibleSecrets
    BY <1>0, <1>1, <1>2, ShownHere
  <1>3. CASE s \in selected /\ ~moved
    <2>1. s \in Secrets /\ life[s] # "new"
      BY <1>0, <1>3 DEF PageKnows, NoneNew
    <2>2. Live(s) /\ CurrentIs(e)
      BY <1>0, <1>3, <2>1, KnownStays DEF TickedHere
    <2>3. CASE RefetchEnvs
      <3>1. Live(e) /\ e \in Envs /\ VaultOf[e] = vault
        BY <1>0, <2>1, <2>2, PageConstants DEF HomesKnown, CurrentIs, Environments, TypeOK
      <3>2. e \in ServerEnvs(vault)
        BY <3>1 DEF ServerEnvs
      <3>3. active' = active
        BY <2>2, <2>3, <3>2 DEF RefetchEnvs, Settle, CurrentIs
      <3>4. vault' = vault /\ envCache'[vault] = ServerEnvs(vault)
        BY <1>0, <2>3 DEF RefetchEnvs, TypeOK
      <3> QED BY <2>2, <3>2, <3>3, <3>4 DEF CurrentIs, Environments
    <2>4. CASE UNCHANGED selected /\ MayMove /\ (vault' = vault => UNCHANGED envCache)
      <3>1. selected # {}
        BY <1>3
      <3>2. vault' = vault /\ active' = active
        BY <2>4, <3>1, Zenon DEF MayMove
      <3> QED BY <1>1, <2>2, <2>4, <3>2
    <2> QED BY <1>0, <1>1, <2>2, <2>3, <2>4, PlaceChange
  <1> QED BY <1>2, <1>3, BoxesChange
------------------------------------------------------------------------------
(* The theorems *)

LEMMA InvariantHolds == Spec => []PageInvariant
  <1>1. Init => PageInvariant
    <2>1. Init => RevealKnown /\ TypedHere
      BY DEF Init, RevealKnown, IsOpen, Closed, TypedHere
    <2> QED BY <2>1, InitTypes DEF PageInvariant
  <1>2. PageInvariant /\ [Next]_vars => PageInvariant'
    BY TypesKept, RevealKept, TypedKept DEF PageInvariant
  <1> QED BY <1>1, <1>2, PTL DEF Spec

\* The types of the vault page hold whatever the server, other people and the user do.
THEOREM PageTyped == Spec => []TypeOK
  <1>1. PageInvariant => TypeOK
    BY DEF PageInvariant
  <1> QED BY <1>1, InvariantHolds, PTL

\* The value in the reveal dialog is that of the secret it names, unless the reveal of another
\* one was in flight when it opened.
THEOREM ValueMatchesDialog == Spec => []RevealMatches
  <1>1. PageInvariant => RevealMatches
    BY DEF PageInvariant, RevealKnown, RevealMatches, Displayed, IsOpen
  <1> QED BY <1>1, InvariantHolds, PTL

\* A bulk deletion that starts (handleBulkDelete) is of the environment the page shows, which
\* its dialog names, whatever refetches and other people's changes came between the ticking of a
\* box and the confirmation; the user's own moves and the answers to requests that make or
\* delete an environment here are excepted.
THEOREM BulkStaysInEnvironment == Spec => BulkFromItsEnvironment
  <1> DEFINE Here == \A l \in Loops : loops[l] = IdleLoop /\ loops'[l] # IdleLoop =>
                       moved \/ \A s \in loops'[l].todo : Live(s) => CurrentIs(HomeOf[s])
  <1>1. Init => PlaceInvariant
    <2>1. Init => HomesKnown
      BY PageConstants DEF Init, HomesKnown, ServerEnvs, ServerSecrets, Live
    <2>2. Init => TickedHere
      BY DEF Init, TickedHere
    <2> QED BY <2>1, <2>2, BulkInit DEF PlaceInvariant
  <1>2. PlaceInvariant /\ [Next]_vars => PlaceInvariant'
    BY BulkKept, HomesKept, TickedKept DEF PlaceInvariant, BulkInvariant
  <1>3. ASSUME PlaceInvariant, [Next]_vars PROVE Here
    <2> SUFFICES ASSUME NEW l \in Loops, loops[l] = IdleLoop, loops'[l] # IdleLoop
                 PROVE  moved \/ \A s \in loops'[l].todo : Live(s) => CurrentIs(HomeOf[s])
      OBVIOUS
    <2>1. TypeOK
      BY <1>3 DEF PlaceInvariant, BulkInvariant
    <2>2. ConfirmBulkDelete
      BY <1>3, <2>1, BulkStarts
    <2>3. PICK k \in Loops : loops' = [loops EXCEPT ![k] =
                        [todo |-> selected, asked |-> selected, failed |-> {}]]
      BY <2>2 DEF ConfirmBulkDelete
    <2>4. loops'[l].todo = selected
      BY <2>1, <2>3 DEF TypeOK
    <2> QED BY <1>3, <2>4 DEF PlaceInvariant, TickedHere
  <1>4. Spec => [][Here]_vars
    BY <1>1, <1>2, <1>3, PTL DEF Spec
  <1> QED BY <1>4 DEF BulkFromItsEnvironment

\* When the toast of a bulk deletion comes up, every secret asked for that it does not name as
\* failed is gone (handleBulkDelete), whatever other people deleted meanwhile.
THEOREM BulkFailuresReported == Spec => []BulkReportsFailures
  <1>1. BulkInvariant /\ [Next]_vars => BulkInvariant'
    BY BulkKept
  <1>2. BulkInvariant => BulkReportsFailures
    BY DEF BulkInvariant
  <1> QED BY <1>1, <1>2, BulkInit, PTL DEF Spec

\* Nothing is deleted unless the text asked for was typed in the dialog that is open, a secret
\* that has left the list excepted.
THEOREM DeletionsConfirmed == Spec => ConfirmedByTyping
  <1> DEFINE Confirmed == typedNow \/ (IsOpen("delete") /\ dialog.of \notin AllSecrets)
  <1>1. ASSUME PageInvariant, [Next]_vars, Deleting PROVE Confirmed
    <2>1. CanConfirm /\ Wanted # None
      <3>1. CASE ConfirmDelete
        BY <1>1, <3>1, PageConstants
        DEF ConfirmDelete, Wanted, IsOpen, PageInvariant, TypeOK, Dialogs, SecretKinds, PageKinds
      <3>2. CASE ConfirmDeleteEnv
        BY <3>2, PageConstants DEF ConfirmDeleteEnv, Wanted, IsOpen, CurrentIs
      <3>3. CASE ConfirmBulkDelete
        <4>1. Cardinality(selected) \in Nat
          BY <1>1, PageConstants, FS_Subset, FS_CardinalityType DEF PageInvariant, TypeOK
        <4> QED BY <3>3, <4>1, PageConstants DEF ConfirmBulkDelete, Wanted, IsOpen
      <3> QED BY <1>1, <3>1, <3>2, <3>3, OnlyConfirmationsDelete
    <2> QED BY <1>1, <2>1 DEF CanConfirm, PageInvariant, TypedHere
  <1>2. Spec => [][Deleting => Confirmed]_vars
    BY <1>1, InvariantHolds, PTL DEF Spec
  <1> QED BY <1>2 DEF ConfirmedByTyping
=============================================================================
