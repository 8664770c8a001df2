-------------------------- MODULE TokenDialog --------------------------
(***************************************************************************)
(* The service tokens of an environment (ServiceTokensDialog.tsx).  The    *)
(* value of a new token is shown once, in the dialog that made it.  The    *)
(* dialog stays mounted while it is closed, so an answer that arrives late *)
(* still sets what it shows next.                                          *)
(***************************************************************************)
CONSTANTS
    TokenEnvs,      \* the environments whose dialog can be opened
    TokenIds, NoToken

ASSUME TokenConstants == NoToken \notin TokenIds /\ NoToken \notin TokenEnvs

VARIABLES
    tokenOpen,      \* isOpen
    tokenTab,       \* environmentId
    home,           \* server: the environment of each token ever made
    live,           \* server: the tokens that are not revoked
    listed,         \* the query cache: the tokens listed for each environment
    named,          \* a name has been typed
    created,        \* the new token whose value is shown
    creating,       \* the create mutation in flight
    revoking,       \* the revoke mutation in flight
    late,           \* history: the mutation in flight was there before the dialog was opened,
                    \* or the open dialog was given another environment
    gone            \* history: tokens revoked without this dialog noticing

tokenVars == <<tokenOpen, tokenTab, home, live, listed, named, created, creating, revoking, late,
               gone>>
tokenServer == <<home, live>>
tokenHistory == <<late, gone>>

Creations == [env : TokenEnvs \cup {NoToken}, made : TokenIds \cup {NoToken}]
NoCreation == [env |-> NoToken, made |-> NoToken]
\* saw: the value of `created` the handler closed over
Revocations == [id : TokenIds \cup {NoToken}, saw : TokenIds \cup {NoToken}, carried : BOOLEAN]
NoRevocation == [id |-> NoToken, saw |-> NoToken, carried |-> FALSE]

------------------------------------------------------------------------------
(* The dialog *)

\* Fault: opening the dialog does not empty it.
KeepForm == UNCHANGED <<named, created>>

\* The effect that runs whenever the dialog opens
ResetForm == named' = FALSE /\ created' = NoToken

OpenTokens(e) ==
    /\ ~tokenOpen /\ tokenOpen' = TRUE /\ tokenTab' = e
    /\ ResetForm
    /\ late' = (creating # NoCreation)
    /\ UNCHANGED <<tokenServer, listed, creating, revoking, gone>>

CloseTokens ==
    /\ tokenOpen /\ tokenOpen' = FALSE
    /\ UNCHANGED <<tokenTab, tokenServer, listed, named, created, creating, revoking, tokenHistory>>

\* The environment of the tab is deleted by somebody else: the page moves to another tab
\* (VaultPage.tsx:347) and gives it to the open dialog, which keeps its state.
MoveTab(e) ==
    /\ tokenOpen /\ e # tokenTab /\ tokenTab' = e /\ late' = TRUE
    /\ UNCHANGED <<tokenOpen, tokenServer, listed, named, created, creating, revoking, gone>>

\* The list is fetched when the dialog opens, after each mutation and when the window is
\* focused again; meanwhile the old one is shown.
FetchTokens ==
    /\ tokenOpen
    /\ listed' = [listed EXCEPT ![tokenTab] = {t \in live : home[t] = tokenTab}]
    /\ UNCHANGED <<tokenOpen, tokenTab, tokenServer, named, created, creating, revoking, tokenHistory>>

TypeTokenName ==
    /\ tokenOpen /\ creating = NoCreation
    /\ named' = ~named
    /\ UNCHANGED <<tokenOpen, tokenTab, tokenServer, listed, created, creating, revoking, tokenHistory>>

------------------------------------------------------------------------------
(* Creating a token *)

ClickCreate ==
    /\ tokenOpen /\ named /\ creating = NoCreation
    /\ creating' = [env |-> tokenTab, made |-> NoToken]
    /\ UNCHANGED <<tokenOpen, tokenTab, tokenServer, listed, named, created, revoking, tokenHistory>>

MakeToken ==
    /\ creating # NoCreation /\ creating.made = NoToken
    /\ \E t \in TokenIds : home[t] = NoToken
    /\ LET t == CHOOSE u \in TokenIds : home[u] = NoToken
       IN  /\ home' = [home EXCEPT ![t] = creating.env]
           /\ live' = live \cup {t}
           /\ creating' = [creating EXCEPT !.made = t]
    /\ UNCHANGED <<tokenOpen, tokenTab, listed, named, created, revoking, tokenHistory>>

CreateAnswered ==
    /\ creating.made # NoToken
    /\ created' = creating.made /\ named' = FALSE
    /\ creating' = NoCreation
    /\ UNCHANGED <<tokenOpen, tokenTab, tokenServer, listed, revoking, tokenHistory>>

\* Refused, or the answer is lost: a token that was made stays, and its value is never shown.
CreateFailed ==
    /\ creating # NoCreation /\ creating' = NoCreation
    /\ UNCHANGED <<tokenOpen, tokenTab, tokenServer, listed, named, created, revoking, tokenHistory>>

------------------------------------------------------------------------------
(* Revoking one *)

ClickRevoke(t) ==
    /\ tokenOpen /\ t \in listed[tokenTab] /\ revoking = NoRevocation
    /\ revoking' = [id |-> t, saw |-> created, carried |-> FALSE]
    /\ UNCHANGED <<tokenOpen, tokenTab, tokenServer, listed, named, created, creating, tokenHistory>>

RevokeToken ==
    /\ revoking # NoRevocation /\ ~revoking.carried
    /\ live' = live \ {revoking.id}
    /\ revoking' = [revoking EXCEPT !.carried = TRUE]
    /\ UNCHANGED <<tokenOpen, tokenTab, home, listed, named, created, creating, tokenHistory>>

\* Fault: a revoked token stays on the screen.
LeaveCreated == UNCHANGED <<created, gone>>

\* Hides the new token when it is the one revoked, as far as the click could know.
HideCreated ==
    IF revoking.saw = revoking.id THEN created' = NoToken /\ UNCHANGED gone
    ELSE gone' = gone \cup {revoking.id} /\ UNCHANGED created

RevokeAnswered ==
    /\ revoking.carried
    /\ HideCreated
    /\ revoking' = NoRevocation
    /\ UNCHANGED <<tokenOpen, tokenTab, tokenServer, listed, named, creating, late>>

RevokeFailed ==
    /\ revoking # NoRevocation /\ revoking' = NoRevocation
    /\ gone' = IF revoking.carried THEN gone \cup {revoking.id} ELSE gone
    /\ UNCHANGED <<tokenOpen, tokenTab, tokenServer, listed, named, created, creating, late>>

\* In another tab, or by somebody else
OthersRevoke(t) ==
    /\ t \in live /\ live' = live \ {t} /\ gone' = gone \cup {t}
    /\ UNCHANGED <<tokenOpen, tokenTab, home, listed, named, created, creating, revoking, late>>

------------------------------------------------------------------------------
TokenInit ==
    /\ tokenOpen = FALSE /\ tokenTab = NoToken
    /\ home = [t \in TokenIds |-> NoToken] /\ live = {}
    /\ listed = [e \in TokenEnvs |-> {}] /\ named = FALSE /\ created = NoToken
    /\ creating = NoCreation /\ revoking = NoRevocation
    /\ late = FALSE /\ gone = {}

TokenNext ==
    \/ \E e \in TokenEnvs : OpenTokens(e) \/ MoveTab(e)
    \/ CloseTokens \/ FetchTokens \/ TypeTokenName
    \/ ClickCreate \/ MakeToken \/ CreateAnswered \/ CreateFailed
    \/ \E t \in TokenIds : ClickRevoke(t) \/ OthersRevoke(t)
    \/ RevokeToken \/ RevokeAnswered \/ RevokeFailed

TokenSpec == TokenInit /\ [][TokenNext]_tokenVars

TokenTypeOK ==
    /\ tokenOpen \in BOOLEAN /\ tokenTab \in TokenEnvs \cup {NoToken}
    /\ home \in [TokenIds -> TokenEnvs \cup {NoToken}] /\ live \in SUBSET TokenIds
    /\ listed \in [TokenEnvs -> SUBSET TokenIds]
    /\ named \in BOOLEAN /\ created \in TokenIds \cup {NoToken}
    /\ creating \in Creations /\ revoking \in Revocations
    /\ late \in BOOLEAN /\ gone \in SUBSET TokenIds

\* The value an open dialog shows belongs to a token of the environment its title names,
\* unless the token was asked for before the dialog was opened, when the answer comes into
\* the dialog of whatever environment is open by then, or the page moved to another tab
\* under the open dialog.
TokenShownWhereMade ==
    (tokenOpen /\ created # NoToken /\ ~late) => home[created] = tokenTab

\* The value shown works: "copy it now" is never said of a token that was revoked here,
\* except while the revocation is being answered, after its answer was lost, when it was
\* clicked before the value was shown, or when somebody else revoked the token.
ShownTokenWorks ==
    created # NoToken =>
        \/ created \in live \cup gone
        \/ revoking.id = created /\ revoking.carried
=============================================================================
