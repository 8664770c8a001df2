------------------------- MODULE DialogProofs -------------------------
(***************************************************************************)
(* Proofs about the dialogs of the vault page: tokens (TokenDialog),       *)
(* imports and copies (TransferDialogs), one secret's form and history     *)
(* (SecretForms), for any environments, keys, values, secrets and requests *)
(* in flight.                                                              *)
(***************************************************************************)
EXTENDS TokenDialog, TransferDialogs, SecretForms, TLAPS

------------------------------------------------------------------------------
(* TokenDialog *)

(* The inductive invariant, part by part *)

\* An open dialog and a create mutation are about an environment, a revocation about a token;
\* a token that was made belongs to the environment it was asked for.
MadeAtHome ==
    /\ tokenOpen => tokenTab \in TokenEnvs
    /\ creating # NoCreation => creating.env \in TokenEnvs
    /\ creating.made # NoToken => home[creating.made] = creating.env
    /\ revoking # NoRevocation => revoking.id \in TokenIds

\* The value shown, and the one a revocation closed over, are of tokens that were made, and
\* not of the token that is still being answered for.
AnsweredBefore ==
    \A t \in TokenIds :
        (t = created \/ t = revoking.saw) => home[t] # NoToken /\ t # creating.made

\* A create mutation of this dialog is for the environment the dialog shows.
CreatingHere ==
    (tokenOpen /\ ~late /\ creating # NoCreation) => creating.env = tokenTab

\* The value shown or about to be shown works, with the exceptions of ShownTokenWorks.
TokensWork ==
    \A t \in TokenIds :
        (t = created \/ t = creating.made) =>
            \/ t \in live \cup gone
            \/ revoking.id = t /\ revoking.carried

TokenInvariant ==
    /\ TokenTypeOK
    /\ MadeAtHome /\ AnsweredBefore /\ CreatingHere /\ TokensWork
    /\ TokenShownWhereMade

------------------------------------------------------------------------------
LEMMA TokenInitially == TokenInit => TokenInvariant
<1>1. SUFFICES ASSUME TokenInit PROVE TokenInvariant OBVIOUS
<1>2. NoCreation \in Creations /\ NoRevocation \in Revocations
      BY DEF NoCreation, NoRevocation, Creations, Revocations
<1>3. TokenTypeOK BY <1>1, <1>2 DEF TokenInit, TokenTypeOK
<1>4. created = NoToken /\ creating.made = NoToken /\ revoking.saw = NoToken
      BY <1>1 DEF TokenInit, NoCreation, NoRevocation
<1>5. MadeAtHome /\ CreatingHere BY <1>1, <1>4 DEF TokenInit, MadeAtHome, CreatingHere
<1>6. AnsweredBefore /\ TokensWork /\ TokenShownWhereMade
      BY <1>4, TokenConstants DEF AnsweredBefore, TokensWork, TokenShownWhereMade
<1>7. QED BY <1>3, <1>5, <1>6 DEF TokenInvariant

\* The type invariant is kept by every step.
LEMMA TokenTypesKept ==
    ASSUME TokenTypeOK, MadeAtHome, [TokenNext]_tokenVars
    PROVE  TokenTypeOK'
<1> USE DEF TokenTypeOK, MadeAtHome
<1>1. NoCreation \in Creations /\ NoRevocation \in Revocations
      BY DEF NoCreation, NoRevocation, Creations, Revocations
<1>2. ASSUME NEW e \in TokenEnvs, OpenTokens(e) PROVE TokenTypeOK'
  <2>1. late' \in BOOLEAN BY <1>2, Zenon DEF OpenTokens
  <2>2. QED BY <1>2, <2>1 DEF OpenTokens, ResetForm, tokenServer
<1>3. ASSUME NEW e \in TokenEnvs, MoveTab(e) PROVE TokenTypeOK'
      BY <1>3 DEF MoveTab, tokenServer
<1>4. CASE CloseTokens BY <1>4 DEF CloseTokens, tokenServer, tokenHistory
<1>5. CASE FetchTokens
  <2>1. listed' \in [TokenEnvs -> SUBSET TokenIds] BY <1>5 DEF FetchTokens
  <2>2. QED BY <1>5, <2>1 DEF FetchTokens, tokenServer, tokenHistory
<1>6. CASE TypeTokenName BY <1>6 DEF TypeTokenName, tokenServer, tokenHistory
<1>7. CASE ClickCreate
  <2>1. creating' \in Creations BY <1>7 DEF ClickCreate, Creations
  <2>2. QED BY <1>7, <2>1 DEF ClickCreate, tokenServer, tokenHistory
<1>8. CASE MakeToken
  <2>1. PICK t \in TokenIds : /\ home' = [home EXCEPT ![t] = creating.env]
                              /\ live' = live \cup {t}
                              /\ creating' = [creating EXCEPT !.made = t]
        BY <1>8 DEF MakeToken
  <2>2. creating.env \in TokenEnvs BY <1>8 DEF MakeToken
  <2>3. creating' \in Creations BY <2>1 DEF Creations
  <2>4. home' \in [TokenIds -> TokenEnvs \cup {NoToken}] BY <2>1, <2>2
  <2>5. QED BY <1>8, <2>1, <2>3, <2>4 DEF MakeToken, tokenHistory
<1>9. CASE CreateAnswered
  <2>1. created' \in TokenIds \cup {NoToken} BY <1>9 DEF CreateAnswered, Creations
  <2>2. QED BY <1>1, <1>9, <2>1 DEF CreateAnswered, tokenServer, tokenHistory
<1>10. CASE CreateFailed BY <1>1, <1>10 DEF CreateFailed, tokenServer, tokenHistory
<1>11. ASSUME NEW t \in TokenIds, ClickRevoke(t) PROVE TokenTypeOK'
  <2>1. revoking' \in Revocations BY <1>11 DEF ClickRevoke, Revocations
  <2>2. QED BY <1>11, <2>1 DEF ClickRevoke, tokenServer, tokenHistory
<1>12. ASSUME NEW t \in TokenIds, OthersRevoke(t) PROVE TokenTypeOK'
       BY <1>12 DEF OthersRevoke
<1>13. CASE RevokeToken
  <2>1. revoking' \in Revocations BY <1>13 DEF RevokeToken, Revocations
  <2>2. QED BY <1>13, <2>1 DEF RevokeToken, tokenHistory
<1>14. CASE RevokeAnswered
  <2>1. revoking # NoRevocation BY <1>14 DEF RevokeAnswered, NoRevocation
  <2>2. gone' \in SUBSET TokenIds /\ created' \in TokenIds \cup {NoToken}
        BY <1>14, <2>1 DEF RevokeAnswered, HideCreated
  <2>3. QED BY <1>1, <1>14, <2>2 DEF RevokeAnswered, tokenServer
<1>15. CASE RevokeFailed
  <2>1. gone' \in SUBSET TokenIds BY <1>15 DEF RevokeFailed
  <2>2. QED BY <1>1, <1>15, <2>1 DEF RevokeFailed, tokenServer
<1>16. CASE UNCHANGED tokenVars
       BY <1>16 DEF tokenVars, tokenServer, tokenHistory
<1>17. QED BY <1>2, <1>3, <1>4, <1>5, <1>6, <1>7, <1>8, <1>9, <1>10, <1>11, <1>12, <1>13,
              <1>14, <1>15, <1>16 DEF TokenNext

------------------------------------------------------------------------------
(* The steps that make and show a token *)

LEMMA MakeTokenKeeps ==
    ASSUME TokenInvariant, MakeToken
    PROVE  /\ MadeAtHome' /\ AnsweredBefore' /\ CreatingHere' /\ TokensWork'
           /\ TokenShownWhereMade'
<1> USE DEF TokenInvariant, TokenTypeOK
<1>1. PICK t \in TokenIds : /\ home[t] = NoToken
                            /\ home' = [home EXCEPT ![t] = creating.env]
                            /\ live' = live \cup {t}
                            /\ creating' = [creating EXCEPT !.made = t]
      BY DEF MakeToken
<1>2. /\ creating # NoCreation /\ creating.made = NoToken
      /\ UNCHANGED <<tokenOpen, tokenTab, listed, named, created, revoking, late, gone>>
      BY DEF MakeToken, tokenHistory
<1>3. creating'.made = t /\ creating'.env = creating.env BY <1>1 DEF Creations
<1>4. creating.env \in TokenEnvs /\ creating.env # NoToken
      BY <1>2, TokenConstants DEF MadeAtHome
<1>5. home'[t] = creating.env /\ \A u \in TokenIds : u # t => home'[u] = home[u] BY <1>1
<1>6. created # t /\ revoking.saw # t BY <1>1 DEF AnsweredBefore
<1>7. MadeAtHome' BY <1>2, <1>3, <1>4, <1>5 DEF MadeAtHome
<1>8. AnsweredBefore' BY <1>2, <1>3, <1>5, <1>6 DEF AnsweredBefore
<1>9. CreatingHere' BY <1>2, <1>3 DEF CreatingHere
<1>10. TokensWork' BY <1>1, <1>2, <1>3 DEF TokensWork
<1>11. TokenShownWhereMade' BY <1>2, <1>5, <1>6 DEF TokenShownWhereMade
<1>12. QED BY <1>7, <1>8, <1>9, <1>10, <1>11

LEMMA CreateAnsweredKeeps ==
    ASSUME TokenInvariant, CreateAnswered
    PROVE  /\ MadeAtHome' /\ AnsweredBefore' /\ CreatingHere' /\ TokensWork'
           /\ TokenShownWhereMade'
<1> USE DEF TokenInvariant, TokenTypeOK
<1>1. /\ creating.made # NoToken /\ created' = creating.made /\ creating' = NoCreation
      /\ UNCHANGED <<tokenOpen, tokenTab, home, live, listed, revoking, late, gone>>
      BY DEF CreateAnswered, tokenServer, tokenHistory
<1>2. creating # NoCreation BY <1>1 DEF NoCreation
<1>3. creating.made \in TokenIds BY <1>1 DEF Creations
<1>4. home[created'] = creating.env /\ creating.env \in TokenEnvs /\ creating.env # NoToken
      BY <1>1, <1>2, TokenConstants DEF MadeAtHome
<1>5. creating'.made = NoToken BY <1>1 DEF NoCreation
<1>6. MadeAtHome' BY <1>1, <1>5 DEF MadeAtHome
<1>7. AnsweredBefore' BY <1>1, <1>4, <1>5, TokenConstants DEF AnsweredBefore
<1>8. CreatingHere' BY <1>1 DEF CreatingHere
<1>9. TokensWork' BY <1>1, <1>5, TokenConstants DEF TokensWork
<1>10. TokenShownWhereMade' BY <1>1, <1>2, <1>4 DEF TokenShownWhereMade, CreatingHere
<1>11. QED BY <1>6, <1>7, <1>8, <1>9, <1>10

\* Opening the dialog hides what an earlier answer left.
LEMMA OpenTokensKeeps ==
    ASSUME TokenInvariant, NEW e \in TokenEnvs, OpenTokens(e)
    PROVE  /\ MadeAtHome' /\ AnsweredBefore' /\ CreatingHere' /\ TokensWork'
           /\ TokenShownWhereMade'
<1>1. /\ tokenOpen' = TRUE /\ tokenTab' = e /\ created' = NoToken
      /\ late' = (creating # NoCreation)
      /\ UNCHANGED <<home, live, listed, creating, revoking, gone>>
      BY DEF OpenTokens, ResetForm, tokenServer
<1>2. MadeAtHome' BY <1>1 DEF TokenInvariant, MadeAtHome
<1>3. AnsweredBefore' BY <1>1, TokenConstants DEF TokenInvariant, AnsweredBefore
<1>4. CreatingHere' BY <1>1 DEF CreatingHere
<1>5. TokensWork' BY <1>1, TokenConstants DEF TokenInvariant, TokensWork
<1>6. TokenShownWhereMade' BY <1>1 DEF TokenShownWhereMade
<1>7. QED BY <1>2, <1>3, <1>4, <1>5, <1>6

------------------------------------------------------------------------------
(* The steps of a revocation *)

\* Revoking the token shown hides it; revoking another one is remembered in gone.
LEMMA RevokeAnsweredKeeps ==
    ASSUME TokenInvariant, RevokeAnswered
    PROVE  /\ MadeAtHome' /\ AnsweredBefore' /\ CreatingHere' /\ TokensWork'
           /\ TokenShownWhereMade'
<1> USE DEF TokenInvariant, TokenTypeOK
<1>1. /\ revoking.carried /\ HideCreated /\ revoking' = NoRevocation
      /\ UNCHANGED <<tokenOpen, tokenTab, home, live, listed, named, creating, late>>
      BY DEF RevokeAnswered, tokenServer
<1>2. revoking # NoRevocation BY <1>1 DEF NoRevocation
<1>3. revoking'.saw = NoToken BY <1>1 DEF NoRevocation
<1>4. revoking.id \in TokenIds BY <1>2 DEF MadeAtHome
<1>5. created' \in {created, NoToken} BY <1>1 DEF HideCreated
<1>6. MadeAtHome' BY <1>1 DEF MadeAtHome
<1>7. AnsweredBefore' BY <1>1, <1>3, <1>5, TokenConstants DEF AnsweredBefore
<1>8. CreatingHere' BY <1>1 DEF CreatingHere
<1>9. TokenShownWhereMade' BY <1>1, <1>5 DEF TokenShownWhereMade
<1>10. TokensWork'
  <2>1. CASE revoking.saw = revoking.id
    <3>1. created' = NoToken /\ gone' = gone BY <1>1, <2>1 DEF HideCreated
    <3>2. revoking.id # creating.made BY <1>4, <2>1 DEF AnsweredBefore
    <3>3. QED BY <1>1, <3>1, <3>2, TokenConstants DEF TokensWork
  <2>2. CASE revoking.saw # revoking.id
    <3>1. created' = created /\ gone' = gone \cup {revoking.id} BY <1>1, <2>2 DEF HideCreated
    <3>2. QED BY <1>1, <3>1 DEF TokensWork
  <2>3. QED BY <2>1, <2>2
<1>11. QED BY <1>6, <1>7, <1>8, <1>9, <1>10

LEMMA RevokeFailedKeeps ==
    ASSUME TokenInvariant, RevokeFailed
    PROVE  /\ MadeAtHome' /\ AnsweredBefore' /\ CreatingHere' /\ TokensWork'
           /\ TokenShownWhereMade'
<1>1. /\ revoking' = NoRevocation
      /\ gone' = IF revoking.carried THEN gone \cup {revoking.id} ELSE gone
      /\ UNCHANGED <<tokenOpen, tokenTab, home, live, listed, named, created, creating, late>>
      BY DEF RevokeFailed, tokenServer
<1>2. revoking'.saw = NoToken BY <1>1 DEF NoRevocation
<1>3. MadeAtHome' BY <1>1 DEF TokenInvariant, MadeAtHome
<1>4. AnsweredBefore' BY <1>1, <1>2, TokenConstants DEF TokenInvariant, AnsweredBefore
<1>5. CreatingHere' BY <1>1 DEF TokenInvariant, CreatingHere
<1>6. TokensWork' BY <1>1 DEF TokenInvariant, TokensWork
<1>7. TokenShownWhereMade' BY <1>1 DEF TokenInvariant, TokenShownWhereMade
<1>8. QED BY <1>3, <1>4, <1>5, <1>6, <1>7

LEMMA RevokeTokenKeeps ==
    ASSUME TokenInvariant, RevokeToken
    PROVE  /\ MadeAtHome' /\ AnsweredBefore' /\ CreatingHere' /\ TokensWork'
           /\ TokenShownWhereMade'
<1>1. /\ revoking # NoRevocation
      /\ live' = live \ {revoking.id} /\ revoking' = [revoking EXCEPT !.carried = TRUE]
      /\ UNCHANGED <<tokenOpen, tokenTab, home, listed, named, created, creating, late, gone>>
      BY DEF RevokeToken, tokenHistory
<1>2. revoking'.carried = TRUE /\ revoking'.id = revoking.id /\ revoking'.saw = revoking.saw
      BY <1>1 DEF TokenInvariant, TokenTypeOK, Revocations
<1>3. MadeAtHome' BY <1>1, <1>2 DEF TokenInvariant, MadeAtHome
<1>4. AnsweredBefore' BY <1>1, <1>2 DEF TokenInvariant, AnsweredBefore
<1>5. CreatingHere' BY <1>1 DEF TokenInvariant, CreatingHere
<1>6. TokensWork' BY <1>1, <1>2 DEF TokenInvariant, TokensWork
<1>7. TokenShownWhereMade' BY <1>1 DEF TokenInvariant, TokenShownWhereMade
<1>8. QED BY <1>3, <1>4, <1>5, <1>6, <1>7

LEMMA ClickRevokeKeeps ==
    ASSUME TokenInvariant, NEW t \in TokenIds, ClickRevoke(t)
    PROVE  /\ MadeAtHome' /\ AnsweredBefore' /\ CreatingHere' /\ TokensWork'
           /\ TokenShownWhereMade'
<1>1. /\ revoking = NoRevocation
      /\ revoking' = [id |-> t, saw |-> created, carried |-> FALSE]
      /\ UNCHANGED <<tokenOpen, tokenTab, home, live, listed, named, created, creating, late, gone>>
      BY DEF ClickRevoke, tokenServer, tokenHistory
<1>2. revoking.carried = FALSE BY <1>1 DEF NoRevocation
<1>3. MadeAtHome' BY <1>1 DEF TokenInvariant, MadeAtHome
<1>4. AnsweredBefore' BY <1>1 DEF TokenInvariant, AnsweredBefore
<1>5. CreatingHere' BY <1>1 DEF TokenInvariant, CreatingHere
<1>6. TokensWork' BY <1>1, <1>2 DEF TokenInvariant, TokensWork
<1>7. TokenShownWhereMade' BY <1>1 DEF TokenInvariant, TokenShownWhereMade
<1>8. QED BY <1>3, <1>4, <1>5, <1>6, <1>7

------------------------------------------------------------------------------
(* Every step keeps the invariant. *)

LEMMA TokenStepKeeps == TokenInvariant /\ [TokenNext]_tokenVars => TokenInvariant'
<1>1. SUFFICES ASSUME TokenInvariant, [TokenNext]_tokenVars
               PROVE  TokenInvariant'
      OBVIOUS
<1>2. TokenTypeOK' BY <1>1, TokenTypesKept DEF TokenInvariant
<1> DEFINE Kept == /\ MadeAtHome' /\ AnsweredBefore' /\ CreatingHere' /\ TokensWork'
                   /\ TokenShownWhereMade'
<1>3. SUFFICES Kept BY <1>2 DEF TokenInvariant
<1>4. ASSUME NEW e \in TokenEnvs, OpenTokens(e) PROVE Kept BY <1>1, <1>4, OpenTokensKeeps
<1>5. ASSUME NEW e \in TokenEnvs, MoveTab(e) PROVE Kept
      BY <1>1, <1>5
      DEF MoveTab, tokenServer, TokenInvariant, MadeAtHome, AnsweredBefore, CreatingHere,
          TokensWork, TokenShownWhereMade
<1>6. CASE CloseTokens
      BY <1>1, <1>6
      DEF CloseTokens, tokenServer, tokenHistory, TokenInvariant, MadeAtHome, AnsweredBefore,
          CreatingHere, TokensWork, TokenShownWhereMade
<1>7. CASE FetchTokens \/ TypeTokenName
      BY <1>1, <1>7
      DEF FetchTokens, TypeTokenName, tokenServer, tokenHistory, TokenInvariant, MadeAtHome,
          AnsweredBefore, CreatingHere, TokensWork, TokenShownWhereMade
<1>8. CASE ClickCreate
  <2>1. /\ tokenOpen /\ creating' = [env |-> tokenTab, made |-> NoToken]
        /\ UNCHANGED <<tokenOpen, tokenTab, home, live, created, revoking, late, gone>>
        BY <1>8 DEF ClickCreate, tokenServer, tokenHistory
  <2>2. QED BY <1>1, <2>1, TokenConstants
        DEF TokenInvariant, MadeAtHome, AnsweredBefore, CreatingHere, TokensWork,
            TokenShownWhereMade
<1>9. CASE MakeToken BY <1>1, <1>9, MakeTokenKeeps
<1>10. CASE CreateAnswered BY <1>1, <1>10, CreateAnsweredKeeps
<1>11. CASE CreateFailed
  <2>1. /\ creating' = NoCreation /\ creating'.made = NoToken
        /\ UNCHANGED <<tokenOpen, tokenTab, home, live, created, revoking, late, gone>>
        BY <1>11 DEF CreateFailed, NoCreation, tokenServer, tokenHistory
  <2>2. QED BY <1>1, <2>1, TokenConstants
        DEF TokenInvariant, MadeAtHome, AnsweredBefore, CreatingHere, TokensWork,
            TokenShownWhereMade
<1>12. ASSUME NEW t \in TokenIds, ClickRevoke(t) PROVE Kept BY <1>1, <1>12, ClickRevokeKeeps
<1>13. ASSUME NEW t \in TokenIds, OthersRevoke(t) PROVE Kept
       BY <1>1, <1>13
       DEF OthersRevoke, TokenInvariant, MadeAtHome, AnsweredBefore, CreatingHere, TokensWork,
           TokenShownWhereMade
<1>14. CASE RevokeToken BY <1>1, <1>14, RevokeTokenKeeps
<1>15. CASE RevokeAnswered BY <1>1, <1>15, RevokeAnsweredKeeps
<1>16. CASE RevokeFailed BY <1>1, <1>16, RevokeFailedKeeps
<1>17. CASE UNCHANGED tokenVars
       BY <1>1, <1>17
       DEF tokenVars, tokenServer, tokenHistory, TokenInvariant, MadeAtHome, AnsweredBefore,
           CreatingHere, TokensWork, TokenShownWhereMade
<1>18. QED BY <1>1, <1>4, <1>5, <1>6, <1>7, <1>8, <1>9, <1>10, <1>11, <1>12, <1>13, <1>14, <1>15,
              <1>16, <1>17 DEF TokenNext

\* The value an open dialog shows belongs to a token of the environment in its title, unless
\* it was asked for before the dialog was opened or the tab moved under it: for any number of
\* environments and tokens.
THEOREM TokensAreShownWhereMade == TokenSpec => []TokenShownWhereMade
<1>1. TokenInvariant => TokenShownWhereMade BY DEF TokenInvariant
<1>2. QED BY <1>1, TokenInitially, TokenStepKeeps, PTL DEF TokenSpec

\* The value shown is never of a token revoked in this dialog.
THEOREM ShownTokensWork == TokenSpec => []ShownTokenWorks
<1>1. TokenInvariant => ShownTokenWorks
      BY DEF TokenInvariant, TokenTypeOK, TokensWork, ShownTokenWorks
<1>2. QED BY <1>1, TokenInitially, TokenStepKeeps, PTL DEF TokenSpec

\* The type invariant of the token dialog.
THEOREM TokenTypes == TokenSpec => []TokenTypeOK
<1>1. TokenInvariant => TokenTypeOK BY DEF TokenInvariant
<1>2. QED BY <1>1, TokenInitially, TokenStepKeeps, PTL DEF TokenSpec
------------------------------------------------------------------------------
(* TransferDialogs *)

\* A dialog has one request; it shows no result while it has one, and nothing of a dialog
\* remains when it is closed but the request that writes.
OneTransfer ==
    /\ transfer = "closed" =>
           busy = NoRequest /\ preview = NoResult /\ done = NoResult /\ reading = BadFile
    /\ orphan # NoRequest => transfer = "closed"
    /\ done # NoResult => busy = NoRequest

\* What is in flight is what the options and the previewed pairs say, and a request that writes
\* was sent from a preview.
SentAsShown ==
    (busy # NoRequest /\ ~edited) =>
        /\ busy = Request(busy.dry, pairs)
        /\ ~busy.dry => preview # NoResult

\* The preview is what the request would do now.
PreviewIsCurrent ==
    (preview # NoResult /\ done = NoResult /\ ~edited /\ ~moved) =>
        preview = Outcome(Request(FALSE, pairs))

TransferInvariant ==
    /\ TransferTypeOK /\ OneTransfer /\ SentAsShown /\ PreviewIsCurrent /\ ImportAsPreviewed

LEMMA EmptyTransfer == BadFile \in Content /\ NoResult \in Results /\ NoRequest \in Requests
BY DEF BadFile, Content, NoResult, Results, NoRequest, Requests

LEMMA TransferInitially == TransferInit => TransferInvariant
<1>1. SUFFICES ASSUME TransferInit PROVE TransferInvariant OBVIOUS
<1>2. envs \in [Environments -> Content]
  <2>1. (CHOOSE w \in Values : TRUE) \in Values BY TransferConstants
  <2>2. QED BY <1>1, <2>1 DEF TransferInit, Content
<1>3. TransferTypeOK BY <1>1, <1>2, EmptyTransfer DEF TransferInit, TransferTypeOK
<1>4. QED BY <1>1, <1>3
      DEF TransferInit, TransferInvariant, OneTransfer, SentAsShown, PreviewIsCurrent,
          ImportAsPreviewed

LEMMA RequestTyped ==
    ASSUME TransferTypeOK, NEW dry \in BOOLEAN, NEW p \in Content
    PROVE  Request(dry, p) \in Requests
BY EmptyTransfer DEF Request, Requests, TransferTypeOK

LEMMA OutcomeTyped == ASSUME NEW r PROVE Outcome(r) \in Results
BY DEF Outcome, Results

\* A dry run and the request that follows it have the same outcome.
LEMMA DryRunTells ==
    ASSUME NEW p, NEW d
    PROVE  Outcome(Request(d, p)) = Outcome(Request(FALSE, p))
BY DEF Outcome, Brought, Request

LEMMA WriteTyped ==
    ASSUME TransferTypeOK, NEW r \in Requests, NEW W \in SUBSET Keys, Write(r, W)
    PROVE  envs' \in [Environments -> Content]
<1>1. Brought(r) \in Content
  <2>1. CASE r.source = NoValue BY <2>1 DEF Brought, Requests
  <2>2. CASE r.source # NoValue
    <3>1. r.source \in Environments BY <2>2 DEF Requests, Environments
    <3>2. envs[r.source] \in Content BY <3>1 DEF TransferTypeOK
    <3>3. QED BY <2>2, <3>2 DEF Brought, Content
  <2>3. QED BY <2>1, <2>2
<1>2. envs[Target] \in Content BY DEF TransferTypeOK, Environments
<1>3. [k \in Keys |-> IF k \in W THEN Brought(r)[k] ELSE envs[Target][k]] \in Content
      BY <1>1, <1>2 DEF Content
<1>4. QED BY <1>3 DEF Write, TransferTypeOK

\* Opening and closing a dialog
LEMMA FreshKeeps ==
    ASSUME TransferInvariant, Fresh, UNCHANGED envs, source' \in Sources \cup {NoValue},
           transfer' \in {"closed", "import", "copy"}, orphan' \in Requests,
           orphan' # NoRequest => transfer' = "closed"
    PROVE  TransferInvariant'
<1>1. /\ content' = BadFile /\ reading' = BadFile /\ picked' = {} /\ overwrite' = FALSE
      /\ pairs' = BadFile /\ preview' = NoResult /\ done' = NoResult
      /\ busy' = NoRequest /\ edited' = FALSE /\ moved' = FALSE
      BY DEF Fresh
<1>2. TransferTypeOK' BY <1>1, EmptyTransfer DEF TransferInvariant, TransferTypeOK
<1>3. QED BY <1>1, <1>2
      DEF TransferInvariant, OneTransfer, SentAsShown, PreviewIsCurrent, ImportAsPreviewed

\* Changing an option: the preview goes, and a request in flight or a result no longer counts.
LEMMA OptionKeeps ==
    ASSUME TransferInvariant, DropPreview, TransferTypeOK', transfer # "closed",
           UNCHANGED <<envs, transfer, pairs, done, busy, orphan, moved>>
    PROVE  TransferInvariant'
<1>1. preview' = NoResult /\ (~edited' => ~edited /\ busy = NoRequest /\ done = NoResult)
      BY DEF DropPreview, Edited
<1>2. OneTransfer' BY <1>1 DEF TransferInvariant, OneTransfer
<1>3. SentAsShown' BY <1>1 DEF SentAsShown
<1>4. PreviewIsCurrent' BY <1>1 DEF PreviewIsCurrent
<1>5. ImportAsPreviewed' BY <1>1 DEF ImportAsPreviewed
<1>6. QED BY <1>2, <1>3, <1>4, <1>5 DEF TransferInvariant

LEMMA OptionStepKeeps ==
    ASSUME TransferInvariant,
           \/ \E f \in Files : ChangeContent(Text[f])
           \/ FileRead \/ ToggleOverwrite
           \/ \E e \in Sources : ChangeSource(e)
           \/ \E k \in Keys : TogglePick(k)
    PROVE  TransferInvariant'
<1> DEFINE Same == UNCHANGED <<envs, transfer, pairs, done, busy, orphan, moved>>
<1>1. TransferTypeOK BY DEF TransferInvariant
<1>2. ASSUME DropPreview PROVE edited' \in BOOLEAN /\ preview' \in Results
      BY <1>1, <1>2, EmptyTransfer DEF DropPreview, Edited, TransferTypeOK
<1>3. ASSUME NEW f \in Files, ChangeContent(Text[f]) PROVE TransferInvariant'
  <2>1. Text[f] \in Content BY TransferConstants
  <2>2. DropPreview /\ Same /\ transfer # "closed" BY <1>3 DEF ChangeContent
  <2>3. TransferTypeOK' BY <1>1, <1>2, <1>3, <2>1, <2>2 DEF ChangeContent, TransferTypeOK
  <2>4. QED BY <2>2, <2>3, OptionKeeps
<1>4. CASE FileRead
  <2>1. DropPreview /\ Same /\ transfer # "closed"
        BY <1>4 DEF FileRead, TransferInvariant, OneTransfer
  <2>2. TransferTypeOK' BY <1>1, <1>2, <1>4, <2>1, EmptyTransfer DEF FileRead, TransferTypeOK
  <2>3. QED BY <2>1, <2>2, OptionKeeps
<1>5. CASE ToggleOverwrite
  <2>1. DropPreview /\ Same /\ transfer # "closed" BY <1>5 DEF ToggleOverwrite
  <2>2. overwrite' \in BOOLEAN BY <1>5, Zenon DEF ToggleOverwrite
  <2>3. TransferTypeOK' BY <1>1, <1>2, <1>5, <2>1, <2>2 DEF ToggleOverwrite, TransferTypeOK
  <2>4. QED BY <2>1, <2>3, OptionKeeps
<1>6. ASSUME NEW e \in Sources, ChangeSource(e) PROVE TransferInvariant'
  <2>1. DropPreview /\ Same /\ transfer # "closed" BY <1>6 DEF ChangeSource
  <2>2. TransferTypeOK' BY <1>1, <1>2, <1>6, <2>1 DEF ChangeSource, TransferTypeOK
  <2>3. QED BY <2>1, <2>2, OptionKeeps
<1>7. ASSUME NEW k \in Keys, TogglePick(k) PROVE TransferInvariant'
  <2>1. DropPreview /\ Same /\ transfer # "closed" BY <1>7 DEF TogglePick
  <2>2. TransferTypeOK' BY <1>1, <1>2, <1>7, <2>1 DEF TogglePick, TransferTypeOK
  <2>3. QED BY <2>1, <2>2, OptionKeeps
<1>8. QED BY <1>3, <1>4, <1>5, <1>6, <1>7
\* Asking for the preview, and for what it shows
LEMMA PreviewKeeps == ASSUME TransferInvariant, Preview PROVE TransferInvariant'
<1> USE DEF TransferInvariant
<1>1. /\ transfer # "closed" /\ busy = NoRequest /\ done = NoResult /\ preview = NoResult
      /\ busy' = Request(TRUE, content) /\ edited' = FALSE /\ moved' = FALSE
      /\ UNCHANGED <<envs, transfer, content, reading, source, picked, overwrite, preview, done,
                     orphan>>
      BY DEF Preview, options
<1>2. pairs' \in Content /\ (transfer = "import" => pairs' = content)
      BY DEF Preview, TransferTypeOK
<1>3. busy' \in Requests BY <1>1, RequestTyped DEF TransferTypeOK
<1>4. TransferTypeOK' BY <1>1, <1>2, <1>3 DEF TransferTypeOK
<1>5. OneTransfer' BY <1>1 DEF OneTransfer
<1>6. SentAsShown'
  <2>1. busy' = [dry |-> TRUE, overwrite |-> overwrite,
                 pairs |-> IF transfer = "import" THEN content ELSE BadFile,
                 source |-> IF transfer = "import" THEN NoValue ELSE source,
                 keys |-> IF transfer = "import" THEN {} ELSE picked]
        BY <1>1 DEF Request
  <2>2. busy'.dry = TRUE BY <2>1
  <2>3. busy' = [dry |-> busy'.dry, overwrite |-> overwrite',
                 pairs |-> IF transfer' = "import" THEN pairs' ELSE BadFile,
                 source |-> IF transfer' = "import" THEN NoValue ELSE source',
                 keys |-> IF transfer' = "import" THEN {} ELSE picked']
        BY <1>1, <1>2, <2>1, <2>2
  <2>4. QED BY <2>2, <2>3 DEF SentAsShown, Request
<1>7. PreviewIsCurrent' /\ ImportAsPreviewed'
      BY <1>1 DEF PreviewIsCurrent, ImportAsPreviewed
<1>8. QED BY <1>4, <1>5, <1>6, <1>7

LEMMA ApplyKeeps == ASSUME TransferInvariant, Apply PROVE TransferInvariant'
<1> USE DEF TransferInvariant
<1>1. /\ transfer # "closed" /\ done = NoResult /\ busy' = Request(FALSE, pairs)
      /\ UNCHANGED <<envs, transfer, content, reading, source, picked, overwrite, pairs, preview,
                     done, orphan, edited, moved>>
      BY DEF Apply, options, answers
<1>2. preview # NoResult BY DEF Apply, Changes, NoResult
<1>3. busy' \in Requests BY <1>1, RequestTyped DEF TransferTypeOK
<1>4. TransferTypeOK' BY <1>1, <1>3 DEF TransferTypeOK
<1>5. OneTransfer' BY <1>1 DEF OneTransfer
<1>6. SentAsShown'
  <2>1. busy' = [dry |-> FALSE, overwrite |-> overwrite,
                 pairs |-> IF transfer = "import" THEN pairs ELSE BadFile,
                 source |-> IF transfer = "import" THEN NoValue ELSE source,
                 keys |-> IF transfer = "import" THEN {} ELSE picked]
        BY <1>1 DEF Request
  <2>2. busy'.dry = FALSE BY <2>1
  <2>3. busy' = [dry |-> busy'.dry, overwrite |-> overwrite',
                 pairs |-> IF transfer' = "import" THEN pairs' ELSE BadFile,
                 source |-> IF transfer' = "import" THEN NoValue ELSE source',
                 keys |-> IF transfer' = "import" THEN {} ELSE picked']
        BY <1>1, <2>1, <2>2
  <2>4. preview' # NoResult BY <1>1, <1>2
  <2>5. QED BY <2>3, <2>4 DEF SentAsShown, Request
<1>7. PreviewIsCurrent'
      BY <1>1 DEF PreviewIsCurrent, Outcome, Brought, Request
<1>8. ImportAsPreviewed' BY <1>1 DEF ImportAsPreviewed
<1>9. QED BY <1>4, <1>5, <1>6, <1>7, <1>8

\* The outcome depends on the environments and on the options alone.
LEMMA SameOutcome ==
    ASSUME UNCHANGED <<envs, transfer, source, picked, overwrite, pairs>>
    PROVE  Outcome(Request(FALSE, pairs))' = Outcome(Request(FALSE, pairs))
BY DEF Outcome, Brought, Request

\* The answer of a dry run
LEMMA DryAnswered ==
    ASSUME TransferInvariant, busy # NoRequest, busy' = NoRequest, busy.dry,
           preview' = Outcome(busy),
           UNCHANGED <<envs, done, moved, transfer, options, pairs, orphan, edited>>
    PROVE  TransferInvariant'
<1> USE DEF TransferInvariant
<1>1. UNCHANGED <<content, reading, source, picked, overwrite>> BY DEF options
<1>2. preview' \in Results BY OutcomeTyped
<1>3. TransferTypeOK' BY <1>1, <1>2, EmptyTransfer DEF TransferTypeOK
<1>4. done = NoResult /\ transfer # "closed" BY DEF OneTransfer
<1>5. OneTransfer' BY <1>4 DEF OneTransfer
<1>6. PreviewIsCurrent'
  <2>1. SUFFICES ASSUME ~edited PROVE preview' = Outcome(Request(FALSE, pairs))'
        BY DEF PreviewIsCurrent
  <2>2. busy = Request(busy.dry, pairs) BY <2>1 DEF SentAsShown
  <2>3. preview' = Outcome(Request(FALSE, pairs)) BY <2>2, DryRunTells
  <2>4. QED BY <1>1, <2>3, SameOutcome
<1>7. SentAsShown' /\ ImportAsPreviewed' BY <1>4 DEF SentAsShown, ImportAsPreviewed
<1>8. QED BY <1>3, <1>5, <1>6, <1>7

\* The answer of the request that writes: what it has done is what it would have done when the
\* preview was asked for.
LEMMA WriteAnswered ==
    ASSUME TransferInvariant, busy # NoRequest, busy' = NoRequest, ~busy.dry,
           done' = Outcome(busy), done' # NoResult, Write(busy, Changes(Outcome(busy))),
           UNCHANGED <<preview, moved, transfer, options, pairs, orphan, edited>>
    PROVE  TransferInvariant'
<1> USE DEF TransferInvariant
<1>1. UNCHANGED <<content, reading, source, picked, overwrite>> BY DEF options
<1>2. Outcome(busy) \in Results BY OutcomeTyped
<1>3. envs' \in [Environments -> Content]
  <2>1. Changes(Outcome(busy)) \in SUBSET Keys BY <1>2 DEF Changes, Results
  <2>2. busy \in Requests BY DEF TransferTypeOK
  <2>3. QED BY <2>1, <2>2, WriteTyped
<1>4. TransferTypeOK' BY <1>1, <1>2, <1>3, EmptyTransfer DEF TransferTypeOK
<1>5. done = NoResult /\ transfer # "closed" BY DEF OneTransfer
<1>6. OneTransfer' BY <1>5 DEF OneTransfer
<1>7. ImportAsPreviewed'
  <2>1. SUFFICES ASSUME ~edited, ~moved PROVE done' = preview BY DEF ImportAsPreviewed
  <2>2. busy = Request(busy.dry, pairs) /\ preview # NoResult BY <2>1 DEF SentAsShown
  <2>3. done' = Outcome(Request(FALSE, pairs)) BY <2>2, DryRunTells
  <2>4. QED BY <1>5, <2>1, <2>2, <2>3 DEF PreviewIsCurrent
<1>8. SentAsShown' /\ PreviewIsCurrent' BY DEF SentAsShown, PreviewIsCurrent
<1>9. QED BY <1>4, <1>6, <1>7, <1>8

\* A failure: when it has written something, the environments are not what they were.
LEMMA FailureAnswered ==
    ASSUME TransferInvariant, busy # NoRequest, busy' = NoRequest,
           NEW W \in SUBSET Changes(Outcome(busy)), Write(busy, W),
           moved' = (moved \/ envs' # envs),
           UNCHANGED <<preview, done, transfer, options, pairs, orphan, edited>>
    PROVE  TransferInvariant'
<1> USE DEF TransferInvariant
<1>1. UNCHANGED <<content, reading, source, picked, overwrite>> BY DEF options
<1>2. moved' \in BOOLEAN /\ (~moved' => ~moved /\ envs' = envs) OBVIOUS
<1>3. envs' \in [Environments -> Content]
  <2>1. Outcome(busy) \in Results BY OutcomeTyped
  <2>2. W \in SUBSET Keys BY <2>1 DEF Changes, Results
  <2>3. busy \in Requests BY DEF TransferTypeOK
  <2>4. QED BY <2>2, <2>3, WriteTyped
<1>4. TransferTypeOK' BY <1>1, <1>2, <1>3, EmptyTransfer DEF TransferTypeOK
<1>5. OneTransfer' BY DEF OneTransfer
<1>6. PreviewIsCurrent'
  <2>1. SUFFICES ASSUME preview' # NoResult, done' = NoResult, ~edited', ~moved'
                 PROVE  preview' = Outcome(Request(FALSE, pairs))'
        BY DEF PreviewIsCurrent
  <2>2. preview = Outcome(Request(FALSE, pairs)) BY <1>2, <2>1 DEF PreviewIsCurrent
  <2>3. QED BY <1>1, <1>2, <2>1, <2>2, SameOutcome
<1>7. SentAsShown' BY DEF SentAsShown
<1>8. ImportAsPreviewed' BY <1>2 DEF ImportAsPreviewed
<1>9. QED BY <1>4, <1>5, <1>6, <1>7, <1>8

\* Writes that are not this dialog's
LEMMA OtherWriteKeeps ==
    ASSUME TransferInvariant, OrphanAnswered \/ OthersWrite
    PROVE  TransferInvariant'
<1> USE DEF TransferInvariant
<1>1. CASE OrphanAnswered
  <2>1. PICK W \in SUBSET Changes(Outcome(orphan)) : Write(orphan, W) BY <1>1 DEF OrphanAnswered
  <2>2. /\ orphan # NoRequest /\ orphan' = NoRequest
        /\ UNCHANGED <<transfer, content, reading, source, picked, overwrite, pairs, preview, done,
                       busy, edited, moved>>
        BY <1>1 DEF OrphanAnswered, options, answers
  <2>3. /\ transfer = "closed" /\ busy = NoRequest /\ preview = NoResult /\ done = NoResult
        BY <2>2 DEF OneTransfer
  <2>4. Outcome(orphan) \in Results BY OutcomeTyped
  <2>5. W \in SUBSET Keys /\ orphan \in Requests
        BY <2>4 DEF Changes, Results, TransferTypeOK
  <2>6. envs' \in [Environments -> Content] BY <2>1, <2>5, WriteTyped
  <2>7. TransferTypeOK' BY <2>2, <2>6, EmptyTransfer DEF TransferTypeOK
  <2>8. OneTransfer' BY <2>2 DEF OneTransfer
  <2>9. SentAsShown' /\ PreviewIsCurrent' /\ ImportAsPreviewed'
        BY <2>2, <2>3 DEF SentAsShown, PreviewIsCurrent, ImportAsPreviewed
  <2>10. QED BY <2>7, <2>8, <2>9
<1>2. CASE OthersWrite
  <2>1. PICK k \in Keys, v \in Values \cup {NoValue} : envs' = [envs EXCEPT ![Target][k] = v]
        BY <1>2 DEF OthersWrite
  <2>2. /\ done = NoResult /\ moved' = TRUE
        /\ UNCHANGED <<transfer, content, reading, source, picked, overwrite, pairs, preview, done,
                       busy, orphan, edited>>
        BY <1>2 DEF OthersWrite, options, answers
  <2>3. envs' \in [Environments -> Content] BY <2>1 DEF TransferTypeOK, Content
  <2>4. TransferTypeOK' BY <2>2, <2>3 DEF TransferTypeOK
  <2>5. OneTransfer' BY <2>2 DEF OneTransfer
  <2>6. SentAsShown' BY <2>2 DEF SentAsShown, Request
  <2>7. PreviewIsCurrent' /\ ImportAsPreviewed'
        BY <2>2 DEF PreviewIsCurrent, ImportAsPreviewed
  <2>8. QED BY <2>4, <2>5, <2>6, <2>7
<1>3. QED BY <1>1, <1>2

LEMMA TransferStepKeeps == TransferInvariant /\ [TransferNext]_transferVars => TransferInvariant'
<1>1. SUFFICES ASSUME TransferInvariant, [TransferNext]_transferVars
               PROVE  TransferInvariant'
      OBVIOUS
<1>2. orphan \in Requests /\ busy \in Requests BY <1>1 DEF TransferInvariant, TransferTypeOK
<1>3. CASE OpenImport
  <2>1. transfer' = "import" /\ orphan' = NoRequest /\ source' = NoValue /\ Fresh /\ envs' = envs
        BY <1>3 DEF OpenImport
  <2>2. QED BY <1>1, <2>1, EmptyTransfer, FreshKeeps
<1>4. CASE OpenCopy
  <2>1. transfer' = "copy" /\ orphan' = NoRequest /\ source' \in Sources /\ Fresh /\ envs' = envs
        BY <1>4 DEF OpenCopy
  <2>2. QED BY <1>1, <2>1, EmptyTransfer, FreshKeeps
<1>5. CASE CloseTransfer
  <2>1. transfer' = "closed" /\ orphan' \in {busy, NoRequest} /\ source' = NoValue /\ Fresh
        /\ envs' = envs
        BY <1>5 DEF CloseTransfer
  <2>2. QED BY <1>1, <1>2, <2>1, EmptyTransfer, FreshKeeps
<1>6. CASE \/ \E f \in Files : ChangeContent(Text[f])
           \/ FileRead \/ ToggleOverwrite
           \/ \E e \in Sources : ChangeSource(e)
           \/ \E k \in Keys : TogglePick(k)
      BY <1>1, <1>6, OptionStepKeeps
<1>7. ASSUME NEW f \in Files, ChooseFile(f) PROVE TransferInvariant'
  <2>1. /\ transfer = "import" /\ reading' = Text[f]
        /\ UNCHANGED <<envs, transfer, content, source, picked, overwrite, pairs, preview, done,
                       busy, orphan, edited, moved>>
        BY <1>7 DEF ChooseFile, answers
  <2>2. Text[f] \in Content BY TransferConstants
  <2>3. TransferTypeOK' BY <1>1, <2>1, <2>2 DEF TransferInvariant, TransferTypeOK
  <2>4. OneTransfer' BY <1>1, <2>1 DEF TransferInvariant, OneTransfer
  <2>5. SentAsShown' BY <1>1, <2>1 DEF TransferInvariant, SentAsShown, Request
  <2>6. PreviewIsCurrent' BY <1>1, <2>1, SameOutcome DEF TransferInvariant, PreviewIsCurrent
  <2>7. ImportAsPreviewed' BY <1>1, <2>1 DEF TransferInvariant, ImportAsPreviewed
  <2>8. QED BY <2>3, <2>4, <2>5, <2>6, <2>7 DEF TransferInvariant
<1>8. CASE Preview BY <1>1, <1>8, PreviewKeeps
<1>9. CASE Apply BY <1>1, <1>9, ApplyKeeps
<1>10. CASE Answered
  <2>1. busy # NoRequest /\ busy' = NoRequest
        /\ UNCHANGED <<transfer, options, pairs, orphan, edited>>
        BY <1>10 DEF Answered
  <2>2. CASE /\ busy.dry /\ preview' = Outcome(busy) /\ UNCHANGED <<envs, done, moved>>
        BY <1>1, <2>1, <2>2, DryAnswered
  <2>3. CASE /\ ~busy.dry /\ done' = Outcome(busy) /\ done' # NoResult
             /\ Write(busy, Changes(Outcome(busy))) /\ UNCHANGED <<preview, moved>>
        BY <1>1, <2>1, <2>3, WriteAnswered
  <2>4. CASE /\ \E W \in SUBSET Changes(Outcome(busy)) : Write(busy, W)
             /\ moved' = (moved \/ envs' # envs) /\ UNCHANGED <<preview, done>>
        BY <1>1, <2>1, <2>4, FailureAnswered
  <2>5. QED BY <1>10, <2>2, <2>3, <2>4 DEF Answered
<1>11. CASE OrphanAnswered \/ OthersWrite BY <1>1, <1>11, OtherWriteKeeps
<1>12. CASE UNCHANGED transferVars
  <2>1. UNCHANGED <<envs, transfer, content, reading, source, picked, overwrite, pairs, preview,
                    done, busy, orphan, edited, moved>>
        BY <1>12 DEF transferVars, options, answers
  <2>2. TransferTypeOK' BY <1>1, <2>1 DEF TransferInvariant, TransferTypeOK
  <2>3. OneTransfer' BY <1>1, <2>1 DEF TransferInvariant, OneTransfer
  <2>4. SentAsShown' BY <1>1, <2>1 DEF TransferInvariant, SentAsShown, Request
  <2>5. PreviewIsCurrent' BY <1>1, <2>1, SameOutcome DEF TransferInvariant, PreviewIsCurrent
  <2>6. ImportAsPreviewed' BY <1>1, <2>1 DEF TransferInvariant, ImportAsPreviewed
  <2>7. QED BY <2>2, <2>3, <2>4, <2>5, <2>6 DEF TransferInvariant
<1>13. QED BY <1>1, <1>3, <1>4, <1>5, <1>6, <1>7, <1>8, <1>9, <1>10, <1>11, <1>12
       DEF TransferNext

\* The type invariant of the import and copy dialogs.
THEOREM TransferTypes == TransferSpec => []TransferTypeOK
<1>1. TransferInvariant => TransferTypeOK BY DEF TransferInvariant
<1>2. QED BY <1>1, TransferInitially, TransferStepKeeps, PTL DEF TransferSpec

\* An import or copy does what its preview said, unless the environments or the options changed
\* in between: for any keys, values, environments and files.
THEOREM ImportsDoAsPreviewed == TransferSpec => []ImportAsPreviewed
<1>1. TransferInvariant => ImportAsPreviewed BY DEF TransferInvariant
<1>2. QED BY <1>1, TransferInitially, TransferStepKeeps, PTL DEF TransferSpec
------------------------------------------------------------------------------
(* SecretForms *)

\* The values stored are the secrets' own, and there is room for them.
StoredOwn ==
    /\ stored \in [FormSecrets -> Seq(Subjects)]
    /\ \A s \in FormSecrets :
          Len(stored[s]) <= MaxVersions /\ \A i \in 1..Len(stored[s]) : stored[s][i] = s

\* The text in the box was typed for the form that is open, and so was the one of a mutation
\* that was sent; a new secret is not created without one.
TextOfForm ==
    /\ value \in {Nothing, form}
    /\ \A c \in Saves : /\ saves[c].value \in {Nothing, saves[c].of}
                        /\ saves[c].of = NewSecret => saves[c].value = NewSecret

\* Versions the page knows of, has asked for or is restoring exist; those of the dialog are of
\* the secret it shows.
VersionsExist ==
    /\ \A s \in FormSecrets : known[s] <= Len(stored[s])
    /\ lookup # 0 => historyOf \in FormSecrets /\ lookup <= Len(stored[historyOf])
    /\ confirm # 0 => historyOf \in FormSecrets
    /\ restoring # NoRestore =>
           restoring.of \in FormSecrets /\ restoring.version \in 1..Len(stored[restoring.of])

RevealedOwn == revealed # NotShown => revealed.value = historyOf

FormInvariant == FormTypeOK /\ StoredOwn /\ TextOfForm /\ VersionsExist /\ RevealedOwn

LEMMA FormEmpties ==
    /\ NoSave \in SaveSet /\ NotShown \in Shown /\ NoRestore \in Restores /\ 0 \in Versions
    /\ NewSecret # Nothing /\ NewSecret \notin FormSecrets /\ Nothing \notin FormSecrets
    /\ MaxVersions \in Nat /\ MaxVersions >= 1
BY FormConstants
DEF NoSave, SaveSet, NotShown, Shown, NoRestore, Restores, Versions, Subjects

LEMMA FormInitially == FormInit => FormInvariant
<1>1. SUFFICES ASSUME FormInit PROVE FormInvariant OBVIOUS
<1> DEFINE first == CHOOSE s \in FormSecrets : TRUE
<1>2. stored = [s \in FormSecrets |-> IF s = first THEN <<s>> ELSE <<>>]
      /\ known = [s \in FormSecrets |-> IF s = first THEN 1 ELSE 0]
      BY <1>1 DEF FormInit
<1>3. \A s \in FormSecrets : /\ stored[s] \in Seq(Subjects) /\ Len(stored[s]) = known[s]
                             /\ known[s] \in {0, 1}
                             /\ \A i \in 1..Len(stored[s]) : stored[s][i] = s
  <2>1. SUFFICES ASSUME NEW s \in FormSecrets
                 PROVE  /\ stored[s] \in Seq(Subjects) /\ Len(stored[s]) = known[s]
                        /\ known[s] \in {0, 1}
                        /\ \A i \in 1..Len(stored[s]) : stored[s][i] = s
        OBVIOUS
  <2>2. s \in Subjects BY DEF Subjects
  <2>3. CASE s = first
    <3>1. stored[s] = <<s>> /\ known[s] = 1 BY <1>2, <2>3
    <3>2. QED BY <2>2, <3>1
  <2>4. CASE s # first
    <3>1. stored[s] = <<>> /\ known[s] = 0 BY <1>2, <2>4
    <3>2. QED BY <3>1
  <2>5. QED BY <2>3, <2>4
<1>4. StoredOwn BY <1>2, <1>3, FormEmpties DEF StoredOwn
<1>5. known \in [FormSecrets -> Versions] BY <1>2, FormEmpties DEF Versions
<1>6. FormTypeOK BY <1>1, <1>4, <1>5, FormEmpties DEF FormInit, FormTypeOK, StoredOwn
<1>7. TextOfForm BY <1>1, FormEmpties DEF FormInit, TextOfForm, NoSave
<1>8. VersionsExist BY <1>1, <1>3 DEF FormInit, VersionsExist
<1>9. QED BY <1>1, <1>4, <1>6, <1>7, <1>8 DEF FormInit, FormInvariant, RevealedOwn

\* A new version is a value of the secret's own.
StoreStep == UNCHANGED stored \/ \E s \in FormSecrets : Room(s) /\ Add(s, s)

LEMMA StoredGrows ==
    ASSUME StoredOwn, StoreStep
    PROVE  /\ StoredOwn'
           /\ \A t \in FormSecrets : Len(stored[t]) \in Nat /\ Len(stored'[t]) \in Nat
                                     /\ Len(stored[t]) <= Len(stored'[t])
<1>1. \A t \in FormSecrets : stored[t] \in Seq(Subjects) /\ Len(stored[t]) \in Nat
      BY DEF StoredOwn
<1>2. CASE UNCHANGED stored BY <1>1, <1>2 DEF StoredOwn
<1>3. ASSUME NEW s \in FormSecrets, Room(s), Add(s, s)
      PROVE  /\ StoredOwn'
             /\ \A t \in FormSecrets : Len(stored[t]) \in Nat /\ Len(stored'[t]) \in Nat
                                       /\ Len(stored[t]) <= Len(stored'[t])
  <2>1. stored' = [stored EXCEPT ![s] = Append(stored[s], s)] BY <1>3 DEF Add
  <2>2. s \in Subjects /\ stored[s] \in Seq(Subjects) BY <1>1 DEF Subjects
  <2>3. /\ Append(stored[s], s) \in Seq(Subjects)
        /\ Len(Append(stored[s], s)) = Len(stored[s]) + 1
        /\ \A i \in 1..(Len(stored[s]) + 1) :
              Append(stored[s], s)[i] = IF i = Len(stored[s]) + 1 THEN s ELSE stored[s][i]
        BY <2>2
  <2>4. Len(stored[s]) < MaxVersions BY <1>3 DEF Room
  <2>5. \A t \in FormSecrets : stored'[t] = IF t = s THEN Append(stored[s], s) ELSE stored[t]
        BY <2>1 DEF StoredOwn
  <2>6. stored' \in [FormSecrets -> Seq(Subjects)] BY <2>1, <2>3 DEF StoredOwn
  <2>7. \A i \in 1..(Len(stored[s]) + 1) : Append(stored[s], s)[i] = s
        BY <1>1, <2>3 DEF StoredOwn
  <2>8. Len(stored'[s]) <= MaxVersions /\ \A i \in 1..Len(stored'[s]) : stored'[s][i] = s
    <3>1. stored'[s] = Append(stored[s], s) BY <2>5
    <3>2. Len(stored'[s]) = Len(stored[s]) + 1 BY <2>3, <3>1
    <3>3. Len(stored[s]) + 1 <= MaxVersions BY <1>1, <2>4, FormEmpties
    <3>4. QED BY <2>7, <3>1, <3>2, <3>3
  <2>9. StoredOwn' BY <2>5, <2>6, <2>8 DEF StoredOwn
  <2>10. ASSUME NEW t \in FormSecrets
         PROVE  Len(stored[t]) \in Nat /\ Len(stored'[t]) \in Nat
                /\ Len(stored[t]) <= Len(stored'[t])
    <3>1. CASE t = s
      <4>1. stored'[t] = Append(stored[s], s) BY <2>5, <3>1
      <4>2. Len(stored'[t]) = Len(stored[t]) + 1 BY <2>3, <3>1, <4>1
      <4>3. QED BY <1>1, <4>2
    <3>2. CASE t # s BY <1>1, <2>5, <3>2
    <3>3. QED BY <3>1, <3>2
  <2>11. QED BY <2>9, <2>10
<1>4. QED BY <1>2, <1>3 DEF StoreStep

\* What the page knows of stays there when values are stored.
LEMMA VersionsStay ==
    ASSUME FormInvariant, StoreStep, UNCHANGED known,
           lookup' \in {0, lookup}, confirm' \in {0, confirm}, restoring' \in {NoRestore, restoring},
           UNCHANGED historyOf
    PROVE  VersionsExist'
<1>1. \A t \in FormSecrets : Len(stored[t]) \in Nat /\ Len(stored'[t]) \in Nat
                             /\ Len(stored[t]) <= Len(stored'[t])
      BY StoredGrows DEF FormInvariant
<1>2. /\ known \in [FormSecrets -> Nat] /\ lookup \in Nat /\ confirm \in Nat
      /\ restoring.version \in Nat
      BY FormEmpties DEF FormInvariant, FormTypeOK, Versions, Restores
<1>3. \A s \in FormSecrets : known'[s] <= Len(stored'[s])
      BY <1>1, <1>2 DEF FormInvariant, VersionsExist
<1>4. lookup' # 0 => historyOf' \in FormSecrets /\ lookup' <= Len(stored'[historyOf'])
      BY <1>1, <1>2 DEF FormInvariant, VersionsExist
<1>5. confirm' # 0 => historyOf' \in FormSecrets BY DEF FormInvariant, VersionsExist
<1>6. restoring' # NoRestore =>
          restoring'.of \in FormSecrets /\ restoring'.version \in 1..Len(stored'[restoring'.of])
      BY <1>1, <1>2 DEF FormInvariant, VersionsExist
<1>7. QED BY <1>3, <1>4, <1>5, <1>6 DEF VersionsExist
LEMMA SavedStores == ASSUME FormInvariant, NEW c \in Saves, Saved(c) PROVE StoreStep
<1>1. /\ saves[c].value \in {Nothing, saves[c].of}
      /\ saves[c].of = NewSecret => saves[c].value = NewSecret
      BY DEF FormInvariant, TextOfForm
<1>2. CASE saves[c].of = NewSecret
  <2>1. PICK s \in FormSecrets :
            Room(s) /\ Add(s, IF saves[c].value = NewSecret THEN s ELSE saves[c].value)
        BY <1>2, FormEmpties DEF Saved
  <2>2. Add(s, s) BY <1>1, <1>2, <2>1
  <2>3. QED BY <2>1, <2>2 DEF StoreStep
<1>3. CASE saves[c].of # NewSecret
  <2>1. /\ saves[c].of \in FormSecrets
        /\ IF saves[c].value = Nothing THEN UNCHANGED stored
           ELSE Room(saves[c].of) /\ Add(saves[c].of, saves[c].value)
        BY <1>3 DEF Saved
  <2>2. CASE saves[c].value = Nothing BY <2>1, <2>2 DEF StoreStep
  <2>3. CASE saves[c].value # Nothing
    <3>1. saves[c].value = saves[c].of BY <1>1, <2>3
    <3>2. QED BY <2>1, <2>3, <3>1 DEF StoreStep
  <2>4. QED BY <2>2, <2>3
<1>4. QED BY <1>2, <1>3

\* Refetching the lists, and opening, closing and filling the form
LEMMA FormBoxKeeps ==
    ASSUME FormInvariant,
           \/ \E s \in Subjects : OpenForm(s)
           \/ CloseForm \/ TypeKey \/ TypeValue \/ Refetch
    PROVE  FormInvariant'
<1> USE DEF FormInvariant
<1> DEFINE BoxStep == /\ UNCHANGED <<stored, known, saves, historyOf, revealed, confirm, lookup,
                                     restoring>>
                      /\ form' \in Subjects \cup {Nothing} /\ keyTyped' \in BOOLEAN
                      /\ value' \in {Nothing, form'}
<1>1. ASSUME BoxStep PROVE FormInvariant'
  <2>1. FormTypeOK' BY <1>1 DEF FormTypeOK
  <2>2. StoredOwn' BY <1>1 DEF StoredOwn
  <2>3. TextOfForm' BY <1>1 DEF TextOfForm
  <2>4. VersionsExist' /\ RevealedOwn' BY <1>1 DEF VersionsExist, RevealedOwn
  <2>5. QED BY <2>1, <2>2, <2>3, <2>4
<1>2. ASSUME NEW s \in Subjects, OpenForm(s) PROVE FormInvariant'
  <2>1. keyTyped' \in BOOLEAN BY <1>2 DEF OpenForm, ResetForms
  <2>2. BoxStep BY <1>2, <2>1 DEF OpenForm, ResetForms, historyState
  <2>3. QED BY <1>1, <2>2
<1>3. CASE CloseForm
  <2>1. keyTyped' \in BOOLEAN BY <1>3 DEF CloseForm, ResetForms
  <2>2. BoxStep BY <1>3, <2>1 DEF CloseForm, ResetForms, historyState
  <2>3. QED BY <1>1, <2>2
<1>4. CASE TypeKey
  <2>1. keyTyped' \in BOOLEAN BY <1>4, Zenon DEF TypeKey
  <2>2. BoxStep BY <1>4, <2>1 DEF TypeKey, historyState, FormTypeOK, TextOfForm
  <2>3. QED BY <1>1, <2>2
<1>5. CASE TypeValue
  <2>1. BoxStep BY <1>5 DEF TypeValue, historyState, FormTypeOK
  <2>2. QED BY <1>1, <2>1
<1>6. CASE Refetch
  <2>1. /\ known' = [s \in FormSecrets |-> Len(stored[s])]
        /\ UNCHANGED <<stored, form, keyTyped, value, saves, historyOf, revealed, confirm, lookup,
                       restoring>>
        BY <1>6 DEF Refetch, formState, historyState
  <2>2. \A s \in FormSecrets : Len(stored[s]) \in Versions
        BY FormEmpties DEF FormTypeOK, Versions
  <2>3. known' \in [FormSecrets -> Versions] BY <2>1, <2>2
  <2>4. FormTypeOK' BY <2>1, <2>3 DEF FormTypeOK
  <2>5. StoredOwn' /\ TextOfForm' BY <2>1 DEF StoredOwn, TextOfForm
  <2>6. \A s \in FormSecrets : known'[s] <= Len(stored'[s])
        BY <2>1, <2>2, FormEmpties DEF Versions
  <2>7. VersionsExist' /\ RevealedOwn' BY <2>1, <2>6 DEF VersionsExist, RevealedOwn
  <2>8. QED BY <2>4, <2>5, <2>7
<1>7. QED BY <1>2, <1>3, <1>4, <1>5, <1>6

\* Sending the form, and its answers
LEMMA SubmitFormKeeps ==
    ASSUME FormInvariant, NEW c \in Saves, SubmitForm(c)
    PROVE  FormInvariant'
<1> USE DEF FormInvariant
<1>1. UNCHANGED <<stored, known, form, keyTyped, value, historyOf, revealed, confirm, lookup,
                  restoring>>
      BY DEF SubmitForm, formState, historyState
<1>2. form \in Subjects /\ value \in Subjects \cup {Nothing} /\ value \in {Nothing, form}
      /\ (form = NewSecret => value # Nothing)
      BY DEF SubmitForm, FormTypeOK, TextOfForm
<1>3. saves' = [d \in Saves |->
                  IF d = c THEN [of |-> form, value |-> value, latest |-> TRUE]
                  ELSE IF (saves[d].of = NewSecret) = (form = NewSecret)
                       THEN [saves[d] EXCEPT !.latest = FALSE] ELSE saves[d]]
      BY DEF SubmitForm
<1>4. \A d \in Saves : /\ saves'[d] \in SaveSet
                       /\ saves'[d].of = IF d = c THEN form ELSE saves[d].of
                       /\ saves'[d].value = IF d = c THEN value ELSE saves[d].value
  <2>1. SUFFICES ASSUME NEW d \in Saves
                 PROVE  /\ saves'[d] \in SaveSet
                        /\ saves'[d].of = IF d = c THEN form ELSE saves[d].of
                        /\ saves'[d].value = IF d = c THEN value ELSE saves[d].value
        OBVIOUS
  <2>2. saves[d] \in SaveSet BY DEF FormTypeOK
  <2>3. CASE d = c
    <3>1. saves'[d] = [of |-> form, value |-> value, latest |-> TRUE] BY <1>3, <2>3
    <3>2. QED BY <1>2, <2>3, <3>1 DEF SaveSet
  <2>4. CASE d # c
    <3>1. saves'[d] \in {saves[d], [saves[d] EXCEPT !.latest = FALSE]} BY <1>3, <2>4
    <3>2. QED BY <2>2, <2>4, <3>1 DEF SaveSet
  <2>5. QED BY <2>3, <2>4
<1>5. saves' \in [Saves -> SaveSet] BY <1>3, <1>4
<1>6. FormTypeOK' BY <1>1, <1>5 DEF FormTypeOK
<1>7. StoredOwn' BY <1>1 DEF StoredOwn
<1>8. TextOfForm' BY <1>1, <1>2, <1>4 DEF TextOfForm
<1>9. VersionsExist' /\ RevealedOwn' BY <1>1 DEF VersionsExist, RevealedOwn
<1>10. QED BY <1>6, <1>7, <1>8, <1>9

\* The parts of the invariant on what is stored and known, after a step that stores
LEMMA StoringKeeps ==
    ASSUME FormInvariant, StoreStep, UNCHANGED <<known, historyOf>>,
           form' \in Subjects \cup {Nothing}, keyTyped' \in BOOLEAN,
           value' \in {Nothing, form'},
           UNCHANGED saves \/ \E c \in Saves : saves' = [saves EXCEPT ![c] = NoSave],
           lookup' \in {0, lookup}, confirm' \in {0, confirm},
           revealed' \in {NotShown, revealed}, restoring' \in {NoRestore, restoring}
    PROVE  FormInvariant'
<1> USE DEF FormInvariant
<1>1. StoredOwn' BY StoredGrows
<1>2. VersionsExist' BY VersionsStay
<1>3. saves' \in [Saves -> SaveSet] BY FormEmpties DEF FormTypeOK
<1>4. \A c \in Saves : saves'[c] \in {NoSave, saves[c]} BY DEF FormTypeOK
<1>5. TextOfForm' BY <1>4, FormEmpties DEF TextOfForm, NoSave
<1>6. FormTypeOK'
  <2>1. \A s \in FormSecrets : stored'[s] \in Seq(Subjects) /\ Len(stored'[s]) <= MaxVersions
        BY <1>1 DEF StoredOwn
  <2>2. value' \in Subjects \cup {Nothing} /\ revealed' \in Shown /\ restoring' \in Restores
        /\ confirm' \in Versions /\ lookup' \in Versions
        BY FormEmpties DEF FormTypeOK
  <2>3. known' \in [FormSecrets -> Versions] /\ historyOf' \in FormSecrets \cup {Nothing}
        BY DEF FormTypeOK
  <2>4. QED BY <1>3, <2>1, <2>2, <2>3 DEF FormTypeOK
<1>7. RevealedOwn' BY DEF RevealedOwn
<1>8. QED BY <1>1, <1>2, <1>5, <1>6, <1>7

LEMMA SaveAnsweredKeeps ==
    ASSUME FormInvariant, NEW c \in Saves, SaveAnswered(c) \/ SaveFailed(c)
    PROVE  FormInvariant'
<1>1. StoreStep
  <2>1. Saved(c) \/ UNCHANGED stored BY DEF SaveAnswered, SaveFailed
  <2>2. QED BY <2>1, SavedStores DEF StoreStep
<1>2. /\ saves' = [saves EXCEPT ![c] = NoSave]
      /\ UNCHANGED <<known, historyOf, revealed, confirm, lookup, restoring>>
      BY DEF SaveAnswered, SaveFailed, historyState
<1>3. \/ form' = Nothing /\ ResetForms(Nothing)
      \/ UNCHANGED <<form, keyTyped, value>>
      BY DEF SaveAnswered, SaveFailed, formState
<1>4. form' \in Subjects \cup {Nothing} /\ value' \in {Nothing, form'}
      BY <1>3 DEF ResetForms, FormInvariant, FormTypeOK, TextOfForm
<1>5. keyTyped' \in BOOLEAN
  <2>1. CASE keyTyped' = (Nothing \in FormSecrets)
        BY <2>1, FormEmpties
  <2>2. CASE UNCHANGED keyTyped BY <2>2 DEF FormInvariant, FormTypeOK
  <2>3. QED BY <1>3, <2>1, <2>2 DEF ResetForms
<1>6. QED BY <1>1, <1>2, <1>4, <1>5, StoringKeeps

LEMMA RestoreEndsKeeps ==
    ASSUME FormInvariant, RestoreAnswered \/ RestoreFailed
    PROVE  FormInvariant'
<1> USE DEF FormInvariant
<1>1. /\ restoring' = NoRestore /\ restoring # NoRestore
      /\ UNCHANGED <<known, form, keyTyped, value, saves, historyOf, lookup>>
      BY DEF RestoreAnswered, RestoreFailed, formState
<1>2. revealed' \in {NotShown, revealed} /\ confirm' \in {0, confirm}
      BY DEF RestoreAnswered, RestoreFailed
<1>3. StoreStep
  <2>1. CASE RestoreFailed BY <2>1 DEF RestoreFailed, StoreStep
  <2>2. CASE RestoreAnswered
    <3>1. restoring.of \in FormSecrets /\ restoring.version \in 1..Len(stored[restoring.of])
          BY <1>1 DEF VersionsExist
    <3>2. stored[restoring.of][restoring.version] = restoring.of BY <3>1 DEF StoredOwn
    <3>3. Room(restoring.of) /\ Add(restoring.of, stored[restoring.of][restoring.version])
          BY <2>2 DEF RestoreAnswered
    <3>4. QED BY <3>1, <3>2, <3>3 DEF StoreStep
  <2>3. QED BY <2>1, <2>2
<1>4. form' \in Subjects \cup {Nothing} /\ keyTyped' \in BOOLEAN /\ value' \in {Nothing, form'}
      BY <1>1 DEF FormTypeOK, TextOfForm
<1>5. QED BY <1>1, <1>2, <1>3, <1>4, StoringKeeps

\* The history dialog: what it asks for is of the secret it shows, and so is what it is told.
LEMMA HistoryKeeps ==
    ASSUME FormInvariant,
           \/ \E s \in FormSecrets : OpenHistory(s)
           \/ \E n \in 1..MaxVersions : ClickVersion(n) \/ ClickRestore(n)
           \/ CloseHistory \/ VersionAnswered \/ VersionFailed \/ HideVersion \/ ConfirmRestore
    PROVE  FormInvariant'
<1> USE DEF FormInvariant
<1> DEFINE HistoryStep == /\ UNCHANGED <<stored, known, form, keyTyped, value, saves>>
                          /\ historyOf' \in FormSecrets \cup {Nothing} /\ revealed' \in Shown
                          /\ confirm' \in Versions /\ lookup' \in Versions
                          /\ restoring' \in Restores
                          /\ VersionsExist' /\ RevealedOwn'
<1>1. ASSUME HistoryStep PROVE FormInvariant'
  <2>1. FormTypeOK' BY <1>1 DEF FormTypeOK
  <2>2. StoredOwn' /\ TextOfForm' BY <1>1 DEF StoredOwn, TextOfForm
  <2>3. QED BY <1>1, <2>1, <2>2
<1>2. \A s \in FormSecrets : known[s] \in Nat /\ known[s] <= MaxVersions /\ Len(stored[s]) \in Nat
                             /\ known[s] <= Len(stored[s])
      BY FormEmpties DEF FormTypeOK, Versions, VersionsExist
<1>3. ASSUME NEW s \in FormSecrets, OpenHistory(s) PROVE FormInvariant'
  <2>1. /\ UNCHANGED <<stored, known, form, keyTyped, value, saves, restoring>>
        /\ historyOf' = s /\ revealed' = NotShown /\ confirm' = 0 /\ lookup' = 0
        BY <1>3 DEF OpenHistory, FreshHistory, formState
  <2>2. VersionsExist' /\ RevealedOwn' BY <2>1 DEF VersionsExist, RevealedOwn
  <2>3. HistoryStep BY <2>1, <2>2, FormEmpties DEF FormTypeOK
  <2>4. QED BY <1>1, <2>3
<1>4. CASE CloseHistory
  <2>1. /\ UNCHANGED <<stored, known, form, keyTyped, value, saves>>
        /\ historyOf' = Nothing /\ revealed' = NotShown /\ confirm' = 0 /\ lookup' = 0
        /\ restoring' = [restoring EXCEPT !.mine = FALSE]
        BY <1>4 DEF CloseHistory, FreshHistory, formState
  <2>2. restoring \in Restores BY DEF FormTypeOK
  <2>3. /\ restoring' \in Restores /\ restoring'.of = restoring.of
        /\ restoring'.version = restoring.version
        BY <2>1, <2>2 DEF Restores
  <2>4. restoring = NoRestore => restoring' = NoRestore
    <3>1. SUFFICES ASSUME restoring.mine = FALSE PROVE restoring' = restoring BY DEF NoRestore
    <3>2. QED BY <2>1, <2>2, <3>1 DEF Restores
  <2>5. VersionsExist' /\ RevealedOwn'
        BY <2>1, <2>3, <2>4 DEF VersionsExist, RevealedOwn
  <2>6. HistoryStep BY <2>1, <2>3, <2>5, FormEmpties
  <2>7. QED BY <1>1, <2>6
<1>5. ASSUME NEW n \in 1..MaxVersions, ClickVersion(n) PROVE FormInvariant'
  <2>1. /\ UNCHANGED <<stored, known, form, keyTyped, value, saves, historyOf, revealed, confirm,
                       restoring>>
        /\ historyOf # Nothing /\ n \in 1..known[historyOf] /\ lookup' = n
        BY <1>5 DEF ClickVersion, formState
  <2>2. historyOf \in FormSecrets BY <2>1 DEF FormTypeOK
  <2>3. n <= Len(stored[historyOf]) /\ n \in Versions
        BY <1>2, <2>1, <2>2, FormEmpties DEF Versions
  <2>4. VersionsExist' /\ RevealedOwn' BY <2>1, <2>2, <2>3 DEF VersionsExist, RevealedOwn
  <2>5. HistoryStep BY <2>1, <2>3, <2>4 DEF FormTypeOK
  <2>6. QED BY <1>1, <2>5
<1>6. ASSUME NEW n \in 1..MaxVersions, ClickRestore(n) PROVE FormInvariant'
  <2>1. /\ UNCHANGED <<stored, known, form, keyTyped, value, saves, historyOf, revealed, lookup,
                       restoring>>
        /\ historyOf # Nothing /\ confirm' = n
        BY <1>6 DEF ClickRestore, formState
  <2>2. historyOf \in FormSecrets /\ n \in Versions
        BY <2>1, FormEmpties DEF FormTypeOK, Versions
  <2>3. VersionsExist' /\ RevealedOwn' BY <2>1, <2>2 DEF VersionsExist, RevealedOwn
  <2>4. HistoryStep BY <2>1, <2>2, <2>3 DEF FormTypeOK
  <2>5. QED BY <1>1, <2>4
<1>7. CASE VersionAnswered
  <2>1. /\ UNCHANGED <<stored, known, form, keyTyped, value, saves, historyOf, confirm, restoring>>
        /\ lookup # 0 /\ lookup' = 0
        /\ revealed' = [version |-> lookup, value |-> stored[historyOf][lookup]]
        BY <1>7 DEF VersionAnswered, formState
  <2>2. historyOf \in FormSecrets /\ lookup \in Versions /\ lookup \in 1..Len(stored[historyOf])
        BY <1>2, <2>1, FormEmpties DEF FormTypeOK, Versions, VersionsExist
  <2>3. stored[historyOf][lookup] = historyOf BY <2>2 DEF StoredOwn
  <2>4. revealed' \in Shown /\ revealed'.value = historyOf
        BY <2>1, <2>2, <2>3 DEF Shown, Subjects
  <2>5. VersionsExist' /\ RevealedOwn' BY <2>1, <2>4 DEF VersionsExist, RevealedOwn
  <2>6. HistoryStep BY <2>1, <2>4, <2>5, FormEmpties DEF FormTypeOK
  <2>7. QED BY <1>1, <2>6
<1>8. CASE VersionFailed \/ HideVersion
  <2>1. /\ UNCHANGED <<stored, known, form, keyTyped, value, saves, historyOf, confirm, restoring>>
        /\ lookup' \in {0, lookup} /\ revealed' \in {NotShown, revealed}
        BY <1>8 DEF VersionFailed, HideVersion, formState
  <2>2. VersionsExist' /\ RevealedOwn' BY <2>1 DEF VersionsExist, RevealedOwn
  <2>3. HistoryStep BY <2>1, <2>2, FormEmpties DEF FormTypeOK
  <2>4. QED BY <1>1, <2>3
<1>9. CASE ConfirmRestore
  <2>1. /\ UNCHANGED <<stored, known, form, keyTyped, value, saves, historyOf, revealed, confirm,
                       lookup>>
        /\ confirm # 0 /\ confirm < known[historyOf]
        /\ restoring' = [of |-> historyOf, version |-> confirm, mine |-> TRUE]
        BY <1>9 DEF ConfirmRestore, formState, historyState
  <2>2. historyOf \in FormSecrets /\ confirm \in Versions
        BY <2>1 DEF FormTypeOK, VersionsExist
  <2>3. confirm \in 1..Len(stored[historyOf]) BY <1>2, <2>1, <2>2, FormEmpties DEF Versions
  <2>4. /\ restoring' \in Restores /\ restoring'.of = historyOf /\ restoring'.version = confirm
        BY <2>1, <2>2 DEF Restores
  <2>5. VersionsExist' /\ RevealedOwn'
        BY <2>1, <2>2, <2>3, <2>4 DEF VersionsExist, RevealedOwn
  <2>6. HistoryStep BY <2>1, <2>4, <2>5 DEF FormTypeOK
  <2>7. QED BY <1>1, <2>6
<1>10. QED BY <1>3, <1>4, <1>5, <1>6, <1>7, <1>8, <1>9

LEMMA FormStepKeeps == FormInvariant /\ [FormNext]_formVars => FormInvariant'
<1>1. SUFFICES ASSUME FormInvariant, [FormNext]_formVars PROVE FormInvariant' OBVIOUS
<1>2. ASSUME NEW c \in Saves, SubmitForm(c) PROVE FormInvariant'
      BY <1>1, <1>2, SubmitFormKeeps
<1>3. ASSUME NEW c \in Saves, SaveAnswered(c) \/ SaveFailed(c) PROVE FormInvariant'
      BY <1>1, <1>3, SaveAnsweredKeeps
<1>4. CASE RestoreAnswered \/ RestoreFailed BY <1>1, <1>4, RestoreEndsKeeps
<1>5. CASE \/ \E s \in Subjects : OpenForm(s)
           \/ CloseForm \/ TypeKey \/ TypeValue \/ Refetch
      BY <1>1, <1>5, FormBoxKeeps
<1>6. CASE \/ \E s \in FormSecrets : OpenHistory(s)
           \/ \E n \in 1..MaxVersions : ClickVersion(n) \/ ClickRestore(n)
           \/ CloseHistory \/ VersionAnswered \/ VersionFailed \/ HideVersion \/ ConfirmRestore
      BY <1>1, <1>6, HistoryKeeps
<1>7. CASE UNCHANGED formVars
      BY <1>1, <1>7
      DEF formVars, formState, historyState, FormInvariant, FormTypeOK, StoredOwn, TextOfForm,
          VersionsExist, RevealedOwn
<1>8. QED BY <1>1, <1>2, <1>3, <1>4, <1>5, <1>6, <1>7 DEF FormNext

\* The type invariant of the secret form and its history dialog.
THEOREM FormTypes == FormSpec => []FormTypeOK
<1>1. FormInvariant => FormTypeOK BY DEF FormInvariant
<1>2. QED BY <1>1, FormInitially, FormStepKeeps, PTL DEF FormSpec

\* No value typed for one secret is stored for another or shown in another's history, for any
\* secrets, mutations in flight and numbers of versions.
THEOREM ValuesStayWithTheirSecret == FormSpec => []ValueTypedForSecret
<1>1. FormInvariant => ValueTypedForSecret
      BY DEF FormInvariant, StoredOwn, RevealedOwn, ValueTypedForSecret
<1>2. QED BY <1>1, FormInitially, FormStepKeeps, PTL DEF FormSpec
=============================================================================
