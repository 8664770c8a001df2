--------------------------- MODULE AccountsProofs ---------------------------
(***************************************************************************)
(* Proofs about Accounts, for any number of requests, tokens, sessions and *)
(* links and any set of operations.                                        *)
(***************************************************************************)
EXTENDS Accounts, TLAPS, FiniteSetTheorems

-----------------------------------------------------------------------------
(* Types *)

LEMMA IdleTyped == Idle \in RequestRecords
  BY DEF Idle, RequestRecords, Phases, Answers

LEMMA AsksFields ==
  ASSUME NEW op, NEW t, NEW f, NEW l, NEW p
  PROVE  /\ Asks(op, t, f, l, p).op = op /\ Asks(op, t, f, l, p).token = t
         /\ Asks(op, t, f, l, p).family = f /\ Asks(op, t, f, l, p).phase = p
         /\ Asks(op, t, f, l, p).link = l
  BY DEF Asks, Idle

\* Every record a request arrives with is well-formed.
LEMMA ArrivalsTyped ==
  ASSUME TypeOK, NEW q \in PossibleRequests
  PROVE  q \in RequestRecords
  <1>1. \A op, t, f, l, p :
          op \in SessionSignOuts \cup {"none", "login", "refresh", "forgot"}
            /\ t \in Tokens \cup {None} /\ f \in Families \cup {None}
            /\ l \in Links \cup {None} /\ p \in Phases
          => Asks(op, t, f, l, p) \in RequestRecords
    <2> SUFFICES ASSUME NEW op \in SessionSignOuts \cup {"none", "login", "refresh", "forgot"},
                        NEW t \in Tokens \cup {None}, NEW f \in Families \cup {None},
                        NEW l \in Links \cup {None}, NEW p \in Phases
                 PROVE  Asks(op, t, f, l, p) \in RequestRecords
      OBVIOUS
    <2>q. QED
      BY IdleTyped DEF Asks, RequestRecords
  <1>2. CASE \E op \in {"refresh", "logout"}, t \in Tokens : q = Asks(op, t, None, None, "read")
    BY <1>1, <1>2 DEF SessionSignOuts, Phases
  <1>3. CASE \E f \in Families : \/ q = Asks("change_password", None, f, None, "read")
                                 \/ q = Asks("revoke_session", None, f, None, "revoke")
                                 \/ q = Asks("revoke_others", None, f, None, "revoke_others")
    BY <1>1, <1>3 DEF SessionSignOuts, Phases
  <1>4. CASE \E l \in Links : q = Asks("reset", None, None, l, "read")
    BY <1>1, <1>4 DEF SessionSignOuts, Phases
  <1>5. CASE \/ q = Asks("login", None, None, None, "read")
             \/ q = Asks("forgot", None, None, None, "invalidate")
    BY <1>1, <1>5 DEF SessionSignOuts, Phases
  <1>q. QED
    BY <1>2, <1>3, <1>4, <1>5 DEF PossibleRequests, Callers

\* Going to another phase and answering leave a request well-formed.
LEMMA GoTyped ==
  ASSUME TypeOK, NEW r \in Requests, NEW p \in Phases, Go(r, p)
  PROVE  req' \in [Requests -> RequestRecords]
  BY DEF TypeOK, Go, RequestRecords

LEMMA AnswerTyped ==
  ASSUME TypeOK, NEW r \in Requests, NEW a \in Answers, Answer(r, a)
  PROVE  req' \in [Requests -> RequestRecords]
  <1>1. [Idle EXCEPT !.phase = "done", !.answer = a] \in RequestRecords
    BY DEF Idle, RequestRecords, Phases
  <1>q. QED
    BY <1>1 DEF TypeOK, Answer

LEMMA RevokedTyped ==
  ASSUME TypeOK, NEW F, NEW S, "unused" \notin S, tokens' = Revoked(F, S)
  PROVE  /\ tokens' \in [Tokens -> [state : TokenStates, family : Families \cup {None}]]
         /\ \A t \in Tokens : tokens'[t].state = "unused" <=> tokens'[t].family = None
  BY DEF TypeOK, Revoked, TokenStates

\* Changing one issued token's state leaves the token table well-formed.
LEMMA TokenStateTyped ==
  ASSUME TypeOK, NEW t \in Tokens, tokens[t].state # "unused", NEW s \in {"revoked", "expired"},
         tokens' = [tokens EXCEPT ![t].state = s]
  PROVE  /\ tokens' \in [Tokens -> [state : TokenStates, family : Families \cup {None}]]
         /\ \A u \in Tokens : tokens'[u].state = "unused" <=> tokens'[u].family = None
  BY DEF TypeOK, TokenStates

LEMMA SignOutTyped ==
  ASSUME TypeOK, NEW F, NEW table, SignOut(F, table)
  PROVE  signedOut' \in [Families -> Ends]
  BY DEF TypeOK, SignOut, Ends

\* The family of a token to be created is known, so the table stays well-formed.
LEMMA TypeStep == SessionInvariant /\ [Next]_vars => TypeOK'
<1> SUFFICES ASSUME SessionInvariant, [Next]_vars PROVE TypeOK'
  OBVIOUS
<1>0. TypeOK
  BY DEF SessionInvariant
<1> USE <1>0, AccountConstants
<1>1. ASSUME NEW r \in Requests, Start(r) PROVE TypeOK'
  <2>1. PICK q \in PossibleRequests : req' = [req EXCEPT ![r] = q]
    BY <1>1 DEF Start
  <2>2. req' \in [Requests -> RequestRecords]
    BY <2>1, ArrivalsTyped DEF TypeOK
  <2>q. QED
    BY <1>1, <2>2 DEF Start, TypeOK
<1>2. ASSUME NEW r \in Requests, LoginRead(r) PROVE TypeOK'
  <2>1. req' \in [Requests -> RequestRecords]
    <3>1. CASE Answer(r, "refused")
      BY <3>1, AnswerTyped DEF Answers
    <3>2. CASE Go(r, "fail") \/ Go(r, "clear")
      BY <3>2, GoTyped DEF Phases
    <3>3. CASE \E f \in FreshFamilies :
                 req' = [req EXCEPT ![r].phase = "clear", ![r].family = f]
      BY <3>3 DEF TypeOK, RequestRecords, Phases, FreshFamilies
    <3>q. QED
      BY <1>2, <3>1, <3>2, <3>3 DEF LoginRead
  <2>q. QED
    BY <1>2, <2>1 DEF LoginRead, TypeOK
<1>3. ASSUME NEW r \in Requests, RecordLoginFailure(r) PROVE TypeOK'
  <2>1. req' \in [Requests -> RequestRecords]
    BY <1>3, AnswerTyped DEF RecordLoginFailure, Answers
  <2>2. user' \in [verified : BOOLEAN, failures : Nat, locked : BOOLEAN]
    <3>1. user.failures + 1 \in Nat /\ user \in [verified : BOOLEAN, failures : Nat, locked : BOOLEAN]
      BY DEF TypeOK
    <3>2. (user.locked \/ user.failures + 1 >= Threshold) \in BOOLEAN
      OBVIOUS
    <3>3. Counted \in [verified : BOOLEAN, failures : Nat, locked : BOOLEAN]
      BY <3>1, <3>2 DEF Counted
    <3>q. QED
      BY <1>3, <3>3 DEF RecordLoginFailure, TypeOK
  <2>q. QED
    BY <1>3, <2>1, <2>2 DEF RecordLoginFailure, TypeOK
<1>4. ASSUME NEW r \in Requests, ResetLoginFailures(r) PROVE TypeOK'
  <2>1. req' \in [Requests -> RequestRecords]
    BY <1>4, AnswerTyped, GoTyped DEF ResetLoginFailures, SignInIfVerified, Answers, Phases
  <2>q. QED
    BY <1>4, <2>1 DEF ResetLoginFailures, TypeOK
<1>5. ASSUME NEW r \in Requests, CreateToken(r) PROVE TypeOK'
  <2>1. req' \in [Requests -> RequestRecords]
    BY <1>5, AnswerTyped DEF CreateToken, Answers
  <2>2. req[r].family \in Families
    BY <1>5 DEF CreateToken, SessionInvariant, OneCreator, Creating, TypeOK, RequestRecords
  <2>3. PICK t \in Tokens :
          tokens' = [tokens EXCEPT ![t] = [state |-> "live", family |-> req[r].family]]
    BY <1>5 DEF CreateToken
  <2>4. /\ tokens' \in [Tokens -> [state : TokenStates, family : Families \cup {None}]]
        /\ \A u \in Tokens : tokens'[u].state = "unused" <=> tokens'[u].family = None
    BY <2>2, <2>3 DEF TypeOK, TokenStates
  <2>q. QED
    BY <1>5, <2>1, <2>4 DEF CreateToken, TypeOK
<1>6. ASSUME NEW r \in Requests, RefreshRead(r) PROVE TypeOK'
  <2>1. req' \in [Requests -> RequestRecords]
    <3>1. CASE Answer(r, "refused")
      BY <3>1, AnswerTyped DEF Answers
    <3>2. CASE /\ Live(req[r].token)
               /\ req' = [req EXCEPT ![r].phase = "revoke", ![r].family = tokens[req[r].token].family]
      <4>1. tokens[req[r].token].family \in Families \cup {None}
        BY <1>6 DEF RefreshRead, SessionInvariant, TokensKnown, TypeOK, RequestRecords
      <4>2. PICK f \in Families \cup {None} :
              req' = [req EXCEPT ![r].phase = "revoke", ![r].family = f]
        BY <3>2, <4>1
      <4>3. [req[r] EXCEPT !.phase = "revoke", !.family = f] \in RequestRecords
        <5>1. "revoke" \in Phases /\ req[r] \in RequestRecords
          BY DEF TypeOK, Phases
        <5>q. QED
          BY ONLY <5>1, <4>2 DEF RequestRecords
      <4>4. req' = [req EXCEPT ![r] = [req[r] EXCEPT !.phase = "revoke", !.family = f]]
        BY <4>2 DEF TypeOK
      <4>q. QED
        BY <4>3, <4>4 DEF TypeOK
    <3>q. QED
      BY <1>6, <3>1, <3>2 DEF RefreshRead
  <2>q. QED
    BY <1>6, <2>1 DEF RefreshRead, TypeOK
<1>7. ASSUME NEW r \in Requests, RefreshRevoke(r) PROVE TypeOK'
  <2>1. req' \in [Requests -> RequestRecords]
    BY <1>7, AnswerTyped, GoTyped DEF RefreshRevoke, Answers, Phases
  <2>2. req[r].token \in Tokens
    BY <1>7 DEF RefreshRevoke, SessionInvariant, TokensKnown, TypeOK, RequestRecords
  <2>3. /\ tokens' \in [Tokens -> [state : TokenStates, family : Families \cup {None}]]
        /\ \A u \in Tokens : tokens'[u].state = "unused" <=> tokens'[u].family = None
    BY <1>7, <2>2, TokenStateTyped DEF RefreshRevoke, StillUnrevoked, Unrevoked, TypeOK
  <2>q. QED
    BY <1>7, <2>1, <2>3 DEF RefreshRevoke, TypeOK
<1>8. ASSUME NEW r \in Requests, LogoutRead(r) PROVE TypeOK'
  <2>1. req' \in [Requests -> RequestRecords]
    BY <1>8, GoTyped DEF LogoutRead, Phases
  <2>q. QED
    BY <1>8, <2>1 DEF LogoutRead, TypeOK
<1>9. ASSUME NEW r \in Requests, LogoutRevoke(r) PROVE TypeOK'
  <2> DEFINE t == req[r].token
  <2>1. req' \in [Requests -> RequestRecords]
    BY <1>9, AnswerTyped DEF LogoutRevoke, Answers
  <2>2. CASE Unrevoked(t)
    <3>1. t \in Tokens
      BY <1>9, <2>2 DEF LogoutRevoke, SessionInvariant, TokensKnown, TypeOK, RequestRecords
    <3>2. /\ tokens' \in [Tokens -> [state : TokenStates, family : Families \cup {None}]]
          /\ \A u \in Tokens : tokens'[u].state = "unused" <=> tokens'[u].family = None
      BY <1>9, <2>2, <3>1, TokenStateTyped DEF LogoutRevoke, SignOut, Unrevoked
    <3>3. signedOut' \in [Families -> Ends]
      BY <1>9, <2>2, SignOutTyped DEF LogoutRevoke
    <3>q. QED
      BY <1>9, <2>1, <3>2, <3>3 DEF LogoutRevoke, TypeOK
  <2>3. CASE ~Unrevoked(t)
    BY <1>9, <2>1, <2>3 DEF LogoutRevoke, TypeOK
  <2>q. QED
    BY <2>2, <2>3
<1>10. ASSUME NEW r \in Requests, RevokeSession(r) PROVE TypeOK'
  <2>1. req' \in [Requests -> RequestRecords]
    BY <1>10, AnswerTyped DEF RevokeSession, Answers
  <2>2. CASE Active(req[r].family)
    <3>1. /\ tokens' = Revoked({req[r].family}, {"live"})
          /\ signedOut' \in [Families -> Ends]
      BY <1>10, <2>2, SignOutTyped DEF RevokeSession, SignOut
    <3>2. /\ tokens' \in [Tokens -> [state : TokenStates, family : Families \cup {None}]]
          /\ \A u \in Tokens : tokens'[u].state = "unused" <=> tokens'[u].family = None
      BY <3>1, RevokedTyped
    <3>q. QED
      BY <1>10, <2>1, <3>1, <3>2 DEF RevokeSession, TypeOK
  <2>3. CASE ~Active(req[r].family)
    BY <1>10, <2>1, <2>3 DEF RevokeSession, TypeOK
  <2>q. QED
    BY <2>2, <2>3
<1>11. ASSUME NEW r \in Requests, RevokeOthers(r) PROVE TypeOK'
  <2>1. req' \in [Requests -> RequestRecords]
    BY <1>11, AnswerTyped DEF RevokeOthers, Answers
  <2>2. /\ tokens' = Revoked(Families \ {req[r].family}, {"live", "expired"})
        /\ signedOut' \in [Families -> Ends]
    BY <1>11, SignOutTyped DEF RevokeOthers, SignOut
  <2>3. /\ tokens' \in [Tokens -> [state : TokenStates, family : Families \cup {None}]]
        /\ \A u \in Tokens : tokens'[u].state = "unused" <=> tokens'[u].family = None
    BY <2>2, RevokedTyped
  <2>q. QED
    BY <1>11, <2>1, <2>2, <2>3 DEF RevokeOthers, TypeOK
<1>12. ASSUME NEW r \in Requests, ChangePasswordRead(r) \/ UpdatePassword(r) PROVE TypeOK'
  <2>1. req' \in [Requests -> RequestRecords]
    BY <1>12, GoTyped, AnswerTyped DEF ChangePasswordRead, UpdatePassword, Phases, Answers
  <2>q. QED
    BY <1>12, <2>1 DEF ChangePasswordRead, UpdatePassword, TypeOK
<1>13. ASSUME NEW r \in Requests, InvalidateLinks(r) PROVE TypeOK'
  <2>1. req' \in [Requests -> RequestRecords]
    <3>1. PICK held \in SUBSET Links :
            req' = [req EXCEPT ![r].phase = "commit", ![r].held = held]
      BY <1>13 DEF InvalidateLinks
    <3>2. [req[r] EXCEPT !.phase = "commit", !.held = held] \in RequestRecords
      <4>1. "commit" \in Phases /\ req[r] \in RequestRecords
        BY DEF TypeOK, Phases
      <4>q. QED
        BY ONLY <4>1 DEF RequestRecords
    <3>3. req' = [req EXCEPT ![r] = [req[r] EXCEPT !.phase = "commit", !.held = held]]
      BY <3>1 DEF TypeOK
    <3>q. QED
      BY <3>2, <3>3 DEF TypeOK
  <2>q. QED
    BY <1>13, <2>1 DEF InvalidateLinks, TypeOK
<1>14. ASSUME NEW r \in Requests, CommitLink(r) PROVE TypeOK'
  <2>1. req' \in [Requests -> RequestRecords]
    BY <1>14, AnswerTyped DEF CommitLink, Answers
  <2>2. links' \in [Links -> LinkStates]
    BY <1>14 DEF CommitLink, TypeOK, LinkStates
  <2>q. QED
    BY <1>14, <2>1, <2>2 DEF CommitLink, TypeOK
<1>15. ASSUME NEW r \in Requests, ResetRead(r) PROVE TypeOK'
  <2>1. req' \in [Requests -> RequestRecords]
    BY <1>15, GoTyped, AnswerTyped DEF ResetRead, Phases, Answers
  <2>q. QED
    BY <1>15, <2>1 DEF ResetRead, TypeOK
<1>16. ASSUME NEW r \in Requests, ResetPassword(r) PROVE TypeOK'
  <2>1. req' \in [Requests -> RequestRecords]
    BY <1>16, AnswerTyped DEF ResetPassword, Answers
  <2>2. CASE LinkOpen(req[r].link)
    <3>1. /\ tokens' = Revoked(Families, {"live"})
          /\ signedOut' \in [Families -> Ends]
      BY <1>16, <2>2, SignOutTyped DEF ResetPassword, SignOut
    <3>2. /\ tokens' \in [Tokens -> [state : TokenStates, family : Families \cup {None}]]
          /\ \A u \in Tokens : tokens'[u].state = "unused" <=> tokens'[u].family = None
      BY <3>1, RevokedTyped
    <3>3. links' \in [Links -> LinkStates]
      BY <1>16, <2>2 DEF ResetPassword, TypeOK, LinkStates
    <3>4. user' = [verified |-> TRUE, failures |-> 0, locked |-> FALSE] /\ guesses' = 0
      BY <1>16, <2>2 DEF ResetPassword
    <3>6. resets' \in [Links -> Nat]
      BY <1>16, <2>2 DEF ResetPassword, TypeOK
    <3>5. user' \in [verified : BOOLEAN, failures : Nat, locked : BOOLEAN] /\ guesses' \in Nat
      BY <3>4
    <3>q. QED
      BY <2>1, <3>1, <3>2, <3>3, <3>5, <3>6 DEF TypeOK
  <2>3. CASE ~LinkOpen(req[r].link)
    BY <1>16, <2>1, <2>3 DEF ResetPassword, TypeOK
  <2>q. QED
    BY <2>2, <2>3
<1>17. ASSUME NEW r \in Requests, Reply(r) \/ Cancel(r) PROVE TypeOK'
  BY <1>17, IdleTyped DEF Reply, Cancel, TypeOK
<1>18. ASSUME NEW t \in Tokens, ExpireToken(t) PROVE TypeOK'
  <2>1. /\ tokens' \in [Tokens -> [state : TokenStates, family : Families \cup {None}]]
        /\ \A u \in Tokens : tokens'[u].state = "unused" <=> tokens'[u].family = None
    BY <1>18, TokenStateTyped DEF ExpireToken, Live
  <2>q. QED
    BY <1>18, <2>1 DEF ExpireToken, TypeOK
<1>19. ASSUME NEW l \in Links, ExpireLink(l) PROVE TypeOK'
  BY <1>19 DEF ExpireLink, TypeOK, LinkStates
<1>20. ASSUME ExpireLock \/ MarkEmailVerified PROVE TypeOK'
  <2>1. user' = [user EXCEPT !.locked = FALSE] \/ user' = [user EXCEPT !.verified = TRUE]
    BY <1>20 DEF ExpireLock, MarkEmailVerified
  <2>2. user' \in [verified : BOOLEAN, failures : Nat, locked : BOOLEAN]
    BY <2>1 DEF TypeOK
  <2>3. guesses' \in Nat
    BY <1>20 DEF ExpireLock, MarkEmailVerified, TypeOK
  <2>q. QED
    BY <1>20, <2>2, <2>3 DEF ExpireLock, MarkEmailVerified, TypeOK
<1>21. CASE UNCHANGED vars
  BY <1>21 DEF vars, TypeOK
<1>q. QED
  BY <1>1, <1>2, <1>3, <1>4, <1>5, <1>6, <1>7, <1>8, <1>9, <1>10, <1>11, <1>12, <1>13, <1>14,
     <1>15, <1>16, <1>17, <1>18, <1>19, <1>20, <1>21 DEF Next, Serve

-----------------------------------------------------------------------------
(* Sessions *)

\* What a step that leaves the tokens alone may make of a request's record: it is not about to
\* create a token, and it knows no session but its own or one with tokens.
Harmless(r, q) ==
    /\ q.phase # "create"
    /\ q.phase = "clear" => q.op = "login"
    /\ q.token # None => tokens[q.token].family # None
    /\ q.op \in {"refresh", "logout"} => q.token # None
    /\ q.op = "login" /\ q.family # None => q.family = req[r].family /\ Op(r) = "login"
    /\ q.family # None => q.family = req[r].family \/ Issued(q.family)
    /\ q.op = "refresh" /\ q.phase = "revoke"
         => Live(q.token) /\ q.family = tokens[q.token].family

SessionParts == OneUnrevoked /\ OneCreator /\ DrawnByOne /\ TokensKnown /\ EndsKept /\ EndsFinal

LEMMA HarmlessStep ==
  ASSUME SessionInvariant, NEW r \in Requests, NEW q \in RequestRecords, Harmless(r, q),
         req' = [req EXCEPT ![r] = q], tokens' = tokens, signedOut' = signedOut
  PROVE  SessionParts'
<1> USE AccountConstants
<1>0. TypeOK
  BY DEF SessionInvariant
<1>1. req'[r] = q /\ \A p \in Requests : p # r => req'[p] = req[p]
  BY <1>0 DEF TypeOK
<1>2. OneUnrevoked'
  BY DEF SessionInvariant, OneUnrevoked, Unrevoked
<1>3. OneCreator'
  BY <1>1 DEF SessionInvariant, OneCreator, Creating, At, Unrevoked, Harmless
<1>4. DrawnByOne'
  BY <1>1 DEF SessionInvariant, DrawnByOne, Op, Issued, Harmless
<1>5. TokensKnown'
  BY <1>1 DEF SessionInvariant, TokensKnown, At, Op, Harmless
<1>6. EndsKept'
  BY DEF SessionInvariant, EndsKept, Issued
<1>7. EndsFinal'
  <2> SUFFICES ASSUME NEW f \in Families, signedOut[f] = "final"
               PROVE  ~Active(f)' /\ ~Pending(f, tokens)'
    BY DEF EndsFinal
  <2>1. ~Active(f) /\ ~Pending(f, tokens)
    BY DEF SessionInvariant, EndsFinal
  <2>2. ~Active(f)'
    BY <2>1 DEF Active, Live
  <2>3. ASSUME NEW p \in Requests, req'[p].family = f,
               \/ req'[p].phase = "create"
               \/ /\ req'[p].phase = "revoke" /\ req'[p].op = "refresh"
                  /\ tokens[req'[p].token].state \in {"live", "expired"}
        PROVE  FALSE
    <3>1. CASE p = r
      <4>1. q.op = "refresh" /\ q.phase = "revoke" /\ q.family = f
        BY <1>1, <2>3, <3>1 DEF Harmless
      <4>2. Live(q.token) /\ tokens[q.token].family = f /\ q.token \in Tokens
        BY <4>1 DEF Harmless, RequestRecords
      <4>q. QED
        BY <2>1, <4>2 DEF Active
    <3>2. CASE p # r
      BY <1>1, <2>1, <2>3, <3>2 DEF Pending, At, Op
    <3>q. QED
      BY <3>1, <3>2
  <2>q. QED
    BY <2>2, <2>3 DEF Pending, At, Op
<1>q. QED
  BY <1>2, <1>3, <1>4, <1>5, <1>6, <1>7 DEF SessionParts

\* Records that are harmless in every state.
LEMMA AnswerHarmless ==
  ASSUME NEW r \in Requests, NEW a \in Answers
  PROVE  /\ [Idle EXCEPT !.phase = "done", !.answer = a] \in RequestRecords
         /\ Harmless(r, [Idle EXCEPT !.phase = "done", !.answer = a])
         /\ Idle \in RequestRecords /\ Harmless(r, Idle)
  <1>1. [Idle EXCEPT !.phase = "done", !.answer = a] \in RequestRecords
    BY DEF Idle, RequestRecords, Phases
  <1>2. Harmless(r, [Idle EXCEPT !.phase = "done", !.answer = a]) /\ Harmless(r, Idle)
    BY DEF Harmless, Idle
  <1>q. QED
    BY <1>1, <1>2, IdleTyped

\* Going on to a phase that neither creates a token nor is about to revoke one for a refresh.
LEMMA GoHarmless ==
  ASSUME SessionInvariant, NEW r \in Requests, NEW p \in Phases, p # "create",
         p = "revoke" => Op(r) # "refresh", p = "clear" => Op(r) = "login",
         NEW q, q = [req[r] EXCEPT !.phase = p]
  PROVE  q \in RequestRecords /\ Harmless(r, q)
  <1>1. req[r] \in RequestRecords
    BY DEF SessionInvariant, TypeOK
  <1>2. q \in RequestRecords
    BY <1>1 DEF RequestRecords
  <1>3. q.op = req[r].op /\ q.family = req[r].family /\ q.token = req[r].token /\ q.phase = p
    BY <1>1 DEF RequestRecords
  <1>q. QED
    BY <1>2, <1>3 DEF Harmless, SessionInvariant, TokensKnown, At, Op

LEMMA AnswerStep ==
  ASSUME SessionInvariant, NEW r \in Requests, NEW a \in Answers, Answer(r, a),
         tokens' = tokens, signedOut' = signedOut
  PROVE  SessionParts'
  BY AnswerHarmless, HarmlessStep DEF Answer

LEMMA GoStep ==
  ASSUME SessionInvariant, NEW r \in Requests, NEW p \in Phases, p # "create",
         p = "revoke" => Op(r) # "refresh", p = "clear" => Op(r) = "login",
         Go(r, p), tokens' = tokens, signedOut' = signedOut
  PROVE  SessionParts'
  <1> DEFINE q == [req[r] EXCEPT !.phase = p]
  <1>1. q \in RequestRecords /\ Harmless(r, q)
    BY GoHarmless
  <1>2. req' = [req EXCEPT ![r] = q]
    BY DEF Go, SessionInvariant, TypeOK
  <1>q. QED
    BY <1>1, <1>2, HarmlessStep

LEMMA ArrivalsHarmless ==
  ASSUME SessionInvariant, NEW r \in Requests, NEW q \in PossibleRequests
  PROVE  q \in RequestRecords /\ Harmless(r, q)
<1> USE AccountConstants
<1>0. TypeOK
  BY DEF SessionInvariant
<1> SUFFICES Harmless(r, q)
  BY <1>0, ArrivalsTyped
<1>1. CASE \E op \in {"refresh", "logout"}, t \in Tokens :
             tokens[t].state # "unused" /\ q = Asks(op, t, None, None, "read")
  <2>1. PICK op \in {"refresh", "logout"}, t \in Tokens :
          tokens[t].state # "unused" /\ q = Asks(op, t, None, None, "read")
    BY <1>1
  <2>2. q.op = op /\ q.token = t /\ q.family = None /\ q.phase = "read"
    BY <2>1, AsksFields
  <2>3. t # None /\ tokens[t].family # None
    BY <1>0, <2>1 DEF TypeOK
  <2>q. QED
    BY <2>2, <2>3 DEF Harmless
<1>2. CASE \E f \in Callers : \/ q = Asks("change_password", None, f, None, "read")
                              \/ q = Asks("revoke_session", None, f, None, "revoke")
                              \/ q = Asks("revoke_others", None, f, None, "revoke_others")
  <2>1. PICK f \in Callers, op \in {"change_password", "revoke_session", "revoke_others"},
             p \in {"read", "revoke", "revoke_others"} : q = Asks(op, None, f, None, p)
    BY <1>2
  <2>2. q.op = op /\ q.token = None /\ q.family = f /\ q.phase = p
    BY <2>1, AsksFields
  <2>3. Issued(f)
    BY DEF Callers
  <2>q. QED
    BY <2>2, <2>3 DEF Harmless
<1>3. CASE \/ \E l \in Links : q = Asks("reset", None, None, l, "read")
           \/ q = Asks("login", None, None, None, "read")
           \/ q = Asks("forgot", None, None, None, "invalidate")
  <2>1. q.op \in {"reset", "login", "forgot"} /\ q.token = None /\ q.family = None
          /\ q.phase \in {"read", "invalidate"}
    BY <1>3, AsksFields
  <2>q. QED
    BY <2>1 DEF Harmless
<1>q. QED
  BY <1>1, <1>2, <1>3 DEF PossibleRequests

\* A sign-out: some tokens revoked, among them every live one of the sessions it covers.
LEMMA SignOutStep ==
  ASSUME SessionInvariant, NEW r \in Requests, Answer(r, "ok"), NEW F, NEW table, SignOut(F, table),
         \A t \in Tokens : /\ table[t].family = tokens[t].family
                            /\ table[t].state \in {tokens[t].state, "revoked"},
         \A t \in Tokens : tokens[t].family \in F => table[t].state # "live"
  PROVE  SessionParts'
<1> USE AccountConstants
<1>0. TypeOK
  BY DEF SessionInvariant
<1>1. /\ tokens' = table
      /\ \A p \in Requests : p # r => req'[p] = req[p]
  BY <1>0 DEF SignOut, Answer, TypeOK
<1>2. /\ req'[r].phase = "done" /\ req'[r].op = "none"
      /\ req'[r].token = None /\ req'[r].family = None
  BY <1>0 DEF Answer, Idle, TypeOK
<1>3. \A t \in Tokens : Unrevoked(t)' => Unrevoked(t)
  BY <1>1 DEF Unrevoked
<1>4. \A t \in Tokens : tokens'[t].family = tokens[t].family
  BY <1>1
<1>5. OneUnrevoked'
  BY <1>3, <1>4 DEF SessionInvariant, OneUnrevoked
<1>6. OneCreator'
  BY <1>1, <1>2, <1>3, <1>4 DEF SessionInvariant, OneCreator, Creating, At
<1>7. DrawnByOne'
  BY <1>1, <1>2, <1>4 DEF SessionInvariant, DrawnByOne, Op, Issued
<1>8. TokensKnown'
  <2> SUFFICES ASSUME NEW p \in Requests, p # r
               PROVE  /\ req[p].token # None => tokens'[req[p].token].family # None
                      /\ At(p, "clear") => Op(p) = "login"
                      /\ Op(p) \in {"refresh", "logout"} => req[p].token # None
                      /\ Op(p) = "refresh" /\ req[p].phase \in {"revoke", "create"}
                           => req[p].family = tokens'[req[p].token].family
    BY <1>1, <1>2 DEF TokensKnown, At, Op
  <2>1. req[p].token # None => req[p].token \in Tokens
    BY <1>0 DEF TypeOK, RequestRecords
  <2>q. QED
    BY <2>1, <1>4 DEF SessionInvariant, TokensKnown, At, Op
<1>9. EndsKept'
  BY <1>0, <1>4 DEF SignOut, SessionInvariant, EndsKept, Issued, TypeOK
<1>10. EndsFinal'
  <2> SUFFICES ASSUME NEW f \in Families, signedOut'[f] = "final"
               PROVE  ~Active(f)' /\ ~Pending(f, tokens)'
    BY DEF EndsFinal
  <2>1. CASE f \in F /\ Issued(f)
    <3>1. ~Pending(f, table)
      BY <1>0, <2>1 DEF SignOut, TypeOK
    <3>2. ~Active(f)'
      BY <1>1, <1>4, <2>1 DEF Active, Live
    <3>3. ~Pending(f, tokens)'
      BY <1>1, <1>2, <3>1 DEF Pending, At, Op
    <3>q. QED
      BY <3>2, <3>3
  <2>2. CASE ~(f \in F /\ Issued(f))
    <3>1. signedOut[f] = "final"
      BY <1>0, <2>2 DEF SignOut, TypeOK
    <3>2. ~Active(f) /\ ~Pending(f, tokens)
      BY <3>1 DEF SessionInvariant, EndsFinal
    <3>3. ~Active(f)'
      BY <1>1, <1>4, <3>2 DEF Active, Live
    <3>4. ASSUME NEW p \in Requests, p # r, Op(p) = "refresh"
          PROVE  table[req[p].token].state \in {"live", "expired"}
                   => tokens[req[p].token].state \in {"live", "expired"}
      BY <1>0, <3>4 DEF SessionInvariant, TokensKnown, TypeOK, RequestRecords
    <3>5. ~Pending(f, tokens)'
      BY <1>1, <1>2, <3>2, <3>4 DEF Pending, At, Op
    <3>q. QED
      BY <3>3, <3>5
  <2>q. QED
    BY <2>1, <2>2
<1>q. QED
  BY <1>5, <1>6, <1>7, <1>8, <1>9, <1>10 DEF SessionParts

\* Revoking some states of some sessions' tokens is such a sign-out when it covers the live ones.
LEMMA RevokedStep ==
  ASSUME SessionInvariant, NEW r \in Requests, Answer(r, "ok"), NEW F, NEW S, "live" \in S,
         SignOut(F, Revoked(F, S))
  PROVE  SessionParts'
  <1>1. \A t \in Tokens : /\ Revoked(F, S)[t].family = tokens[t].family
                           /\ Revoked(F, S)[t].state \in {tokens[t].state, "revoked"}
    BY DEF Revoked, SessionInvariant, TypeOK
  <1>2. \A t \in Tokens : tokens[t].family \in F => Revoked(F, S)[t].state # "live"
    BY DEF Revoked, SessionInvariant, TypeOK
  <1>q. QED
    BY <1>1, <1>2, SignOutStep

\* A login draws a session that nothing knows.
LEMMA DrawStep ==
  ASSUME SessionInvariant, NEW r \in Requests, Op(r) = "login", NEW f \in FreshFamilies,
         req' = [req EXCEPT ![r].phase = "clear", ![r].family = f],
         tokens' = tokens, signedOut' = signedOut
  PROVE  SessionParts'
<1> USE AccountConstants
<1>0. TypeOK
  BY DEF SessionInvariant
<1>1. /\ \A p \in Requests : p # r => req'[p] = req[p]
      /\ req'[r].phase = "clear" /\ req'[r].op = "login"
      /\ req'[r].token = req[r].token /\ req'[r].family = f
  BY <1>0 DEF Op, TypeOK, RequestRecords
<1>2. f \in Families /\ ~Issued(f) /\ \A p \in Requests : req[p].family # f
  BY DEF FreshFamilies
<1>3. OneUnrevoked'
  BY DEF SessionInvariant, OneUnrevoked, Unrevoked
<1>4. OneCreator'
  <2> SUFFICES ASSUME NEW p \in Requests, p # r, req[p].phase = "create"
               PROVE  /\ req[p].family # None
                      /\ \A t \in Tokens : tokens[t].family = req[p].family => ~Unrevoked(t)'
                      /\ \A q \in Requests :
                           req'[q].phase = "create" /\ req'[q].family = req[p].family => q = p
    BY <1>1 DEF OneCreator, Creating, At
  <2>q. QED
    BY <1>1 DEF SessionInvariant, OneCreator, Creating, At, Unrevoked
<1>5. DrawnByOne'
  <2> SUFFICES ASSUME NEW p \in Requests, req'[p].op = "login", req'[p].family # None
               PROVE  /\ ~Issued(req'[p].family)
                      /\ \A q \in Requests : req'[q].family = req'[p].family => q = p
    BY DEF DrawnByOne, Op, Issued
  <2>1. CASE p = r
    BY <1>1, <1>2, <2>1
  <2>2. CASE p # r
    <3>1. req'[p] = req[p]
      BY <1>1, <2>2
    <3>2. /\ ~Issued(req[p].family)
          /\ \A q \in Requests : req[q].family = req[p].family => q = p
      BY <3>1 DEF SessionInvariant, DrawnByOne, Op
    <3>q. QED
      BY ONLY <1>1, <1>2, <3>1, <3>2
  <2>q. QED
    BY <2>1, <2>2
<1>6. TokensKnown'
  BY <1>1 DEF SessionInvariant, TokensKnown, At, Op
<1>7. EndsKept'
  BY DEF SessionInvariant, EndsKept, Issued
<1>8. EndsFinal'
  BY <1>1 DEF SessionInvariant, EndsFinal, Active, Live, Pending, At, Op
<1>q. QED
  BY <1>3, <1>4, <1>5, <1>6, <1>7, <1>8 DEF SessionParts

\* A login that was right goes on to create the first token of the session it has drawn.
LEMMA SignInStep ==
  ASSUME SessionInvariant, NEW r \in Requests, ResetLoginFailures(r), Op(r) = "login"
  PROVE  SessionParts'
<1> USE AccountConstants
<1>0. TypeOK
  BY DEF SessionInvariant
<1>1. CASE req[r].family = None
  BY <1>1, AnswerStep DEF ResetLoginFailures, SignInIfVerified, Answers
<1>2. CASE req[r].family # None
  <2>1. /\ \A p \in Requests : p # r => req'[p] = req[p]
        /\ req'[r].phase = "create" /\ req'[r].op = req[r].op
        /\ req'[r].token = req[r].token /\ req'[r].family = req[r].family
        /\ tokens' = tokens /\ signedOut' = signedOut
    BY <1>0, <1>2 DEF ResetLoginFailures, SignInIfVerified, Go, TypeOK, RequestRecords
  <2>2. /\ ~Issued(req[r].family)
        /\ \A p \in Requests : req[p].family = req[r].family => p = r
    BY <1>2 DEF SessionInvariant, DrawnByOne
  <2>3. OneUnrevoked'
    BY <2>1 DEF SessionInvariant, OneUnrevoked, Unrevoked
  <2>4. OneCreator'
    BY <1>2, <2>1, <2>2 DEF SessionInvariant, OneCreator, Creating, At, Unrevoked, Issued
  <2>5. DrawnByOne'
    BY <2>1 DEF SessionInvariant, DrawnByOne, Op, Issued
  <2>6. TokensKnown'
    BY <2>1 DEF SessionInvariant, TokensKnown, At, Op
  <2>7. EndsKept'
    BY <2>1 DEF SessionInvariant, EndsKept, Issued
  <2>8. EndsFinal'
    BY <2>1, <2>2 DEF SessionInvariant, EndsKept, EndsFinal, Active, Live, Pending, At, Op
  <2>q. QED
    BY <2>3, <2>4, <2>5, <2>6, <2>7, <2>8 DEF SessionParts
<1>q. QED
  BY <1>1, <1>2

\* The new token is the only unrevoked one of its session.
LEMMA CreateStep ==
  ASSUME SessionInvariant, NEW r \in Requests, CreateToken(r)
  PROVE  SessionParts'
<1> USE AccountConstants
<1>0. TypeOK
  BY DEF SessionInvariant
<1> DEFINE f == req[r].family
<1>1. PICK n \in Tokens :
        /\ tokens[n].state = "unused"
        /\ tokens' = [tokens EXCEPT ![n] = [state |-> "live", family |-> f]]
  BY DEF CreateToken
<1>2. /\ \A p \in Requests : p # r => req'[p] = req[p]
      /\ req'[r].phase = "done" /\ req'[r].op = "none"
      /\ req'[r].token = None /\ req'[r].family = None
      /\ signedOut' = signedOut
  BY <1>0 DEF CreateToken, Answer, Idle, TypeOK
<1>3. /\ tokens'[n].state = "live" /\ tokens'[n].family = f
      /\ \A t \in Tokens : t # n => tokens'[t] = tokens[t]
  BY <1>0, <1>1 DEF TypeOK
<1>4. tokens[n].family = None
  BY <1>0, <1>1 DEF TypeOK
<1>5. /\ Creating(r) /\ f # None
      /\ \A t \in Tokens : tokens[t].family = f => ~Unrevoked(t)
      /\ \A p \in Requests : Creating(p) /\ req[p].family = f => p = r
  BY DEF CreateToken, Creating, SessionInvariant, OneCreator
<1> HIDE DEF f
<1>6. OneUnrevoked'
  BY <1>3, <1>5 DEF SessionInvariant, OneUnrevoked, Unrevoked
<1>7. OneCreator'
  BY <1>2, <1>3, <1>5 DEF SessionInvariant, OneCreator, Creating, At, Unrevoked
<1>8. DrawnByOne'
  <2> SUFFICES ASSUME NEW p \in Requests, p # r, Op(p) = "login", req[p].family # None
               PROVE  /\ ~Issued(req[p].family)'
                      /\ \A q \in Requests : req'[q].family = req[p].family => q = p
    BY <1>2 DEF DrawnByOne, Op, Issued
  <2>1. ~Issued(req[p].family) /\ \A q \in Requests : req[q].family = req[p].family => q = p
    BY DEF SessionInvariant, DrawnByOne
  <2>2. req[p].family # f
    BY <2>1 DEF f
  <2>q. QED
    BY <1>2, <1>3, <2>1, <2>2 DEF Issued
<1>9. TokensKnown'
  <2> SUFFICES ASSUME NEW p \in Requests, p # r
               PROVE  /\ req[p].token # None => tokens'[req[p].token].family # None
                      /\ At(p, "clear") => Op(p) = "login"
                      /\ Op(p) \in {"refresh", "logout"} => req[p].token # None
                      /\ Op(p) = "refresh" /\ req[p].phase \in {"revoke", "create"}
                           => req[p].family = tokens'[req[p].token].family
    BY <1>2 DEF TokensKnown, At, Op
  <2>1. req[p].token # None => req[p].token \in Tokens \ {n}
    BY <1>0, <1>4 DEF TypeOK, RequestRecords, SessionInvariant, TokensKnown
  <2>q. QED
    BY <1>3, <2>1 DEF SessionInvariant, TokensKnown, At, Op
<1>10. EndsKept'
  BY <1>2, <1>3, <1>4 DEF SessionInvariant, EndsKept, Issued
<1>11. EndsFinal'
  <2> SUFFICES ASSUME NEW g \in Families, signedOut[g] = "final"
               PROVE  ~Active(g)' /\ ~Pending(g, tokens)'
    BY <1>2 DEF EndsFinal
  <2>1. ~Active(g) /\ ~Pending(g, tokens)
    BY DEF SessionInvariant, EndsFinal
  <2>2. g # f
    BY <1>5, <2>1 DEF Pending, Creating, f
  <2>3. ~Active(g)'
    BY <1>3, <2>1, <2>2 DEF Active, Live
  <2>4. ASSUME NEW p \in Requests, p # r, Op(p) = "refresh"
        PROVE  tokens'[req[p].token] = tokens[req[p].token]
    BY <1>0, <1>3, <1>4, <2>4 DEF SessionInvariant, TokensKnown, TypeOK, RequestRecords
  <2>5. ~Pending(g, tokens)'
    BY <1>2, <2>1, <2>4 DEF Pending, At, Op
  <2>q. QED
    BY <2>3, <2>5
<1>q. QED
  BY <1>6, <1>7, <1>8, <1>9, <1>10, <1>11 DEF SessionParts

LEMMA RefreshReadStep ==
  ASSUME SessionInvariant, NEW r \in Requests, RefreshRead(r)
  PROVE  SessionParts'
<1> USE AccountConstants
<1>0. TypeOK
  BY DEF SessionInvariant
<1> DEFINE t == req[r].token
           q == [req[r] EXCEPT !.phase = "revoke", !.family = tokens[t].family]
<1>1. t \in Tokens /\ tokens[t].family # None
  BY <1>0 DEF RefreshRead, SessionInvariant, TokensKnown, TypeOK, RequestRecords
<1>2. CASE Live(t)
  <2>1. req' = [req EXCEPT ![r] = q] /\ tokens' = tokens /\ signedOut' = signedOut
    BY <1>0, <1>2 DEF RefreshRead, TypeOK
  <2>2. q \in RequestRecords
    <3>1. "revoke" \in Phases /\ req[r] \in RequestRecords /\ tokens[t].family \in Families \cup {None}
      BY <1>0, <1>1 DEF TypeOK, Phases
    <3>q. QED
      BY ONLY <3>1 DEF RequestRecords
  <2>3. q.phase = "revoke" /\ q.family = tokens[t].family /\ q.token = t /\ q.op = "refresh"
    BY <1>0 DEF RefreshRead, Op, TypeOK, RequestRecords
  <2>4. Issued(tokens[t].family)
    BY <1>1 DEF Issued
  <2>5. Harmless(r, q)
    BY <1>1, <1>2, <2>3, <2>4 DEF Harmless
  <2>q. QED
    BY <2>1, <2>2, <2>5, HarmlessStep
<1>3. CASE ~Live(t)
  BY <1>3, AnswerStep DEF RefreshRead, Answers
<1>q. QED
  BY <1>2, <1>3

\* Changing one unrevoked token's state to revoked or expired.
LEMMA TokenStep ==
  ASSUME SessionInvariant, NEW n \in Tokens, Unrevoked(n), NEW s \in {"revoked", "expired"},
         tokens' = [tokens EXCEPT ![n].state = s]
  PROVE  /\ \A u \in Tokens : tokens'[u].family = tokens[u].family
         /\ OneUnrevoked'
  <1>1. \A u \in Tokens : /\ tokens'[u].family = tokens[u].family
                          /\ u # n => tokens'[u] = tokens[u]
    BY DEF SessionInvariant, TypeOK
  <1>2. \A u \in Tokens : Unrevoked(u)' => Unrevoked(u)
    BY <1>1 DEF Unrevoked
  <1>q. QED
    BY <1>1, <1>2 DEF SessionInvariant, OneUnrevoked

\* A refresh that revokes its token goes on alone: its session was not signed out for good.
LEMMA RefreshRevokeStep ==
  ASSUME SessionInvariant, NEW r \in Requests, RefreshRevoke(r)
  PROVE  SessionParts'
<1> USE AccountConstants
<1>0. TypeOK
  BY DEF SessionInvariant
<1>1. PICK n \in Tokens : n = req[r].token
  BY <1>0 DEF RefreshRevoke, SessionInvariant, TokensKnown, TypeOK, RequestRecords
<1>2. PICK s \in Families : s = tokens[n].family /\ s = req[r].family
  BY <1>0, <1>1 DEF RefreshRevoke, At, SessionInvariant, TokensKnown, TypeOK, RequestRecords
<1>3. At(r, "revoke") /\ Op(r) = "refresh"
  BY DEF RefreshRevoke
<1>4. CASE Unrevoked(n)
  <2>1. /\ tokens' = [tokens EXCEPT ![n].state = "revoked"]
        /\ signedOut' = signedOut /\ Go(r, "create")
    BY <1>1, <1>4 DEF RefreshRevoke, StillUnrevoked
  <2>2. /\ \A p \in Requests : /\ p # r => req'[p] = req[p]
                               /\ req'[p].op = req[p].op /\ req'[p].token = req[p].token
                               /\ req'[p].family = req[p].family
        /\ req'[r].phase = "create"
    BY <1>0, <2>1 DEF Go, TypeOK, RequestRecords
  <2>3. OneUnrevoked'
    BY <1>4, <2>1, TokenStep
  <2>4. \A u \in Tokens : tokens'[u].family = tokens[u].family
    BY <1>4, <2>1, TokenStep
  <2>5. \A u \in Tokens : Unrevoked(u)' => Unrevoked(u)
    BY <1>0, <1>4, <2>1 DEF Unrevoked, TypeOK
  <2>6. \A u \in Tokens \ {n} : tokens'[u] = tokens[u]
    BY <1>0, <2>1 DEF TypeOK
  <2>7. ~Unrevoked(n)'
    BY <1>0, <2>1 DEF Unrevoked, TypeOK
  <2>8. \A u \in Tokens : tokens[u].family = s => ~Unrevoked(u)'
    BY <1>2, <1>4, <2>5, <2>7 DEF SessionInvariant, OneUnrevoked
  <2>9. \A p \in Requests : req[p].phase = "create" => req[p].family # s
    BY <1>2, <1>4 DEF SessionInvariant, OneCreator, Creating, At
  <2>10. OneCreator'
    BY <1>2, <2>2, <2>4, <2>5, <2>8, <2>9, AccountConstants
    DEF SessionInvariant, OneCreator, Creating, At
  <2>11. DrawnByOne'
    <3>1. \A g : Issued(g)' <=> Issued(g)
      BY <2>4 DEF Issued
    <3>q. QED
      BY <3>1, <2>2 DEF SessionInvariant, DrawnByOne, Op
  <2>12. TokensKnown'
    <3> SUFFICES ASSUME NEW p \in Requests
                 PROVE  /\ req'[p].phase = "clear" => req[p].op = "login"
                        /\ req[p].token # None => tokens'[req[p].token].family # None
                        /\ req[p].op \in {"refresh", "logout"} => req[p].token # None
                        /\ req[p].op = "refresh" /\ req'[p].phase \in {"revoke", "create"}
                             => req[p].family = tokens'[req[p].token].family
      BY <2>2 DEF TokensKnown, At, Op
    <3>1. req[p].token # None => tokens'[req[p].token].family = tokens[req[p].token].family
      BY <1>0, <2>4 DEF TypeOK, RequestRecords
    <3>2. p # r => req'[p].phase = req[p].phase
      BY <2>2
    <3>q. QED
      BY <1>1, <1>2, <1>3, <2>2, <3>1, <3>2 DEF SessionInvariant, TokensKnown, At, Op
  <2>13. EndsKept'
    BY <2>1, <2>4 DEF SessionInvariant, EndsKept, Issued
  <2>14. EndsFinal'
    <3> SUFFICES ASSUME NEW g \in Families, signedOut[g] = "final"
                 PROVE  ~Active(g)' /\ ~Pending(g, tokens)'
      BY <2>1 DEF EndsFinal
    <3>1. ~Active(g) /\ ~Pending(g, tokens)
      BY DEF SessionInvariant, EndsFinal
    <3>2. g # s
      BY <1>1, <1>2, <1>3, <1>4, <3>1 DEF Pending, Unrevoked
    <3>3. ~Active(g)'
      <4>1. \A u \in Tokens : tokens'[u].state = "live" => tokens[u].state = "live"
        BY <2>6, <2>7 DEF Unrevoked
      <4>q. QED
        BY <2>4, <3>1, <4>1 DEF Active, Live
    <3>4. \A p \in Requests : req'[p].family = g => p # r /\ req'[p] = req[p]
      BY <1>2, <2>2, <3>2
    <3>5. ASSUME NEW p \in Requests, req[p].family = g, Op(p) = "refresh", At(p, "revoke")
          PROVE  tokens'[req[p].token] = tokens[req[p].token]
      <4>1. req[p].token \in Tokens /\ tokens[req[p].token].family = g
        BY <1>0, <3>5 DEF SessionInvariant, TokensKnown, At, TypeOK, RequestRecords
      <4>q. QED
        BY <1>2, <2>6, <3>2, <4>1
    <3>6. ~Pending(g, tokens)'
      BY <3>1, <3>4, <3>5 DEF Pending, At, Op
    <3>q. QED
      BY <3>3, <3>6
  <2>q. QED
    BY <2>3, <2>10, <2>11, <2>12, <2>13, <2>14 DEF SessionParts
<1>5. CASE ~Unrevoked(n)
  BY <1>1, <1>5, AnswerStep DEF RefreshRevoke, StillUnrevoked, Answers
<1>q. QED
  BY <1>4, <1>5

LEMMA LogoutRevokeStep ==
  ASSUME SessionInvariant, NEW r \in Requests, LogoutRevoke(r)
  PROVE  SessionParts'
<1>0. TypeOK
  BY DEF SessionInvariant
<1>1. PICK n \in Tokens : n = req[r].token
  BY <1>0 DEF LogoutRevoke, SessionInvariant, TokensKnown, TypeOK, RequestRecords
<1>2. CASE Unrevoked(n)
  <2> DEFINE table == [tokens EXCEPT ![n].state = "revoked"]
             F == {tokens[n].family}
  <2>1. Answer(r, "ok") /\ SignOut(F, table)
    BY <1>1, <1>2 DEF LogoutRevoke
  <2>2. \A u \in Tokens : /\ table[u].family = tokens[u].family
                           /\ table[u].state \in {tokens[u].state, "revoked"}
    BY <1>0 DEF TypeOK
  <2>3. \A u \in Tokens : tokens[u].family \in F => table[u].state # "live"
    BY <1>0, <1>2 DEF SessionInvariant, OneUnrevoked, Unrevoked, TypeOK
  <2> HIDE DEF F, table
  <2>q. QED
    BY <2>1, <2>2, <2>3, SignOutStep
<1>3. CASE ~Unrevoked(n)
  BY <1>1, <1>3, AnswerStep DEF LogoutRevoke, Answers
<1>q. QED
  BY <1>2, <1>3

\* A refresh token that expires frees no request to create another.
LEMMA ExpireTokenStep ==
  ASSUME SessionInvariant, NEW n \in Tokens, ExpireToken(n)
  PROVE  SessionParts'
<1>0. TypeOK
  BY DEF SessionInvariant
<1>1. /\ Unrevoked(n) /\ tokens' = [tokens EXCEPT ![n].state = "expired"]
      /\ req' = req /\ signedOut' = signedOut
  BY DEF ExpireToken, Live, Unrevoked
<1>2. \A u \in Tokens : tokens'[u].family = tokens[u].family
  BY <1>1, TokenStep
<1>3. \A u \in Tokens : Unrevoked(u)' => Unrevoked(u)
  BY <1>0, <1>1 DEF Unrevoked, TypeOK
<1>4. \A u \in Tokens : tokens'[u].state = "live" => tokens[u].state = "live"
  BY <1>0, <1>1 DEF TypeOK
<1>5. \A p \in Requests : req[p].token # None => req[p].token \in Tokens
  BY <1>0 DEF TypeOK, RequestRecords
<1>6. OneUnrevoked'
  BY <1>1, TokenStep
<1>7. OneCreator'
  BY <1>1, <1>2, <1>3 DEF SessionInvariant, OneCreator, Creating, At
<1>8. DrawnByOne'
  BY <1>1, <1>2 DEF SessionInvariant, DrawnByOne, Op, Issued
<1>9. TokensKnown'
  BY <1>1, <1>2, <1>5 DEF SessionInvariant, TokensKnown, At, Op
<1>10. EndsKept'
  BY <1>1, <1>2 DEF SessionInvariant, EndsKept, Issued
<1>11. EndsFinal'
  <2> SUFFICES ASSUME NEW g \in Families, signedOut[g] = "final"
               PROVE  ~Active(g)' /\ ~Pending(g, tokens)'
    BY <1>1 DEF EndsFinal
  <2>1. ~Active(g) /\ ~Pending(g, tokens)
    BY DEF SessionInvariant, EndsFinal
  <2>2. ~Active(g)'
    BY <1>2, <1>4, <2>1 DEF Active, Live
  <2>3. \A p \in Requests : Op(p) = "refresh" =>
          (tokens'[req[p].token].state \in {"live", "expired"}
             => tokens[req[p].token].state \in {"live", "expired"})
    BY <1>3, <1>5 DEF Unrevoked, SessionInvariant, TokensKnown
  <2>4. ~Pending(g, tokens)'
    BY <1>1, <2>1, <2>3 DEF Pending, At, Op
  <2>q. QED
    BY <2>2, <2>4
<1>q. QED
  BY <1>6, <1>7, <1>8, <1>9, <1>10, <1>11 DEF SessionParts

\* Nothing about sessions depends on the user, the links or the clock.
LEMMA QuietStep ==
  ASSUME SessionInvariant, UNCHANGED <<tokens, req, signedOut>>
  PROVE  SessionParts'
  BY DEF SessionInvariant, SessionParts, OneUnrevoked, OneCreator, DrawnByOne, TokensKnown,
     EndsKept, EndsFinal, Unrevoked, Creating, At, Op, Issued, Active, Live, Pending

LEMMA LoginReadStep ==
  ASSUME SessionInvariant, NEW r \in Requests, LoginRead(r)
  PROVE  SessionParts'
  <1>1. Op(r) = "login" /\ tokens' = tokens /\ signedOut' = signedOut
    BY DEF LoginRead
  <1>2. CASE Answer(r, "refused")
    BY <1>1, <1>2, AnswerStep DEF Answers
  <1>3. CASE Go(r, "fail")
    BY <1>1, <1>3, GoStep DEF Phases
  <1>4. CASE Go(r, "clear")
    BY <1>1, <1>4, GoStep DEF Phases
  <1>5. CASE \E f \in FreshFamilies : req' = [req EXCEPT ![r].phase = "clear", ![r].family = f]
    BY <1>1, <1>5, DrawStep
  <1>q. QED
    BY <1>2, <1>3, <1>4, <1>5 DEF LoginRead

\* The steps that only answer or go on.
LEMMA PlainStep ==
  ASSUME SessionInvariant, NEW r \in Requests,
         \/ RecordLoginFailure(r) \/ LogoutRead(r) \/ ChangePasswordRead(r) \/ UpdatePassword(r)
         \/ CommitLink(r) \/ ResetRead(r)
  PROVE  SessionParts'
  <1>1. tokens' = tokens /\ signedOut' = signedOut
    BY DEF RecordLoginFailure, LogoutRead, ChangePasswordRead, UpdatePassword, CommitLink, ResetRead
  <1>2. CASE \E a \in Answers : Answer(r, a)
    BY <1>1, <1>2, AnswerStep
  <1>3. CASE Op(r) = "logout" /\ Go(r, "revoke")
    BY <1>1, <1>3, GoStep DEF Phases
  <1>4. CASE \E p \in {"update", "revoke_others", "reset"} : Go(r, p)
    <2>1. PICK p \in {"update", "revoke_others", "reset"} : Go(r, p)
      BY <1>4
    <2>2. p \in Phases /\ p \notin {"create", "revoke", "clear"}
      BY DEF Phases
    <2>q. QED
      BY <1>1, <2>1, <2>2, GoStep
  <1>q. QED
    BY <1>2, <1>3, <1>4
    DEF RecordLoginFailure, LogoutRead, ChangePasswordRead, UpdatePassword, CommitLink,
        ResetRead, Answers

LEMMA InvalidateLinksStep ==
  ASSUME SessionInvariant, NEW r \in Requests, InvalidateLinks(r)
  PROVE  SessionParts'
  <1> DEFINE open == {l \in Links : links[l] = "open"}
             q == [req[r] EXCEPT !.phase = "commit"]
             w == [req[r] EXCEPT !.phase = "commit", !.held = open]
  <1>1. q \in RequestRecords /\ Harmless(r, q)
    <2>1. "commit" \in Phases
      BY DEF Phases
    <2>q. QED
      BY <2>1, GoHarmless
  <1>2. req[r] \in RequestRecords /\ open \in SUBSET Links /\ "commit" \in Phases
    BY DEF SessionInvariant, TypeOK, Phases
  <1> HIDE DEF open
  <1>3. w \in RequestRecords
    BY ONLY <1>2 DEF RequestRecords
  <1>4. /\ w.phase = q.phase /\ w.op = q.op /\ w.token = q.token /\ w.family = q.family
    BY ONLY <1>2 DEF RequestRecords
  <1>5. req' = [req EXCEPT ![r] = w] /\ tokens' = tokens /\ signedOut' = signedOut
    BY DEF InvalidateLinks, SessionInvariant, TypeOK, open
  <1> HIDE DEF q, w
  <1>6. Harmless(r, w)
    BY <1>1, <1>4 DEF Harmless
  <1>q. QED
    BY <1>3, <1>5, <1>6, HarmlessStep

LEMMA SessionStep == SessionInvariant /\ [Next]_vars => SessionParts'
<1> SUFFICES ASSUME SessionInvariant, [Next]_vars PROVE SessionParts'
  OBVIOUS
<1>1. ASSUME NEW r \in Requests, Start(r) PROVE SessionParts'
  BY <1>1, ArrivalsHarmless, HarmlessStep DEF Start
<1>2. ASSUME NEW r \in Requests, LoginRead(r) \/ CreateToken(r) \/ RefreshRead(r) \/ RefreshRevoke(r)
                                   \/ LogoutRevoke(r) \/ InvalidateLinks(r)
      PROVE SessionParts'
  BY <1>2, LoginReadStep, CreateStep, RefreshReadStep, RefreshRevokeStep, LogoutRevokeStep,
     InvalidateLinksStep
<1>3. ASSUME NEW r \in Requests,
             \/ RecordLoginFailure(r) \/ LogoutRead(r) \/ ChangePasswordRead(r)
             \/ UpdatePassword(r) \/ CommitLink(r) \/ ResetRead(r)
      PROVE SessionParts'
  BY <1>3, PlainStep
<1>4. ASSUME NEW r \in Requests, ResetLoginFailures(r) PROVE SessionParts'
  <2>1. Op(r) = "login"
    BY <1>4 DEF ResetLoginFailures, SessionInvariant, TokensKnown
  <2>q. QED
    BY <1>4, <2>1, SignInStep
<1>5. ASSUME NEW r \in Requests, RevokeSession(r) PROVE SessionParts'
  <2>1. CASE Active(req[r].family)
    BY <1>5, <2>1, RevokedStep DEF RevokeSession
  <2>2. CASE ~Active(req[r].family)
    BY <1>5, <2>2, AnswerStep DEF RevokeSession, Answers
  <2>q. QED
    BY <2>1, <2>2
<1>6. ASSUME NEW r \in Requests, RevokeOthers(r) PROVE SessionParts'
  BY <1>6, RevokedStep DEF RevokeOthers
<1>7. ASSUME NEW r \in Requests, ResetPassword(r) PROVE SessionParts'
  <2>1. CASE LinkOpen(req[r].link)
    BY <1>7, <2>1, RevokedStep DEF ResetPassword
  <2>2. CASE ~LinkOpen(req[r].link)
    BY <1>7, <2>2, AnswerStep DEF ResetPassword, Answers
  <2>q. QED
    BY <2>1, <2>2
<1>8. ASSUME NEW r \in Requests, Reply(r) \/ Cancel(r) PROVE SessionParts'
  <2>1. /\ req' = [req EXCEPT ![r] = Idle] /\ tokens' = tokens /\ signedOut' = signedOut
    BY <1>8 DEF Reply, Cancel
  <2>2. Idle \in RequestRecords /\ Harmless(r, Idle)
    BY AnswerHarmless DEF Answers
  <2>q. QED
    BY <2>1, <2>2, HarmlessStep
<1>9. ASSUME NEW n \in Tokens, ExpireToken(n) PROVE SessionParts'
  BY <1>9, ExpireTokenStep
<1>10. ASSUME NEW l \in Links, ExpireLink(l) PROVE SessionParts'
  BY <1>10, QuietStep DEF ExpireLink
<1>11. CASE ExpireLock \/ MarkEmailVerified \/ UNCHANGED vars
  BY <1>11, QuietStep DEF ExpireLock, MarkEmailVerified, vars
<1>q. QED
  BY <1>1, <1>2, <1>3, <1>4, <1>5, <1>6, <1>7, <1>8, <1>9, <1>10, <1>11 DEF Next, Serve

\* What a request's step makes of its record.
LEMMA StepForms ==
  ASSUME NEW r \in Requests, Serve(r) \/ Reply(r) \/ Cancel(r)
  PROVE  \/ \E a : Answer(r, a)
         \/ req' = [req EXCEPT ![r] = Idle]
         \/ \E p : /\ Go(r, p)
                   /\ p = "reset" => Op(r) = "reset"
                   /\ p = "fail" => LoginRead(r) /\ ~user.locked
         \/ \E f : req' = [req EXCEPT ![r].phase = "clear", ![r].family = f]
         \/ \E f : req' = [req EXCEPT ![r].phase = "revoke", ![r].family = f]
         \/ \E h : req' = [req EXCEPT ![r].phase = "commit", ![r].held = h]
  <1>1. LoginRead(r) \/ InvalidateLinks(r) \/ RefreshRead(r) =>
          \/ \E a : Answer(r, a)
          \/ Go(r, "fail") /\ LoginRead(r) /\ ~user.locked
          \/ Go(r, "clear")
          \/ \E f : req' = [req EXCEPT ![r].phase = "clear", ![r].family = f]
          \/ \E f : req' = [req EXCEPT ![r].phase = "revoke", ![r].family = f]
          \/ \E h : req' = [req EXCEPT ![r].phase = "commit", ![r].held = h]
    BY DEF LoginRead, InvalidateLinks, RefreshRead
  <1>2. RecordLoginFailure(r) \/ ResetLoginFailures(r) \/ CreateToken(r) \/ RefreshRevoke(r) =>
          (\E a : Answer(r, a)) \/ Go(r, "create")
    BY DEF RecordLoginFailure, ResetLoginFailures, SignInIfVerified, CreateToken, RefreshRevoke
  <1>3. LogoutRead(r) \/ LogoutRevoke(r) \/ RevokeSession(r) \/ RevokeOthers(r)
          \/ ChangePasswordRead(r) \/ UpdatePassword(r) \/ CommitLink(r) \/ ResetPassword(r) =>
          (\E a : Answer(r, a)) \/ Go(r, "revoke") \/ Go(r, "update") \/ Go(r, "revoke_others")
    BY DEF LogoutRead, LogoutRevoke, RevokeSession, RevokeOthers, ChangePasswordRead,
       UpdatePassword, CommitLink, ResetPassword
  <1>4. ResetRead(r) => (\E a : Answer(r, a)) \/ (Go(r, "reset") /\ Op(r) = "reset")
    BY DEF ResetRead
  <1>5. Reply(r) \/ Cancel(r) => req' = [req EXCEPT ![r] = Idle]
    BY DEF Reply, Cancel
  <1>q. QED
    BY <1>1, <1>2, <1>3, <1>4, <1>5 DEF Serve

\* A request that resets a password names a link from its arrival on.
LEMMA LinksStep == SessionInvariant /\ [Next]_vars => LinksKnown'
<1> SUFFICES ASSUME SessionInvariant, [Next]_vars, NEW r \in Requests
             PROVE  req'[r].op = "reset" \/ req'[r].phase = "reset" => req'[r].link \in Links
  BY DEF LinksKnown, At, Op
<1>0. TypeOK /\ (req[r].op = "reset" \/ req[r].phase = "reset" => req[r].link \in Links)
  BY DEF SessionInvariant, LinksKnown, At, Op
<1>1. CASE req' = req
  BY <1>0, <1>1
<1>2. ASSUME NEW q \in Requests, Start(q)
      PROVE  req'[r].op = "reset" \/ req'[r].phase = "reset" => req'[r].link \in Links
  <2>1. PICK s \in PossibleRequests : req' = [req EXCEPT ![q] = s]
    BY <1>2 DEF Start
  <2>2. s.op = "reset" \/ s.phase = "reset" => s.link \in Links
    BY AsksFields DEF PossibleRequests
  <2>q. QED
    BY <1>0, <2>1, <2>2 DEF TypeOK
<1>3. ASSUME NEW q \in Requests, Serve(q) \/ Reply(q) \/ Cancel(q)
      PROVE  req'[r].op = "reset" \/ req'[r].phase = "reset" => req'[r].link \in Links
  <2>1. CASE q # r
    <3>1. \E s : req' = [req EXCEPT ![q] = s]
      BY <1>0, <1>3 DEF Serve, Reply, Cancel, LoginRead, RecordLoginFailure,
         ResetLoginFailures, SignInIfVerified, CreateToken, RefreshRead, RefreshRevoke, LogoutRead,
         LogoutRevoke, RevokeSession, RevokeOthers, ChangePasswordRead, UpdatePassword,
         InvalidateLinks, CommitLink, ResetRead, ResetPassword, Go, Answer, TypeOK
    <3>q. QED
      BY <1>0, <2>1, <3>1 DEF TypeOK
  <2>2. CASE q = r
    <3>0. req[r] \in RequestRecords /\ req \in [Requests -> RequestRecords]
      BY <1>0 DEF TypeOK
    <3>1. CASE (\E a : Answer(r, a)) \/ req' = [req EXCEPT ![r] = Idle]
      <4>1. req'[r].op = "none" /\ req'[r].phase \in {"idle", "done"}
        <5>1. CASE \E a : Answer(r, a)
          BY <3>0, <5>1 DEF Answer, Idle
        <5>2. CASE req' = [req EXCEPT ![r] = Idle]
          BY <3>0, <5>2 DEF Idle
        <5>q. QED
          BY <3>1, <5>1, <5>2
      <4>q. QED
        BY <4>1
    <3>2. CASE \E p : Go(r, p) /\ (p = "reset" => Op(r) = "reset")
      <4>1. PICK p : Go(r, p) /\ (p = "reset" => Op(r) = "reset")
        BY <3>2
      <4>2. req'[r].op = req[r].op /\ req'[r].link = req[r].link /\ req'[r].phase = p
        BY <3>0, <4>1 DEF Go, RequestRecords
      <4>q. QED
        BY <1>0, <4>1, <4>2 DEF Op
    <3>3. CASE \/ \E f : req' = [req EXCEPT ![r].phase = "clear", ![r].family = f]
               \/ \E f : req' = [req EXCEPT ![r].phase = "revoke", ![r].family = f]
               \/ \E h : req' = [req EXCEPT ![r].phase = "commit", ![r].held = h]
      <4>1. /\ req'[r].op = req[r].op /\ req'[r].link = req[r].link
            /\ req'[r].phase \in {"clear", "revoke", "commit"}
        BY <3>0, <3>3 DEF RequestRecords
      <4>q. QED
        BY <1>0, <4>1
    <3>q. QED
      BY <1>3, <2>2, <3>1, <3>2, <3>3, StepForms
  <2>q. QED
    BY <2>1, <2>2
<1>q. QED
  BY <1>1, <1>2, <1>3 DEF Next, vars, ExpireToken, ExpireLink, ExpireLock, MarkEmailVerified

-----------------------------------------------------------------------------
(* The theorems *)

LEMMA SessionInit == Init => SessionInvariant
<1> SUFFICES ASSUME Init PROVE SessionInvariant
  OBVIOUS
<1> USE AccountConstants
<1>1. TypeOK
  <2>1. \A r \in Requests : req[r] \in RequestRecords
    BY IdleTyped DEF Init
  <2>2. tokens \in [Tokens -> [state : TokenStates, family : Families \cup {None}]]
    BY DEF Init, NoToken, TokenStates
  <2>3. user \in [verified : BOOLEAN, failures : Nat, locked : BOOLEAN]
    <3>1. user \in [verified : BOOLEAN, failures : {0}, locked : {FALSE}]
      BY DEF Init
    <3>2. {0} \subseteq Nat /\ {FALSE} \subseteq BOOLEAN
      OBVIOUS
    <3>q. QED
      BY <3>1, <3>2, Zenon
  <2>q. QED
    BY <2>1, <2>2, <2>3 DEF Init, TypeOK, NoToken, LinkStates, Ends
<1>2. \A r \in Requests : req[r] = Idle
  BY DEF Init
<1>3. \A t \in Tokens : tokens[t].state = "unused" /\ tokens[t].family = None
  BY DEF Init, NoToken
<1>4. OneUnrevoked
  BY <1>3 DEF OneUnrevoked, Unrevoked
<1>5. OneCreator /\ DrawnByOne /\ TokensKnown
  BY <1>2 DEF OneCreator, DrawnByOne, TokensKnown, Creating, At, Op, Idle
<1>6. EndsKept /\ EndsFinal
  BY DEF Init, EndsKept, EndsFinal
<1>7. LinksKnown
  BY <1>2 DEF LinksKnown, At, Op, Idle
<1>q. QED
  BY <1>1, <1>4, <1>5, <1>6, <1>7 DEF SessionInvariant

\* In every state of the sign-in subsystem, whatever requests run at once: of the unrevoked
\* tokens of a session and the requests about to insert one there is at most one.
THEOREM SessionsKept == Spec => []SessionInvariant
<1>1. SessionInvariant /\ [Next]_vars => SessionInvariant'
  BY TypeStep, SessionStep, LinksStep DEF SessionInvariant, SessionParts
<1>q. QED
  BY SessionInit, <1>1, PTL DEF Spec

\* The users, refresh_tokens and password_reset_tokens rows and what requests hold stay
\* well-formed: a token inserted by Login or Refresh always has its session.
THEOREM AccountsTyped == Spec => []TypeOK
<1>1. SessionInvariant => TypeOK
  BY DEF SessionInvariant
<1>q. QED
  BY SessionsKept, <1>1, PTL

\* However refreshes, retries and sign-outs race, a session has at most one usable refresh
\* token: RevokeByID's WHERE revoked_at IS NULL lets one of two concurrent refreshes go on.
THEOREM OneUsableToken == Spec => []OneTokenPerSession
<1>1. SessionInvariant => OneTokenPerSession
  BY DEF SessionInvariant, OneUnrevoked, Unrevoked, OneTokenPerSession, Live
<1>q. QED
  BY SessionsKept, <1>1, PTL

\* A session signed out (by logout, RevokeSession, RevokeOtherSessions, ChangePassword or
\* ResetPassword) while no refresh had got past its token's revocation never has a usable token
\* again.
THEOREM SignedOutForGood == Spec => []SignOutFinal
<1>1. SessionInvariant => SignOutFinal
  BY DEF SessionInvariant, EndsFinal, SignOutFinal
<1>q. QED
  BY SessionsKept, <1>1, PTL

\* A link that has written a password is closed, and a closed link is not opened again: a new
\* link takes a row of its own, and the other steps only close.
LEMMA ResetLinkStep ==
  ASSUME TypeOK, LinksSpent, LinkResetsOnce, [Next]_vars
  PROVE  LinksSpent' /\ LinkResetsOnce'
<1>0. links \in [Links -> LinkStates] /\ resets \in [Links -> Nat]
  BY DEF TypeOK
<1>1. CASE UNCHANGED <<links, resets>>
  BY <1>1 DEF LinksSpent, LinkResetsOnce
<1>2. ASSUME NEW r \in Requests, CommitLink(r) PROVE LinksSpent' /\ LinkResetsOnce'
  <2>1. PICK new \in Links :
          /\ links[new] = "unused"
          /\ links' = [l \in Links |-> IF l = new THEN "open"
                                       ELSE IF l \in req[r].held THEN "closed" ELSE links[l]]
    BY <1>2 DEF CommitLink
  <2>2. resets' = resets
    BY <1>2 DEF CommitLink
  <2>3. resets[new] = 0
    BY <1>0, <2>1 DEF LinksSpent
  <2>q. QED
    BY <1>0, <2>1, <2>2, <2>3 DEF LinksSpent, LinkResetsOnce
<1>3. ASSUME NEW r \in Requests, ResetPassword(r) PROVE LinksSpent' /\ LinkResetsOnce'
  <2> DEFINE l == req[r].link
  <2>1. CASE LinkOpen(l)
    <3>1. /\ links' = [links EXCEPT ![l] = "closed"]
          /\ resets' = [resets EXCEPT ![l] = @ + 1]
      BY <1>3, <2>1 DEF ResetPassword
    <3>2. l \in Links => resets[l] = 0
      BY <1>0, <2>1 DEF LinkOpen, LinksSpent
    <3>q. QED
      BY <1>0, <3>1, <3>2 DEF LinksSpent, LinkResetsOnce
  <2>2. CASE ~LinkOpen(l)
    BY <1>1, <1>3, <2>2 DEF ResetPassword
  <2>q. QED
    BY <2>1, <2>2
<1>4. ASSUME NEW l \in Links, ExpireLink(l) PROVE LinksSpent' /\ LinkResetsOnce'
  BY <1>0, <1>4 DEF ExpireLink, LinksSpent, LinkResetsOnce
<1>5. ASSUME NEW r \in Requests, Start(r) \/ Serve(r) \/ Reply(r) \/ Cancel(r),
             ~CommitLink(r), ~ResetPassword(r)
      PROVE  UNCHANGED <<links, resets>>
  BY <1>5 DEF Start, Serve, Reply, Cancel, LoginRead, RecordLoginFailure, ResetLoginFailures,
     CreateToken, RefreshRead, RefreshRevoke, LogoutRead, LogoutRevoke, RevokeSession,
     RevokeOthers, ChangePasswordRead, UpdatePassword, InvalidateLinks, ResetRead
<1>6. ASSUME (\E t \in Tokens : ExpireToken(t)) \/ ExpireLock \/ MarkEmailVerified
      PROVE  UNCHANGED <<links, resets>>
  BY <1>6 DEF ExpireToken, ExpireLock, MarkEmailVerified
<1>q. QED
  BY <1>1, <1>2, <1>3, <1>4, <1>5, <1>6 DEF Next, vars

\* However many requests hold one link, whatever order they read it, hash and write in, and
\* whether it expires or is replaced meanwhile, ResetPassword writes at most one password with
\* it, in the whole life of the system.
THEOREM LinksResetOnce == Spec => []LinkResetsOnce
<1>1. Init => LinksSpent /\ LinkResetsOnce
  BY DEF Init, LinksSpent, LinkResetsOnce
<1>2. TypeOK /\ LinksSpent /\ LinkResetsOnce /\ [Next]_vars => LinksSpent' /\ LinkResetsOnce'
  BY ResetLinkStep
<1>q. QED
  BY <1>1, <1>2, AccountsTyped, PTL DEF Spec

-----------------------------------------------------------------------------
(* Password guesses *)

\* Only a login that finds the account unlocked starts to count a wrong password.
LEMMA FailingStep ==
  ASSUME TypeOK, Next
  PROVE  \/ Failing' \subseteq Failing
         \/ ~user.locked /\ UNCHANGED <<user, guesses>>
  <1>1. ASSUME NEW r \in Requests, Start(r) PROVE Failing' \subseteq Failing
    <2>1. PICK q \in PossibleRequests : req' = [req EXCEPT ![r] = q]
      BY <1>1 DEF Start
    <2>2. q.phase # "fail"
      BY AsksFields DEF PossibleRequests
    <2>q. QED
      BY <2>1, <2>2 DEF Failing, At, TypeOK
  <1>2. ASSUME NEW r \in Requests, Serve(r) \/ Reply(r) \/ Cancel(r)
        PROVE  \/ Failing' \subseteq Failing
               \/ ~user.locked /\ UNCHANGED <<user, guesses>>
    <2>0. req \in [Requests -> RequestRecords] /\ req[r] \in RequestRecords
      BY DEF TypeOK
    <2>1. CASE \E a : Answer(r, a)
      BY <2>0, <2>1 DEF Answer, Idle, Failing, At
    <2>2. CASE req' = [req EXCEPT ![r] = Idle]
      BY <2>0, <2>2 DEF Idle, Failing, At
    <2>3. CASE \E p : Go(r, p) /\ (p = "fail" => LoginRead(r) /\ ~user.locked)
      <3>1. PICK p : Go(r, p) /\ (p = "fail" => LoginRead(r) /\ ~user.locked)
        BY <2>3
      <3>2. CASE p = "fail"
        BY <3>1, <3>2 DEF LoginRead
      <3>3. CASE p # "fail"
        BY <2>0, <3>1, <3>3 DEF Go, Failing, At, RequestRecords
      <3>q. QED
        BY <3>2, <3>3
    <2>4. CASE \/ \E f : req' = [req EXCEPT ![r].phase = "clear", ![r].family = f]
               \/ \E f : req' = [req EXCEPT ![r].phase = "revoke", ![r].family = f]
               \/ \E h : req' = [req EXCEPT ![r].phase = "commit", ![r].held = h]
      BY <2>0, <2>4 DEF Failing, At, RequestRecords
    <2>q. QED
      BY <1>2, <2>1, <2>2, <2>3, <2>4, StepForms
  <1>3. CASE UNCHANGED req
    BY <1>3 DEF Failing, At
  <1>q. QED
    BY <1>1, <1>2, <1>3 DEF Next, ExpireToken, ExpireLink, ExpireLock, MarkEmailVerified

\* What a step makes of the failures, the lock and the guesses.
LEMMA CountStep ==
  ASSUME TypeOK, Next
  PROVE  \/ guesses' = guesses /\ user'.failures = user.failures /\ user'.locked = user.locked
         \/ guesses' = 0 /\ user'.failures = 0 /\ user'.locked = FALSE
         \/ guesses' = 0 /\ user'.failures = user.failures
         \/ \E r \in Requests : RecordLoginFailure(r)
  <1>1. CASE \E r \in Requests : ResetLoginFailures(r)
    BY <1>1 DEF ResetLoginFailures, TypeOK
  <1>2. CASE \E r \in Requests : ResetPassword(r)
    BY <1>2 DEF ResetPassword
  <1>3. CASE ExpireLock \/ MarkEmailVerified
    BY <1>3 DEF ExpireLock, MarkEmailVerified, TypeOK
  <1>4. CASE UNCHANGED <<user, guesses>>
    BY <1>4
  <1>q. QED
    BY <1>1, <1>2, <1>3, <1>4 DEF Next, Start, Serve, Reply, Cancel, ExpireToken, ExpireLink,
       LoginRead, CreateToken, RefreshRead, RefreshRevoke, LogoutRead, LogoutRevoke,
       RevokeSession, RevokeOthers, ChangePasswordRead, UpdatePassword, InvalidateLinks,
       CommitLink, ResetRead

LEMMA SubsetSize ==
  ASSUME NEW S \in SUBSET Requests
  PROVE  /\ IsFiniteSet(S) /\ Cardinality(S) \in Nat
         /\ Cardinality(S) <= Cardinality(Requests) /\ Cardinality(Requests) \in Nat
  BY FiniteRequests, FS_Subset, FS_CardinalityType

\* A wrong password is counted, locks from the threshold on, and leaves one request fewer.
LEMMA CountedStep ==
  ASSUME TypeOK, GuessInvariant, NEW r \in Requests, RecordLoginFailure(r)
  PROVE  GuessInvariant'
<1> USE AccountConstants
<1> DEFINE n == Cardinality(Failing)
<1>1. /\ user.failures \in Nat /\ user.locked \in BOOLEAN /\ guesses \in Nat /\ Threshold \in Nat
      /\ MaxExponent \in Nat /\ n \in Nat /\ Cardinality(Requests) \in Nat
  BY SubsetSize DEF TypeOK, Failing
<1>2. Cardinality(Failing') = n - 1 /\ guesses' = guesses + 1
  <2>1. PICK a : Answer(r, a)
    BY DEF RecordLoginFailure
  <2>2. req'[r].phase = "done" /\ \A q \in Requests : q # r => req'[q] = req[q]
    BY <2>1 DEF TypeOK, Answer, Idle
  <2>3. Failing' = Failing \ {r} /\ r \in Failing
    BY <2>2 DEF RecordLoginFailure, Failing, At
  <2>4. IsFiniteSet(Failing)
    BY SubsetSize DEF Failing
  <2>5. Cardinality(Failing \ {r}) = Cardinality(Failing) - 1
    BY <2>3, <2>4, FS_RemoveElement
  <2>q. QED
    BY <2>3, <2>5 DEF RecordLoginFailure
<1> HIDE DEF n
<1>3. CASE LockFits(user.failures + 1)
  <2>1. /\ user'.failures = user.failures + 1
        /\ ~user'.locked => ~user.locked /\ user.failures + 1 < Threshold
    <3>1. user' = Counted
      BY <1>3 DEF RecordLoginFailure
    <3>2. user \in [verified : BOOLEAN, failures : Nat, locked : BOOLEAN]
      BY DEF TypeOK
    <3>3. Counted.failures = user.failures + 1
      BY <3>2 DEF Counted
    <3>4. Counted.locked = (user.locked \/ user.failures + 1 >= Threshold)
      BY <3>2 DEF Counted
    <3>5. ~(user.failures + 1 >= Threshold) => user.failures + 1 < Threshold
      BY <1>1
    <3>q. QED
      BY <3>1, <3>3, <3>4, <3>5
  <2>2. ~user.locked => guesses < Threshold /\ guesses <= user.failures
    BY <1>3 DEF GuessInvariant, UnlockedCounted
  <2>3. guesses + n <= Threshold - 1 + Cardinality(Requests)
    BY <1>3 DEF GuessInvariant, GuessesBounded, n
  <2>4. ~user'.locked => guesses' < Threshold /\ guesses' <= user'.failures
    BY <1>1, <1>2, <2>1, <2>2
  <2>5. guesses' + Cardinality(Failing') <= Threshold - 1 + Cardinality(Requests)
    BY <1>1, <1>2, <2>3
  <2>q. QED
    BY <2>4, <2>5 DEF GuessInvariant, UnlockedCounted, GuessesBounded
<1>4. CASE ~LockFits(user.failures + 1)
  <2>1. user' = user
    BY <1>4 DEF RecordLoginFailure
  <2>q. QED
    BY <1>4, <2>1 DEF GuessInvariant, UnlockedCounted, GuessesBounded, LockFits
<1>q. QED
  BY <1>3, <1>4

LEMMA GuessStep == TypeOK /\ GuessInvariant /\ [Next]_vars => GuessInvariant'
<1> USE AccountConstants
<1> SUFFICES ASSUME TypeOK, GuessInvariant, [Next]_vars PROVE GuessInvariant'
  OBVIOUS
<1>1. CASE UNCHANGED vars
  BY <1>1 DEF vars, GuessInvariant, UnlockedCounted, GuessesBounded, LockFits, Failing, At
<1>2. CASE \E r \in Requests : RecordLoginFailure(r)
  BY <1>2, CountedStep
<1>3. CASE Next /\ ~\E r \in Requests : RecordLoginFailure(r)
  <2> DEFINE n == Cardinality(Failing)
             m == Cardinality(Failing')
             c == Cardinality(Requests)
  <2>1. /\ user.failures \in Nat /\ user.locked \in BOOLEAN /\ guesses \in Nat /\ Threshold \in Nat
        /\ n \in Nat /\ m \in Nat /\ c \in Nat /\ n <= c /\ m <= c
    <3>1. Failing \in SUBSET Requests /\ Failing' \in SUBSET Requests
      BY DEF Failing
    <3>q. QED
      BY <3>1, SubsetSize DEF TypeOK
  <2>2. Failing' \subseteq Failing => m <= n
    <3>1. IsFiniteSet(Failing)
      BY SubsetSize DEF Failing
    <3>q. QED
      BY <3>1, FS_Subset
  <2>3. \/ Failing' \subseteq Failing
        \/ ~user.locked /\ UNCHANGED <<user, guesses>>
    BY <1>3, FailingStep
  <2>4. LockFits(user.failures + 1) =>
          /\ guesses + n <= Threshold - 1 + c
          /\ ~user.locked => guesses < Threshold /\ guesses <= user.failures
    BY DEF GuessInvariant, UnlockedCounted, GuessesBounded
  <2> HIDE DEF n, m, c
  <2> SUFFICES ASSUME LockFits(user'.failures + 1)
               PROVE  /\ guesses' + m <= Threshold - 1 + c
                      /\ ~user'.locked => guesses' < Threshold /\ guesses' <= user'.failures
    BY DEF GuessInvariant, UnlockedCounted, GuessesBounded, LockFits, m, c
  <2>5. CASE guesses' = guesses /\ user'.failures = user.failures /\ user'.locked = user.locked
    <3>1. LockFits(user.failures + 1)
      BY <2>5 DEF LockFits
    <3>2. ~user'.locked => guesses' < Threshold /\ guesses' <= user'.failures
      BY <2>4, <2>5, <3>1
    <3>3. guesses' + m <= Threshold - 1 + c
      <4>1. CASE Failing' \subseteq Failing
        BY <2>1, <2>2, <2>4, <2>5, <3>1, <4>1
      <4>2. CASE ~user.locked
        BY <2>1, <2>4, <2>5, <3>1, <4>2
      <4>q. QED
        BY <2>3, <4>1, <4>2
    <3>q. QED
      BY <3>2, <3>3
  <2>6. CASE guesses' = 0 /\ user'.failures \in Nat
    BY <2>1, <2>6
  <2>7. \/ guesses' = guesses /\ user'.failures = user.failures /\ user'.locked = user.locked
        \/ guesses' = 0 /\ (user'.failures = 0 \/ user'.failures = user.failures)
    BY <1>3, CountStep
  <2>q. QED
    BY <2>1, <2>5, <2>6, <2>7
<1>q. QED
  BY <1>1, <1>2, <1>3

\* Until the lock's interval overflows, no more than Threshold - 1 wrong passwords and those of
\* the logins in flight are answered between two ends of the lock, for any number of requests.
THEOREM GuessesStayBounded == Spec => []GuessesBounded
<1> USE AccountConstants
<1>1. Init => GuessInvariant
  <2> SUFFICES ASSUME Init PROVE GuessInvariant
    OBVIOUS
  <2>1. user.failures = 0 /\ guesses = 0
    BY DEF Init
  <2>2. Failing = {}
    BY DEF Init, Failing, At, Idle
  <2>3. Cardinality(Failing) = 0 /\ Cardinality(Requests) \in Nat
    BY <2>2, FS_EmptySet, FiniteRequests, FS_CardinalityType
  <2>q. QED
    BY <2>1, <2>3 DEF GuessInvariant, UnlockedCounted, GuessesBounded
<1>2. SessionInvariant => TypeOK
  BY DEF SessionInvariant
<1>3. GuessInvariant => GuessesBounded
  BY DEF GuessInvariant
<1>q. QED
  BY <1>1, <1>2, <1>3, SessionsKept, GuessStep, PTL DEF Spec

-----------------------------------------------------------------------------
(* Where sign-outs and links are safe from races *)

\* A request's step changes its own record and no other.
LEMMA OneRecordStep ==
  ASSUME TypeOK, NEW r \in Requests, Start(r) \/ Serve(r) \/ Reply(r) \/ Cancel(r)
  PROVE  \E s : req' = [req EXCEPT ![r] = s]
  BY DEF Start, Serve, Reply, Cancel, LoginRead, RecordLoginFailure,
     ResetLoginFailures, SignInIfVerified, CreateToken, RefreshRead, RefreshRevoke, LogoutRead,
     LogoutRevoke, RevokeSession, RevokeOthers, ChangePasswordRead, UpdatePassword,
     InvalidateLinks, CommitLink, ResetRead, ResetPassword, Go, Answer, TypeOK

\* One request at a time, or no refresh at all.
NoRefreshRaces == (\A r, q \in Requests : r = q) \/ "refresh" \notin Operations

\* Requests run operations of the instance, and only logins and refreshes create tokens.
OperationsAllowed ==
    \A r \in Requests : /\ Op(r) \in Operations \cup {"none"}
                        /\ At(r, "create") => Op(r) \in {"login", "refresh"}

NeverRaced == \A f \in Families : signedOut[f] # "raced"

RaceInvariant == SessionInvariant /\ OperationsAllowed /\ NeverRaced

LEMMA OperationsStayAllowed ==
  ASSUME SessionInvariant, OperationsAllowed, [Next]_vars
  PROVE  OperationsAllowed'
<1> SUFFICES ASSUME NEW q \in Requests
             PROVE  /\ req'[q].op \in Operations \cup {"none"}
                    /\ req'[q].phase = "create" => req'[q].op \in {"login", "refresh"}
  BY DEF OperationsAllowed, At, Op
<1>0. /\ TypeOK /\ req[q].op \in Operations \cup {"none"}
      /\ req[q].phase = "create" => req[q].op \in {"login", "refresh"}
  BY DEF SessionInvariant, OperationsAllowed, At, Op
<1>1. CASE req'[q] = req[q]
  BY <1>0, <1>1
<1>2. ASSUME Start(q)
      PROVE  req'[q].op \in Operations \cup {"none"} /\ req'[q].phase # "create"
  <2>1. PICK s \in PossibleRequests : req' = [req EXCEPT ![q] = s] /\ s.op \in Operations
    BY <1>2 DEF Start
  <2>2. s.phase # "create"
    BY AsksFields DEF PossibleRequests
  <2>3. QED
    BY <1>0, <2>1, <2>2 DEF TypeOK
<1>3. ASSUME Serve(q) \/ Reply(q) \/ Cancel(q)
      PROVE  /\ req'[q].op \in Operations \cup {"none"}
             /\ req'[q].phase = "create" => req'[q].op \in {"login", "refresh"}
  <2>0. req[q] \in RequestRecords /\ req \in [Requests -> RequestRecords]
    BY <1>0 DEF TypeOK
  <2>1. CASE (\E a : Answer(q, a)) \/ req' = [req EXCEPT ![q] = Idle]
    <3>1. CASE \E a : Answer(q, a)
      BY <2>0, <3>1 DEF Answer, Idle
    <3>2. CASE req' = [req EXCEPT ![q] = Idle]
      BY <2>0, <3>2 DEF Idle
    <3>3. QED
      BY <2>1, <3>1, <3>2
  <2>2. CASE \E p : Go(q, p)
    <3>1. PICK p : Go(q, p)
      BY <2>2
    <3>2. req'[q].op = req[q].op /\ req'[q].phase = p
      BY <2>0, <3>1 DEF Go, RequestRecords
    <3>3. ASSUME p = "create" PROVE req[q].op \in {"login", "refresh"}
      <4>1. req'[q].phase = "create"
        BY <3>2, <3>3
      <4>2. \A a : ~Answer(q, a)
        BY <2>0, <4>1 DEF Answer, Idle
      <4>3. \A o \in Phases \ {"create"} : ~Go(q, o)
        BY <2>0, <4>1 DEF Go, RequestRecords
      <4>4. ResetLoginFailures(q) \/ RefreshRevoke(q)
        <5>1. ~(Reply(q) \/ Cancel(q) \/ LogoutRead(q) \/ LogoutRevoke(q) \/ RevokeSession(q)
                 \/ RevokeOthers(q) \/ ChangePasswordRead(q) \/ UpdatePassword(q)
                 \/ CommitLink(q) \/ ResetPassword(q) \/ ResetRead(q) \/ CreateToken(q)
                 \/ RecordLoginFailure(q))
          <6>1. ~(Reply(q) \/ Cancel(q))
            BY <2>0, <4>1 DEF Reply, Cancel, Idle
          <6>2. QED
            BY <4>2, <4>3, <6>1 DEF Phases, LogoutRead, LogoutRevoke, RevokeSession,
               RevokeOthers, ChangePasswordRead, UpdatePassword, CommitLink, ResetPassword,
               ResetRead, CreateToken, RecordLoginFailure
        <5>2. ~(LoginRead(q) \/ InvalidateLinks(q) \/ RefreshRead(q))
          BY <2>0, <4>1, <4>2, <4>3 DEF Phases, LoginRead, InvalidateLinks, RefreshRead,
             RequestRecords
        <5>3. QED
          BY <1>3, <5>1, <5>2 DEF Serve
      <4>5. QED
        BY <4>4 DEF ResetLoginFailures, RefreshRevoke, SessionInvariant, TokensKnown, At, Op
    <3>4. QED
      BY <1>0, <3>2, <3>3
  <2>3. CASE \/ \E f : req' = [req EXCEPT ![q].phase = "clear", ![q].family = f]
             \/ \E f : req' = [req EXCEPT ![q].phase = "revoke", ![q].family = f]
             \/ \E h : req' = [req EXCEPT ![q].phase = "commit", ![q].held = h]
    <3>1. req'[q].op = req[q].op /\ req'[q].phase \in {"clear", "revoke", "commit"}
      BY <2>0, <2>3 DEF RequestRecords
    <3>2. QED
      BY <1>0, <3>1
  <2>4. QED
    BY <1>3, <2>1, <2>2, <2>3, StepForms
<1>4. CASE ~(Start(q) \/ Serve(q) \/ Reply(q) \/ Cancel(q))
  <2>1. CASE \E r \in Requests : Start(r) \/ Serve(r) \/ Reply(r) \/ Cancel(r)
    <3>1. PICK r \in Requests : Start(r) \/ Serve(r) \/ Reply(r) \/ Cancel(r)
      BY <2>1
    <3>2. \E s : req' = [req EXCEPT ![r] = s]
      BY <1>0, <3>1, OneRecordStep
    <3>3. QED
      BY <1>0, <1>1, <1>4, <3>1, <3>2 DEF TypeOK
  <2>2. QED
    BY <1>1, <1>4, <2>1 DEF Next, vars, ExpireToken, ExpireLink, ExpireLock, MarkEmailVerified
<1>5. QED
  BY <1>2, <1>3, <1>4

\* A sign-out by a request that is not refreshing meets no session that is about to get a token.
LEMMA SignOutUnraced ==
  ASSUME NoRefreshRaces, RaceInvariant, NEW r \in Requests, ~At(r, "create"),
         ~(At(r, "revoke") /\ Op(r) = "refresh"), NEW F, NEW table, SignOut(F, table)
  PROVE  NeverRaced'
<1>1. \A f \in Families : Issued(f) => ~Pending(f, table)
  <2> SUFFICES ASSUME NEW f \in Families, Issued(f), NEW q \in Requests, req[q].family = f,
                      At(q, "create") \/ (At(q, "revoke") /\ Op(q) = "refresh")
               PROVE  FALSE
    BY DEF Pending
  <2>1. q # r /\ "refresh" \notin Operations
    BY DEF NoRefreshRaces
  <2>2. At(q, "create") /\ Op(q) = "login"
    BY <2>1 DEF RaceInvariant, OperationsAllowed
  <2>3. req[q].family # None
    BY <2>2 DEF RaceInvariant, SessionInvariant, OneCreator, Creating
  <2>4. QED
    BY <2>2, <2>3 DEF RaceInvariant, SessionInvariant, DrawnByOne
<1>2. QED
  BY <1>1 DEF SignOut, RaceInvariant, NeverRaced

LEMMA RaceStep ==
  ASSUME NoRefreshRaces, RaceInvariant, [Next]_vars
  PROVE  RaceInvariant'
<1>0. SessionInvariant /\ OperationsAllowed /\ NeverRaced
  BY DEF RaceInvariant
<1>1. SessionInvariant' /\ OperationsAllowed'
  BY <1>0, TypeStep, SessionStep, LinksStep, OperationsStayAllowed
     DEF SessionInvariant, SessionParts
<1>2. CASE signedOut' = signedOut
  BY <1>0, <1>1, <1>2 DEF RaceInvariant, NeverRaced
<1>3. ASSUME NEW r \in Requests, \E F, table : SignOut(F, table),
             LogoutRevoke(r) \/ RevokeSession(r) \/ RevokeOthers(r) \/ ResetPassword(r)
      PROVE  RaceInvariant'
  <2>1. ~At(r, "create") /\ ~(At(r, "revoke") /\ Op(r) = "refresh")
    BY <1>3 DEF LogoutRevoke, RevokeSession, RevokeOthers, ResetPassword, At
  <2>2. QED
    BY <1>1, <1>3, <2>1, SignOutUnraced DEF RaceInvariant
<1>4. ASSUME NEW r \in Requests, Start(r) \/ Serve(r) \/ Reply(r) \/ Cancel(r)
      PROVE  RaceInvariant'
  <2>1. \/ signedOut' = signedOut
        \/ /\ \E F, table : SignOut(F, table)
           /\ LogoutRevoke(r) \/ RevokeSession(r) \/ RevokeOthers(r) \/ ResetPassword(r)
    BY <1>4 DEF Start, Serve, Reply, Cancel, LoginRead, RecordLoginFailure,
       ResetLoginFailures, CreateToken, RefreshRead, RefreshRevoke, LogoutRead,
       LogoutRevoke, RevokeSession, RevokeOthers, ChangePasswordRead, UpdatePassword,
       InvalidateLinks, CommitLink, ResetRead, ResetPassword
  <2>2. QED
    BY <1>2, <1>3, <2>1
<1>5. QED
  BY <1>2, <1>4 DEF Next, vars, ExpireToken, ExpireLink, ExpireLock, MarkEmailVerified

\* The converse of the sign-out finding: a session comes back only through a refresh that races
\* with its sign-out.  One request at a time, or without refreshes, the sessions that a logout, a
\* revocation or a change or reset of the password covers stay signed out.
THEOREM OnlyRacingRefreshRestores ==
  ASSUME NoRefreshRaces
  PROVE  Spec => []SignedOutStaysOut
<1>1. Init => RaceInvariant
  BY SessionInit DEF Init, RaceInvariant, OperationsAllowed, NeverRaced, At, Op, Idle
<1>2. RaceInvariant /\ [Next]_vars => RaceInvariant'
  BY RaceStep
<1>3. RaceInvariant => SignedOutStaysOut
  <2> SUFFICES ASSUME RaceInvariant, NEW f \in Families, signedOut[f] # "no" PROVE ~Active(f)
    BY DEF SignedOutStaysOut
  <2>1. signedOut[f] = "final"
    BY DEF RaceInvariant, NeverRaced, SessionInvariant, TypeOK, Ends
  <2>2. QED
    BY <2>1 DEF RaceInvariant, SessionInvariant, EndsFinal
<1>4. QED
  BY <1>1, <1>2, <1>3, PTL DEF Spec

(* Reset links. *)

\* The one request that makes a new link holds every open one.
AllHeld == \A r \in Requests : At(r, "commit") => \A l \in Links : links[l] = "open" => l \in req[r].held

LEMMA LinkInvariantStep ==
  ASSUME \A r, q \in Requests : r = q, TypeOK, AllHeld, OnlyNewestLinkWorks, [Next]_vars
  PROVE  AllHeld' /\ OnlyNewestLinkWorks'
<1>1. CASE UNCHANGED links /\ \A r \in Requests : req'[r].phase = "commit" => req'[r] = req[r]
  BY <1>1 DEF AllHeld, OnlyNewestLinkWorks, At
<1>2. ASSUME NEW r \in Requests, InvalidateLinks(r) PROVE AllHeld' /\ OnlyNewestLinkWorks'
  <2>1. \A q \in Requests : q = r
    OBVIOUS
  <2>2. req'[r].held = {l \in Links : links[l] = "open"} /\ links' = links
    BY <1>2 DEF InvalidateLinks, TypeOK, RequestRecords
  <2>3. QED
    BY <2>1, <2>2 DEF AllHeld, OnlyNewestLinkWorks, At
<1>3. ASSUME NEW r \in Requests, CommitLink(r) PROVE AllHeld' /\ OnlyNewestLinkWorks'
  <2>1. PICK new \in Links :
          links' = [l \in Links |-> IF l = new THEN "open"
                                    ELSE IF l \in req[r].held THEN "closed" ELSE links[l]]
    BY <1>3 DEF CommitLink
  <2>2. \A l \in Links : links'[l] = "open" => l = new
    BY <1>3, <2>1 DEF CommitLink, AllHeld
  <2>3. \A q \in Requests : req'[q].phase = "done"
    BY <1>3 DEF CommitLink, Answer, Idle, TypeOK
  <2>4. QED
    BY <2>2, <2>3 DEF AllHeld, OnlyNewestLinkWorks, At
<1>4. ASSUME NEW r \in Requests, ResetPassword(r) PROVE AllHeld' /\ OnlyNewestLinkWorks'
  <2>1. \A l \in Links : links'[l] = "open" => links[l] = "open"
    BY <1>4 DEF ResetPassword, TypeOK
  <2>2. \E a : Answer(r, a)
    BY <1>4 DEF ResetPassword
  <2>3. \A q \in Requests : req'[q].phase = "done"
    BY <2>2 DEF Answer, Idle, TypeOK
  <2>4. QED
    BY <2>1, <2>3 DEF AllHeld, OnlyNewestLinkWorks, At
<1>5. ASSUME NEW l \in Links, ExpireLink(l) PROVE AllHeld' /\ OnlyNewestLinkWorks'
  <2>1. req' = req /\ \A k \in Links : links'[k] = "open" => links[k] = "open"
    BY <1>5 DEF ExpireLink, TypeOK
  <2>2. QED
    BY <2>1 DEF AllHeld, OnlyNewestLinkWorks, At
<1>6. ASSUME NEW r \in Requests, Start(r) PROVE AllHeld' /\ OnlyNewestLinkWorks'
  <2>1. PICK s \in PossibleRequests : req' = [req EXCEPT ![r] = s]
    BY <1>6 DEF Start
  <2>2. s.phase # "commit"
    BY AsksFields DEF PossibleRequests
  <2>3. QED
    BY <1>1, <1>6, <2>1, <2>2 DEF Start, TypeOK
<1>7. ASSUME NEW r \in Requests, Serve(r) \/ Reply(r) \/ Cancel(r),
             ~(InvalidateLinks(r) \/ CommitLink(r) \/ ResetPassword(r))
      PROVE  AllHeld' /\ OnlyNewestLinkWorks'
  <2>0. req \in [Requests -> RequestRecords] /\ req[r] \in RequestRecords
    BY DEF TypeOK
  <2>1. links' = links
    BY <1>7 DEF Serve, Reply, Cancel, LoginRead, RecordLoginFailure, ResetLoginFailures,
       CreateToken, RefreshRead, RefreshRevoke, LogoutRead, LogoutRevoke, RevokeSession,
       RevokeOthers, ChangePasswordRead, UpdatePassword, ResetRead
  <2>2. \/ \E a : Answer(r, a)
        \/ req' = [req EXCEPT ![r] = Idle]
        \/ \E p : p # "commit" /\ Go(r, p)
        \/ \E p, f : p # "commit" /\ req' = [req EXCEPT ![r].phase = p, ![r].family = f]
    BY <1>7 DEF Serve, Reply, Cancel, LoginRead, RecordLoginFailure, ResetLoginFailures,
       SignInIfVerified, CreateToken, RefreshRead, RefreshRevoke, LogoutRead, LogoutRevoke,
       RevokeSession, RevokeOthers, ChangePasswordRead, UpdatePassword, ResetRead
  <2>3. req'[r].phase # "commit"
    <3>1. CASE \E a : Answer(r, a)
      BY <2>0, <3>1 DEF Answer, Idle
    <3>0. CASE req' = [req EXCEPT ![r] = Idle]
      BY <2>0, <3>0 DEF Idle
    <3>2. CASE \E p : p # "commit" /\ Go(r, p)
      BY <2>0, <3>2 DEF Go, RequestRecords
    <3>3. CASE \E p, f : p # "commit" /\ req' = [req EXCEPT ![r].phase = p, ![r].family = f]
      BY <2>0, <3>3 DEF RequestRecords
    <3>4. QED
      BY <2>2, <3>0, <3>1, <3>2, <3>3
  <2>4. QED
    BY <1>1, <2>1, <2>3
<1>8. QED
  BY <1>1, <1>2, <1>3, <1>4, <1>5, <1>6, <1>7
     DEF Next, vars, ExpireToken, ExpireLock, MarkEmailVerified

\* The converse of the newest-link finding: two links work at once only when two requests for a
\* reset overlap.  One request at a time, only the newest link works.
THEOREM OnlyOverlapLeavesTwoLinks ==
  ASSUME \A r, q \in Requests : r = q
  PROVE  Spec => []OnlyNewestLinkWorks
<1>1. Init => AllHeld /\ OnlyNewestLinkWorks
  BY DEF Init, AllHeld, OnlyNewestLinkWorks, At, Idle
<1>2. TypeOK /\ AllHeld /\ OnlyNewestLinkWorks /\ [Next]_vars
        => AllHeld' /\ OnlyNewestLinkWorks'
  BY LinkInvariantStep
<1>3. QED
  BY <1>1, <1>2, AccountsTyped, PTL DEF Spec

(* The lock. *)

\* The count of failures never gets to where the lock's interval overflows.
CountFits == user.failures <= guesses /\ LockFits(user.failures + 1)

\* Without an end of the lock, what is counted was guessed since the count was last reset.
LEMMA CountStepLocked ==
  ASSUME "expire_lock" \notin Operations, TypeOK, [Next]_vars
  PROVE  \/ guesses' = guesses /\ user'.failures = user.failures
         \/ guesses' = 0 /\ user'.failures = 0
         \/ \E r \in Requests : RecordLoginFailure(r)
  <1>1. CASE \E r \in Requests : ResetLoginFailures(r)
    BY <1>1 DEF ResetLoginFailures, TypeOK
  <1>2. CASE \E r \in Requests : ResetPassword(r)
    BY <1>2 DEF ResetPassword
  <1>3. CASE MarkEmailVerified
    BY <1>3 DEF MarkEmailVerified, TypeOK
  <1>4. CASE UNCHANGED <<user, guesses>>
    BY <1>4
  <1>q. QED
    BY <1>1, <1>2, <1>3, <1>4 DEF Next, vars, Start, Serve, Reply, Cancel, ExpireToken, ExpireLink,
       ExpireLock, LoginRead, CreateToken, RefreshRead, RefreshRevoke, LogoutRead, LogoutRevoke,
       RevokeSession, RevokeOthers, ChangePasswordRead, UpdatePassword, InvalidateLinks,
       CommitLink, ResetRead

LEMMA CountFitsStep ==
  ASSUME "expire_lock" \notin Operations, Cardinality(Requests) < MaxExponent,
         TypeOK, GuessesBounded, CountFits, [Next]_vars
  PROVE  CountFits'
<1> USE AccountConstants
<1>1. /\ user.failures \in Nat /\ guesses \in Nat /\ Threshold \in Nat /\ Threshold > 0
      /\ MaxExponent \in Nat /\ Cardinality(Requests) \in Nat /\ Cardinality(Failing) \in Nat
  BY SubsetSize DEF TypeOK, Failing
<1>2. CASE guesses' = guesses /\ user'.failures = user.failures
  BY <1>2 DEF CountFits, LockFits
<1>3. CASE guesses' = 0 /\ user'.failures = 0
  <2>1. 0 + 1 < Threshold + MaxExponent
    BY <1>1
  <2>q. QED
    BY <1>3, <2>1 DEF CountFits, LockFits
<1>4. ASSUME NEW r \in Requests, RecordLoginFailure(r) PROVE CountFits'
  <2>1. Cardinality(Failing) > 0
    <3>1. r \in Failing
      BY <1>4 DEF RecordLoginFailure, Failing
    <3>2. IsFiniteSet(Failing)
      BY SubsetSize DEF Failing
    <3>3. Cardinality(Failing \ {r}) = Cardinality(Failing) - 1
            /\ Cardinality(Failing \ {r}) \in Nat
      BY <3>1, <3>2, FS_RemoveElement, SubsetSize DEF Failing
    <3>q. QED
      BY <1>1, <3>3
  <2>2. guesses + Cardinality(Failing) <= Threshold - 1 + Cardinality(Requests)
    BY DEF CountFits, GuessesBounded
  <2>3. user' = Counted /\ guesses' = guesses + 1
    BY <1>4 DEF RecordLoginFailure, CountFits
  <2>4. user'.failures = user.failures + 1
    BY <2>3 DEF Counted, TypeOK
  <2>5. user.failures <= guesses
    BY DEF CountFits
  <2>6. user.failures + 1 <= guesses + 1 /\ user.failures + 2 < Threshold + MaxExponent
    BY <1>1, <2>1, <2>2, <2>5
  <2>q. QED
    BY <1>1, <2>3, <2>4, <2>6 DEF CountFits, LockFits
<1>q. QED
  BY <1>2, <1>3, <1>4, CountStepLocked

\* The converse of the lock-overflow finding: it takes locks that end while the failures stay
\* counted.  Where no lock ends by itself, and fewer requests run at once than the interval has
\* room for, every failure from the threshold on locks the account.
THEOREM OverflowNeedsLocksThatEnd ==
  ASSUME "expire_lock" \notin Operations, Cardinality(Requests) < MaxExponent
  PROVE  Spec => EveryLateFailureLocks
<1> USE AccountConstants
<1>1. Init => CountFits
  <2> SUFFICES ASSUME Init PROVE CountFits
    OBVIOUS
  <2>1. user.failures = 0 /\ guesses = 0
    BY DEF Init
  <2>2. Cardinality(Requests) \in Nat
    BY FiniteRequests, FS_CardinalityType
  <2>3. 0 + 1 < Threshold + MaxExponent
    BY <2>2
  <2>q. QED
    BY <2>1, <2>3 DEF CountFits, LockFits
<1>2. TypeOK /\ GuessesBounded /\ CountFits /\ [Next]_vars => CountFits'
  BY CountFitsStep
<1>3. TypeOK /\ CountFits /\ [Next]_vars =>
        [\A r \in Requests :
           At(r, "fail") /\ At(r, "done")' /\ user.failures + 1 >= Threshold => user'.locked]_vars
  <2> SUFFICES ASSUME TypeOK, CountFits, Next, NEW r \in Requests, req[r].phase = "fail",
                      req'[r].phase = "done", user.failures + 1 >= Threshold
               PROVE  user'.locked
    BY DEF At
  <2>1. PICK q \in Requests : Start(q) \/ Serve(q) \/ Reply(q) \/ Cancel(q)
    BY DEF Next, ExpireToken, ExpireLink, ExpireLock, MarkEmailVerified
  <2>2. \E s : req' = [req EXCEPT ![q] = s]
    BY <2>1, OneRecordStep
  <2>3. q = r
    BY <2>2 DEF TypeOK
  <2>4. ~(Start(r) \/ Reply(r) \/ Cancel(r))
    BY DEF At, Start, Reply, Cancel, Idle, TypeOK
  <2>5. RecordLoginFailure(r)
    BY <2>1, <2>3, <2>4 DEF At, Serve, LoginRead, ResetLoginFailures, CreateToken, RefreshRead,
       RefreshRevoke, LogoutRead, LogoutRevoke, RevokeSession, RevokeOthers, ChangePasswordRead,
       UpdatePassword, InvalidateLinks, CommitLink, ResetRead, ResetPassword
  <2>6. user' = Counted
    BY <2>5 DEF RecordLoginFailure, CountFits
  <2>7. Counted.locked = (user.locked \/ user.failures + 1 >= Threshold)
    BY DEF Counted, TypeOK
  <2>q. QED
    BY <2>6, <2>7
<1>q. QED
  BY <1>1, <1>2, <1>3, AccountsTyped, GuessesStayBounded, PTL DEF Spec, EveryLateFailureLocks
=============================================================================
