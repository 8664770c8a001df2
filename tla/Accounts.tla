------------------------------ MODULE Accounts ------------------------------
(***************************************************************************)
(* The sign-in state of one user under concurrent requests:                *)
(* apps/api/internal/auth/service.go over the tables users (login          *)
(* failures), refresh_tokens and password_reset_tokens.                    *)
(*                                                                         *)
(* A session is a family of refresh tokens that replace each other.  A     *)
(* request runs a service function one SQL statement (or one transaction)  *)
(* at a time and keeps what it has read; only ResetPassword and            *)
(* RequestPasswordReset use a transaction.  What a request computes        *)
(* between two statements, such as comparing a password with the hash it   *)
(* has read, belongs to the step of the earlier one.                       *)
(*                                                                         *)
(* Passwords are not told apart: a request knows the password whose hash   *)
(* it reads, or not.  The user is a row that is never deleted, and         *)
(* user_sessions, which only describes sessions for display, is left out.  *)
(***************************************************************************)
EXTENDS Naturals, FiniteSets

CONSTANTS
    Requests,     \* slots for requests the API serves at the same time
    Tokens,       \* refresh tokens, each issued at most once
    Families,     \* session ids, drawn by logins
    Links,        \* password reset links, each issued at most once
    None,         \* no token, family or link
    Operations,   \* the operations this instance lets happen
    Threshold,    \* LockoutThreshold
    MaxExponent,  \* the lock's interval overflows from 2^MaxExponent minutes on
    MaxGuesses    \* bound: wrong passwords sent while nothing resets the count

SessionSignOuts == {"revoke_session", "revoke_others", "change_password", "reset", "logout"}
AllOperations == SessionSignOuts \cup
    {"login", "refresh", "forgot", "expire_token", "expire_link", "expire_lock", "verify_email", "cancel"}

ASSUME AccountConstants ==
    /\ None \notin Tokens \cup Families \cup Links
    /\ Operations \subseteq AllOperations
    /\ Threshold \in Nat \ {0}
    /\ MaxExponent \in Nat
    /\ MaxGuesses \in Nat

ASSUME FiniteRequests == IsFiniteSet(Requests)

VARIABLES
    user,       \* the users row: verified, failures, locked
    tokens,     \* the refresh_tokens table
    links,      \* the password_reset_tokens table
    req,        \* what each request is doing and has read
    guesses,    \* history: wrong passwords answered since the failures were last cleared or
                \* the lock last ended
    resets,     \* history: the passwords written by means of each link
    signedOut   \* history: how the last sign-out that covered a session met it

vars == <<user, tokens, links, req, guesses, resets, signedOut>>

-----------------------------------------------------------------------------
(* Tables and requests *)

\* expired: past expires_at with revoked_at still NULL.
TokenStates == {"unused", "live", "expired", "revoked"}
LinkStates == {"unused", "open", "closed"}
Ends == {"no", "raced", "final"}

NoToken == [state |-> "unused", family |-> None]

Phases == {"idle", "read", "fail", "clear", "create", "revoke", "update", "revoke_others",
           "invalidate", "commit", "reset", "done"}
Answers == {"none", "ok", "refused", "failed"}

Idle == [op |-> "none", phase |-> "idle", token |-> None, family |-> None, link |-> None,
         held |-> {}, answer |-> "none"]

At(r, phase) == req[r].phase = phase
Op(r) == req[r].op
Go(r, phase) == req' = [req EXCEPT ![r].phase = phase]

\* refused: an answer the service has an error for; failed: 500.
Answer(r, a) == req' = [req EXCEPT ![r] = [Idle EXCEPT !.phase = "done", !.answer = a]]

Live(t) == tokens[t].state = "live"
Unrevoked(t) == tokens[t].state \in {"live", "expired"}
Issued(f) == \E t \in Tokens : tokens[t].family = f
Active(f) == \E t \in Tokens : Live(t) /\ tokens[t].family = f

\* Ids that uuid.New has not produced yet.
FreshFamilies == {f \in Families : ~Issued(f) /\ \A r \in Requests : req[r].family # f}

\* Sessions whose access token a caller may hold.
Callers == {f \in Families : Issued(f)}

-----------------------------------------------------------------------------
(* Signing out *)

\* The tokens of some sessions, in some states, revoked.
Revoked(F, states) ==
    [t \in Tokens |-> IF tokens[t].family \in F /\ tokens[t].state \in states
                      THEN [tokens[t] EXCEPT !.state = "revoked"] ELSE tokens[t]]

\* A request has read enough to give session f another token, whatever else happens: it has
\* revoked the token it replaces, or it is about to and still can.
Pending(f, table) ==
    \E r \in Requests :
        /\ req[r].family = f
        /\ \/ At(r, "create")
           \/ /\ At(r, "revoke") /\ Op(r) = "refresh"
              /\ table[req[r].token].state \in {"live", "expired"}

\* Those of the sessions F that exist are signed out by replacing the token table.
SignOut(F, table) ==
    /\ tokens' = table
    /\ signedOut' = [f \in Families |-> IF f \in F /\ Issued(f)
                                        THEN IF Pending(f, table) THEN "raced" ELSE "final"
                                        ELSE signedOut[f]]

-----------------------------------------------------------------------------
(* Requests arrive *)

Asks(op, token, family, link, phase) ==
    [Idle EXCEPT !.op = op, !.token = token, !.family = family, !.link = link, !.phase = phase]

PossibleRequests ==
    {Asks("login", None, None, None, "read"), Asks("forgot", None, None, None, "invalidate")}
        \cup {Asks(op, t, None, None, "read") :
                 op \in {"refresh", "logout"}, t \in {u \in Tokens : tokens[u].state # "unused"}}
        \cup {Asks("change_password", None, f, None, "read") : f \in Callers}
        \cup {Asks("revoke_session", None, f, None, "revoke") : f \in Callers}
        \cup {Asks("revoke_others", None, f, None, "revoke_others") : f \in Callers}
        \cup {Asks("reset", None, None, l, "read") : l \in {k \in Links : links[k] # "unused"}}

\* Bounds: a request starts only if what it may use up is left.
Unfinished(ops) == {r \in Requests : Op(r) \in ops}

Room(op) ==
    /\ op \in {"login", "refresh"} =>
         Cardinality(Unfinished({"login", "refresh"})) < Cardinality({t \in Tokens : tokens[t].state = "unused"})
    /\ op = "login" => /\ Cardinality(Unfinished({"login"})) < Cardinality(FreshFamilies)
                       /\ guesses + Cardinality(Unfinished({"login"})) < MaxGuesses
    /\ op = "forgot" =>
         Cardinality(Unfinished({"forgot"})) < Cardinality({l \in Links : links[l] = "unused"})

Start(r) ==
    /\ At(r, "idle")
    /\ \E q \in {p \in PossibleRequests : p.op \in Operations} :
         Room(q.op) /\ req' = [req EXCEPT ![r] = q]
    /\ UNCHANGED <<user, tokens, links, guesses, resets, signedOut>>

-----------------------------------------------------------------------------
(* Login *)

\* GetByEmail, and what follows from it: a lock that has not ended refuses the login before the
\* password is compared.  A verified user's session id is drawn here: it is a fresh UUID
\* wherever it is drawn.
LoginRead(r) ==
    /\ At(r, "read") /\ Op(r) = "login"
    /\ \/ user.locked /\ Answer(r, "refused")
       \/ ~user.locked /\ Go(r, "fail")
       \/ ~user.locked /\ ~user.verified /\ Go(r, "clear")
       \/ /\ ~user.locked /\ user.verified
          /\ \E f \in FreshFamilies :
               req' = [req EXCEPT ![r].phase = "clear", ![r].family = f]
    /\ UNCHANGED <<user, tokens, links, guesses, resets, signedOut>>

\* 2 ^ (failures - Threshold) minutes have to fit an interval: the database evaluates the power
\* before it takes the smaller of it and 60 minutes, and fails the statement when it does not.
LockFits(n) == n < Threshold + MaxExponent

\* Faults, here and below, are for the mutation checks only.  Fault: only the failure that
\* reaches the threshold locks.
CountedAndLockedOnce ==
    LET n == user.failures + 1 IN
    [user EXCEPT !.failures = n, !.locked = user.locked \/ n = Threshold]

\* The users row after one more failure.
Counted ==
    LET n == user.failures + 1 IN
    [user EXCEPT !.failures = n, !.locked = user.locked \/ n >= Threshold]

\* RecordLoginFailure, one statement.
RecordLoginFailure(r) ==
    /\ At(r, "fail")
    /\ IF LockFits(user.failures + 1)
       THEN user' = Counted /\ Answer(r, "refused")
       ELSE Answer(r, "failed") /\ UNCHANGED user
    /\ guesses' = guesses + 1
    /\ UNCHANGED <<tokens, links, resets, signedOut>>

\* Fault: nothing looks whether the user's email is verified.
AlwaysSignIn(r) == Go(r, "create")

\* Login's look at email_verified, at the user it has read.
SignInIfVerified(r) == IF req[r].family = None THEN Answer(r, "refused") ELSE Go(r, "create")

\* ResetLoginFailures; then a user whose email is not verified is refused.
ResetLoginFailures(r) ==
    /\ At(r, "clear")
    /\ user' = [user EXCEPT !.failures = 0, !.locked = FALSE]
    /\ guesses' = 0
    /\ SignInIfVerified(r)
    /\ UNCHANGED <<tokens, links, resets, signedOut>>

\* The new token of a login or a refresh, in its session.
CreateToken(r) ==
    /\ At(r, "create")
    /\ \E t \in Tokens :
         /\ tokens[t].state = "unused"
         /\ tokens' = [tokens EXCEPT ![t] = [state |-> "live", family |-> req[r].family]]
    /\ Answer(r, "ok")
    /\ UNCHANGED <<user, links, guesses, resets, signedOut>>

-----------------------------------------------------------------------------
(* Refresh and logout *)

\* GetByTokenHash: a token that is revoked or expired is refused.
RefreshRead(r) ==
    /\ At(r, "read") /\ Op(r) = "refresh"
    /\ LET t == req[r].token IN
       IF Live(t) THEN req' = [req EXCEPT ![r].phase = "revoke", ![r].family = tokens[t].family]
       ELSE Answer(r, "refused")
    /\ UNCHANGED <<user, tokens, links, guesses, resets, signedOut>>

\* Fault: RevokeByID does not look whether the token is revoked already.
AnyToken(t) == TRUE

\* RevokeByID's WHERE revoked_at IS NULL; no row is an error that is answered with 500.
StillUnrevoked(t) == Unrevoked(t)

RefreshRevoke(r) ==
    /\ At(r, "revoke") /\ Op(r) = "refresh"
    /\ LET t == req[r].token IN
       IF StillUnrevoked(t)
       THEN Go(r, "create") /\ tokens' = [tokens EXCEPT ![t].state = "revoked"]
       ELSE Answer(r, "failed") /\ UNCHANGED tokens
    /\ UNCHANGED <<user, links, guesses, resets, signedOut>>

LogoutRead(r) ==
    /\ At(r, "read") /\ Op(r) = "logout"
    /\ Go(r, "revoke")
    /\ UNCHANGED <<user, tokens, links, guesses, resets, signedOut>>

LogoutRevoke(r) ==
    /\ At(r, "revoke") /\ Op(r) = "logout"
    /\ LET t == req[r].token IN
       IF Unrevoked(t)
       THEN Answer(r, "ok") /\ SignOut({tokens[t].family}, [tokens EXCEPT ![t].state = "revoked"])
       ELSE Answer(r, "failed") /\ UNCHANGED <<tokens, signedOut>>
    /\ UNCHANGED <<user, links, guesses, resets>>

-----------------------------------------------------------------------------
(* Sessions and passwords *)

\* RevokeSession of one session by its owner; not_found when it has no usable token.
RevokeSession(r) ==
    /\ At(r, "revoke") /\ Op(r) = "revoke_session"
    /\ LET f == req[r].family IN
       IF Active(f)
       THEN Answer(r, "ok") /\ SignOut({f}, Revoked({f}, {"live"}))
       ELSE Answer(r, "refused") /\ UNCHANGED <<tokens, signedOut>>
    /\ UNCHANGED <<user, links, guesses, resets>>

\* ChangePassword reads the user and compares the current password with the hash.
ChangePasswordRead(r) ==
    /\ At(r, "read") /\ Op(r) = "change_password"
    /\ Go(r, "update") \/ Answer(r, "refused")
    /\ UNCHANGED <<user, tokens, links, guesses, resets, signedOut>>

\* UpdatePassword, a statement of its own.
UpdatePassword(r) ==
    /\ At(r, "update")
    /\ Go(r, "revoke_others")
    /\ UNCHANGED <<user, tokens, links, guesses, resets, signedOut>>

\* RevokeAllByUserIDExceptFamily, for ChangePassword and RevokeOtherSessions.
RevokeOthers(r) ==
    /\ At(r, "revoke_others")
    /\ LET others == Families \ {req[r].family} IN
       SignOut(others, Revoked(others, {"live", "expired"}))
    /\ Answer(r, "ok")
    /\ UNCHANGED <<user, links, guesses, resets>>

\* RequestPasswordReset's transaction: the UPDATE sees the links committed before it started ...
InvalidateLinks(r) ==
    /\ At(r, "invalidate")
    /\ req' = [req EXCEPT ![r].phase = "commit", ![r].held = {l \in Links : links[l] = "open"}]
    /\ UNCHANGED <<user, tokens, links, guesses, resets, signedOut>>

\* ... and the commit makes its effect and the new link visible.  Of two transactions that have
\* found the same link the UPDATE of one waits for the other to end; in which order they then
\* commit makes no difference to the links.
CommitLink(r) ==
    /\ At(r, "commit")
    /\ \E new \in Links :
         /\ links[new] = "unused"
         /\ links' = [l \in Links |-> IF l = new THEN "open"
                                      ELSE IF l \in req[r].held THEN "closed" ELSE links[l]]
    /\ Answer(r, "ok")
    /\ UNCHANGED <<user, tokens, guesses, resets, signedOut>>

\* ResetPassword finds the link open before it hashes the new password.
ResetRead(r) ==
    /\ At(r, "read") /\ Op(r) = "reset"
    /\ IF links[req[r].link] = "open" THEN Go(r, "reset") ELSE Answer(r, "refused")
    /\ UNCHANGED <<user, tokens, links, guesses, resets, signedOut>>

\* Fault: the transaction relies on what was read.
LinkUnchecked(l) == TRUE

\* The transaction's first UPDATE finds the link unused.
LinkOpen(l) == links[l] = "open"

\* The transaction.  It waits for one that has marked the link and not committed.
ResetPassword(r) ==
    /\ At(r, "reset")
    /\ \A q \in Requests : req[r].link \notin req[q].held
    /\ IF LinkOpen(req[r].link)
       THEN /\ Answer(r, "ok")
            /\ links' = [links EXCEPT ![req[r].link] = "closed"]
            /\ user' = [verified |-> TRUE, failures |-> 0, locked |-> FALSE]
            /\ guesses' = 0
            /\ resets' = [resets EXCEPT ![req[r].link] = @ + 1]
            /\ SignOut(Families, Revoked(Families, {"live"}))
       ELSE Answer(r, "refused") /\ UNCHANGED <<user, tokens, links, guesses, resets, signedOut>>

-----------------------------------------------------------------------------
(* Replies, failures and the clock *)

Reply(r) ==
    /\ At(r, "done")
    /\ req' = [req EXCEPT ![r] = Idle]
    /\ UNCHANGED <<user, tokens, links, guesses, resets, signedOut>>

\* The client disconnects or the process stops: statements that have committed stay.
Cancel(r) ==
    /\ "cancel" \in Operations
    /\ req[r].phase \notin {"idle", "done"}
    /\ req' = [req EXCEPT ![r] = Idle]
    /\ UNCHANGED <<user, tokens, links, guesses, resets, signedOut>>

ExpireToken(t) ==
    /\ "expire_token" \in Operations
    /\ Live(t)
    /\ tokens' = [tokens EXCEPT ![t].state = "expired"]
    /\ UNCHANGED <<user, links, req, guesses, resets, signedOut>>

ExpireLink(l) ==
    /\ "expire_link" \in Operations
    /\ links[l] = "open"
    /\ links' = [links EXCEPT ![l] = "closed"]
    /\ UNCHANGED <<user, tokens, req, guesses, resets, signedOut>>

\* login_locked_until passes; the failures stay counted.
ExpireLock ==
    /\ "expire_lock" \in Operations
    /\ user.locked
    /\ user' = [user EXCEPT !.locked = FALSE]
    /\ guesses' = 0
    /\ UNCHANGED <<tokens, links, req, resets, signedOut>>

\* MarkEmailVerified, at the end of VerifyEmail.
MarkEmailVerified ==
    /\ "verify_email" \in Operations
    /\ ~user.verified
    /\ user' = [user EXCEPT !.verified = TRUE]
    /\ UNCHANGED <<tokens, links, req, guesses, resets, signedOut>>

-----------------------------------------------------------------------------
\* A user who has just registered, verified already when invited.
Init ==
    /\ user \in [verified : BOOLEAN, failures : {0}, locked : {FALSE}]
    /\ tokens = [t \in Tokens |-> NoToken]
    /\ links = [l \in Links |-> "unused"]
    /\ req = [r \in Requests |-> Idle]
    /\ guesses = 0
    /\ resets = [l \in Links |-> 0]
    /\ signedOut = [f \in Families |-> "no"]

Serve(r) ==
    \/ LoginRead(r) \/ RecordLoginFailure(r) \/ ResetLoginFailures(r) \/ CreateToken(r)
    \/ RefreshRead(r) \/ RefreshRevoke(r)
    \/ LogoutRead(r) \/ LogoutRevoke(r)
    \/ RevokeSession(r) \/ RevokeOthers(r)
    \/ ChangePasswordRead(r) \/ UpdatePassword(r)
    \/ InvalidateLinks(r) \/ CommitLink(r)
    \/ ResetRead(r) \/ ResetPassword(r)

Next ==
    \/ \E r \in Requests : Start(r) \/ Serve(r) \/ Reply(r) \/ Cancel(r)
    \/ \E t \in Tokens : ExpireToken(t)
    \/ \E l \in Links : ExpireLink(l)
    \/ ExpireLock
    \/ MarkEmailVerified

Spec == Init /\ [][Next]_vars

-----------------------------------------------------------------------------
(* Properties *)

RequestRecords ==
    [op : SessionSignOuts \cup {"none", "login", "refresh", "forgot"}, phase : Phases,
     token : Tokens \cup {None}, family : Families \cup {None}, link : Links \cup {None},
     held : SUBSET Links, answer : Answers]

TypeOK ==
    /\ user \in [verified : BOOLEAN, failures : Nat, locked : BOOLEAN]
    /\ tokens \in [Tokens -> [state : TokenStates, family : Families \cup {None}]]
    /\ \A t \in Tokens : tokens[t].state = "unused" <=> tokens[t].family = None
    /\ links \in [Links -> LinkStates]
    /\ req \in [Requests -> RequestRecords]
    /\ guesses \in Nat
    /\ resets \in [Links -> Nat]
    /\ signedOut \in [Families -> Ends]

\* A session has at most one usable refresh token, whatever refreshes, retries of a refresh and
\* sign-outs race with each other: a token that was replaced or copied cannot be used beside
\* the one that replaced it.
OneTokenPerSession ==
    \A t, u \in Tokens : Live(t) /\ Live(u) /\ tokens[t].family = tokens[u].family => t = u

\* A session that was signed out while no request was about to give it a token never has a
\* usable token again: not by a refresh that had read its token before, nor by a later one.
SignOutFinal == \A f \in Families : signedOut[f] = "final" => ~Active(f)

\* Requests that have found a wrong password and not counted it yet.
Failing == {r \in Requests : At(r, "fail")}

\* Until the lock's interval overflows, between two ends of the lock (or resets of the count) no
\* more than Threshold - 1 wrong passwords and those of the logins in flight together get an
\* answer, however logins race with each other and with the end of the lock.
GuessesBounded ==
    LockFits(user.failures + 1) =>
        guesses + Cardinality(Failing) <= Threshold - 1 + Cardinality(Requests)

\* A link writes a password at most once in its life, however many requests have found it open
\* and are hashing their password, whatever closes it or replaces it meanwhile, and even when a
\* reset is abandoned and sent again.
LinkResetsOnce == \A l \in Links : resets[l] <= 1

\* What the API's documentation says of a sign-out: the sessions it covers stay signed out.
SignedOutStaysOut == \A f \in Families : signedOut[f] # "no" => ~Active(f)

\* What the comment in RequestPasswordReset says: only the newest link works.
OnlyNewestLinkWorks == \A k, l \in Links : links[k] = "open" /\ links[l] = "open" => k = l

\* What the comment at RecordLoginFailure says: from the threshold on every failure locks.
EveryLateFailureLocks ==
    [][\A r \in Requests :
         At(r, "fail") /\ At(r, "done")' /\ user.failures + 1 >= Threshold => user'.locked]_vars

\* What makes OneTokenPerSession and SignOutFinal inductive.  Of the unrevoked tokens of a
\* session and the requests about to create one there is at most one; the session a login has
\* drawn is its own; a refresh knows the session of its token, a reset its link; only logins
\* clear failures.
OneUnrevoked ==
    \A t, u \in Tokens :
        Unrevoked(t) /\ Unrevoked(u) /\ tokens[t].family = tokens[u].family => t = u

Creating(r) == At(r, "create")

OneCreator ==
    \A r \in Requests : Creating(r) =>
        /\ req[r].family # None
        /\ \A t \in Tokens : tokens[t].family = req[r].family => ~Unrevoked(t)
        /\ \A q \in Requests : Creating(q) /\ req[q].family = req[r].family => q = r

DrawnByOne ==
    \A r \in Requests : Op(r) = "login" /\ req[r].family # None =>
        /\ ~Issued(req[r].family)
        /\ \A q \in Requests : req[q].family = req[r].family => q = r

TokensKnown ==
    \A r \in Requests :
        /\ At(r, "clear") => Op(r) = "login"
        /\ req[r].token # None => tokens[req[r].token].family # None
        /\ Op(r) \in {"refresh", "logout"} => req[r].token # None
        /\ Op(r) = "refresh" /\ req[r].phase \in {"revoke", "create"}
             => req[r].family = tokens[req[r].token].family

LinksKnown ==
    \A r \in Requests : Op(r) = "reset" \/ At(r, "reset") => req[r].link \in Links

EndsKept ==
    \A f \in Families : signedOut[f] # "no" => Issued(f)

EndsFinal ==
    \A f \in Families : signedOut[f] = "final" => ~Active(f) /\ ~Pending(f, tokens)

SessionInvariant ==
    /\ TypeOK
    /\ OneUnrevoked /\ OneCreator /\ DrawnByOne /\ TokensKnown /\ LinksKnown
    /\ EndsKept /\ EndsFinal

\* What makes GuessesBounded inductive: while nothing is locked, the wrong passwords answered are
\* counted failures, and fewer than the threshold.
UnlockedCounted ==
    LockFits(user.failures + 1) /\ ~user.locked =>
        guesses < Threshold /\ guesses <= user.failures

\* What makes LinkResetsOnce inductive: a link that wrote a password is closed, for good.
LinksSpent == \A l \in Links : resets[l] > 0 => links[l] = "closed"

GuessInvariant == UnlockedCounted /\ GuessesBounded
=============================================================================
