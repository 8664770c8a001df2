---------------------------- MODULE WebSession ----------------------------
(***************************************************************************)
(* The session of the web client: lib/api-client.ts (access token in the   *)
(* memory of a tab, refresh token in a cookie of the browser, one refresh  *)
(* shared by the requests of a tab, one retry of a request) and            *)
(* AuthContext.tsx (the user, the loading flag, sign-in and sign-out).     *)
(* The tabs of a browser share its cookie and nothing else.                *)
(*                                                                         *)
(* A tab runs at most three asynchronous functions at a time here: the     *)
(* loadUser of the page load, the form (sign-in or sign-out) and one       *)
(* request of a protected page.  One action is one network event or click, *)
(* with all the code that runs before the tab awaits again.                *)
(***************************************************************************)
EXTENDS Naturals, FiniteSets

CONSTANTS
    Tabs, Users,
    FormTabs,       \* the tabs the user signs in and out from
    Tokens,         \* refresh tokens the server may issue
    First,          \* the token in the cookie when the browser opens, or None
    Flights,        \* refreshes of one tab in progress at a time
    MaxMishaps,     \* access tokens that expire, requests that fail and pages reloaded
    None

ASSUME SessionConstants ==
    /\ FormTabs \subseteq Tabs
    /\ First \in Tokens \cup {None}
    /\ None \notin Tabs \cup Users \cup Tokens \cup Flights
    /\ Flights # {}
    /\ MaxMishaps \in Nat

VARIABLES
    owner,          \* server: the user of a refresh token, None before it is issued
    spent,          \* server: revoked refresh tokens
    cookie,         \* browser: the refresh cookie
    access,         \* accessToken of a tab: its user, or None
    stale,          \* the access token has expired
    user,           \* AuthContext: the user shown
    loading,        \* AuthContext: isLoading
    flights,        \* refreshes in progress
    current,        \* refreshPromise: the refresh new requests join, or None
    jobs,           \* asynchronous functions in progress
    mishaps,        \* expiries, failures and reloads so far
    failed,         \* history: a request failed or a page was reloaded
    lost,           \* history: an answer was lost, with its Set-Cookie
    left,           \* history: the last change of the cookie was a sign-out
    orphaned        \* history: the tab cleared its tokens since its refreshes in progress began

serverVars == <<owner, spent>>
counters == <<mishaps, failed>>
vars == <<owner, spent, cookie, access, stale, user, loading, flights, current, jobs, mishaps,
          failed, lost, left, orphaned>>

------------------------------------------------------------------------------
(* Types *)

Jobs == {"load", "form", "data"}
Calls == {"none", "me", "login", "logout", "data"}

\* at: "restore" awaits the refresh of the page load, "sent" and "served" a first answer,
\* "joined" a refresh, "again" the answer to the retry.
JobStates == {"idle", "restore", "sent", "served", "joined", "again"}
Job == [call : Calls, at : JobStates, had : BOOLEAN, bad : BOOLEAN,
        who : Users \cup {None}, tok : Tokens \cup {None}, on : Flights \cup {None}]
IdleJob == [call |-> "none", at |-> "idle", had |-> FALSE, bad |-> FALSE,
            who |-> None, tok |-> None, on |-> None]

\* A refresh: sent with the cookie of that moment, checked by the server, answered with a
\* new token, or waiting 200 ms for its second and last attempt.
FlightStates == {"none", "sent", "checked", "answered", "pause"}
Flight == [at : FlightStates, tok : Tokens \cup {None}, second : BOOLEAN]
NoFlight == [at |-> "none", tok |-> None, second |-> FALSE]

Live(k) == k \in Tokens /\ owner[k] # None /\ k \notin spent
Running(t) == {f \in Flights : flights[t][f].at # "none"}

\* Which free name a new token or refresh takes does not matter.
Issuable == {k \in Tokens : owner[k] = None}
NewToken == CHOOSE k \in Issuable : TRUE
NewFlight(t) == CHOOSE f \in Flights \ Running(t) : TRUE

------------------------------------------------------------------------------
(* Sending *)

\* apiFetch sends the access token the tab has at that moment, or none; who is the user the
\* answer will be about.
Sent(t, call) ==
    [call |-> call, at |-> "sent", had |-> access[t] # None,
     bad |-> access[t] = None \/ stale[t], who |-> access[t],
     tok |-> IF call = "logout" THEN cookie ELSE None, on |-> None]

\* A new refresh, when a tab can have one more
StartAnother(t) == IF Running(t) = Flights THEN {} ELSE {NewFlight(t)}

\* Fault: a request joins the last refresh even when it is over.
JoinLast(t) == {current[t]}

\* The refresh a request joins: the one of refreshPromise, or else a new one
Joined(t) == IF current[t] # None THEN {current[t]} ELSE StartAnother(t)

Refreshing(t, f) ==
    /\ current' = [current EXCEPT ![t] = f]
    /\ flights' = IF f \in Running(t) THEN flights
                  ELSE [flights EXCEPT ![t][f] = [at |-> "sent", tok |-> cookie, second |-> FALSE]]

------------------------------------------------------------------------------
(* Tokens of a tab.  Each listener of onAuthChange sees every change, so isAuthenticated of *)
(* AuthContext is access # None, and signing out forgets the user.                          *)

SetTokens(t, u) ==
    /\ access' = [access EXCEPT ![t] = u]
    /\ stale' = [stale EXCEPT ![t] = FALSE]
    /\ UNCHANGED user

ClearTokens(t) ==
    /\ access' = [access EXCEPT ![t] = None]
    /\ stale' = [stale EXCEPT ![t] = FALSE]
    /\ user' = [user EXCEPT ![t] = None]

KeepTokens == UNCHANGED <<access, stale, user>>

\* Outside a refresh, clearTokens also forgets the refresh in progress, which goes on.
ForgetRefresh(t) ==
    /\ current' = [current EXCEPT ![t] = None]
    /\ orphaned' = [orphaned EXCEPT ![t] = @ \/ Running(t) # {}]

SignedOut(t) == ClearTokens(t) /\ ForgetRefresh(t)

KeepLoading(t) == UNCHANGED loading
StopLoading(t) == loading' = [loading EXCEPT ![t] = FALSE]

------------------------------------------------------------------------------
(* What the user does, and time *)

Mishap == mishaps < MaxMishaps /\ mishaps' = mishaps + 1

StartLogin(t, u) ==
    /\ t \in FormTabs /\ jobs[t]["form"] = IdleJob
    /\ loading' = [loading EXCEPT ![t] = TRUE]
    /\ jobs' = [jobs EXCEPT ![t]["form"] = [Sent(t, "login") EXCEPT !.who = u]]
    /\ UNCHANGED <<serverVars, cookie, access, stale, user, flights, current, counters, lost,
                   left, orphaned>>

\* Pages behind ProtectedRoute are shown to a signed-in tab that is not loading.
OnProtectedPage(t) == access[t] # None /\ ~loading[t]

StartLogout(t) ==
    /\ OnProtectedPage(t) /\ t \in FormTabs /\ jobs[t]["form"] = IdleJob
    /\ loading' = [loading EXCEPT ![t] = TRUE]
    /\ jobs' = [jobs EXCEPT ![t]["form"] = Sent(t, "logout")]
    /\ UNCHANGED <<serverVars, cookie, access, stale, user, flights, current, counters, lost,
                   left, orphaned>>

RequestData(t) ==
    /\ OnProtectedPage(t) /\ jobs[t]["data"] = IdleJob
    /\ jobs' = [jobs EXCEPT ![t]["data"] = Sent(t, "data")]
    /\ UNCHANGED <<serverVars, cookie, access, stale, user, loading, flights, current, counters,
                   lost, left, orphaned>>

\* A reload forgets everything in memory; answers still on their way are dropped.
Reload(t) ==
    /\ Mishap /\ failed' = TRUE
    /\ access' = [access EXCEPT ![t] = None]
    /\ stale' = [stale EXCEPT ![t] = FALSE]
    /\ user' = [user EXCEPT ![t] = None]
    /\ loading' = [loading EXCEPT ![t] = TRUE]
    /\ LET f == CHOOSE g \in Flights : TRUE IN
         /\ flights' = [flights EXCEPT ![t] = [g \in Flights |->
              IF g = f THEN [at |-> "sent", tok |-> cookie, second |-> FALSE] ELSE NoFlight]]
         /\ current' = [current EXCEPT ![t] = f]
         /\ jobs' = [jobs EXCEPT ![t] = [j \in Jobs |->
              IF j = "load" THEN [IdleJob EXCEPT !.at = "restore", !.on = f] ELSE IdleJob]]
    /\ lost' = (lost \/ (\E f \in Flights : flights[t][f].at = "answered")
                     \/ jobs[t]["form"].at = "served")
    /\ orphaned' = [orphaned EXCEPT ![t] = FALSE]
    /\ UNCHANGED <<serverVars, cookie, left>>

Expire(t) ==
    /\ access[t] # None /\ ~stale[t]
    /\ stale' = [stale EXCEPT ![t] = TRUE]
    /\ Mishap
    /\ UNCHANGED <<serverVars, cookie, access, user, loading, flights, current, jobs, failed,
                   lost, left, orphaned>>

------------------------------------------------------------------------------
(* The refresh: the server looks the token up, then revokes it and issues the next one *)

KeepCookie == UNCHANGED <<cookie, left>>

\* Fault: a refusal also removes the cookie.
DropCookie == cookie' = None /\ UNCHANGED left

\* The API leaves the cookie alone when it refuses a refresh.
CookieWhenRefused == KeepCookie

\* Fault: only the current refresh wakes those that wait for it.
JoinedCurrent(t, f) == {j \in Jobs : jobs[t][j].on = f /\ current[t] = f}

Waiters(t, f) == {j \in Jobs : jobs[t][j].on = f}

StillOrphaned(t, f) == orphaned' = [orphaned EXCEPT ![t] = @ /\ Running(t) # {f}]

RefreshFails(t, f) ==
    LET over == Waiters(t, f) IN
    /\ flights' = [flights EXCEPT ![t][f] = NoFlight]
    /\ current' = [current EXCEPT ![t] = None]
    /\ IF \E j \in over : jobs[t][j].at = "joined"
       THEN ClearTokens(t) /\ orphaned' = [orphaned EXCEPT ![t] = Running(t) # {f}]
       ELSE KeepTokens /\ StillOrphaned(t, f)
    /\ jobs' = [jobs EXCEPT ![t] = [j \in Jobs |-> IF j \in over THEN IdleJob ELSE jobs[t][j]]]
    /\ IF over \cap {"load", "form"} # {} THEN StopLoading(t) ELSE KeepLoading(t)

\* 401 on the first attempt: pause and try again; on the second: the refresh fails.
Refused(t, f) ==
    /\ flights[t][f].at = "sent" /\ ~Live(flights[t][f].tok)
    /\ IF flights[t][f].second THEN RefreshFails(t, f)
       ELSE /\ flights' = [flights EXCEPT ![t][f] = [@ EXCEPT !.at = "pause", !.tok = None]]
            /\ KeepTokens /\ UNCHANGED <<loading, current, jobs, orphaned>>
    /\ CookieWhenRefused
    /\ UNCHANGED <<serverVars, counters, lost>>

SecondAttempt(t, f) ==
    /\ flights[t][f].at = "pause"
    /\ flights' = [flights EXCEPT ![t][f] = [at |-> "sent", tok |-> cookie, second |-> TRUE]]
    /\ UNCHANGED <<serverVars, cookie, access, stale, user, loading, current, jobs, counters,
                   lost, left, orphaned>>

Checked(t, f) ==
    /\ flights[t][f].at = "sent" /\ Live(flights[t][f].tok)
    /\ flights' = [flights EXCEPT ![t][f].at = "checked"]
    /\ UNCHANGED <<serverVars, cookie, access, stale, user, loading, current, jobs, counters,
                   lost, left, orphaned>>

Rotated(t, f) ==
    /\ flights[t][f].at = "checked" /\ Live(flights[t][f].tok)
    /\ Issuable # {}
    /\ owner' = [owner EXCEPT ![NewToken] = owner[flights[t][f].tok]]
    /\ flights' = [flights EXCEPT ![t][f] = [@ EXCEPT !.at = "answered", !.tok = NewToken]]
    /\ spent' = spent \cup {flights[t][f].tok}
    /\ UNCHANGED <<cookie, access, stale, user, loading, current, jobs, counters, lost, left,
                   orphaned>>

\* The token was revoked after the check: an error that is not 401, or the server cannot issue
\* another token.
Overtaken(t, f) ==
    /\ flights[t][f].at = "checked"
    /\ ~Live(flights[t][f].tok) \/ Issuable = {}
    /\ RefreshFails(t, f)
    /\ UNCHANGED <<serverVars, cookie, counters, lost, left>>

\* The refresh succeeded: the requests that joined it are sent again, once.
Refreshed(t, f) ==
    LET k == flights[t][f].tok IN
    /\ flights[t][f].at = "answered"
    /\ cookie' = k /\ left' = FALSE
    /\ SetTokens(t, owner[k])
    /\ flights' = [flights EXCEPT ![t][f] = NoFlight]
    /\ current' = [current EXCEPT ![t] = None]
    /\ jobs' = [jobs EXCEPT ![t] = [j \in Jobs |->
         IF j \notin Waiters(t, f) THEN jobs[t][j]
         ELSE [call |-> IF jobs[t][j].at = "restore" THEN "me" ELSE jobs[t][j].call,
               at |-> IF jobs[t][j].at = "restore" THEN "sent" ELSE "again",
               had |-> TRUE, bad |-> FALSE, on |-> None,
               tok |-> IF jobs[t][j].call = "logout" THEN k ELSE None,
               who |-> IF jobs[t][j].call = "login" THEN jobs[t][j].who ELSE owner[k]]]]
    /\ StillOrphaned(t, f)
    /\ UNCHANGED <<serverVars, loading, counters, lost>>

RefreshLost(t, f) ==
    /\ flights[t][f].at \in {"sent", "checked", "answered"}
    /\ Mishap /\ failed' = TRUE
    /\ lost' = (lost \/ flights[t][f].at = "answered")
    /\ RefreshFails(t, f)
    /\ UNCHANGED <<serverVars, cookie, left>>

------------------------------------------------------------------------------
(* Answers to the other requests *)

\* The function ends: a sign-out in every case, and a page load that fails, clear the tokens.
EndJob(t, j, call) ==
    /\ jobs' = [jobs EXCEPT ![t][j] = IdleJob]
    /\ IF j = "load" \/ call = "logout" THEN SignedOut(t) ELSE KeepTokens /\ UNCHANGED <<current, orphaned>>
    /\ IF j = "data" THEN KeepLoading(t) ELSE StopLoading(t)

\* 401 on the first answer to a request sent with a token: refresh, or join the refresh.
Unauthorized(t, j) ==
    LET job == jobs[t][j] IN
    IF job.had /\ job.at # "again"
    THEN /\ \E f \in Joined(t) :
              /\ Refreshing(t, f)
              /\ jobs' = [jobs EXCEPT ![t][j] = [job EXCEPT !.at = "joined", !.on = f, !.bad = FALSE]]
         /\ KeepTokens /\ UNCHANGED <<loading, orphaned>>
    ELSE EndJob(t, j, job.call) /\ UNCHANGED flights

Flying(t, j) == jobs[t][j].at \in {"sent", "again"}

\* The profile, for a page load and at the end of a sign-in, or the data of a page
Loaded(t, j) ==
    /\ Flying(t, j) /\ jobs[t][j].call \in {"me", "data"}
    /\ IF jobs[t][j].bad THEN Unauthorized(t, j)
       ELSE /\ jobs' = [jobs EXCEPT ![t][j] = IdleJob]
            /\ IF jobs[t][j].call = "me"
               THEN user' = [user EXCEPT ![t] = jobs[t][j].who] /\ StopLoading(t)
               ELSE UNCHANGED user /\ KeepLoading(t)
            /\ UNCHANGED <<access, stale, flights, current, orphaned>>
    /\ UNCHANGED <<serverVars, cookie, counters, lost, left>>

\* The server checks the password: wrong is 401 too.
LoginAnswered(t) ==
    /\ jobs[t]["form"].call = "login"
    /\ \/ /\ Flying(t, "form")
          /\ Issuable # {}
          /\ owner' = [owner EXCEPT ![NewToken] = jobs[t]["form"].who]
          /\ jobs' = [jobs EXCEPT ![t]["form"].at = "served", ![t]["form"].tok = NewToken]
          /\ KeepTokens /\ KeepCookie
          /\ UNCHANGED <<spent, loading, flights, current, orphaned>>
       \/ /\ jobs[t]["form"].at = "served"
          /\ cookie' = jobs[t]["form"].tok /\ left' = FALSE
          /\ SetTokens(t, jobs[t]["form"].who)
          /\ jobs' = [jobs EXCEPT ![t]["form"] =
               [Sent(t, "me") EXCEPT !.had = TRUE, !.bad = FALSE, !.who = jobs[t]["form"].who]]
          /\ UNCHANGED <<serverVars, loading, flights, current, orphaned>>
       \/ /\ Flying(t, "form")
          /\ Unauthorized(t, "form")
          /\ KeepCookie /\ UNCHANGED serverVars
    /\ UNCHANGED <<counters, lost>>

\* Sign-out revokes the token of the cookie, and clears a cookie that was sent.  No token
\* or an unknown one is 401; one revoked already is another error.
LogoutAnswered(t) ==
    LET job == jobs[t]["form"] IN
    /\ job.call = "logout"
    /\ \/ /\ Flying(t, "form") /\ job.tok # None
          /\ spent' = spent \cup {job.tok}
          /\ jobs' = [jobs EXCEPT ![t]["form"].at = "served"]
          /\ KeepTokens /\ KeepCookie
          /\ UNCHANGED <<owner, loading, flights, current, orphaned>>
       \/ /\ job.at = "served"
          /\ cookie' = None /\ left' = TRUE
          /\ EndJob(t, "form", "logout")
          /\ UNCHANGED <<serverVars, flights>>
       \/ /\ Flying(t, "form") /\ job.tok = None
          /\ Unauthorized(t, "form")
          /\ KeepCookie /\ UNCHANGED serverVars
    /\ UNCHANGED <<counters, lost>>

\* The network or the server fails.
CallLost(t, j) ==
    /\ Flying(t, j) \/ jobs[t][j].at = "served"
    /\ Mishap /\ failed' = TRUE
    /\ lost' = (lost \/ jobs[t][j].at = "served")
    /\ EndJob(t, j, jobs[t][j].call)
    /\ UNCHANGED <<serverVars, cookie, flights, left>>

------------------------------------------------------------------------------
Init ==
    /\ \E u \in Users : owner = [k \in Tokens |-> IF k = First THEN u ELSE None]
    /\ spent = {} /\ cookie = First /\ left = (First = None)
    /\ access = [t \in Tabs |-> None] /\ stale = [t \in Tabs |-> FALSE]
    /\ user = [t \in Tabs |-> None] /\ loading = [t \in Tabs |-> TRUE]
    /\ LET f == CHOOSE g \in Flights : TRUE IN
         /\ flights = [t \in Tabs |-> [g \in Flights |->
              IF g = f THEN [at |-> "sent", tok |-> First, second |-> FALSE] ELSE NoFlight]]
         /\ current = [t \in Tabs |-> f]
         /\ jobs = [t \in Tabs |-> [j \in Jobs |->
              IF j = "load" THEN [IdleJob EXCEPT !.at = "restore", !.on = f] ELSE IdleJob]]
    /\ mishaps = 0 /\ failed = FALSE
    /\ lost = FALSE /\ orphaned = [t \in Tabs |-> FALSE]

RefreshStep(t, f) ==
    \/ Refused(t, f) \/ SecondAttempt(t, f) \/ Checked(t, f) \/ Rotated(t, f)
    \/ Overtaken(t, f) \/ Refreshed(t, f)

Answer(t) == (\E j \in Jobs : Loaded(t, j)) \/ LoginAnswered(t) \/ LogoutAnswered(t)

Next ==
    \E t \in Tabs :
        \/ \E u \in Users : StartLogin(t, u)
        \/ StartLogout(t) \/ RequestData(t) \/ Reload(t) \/ Expire(t)
        \/ \E f \in Flights : RefreshStep(t, f) \/ RefreshLost(t, f)
        \/ Answer(t)
        \/ \E j \in Jobs : CallLost(t, j)

\* Every request is answered and every timer fires in the end.
Fairness ==
    \A t \in Tabs :
        /\ \A f \in Flights : WF_vars(RefreshStep(t, f))
        /\ \A j \in Jobs : WF_vars(Loaded(t, j))
        /\ t \in FormTabs => WF_vars(LoginAnswered(t)) /\ WF_vars(LogoutAnswered(t))

Spec == Init /\ [][Next]_vars /\ Fairness

------------------------------------------------------------------------------
(* Properties *)

\* Every variable has its type, and exactly the functions that wait for a refresh name it.
TypeOK ==
    /\ owner \in [Tokens -> Users \cup {None}] /\ spent \in SUBSET Tokens
    /\ cookie \in Tokens \cup {None}
    /\ access \in [Tabs -> Users \cup {None}] /\ stale \in [Tabs -> BOOLEAN]
    /\ user \in [Tabs -> Users \cup {None}] /\ loading \in [Tabs -> BOOLEAN]
    /\ flights \in [Tabs -> [Flights -> Flight]]
    /\ current \in [Tabs -> Flights \cup {None}]
    /\ jobs \in [Tabs -> [Jobs -> Job]]
    /\ \A t \in Tabs, j \in Jobs :
         jobs[t][j].on # None <=> jobs[t][j].at \in {"restore", "joined"}
    /\ mishaps \in 0..MaxMishaps /\ failed \in BOOLEAN
    /\ lost \in BOOLEAN /\ left \in BOOLEAN /\ orphaned \in [Tabs -> BOOLEAN]

\* A tab refreshes once at a time, however many of its requests find the token expired
\* ("Prevent multiple simultaneous refresh attempts"), unless it signed out meanwhile.
OneRefresh == \A t \in Tabs : ~orphaned[t] => Running(t) \subseteq {current[t]}

\* When nothing is in flight the cookie holds a token that still works, whichever tabs
\* refreshed at the same time, unless an answer was lost or the last word was a sign-out.
Quiet == \A t \in Tabs : Running(t) = {} /\ jobs[t]["form"] = IdleJob
CookieWorks == Quiet /\ ~lost /\ ~left => Live(cookie)

\* The page never loads for ever.
LoadingEnds == \A t \in Tabs : loading[t] ~> ~loading[t]

\* No request of a page waits for ever, also not for a refresh that its tab has forgotten.
RequestsEnd == \A t \in Tabs : jobs[t]["data"] # IdleJob ~> jobs[t]["data"] = IdleJob

\* "Another tab may have rotated the cookie while this request was in flight; [...] one more
\* attempt picks it up": without a sign-out or a failure, no tab loses its session.
SessionKept ==
    [][\A t \in Tabs : access[t] # None /\ access'[t] = None =>
          \/ failed'
          \/ \E s \in Tabs : jobs[s]["form"].call = "logout"]_vars
=============================================================================
