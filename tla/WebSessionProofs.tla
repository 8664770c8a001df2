-------------------------- MODULE WebSessionProofs --------------------------
(***************************************************************************)
(* Proofs about WebSession, for any number of tabs, users, refresh tokens  *)
(* and refreshes in progress.                                              *)
(***************************************************************************)
EXTENDS WebSession, FiniteSetTheorems, TLAPS

-----------------------------------------------------------------------------
(* The parts of the type invariant *)

ServerTyped == owner \in [Tokens -> Users \cup {None}] /\ spent \in SUBSET Tokens
BrowserTyped == cookie \in Tokens \cup {None} /\ lost \in BOOLEAN /\ left \in BOOLEAN
TabsTyped ==
    /\ access \in [Tabs -> Users \cup {None}] /\ stale \in [Tabs -> BOOLEAN]
    /\ user \in [Tabs -> Users \cup {None}] /\ loading \in [Tabs -> BOOLEAN]
RefreshTyped ==
    /\ flights \in [Tabs -> [Flights -> Flight]]
    /\ current \in [Tabs -> Flights \cup {None}] /\ orphaned \in [Tabs -> BOOLEAN]
JobsTyped ==
    /\ jobs \in [Tabs -> [Jobs -> Job]]
    /\ \A t \in Tabs, j \in Jobs :
         jobs[t][j].on # None <=> jobs[t][j].at \in {"restore", "joined"}
CountersTyped == mishaps \in 0..MaxMishaps /\ failed \in BOOLEAN

LEMMA TypeParts ==
  TypeOK <=> /\ ServerTyped /\ BrowserTyped /\ TabsTyped /\ RefreshTyped /\ JobsTyped
             /\ CountersTyped
  BY DEF TypeOK, ServerTyped, BrowserTyped, TabsTyped, RefreshTyped, JobsTyped, CountersTyped

\* An answer on its way carries a token, and a sign-in is somebody's.
AnswersKnown ==
    /\ \A t \in Tabs, f \in Flights : flights[t][f].at = "answered" => flights[t][f].tok \in Tokens
    /\ \A t \in Tabs, j \in Jobs : jobs[t][j].call = "login" =>
         /\ jobs[t][j].who \in Users
         /\ jobs[t][j].at = "served" => jobs[t][j].tok \in Tokens

Typed == TypeOK /\ AnswersKnown

-----------------------------------------------------------------------------
(* Choices and records *)

LEMMA NewFlightFree ==
  ASSUME NEW t \in Tabs, Running(t) # Flights
  PROVE  NewFlight(t) \in Flights /\ NewFlight(t) \notin Running(t)
  <1>1. Flights \ Running(t) # {}
    BY DEF Running
  <1>q. QED
    BY <1>1 DEF NewFlight

LEMMA NewTokenFree ==
  ASSUME Issuable # {}
  PROVE  NewToken \in Tokens /\ owner[NewToken] = None
  <1>1. NewToken \in Issuable
    BY DEF NewToken
  <1>q. QED
    BY <1>1 DEF Issuable

\* The refresh of a page load
LEMMA FirstFlight == (CHOOSE g \in Flights : TRUE) \in Flights
  BY SessionConstants

\* The refresh a request joins is one of the tab's and is current, or is new.
LEMMA JoinedFlight ==
  ASSUME TypeOK, NEW t \in Tabs, NEW f \in Joined(t)
  PROVE  /\ f \in Flights /\ f # None
         /\ current[t] = f \/ (current[t] = None /\ f \notin Running(t))
  <1>1. None \notin Flights
    BY SessionConstants
  <1>2. CASE current[t] # None
    BY <1>1, <1>2 DEF Joined, TypeOK
  <1>3. CASE current[t] = None
    BY <1>1, <1>3, NewFlightFree DEF Joined, StartAnother
  <1>q. QED
    BY <1>2, <1>3

LEMMA IdleJobTyped == IdleJob \in Job
  BY DEF IdleJob, Job, Calls, JobStates

LEMMA NoFlightTyped == NoFlight \in Flight
  BY DEF NoFlight, Flight, FlightStates

LEMMA NewRefreshTyped ==
  ASSUME NEW k \in Tokens \cup {None}, NEW second \in BOOLEAN
  PROVE  [at |-> "sent", tok |-> k, second |-> second] \in Flight
  BY DEF Flight, FlightStates

LEMMA SentTyped ==
  ASSUME TypeOK, NEW t \in Tabs, NEW call \in Calls
  PROVE  /\ Sent(t, call) \in Job
         /\ Sent(t, call).call = call /\ Sent(t, call).at = "sent" /\ Sent(t, call).on = None
         /\ Sent(t, call).tok = IF call = "logout" THEN cookie ELSE None
         /\ Sent(t, call).who = access[t]
  BY DEF TypeOK, Sent, Job, JobStates

\* Running refreshes are those whose record is not the empty one.
LEMMA RunningIs ==
  ASSUME NEW t \in Tabs, NEW f \in Flights
  PROVE  f \in Running(t) <=> flights[t][f].at # "none"
  BY DEF Running

-----------------------------------------------------------------------------
(* Pieces of steps that several actions share *)

LEMMA ClearTokensTyped ==
  ASSUME TabsTyped, NEW t \in Tabs, ClearTokens(t), UNCHANGED loading \/ StopLoading(t)
  PROVE  TabsTyped'
  BY DEF TabsTyped, ClearTokens, StopLoading

LEMMA KeepTokensTyped ==
  ASSUME TabsTyped, NEW t \in Tabs, KeepTokens, UNCHANGED loading \/ StopLoading(t)
  PROVE  TabsTyped'
  BY DEF TabsTyped, KeepTokens, StopLoading

LEMMA SetTokensTyped ==
  ASSUME TabsTyped, NEW t \in Tabs, NEW u \in Users \cup {None}, SetTokens(t, u),
         UNCHANGED loading \/ StopLoading(t)
  PROVE  TabsTyped'
  BY DEF TabsTyped, SetTokens, StopLoading

\* A job that ends, or takes a new form that is well-typed, leaves the others alone.
LEMMA OneJobTyped ==
  ASSUME JobsTyped, NEW t \in Tabs, NEW j \in Jobs, NEW job \in Job,
         job.on # None <=> job.at \in {"restore", "joined"},
         jobs' = [jobs EXCEPT ![t][j] = job]
  PROVE  JobsTyped'
  BY DEF JobsTyped

LEMMA OneFlightTyped ==
  ASSUME RefreshTyped, NEW t \in Tabs, NEW f \in Flights, NEW g \in Flight,
         flights' = [flights EXCEPT ![t][f] = g]
  PROVE  flights' \in [Tabs -> [Flights -> Flight]]
  BY DEF RefreshTyped
LEMMA WaitersAre ==
  ASSUME NEW t \in Tabs, NEW f \in Flights, NEW j \in Jobs
  PROVE  j \in Waiters(t, f) <=> jobs[t][j].on = f
  BY DEF Waiters

\* A request that waits for a refresh is neither on its way nor served.
LEMMA WaitersWait ==
  ASSUME TypeOK, NEW t \in Tabs, NEW f \in Flights, NEW j \in Waiters(t, f)
  PROVE  j \in Jobs /\ jobs[t][j].at \in {"restore", "joined"}
  BY SessionConstants DEF TypeOK, Waiters

\* A refresh that fails wakes those that wait for it with an error.
LEMMA FailureTyped ==
  ASSUME Typed, NEW t \in Tabs, NEW f \in Flights, RefreshFails(t, f)
  PROVE  TabsTyped' /\ RefreshTyped' /\ JobsTyped' /\ AnswersKnown'
  <1>0. TypeOK /\ AnswersKnown /\ TabsTyped /\ RefreshTyped /\ JobsTyped
    BY TypeParts DEF Typed
  <1>1. TabsTyped'
    BY <1>0, ClearTokensTyped, KeepTokensTyped DEF RefreshFails, KeepLoading
  <1>2. RefreshTyped'
    <2>1. flights' \in [Tabs -> [Flights -> Flight]]
      BY <1>0, OneFlightTyped, NoFlightTyped DEF RefreshFails
    <2>2. current' \in [Tabs -> Flights \cup {None}]
      BY <1>0 DEF RefreshFails, RefreshTyped
    <2>3. orphaned' \in [Tabs -> BOOLEAN]
      BY <1>0 DEF RefreshFails, StillOrphaned, RefreshTyped
    <2>q. QED
      BY <2>1, <2>2, <2>3 DEF RefreshTyped
  <1>3. jobs' = [jobs EXCEPT ![t] = [j \in Jobs |->
                   IF j \in Waiters(t, f) THEN IdleJob ELSE jobs[t][j]]]
    BY DEF RefreshFails
  <1>4. JobsTyped'
    BY <1>0, <1>3, IdleJobTyped DEF JobsTyped, IdleJob
  <1>5. AnswersKnown'
    <2>1. \A s \in Tabs, g \in Flights : flights'[s][g].at = "answered" =>
            flights'[s][g] = flights[s][g]
      BY <1>0 DEF RefreshFails, RefreshTyped, NoFlight
    <2>2. \A s \in Tabs, j \in Jobs : jobs'[s][j].call = "login" => jobs'[s][j] = jobs[s][j]
      BY <1>0, <1>3 DEF JobsTyped, IdleJob
    <2>q. QED
      BY <1>0, <2>1, <2>2 DEF AnswersKnown
  <1>q. QED
    BY <1>1, <1>2, <1>4, <1>5

LEMMA FailureOneRefresh ==
  ASSUME Typed, OneRefresh, NEW t \in Tabs, NEW f \in Flights, flights[t][f].at # "none",
         RefreshFails(t, f)
  PROVE  OneRefresh'
  <1>0. TypeOK /\ RefreshTyped
    BY TypeParts DEF Typed
  <1> SUFFICES ASSUME NEW s \in Tabs, ~orphaned'[s], NEW g \in Flights, flights'[s][g].at # "none"
               PROVE  g = current'[s]
    BY DEF OneRefresh, Running
  <1>1. CASE s # t
    BY <1>0, <1>1 DEF RefreshFails, StillOrphaned, OneRefresh, Running, RefreshTyped
  <1>2. CASE s = t
    <2>1. g # f /\ flights[t][g].at # "none"
      BY <1>0, <1>2 DEF RefreshFails, RefreshTyped, NoFlight
    <2>2. f \in Running(t) /\ g \in Running(t)
      BY <2>1 DEF Running
    <2>3. ~orphaned[t]
      BY <1>0, <1>2, <2>1, <2>2 DEF RefreshFails, StillOrphaned, RefreshTyped
    <2>q. QED
      BY <2>1, <2>2, <2>3 DEF OneRefresh
  <1>q. QED
    BY <1>1, <1>2

\* A function that ends: its tab forgets the refresh in progress only where it signs out.
LEMMA EndTyped ==
  ASSUME Typed, NEW t \in Tabs, NEW j \in Jobs, NEW call, EndJob(t, j, call), UNCHANGED flights
  PROVE  TabsTyped' /\ RefreshTyped' /\ JobsTyped' /\ AnswersKnown'
  <1>0. TypeOK /\ AnswersKnown /\ TabsTyped /\ RefreshTyped /\ JobsTyped
    BY TypeParts DEF Typed
  <1>1. TabsTyped'
    BY <1>0, ClearTokensTyped, KeepTokensTyped DEF EndJob, KeepLoading, SignedOut
  <1>2. RefreshTyped'
    BY <1>0 DEF EndJob, SignedOut, ForgetRefresh, RefreshTyped
  <1>3. JobsTyped'
    BY <1>0, OneJobTyped, IdleJobTyped DEF EndJob, IdleJob
  <1>4. \A s \in Tabs, i \in Jobs : jobs'[s][i].call = "login" => jobs'[s][i] = jobs[s][i]
    BY <1>0 DEF EndJob, JobsTyped, IdleJob
  <1>q. QED
    BY <1>0, <1>1, <1>2, <1>3, <1>4 DEF AnswersKnown

LEMMA EndOneRefresh ==
  ASSUME Typed, OneRefresh, NEW t \in Tabs, NEW j \in Jobs, NEW call, EndJob(t, j, call),
         UNCHANGED flights
  PROVE  OneRefresh'
  <1>0. RefreshTyped
    BY TypeParts DEF Typed
  <1>1. \A s \in Tabs : Running(s)' = Running(s)
    BY DEF Running
  <1>2. \A s \in Tabs : ~orphaned'[s] => Running(s) = {} \/ (~orphaned[s] /\ current'[s] = current[s])
    BY <1>0 DEF EndJob, SignedOut, ForgetRefresh, RefreshTyped
  <1>q. QED
    BY <1>1, <1>2 DEF OneRefresh

\* A request joins the refresh of its tab, or starts one.
LEMMA JoinTyped ==
  ASSUME Typed, NEW t \in Tabs, NEW j \in Jobs, NEW f \in Joined(t), Refreshing(t, f),
         jobs' = [jobs EXCEPT ![t][j] = [jobs[t][j] EXCEPT !.at = "joined", !.on = f, !.bad = FALSE]],
         UNCHANGED orphaned
  PROVE  RefreshTyped' /\ JobsTyped' /\ AnswersKnown' /\ (OneRefresh => OneRefresh')
  <1>0. TypeOK /\ AnswersKnown /\ TabsTyped /\ RefreshTyped /\ JobsTyped /\ BrowserTyped
    BY TypeParts DEF Typed
  <1>1. /\ f \in Flights /\ f # None
        /\ current[t] = f \/ (current[t] = None /\ f \notin Running(t))
    BY <1>0, JoinedFlight
  <1>2. flights' = flights \/ flights' = [flights EXCEPT ![t][f] =
          [at |-> "sent", tok |-> cookie, second |-> FALSE]]
    BY DEF Refreshing
  <1>3. flights' \in [Tabs -> [Flights -> Flight]]
    <2>1. [at |-> "sent", tok |-> cookie, second |-> FALSE] \in Flight
      BY <1>0, NewRefreshTyped DEF BrowserTyped
    <2>q. QED
      BY <1>0, <1>1, <1>2, <2>1, OneFlightTyped DEF RefreshTyped
  <1>4. RefreshTyped'
    BY <1>0, <1>1, <1>3 DEF Refreshing, RefreshTyped
  <1>5. JobsTyped'
    <2>1. /\ [jobs[t][j] EXCEPT !.at = "joined", !.on = f, !.bad = FALSE] \in Job
          /\ [jobs[t][j] EXCEPT !.at = "joined", !.on = f, !.bad = FALSE].on = f
          /\ [jobs[t][j] EXCEPT !.at = "joined", !.on = f, !.bad = FALSE].at = "joined"
      <3>1. jobs[t][j] \in Job
        BY <1>0 DEF JobsTyped
      <3>2. \A r \in Job : /\ [r EXCEPT !.at = "joined", !.on = f, !.bad = FALSE] \in Job
                           /\ [r EXCEPT !.at = "joined", !.on = f, !.bad = FALSE].on = f
                           /\ [r EXCEPT !.at = "joined", !.on = f, !.bad = FALSE].at = "joined"
        BY <1>1 DEF Job, JobStates
      <3>q. QED
        BY <3>1, <3>2
    <2>q. QED
      BY <1>0, <1>1, <2>1, OneJobTyped
  <1>6. AnswersKnown'
    <2>1. \A s \in Tabs, g \in Flights : flights'[s][g].at = "answered" =>
            flights'[s][g] = flights[s][g]
      BY <1>0, <1>2 DEF RefreshTyped
    <2>2. \A s \in Tabs, i \in Jobs :
            /\ jobs'[s][i].call = jobs[s][i].call /\ jobs'[s][i].who = jobs[s][i].who
            /\ jobs'[s][i].at = "served" => jobs'[s][i] = jobs[s][i]
      BY <1>0 DEF JobsTyped, Job
    <2>q. QED
      BY <1>0, <2>1, <2>2 DEF AnswersKnown
  <1>7. ASSUME OneRefresh PROVE OneRefresh'
    <2> SUFFICES ASSUME NEW s \in Tabs, ~orphaned'[s], NEW g \in Flights,
                        flights'[s][g].at # "none"
                 PROVE  g = current'[s]
      BY DEF OneRefresh, Running
    <2>1. CASE s # t
      BY <1>0, <1>2, <1>7, <2>1 DEF Refreshing, OneRefresh, Running, RefreshTyped
    <2>2. CASE s = t
      <3>1. current'[t] = f
        BY <1>0 DEF Refreshing, RefreshTyped
      <3>2. ASSUME g # f PROVE FALSE
        <4>1. flights[t][g].at # "none"
          BY <1>0, <1>2, <2>2, <3>2 DEF RefreshTyped
        <4>2. g \in Running(t)
          BY <4>1 DEF Running
        <4>3. g = current[t]
          BY <1>7, <2>2, <4>2 DEF OneRefresh
        <4>q. QED
          BY <1>1, <3>2, <4>3, SessionConstants
      <3>q. QED
        BY <2>2, <3>1, <3>2
    <2>q. QED
      BY <2>1, <2>2
  <1>q. QED
    BY <1>4, <1>5, <1>6, <1>7

LEMMA UnauthorizedTyped ==
  ASSUME Typed, NEW t \in Tabs, NEW j \in Jobs, Unauthorized(t, j)
  PROVE  TabsTyped' /\ RefreshTyped' /\ JobsTyped' /\ AnswersKnown' /\ (OneRefresh => OneRefresh')
  <1>0. TypeOK /\ TabsTyped
    BY TypeParts DEF Typed
  <1>1. CASE EndJob(t, j, jobs[t][j].call) /\ UNCHANGED flights
    BY <1>1, EndTyped, EndOneRefresh
  <1>2. CASE /\ \E f \in Joined(t) :
                  /\ Refreshing(t, f)
                  /\ jobs' = [jobs EXCEPT ![t][j] =
                       [jobs[t][j] EXCEPT !.at = "joined", !.on = f, !.bad = FALSE]]
             /\ KeepTokens /\ UNCHANGED <<loading, orphaned>>
    <2>1. TabsTyped'
      BY <1>0, <1>2, KeepTokensTyped
    <2>q. QED
      BY <1>2, <2>1, JoinTyped
  <1>q. QED
    BY <1>1, <1>2 DEF Unauthorized
\* One job changes, and no refresh.
LEMMA JobStep ==
  ASSUME Typed, NEW t \in Tabs, NEW j \in Jobs, NEW job \in Job,
         job.on # None <=> job.at \in {"restore", "joined"},
         job.call = "login" => job.who \in Users /\ (job.at = "served" => job.tok \in Tokens),
         jobs' = [jobs EXCEPT ![t][j] = job], UNCHANGED flights
  PROVE  JobsTyped' /\ AnswersKnown'
  <1>0. AnswersKnown /\ JobsTyped
    BY TypeParts DEF Typed
  <1>1. JobsTyped'
    BY <1>0, OneJobTyped
  <1>2. \A s \in Tabs, i \in Jobs : jobs'[s][i] = IF s = t /\ i = j THEN job ELSE jobs[s][i]
    BY <1>0 DEF JobsTyped
  <1>q. QED
    BY <1>0, <1>1, <1>2 DEF AnswersKnown

\* One refresh in progress goes on, and no job changes.
LEMMA FlightStep ==
  ASSUME Typed, NEW t \in Tabs, NEW f \in Flights, NEW g \in Flight, flights[t][f].at # "none",
         g.at = "answered" => g.tok \in Tokens,
         flights' = [flights EXCEPT ![t][f] = g], UNCHANGED <<current, orphaned, jobs>>
  PROVE  RefreshTyped' /\ JobsTyped' /\ AnswersKnown' /\ (OneRefresh => OneRefresh')
  <1>0. AnswersKnown /\ JobsTyped /\ RefreshTyped
    BY TypeParts DEF Typed
  <1>1. RefreshTyped'
    BY <1>0, OneFlightTyped DEF RefreshTyped
  <1>2. \A s \in Tabs, h \in Flights : flights'[s][h] = IF s = t /\ h = f THEN g ELSE flights[s][h]
    BY <1>0 DEF RefreshTyped
  <1>3. AnswersKnown'
    BY <1>0, <1>2 DEF AnswersKnown
  <1>4. OneRefresh => OneRefresh'
    BY <1>2 DEF OneRefresh, Running
  <1>q. QED
    BY <1>0, <1>1, <1>3, <1>4 DEF JobsTyped

-----------------------------------------------------------------------------
(* Every step keeps the types, and one refresh at a time *)

Shape == Typed /\ OneRefresh

\* To keep the shape a step keeps each of its parts.
LEMMA ShapeParts ==
  ASSUME ServerTyped', BrowserTyped', TabsTyped', RefreshTyped', JobsTyped', CountersTyped',
         AnswersKnown', OneRefresh'
  PROVE  Shape'
  BY DEF Shape, Typed, TypeOK, ServerTyped, BrowserTyped, TabsTyped, RefreshTyped, JobsTyped,
         CountersTyped

LEMMA SameRefreshes ==
  ASSUME Shape, UNCHANGED <<flights, current, orphaned>>
  PROVE  RefreshTyped' /\ OneRefresh'
  <1>1. RefreshTyped /\ OneRefresh
    BY TypeParts DEF Shape, Typed
  <1>q. QED
    BY <1>1 DEF RefreshTyped, OneRefresh, Running

LEMMA SameServer == ServerTyped /\ UNCHANGED serverVars => ServerTyped'
  BY DEF ServerTyped, serverVars

LEMMA SameBrowser == BrowserTyped /\ UNCHANGED <<cookie, lost, left>> => BrowserTyped'
  BY DEF BrowserTyped

LEMMA SameTabs == TabsTyped /\ UNCHANGED <<access, stale, user, loading>> => TabsTyped'
  BY DEF TabsTyped

LEMMA SameCounters == CountersTyped /\ UNCHANGED counters => CountersTyped'
  BY DEF CountersTyped, counters

LEMMA MishapCounted ==
  ASSUME CountersTyped, Mishap, failed' \in BOOLEAN
  PROVE  CountersTyped'
  BY SessionConstants DEF CountersTyped, Mishap

LEMMA UserStep ==
  ASSUME Shape, NEW t \in Tabs,
         (\E u \in Users : StartLogin(t, u)) \/ StartLogout(t) \/ RequestData(t) \/ Expire(t)
  PROVE  Shape'
  <1>0. /\ Typed /\ TypeOK /\ OneRefresh /\ AnswersKnown
        /\ ServerTyped /\ BrowserTyped /\ TabsTyped /\ RefreshTyped /\ JobsTyped /\ CountersTyped
    BY TypeParts DEF Shape, Typed
  <1>1. ASSUME NEW u \in Users, StartLogin(t, u) PROVE Shape'
    <2>1. /\ [Sent(t, "login") EXCEPT !.who = u] \in Job
          /\ [Sent(t, "login") EXCEPT !.who = u].on = None
          /\ [Sent(t, "login") EXCEPT !.who = u].at = "sent"
          /\ [Sent(t, "login") EXCEPT !.who = u].who = u
      <3>1. Sent(t, "login") \in Job /\ Sent(t, "login").on = None /\ Sent(t, "login").at = "sent"
        BY <1>0, SentTyped DEF Calls
      <3>2. \A r \in Job : /\ [r EXCEPT !.who = u] \in Job /\ [r EXCEPT !.who = u].on = r.on
                           /\ [r EXCEPT !.who = u].at = r.at /\ [r EXCEPT !.who = u].who = u
        BY DEF Job
      <3>q. QED
        BY <3>1, <3>2
    <2>2. JobsTyped' /\ AnswersKnown'
      BY <1>0, <1>1, <2>1, JobStep DEF StartLogin, Jobs
    <2>3. TabsTyped'
      BY <1>0, <1>1 DEF StartLogin, TabsTyped
    <2>q. QED
      BY <1>0, <1>1, <2>2, <2>3, ShapeParts, SameRefreshes, SameServer, SameBrowser, SameCounters
      DEF StartLogin
  <1>2. CASE StartLogout(t)
    <2>1. Sent(t, "logout") \in Job /\ Sent(t, "logout").call = "logout"
          /\ Sent(t, "logout").on = None /\ Sent(t, "logout").at = "sent"
      BY <1>0, SentTyped DEF Calls
    <2>2. JobsTyped' /\ AnswersKnown'
      BY <1>0, <1>2, <2>1, JobStep DEF StartLogout, Jobs
    <2>3. TabsTyped'
      BY <1>0, <1>2 DEF StartLogout, TabsTyped
    <2>q. QED
      BY <1>0, <1>2, <2>2, <2>3, ShapeParts, SameRefreshes, SameServer, SameBrowser, SameCounters
      DEF StartLogout
  <1>3. CASE RequestData(t)
    <2>1. Sent(t, "data") \in Job /\ Sent(t, "data").call = "data"
          /\ Sent(t, "data").on = None /\ Sent(t, "data").at = "sent"
      BY <1>0, SentTyped DEF Calls
    <2>2. JobsTyped' /\ AnswersKnown'
      BY <1>0, <1>3, <2>1, JobStep DEF RequestData, Jobs
    <2>q. QED
      BY <1>0, <1>3, <2>2, ShapeParts, SameRefreshes, SameServer, SameBrowser, SameCounters, SameTabs
      DEF RequestData
  <1>4. CASE Expire(t)
    <2>1. TabsTyped'
      BY <1>0, <1>4 DEF Expire, TabsTyped
    <2>2. JobsTyped' /\ AnswersKnown'
      BY <1>0, <1>4 DEF Expire, JobsTyped, AnswersKnown
    <2>3. CountersTyped'
      BY <1>0, <1>4, MishapCounted DEF Expire, CountersTyped
    <2>q. QED
      BY <1>0, <1>4, <2>1, <2>2, <2>3, ShapeParts, SameRefreshes, SameServer, SameBrowser DEF Expire
  <1>q. QED
    BY <1>1, <1>2, <1>3, <1>4
\* The refresh and the jobs of a page load
LEMMA PageLoad ==
  ASSUME NEW k \in Tokens \cup {None}
  PROVE  LET f == CHOOSE g \in Flights : TRUE
             fs == [g \in Flights |-> IF g = f THEN [at |-> "sent", tok |-> k, second |-> FALSE]
                                      ELSE NoFlight]
             js == [j \in Jobs |-> IF j = "load" THEN [IdleJob EXCEPT !.at = "restore", !.on = f]
                                   ELSE IdleJob]
         IN  /\ f \in Flights
             /\ fs \in [Flights -> Flight] /\ js \in [Jobs -> Job]
             /\ \A g \in Flights : fs[g].at # "none" => g = f
             /\ \A g \in Flights : fs[g].at # "answered"
             /\ \A j \in Jobs : /\ js[j].on # None <=> js[j].at \in {"restore", "joined"}
                                /\ js[j].call = "none"
  <1> DEFINE f == CHOOSE g \in Flights : TRUE
  <1>1. f \in Flights /\ f # None
    BY FirstFlight, SessionConstants
  <1> HIDE DEF f
  <1>2. /\ [IdleJob EXCEPT !.at = "restore", !.on = f] \in Job
        /\ [IdleJob EXCEPT !.at = "restore", !.on = f].on = f
        /\ [IdleJob EXCEPT !.at = "restore", !.on = f].at = "restore"
        /\ [IdleJob EXCEPT !.at = "restore", !.on = f].call = "none"
    BY <1>1 DEF IdleJob, Job, Calls, JobStates
  <1>3. IdleJob.on = None /\ IdleJob.at = "idle" /\ IdleJob.call = "none"
    BY DEF IdleJob
  <1>4. [at |-> "sent", tok |-> k, second |-> FALSE] \in Flight
    BY NewRefreshTyped
  <1>5. NoFlight.at = "none"
    BY DEF NoFlight
  <1>6. [g \in Flights |-> IF g = f THEN [at |-> "sent", tok |-> k, second |-> FALSE]
                           ELSE NoFlight] \in [Flights -> Flight]
    BY <1>4, NoFlightTyped
  <1>7. [j \in Jobs |-> IF j = "load" THEN [IdleJob EXCEPT !.at = "restore", !.on = f]
                        ELSE IdleJob] \in [Jobs -> Job]
    BY <1>2, IdleJobTyped
  <1>q. QED
    BY <1>1, <1>2, <1>3, <1>5, <1>6, <1>7 DEF f

LEMMA ReloadShape ==
  ASSUME Shape, NEW t \in Tabs, Reload(t)
  PROVE  Shape'
  <1>0. /\ Typed /\ TypeOK /\ OneRefresh /\ AnswersKnown
        /\ ServerTyped /\ BrowserTyped /\ TabsTyped /\ RefreshTyped /\ JobsTyped /\ CountersTyped
    BY TypeParts DEF Shape, Typed
  <1> DEFINE f == CHOOSE g \in Flights : TRUE
             fs == [g \in Flights |-> IF g = f THEN [at |-> "sent", tok |-> cookie, second |-> FALSE]
                                      ELSE NoFlight]
             js == [j \in Jobs |-> IF j = "load" THEN [IdleJob EXCEPT !.at = "restore", !.on = f]
                                   ELSE IdleJob]
  <1>1. /\ flights' = [flights EXCEPT ![t] = fs] /\ current' = [current EXCEPT ![t] = f]
        /\ jobs' = [jobs EXCEPT ![t] = js] /\ orphaned' = [orphaned EXCEPT ![t] = FALSE]
    BY DEF Reload
  <1>2. /\ f \in Flights
        /\ fs \in [Flights -> Flight] /\ js \in [Jobs -> Job]
        /\ \A g \in Flights : fs[g].at # "none" => g = f
        /\ \A g \in Flights : fs[g].at # "answered"
        /\ \A j \in Jobs : /\ js[j].on # None <=> js[j].at \in {"restore", "joined"}
                           /\ js[j].call = "none"
    BY <1>0, PageLoad DEF BrowserTyped
  <1> HIDE DEF f, fs, js
  <1>3. RefreshTyped'
    BY <1>0, <1>1, <1>2 DEF RefreshTyped
  <1>4. JobsTyped'
    BY <1>0, <1>1, <1>2 DEF JobsTyped
  <1>5. AnswersKnown'
    BY <1>0, <1>1, <1>2 DEF AnswersKnown, RefreshTyped, JobsTyped
  <1>6. OneRefresh'
    BY <1>0, <1>1, <1>2 DEF OneRefresh, Running, RefreshTyped
  <1>7. TabsTyped'
    BY <1>0 DEF Reload, TabsTyped
  <1>8. BrowserTyped'
    BY <1>0 DEF Reload, BrowserTyped
  <1>9. CountersTyped'
    BY <1>0, MishapCounted DEF Reload
  <1>q. QED
    BY <1>0, <1>3, <1>4, <1>5, <1>6, <1>7, <1>8, <1>9, ShapeParts, SameServer DEF Reload

\* What a refused or lost refresh leaves, when the server and the cookie are well-typed
LEMMA FailureShape ==
  ASSUME Shape, NEW t \in Tabs, NEW f \in Flights, flights[t][f].at # "none", RefreshFails(t, f),
         ServerTyped', BrowserTyped', CountersTyped'
  PROVE  Shape'
  BY FailureTyped, FailureOneRefresh, ShapeParts DEF Shape

LEMMA RefusedShape ==
  ASSUME Shape, NEW t \in Tabs, NEW f \in Flights, Refused(t, f)
  PROVE  Shape'
  <1>0. /\ Typed /\ TypeOK /\ OneRefresh /\ AnswersKnown
        /\ ServerTyped /\ BrowserTyped /\ TabsTyped /\ RefreshTyped /\ JobsTyped /\ CountersTyped
    BY TypeParts DEF Shape, Typed
  <1>1. ServerTyped' /\ BrowserTyped' /\ CountersTyped'
    BY <1>0, SameServer, SameBrowser, SameCounters DEF Refused, CookieWhenRefused, KeepCookie
  <1>2. CASE flights[t][f].second
    BY <1>1, <1>2, FailureShape DEF Refused
  <1>3. CASE ~flights[t][f].second
    <2>1. /\ flights' = [flights EXCEPT ![t][f] = [flights[t][f] EXCEPT !.at = "pause", !.tok = None]]
          /\ KeepTokens /\ UNCHANGED <<loading, current, jobs, orphaned>>
          /\ flights[t][f].at # "none"
      BY <1>0, <1>3 DEF Refused, RefreshTyped
    <2>2. /\ [flights[t][f] EXCEPT !.at = "pause", !.tok = None] \in Flight
          /\ [flights[t][f] EXCEPT !.at = "pause", !.tok = None].at = "pause"
      <3>1. \A g \in Flight : /\ [g EXCEPT !.at = "pause", !.tok = None] \in Flight
                              /\ [g EXCEPT !.at = "pause", !.tok = None].at = "pause"
        BY DEF Flight, FlightStates
      <3>q. QED
        BY <1>0, <3>1 DEF RefreshTyped
    <2>3. RefreshTyped' /\ JobsTyped' /\ AnswersKnown' /\ OneRefresh'
      BY <1>0, <2>1, <2>2, FlightStep
    <2>q. QED
      BY <1>0, <1>1, <2>1, <2>3, ShapeParts, SameTabs DEF KeepTokens
  <1>q. QED
    BY <1>2, <1>3

LEMMA FlightShape ==
  ASSUME Shape, NEW t \in Tabs, NEW f \in Flights,
         SecondAttempt(t, f) \/ Checked(t, f) \/ Rotated(t, f)
  PROVE  Shape'
  <1>0. /\ Typed /\ TypeOK /\ OneRefresh /\ AnswersKnown
        /\ ServerTyped /\ BrowserTyped /\ TabsTyped /\ RefreshTyped /\ JobsTyped /\ CountersTyped
    BY TypeParts DEF Shape, Typed
  <1>1. BrowserTyped' /\ CountersTyped' /\ TabsTyped'
    BY <1>0, SameBrowser, SameCounters, SameTabs DEF SecondAttempt, Checked, Rotated
  <1>2. CASE SecondAttempt(t, f)
    <2>1. [at |-> "sent", tok |-> cookie, second |-> TRUE] \in Flight
      BY <1>0, NewRefreshTyped DEF BrowserTyped
    <2>2. RefreshTyped' /\ JobsTyped' /\ AnswersKnown' /\ OneRefresh'
      BY <1>0, <1>2, <2>1, FlightStep DEF SecondAttempt
    <2>q. QED
      BY <1>0, <1>1, <1>2, <2>2, ShapeParts, SameServer DEF SecondAttempt
  <1>3. CASE Checked(t, f)
    <2>1. \A g \in Flight : /\ [g EXCEPT !.at = "checked"] \in Flight
                            /\ [g EXCEPT !.at = "checked"].at = "checked"
      BY DEF Flight, FlightStates
    <2>2. flights' = [flights EXCEPT ![t][f] = [flights[t][f] EXCEPT !.at = "checked"]]
      BY <1>0, <1>3 DEF Checked, RefreshTyped
    <2>3. flights[t][f] \in Flight
      BY <1>0 DEF RefreshTyped
    <2>4. /\ [flights[t][f] EXCEPT !.at = "checked"] \in Flight
          /\ [flights[t][f] EXCEPT !.at = "checked"].at = "checked"
      BY <2>1, <2>3
    <2>5. flights[t][f].at # "none" /\ UNCHANGED <<current, orphaned, jobs>>
      BY <1>3 DEF Checked
    <2>6. RefreshTyped' /\ JobsTyped' /\ AnswersKnown' /\ OneRefresh'
      BY <1>0, <2>2, <2>4, <2>5, FlightStep
    <2>q. QED
      BY <1>0, <1>1, <1>3, <2>6, ShapeParts, SameServer DEF Checked
  <1>4. CASE Rotated(t, f)
    <2>1. NewToken \in Tokens
      BY <1>4, NewTokenFree DEF Rotated
    <2>2. \A g \in Flight :
            /\ [g EXCEPT !.at = "answered", !.tok = NewToken] \in Flight
            /\ [g EXCEPT !.at = "answered", !.tok = NewToken].tok = NewToken
      BY <2>1 DEF Flight, FlightStates
    <2>3. flights' = [flights EXCEPT ![t][f] =
                        [flights[t][f] EXCEPT !.at = "answered", !.tok = NewToken]]
      BY <1>0, <1>4 DEF Rotated, RefreshTyped
    <2>4. flights[t][f] \in Flight
      BY <1>0 DEF RefreshTyped
    <2>5. /\ [flights[t][f] EXCEPT !.at = "answered", !.tok = NewToken] \in Flight
          /\ [flights[t][f] EXCEPT !.at = "answered", !.tok = NewToken].tok \in Tokens
      BY <2>1, <2>2, <2>4
    <2>6. flights[t][f].at # "none" /\ UNCHANGED <<current, orphaned, jobs>>
      BY <1>4 DEF Rotated
    <2>7. RefreshTyped' /\ JobsTyped' /\ AnswersKnown' /\ OneRefresh'
      BY <1>0, <2>3, <2>5, <2>6, FlightStep
    <2>8. ServerTyped'
      BY <1>0, <1>4, <2>1 DEF Rotated, ServerTyped, Live
    <2>q. QED
      BY <1>1, <2>7, <2>8, ShapeParts
  <1>q. QED
    BY <1>2, <1>3, <1>4
LEMMA EndedShape ==
  ASSUME Shape, NEW t \in Tabs, NEW f \in Flights, Overtaken(t, f) \/ RefreshLost(t, f)
  PROVE  Shape'
  <1>0. /\ Typed /\ ServerTyped /\ BrowserTyped /\ CountersTyped
    BY TypeParts DEF Shape, Typed
  <1>1. CASE Overtaken(t, f)
    BY <1>0, <1>1, FailureShape, SameServer, SameBrowser, SameCounters DEF Overtaken
  <1>2. CASE RefreshLost(t, f)
    <2>1. BrowserTyped'
      BY <1>0, <1>2 DEF RefreshLost, BrowserTyped
    <2>2. CountersTyped'
      BY <1>0, <1>2, MishapCounted DEF RefreshLost
    <2>3. flights[t][f].at # "none"
      BY <1>2 DEF RefreshLost
    <2>q. QED
      BY <1>0, <1>2, <2>1, <2>2, <2>3, FailureShape, SameServer DEF RefreshLost
  <1>q. QED
    BY <1>1, <1>2

\* A request that is sent again after a refresh that brought the token k
Resent(job, k) ==
    [call |-> IF job.at = "restore" THEN "me" ELSE job.call,
     at |-> IF job.at = "restore" THEN "sent" ELSE "again",
     had |-> TRUE, bad |-> FALSE, on |-> None,
     tok |-> IF job.call = "logout" THEN k ELSE None,
     who |-> IF job.call = "login" THEN job.who ELSE owner[k]]

LEMMA ResentTyped ==
  ASSUME TypeOK, NEW job \in Job, NEW k \in Tokens
  PROVE  /\ Resent(job, k) \in Job /\ Resent(job, k).on = None
         /\ Resent(job, k).at \in {"sent", "again"}
         /\ Resent(job, k).call = "login" => job.call = "login" /\ Resent(job, k).who = job.who
         /\ Resent(job, k).tok # None => Resent(job, k).tok = k
         /\ Resent(job, k).call = "logout" => Resent(job, k).tok = k
  <1>1. owner[k] \in Users \cup {None}
    BY DEF TypeOK
  <1>q. QED
    BY <1>1 DEF Resent, Job, Calls, JobStates

\* What a refresh that succeeds changes
LEMMA RefreshedJobs ==
  ASSUME Typed, NEW t \in Tabs, NEW f \in Flights, Refreshed(t, f)
  PROVE  /\ flights[t][f].tok \in Tokens
         /\ \A s \in Tabs, j \in Jobs : jobs'[s][j] =
              IF s = t /\ jobs[t][j].on = f THEN Resent(jobs[t][j], flights[t][f].tok)
              ELSE jobs[s][j]
         /\ \A s \in Tabs, g \in Flights : flights'[s][g] =
              IF s = t /\ g = f THEN NoFlight ELSE flights[s][g]
         /\ jobs' \in [Tabs -> [Jobs -> Job]]
  <1> DEFINE k == flights[t][f].tok
  <1>0. TypeOK /\ AnswersKnown /\ RefreshTyped /\ JobsTyped
    BY TypeParts DEF Typed
  <1>1. k \in Tokens
    BY <1>0 DEF Refreshed, AnswersKnown
  <1>2. jobs' = [jobs EXCEPT ![t] = [j \in Jobs |->
                   IF j \notin Waiters(t, f) THEN jobs[t][j] ELSE Resent(jobs[t][j], k)]]
    BY DEF Refreshed, Resent
  <1> HIDE DEF k
  <1>3. [j \in Jobs |-> IF j \notin Waiters(t, f) THEN jobs[t][j] ELSE Resent(jobs[t][j], k)]
          \in [Jobs -> Job]
    BY <1>0, <1>1, ResentTyped DEF JobsTyped
  <1>4. jobs' \in [Tabs -> [Jobs -> Job]]
    BY <1>0, <1>2, <1>3 DEF JobsTyped
  <1>5. \A s \in Tabs, j \in Jobs : jobs'[s][j] =
          IF s = t /\ jobs[t][j].on = f THEN Resent(jobs[t][j], k) ELSE jobs[s][j]
    BY <1>0, <1>2, WaitersAre DEF JobsTyped
  <1>6. \A s \in Tabs, g \in Flights : flights'[s][g] =
          IF s = t /\ g = f THEN NoFlight ELSE flights[s][g]
    BY <1>0 DEF Refreshed, RefreshTyped
  <1>q. QED
    BY <1>1, <1>4, <1>5, <1>6 DEF k

LEMMA RefreshedShape ==
  ASSUME Shape, NEW t \in Tabs, NEW f \in Flights, Refreshed(t, f)
  PROVE  Shape'
  <1> DEFINE k == flights[t][f].tok
  <1>0. /\ Typed /\ TypeOK /\ OneRefresh /\ AnswersKnown
        /\ ServerTyped /\ BrowserTyped /\ TabsTyped /\ RefreshTyped /\ JobsTyped /\ CountersTyped
    BY TypeParts DEF Shape, Typed
  <1>1. /\ k \in Tokens
        /\ \A s \in Tabs, j \in Jobs : jobs'[s][j] =
             IF s = t /\ jobs[t][j].on = f THEN Resent(jobs[t][j], k) ELSE jobs[s][j]
        /\ \A s \in Tabs, g \in Flights : flights'[s][g] =
             IF s = t /\ g = f THEN NoFlight ELSE flights[s][g]
        /\ jobs' \in [Tabs -> [Jobs -> Job]]
    BY <1>0, RefreshedJobs
  <1>2. cookie' = k /\ left' = FALSE /\ SetTokens(t, owner[k])
    BY DEF Refreshed
  <1> HIDE DEF k
  <1>3. BrowserTyped'
    BY <1>0, <1>1, <1>2 DEF Refreshed, BrowserTyped
  <1>4. TabsTyped'
    BY <1>0, <1>1, <1>2, SetTokensTyped DEF Refreshed, ServerTyped
  <1>5. RefreshTyped'
    <2>1. flights' \in [Tabs -> [Flights -> Flight]]
      BY <1>0, OneFlightTyped, NoFlightTyped DEF Refreshed
    <2>2. current' \in [Tabs -> Flights \cup {None}]
      BY <1>0 DEF Refreshed, RefreshTyped
    <2>3. orphaned' \in [Tabs -> BOOLEAN]
      BY <1>0 DEF Refreshed, StillOrphaned, RefreshTyped
    <2>q. QED
      BY <2>1, <2>2, <2>3 DEF RefreshTyped
  <1>6. JobsTyped'
    <2>1. \A job \in Job : Resent(job, k).on = None /\ Resent(job, k).at \in {"sent", "again"}
      BY <1>0, <1>1, ResentTyped
    <2>q. QED
      BY <1>0, <1>1, <2>1 DEF JobsTyped
  <1>7. AnswersKnown'
    <2>1. \A job \in Job : /\ Resent(job, k).at # "served"
                           /\ Resent(job, k).call = "login" =>
                                job.call = "login" /\ Resent(job, k).who = job.who
      BY <1>0, <1>1, ResentTyped
    <2>2. NoFlight.at = "none"
      BY DEF NoFlight
    <2>q. QED
      <3>1. ASSUME NEW s \in Tabs, NEW g \in Flights, flights'[s][g].at = "answered"
            PROVE  flights'[s][g].tok \in Tokens
        BY <1>0, <1>1, <2>2, <3>1 DEF AnswersKnown
      <3>2. ASSUME NEW s \in Tabs, NEW j \in Jobs, jobs'[s][j].call = "login"
            PROVE  /\ jobs'[s][j].who \in Users
                   /\ jobs'[s][j].at = "served" => jobs'[s][j].tok \in Tokens
        <4>1. CASE s = t /\ jobs[t][j].on = f
          <5>1. jobs[t][j] \in Job /\ jobs'[s][j] = Resent(jobs[t][j], k)
            BY <1>0, <1>1, <4>1 DEF JobsTyped
          <5>q. QED
            BY <1>0, <2>1, <3>2, <5>1 DEF AnswersKnown
        <4>2. CASE ~(s = t /\ jobs[t][j].on = f)
          BY <1>0, <1>1, <3>2, <4>2 DEF AnswersKnown
        <4>q. QED
          BY <4>1, <4>2
      <3>q. QED
        BY <3>1, <3>2 DEF AnswersKnown
  <1>8. OneRefresh'
    <2> SUFFICES ASSUME NEW s \in Tabs, ~orphaned'[s], NEW g \in Flights,
                        flights'[s][g].at # "none"
                 PROVE  g = current'[s]
      BY DEF OneRefresh, Running
    <2>0. NoFlight.at = "none"
      BY DEF NoFlight
    <2>1. CASE s # t
      BY <1>0, <1>1, <2>1 DEF Refreshed, StillOrphaned, OneRefresh, Running, RefreshTyped
    <2>2. CASE s = t
      <3>1. g # f /\ flights[t][g].at # "none" /\ flights[t][f].at # "none"
        BY <1>1, <2>0, <2>2 DEF Refreshed
      <3>2. f \in Running(t) /\ g \in Running(t)
        BY <3>1 DEF Running
      <3>3. ~orphaned[t]
        BY <1>0, <2>2, <3>1, <3>2 DEF Refreshed, StillOrphaned, RefreshTyped
      <3>q. QED
        <4>1. f = current[t] /\ g = current[t]
          BY <1>0, <3>2, <3>3 DEF OneRefresh
        <4>q. QED
          BY <3>1, <4>1
    <2>q. QED
      BY <2>1, <2>2
  <1>q. QED
    BY <1>0, <1>3, <1>4, <1>5, <1>6, <1>7, <1>8, ShapeParts, SameServer, SameCounters DEF Refreshed

LEMMA LoadedShape ==
  ASSUME Shape, NEW t \in Tabs, NEW j \in Jobs, Loaded(t, j)
  PROVE  Shape'
  <1>0. /\ Typed /\ TypeOK /\ OneRefresh /\ AnswersKnown
        /\ ServerTyped /\ BrowserTyped /\ TabsTyped /\ RefreshTyped /\ JobsTyped /\ CountersTyped
    BY TypeParts DEF Shape, Typed
  <1>1. ServerTyped' /\ BrowserTyped' /\ CountersTyped'
    BY <1>0, SameServer, SameBrowser, SameCounters DEF Loaded
  <1>2. CASE jobs[t][j].bad
    BY <1>0, <1>1, <1>2, UnauthorizedTyped, ShapeParts DEF Loaded
  <1>3. CASE ~jobs[t][j].bad
    <2>1. jobs' = [jobs EXCEPT ![t][j] = IdleJob] /\ UNCHANGED <<access, stale, flights, current, orphaned>>
      BY <1>3 DEF Loaded
    <2>2. JobsTyped' /\ AnswersKnown'
      <3>1. IdleJob.on = None /\ IdleJob.at = "idle" /\ IdleJob.call = "none"
        BY DEF IdleJob
      <3>q. QED
        BY <1>0, <2>1, <3>1, IdleJobTyped, JobStep
    <2>3. TabsTyped'
      <3>1. jobs[t][j].who \in Users \cup {None}
        BY <1>0 DEF JobsTyped, Job
      <3>q. QED
        BY <1>0, <1>3, <2>1, <3>1 DEF Loaded, TabsTyped, StopLoading, KeepLoading
    <2>q. QED
      BY <1>0, <1>1, <2>1, <2>2, <2>3, ShapeParts, SameRefreshes
  <1>q. QED
    BY <1>2, <1>3
LEMMA LoginShape ==
  ASSUME Shape, NEW t \in Tabs, LoginAnswered(t)
  PROVE  Shape'
  <1> DEFINE job == jobs[t]["form"]
  <1>0. /\ Typed /\ TypeOK /\ OneRefresh /\ AnswersKnown
        /\ ServerTyped /\ BrowserTyped /\ TabsTyped /\ RefreshTyped /\ JobsTyped /\ CountersTyped
    BY TypeParts DEF Shape, Typed
  <1>1. "form" \in Jobs /\ job \in Job /\ job.call = "login" /\ job.who \in Users
    BY <1>0 DEF LoginAnswered, AnswersKnown, JobsTyped, Jobs
  <1>2. CountersTyped'
    BY <1>0, SameCounters DEF LoginAnswered
  <1>3. CASE /\ Flying(t, "form")
             /\ Issuable # {}
             /\ owner' = [owner EXCEPT ![NewToken] = jobs[t]["form"].who]
             /\ jobs' = [jobs EXCEPT ![t]["form"].at = "served", ![t]["form"].tok = NewToken]
             /\ KeepTokens /\ KeepCookie
             /\ UNCHANGED <<spent, loading, flights, current, orphaned>>
    <2>1. NewToken \in Tokens
      BY <1>3, NewTokenFree
    <2>2. jobs' = [jobs EXCEPT ![t]["form"] = [job EXCEPT !.at = "served", !.tok = NewToken]]
      BY <1>0, <1>1, <1>3 DEF JobsTyped, Job
    <2>3. job.on = None
      BY <1>0, <1>1, <1>3 DEF Flying, JobsTyped
    <2>4. /\ [job EXCEPT !.at = "served", !.tok = NewToken] \in Job
          /\ [job EXCEPT !.at = "served", !.tok = NewToken].at = "served"
          /\ [job EXCEPT !.at = "served", !.tok = NewToken].tok = NewToken
          /\ [job EXCEPT !.at = "served", !.tok = NewToken].who = job.who
          /\ [job EXCEPT !.at = "served", !.tok = NewToken].on = job.on
      BY <1>1, <2>1 DEF Job, JobStates
    <2> HIDE DEF job
    <2> DEFINE new == [job EXCEPT !.at = "served", !.tok = NewToken]
    <2>a. /\ new \in Job /\ new.at = "served" /\ new.on = None /\ new.who \in Users
          /\ new.tok \in Tokens /\ jobs' = [jobs EXCEPT ![t]["form"] = new] /\ UNCHANGED flights
      BY <1>1, <1>3, <2>1, <2>2, <2>3, <2>4
    <2> HIDE DEF new
    <2>5. JobsTyped' /\ AnswersKnown'
      BY <1>0, <1>1, <2>a, JobStep
    <2>6. ServerTyped'
      BY <1>0, <1>1, <1>3, <2>1 DEF ServerTyped, job
    <2>7. BrowserTyped' /\ TabsTyped'
      BY <1>0, <1>3, SameBrowser, SameTabs DEF LoginAnswered, KeepTokens, KeepCookie
    <2>q. QED
      BY <1>0, <1>2, <1>3, <2>5, <2>6, <2>7, ShapeParts, SameRefreshes
  <1>4. CASE /\ jobs[t]["form"].at = "served"
             /\ cookie' = jobs[t]["form"].tok /\ left' = FALSE
             /\ SetTokens(t, jobs[t]["form"].who)
             /\ jobs' = [jobs EXCEPT ![t]["form"] =
                  [Sent(t, "me") EXCEPT !.had = TRUE, !.bad = FALSE, !.who = jobs[t]["form"].who]]
             /\ UNCHANGED <<serverVars, loading, flights, current, orphaned>>
    <2>1. Sent(t, "me") \in Job /\ Sent(t, "me").call = "me" /\ Sent(t, "me").at = "sent"
          /\ Sent(t, "me").on = None
      BY <1>0, SentTyped DEF Calls
    <2>2. \A r \in Job, u \in Users :
            /\ [r EXCEPT !.had = TRUE, !.bad = FALSE, !.who = u] \in Job
            /\ [r EXCEPT !.had = TRUE, !.bad = FALSE, !.who = u].call = r.call
            /\ [r EXCEPT !.had = TRUE, !.bad = FALSE, !.who = u].at = r.at
            /\ [r EXCEPT !.had = TRUE, !.bad = FALSE, !.who = u].on = r.on
      BY DEF Job
    <2>3. JobsTyped' /\ AnswersKnown'
      <3> DEFINE new == [Sent(t, "me") EXCEPT !.had = TRUE, !.bad = FALSE, !.who = job.who]
      <3>1. new \in Job /\ new.call = "me" /\ new.at = "sent" /\ new.on = None
        BY <1>1, <2>1, <2>2
      <3>2. jobs' = [jobs EXCEPT ![t]["form"] = new] /\ UNCHANGED flights
        BY <1>4
      <3> HIDE DEF new
      <3>q. QED
        BY <1>0, <1>1, <3>1, <3>2, JobStep
    <2>4. BrowserTyped'
      BY <1>0, <1>1, <1>4 DEF LoginAnswered, BrowserTyped, AnswersKnown
    <2>5. TabsTyped'
      BY <1>0, <1>1, <1>4, SetTokensTyped
    <2>q. QED
      BY <1>0, <1>2, <1>4, <2>3, <2>4, <2>5, ShapeParts, SameRefreshes, SameServer
  <1>5. CASE Unauthorized(t, "form") /\ KeepCookie /\ UNCHANGED serverVars
    <2>1. UNCHANGED lost
      BY DEF LoginAnswered
    <2>q. QED
      BY <1>0, <1>1, <1>2, <1>5, <2>1, UnauthorizedTyped, ShapeParts, SameServer, SameBrowser
      DEF KeepCookie
  <1>q. QED
    BY <1>3, <1>4, <1>5 DEF LoginAnswered

LEMMA LogoutShape ==
  ASSUME Shape, NEW t \in Tabs, LogoutAnswered(t)
  PROVE  Shape'
  <1> DEFINE job == jobs[t]["form"]
  <1>0. /\ Typed /\ TypeOK /\ OneRefresh /\ AnswersKnown
        /\ ServerTyped /\ BrowserTyped /\ TabsTyped /\ RefreshTyped /\ JobsTyped /\ CountersTyped
    BY TypeParts DEF Shape, Typed
  <1>1. "form" \in Jobs /\ job \in Job /\ job.call = "logout"
    BY <1>0 DEF LogoutAnswered, JobsTyped, Jobs
  <1>2. CountersTyped' /\ UNCHANGED lost
    BY <1>0, SameCounters DEF LogoutAnswered
  <1>3. CASE /\ Flying(t, "form") /\ job.tok # None
             /\ spent' = spent \cup {job.tok}
             /\ jobs' = [jobs EXCEPT ![t]["form"].at = "served"]
             /\ KeepTokens /\ KeepCookie
             /\ UNCHANGED <<owner, loading, flights, current, orphaned>>
    <2>1. jobs' = [jobs EXCEPT ![t]["form"] = [job EXCEPT !.at = "served"]]
      BY <1>0, <1>1, <1>3 DEF JobsTyped, Job
    <2>2. job.on = None
      BY <1>0, <1>1, <1>3 DEF Flying, JobsTyped
    <2>3. /\ [job EXCEPT !.at = "served"] \in Job
          /\ [job EXCEPT !.at = "served"].at = "served"
          /\ [job EXCEPT !.at = "served"].call = job.call
          /\ [job EXCEPT !.at = "served"].on = job.on
      BY <1>1 DEF Job, JobStates
    <2>4. JobsTyped' /\ AnswersKnown'
      <3> HIDE DEF job
      <3>q. QED
        BY <1>0, <1>1, <1>3, <2>1, <2>2, <2>3, JobStep
    <2>5. ServerTyped'
      BY <1>0, <1>1, <1>3 DEF ServerTyped, Job
    <2>6. BrowserTyped' /\ TabsTyped'
      BY <1>0, <1>2, <1>3, SameBrowser, SameTabs DEF KeepTokens, KeepCookie
    <2>q. QED
      BY <1>0, <1>2, <1>3, <2>4, <2>5, <2>6, ShapeParts, SameRefreshes
  <1>4. CASE /\ cookie' = None /\ left' = TRUE
             /\ EndJob(t, "form", "logout")
             /\ UNCHANGED <<serverVars, flights>>
    <2>1. BrowserTyped'
      BY <1>0, <1>2, <1>4 DEF BrowserTyped
    <2>q. QED
      BY <1>0, <1>1, <1>2, <1>4, <2>1, EndTyped, EndOneRefresh, ShapeParts, SameServer
  <1>5. CASE Unauthorized(t, "form") /\ KeepCookie /\ UNCHANGED serverVars
    BY <1>0, <1>1, <1>2, <1>5, UnauthorizedTyped, ShapeParts, SameServer, SameBrowser
    DEF KeepCookie
  <1>q. QED
    BY <1>3, <1>4, <1>5 DEF LogoutAnswered

LEMMA CallLostShape ==
  ASSUME Shape, NEW t \in Tabs, NEW j \in Jobs, CallLost(t, j)
  PROVE  Shape'
  <1>0. /\ Typed /\ OneRefresh /\ ServerTyped /\ BrowserTyped /\ CountersTyped
    BY TypeParts DEF Shape, Typed
  <1>1. BrowserTyped' /\ CountersTyped'
    BY <1>0, MishapCounted DEF CallLost, BrowserTyped
  <1>q. QED
    BY <1>0, <1>1, EndTyped, EndOneRefresh, ShapeParts, SameServer DEF CallLost

LEMMA ShapeStep ==
  ASSUME Shape, [Next]_vars
  PROVE  Shape'
  <1>1. CASE Next
    <2>1. PICK t \in Tabs :
             \/ \E u \in Users : StartLogin(t, u)
             \/ StartLogout(t) \/ RequestData(t) \/ Reload(t) \/ Expire(t)
             \/ \E f \in Flights : RefreshStep(t, f) \/ RefreshLost(t, f)
             \/ Answer(t)
             \/ \E j \in Jobs : CallLost(t, j)
      BY <1>1 DEF Next
    <2>2. CASE (\E u \in Users : StartLogin(t, u)) \/ StartLogout(t) \/ RequestData(t) \/ Expire(t)
      BY <2>2, UserStep
    <2>3. CASE Reload(t)
      BY <2>3, ReloadShape
    <2>4. ASSUME NEW f \in Flights, RefreshStep(t, f) \/ RefreshLost(t, f) PROVE Shape'
      BY <2>4, RefusedShape, FlightShape, EndedShape, RefreshedShape DEF RefreshStep
    <2>5. CASE Answer(t)
      BY <2>5, LoadedShape, LoginShape, LogoutShape DEF Answer
    <2>6. CASE \E j \in Jobs : CallLost(t, j)
      BY <2>6, CallLostShape
    <2>q. QED
      BY <2>1, <2>2, <2>3, <2>4, <2>5, <2>6
  <1>2. CASE UNCHANGED vars
    BY <1>2 DEF vars, serverVars, counters, Shape, Typed, TypeOK, AnswersKnown, OneRefresh, Running
  <1>q. QED
    BY <1>1, <1>2

LEMMA ShapeInit == Init => Shape
  <1> SUFFICES ASSUME Init PROVE Shape
    OBVIOUS
  <1> DEFINE f == CHOOSE g \in Flights : TRUE
             fs == [g \in Flights |-> IF g = f THEN [at |-> "sent", tok |-> First, second |-> FALSE]
                                      ELSE NoFlight]
             js == [j \in Jobs |-> IF j = "load" THEN [IdleJob EXCEPT !.at = "restore", !.on = f]
                                   ELSE IdleJob]
  <1>1. /\ flights = [t \in Tabs |-> fs] /\ current = [t \in Tabs |-> f]
        /\ jobs = [t \in Tabs |-> js] /\ orphaned = [t \in Tabs |-> FALSE]
    BY DEF Init
  <1>2. First \in Tokens \cup {None}
    BY SessionConstants
  <1>3. /\ f \in Flights
        /\ fs \in [Flights -> Flight] /\ js \in [Jobs -> Job]
        /\ \A g \in Flights : fs[g].at # "none" => g = f
        /\ \A g \in Flights : fs[g].at # "answered"
        /\ \A j \in Jobs : /\ js[j].on # None <=> js[j].at \in {"restore", "joined"}
                           /\ js[j].call = "none"
    BY <1>2, PageLoad
  <1> HIDE DEF f, fs, js
  <1>4. RefreshTyped /\ JobsTyped /\ AnswersKnown /\ OneRefresh
    BY <1>1, <1>3 DEF RefreshTyped, JobsTyped, AnswersKnown, OneRefresh, Running
  <1>5. ServerTyped
    BY DEF Init, ServerTyped
  <1>6. BrowserTyped /\ TabsTyped
    BY <1>2 DEF Init, BrowserTyped, TabsTyped
  <1>7. CountersTyped
    <2>1. 0 \in 0..MaxMishaps
      BY SessionConstants
    <2>q. QED
      BY <2>1 DEF Init, CountersTyped
  <1>q. QED
    BY <1>4, <1>5, <1>6, <1>7, TypeParts DEF Shape, Typed

LEMMA ShapeAlways == Spec => []Shape
  <1>1. Shape /\ [Next]_vars => Shape'
    BY ShapeStep
  <1>q. QED
    BY <1>1, ShapeInit, PTL DEF Spec

\* Every variable of the browser and its tabs has its type, and exactly the functions that
\* wait for a refresh name it (apiFetch and refreshAccessToken of api-client.ts).
THEOREM SessionTyped == Spec => []TypeOK
  <1>1. Shape => TypeOK
    BY DEF Shape, Typed
  <1>q. QED
    BY <1>1, ShapeAlways, PTL

\* A tab that has not signed out meanwhile has one refresh in progress at most, the one of
\* refreshPromise, however many requests find the access token expired.
THEOREM OneRefreshPerTab == Spec => []OneRefresh
  <1>1. Shape => OneRefresh
    BY DEF Shape
  <1>q. QED
    BY <1>1, ShapeAlways, PTL
-----------------------------------------------------------------------------
(* The tokens on their way *)

\* The server has answered with the token k: to a refresh, or to a sign-in.
AnswerOf(t, f, k) == flights[t][f].at = "answered" /\ flights[t][f].tok = k
LoginOf(t, k) ==
    /\ jobs[t]["form"].call = "login" /\ jobs[t]["form"].at = "served"
    /\ jobs[t]["form"].tok = k
Granted(k) == (\E t \in Tabs, f \in Flights : AnswerOf(t, f, k)) \/ \E t \in Tabs : LoginOf(t, k)

\* The browser has the token, or a request that was sent with it is in progress.
Held(k) ==
    \/ cookie = k
    \/ \E t \in Tabs, f \in Flights :
         flights[t][f].at \in {"sent", "checked"} /\ flights[t][f].tok = k
    \/ \E t \in Tabs, j \in Jobs : jobs[t][j].call = "logout" /\ jobs[t][j].tok = k

\* The server has signed the tab out, and the answer is on its way.
LogoutServed(t) == jobs[t]["form"].call = "logout" /\ jobs[t]["form"].at = "served"

KnownTokens ==
    /\ \A k \in spent : owner[k] # None
    /\ \A k \in Tokens : Held(k) => owner[k] # None

\* A token on its way works and nobody has it yet, so nothing can revoke it.
GrantsFresh == \A k \in Tokens : Granted(k) => Live(k) /\ ~Held(k)

\* Two answers never carry the same token.
GrantsApart ==
    \A k \in Tokens :
        /\ \A t, s \in Tabs, f, g \in Flights :
             AnswerOf(t, f, k) /\ AnswerOf(s, g, k) => t = s /\ f = g
        /\ \A t, s \in Tabs, f \in Flights : ~(AnswerOf(t, f, k) /\ LoginOf(s, k))
        /\ \A t, s \in Tabs : LoginOf(t, k) /\ LoginOf(s, k) => t = s

\* The browser has a token that works or will be told one, or will learn that it signed out.
Follow ==
    ~lost /\ ~left => \/ Live(cookie)
                      \/ \E k \in Tokens : Granted(k)
                      \/ \E t \in Tabs : LogoutServed(t)

TokensSafe == KnownTokens /\ GrantsFresh /\ GrantsApart
SessionInvariant == Shape /\ TokensSafe /\ Follow

\* A step that brings no answer with a token: what is on its way or held was so before.
NoNews ==
    \A k \in Tokens :
        /\ \A t \in Tabs, f \in Flights : AnswerOf(t, f, k)' => AnswerOf(t, f, k)
        /\ \A t \in Tabs : LoginOf(t, k)' => LoginOf(t, k)
        /\ Held(k)' => Held(k)

\* A step that delivers no such answer
NothingLost ==
    /\ \A k \in Tokens :
        /\ \A t \in Tabs, f \in Flights : AnswerOf(t, f, k) => AnswerOf(t, f, k)'
        /\ \A t \in Tabs : LoginOf(t, k) => LoginOf(t, k)'
    /\ \A t \in Tabs : LogoutServed(t) => LogoutServed(t)'

Calm ==
    /\ UNCHANGED <<owner, spent, cookie, left>> /\ NoNews
    /\ lost \/ ~NothingLost => lost'

LEMMA CalmKeeps ==
  ASSUME TokensSafe, Calm
  PROVE  TokensSafe' /\ (Follow => Follow')
  <1>1. KnownTokens'
    BY DEF TokensSafe, KnownTokens, Calm, NoNews
  <1>2. \A k \in Tokens : Granted(k)' => Granted(k)
    BY DEF Calm, NoNews, Granted
  <1>3. \A k : Live(k)' <=> Live(k)
    BY DEF Calm, Live
  <1>4. GrantsFresh'
    BY <1>2, <1>3 DEF TokensSafe, GrantsFresh, Calm, NoNews
  <1>5. GrantsApart'
    BY DEF TokensSafe, GrantsApart, Calm, NoNews
  <1>6. ASSUME Follow, ~lost', ~left'
        PROVE  \/ Live(cookie)'
               \/ \E k \in Tokens : Granted(k)'
               \/ \E t \in Tabs : LogoutServed(t)'
    <2>1. NothingLost /\ ~lost /\ ~left
      BY <1>6 DEF Calm
    <2>2. \A k \in Tokens : Granted(k) => Granted(k)'
      BY <2>1 DEF NothingLost, Granted
    <2>3. CASE Live(cookie)
      BY <1>3, <2>3 DEF Calm
    <2>4. CASE \E k \in Tokens : Granted(k)
      BY <2>2, <2>4
    <2>5. CASE \E t \in Tabs : LogoutServed(t)
      BY <2>1, <2>5 DEF NothingLost
    <2>q. QED
      BY <1>6, <2>1, <2>3, <2>4, <2>5 DEF Follow
  <1>q. QED
    BY <1>1, <1>4, <1>5, <1>6 DEF TokensSafe, Follow

\* A step that answers nobody, and drops an answer only where the history notes it
LEMMA CalmStep ==
  ASSUME Shape, \A t \in Tabs, f \in Flights :
           \/ flights'[t][f] = flights[t][f]
           \/ /\ flights[t][f].at # "answered" \/ lost'
              /\ flights'[t][f].at # "answered"
              /\ flights'[t][f].at \in {"sent", "checked"} =>
                   flights'[t][f].tok \in {cookie, None} \/
                   (flights[t][f].at \in {"sent", "checked"} /\ flights'[t][f].tok = flights[t][f].tok),
         \A t \in Tabs, j \in Jobs :
           \/ jobs'[t][j] = jobs[t][j]
           \/ /\ j # "form" \/ jobs[t][j].at # "served" \/ lost'
              /\ jobs'[t][j].at # "served"
              /\ jobs'[t][j].call = "logout" =>
                   jobs'[t][j].tok \in {cookie, None} \/
                   (jobs[t][j].call = "logout" /\ jobs'[t][j].tok = jobs[t][j].tok),
         UNCHANGED <<owner, spent, cookie, left>>, lost => lost'
  PROVE  Calm
  <1>0. "form" \in Jobs
    BY DEF Jobs
  <1>1. \A t \in Tabs, f \in Flights, k \in Tokens : AnswerOf(t, f, k)' => AnswerOf(t, f, k)
    BY DEF AnswerOf
  <1>2. \A t \in Tabs, k \in Tokens : LoginOf(t, k)' => LoginOf(t, k)
    BY <1>0 DEF LoginOf
  <1>4. ASSUME NEW k \in Tokens, Held(k)' PROVE Held(k)
    <2>0. k # None
      BY SessionConstants
    <2>1. CASE cookie' = k
      BY <2>1 DEF Held
    <2>2. ASSUME NEW t \in Tabs, NEW f \in Flights,
                 flights'[t][f].at \in {"sent", "checked"} /\ flights'[t][f].tok = k
          PROVE  Held(k)
      BY <2>0, <2>2 DEF Held
    <2>3. ASSUME NEW t \in Tabs, NEW j \in Jobs, jobs'[t][j].call = "logout" /\ jobs'[t][j].tok = k
          PROVE  Held(k)
      BY <2>0, <2>3 DEF Held
    <2>q. QED
      BY <1>4, <2>1, <2>2, <2>3 DEF Held
  <1>5. NoNews
    BY <1>1, <1>2, <1>4 DEF NoNews
  <1>6. ~NothingLost => lost'
    <2> SUFFICES ASSUME ~lost' PROVE NothingLost
      OBVIOUS
    <2>1. \A t \in Tabs, f \in Flights, k \in Tokens : AnswerOf(t, f, k) => AnswerOf(t, f, k)'
      BY DEF AnswerOf
    <2>2. \A t \in Tabs, k \in Tokens : LoginOf(t, k) => LoginOf(t, k)'
      BY <1>0 DEF LoginOf
    <2>3. \A t \in Tabs : LogoutServed(t) => LogoutServed(t)'
      BY <1>0 DEF LogoutServed
    <2>q. QED
      BY <2>1, <2>2, <2>3 DEF NothingLost
  <1>q. QED
    BY <1>5, <1>6 DEF Calm

LEMMA IdleFields == IdleJob.call = "none" /\ IdleJob.at = "idle" /\ IdleJob.tok = None
  BY DEF IdleJob

LEMMA FailureCalm ==
  ASSUME Shape, NEW t \in Tabs, NEW f \in Flights, RefreshFails(t, f),
         flights[t][f].at # "answered" \/ lost',
         UNCHANGED <<owner, spent, cookie, left>>, lost => lost'
  PROVE  Calm
  <1>0. TypeOK /\ RefreshTyped /\ JobsTyped
    BY TypeParts DEF Shape, Typed
  <1>1. \A s \in Tabs, h \in Flights :
          flights'[s][h] = IF s = t /\ h = f THEN NoFlight ELSE flights[s][h]
    BY <1>0 DEF RefreshFails, RefreshTyped
  <1>2. NoFlight.at = "none"
    BY DEF NoFlight
  <1>3. \A s \in Tabs, j \in Jobs :
          jobs'[s][j] = IF s = t /\ j \in Waiters(t, f) THEN IdleJob ELSE jobs[s][j]
    BY <1>0 DEF RefreshFails, JobsTyped
  <1>4. \A j \in Waiters(t, f) : jobs[t][j].at # "served"
    BY <1>0, WaitersWait
  <1>q. QED
    BY <1>1, <1>2, <1>3, <1>4, IdleFields, CalmStep

LEMMA EndCalm ==
  ASSUME Shape, NEW t \in Tabs, NEW j \in Jobs, NEW call, EndJob(t, j, call),
         jobs[t][j].at # "served" \/ lost',
         UNCHANGED <<flights, owner, spent, cookie, left>>, lost => lost'
  PROVE  Calm
  <1>0. JobsTyped
    BY TypeParts DEF Shape, Typed
  <1>1. \A s \in Tabs, i \in Jobs :
          jobs'[s][i] = IF s = t /\ i = j THEN IdleJob ELSE jobs[s][i]
    BY <1>0 DEF EndJob, JobsTyped
  <1>q. QED
    BY <1>1, IdleFields, CalmStep

LEMMA UnauthorizedCalm ==
  ASSUME Shape, NEW t \in Tabs, NEW j \in Jobs, Unauthorized(t, j), jobs[t][j].at # "served",
         UNCHANGED <<owner, spent, cookie, left, lost>>
  PROVE  Calm
  <1>0. TypeOK /\ RefreshTyped /\ JobsTyped
    BY TypeParts DEF Shape, Typed
  <1>1. CASE EndJob(t, j, jobs[t][j].call) /\ UNCHANGED flights
    BY <1>1, EndCalm
  <1>2. ASSUME NEW f \in Joined(t), Refreshing(t, f),
               jobs' = [jobs EXCEPT ![t][j] =
                          [jobs[t][j] EXCEPT !.at = "joined", !.on = f, !.bad = FALSE]]
        PROVE  Calm
    <2>1. f \in Flights
      BY <1>0, JoinedFlight
    <2>2. \A s \in Tabs, h \in Flights :
            \/ flights'[s][h] = flights[s][h]
            \/ /\ flights[s][h].at = "none"
               /\ flights'[s][h] = [at |-> "sent", tok |-> cookie, second |-> FALSE]
      <3>1. CASE f \in Running(t)
        BY <1>2, <3>1 DEF Refreshing
      <3>2. CASE f \notin Running(t)
        <4>1. flights[t][f].at = "none"
          BY <2>1, <3>2 DEF Running
        <4>2. flights' = [flights EXCEPT ![t][f] =
                            [at |-> "sent", tok |-> cookie, second |-> FALSE]]
          BY <1>2, <3>2 DEF Refreshing
        <4>q. QED
          BY <1>0, <2>1, <4>1, <4>2 DEF RefreshTyped
      <3>q. QED
        BY <3>1, <3>2
    <2>3. \A s \in Tabs, i \in Jobs :
            jobs'[s][i] = IF s = t /\ i = j
                          THEN [jobs[t][j] EXCEPT !.at = "joined", !.on = f, !.bad = FALSE]
                          ELSE jobs[s][i]
      BY <1>0, <1>2 DEF JobsTyped
    <2>4. \A r \in Job :
            /\ [r EXCEPT !.at = "joined", !.on = f, !.bad = FALSE].at = "joined"
            /\ [r EXCEPT !.at = "joined", !.on = f, !.bad = FALSE].call = r.call
            /\ [r EXCEPT !.at = "joined", !.on = f, !.bad = FALSE].tok = r.tok
      BY DEF Job
    <2>5. jobs[t][j] \in Job
      BY <1>0 DEF JobsTyped
    <2>6. \A s \in Tabs, i \in Jobs :
            \/ jobs'[s][i] = jobs[s][i]
            \/ /\ jobs[s][i].at # "served" /\ jobs'[s][i].at = "joined"
               /\ jobs'[s][i].call = jobs[s][i].call /\ jobs'[s][i].tok = jobs[s][i].tok
      <3> SUFFICES ASSUME NEW s \in Tabs, NEW i \in Jobs, jobs'[s][i] # jobs[s][i]
                   PROVE  /\ jobs[s][i].at # "served" /\ jobs'[s][i].at = "joined"
                          /\ jobs'[s][i].call = jobs[s][i].call /\ jobs'[s][i].tok = jobs[s][i].tok
        OBVIOUS
      <3>1. s = t /\ i = j
              /\ jobs'[s][i] = [jobs[t][j] EXCEPT !.at = "joined", !.on = f, !.bad = FALSE]
        BY <2>3
      <3>q. QED
        BY <2>4, <2>5, <3>1
    <2>q. QED
      BY <2>2, <2>6, CalmStep
  <1>q. QED
    BY <1>1, <1>2 DEF Unauthorized

\* A job takes a new form that carries no answer.
LEMMA JobCalm ==
  ASSUME Shape, NEW t \in Tabs, NEW j \in Jobs, NEW job,
         jobs[t][j].at # "served", job.at # "served",
         job.call = "logout" => job.tok \in {cookie, None},
         jobs' = [jobs EXCEPT ![t][j] = job],
         UNCHANGED <<flights, owner, spent, cookie, left, lost>>
  PROVE  Calm
  <1>0. JobsTyped
    BY TypeParts DEF Shape, Typed
  <1>1. \A s \in Tabs, i \in Jobs :
          jobs'[s][i] = IF s = t /\ i = j THEN job ELSE jobs[s][i]
    BY <1>0 DEF JobsTyped
  <1>q. QED
    BY <1>1, CalmStep

\* A refresh goes on without an answer.
LEMMA FlightCalm ==
  ASSUME Shape, NEW t \in Tabs, NEW f \in Flights, NEW g,
         flights[t][f].at # "answered", g.at # "answered",
         g.at \in {"sent", "checked"} =>
           g.tok = cookie \/ (flights[t][f].at \in {"sent", "checked"} /\ g.tok = flights[t][f].tok),
         flights' = [flights EXCEPT ![t][f] = g],
         UNCHANGED <<jobs, owner, spent, cookie, left, lost>>
  PROVE  Calm
  <1>0. RefreshTyped
    BY TypeParts DEF Shape, Typed
  <1>1. \A s \in Tabs, h \in Flights :
          flights'[s][h] = IF s = t /\ h = f THEN g ELSE flights[s][h]
    BY <1>0 DEF RefreshTyped
  <1>q. QED
    BY <1>1, CalmStep
LEMMA UserCalm ==
  ASSUME Shape, NEW t \in Tabs,
         (\E u \in Users : StartLogin(t, u)) \/ StartLogout(t) \/ RequestData(t) \/ Expire(t)
  PROVE  Calm
  <1>0. TypeOK /\ "form" \in Jobs /\ "data" \in Jobs
    BY TypeParts DEF Shape, Typed, Jobs
  <1>1. ASSUME NEW u \in Users, StartLogin(t, u) PROVE Calm
    <2>1. \A r \in Job : /\ [r EXCEPT !.who = u].call = r.call /\ [r EXCEPT !.who = u].at = r.at
                         /\ [r EXCEPT !.who = u].tok = r.tok
      BY DEF Job
    <2>2. /\ Sent(t, "login") \in Job /\ Sent(t, "login").call = "login"
          /\ Sent(t, "login").at = "sent"
      BY <1>0, SentTyped DEF Calls
    <2> DEFINE new == [Sent(t, "login") EXCEPT !.who = u]
    <2>3. new.call = "login" /\ new.at = "sent"
      BY <2>1, <2>2
    <2>4. jobs' = [jobs EXCEPT ![t]["form"] = new] /\ jobs[t]["form"].at # "served"
      BY <1>1, IdleFields DEF StartLogin
    <2>5. UNCHANGED <<flights, owner, spent, cookie, left, lost>>
      BY <1>1 DEF StartLogin, serverVars
    <2> HIDE DEF new
    <2>q. QED
      BY <1>0, <2>3, <2>4, <2>5, JobCalm
  <1>2. CASE StartLogout(t)
    <2>1. Sent(t, "logout").at = "sent" /\ Sent(t, "logout").tok = cookie
      BY <1>0, SentTyped DEF Calls
    <2>2. /\ jobs' = [jobs EXCEPT ![t]["form"] = Sent(t, "logout")]
          /\ jobs[t]["form"].at # "served"
      BY <1>2, IdleFields DEF StartLogout
    <2>3. UNCHANGED <<flights, owner, spent, cookie, left, lost>>
      BY <1>2 DEF StartLogout, serverVars
    <2>q. QED
      BY <1>0, <2>1, <2>2, <2>3, JobCalm
  <1>3. CASE RequestData(t)
    <2>1. Sent(t, "data").at = "sent" /\ Sent(t, "data").call = "data"
      BY <1>0, SentTyped DEF Calls
    <2>2. /\ jobs' = [jobs EXCEPT ![t]["data"] = Sent(t, "data")]
          /\ jobs[t]["data"].at # "served"
      BY <1>3, IdleFields DEF RequestData
    <2>3. UNCHANGED <<flights, owner, spent, cookie, left, lost>>
      BY <1>3 DEF RequestData, serverVars
    <2>q. QED
      BY <1>0, <2>1, <2>2, <2>3, JobCalm
  <1>4. CASE Expire(t)
    BY <1>4, CalmStep DEF Expire, serverVars
  <1>q. QED
    BY <1>1, <1>2, <1>3, <1>4

LEMMA ReloadCalm ==
  ASSUME Shape, NEW t \in Tabs, Reload(t)
  PROVE  Calm
  <1>0. TypeOK /\ BrowserTyped /\ RefreshTyped /\ JobsTyped
    BY TypeParts DEF Shape, Typed
  <1>1. UNCHANGED <<owner, spent, cookie, left>> /\ (lost => lost')
    BY DEF Reload, serverVars
  <1>2. /\ \A f \in Flights : flights[t][f].at # "answered" \/ lost'
        /\ jobs[t]["form"].at # "served" \/ lost'
    BY DEF Reload
  <1>3. \A s \in Tabs, f \in Flights :
          \/ flights'[s][f] = flights[s][f]
          \/ /\ s = t /\ flights'[s][f].at # "answered"
             /\ flights'[s][f].tok \in {cookie, None}
    <2> DEFINE g == CHOOSE h \in Flights : TRUE
    <2>1. flights' = [flights EXCEPT ![t] = [h \in Flights |->
                     IF h = g THEN [at |-> "sent", tok |-> cookie, second |-> FALSE] ELSE NoFlight]]
      BY DEF Reload
    <2> HIDE DEF g
    <2>2. NoFlight.at = "none" /\ NoFlight.tok = None
      BY DEF NoFlight
    <2>q. QED
      BY <1>0, <2>1, <2>2 DEF RefreshTyped
  <1>4. \A s \in Tabs, j \in Jobs :
          \/ jobs'[s][j] = jobs[s][j]
          \/ s = t /\ jobs'[s][j].at # "served" /\ jobs'[s][j].call = "none"
    <2> DEFINE g == CHOOSE h \in Flights : TRUE
    <2>1. jobs' = [jobs EXCEPT ![t] = [j \in Jobs |->
                     IF j = "load" THEN [IdleJob EXCEPT !.at = "restore", !.on = g] ELSE IdleJob]]
      BY DEF Reload
    <2> HIDE DEF g
    <2>2. /\ [IdleJob EXCEPT !.at = "restore", !.on = g].at = "restore"
          /\ [IdleJob EXCEPT !.at = "restore", !.on = g].call = "none"
      BY DEF IdleJob
    <2>q. QED
      BY <1>0, <2>1, <2>2, IdleFields DEF JobsTyped
  <1>q. QED
    BY <1>1, <1>2, <1>3, <1>4, CalmStep
LEMMA FlightStepsCalm ==
  ASSUME Shape, NEW t \in Tabs, NEW f \in Flights,
         \/ Refused(t, f) \/ SecondAttempt(t, f) \/ Checked(t, f) \/ Overtaken(t, f)
         \/ RefreshLost(t, f)
  PROVE  Calm
  <1>0. TypeOK /\ BrowserTyped /\ RefreshTyped /\ JobsTyped
    BY TypeParts DEF Shape, Typed
  <1>f. flights[t][f] \in Flight
    BY <1>0 DEF RefreshTyped
  <1>1. CASE Refused(t, f)
    <2>1. /\ UNCHANGED <<owner, spent, cookie, left, lost>> /\ flights[t][f].at # "answered"
      BY <1>1 DEF Refused, CookieWhenRefused, KeepCookie, serverVars
    <2>2. CASE RefreshFails(t, f)
      BY <2>1, <2>2, FailureCalm
    <2>3. CASE /\ flights' = [flights EXCEPT ![t][f] =
                                [flights[t][f] EXCEPT !.at = "pause", !.tok = None]]
               /\ UNCHANGED jobs
      <3> DEFINE g == [flights[t][f] EXCEPT !.at = "pause", !.tok = None]
      <3>1. g.at = "pause"
        BY <1>f DEF Flight
      <3>2. flights' = [flights EXCEPT ![t][f] = g] /\ UNCHANGED jobs
        BY <2>3
      <3> HIDE DEF g
      <3>q. QED
        BY <2>1, <3>1, <3>2, FlightCalm
    <2>4. RefreshFails(t, f) \/ (flights' = [flights EXCEPT ![t][f] =
                                   [flights[t][f] EXCEPT !.at = "pause", !.tok = None]]
                                 /\ UNCHANGED jobs)
      BY <1>0, <1>1 DEF Refused, RefreshTyped
    <2>q. QED
      BY <2>2, <2>3, <2>4
  <1>2. CASE SecondAttempt(t, f)
    <2> DEFINE g == [at |-> "sent", tok |-> cookie, second |-> TRUE]
    <2>1. flights[t][f].at # "answered" /\ g.at = "sent" /\ g.tok = cookie
      BY <1>2 DEF SecondAttempt
    <2>2. /\ flights' = [flights EXCEPT ![t][f] = g]
          /\ UNCHANGED <<jobs, owner, spent, cookie, left, lost>>
      BY <1>2 DEF SecondAttempt, serverVars
    <2> HIDE DEF g
    <2>q. QED
      BY <2>1, <2>2, FlightCalm
  <1>3. CASE Checked(t, f)
    <2> DEFINE g == [flights[t][f] EXCEPT !.at = "checked"]
    <2>1. /\ flights[t][f].at = "sent" /\ g.at = "checked" /\ g.tok = flights[t][f].tok
      BY <1>f, <1>3 DEF Checked, Flight
    <2>2. /\ flights' = [flights EXCEPT ![t][f] = g]
          /\ UNCHANGED <<jobs, owner, spent, cookie, left, lost>>
      BY <1>0, <1>3 DEF Checked, serverVars, RefreshTyped
    <2> HIDE DEF g
    <2>q. QED
      BY <2>1, <2>2, FlightCalm
  <1>4. CASE Overtaken(t, f)
    BY <1>4, FailureCalm DEF Overtaken, serverVars
  <1>5. CASE RefreshLost(t, f)
    BY <1>5, FailureCalm DEF RefreshLost, serverVars
  <1>q. QED
    BY <1>1, <1>2, <1>3, <1>4, <1>5

LEMMA AnswerStepsCalm ==
  ASSUME Shape, NEW t \in Tabs, NEW j \in Jobs, Loaded(t, j) \/ CallLost(t, j)
  PROVE  Calm
  <1>1. CASE Loaded(t, j)
    <2>1. UNCHANGED <<owner, spent, cookie, left, lost>> /\ jobs[t][j].at # "served"
      BY <1>1 DEF Loaded, Flying, serverVars
    <2>2. CASE Unauthorized(t, j)
      BY <2>1, <2>2, UnauthorizedCalm
    <2>3. CASE jobs' = [jobs EXCEPT ![t][j] = IdleJob] /\ UNCHANGED flights
      BY <2>1, <2>3, IdleFields, JobCalm
    <2>q. QED
      BY <1>1, <2>2, <2>3 DEF Loaded
  <1>2. CASE CallLost(t, j)
    <2>1. /\ UNCHANGED <<owner, spent, cookie, left, flights>>
          /\ lost => lost' /\ (jobs[t][j].at # "served" \/ lost')
      BY <1>2 DEF CallLost, serverVars
    <2>q. QED
      BY <1>2, <2>1, EndCalm DEF CallLost
  <1>q. QED
    BY <1>1, <1>2

-----------------------------------------------------------------------------
(* The steps that bring or deliver an answer *)

\* The server answers the refresh f of the tab t, or its sign-in, with a new token.
LEMMA FirstAnswer ==
  ASSUME Shape, TokensSafe, Issuable # {},
         \A k \in Tokens : Granted(k)' => Granted(k) \/ k = NewToken,
         \A k \in Tokens : Held(k)' => Held(k),
         \A k \in Tokens \ {NewToken} : owner'[k] = owner[k],
         owner'[NewToken] # None,
         spent' \subseteq Tokens, \A k \in spent' : k \in spent \/ Held(k)
  PROVE  KnownTokens' /\ GrantsFresh' /\ ~Granted(NewToken)
  <1>0. ServerTyped /\ NewToken \in Tokens /\ owner[NewToken] = None
    BY TypeParts, NewTokenFree DEF Shape, Typed
  <1>1. ~Granted(NewToken) /\ ~Held(NewToken) /\ NewToken \notin spent
    BY <1>0 DEF TokensSafe, KnownTokens, GrantsFresh, Live
  <1>2. KnownTokens'
    BY <1>0, <1>1 DEF TokensSafe, KnownTokens
  <1>3. GrantsFresh'
    <2> SUFFICES ASSUME NEW k \in Tokens, Granted(k)' PROVE Live(k)' /\ ~Held(k)'
      BY DEF GrantsFresh
    <2>1. CASE k = NewToken
      BY <1>0, <1>1, <2>1 DEF Live
    <2>2. CASE k # NewToken
      <3>1. Live(k) /\ ~Held(k)
        BY <2>2 DEF TokensSafe, GrantsFresh
      <3>q. QED
        BY <2>2, <3>1 DEF Live
    <2>q. QED
      BY <2>1, <2>2
  <1>q. QED
    BY <1>1, <1>2, <1>3
LEMMA RotatedSafe ==
  ASSUME Shape, TokensSafe, NEW t \in Tabs, NEW f \in Flights, Rotated(t, f)
  PROVE  TokensSafe' /\ Follow'
  <1> DEFINE k0 == flights[t][f].tok
             new == NewToken
             g == [flights[t][f] EXCEPT !.at = "answered", !.tok = new]
  <1>0. TypeOK /\ ServerTyped /\ RefreshTyped /\ JobsTyped /\ Shape'
    BY TypeParts, FlightShape DEF Shape, Typed
  <1>1. /\ Issuable # {} /\ new \in Tokens
        /\ flights[t][f].at = "checked" /\ Live(k0)
        /\ owner' = [owner EXCEPT ![new] = owner[k0]]
        /\ spent' = spent \cup {k0} /\ UNCHANGED <<cookie, jobs>>
    BY NewTokenFree DEF Rotated
  <1>2. g.at = "answered" /\ g.tok = new
    BY <1>0 DEF RefreshTyped, Flight
  <1>3. \A s \in Tabs, h \in Flights :
          flights'[s][h] = IF s = t /\ h = f THEN g ELSE flights[s][h]
    BY <1>0 DEF Rotated, RefreshTyped
  <1> HIDE DEF k0, new, g
  <1>4. \A s \in Tabs, h \in Flights, k \in Tokens :
          AnswerOf(s, h, k)' <=> IF s = t /\ h = f THEN k = new ELSE AnswerOf(s, h, k)
    BY <1>2, <1>3 DEF AnswerOf
  <1>5. \A s \in Tabs, k \in Tokens : LoginOf(s, k)' <=> LoginOf(s, k)
    BY <1>1 DEF LoginOf
  <1>6. \A k \in Tokens : Granted(k)' => Granted(k) \/ k = new
    BY <1>4, <1>5 DEF Granted
  <1>7. Held(k0)
    BY <1>1 DEF Held, k0
  <1>8. \A k \in Tokens : Held(k)' => Held(k)
    BY <1>1, <1>2, <1>3 DEF Held
  <1>9. KnownTokens' /\ GrantsFresh' /\ ~Granted(new)
    <2>1. \A k \in Tokens \ {new} : owner'[k] = owner[k]
      BY <1>0, <1>1 DEF ServerTyped
    <2>2. owner'[new] # None
      BY <1>0, <1>1 DEF ServerTyped, Live
    <2>3. spent' \subseteq Tokens /\ \A k \in spent' : k \in spent \/ Held(k)
      BY <1>0, <1>1, <1>7 DEF ServerTyped, Live
    <2>q. QED
      BY <1>1, <1>6, <1>8, <2>1, <2>2, <2>3, FirstAnswer DEF new
  <1>10. GrantsApart'
    <2>1. \A s \in Tabs, h \in Flights : ~AnswerOf(s, h, new) /\ ~LoginOf(s, new)
      BY <1>9 DEF Granted
    <2> SUFFICES ASSUME NEW k \in Tokens
                 PROVE  /\ \A s, r \in Tabs, h, i \in Flights :
                             AnswerOf(s, h, k)' /\ AnswerOf(r, i, k)' => s = r /\ h = i
                        /\ \A s, r \in Tabs, h \in Flights : ~(AnswerOf(s, h, k)' /\ LoginOf(r, k)')
                        /\ \A s, r \in Tabs : LoginOf(s, k)' /\ LoginOf(r, k)' => s = r
      BY DEF GrantsApart
    <2>2. /\ \A s, r \in Tabs, h, i \in Flights :
               AnswerOf(s, h, k) /\ AnswerOf(r, i, k) => s = r /\ h = i
          /\ \A s, r \in Tabs, h \in Flights : ~(AnswerOf(s, h, k) /\ LoginOf(r, k))
          /\ \A s, r \in Tabs : LoginOf(s, k) /\ LoginOf(r, k) => s = r
      BY DEF TokensSafe, GrantsApart
    <2>3. CASE k = new
      BY <1>4, <1>5, <2>1, <2>3
    <2>4. CASE k # new
      BY <1>4, <1>5, <2>2, <2>4
    <2>q. QED
      BY <2>3, <2>4
  <1>11. Follow'
    <2>1. PICK k \in Tokens : k = new
      BY <1>1
    <2>2. AnswerOf(t, f, k)'
      BY <1>4, <2>1
    <2>3. Granted(k)'
      BY <2>2 DEF Granted
    <2>q. QED
      BY <2>3 DEF Follow
  <1>q. QED
    BY <1>9, <1>10, <1>11 DEF TokensSafe
\* The answer with the token k0 reaches the browser, which keeps it in the cookie.
LEMMA Delivered ==
  ASSUME Shape, TokensSafe, NEW k0 \in Tokens, Live(k0), cookie' = k0,
         UNCHANGED <<owner, spent>>,
         \A k \in Tokens : Granted(k)' => Granted(k) /\ k # k0,
         \A k \in Tokens : Held(k)' => Held(k) \/ k = k0
  PROVE  KnownTokens' /\ GrantsFresh' /\ Follow'
  <1>1. \A k : Live(k)' <=> Live(k)
    BY DEF Live
  <1>2. KnownTokens'
    <2>1. \A k \in spent' : owner'[k] # None
      BY DEF TokensSafe, KnownTokens
    <2>2. \A k \in Tokens : Held(k)' => owner'[k] # None
      BY DEF TokensSafe, KnownTokens, Live
    <2>q. QED
      BY <2>1, <2>2 DEF KnownTokens
  <1>3. GrantsFresh'
    BY <1>1 DEF TokensSafe, GrantsFresh
  <1>4. Follow'
    BY <1>1 DEF Follow
  <1>q. QED
    BY <1>2, <1>3, <1>4

LEMMA RefreshedSafe ==
  ASSUME Shape, TokensSafe, NEW t \in Tabs, NEW f \in Flights, Refreshed(t, f)
  PROVE  TokensSafe' /\ Follow'
  <1>0. TypeOK /\ RefreshTyped /\ JobsTyped /\ Typed
    BY TypeParts DEF Shape, Typed
  <1>1. PICK k0 \in Tokens : k0 = flights[t][f].tok
    BY <1>0, RefreshedJobs
  <1>2. /\ \A s \in Tabs, j \in Jobs : jobs'[s][j] =
             IF s = t /\ jobs[t][j].on = f THEN Resent(jobs[t][j], k0) ELSE jobs[s][j]
        /\ \A s \in Tabs, h \in Flights : flights'[s][h] =
             IF s = t /\ h = f THEN NoFlight ELSE flights[s][h]
    BY <1>0, <1>1, RefreshedJobs
  <1>3. cookie' = k0 /\ UNCHANGED <<owner, spent>> /\ AnswerOf(t, f, k0)
    BY <1>1 DEF Refreshed, serverVars, AnswerOf
  <1>4. \A j \in Jobs : jobs[t][j].on = f =>
          /\ Resent(jobs[t][j], k0).at \in {"sent", "again"}
          /\ Resent(jobs[t][j], k0).tok # None => Resent(jobs[t][j], k0).tok = k0
    BY <1>0, ResentTyped DEF JobsTyped
  <1>5. \A s \in Tabs, h \in Flights, k \in Tokens :
          AnswerOf(s, h, k)' => AnswerOf(s, h, k) /\ ~(s = t /\ h = f)
    BY <1>2 DEF AnswerOf, NoFlight
  <1>6. "form" \in Jobs /\ \A k \in Tokens : k # None
    BY SessionConstants DEF Jobs
  <1>7. \A s \in Tabs, k \in Tokens : LoginOf(s, k)' => LoginOf(s, k)
    BY <1>2, <1>4, <1>6 DEF LoginOf
  <1>8. \A k \in Tokens : Granted(k)' => Granted(k) /\ k # k0
    BY <1>3, <1>5, <1>7 DEF Granted, TokensSafe, GrantsApart
  <1>9. ASSUME NEW k \in Tokens, Held(k)' PROVE Held(k) \/ k = k0
    <2>1. CASE cookie' = k
      BY <1>3, <2>1
    <2>2. ASSUME NEW s \in Tabs, NEW h \in Flights,
                 flights'[s][h].at \in {"sent", "checked"} /\ flights'[s][h].tok = k
          PROVE  Held(k)
      BY <1>2, <2>2 DEF Held, NoFlight
    <2>3. ASSUME NEW s \in Tabs, NEW j \in Jobs, jobs'[s][j].call = "logout" /\ jobs'[s][j].tok = k
          PROVE  Held(k) \/ k = k0
      BY <1>2, <1>4, <1>6, <2>3 DEF Held
    <2>q. QED
      BY <1>9, <2>1, <2>2, <2>3 DEF Held
  <1>10. Live(k0)
    BY <1>3 DEF TokensSafe, GrantsFresh, Granted
  <1>11. KnownTokens' /\ GrantsFresh' /\ Follow'
    BY <1>3, <1>8, <1>9, <1>10, Delivered
  <1>12. GrantsApart'
    BY <1>5, <1>7 DEF TokensSafe, GrantsApart
  <1>q. QED
    BY <1>11, <1>12 DEF TokensSafe
LEMMA LoginSafe ==
  ASSUME Shape, TokensSafe, Follow, NEW t \in Tabs, LoginAnswered(t)
  PROVE  TokensSafe' /\ Follow'
  <1>0. TypeOK /\ ServerTyped /\ RefreshTyped /\ JobsTyped /\ Typed /\ AnswersKnown
    BY TypeParts DEF Shape, Typed
  <1>1. /\ "form" \in Jobs /\ jobs[t]["form"] \in Job /\ jobs[t]["form"].call = "login"
        /\ jobs[t]["form"].who \in Users /\ UNCHANGED lost
        /\ jobs[t]["form"].at = "served" => jobs[t]["form"].tok \in Tokens
    BY <1>0 DEF LoginAnswered, JobsTyped, AnswersKnown, Jobs
  <1>2. CASE /\ Flying(t, "form")
             /\ Issuable # {}
             /\ owner' = [owner EXCEPT ![NewToken] = jobs[t]["form"].who]
             /\ jobs' = [jobs EXCEPT ![t]["form"].at = "served", ![t]["form"].tok = NewToken]
             /\ KeepCookie
             /\ UNCHANGED <<spent, flights>>
    <2>1. PICK new \in Tokens : new = NewToken
      BY <1>2, NewTokenFree
    <2> DEFINE job == [jobs[t]["form"] EXCEPT !.at = "served", !.tok = new]
    <2>2. job.call = "login" /\ job.at = "served" /\ job.tok = new
      BY <1>1 DEF Job
    <2>3. \A s \in Tabs, j \in Jobs :
            jobs'[s][j] = IF s = t /\ j = "form" THEN job ELSE jobs[s][j]
      BY <1>0, <1>1, <1>2, <2>1 DEF JobsTyped, Job
    <2> HIDE DEF job
    <2>4. \A s \in Tabs, h \in Flights, k \in Tokens : AnswerOf(s, h, k)' <=> AnswerOf(s, h, k)
      BY <1>2 DEF AnswerOf
    <2>5. \A s \in Tabs, k \in Tokens :
            /\ s = t => (LoginOf(s, k)' <=> k = new)
            /\ s # t => (LoginOf(s, k)' <=> LoginOf(s, k))
      BY <1>1, <2>2, <2>3 DEF LoginOf
    <2>6. \A k \in Tokens : Granted(k)' => Granted(k) \/ k = new
      BY <2>4, <2>5 DEF Granted
    <2>7. ASSUME NEW k \in Tokens, Held(k)' PROVE Held(k)
      <3>1. \A s \in Tabs, j \in Jobs : jobs'[s][j].call = "logout" => jobs'[s][j] = jobs[s][j]
        BY <2>2, <2>3
      <3>2. ASSUME NEW s \in Tabs, NEW j \in Jobs, jobs'[s][j].call = "logout" /\ jobs'[s][j].tok = k
            PROVE  Held(k)
        BY <3>1, <3>2 DEF Held
      <3>3. ASSUME NEW s \in Tabs, NEW h \in Flights,
                   flights'[s][h].at \in {"sent", "checked"} /\ flights'[s][h].tok = k
            PROVE  Held(k)
        BY <1>2, <3>3 DEF Held
      <3>4. CASE cookie' = k
        BY <1>2, <3>4 DEF Held, KeepCookie
      <3>q. QED
        BY <2>7, <3>2, <3>3, <3>4 DEF Held
    <2>8. KnownTokens' /\ GrantsFresh' /\ ~Granted(new)
      <3>1. \A k \in Tokens \ {new} : owner'[k] = owner[k]
        BY <1>0, <1>2, <2>1 DEF ServerTyped
      <3>2. owner'[new] # None
        BY <1>0, <1>1, <1>2, <2>1, SessionConstants DEF ServerTyped
      <3>3. spent' \subseteq Tokens /\ \A k \in spent' : k \in spent
        BY <1>0, <1>2 DEF ServerTyped
      <3>q. QED
        BY <1>2, <2>1, <2>6, <2>7, <3>1, <3>2, <3>3, FirstAnswer
    <2>9. GrantsApart'
      <3>1. \A s \in Tabs : ~LoginOf(s, new) /\ \A h \in Flights : ~AnswerOf(s, h, new)
        BY <2>8 DEF Granted
      <3> SUFFICES ASSUME NEW k \in Tokens
                   PROVE  /\ \A s, r \in Tabs, h, i \in Flights :
                               AnswerOf(s, h, k)' /\ AnswerOf(r, i, k)' => s = r /\ h = i
                          /\ \A s, r \in Tabs, h \in Flights : ~(AnswerOf(s, h, k)' /\ LoginOf(r, k)')
                          /\ \A s, r \in Tabs : LoginOf(s, k)' /\ LoginOf(r, k)' => s = r
        BY DEF GrantsApart
      <3>2. /\ \A s, r \in Tabs, h, i \in Flights :
                 AnswerOf(s, h, k) /\ AnswerOf(r, i, k) => s = r /\ h = i
            /\ \A s, r \in Tabs, h \in Flights : ~(AnswerOf(s, h, k) /\ LoginOf(r, k))
            /\ \A s, r \in Tabs : LoginOf(s, k) /\ LoginOf(r, k) => s = r
        BY DEF TokensSafe, GrantsApart
      <3>3. CASE k = new
        <4>1. \A s \in Tabs, h \in Flights : ~AnswerOf(s, h, k)'
          BY <2>4, <3>1, <3>3
        <4>2. \A s \in Tabs : LoginOf(s, k)' => s = t
          BY <2>5, <3>1, <3>3
        <4>q. QED
          BY <4>1, <4>2
      <3>4. CASE k # new
        BY <2>4, <2>5, <3>2, <3>4
      <3>q. QED
        BY <3>3, <3>4
    <2>10. Follow'
      BY <2>5 DEF Follow, Granted
    <2>q. QED
      BY <2>8, <2>9, <2>10 DEF TokensSafe
  <1>3. CASE /\ jobs[t]["form"].at = "served"
             /\ cookie' = jobs[t]["form"].tok
             /\ jobs' = [jobs EXCEPT ![t]["form"] =
                  [Sent(t, "me") EXCEPT !.had = TRUE, !.bad = FALSE, !.who = jobs[t]["form"].who]]
             /\ UNCHANGED <<serverVars, flights>>
    <2>1. PICK k0 \in Tokens : k0 = jobs[t]["form"].tok
      BY <1>1, <1>3
    <2> DEFINE new == [Sent(t, "me") EXCEPT !.had = TRUE, !.bad = FALSE, !.who = jobs[t]["form"].who]
    <2>2. new.call = "me" /\ new.at = "sent"
      <3>1. Sent(t, "me") \in Job /\ Sent(t, "me").call = "me" /\ Sent(t, "me").at = "sent"
        BY <1>0, SentTyped DEF Calls
      <3>q. QED
        BY <3>1 DEF Job
    <2>3. \A s \in Tabs, j \in Jobs :
            jobs'[s][j] = IF s = t /\ j = "form" THEN new ELSE jobs[s][j]
      BY <1>0, <1>3 DEF JobsTyped
    <2> HIDE DEF new
    <2>4. \A s \in Tabs, h \in Flights, k \in Tokens : AnswerOf(s, h, k)' <=> AnswerOf(s, h, k)
      BY <1>3 DEF AnswerOf
    <2>5. \A s \in Tabs, k \in Tokens : LoginOf(s, k)' => LoginOf(s, k) /\ s # t
      BY <1>1, <2>2, <2>3 DEF LoginOf
    <2>6. LoginOf(t, k0)
      BY <1>1, <1>3, <2>1 DEF LoginOf
    <2>7. \A k \in Tokens : Granted(k)' => Granted(k) /\ k # k0
      BY <2>4, <2>5, <2>6 DEF Granted, TokensSafe, GrantsApart
    <2>8. ASSUME NEW k \in Tokens, Held(k)' PROVE Held(k) \/ k = k0
      <3>1. \A s \in Tabs, j \in Jobs : jobs'[s][j].call = "logout" => jobs'[s][j] = jobs[s][j]
        BY <2>2, <2>3
      <3>2. ASSUME NEW s \in Tabs, NEW j \in Jobs, jobs'[s][j].call = "logout" /\ jobs'[s][j].tok = k
            PROVE  Held(k)
        BY <3>1, <3>2 DEF Held
      <3>3. ASSUME NEW s \in Tabs, NEW h \in Flights,
                   flights'[s][h].at \in {"sent", "checked"} /\ flights'[s][h].tok = k
            PROVE  Held(k)
        BY <1>3, <3>3 DEF Held
      <3>4. CASE cookie' = k
        BY <1>3, <2>1, <3>4 DEF Held, KeepCookie
      <3>q. QED
        BY <2>8, <3>2, <3>3, <3>4 DEF Held
    <2>9. Live(k0)
      BY <2>6 DEF TokensSafe, GrantsFresh, Granted
    <2>10. KnownTokens' /\ GrantsFresh' /\ Follow'
      BY <1>3, <2>1, <2>7, <2>8, <2>9, Delivered DEF serverVars
    <2>11. GrantsApart'
      BY <2>4, <2>5 DEF TokensSafe, GrantsApart
    <2>q. QED
      BY <2>10, <2>11 DEF TokensSafe
  <1>4. CASE Unauthorized(t, "form") /\ Flying(t, "form") /\ KeepCookie /\ UNCHANGED serverVars
    <2>1. Calm
      BY <1>1, <1>4, UnauthorizedCalm DEF Flying, KeepCookie, serverVars
    <2>q. QED
      BY <2>1, CalmKeeps
  <1>q. QED
    BY <1>2, <1>3, <1>4 DEF LoginAnswered
LEMMA LogoutSafe ==
  ASSUME Shape, TokensSafe, Follow, NEW t \in Tabs, LogoutAnswered(t)
  PROVE  TokensSafe' /\ Follow'
  <1>0. TypeOK /\ ServerTyped /\ RefreshTyped /\ JobsTyped /\ Typed /\ AnswersKnown
    BY TypeParts DEF Shape, Typed
  <1>1. /\ "form" \in Jobs /\ jobs[t]["form"] \in Job /\ jobs[t]["form"].call = "logout"
        /\ UNCHANGED lost
    BY <1>0 DEF LogoutAnswered, JobsTyped, Jobs
  <1>2. CASE /\ jobs[t]["form"].tok # None
             /\ spent' = spent \cup {jobs[t]["form"].tok}
             /\ jobs' = [jobs EXCEPT ![t]["form"].at = "served"]
             /\ KeepCookie
             /\ UNCHANGED <<owner, flights>>
    <2>1. PICK k0 \in Tokens : k0 = jobs[t]["form"].tok
      BY <1>1, <1>2 DEF Job
    <2> DEFINE job == [jobs[t]["form"] EXCEPT !.at = "served"]
    <2>2. job.call = "logout" /\ job.at = "served" /\ job.tok = k0
      BY <1>1, <2>1 DEF Job
    <2>3. \A s \in Tabs, j \in Jobs :
            jobs'[s][j] = IF s = t /\ j = "form" THEN job ELSE jobs[s][j]
      BY <1>0, <1>1, <1>2 DEF JobsTyped, Job
    <2> HIDE DEF job
    <2>4. \A s \in Tabs, h \in Flights, k \in Tokens : AnswerOf(s, h, k)' <=> AnswerOf(s, h, k)
      BY <1>2 DEF AnswerOf
    <2>5. \A s \in Tabs, k \in Tokens : LoginOf(s, k)' => LoginOf(s, k)
      BY <1>1, <2>2, <2>3 DEF LoginOf
    <2>6. \A k \in Tokens : Granted(k)' => Granted(k)
      BY <2>4, <2>5 DEF Granted
    <2>7. Held(k0)
      BY <1>1, <2>1 DEF Held
    <2>8. ASSUME NEW k \in Tokens, Held(k)' PROVE Held(k)
      <3>1. \A s \in Tabs, j \in Jobs : jobs'[s][j].call = "logout" =>
              jobs[s][j].call = "logout" /\ jobs'[s][j].tok = jobs[s][j].tok
        BY <1>1, <2>1, <2>2, <2>3
      <3>2. ASSUME NEW s \in Tabs, NEW j \in Jobs, jobs'[s][j].call = "logout" /\ jobs'[s][j].tok = k
            PROVE  Held(k)
        BY <3>1, <3>2 DEF Held
      <3>3. ASSUME NEW s \in Tabs, NEW h \in Flights,
                   flights'[s][h].at \in {"sent", "checked"} /\ flights'[s][h].tok = k
            PROVE  Held(k)
        BY <1>2, <3>3 DEF Held
      <3>4. CASE cookie' = k
        BY <1>2, <3>4 DEF Held, KeepCookie
      <3>q. QED
        BY <2>8, <3>2, <3>3, <3>4 DEF Held
    <2>9. KnownTokens'
      <3>1. \A k \in spent' : owner'[k] # None
        BY <1>2, <2>1, <2>7 DEF TokensSafe, KnownTokens
      <3>2. \A k \in Tokens : Held(k)' => owner'[k] # None
        BY <1>2, <2>8 DEF TokensSafe, KnownTokens
      <3>q. QED
        BY <3>1, <3>2 DEF KnownTokens
    <2>10. GrantsFresh'
      <3> SUFFICES ASSUME NEW k \in Tokens, Granted(k)' PROVE Live(k)' /\ ~Held(k)'
        BY DEF GrantsFresh
      <3>1. Live(k) /\ ~Held(k)
        BY <2>6 DEF TokensSafe, GrantsFresh
      <3>q. QED
        BY <1>2, <2>1, <2>7, <2>8, <3>1 DEF Live
    <2>11. GrantsApart'
      BY <2>4, <2>5 DEF TokensSafe, GrantsApart
    <2>12. Follow'
      <3>1. LogoutServed(t)'
        BY <1>1, <2>2, <2>3 DEF LogoutServed
      <3>q. QED
        BY <3>1 DEF Follow
    <2>q. QED
      BY <2>9, <2>10, <2>11, <2>12 DEF TokensSafe
  <1>3. CASE /\ cookie' = None /\ left' = TRUE
             /\ EndJob(t, "form", "logout")
             /\ UNCHANGED <<serverVars, flights>>
    <2>1. \A s \in Tabs, j \in Jobs :
            jobs'[s][j] = IF s = t /\ j = "form" THEN IdleJob ELSE jobs[s][j]
      BY <1>0, <1>3 DEF EndJob, JobsTyped
    <2>2. UNCHANGED <<owner, spent>> /\ \A k \in Tokens : k # None
      BY <1>3, SessionConstants DEF serverVars
    <2>3. \A s \in Tabs, h \in Flights, k \in Tokens : AnswerOf(s, h, k)' <=> AnswerOf(s, h, k)
      BY <1>3 DEF AnswerOf
    <2>4. \A s \in Tabs, k \in Tokens : LoginOf(s, k)' => LoginOf(s, k)
      BY <1>1, <2>1, IdleFields DEF LoginOf
    <2>5. \A k \in Tokens : Granted(k)' => Granted(k)
      BY <2>3, <2>4 DEF Granted
    <2>6. ASSUME NEW k \in Tokens, Held(k)' PROVE Held(k)
      <3>1. \A s \in Tabs, j \in Jobs : jobs'[s][j].call = "logout" => jobs'[s][j] = jobs[s][j]
        BY <2>1, IdleFields
      <3>2. ASSUME NEW s \in Tabs, NEW j \in Jobs, jobs'[s][j].call = "logout" /\ jobs'[s][j].tok = k
            PROVE  Held(k)
        BY <3>1, <3>2 DEF Held
      <3>3. ASSUME NEW s \in Tabs, NEW h \in Flights,
                   flights'[s][h].at \in {"sent", "checked"} /\ flights'[s][h].tok = k
            PROVE  Held(k)
        BY <1>3, <3>3 DEF Held
      <3>q. QED
        BY <1>3, <2>2, <2>6, <3>2, <3>3 DEF Held
    <2>7. \A k : Live(k)' <=> Live(k)
      BY <2>2 DEF Live
    <2>8. KnownTokens'
      BY <2>2, <2>6 DEF TokensSafe, KnownTokens
    <2>9. GrantsFresh'
      BY <2>5, <2>6, <2>7 DEF TokensSafe, GrantsFresh
    <2>10. GrantsApart'
      BY <2>3, <2>4 DEF TokensSafe, GrantsApart
    <2>11. Follow'
      BY <1>3 DEF Follow
    <2>q. QED
      BY <2>8, <2>9, <2>10, <2>11 DEF TokensSafe
  <1>4. CASE Unauthorized(t, "form") /\ Flying(t, "form") /\ KeepCookie /\ UNCHANGED serverVars
    <2>1. Calm
      BY <1>1, <1>4, UnauthorizedCalm DEF Flying, KeepCookie, serverVars
    <2>q. QED
      BY <2>1, CalmKeeps
  <1>q. QED
    BY <1>2, <1>3, <1>4 DEF LogoutAnswered

LEMMA SessionStep ==
  ASSUME SessionInvariant, [Next]_vars
  PROVE  SessionInvariant'
  <1>0. Shape /\ TokensSafe /\ Follow
    BY DEF SessionInvariant
  <1>1. CASE Next
    <2> SUFFICES TokensSafe' /\ Follow'
      BY ShapeStep DEF SessionInvariant
    <2>1. PICK t \in Tabs :
             \/ \E u \in Users : StartLogin(t, u)
             \/ StartLogout(t) \/ RequestData(t) \/ Reload(t) \/ Expire(t)
             \/ \E f \in Flights : RefreshStep(t, f) \/ RefreshLost(t, f)
             \/ Answer(t)
             \/ \E j \in Jobs : CallLost(t, j)
      BY <1>1 DEF Next
    <2>2. CASE (\E u \in Users : StartLogin(t, u)) \/ StartLogout(t) \/ RequestData(t) \/ Expire(t)
      BY <1>0, <2>2, UserCalm, CalmKeeps
    <2>3. CASE Reload(t)
      BY <1>0, <2>3, ReloadCalm, CalmKeeps
    <2>4. ASSUME NEW f \in Flights, RefreshStep(t, f) \/ RefreshLost(t, f)
          PROVE  TokensSafe' /\ Follow'
      <3>1. CASE \/ Refused(t, f) \/ SecondAttempt(t, f) \/ Checked(t, f) \/ Overtaken(t, f)
                 \/ RefreshLost(t, f)
        BY <1>0, <3>1, FlightStepsCalm, CalmKeeps
      <3>2. CASE Rotated(t, f)
        BY <1>0, <3>2, RotatedSafe
      <3>3. CASE Refreshed(t, f)
        BY <1>0, <3>3, RefreshedSafe
      <3>q. QED
        BY <2>4, <3>1, <3>2, <3>3 DEF RefreshStep
    <2>5. CASE Answer(t)
      <3>1. ASSUME NEW j \in Jobs, Loaded(t, j) PROVE TokensSafe' /\ Follow'
        BY <1>0, <3>1, AnswerStepsCalm, CalmKeeps
      <3>q. QED
        BY <1>0, <2>5, <3>1, LoginSafe, LogoutSafe DEF Answer
    <2>6. ASSUME NEW j \in Jobs, CallLost(t, j) PROVE TokensSafe' /\ Follow'
      BY <1>0, <2>6, AnswerStepsCalm, CalmKeeps
    <2>q. QED
      BY <2>1, <2>2, <2>3, <2>4, <2>5, <2>6
  <1>2. CASE UNCHANGED vars
    <2>1. Calm
      BY <1>0, <1>2, CalmStep DEF vars
    <2>q. QED
      BY <1>0, <2>1, CalmKeeps, ShapeStep DEF SessionInvariant
  <1>q. QED
    BY <1>1, <1>2

LEMMA SessionInit == Init => SessionInvariant
  <1> SUFFICES ASSUME Init PROVE SessionInvariant
    OBVIOUS
  <1>0. Shape
    BY ShapeInit
  <1> DEFINE f == CHOOSE g \in Flights : TRUE
  <1>1. /\ flights = [t \in Tabs |-> [g \in Flights |->
             IF g = f THEN [at |-> "sent", tok |-> First, second |-> FALSE] ELSE NoFlight]]
        /\ jobs = [t \in Tabs |-> [j \in Jobs |->
             IF j = "load" THEN [IdleJob EXCEPT !.at = "restore", !.on = f] ELSE IdleJob]]
    BY DEF Init
  <1> HIDE DEF f
  <1>2. \A t \in Tabs, g \in Flights :
          /\ flights[t][g].at # "answered"
          /\ flights[t][g].at \in {"sent", "checked"} => flights[t][g].tok = First
    BY <1>1 DEF NoFlight
  <1>3. \A t \in Tabs, j \in Jobs : jobs[t][j].call = "none"
    <2>1. [IdleJob EXCEPT !.at = "restore", !.on = f].call = "none"
      BY DEF IdleJob
    <2>q. QED
      BY <1>1, <2>1, IdleFields
  <1>4. \A k \in Tokens : ~Granted(k)
    BY <1>2, <1>3 DEF Granted, AnswerOf, LoginOf, Jobs
  <1>5. \A k \in Tokens : Held(k) => k = First
    BY <1>2, <1>3 DEF Held, Init
  <1>6. First \in Tokens => owner[First] # None
    BY SessionConstants DEF Init
  <1>7. KnownTokens
    BY <1>5, <1>6 DEF KnownTokens, Init
  <1>8. GrantsFresh /\ GrantsApart
    <2>1. \A k \in Tokens, t \in Tabs : ~LoginOf(t, k) /\ \A g \in Flights : ~AnswerOf(t, g, k)
      BY <1>4 DEF Granted
    <2>q. QED
      BY <1>4, <2>1 DEF GrantsFresh, GrantsApart
  <1>9. Follow
    BY <1>6, SessionConstants DEF Follow, Init, Live
  <1>q. QED
    BY <1>0, <1>7, <1>8, <1>9 DEF SessionInvariant, TokensSafe

\* When nothing is in flight, the invariant leaves the cookie as the one place of the token.
LEMMA CookieFromInvariant ==
  ASSUME SessionInvariant
  PROVE  CookieWorks
  <1> SUFFICES ASSUME Quiet, ~lost, ~left PROVE Live(cookie)
    BY DEF CookieWorks
  <1>1. \A t \in Tabs, f \in Flights : flights[t][f].at = "none"
    BY DEF Quiet, Running
  <1>2. \A t \in Tabs : jobs[t]["form"].at = "idle"
    BY IdleFields DEF Quiet
  <1>3. \A k \in Tokens : ~Granted(k)
    BY <1>1, <1>2 DEF Granted, AnswerOf, LoginOf
  <1>4. \A t \in Tabs : ~LogoutServed(t)
    BY <1>2 DEF LogoutServed
  <1>q. QED
    BY <1>3, <1>4 DEF SessionInvariant, Follow

\* However many tabs refresh at once, sign in and sign out, and whichever requests fail: with
\* nothing in flight the refresh cookie works, unless an answer with its Set-Cookie was lost
\* or the last change was a sign-out (refreshAccessToken; Refresh and Logout of the API).
THEOREM CookieStaysUsable == Spec => []CookieWorks
  <1>1. SessionInvariant /\ [Next]_vars => SessionInvariant'
    BY SessionStep
  <1>2. SessionInvariant => CookieWorks
    BY CookieFromInvariant
  <1>q. QED
    BY <1>1, <1>2, SessionInit, PTL DEF Spec
-----------------------------------------------------------------------------
(* One tab that nobody signs in or out from keeps its session.  The run refresh_loser shows *)
(* that two tabs may lose theirs: that takes the second tab.                                *)

Alone == FormTabs = {} /\ \A s, t \in Tabs : s = t

\* The page load and the requests of the tab never end it, and the form is not used.
QuietJobs(t) ==
    /\ jobs[t]["form"].call = "none" /\ jobs[t]["form"].on = None
    /\ jobs[t]["data"].call \in {"none", "data"} /\ jobs[t]["data"].at # "restore"
    /\ jobs[t]["load"].call \in {"none", "me"}
    /\ Flying(t, "load") => ~jobs[t]["load"].bad

\* The refresh in progress carries the cookie, and only without a cookie is it refused.
OwnRefresh(t) ==
    /\ ~orphaned[t]
    /\ \A f \in Flights :
         /\ flights[t][f].at \in {"sent", "checked"} => flights[t][f].tok = cookie
         /\ flights[t][f].at = "pause" \/ (flights[t][f].second /\ flights[t][f].at # "none")
              => cookie = None

\* The cookie works or is about to be replaced; without one nobody was signed in.
OwnCookie(t) ==
    /\ cookie = None => access[t] = None
    /\ cookie # None => Live(cookie) \/ \E f \in Flights : flights[t][f].at = "answered"

Kept(t) == QuietJobs(t) /\ OwnRefresh(t) /\ OwnCookie(t)

\* The tab stays signed in.
StaysIn(t) == access[t] # None => access'[t] # None

LEMMA OnlyOneRuns ==
  ASSUME Shape, NEW t \in Tabs, ~orphaned[t], NEW f \in Flights, NEW g \in Flights,
         flights[t][f].at # "none", flights[t][g].at # "none"
  PROVE  f = g
  BY DEF Shape, OneRefresh, Running

\* A refresh that fails takes no session, where there is no cookie.
LEMMA FailureKeeps ==
  ASSUME Shape, NEW t \in Tabs, Kept(t), cookie = None, UNCHANGED <<serverVars, cookie>>,
         NEW f \in Flights, flights[t][f].at # "none", RefreshFails(t, f)
  PROVE  Kept(t)' /\ StaysIn(t)
  <1>0. /\ Typed /\ TypeOK /\ RefreshTyped /\ JobsTyped /\ TabsTyped
        /\ QuietJobs(t) /\ OwnRefresh(t) /\ OwnCookie(t)
    BY TypeParts DEF Shape, Typed, Kept
  <1>1. Running(t) = {f}
    BY <1>0, OnlyOneRuns DEF OwnRefresh, Running
  <1>2. ~orphaned'[t]
    BY <1>0, <1>1 DEF RefreshFails, StillOrphaned, OwnRefresh, RefreshTyped
  <1>3. \A g \in Flights : flights'[t][g] = NoFlight \/ flights'[t][g] = flights[t][g]
    BY <1>0 DEF RefreshFails, RefreshTyped
  <1>4. OwnRefresh(t)'
    BY <1>0, <1>2, <1>3 DEF OwnRefresh, NoFlight
  <1>5. access'[t] = None
    BY <1>0 DEF RefreshFails, ClearTokens, KeepTokens, OwnCookie, TabsTyped
  <1>6. OwnCookie(t)'
    BY <1>5 DEF OwnCookie
  <1>7. \A j \in Jobs : jobs'[t][j] = IdleJob \/ jobs'[t][j] = jobs[t][j]
    BY <1>0 DEF RefreshFails, JobsTyped
  <1>8. QuietJobs(t)'
    BY <1>0, <1>7 DEF QuietJobs, IdleJob, Flying, Jobs
  <1>q. QED
    BY <1>0, <1>4, <1>5, <1>6, <1>8 DEF Kept, StaysIn, OwnCookie

\* What a refresh that the server has not answered says of the cookie
LEMMA UnansweredCookie ==
  ASSUME Shape, NEW t \in Tabs, Kept(t), NEW f \in Flights,
         flights[t][f].at \in {"sent", "checked"}
  PROVE  flights[t][f].tok = cookie /\ (cookie # None => Live(cookie))
  <1>1. OwnRefresh(t) /\ OwnCookie(t)
    BY DEF Kept
  <1>2. \A g \in Flights : flights[t][g].at # "answered"
    BY <1>1, OnlyOneRuns DEF OwnRefresh
  <1>q. QED
    BY <1>1, <1>2 DEF OwnRefresh, OwnCookie

LEMMA UnansweredKeeps ==
  ASSUME Shape, NEW t \in Tabs, Kept(t), Issuable # {}, NEW f \in Flights,
         Refused(t, f) \/ SecondAttempt(t, f) \/ Checked(t, f) \/ Overtaken(t, f)
  PROVE  Kept(t)' /\ StaysIn(t)
  <1>0. /\ Typed /\ TypeOK /\ RefreshTyped /\ JobsTyped /\ TabsTyped
        /\ QuietJobs(t) /\ OwnRefresh(t) /\ OwnCookie(t)
    BY TypeParts DEF Shape, Typed, Kept
  <1>1. UNCHANGED <<serverVars, cookie>>
    BY DEF Refused, SecondAttempt, Checked, Overtaken, CookieWhenRefused, KeepCookie
  <1>2. ASSUME UNCHANGED <<access, jobs, orphaned>>, flights'[t][f].at # "none",
               flights[t][f].at # "answered",
               flights'[t][f].at # "answered",
               \A g \in Flights \ {f} : flights'[t][g] = flights[t][g],
               flights'[t][f].at \in {"sent", "checked"} => flights'[t][f].tok = cookie,
               flights'[t][f].at = "pause" \/ flights'[t][f].second => cookie = None
        PROVE  Kept(t)' /\ StaysIn(t)
    <2>1. QuietJobs(t)'
      BY <1>0, <1>2 DEF QuietJobs, Flying
    <2>2. OwnRefresh(t)'
      BY <1>0, <1>1, <1>2 DEF OwnRefresh
    <2>3. \A k : Live(k)' <=> Live(k)
      BY <1>1 DEF Live, serverVars
    <2>4. (\E g \in Flights : flights[t][g].at = "answered")
            => \E g \in Flights : flights'[t][g].at = "answered"
      BY <1>2
    <2>5. OwnCookie(t)'
      BY <1>0, <1>1, <1>2, <2>3, <2>4 DEF OwnCookie
    <2>q. QED
      BY <1>2, <2>1, <2>2, <2>5 DEF Kept, StaysIn
  <1>3. CASE Refused(t, f)
    <2>1. cookie = None
      BY <1>3, UnansweredCookie DEF Refused
    <2>2. CASE flights[t][f].second
      BY <1>1, <1>3, <2>1, <2>2, FailureKeeps DEF Refused
    <2>3. CASE ~flights[t][f].second
      <3>1. \A g \in Flight : /\ [g EXCEPT !.at = "pause", !.tok = None].at = "pause"
                              /\ [g EXCEPT !.at = "pause", !.tok = None].second = g.second
        BY DEF Flight
      <3>2. /\ flights'[t][f] = [flights[t][f] EXCEPT !.at = "pause", !.tok = None]
            /\ \A g \in Flights \ {f} : flights'[t][g] = flights[t][g]
            /\ UNCHANGED <<access, jobs, orphaned>>
        BY <1>0, <1>3, <2>3 DEF Refused, KeepTokens, RefreshTyped
      <3>3. flights[t][f] \in Flight
        BY <1>0 DEF RefreshTyped
      <3>4. flights'[t][f].at = "pause"
        BY <3>1, <3>2, <3>3
      <3>5. flights[t][f].at = "sent"
        BY <1>3 DEF Refused
      <3>q. QED
        BY <1>2, <2>1, <3>2, <3>4, <3>5
    <2>q. QED
      BY <2>2, <2>3
  <1>4. CASE SecondAttempt(t, f)
    <2>1. /\ flights'[t][f] = [at |-> "sent", tok |-> cookie, second |-> TRUE]
          /\ \A g \in Flights \ {f} : flights'[t][g] = flights[t][g]
          /\ UNCHANGED <<access, jobs, orphaned>> /\ flights[t][f].at = "pause"
      BY <1>0, <1>4 DEF SecondAttempt, RefreshTyped
    <2>2. cookie = None
      BY <1>0, <2>1 DEF OwnRefresh
    <2>q. QED
      BY <1>2, <2>1, <2>2
  <1>5. CASE Checked(t, f)
    <2>1. \A g \in Flight : /\ [g EXCEPT !.at = "checked"].at = "checked"
                            /\ [g EXCEPT !.at = "checked"].tok = g.tok
                            /\ [g EXCEPT !.at = "checked"].second = g.second
      BY DEF Flight
    <2>2. flights[t][f] \in Flight
      BY <1>0 DEF RefreshTyped
    <2>3. /\ flights'[t][f] = [flights[t][f] EXCEPT !.at = "checked"]
          /\ \A g \in Flights \ {f} : flights'[t][g] = flights[t][g]
          /\ UNCHANGED <<access, jobs, orphaned>> /\ flights[t][f].at = "sent"
      BY <1>0, <1>5 DEF Checked, RefreshTyped
    <2>4. /\ flights'[t][f].at = "checked" /\ flights'[t][f].tok = flights[t][f].tok
          /\ flights'[t][f].second = flights[t][f].second
      BY <2>1, <2>2, <2>3
    <2>5. flights[t][f].tok = cookie /\ (flights[t][f].second => cookie = None)
      BY <1>0, <2>3 DEF OwnRefresh
    <2>q. QED
      BY <1>2, <2>3, <2>4, <2>5
  <1>6. CASE Overtaken(t, f)
    <2>1. cookie = None
      BY <1>6, UnansweredCookie DEF Overtaken
    <2>q. QED
      BY <1>1, <1>6, <2>1, FailureKeeps DEF Overtaken
  <1>q. QED
    BY <1>3, <1>4, <1>5, <1>6

LEMMA RotatedKeeps ==
  ASSUME Shape, NEW t \in Tabs, Kept(t), NEW f \in Flights, Rotated(t, f)
  PROVE  Kept(t)' /\ StaysIn(t)
  <1>0. RefreshTyped /\ QuietJobs(t) /\ OwnRefresh(t) /\ OwnCookie(t)
    BY TypeParts DEF Shape, Typed, Kept
  <1>1. \A g \in Flight : /\ [g EXCEPT !.at = "answered", !.tok = NewToken].at = "answered"
                          /\ [g EXCEPT !.at = "answered", !.tok = NewToken].second = g.second
    BY DEF Flight
  <1>2. /\ flights'[t][f] = [flights[t][f] EXCEPT !.at = "answered", !.tok = NewToken]
        /\ \A g \in Flights \ {f} : flights'[t][g] = flights[t][g]
        /\ UNCHANGED <<cookie, access, jobs, orphaned>>
    BY <1>0 DEF Rotated, RefreshTyped
  <1>3. flights[t][f] \in Flight
    BY <1>0 DEF RefreshTyped
  <1>4. /\ flights'[t][f].at = "answered" /\ flights'[t][f].second = flights[t][f].second
        /\ flights[t][f].at = "checked"
    BY <1>1, <1>2, <1>3 DEF Rotated
  <1>5. QuietJobs(t)'
    BY <1>0, <1>2 DEF QuietJobs, Flying
  <1>6. OwnRefresh(t)'
    BY <1>0, <1>2, <1>4 DEF OwnRefresh
  <1>7. OwnCookie(t)'
    BY <1>0, <1>2, <1>4 DEF OwnCookie
  <1>q. QED
    BY <1>2, <1>5, <1>6, <1>7 DEF Kept, StaysIn

\* The answer to a refresh brings a token that works, of the user who is signed in.
LEMMA RefreshedKeeps ==
  ASSUME SessionInvariant, NEW t \in Tabs, Kept(t), NEW f \in Flights, Refreshed(t, f)
  PROVE  Kept(t)' /\ StaysIn(t)
  <1>0. /\ Shape /\ Typed /\ TypeOK /\ AnswersKnown /\ RefreshTyped /\ JobsTyped /\ TabsTyped
        /\ TokensSafe /\ QuietJobs(t) /\ OwnRefresh(t) /\ OwnCookie(t)
    BY TypeParts DEF SessionInvariant, Shape, Typed, Kept
  <1> DEFINE k == flights[t][f].tok
  <1>1. k \in Tokens /\ flights[t][f].at = "answered"
    BY <1>0 DEF Refreshed, AnswersKnown
  <1>2. Live(k)
    BY <1>0, <1>1 DEF TokensSafe, GrantsFresh, Granted, AnswerOf
  <1>3. owner[k] # None /\ k # None
    BY <1>1, <1>2, SessionConstants DEF Live
  <1>4. /\ cookie' = k /\ access'[t] = owner[k] /\ UNCHANGED serverVars
        /\ StillOrphaned(t, f)
        /\ flights' = [flights EXCEPT ![t][f] = NoFlight]
    BY <1>0 DEF Refreshed, SetTokens, TabsTyped
  <1>5. \A g \in Flights : flights'[t][g].at = "none"
    <2>1. flights'[t][f] = NoFlight
      BY <1>0, <1>4 DEF RefreshTyped
    <2>2. ASSUME NEW g \in Flights \ {f} PROVE flights'[t][g].at = "none"
      BY <1>0, <1>1, <1>4, OnlyOneRuns DEF RefreshTyped, OwnRefresh
    <2>q. QED
      BY <2>1, <2>2 DEF NoFlight
  <1>6. OwnRefresh(t)'
    BY <1>0, <1>4, <1>5 DEF OwnRefresh, StillOrphaned, RefreshTyped
  <1>7. OwnCookie(t)'
    BY <1>2, <1>3, <1>4 DEF OwnCookie, Live, serverVars
  <1>8. QuietJobs(t)'
    <2>1. \A j \in Jobs : jobs'[t][j] = IF jobs[t][j].on = f THEN Resent(jobs[t][j], k)
                                       ELSE jobs[t][j]
      BY <1>0, RefreshedJobs
    <2>2. \A job \in Job : /\ Resent(job, k).call = IF job.at = "restore" THEN "me" ELSE job.call
                          /\ Resent(job, k).at # "restore" /\ ~Resent(job, k).bad
      BY DEF Resent
    <2>3. /\ "form" \in Jobs /\ "data" \in Jobs /\ "load" \in Jobs
          /\ \A j \in Jobs : jobs[t][j] \in Job
      BY <1>0 DEF JobsTyped, Jobs
    <2>4. jobs'[t]["form"] = jobs[t]["form"]
      BY <1>0, <2>1, <2>3, SessionConstants DEF QuietJobs
    <2>5. jobs'[t]["data"].call \in {"none", "data"} /\ jobs'[t]["data"].at # "restore"
      BY <1>0, <2>1, <2>2, <2>3 DEF QuietJobs
    <2>6. jobs'[t]["load"].call \in {"none", "me"} /\ (Flying(t, "load")' => ~jobs'[t]["load"].bad)
      BY <1>0, <2>1, <2>2, <2>3 DEF QuietJobs, Flying
    <2>q. QED
      BY <1>0, <2>4, <2>5, <2>6 DEF QuietJobs
  <1>q. QED
    BY <1>3, <1>4, <1>6, <1>7, <1>8 DEF Kept, StaysIn
\* A request and an expiry leave the refresh and the cookie alone.
LEMMA PageKeeps ==
  ASSUME Shape, NEW t \in Tabs, Kept(t), RequestData(t) \/ Expire(t)
  PROVE  Kept(t)' /\ StaysIn(t)
  <1>0. TypeOK /\ JobsTyped /\ QuietJobs(t) /\ OwnRefresh(t) /\ OwnCookie(t)
    BY TypeParts DEF Shape, Typed, Kept
  <1>1. UNCHANGED <<owner, spent, cookie, access, flights, orphaned>>
    BY DEF RequestData, Expire, serverVars
  <1>2. OwnRefresh(t)' /\ OwnCookie(t)'
    BY <1>0, <1>1 DEF OwnRefresh, OwnCookie, Live
  <1>3. QuietJobs(t)'
    <2>1. /\ jobs'[t]["load"] = jobs[t]["load"] /\ jobs'[t]["form"] = jobs[t]["form"]
          /\ jobs'[t]["data"] = jobs[t]["data"] \/ jobs'[t]["data"] = Sent(t, "data")
      BY <1>0 DEF RequestData, Expire, JobsTyped, Jobs
    <2>2. Sent(t, "data").call = "data" /\ Sent(t, "data").at = "sent"
      BY DEF Sent
    <2>q. QED
      BY <1>0, <2>1, <2>2 DEF QuietJobs, Flying
  <1>q. QED
    BY <1>1, <1>2, <1>3 DEF Kept, StaysIn

\* A request that joins the refresh of its tab finds it, or starts one with the cookie.
LEMMA JoiningKeeps ==
  ASSUME Shape, NEW t \in Tabs, OwnRefresh(t), OwnCookie(t), NEW f \in Joined(t),
         Refreshing(t, f), UNCHANGED <<owner, spent, cookie, access, orphaned>>
  PROVE  OwnRefresh(t)' /\ OwnCookie(t)'
  <1>0. TypeOK /\ RefreshTyped
    BY TypeParts DEF Shape, Typed
  <1>1. f \in Flights
    BY <1>0, JoinedFlight DEF Shape
  <1>2. \/ UNCHANGED flights
        \/ /\ flights[t][f].at = "none"
           /\ flights'[t][f] = [at |-> "sent", tok |-> cookie, second |-> FALSE]
           /\ \A g \in Flights \ {f} : flights'[t][g] = flights[t][g]
    BY <1>0, <1>1, RunningIs DEF Refreshing, RefreshTyped
  <1>3. OwnRefresh(t)'
    BY <1>2 DEF OwnRefresh
  <1>4. (\E g \in Flights : flights[t][g].at = "answered")
          => \E g \in Flights : flights'[t][g].at = "answered"
    BY <1>2
  <1>q. QED
    BY <1>3, <1>4 DEF OwnCookie, Live

LEMMA AnswerKeeps ==
  ASSUME Shape, NEW t \in Tabs, Kept(t), Answer(t)
  PROVE  Kept(t)' /\ StaysIn(t)
  <1>0. TypeOK /\ JobsTyped /\ QuietJobs(t) /\ OwnRefresh(t) /\ OwnCookie(t)
    BY TypeParts DEF Shape, Typed, Kept
  <1>1. PICK j \in Jobs : Loaded(t, j)
    BY <1>0 DEF Answer, LoginAnswered, LogoutAnswered, QuietJobs
  <1>2. /\ j # "form" /\ UNCHANGED <<owner, spent, cookie>>
        /\ jobs[t][j].call # "logout" /\ (j = "load" => ~jobs[t][j].bad)
    BY <1>0, <1>1 DEF Loaded, QuietJobs, serverVars
  <1>3. UNCHANGED access /\ OwnRefresh(t)' /\ OwnCookie(t)'
    <2>1. CASE UNCHANGED <<access, flights, orphaned>>
      BY <1>0, <1>2, <2>1 DEF OwnRefresh, OwnCookie, Live
    <2>2. CASE \E f \in Joined(t) : Refreshing(t, f) /\ UNCHANGED <<access, orphaned>>
      BY <1>0, <1>2, <2>2, JoiningKeeps
    <2>q. QED
      BY <1>1, <1>2, <2>1, <2>2 DEF Loaded, Unauthorized, EndJob, KeepTokens, Jobs
  <1>4. /\ \A i \in Jobs \ {j} : jobs'[t][i] = jobs[t][i]
        /\ \/ jobs'[t][j] = IdleJob
           \/ j # "load" /\ \E f : jobs'[t][j] =
                [jobs[t][j] EXCEPT !.at = "joined", !.on = f, !.bad = FALSE]
    <2>1. CASE jobs' = [jobs EXCEPT ![t][j] = IdleJob]
      BY <1>0, <2>1 DEF JobsTyped
    <2>2. CASE j # "load" /\ \E f \in Joined(t) : jobs' = [jobs EXCEPT ![t][j] =
                 [jobs[t][j] EXCEPT !.at = "joined", !.on = f, !.bad = FALSE]]
      <3>1. PICK f \in Joined(t) : jobs' = [jobs EXCEPT ![t][j] =
                 [jobs[t][j] EXCEPT !.at = "joined", !.on = f, !.bad = FALSE]]
        BY <2>2
      <3>2. jobs'[t][j] = [jobs[t][j] EXCEPT !.at = "joined", !.on = f, !.bad = FALSE]
        BY <1>0, <3>1 DEF JobsTyped
      <3>3. \A i \in Jobs \ {j} : jobs'[t][i] = jobs[t][i]
        BY <1>0, <3>1 DEF JobsTyped
      <3>q. QED
        BY <2>2, <3>2, <3>3
    <2>q. QED
      BY <1>1, <1>2, <2>1, <2>2 DEF Loaded, Unauthorized, EndJob
  <1>5. QuietJobs(t)'
    <2>1. \A f : \A job \in Job :
            /\ [job EXCEPT !.at = "joined", !.on = f, !.bad = FALSE].at = "joined"
            /\ [job EXCEPT !.at = "joined", !.on = f, !.bad = FALSE].call = job.call
      BY DEF Job
    <2>2. /\ "form" \in Jobs \ {j} /\ jobs[t][j] \in Job
          /\ j = "data" => "load" \in Jobs \ {j}
          /\ j = "load" => "data" \in Jobs \ {j}
          /\ j = "data" \/ j = "load"
      BY <1>0, <1>2 DEF JobsTyped, Jobs
    <2>3. CASE jobs'[t][j] = IdleJob
      BY <1>0, <1>4, <2>2, <2>3 DEF QuietJobs, Flying, IdleJob
    <2>4. CASE j = "data" /\ \E f : jobs'[t][j] =
                 [jobs[t][j] EXCEPT !.at = "joined", !.on = f, !.bad = FALSE]
      <3>1. PICK f : jobs'[t][j] =
                 [jobs[t][j] EXCEPT !.at = "joined", !.on = f, !.bad = FALSE]
        BY <2>4
      <3>2. jobs'[t]["data"].call = jobs[t]["data"].call /\ jobs'[t]["data"].at = "joined"
        BY <2>1, <2>2, <2>4, <3>1
      <3>q. QED
        BY <1>0, <1>4, <2>2, <2>4, <3>2 DEF QuietJobs, Flying
    <2>q. QED
      BY <1>4, <2>2, <2>3, <2>4
  <1>q. QED
    BY <1>3, <1>5 DEF Kept, StaysIn
\* Until a request fails or the page is reloaded
KeptUntilFailure == failed \/ \A t \in Tabs : Kept(t)

\* The server has issued finitely many tokens.
Issued == {k \in Tokens : owner[k] # None}
IssuedFinite == IsFiniteSet(Issued)

LEMMA OwnerStep ==
  ASSUME TypeOK, [Next]_vars
  PROVE  UNCHANGED owner \/ \E k \in Tokens : \E u : owner' = [owner EXCEPT ![k] = u]
  <1>1. CASE UNCHANGED vars
    BY <1>1 DEF vars, serverVars
  <1>2. ASSUME NEW t \in Tabs, Answer(t)
        PROVE  UNCHANGED owner \/ \E k \in Tokens : \E u : owner' = [owner EXCEPT ![k] = u]
    <2>1. CASE \E j \in Jobs : Loaded(t, j)
      BY <2>1 DEF Loaded, serverVars
    <2>2. CASE LoginAnswered(t)
      BY <2>2, NewTokenFree DEF LoginAnswered, serverVars
    <2>3. CASE LogoutAnswered(t)
      BY <2>3 DEF LogoutAnswered, serverVars
    <2>q. QED
      BY <1>2, <2>1, <2>2, <2>3 DEF Answer
  <1>3. ASSUME NEW t \in Tabs, NEW f \in Flights, RefreshStep(t, f) \/ RefreshLost(t, f)
        PROVE  UNCHANGED owner \/ \E k \in Tokens : \E u : owner' = [owner EXCEPT ![k] = u]
    <2>1. CASE Rotated(t, f)
      BY <2>1, NewTokenFree DEF Rotated
    <2>q. QED
      BY <1>3, <2>1 DEF RefreshStep, Refused, SecondAttempt, Checked, Overtaken, Refreshed,
         RefreshLost, serverVars
  <1>4. ASSUME NEW t \in Tabs,
               \/ \E u \in Users : StartLogin(t, u)
               \/ StartLogout(t) \/ RequestData(t) \/ Reload(t) \/ Expire(t)
               \/ \E j \in Jobs : CallLost(t, j)
        PROVE  UNCHANGED owner
    BY <1>4 DEF StartLogin, StartLogout, RequestData, Reload, Expire, CallLost, serverVars
  <1>q. QED
    BY <1>1, <1>2, <1>3, <1>4 DEF Next

LEMMA IssuedStaysFinite ==
  ASSUME TypeOK, [Next]_vars, IssuedFinite
  PROVE  IssuedFinite'
  <1>1. CASE UNCHANGED owner
    BY <1>1 DEF IssuedFinite, Issued
  <1>2. ASSUME NEW k \in Tokens, NEW u, owner' = [owner EXCEPT ![k] = u]
        PROVE  IssuedFinite'
    <2>1. Issued' \subseteq Issued \cup {k}
      BY <1>2 DEF Issued, TypeOK
    <2>2. IsFiniteSet(Issued \cup {k})
      BY FS_AddElement DEF IssuedFinite
    <2>q. QED
      BY <2>1, <2>2, FS_Subset DEF IssuedFinite
  <1>q. QED
    BY <1>1, <1>2, OwnerStep

LEMMA TokensLast ==
  ASSUME IssuedFinite, ~IsFiniteSet(Tokens)
  PROVE  Issuable # {}
  <1>1. ASSUME Issuable = {} PROVE FALSE
    <2>1. Tokens = Issued
      BY <1>1 DEF Issuable, Issued
    <2>q. QED
      BY <2>1 DEF IssuedFinite
  <1>q. QED
    BY <1>1

\* Nothing undoes a failure, and a step that fails something is not held to the property.
LEMMA TabStep ==
  ASSUME Alone, SessionInvariant, KeptUntilFailure, Issuable # {}, Next
  PROVE  KeptUntilFailure' /\ (failed' \/ \A t \in Tabs : StaysIn(t))
  <1>0. Shape
    BY DEF SessionInvariant
  <1>1. PICK t \in Tabs :
           \/ \E u \in Users : StartLogin(t, u)
           \/ StartLogout(t) \/ RequestData(t) \/ Reload(t) \/ Expire(t)
           \/ \E f \in Flights : RefreshStep(t, f) \/ RefreshLost(t, f)
           \/ Answer(t)
           \/ \E j \in Jobs : CallLost(t, j)
    BY DEF Next
  <1>2. \A s \in Tabs : s = t
    BY DEF Alone
  <1>3. SUFFICES failed' \/ (Kept(t)' /\ StaysIn(t))
    <2>1. ASSUME Kept(t)', StaysIn(t) PROVE \A s \in Tabs : Kept(s)' /\ StaysIn(s)
      <3>1. \A s \in Tabs : Kept(s)'
        BY <1>2, <2>1 DEF Kept, QuietJobs, OwnRefresh, OwnCookie, Flying
      <3>2. \A s \in Tabs : StaysIn(s)
        BY <1>2, <2>1 DEF StaysIn
      <3>q. QED
        BY <3>1, <3>2
    <2>q. QED
      BY <2>1 DEF KeptUntilFailure
  <1>4. CASE failed
    <2>1. ASSUME NEW f \in Flights, RefreshStep(t, f) PROVE UNCHANGED failed
      BY <2>1 DEF RefreshStep, Refused, SecondAttempt, Checked, Rotated, Overtaken, Refreshed,
         counters
    <2>2. ASSUME Answer(t) PROVE UNCHANGED failed
      BY <2>2 DEF Answer, Loaded, LoginAnswered, LogoutAnswered, counters
    <2>3. ASSUME \/ \E u \in Users : StartLogin(t, u)
                 \/ StartLogout(t) \/ RequestData(t) \/ Expire(t)
          PROVE  UNCHANGED failed
      BY <2>3 DEF StartLogin, StartLogout, RequestData, Expire, counters
    <2>4. ASSUME \/ Reload(t) \/ \E f \in Flights : RefreshLost(t, f)
                 \/ \E j \in Jobs : CallLost(t, j)
          PROVE  failed'
      BY <2>4 DEF Reload, RefreshLost, CallLost
    <2>q. QED
      BY <1>1, <1>4, <2>1, <2>2, <2>3, <2>4
  <1>5. CASE ~failed
    <2>1. Kept(t)
      BY <1>5 DEF KeptUntilFailure
    <2>2. CASE Reload(t) \/ (\E f \in Flights : RefreshLost(t, f)) \/ \E j \in Jobs : CallLost(t, j)
      BY <2>2 DEF Reload, RefreshLost, CallLost
    <2>3. CASE (\E u \in Users : StartLogin(t, u)) \/ StartLogout(t)
      BY <2>3 DEF StartLogin, StartLogout, Alone
    <2>4. CASE RequestData(t) \/ Expire(t)
      BY <1>0, <2>1, <2>4, PageKeeps
    <2>5. ASSUME NEW f \in Flights, RefreshStep(t, f) PROVE Kept(t)' /\ StaysIn(t)
      BY <1>0, <2>1, <2>5, UnansweredKeeps, RotatedKeeps, RefreshedKeeps DEF RefreshStep
    <2>6. CASE Answer(t)
      BY <1>0, <2>1, <2>6, AnswerKeeps
    <2>q. QED
      BY <1>1, <2>2, <2>3, <2>4, <2>5, <2>6
  <1>q. QED
    BY <1>4, <1>5

LEMMA KeptStep ==
  ASSUME Alone, ~IsFiniteSet(Tokens), SessionInvariant, KeptUntilFailure, IssuedFinite, [Next]_vars
  PROVE  /\ KeptUntilFailure' /\ IssuedFinite'
         /\ vars' = vars \/ failed' \/ \A t \in Tabs : StaysIn(t)
  <1>1. IssuedFinite'
    BY IssuedStaysFinite DEF SessionInvariant, Shape, Typed
  <1>2. CASE UNCHANGED vars
    BY <1>1, <1>2 DEF vars, serverVars, counters, KeptUntilFailure, Kept, QuietJobs, OwnRefresh,
       OwnCookie, Flying, Live
  <1>3. CASE Next
    BY <1>1, <1>3, TokensLast, TabStep
  <1>q. QED
    BY <1>2, <1>3

LEMMA KeptInit == Init => KeptUntilFailure /\ IssuedFinite
  <1> SUFFICES ASSUME Init PROVE KeptUntilFailure /\ IssuedFinite
    OBVIOUS
  <1>1. IssuedFinite
    <2>1. Issued \subseteq {First}
      BY DEF Init, Issued
    <2>q. QED
      BY <2>1, FS_Singleton, FS_Subset DEF IssuedFinite
  <1> DEFINE f == CHOOSE g \in Flights : TRUE
             load == [IdleJob EXCEPT !.at = "restore", !.on = f]
  <1>2. /\ flights = [t \in Tabs |-> [g \in Flights |->
             IF g = f THEN [at |-> "sent", tok |-> First, second |-> FALSE] ELSE NoFlight]]
        /\ jobs = [t \in Tabs |-> [j \in Jobs |-> IF j = "load" THEN load ELSE IdleJob]]
        /\ cookie = First /\ spent = {} /\ access = [t \in Tabs |-> None]
        /\ orphaned = [t \in Tabs |-> FALSE]
        /\ First # None => owner[First] # None
    BY SessionConstants DEF Init
  <1>3. load.call = "none" /\ load.at = "restore"
    BY DEF IdleJob
  <1> HIDE DEF f, load
  <1>4. ASSUME NEW t \in Tabs PROVE Kept(t)
    <2>1. QuietJobs(t)
      BY <1>2, <1>3 DEF QuietJobs, Flying, Jobs, IdleJob
    <2>2. OwnRefresh(t)
      BY <1>2 DEF OwnRefresh, NoFlight
    <2>3. OwnCookie(t)
      BY <1>2, SessionConstants DEF OwnCookie, Live
    <2>q. QED
      BY <2>1, <2>2, <2>3 DEF Kept
  <1>q. QED
    BY <1>1, <1>4 DEF KeptUntilFailure

\* A browser with one tab, in which nobody signs in or out, keeps its session until a request
\* fails or the page is reloaded, as the comment of the second attempt promises: what the run
\* refresh_loser shows takes a second tab.  The server can always issue another token.
THEOREM OneTabKeepsSession ==
  ASSUME Alone, ~IsFiniteSet(Tokens)
  PROVE  Spec => SessionKept
  <1>1. SessionInvariant /\ KeptUntilFailure /\ IssuedFinite /\ [Next]_vars
          => KeptUntilFailure' /\ IssuedFinite'
    BY KeptStep
  <1>2. SessionInvariant /\ KeptUntilFailure /\ IssuedFinite /\ [Next]_vars
          => [\A t \in Tabs : access[t] # None /\ access'[t] = None =>
                \/ failed'
                \/ \E s \in Tabs : jobs[s]["form"].call = "logout"]_vars
    BY KeptStep DEF StaysIn
  <1>3. SessionInvariant /\ [Next]_vars => SessionInvariant'
    BY SessionStep
  <1>q. QED
    BY <1>1, <1>2, <1>3, SessionInit, KeptInit, PTL DEF Spec, SessionKept
-----------------------------------------------------------------------------
(* Progress, as far as it is safety: what waits is served, and what is served goes forward. *)

\* A function that waits for a refresh waits for one in progress, also after its tab signed out.
WaitsForRunning(t) ==
    \A j \in Jobs : jobs[t][j].on # None => flights[t][jobs[t][j].on].at # "none"

\* A page that shows it is loading has a page load, a sign-in or a sign-out in progress.
LoadingIsServed(t) == loading[t] => jobs[t]["load"].at # "idle" \/ jobs[t]["form"].at # "idle"

DataOfPages(t) == jobs[t]["load"].call # "data" /\ jobs[t]["form"].call # "data"

Served(t) == WaitsForRunning(t) /\ LoadingIsServed(t) /\ DataOfPages(t)
NobodyWaitsInVain == \A t \in Tabs : WaitsForRunning(t) /\ LoadingIsServed(t)

\* Network events before a refresh is over, in its first attempt or its second
AttemptsLeft(g) ==
    CASE g.at = "none"     -> 0
      [] g.at = "answered" -> 1
      [] g.at = "checked"  -> IF g.second THEN 2 ELSE 5
      [] g.at = "sent"     -> IF g.second THEN 3 ELSE 6
      [] g.at = "pause"    -> 4

\* Answers before a function is over: a sign-in loads the profile after its own answer.
AnswersLeft(job) ==
    LET more == IF job.call \in {"login", "logout"} THEN 4 ELSE 0 IN
    CASE job.at = "idle"    -> 0
      [] job.at = "again"   -> 1 + more
      [] job.at = "joined"  -> 2 + more
      [] job.at = "sent"    -> 3 + more
      [] job.at = "served"  -> 4
      [] job.at = "restore" -> 8

RefreshGoesOn(t, f) ==
    \/ flights[t][f].at = "none"
    \/ flights'[t][f] = flights[t][f]
    \/ AttemptsLeft(flights'[t][f]) < AttemptsLeft(flights[t][f])

JobGoesOn(t, j) ==
    \/ jobs[t][j].at = "idle"
    \/ jobs'[t][j] = jobs[t][j]
    \/ AnswersLeft(jobs'[t][j]) < AnswersLeft(jobs[t][j])

Onward(t) == (\A f \in Flights : RefreshGoesOn(t, f)) /\ (\A j \in Jobs : JobGoesOn(t, j))
CallsGoOn == [][\A t \in Tabs : Reload(t) \/ Onward(t)]_vars

LEMMA RanksKnown ==
  /\ \A g \in Flight : AttemptsLeft(g) \in 0..6 /\ (AttemptsLeft(g) = 0 => g.at = "none")
  /\ \A job \in Job : AnswersLeft(job) \in 0..8 /\ (AnswersLeft(job) = 0 => job.at = "idle")
  /\ AttemptsLeft(NoFlight) = 0 /\ AnswersLeft(IdleJob) = 0
  <1>1. \A g \in Flight : AttemptsLeft(g) \in 0..6 /\ (AttemptsLeft(g) = 0 => g.at = "none")
    BY DEF AttemptsLeft, Flight, FlightStates
  <1>2. ASSUME NEW job \in Job
        PROVE  AnswersLeft(job) \in 0..8 /\ (AnswersLeft(job) = 0 => job.at = "idle")
    BY DEF AnswersLeft, Job, JobStates
  <1>3. AttemptsLeft(NoFlight) = 0 /\ AnswersLeft(IdleJob) = 0
    BY DEF AttemptsLeft, AnswersLeft, NoFlight, IdleJob
  <1>q. QED
    BY <1>1, <1>2, <1>3

\* A step of one refresh that neither ends it nor touches a job
LEMMA RefreshOnward ==
  ASSUME TypeOK, NEW t \in Tabs, Served(t), NEW f \in Flights, NEW g \in Flight,
         flights' = [flights EXCEPT ![t][f] = g], g.at # "none",
         AttemptsLeft(g) < AttemptsLeft(flights[t][f]), UNCHANGED <<jobs, loading>>
  PROVE  Served(t)' /\ Onward(t)
  <1>0. /\ \A h \in Flights : flights'[t][h] = IF h = f THEN g ELSE flights[t][h]
        /\ \A j \in Jobs : jobs[t][j].on \in Flights \cup {None}
    BY DEF TypeOK, Job
  <1>1. Served(t)'
    BY <1>0 DEF Served, WaitsForRunning, LoadingIsServed, DataOfPages
  <1>2. Onward(t)
    BY <1>0 DEF Onward, RefreshGoesOn, JobGoesOn
  <1>q. QED
    BY <1>1, <1>2

\* Each event of a refresh leaves fewer.
LEMMA AttemptsFall ==
  ASSUME NEW g \in Flight, NEW h \in Flight,
         \/ g.at = "sent" /\ ~g.second /\ h.at = "pause"
         \/ g.at = "sent" /\ h.at = "checked" /\ h.second = g.second
         \/ g.at = "checked" /\ h.at = "answered"
         \/ g.at = "pause" /\ h.at = "sent" /\ h.second
  PROVE  AttemptsLeft(h) < AttemptsLeft(g)
  BY DEF AttemptsLeft

LEMMA AttemptOnward ==
  ASSUME TypeOK, NEW t \in Tabs, Served(t), NEW f \in Flights,
         \/ Refused(t, f) /\ ~flights[t][f].second
         \/ SecondAttempt(t, f) \/ Checked(t, f) \/ Rotated(t, f)
  PROVE  Served(t)' /\ Onward(t)
  <1>0. flights[t][f] \in Flight /\ cookie \in Tokens \cup {None}
    BY DEF TypeOK
  <1>1. CASE Refused(t, f) /\ ~flights[t][f].second
    <2> DEFINE h == [flights[t][f] EXCEPT !.at = "pause", !.tok = None]
    <2>1. h \in Flight /\ h.at = "pause"
      BY <1>0 DEF Flight, FlightStates
    <2>2. /\ flights' = [flights EXCEPT ![t][f] = h]
          /\ flights[t][f].at = "sent" /\ UNCHANGED <<jobs, loading>>
      BY <1>1 DEF Refused, TypeOK
    <2> HIDE DEF h
    <2>3. AttemptsLeft(h) < AttemptsLeft(flights[t][f])
      BY <1>0, <1>1, <2>1, <2>2, AttemptsFall
    <2>q. QED
      BY <2>1, <2>2, <2>3, RefreshOnward
  <1>2. CASE SecondAttempt(t, f)
    <2> DEFINE h == [at |-> "sent", tok |-> cookie, second |-> TRUE]
    <2>1. h \in Flight /\ h.at = "sent" /\ h.second
      BY <1>0, NewRefreshTyped
    <2>2. /\ flights' = [flights EXCEPT ![t][f] = h]
          /\ flights[t][f].at = "pause" /\ UNCHANGED <<jobs, loading>>
      BY <1>2 DEF SecondAttempt
    <2> HIDE DEF h
    <2>3. AttemptsLeft(h) < AttemptsLeft(flights[t][f])
      BY <1>0, <2>1, <2>2, AttemptsFall
    <2>q. QED
      BY <2>1, <2>2, <2>3, RefreshOnward
  <1>3. CASE Checked(t, f)
    <2> DEFINE h == [flights[t][f] EXCEPT !.at = "checked"]
    <2>1. h \in Flight /\ h.at = "checked" /\ h.second = flights[t][f].second
      BY <1>0 DEF Flight, FlightStates
    <2>2. /\ flights' = [flights EXCEPT ![t][f] = h]
          /\ flights[t][f].at = "sent" /\ UNCHANGED <<jobs, loading>>
      BY <1>3 DEF Checked, TypeOK
    <2> HIDE DEF h
    <2>3. AttemptsLeft(h) < AttemptsLeft(flights[t][f])
      BY <1>0, <2>1, <2>2, AttemptsFall
    <2>q. QED
      BY <2>1, <2>2, <2>3, RefreshOnward
  <1>4. CASE Rotated(t, f)
    <2> DEFINE h == [flights[t][f] EXCEPT !.at = "answered", !.tok = NewToken]
    <2>1. h \in Flight /\ h.at = "answered"
      BY <1>0, <1>4, NewTokenFree DEF Rotated, Flight, FlightStates
    <2>2. /\ flights' = [flights EXCEPT ![t][f] = h]
          /\ flights[t][f].at = "checked" /\ UNCHANGED <<jobs, loading>>
      BY <1>4 DEF Rotated, TypeOK
    <2> HIDE DEF h
    <2>3. AttemptsLeft(h) < AttemptsLeft(flights[t][f])
      BY <1>0, <2>1, <2>2, AttemptsFall
    <2>q. QED
      BY <2>1, <2>2, <2>3, RefreshOnward
  <1>q. QED
    BY <1>1, <1>2, <1>3, <1>4

\* A refresh that ends wakes every function that waits for it.
LEMMA FailureOnward ==
  ASSUME TypeOK, NEW t \in Tabs, Served(t), NEW f \in Flights, RefreshFails(t, f)
  PROVE  Served(t)' /\ Onward(t)
  <1>0. /\ \A h \in Flights : flights'[t][h] = IF h = f THEN NoFlight ELSE flights[t][h]
        /\ \A j \in Jobs : jobs'[t][j] = IF jobs[t][j].on = f THEN IdleJob ELSE jobs[t][j]
        /\ \A j \in Jobs : jobs[t][j] \in Job /\ jobs[t][j].on \in Flights \cup {None}
        /\ \A h \in Flights : flights[t][h] \in Flight
    BY WaitersAre DEF RefreshFails, TypeOK, Job
  <1>1. "load" \in Jobs /\ "form" \in Jobs
    BY DEF Jobs
  <1>2. loading'[t] => loading[t] /\ jobs[t]["load"].on # f /\ jobs[t]["form"].on # f
    BY <1>1, WaitersAre DEF RefreshFails, StopLoading, KeepLoading, TypeOK
  <1>3. WaitsForRunning(t)'
    BY <1>0 DEF Served, WaitsForRunning, IdleJob
  <1>4. LoadingIsServed(t)' /\ DataOfPages(t)'
    BY <1>0, <1>1, <1>2 DEF Served, LoadingIsServed, DataOfPages, IdleJob
  <1>5. Onward(t)
    BY <1>0, RanksKnown DEF Onward, RefreshGoesOn, JobGoesOn
  <1>q. QED
    BY <1>3, <1>4, <1>5 DEF Served

LEMMA RefreshedOnward ==
  ASSUME Typed, NEW t \in Tabs, Served(t), NEW f \in Flights, Refreshed(t, f)
  PROVE  Served(t)' /\ Onward(t)
  <1> DEFINE k == flights[t][f].tok
  <1>a. /\ \A h \in Flights : flights'[t][h] = IF h = f THEN NoFlight ELSE flights[t][h]
        /\ \A j \in Jobs : jobs'[t][j] = IF jobs[t][j].on = f THEN Resent(jobs[t][j], k)
                                         ELSE jobs[t][j]
    BY RefreshedJobs
  <1>b. (\A h \in Flights : flights[t][h] \in Flight) /\ UNCHANGED loading
    BY DEF Refreshed, Typed, TypeOK
  <1>0. /\ \A h \in Flights : flights'[t][h] = IF h = f THEN NoFlight ELSE flights[t][h]
        /\ \A j \in Jobs : jobs'[t][j] = IF jobs[t][j].on = f THEN Resent(jobs[t][j], k)
                                         ELSE jobs[t][j]
        /\ \A h \in Flights : flights[t][h] \in Flight
        /\ UNCHANGED loading
    BY <1>a, <1>b
  <1> HIDE DEF k
  <1>1. \A j \in Jobs : /\ jobs[t][j] \in Job /\ jobs[t][j].on \in Flights \cup {None}
                        /\ jobs[t][j].on # None <=> jobs[t][j].at \in {"restore", "joined"}
    BY DEF Typed, TypeOK, Job
  <1>2. \A job \in Job : job.at \in {"restore", "joined"} =>
          /\ Resent(job, k).on = None /\ Resent(job, k).at # "idle"
          /\ Resent(job, k).call \in {"me", job.call}
          /\ AnswersLeft(Resent(job, k)) < AnswersLeft(job)
    BY DEF Resent, AnswersLeft, Job, Calls
  <1>3. WaitsForRunning(t)'
    BY <1>0, <1>1, <1>2, SessionConstants DEF Served, WaitsForRunning
  <1>4. LoadingIsServed(t)' /\ DataOfPages(t)'
    <2>1. "load" \in Jobs /\ "form" \in Jobs /\ f # None
      BY SessionConstants DEF Jobs
    <2>q. QED
      BY <1>0, <1>1, <1>2, <2>1 DEF Served, LoadingIsServed, DataOfPages
  <1>5. Onward(t)
    BY <1>0, <1>1, <1>2, RanksKnown, SessionConstants DEF Onward, RefreshGoesOn, JobGoesOn
  <1>q. QED
    BY <1>3, <1>4, <1>5 DEF Served
\* A step of one job that starts or joins no refresh
LEMMA JobOnward ==
  ASSUME TypeOK, NEW t \in Tabs, Served(t), NEW j \in Jobs, NEW job,
         jobs' = [jobs EXCEPT ![t][j] = job], UNCHANGED flights, job.on = None,
         job.call = "data" => j = "data",
         jobs[t][j].at = "idle" \/ AnswersLeft(job) < AnswersLeft(jobs[t][j]),
         \/ ~loading'[t]
         \/ j # "data" /\ job.at # "idle"
         \/ j = "data" /\ loading'[t] = loading[t]
  PROVE  Served(t)' /\ Onward(t)
  <1>0. /\ \A i \in Jobs : jobs'[t][i] = IF i = j THEN job ELSE jobs[t][i]
        /\ "load" \in Jobs /\ "form" \in Jobs
        /\ j \in {"load", "form", "data"}
    BY DEF TypeOK, Jobs
  <1>1. WaitsForRunning(t)'
    BY <1>0 DEF Served, WaitsForRunning
  <1>2. LoadingIsServed(t)'
    BY <1>0 DEF Served, LoadingIsServed
  <1>3. DataOfPages(t)'
    BY <1>0 DEF Served, DataOfPages
  <1>4. Onward(t)
    BY <1>0 DEF Onward, RefreshGoesOn, JobGoesOn
  <1>q. QED
    BY <1>1, <1>2, <1>3, <1>4 DEF Served

\* Where a function ends, its page stops loading.
LEMMA IdleOnward ==
  ASSUME TypeOK, NEW t \in Tabs, Served(t), NEW j \in Jobs, jobs[t][j].at # "idle",
         jobs' = [jobs EXCEPT ![t][j] = IdleJob], UNCHANGED flights,
         StopLoading(t) \/ (j = "data" /\ KeepLoading(t))
  PROVE  Served(t)' /\ Onward(t)
  <1>1. IdleJob.on = None /\ IdleJob.call = "none"
    BY DEF IdleJob
  <1>2. AnswersLeft(IdleJob) < AnswersLeft(jobs[t][j])
    <2>1. jobs[t][j] \in Job
      BY DEF TypeOK
    <2>q. QED
      BY <2>1, RanksKnown
  <1>3. ~loading'[t] \/ (j = "data" /\ loading'[t] = loading[t])
    BY DEF StopLoading, KeepLoading, TypeOK
  <1>q. QED
    BY <1>1, <1>2, <1>3, JobOnward

LEMMA StartOnward ==
  ASSUME TypeOK, NEW t \in Tabs, Served(t),
         (\E u \in Users : StartLogin(t, u)) \/ StartLogout(t) \/ RequestData(t) \/ Expire(t)
  PROVE  Served(t)' /\ Onward(t)
  <1>0. "form" \in Jobs /\ "data" \in Jobs /\ IdleJob.at = "idle"
    BY DEF Jobs, IdleJob
  <1>1. ASSUME NEW u \in Users, StartLogin(t, u) PROVE Served(t)' /\ Onward(t)
    <2>1. /\ [Sent(t, "login") EXCEPT !.who = u].on = None
          /\ [Sent(t, "login") EXCEPT !.who = u].at = "sent"
          /\ [Sent(t, "login") EXCEPT !.who = u].call = "login"
      BY DEF Sent
    <2>2. jobs[t]["form"].at = "idle" /\ UNCHANGED flights
      BY <1>0, <1>1 DEF StartLogin
    <2>3. jobs' = [jobs EXCEPT ![t]["form"] = [Sent(t, "login") EXCEPT !.who = u]]
      BY <1>1 DEF StartLogin
    <2>q. QED
      BY <1>0, <2>1, <2>2, <2>3, JobOnward
  <1>2. CASE StartLogout(t)
    <2>1. /\ Sent(t, "logout").on = None /\ Sent(t, "logout").at = "sent"
          /\ Sent(t, "logout").call = "logout"
      BY DEF Sent
    <2>q. QED
      BY <1>0, <1>2, <2>1, JobOnward DEF StartLogout
  <1>3. CASE RequestData(t)
    <2>1. Sent(t, "data").on = None
      BY DEF Sent
    <2>q. QED
      BY <1>0, <1>3, <2>1, JobOnward DEF RequestData
  <1>4. CASE Expire(t)
    BY <1>4 DEF Expire, Served, WaitsForRunning, LoadingIsServed, DataOfPages, Onward,
       RefreshGoesOn, JobGoesOn
  <1>q. QED
    BY <1>1, <1>2, <1>3, <1>4

LEMMA JoinOnward ==
  ASSUME Typed, NEW t \in Tabs, Served(t), NEW j \in Jobs, NEW f \in Joined(t),
         jobs[t][j].at = "sent", Refreshing(t, f), UNCHANGED loading,
         jobs' = [jobs EXCEPT ![t][j] =
                    [jobs[t][j] EXCEPT !.at = "joined", !.on = f, !.bad = FALSE]]
  PROVE  Served(t)' /\ Onward(t)
  <1>0. TypeOK /\ f \in Flights /\ f # None
    BY JoinedFlight DEF Typed
  <1> DEFINE job == [jobs[t][j] EXCEPT !.at = "joined", !.on = f, !.bad = FALSE]
  <1>1. /\ job.at = "joined" /\ job.on = f /\ job.call = jobs[t][j].call
        /\ AnswersLeft(job) < AnswersLeft(jobs[t][j])
    <2>1. \A r \in Job : r.at = "sent" =>
            /\ [r EXCEPT !.at = "joined", !.on = f, !.bad = FALSE].at = "joined"
            /\ [r EXCEPT !.at = "joined", !.on = f, !.bad = FALSE].on = f
            /\ [r EXCEPT !.at = "joined", !.on = f, !.bad = FALSE].call = r.call
            /\ AnswersLeft([r EXCEPT !.at = "joined", !.on = f, !.bad = FALSE]) < AnswersLeft(r)
      BY DEF Job, AnswersLeft
    <2>2. jobs[t][j] \in Job
      BY <1>0 DEF TypeOK
    <2>q. QED
      BY <2>1, <2>2
  <1> HIDE DEF job
  <1>2. /\ \A i \in Jobs : jobs'[t][i] = IF i = j THEN job ELSE jobs[t][i]
        /\ \A i \in Jobs : jobs[t][i].on \in Flights \cup {None}
        /\ "load" \in Jobs /\ "form" \in Jobs
    BY <1>0 DEF TypeOK, Jobs, Job, job
  <1>3. /\ flights'[t][f].at # "none"
        /\ \A g \in Flights : flights[t][g].at # "none" => flights'[t][g] = flights[t][g]
    BY <1>0, RunningIs DEF Refreshing, TypeOK
  <1>4. WaitsForRunning(t)'
    BY <1>0, <1>1, <1>2, <1>3 DEF Served, WaitsForRunning
  <1>5. LoadingIsServed(t)' /\ DataOfPages(t)'
    BY <1>1, <1>2 DEF Served, LoadingIsServed, DataOfPages
  <1>6. Onward(t)
    BY <1>1, <1>2, <1>3 DEF Onward, RefreshGoesOn, JobGoesOn
  <1>q. QED
    BY <1>4, <1>5, <1>6 DEF Served

LEMMA UnauthorizedOnward ==
  ASSUME Typed, NEW t \in Tabs, Served(t), NEW j \in Jobs, Flying(t, j), Unauthorized(t, j)
  PROVE  Served(t)' /\ Onward(t)
  <1>0. TypeOK
    BY DEF Typed
  <1>1. CASE EndJob(t, j, jobs[t][j].call) /\ UNCHANGED flights
    BY <1>0, <1>1, IdleOnward DEF EndJob, Flying
  <1>2. CASE /\ jobs[t][j].at # "again"
             /\ \E f \in Joined(t) :
                  /\ Refreshing(t, f)
                  /\ jobs' = [jobs EXCEPT ![t][j] =
                       [jobs[t][j] EXCEPT !.at = "joined", !.on = f, !.bad = FALSE]]
             /\ UNCHANGED loading
    BY <1>2, JoinOnward DEF Flying
  <1>q. QED
    BY <1>1, <1>2 DEF Unauthorized

LEMMA LoginOnward ==
  ASSUME Typed, NEW t \in Tabs, Served(t), LoginAnswered(t)
  PROVE  Served(t)' /\ Onward(t)
  <1>0. TypeOK /\ "form" \in Jobs /\ jobs[t]["form"] \in Job /\ jobs[t]["form"].call = "login"
    BY DEF Typed, TypeOK, Jobs, LoginAnswered
  <1>1. CASE /\ Flying(t, "form") /\ Issuable # {}
             /\ jobs' = [jobs EXCEPT ![t]["form"].at = "served", ![t]["form"].tok = NewToken]
             /\ UNCHANGED <<loading, flights>>
    <2> DEFINE job == [jobs[t]["form"] EXCEPT !.at = "served", !.tok = NewToken]
    <2>1. jobs[t]["form"].on = None /\ jobs[t]["form"].at \in {"sent", "again"}
      BY <1>0, <1>1 DEF TypeOK, Flying
    <2>2. job.at = "served" /\ job.on = None /\ job.call = "login"
      BY <1>0, <2>1 DEF Job
    <2>3. jobs' = [jobs EXCEPT ![t]["form"] = job]
      BY <1>0, <1>1 DEF TypeOK, Job
    <2> HIDE DEF job
    <2>4. AnswersLeft(job) < AnswersLeft(jobs[t]["form"])
      BY <1>0, <2>1, <2>2 DEF AnswersLeft
    <2>q. QED
      BY <1>0, <1>1, <2>2, <2>3, <2>4, JobOnward
  <1>2. CASE /\ jobs[t]["form"].at = "served"
             /\ jobs' = [jobs EXCEPT ![t]["form"] =
                  [Sent(t, "me") EXCEPT !.had = TRUE, !.bad = FALSE, !.who = jobs[t]["form"].who]]
             /\ UNCHANGED <<loading, flights>>
    <2> DEFINE job == [Sent(t, "me") EXCEPT !.had = TRUE, !.bad = FALSE,
                                            !.who = jobs[t]["form"].who]
    <2>1. job.on = None /\ job.at = "sent" /\ job.call = "me"
      BY DEF Sent
    <2>2. AnswersLeft(jobs[t]["form"]) = 4
      BY <1>2 DEF AnswersLeft
    <2> HIDE DEF job
    <2>3. AnswersLeft(job) = 3
      BY <2>1 DEF AnswersLeft
    <2>4. jobs' = [jobs EXCEPT ![t]["form"] = job] /\ UNCHANGED flights
      BY <1>2 DEF job
    <2>5. AnswersLeft(job) < AnswersLeft(jobs[t]["form"])
      BY <2>2, <2>3
    <2>q. QED
      BY <1>0, <2>1, <2>4, <2>5, JobOnward
  <1>3. CASE Flying(t, "form") /\ Unauthorized(t, "form")
    BY <1>0, <1>3, UnauthorizedOnward
  <1>q. QED
    BY <1>1, <1>2, <1>3 DEF LoginAnswered

LEMMA LogoutOnward ==
  ASSUME Typed, NEW t \in Tabs, Served(t), LogoutAnswered(t)
  PROVE  Served(t)' /\ Onward(t)
  <1>0. TypeOK /\ "form" \in Jobs /\ jobs[t]["form"] \in Job /\ jobs[t]["form"].call = "logout"
    BY DEF Typed, TypeOK, Jobs, LogoutAnswered
  <1>1. CASE /\ Flying(t, "form")
             /\ jobs' = [jobs EXCEPT ![t]["form"].at = "served"]
             /\ UNCHANGED <<loading, flights>>
    <2> DEFINE job == [jobs[t]["form"] EXCEPT !.at = "served"]
    <2>1. jobs[t]["form"].on = None /\ jobs[t]["form"].at \in {"sent", "again"}
      BY <1>0, <1>1 DEF TypeOK, Flying
    <2>2. job.at = "served" /\ job.on = None /\ job.call = "logout"
      BY <1>0, <2>1 DEF Job
    <2>3. jobs' = [jobs EXCEPT ![t]["form"] = job]
      BY <1>0, <1>1 DEF TypeOK, Job
    <2> HIDE DEF job
    <2>4. AnswersLeft(job) < AnswersLeft(jobs[t]["form"])
      BY <1>0, <2>1, <2>2 DEF AnswersLeft
    <2>q. QED
      BY <1>0, <1>1, <2>2, <2>3, <2>4, JobOnward
  <1>2. CASE jobs[t]["form"].at = "served" /\ EndJob(t, "form", "logout") /\ UNCHANGED flights
    BY <1>0, <1>2, IdleOnward DEF EndJob
  <1>3. CASE Flying(t, "form") /\ Unauthorized(t, "form")
    BY <1>0, <1>3, UnauthorizedOnward
  <1>q. QED
    BY <1>1, <1>2, <1>3 DEF LogoutAnswered

LEMMA LoadedOnward ==
  ASSUME Typed, NEW t \in Tabs, Served(t), NEW j \in Jobs, Loaded(t, j)
  PROVE  Served(t)' /\ Onward(t)
  <1>0. TypeOK
    BY DEF Typed
  <1>1. CASE jobs[t][j].bad
    BY <1>1, UnauthorizedOnward DEF Loaded
  <1>2. CASE ~jobs[t][j].bad
    <2>1. /\ jobs' = [jobs EXCEPT ![t][j] = IdleJob] /\ UNCHANGED flights
          /\ StopLoading(t) \/ (jobs[t][j].call = "data" /\ KeepLoading(t))
          /\ jobs[t][j].at # "idle"
      BY <1>2 DEF Loaded, Flying
    <2>2. jobs[t][j].call = "data" => j = "data"
      BY DEF Served, DataOfPages, Jobs
    <2>q. QED
      BY <1>0, <2>1, <2>2, IdleOnward
  <1>q. QED
    BY <1>1, <1>2
LEMMA ReloadServed ==
  ASSUME TypeOK, NEW t \in Tabs, Reload(t)
  PROVE  Served(t)'
  <1> DEFINE f == CHOOSE g \in Flights : TRUE
             load == [IdleJob EXCEPT !.at = "restore", !.on = f]
  <1>1. f \in Flights
    BY FirstFlight
  <1>2. load.at = "restore" /\ load.on = f /\ load.call = "none"
    BY DEF IdleJob
  <1>3. /\ \A j \in Jobs : jobs'[t][j] = IF j = "load" THEN load ELSE IdleJob
        /\ flights'[t][f] = [at |-> "sent", tok |-> cookie, second |-> FALSE]
    BY <1>1 DEF Reload, TypeOK
  <1> HIDE DEF f, load
  <1>q. QED
    BY <1>1, <1>2, <1>3 DEF Served, WaitsForRunning, LoadingIsServed, DataOfPages, IdleJob, Jobs

LEMMA TabOnward ==
  ASSUME Typed, NEW t \in Tabs, Served(t),
         \/ \E u \in Users : StartLogin(t, u)
         \/ StartLogout(t) \/ RequestData(t) \/ Expire(t)
         \/ \E f \in Flights : RefreshStep(t, f) \/ RefreshLost(t, f)
         \/ Answer(t)
         \/ \E j \in Jobs : CallLost(t, j)
  PROVE  Served(t)' /\ Onward(t)
  <1>0. TypeOK
    BY DEF Typed
  <1>1. CASE (\E u \in Users : StartLogin(t, u)) \/ StartLogout(t) \/ RequestData(t) \/ Expire(t)
    BY <1>0, <1>1, StartOnward
  <1>2. ASSUME NEW f \in Flights, RefreshStep(t, f) \/ RefreshLost(t, f)
        PROVE  Served(t)' /\ Onward(t)
    <2>1. CASE (Refused(t, f) /\ flights[t][f].second) \/ Overtaken(t, f) \/ RefreshLost(t, f)
      BY <1>0, <2>1, FailureOnward DEF Refused, Overtaken, RefreshLost
    <2>2. CASE \/ Refused(t, f) /\ ~flights[t][f].second
               \/ SecondAttempt(t, f) \/ Checked(t, f) \/ Rotated(t, f)
      BY <1>0, <2>2, AttemptOnward
    <2>3. CASE Refreshed(t, f)
      BY <2>3, RefreshedOnward
    <2>q. QED
      BY <1>2, <2>1, <2>2, <2>3 DEF RefreshStep
  <1>3. CASE Answer(t)
    BY <1>3, LoadedOnward, LoginOnward, LogoutOnward DEF Answer
  <1>4. ASSUME NEW j \in Jobs, CallLost(t, j) PROVE Served(t)' /\ Onward(t)
    BY <1>0, <1>4, IdleOnward DEF CallLost, EndJob, Flying
  <1>q. QED
    BY <1>1, <1>2, <1>3, <1>4

\* The tabs share the cookie only.
SameTab(s) ==
    /\ jobs'[s] = jobs[s] /\ flights'[s] = flights[s] /\ loading'[s] = loading[s]

LEMMA OtherTabs ==
  ASSUME TypeOK, NEW t \in Tabs, NEW s \in Tabs, s # t,
         \/ \E u \in Users : StartLogin(t, u)
         \/ StartLogout(t) \/ RequestData(t) \/ Reload(t) \/ Expire(t)
         \/ \E f \in Flights : RefreshStep(t, f) \/ RefreshLost(t, f)
         \/ Answer(t)
         \/ \E j \in Jobs : CallLost(t, j)
  PROVE  SameTab(s)
  <1>1. CASE \/ \E u \in Users : StartLogin(t, u)
             \/ StartLogout(t) \/ RequestData(t) \/ Reload(t) \/ Expire(t)
    BY <1>1 DEF TypeOK, StartLogin, StartLogout, RequestData, Reload, Expire, SameTab
  <1>2. ASSUME NEW f \in Flights, RefreshFails(t, f) PROVE SameTab(s)
    BY <1>2 DEF TypeOK, RefreshFails, StopLoading, KeepLoading, SameTab
  <1>3. ASSUME NEW f \in Flights, RefreshStep(t, f) \/ RefreshLost(t, f) PROVE SameTab(s)
    <2>1. CASE \/ Refused(t, f) \/ SecondAttempt(t, f) \/ Checked(t, f) \/ Overtaken(t, f)
               \/ RefreshLost(t, f)
      BY <1>2, <2>1 DEF TypeOK, Refused, SecondAttempt, Checked, Overtaken, RefreshLost, SameTab
    <2>2. CASE Rotated(t, f) \/ Refreshed(t, f)
      BY <2>2 DEF TypeOK, Rotated, Refreshed, SameTab
    <2>q. QED
      BY <1>3, <2>1, <2>2 DEF RefreshStep
  <1>4. ASSUME NEW j, NEW call, EndJob(t, j, call), UNCHANGED flights PROVE SameTab(s)
    BY <1>4 DEF TypeOK, EndJob, StopLoading, KeepLoading, SameTab
  <1>5. ASSUME NEW j, Unauthorized(t, j) PROVE SameTab(s)
    <2>1. CASE EndJob(t, j, jobs[t][j].call) /\ UNCHANGED flights
      BY <1>4, <2>1
    <2>2. CASE \E f \in Joined(t) :
                 /\ Refreshing(t, f)
                 /\ jobs' = [jobs EXCEPT ![t][j] =
                      [jobs[t][j] EXCEPT !.at = "joined", !.on = f, !.bad = FALSE]]
                 /\ UNCHANGED loading
      BY <2>2 DEF TypeOK, Refreshing, SameTab
    <2>q. QED
      BY <1>5, <2>1, <2>2 DEF Unauthorized
  <1>6. ASSUME NEW j \in Jobs, Loaded(t, j) PROVE SameTab(s)
    BY <1>5, <1>6 DEF TypeOK, Loaded, StopLoading, KeepLoading, SameTab
  <1>7. CASE LoginAnswered(t)
    BY <1>5, <1>7 DEF TypeOK, LoginAnswered, SameTab
  <1>8. CASE LogoutAnswered(t)
    BY <1>4, <1>5, <1>8 DEF TypeOK, LogoutAnswered, SameTab
  <1>9. ASSUME NEW j \in Jobs, CallLost(t, j) PROVE SameTab(s)
    BY <1>4, <1>9 DEF CallLost
  <1>q. QED
    BY <1>1, <1>3, <1>6, <1>7, <1>8, <1>9 DEF Answer

AllServed == \A t \in Tabs : Served(t)

LEMMA AllServedStep ==
  ASSUME Typed, AllServed, [Next]_vars
  PROVE  AllServed' /\ (UNCHANGED vars \/ \A t \in Tabs : Reload(t) \/ Onward(t))
  <1>1. CASE UNCHANGED vars
    BY <1>1 DEF vars, AllServed, Served, WaitsForRunning, LoadingIsServed, DataOfPages
  <1>2. CASE Next
    <2>1. PICK t \in Tabs :
             \/ \E u \in Users : StartLogin(t, u)
             \/ StartLogout(t) \/ RequestData(t) \/ Reload(t) \/ Expire(t)
             \/ \E f \in Flights : RefreshStep(t, f) \/ RefreshLost(t, f)
             \/ Answer(t)
             \/ \E j \in Jobs : CallLost(t, j)
      BY <1>2 DEF Next
    <2>2. Served(t)' /\ (Reload(t) \/ Onward(t))
      BY <2>1, TabOnward, ReloadServed DEF AllServed, Typed
    <2>3. ASSUME NEW s \in Tabs, s # t PROVE Served(s)' /\ Onward(s)
      <3>1. SameTab(s) /\ Served(s)
        BY <2>1, <2>3, OtherTabs DEF AllServed, Typed
      <3>q. QED
        BY <3>1 DEF SameTab, Served, WaitsForRunning, LoadingIsServed, DataOfPages, Onward,
           RefreshGoesOn, JobGoesOn
    <2>4. \A s \in Tabs : Served(s)'
      <3>1. ASSUME NEW s \in Tabs PROVE Served(s)'
        <4>1. CASE s = t
          BY <2>2, <4>1 DEF Served, WaitsForRunning, LoadingIsServed, DataOfPages
        <4>q. QED
          BY <2>3, <4>1
      <3>q. QED
        BY <3>1
    <2>q. QED
      BY <2>2, <2>3, <2>4 DEF AllServed
  <1>q. QED
    BY <1>1, <1>2

LEMMA AllServedInit == Init => AllServed
  <1> SUFFICES ASSUME Init, NEW t \in Tabs PROVE Served(t)
    BY DEF AllServed
  <1> DEFINE f == CHOOSE g \in Flights : TRUE
             load == [IdleJob EXCEPT !.at = "restore", !.on = f]
  <1>1. f \in Flights
    BY FirstFlight
  <1>2. load.at = "restore" /\ load.on = f /\ load.call = "none"
    BY DEF IdleJob
  <1>3. /\ jobs = [s \in Tabs |-> [j \in Jobs |-> IF j = "load" THEN load ELSE IdleJob]]
        /\ flights = [s \in Tabs |-> [g \in Flights |->
             IF g = f THEN [at |-> "sent", tok |-> First, second |-> FALSE] ELSE NoFlight]]
    BY DEF Init
  <1> HIDE DEF f, load
  <1>q. QED
    BY <1>1, <1>2, <1>3 DEF Served, WaitsForRunning, LoadingIsServed, DataOfPages, IdleJob, Jobs

LEMMA AllServedAlways == Spec => [](Typed /\ AllServed)
  <1>1. Typed /\ AllServed /\ [Next]_vars => AllServed'
    BY AllServedStep
  <1>2. Spec => []Typed
    BY ShapeAlways, PTL DEF Shape
  <1>q. QED
    BY <1>1, <1>2, AllServedInit, PTL DEF Spec

\* A function that joined a refresh waits for one that is still in progress, also when its tab
\* has signed out and forgotten it, and a page that shows it is loading has a call in progress:
\* the half of LoadingEnds and RequestsEnd that no timer or network can help with.
THEOREM WaitsAreServed == Spec => []NobodyWaitsInVain
  <1>1. AllServed => NobodyWaitsInVain
    BY DEF AllServed, Served, NobodyWaitsInVain
  <1>q. QED
    BY <1>1, AllServedAlways, PTL

\* Until the page is reloaded, every step of a refresh or of a function brings it nearer to its
\* end: two attempts of a refresh, one refresh and one retry of a request, and never a cycle of
\* 401 and refresh, however many tabs rotate the cookie in between.
THEOREM CallsComeToAnEnd == Spec => CallsGoOn
  <1>1. Typed /\ AllServed /\ [Next]_vars => [\A t \in Tabs : Reload(t) \/ Onward(t)]_vars
    BY AllServedStep
  <1>q. QED
    BY <1>1, AllServedAlways, PTL DEF Spec, CallsGoOn
=============================================================================
