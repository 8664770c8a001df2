------------------------ MODULE ConsoleProofs ------------------------
(***************************************************************************)
(* Proofs about the settings page, the search box of the header and the    *)
(* audit log page (SettingsPage, SearchBox, AuditPage), for any number of  *)
(* sessions, any terms and organizations, and any filters and page size;   *)
(* and about all the screens side by side (WebScreens): what is proved of  *)
(* one screen's own specification holds in their sum.                      *)
(***************************************************************************)
EXTENDS WebScreens, MembershipProofs, DialogProofs, TLAPS

------------------------------------------------------------------------------
(* SettingsPage *)

\* The sessions that a change of password promises to end stay accounted for until it is
\* answered: a session that has ended does not come back, and one that is signed in later
\* was not promised.
PromisedKnown == promised \subseteq sessions \cup renewing \cup over

\* Once RevokeAllExceptCaller has run, and as long as the dialog says so, only those of them
\* are left that had no token to revoke.
DoneEnded == change = "done" \/ success => promised \cap (sessions \cup renewing) \subseteq raced

SettingsInvariant == SettingsTypeOK /\ PromisedKnown /\ DoneEnded

LEMMA SettingsInitially == SettingsInit => SettingsInvariant
<1>1. SUFFICES ASSUME SettingsInit PROVE SettingsInvariant OBVIOUS
<1>2. {sessions, renewing, over, promised, raced, shownSessions, endingOne}
          \subseteq SUBSET OtherSessions
      BY <1>1 DEF SettingsInit
<1>3. {passwordOpen, passwordError, success, confirmOthers, endingOthers} \subseteq BOOLEAN
      BY <1>1, Zenon DEF SettingsInit
<1>4. SettingsTypeOK
      BY <1>1, <1>2, <1>3 DEF SettingsInit, SettingsTypeOK, Entries, ChangeStates, MaxTimers
<1>5. QED BY <1>1, <1>4 DEF SettingsInit, SettingsInvariant, PromisedKnown, DoneEnded

\* The type invariant is kept by every step: each variable gets a value of its set.
LEMMA SettingsTypesKept ==
    ASSUME SettingsTypeOK, [SettingsNext]_settingsVars
    PROVE  SettingsTypeOK'
<1> USE DEF SettingsTypeOK, Entries, ChangeStates, MaxTimers
<1>1. CASE OpenPassword BY <1>1 DEF OpenPassword, settingsServer, sessionVars, panelVars
<1>2. CASE ClosePassword BY <1>2 DEF ClosePassword, settingsServer, sessionVars, panelVars
<1>3. CASE TypePasswords BY <1>3 DEF TypePasswords, settingsServer, sessionVars, panelVars
<1>4. CASE SubmitWeak BY <1>4 DEF SubmitWeak, settingsServer, sessionVars, panelVars
<1>5. CASE SubmitPasswords BY <1>5 DEF SubmitPasswords, sessionVars, panelVars
<1>6. CASE WritePassword BY <1>6 DEF WritePassword, settingsServer, sessionVars, panelVars
<1>7. CASE RevokeAllExceptCaller BY <1>7 DEF RevokeAllExceptCaller, End, panelVars
<1>8. CASE ChangeFails
      BY <1>8 DEF ChangeFails, ReturnError, settingsServer, sessionVars, panelVars
<1>9. CASE PasswordChanged BY <1>9 DEF PasswordChanged, settingsServer, sessionVars, panelVars
<1>10. CASE PasswordNotChanged
       BY <1>10 DEF PasswordNotChanged, settingsServer, sessionVars, panelVars
<1>11. CASE TimerFires
  <2>1. {passwordOpen', passwordError', success', confirmOthers', endingOthers'} \subseteq BOOLEAN
        BY <1>11, Zenon DEF TimerFires, panelVars
  <2>2. timers' \in 0..2 BY <1>11 DEF TimerFires
  <2>3. QED BY <1>11, <2>1, <2>2 DEF TimerFires, settingsServer, sessionVars, panelVars
<1>12. CASE AskOthers BY <1>12 DEF AskOthers, settingsServer, sessionVars, dialogVars
<1>13. CASE SignOutOne BY <1>13 DEF SignOutOne, settingsServer, sessionVars, dialogVars
<1>14. CASE SignOutOthers BY <1>14 DEF SignOutOthers, settingsServer, sessionVars, dialogVars
<1>15. CASE OneRevoked BY <1>15 DEF OneRevoked, End, dialogVars
<1>16. CASE OthersRevoked BY <1>16 DEF OthersRevoked, End, dialogVars
<1>17. CASE OneNotRevoked BY <1>17 DEF OneNotRevoked, End, sessionVars, dialogVars
<1>18. CASE OthersNotRevoked BY <1>18 DEF OthersNotRevoked, End, sessionVars, dialogVars
<1>19. CASE RefreshList BY <1>19 DEF RefreshList, settingsServer, sessionVars, dialogVars
<1>20. ASSUME NEW s \in OtherSessions, SignInElsewhere(s) \/ RenewRevokes(s)
       PROVE  SettingsTypeOK'
       BY <1>20 DEF SignInElsewhere, RenewRevokes, OnlySessions, dialogVars, panelVars
<1>21. ASSUME NEW s \in OtherSessions, RenewCreates(s) \/ EndsElsewhere(s)
       PROVE  SettingsTypeOK'
       BY <1>21 DEF RenewCreates, EndsElsewhere, OnlySessions, dialogVars, panelVars
<1>22. CASE UNCHANGED settingsVars
       BY <1>22 DEF settingsVars, settingsServer, sessionVars, dialogVars, panelVars
<1>23. QED
  BY <1>1, <1>2, <1>3, <1>4, <1>5, <1>6, <1>7, <1>8, <1>9, <1>10, <1>11, <1>12, <1>13, <1>14,
     <1>15, <1>16, <1>17, <1>18, <1>19, <1>20, <1>21, <1>22 DEF SettingsNext

\* How the promise of a change of password is kept by each kind of step
LEMMA SettingsPromiseKept ==
    ASSUME SettingsInvariant, [SettingsNext]_settingsVars
    PROVE  PromisedKnown' /\ DoneEnded'
<1> USE DEF SettingsInvariant, SettingsTypeOK, PromisedKnown, DoneEnded
\* A new promise is made while nothing is said of the last one.
<1>1. CASE SubmitPasswords BY <1>1 DEF SubmitPasswords, ShowsForm, sessionVars
\* Ending every other session ends the promised ones, except those that are refreshing.
<1>2. CASE RevokeAllExceptCaller BY <1>2 DEF RevokeAllExceptCaller, End
\* The panel ends sessions too.
<1>3. CASE OneRevoked \/ OthersRevoked BY <1>3 DEF OneRevoked, OthersRevoked, End, dialogVars
<1>4. CASE OneNotRevoked \/ OthersNotRevoked
      BY <1>4 DEF OneNotRevoked, OthersNotRevoked, End, sessionVars, dialogVars
\* A session that signs in was not promised, and a refresh starts none that is over.
<1>5. ASSUME NEW s \in OtherSessions, SignInElsewhere(s) PROVE PromisedKnown' /\ DoneEnded'
      BY <1>5 DEF SignInElsewhere, OnlySessions, dialogVars
<1>6. ASSUME NEW s \in OtherSessions, RenewRevokes(s) \/ RenewCreates(s)
      PROVE  PromisedKnown' /\ DoneEnded'
      BY <1>6 DEF RenewRevokes, RenewCreates, OnlySessions, dialogVars
<1>7. ASSUME NEW s \in OtherSessions, EndsElsewhere(s) PROVE PromisedKnown' /\ DoneEnded'
      BY <1>7 DEF EndsElsewhere, OnlySessions, dialogVars
\* The answer says what was done; a failure says nothing.
<1>8. CASE PasswordChanged BY <1>8 DEF PasswordChanged, settingsServer, sessionVars
<1>9. CASE WritePassword BY <1>9 DEF WritePassword, settingsServer, sessionVars
<1>10. CASE ChangeFails BY <1>10 DEF ChangeFails, ReturnError, settingsServer, sessionVars
<1>11. CASE PasswordNotChanged BY <1>11 DEF PasswordNotChanged, settingsServer, sessionVars
\* Everything else leaves the promise, the sessions and the request alone.
<1>12. CASE \/ OpenPassword \/ ClosePassword \/ TypePasswords \/ SubmitWeak \/ TimerFires
       BY <1>12 DEF OpenPassword, ClosePassword, TypePasswords, SubmitWeak, TimerFires,
                    settingsServer, sessionVars
<1>13. CASE AskOthers \/ SignOutOne \/ SignOutOthers \/ RefreshList
       BY <1>13 DEF AskOthers, SignOutOne, SignOutOthers, RefreshList, settingsServer,
                    sessionVars, dialogVars
<1>14. CASE UNCHANGED settingsVars
       BY <1>14 DEF settingsVars, settingsServer, sessionVars, dialogVars
<1>15. QED
  BY <1>1, <1>2, <1>3, <1>4, <1>5, <1>6, <1>7, <1>8, <1>9, <1>10, <1>11, <1>12, <1>13, <1>14
  DEF SettingsNext

LEMMA SettingsStepKeeps == SettingsInvariant /\ [SettingsNext]_settingsVars => SettingsInvariant'
BY SettingsTypesKept, SettingsPromiseKept DEF SettingsInvariant

\* While the dialog says "Your other sessions have been signed out", every session that was
\* signed in when the new password was sent has ended, except those that were between the two
\* statements of a refresh when the API revoked the others: for any number of sessions, any
\* refreshes, failures and reopened dialogs.
THEOREM SettingsOthersSignedOut == SettingsSpec => []OthersSignedOut
<1>1. SettingsInvariant => OthersSignedOut BY DEF SettingsInvariant, DoneEnded, OthersSignedOut
<1>2. QED BY <1>1, SettingsInitially, SettingsStepKeeps, PTL DEF SettingsSpec

\* The type invariant of the settings page.
THEOREM SettingsTypes == SettingsSpec => []SettingsTypeOK
<1>1. SettingsInvariant => SettingsTypeOK BY DEF SettingsInvariant
<1>2. QED BY <1>1, SettingsInitially, SettingsStepKeeps, PTL DEF SettingsSpec

------------------------------------------------------------------------------
(* SearchBox *)

\* What is cached for a term and an organization matches them: SearchAnswered stores an answer
\* under the key of its own query, whatever the box shows by then.
FoundMatch == \A t \in Terms, o \in Places : found[<<t, o>>] \subseteq Matching(t, o)

SearchInvariant == SearchTypeOK /\ FoundMatch /\ OpensMatch

LEMMA FirstResultsMatch ==
    ASSUME SearchTypeOK, FoundMatch
    PROVE  FirstResults \subseteq Matching(debounced, place)
BY DEF SearchTypeOK, FoundMatch, FirstResults, SearchKey

LEMMA MatchingSearched == ASSUME NEW t, NEW o PROVE Matching(t, o) \subseteq Searched
BY DEF Matching

LEMMA SearchInitially == SearchInit => SearchInvariant
<1>1. SUFFICES ASSUME SearchInit PROVE SearchInvariant OBVIOUS
<1>2. place \in Places BY <1>1, SearchConstants DEF SearchInit
<1>3. SearchTypeOK BY <1>1, <1>2, SearchConstants DEF SearchInit, SearchTypeOK
<1>4. FoundMatch BY <1>1 DEF SearchInit, FoundMatch
<1>5. QED BY <1>1, <1>3, <1>4 DEF SearchInvariant, SearchInit, OpensMatch

\* Opening a result from the list or with Enter
LEMMA GoToKeeps ==
    ASSUME SearchInvariant, NEW s \in FirstResults, GoTo(s)
    PROVE  SearchInvariant'
<1>1. s \in Matching(debounced, place) /\ s \in Searched
      BY FirstResultsMatch, MatchingSearched DEF SearchInvariant
<1>2. opened' = [secret |-> s, term |-> debounced, place |-> place] BY DEF GoTo
<1>3. SearchTypeOK'
  <2>1. opened' \in [secret : Searched, term : Terms, place : Places]
        BY <1>1, <1>2 DEF SearchInvariant, SearchTypeOK
  <2>2. listOpen' \in BOOLEAN BY Zenon DEF GoTo
  <2>3. QED BY <2>1, <2>2, SearchConstants DEF SearchInvariant, SearchTypeOK, GoTo
<1>4. FoundMatch' BY DEF SearchInvariant, FoundMatch, GoTo, Matching
<1>5. OpensMatch' BY <1>1, <1>2 DEF OpensMatch, Matching
<1>6. QED BY <1>3, <1>4, <1>5 DEF SearchInvariant

LEMMA AnswerKeeps ==
    ASSUME SearchInvariant, SearchAnswered
    PROVE  SearchInvariant'
<1>1. PICK q \in asked :
        /\ asked' = asked \ {q}
        /\ \/ found' = [found EXCEPT ![SearchKey(q[1], q[2])] = Matching(q[1], q[2])]
           \/ UNCHANGED found
        /\ UNCHANGED <<place, term, debounced, listOpen, opened>>
      BY DEF SearchAnswered
<1>2. PICK t \in Terms, o \in Places : q = <<t, o>>
      BY DEF SearchInvariant, SearchTypeOK
<1>3. \A k \in Terms \X Places :
        found'[k] = found[k] \/ (k = q /\ found'[k] = Matching(t, o))
  <2>1. CASE UNCHANGED found BY <2>1
  <2>2. CASE found' = [found EXCEPT ![<<t, o>>] = Matching(t, o)]
        BY <1>2, <2>2 DEF SearchInvariant, SearchTypeOK
  <2>3. QED BY <1>1, <1>2, <2>1, <2>2 DEF SearchKey
<1>4. FoundMatch'
  <2>1. SUFFICES ASSUME NEW u \in Terms, NEW p \in Places
                 PROVE  found'[<<u, p>>] \subseteq Matching(u, p)
        BY DEF FoundMatch, Matching
  <2>2. CASE found'[<<u, p>>] = found[<<u, p>>]
        BY <2>2 DEF SearchInvariant, FoundMatch
  <2>3. CASE <<u, p>> = q /\ found'[<<u, p>>] = Matching(t, o)
        BY <1>2, <2>3
  <2>4. QED BY <1>3, <2>2, <2>3
<1>5. SearchTypeOK'
  <2>1. found' \in [Terms \X Places -> SUBSET Searched]
    <3>1. CASE UNCHANGED found BY <3>1 DEF SearchInvariant, SearchTypeOK
    <3>2. CASE found' = [found EXCEPT ![<<t, o>>] = Matching(t, o)]
          BY <3>2, MatchingSearched DEF SearchInvariant, SearchTypeOK
    <3>3. QED BY <1>1, <1>2, <3>1, <3>2 DEF SearchKey
  <2>2. QED BY <1>1, <2>1 DEF SearchInvariant, SearchTypeOK
<1>6. OpensMatch' BY <1>1 DEF SearchInvariant, OpensMatch, Matching
<1>7. QED BY <1>4, <1>5, <1>6 DEF SearchInvariant

\* Every step keeps the invariant: the box changes nothing that the cache and what was
\* opened depend on, a result is opened for the term and organization it is listed under.
LEMMA SearchStepKeeps == SearchInvariant /\ [SearchNext]_searchVars => SearchInvariant'
<1>1. SUFFICES ASSUME SearchInvariant, [SearchNext]_searchVars PROVE SearchInvariant'
      OBVIOUS
<1> USE <1>1
<1>2. ASSUME NEW t \in Terms, TypeTerm(t) PROVE SearchInvariant'
      BY <1>2 DEF SearchInvariant, SearchTypeOK, FoundMatch, OpensMatch, Matching, TypeTerm
<1>3. ASSUME NEW o \in Places, SwitchPlace(o) PROVE SearchInvariant'
  <2>1. asked' \subseteq Terms \X Places /\ listOpen' \in BOOLEAN
        BY <1>3 DEF SearchInvariant, SearchTypeOK, SwitchPlace, AskFor
  <2>2. SearchTypeOK' BY <1>3, <2>1 DEF SearchInvariant, SearchTypeOK, SwitchPlace
  <2>3. FoundMatch' /\ OpensMatch'
        BY <1>3 DEF SearchInvariant, FoundMatch, OpensMatch, Matching, SwitchPlace
  <2>4. QED BY <2>2, <2>3 DEF SearchInvariant
<1>4. CASE Debounce
  <2>1. asked' \subseteq Terms \X Places
        BY <1>4 DEF SearchInvariant, SearchTypeOK, Debounce, AskFor
  <2>2. SearchTypeOK' BY <1>4, <2>1 DEF SearchInvariant, SearchTypeOK, Debounce
  <2>3. FoundMatch' /\ OpensMatch'
        BY <1>4 DEF SearchInvariant, FoundMatch, OpensMatch, Matching, Debounce
  <2>4. QED BY <2>2, <2>3 DEF SearchInvariant
<1>5. CASE SearchAnswered BY <1>5, AnswerKeeps
<1>6. CASE PressEnter BY <1>6, GoToKeeps DEF PressEnter
<1>7. CASE ClickResult BY <1>7, GoToKeeps DEF ClickResult
<1>8. CASE Escape
      BY <1>8 DEF SearchInvariant, SearchTypeOK, FoundMatch, OpensMatch, Matching, Escape
<1>9. CASE UNCHANGED searchVars
      BY <1>9 DEF SearchInvariant, SearchTypeOK, FoundMatch, OpensMatch, Matching, searchVars
<1>10. QED BY <1>1, <1>2, <1>3, <1>4, <1>5, <1>6, <1>7, <1>8, <1>9 DEF SearchNext

\* The search box opens only secrets that match the debounced term in the organization the
\* user is in, for every number of organizations, terms and answers on the way.
THEOREM SearchBoxOpensMatch == SearchSpec => []OpensMatch
<1>1. SearchInvariant => OpensMatch BY DEF SearchInvariant
<1>2. QED BY <1>1, SearchInitially, SearchStepKeeps, PTL DEF SearchSpec

\* The type invariant of the search box.
THEOREM SearchBoxTypes == SearchSpec => []SearchTypeOK
<1>1. SearchInvariant => SearchTypeOK BY DEF SearchInvariant
<1>2. QED BY <1>1, SearchInitially, SearchStepKeeps, PTL DEF SearchSpec

------------------------------------------------------------------------------
(* AuditPage *)

(* Arithmetic of pages: the last page is the one that ends at or after the total. *)
LEMMA PagesNat == \A t \in Nat : PagesOf(t) \in Nat /\ (t > 0 => PagesOf(t) >= 1)
<1>1. SUFFICES ASSUME NEW t \in Nat PROVE PagesOf(t) \in Nat /\ (t > 0 => PagesOf(t) >= 1)
      OBVIOUS
<1>2. PageSize \in Nat /\ PageSize > 0 BY LogConstants
<1>3. QED BY <1>2 DEF PagesOf

\* A page before the last is full: what comes after it is not empty.
LEMMA PageBeforeLast ==
    ASSUME NEW t \in Nat, NEW p \in Nat, p < PagesOf(t)
    PROVE  t > p * PageSize
<1>1. PageSize \in Nat /\ PageSize > 0 BY LogConstants
<1> DEFINE d == PagesOf(t)
<1>2. d \in Nat BY PagesNat
<1>3. d * PageSize <= t + PageSize - 1 BY <1>1 DEF PagesOf
<1>4. p + 1 <= d BY <1>2
<1>5. (p + 1) * PageSize <= d * PageSize BY <1>1, <1>2, <1>4
<1>6. (p + 1) * PageSize = p * PageSize + PageSize BY <1>1
<1>7. p * PageSize \in Nat /\ d * PageSize \in Nat BY <1>1, <1>2
<1>8. QED BY <1>1, <1>3, <1>5, <1>6, <1>7

LEMMA PagesGrow ==
    ASSUME NEW t \in Nat, NEW u \in Nat, t <= u
    PROVE  PagesOf(t) <= PagesOf(u)
<1>1. PageSize \in Nat /\ PageSize > 0 BY LogConstants
<1>2. QED BY <1>1 DEF PagesOf
\* The shape of the variables that are functions
LogTables ==
    /\ events \in [LogFilters -> Nat]
    /\ totals \in [LogFilters \X LogPages -> Nat \cup {NoAnswer}]

\* As long as no filter was changed on a later page and the viewer lost no role, a page that
\* is shown or cached begins before the end of the log: the total that led to it said so, it
\* was the total of its filter at some time, and no event has been taken away since.
PagesBegin ==
    ~strayed /\ ~demoted =>
        /\ page > 1 => events[filter] > (page - 1) * PageSize
        /\ \A f \in LogFilters, p \in LogPages :
              totals[<<f, p>>] # NoAnswer =>
                  /\ totals[<<f, p>>] <= events[f]
                  /\ p > 1 => totals[<<f, p>>] > (p - 1) * PageSize

LogInvariant == LogTypeOK /\ LogTables /\ PagesBegin

LEMMA LogInitially == LogInit => LogInvariant
<1>1. SUFFICES ASSUME LogInit PROVE LogInvariant OBVIOUS
<1>2. PagesOf(MaxEvents[NoFilter]) \in Nat BY LogConstants, PagesNat
<1>3. 1 \in LogPages BY <1>2 DEF LogPages
<1>4. LogTables BY <1>1 DEF LogInit, LogTables
<1>5. \A k \in LogFilters \X LogPages : totals[k] = NoAnswer BY <1>1 DEF LogInit
<1>6. LogTypeOK
  <2>1. \A f \in LogFilters : events[f] \in 0..MaxEvents[f] BY <1>1, LogConstants DEF LogInit
  <2>2. {failed, details, strayed, demoted} \subseteq BOOLEAN BY <1>1, Zenon DEF LogInit
  <2>3. filter \in LogFilters /\ page \in LogPages BY <1>1, <1>3, LogConstants DEF LogInit
  <2>4. QED BY <1>5, <2>1, <2>2, <2>3 DEF LogTypeOK
<1>7. PagesBegin BY <1>1, <1>5 DEF LogInit, PagesBegin
<1>8. QED BY <1>4, <1>6, <1>7 DEF LogInvariant

\* The total shown is one that the filter had, and not more than it has if nothing was taken
\* away.
LEMMA TotalOfFilter ==
    ASSUME LogInvariant
    PROVE  /\ Total \in Nat /\ Total <= MaxEvents[NoFilter] /\ events[filter] \in Nat
           /\ ~strayed /\ ~demoted => Total <= events[filter]
<1>1. /\ filter \in LogFilters /\ page \in LogPages
      /\ <<filter, page>> \in LogFilters \X LogPages
      BY DEF LogInvariant, LogTypeOK
<1>2. events[filter] \in Nat BY <1>1 DEF LogInvariant, LogTypeOK, LogTables
<1>3. MaxEvents[filter] \in Nat /\ MaxEvents[NoFilter] \in Nat
      /\ MaxEvents[filter] <= MaxEvents[NoFilter]
      BY <1>1, LogConstants
<1>4. Answer = NoAnswer \/ Answer \in 0..MaxEvents[filter]
  <2>1. Answer = NoAnswer \/ Answer \in 0..MaxEvents[<<filter, page>>[1]]
        BY <1>1 DEF LogInvariant, LogTypeOK, Answer
  <2>2. QED BY <2>1
<1>5. ~strayed /\ ~demoted => Answer = NoAnswer \/ Answer <= events[filter]
      BY <1>1 DEF LogInvariant, PagesBegin, Answer
<1>6. QED BY <1>2, <1>3, <1>4, <1>5 DEF Total, HasTotal

\* Showing another page or filter of the same log
LEMMA ShowKeeps ==
    ASSUME LogInvariant, NEW f \in LogFilters, NEW p \in LogPages, Show(f, p),
           UNCHANGED <<events, totals, details, demoted>>, strayed' \in BOOLEAN,
           strayed => strayed',
           ~strayed' /\ ~demoted /\ p > 1 => events[f] > (p - 1) * PageSize
    PROVE  LogInvariant'
<1>1. filter' = f /\ page' = p /\ failed' = FALSE BY DEF Show
<1>2. LogTypeOK' BY <1>1 DEF LogInvariant, LogTypeOK
<1>3. LogTables' BY DEF LogInvariant, LogTables
<1>4. PagesBegin' BY <1>1 DEF LogInvariant, PagesBegin
<1>5. QED BY <1>2, <1>3, <1>4 DEF LogInvariant

LEMMA NextPageKeeps == ASSUME LogInvariant, NextPage PROVE LogInvariant'
<1>1. /\ page \in Nat /\ page >= 1 /\ filter \in LogFilters /\ strayed \in BOOLEAN
      BY DEF LogInvariant, LogTypeOK, LogPages
<1>2. /\ Total \in Nat /\ Total <= MaxEvents[NoFilter] /\ events[filter] \in Nat
      /\ ~strayed /\ ~demoted => Total <= events[filter]
      BY TotalOfFilter
<1>3. PagesOf(Total) \in Nat BY <1>2, PagesNat
<1>4. /\ page < PagesOf(Total) /\ Show(filter, page + 1)
      /\ UNCHANGED <<events, totals, details, strayed, demoted>>
      BY <1>1, <1>3 DEF NextPage, AtLast
<1>5. page + 1 \in LogPages
  <2>1. MaxEvents[NoFilter] \in Nat BY LogConstants
  <2>2. PagesOf(MaxEvents[NoFilter]) \in Nat /\ PagesOf(Total) <= PagesOf(MaxEvents[NoFilter])
        BY <1>2, <2>1, PagesNat, PagesGrow
  <2>3. QED BY <1>1, <1>3, <1>4, <2>2 DEF LogPages
<1>6. ~strayed /\ ~demoted => events[filter] > ((page + 1) - 1) * PageSize
  <2>1. Total > page * PageSize BY <1>1, <1>2, <1>4, PageBeforeLast
  <2>2. page * PageSize \in Nat BY <1>1, LogConstants
  <2>3. (page + 1) - 1 = page BY <1>1
  <2>4. QED BY <1>2, <2>1, <2>2, <2>3
<1>7. QED BY <1>1, <1>4, <1>5, <1>6, ShowKeeps

LEMMA PreviousPageKeeps == ASSUME LogInvariant, PreviousPage PROVE LogInvariant'
<1>1. /\ page \in LogPages /\ page \in Nat /\ page >= 1 /\ filter \in LogFilters
      /\ strayed \in BOOLEAN
      BY DEF LogInvariant, LogTypeOK, LogPages
<1>2. /\ page > 1 /\ Show(filter, page - 1)
      /\ UNCHANGED <<events, totals, details, strayed, demoted>>
      BY <1>1 DEF PreviousPage, AtFirst
<1>3. page - 1 \in LogPages
  <2>1. PagesOf(MaxEvents[NoFilter]) \in Nat BY LogConstants, PagesNat
  <2>2. QED BY <1>1, <1>2, <2>1 DEF LogPages
<1>4. events[filter] \in Nat BY <1>1, LogConstants DEF LogInvariant, LogTables
<1>5. ~strayed /\ ~demoted => events[filter] > ((page - 1) - 1) * PageSize
  <2>1. SUFFICES ASSUME ~strayed, ~demoted PROVE events[filter] > ((page - 1) - 1) * PageSize
        OBVIOUS
  <2>2. events[filter] > (page - 1) * PageSize BY <1>2, <2>1 DEF LogInvariant, PagesBegin
  <2>3. PageSize \in Nat BY LogConstants
  <2>4. (page - 1) * PageSize = ((page - 1) - 1) * PageSize + PageSize BY <1>1, <2>3
  <2>5. ((page - 1) - 1) * PageSize \in Nat BY <1>1, <1>2, <2>3
  <2>6. QED BY <1>4, <2>2, <2>3, <2>4, <2>5
<1>6. QED BY <1>1, <1>2, <1>3, <1>5, ShowKeeps

\* An answer is the total of the moment, of the filter and page shown.
LEMMA LogAnsweredKeeps == ASSUME LogInvariant, LogAnswered PROVE LogInvariant'
<1>1. /\ filter \in LogFilters /\ page \in LogPages /\ events[filter] \in Nat
      /\ events[filter] \in 0..MaxEvents[filter]
      BY DEF LogInvariant, LogTypeOK, LogTables
<1>2. /\ totals' = [totals EXCEPT ![<<filter, page>>] = events[filter]] /\ failed' = FALSE
      /\ UNCHANGED <<events, filter, page, details, strayed, demoted>>
      BY DEF LogAnswered
<1>3. totals \in [LogFilters \X LogPages -> Nat \cup {NoAnswer}]
      BY DEF LogInvariant, LogTables
<1>4. \A k \in LogFilters \X LogPages :
          totals'[k] = IF k = <<filter, page>> THEN events[filter] ELSE totals[k]
      BY <1>2, <1>3
<1>5. LogTables' BY <1>1, <1>2, <1>3 DEF LogInvariant, LogTables
<1>6. LogTypeOK'
  <2>1. \A k \in LogFilters \X LogPages :
            totals'[k] = NoAnswer \/ totals'[k] \in 0..MaxEvents[k[1]]
    <3>1. SUFFICES ASSUME NEW k \in LogFilters \X LogPages
                   PROVE  totals'[k] = NoAnswer \/ totals'[k] \in 0..MaxEvents[k[1]]
          OBVIOUS
    <3>2. CASE k = <<filter, page>>
      <4>1. k[1] = filter /\ totals'[k] = events[filter] BY <1>4, <3>1, <3>2
      <4>2. QED BY <1>1, <4>1
    <3>3. CASE k # <<filter, page>>
          BY <1>4, <3>1, <3>3 DEF LogInvariant, LogTypeOK
    <3>4. QED BY <3>2, <3>3
  <2>2. failed' \in BOOLEAN BY <1>2
  <2>3. QED BY <1>2, <2>1, <2>2 DEF LogInvariant, LogTypeOK
<1>7. PagesBegin' BY <1>1, <1>2, <1>4 DEF LogInvariant, PagesBegin
<1>8. QED BY <1>5, <1>6, <1>7 DEF LogInvariant

\* What is recorded only adds events.
LEMMA RecordKeeps == ASSUME LogInvariant, Record PROVE LogInvariant'
<1>1. PICK fs \in SUBSET LogFilters :
          /\ NoFilter \in fs /\ \A f \in fs : events[f] < MaxEvents[f]
          /\ events' = [f \in LogFilters |-> IF f \in fs THEN events[f] + 1 ELSE events[f]]
      BY DEF Record
<1>2. UNCHANGED <<filter, page, totals, failed, details, strayed, demoted>> BY DEF Record
<1>3. /\ filter \in LogFilters /\ page \in Nat
      /\ \A f \in LogFilters : events[f] \in Nat /\ MaxEvents[f] \in Nat
                               /\ events[f] <= MaxEvents[f]
      BY LogConstants DEF LogInvariant, LogTypeOK, LogTables, LogPages
<1>4. \A f \in LogFilters : /\ events'[f] \in Nat /\ events[f] <= events'[f]
                            /\ events'[f] <= MaxEvents[f]
      BY <1>1, <1>3
<1>5. LogTables' BY <1>1, <1>2, <1>3 DEF LogInvariant, LogTables
<1>6. LogTypeOK' BY <1>2, <1>3, <1>4 DEF LogInvariant, LogTypeOK
<1>7. PagesBegin'
  <2>1. (page - 1) * PageSize \in Int BY <1>3, LogConstants
  <2>2. ASSUME ~strayed, ~demoted, page > 1 PROVE events'[filter] > (page - 1) * PageSize
        BY <1>3, <1>4, <2>1, <2>2 DEF LogInvariant, PagesBegin
  <2>3. ASSUME ~strayed, ~demoted, NEW f \in LogFilters, NEW p \in LogPages,
               totals[<<f, p>>] # NoAnswer
        PROVE  /\ totals[<<f, p>>] <= events'[f]
               /\ p > 1 => totals[<<f, p>>] > (p - 1) * PageSize
    <3>1. /\ totals[<<f, p>>] <= events[f]
          /\ p > 1 => totals[<<f, p>>] > (p - 1) * PageSize
          BY <2>3 DEF LogInvariant, PagesBegin
    <3>2. totals[<<f, p>>] \in Nat BY <2>3 DEF LogInvariant, LogTables
    <3>3. QED BY <1>3, <1>4, <3>1, <3>2
  <2>4. QED BY <1>2, <2>2, <2>3 DEF PagesBegin
<1>8. QED BY <1>5, <1>6, <1>7 DEF LogInvariant

\* A viewer who loses a role sees fewer events; nothing is promised after that.
LEMMA DemoteKeeps == ASSUME LogInvariant, Demote PROVE LogInvariant'
<1>1. /\ demoted' = TRUE /\ events' \in [LogFilters -> 0..MaxEvents[NoFilter]]
      /\ \A f \in LogFilters : events'[f] <= events[f]
      /\ UNCHANGED <<filter, page, totals, failed, details, strayed>>
      BY DEF Demote
<1>2. LogTables' BY <1>1, LogConstants DEF LogInvariant, LogTables
<1>3. \A f \in LogFilters : events'[f] \in 0..MaxEvents[f]
  <2>1. SUFFICES ASSUME NEW f \in LogFilters PROVE events'[f] \in 0..MaxEvents[f] OBVIOUS
  <2>2. events[f] \in 0..MaxEvents[f] /\ MaxEvents[f] \in Nat /\ MaxEvents[NoFilter] \in Nat
        BY LogConstants DEF LogInvariant, LogTypeOK
  <2>3. events'[f] \in 0..MaxEvents[NoFilter] /\ events'[f] <= events[f] BY <1>1
  <2>4. QED BY <2>2, <2>3
<1>4. LogTypeOK'
  <2>1. demoted' \in BOOLEAN BY <1>1
  <2>2. QED BY <1>1, <1>3, <2>1 DEF LogInvariant, LogTypeOK
<1>5. PagesBegin' BY <1>1 DEF PagesBegin
<1>6. QED BY <1>2, <1>4, <1>5 DEF LogInvariant

LEMMA LogStepKeeps == LogInvariant /\ [LogNext]_logVars => LogInvariant'
<1>1. SUFFICES ASSUME LogInvariant, [LogNext]_logVars PROVE LogInvariant' OBVIOUS
<1>2. page \in LogPages /\ page \in Nat /\ page >= 1 /\ strayed \in BOOLEAN
      BY <1>1 DEF LogInvariant, LogTypeOK, LogPages
<1>3. ASSUME NEW f \in LogFilters, SelectFilter(f) PROVE LogInvariant'
  <2>1. /\ Show(f, page) /\ UNCHANGED <<events, totals, details, demoted>>
        /\ strayed' = (strayed \/ page > 1)
        BY <1>3 DEF SelectFilter
  <2>2. strayed' \in BOOLEAN /\ (strayed => strayed') /\ (~strayed' => ~(page > 1))
        BY <2>1
  <2>3. QED BY <1>1, <1>2, <2>1, <2>2, ShowKeeps
<1>4. CASE ClearFilters
  <2>1. Show(NoFilter, 1) /\ UNCHANGED <<events, totals, details, strayed, demoted>>
        BY <1>4 DEF ClearFilters
  <2>2. 1 \in LogPages
    <3>1. PagesOf(MaxEvents[NoFilter]) \in Nat BY LogConstants, PagesNat
    <3>2. QED BY <3>1 DEF LogPages
  <2>3. QED BY <1>1, <1>2, <2>1, <2>2, LogConstants, ShowKeeps
<1>5. CASE PreviousPage BY <1>1, <1>5, PreviousPageKeeps
<1>6. CASE NextPage BY <1>1, <1>6, NextPageKeeps
<1>7. CASE LogAnswered BY <1>1, <1>7, LogAnsweredKeeps
<1>8. CASE Record BY <1>1, <1>8, RecordKeeps
<1>9. CASE Demote BY <1>1, <1>9, DemoteKeeps
<1>10. CASE LogFails \/ SelectEvent \/ CloseDetails \/ UNCHANGED logVars
  <2>1. UNCHANGED <<events, filter, page, totals, strayed, demoted>>
        /\ {failed', details'} \subseteq BOOLEAN
        BY <1>1, <1>10 DEF LogFails, SelectEvent, CloseDetails, logVars, LogInvariant, LogTypeOK
  <2>2. QED BY <1>1, <2>1 DEF LogInvariant, LogTypeOK, LogTables, PagesBegin
<1>11. QED BY <1>1, <1>3, <1>4, <1>5, <1>6, <1>7, <1>8, <1>9, <1>10 DEF LogNext

\* A page that begins before the end of the log has rows.
LEMMA RowsShown == LogInvariant => EmptyPageHasCause
<1>1. SUFFICES ASSUME LogInvariant, HasTotal, Rows = 0, Total > 0, ~strayed, ~demoted
               PROVE FALSE
      BY DEF EmptyPageHasCause
<1>2. /\ page \in LogPages /\ page \in Nat /\ page >= 1 /\ filter \in LogFilters
      BY <1>1 DEF LogInvariant, LogTypeOK, LogPages
<1>3. Total \in Nat /\ Total = totals[<<filter, page>>]
      BY <1>1, TotalOfFilter DEF Total, Answer
<1>4. PageSize \in Nat /\ PageSize > 0 BY LogConstants
<1>5. (page - 1) * PageSize \in Nat BY <1>2, <1>4
<1>6. Total <= (page - 1) * PageSize
  <2>1. Total - (page - 1) * PageSize \in Int BY <1>3, <1>5
  <2>2. Total - (page - 1) * PageSize <= 0 BY <1>1, <1>4, <2>1 DEF Rows
  <2>3. QED BY <1>3, <1>5, <2>2
<1>7. CASE page = 1
  <2>1. (page - 1) * PageSize = 0 BY <1>4, <1>7
  <2>2. QED BY <1>1, <1>3, <1>6, <2>1
<1>8. CASE page > 1
  <2>1. totals[<<filter, page>>] # NoAnswer BY <1>1 DEF HasTotal, Answer
  <2>2. Total > (page - 1) * PageSize BY <1>1, <1>2, <1>3, <1>8, <2>1 DEF LogInvariant, PagesBegin
  <2>3. QED BY <1>3, <1>5, <1>6, <2>2
<1>9. QED BY <1>2, <1>7, <1>8

\* The type invariant of the audit log page.
THEOREM LogTypes == LogSpec => []LogTypeOK
<1>1. LogInvariant => LogTypeOK BY DEF LogInvariant
<1>2. QED BY <1>1, LogInitially, LogStepKeeps, PTL DEF LogSpec

\* Previous and Next never lead to an empty page of a log that has events, for any filters, page
\* size and number of events: an empty page comes of a filter changed on a later page or of a
\* role that the viewer lost, after which the API counts fewer events than an answer before.
THEOREM PagesHaveRows == LogSpec => []EmptyPageHasCause
BY LogInitially, LogStepKeeps, RowsShown, PTL DEF LogSpec

------------------------------------------------------------------------------
(* DotenvFile *)

LEMMA DotenvInitially == DotenvInit => DotenvTypeOK
<1>1. <<>> \in Seq(Characters) OBVIOUS
<1>2. \A s \in Seq(Characters) : <<s, s>> \in [1..2 -> Seq(Characters)] OBVIOUS
<1>3. <<<<>>, <<>>>> \in [1..2 -> Seq(Characters)] BY <1>1, <1>2
<1>4. QED BY <1>3 DEF DotenvInit, DotenvTypeOK, Edits

LEMMA DotenvStepKeeps == DotenvTypeOK /\ [DotenvNext]_dotenvVars => DotenvTypeOK'
<1>1. SUFFICES ASSUME DotenvTypeOK, [DotenvNext]_dotenvVars PROVE DotenvTypeOK' OBVIOUS
<1>2. CASE AddCharacter
  <2>1. PICK i \in 1..2, c \in Characters : fileValues' = [fileValues EXCEPT ![i] = Append(@, c)]
    BY <1>2 DEF AddCharacter
  <2>2. fileValues[i] \in Seq(Characters) BY <1>1 DEF DotenvTypeOK
  <2>3. Append(fileValues[i], c) \in Seq(Characters) BY <2>2
  <2>4. fileValues' \in [1..2 -> Seq(Characters)] BY <1>1, <2>1, <2>3 DEF DotenvTypeOK
  <2>5. QED BY <1>1, <1>2, <2>4 DEF AddCharacter, DotenvTypeOK
<1>3. CASE EditFile BY <1>1, <1>3 DEF EditFile, DotenvTypeOK
<1>4. CASE UNCHANGED dotenvVars BY <1>1, <1>4 DEF dotenvVars, DotenvTypeOK
<1>5. QED BY <1>1, <1>2, <1>3, <1>4 DEF DotenvNext

------------------------------------------------------------------------------
(* WebScreens *)

\* A step of the sum is, for each screen, a step of that screen's own or none.
LEMMA StepOfOneScreen ==
    ASSUME [ScreensNext]_<<screen, allVars>>
    PROVE  /\ [TransferNext]_transferVars /\ [TokenNext]_tokenVars /\ [FormNext]_formVars
           /\ [ChoiceNext]_choiceVars /\ [OrgNext]_orgVars /\ [AccessNext]_accessVars
           /\ [JoinNext]_joinVars /\ [SettingsNext]_settingsVars /\ [LogNext]_logVars
           /\ [SearchNext]_searchVars /\ [DotenvNext]_dotenvVars
<1>1. CASE TransferStep BY <1>1 DEF TransferStep
<1>2. CASE TokenStep BY <1>2 DEF TokenStep
<1>3. CASE FormStep BY <1>3 DEF FormStep
<1>4. CASE ChoiceStep BY <1>4 DEF ChoiceStep
<1>5. CASE OrgStep BY <1>5 DEF OrgStep
<1>6. CASE AccessStep BY <1>6 DEF AccessStep
<1>7. CASE JoinStep BY <1>7 DEF JoinStep
<1>8. CASE SettingsStep BY <1>8 DEF SettingsStep
<1>9. CASE LogStep BY <1>9 DEF LogStep
<1>10. CASE SearchStep BY <1>10 DEF SearchStep
<1>11. CASE DotenvStep BY <1>11 DEF DotenvStep
<1>12. CASE UNCHANGED <<screen, allVars>> BY <1>12 DEF allVars
<1>13. QED
  BY <1>1, <1>2, <1>3, <1>4, <1>5, <1>6, <1>7, <1>8, <1>9, <1>10, <1>11, <1>12 DEF ScreensNext

\* The screens side by side implement the specification of each of them: a behaviour of the sum
\* is a behaviour of every screen, so that what the run checks of the sum and what is proved of
\* a screen are about the same behaviours.
THEOREM ScreensImplementEach ==
    ScreensSpec => /\ TransferSpec /\ TokenSpec /\ FormSpec /\ ChoiceSpec /\ OrgSpec
                   /\ AccessSpec /\ JoinSpec /\ SettingsSpec /\ LogSpec /\ SearchSpec
<1>1. ScreensInit => /\ TransferInit /\ TokenInit /\ FormInit /\ ChoiceInit /\ OrgInit
                     /\ AccessInit /\ JoinInit /\ SettingsInit /\ LogInit /\ SearchInit
  BY DEF ScreensInit
<1>2. QED
  BY <1>1, StepOfOneScreen, PTL
  DEF ScreensSpec, TransferSpec, TokenSpec, FormSpec, ChoiceSpec, OrgSpec, AccessSpec,
      JoinSpec, SettingsSpec, LogSpec, SearchSpec

\* Files are written from values that are texts.
THEOREM DotenvTypes == ScreensSpec => []DotenvTypeOK
<1>1. ScreensInit => DotenvTypeOK BY DotenvInitially DEF ScreensInit
<1>2. DotenvTypeOK /\ [ScreensNext]_<<screen, allVars>> => DotenvTypeOK'
  BY DotenvStepKeeps, StepOfOneScreen
<1>3. QED BY <1>1, <1>2, PTL DEF ScreensSpec

\* Every screen's state keeps its type, for any constants.
THEOREM ScreensTypes == ScreensSpec => []ScreensTypeOK
<1>1. ScreensInit => screen \in Screens BY DEF ScreensInit
<1>2. screen \in Screens /\ [ScreensNext]_<<screen, allVars>> => (screen \in Screens)'
  BY DEF ScreensNext, TransferStep, TokenStep, FormStep, ChoiceStep, OrgStep, AccessStep,
         JoinStep, SettingsStep, LogStep, SearchStep, DotenvStep
<1>3. ScreensSpec => [](screen \in Screens) BY <1>1, <1>2, PTL DEF ScreensSpec
<1>4. ScreensTypeOK <=> /\ screen \in Screens
                        /\ TransferTypeOK /\ TokenTypeOK /\ FormTypeOK /\ ChoiceTypeOK
                        /\ OrgTypeOK /\ AccessTypeOK /\ JoinTypeOK /\ SettingsTypeOK
                        /\ LogTypeOK /\ SearchTypeOK /\ DotenvTypeOK
  BY DEF ScreensTypeOK
<1>5. QED
  BY <1>3, <1>4, ScreensImplementEach, TransferTypes, TokenTypes, FormTypes, ChoiceTypes,
     OrganizationTypes, AccessTypes, JoinTypes, SettingsTypes, LogTypes, SearchBoxTypes,
     DotenvTypes, PTL

\* What the run of the screens checks of each of them holds in their sum, for any constants.
THEOREM ScreensKeepTheirPromises ==
    ScreensSpec => [](/\ ImportAsPreviewed /\ TokenShownWhereMade /\ ShownTokenWorks
                      /\ ValueTypedForSecret /\ PageOffersOnlyAllowed /\ ChoiceKept
                      /\ RemovedByEmail /\ SaysWhatHappened /\ OthersSignedOut
                      /\ EmptyPageHasCause /\ OpensMatch)
<1>1. QED
  BY ScreensImplementEach, ImportsDoAsPreviewed, TokensAreShownWhereMade, ShownTokensWork,
     ValuesStayWithTheirSecret, OffersAreAllowed, ChoiceIsKept, RemovalNeedsEmail,
     PagesSayWhatHappened, SettingsOthersSignedOut, PagesHaveRows, SearchBoxOpensMatch, PTL
============================================================================
