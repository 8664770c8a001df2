-------------------------- MODULE SettingsPage --------------------------
(***************************************************************************)
(* The settings page of one user: the Change Password dialog, which the    *)
(* user may close while its request is in progress and which a timer       *)
(* closes after a success, and the sessions panel, over the sessions the   *)
(* API keeps.  The session of the tab is always shown and never ended from *)
(* here; the others are OtherSessions, each signed in once.  They go on    *)
(* refreshing their tokens: between the two statements of a refresh a      *)
(* session has no token that a sign-out could revoke.                      *)
(*                                                                         *)
(* Bounds: one password request, one sign-out of one session and one of    *)
(* all others at a time (each disables its buttons), two timers.  The      *)
(* panel's notice and error texts are left out.                            *)
(***************************************************************************)
EXTENDS Naturals

CONSTANT OtherSessions

Entries == {"blank", "filled"}
ChangeStates == {"none", "sent", "written", "done", "failed"}
MaxTimers == 2

VARIABLES
    sessions,       \* server: other sessions with a usable refresh token
    renewing,       \* server: those whose refresh has revoked its token and not stored the next
    over,           \* server: those that have ended
    promised,       \* history: sessions that were signed in when the change was sent
    raced,          \* history: those in the middle of a refresh when the API revoked the others
    passwordOpen,   \* showPasswordDialog
    entry,          \* what the three password fields hold
    passwordError, success,
    change,         \* the password request; isSubmitting is change # "none"
    timers,         \* timeouts of successes that have not fired
    shownSessions,  \* the other sessions the panel lists
    confirmOthers,  \* the panel asks whether to sign out the others
    endingOne,      \* revokeSession: the session it is to end, if it is in progress
    endingOthers    \* revokeOthers is in progress

sessionVars == <<sessions, renewing, over>>
settingsServer == <<sessionVars, promised, raced>>
dialogVars == <<passwordOpen, entry, passwordError, success, change, timers>>
panelVars == <<shownSessions, confirmOthers, endingOne, endingOthers>>
settingsVars == <<settingsServer, dialogVars, panelVars>>

------------------------------------------------------------------------------
(* The dialog *)

OpenPassword ==
    /\ ~passwordOpen /\ passwordOpen' = TRUE
    /\ UNCHANGED <<settingsServer, entry, passwordError, success, change, timers, panelVars>>

\* The X works at any time, Cancel only while nothing is being sent.
ClosePassword ==
    /\ passwordOpen /\ passwordOpen' = FALSE
    /\ entry' = "blank" /\ passwordError' = FALSE /\ success' = FALSE
    /\ UNCHANGED <<settingsServer, change, timers, panelVars>>

ShowsForm == passwordOpen /\ ~success /\ change = "none"

TypePasswords ==
    /\ ShowsForm /\ entry' \in Entries \ {entry}
    /\ UNCHANGED <<settingsServer, passwordOpen, passwordError, success, change, timers, panelVars>>

\* New passwords that differ or are too weak are not sent.
SubmitWeak ==
    /\ ShowsForm /\ entry = "filled" /\ passwordError' = TRUE
    /\ UNCHANGED <<settingsServer, passwordOpen, entry, success, change, timers, panelVars>>

SubmitPasswords ==
    /\ ShowsForm /\ entry = "filled"
    /\ change' = "sent" /\ passwordError' = FALSE /\ promised' = sessions \cup renewing
    /\ UNCHANGED <<sessionVars, raced, passwordOpen, entry, success, timers, panelVars>>

------------------------------------------------------------------------------
(* ChangePassword of the API: the password, then the sessions *)

WritePassword ==
    /\ change = "sent" /\ change' = "written"
    /\ UNCHANGED <<settingsServer, passwordOpen, entry, passwordError, success, timers, panelVars>>

\* Revoking tokens ends the sessions that have one; a refresh on its way stores its token after.
End(ss) ==
    sessions' = sessions \ ss /\ over' = over \cup (ss \cap sessions) /\ UNCHANGED renewing

RevokeAllExceptCaller ==
    /\ change = "written" /\ change' = "done" /\ End(OtherSessions) /\ raced' = renewing
    /\ UNCHANGED <<promised, passwordOpen, entry, passwordError, success, timers, panelVars>>

\* Fault: the API answers success although it did not revoke the sessions.
IgnoreError == "done"

ReturnError == "failed"

\* A wrong current password, an error at either step, or the answer lost
ChangeFails ==
    /\ change \in {"sent", "written", "done"}
    /\ change' = IF change = "written" THEN ReturnError ELSE "failed"
    /\ UNCHANGED <<settingsServer, passwordOpen, entry, passwordError, success, timers, panelVars>>

PasswordChanged ==
    /\ change = "done" /\ timers < MaxTimers
    /\ success' = TRUE /\ entry' = "blank" /\ timers' = timers + 1 /\ change' = "none"
    /\ UNCHANGED <<settingsServer, passwordOpen, passwordError, panelVars>>

PasswordNotChanged ==
    /\ change = "failed" /\ passwordError' = TRUE /\ change' = "none"
    /\ UNCHANGED <<settingsServer, passwordOpen, entry, success, timers, panelVars>>

\* Two seconds after a success, whatever the dialog has come to show since
TimerFires ==
    /\ timers > 0 /\ timers' = timers - 1
    /\ passwordOpen' = FALSE /\ success' = FALSE
    /\ UNCHANGED <<settingsServer, entry, passwordError, change, panelVars>>

------------------------------------------------------------------------------
(* The sessions panel *)

AskOthers ==
    /\ shownSessions # {} /\ confirmOthers' = ~confirmOthers
    /\ UNCHANGED <<settingsServer, dialogVars, shownSessions, endingOne, endingOthers>>

SignOutOne ==
    /\ endingOne = {} /\ \E s \in shownSessions : endingOne' = {s}
    /\ UNCHANGED <<settingsServer, dialogVars, shownSessions, confirmOthers, endingOthers>>

SignOutOthers ==
    /\ shownSessions # {} /\ confirmOthers /\ ~endingOthers /\ endingOthers' = TRUE
    /\ UNCHANGED <<settingsServer, dialogVars, shownSessions, confirmOthers, endingOne>>

\* Ending a session without a usable token is a refusal; ending all others is not.
OneRevoked ==
    /\ endingOne # {} /\ endingOne \subseteq sessions /\ End(endingOne)
    /\ shownSessions' = sessions' /\ endingOne' = {}
    /\ UNCHANGED <<promised, raced, dialogVars, confirmOthers, endingOthers>>

OthersRevoked ==
    /\ endingOthers /\ End(OtherSessions)
    /\ shownSessions' = sessions' /\ endingOthers' = FALSE
    /\ confirmOthers' = FALSE
    /\ UNCHANGED <<promised, raced, dialogVars, endingOne>>

\* Refused, or done and the answer lost: the list is as it was.
OneNotRevoked ==
    /\ endingOne # {} /\ endingOne' = {}
    /\ UNCHANGED sessionVars \/ End(endingOne)
    /\ UNCHANGED <<promised, raced, dialogVars, shownSessions, confirmOthers, endingOthers>>

OthersNotRevoked ==
    /\ endingOthers /\ endingOthers' = FALSE
    /\ UNCHANGED sessionVars \/ End(OtherSessions)
    /\ UNCHANGED <<promised, raced, dialogVars, shownSessions, confirmOthers, endingOne>>

RefreshList ==
    /\ shownSessions' = sessions /\ shownSessions' # shownSessions
    /\ UNCHANGED <<settingsServer, dialogVars, confirmOthers, endingOne, endingOthers>>

------------------------------------------------------------------------------
(* The other sessions *)

OnlySessions == UNCHANGED <<promised, raced, dialogVars, panelVars>>

SignInElsewhere(s) ==
    /\ s \notin sessions \cup renewing \cup over /\ sessions' = sessions \cup {s}
    /\ UNCHANGED <<renewing, over>> /\ OnlySessions

\* Refresh: RevokeByID, which only an unrevoked token passes, and later Create.
RenewRevokes(s) ==
    /\ s \in sessions /\ sessions' = sessions \ {s} /\ renewing' = renewing \cup {s}
    /\ UNCHANGED over /\ OnlySessions

RenewCreates(s) ==
    /\ s \in renewing /\ renewing' = renewing \ {s} /\ sessions' = sessions \cup {s}
    /\ UNCHANGED over /\ OnlySessions

\* Signed out there, expired, or its refresh cut off between the two statements
EndsElsewhere(s) ==
    /\ s \in sessions \cup renewing /\ over' = over \cup {s}
    /\ sessions' = sessions \ {s} /\ renewing' = renewing \ {s}
    /\ OnlySessions

------------------------------------------------------------------------------
SettingsInit ==
    /\ sessions = {} /\ renewing = {} /\ over = {} /\ promised = {} /\ raced = {}
    /\ passwordOpen = FALSE /\ entry = "blank"
    /\ passwordError = FALSE /\ success = FALSE /\ change = "none" /\ timers = 0
    /\ shownSessions = {} /\ confirmOthers = FALSE
    /\ endingOne = {} /\ endingOthers = FALSE

SettingsNext ==
    \/ OpenPassword \/ ClosePassword \/ TypePasswords \/ SubmitWeak \/ SubmitPasswords
    \/ WritePassword \/ RevokeAllExceptCaller \/ ChangeFails
    \/ PasswordChanged \/ PasswordNotChanged \/ TimerFires
    \/ AskOthers \/ SignOutOne \/ SignOutOthers
    \/ OneRevoked \/ OthersRevoked \/ OneNotRevoked \/ OthersNotRevoked \/ RefreshList
    \/ \E s \in OtherSessions :
          SignInElsewhere(s) \/ RenewRevokes(s) \/ RenewCreates(s) \/ EndsElsewhere(s)

SettingsSpec == SettingsInit /\ [][SettingsNext]_settingsVars

SettingsTypeOK ==
    /\ {sessions, renewing, over, promised, raced, shownSessions, endingOne}
           \subseteq SUBSET OtherSessions
    /\ {passwordOpen, passwordError, success, confirmOthers, endingOthers} \subseteq BOOLEAN
    /\ entry \in Entries /\ change \in ChangeStates /\ timers \in 0..MaxTimers

\* "Your other sessions have been signed out" is said only when every session that was signed
\* in when the user sent the new password has ended, however the two writes of the API, the
\* refreshes of those sessions, lost answers, reopened dialogs and the timers of earlier changes
\* fall together.  The sessions that were in the middle of a refresh at the very moment of the
\* revocation are the only ones that can outlive the message.
OthersSignedOut == success => promised \cap (sessions \cup renewing) \subseteq raced
=============================================================================
