--------------------------- MODULE JoinPages ---------------------------
(***************************************************************************)
(* The pages outside the console: joining by an invitation (InvitePage,    *)
(* RegisterPage, LoginPage), verifying an address (VerifyEmailPage,        *)
(* ResendVerificationButton) and resetting a password (ForgotPasswordPage, *)
(* ResetPasswordPage), in one tab, with what the API does for each.        *)
(*                                                                         *)
(* One address is invited; somebody else may be signed in.  While a        *)
(* request is in progress the page is left only by loading another one.    *)
(***************************************************************************)
JoinPageNames == {"home", "invite", "register", "login", "verify", "forgot", "reset"}
Steps == {"none", "accept", "refresh", "register", "signIn", "login", "verify", "forgot", "reset",
          "resend"}

VARIABLES
    invitation,     \* server: "open", "used" or "closed"
    account,        \* server: the account of the invited address
    member,         \* server: it belongs to the organization
    verifyLink, resetLink,  \* server: a link was mailed and not used
    wasReset,       \* server: the password was reset since the reset page was opened
    signedIn,       \* the user of the tab
    at,             \* the page
    said,           \* what the page shows of its last request
    step,           \* the request awaited
    inviteShown,    \* the invitation as looked up: of a new or a known address
    withInvite,     \* the address of the register page carries the invitation
    back,           \* the page the login page returns to
    token,          \* the reset page holds the token of its link
    unverified,     \* needsVerification
    cameFrom        \* history: the page whose handler went to the console

joinServer == <<invitation, account, member, verifyLink, resetLink, wasReset>>
joinForm == <<withInvite, back, token, unverified>>
joinVars == <<joinServer, signedIn, at, said, step, inviteShown, joinForm, cameFrom>>

Idle == step = "none"
Await(s) == step' = s /\ said' = "busy"

\* Fault: the page goes on although the request failed.
LeaveAnyway == said' = "idle" /\ step' = "none" /\ at' = "home" /\ cameFrom' = at

StayWithError == said' = "error" /\ step' = "none" /\ UNCHANGED <<at, cameFrom>>
Enter(p) == said' = "idle" /\ step' = "none" /\ at' = p /\ cameFrom' = at

------------------------------------------------------------------------------
(* Getting to a page *)

\* A link in an email or the address bar loads the page; what was in progress is lost.
LoadPage(p) ==
    /\ at' = p /\ cameFrom' = "none"
    /\ IF p = "verify" THEN Await("verify") ELSE (said' = "idle" /\ step' = "none")
    /\ inviteShown' = "loading" /\ withInvite' = FALSE /\ back' = "home"
    /\ token' = (p = "reset") /\ unverified' = FALSE
    /\ wasReset' = FALSE
    /\ UNCHANGED <<invitation, account, member, verifyLink, resetLink, signedIn>>

\* Links and buttons inside the client
Follow(p) ==
    /\ Idle /\ at # p /\ (at = "home" => signedIn = "nobody")
    /\ p \in {"home", "login", "register", "forgot"}
    /\ at' = p /\ said' = "idle" /\ cameFrom' = "none" /\ back' = "home"
    /\ withInvite' = FALSE /\ token' = FALSE /\ unverified' = FALSE
    /\ UNCHANGED <<joinServer, signedIn, step, inviteShown>>

\* The token was taken out of the address: reloading the page loses it.
ReloadReset ==
    /\ at = "reset" /\ token /\ token' = FALSE
    /\ said' = "idle" /\ step' = "none" /\ wasReset' = FALSE
    /\ UNCHANGED <<invitation, account, member, verifyLink, resetLink, signedIn, at, inviteShown,
                   withInvite, back, unverified, cameFrom>>

------------------------------------------------------------------------------
(* Invitations *)

ShowsInvite == at = "invite" \/ (at = "register" /\ withInvite)
LookedUp ==
    IF invitation # "open" THEN "failed" ELSE IF account = "none" THEN "new" ELSE "known"

\* Asked when the page is shown and when the window is focused again; any failure looks the same.
LookUp ==
    /\ ShowsInvite /\ inviteShown' \in {LookedUp, "failed"} /\ inviteShown' # inviteShown
    /\ UNCHANGED <<joinServer, signedIn, at, said, step, joinForm, cameFrom>>

ClickAccept ==
    /\ at = "invite" /\ Idle /\ inviteShown \in {"new", "known"} /\ signedIn = "invitee"
    /\ Await("accept")
    /\ UNCHANGED <<joinServer, signedIn, at, inviteShown, joinForm, cameFrom>>

Acceptable == invitation = "open" /\ account # "none" /\ ~member
Claim == member' = TRUE /\ invitation' = "used"

AcceptServed ==
    /\ step = "accept" /\ Acceptable /\ Claim
    /\ step' = "refresh"
    /\ UNCHANGED <<account, verifyLink, resetLink, wasReset, signedIn, at, said, inviteShown,
                   joinForm, cameFrom>>

\* Refused, or accepted and the answer lost
AcceptFailed ==
    /\ step = "accept"
    /\ \/ Acceptable /\ Claim
       \/ UNCHANGED <<member, invitation>>
    /\ StayWithError
    /\ UNCHANGED <<account, verifyLink, resetLink, wasReset, signedIn, inviteShown, joinForm>>

UserRefreshed ==
    /\ step = "refresh" /\ Enter("home")
    /\ UNCHANGED <<joinServer, signedIn, inviteShown, joinForm>>

\* The invitation is accepted, but the page shows an error.
UserNotRefreshed ==
    /\ step = "refresh" /\ StayWithError
    /\ UNCHANGED <<joinServer, signedIn, inviteShown, joinForm>>

ClickLogOut ==
    /\ at = "invite" /\ Idle /\ inviteShown \in {"new", "known"} /\ signedIn = "other"
    /\ signedIn' = "nobody"
    /\ UNCHANGED <<joinServer, at, said, step, inviteShown, joinForm, cameFrom>>

LogInToAccept ==
    /\ at = "invite" /\ Idle /\ inviteShown = "known" /\ signedIn = "nobody"
    /\ at' = "login" /\ back' = "invite" /\ said' = "idle"
    /\ UNCHANGED <<joinServer, signedIn, step, inviteShown, withInvite, token, unverified, cameFrom>>

CreateAccount ==
    /\ at = "invite" /\ Idle /\ inviteShown = "new" /\ signedIn = "nobody"
    /\ at' = "register" /\ withInvite' = TRUE /\ said' = "idle"
    /\ UNCHANGED <<joinServer, signedIn, step, inviteShown, back, token, unverified, cameFrom>>

------------------------------------------------------------------------------
(* Registering and signing in *)

\* Passwords that differ, or that passwordProblem refuses, are an error and no request.
RegisterRefusedHere ==
    /\ at \in {"register", "reset"} /\ (at = "reset" => token) /\ Idle /\ said # "done"
    /\ said' = "error"
    /\ UNCHANGED <<joinServer, signedIn, at, step, inviteShown, joinForm, cameFrom>>

SubmitRegister ==
    /\ at = "register" /\ Idle /\ said # "done" /\ Await("register")
    /\ UNCHANGED <<joinServer, signedIn, at, inviteShown, joinForm, cameFrom>>

\* With an invitation the account is verified and joins in the same transaction.
Register ==
    /\ account = "none"
    /\ IF withInvite
       THEN invitation = "open" /\ Claim /\ account' = "verified" /\ UNCHANGED verifyLink
       ELSE account' = "unverified" /\ verifyLink' = TRUE /\ UNCHANGED <<member, invitation>>

RegisterServed ==
    /\ step = "register" /\ Register
    /\ IF withInvite
       THEN (step' = "signIn" /\ UNCHANGED said)
       ELSE (step' = "none" /\ said' = "done")
    /\ UNCHANGED <<resetLink, wasReset, signedIn, at, inviteShown, joinForm, cameFrom>>

RegisterFailed ==
    /\ step = "register"
    /\ \/ Register
       \/ UNCHANGED <<account, verifyLink, member, invitation>>
    /\ StayWithError
    /\ UNCHANGED <<resetLink, wasReset, signedIn, inviteShown, joinForm>>

SignedUp ==
    /\ step = "signIn" /\ signedIn' = "invitee" /\ Enter("home")
    /\ UNCHANGED <<joinServer, inviteShown, joinForm>>

SignUpFailed ==
    /\ step = "signIn" /\ StayWithError
    /\ UNCHANGED <<joinServer, signedIn, inviteShown, joinForm>>

SubmitLogin ==
    /\ at = "login" /\ Idle /\ Await("login") /\ unverified' = FALSE
    /\ UNCHANGED <<joinServer, signedIn, at, inviteShown, withInvite, back, token, cameFrom>>

LoginServed(p) ==
    /\ step = "login" /\ (p = "invitee" => account = "verified")
    /\ signedIn' = p /\ at' = back /\ cameFrom' = "login" /\ said' = "idle" /\ step' = "none"
    /\ UNCHANGED <<joinServer, inviteShown, joinForm>>

LoginRefused ==
    /\ step = "login" /\ StayWithError
    /\ unverified' \in {FALSE, account = "unverified"}
    /\ UNCHANGED <<joinServer, signedIn, inviteShown, withInvite, back, token>>

\* The resend button, on the page that says an email was sent and on the login page
ClickResend ==
    /\ Idle
    /\ \/ at = "register" /\ said = "done"
       \/ at = "login" /\ unverified
    /\ step' = "resend"
    /\ UNCHANGED <<joinServer, signedIn, at, said, inviteShown, joinForm, cameFrom>>

ResendEnds ==
    /\ step = "resend" /\ step' = "none"
    /\ verifyLink' \in {verifyLink, verifyLink \/ account = "unverified"}
    /\ UNCHANGED <<invitation, account, member, resetLink, wasReset, signedIn, at, said, inviteShown,
                   joinForm, cameFrom>>

------------------------------------------------------------------------------
(* Verifying an address, resetting a password *)

\* The page sends its token as soon as it is loaded.
Verify == verifyLink /\ verifyLink' = FALSE /\ account' = "verified"
VerifyServed ==
    /\ step = "verify" /\ Verify /\ said' = "done" /\ step' = "none"
    /\ UNCHANGED <<invitation, member, resetLink, wasReset, signedIn, at, inviteShown, joinForm,
                   cameFrom>>

VerifyFailed ==
    /\ step = "verify"
    /\ \/ Verify
       \/ UNCHANGED <<verifyLink, account>>
    /\ StayWithError
    /\ UNCHANGED <<invitation, member, resetLink, wasReset, signedIn, inviteShown, joinForm>>

SubmitForgot ==
    /\ at = "forgot" /\ Idle /\ said # "done" /\ Await("forgot")
    /\ UNCHANGED <<joinServer, signedIn, at, inviteShown, joinForm, cameFrom>>

\* The answer is the same whether there is an account or not.
ForgotEnds ==
    /\ step = "forgot" /\ step' = "none" /\ said' \in {"done", "error"}
    /\ resetLink' = (resetLink \/ (account # "none" /\ said' = "done"))
    /\ UNCHANGED <<invitation, account, member, verifyLink, wasReset, signedIn, at, inviteShown,
                   joinForm, cameFrom>>

SubmitReset ==
    /\ at = "reset" /\ token /\ Idle /\ said # "done" /\ Await("reset")
    /\ UNCHANGED <<joinServer, signedIn, at, inviteShown, joinForm, cameFrom>>

Reset == resetLink /\ resetLink' = FALSE /\ wasReset' = TRUE
ResetServed ==
    /\ step = "reset" /\ Reset /\ said' = "done" /\ step' = "none"
    /\ UNCHANGED <<invitation, account, member, verifyLink, signedIn, at, inviteShown, joinForm,
                   cameFrom>>

ResetFailed ==
    /\ step = "reset"
    /\ \/ Reset
       \/ UNCHANGED <<resetLink, wasReset>>
    /\ StayWithError
    /\ UNCHANGED <<invitation, account, member, verifyLink, signedIn, inviteShown, joinForm>>

\* A manager revokes the invitation or invites again.
InviteElsewhere ==
    /\ ~member /\ invitation' = IF invitation = "open" THEN "closed" ELSE "open"
    /\ UNCHANGED <<account, member, verifyLink, resetLink, wasReset, signedIn, at, said, step,
                   inviteShown, joinForm, cameFrom>>

------------------------------------------------------------------------------
JoinInit ==
    /\ invitation = "open" /\ account = "none" /\ member = FALSE
    /\ verifyLink = FALSE /\ resetLink = FALSE /\ wasReset = FALSE
    /\ signedIn = "nobody" /\ at = "login" /\ said = "idle" /\ step = "none"
    /\ inviteShown = "loading" /\ withInvite = FALSE /\ back = "home" /\ token = FALSE
    /\ unverified = FALSE /\ cameFrom = "none"

JoinNext ==
    \/ \E p \in JoinPageNames : LoadPage(p) \/ Follow(p)
    \/ \E p \in {"invitee", "other"} : LoginServed(p)
    \/ LookUp \/ ClickAccept \/ AcceptServed \/ AcceptFailed \/ UserRefreshed \/ UserNotRefreshed
    \/ ClickLogOut \/ LogInToAccept \/ CreateAccount \/ ReloadReset
    \/ RegisterRefusedHere \/ SubmitRegister \/ RegisterServed \/ RegisterFailed
    \/ SignedUp \/ SignUpFailed \/ SubmitLogin \/ LoginRefused \/ ClickResend \/ ResendEnds
    \/ VerifyServed \/ VerifyFailed \/ SubmitForgot \/ ForgotEnds
    \/ SubmitReset \/ ResetServed \/ ResetFailed \/ InviteElsewhere

JoinSpec == JoinInit /\ [][JoinNext]_joinVars

JoinTypeOK ==
    /\ invitation \in {"open", "used", "closed"} /\ account \in {"none", "unverified", "verified"}
    /\ {member, verifyLink, resetLink, wasReset, withInvite, token, unverified} \subseteq BOOLEAN
    /\ signedIn \in {"nobody", "invitee", "other"}
    /\ at \in JoinPageNames /\ said \in {"idle", "busy", "error", "done"} /\ step \in Steps
    /\ inviteShown \in {"loading", "new", "known", "failed"} /\ back \in {"home", "invite"}
    /\ cameFrom \in JoinPageNames \cup {"none"}

\* What a page says has happened has happened: it goes to the console only with a user who
\* has joined the organization, and says "verified" and "reset" only of an address that is
\* verified and a password that was changed by it, whichever requests failed on the way.
SaysWhatHappened ==
    /\ (at = "home" /\ cameFrom \in {"invite", "register"}) => (signedIn = "invitee" /\ member)
    /\ (at = "verify" /\ said = "done") => account = "verified"
    /\ (at = "reset" /\ said = "done") => wasReset
=============================================================================
