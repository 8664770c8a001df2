------------------------ MODULE OrganizationPage ------------------------
(***************************************************************************)
(* The page that manages an organization: its name, members, roles and     *)
(* invitations (OrganizationPage.tsx, InviteMemberDialog.tsx), and what    *)
(* the API allows (organizations/service.go, invite.go).  The user may     *)
(* switch between organizations; colleagues change the same things.        *)
(*                                                                         *)
(* One outside address is invited, and an invitation is told by its number: *)
(* the page revokes the one it lists, which may have been replaced or have  *)
(* expired.  Roles below admin are all the same here.                       *)
(***************************************************************************)
EXTENDS FiniteSets, Naturals

CONSTANTS
    Orgs, Staff, Me, NoOne,
    FirstRoles,         \* the roles at the start
    MaxChanges          \* bound on the changes of roles and invitations

OrgRoles == {"owner", "admin", "viewer"}
NoRole == "none"
RoleTables == [Orgs -> [Staff -> OrgRoles \cup {NoRole}]]

ASSUME PageConstants ==
    /\ Orgs # {} /\ IsFiniteSet(Staff)
    /\ Me \in Staff /\ NoOne \notin Orgs \cup Staff
    /\ FirstRoles \in RoleTables /\ MaxChanges \in Nat

VARIABLES
    role,               \* server: the role of each person in each organization
    invited,            \* server: the open invitation of each organization, or NoInvite
    changes,            \* changes of these so far
    org,                \* the current organization
    orgRole,            \* query cache: my role in each organization
    roster, invites,    \* query cache: members and invitation of each organization
    renaming,           \* editingName
    removing,           \* the member the confirmation dialog is about
    inviting,           \* showInvite
    request             \* the request in flight

people == <<role, invited, changes>>
orgCache == <<orgRole, roster, invites>>
orgView == <<org, renaming, removing, inviting>>
orgVars == <<people, orgCache, orgView, request>>

InviteIds == 0..MaxChanges
NoInvite == 0
NoInvites == [o \in Orgs |-> NoInvite]
OrgOps == {"rename", "role", "remove", "invite", "revoke"}
OrgRequests == [op : OrgOps, org : Orgs \cup {NoOne}, by : Staff \cup {NoOne},
                who : Staff \cup {NoOne}, role : OrgRoles \cup {NoRole}, invite : InviteIds]
NoOrgRequest == [op |-> "rename", org |-> NoOne, by |-> NoOne, who |-> NoOne, role |-> NoRole,
                 invite |-> NoInvite]

------------------------------------------------------------------------------
(* What the page shows *)

CanManage == orgRole[org] \in {"owner", "admin"}

\* Fault: the page does not look at the other member's role.
EditAnyone(p) == CanManage /\ p # Me /\ roster[org][p] # NoRole

CanEditMember(p) ==
    /\ CanManage /\ p # Me /\ roster[org][p] # NoRole
    /\ roster[org][p] # "owner" \/ orgRole[org] = "owner"
RoleOptions == {r \in OrgRoles : r # "owner" \/ orgRole[org] = "owner"}
NoOrgDialog == removing = NoOne /\ ~inviting
Quiet == request = NoOrgRequest

\* The box for the new name stays open when the user switches.
SwitchOrg(o) ==
    /\ NoOrgDialog /\ o # org /\ orgRole[o] # NoRole /\ org' = o
    /\ UNCHANGED <<people, orgCache, renaming, removing, inviting, request>>

\* The lists are fetched when they are first shown, after each change made here, and when
\* the window is focused.
FetchRoles ==
    /\ orgRole' = [o \in Orgs |-> role[o][Me]] /\ orgRole' # orgRole
    \* an organization left behind is not shown any longer
    /\ org' = IF orgRole'[org] # NoRole THEN org
              ELSE IF \E o \in Orgs : orgRole'[o] # NoRole
                   THEN CHOOSE o \in Orgs : orgRole'[o] # NoRole ELSE org
    /\ UNCHANGED <<people, roster, invites, renaming, removing, inviting, request>>

\* Members, for every member; invitations, which only managers ask for.
FetchMembers ==
    /\ role[org][Me] # NoRole
    /\ roster' = [roster EXCEPT ![org] = role[org]]
    /\ invites' = IF CanManage /\ role[org][Me] # "viewer"
                  THEN [invites EXCEPT ![org] = invited[org]] ELSE invites
    /\ UNCHANGED <<people, orgRole, orgView, request>>

------------------------------------------------------------------------------
(* What the user does *)

Ask(op, who, r) ==
    /\ Quiet
    /\ request' = [op |-> op, org |-> org, by |-> Me, who |-> who, role |-> r,
                   invite |-> IF op = "revoke" THEN invites[org] ELSE NoInvite]
    /\ UNCHANGED <<people, orgCache, orgView>>

StartRename ==
    /\ CanManage /\ NoOrgDialog /\ ~renaming /\ renaming' = TRUE
    /\ UNCHANGED <<people, orgCache, org, removing, inviting, request>>

CancelRename ==
    /\ renaming /\ NoOrgDialog /\ renaming' = FALSE
    /\ UNCHANGED <<people, orgCache, org, removing, inviting, request>>

SubmitRename == renaming /\ NoOrgDialog /\ Ask("rename", NoOne, NoRole)

ChangeRole(p, r) ==
    /\ NoOrgDialog /\ CanEditMember(p)
    /\ r \in RoleOptions \ {roster[org][p]} /\ Ask("role", p, r)

\* Confirming takes the member's email address to be typed.
OpenRemove(p) ==
    /\ NoOrgDialog /\ CanEditMember(p) /\ removing' = p
    /\ UNCHANGED <<people, orgCache, org, renaming, inviting, request>>

CancelRemove ==
    /\ removing # NoOne /\ removing' = NoOne
    /\ UNCHANGED <<people, orgCache, org, renaming, inviting, request>>

ConfirmRemove == removing # NoOne /\ Ask("remove", removing, NoRole)

OpenInvite ==
    /\ NoOrgDialog /\ CanManage /\ inviting' = TRUE
    /\ UNCHANGED <<people, orgCache, org, renaming, removing, request>>

\* The backdrop and Escape close it even while its request is in flight.
CloseInvite ==
    /\ inviting /\ inviting' = FALSE
    /\ UNCHANGED <<people, orgCache, org, renaming, removing, request>>

SubmitInvite(r) == inviting /\ r \in RoleOptions /\ Ask("invite", NoOne, r)

RevokeInvite ==
    /\ NoOrgDialog /\ CanManage /\ invites[org] # NoInvite
    /\ Ask("revoke", NoOne, NoRole)

------------------------------------------------------------------------------
(* What the API allows and does *)

\* Only owners deal with owners, and one must be left.
MayLose(q, old) ==
    old = "owner" =>
        /\ role[q.org][q.by] = "owner"
        /\ Cardinality({p \in Staff : role[q.org][p] = "owner"}) > 1

Allowed(q) ==
    /\ role[q.org][q.by] \in {"owner", "admin"}
    /\ q.role = "owner" =>
           role[q.org][q.by] = "owner" \/ (q.op = "role" /\ role[q.org][q.who] = "owner")
    /\ q.op \in {"role", "remove"} => role[q.org][q.who] # NoRole
    /\ q.op = "role" /\ role[q.org][q.who] # q.role => MayLose(q, role[q.org][q.who])
    /\ q.op = "remove" => q.who # q.by /\ MayLose(q, role[q.org][q.who])
    /\ q.op = "revoke" => q.invite # NoInvite /\ invited[q.org] = q.invite

\* An invitation replaces the one the address has; it is numbered by the changes so far.
Perform(q) ==
    /\ IF q.op = "rename" THEN UNCHANGED changes
       ELSE changes < MaxChanges /\ changes' = changes + 1
    /\ role' = IF q.op \in {"role", "remove"}
               THEN [role EXCEPT ![q.org][q.who] = q.role] ELSE role
    /\ invited' = IF q.op = "invite" THEN [invited EXCEPT ![q.org] = changes']
                  ELSE IF q.op = "revoke" THEN [invited EXCEPT ![q.org] = NoInvite]
                  ELSE invited

\* Each answer closes the box or dialog of its kind, whatever it is about by then.
OrgAnswered ==
    /\ ~Quiet /\ Allowed(request) /\ Perform(request)
    /\ renaming' = (renaming /\ request.op # "rename")
    /\ removing' = IF request.op = "remove" THEN NoOne ELSE removing
    /\ inviting' = (inviting /\ request.op # "invite")
    /\ request' = NoOrgRequest
    /\ UNCHANGED <<orgCache, org>>

\* Refused, or the answer is lost; only the removal dialog closes.
OrgFailed ==
    /\ ~Quiet
    /\ UNCHANGED people \/ (Allowed(request) /\ Perform(request))
    /\ removing' = IF request.op = "remove" THEN NoOne ELSE removing
    /\ request' = NoOrgRequest
    /\ UNCHANGED <<orgCache, org, renaming, inviting>>

\* A colleague does the same elsewhere.
ElsewhereChange ==
    \E o \in Orgs, p \in Staff, q \in Staff \ {Me}, op \in {"role", "remove"}, r \in OrgRoles :
        LET x == [op |-> op, org |-> o, by |-> q, who |-> p,
                  role |-> IF op = "role" THEN r ELSE NoRole, invite |-> NoInvite]
        IN  Allowed(x) /\ Perform(x) /\ UNCHANGED <<orgCache, orgView, request>>

\* It expires, or the person invited accepts it.
InviteEnds ==
    /\ \E o \in Orgs : invited[o] # NoInvite /\ invited' = [invited EXCEPT ![o] = NoInvite]
    /\ UNCHANGED <<role, changes, orgCache, orgView, request>>

------------------------------------------------------------------------------
OrgInit ==
    /\ role = FirstRoles /\ invited = NoInvites /\ changes = 0
    /\ org = CHOOSE o \in Orgs : TRUE
    /\ orgRole = [o \in Orgs |-> FirstRoles[o][Me]]
    /\ roster = [o \in Orgs |-> [p \in Staff |-> NoRole]] /\ invites = NoInvites
    /\ renaming = FALSE /\ removing = NoOne /\ inviting = FALSE
    /\ request = NoOrgRequest

OrgNext ==
    \/ \E o \in Orgs : SwitchOrg(o)
    \/ \E p \in Staff : OpenRemove(p)
    \/ \E p \in Staff, r \in OrgRoles : ChangeRole(p, r)
    \/ \E r \in OrgRoles : SubmitInvite(r)
    \/ FetchRoles \/ FetchMembers
    \/ StartRename \/ CancelRename \/ SubmitRename
    \/ CancelRemove \/ ConfirmRemove \/ OpenInvite \/ CloseInvite \/ RevokeInvite
    \/ OrgAnswered \/ OrgFailed \/ ElsewhereChange \/ InviteEnds

OrgSpec == OrgInit /\ [][OrgNext]_orgVars

OrgTypeOK ==
    /\ role \in RoleTables /\ roster \in RoleTables /\ changes \in 0..MaxChanges
    /\ invited \in [Orgs -> InviteIds] /\ invites \in [Orgs -> InviteIds]
    /\ org \in Orgs /\ orgRole \in [Orgs -> OrgRoles \cup {NoRole}]
    /\ renaming \in BOOLEAN /\ removing \in Staff \cup {NoOne} /\ inviting \in BOOLEAN
    /\ request \in OrgRequests

\* The page and the API agree on who may do what: when the lists the page shows are up to
\* date, the API accepts every change the page offers.  (A dialog that was opened under an
\* earlier list is not taken back when the list changes.)
Offers ==
    LET Offer(op, p, r) == [op |-> op, org |-> org, by |-> Me, who |-> p, role |-> r,
                            invite |-> IF op = "revoke" THEN invites[org] ELSE NoInvite]
        editable == {p \in Staff : CanEditMember(p)}
    IN  {Offer("role", p, r) : p \in editable, r \in RoleOptions}
        \cup {Offer("remove", p, NoRole) : p \in editable}
        \cup (IF CanManage THEN {Offer("invite", NoOne, r) : r \in RoleOptions} ELSE {})
        \cup (IF CanManage /\ invites[org] # NoInvite THEN {Offer("revoke", NoOne, NoRole)}
              ELSE {})
PageOffersOnlyAllowed ==
    /\ orgRole[org] = role[org][Me]
    /\ roster[org] = role[org] /\ invites[org] = invited[org]
    => \A q \in Offers : Allowed(q)
=============================================================================
