----------------------- MODULE MembershipProofs -----------------------
(***************************************************************************)
(* Proofs about the screens on organizations and their members, for any    *)
(* people, organizations and roles: which organization a user works in     *)
(* (OrganizationChoice), the members of a vault (AccessPage), the members  *)
(* of an organization (OrganizationPage) and joining one (JoinPages).      *)
(***************************************************************************)
EXTENDS OrganizationChoice, OrganizationPage, AccessPage, JoinPages, FiniteSetTheorems,
        WellFoundedInduction, TLAPS

------------------------------------------------------------------------------
(* OrganizationChoice *)

(* Default: a list that is not empty has an organization with the most vaults. *)

LEMMA LeastNatural ==
    ASSUME NEW T \in SUBSET Nat, T # {}
    PROVE  \E x \in T : \A y \in T : x <= y
<1> DEFINE R == OpToRel(<, Nat)
<1>1. IsWellFoundedOn(R, Nat) BY NatLessThanWellFounded
<1> HIDE DEF R
<1>2. PICK x \in T : \A y \in T : ~ (<<y, x>> \in R) BY <1>1, WFMin
<1>3. \A y \in Nat : y < x => <<y, x>> \in R BY DEF R, OpToRel
<1>4. ASSUME NEW y \in T PROVE x <= y
  <2>1. x \in Nat /\ y \in Nat OBVIOUS
  <2>2. ~ (y < x) BY <1>2, <1>3, <2>1
  <2>3. QED BY <2>1, <2>2
<1>5. QED BY <1>4

\* Whatever the list, as long as it is not empty
LEMMA MostVaultsListed ==
    ASSUME NEW L \in SUBSET Organizations, L # {}
    PROVE  \E o \in L : \A p \in L : VaultCount[p] <= VaultCount[o]
<1> DEFINE T == {MostVaults - VaultCount[o] : o \in L}
<1>1. \A o \in L : VaultCount[o] \in 0..MostVaults BY ChoiceConstants
<1>2. T \in SUBSET Nat /\ T # {} BY <1>1, ChoiceConstants
<1>3. PICK x \in T : \A y \in T : x <= y
  <2> HIDE DEF T
  <2>1. QED BY <1>2, LeastNatural
<1>4. PICK o \in L : x = MostVaults - VaultCount[o] OBVIOUS
<1>5. ASSUME NEW p \in L PROVE VaultCount[p] <= VaultCount[o]
  <2>1. MostVaults - VaultCount[o] <= MostVaults - VaultCount[p] BY <1>3, <1>4
  <2>2. QED BY <1>1, <2>1, ChoiceConstants
<1>6. QED BY <1>5

------------------------------------------------------------------------------
(* The invariant *)

\* Unless the browser keeps no site data, what it keeps is what each person chose last, and
\* what is selected is the choice of the person signed in.  (With the browser blocked the
\* choice of an earlier session is gone and nothing of this holds.)
StorageCurrent ==
    ~blocked => /\ storage = chose
                /\ me # Nobody => selected = chose[me]

ChoiceInvariant == ChoiceTypeOK /\ StorageCurrent

LEMMA ChoiceInitially == ChoiceInit => ChoiceInvariant
BY DEF ChoiceInit, ChoiceInvariant, ChoiceTypeOK, StorageCurrent

\* Every step keeps it: signing in reads the choice under the key of that person, choosing
\* writes both the box and the storage.
LEMMA ChoiceStepKeeps == ChoiceInvariant /\ [ChoiceNext]_choiceVars => ChoiceInvariant'
<1>1. SUFFICES ASSUME ChoiceInvariant, [ChoiceNext]_choiceVars PROVE ChoiceInvariant'
      OBVIOUS
<1> USE <1>1 DEF ChoiceInvariant, ChoiceTypeOK, StorageCurrent
<1>2. CASE BlockStorage BY <1>2 DEF BlockStorage
<1>3. CASE SignOut BY <1>3 DEF SignOut
<1>4. CASE FetchOrgs
  <2>1. me \in People BY <1>4 DEF FetchOrgs
  <2>2. myList' \in SUBSET Organizations BY <1>4, <2>1 DEF FetchOrgs
  <2>3. QED BY <1>4, <2>1, <2>2 DEF FetchOrgs
<1>5. ASSUME NEW p \in People, SignIn(p) PROVE ChoiceInvariant'
  <2>1. p # Nobody BY ChoiceConstants
  <2>2. selected' \in Organizations \cup {Nobody} BY <1>5 DEF SignIn, ReadChoice, StorageKey
  <2>3. StorageCurrent' BY <1>5, <2>1 DEF SignIn, ReadChoice, StorageKey
  <2>4. QED BY <1>5, <2>2, <2>3 DEF SignIn
<1>6. ASSUME NEW o \in Organizations, ChooseOrg(o) PROVE ChoiceInvariant'
  <2>1. me \in People BY <1>6 DEF ChooseOrg
  <2>2. chose' \in [People -> Organizations \cup {Nobody}] BY <1>6 DEF ChooseOrg
  <2>3. storage' \in [People -> Organizations \cup {Nobody}]
        BY <1>6 DEF ChooseOrg, StorageKey
  <2>4. ~blocked' => storage' = chose' /\ selected' = chose'[me]
        BY <1>6, <2>1 DEF ChooseOrg, StorageKey
  <2>5. QED BY <1>6, <2>2, <2>3, <2>4 DEF ChooseOrg
<1>7. ASSUME NEW p \in People, NEW O \in SUBSET Organizations, Membership(p, O)
      PROVE  ChoiceInvariant'
      BY <1>7 DEF Membership
<1>8. CASE UNCHANGED choiceVars BY <1>8 DEF choiceVars
<1>9. QED BY <1>2, <1>3, <1>4, <1>5, <1>6, <1>7, <1>8 DEF ChoiceNext

\* The invariant and the existence of a default give the property.
LEMMA ChoiceKeptNow == ChoiceInvariant => ChoiceKept
<1>1. SUFFICES ASSUME ChoiceInvariant, me # Nobody, ~blocked
               PROVE  IF chose[me] \in myList THEN CurrentOrg = chose[me]
                      ELSE \A o \in myList : VaultCount[o] <= VaultCount[CurrentOrg]
      BY DEF ChoiceKept
<1>2. selected = chose[me] BY <1>1 DEF ChoiceInvariant, StorageCurrent
<1>3. CASE chose[me] \in myList BY <1>2, <1>3 DEF CurrentOrg
<1>4. CASE chose[me] \notin myList
  <2>1. SUFFICES ASSUME NEW o \in myList PROVE VaultCount[o] <= VaultCount[CurrentOrg]
        BY <1>4
  <2>2. CurrentOrg = Default BY <1>2, <1>4 DEF CurrentOrg
  <2>3. \E q \in myList : \A p \in myList : VaultCount[p] <= VaultCount[q]
        BY <1>1, MostVaultsListed DEF ChoiceInvariant, ChoiceTypeOK
  <2>4. \A p \in myList : VaultCount[p] <= VaultCount[Default] BY <2>3 DEF Default
  <2>5. QED BY <2>2, <2>4
<1>5. QED BY <1>3, <1>4

\* The console works in the organization this person chose last, or in one with the most
\* vaults, for any number of people and organizations, whoever used the browser in between.
THEOREM ChoiceIsKept == ChoiceSpec => []ChoiceKept
<1>1. QED BY ChoiceInitially, ChoiceStepKeeps, ChoiceKeptNow, PTL DEF ChoiceSpec

\* The type invariant of the organization choice.
THEOREM ChoiceTypes == ChoiceSpec => []ChoiceTypeOK
<1>1. ChoiceInvariant => ChoiceTypeOK BY DEF ChoiceInvariant
<1>2. QED BY <1>1, ChoiceInitially, ChoiceStepKeeps, PTL DEF ChoiceSpec

------------------------------------------------------------------------------
(* AccessPage *)

\* The text of an open dialog was typed for the member it is about: it is emptied when the
\* dialog opens, and nothing else of the page writes it.
TextIsTyped == target # Unset /\ typedEmail # Unset => typedFor = typedEmail

AccessInvariant == AccessTypeOK /\ TextIsTyped /\ RemovedByEmail

LEMMA AccessInitially == AccessInit => AccessInvariant
<1>1. SUFFICES ASSUME AccessInit PROVE AccessInvariant OBVIOUS
<1>2. NoAccessRequest \in AccessRequests /\ NoRemoval \in Removals
      BY DEF NoAccessRequest, AccessRequests, NoRemoval, Removals
<1>3. AccessTypeOK
      BY <1>1, <1>2, AccessConstants DEF AccessInit, AccessTypeOK, VaultRoles
<1>4. QED BY <1>1, <1>3 DEF AccessInit, AccessInvariant, TextIsTyped, RemovedByEmail

\* What a person asks for is a member and a role, and the API gives roles to persons.
LEMMA AccessTypesKept ==
    ASSUME AccessTypeOK, [AccessNext]_accessVars
    PROVE  AccessTypeOK'
<1> USE AccessConstants DEF AccessTypeOK
<1>1. NoAccessRequest \in AccessRequests /\ NoRemoval \in Removals
      BY DEF NoAccessRequest, AccessRequests, NoRemoval, Removals
<1>2. CASE FetchSeen BY <1>2 DEF FetchSeen, addition, asking, flights
<1>3. CASE ToggleAddForm
  <2>1. addForm' \in BOOLEAN BY <1>3, Zenon DEF ToggleAddForm
  <2>2. QED BY <1>3, <2>1 DEF ToggleAddForm, asking, flights
<1>4. CASE SubmitAdd
  <2>1. adding' \in AccessRequests BY <1>4 DEF SubmitAdd, AccessRequests
  <2>2. QED BY <1>4, <2>1 DEF SubmitAdd, addition, asking
<1>5. CASE CancelRemoval BY <1>5 DEF CancelRemoval, addition, flights
<1>6. CASE ConfirmRemoval
  <2>1. (typedFor = target) \in BOOLEAN /\ (seen[target] # NotMember) \in BOOLEAN OBVIOUS
  <2>2. taking' \in Removals BY <1>6, <2>1 DEF ConfirmRemoval, Removals
  <2>3. QED BY <1>6, <2>2 DEF ConfirmRemoval, addition, asking
<1>7. ASSUME NEW p \in Persons, AskRemoval(p) \/ TypeEmail(p) PROVE AccessTypeOK'
      BY <1>7 DEF AskRemoval, TypeEmail, ClearText, addition, flights
<1>8. ASSUME NEW p \in Persons, NEW r \in VaultRoles, FillAddForm(p, r) PROVE AccessTypeOK'
      BY <1>8 DEF FillAddForm, asking, flights
<1>9. ASSUME NEW p \in Persons, NEW r \in VaultRoles, ChangeAccess(p, r) PROVE AccessTypeOK'
  <2>1. changing' \in AccessRequests BY <1>9 DEF ChangeAccess, AccessRequests
  <2>2. QED BY <1>9, <2>1 DEF ChangeAccess, addition, asking
<1>10. ASSUME NEW p \in Persons, NEW r \in VaultRoles \cup {NotMember}, AccessElsewhere(p, r)
       PROVE  AccessTypeOK'
  <2>1. access' \in AccessTables BY <1>10 DEF AccessElsewhere, AccessTables
  <2>2. QED BY <1>10, <2>1 DEF AccessElsewhere, addition, asking, flights
<1>11. CASE AddAnswered
  <2>1. access' \in AccessTables BY <1>11 DEF AddAnswered, AccessTables, AccessRequests
  <2>2. QED BY <1>1, <1>11, <2>1 DEF AddAnswered, asking, VaultRoles
<1>12. CASE ChangeAnswered
  <2>1. access' \in AccessTables BY <1>12 DEF ChangeAnswered, AccessTables, AccessRequests
  <2>2. QED BY <1>1, <1>12, <2>1 DEF ChangeAnswered, addition, asking
<1>13. CASE RemovalAnswered
  <2>1. access' \in AccessTables BY <1>13 DEF RemovalAnswered, AccessTables
  <2>2. QED BY <1>1, <1>13, <2>1 DEF RemovalAnswered, addition
<1>14. CASE AddFailed \/ ChangeFailed \/ RemovalFailed
       BY <1>1, <1>14 DEF AddFailed, ChangeFailed, RemovalFailed, addition, asking
<1>15. CASE UNCHANGED accessVars BY <1>15 DEF accessVars, addition, asking, flights
<1>16. QED BY <1>2, <1>3, <1>4, <1>5, <1>6, <1>7, <1>8, <1>9, <1>10, <1>11, <1>12, <1>13, <1>14,
              <1>15 DEF AccessNext

\* The text changes only when a dialog opens, empty, and when the user types.
LEMMA TextTypedKept ==
    ASSUME AccessTypeOK, TextIsTyped, [AccessNext]_accessVars
    PROVE  TextIsTyped'
<1> USE DEF TextIsTyped
<1>1. ASSUME UNCHANGED asking PROVE TextIsTyped' BY <1>1 DEF asking
<1>2. CASE CancelRemoval \/ RemovalAnswered BY <1>2 DEF CancelRemoval, RemovalAnswered
<1>3. ASSUME NEW p \in Persons, AskRemoval(p) PROVE TextIsTyped'
      BY <1>3 DEF AskRemoval, ClearText
<1>4. ASSUME NEW p \in Persons, TypeEmail(p) PROVE TextIsTyped' BY <1>4 DEF TypeEmail
<1>5. CASE FetchSeen \/ ToggleAddForm \/ SubmitAdd \/ ConfirmRemoval \/ AddAnswered \/ AddFailed
           \/ ChangeAnswered \/ ChangeFailed \/ RemovalFailed \/ UNCHANGED accessVars
      BY <1>1, <1>5
      DEF FetchSeen, ToggleAddForm, SubmitAdd, ConfirmRemoval, AddAnswered, AddFailed,
          ChangeAnswered, ChangeFailed, RemovalFailed, accessVars
<1>6. ASSUME NEW p \in Persons, NEW r \in VaultRoles, FillAddForm(p, r) \/ ChangeAccess(p, r)
      PROVE  TextIsTyped'
      BY <1>1, <1>6 DEF FillAddForm, ChangeAccess
<1>7. ASSUME NEW p \in Persons, NEW r \in VaultRoles \cup {NotMember}, AccessElsewhere(p, r)
      PROVE  TextIsTyped'
      BY <1>1, <1>7 DEF AccessElsewhere
<1>8. QED BY <1>2, <1>3, <1>4, <1>5, <1>6, <1>7 DEF AccessNext

\* A removal is asked for in one place, which looks at the text.
LEMMA RemovalTyped ==
    ASSUME AccessTypeOK, TextIsTyped, RemovedByEmail, [AccessNext]_accessVars
    PROVE  RemovedByEmail'
<1>1. ASSUME UNCHANGED taking PROVE RemovedByEmail' BY <1>1 DEF RemovedByEmail
<1>2. CASE ConfirmRemoval
  <2>1. /\ target # Unset /\ CanConfirmRemoval
        /\ taking' = [who |-> target, typed |-> typedFor = target,
                      listed |-> seen[target] # NotMember]
        BY <1>2 DEF ConfirmRemoval
  <2>2. seen[target] # NotMember => typedFor = target
        BY <2>1 DEF CanConfirmRemoval, TextIsTyped
  <2>3. taking'.listed => taking'.typed BY <2>1, <2>2
  <2>4. QED BY <2>3 DEF RemovedByEmail
<1>3. CASE RemovalAnswered \/ RemovalFailed
  <2>1. taking' = NoRemoval BY <1>3 DEF RemovalAnswered, RemovalFailed
  <2>2. QED BY <2>1 DEF RemovedByEmail, NoRemoval
<1>4. CASE FetchSeen \/ ToggleAddForm \/ SubmitAdd \/ CancelRemoval \/ AddAnswered \/ AddFailed
           \/ ChangeAnswered \/ ChangeFailed \/ UNCHANGED accessVars
      BY <1>1, <1>4
      DEF FetchSeen, ToggleAddForm, SubmitAdd, CancelRemoval, AddAnswered, AddFailed,
          ChangeAnswered, ChangeFailed, accessVars, flights
<1>5. ASSUME NEW p \in Persons, AskRemoval(p) \/ TypeEmail(p) PROVE RemovedByEmail'
      BY <1>1, <1>5 DEF AskRemoval, TypeEmail, flights
<1>6. ASSUME NEW p \in Persons, NEW r \in VaultRoles, FillAddForm(p, r) \/ ChangeAccess(p, r)
      PROVE  RemovedByEmail'
      BY <1>1, <1>6 DEF FillAddForm, ChangeAccess, flights
<1>7. ASSUME NEW p \in Persons, NEW r \in VaultRoles \cup {NotMember}, AccessElsewhere(p, r)
      PROVE  RemovedByEmail'
      BY <1>1, <1>7 DEF AccessElsewhere, flights
<1>8. QED BY <1>2, <1>3, <1>4, <1>5, <1>6, <1>7 DEF AccessNext

LEMMA AccessStepKeeps == AccessInvariant /\ [AccessNext]_accessVars => AccessInvariant'
BY AccessTypesKept, TextTypedKept, RemovalTyped DEF AccessInvariant

\* The type invariant of the vault's member page.
THEOREM AccessTypes == AccessSpec => []AccessTypeOK
<1>1. AccessInvariant => AccessTypeOK BY DEF AccessInvariant
<1>2. QED BY <1>1, AccessInitially, AccessStepKeeps, PTL DEF AccessSpec

\* A listed member is asked to be removed only after that member's address was typed in this
\* dialog, whatever answers, refetches and other managers' changes come in between.
THEOREM RemovalNeedsEmail == AccessSpec => []RemovedByEmail
<1>1. AccessInvariant => RemovedByEmail BY DEF AccessInvariant
<1>2. QED BY <1>1, AccessInitially, AccessStepKeeps, PTL DEF AccessSpec
------------------------------------------------------------------------------
(* OrganizationPage *)

LEMMA OrgInitially == OrgInit => OrgTypeOK
<1>1. SUFFICES ASSUME OrgInit PROVE OrgTypeOK OBVIOUS
<1>2. org \in Orgs BY <1>1, PageConstants DEF OrgInit
<1>3. request \in OrgRequests
      BY <1>1, PageConstants DEF OrgInit, NoOrgRequest, OrgRequests, OrgOps, InviteIds, NoInvite
<1>4. roster \in RoleTables BY <1>1 DEF OrgInit, RoleTables
<1>5. orgRole \in [Orgs -> OrgRoles \cup {NoRole}]
      BY <1>1, PageConstants DEF OrgInit, RoleTables
<1>6. invited \in [Orgs -> InviteIds] /\ invites = invited
      BY <1>1, PageConstants DEF OrgInit, NoInvites, NoInvite, InviteIds
<1>7. role \in RoleTables /\ changes \in 0..MaxChanges BY <1>1, PageConstants DEF OrgInit
<1>8. QED BY <1>1, <1>2, <1>3, <1>4, <1>5, <1>6, <1>7 DEF OrgInit, OrgTypeOK

\* Whatever the API carries out, people have roles and an invitation a number within the bound.
LEMMA PeopleTyped ==
    ASSUME OrgTypeOK, NEW q, q.role \in OrgRoles \cup {NoRole}, Perform(q)
    PROVE  /\ role' \in RoleTables /\ changes' \in 0..MaxChanges
           /\ invited' \in [Orgs -> InviteIds]
<1> USE DEF OrgTypeOK
<1>1. role' \in RoleTables BY DEF Perform, RoleTables
<1>2. changes' \in 0..MaxChanges BY PageConstants DEF Perform
<1>3. invited' \in [Orgs -> InviteIds]
  <2>1. CASE q.op = "invite" BY <1>2, <2>1 DEF Perform, InviteIds
  <2>2. CASE q.op = "revoke"
    <3>1. NoInvite \in InviteIds BY PageConstants DEF InviteIds, NoInvite
    <3>2. invited' = [invited EXCEPT ![q.org] = NoInvite] BY <2>2 DEF Perform
    <3>3. QED BY <3>1, <3>2
  <2>3. CASE q.op \notin {"invite", "revoke"} BY <2>3 DEF Perform
  <2>4. QED BY <2>1, <2>2, <2>3
<1>4. QED BY <1>1, <1>2, <1>3

LEMMA AskTyped ==
    ASSUME OrgTypeOK, NEW op \in OrgOps, NEW who \in Staff \cup {NoOne},
           NEW r \in OrgRoles \cup {NoRole}, Ask(op, who, r)
    PROVE  OrgTypeOK'
<1>1. (IF op = "revoke" THEN invites[org] ELSE NoInvite) \in InviteIds
      BY PageConstants DEF OrgTypeOK, InviteIds, NoInvite
<1>2. request' \in OrgRequests BY <1>1, PageConstants DEF Ask, OrgRequests, OrgTypeOK
<1>3. QED BY <1>2 DEF Ask, OrgTypeOK, people, orgCache, orgView

LEMMA OrgStepKeeps == OrgTypeOK /\ [OrgNext]_orgVars => OrgTypeOK'
<1>1. SUFFICES ASSUME OrgTypeOK, [OrgNext]_orgVars PROVE OrgTypeOK' OBVIOUS
<1>2. NoOrgRequest \in OrgRequests
      BY PageConstants DEF NoOrgRequest, OrgRequests, OrgOps, InviteIds, NoInvite
<1>3. ASSUME NEW o \in Orgs, SwitchOrg(o) PROVE OrgTypeOK'
      BY <1>1, <1>3 DEF SwitchOrg, OrgTypeOK, people, orgCache
<1>4. ASSUME NEW p \in Staff, OpenRemove(p) PROVE OrgTypeOK'
      BY <1>1, <1>4 DEF OpenRemove, OrgTypeOK, people, orgCache
<1>5. ASSUME NEW p \in Staff, NEW r \in OrgRoles, ChangeRole(p, r) PROVE OrgTypeOK'
      BY <1>1, <1>5, AskTyped DEF ChangeRole, OrgOps
<1>6. ASSUME NEW r \in OrgRoles, SubmitInvite(r) PROVE OrgTypeOK'
      BY <1>1, <1>6, AskTyped DEF SubmitInvite, OrgOps
<1>7. CASE SubmitRename \/ RevokeInvite
      BY <1>1, <1>7, AskTyped DEF SubmitRename, RevokeInvite, OrgOps
<1>8. CASE ConfirmRemove
  <2>1. removing \in Staff \cup {NoOne} BY <1>1 DEF OrgTypeOK
  <2>2. QED BY <1>1, <1>8, <2>1, AskTyped DEF ConfirmRemove, OrgOps
<1>9. CASE FetchRoles
  <2>1. orgRole' \in [Orgs -> OrgRoles \cup {NoRole}]
        BY <1>1, <1>9, PageConstants DEF FetchRoles, OrgTypeOK, RoleTables
  <2>2. org' \in Orgs BY <1>1, <1>9 DEF FetchRoles, OrgTypeOK
  <2>3. QED BY <1>1, <1>9, <2>1, <2>2 DEF FetchRoles, OrgTypeOK, people
<1>10. CASE FetchMembers
  <2>1. roster' \in RoleTables BY <1>1, <1>10 DEF FetchMembers, OrgTypeOK, RoleTables
  <2>2. invites' \in [Orgs -> InviteIds]
        BY <1>1, <1>10 DEF FetchMembers, OrgTypeOK
  <2>3. QED BY <1>1, <1>10, <2>1, <2>2 DEF FetchMembers, OrgTypeOK, people, orgView
<1>11. CASE StartRename \/ CancelRename \/ CancelRemove \/ OpenInvite \/ CloseInvite
       BY <1>1, <1>11
       DEF StartRename, CancelRename, CancelRemove, OpenInvite, CloseInvite, OrgTypeOK, people,
           orgCache
<1>12. CASE OrgAnswered
  <2>1. request.role \in OrgRoles \cup {NoRole} BY <1>1 DEF OrgTypeOK, OrgRequests
  <2>2. /\ role' \in RoleTables /\ changes' \in 0..MaxChanges
        /\ invited' \in [Orgs -> InviteIds]
        BY <1>1, <1>12, <2>1, PeopleTyped DEF OrgAnswered
  <2>3. renaming' \in BOOLEAN /\ inviting' \in BOOLEAN BY <1>12, Zenon DEF OrgAnswered
  <2>4. QED BY <1>1, <1>2, <1>12, <2>2, <2>3 DEF OrgAnswered, OrgTypeOK, orgCache
<1>13. CASE OrgFailed
  <2>1. request.role \in OrgRoles \cup {NoRole} BY <1>1 DEF OrgTypeOK, OrgRequests
  <2>2. UNCHANGED people \/ Perform(request) BY <1>13 DEF OrgFailed
  <2>3. /\ role' \in RoleTables /\ changes' \in 0..MaxChanges
        /\ invited' \in [Orgs -> InviteIds]
        BY <1>1, <2>1, <2>2, PeopleTyped DEF OrgTypeOK, people
  <2>4. QED BY <1>1, <1>2, <1>13, <2>3 DEF OrgFailed, OrgTypeOK, orgCache
<1>14. CASE ElsewhereChange
  <2>1. PICK q : /\ q.role \in OrgRoles \cup {NoRole} /\ Perform(q)
                 /\ UNCHANGED <<orgCache, orgView, request>>
        BY <1>14 DEF ElsewhereChange
  <2>2. /\ role' \in RoleTables /\ changes' \in 0..MaxChanges
        /\ invited' \in [Orgs -> InviteIds]
        BY <1>1, <2>1, PeopleTyped
  <2>3. QED BY <1>1, <2>1, <2>2 DEF OrgTypeOK, orgCache, orgView
<1>15. CASE InviteEnds
  <2>1. invited' \in [Orgs -> InviteIds]
        BY <1>1, <1>15, PageConstants DEF InviteEnds, OrgTypeOK, InviteIds, NoInvite
  <2>2. QED BY <1>1, <1>15, <2>1 DEF InviteEnds, OrgTypeOK, orgCache, orgView
<1>16. CASE UNCHANGED orgVars
       BY <1>1, <1>16 DEF orgVars, OrgTypeOK, people, orgCache, orgView
<1>17. QED BY <1>1, <1>3, <1>4, <1>5, <1>6, <1>7, <1>8, <1>9, <1>10, <1>11, <1>12, <1>13, <1>14,
              <1>15, <1>16 DEF OrgNext

\* An organization with two owners keeps one when either leaves: the count of the API.
LEMMA TwoOwners ==
    ASSUME NEW S, IsFiniteSet(S), NEW x \in S, NEW y \in S, x # y
    PROVE  Cardinality(S) > 1
<1>1. IsFiniteSet({x, y}) /\ Cardinality({x, y}) = 2
  <2>1. Cardinality({x}) = 1 /\ IsFiniteSet({x}) BY FS_Singleton
  <2>2. IsFiniteSet({x} \cup {y}) /\ Cardinality({x} \cup {y}) = Cardinality({x}) + 1
        BY <2>1, FS_AddElement
  <2>3. {x} \cup {y} = {x, y} OBVIOUS
  <2>4. QED BY <2>1, <2>2, <2>3
<1>2. Cardinality({x, y}) <= Cardinality(S) BY <1>1, FS_Subset
<1>3. Cardinality(S) \in Nat BY FS_CardinalityType
<1>4. QED BY <1>1, <1>2, <1>3

\* What the page looks at before it offers a change of another member is what the API looks at.
LEMMA EditableMayLose ==
    ASSUME OrgTypeOK, orgRole[org] = role[org][Me], roster[org] = role[org],
           NEW p \in Staff, CanEditMember(p), NEW q, q.org = org, q.by = Me
    PROVE  MayLose(q, role[org][p])
<1>1. SUFFICES ASSUME role[org][p] = "owner" PROVE MayLose(q, role[org][p]) BY DEF MayLose
<1>2. role[org][Me] = "owner" /\ p # Me BY <1>1 DEF CanEditMember
<1> DEFINE owners == {s \in Staff : role[org][s] = "owner"}
<1>3. IsFiniteSet(owners)
  <2>1. owners \subseteq Staff OBVIOUS
  <2>2. QED BY <2>1, PageConstants, FS_Subset
<1>4. Me \in owners /\ p \in owners BY <1>1, <1>2, PageConstants
<1>5. Cardinality(owners) > 1 BY <1>2, <1>3, <1>4, TwoOwners
<1>6. QED BY <1>2, <1>5 DEF MayLose

LEMMA OffersAllowed == OrgTypeOK => PageOffersOnlyAllowed
<1>1. SUFFICES ASSUME OrgTypeOK, orgRole[org] = role[org][Me], roster[org] = role[org],
                      invites[org] = invited[org], NEW q \in Offers
               PROVE  Allowed(q)
      BY DEF PageOffersOnlyAllowed
<1>2. CanManage => role[org][Me] \in {"owner", "admin"} BY <1>1 DEF CanManage
<1>3. \A r \in RoleOptions : r = "owner" => role[org][Me] = "owner" BY <1>1 DEF RoleOptions
<1>4. \A p : CanEditMember(p) => CanManage /\ role[org][p] # NoRole /\ p # Me
      BY <1>1 DEF CanEditMember
<1>5. ASSUME NEW p \in Staff, CanEditMember(p), NEW r \in RoleOptions,
             q = [op |-> "role", org |-> org, by |-> Me, who |-> p, role |-> r,
                  invite |-> NoInvite]
      PROVE  Allowed(q)
  <2>1. MayLose(q, role[org][p]) BY <1>1, <1>5, EditableMayLose
  <2>2. QED BY <1>2, <1>3, <1>4, <1>5, <2>1 DEF Allowed
<1>6. ASSUME NEW p \in Staff, CanEditMember(p),
             q = [op |-> "remove", org |-> org, by |-> Me, who |-> p, role |-> NoRole,
                  invite |-> NoInvite]
      PROVE  Allowed(q)
  <2>1. MayLose(q, role[org][p]) BY <1>1, <1>6, EditableMayLose
  <2>2. QED BY <1>2, <1>4, <1>6, <2>1 DEF Allowed, NoRole
<1>7. ASSUME CanManage, NEW r \in RoleOptions,
             q = [op |-> "invite", org |-> org, by |-> Me, who |-> NoOne, role |-> r,
                  invite |-> NoInvite]
      PROVE  Allowed(q)
      BY <1>2, <1>3, <1>7 DEF Allowed
<1>8. ASSUME CanManage, invites[org] # NoInvite,
             q = [op |-> "revoke", org |-> org, by |-> Me, who |-> NoOne, role |-> NoRole,
                  invite |-> invites[org]]
      PROVE  Allowed(q)
      BY <1>1, <1>2, <1>8 DEF Allowed, NoRole
<1>9. QED BY <1>1, <1>5, <1>6, <1>7, <1>8 DEF Offers

\* The type invariant of the organization page.
THEOREM OrganizationTypes == OrgSpec => []OrgTypeOK
BY OrgInitially, OrgStepKeeps, PTL DEF OrgSpec

\* With up-to-date lists the page offers only what the API accepts, for any staff and any roles:
\* the guards of the page imply the checks of the API, among them that an owner is left.
THEOREM OffersAreAllowed == OrgSpec => []PageOffersOnlyAllowed
BY OrgInitially, OrgStepKeeps, OffersAllowed, PTL DEF OrgSpec
------------------------------------------------------------------------------
(* JoinPages *)

\* A request is awaited on the page that sent it, and what it has done so far is known: the
\* pages cannot be left while it is in progress except by loading one, which forgets it.
StepsAtHome ==
    /\ step \in {"accept", "refresh"} => at = "invite" /\ signedIn = "invitee"
    /\ step = "register" => at = "register"
    /\ step = "verify" => at = "verify"
    /\ step = "forgot" => at = "forgot"
    /\ step = "reset" => at = "reset"
    /\ step \in {"refresh", "signIn"} => member

JoinInvariant == JoinTypeOK /\ StepsAtHome /\ SaysWhatHappened

LEMMA JoinInitially == JoinInit => JoinInvariant
<1>1. SUFFICES ASSUME JoinInit PROVE JoinInvariant OBVIOUS
<1>2. {member, verifyLink, resetLink, wasReset, withInvite, token, unverified} \subseteq BOOLEAN
      BY <1>1, Zenon DEF JoinInit
<1>3. JoinTypeOK BY <1>1, <1>2 DEF JoinInit, JoinTypeOK, JoinPageNames, Steps
<1>4. QED BY <1>1, <1>3 DEF JoinInit, JoinInvariant, StepsAtHome, SaysWhatHappened

\* Steps that move the tab to another page and leave the server alone
LEMMA JoinMoves ==
    ASSUME JoinInvariant,
           \/ \E p \in JoinPageNames : LoadPage(p) \/ Follow(p)
           \/ \E p \in {"invitee", "other"} : LoginServed(p)
           \/ LogInToAccept \/ CreateAccount \/ ReloadReset \/ UserRefreshed \/ SignedUp
    PROVE  StepsAtHome' /\ SaysWhatHappened'
<1> USE DEF JoinInvariant, StepsAtHome, SaysWhatHappened
<1>1. ASSUME NEW p \in JoinPageNames, LoadPage(p)
      PROVE  StepsAtHome' /\ SaysWhatHappened'
      BY <1>1 DEF LoadPage, Await
<1>2. ASSUME NEW p \in JoinPageNames, Follow(p)
      PROVE  StepsAtHome' /\ SaysWhatHappened'
      BY <1>2 DEF Follow, Idle, joinServer
<1>3. ASSUME NEW p \in {"invitee", "other"}, LoginServed(p)
      PROVE  StepsAtHome' /\ SaysWhatHappened'
      BY <1>3 DEF LoginServed, joinServer
<1>4. CASE LogInToAccept BY <1>4 DEF LogInToAccept, Idle, joinServer
<1>5. CASE CreateAccount BY <1>5 DEF CreateAccount, Idle, joinServer
<1>6. CASE ReloadReset BY <1>6 DEF ReloadReset
<1>7. CASE UserRefreshed BY <1>7 DEF UserRefreshed, Enter, joinServer
<1>8. CASE SignedUp BY <1>8 DEF SignedUp, Enter, joinServer
<1>9. QED BY <1>1, <1>2, <1>3, <1>4, <1>5, <1>6, <1>7, <1>8

\* Steps that send a request, or show an error of the page's own
LEMMA JoinAsks ==
    ASSUME JoinInvariant,
           \/ LookUp \/ ClickAccept \/ ClickLogOut \/ RegisterRefusedHere \/ SubmitRegister
           \/ SubmitLogin \/ ClickResend \/ SubmitForgot \/ SubmitReset \/ InviteElsewhere
    PROVE  StepsAtHome' /\ SaysWhatHappened'
<1> USE DEF JoinInvariant, StepsAtHome, SaysWhatHappened, joinServer, Await, Idle
<1>1. CASE LookUp BY <1>1 DEF LookUp
<1>2. CASE ClickAccept BY <1>2 DEF ClickAccept
<1>3. CASE ClickLogOut BY <1>3 DEF ClickLogOut
<1>4. CASE RegisterRefusedHere BY <1>4 DEF RegisterRefusedHere
<1>5. CASE SubmitRegister BY <1>5 DEF SubmitRegister
<1>6. CASE SubmitLogin BY <1>6 DEF SubmitLogin
<1>7. CASE ClickResend BY <1>7 DEF ClickResend
<1>8. CASE SubmitForgot BY <1>8 DEF SubmitForgot
<1>9. CASE SubmitReset BY <1>9 DEF SubmitReset
<1>10. CASE InviteElsewhere BY <1>10 DEF InviteElsewhere
<1>11. QED BY <1>1, <1>2, <1>3, <1>4, <1>5, <1>6, <1>7, <1>8, <1>9, <1>10

\* Steps that answer a request, with or without the change it asked for
LEMMA JoinAnswers ==
    ASSUME JoinInvariant,
           \/ AcceptServed \/ AcceptFailed \/ UserNotRefreshed \/ RegisterServed
           \/ RegisterFailed \/ SignUpFailed \/ LoginRefused \/ ResendEnds
           \/ VerifyServed \/ VerifyFailed \/ ForgotEnds \/ ResetServed \/ ResetFailed
    PROVE  StepsAtHome' /\ SaysWhatHappened'
<1> USE DEF JoinInvariant, StepsAtHome, SaysWhatHappened, joinServer, StayWithError
<1>1. CASE AcceptServed BY <1>1 DEF AcceptServed, Claim
<1>2. CASE AcceptFailed BY <1>2 DEF AcceptFailed, Claim
<1>3. CASE UserNotRefreshed BY <1>3 DEF UserNotRefreshed
<1>4. CASE RegisterServed
  <2>1. account = "none" /\ account' # "none" BY <1>4 DEF RegisterServed, Register
  <2>2. step = "register" /\ UNCHANGED <<wasReset, signedIn, at, cameFrom>>
        BY <1>4 DEF RegisterServed
  <2>3. \/ step' = "signIn" /\ said' = said /\ member'
        \/ step' = "none" /\ member' = member
        BY <1>4 DEF RegisterServed, Register, Claim
  <2>4. QED BY <2>1, <2>2, <2>3
<1>5. CASE RegisterFailed BY <1>5 DEF RegisterFailed, Register, Claim
<1>6. CASE SignUpFailed BY <1>6 DEF SignUpFailed
<1>7. CASE LoginRefused BY <1>7 DEF LoginRefused
<1>8. CASE ResendEnds BY <1>8 DEF ResendEnds
<1>9. CASE VerifyServed BY <1>9 DEF VerifyServed, Verify
<1>10. CASE VerifyFailed BY <1>10 DEF VerifyFailed, Verify
<1>11. CASE ForgotEnds BY <1>11 DEF ForgotEnds
<1>12. CASE ResetServed BY <1>12 DEF ResetServed, Reset
<1>13. CASE ResetFailed BY <1>13 DEF ResetFailed, Reset
<1>14. QED BY <1>1, <1>2, <1>3, <1>4, <1>5, <1>6, <1>7, <1>8, <1>9, <1>10, <1>11, <1>12, <1>13

\* The Boolean variables are Boolean and the others take the values listed.
LEMMA JoinTypesKept ==
    ASSUME JoinTypeOK, [JoinNext]_joinVars
    PROVE  JoinTypeOK'
<1> USE DEF JoinTypeOK, Steps, JoinPageNames
<1> DEFINE Flags == {member, verifyLink, resetLink, wasReset, withInvite, token, unverified}
<1>1. ASSUME NEW p \in JoinPageNames, LoadPage(p) PROVE JoinTypeOK'
      BY <1>1 DEF LoadPage, Await
<1>2. ASSUME NEW p \in JoinPageNames, Follow(p) PROVE JoinTypeOK'
  <2>1. Flags' \subseteq BOOLEAN BY <1>2 DEF Follow, joinServer
  <2>2. QED BY <1>2, <2>1 DEF Follow, joinServer
<1>3. ASSUME NEW p \in {"invitee", "other"}, LoginServed(p) PROVE JoinTypeOK'
      BY <1>3 DEF LoginServed, joinServer, joinForm
<1>4. CASE LookUp BY <1>4 DEF LookUp, LookedUp, joinServer, joinForm
<1>5. CASE ClickAccept BY <1>5 DEF ClickAccept, Await, joinServer, joinForm
<1>6. CASE AcceptServed BY <1>6 DEF AcceptServed, Claim, joinForm
<1>7. CASE AcceptFailed
  <2>1. Flags' \subseteq BOOLEAN BY <1>7 DEF AcceptFailed, StayWithError, Claim, joinForm
  <2>2. QED BY <1>7, <2>1 DEF AcceptFailed, StayWithError, Claim, joinForm
<1>8. CASE UserRefreshed BY <1>8 DEF UserRefreshed, Enter, joinServer, joinForm
<1>9. CASE UserNotRefreshed BY <1>9 DEF UserNotRefreshed, StayWithError, joinServer, joinForm
<1>10. CASE ClickLogOut BY <1>10 DEF ClickLogOut, joinServer, joinForm
<1>11. CASE LogInToAccept BY <1>11 DEF LogInToAccept, joinServer
<1>12. CASE CreateAccount BY <1>12 DEF CreateAccount, joinServer
<1>13. CASE ReloadReset BY <1>13 DEF ReloadReset
<1>14. CASE RegisterRefusedHere BY <1>14 DEF RegisterRefusedHere, joinServer, joinForm
<1>15. CASE SubmitRegister BY <1>15 DEF SubmitRegister, Await, joinServer, joinForm
<1>16. CASE RegisterServed BY <1>16 DEF RegisterServed, Register, joinForm, Claim
<1>17. CASE RegisterFailed BY <1>17 DEF RegisterFailed, StayWithError, Register, joinForm, Claim
<1>18. CASE SignedUp BY <1>18 DEF SignedUp, Enter, joinServer, joinForm
<1>19. CASE SignUpFailed BY <1>19 DEF SignUpFailed, StayWithError, joinServer, joinForm
<1>20. CASE SubmitLogin BY <1>20 DEF SubmitLogin, Await, joinServer
<1>21. CASE LoginRefused
  <2>1. Flags' \subseteq BOOLEAN BY <1>21 DEF LoginRefused, StayWithError, joinServer
  <2>2. QED BY <1>21, <2>1 DEF LoginRefused, StayWithError, joinServer
<1>22. CASE ClickResend BY <1>22 DEF ClickResend, joinServer, joinForm
<1>23. CASE ResendEnds
  <2>1. Flags' \subseteq BOOLEAN BY <1>23 DEF ResendEnds, joinForm
  <2>2. QED BY <1>23, <2>1 DEF ResendEnds, joinForm
<1>24. CASE VerifyServed BY <1>24 DEF VerifyServed, Verify, joinForm
<1>25. CASE VerifyFailed
  <2>1. Flags' \subseteq BOOLEAN BY <1>25 DEF VerifyFailed, StayWithError, Verify, joinForm
  <2>2. QED BY <1>25, <2>1 DEF VerifyFailed, StayWithError, Verify, joinForm
<1>26. CASE SubmitForgot BY <1>26 DEF SubmitForgot, Await, joinServer, joinForm
<1>27. CASE ForgotEnds BY <1>27 DEF ForgotEnds, joinForm
<1>28. CASE SubmitReset BY <1>28 DEF SubmitReset, Await, joinServer, joinForm
<1>29. CASE ResetServed
  <2>1. Flags' \subseteq BOOLEAN BY <1>29 DEF ResetServed, Reset, joinForm
  <2>2. QED BY <1>29, <2>1 DEF ResetServed, Reset, joinForm
<1>30. CASE ResetFailed
  <2>1. Flags' \subseteq BOOLEAN BY <1>30 DEF ResetFailed, StayWithError, Reset, joinForm
  <2>2. QED BY <1>30, <2>1 DEF ResetFailed, StayWithError, Reset, joinForm
<1>31. CASE InviteElsewhere BY <1>31 DEF InviteElsewhere, joinForm
<1>32. CASE UNCHANGED joinVars BY <1>32 DEF joinVars, joinServer, joinForm
<1>33. QED BY <1>1, <1>2, <1>3, <1>4, <1>5, <1>6, <1>7, <1>8, <1>9, <1>10, <1>11, <1>12, <1>13,
              <1>14, <1>15, <1>16, <1>17, <1>18, <1>19, <1>20, <1>21, <1>22, <1>23, <1>24,
              <1>25, <1>26, <1>27, <1>28, <1>29, <1>30, <1>31, <1>32 DEF JoinNext

LEMMA JoinStepKeeps == JoinInvariant /\ [JoinNext]_joinVars => JoinInvariant'
<1>1. SUFFICES ASSUME JoinInvariant, [JoinNext]_joinVars PROVE JoinInvariant' OBVIOUS
<1>2. JoinTypeOK' BY <1>1, JoinTypesKept DEF JoinInvariant
<1>3. SUFFICES StepsAtHome' /\ SaysWhatHappened' BY <1>2 DEF JoinInvariant
<1>4. CASE UNCHANGED joinVars
      BY <1>1, <1>4 DEF joinVars, joinServer, JoinInvariant, StepsAtHome, SaysWhatHappened
<1>5. CASE JoinNext BY <1>1, <1>5, JoinMoves, JoinAsks, JoinAnswers DEF JoinNext
<1>6. QED BY <1>1, <1>4, <1>5

\* The type invariant of the pages outside the console.
THEOREM JoinTypes == JoinSpec => []JoinTypeOK
<1>1. JoinInvariant => JoinTypeOK BY DEF JoinInvariant
<1>2. QED BY <1>1, JoinInitially, JoinStepKeeps, PTL DEF JoinSpec

\* What the pages say of joining, verifying and resetting is so, whichever requests fail or are
\* carried out without an answer, and whichever pages are loaded in between.
THEOREM PagesSayWhatHappened == JoinSpec => []SaysWhatHappened
<1>1. JoinInvariant => SaysWhatHappened BY DEF JoinInvariant
<1>2. QED BY <1>1, JoinInitially, JoinStepKeeps, PTL DEF JoinSpec
=============================================================================
