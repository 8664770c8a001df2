--------------------------- MODULE AccessPage ---------------------------
(***************************************************************************)
(* The members of one vault (AccessPage.tsx): adding a member, changing    *)
(* a role, and removing a member, which the user confirms by typing the    *)
(* member's email address (ConfirmDialog.tsx); and what the API allows     *)
(* (member_handlers.go).  A person stands for their email address.         *)
(***************************************************************************)
EXTENDS FiniteSets, Naturals

CONSTANTS
    Persons, Viewing, Unset,    \* Viewing: the user of the page
    FirstAccess                 \* the roles in the vault at the start

VaultRoles == {"owner", "admin", "viewer"}      \* viewer stands for all below admin
NotMember == "none"
AccessTables == [Persons -> VaultRoles \cup {NotMember}]

ASSUME AccessConstants ==
    Viewing \in Persons /\ Unset \notin Persons /\ FirstAccess \in AccessTables

VARIABLES
    access,         \* server: the role of each person in the vault
    seen,           \* query cache: the members
    addForm,        \* showAddForm
    email, newRole, \* newEmail, newRole
    target,         \* deleteConfirm
    typedEmail,     \* the text in the confirmation dialog
    adding, changing, taking,   \* the requests in flight, one of each kind
    typedFor        \* history: whose address was typed since the dialog opened

addition == <<addForm, email, newRole>>
asking == <<target, typedEmail, typedFor>>
flights == <<adding, changing, taking>>
accessVars == <<access, seen, addition, asking, flights>>

AccessRequests == [who : Persons \cup {Unset}, role : VaultRoles \cup {NotMember}]
NoAccessRequest == [who |-> Unset, role |-> NotMember]
\* typed, listed: the address was typed, and the member was listed, at the click
Removals == [who : Persons \cup {Unset}, typed : BOOLEAN, listed : BOOLEAN]
NoRemoval == [who |-> Unset, typed |-> FALSE, listed |-> FALSE]

\* Bound: one request in flight.
NoneInFlight ==
    adding = NoAccessRequest /\ changing = NoAccessRequest /\ taking = NoRemoval

FetchSeen ==
    /\ seen # access /\ access[Viewing] # NotMember /\ seen' = access
    /\ UNCHANGED <<access, addition, asking, flights>>

------------------------------------------------------------------------------
(* The form and the list *)

\* Whether the form is there does not depend on the user's role.
ToggleAddForm ==
    /\ target = Unset /\ addForm' = ~addForm
    /\ UNCHANGED <<access, seen, email, newRole, asking, flights>>

\* The fields are disabled while a member is being added.
FillAddForm(p, r) ==
    /\ target = Unset /\ addForm /\ adding = NoAccessRequest
    /\ r # "owner" /\ <<p, r>> # <<email, newRole>>
    /\ email' = p /\ newRole' = r
    /\ UNCHANGED <<access, seen, addForm, asking, flights>>

SubmitAdd ==
    /\ target = Unset /\ addForm /\ email # Unset /\ NoneInFlight
    /\ adding' = [who |-> email, role |-> newRole]
    /\ UNCHANGED <<access, seen, addition, asking, changing, taking>>

\* Every row but an owner's has them, the user's own too.
ChangeAccess(p, r) ==
    /\ target = Unset /\ seen[p] \notin {"owner", NotMember} /\ r \notin {"owner", seen[p]}
    /\ NoneInFlight
    /\ changing' = [who |-> p, role |-> r]
    /\ UNCHANGED <<access, seen, addition, asking, adding, taking>>

------------------------------------------------------------------------------
(* Removing a member *)

\* Fault: the text typed for one member stays for the next.
KeepText == UNCHANGED typedEmail /\ typedFor' = Unset

\* The effect of the confirmation dialog, which starts empty every time it opens
ClearText == typedEmail' = Unset /\ typedFor' = Unset

AskRemoval(p) ==
    /\ email = Unset       \* bound: nobody is being added meanwhile
    /\ target = Unset /\ seen[p] \notin {"owner", NotMember} /\ taking = NoRemoval
    /\ target' = p
    /\ ClearText
    /\ UNCHANGED <<access, seen, addition, flights>>

CancelRemoval ==
    /\ target # Unset /\ target' = Unset
    /\ UNCHANGED <<access, seen, addition, typedEmail, typedFor, flights>>

\* There is a text to type as long as the member is listed.
TypeEmail(p) ==
    /\ target # Unset /\ seen[target] # NotMember /\ typedEmail # p
    /\ typedEmail' = p /\ typedFor' = p
    /\ UNCHANGED <<access, seen, addition, target, flights>>

CanConfirmRemoval == seen[target] = NotMember \/ typedEmail = target

ConfirmRemoval ==
    /\ target # Unset /\ CanConfirmRemoval /\ NoneInFlight
    /\ taking' = [who |-> target, typed |-> typedFor = target,
                  listed |-> seen[target] # NotMember]
    /\ UNCHANGED <<access, seen, addition, asking, adding, changing>>

------------------------------------------------------------------------------
(* The API *)

Manages(p) == access[p] \in {"owner", "admin"}
VaultOwners == {p \in Persons : access[p] = "owner"}

\* Roles of owner are not offered by this page, but a member may have become one.
AddAllowed(q) == Manages(Viewing) /\ access[q.who] = NotMember
Removable(p) ==
    access[p] = "owner" => access[Viewing] = "owner" /\ Cardinality(VaultOwners) > 1
ChangeAllowed(q) == Manages(Viewing) /\ access[q.who] # NotMember /\ Removable(q.who)
RemovalAllowed(q) ==
    Manages(Viewing) /\ q.who # Viewing /\ access[q.who] # NotMember /\ Removable(q.who)

AddAnswered ==
    /\ adding # NoAccessRequest /\ AddAllowed(adding)
    /\ access' = [access EXCEPT ![adding.who] = adding.role]
    /\ addForm' = FALSE /\ email' = Unset /\ newRole' = "viewer"
    /\ adding' = NoAccessRequest
    /\ UNCHANGED <<seen, asking, changing, taking>>

AddFailed ==
    /\ adding # NoAccessRequest /\ adding' = NoAccessRequest
    /\ UNCHANGED <<access, seen, addition, asking, changing, taking>>

ChangeAnswered ==
    /\ changing # NoAccessRequest /\ ChangeAllowed(changing)
    /\ access' = [access EXCEPT ![changing.who] = changing.role]
    /\ changing' = NoAccessRequest
    /\ UNCHANGED <<seen, addition, asking, adding, taking>>

ChangeFailed ==
    /\ changing # NoAccessRequest /\ changing' = NoAccessRequest
    /\ UNCHANGED <<access, seen, addition, asking, adding, taking>>

\* The answer closes the dialog, whomever it is about by then; a failure leaves it open.
RemovalAnswered ==
    /\ taking # NoRemoval /\ RemovalAllowed(taking)
    /\ access' = [access EXCEPT ![taking.who] = NotMember]
    /\ target' = Unset /\ taking' = NoRemoval
    /\ UNCHANGED <<seen, addition, typedEmail, typedFor, adding, changing>>

RemovalFailed ==
    /\ taking # NoRemoval /\ taking' = NoRemoval
    /\ UNCHANGED <<access, seen, addition, asking, adding, changing>>

\* Another manager changes one role.  Bound: one change that the page has not seen.
AccessElsewhere(p, r) ==
    /\ access = seen /\ access[p] # r /\ p # Viewing
    /\ access' = [access EXCEPT ![p] = r] /\ \E q \in Persons : access'[q] = "owner"
    /\ UNCHANGED <<seen, addition, asking, flights>>

------------------------------------------------------------------------------
AccessInit ==
    /\ access = FirstAccess /\ seen = FirstAccess
    /\ addForm = FALSE /\ email = Unset /\ newRole = "viewer"
    /\ target = Unset /\ typedEmail = Unset /\ typedFor = Unset
    /\ adding = NoAccessRequest /\ changing = NoAccessRequest /\ taking = NoRemoval

AccessNext ==
    \/ FetchSeen \/ ToggleAddForm \/ SubmitAdd \/ CancelRemoval \/ ConfirmRemoval
    \/ \E p \in Persons : AskRemoval(p) \/ TypeEmail(p)
    \/ \E p \in Persons, r \in VaultRoles : FillAddForm(p, r) \/ ChangeAccess(p, r)
    \/ \E p \in Persons, r \in VaultRoles \cup {NotMember} : AccessElsewhere(p, r)
    \/ AddAnswered \/ AddFailed \/ ChangeAnswered \/ ChangeFailed
    \/ RemovalAnswered \/ RemovalFailed

AccessSpec == AccessInit /\ [][AccessNext]_accessVars

AccessTypeOK ==
    /\ access \in AccessTables /\ seen \in AccessTables
    /\ addForm \in BOOLEAN /\ email \in Persons \cup {Unset} /\ newRole \in VaultRoles
    /\ target \in Persons \cup {Unset} /\ typedEmail \in Persons \cup {Unset}
    /\ typedFor \in Persons \cup {Unset}
    /\ adding \in AccessRequests /\ changing \in AccessRequests /\ taking \in Removals

\* The page asks for the removal of a member only after the user has typed that member's
\* address in this dialog, except when the list has lost the member meanwhile: the dialog
\* then has nothing to ask for and its button works at once.
RemovedByEmail == taking # NoRemoval /\ taking.listed => taking.typed
=============================================================================
