----------------------- MODULE OrganizationChoice -----------------------
(***************************************************************************)
(* The organization a user works in: the choice is kept in the browser for *)
(* each user (OrganizationContext.tsx, OrganizationSwitcher.tsx).  Several *)
(* people may use the browser one after the other; what the query library  *)
(* has cached for one is still there for the next.                         *)
(***************************************************************************)
EXTENDS Naturals, FiniteSets

CONSTANTS
    Organizations, People, Nobody,
    VaultCount,         \* how many vaults each organization has
    MostVaults          \* no organization has more

ASSUME ChoiceConstants ==
    /\ Nobody \notin Organizations \cup People
    /\ MostVaults \in Nat /\ VaultCount \in [Organizations -> 0..MostVaults]

VARIABLES
    belongs,            \* server: the organizations of each person
    me,                 \* the person signed in
    blocked,            \* the browser keeps no site data
    storage,            \* localStorage: the choice under each key
    selected,           \* selectedId
    myList, myListOf,   \* query cache: a list of organizations, and whose it is
    chose               \* history: what each person chose last

choiceVars == <<belongs, me, blocked, storage, selected, myList, myListOf, chose>>

\* pickDefaultOrganization: one with the most vaults
Default == CHOOSE o \in myList : \A p \in myList : VaultCount[p] <= VaultCount[o]
CurrentOrg ==
    IF selected \in myList THEN selected ELSE IF myList = {} THEN Nobody ELSE Default

\* Fault: one key of the storage for all users of the browser.
SharedKey(p) == CHOOSE q \in People : TRUE

StorageKey(p) == p
ReadChoice(p) == IF blocked THEN Nobody ELSE storage[StorageKey(p)]

------------------------------------------------------------------------------
\* Private windows and some settings block site data, from the start.
BlockStorage ==
    /\ me = Nobody /\ chose = [p \in People |-> Nobody] /\ blocked' = TRUE
    /\ UNCHANGED <<belongs, me, storage, selected, myList, myListOf, chose>>

\* A new user object, at sign-in and whenever the user is refreshed: the choice is read again.
SignIn(p) ==
    /\ me \in {p, Nobody} /\ me' = p
    /\ selected' = ReadChoice(p)
    /\ UNCHANGED <<belongs, blocked, storage, myList, myListOf, chose>>

SignOut ==
    /\ me # Nobody /\ me' = Nobody /\ selected' = Nobody
    /\ UNCHANGED <<belongs, blocked, storage, myList, myListOf, chose>>

\* The switcher is there for two or more organizations.
ChooseOrg(o) ==
    /\ me # Nobody /\ Cardinality(myList) >= 2 /\ o \in myList \ {CurrentOrg}
    /\ selected' = o /\ chose' = [chose EXCEPT ![me] = o]
    /\ storage' = IF blocked THEN storage ELSE [storage EXCEPT ![StorageKey(me)] = o]
    /\ UNCHANGED <<belongs, me, blocked, myList, myListOf>>

FetchOrgs ==
    /\ me # Nobody /\ myList' = belongs[me] /\ myListOf' = me
    /\ UNCHANGED <<belongs, me, blocked, storage, selected, chose>>

\* People join organizations and are removed from them.
Membership(p, O) ==
    /\ O # belongs[p] /\ belongs' = [belongs EXCEPT ![p] = O]
    /\ UNCHANGED <<me, blocked, storage, selected, myList, myListOf, chose>>

ChoiceInit ==
    /\ belongs = [p \in People |-> Organizations] /\ me = Nobody /\ blocked = FALSE
    /\ storage = [p \in People |-> Nobody] /\ chose = [p \in People |-> Nobody]
    /\ selected = Nobody /\ myList = {} /\ myListOf = Nobody

ChoiceNext ==
    \/ BlockStorage \/ SignOut \/ FetchOrgs
    \/ \E p \in People : SignIn(p)
    \/ \E o \in Organizations : ChooseOrg(o)
    \/ \E p \in People, O \in SUBSET Organizations : Membership(p, O)

ChoiceSpec == ChoiceInit /\ [][ChoiceNext]_choiceVars

ChoiceTypeOK ==
    /\ belongs \in [People -> SUBSET Organizations] /\ me \in People \cup {Nobody}
    /\ blocked \in BOOLEAN /\ storage \in [People -> Organizations \cup {Nobody}]
    /\ selected \in Organizations \cup {Nobody} /\ myList \in SUBSET Organizations
    /\ myListOf \in People \cup {Nobody} /\ chose \in [People -> Organizations \cup {Nobody}]

\* The organization a page is about is the one this user chose last, as long as it is listed
\* for them, and one with the most vaults otherwise, whoever used the browser in between.
\* It is lost when the browser keeps no site data, and unknown until the list of this user
\* has replaced the previous one's.
ChoiceKept ==
    (me # Nobody /\ myListOf = me /\ ~blocked) =>
        IF chose[me] \in myList THEN CurrentOrg = chose[me]
        ELSE \A o \in myList : VaultCount[o] <= VaultCount[CurrentOrg]
=============================================================================
