--------------------------- MODULE SearchBox ---------------------------
(***************************************************************************)
(* The search box of the console's header: the term is debounced, results  *)
(* are cached by term and organization, and Enter opens the first one.     *)
(* Searched is the name of every secret the user can read, in which        *)
(* organization it is and which terms match it; "" is the empty term.      *)
(*                                                                         *)
(* Bound: the secrets and names do not change while the box is used.       *)
(***************************************************************************)
CONSTANTS
    Places,         \* organizations
    Terms,          \* what can be typed, "" included
    Searched,       \* the secrets
    PlaceOf, TermsOf,
    NoneOpened

ASSUME SearchConstants == Places # {} /\ "" \in Terms

VARIABLES
    place,          \* the current organization
    term, debounced,
    found,          \* the cache: the results for a term and organization
    asked,          \* queries whose answers are awaited
    listOpen,
    opened          \* history: what was opened, for which term, in which organization

searchVars == <<place, term, debounced, found, asked, listOpen, opened>>

\* Fault: results are cached by the term alone.
TermKey(t, o) == <<t, CHOOSE p \in Places : TRUE>>

\* What the results are cached by
SearchKey(t, o) == <<t, o>>

Matching(t, o) == {s \in Searched : PlaceOf[s] = o /\ t \in TermsOf[s]}

FirstResults == IF debounced = "" THEN {} ELSE found[SearchKey(debounced, place)]

------------------------------------------------------------------------------
\* A query starts when its key is first shown or shown again.
AskFor(t, o) == asked' = IF t = "" THEN asked ELSE asked \cup {<<t, o>>}

TypeTerm(t) ==
    /\ t # term /\ term' = t /\ listOpen' = TRUE
    /\ UNCHANGED <<place, debounced, found, asked, opened>>

\* 250 milliseconds after the last key
Debounce ==
    /\ debounced # term /\ debounced' = term /\ AskFor(term, place)
    /\ UNCHANGED <<place, term, found, listOpen, opened>>

SearchAnswered ==
    \E q \in asked :
        /\ asked' = asked \ {q}
        /\ \/ found' = [found EXCEPT ![SearchKey(q[1], q[2])] = Matching(q[1], q[2])]
           \/ UNCHANGED found
        /\ UNCHANGED <<place, term, debounced, listOpen, opened>>

SwitchPlace(o) ==
    /\ o # place /\ place' = o /\ listOpen' = FALSE /\ AskFor(debounced, o)
    /\ UNCHANGED <<term, debounced, found, opened>>

\* The term is emptied, the debounced one follows later: Enter opens the result again.
GoTo(s) ==
    /\ listOpen' = FALSE /\ term' = ""
    /\ opened' = [secret |-> s, term |-> debounced, place |-> place]
    /\ UNCHANGED <<place, debounced, found, asked>>

PressEnter == \E s \in FirstResults : GoTo(s)
ClickResult == listOpen /\ debounced # "" /\ \E s \in FirstResults : GoTo(s)

Escape ==
    /\ listOpen' = ~listOpen
    /\ UNCHANGED <<place, term, debounced, found, asked, opened>>

------------------------------------------------------------------------------
SearchInit ==
    /\ place = (CHOOSE o \in Places : TRUE) /\ term = "" /\ debounced = "" /\ listOpen = FALSE
    /\ found = [k \in Terms \X Places |-> {}] /\ asked = {} /\ opened = NoneOpened

SearchNext ==
    \/ \E t \in Terms : TypeTerm(t)
    \/ \E o \in Places : SwitchPlace(o)
    \/ Debounce \/ SearchAnswered \/ PressEnter \/ ClickResult \/ Escape

SearchSpec == SearchInit /\ [][SearchNext]_searchVars

SearchTypeOK ==
    /\ place \in Places /\ {term, debounced} \subseteq Terms /\ listOpen \in BOOLEAN
    /\ found \in [Terms \X Places -> SUBSET Searched]
    /\ asked \subseteq Terms \X Places
    /\ opened = NoneOpened \/ opened \in [secret : Searched, term : Terms, place : Places]

\* What is opened from the search box is a secret of the organization the user is in and
\* matches the debounced term, whatever order answers arrive in, also after switching
\* organizations.
OpensMatch ==
    opened # NoneOpened => opened.secret \in Matching(opened.term, opened.place)
=============================================================================
