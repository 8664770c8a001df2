--------------------------- MODULE AuditPage ---------------------------
(***************************************************************************)
(* The audit log page: filters, pages of PageSize events, and the cache of *)
(* answers, one for each filter and page (use-audit.ts).  Events are only  *)
(* ever added, but the API counts those that the roles of the viewer allow *)
(* at that moment (audit/repository_postgres.go), so a viewer who is       *)
(* demoted or removed from a vault sees fewer.  A choice of the five       *)
(* filters together with the organization is one member of LogFilters;     *)
(* NoFilter is the empty choice.                                           *)
(*                                                                         *)
(* Bounds: MaxEvents[f] visible events match filter f; the viewer loses    *)
(* roles once.                                                             *)
(***************************************************************************)
EXTENDS Integers

CONSTANTS LogFilters, NoFilter, PageSize, MaxEvents, NoAnswer

ASSUME LogConstants ==
    /\ NoFilter \in LogFilters /\ PageSize \in Nat \ {0}
    /\ MaxEvents \in [LogFilters -> Nat] /\ NoAnswer \notin Nat
    /\ \A f \in LogFilters : MaxEvents[f] <= MaxEvents[NoFilter]

VARIABLES
    events,     \* server: how many events the viewer may see match each filter
    filter, page,
    totals,     \* the cache: the total that the answer for a filter and page gave
    failed,     \* the request for what the page shows failed
    details,    \* an event is selected
    strayed,    \* history: a filter was changed on a page other than the first
    demoted     \* history: the viewer lost the role that showed some of the events

logVars == <<events, filter, page, totals, failed, details, strayed, demoted>>

PagesOf(total) == (total + PageSize - 1) \div PageSize
\* Every event matches the empty filter.
LogPages == 1..(2 + PagesOf(MaxEvents[NoFilter]))

Answer == totals[<<filter, page>>]
HasTotal == Answer # NoAnswer
Total == IF HasTotal THEN Answer ELSE 0
\* The rows of the table
Rows == LET rest == Total - (page - 1) * PageSize
        IN IF rest <= 0 THEN 0 ELSE IF rest > PageSize THEN PageSize ELSE rest

------------------------------------------------------------------------------
Show(f, p) == filter' = f /\ page' = p /\ failed' = FALSE

\* The boxes and selects change the filter and leave the page as it is.
SelectFilter(f) ==
    /\ f # filter /\ Show(f, page) /\ strayed' = (strayed \/ page > 1)
    /\ UNCHANGED <<events, totals, details, demoted>>

ClearFilters ==
    /\ filter # NoFilter /\ Show(NoFilter, 1)
    /\ UNCHANGED <<events, totals, details, strayed, demoted>>

\* Fault: the button goes one page too far back.
BeforeFirst == page = 0

\* The buttons are disabled while the first answer for the page is awaited.
AtFirst == page = 1
PreviousPage ==
    /\ ~AtFirst
    /\ HasTotal \/ failed
    /\ Show(filter, page - 1)
    /\ UNCHANGED <<events, totals, details, strayed, demoted>>

\* Fault: the button goes one page too far.
PastLast == page > PagesOf(Total)

AtLast == page >= PagesOf(Total)
NextPage ==
    /\ ~AtLast /\ HasTotal /\ Show(filter, page + 1)
    /\ UNCHANGED <<events, totals, details, strayed, demoted>>

\* Asked when the filter or page is first shown, shown again, or the window is focused
LogAnswered ==
    /\ totals' = [totals EXCEPT ![<<filter, page>>] = events[filter]] /\ failed' = FALSE
    /\ totals' # totals \/ failed
    /\ UNCHANGED <<events, filter, page, details, strayed, demoted>>

LogFails ==
    /\ ~failed /\ failed' = TRUE
    /\ UNCHANGED <<events, filter, page, totals, details, strayed, demoted>>

SelectEvent ==
    /\ Rows > 0 /\ ~failed /\ ~details /\ details' = TRUE
    /\ UNCHANGED <<events, filter, page, totals, failed, strayed, demoted>>

CloseDetails ==
    /\ details /\ details' = FALSE
    /\ UNCHANGED <<events, filter, page, totals, failed, strayed, demoted>>

\* Something is recorded, or a new role of the viewer shows it: it matches the empty filter, and
\* perhaps others.  (Several at once are several of these.)
Record ==
    /\ \E fs \in SUBSET LogFilters :
          /\ NoFilter \in fs /\ \A f \in fs : events[f] < MaxEvents[f]
          /\ events' = [f \in LogFilters |-> IF f \in fs THEN events[f] + 1 ELSE events[f]]
    /\ UNCHANGED <<filter, page, totals, failed, details, strayed, demoted>>

\* The viewer stops being an owner or admin of the organization or of a vault: of each filter's
\* events some are left, those of the viewer among them.
Demote ==
    /\ ~demoted /\ demoted' = TRUE
    /\ events' \in [LogFilters -> 0..MaxEvents[NoFilter]] /\ events' # events
    /\ \A f \in LogFilters : events'[f] <= events[f] /\ events'[f] <= events'[NoFilter]
    /\ UNCHANGED <<filter, page, totals, failed, details, strayed>>

------------------------------------------------------------------------------
LogInit ==
    /\ events = [f \in LogFilters |-> 0] /\ filter = NoFilter /\ page = 1
    /\ totals = [k \in LogFilters \X LogPages |-> NoAnswer]
    /\ failed = FALSE /\ details = FALSE /\ strayed = FALSE /\ demoted = FALSE

LogNext ==
    \/ \E f \in LogFilters : SelectFilter(f)
    \/ ClearFilters \/ PreviousPage \/ NextPage \/ LogAnswered \/ LogFails
    \/ SelectEvent \/ CloseDetails \/ Record \/ Demote

LogSpec == LogInit /\ [][LogNext]_logVars

LogTypeOK ==
    /\ \A f \in LogFilters : events[f] \in 0..MaxEvents[f]
    /\ filter \in LogFilters /\ page \in LogPages
    /\ \A k \in LogFilters \X LogPages : totals[k] = NoAnswer \/ totals[k] \in 0..MaxEvents[k[1]]
    /\ {failed, details, strayed, demoted} \subseteq BOOLEAN

\* Previous and Next never lead to an empty page of a log that has events, whatever is
\* recorded between the answers and however old the cached ones are.  Two things do: changing
\* a filter on a later page, which keeps the page, and losing a role that showed events.
EmptyPageHasCause == (HasTotal /\ Rows = 0 /\ Total > 0) => strayed \/ demoted
=============================================================================
