---------------------------- MODULE CallLogPages ----------------------------
(***************************************************************************)
(* Paging through the call logs: handleListCalls of internal/web/server.go *)
(* and ListCallLogsByUser of internal/store/store.go, which counts the     *)
(* rows and selects a page of them in two statements, against calls that   *)
(* begin and boxes that are removed; and web/app.js, which goes from page  *)
(* to page.                                                                *)
(***************************************************************************)
EXTENDS Naturals, FiniteSets

CONSTANTS PageSize,   \* page_size, within 1..100
          MaxCalls    \* bound on the rows made

ASSUME PageSizeIsPositive == PageSize \in 1..100
ASSUME CallsAreCounted == MaxCalls \in Nat

VARIABLES
    rows,    \* ids of the user's rows in call_logs
    last,    \* the last id given out
    removed, \* whether a box was removed since the walk began
    page,    \* callLogsPage, 0 before the first answer
    total,   \* callLogsTotalPages
    get,     \* the request: its step, page, count and items
    wanted,  \* rows there when the walk began and there ever since
    seen,    \* rows shown in this walk
    torn     \* the last answer's count is not of the rows it was selected from

tableVars == <<rows, last, removed>>
walkVars == <<page, total, get, wanted, seen, torn>>
pageVars == <<tableVars, walkVars>>

NoGet == [at |-> "none", page |-> 1, count |-> 0, items |-> {}, torn |-> FALSE]

PagesInit ==
    /\ last \in 0..MaxCalls
    /\ rows = 1..last /\ removed = FALSE
    /\ page = 0 /\ total = 1 /\ get = NoGet
    /\ wanted = {} /\ seen = {} /\ torn = FALSE

Rank(i) == Cardinality({j \in rows : j > i})

\* Mutant: the offset leaves a row out between two pages.
LimitSkips(p) ==
    {i \in rows : Rank(i) >= (p - 1) * (PageSize + 1) /\ Rank(i) < p * (PageSize + 1) - 1}

\* ORDER BY id DESC LIMIT PageSize OFFSET (p - 1) * PageSize
Limit(p) == {i \in rows : Rank(i) >= (p - 1) * PageSize /\ Rank(i) < p * PageSize}

totalPages(n) == IF n = 0 THEN 0 ELSE (n + PageSize - 1) \div PageSize

---------------------------------------------------------------------------
\* CreateCallLog.
CallBegins ==
    /\ last < MaxCalls
    /\ last' = last + 1
    /\ rows' = rows \cup {last'}
    /\ UNCHANGED <<removed, walkVars>>

\* The rows of a box go with it.
BoxRemoved(gone) ==
    /\ gone \subseteq rows /\ gone # {}
    /\ removed' = TRUE
    /\ rows' = rows \ gone
    /\ wanted' = wanted \ gone
    /\ UNCHANGED <<last, page, total, get, seen, torn>>

---------------------------------------------------------------------------
Asks(p) == get' = [get EXCEPT !.at = "asked", !.page = p]

\* refreshCallLogs(1) begins a walk.
FirstPage ==
    /\ get.at = "none"
    /\ Asks(1)
    /\ wanted' = rows /\ seen' = {} /\ removed' = FALSE
    /\ UNCHANGED <<rows, last, page, total, torn>>

\* The button is disabled on the last page.
NextPage ==
    /\ get.at = "none"
    /\ page > 0 /\ page < total
    /\ Asks(page + 1)
    /\ UNCHANGED <<tableVars, page, total, wanted, seen, torn>>

\* SELECT COUNT(1),
Count ==
    /\ get.at = "asked"
    /\ get' = [get EXCEPT !.at = "counted", !.count = Cardinality(rows)]
    /\ UNCHANGED <<tableVars, page, total, wanted, seen, torn>>

\* and the page.
Select ==
    /\ get.at = "counted"
    /\ get' = [get EXCEPT !.at = "answered", !.items = Limit(get.page),
                          !.torn = get.count # Cardinality(rows)]
    /\ UNCHANGED <<tableVars, page, total, wanted, seen, torn>>

ShownPages == IF totalPages(get.count) = 0 THEN 1 ELSE totalPages(get.count)

\* Mutant: the page past the end is asked for again.
ShowRetries ==
    /\ get.at = "answered"
    /\ total' = ShownPages /\ page' = get.page
    /\ IF get.page > ShownPages
       THEN Asks(get.page) /\ UNCHANGED <<seen, torn>>
       ELSE get' = NoGet /\ seen' = seen \cup get.items /\ torn' = get.torn
    /\ UNCHANGED <<tableVars, wanted>>

\* The answer; a page past the end is not shown, the last one is asked for.
Show ==
    /\ get.at = "answered"
    /\ total' = ShownPages /\ page' = get.page
    /\ IF get.page > ShownPages
       THEN Asks(ShownPages) /\ UNCHANGED <<seen, torn>>
       ELSE get' = NoGet /\ seen' = seen \cup get.items /\ torn' = get.torn
    /\ UNCHANGED <<tableVars, wanted>>

\* .catch(() => {}): without its first page a walk does not begin.
GetFails ==
    /\ get.at # "none"
    /\ get' = NoGet
    /\ wanted' = IF get.page = 1 THEN {} ELSE wanted
    /\ UNCHANGED <<tableVars, page, total, seen, torn>>

PagesNext ==
    \/ CallBegins
    \/ \E gone \in SUBSET rows : BoxRemoved(gone)
    \/ FirstPage \/ NextPage \/ Count \/ Select \/ Show \/ GetFails

PagesSafety == PagesInit /\ [][PagesNext]_pageVars

\* A request is answered.
PagesSpec == PagesSafety /\ WF_pageVars(Count \/ Select \/ Show)

---------------------------------------------------------------------------
\* Calls that begin during a walk shift the pages, so that some are shown twice,
\* but the walk leaves no gap: of the calls there were when it began it has shown
\* every one newer than the oldest it has shown, and who has come to the last page
\* has seen them all, unless a call began between the count and the rows of that
\* very answer.  Removals shift the pages the other way: no such promise then.
NoGap ==
    ~removed =>
        /\ \A i \in wanted, j \in seen : i > j => i \in seen
        /\ get.at = "none" /\ page > 0 /\ page = total /\ ~torn => wanted \subseteq seen

\* A page that was taken away by removals leads to one there is, though rows go
\* on being removed meanwhile: asking for the last page comes to an end.
GetReturns == get.at # "none" ~> get.at = "none"
=============================================================================
