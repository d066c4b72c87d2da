---------------------------- MODULE RequestFeed ----------------------------
(* The request list of the dashboard: the hook that fetches it
   (hooks/useRequests.ts), the filter bar, the timeline, the ledger and the
   page that joins them (pages/ListPage.tsx).

   `feed` is the state React keeps for the mounted page, `calls` the fetches
   under way.  A handler runs to its end before the next one, so each is one
   step; an answer may come in any order, and nothing cancels a fetch.  An
   effect runs after the render of the step that changed what it depends on and
   is part of that step; what a timer has captured is the state of that render.
   The answer is read from the table in the step it arrives in: rows logged
   between the two are as good as logged after.  *)
EXTENDS RequestStore

CONSTANTS NoRow,    \* no row is selected
          NoTimer,  \* no search is waiting
          MaxCalls, \* BOUND: fetches under way at once
          MaxStack  \* BOUND: depth of the cursor stack

ASSUME FeedAssumption == NoRow \notin Nat /\ NoTimer \notin Filter

VARIABLES feed,  \* the page's state, or Away
          calls  \* the fetches under way, in the order they were sent

feedVars == <<log, feed, calls>>

Away == [mounted |-> FALSE]

Filters(f) == [search |-> f.search, method |-> f.method, status |-> f.status]

Feeds == [mounted : {TRUE}, search : Words \cup {NoFilter},
          method : Verbs \cup {NoFilter}, status : Codes \cup {NoFilter},
          rows : Seq(Nat), total : Nat, loading : BOOLEAN, error : BOOLEAN,
          more : BOOLEAN, cursor : Nat, stack : Seq(Nat), back : BOOLEAN,
          selected : Nat \cup {NoRow}, timer : Filter \cup {NoTimer}]

Call == [filter : Filter, cursor : Nat]

FeedTypeOK == /\ log \in Seq(Row)
              /\ feed \in Feeds \cup {Away}
              /\ calls \in Seq(Call)
              /\ ~feed.mounted => calls = <<>>

-----------------------------------------------------------------------------
\* canGoBack is read from a ref while rendering: it follows the stack only
\* when a step changes state that is rendered
Rendered(f) == [f EXCEPT !.back = f.stack # <<>>]

\* mutant: rows that are shown stay without a sign of the fetch
FetchingQuietly(f) ==
    IF ~f.error THEN f ELSE Rendered([f EXCEPT !.error = FALSE])

\* the first half of doFetch: setLoading(true), setError(null); React renders
\* only if one of them is a change
Fetching(f) ==
    IF f.loading /\ ~f.error
    THEN f
    ELSE Rendered([f EXCEPT !.loading = TRUE, !.error = FALSE])

Send(filter, cursor) ==
    calls' = Append(calls, [filter |-> filter, cursor |-> cursor])

\* fetchRequests takes what getRequests answers; doFetch stores it
Answered(f, page) ==
    Rendered([f EXCEPT !.rows = page.data, !.total = page.total,
                       !.more = page.more, !.cursor = page.cursor,
                       !.loading = FALSE])

\* a status other than 2xx, or no answer at all
Failed(f) ==
    IF f.error /\ ~f.loading
    THEN f
    ELSE Rendered([f EXCEPT !.error = TRUE, !.loading = FALSE])

\* what the two effects do with a change: a search waits 300 ms from its
\* latest render, a method or status is fetched at once from the first page
Debounce(f) == [f EXCEPT !.timer = Filters(f)]

Restart(f) == Fetching([f EXCEPT !.stack = <<>>])

-----------------------------------------------------------------------------
\* the ledger's body: an error line, a skeleton, the empty notice, rows
LedgerNotice(f) ==
    {n \in {"error", "skeleton", "empty"} :
        \/ n = "error" /\ f.error
        \/ n = "skeleton" /\ f.loading /\ f.rows = <<>>
        \/ n = "empty" /\ ~f.loading /\ f.rows = <<>> /\ ~f.error}

\* a row of the ledger is an option that is clicked open
LedgerRows(f) == Range(f.rows)

\* the timeline draws a bar for each row of the page
TimelineBars(f) == Range(f.rows)

PrevEnabled(f) == f.back
NextEnabled(f) == f.more

\* the place of the selected row on the page, 0 if it is not there
SelectedAt(f) == IF f.selected \in Range(f.rows)
                 THEN CHOOSE i \in DOMAIN f.rows : f.rows[i] = f.selected
                 ELSE 0

-----------------------------------------------------------------------------
FeedInit == StoreInit /\ feed = Away /\ calls = <<>>

\* the page is rendered and both effects run
FeedEnters ==
    /\ feed' = Debounce(
          [mounted |-> TRUE, search |-> NoFilter, method |-> NoFilter,
           status |-> NoFilter, rows |-> <<>>, total |-> 0, loading |-> TRUE,
           error |-> FALSE, more |-> FALSE, cursor |-> 0, stack |-> <<>>,
           back |-> FALSE, selected |-> NoRow, timer |-> NoTimer])
    /\ calls' = <<[filter |-> Filters(feed'), cursor |-> 0]>>

\* leaving the page drops its state; answers still to come find nobody
FeedLeaves == feed' = Away /\ calls' = <<>>

\* typing in the search field, or Escape in it
SetSearch(v) ==
    /\ feed.mounted /\ v # feed.search
    /\ feed' = Debounce(Rendered([feed EXCEPT !.search = v]))
    /\ UNCHANGED <<log, calls>>

\* the 300 ms are over: the query is the one captured with the timer
SearchTimer ==
    /\ feed.mounted /\ feed.timer # NoTimer
    /\ Len(calls) < MaxCalls
    /\ feed' = [Restart(feed) EXCEPT !.timer = NoTimer]
    /\ Send(feed.timer, 0)
    /\ UNCHANGED log

\* choosing in the method list or in the status list
Choose(f) ==
    /\ Len(calls) < MaxCalls
    /\ f # feed
    /\ feed' = Restart(Rendered(f))
    /\ Send(Filters(f), 0)
    /\ UNCHANGED log

SetMethod(v) == feed.mounted /\ Choose([feed EXCEPT !.method = v])
SetStatus(v) == feed.mounted /\ Choose([feed EXCEPT !.status = v])

\* goNext: the cursor of the last answer is pushed and asked for again
GoNext ==
    /\ feed.mounted
    /\ Len(calls) < MaxCalls /\ Len(feed.stack) < MaxStack
    /\ feed' = Fetching([feed EXCEPT !.stack = Append(@, feed.cursor)])
    /\ Send(Filters(feed), feed.cursor)
    /\ UNCHANGED log

\* goPrev: nothing happens on an empty stack
GoPrev ==
    /\ feed.mounted /\ feed.stack # <<>>
    /\ Len(calls) < MaxCalls
    /\ feed' = Fetching([feed EXCEPT !.stack = Front(@)])
    /\ Send(Filters(feed), Last(feed.stack))
    /\ UNCHANGED log

NextPage == feed.mounted /\ NextEnabled(feed) /\ GoNext
PrevPage == feed.mounted /\ PrevEnabled(feed) /\ GoPrev

Select(id) == feed' = [Rendered(feed) EXCEPT !.selected = id]
              /\ UNCHANGED <<log, calls>>

\* ArrowDown or j: the row below, or the next page after the last one
KeyDown ==
    /\ feed.mounted
    /\ LET i == SelectedAt(feed) + 1
       IN  \/ i \in DOMAIN feed.rows /\ Select(feed.rows[i])
           \/ i \notin DOMAIN feed.rows /\ feed.more /\ GoNext

\* ArrowUp or k: the row above, or the page before
KeyUp ==
    /\ feed.mounted
    /\ LET i == SelectedAt(feed)
       IN  \/ i > 1 /\ Select(feed.rows[i - 1])
           \/ i <= 1 /\ feed.back /\ GoPrev

\* a click on a row or on a bar of the timeline selects and opens it
OpenRow(id) ==
    /\ feed.mounted /\ id \in LedgerRows(feed) \cup TimelineBars(feed)
    /\ Select(id)

\* Enter in the ledger opens the selected row, listed or not
KeyEnter(id) ==
    /\ feed.mounted /\ feed.selected = id /\ id # NoRow
    /\ UNCHANGED feedVars

Answer(i) ==
    /\ \E page \in {GetRequests(calls[i].filter, calls[i].cursor)} :
          feed' = Answered(feed, page)
    /\ calls' = RemoveAt(calls, i)
    /\ UNCHANGED log

Fail(i) ==
    /\ feed' = Failed(feed)
    /\ calls' = RemoveAt(calls, i)
    /\ UNCHANGED log

FeedAnswers == \E i \in DOMAIN calls : Answer(i) \/ Fail(i)

\* a press that opens a row; its window is not of this page
Open(id) == OpenRow(id) \/ KeyEnter(id)

FeedStep ==
    \/ \E v \in Words \cup {NoFilter} : SetSearch(v)
    \/ \E v \in Verbs \cup {NoFilter} : SetMethod(v)
    \/ \E v \in Codes \cup {NoFilter} : SetStatus(v)
    \/ NextPage
    \/ PrevPage
    \/ KeyDown
    \/ KeyUp
    \/ SearchTimer
    \/ FeedAnswers
    \/ \E id \in DOMAIN log : Open(id)
    \/ feed.mounted /\ LogRow /\ UNCHANGED <<feed, calls>>

FeedNext == \/ ~feed.mounted /\ FeedEnters /\ UNCHANGED log
            \/ feed.mounted /\ FeedLeaves /\ UNCHANGED log
            \/ FeedStep

FeedSpec == FeedInit /\ [][FeedNext]_feedVars

-----------------------------------------------------------------------------
(* Prev is enabled exactly when a press of it would do something, at any
   moment no fetch is under way; while one is, the button may lag behind the
   stack (the ref is read at the last render, useRequests.ts:103).  *)
BackIsCurrent == feed.mounted /\ ~feed.loading
                 => (PrevEnabled(feed) <=> feed.stack # <<>>)

(* Next asks for the rows after the last one shown: the comment at
   useRequests.ts:82 says the last response's next_cursor drives the fetch,
   and that is the last id of its data (storage/sqlite.py:268).  *)
NextAsksForTheNextPage ==
    [][NextPage => Last(calls').cursor = Last(feed.rows)]_feedVars
=============================================================================
