---------------------------- MODULE RequestStore ----------------------------
(* The table of logged requests as the dashboard's list reads it
   (storage/sqlite.py): rows are only ever appended by the gateway, the id of
   a row is its place in the table, and a page is asked for by filter and by
   the cursor below whose id it starts.  *)
EXTENDS Naturals, Sequences, FiniteSets, SequencesExt

CONSTANTS NoFilter,  \* the empty search, method or status: no filter
          Words,     \* the words a search may look for in url and upstream
          Verbs,     \* request methods
          Codes,     \* response statuses
          PageLimit, \* rows per page ("limit"; the client asks for 50)
          MaxRows    \* BOUND: rows the gateway logs in one behaviour

ASSUME StoreAssumption ==
    /\ NoFilter \notin Words \cup Verbs \cup Codes
    /\ PageLimit \in Nat \ {0}
    /\ MaxRows \in Nat

VARIABLE log \* the rows, oldest first

Row == [word : Words, method : Verbs, status : Codes]

Filter == [search : Words \cup {NoFilter}, method : Verbs \cup {NoFilter},
           status : Codes \cup {NoFilter}]

\* _build_where: each condition is there only if its filter is
Matches(row, filter) ==
    /\ filter.search \in {NoFilter, row.word}
    /\ filter.method \in {NoFilter, row.method}
    /\ filter.status \in {NoFilter, row.status}

\* ORDER BY id DESC
NewestFirst(ids) == CHOOSE order \in [1 .. Cardinality(ids) -> ids] :
                       \A i, j \in DOMAIN order : i < j => order[i] > order[j]

\* get_requests: total counts every hit, the page starts below the cursor
\* (0: at the newest), one row more than the limit tells has_more, and the
\* answer carries the cursor it was asked with beside the next one
GetRequests(filter, cursor) ==
    LET hits == {id \in DOMAIN log : Matches(log[id], filter)}
        rows == NewestFirst({id \in hits : cursor > 0 => id < cursor})
        more == Len(rows) > PageLimit
        data == IF more THEN SubSeq(rows, 1, PageLimit) ELSE rows
    IN  [data |-> data, total |-> Cardinality(hits), cursor |-> cursor,
         next |-> IF more THEN Last(data) ELSE 0, more |-> more]

StoreInit == log = <<>>

\* the gateway logs one more request
LogRow == /\ Len(log) < MaxRows
          /\ \E row \in Row : log' = Append(log, row)
=============================================================================
