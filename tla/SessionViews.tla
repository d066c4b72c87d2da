---------------------------- MODULE SessionViews ----------------------------
(* The dashboard's pages about sessions: the list of them
   (pages/SessionsPage.tsx) and the trajectory of one (pages/SessionPage.tsx),
   with the answers the server gives them (list_sessions and get_session in
   storage/sqlite.py).  An id in the address may change while the trajectory
   page stays mounted; the page fetches again and keeps what it shows until an
   answer comes, whichever it is.  *)
EXTENDS SessionTurns, SequencesExt

CONSTANTS Sessions,   \* the ids of the sessions
          RowsOf,     \* the rows of each, in the order of their time
          PageSize,   \* PAGE_SIZE, 50
          NoSession,  \* nothing fetched
          NoStep,     \* no step is pinned
          MaxTraces   \* BOUND: trajectories being fetched at once

ASSUME SessionAssumption ==
    /\ PageSize \in Nat \ {0} /\ NoSession \notin Sessions
    /\ \A s \in Sessions : RowsOf[s] \in Seq(Range(RowsOf[s]))
    /\ \A s \in Sessions : NoStep \notin {RowsOf[s][i].id : i \in DOMAIN RowsOf[s]}

VARIABLES recent,     \* the sessions there are, latest activity first
          list,       \* state of the list page, or NoPage
          listCalls,  \* the offsets being fetched
          trace,      \* state of the trajectory page, or NoPage
          traceCalls  \* the ids being fetched

listVars    == <<list, listCalls>>
traceVars   == <<trace, traceCalls>>
sessionVars == <<recent, listVars, traceVars>>

NoPage == [mounted |-> FALSE]

StepsOf(s) == Steps(RowsOf[s])
StepIds(s) == {StepsOf(s)[i].id : i \in DOMAIN StepsOf(s)}
AllSteps   == UNION {StepIds(s) : s \in Sessions}

Lists == [mounted : {TRUE}, rows : Seq(Sessions), total : Nat, offset : Nat,
          more : BOOLEAN, loading : BOOLEAN, error : BOOLEAN]

Traces == [mounted : {TRUE}, id : Sessions, session : Sessions \cup {NoSession},
           loading : BOOLEAN, error : BOOLEAN,
           pinned : AllSteps \cup {NoStep}, collapsed : SUBSET Nat]

SessionTypeOK == /\ recent \in Seq(Sessions)
                 /\ list \in Lists \cup {NoPage}
                 /\ listCalls \in Seq(Nat)
                 /\ trace \in Traces \cup {NoPage}
                 /\ traceCalls \in Seq(Sessions)
                 /\ ~list.mounted => listCalls = <<>>
                 /\ ~trace.mounted => traceCalls = <<>>

-----------------------------------------------------------------------------
\* mutant: a page that ends with the last session says there are more
ListSessionsAndMore(offset) ==
    LET data == SubSeq(recent, offset + 1,
                       IF offset + PageSize <= Len(recent)
                       THEN offset + PageSize ELSE Len(recent))
    IN  [data |-> data, total |-> Len(recent), offset |-> offset,
         more |-> offset + Len(data) <= Len(recent)]

\* list_sessions: a page of the sessions from the offset on
ListSessions(offset) ==
    LET data == SubSeq(recent, offset + 1,
                       IF offset + PageSize <= Len(recent)
                       THEN offset + PageSize ELSE Len(recent))
    IN  [data |-> data, total |-> Len(recent), offset |-> offset,
         more |-> offset + Len(data) < Len(recent)]

\* a request is logged with a session: it is the latest from now on
Activity(s) == recent' = <<s>> \o RemoveFirst(recent, s)

-----------------------------------------------------------------------------
ListEnters ==
    /\ list' = [mounted |-> TRUE, rows |-> <<>>, total |-> 0, offset |-> 0,
                more |-> FALSE, loading |-> TRUE, error |-> FALSE]
    /\ listCalls' = <<0>>

ListLeaves == list' = NoPage /\ listCalls' = <<>>

\* load: what is shown stays until the answer
Load(offset) ==
    /\ list' = [list EXCEPT !.loading = TRUE, !.error = FALSE]
    /\ listCalls' = Append(listCalls, offset)

ListAnswer(i) ==
    LET body == ListSessions(listCalls[i])
    IN  /\ list' = [list EXCEPT !.rows = body.data, !.total = body.total,
                                !.offset = body.offset, !.more = body.more,
                                !.loading = FALSE]
        /\ listCalls' = RemoveAt(listCalls, i)

ListFail(i) ==
    /\ list' = [list EXCEPT !.error = TRUE, !.loading = FALSE]
    /\ listCalls' = RemoveAt(listCalls, i)

\* the notices above the table
ListNotice(l) ==
    {n \in {"loading", "error", "empty"} :
        \/ n = "loading" /\ l.loading
        \/ n = "error" /\ l.error
        \/ n = "empty" /\ ~l.loading /\ ~l.error /\ l.rows = <<>>}

\* the rows of the table; a click, Enter or the space bar opens one
ListTable(l) == Range(l.rows)

PagerShown(l) == l.offset > 0 \/ l.more

ListPrevious ==
    /\ list.mounted /\ PagerShown(list)
    /\ list.offset # 0 /\ ~list.loading
    /\ Load(IF list.offset > PageSize THEN list.offset - PageSize ELSE 0)

ListNextPage == /\ list.mounted /\ PagerShown(list)
                /\ list.more /\ ~list.loading
                /\ Load(list.offset + PageSize)

ListAnswers == \E i \in DOMAIN listCalls : ListAnswer(i) \/ ListFail(i)

ListStep == (ListPrevious \/ ListNextPage \/ ListAnswers)
            /\ UNCHANGED <<recent, traceVars>>

-----------------------------------------------------------------------------
\* the effect on the id in the address
Fetched(t, s) == [t EXCEPT !.id = s, !.loading = TRUE, !.error = FALSE,
                           !.pinned = NoStep, !.collapsed = {}]

TraceEnters(s) ==
    /\ trace' = Fetched([mounted |-> TRUE, id |-> s, session |-> NoSession,
                         loading |-> TRUE, error |-> FALSE,
                         pinned |-> NoStep, collapsed |-> {}], s)
    /\ traceCalls' = <<s>>

TraceLeaves == trace' = NoPage /\ traceCalls' = <<>>

\* the address names another session and the page stays: nothing cancels
\* what it was fetching
TraceTurns(s) == /\ Len(traceCalls) < MaxTraces
                 /\ trace' = Fetched(trace, s)
                 /\ traceCalls' = Append(traceCalls, s)

\* get_session knows the sessions that have rows
TraceAnswer(i) ==
    /\ traceCalls[i] \in Range(recent)
    /\ trace' = [trace EXCEPT !.session = traceCalls[i], !.loading = FALSE]
    /\ traceCalls' = RemoveAt(traceCalls, i)

\* any status but 2xx, 404 among them, or no answer
TraceFail(i) ==
    /\ trace' = [trace EXCEPT !.session = NoSession, !.error = TRUE,
                              !.loading = FALSE]
    /\ traceCalls' = RemoveAt(traceCalls, i)

\* the sections of the page
Sections(t) == IF t.session = NoSession THEN {}
               ELSE GroupSessionTurns(StepsOf(t.session))

\* a section of one step has no button to collapse it
CanCollapse(turn) == Cardinality(turn.steps) > 1

\* the steps drawn: those of the sections that are not collapsed
StepsShown(t) ==
    {StepsOf(t.session)[j].id :
        j \in UNION {turn.steps :
                 turn \in {u \in Sections(t) : u.index \notin t.collapsed}}}

ToggleTurn(turn) ==
    /\ CanCollapse(turn)
    /\ trace' = [trace EXCEPT !.collapsed =
                    IF turn.index \in @ THEN @ \ {turn.index}
                                        ELSE @ \cup {turn.index}]
    /\ UNCHANGED traceCalls

\* mutant: the step is only pinned
FocusPins(id) ==
    /\ id \in IF trace.session = NoSession THEN {} ELSE StepIds(trace.session)
    /\ trace' = [trace EXCEPT !.pinned = id]
    /\ UNCHANGED traceCalls

\* a finding is clicked: its first request is pinned, and its turn is taken
\* out of the collapsed ones by the turn_index of the step
FocusFinding(id) ==
    /\ id \in IF trace.session = NoSession THEN {} ELSE StepIds(trace.session)
    /\ LET step == CHOOSE st \in Range(StepsOf(trace.session)) : st.id = id
       IN  trace' = [trace EXCEPT !.collapsed = @ \ {step.turn},
                                  !.pinned = id]
    /\ UNCHANGED traceCalls

\* a step is a button that opens its request
StepButton(id) == trace.mounted /\ id \in StepsShown(trace)

TraceAnswers == \E i \in DOMAIN traceCalls : TraceAnswer(i) \/ TraceFail(i)

TraceStep == /\ trace.mounted
             /\ \/ \E turn \in Sections(trace) : ToggleTurn(turn)
                \/ \E id \in AllSteps : FocusFinding(id)
                \/ TraceAnswers
             /\ UNCHANGED <<recent, listVars>>

\* what happens elsewhere is seen by a page that is there to see it
NewActivity == /\ list.mounted \/ trace.mounted
               /\ \E s \in Sessions : Activity(s)
               /\ recent' # recent
               /\ UNCHANGED <<listVars, traceVars>>

SessionInit == /\ recent = <<>>
               /\ list = NoPage /\ listCalls = <<>>
               /\ trace = NoPage /\ traceCalls = <<>>

SessionStep == ListStep \/ TraceStep \/ NewActivity

-----------------------------------------------------------------------------
(* Paging by offset never leads past the end: a page other than the first has
   sessions on it, whatever was logged between two presses
   (SessionsPage.tsx:174-183, storage/sqlite.py:457).  *)
LaterPagesAreFull == list.mounted /\ list.offset > 0 => list.rows # <<>>

(* The sections of the page can be told apart by their index, by which React
   keys them and the page collapses them: two turns of one session never get
   the same (sessions.py:361-371, lib/session.ts:22-35).  *)
TurnKeysDistinct ==
    trace.mounted /\ trace.session # NoSession
    => KeysAreDistinct(StepsOf(trace.session))

(* A finding that is clicked leads to its step: the step is drawn afterwards
   even if its turn was collapsed (SessionPage.tsx:170-184).  *)
FocusShowsStep ==
    [][\A id \in AllSteps :
          trace.mounted /\ FocusFinding(id) => id \in StepsShown(trace')]_sessionVars
=============================================================================
