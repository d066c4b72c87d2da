----------------------------- MODULE Dashboard -----------------------------
(* One window of the dashboard: the routes (router.tsx), the layout around them
   (layouts/DashboardLayout.tsx), the window's history, and the pages composed.

   A page is mounted while its route is shown.  Moving within a document keeps
   a page that stays, with the parameter of its route changed; a new document
   starts its page anew, and one that is come back to as well.  What happens
   outside (rows logged, activity, another window) is part of a page's steps
   while the page is there: before that nothing here reads it.  *)
EXTENDS RequestFeed, SessionViews, DetailView, DebugView, UsageView

CONSTANTS SessionOf,  \* the session of a logged request, or NoSession
          Tours,      \* BOUND: the route a behaviour starts at, and those it
                      \* moves among
          MaxHistory  \* BOUND: entries of the window's history

VARIABLES hist, \* the entries: a route, and the entry its document began with
          at,   \* the entry shown, 0 before the window has one
          tour  \* the tour of this behaviour

routeVars == <<hist, at, tour>>
feedState == <<feed, calls>>
pageVars  == <<log, feedState, sessionVars, detailVars, debugVars, usageVars>>
vars      == <<routeVars, pageVars>>

\* the routes: a page, and the id in its address
Routes == [page : {"list", "sessions", "usage", "debug"}, id : {0}]
          \cup [page : {"request"}, id : Logged]
          \cup [page : {"session"}, id : Sessions]

To(page, id) == [page |-> page, id |-> id]

ASSUME DashboardAssumption ==
    /\ Tours \subseteq [start : Routes, routes : SUBSET Routes]
    /\ MaxHistory \in Nat

\* the links of the layout's header
NavLinks == {To("list", 0), To("sessions", 0), To("usage", 0), To("debug", 0)}

Here == IF at = 0 THEN To("none", 0) ELSE hist[at].route

-----------------------------------------------------------------------------
\* a page under the router's outlet: kept, entered or left
Outlet(page, route, same, Stays, Enters, Leaves) ==
    IF route.page # page THEN Leaves
    ELSE IF same /\ Here.page = page THEN Stays ELSE Enters

\* the pages after the window shows a route; `same`: in the same document
Show(route, same) ==
    /\ Outlet("list", route, same, UNCHANGED feedState, FeedEnters, FeedLeaves)
    /\ Outlet("sessions", route, same,
              UNCHANGED listVars, ListEnters, ListLeaves)
    /\ Outlet("session", route, same,
              IF route = Here THEN UNCHANGED traceVars ELSE TraceTurns(route.id),
              TraceEnters(route.id), TraceLeaves)
    /\ Outlet("request", route, same,
              IF route = Here THEN UNCHANGED <<detail, detailCalls>>
                              ELSE DetailTurns(route.id),
              DetailEnters(route.id), DetailLeaves)
    /\ IF ~same THEN SplitReloads
       ELSE IF route = Here THEN UNCHANGED <<split, cursor>> ELSE SplitLeaves
    /\ Outlet("debug", route, same, UNCHANGED debugVars, DebugEnters, DebugLeaves)
    /\ Outlet("usage", route, same, UNCHANGED usageVars, UsageEnters, UsageLeaves)
    /\ UNCHANGED <<log, recent, stored, tour>>

\* a new entry takes the place of those ahead
Push(route, doc) == /\ at < MaxHistory /\ route \in tour.routes
                    /\ hist' = Append(SubSeq(hist, 1, at),
                                      [route |-> route, doc |-> doc])
                    /\ at' = at + 1

\* a link of the router; one to the address shown changes nothing
Navigate(route) == /\ route # Here
                   /\ Push(route, hist[at].doc)
                   /\ Show(route, TRUE)

\* mutant: the router shows the request, in the document there is
AssignKept(route) ==
    /\ Push(route, IF at = 0 THEN 1 ELSE hist[at].doc)
    /\ Show(route, at # 0)

\* a document of its own: the window's first, or location.assign
Assign(route) == Push(route, at + 1) /\ Show(route, FALSE)

Start == at = 0 /\ Assign(tour.start)

\* Back, Forward, or further
Traverse(n) == /\ n \in DOMAIN hist \ {at} /\ at # 0
               /\ at' = n
               /\ Show(hist[n].route, hist[n].doc = hist[at].doc)
               /\ UNCHANGED hist

\* the document of the entry is loaded anew
Reload == at # 0 /\ Show(Here, FALSE) /\ UNCHANGED <<hist, at>>

NavLink == at # 0 /\ \E route \in NavLinks : Navigate(route)

\* a row of the list of sessions
OpenSession == /\ list.mounted
               /\ \E s \in ListTable(list) : Navigate(To("session", s))

\* the link of a request to the session it is a step of
SessionLink == /\ detail.mounted
               /\ DetailShows(detail) \in {"bodies", "trajectory"}
               /\ SessionOf[detail.shown] # NoSession
               /\ Navigate(To("session", SessionOf[detail.shown]))

\* what can be pressed to open a request
Opener(id) == \/ feed.mounted /\ id \in LedgerRows(feed) \cup {feed.selected}
              \/ StepButton(id)

\* openRequestWindow: the request gets a window of its own, which is another
\* dashboard; if the browser blocks that, it gets this one
WindowBlocked == \E id \in Logged : Opener(id) /\ Assign(To("request", id))

-----------------------------------------------------------------------------
Init == /\ FeedInit /\ SessionInit /\ DetailInit /\ DebugInit /\ UsageInit
        /\ hist = <<>> /\ at = 0 /\ tour \in Tours

Moves == \/ Start
         \/ \E n \in DOMAIN hist : Traverse(n)
         \/ Reload
         \/ NavLink
         \/ OpenSession
         \/ SessionLink
         \/ WindowBlocked

\* the steps of each page leave the others and the address alone
InFeed(A)     == A /\ UNCHANGED <<routeVars, sessionVars, detailVars, debugVars,
                                  usageVars>>
InSessions(A) == A /\ UNCHANGED <<routeVars, log, feedState, detailVars,
                                  debugVars, usageVars>>
InDetail(A)   == A /\ UNCHANGED <<routeVars, log, feedState, sessionVars,
                                  debugVars, usageVars>>
InDebug(A)    == A /\ UNCHANGED <<routeVars, log, feedState, sessionVars,
                                  detailVars, usageVars>>
InUsage(A)    == A /\ UNCHANGED <<routeVars, log, feedState, sessionVars,
                                  detailVars, debugVars>>

Next == \/ Moves
        \/ InFeed(FeedStep)
        \/ InSessions(SessionStep)
        \/ InDetail(DetailStep)
        \/ InDebug(DebugStep)
        \/ InUsage(UsageStep)

\* an answer to a page, or the failure of its fetch
Answers == \/ InFeed(FeedAnswers)
           \/ InSessions(ListAnswers /\ UNCHANGED <<recent, traceVars>>)
           \/ InSessions(TraceAnswers /\ UNCHANGED <<recent, listVars>>)
           \/ InDetail(DetailAnswers)
           \/ InDebug(debug.mounted /\ (Discovery \/ RunAnswers))
           \/ InUsage(LoadAnswers)

(* A fetch does not hang: the browser ends it, with an answer or without one.
   Nothing is assumed of the user, of the traffic, of timers or of the order of
   the answers.  *)
Fairness == WF_vars(Answers)

Spec == Init /\ [][Next]_vars /\ Fairness

-----------------------------------------------------------------------------
TypeOK == /\ FeedTypeOK /\ SessionTypeOK /\ DetailTypeOK /\ DebugTypeOK
          /\ UsageTypeOK
          /\ hist \in Seq([route : Routes, doc : 1 .. MaxHistory])
          /\ at \in 0 .. Len(hist) /\ tour \in Tours
          /\ feed.mounted   <=> Here.page = "list"
          /\ list.mounted   <=> Here.page = "sessions"
          /\ trace.mounted  <=> Here.page = "session"
          /\ detail.mounted <=> Here.page = "request"
          /\ debug.mounted  <=> Here.page = "debug"
          /\ usage.mounted  <=> Here.page = "usage"

Waits(page) == page.mounted /\ page.loading

(* No page says "Loading" for good: whatever the user does meanwhile, and
   whatever fetches were overtaken or had their results cancelled, an
   indicator that is shown goes away, or its page or period does; so does the
   "Running" of a debug run.  *)
PagesSettle ==
    /\ Waits(feed)   ~> ~Waits(feed)
    /\ Waits(list)   ~> ~Waits(list)
    /\ Waits(trace)  ~> ~Waits(trace)
    /\ Waits(detail) ~> ~Waits(detail)
    /\ Waits(debug)  ~> ~Waits(debug)
    /\ debug.mounted /\ debug.pending ~> ~(debug.mounted /\ debug.pending)
    /\ \A p \in Periods :
          Waits(usage) /\ usage.period = p
          ~> ~(Waits(usage) /\ usage.period = p)
=============================================================================
