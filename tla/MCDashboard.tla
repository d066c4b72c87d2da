---------------------------- MODULE MCDashboard ----------------------------
(* Small instances of the dashboard for TLC: three logged requests, one of them
   with messages, three sessions, and tours that between them visit each page
   together with those it leads to.  *)
EXTENDS Dashboard

CONSTANTS c1,     \* the id of a tool call
          s1, s2, s3, \* sessions
          m1, m2  \* models

\* two requests have bodies only; one a user message and an assistant's, with
\* reasoning, content and a tool call
MCMessagesOf ==
    1 :> <<>> @@ 3 :> <<>> @@
    2 :> <<[role |-> "user", reasoning |-> FALSE, content |-> TRUE,
            calls |-> <<>>],
           [role |-> "assistant", reasoning |-> TRUE, content |-> TRUE,
            calls |-> <<c1>>]>>

MCSessionOf == 1 :> s1 @@ 2 :> NoSession @@ 3 :> s1 @@ NoDetail :> NoSession

\* s1: the same user text twice, a row without one, and the text again
MCRowsOf ==
    s1 :> <<[id |-> 1, text |-> "a"], [id |-> 2, text |-> "a"],
              [id |-> 3, text |-> NoText], [id |-> 4, text |-> "a"]>> @@
    s2 :> <<[id |-> 5, text |-> "b"]>> @@
    s3 :> <<[id |-> 6, text |-> NoText], [id |-> 7, text |-> NoText]>>

MCSessions == {s1, s2, s3}
MCModels == {m1, m2}
MCEndpointOf == m1 :> "/v1/messages" @@ m2 :> "/v1/responses"

\* the list with a request it opens; the sessions and their trajectories; a
\* session between two of its requests; a trajectory that is left and come back
\* to; and the two pages without links
Tour(start, others) == [start |-> start, routes |-> others \cup {start}]

MCTours == {Tour(To("list", 0), {To("request", 1)}),
            Tour(To("sessions", 0), {To("session", s1), To("session", s2)}),
            Tour(To("request", 1), {To("request", 3), To("session", s1)}),
            Tour(To("request", 2), {To("debug", 0)}),
            Tour(To("usage", 0), {To("debug", 0)})}
=============================================================================
