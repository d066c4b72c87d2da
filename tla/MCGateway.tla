------------------------------ MODULE MCGateway ------------------------------
(* One request.  Chunks of each kind, and some that carry two things at once. *)
EXTENDS Gateway

CONSTANT r1

Nothing == [text |-> 0, thinking |-> 0, tools |-> {}, finish |-> "none", usage |-> FALSE, error |-> FALSE]

SomeChunks ==
    {Nothing,
     [Nothing EXCEPT !.text = 1],
     [Nothing EXCEPT !.text = 2],
     [Nothing EXCEPT !.thinking = 1],
     [Nothing EXCEPT !.thinking = 1, !.text = 1],
     [Nothing EXCEPT !.tools = {0}],
     [Nothing EXCEPT !.tools = {0, 1}],
     [Nothing EXCEPT !.finish = "tool_calls"],
     [Nothing EXCEPT !.text = 1, !.finish = "length"],
     [Nothing EXCEPT !.finish = "stop", !.usage = TRUE],
     [Nothing EXCEPT !.usage = TRUE],
     [Nothing EXCEPT !.error = TRUE]}
=============================================================================
