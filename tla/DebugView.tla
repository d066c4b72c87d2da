----------------------------- MODULE DebugView -----------------------------
(* The dashboard's page that tries one prompt on one model
   (pages/DebugPage.tsx) and the request it sends (api/debug.ts).  A model is
   tried at the endpoint the server selected for it; the prompt is empty or
   not.  The page never cancels a run; leaving it aborts the discovery of the
   models only, whose answer then changes nothing.  *)
EXTENDS Naturals, Sequences, FiniteSets, SequencesExt

CONSTANTS Models,    \* ids of the models the gateway may list
          EndpointOf,\* the endpoint the server selects for each
          NoModel,   \* the empty model id
          NoCatalog, \* nothing discovered
          NoResult   \* nothing run, or a run under way

Endpoints == {"/v1/chat/completions", "/v1/messages", "/v1/responses"}

ASSUME DebugAssumption == /\ NoModel \notin Models
                          /\ EndpointOf \in [Models -> Endpoints]

VARIABLES debug,      \* the page's state, or NoDebug
          discovering,\* discoveries under way
          runs        \* requests under way: the model of each

debugVars == <<debug, discovering, runs>>

NoDebug == [mounted |-> FALSE]

\* the body sent for an endpoint: its field for the prompt, and the limit
\* Anthropic asks for
RunBody(model) ==
    [model     |-> model,
     field     |-> IF EndpointOf[model] = "/v1/responses"
                   THEN "input" ELSE "messages",
     maxTokens |-> EndpointOf[model] = "/v1/messages"]

\* what may come back: no response, or one with a good status or a bad one,
\* JSON or not, an error in it or not, and a status of its own
Replies == [answered : {FALSE}]
           \cup [answered : {TRUE}, good : BOOLEAN, json : BOOLEAN,
                 error : BOOLEAN, status : {"", "completed", "incomplete"}]

\* a Responses body that says it is not completed
Unfinished(model, reply) == /\ EndpointOf[model] = "/v1/responses"
                            /\ reply.json
                            /\ reply.status \notin {"", "completed"}

\* runDebug: every reply becomes a result, none an exception
RunDebug(model, reply) ==
    IF ~reply.answered
    THEN [model |-> model, body |-> RunBody(model), ok |-> FALSE,
          error |-> "network_error"]
    ELSE LET failed == reply.json /\ reply.error
             ok     == /\ reply.good /\ reply.json /\ ~failed
                       /\ ~Unfinished(model, reply)
         IN  [model |-> model, body |-> RunBody(model), ok |-> ok,
              error |-> CASE failed -> "payload"
                          [] ~failed /\ Unfinished(model, reply) ->
                               "response_not_completed"
                          [] ~failed /\ ~Unfinished(model, reply) /\ ~ok ->
                               "gateway_error"
                          [] OTHER -> "none"]

Results == {RunDebug(m, r) : m \in Models, r \in Replies}

\* what a discovery leaves: the models it listed, or nothing
Catalogs == (SUBSET Models) \cup {NoCatalog}

Debugs == [mounted : {TRUE}, catalog : Catalogs,
           model : Models \cup {NoModel}, prompt : BOOLEAN,
           loading : BOOLEAN, error : BOOLEAN, pending : BOOLEAN,
           result : Results \cup {NoResult}]

DebugTypeOK == /\ debug \in Debugs \cup {NoDebug}
               /\ discovering \in 0 .. 1
               /\ runs \in Seq(Models)
               /\ ~debug.mounted => discovering = 0 /\ runs = <<>>

-----------------------------------------------------------------------------
DebugEnters ==
    /\ debug' = [mounted |-> TRUE, catalog |-> NoCatalog, model |-> NoModel,
                 prompt |-> FALSE, loading |-> TRUE, error |-> FALSE,
                 pending |-> FALSE, result |-> NoResult]
    /\ discovering' = 1 /\ runs' = <<>>

\* the cleanup aborts the discovery; a run goes on at the gateway, unseen
DebugLeaves == debug' = NoDebug /\ discovering' = 0 /\ runs' = <<>>

Listed(d) == IF d.catalog = NoCatalog THEN {} ELSE d.catalog

\* `selected`: the chosen model, if the catalog has it
IsSelected(d) == d.model \in Listed(d)

\* mutant: refreshing waits for the run, not for the discovery before
EnabledWhileLoading(d) ==
    {b \in {"refresh", "model", "prompt", "run"} :
        \/ b = "refresh" /\ ~d.pending
        \/ b = "model" /\ ~d.loading /\ ~d.pending /\ Listed(d) # {}
        \/ b = "prompt" /\ ~d.pending
        \/ b = "run" /\ ~d.pending /\ ~d.loading /\ IsSelected(d) /\ d.prompt}

\* mutant: the models may be refreshed while one is being run
EnabledWhileRunning(d) ==
    {b \in {"refresh", "model", "prompt", "run"} :
        \/ b = "refresh" /\ ~d.loading
        \/ b = "model" /\ ~d.loading /\ ~d.pending /\ Listed(d) # {}
        \/ b = "prompt" /\ ~d.pending
        \/ b = "run" /\ ~d.pending /\ ~d.loading /\ IsSelected(d) /\ d.prompt}

\* the page's buttons and fields that are not disabled
Enabled(d) ==
    {b \in {"refresh", "model", "prompt", "run"} :
        \/ b = "refresh" /\ ~d.loading /\ ~d.pending
        \/ b = "model" /\ ~d.loading /\ ~d.pending /\ Listed(d) # {}
        \/ b = "prompt" /\ ~d.pending
        \/ b = "run" /\ ~d.pending /\ ~d.loading /\ IsSelected(d) /\ d.prompt}

\* "Refresh models", and the effect it starts again
Refresh ==
    /\ "refresh" \in Enabled(debug)
    /\ debug' = [debug EXCEPT !.loading = TRUE, !.error = FALSE]
    /\ discovering' = discovering + 1
    /\ UNCHANGED runs

\* a model that is still listed stays chosen, else the first that is
Discovered(models, first) ==
    /\ discovering > 0
    /\ IF models = {} THEN first = NoModel ELSE first \in models
    /\ debug' = [debug EXCEPT !.catalog = models, !.loading = FALSE,
                              !.model = IF @ \in models THEN @ ELSE first]
    /\ discovering' = discovering - 1
    /\ UNCHANGED runs

DiscoveryFails ==
    /\ discovering > 0
    /\ debug' = [debug EXCEPT !.catalog = NoCatalog, !.error = TRUE,
                              !.loading = FALSE]
    /\ discovering' = discovering - 1
    /\ UNCHANGED runs

ChooseModel(m) == /\ "model" \in Enabled(debug) /\ m \in Listed(debug)
                  /\ debug' = [debug EXCEPT !.model = m]
                  /\ UNCHANGED <<discovering, runs>>

EditPrompt == /\ "prompt" \in Enabled(debug)
              /\ debug' = [debug EXCEPT !.prompt = ~@]
              /\ UNCHANGED <<discovering, runs>>

\* submit: the guard reads a ref (running), not the state of the last render
Submit ==
    /\ runs = <<>> /\ IsSelected(debug) /\ debug.prompt /\ ~debug.loading
    /\ "run" \in Enabled(debug)
    /\ debug' = [debug EXCEPT !.pending = TRUE, !.result = NoResult]
    /\ runs' = Append(runs, debug.model)
    /\ UNCHANGED discovering

RunEnds(i, reply) ==
    /\ debug' = [debug EXCEPT !.pending = FALSE,
                              !.result = RunDebug(runs[i], reply)]
    /\ runs' = RemoveAt(runs, i)
    /\ UNCHANGED discovering

Discovery == \/ \E models \in SUBSET Models, first \in Models \cup {NoModel} :
                   Discovered(models, first)
             \/ DiscoveryFails

RunAnswers == \E i \in DOMAIN runs, reply \in Replies : RunEnds(i, reply)

DebugStep == /\ debug.mounted
             /\ \/ Refresh
                \/ Discovery
                \/ \E m \in Models : ChooseModel(m)
                \/ EditPrompt
                \/ Submit
                \/ RunAnswers

DebugInit == debug = NoDebug /\ discovering = 0 /\ runs = <<>>

-----------------------------------------------------------------------------
(* While a run is under way it is the only one, no earlier result is shown,
   and the model it runs is the one the page shows as chosen and as listed;
   nothing the user or a discovery does changes that before it ends
   (DebugPage.tsx:40-52, 58, 79).  *)
RunIsSelected ==
    debug.mounted =>
    /\ debug.pending <=> runs # <<>>
    /\ debug.pending => /\ Len(runs) = 1 /\ debug.result = NoResult
                        /\ Head(runs) = debug.model
                        /\ IsSelected(debug)
=============================================================================
