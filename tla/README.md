# otel-agent, specified

TLA+ specifications of the program in `src/`, the TLC configurations that
check them on small instances, and TLAPS proofs of what matters most for every
instance: the LLM gateway with its vault, and the dashboard that shows what went
through it. Paths of Python files are relative to the repository's
`src/otel_agent/`, those of the dashboard to `frontend/src/`.

## The system

| Part | State | Operations | Interacts with |
|---|---|---|---|
| OAuth sidecar vault (`auth_vault.py`, `commands/auth_cmd.py`) | one JSON file with the token pair of every subscription; a lock file | resolve a bearer (refreshing it if need be), save a grant, adopt a sibling CLI's grant | every upstream request (through `provider_utils.resolve_bearer_async`, in a worker thread), the `auth` commands in their own processes, the identity provider, the sibling CLI's store |
| Provider table (`config.py`) | providers, stamp, digest of the last load | reload on every access, rewrite one row | every handler; editors and `auth` commands write the file |
| Model listing (`models.py`, `server.py`, `cli_models.py`) | one catalog per provider with a time, a warning, one stamp for all | list, serve from the cache, ask a CLI or an upstream | provider table, vault, upstreams, capability catalog |
| Capability catalog (`model_capabilities.py`) | table (two indexes), age, last failure, in-flight flag | look up, refresh in a background thread | model listing, OpenRouter |
| Gateway (`server.py`, `router.py`, `xai_errors.py`) | per request: route, upstream response, telemetry | chat, messages, responses, images, streaming or not | provider table, vault, converters, capture, storage |
| Converters (`converter.py`, `responses_compat.py`) | open items of a stream | translate requests, answers and stream events | gateway |
| Stream capture (`stream_capture.py`, `body_elide.py`) | bytes kept so far, usage seen | append a chunk, finish, elide a body | gateway, storage |
| Storage (`storage/`, `logger.py`) | SQLite connection, rows | log a request, page, summarise, list sessions | gateway, dashboard |
| Analysis (`sessions.py`, `waste.py`, `usage_series.py`) | none | assemble sessions, find waste, build series | dashboard |
| Dashboard API (`dashboard/`) | probe of the proxy, cached counts | read requests, sessions and usage | storage, proxy |
| Background processes (`process.py`, `commands/proxy.py`, `commands/dashboard.py`, `cursor_sidecar.py`) | pid and port files, processes, ports | start, stop, restart, status | gateway, Cursor sidecar |
| Device-code logins (`codex_oauth.py`, `xai_oauth.py`) | deadline, interval | poll, exchange | identity provider, vault |
| Self-update (`commands/update.py`) | none | decide what to install, probe, install | git, package index |
| Request list (`hooks/useRequests.ts`, `pages/ListPage.tsx`, `components/`) | filters, page, cursor stack, fetches under way | filter, search, page, select, open | dashboard API, windows of requests |
| Session pages (`pages/SessionsPage.tsx`, `pages/SessionPage.tsx`) | page of sessions; a session, its collapsed turns, a pinned step | page by offset, collapse, follow a finding, open a step | dashboard API, sessions and rules of the backend |
| Request page (`pages/DetailPage.tsx`, `components/trajectory/`) | the request fetched, selected cell, tab, blocks | select by mouse and keys, fold, copy | dashboard API |
| Split of the request page (`components/trajectory/TrajectorySplit.tsx`) | preferred width, drag, the body's cursor, a width in `localStorage` | drag, keys, reset, resize | every other window, through the storage |
| Debug page (`pages/DebugPage.tsx`) | models, prompt, the run under way | discover, choose, run | gateway, dashboard API |
| Usage page (`hooks/useUsage.ts`, `components/UsageOverview.tsx`) | period, numbers, chart, loads under way | choose a period, poll | dashboard API |
| Window (`router.tsx`, `layouts/DashboardLayout.tsx`) | address, history, which page is mounted | links, Back and Forward, reload, open a window | all pages |

What is hard, and what makes each part correct:

* **Vault.** Refresh tokens rotate and may be used once: using one twice, or
  losing the answer to its use, ends the subscription. Threads and processes
  race for it, any of them may be killed between sending the token and storing
  the answer, a write may fail. Correct means: a token is sent at most once; one
  that may have been sent is marked on disk; a whole-file write never loses
  another provider's grant; nobody waits for ever.
* **Table and listing.** The file changes under running handlers, with stamps
  that stand still or go back; answers arrive after the table they were asked
  under was replaced. Correct means: a handler works on the file as it is, a
  catalog of a replaced row is dropped, failures are not cached.
* **Capability catalog.** Many threads find the table stale at once, and decide
  outside the lock; a fetch may be slow, and puts its answer in without comparing it
  to the table. Correct means: one refresh at a time, none in the cooldown, no table
  lost or replaced by an older one, refreshing recovers.
* **Gateway and converters.** Upstreams break off in the middle; several items of
  an answer are open at once. Correct means: one telemetry row per request
  whatever happens, well-formed event sequences.
* **Background processes.** Pid files outlive processes and are read, judged and
  deleted in separate steps, commands overlap, parent and child start the same sidecar. Correct means: what runs can be stopped and
  what belongs to another is left alone.
* **Storage, analysis, update.** Paging while rows arrive, boundaries of ranges and
  limits, decision tables with many inputs. Correct means: agreement with a
  reference definition over all small inputs.
* **Dashboard.** Answers come in any order, few fetches are cancelled, and a page
  may be turned into another under the same address pattern, left, or reloaded
  meanwhile; a handler acts on the state of the render it was made in, or on a
  ref that is ahead of it. Correct means: a page shows what its address and its
  controls say, a control is enabled when it would do something, what a gesture
  changes outside its component is put back, no indicator stays for good.

`PROJECT.json` lists the hazards at their lines with the properties that cover
them.

## Modules

| Module | Models | Composed with |
|---|---|---|
| `GrantLedger` | abstract: what the vault promises about a grant, without files, locks or processes | |
| `AuthVault` | `auth_vault.py`, the callers in `auth_cmd.py`, the identity provider and a sibling CLI | implements `GrantLedger` |
| `AuthVaultProofs` | proofs about `AuthVault` | extends it |
| `ModelListing` | `Config`, `ModelCache`, `list_models`, `fetch_provider_models` | |
| `CapabilityCatalog` | `ModelCapabilitiesCatalog` | |
| `CapabilityCatalogProofs` | proofs about it | extends it |
| `Daemons` | `process.py`, start and stop in `commands/proxy.py` and `commands/dashboard.py`, `cursor_sidecar.py` | |
| `DaemonsProofs` | proofs about it | extends it |
| `StreamConverters` | the stream converters of `converter.py` and `responses_compat.py`, `stream_capture.py`, as operators | |
| `Gateway` | `server.py`: a request from its route to its row | extends `StreamConverters` |
| `StreamConverterProofs` | proofs about the converters and the capture, as operators | extends them and `ListLemmas` |
| `GatewayProofs` | proofs about `Gateway` | extends it and `StreamConverterProofs` |
| `ModelListingProofs` | proofs about `ModelListing` | extends it |
| `RequestStore` | the table of requests as the dashboard reads it (`storage/sqlite.py`) | |
| `RequestFeed` | the request list | extends `RequestStore` |
| `SessionTurns` | the turns of a session: numbered by `sessions.py`, grouped by `lib/session.ts` | |
| `SessionViews` | both session pages and `list_sessions` | extends `SessionTurns` |
| `Trajectory` | the cells of a request (`buildTrajectoryCells.ts`), keys and overview | |
| `SplitPane` | the split, with `detailsWidth.ts` | |
| `DetailView` | the request page | extends `Trajectory`, `SplitPane` |
| `DebugView` | the debug page and `api/debug.ts` | |
| `UsageView` | the usage page and its hook | |
| `Dashboard` | a window: routes, history, links | extends all pages |
| `DashboardProofs` | proofs about the pages, alone and within `Dashboard` | extends it and `ListLemmas` |
| `ListLemmas` | facts about natural numbers, lists and folds that the proofs share | |
| `MC*` | the constants of the runs | extend their module |

### AuthVault

`vault` is the file, one entry per provider: the pair it holds, whether it carries
the `refresh_in_flight` marker, the token endpoint recorded in `discovery`, and the
last refresh result. `lock` is the flock of the sibling lock file. A caller (a
gateway thread or an `auth` command) has a place `pc`, what it was called for, its
provider, its copy of the file (`data`) and of the entry, and the answer to its
exchange. Token pairs are numbered as the identity provider mints them; `ours`,
`dead` and `presented` record which were minted for this gateway, which it would
refuse, and which were sent.

One action is one stretch of code between two points where another actor can be
seen: the read without the lock (`FindNoGrant`, `TurnAway`, `ServeUnlocked`,
`NoticeStale`), the lock (`AcquireLock`, `LockTimeout`), the second read (`Load`),
the decision (`FindMarker`, `ReuseRefresh`, `RefuseTarget`, `BeginRefresh`), the
three writes of a refresh and the one of a saved grant (`WriteMarker`,
`CommitRefresh`, `RecordFailure`, `StoreGrant`), the exchange (`PostAccepted`,
`PostRefused`, `NetworkFailure`) and what becomes of its answer. `Crash` may strike
anywhere in a call, `WriteFails` at any write; `os.replace` is atomic, so a failed
write leaves the file as it was. `Age` and `SiblingMint` are the surroundings.

`force` (an adoption refreshes at once) stays a goal of the caller, so the read
that follows the save is the same code with another decision, as in the source.

### ModelListing

All handlers run on one event loop, so a handler that does not await is alone: at
most one listing is in place `listing`, and `LoopFree` guards every step that would
run beside it. The file has a stamp and bytes; the stamp never goes down but may
stand still, which is what two writes in one tick look like. A row is one of the
kinds the code lists differently: asked upstream, declared or listed by a vendor's
CLI, or a loopback Cursor row. A cached catalog is the row it was fetched under and
whether it is full, partial or the empty list of a failure. Bytes may also be a
missing, unreadable or garbled file; a table with a row `_validate` refuses is
stored first and raises once.

### CapabilityCatalog

A section under the lock is one step. `Lookup` decides, `Trigger` and `HoldBack`
decide again, `StartThread` and `StartFails` are `thread.start()`, and `Publish`,
`Finish`, `Fail` are the worker's locked sections. `Answer` is the return of
`fetch_catalog`, some time before its payload is put in: OpenRouter may have published
another catalog by then (`NewCatalog`). Its catalogs are numbered, a table (the two
indexes, which are built and put in together) and an answer are the number of the
catalog they come from, 0 for none; each fetch is assumed to get the newest at the moment
of its answer. Clocks stand for the limits they have passed.

### Daemons

Commands and processes are actors with a place `pc`; what they share is `file` (the
three pid files), `port` (who listens) and the process table (`role`, `parent`,
`signal`, and the place `zombie` of a process that has ended and was not reaped,
which `kill(pid, 0)` still finds). One action is one look at, or one change of, a
file, a port or a process, so that a command and the gateway it has just started
interleave as they do.

`_get_status` and `_stop` look at a pid file in steps: they read it (`ReadFile`; `target`
is the pid), look for the process (`SeeItGone`, or `Found` and `Terminate` if it is
there), and delete the file (`FoundNone`, `Cleanup`), whatever it names by then; others
go on in between, and `look` says how far an actor is. A file without a pid ends the look
of `_get_status`, while `_stop` deletes it all the same. A pid is written in one step: a
read in the middle of the write finds no number, which is the same as having read an
absent file. `Poll` reaps a service that has ended and deletes its file in one step, as
the deletion depends on nothing that could change in between.

`start_cursor_sidecar` looks only if there is a loopback Cursor provider (`Cursor`). `start_cursor_sidecar` and `_stop` are run by commands and by
gateways alike and are modelled once for both. A wait is two actions: it is seen
over, or its deadline passes. SIGTERM ends a process; a serving gateway may also
leave its server in order and run its `finally`, which depends on the version of
uvicorn.

### StreamConverters and Gateway

A chunk of an upstream stands for what the code tells apart: how much text and
reasoning it carries, which tool calls it has pieces of, a finish reason, a usage
object, an error. `StreamConverters` maps a converter (a record that holds its flags
and `sent`, the frames so far) and a chunk to the next one. Anthropic events and
Responses events carry one thing at a time (`Possible`); `response.completed` is the
finish reason `stop`.

`Gateway` fixes the route of a request at the start: the surface, whether the client
wants a stream, and the format of the provider. `Handler` says which of the five
handlers it leads to; the three that read a stream (two pass one on) and the
two that post share the actions of their failures. A handler stands in `asked` while it
waits for headers, in `rejected` while it reads a refusal, in `reading` between two
lines and, in `_handle_streaming`, in `capture` after the frames of a chunk went out
and before the chunk is captured, which is where a client that leaves loses it.
`Cut` is the `finally` of a generator that does not reach its end. One request is the
whole story: handlers share no state but the vault, the table and the storage, which
are other modules. Image edits have a handler of their own with the same steps as
`_handle_non_streaming`. `_log_telemetry` swallows its own failures, so a row here is
an attempt to write one.

### The pages

A page is a record of its React state, or the record of a page that is not mounted,
and the sequence of its fetches under way. An event handler runs to its end before
the next one, so each handler is one action; the effects that run after the render
it causes are part of the same action, and so is the cleanup of the effects before
them. A fetch is two actions: the one that sends it, and an answer or failure later,
in any order. The answer is read from the server in the step it arrives in.

* `RequestFeed`. `cursorRef` and `cursorStackRef` are refs, and `canGoBack` is read
  from one while rendering; so the state `back` of the button is a copy of the stack
  made at the last render, and `Rendered` marks the handlers' steps that make one. A
  search waits in `timer`, which holds the filters of the render that set it.
* `SessionViews`. `recent` is the order of the sessions, which moves as requests are
  logged. A trajectory page may be turned into another (`TraceTurns`) with its fetch
  uncancelled. `SessionTurns` is both halves of what a section is: `turn_index` is
  numbered on the server, grouped and used as a key on the page.
* `DetailView`. A block's state (folded, "Copied", its timers) belongs to its place on
  the page, which is how React keeps it: `Drawn` keeps the state of places that are
  still drawn and drops the rest. Cells are numbered by the message they come from.
* `SplitPane`. The effect that sets the body's cursor saves what it finds and puts it
  back in its cleanup, at the end of a drag or with the component (`RestoredCursor`).
  The width on the screen is what the style sheet makes of the preferred one.
* `DebugView`. What is disabled is a set (`Enabled`); a submit reads the ref
  `running`, which is `runs` here, and what a run sends and makes of a reply is
  `RunBody` and `RunDebug`.
* `UsageView`. A load has the flag `cancelled` of the effect it was begun in (`live`);
  polls begin loads whether or not the ones before have ended.

`Dashboard` mounts a page while its route is shown. `Show` gives each page its step
when the window shows a route: `Outlet` keeps, enters or leaves it. Moves within a
document keep a page that stays and change its parameter; `Assign`, `Reload` and a
move to an entry of another document begin one. `hist` is the window's history, each
entry with the entry its document began with. `openRequestWindow` opens a window of
its own, another `Dashboard`, unless it is blocked (`WindowBlocked`).

## Runs

| Run | Question | Bounds |
|---|---|---|
| `vault` | Are single use, current copies, marked spent pairs and one grant per write kept when callers, crashes, failures and a sibling CLI interleave in every way? Is the ledger implemented, does every call end? | 2 callers, 2 providers of which one is imported and one adopted, 1 endpoint or none, 2 pairs |
| `vault_faults` | Do fields survive a failed read under the lock? No. | reads may fail |
| `listing` | Do listings follow the file, end, and let go of old catalogs? | 2 listings, 2 providers, 1 edit, 2 stamps |
| `listing_stale` | Is every cache hit a catalog of the row listed? No. | 1 listing, 1 edit |
| `catalog` | One refresh, cooldown, no older table, recovery? | 3 threads, 3 catalogs; nothing else is bounded |
| `daemons` | Is what runs in the background tracked, does a stop do its work, does every command end? | 1 command at a time, 2 processes, crashes, services run by hand, a Cursor provider |
| `daemons_stop` | Does a `stop` that finds no gateway leave none running? No. | 1 command at a time, 3 processes, crashes, dashboards run by hand, no Cursor provider |
| `daemons_sidecar` | Is the sidecar that serves the one `stop` will stop? No. | 1 command, 3 processes, nothing fails |
| `gateway` | One row whatever happens, and does it agree with what the client got? Do translated events nest? Is the capture what came, is a folded answer whole? | 1 request, every route, 12 kinds of chunk, 3 chunks a stream, 3 characters kept |
| `gateway_rejected` | Is a refused translated stream never reported as completed? No. | the same |
| `dashboard` | Does each page show what its address and controls say, whatever is pressed, moved, overtaken, left or reloaded? Does every indicator go away? | 5 tours, histories of 3 entries, see below |
| `feed_paging` | Does Next ask for the rows after the last one shown? No. | 2 rows, pages of 1 |

Two callers are enough for every race in the vault: the lock admits one, and what
a third could see (a marker, a new pair, a held lock) the second already sees. Two
providers are what it takes for one write to touch another's entry. Two pairs let a
pair be sent, replaced and raced for, and its successor
be sent in turn. For the listing, one edit separates two tables, two providers are needed for one catalog to vouch for another, and two listings for an
answer to arrive after a reload by the other. Among background processes, two are a
gateway and its sidecar, a tracked gateway and one run by hand, or a dashboard and a
gateway; the race of two sidecars needs the third, and so does a look that outlives what
it has read: a gateway that has ended, the one started in its place, and the dashboard
that looks (`daemons_stop`). With the two of `daemons` the hypothesis of
`ServicesAreTracked` fails only where a process looks at a file that named itself; it is
proved for any number. For the capability catalog, two threads race for the flag and a third finds it
set or cleared; three catalogs are an empty table's first, the answer of a slow fetch
and the newer one of a fast fetch. Three chunks let a stream switch
from one block to another and back, or have text, tool calls and an end; three
characters are exceeded by a chunk that fits in part, after which another may come.

In `dashboard` a behaviour follows one of five tours, each the pages that lead to one
another: the list and a request; the list of sessions and two of them; two requests
and the session of both; a request with a trajectory, and the debug page (left and
come back to); the usage and the debug page. Three entries of history are two moves,
of which Back and Forward may undo any. A page has one row, so that a second row
makes a second page, two fetches of the list are two that overtake each other, three
loads of usage are one cancelled and two of the period shown. The request with cells
has a message with reasoning, content and a tool call, hence each kind of block. The
splits are hidden, too small for both minimums and just wide enough. The session
`s1` has a user text twice in a row, a row without one, and the text again.

### Fairness

`vault` assumes that a called thread goes on (weak fairness of `Step`): its
wait for the lock has a deadline (`lock_timeout`), its exchange an HTTP timeout. No
fairness is assumed of new calls, crashes, failures or the identity provider.
`listing` assumes that ready handlers run, that upstream requests answer or time
out (10 s) and are then resumed in their turn (strong fairness of `Answer`), and that time passes for
cached catalogs. `catalog` assumes the same of threads and clocks, and of the
surroundings that clients keep listing models and that not every fetch, nor every
catalog, is one that fails (strong fairness of `Answer` and `Publish`); a system that refuses a thread is the exception its property names.
`daemons` assumes that a command goes on, whose waits have deadlines, and nothing of
the processes it waits for. `gateway` has no liveness property: a stream has a timeout
between chunks but none as a whole, so nothing in the code ends it.
`dashboard` assumes that the browser ends a fetch with an answer or an error (weak
fairness of `Answers`), and nothing of the user, the traffic, the timers or the
order of answers: `PagesSettle` holds however often the user intervenes.

## Findings

* A read that fails under the lock is taken for an empty vault and published
  (`vault_faults`); all other properties of the vault are stated for
  `ReadFaults = FALSE`.
* After a config change, storing one provider's catalog makes the others' old
  catalogs fresh again (`listing_stale`); they still die with the TTL, which
  `StaleCatalogsDie` checks.
* `proxy start` starts the sidecar twice, from the command and from the gateway, and
  the pid file may keep the one that does not serve; `stop` then leaves the other
  running (`daemons_sidecar`).
* A pid file may be deleted after it was written anew: whoever read the pid of a gateway
  that has ended, a dashboard run by hand for one, deletes what a `proxy start` has
  written since. The next `proxy stop` answers that no gateway is running and leaves it
  running (`daemons_stop`).
* An upstream error that comes as `text/event-stream` is translated like an answer and
  completed, with the error status in its row (`gateway_rejected`).
* The list keeps the cursor it asked with for Next, not the `next_cursor` of the
  answer, so Next fetches the first page again (`feed_paging`).

Seen while modelling, and not the subject of a run:

* Vault: the marker is looked at before the lock (`auth_vault.py:650`), so a caller that
  arrives during a live refresh is refused as if it had been interrupted; adopting
  again from an unchanged store takes the marker of a pair that may be spent away (`:329`).
* Listing and gateway: the empty list of a Cursor CLI that fails is cached like any
  catalog; a third content of `config.yaml` within one tick takes the cache's stamp back to
  an earlier value; a translated stream that the upstream breaks off quietly, or ends
  with an error chunk, is completed like any other.
* Capability catalog: `_trigger_refresh` does not look at the table's age again, so a lookup
  that found the table stale before another thread's refresh succeeded fetches it once more.
* Request list: the last answer wins, whatever it was asked for, and a search that waits
  is sent with the method and status of the render that set it (`hooks/useRequests.ts:37-60`);
  a success does not clear the error of another fetch that failed.
* Session page: the answer for a session that was turned away from is shown under the
  address of the next one (`pages/SessionPage.tsx:88-105`) until its own comes.
* Request page: two tool calls of a message with the same id make one cell of two for the
  arrow keys, which then stick; a copied or folded block keeps its state when another cell
  is shown in its place; the first of two copies takes the second's "Copied" away.
* Usage page: the cards of the period before stay under the new tab if its first load
  fails, and an older poll that is slow overwrites a newer one.
* A stored width of 0 is taken for none; the layout's `mousemove` listeners stay after it
  is gone (`layouts/DashboardLayout.tsx:37-41`).

## Proofs

`AuthVaultProofs` proves, for any sets of callers, providers and endpoints and any
bound on pairs, under `~ReadFaults`: type correctness, single use, marked spent
pairs, current copies, one grant per write, and that `AuthVault` implements
`GrantLedger`.

None of these is inductive alone. `IInv` adds where the pieces stand relative to
each other: who is in a locked place owns the lock and no one else does; from its
second read on, a lock holder's copy is the file; past the marker's write, its entry
is the one on disk, marked; before the post of a pair of ours the pair is unspent
unless marked; an answer is a pair nobody has sent, stored or saved; and a pair
waiting to be saved is in no other hands. With the marker on disk for every spent
pair, a caller that decides to post read an unmarked entry under the lock and has
marked it since, so nobody has sent it: single use. One lemma per action shows the
step keeps `IInv`; `StepInv` and `NextInv` combine them. The theorems then follow by
temporal reasoning, and the refinement from one lemma that maps each publication,
marker and post to a ledger step and everything else to a stutter.

`CapabilityCatalogProofs` proves type correctness, one refresh at a time, no refresh
in the cooldown and that no table is replaced by an older one (`NoOlderTable`), for any
threads and any number of catalogs. Its invariant ties the flag to the worker: whoever
has a worker has set the flag, and a worker that may still publish began outside the
cooldown. Hence the worker that holds an answer is the only one, nothing was put in since
the answer came, and the answer is no older than the table (`AnswersAreNews`), which is
what `Publish` needs, as it does not compare the two.

`GatewayProofs` proves, for any requests, chunks and limits, every invariant of the
run `gateway`:

* A request leaves one row if it was sent and none if it was not (`Logged`). The
  invariant splits the places of a handler into those before the upstream is asked (no
  row, not asked), those after (no row yet) and the final ones; two lemmas, one for
  steps that log and one for those that do not, cover all actions.
* A folded answer is a success only if it is whole (`FoldedComplete`): a handler that
  folds has sent nothing and seen no error until it answers, and a refusal it reads has
  a failure status.
* Types (`TypeInvariance`). `Settled` says, for each place, which routes lead to it and
  what the record of the client may be there; `StepKinds` sorts all actions into the few
  shapes their effect on one request has, and the later invariants are proved of shapes.
* The row agrees with what the client was told (`RowsTell`). `TellInv` adds that a
  handler at work has a converter that keeps its own invariant (below), in which no
  frame that ends a stream has been sent yet, that what was sent nests at any time, and
  what of row and frames agrees once the handler has answered.
* Translated events nest (`MessagesNest`, `ResponsesNest`). This is a matter of the
  converters, which `StreamConverterProofs` settles: `MessageInv` counts blocks begun and
  ended, of which at most the one the converter believes to be open is; `ResponseInv` says
  which items are open and that the text kept is the sum of the deltas sent. Each
  operator keeps them, so any sequence of chunks does, and the frames of an end close
  what they leave open.
* The row holds what came (`CapturesWhole`): `CaptureInv` says the capture is the text
  of the chunks captured so far, cut at the limit, and their last usage; the
  place `capture` is the one where a chunk is seen and not yet in it.

`ModelListingProofs` proves types, that warnings go with their catalogs and that a
listing works on the file as it is, for any listings, providers, rows, edits and
stamps. A digest says what the table in memory is: if the last load had the bytes of a
table, that table is in memory (`DigestTells`). A reload keeps this whatever the stamp
does, so one that changes nothing changed nothing.

`DaemonsProofs` proves, for any commands and processes, however they overlap, the types
and that a stop waits (`StopsWait`): a file is only deleted on behalf of a process that is
gone or being killed, and stays so, as no pid is given out again while somebody remembers
it (`LooksOK`). What the pid files say is `LoneCommandsTrack`. It has two hypotheses,
without either of which its conclusion is false of the code:

* `[]Alone`: commands do not overlap. Two `start`s may both look at the file before either
  writes it (the CLI has no lock); the runs have one command for the same reason. How many
  commands there are, what is run by hand meanwhile, which processes end when, and the
  gateway starting its sidecar beside the command that started it, are left open.
* `[]LooksAreCurrent`, part of `ServicesAreTracked`: the file of a gateway or a dashboard
  is not written while somebody who read something else there has yet to come to an end
  with it. `daemons_stop` shows what happens otherwise.

So the theorem says that looks which outlive a write are the only way for a lone command
to lose a service. `Tracked` says by the place of the command which service may run in
the background: none of its kind between the look and the start, only its own child until
the file is written. Most steps are `Quiet`: no service starts in them, and a file they
delete names, as the look is current, a process that is gone or being killed, or nothing.

`DashboardProofs` proves every invariant of the run `dashboard` and its action property,
first of a part alone where it can be, then of the window:

* The split alone keeps `PanesFit` and `CursorIsRestored`, for any widths; a split that
  drags has saved the cursor the body had, which is not that of a drag. The turn numbers
  of a session ascend with its rows, hence no two groups of it have the same
  (`SectionsHaveTheirOwnKeys`).
* For each page the proofs cut out of `Next` what may happen to that page: it is entered,
  left, takes a step of its own or stays (`DebugChanges`, `SplitChanges`, `UsageChanges`,
  `FeedChanges`, `ListChanges`). Then an invariant of the page is kept by each of these.
  `RunIsSelected` needs that a discovery and a run exclude each other; `ChartAgrees`
  that a load which may still store something is of the period shown, and that a series
  comes with the summary of its period; `BackIsCurrent` that any step which changes the
  stack either renders it or begins a fetch, which will. `LaterPagesAreFull` needs that
  sessions never become fewer: a page under way, or asked for by a pager that is
  enabled, begins within them, and so its answer is not empty (`ListInv`).
* `ShownIsRoutes` no page ensures: the request page cancels no fetch and stores any
  answer. An entry of the history that shows a request is the one its document began
  with (`RequestsBegin`), because requests are only reached by `location.assign` or in a
  window of their own; so no move within a document turns one request page into
  another, and all fetches of a page are of its id. The same correspondence says that
  whatever a session page shows is a session, hence `TurnKeysDistinct` in the window, and
  `FocusShowsStep`: every step of a session is in one of its sections, the last that
  begins at or before it (`SectionOfStep`), which the click on a finding opens.
* Types of the whole window (`TypeInvariance`). `WindowInv` joins the invariants of the
  pages with `PagesAreRoutes`: a page is mounted exactly while its route is shown. The
  request page needs the most: its selected cell is one of the cells drawn, its blocks
  have the keys of what is drawn, which are facts about cells flattened out of messages
  and tool calls (`MessageCellsAre`, `ShownCells`, `BlocksHaveKeys`).

The library's induction rules take an operator, which the provers cannot instantiate.
`ListLemmas` has induction for a set instead: a set of naturals with 0 that is closed
under successors holds all of them (`NatSet`), because a counterexample would put a finite
set one-to-one into a smaller one. From it come the least and greatest element of
a set, the ascending list of a finite set of naturals, sums and their agreement with the
folds the models are written with (`SumsFold`, `FoldsAreSums`), and what is left of a list when an
element is removed from it. A choice of a list by what it must be (`InOrder` in `StreamConverters`,
`NewestFirst` in `RequestStore`, which is `ORDER BY id DESC`) is made where a
recursive sort would have said the same and could not be reasoned about.

The proofs rest on the named assumptions of the modules (`ListingAssumption`,
`SplitAssumption`, `SessionAssumption` and so on), which say that the parameters have their
kinds and that "none" is no value: that the messages of a request and the tool calls
of a message are lists (`DetailAssumption`), that a chunk has pieces of finitely many
calls (`GatewayAssumption`), that the bound on the history is a number
(`DashboardAssumption`). TLC evaluates them on every run.

Only model-checked: liveness (`CallsEnd`, `ListingsEnd`, `StaleCatalogsDie`,
`RefreshRecovers`, `CommandsEnd`, `PagesSettle`), which needs fairness and so ENABLED,
out of the prover's reach. Every other property of a passing run is a theorem,
`ServicesAreTracked` for commands that do not overlap. The runs that end in a violation show one
behaviour each and have nothing to prove.

## Plan

What is left, in this order:

1. `DashboardApi`: the proxy probe, its grace and the count cache, under `RequestFeed`,
   whose answers come from the table at once today.
2. `DeviceLogin`: polling until a grant, a refusal or the deadline.
3. `RequestStore` with `close` and reopen, and the rows `Gateway` hands over.
4. Bounded algorithms: `UpdatePlan`, eliding, key indexes, usage series, waste rules, each
   against a reference definition.
5. Proofs: those of the modules above; of `Daemons`, what is left when commands overlap
   (a service started in between is one of those the two commands know of).

## Not modelled

Contents of tokens and their parsing, formats of printed output, HTML and static
files, argument parsing: no property is about them. Port files, `status` and `logs` only
print. A pid is never given out while a file names it. Durability below `os.replace`
(whether the rename survives a power loss) is the file system's.

Of the backend: the dashboard API's probe and caches, device-code logins, self-update
and the command line (see the plan), waste rules and usage series, which are sums.

Of the dashboard: a page that the browser keeps in its back-forward cache comes back
as it was left, here it is always loaded anew; focus and the slash key; the resize
handle of the layout, whose panel is never shown; the second mount of development
builds; downloads and highlighting; components no route renders; text, numbers and
labels. `DetailTurns` (a request page turned into another) is what the code would do
and is part of `Show`, but no move leads to it: that is what `RequestOfTheAddress`
proves.
