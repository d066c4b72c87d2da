---------------------------- MODULE ModelListing ----------------------------
(***************************************************************************)
(* GET /v1/models: the hot-reloaded provider table (Config of              *)
(* src/src/otel_agent/config.py), the per-provider catalog cache           *)
(* (ModelCache of models.py) and the list_models handler of server.py,     *)
(* which walks the table and awaits the providers the cache cannot answer. *)
(*                                                                         *)
(* Everything runs on one event loop: between two awaits a handler is      *)
(* alone.  Only the file and the clock move under it.  A catalog is        *)
(* abstracted to the row it was fetched under and to how complete it is.   *)
(***************************************************************************)
EXTENDS Naturals

CONSTANTS Requests,    \* listings that may be under way at once
          Names,       \* provider names
          Rows,        \* versions of a provider's row
          NoRow,       \* the name is not in the table
          Listed,      \* rows that declare their models
          Sourced,     \* rows listed by a vendor's CLI, else by their upstream
          ByCommand,   \* loopback Cursor rows: listed by running its CLI
          Invalid,     \* rows _validate refuses
          Missing,     \* the file does not exist
          Unreadable,  \* it cannot be read
          Garbled,     \* it is not YAML, or its providers are no list
          MaxEdits,    \* bound: writes to the file
          MaxStamp     \* bound: largest st_mtime

ASSUME ListingAssumption ==
    /\ NoRow \notin Rows
    /\ Listed \cup Sourced \cup ByCommand \cup Invalid \subseteq Rows
    /\ Names # {}
    /\ {Missing, Unreadable, Garbled} \cap [Names -> Rows \cup {NoRow}] = {}
    /\ MaxEdits \in Nat /\ MaxStamp \in Nat \ {0}

VARIABLES
    file,       \* config.yaml: its stamp and its bytes
    edits,      \* writes so far
    config,     \* Config: _mtime, _fs_mtime, _digest, _providers
    catalog,    \* catalog[q]: the cached models and the row they came from
    live,       \* names whose cached catalog is younger than the TTL
    warned,     \* names with a recorded warning
    cacheMtime, \* ModelCache._config_mtime
    pc,         \* where a listing stands
    snap,       \* the provider table it took when it began
    todo,       \* names it has still to list
    at          \* the name whose answer it awaits

disk     == <<file, edits>>
cache    == <<catalog, live, warned, cacheMtime>>
requests == <<pc, snap, todo, at>>
vars     == <<disk, config, cache, requests>>

Tables == [Names -> Rows \cup {NoRow}]
Bytes  == Tables \cup {Missing, Unreadable, Garbled}
NoRows == [q \in Names |-> NoRow]
NoName == CHOOSE q \in Names : TRUE
Known(table) == {q \in Names : table[q] # NoRow}

Catalogs   == [row : Rows \cup {NoRow}, kind : {"none", "full", "partial", "failed"}]
NoCatalog  == [row |-> NoRow, kind |-> "none"]
Unopened   == [mtime |-> 0, fsMtime |-> 0, digest |-> Missing, providers |-> NoRows]

TypeOK ==
    /\ file \in [stamp : 1 .. MaxStamp, bytes : Bytes]
    /\ edits \in 0 .. MaxEdits
    /\ config \in [mtime : Nat, fsMtime : 0 .. MaxStamp, digest : Bytes, providers : Tables]
    /\ catalog \in [Names -> Catalogs]
    /\ live \subseteq Names
    /\ warned \subseteq Names
    /\ cacheMtime \in Nat
    /\ pc \in [Requests -> {"idle", "listing", "fetching"}]
    /\ snap \in [Requests -> Tables]
    /\ todo \in [Requests -> SUBSET Names]
    /\ at \in [Requests -> Names]

-----------------------------------------------------------------------------
(* Config._reload: what it leaves behind, and whether it raises *)

(* Mutant: only the stamp is compared. *)
SameStamp(c) == file.stamp = c.fsMtime

(* The stamp and the bytes of the last load are still there. *)
Seen(c) == file.stamp = c.fsMtime /\ file.bytes = c.digest

Stamped(c) ==
    [c EXCEPT !.mtime = IF file.stamp # c.mtime THEN file.stamp ELSE c.mtime + 1,
              !.fsMtime = file.stamp,
              !.digest = file.bytes]

(* Mutant: the table is whatever the file holds. *)
ReloadedAsIs(c) == IF Seen(c) THEN c ELSE [Stamped(c) EXCEPT !.providers = file.bytes]

Reloaded(c) ==
    CASE file.bytes = Missing -> [c EXCEPT !.providers = NoRows, !.fsMtime = 0, !.digest = Missing]
      [] file.bytes = Unreadable -> c
      [] file.bytes = Garbled -> IF Seen(c) THEN c ELSE Stamped(c)
      [] OTHER -> IF Seen(c) THEN c ELSE [Stamped(c) EXCEPT !.providers = file.bytes]

(* An invalid table is stored before _validate raises; an unparsable one raises, *)
(* one without a list of providers does not.                                     *)
MayRaise(c) == ~Seen(c) /\ (file.bytes = Garbled \/ \E q \in Names :
                              file.bytes \in Tables /\ file.bytes[q] \in Invalid)
MayReturn(c) == MayRaise(c) => file.bytes = Garbled

Init ==
    /\ \E bytes \in {Missing} \cup {t \in Tables : \A q \in Names : t[q] \notin Invalid} :
          file = [stamp |-> 1, bytes |-> bytes]
    /\ edits = 0
    /\ config = Reloaded(Unopened)
    /\ catalog = [q \in Names |-> NoCatalog]
    /\ live = {} /\ warned = {} /\ cacheMtime = 0
    /\ pc = [r \in Requests |-> "idle"]
    /\ snap = [r \in Requests |-> NoRows]
    /\ todo = [r \in Requests |-> {}]
    /\ at = [r \in Requests |-> NoName]

-----------------------------------------------------------------------------
(* ModelCache *)

(* Mutant: the TTL is not looked at. *)
FreshByStamp(q) == catalog[q] # NoCatalog /\ config.mtime = cacheMtime

Fresh(q) == q \in live /\ config.mtime = cacheMtime

(* Mutant: a full catalog leaves the warning of a partial one. *)
PutKeepsWarning(q, row, kind) ==
    /\ catalog' = [catalog EXCEPT ![q] = [row |-> row, kind |-> kind]]
    /\ live' = live \cup {q}
    /\ cacheMtime' = config.mtime
    /\ warned' = IF kind = "partial" THEN warned \cup {q} ELSE warned

Put(q, row, kind) ==
    /\ catalog' = [catalog EXCEPT ![q] = [row |-> row, kind |-> kind]]
    /\ live' = live \cup {q}
    /\ cacheMtime' = config.mtime
    /\ warned' = IF kind = "partial" THEN warned \cup {q} ELSE warned \ {q}

-----------------------------------------------------------------------------
(* list_models *)

(* No other handler is running on the event loop. *)
LoopFree(r) == \A s \in Requests \ {r} : pc[s] # "listing"

(* Every access to the table reloads it first. *)
Access == config' = Reloaded(config)

Goto(r, place) == pc' = [pc EXCEPT ![r] = place]

(* All providers are asked for, or one, which must be in the table. *)
Start(r, only) ==
    /\ pc[r] = "idle" /\ LoopFree(r)
    /\ Access
    /\ MayReturn(config)
    /\ only \subseteq Known(config'.providers)
    /\ Goto(r, "listing")
    /\ snap' = [snap EXCEPT ![r] = config'.providers]
    /\ todo' = [todo EXCEPT ![r] = IF only = {} THEN Known(config'.providers) ELSE only]
    /\ UNCHANGED <<disk, cache, at>>

(* The other handlers, and a listing that is turned down at once. *)
Consult ==
    /\ \A r \in Requests : pc[r] # "listing"
    /\ Access
    /\ UNCHANGED <<disk, cache, requests>>

Turn(r, q) == pc[r] = "listing" /\ q \in todo[r]

Done(r, q) == todo' = [todo EXCEPT ![r] = @ \ {q}]

ServeCached(r, q) ==
    /\ Turn(r, q) /\ Fresh(q)
    /\ Done(r, q)
    /\ UNCHANGED <<disk, config, cache, pc, snap, at>>

(* The row declares its models, or names a CLI that lists them: nothing is awaited. *)
ListDeclared(r, q) ==
    /\ Turn(r, q) /\ ~Fresh(q)
    /\ snap[r][q] \in Listed \cup Sourced
    /\ Put(q, snap[r][q], "full")
    /\ Done(r, q)
    /\ UNCHANGED <<disk, config, pc, snap, at>>

(* list_cursor_cli_models: an empty list on failure, told apart by nobody. *)
ListByCommand(r, q) ==
    /\ Turn(r, q) /\ ~Fresh(q)
    /\ snap[r][q] \in ByCommand
    /\ \E kind \in {"full", "failed"} : Put(q, snap[r][q], kind)
    /\ Done(r, q)
    /\ UNCHANGED <<disk, config, pc, snap, at>>

AskUpstream(r, q) ==
    /\ Turn(r, q) /\ ~Fresh(q)
    /\ snap[r][q] \notin Listed \cup ByCommand
    /\ Goto(r, "fetching")
    /\ at' = [at EXCEPT ![r] = q]
    /\ UNCHANGED <<disk, config, cache, snap, todo>>

(* Mutant: whatever comes back is cached, an empty list for a failure. *)
CacheAnyAnswer(r, kind) == Put(at[r], snap[r][at[r]], kind)

(* A failed catalog is not cached. *)
CacheAnswer(r, kind) ==
    IF kind = "failed" THEN UNCHANGED cache ELSE Put(at[r], snap[r][at[r]], kind)

(* Mutant: a provider that failed is asked again at once. *)
AskAgain(r) == \E kind \in {"full", "partial", "failed"} :
    /\ pc[r] = "fetching" /\ LoopFree(r)
    /\ CacheAnswer(r, kind)
    /\ Goto(r, "listing")
    /\ IF kind = "failed" THEN UNCHANGED todo ELSE Done(r, at[r])
    /\ UNCHANGED <<disk, config, snap, at>>

(* The answer, its error or the timeout resumes the handler. *)
Answer(r) == \E kind \in {"full", "partial", "failed"} :
    /\ pc[r] = "fetching" /\ LoopFree(r)
    /\ CacheAnswer(r, kind)
    /\ Goto(r, "listing")
    /\ Done(r, at[r])
    /\ UNCHANGED <<disk, config, snap, at>>

Finish(r) ==
    /\ pc[r] = "listing" /\ todo[r] = {}
    /\ Goto(r, "idle")
    /\ snap' = [snap EXCEPT ![r] = NoRows]
    /\ at' = [at EXCEPT ![r] = NoName]
    /\ UNCHANGED <<disk, config, cache, todo>>

-----------------------------------------------------------------------------
(* The file and the clock *)

(* An editor, `otel-agent auth` or a restored backup replaces the file.  Two *)
(* writes may fall in one tick of the file system's clock.                   *)
Edit(bytes, stamp) ==
    /\ edits < MaxEdits
    /\ edits' = edits + 1
    /\ bytes # file.bytes
    /\ file' = [stamp |-> stamp, bytes |-> bytes]
    /\ UNCHANGED <<config, cache, requests>>

Expire(q) ==
    /\ q \in live
    /\ live' = live \ {q}
    /\ UNCHANGED <<disk, config, catalog, warned, cacheMtime, requests>>

-----------------------------------------------------------------------------
Work(r) == \/ \E q \in Names : \/ ServeCached(r, q)   \/ ListDeclared(r, q)
                               \/ ListByCommand(r, q) \/ AskUpstream(r, q)
           \/ Answer(r)
           \/ Finish(r)

Next ==
    \/ \E r \in Requests : Work(r) \/ \E only \in {{}} \cup {{q} : q \in Names} : Start(r, only)
    \/ Consult
    \/ \E bytes \in Bytes : \E stamp \in file.stamp .. MaxStamp : Edit(bytes, stamp)
    \/ \E q \in Names : Expire(q)

Spec == Init /\ [][Next]_vars

(* An upstream request answers or times out after 10 s; the event loop resumes *)
(* ready handlers in the order they became ready, so other listings do not     *)
(* hold an answered one up for ever; time passes for every cached catalog.     *)
FairSpec ==
    /\ Spec
    /\ \A r \in Requests : WF_vars(Work(r)) /\ SF_vars(Answer(r))
    /\ \A q \in Names : WF_vars(Expire(q))

-----------------------------------------------------------------------------
(* Properties *)

(* A listing that begins while the file holds a table works on that table, even *)
(* when the last writes left the file's stamp where it was.                     *)
ListingSeesFile ==
    [][\A r \in Requests : pc[r] = "idle" /\ pc'[r] = "listing" /\ file.bytes \in Tables =>
          snap'[r] = file.bytes]_vars

(* A cached catalog is marked as incomplete exactly while it is. *)
WarningMatchesCatalog == \A q \in Names : q \in warned <=> catalog[q].kind = "partial"

(* Whatever order reloads and answers come in, a catalog fetched under a row the *)
(* table no longer holds is not served for ever.                                 *)
StaleCatalogsDie ==
    <>[](\A q \in Names : Fresh(q) => catalog[q].row = config.providers[q])

(* Every listing ends. *)
ListingsEnd == \A r \in Requests : pc[r] # "idle" ~> pc[r] = "idle"

(* What ModelCache says: "Cache invalidates when TTL expires or config file *)
(* changes".  A catalog served from the cache was fetched under the row the *)
(* listing has taken from the table.                                        *)
HitsAreCurrent ==
    [][\A r \in Requests, q \in Names : ServeCached(r, q) => catalog[q].row = snap[r][q]]_vars
=============================================================================
