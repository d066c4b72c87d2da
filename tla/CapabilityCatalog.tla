-------------------------- MODULE CapabilityCatalog --------------------------
(***************************************************************************)
(* The model capability catalog of                                         *)
(* src/src/otel_agent/model_capabilities.py: a table fetched as a whole    *)
(* from OpenRouter by background threads, read by every listing.           *)
(*                                                                         *)
(* Lookups never wait.  One that finds the table missing or past its TTL   *)
(* asks for a refresh after it has left the lock, so what it decided on    *)
(* may have changed; _trigger_refresh decides again.  Sections under the   *)
(* lock are single steps.  Clocks are abstracted to what is compared with  *)
(* them: the age of the table and that of the last failure.  A table (the  *)
(* two indexes, built together) is abstracted to the number of the catalog *)
(* it was built from: OpenRouter publishes them one after the other.       *)
(***************************************************************************)
EXTENDS Naturals

CONSTANTS Callers,     \* threads that look models up
          MaxCatalogs  \* bound on the catalogs OpenRouter publishes

ASSUME CatalogAssumption == MaxCatalogs \in Nat \ {0}

VARIABLES
    latest,     \* the catalog OpenRouter serves now
    table,      \* _raw_index, _full_index: the catalog they are built from, 0 when empty
    age,        \* _fetched_at: never, within the TTL, past it, past the maximum age
    failure,    \* _last_failure_at: none, within the cooldown, past it
    inFlight,   \* _refresh_in_flight
    pc,         \* where a caller stands
    worker,     \* worker[c]: the refresh thread caller c created
    answer,     \* answer[c]: payload of that thread, 0 before the answer is there
    unstarted   \* has the system ever refused to start a thread?

vars == <<latest, table, age, failure, inFlight, pc, worker, answer, unstarted>>

\* What no step of a caller changes.
tables == <<latest, table, age, failure, answer>>

Ages     == {"never", "fresh", "stale", "over"}
Failures == {"none", "recent", "past"}

TypeOK ==
    /\ latest \in 1..MaxCatalogs
    /\ table \in 0..latest
    /\ age \in Ages
    /\ age = "never" <=> table = 0
    /\ failure \in Failures
    /\ inFlight \in BOOLEAN
    /\ pc \in [Callers -> {"idle", "trigger", "start"}]
    /\ worker \in [Callers -> {"none", "created", "fetching", "fetched", "ending"}]
    /\ answer \in [Callers -> 0..latest]
    /\ unstarted \in BOOLEAN

Init ==
    /\ latest = 1 /\ table = 0
    /\ age = "never" /\ failure = "none"
    /\ inFlight = FALSE
    /\ pc = [c \in Callers |-> "idle"]
    /\ worker = [c \in Callers |-> "none"]
    /\ answer = [c \in Callers |-> 0]
    /\ unstarted = FALSE

Goto(c, place) == pc' = [pc EXCEPT ![c] = place]

Become(c, phase) == worker' = [worker EXCEPT ![c] = phase]

-----------------------------------------------------------------------------
(* lookup answers from the table as it is; past the TTL it asks for a refresh, *)
(* and so does warm_up before there is a table                                 *)

Lookup(c) ==
    /\ pc[c] = "idle"
    /\ age # "fresh"
    /\ Goto(c, "trigger")
    /\ UNCHANGED <<tables, inFlight, worker, unstarted>>

(* Mutant: what lookup saw is trusted; the cooldown is not looked at again. *)
TrustDecision(c) ==
    /\ pc[c] = "trigger"
    /\ ~inFlight
    /\ inFlight' = TRUE
    /\ Become(c, "created")
    /\ Goto(c, "start")
    /\ UNCHANGED <<tables, unstarted>>

(* Mutant: the flag is set by the thread, once it runs. *)
FlagLater(c) ==
    /\ pc[c] = "trigger"
    /\ ~inFlight /\ failure # "recent"
    /\ Become(c, "created")
    /\ Goto(c, "start")
    /\ UNCHANGED <<tables, inFlight, unstarted>>

(* _trigger_refresh: nobody is refreshing and the cooldown is over. *)
Trigger(c) ==
    /\ pc[c] = "trigger"
    /\ ~inFlight /\ failure # "recent"
    /\ inFlight' = TRUE
    /\ Become(c, "created")
    /\ Goto(c, "start")
    /\ UNCHANGED <<tables, unstarted>>

HoldBack(c) ==
    /\ pc[c] = "trigger"
    /\ inFlight \/ failure = "recent"
    /\ Goto(c, "idle")
    /\ UNCHANGED <<tables, inFlight, worker, unstarted>>

(* thread.start(), outside the lock. *)
StartThread(c) ==
    /\ pc[c] = "start"
    /\ Goto(c, "idle")
    /\ Become(c, "fetching")
    /\ UNCHANGED <<tables, inFlight, unstarted>>

(* The system refuses a new thread: start raises and the flag stays set. *)
StartFails(c) ==
    /\ pc[c] = "start"
    /\ Goto(c, "idle")
    /\ Become(c, "none")
    /\ unstarted' = TRUE
    /\ UNCHANGED <<tables, inFlight>>

-----------------------------------------------------------------------------
(* _refresh_worker *)

(* Mutant: the flag is cleared as soon as the answer is there. *)
AnswerClearsFlag(c) ==
    /\ worker[c] = "fetching"
    /\ answer' = [answer EXCEPT ![c] = latest]
    /\ inFlight' = FALSE
    /\ Become(c, "fetched")
    /\ UNCHANGED <<latest, table, age, failure, pc, unstarted>>

(* fetch_catalog returns the catalog of this moment.  It is put into use later. *)
Answer(c) ==
    /\ worker[c] = "fetching"
    /\ answer' = [answer EXCEPT ![c] = latest]
    /\ Become(c, "fetched")
    /\ UNCHANGED <<latest, table, age, failure, inFlight, pc, unstarted>>

(* Mutant: the moment of the fetch is not recorded. *)
PublishUndated(c) ==
    /\ worker[c] = "fetched"
    /\ table' = answer[c]
    /\ failure' = "none"
    /\ answer' = [answer EXCEPT ![c] = 0]
    /\ Become(c, "ending")
    /\ UNCHANGED <<latest, age, inFlight, pc, unstarted>>

(* Both indexes are built; they, their age and the end of the cooldown go in at once. *)
Publish(c) ==
    /\ worker[c] = "fetched"
    /\ table' = answer[c]
    /\ age' = "fresh" /\ failure' = "none"
    /\ answer' = [answer EXCEPT ![c] = 0]
    /\ Become(c, "ending")
    /\ UNCHANGED <<latest, inFlight, pc, unstarted>>

(* finally, after a success. *)
Finish(c) ==
    /\ worker[c] = "ending"
    /\ inFlight' = FALSE
    /\ Become(c, "none")
    /\ UNCHANGED <<tables, pc, unstarted>>

(* Mutant: the flag is cleared on success only. *)
FailKeepsFlag(c) ==
    /\ worker[c] \in {"fetching", "fetched"}
    /\ failure' = "recent"
    /\ answer' = [answer EXCEPT ![c] = 0]
    /\ Become(c, "none")
    /\ UNCHANGED <<latest, table, age, inFlight, pc, unstarted>>

(* No answer, a refused redirect, an oversized or malformed catalog; or an *)
(* exception while the indexes are built.                                  *)
Fail(c) ==
    /\ worker[c] \in {"fetching", "fetched"}
    /\ failure' = "recent"
    /\ inFlight' = FALSE
    /\ answer' = [answer EXCEPT ![c] = 0]
    /\ Become(c, "none")
    /\ UNCHANGED <<latest, table, age, pc, unstarted>>

-----------------------------------------------------------------------------
(* OpenRouter and the clock *)

NewCatalog ==
    /\ latest < MaxCatalogs
    /\ latest' = latest + 1
    /\ UNCHANGED <<table, age, failure, inFlight, pc, worker, answer, unstarted>>

TableAges ==
    /\ \/ age = "fresh" /\ age' = "stale"
       \/ age = "stale" /\ age' = "over"
    /\ UNCHANGED <<latest, table, failure, inFlight, pc, worker, answer, unstarted>>

CooldownEnds ==
    /\ failure = "recent"
    /\ failure' = "past"
    /\ UNCHANGED <<latest, table, age, inFlight, pc, worker, answer, unstarted>>

-----------------------------------------------------------------------------
Ask(c) == Trigger(c) \/ HoldBack(c) \/ StartThread(c) \/ StartFails(c)

Refresh(c) == Answer(c) \/ Publish(c) \/ Finish(c) \/ Fail(c)

Next == \/ \E c \in Callers : Lookup(c) \/ Ask(c) \/ Refresh(c)
        \/ NewCatalog
        \/ TableAges
        \/ CooldownEnds

Spec == Init /\ [][Next]_vars

(* Threads are scheduled and a fetch is bounded by its timeouts; time passes.  *)
(* Of the surroundings: clients go on listing models, and OpenRouter does not  *)
(* fail at every attempt.                                                      *)
FairSpec ==
    /\ Spec
    /\ WF_vars(CooldownEnds)
    /\ \A c \in Callers : /\ WF_vars(Lookup(c)) /\ WF_vars(Ask(c)) /\ WF_vars(Refresh(c))
    /\ SF_vars(\E c \in Callers : Answer(c)) /\ SF_vars(\E c \in Callers : Publish(c))

-----------------------------------------------------------------------------
(* Properties *)

(* However many lookups find the table stale at once, one thread fetches it. *)
SingleFlight ==
    \A c, d \in Callers : worker[c] # "none" /\ worker[d] # "none" => c = d

(* After a failed attempt none is begun before the cooldown is over, not even by *)
(* a lookup that decided to refresh before the failure.                          *)
CooldownHolds ==
    [][\A c \in Callers : worker[c] = "none" /\ worker'[c] # "none" => failure # "recent"]_vars

(* A table is never replaced by an older one, nor emptied: _refresh_worker puts its *)
(* payload in without a look at the table's age, so only the flag keeps a slow      *)
(* fetch from coming in after a faster one that began later.                        *)
TableNeverGoesBack == [][table' >= table]_vars

(* A refresh is eventually made again, unless the system once refused a thread: *)
(* the flag it leaves behind holds back every later refresh.                    *)
RefreshRecovers == []<>(age = "fresh") \/ <>unstarted
=============================================================================
