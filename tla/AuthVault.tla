------------------------------ MODULE AuthVault ------------------------------
(***************************************************************************)
(* The OAuth sidecar vault of src/src/otel_agent/auth_vault.py: one JSON   *)
(* file holding the token pair of every subscription, shared by the        *)
(* gateway's worker threads and by the `otel-agent auth` commands.         *)
(*                                                                         *)
(* A caller is one thread or process.  The file is read without a lock and *)
(* replaced as a whole (_atomic_write); every writer holds the flock of a  *)
(* sibling file while it loads, changes one entry of its copy and          *)
(* publishes the copy.  A refresh publishes twice: an in-flight marker     *)
(* before the refresh token leaves the machine, and the new pair (or the   *)
(* failure) once the exchange has answered.                                *)
(*                                                                         *)
(* Token pairs are numbered in the order the identity provider mints them; *)
(* number n stands for access token n and refresh token n, 0 for no pair.  *)
(***************************************************************************)
EXTENDS Naturals

CONSTANTS Callers,     \* threads and processes that use the vault
          NoCaller,    \* the lock's owner when it is free
          Providers,   \* provider names, the keys of the vault
          Imported,    \* those import-xai copies from another CLI's store
          Adopted,     \* those import-codex copies, refreshing at once
          Endpoints,   \* token endpoints a grant may record
          NoEndpoint,  \* a grant that records none
          Declared,    \* Declared[q]: endpoint the auth mode declares, if any
          MaxPairs,    \* bound: pairs the identity provider mints
          ReadFaults   \* may _load fail and answer an empty vault?

ASSUME VaultAssumption ==
    /\ Providers # {}
    /\ Imported \cup Adopted \subseteq Providers
    /\ NoCaller \notin Callers
    /\ NoEndpoint \notin Endpoints
    /\ Declared \in [Providers -> Endpoints \cup {NoEndpoint}]
    /\ MaxPairs \in Nat
    /\ ReadFaults \in BOOLEAN

VARIABLES
    \* the machine
    vault,      \* vault[q]: the entry on disk
    lock,       \* the caller holding the flock, or NoCaller
    \* the identity provider, the sibling CLI and the clock
    minted,     \* pairs 1 .. minted exist
    ours,       \* pairs minted for this gateway, by a login or by a refresh
    dead,       \* pairs whose refresh token the identity provider refuses
    presented,  \* pairs whose refresh token this gateway has sent
    aged,       \* pairs whose access token is within its skew of expiry
    sibling,    \* sibling[q]: the pair in the other CLI's store, 0 when signed out
    \* the callers
    pc,         \* where a caller stands
    goal,       \* what it was called for
    name,       \* the provider it was called with
    file,       \* its copy of the vault (`data`)
    entry,      \* its copy of the entry it works on
    reply       \* the pair the exchange answered with, 0 for a refusal

machine == <<vault, lock>>
world   == <<minted, ours, dead, presented, aged, sibling>>
callers == <<pc, goal, name, file, entry, reply>>
vars    == <<machine, world, callers>>

-----------------------------------------------------------------------------
(* Types *)

Siblings == Imported \cup Adopted

Pairs   == 1 .. MaxPairs
Results == {"none", "ok", "refused", "failed"}
Entries == [pair : Nat, marked : BOOLEAN,
            endpoint : Endpoints \cup {NoEndpoint}, result : Results]
Vaults  == [Providers -> Entries]

NoEntry    == [pair |-> 0, marked |-> FALSE, endpoint |-> NoEndpoint, result |-> "none"]
NoName     == CHOOSE q \in Providers : TRUE
EmptyVault == [q \in Providers |-> NoEntry]

Locked   == {"load", "store", "decide", "mark", "post", "reply", "commit", "record"}
Places   == {"idle", "read", "wait"} \cup Locked
Goals    == {"resolve", "save", "adopt", "force"}

TypeOK ==
    /\ vault \in Vaults
    /\ lock \in Callers \cup {NoCaller}
    /\ minted \in 0 .. MaxPairs
    /\ ours \subseteq 1 .. minted
    /\ dead \subseteq 1 .. minted
    /\ presented \subseteq 1 .. minted
    /\ aged \subseteq 1 .. minted
    /\ sibling \in [Siblings -> 0 .. minted]
    /\ pc \in [Callers -> Places]
    /\ goal \in [Callers -> Goals]
    /\ name \in [Callers -> Providers]
    /\ file \in [Callers -> Vaults]
    /\ entry \in [Callers -> Entries]
    /\ reply \in [Callers -> 0 .. minted]

Init ==
    /\ vault = EmptyVault
    /\ lock = NoCaller
    /\ minted = 0
    /\ ours = {}
    /\ dead = {}
    /\ presented = {}
    /\ aged = {}
    /\ sibling = [q \in Siblings |-> 0]
    /\ pc = [p \in Callers |-> "idle"]
    /\ goal = [p \in Callers |-> "resolve"]
    /\ name = [p \in Callers |-> NoName]
    /\ file = [p \in Callers |-> EmptyVault]
    /\ entry = [p \in Callers |-> NoEntry]
    /\ reply = [p \in Callers |-> 0]

-----------------------------------------------------------------------------
(* Helpers *)

Goto(p, place) == pc' = [pc EXCEPT ![p] = place]

(* Every exit of a call, by return or by exception, leaves _vault_lock. *)
Leave(p) ==
    /\ Goto(p, "idle")
    /\ goal' = [goal EXCEPT ![p] = "resolve"]
    /\ file' = [file EXCEPT ![p] = EmptyVault]
    /\ entry' = [entry EXCEPT ![p] = NoEntry]
    /\ reply' = [reply EXCEPT ![p] = 0]
    /\ name' = [name EXCEPT ![p] = NoName]
    /\ lock' = IF lock = p THEN NoCaller ELSE lock

(* What _load may answer: the whole file, or an empty vault when the read fails. *)
Readable == {vault} \cup (IF ReadFaults THEN {EmptyVault} ELSE {})

IsGrant(e) == e.pair # 0

NeedsRefresh(e) == e.pair \in aged

MustRefresh(p, e) == goal[p] = "force" \/ NeedsRefresh(e)

(* _refresh_target: a recorded endpoint, equal to the declared one if there is one. *)
HasTarget(q, e) ==
    /\ e.endpoint # NoEndpoint
    /\ Declared[q] # NoEndpoint => e.endpoint = Declared[q]

RecordsThisRefusal(e) == ~e.marked /\ e.result = "refused"

(* The entry save_grant writes: merged into the prior one, its marker popped. *)
Merge(prior, new) ==
    [pair |-> new.pair, marked |-> FALSE, result |-> prior.result,
     endpoint |-> IF new.endpoint # NoEndpoint THEN new.endpoint ELSE prior.endpoint]

Incoming(n, e) == [NoEntry EXCEPT !.pair = n, !.endpoint = e]

(* Mutant: only the caller's own entry is written back. *)
PublishedAlone(p, e) == [EmptyVault EXCEPT ![name[p]] = e]

(* The caller's copy of the file with its entry replaced, as _atomic_write publishes it. *)
Published(p, e) == [file[p] EXCEPT ![name[p]] = e]

-----------------------------------------------------------------------------
(* Calls: a token is wanted, a login has ended, a sibling's store is copied *)

Begin(p, q, what, place, e) ==
    /\ pc[p] = "idle"
    /\ Goto(p, place)
    /\ goal' = [goal EXCEPT ![p] = what]
    /\ name' = [name EXCEPT ![p] = q]
    /\ entry' = [entry EXCEPT ![p] = e]
    /\ UNCHANGED <<machine, file, reply>>

Resolve(p, q) ==
    /\ Begin(p, q, "resolve", "read", NoEntry)
    /\ UNCHANGED world

(* The device-code flow has minted a grant; save_grant is called with it and *)
(* with a token endpoint, fetched or declared.                               *)
Login(p, q, e) ==
    /\ e # NoEndpoint
    /\ minted < MaxPairs
    /\ minted' = minted + 1
    /\ ours' = ours \cup {minted + 1}
    /\ Begin(p, q, "save", "wait", Incoming(minted + 1, e))
    /\ UNCHANGED <<dead, presented, aged, sibling>>

(* import-xai copies the store's grant as it is, with the endpoint it records, if any. *)
ImportSibling(p, q, e) ==
    /\ q \in Imported /\ sibling[q] # 0
    /\ Begin(p, q, "save", "wait", Incoming(sibling[q], e))
    /\ UNCHANGED world

(* adopt_grant refuses a grant without a token endpoint, saves it, then forces a refresh. *)
AdoptSibling(p, q, e) ==
    /\ q \in Adopted /\ sibling[q] # 0
    /\ e # NoEndpoint
    /\ Begin(p, q, "adopt", "wait", Incoming(sibling[q], e))
    /\ UNCHANGED world

-----------------------------------------------------------------------------
(* resolve_bearer before the lock *)

(* One whole-file read without the lock: the entries it may find. *)
SeenBy(p) == {data[name[p]] : data \in Readable}

ReadVault(p) ==
    /\ pc[p] = "read"
    /\ UNCHANGED <<vault, world>>

FindNoGrant(p) == \E e \in SeenBy(p) :
    /\ ReadVault(p)
    /\ ~IsGrant(e)
    /\ Leave(p)

TurnAway(p) == \E e \in SeenBy(p) :
    /\ ReadVault(p)
    /\ IsGrant(e) /\ e.marked
    /\ Leave(p)

ServeUnlocked(p) == \E e \in SeenBy(p) :
    /\ ReadVault(p)
    /\ IsGrant(e) /\ ~e.marked
    /\ ~MustRefresh(p, e)
    /\ Leave(p)

NoticeStale(p) == \E e \in SeenBy(p) :
    /\ ReadVault(p)
    /\ IsGrant(e) /\ ~e.marked
    /\ MustRefresh(p, e)
    /\ Goto(p, "wait")
    /\ entry' = [entry EXCEPT ![p] = e]
    /\ UNCHANGED <<lock, goal, name, file, reply>>

-----------------------------------------------------------------------------
(* _vault_lock: polled without blocking, given up at the deadline *)

(* Mutant: the file locked is the one os.replace renames over, so that two *)
(* callers may each hold a lock on an inode of their own.                  *)
AcquireOwnInode(p) ==
    /\ pc[p] = "wait"
    /\ lock' = p
    /\ Goto(p, "load")
    /\ UNCHANGED <<vault, world, goal, name, file, entry, reply>>

(* Mutant: the lock is taken under the provider's name. *)
AcquireByProvider(p) ==
    /\ pc[p] = "wait"
    /\ lock = NoCaller
    /\ lock' = name[p]
    /\ Goto(p, "load")
    /\ UNCHANGED <<vault, world, goal, name, file, entry, reply>>

AcquireLock(p) ==
    /\ pc[p] = "wait"
    /\ lock = NoCaller
    /\ lock' = p
    /\ Goto(p, "load")
    /\ UNCHANGED <<vault, world, goal, name, file, entry, reply>>

(* Mutant: the deadline is never looked at. *)
PollForever(p) ==
    /\ pc[p] = "wait"
    /\ lock # NoCaller
    /\ UNCHANGED vars

(* Mutant: past the deadline the caller goes on as if it held the lock. *)
TimeoutProceeds(p) ==
    /\ pc[p] = "wait"
    /\ lock # NoCaller
    /\ Goto(p, "load")
    /\ UNCHANGED <<machine, world, goal, name, file, entry, reply>>

LockTimeout(p) ==
    /\ pc[p] = "wait"
    /\ lock # NoCaller
    /\ Leave(p)
    /\ UNCHANGED <<vault, world>>

-----------------------------------------------------------------------------
(* Under the lock *)

Saving(p) == goal[p] \in {"save", "adopt"}

(* Read again inside the lock; an entry that is not there keeps the earlier copy. *)
Load(p) ==
    /\ pc[p] = "load"
    /\ \E data \in Readable :
         /\ file' = [file EXCEPT ![p] = data]
         /\ entry' = [entry EXCEPT ![p] =
                         IF ~Saving(p) /\ IsGrant(data[name[p]]) THEN data[name[p]] ELSE @]
    /\ Goto(p, IF Saving(p) THEN "store" ELSE "decide")
    /\ UNCHANGED <<machine, world, goal, name, reply>>

(* save_grant publishes; an adoption goes on to the forced refresh. *)
StoreGrant(p) ==
    /\ pc[p] = "store"
    /\ vault' = Published(p, Merge(file[p][name[p]], entry[p]))
    /\ \/ /\ goal[p] = "save"
          /\ Leave(p)
       \/ /\ goal[p] = "adopt"
          /\ lock' = NoCaller
          /\ Goto(p, "read")
          /\ goal' = [goal EXCEPT ![p] = "force"]
          /\ file' = [file EXCEPT ![p] = EmptyVault]
          /\ entry' = [entry EXCEPT ![p] = NoEntry]
          /\ UNCHANGED <<name, reply>>
    /\ UNCHANGED world

(* Decide again: the marker of an attempt nobody finished. *)
FindMarker(p) ==
    /\ pc[p] = "decide"
    /\ entry[p].marked
    /\ Leave(p)
    /\ UNCHANGED <<vault, world>>

(* Decide again: another caller has refreshed meanwhile. *)
ReuseRefresh(p) ==
    /\ pc[p] = "decide"
    /\ ~entry[p].marked /\ ~MustRefresh(p, entry[p])
    /\ Leave(p)
    /\ UNCHANGED <<vault, world>>

(* _refresh_target refuses; the refusal is recorded unless it already is. *)
RefuseTarget(p) ==
    /\ pc[p] = "decide"
    /\ ~entry[p].marked /\ MustRefresh(p, entry[p])
    /\ ~HasTarget(name[p], entry[p])
    /\ \/ /\ RecordsThisRefusal(entry[p])
          /\ Leave(p)
       \/ /\ ~RecordsThisRefusal(entry[p])
          /\ entry' = [entry EXCEPT ![p].result = "refused"]
          /\ Goto(p, "record")
          /\ UNCHANGED <<lock, goal, name, file, reply>>
    /\ UNCHANGED <<vault, world>>

BeginRefresh(p) ==
    /\ pc[p] = "decide"
    /\ ~entry[p].marked /\ MustRefresh(p, entry[p])
    /\ HasTarget(name[p], entry[p])
    /\ entry' = [entry EXCEPT ![p].marked = TRUE]
    /\ Goto(p, "mark")
    /\ UNCHANGED <<machine, world, goal, name, file, reply>>

(* Mutant: the marker is kept in memory only. *)
SkipMarker(p) ==
    /\ pc[p] = "mark"
    /\ file' = [file EXCEPT ![p] = Published(p, entry[p])]
    /\ Goto(p, "post")
    /\ UNCHANGED <<machine, world, goal, name, entry, reply>>

WriteMarker(p) ==
    /\ pc[p] = "mark"
    /\ vault' = Published(p, entry[p])
    /\ file' = [file EXCEPT ![p] = Published(p, entry[p])]
    /\ Goto(p, "post")
    /\ UNCHANGED <<lock, world, goal, name, entry, reply>>

-----------------------------------------------------------------------------
(* _post_refresh: the refresh token leaves the machine *)

(* The exchange succeeds: the old refresh token is consumed and a pair is minted. *)
PostAccepted(p) ==
    /\ pc[p] = "post"
    /\ entry[p].pair \notin dead
    /\ minted < MaxPairs
    /\ minted' = minted + 1
    /\ ours' = ours \cup {minted + 1}
    /\ dead' = dead \cup {entry[p].pair}
    /\ presented' = presented \cup {entry[p].pair}
    /\ reply' = [reply EXCEPT ![p] = minted + 1]
    /\ Goto(p, "reply")
    /\ UNCHANGED <<machine, aged, sibling, goal, name, file, entry>>

(* Refused, or answered without a usable pair, whether or not it was consumed. *)
PostRefused(p) ==
    /\ pc[p] = "post"
    /\ dead' \in {dead, dead \cup {entry[p].pair}}
    /\ presented' = presented \cup {entry[p].pair}
    /\ Goto(p, "reply")
    /\ UNCHANGED <<machine, minted, ours, aged, sibling, goal, name, file, entry, reply>>

(* No connection, no answer in time, no JSON: not an AuthError, so nothing is *)
(* recorded and the marker stays.                                             *)
NetworkFailure(p) ==
    /\ pc[p] \in {"post", "reply"}
    /\ Leave(p)
    /\ UNCHANGED <<vault, world>>

FinishRefresh(p) ==
    /\ pc[p] = "reply"
    /\ reply[p] # 0
    /\ entry' = [entry EXCEPT ![p].pair = reply[p], ![p].marked = FALSE, ![p].result = "ok"]
    /\ Goto(p, "commit")
    /\ UNCHANGED <<machine, world, goal, name, file, reply>>

(* Mutant: a failed exchange clears the marker. *)
FailUnmarks(p) ==
    /\ pc[p] = "reply"
    /\ reply[p] = 0
    /\ entry' = [entry EXCEPT ![p].result = "failed", ![p].marked = FALSE]
    /\ Goto(p, "record")
    /\ UNCHANGED <<machine, world, goal, name, file, reply>>

(* An AuthError after the marker was written: the failure is recorded beside it. *)
FailRefresh(p) ==
    /\ pc[p] = "reply"
    /\ reply[p] = 0
    /\ entry' = [entry EXCEPT ![p].result = "failed"]
    /\ Goto(p, "record")
    /\ UNCHANGED <<machine, world, goal, name, file, reply>>

CommitRefresh(p) ==
    /\ pc[p] = "commit"
    /\ vault' = Published(p, entry[p])
    /\ Leave(p)
    /\ UNCHANGED world

RecordFailure(p) ==
    /\ pc[p] = "record"
    /\ vault' = Published(p, entry[p])
    /\ Leave(p)
    /\ UNCHANGED world

(* _atomic_write raises before os.replace: the file is untouched, the call fails. *)
WriteFails(p) ==
    /\ pc[p] \in {"store", "mark", "commit", "record"}
    /\ Leave(p)
    /\ UNCHANGED <<vault, world>>

(* The process is killed; the operating system drops its flock. *)
Crash(p) ==
    /\ pc[p] # "idle"
    /\ Leave(p)
    /\ UNCHANGED <<vault, world>>

-----------------------------------------------------------------------------
(* Around the gateway *)

(* Time passes for an access token on disk; only those are ever looked at. *)
Age(n) ==
    /\ n \in (1 .. minted) \ aged
    /\ \E q \in Providers : vault[q].pair = n
    /\ aged' = aged \cup {n}
    /\ UNCHANGED <<machine, minted, ours, dead, presented, sibling, callers>>

(* The sibling CLI signs in, or refreshes the pair in its own store. *)
SiblingMint(q) ==
    /\ minted < MaxPairs
    /\ sibling[q] \notin dead
    /\ minted' = minted + 1
    /\ sibling' = [sibling EXCEPT ![q] = minted + 1]
    /\ dead' = IF sibling[q] = 0 THEN dead ELSE dead \cup {sibling[q]}
    /\ UNCHANGED <<machine, ours, presented, aged, callers>>

-----------------------------------------------------------------------------
(* Specification *)

Call(p) == \E q \in Providers :
              \/ Resolve(p, q)
              \/ \E e \in Endpoints \cup {NoEndpoint} :
                    \/ Login(p, q, e)
                    \/ ImportSibling(p, q, e)
                    \/ AdoptSibling(p, q, e)

(* What a caller does of its own accord once it has been called. *)
Step(p) == \/ FindNoGrant(p)    \/ TurnAway(p)      \/ ServeUnlocked(p)
           \/ NoticeStale(p)    \/ AcquireLock(p)   \/ LockTimeout(p)
           \/ Load(p)           \/ StoreGrant(p)    \/ FindMarker(p)
           \/ ReuseRefresh(p)   \/ RefuseTarget(p)  \/ BeginRefresh(p)
           \/ WriteMarker(p)    \/ PostAccepted(p)  \/ PostRefused(p)
           \/ NetworkFailure(p) \/ FinishRefresh(p) \/ FailRefresh(p)
           \/ CommitRefresh(p)  \/ RecordFailure(p)

Environment == (\E n \in Pairs : Age(n)) \/ (\E q \in Siblings : SiblingMint(q))

Next == \/ \E p \in Callers : Call(p) \/ Step(p) \/ WriteFails(p) \/ Crash(p)
        \/ Environment

Spec == Init /\ [][Next]_vars

(* A thread that was called is scheduled, its lock wait is bounded by the      *)
(* deadline (lock_timeout) and its exchange by httpx's timeout (error).        *)
FairSpec == Spec /\ \A p \in Callers : WF_vars(Step(p))

-----------------------------------------------------------------------------
(* Properties *)

(* A refresh token minted for this gateway is sent at most once (R5: waiters  *)
(* reuse the winner's pair instead of presenting the token again).  A pair    *)
(* copied from a sibling's store is excepted: the sibling may have sent it,   *)
(* and adopting it again takes its marker away.                               *)
SingleUse ==
    \A p \in Callers : pc[p] = "post" /\ entry[p].pair \in ours => entry[p].pair \notin presented

(* Whatever crashes or fails and when, a pair of ours whose refresh token has *)
(* been sent is never on disk without its marker: the state "sent, answer not *)
(* stored" is told apart from "never refreshed" (R6, AE3).                    *)
SpentIsMarked ==
    \A q \in Providers : vault[q].pair \in ours \cap presented => vault[q].marked

(* A caller about to publish holds the file as it is on disk, so the whole-file *)
(* replacement loses nothing another caller wrote.                              *)
CopyIsCurrent ==
    \A p \in Callers : pc[p] \in Locked \ {"load"} => file[p] = vault

(* No write removes a grant or changes two providers' entries: what save_grant *)
(* and resolve_bearer leave alone survives them.                               *)
WritesTouchOneGrant ==
    [][/\ \A q \in Providers : IsGrant(vault[q]) => IsGrant(vault'[q])
       /\ \A q, r \in Providers : vault'[q] # vault[q] /\ vault'[r] # vault[r] => q = r]_vault

(* What save_grant says of the fields its caller does not set, "a token endpoint *)
(* recorded at import time" among them: they survive.                            *)
RecordedEndpointSurvives ==
    [][\A q \in Providers :
          vault[q].endpoint # NoEndpoint => vault'[q].endpoint # NoEndpoint]_vault

(* The vault implements the ledger: see GrantLedger. *)
Ledger == INSTANCE GrantLedger WITH
             pair <- [q \in Providers |-> vault[q].pair],
             intent <- [q \in Providers |-> vault[q].marked]

LedgerSpec == Ledger!Spec

(* Every call ends, however long another caller keeps the lock. *)
CallsEnd == \A p \in Callers : pc[p] # "idle" ~> pc[p] = "idle"
=============================================================================
