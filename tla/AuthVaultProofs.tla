--------------------------- MODULE AuthVaultProofs ---------------------------
(***************************************************************************)
(* Proofs about AuthVault for every number of callers, providers and pairs,*)
(* as long as a writer can read the file it replaces (~ReadFaults).        *)
(*                                                                         *)
(* The argument rests on one inductive invariant, IInv: the lock has one   *)
(* owner, the owner's copy of the file is the file, its copy of the entry  *)
(* is the entry up to the change it is about to publish, and a pair that a *)
(* caller carries but has not published is nowhere else.                   *)
(***************************************************************************)
EXTENDS AuthVault, TLAPS

(* The lock is held exactly in the places under the lock. *)
LockInv == \A p \in Callers : lock = p <=> pc[p] \in Locked

(* A save or an adoption is over once its grant is stored. *)
GoalInv == \A p \in Callers :
    IF Saving(p) THEN pc[p] \in {"wait", "load", "store"}
                 ELSE pc[p] # "store"

(* Every pair in use has been minted; the sibling's are never ours. *)
KnownPairs ==
    /\ \A q \in Providers : vault[q].pair \in 0 .. minted
    /\ \A p \in Callers : entry[p].pair \in 0 .. minted
    /\ \A q \in Siblings : sibling[q] \notin ours

(* What the lock's owner holds in `entry`, place by place. *)
EntryInv == \A p \in Callers :
    LET disk == vault[name[p]]
    IN  /\ Saving(p) => entry[p].pair # 0
        /\ pc[p] \in {"wait", "load"} /\ ~Saving(p) => disk.pair # 0
        /\ pc[p] = "decide" => entry[p] = disk /\ disk.pair # 0
        /\ pc[p] = "mark" => /\ entry[p].pair = disk.pair /\ disk.pair # 0
                             /\ entry[p].marked /\ ~disk.marked
        /\ pc[p] \in {"post", "reply"} => entry[p] = disk /\ disk.pair # 0 /\ disk.marked
        /\ pc[p] = "record" => /\ entry[p].pair = disk.pair /\ disk.pair # 0
                               /\ entry[p].marked = disk.marked
        /\ pc[p] = "commit" => /\ entry[p].pair = reply[p] /\ reply[p] # 0
                               /\ ~entry[p].marked
                               /\ disk.pair # 0 /\ disk.marked
        /\ reply[p] # 0 => reply[p] \in ours /\ pc[p] \in {"reply", "commit"}

(* The pair a caller carries that no file holds yet, 0 when there is none. *)
Carried(p) == IF Saving(p) THEN entry[p].pair ELSE reply[p]

(* A carried pair of ours has not been sent and is nowhere else. *)
CarriedInv == \A p \in Callers : Carried(p) \in ours =>
    /\ Carried(p) \notin presented
    /\ \A q \in Providers : vault[q].pair # Carried(p)
    /\ \A r \in Callers \ {p} : Carried(r) # Carried(p)

(* No two providers share a pair of ours. *)
OwnPairsApart == \A q, r \in Providers :
    q # r /\ vault[q].pair \in ours => vault[r].pair # vault[q].pair

(* A provider no sibling knows only ever holds pairs of ours. *)
OwnChains ==
    /\ \A q \in Providers \ Siblings : vault[q].pair \in ours \cup {0}
    /\ \A p \in Callers : Saving(p) /\ name[p] \notin Siblings => entry[p].pair \in ours

IInv == /\ TypeOK
        /\ LockInv
        /\ GoalInv
        /\ KnownPairs
        /\ CopyIsCurrent
        /\ EntryInv
        /\ CarriedInv
        /\ OwnPairsApart
        /\ OwnChains
        /\ SpentIsMarked
        /\ SingleUse

-----------------------------------------------------------------------------
(* Facts about the model's constants and helpers *)

(* The records and functions a caller is reset to have their types. *)
LEMMA Blanks == /\ NoName \in Providers
                /\ NoEntry \in Entries
                /\ EmptyVault \in Vaults
                /\ NoEntry.pair = 0 /\ ~NoEntry.marked
  BY VaultAssumption DEF NoName, NoEntry, Entries, EmptyVault, Vaults, Results

(* The initial state satisfies the invariant. *)
LEMMA InitInv == Init => IInv
  <1> SUFFICES ASSUME Init PROVE IInv OBVIOUS
  <1> USE Blanks, VaultAssumption DEF Init, Saving, Carried, EmptyVault, Locked, Places, Goals
  <1>1. TypeOK BY DEF TypeOK, LockInv, GoalInv, KnownPairs, EntryInv
  <1>2. LockInv BY DEF TypeOK, LockInv, GoalInv
  <1>3. GoalInv BY DEF TypeOK, LockInv, GoalInv
  <1>4. KnownPairs BY DEF TypeOK, KnownPairs, EntryInv
  <1>5. CopyIsCurrent BY DEF TypeOK, LockInv, CopyIsCurrent
  <1>6. EntryInv BY DEF TypeOK, LockInv, GoalInv, CopyIsCurrent, EntryInv
  <1>7. CarriedInv BY DEF TypeOK, LockInv, GoalInv, KnownPairs, EntryInv, CarriedInv, Carried
  <1>8. OwnPairsApart BY DEF TypeOK, KnownPairs, EntryInv, CarriedInv, Carried, OwnPairsApart
  <1>9. OwnChains BY DEF TypeOK, KnownPairs, EntryInv, OwnChains, Siblings
  <1>10. SpentIsMarked BY DEF TypeOK, KnownPairs, EntryInv, CarriedInv, Carried, OwnPairsApart, SpentIsMarked
  <1>11. SingleUse BY DEF TypeOK, LockInv, KnownPairs, EntryInv, CarriedInv, Carried, SpentIsMarked, SingleUse
  <1> QED BY <1>1, <1>2, <1>3, <1>4, <1>5, <1>6, <1>7, <1>8, <1>9, <1>10, <1>11 DEF IInv

(* What a write of the locked caller leaves on disk: its one entry replaced. *)
LEMMA PublishedEntry ==
  ASSUME IInv, NEW p \in Callers, pc[p] \in Locked \ {"load"},
         NEW e \in Entries, vault' = Published(p, e)
  PROVE  /\ vault' \in Vaults
         /\ Published(p, e) = vault'
         /\ vault'[name[p]] = e
         /\ \A q \in Providers : q # name[p] => vault'[q] = vault[q]
         /\ \A r \in Callers : r # p => pc[r] \notin Locked
  BY DEF IInv, TypeOK, LockInv, CopyIsCurrent, Published, Vaults

(* The types of what a caller works on. *)
LEMMA Operands ==
  ASSUME IInv, NEW p \in Callers
  PROVE  /\ name[p] \in Providers
         /\ entry[p] \in Entries
         /\ vault[name[p]] \in Entries
         /\ reply[p] \in 0 .. minted
  BY DEF IInv, TypeOK, Vaults

(* A caller that leaves, having published nothing, keeps the invariant. *)
LEMMA LeaveInv ==
  ASSUME IInv, NEW p \in Callers, Leave(p), UNCHANGED <<vault, world>>
  PROVE  IInv'
  <1> USE Blanks, VaultAssumption DEF Leave, Goto, world, Saving, Locked, Places, Goals
  <1>1. TypeOK' BY DEF IInv, TypeOK
  <1>2. LockInv' BY DEF IInv, TypeOK, LockInv
  <1>3. GoalInv' BY DEF IInv, TypeOK, GoalInv
  <1>4. KnownPairs' BY DEF IInv, TypeOK, KnownPairs
  <1>5. CopyIsCurrent' BY DEF IInv, TypeOK, CopyIsCurrent
  <1>6. EntryInv' BY DEF IInv, TypeOK, EntryInv
  <1>7. CarriedInv' BY DEF IInv, TypeOK, CarriedInv, Carried
  <1>8. OwnPairsApart' BY DEF IInv, TypeOK, OwnPairsApart
  <1>9. OwnChains' BY DEF IInv, TypeOK, OwnChains
  <1>10. SpentIsMarked' BY DEF IInv, TypeOK, SpentIsMarked
  <1>11. SingleUse' BY DEF IInv, TypeOK, SingleUse
  <1> QED BY <1>1, <1>2, <1>3, <1>4, <1>5, <1>6, <1>7, <1>8, <1>9, <1>10, <1>11 DEF IInv

(* NoticeStale: a copy of the entry is taken without the lock. *)
LEMMA NoticeStaleInv ==
  ASSUME ~ReadFaults, IInv, NEW p \in Callers, NoticeStale(p)
  PROVE  IInv'
  <1> USE Blanks, VaultAssumption DEF NoticeStale, ReadVault, SeenBy, Readable, IsGrant, Goto, machine, world, Vaults, Saving, Locked, Places, Goals
  <1>1. TypeOK' BY DEF IInv, TypeOK, LockInv, GoalInv, KnownPairs, EntryInv
  <1>2. LockInv' BY DEF IInv, TypeOK, LockInv, GoalInv
  <1>3. GoalInv' BY DEF IInv, TypeOK, LockInv, GoalInv
  <1>4. KnownPairs' BY DEF IInv, TypeOK, KnownPairs, EntryInv
  <1>5. CopyIsCurrent' BY DEF IInv, TypeOK, LockInv, CopyIsCurrent
  <1>6. EntryInv' BY DEF IInv, TypeOK, LockInv, GoalInv, CopyIsCurrent, EntryInv
  <1>7. CarriedInv' BY DEF IInv, TypeOK, LockInv, GoalInv, KnownPairs, EntryInv, CarriedInv, Carried
  <1>8. OwnPairsApart' BY DEF IInv, OwnPairsApart
  <1>9. OwnChains' BY DEF IInv, TypeOK, KnownPairs, EntryInv, OwnChains, Siblings
  <1>10. SpentIsMarked' BY DEF IInv, SpentIsMarked
  <1>11. SingleUse' BY DEF IInv, TypeOK, LockInv, KnownPairs, EntryInv, CarriedInv, Carried, SpentIsMarked, SingleUse
  <1> QED BY <1>1, <1>2, <1>3, <1>4, <1>5, <1>6, <1>7, <1>8, <1>9, <1>10, <1>11 DEF IInv

(* AcquireLock: nobody else is under the lock. *)
LEMMA AcquireInv ==
  ASSUME ~ReadFaults, IInv, NEW p \in Callers, AcquireLock(p)
  PROVE  IInv'
  <1> USE Blanks, VaultAssumption DEF AcquireLock, Goto, world, Saving, Locked, Places, Goals
  <1>1. TypeOK' BY DEF IInv, TypeOK, LockInv, GoalInv, KnownPairs, EntryInv
  <1>2. LockInv' BY DEF IInv, TypeOK, LockInv, GoalInv
  <1>3. GoalInv' BY DEF IInv, TypeOK, LockInv, GoalInv
  <1>4. KnownPairs' BY DEF IInv, TypeOK, KnownPairs, EntryInv
  <1>5. CopyIsCurrent' BY DEF IInv, TypeOK, LockInv, CopyIsCurrent
  <1>6. EntryInv' BY DEF IInv, TypeOK, LockInv, GoalInv, CopyIsCurrent, EntryInv
  <1>7. CarriedInv' BY DEF IInv, TypeOK, LockInv, GoalInv, KnownPairs, EntryInv, CarriedInv, Carried
  <1>8. OwnPairsApart' BY DEF IInv, TypeOK, KnownPairs, EntryInv, CarriedInv, Carried, OwnPairsApart
  <1>9. OwnChains' BY DEF IInv, TypeOK, KnownPairs, EntryInv, OwnChains, Siblings
  <1>10. SpentIsMarked' BY DEF IInv, TypeOK, KnownPairs, EntryInv, CarriedInv, Carried, OwnPairsApart, SpentIsMarked
  <1>11. SingleUse' BY DEF IInv, TypeOK, LockInv, KnownPairs, EntryInv, CarriedInv, Carried, SpentIsMarked, SingleUse
  <1> QED BY <1>1, <1>2, <1>3, <1>4, <1>5, <1>6, <1>7, <1>8, <1>9, <1>10, <1>11 DEF IInv

(* Load: the copy is the file, and the entry is the one on disk. *)
LEMMA LoadInv ==
  ASSUME ~ReadFaults, IInv, NEW p \in Callers, Load(p)
  PROVE  IInv'
  <1> USE Blanks, VaultAssumption DEF Load, Readable, IsGrant, Goto, machine, world, Vaults, Saving, Locked, Places, Goals
  <1>1. TypeOK' BY DEF IInv, TypeOK, LockInv, GoalInv, KnownPairs, EntryInv
  <1>2. LockInv' BY DEF IInv, TypeOK, LockInv, GoalInv
  <1>3. GoalInv' BY DEF IInv, TypeOK, LockInv, GoalInv
  <1>4. KnownPairs' BY DEF IInv, TypeOK, KnownPairs, EntryInv
  <1>5. CopyIsCurrent' BY DEF IInv, TypeOK, LockInv, CopyIsCurrent
  <1>6. EntryInv' BY DEF IInv, TypeOK, LockInv, GoalInv, CopyIsCurrent, EntryInv
  <1>7. CarriedInv' BY DEF IInv, TypeOK, LockInv, GoalInv, KnownPairs, EntryInv, CarriedInv, Carried
  <1>8. OwnPairsApart' BY DEF IInv, TypeOK, KnownPairs, EntryInv, CarriedInv, Carried, OwnPairsApart
  <1>9. OwnChains' BY DEF IInv, TypeOK, KnownPairs, EntryInv, OwnChains, Siblings
  <1>10. SpentIsMarked' BY DEF IInv, TypeOK, KnownPairs, EntryInv, CarriedInv, Carried, OwnPairsApart, SpentIsMarked
  <1>11. SingleUse' BY DEF IInv, TypeOK, LockInv, KnownPairs, EntryInv, CarriedInv, Carried, SpentIsMarked, SingleUse
  <1> QED BY <1>1, <1>2, <1>3, <1>4, <1>5, <1>6, <1>7, <1>8, <1>9, <1>10, <1>11 DEF IInv

(* StoreGrant, a save: the carried pair is on disk and no longer carried. *)
LEMMA SaveInv ==
  ASSUME ~ReadFaults, IInv, NEW p \in Callers, StoreGrant(p), goal[p] = "save"
  PROVE  IInv'
  <1> DEFINE e == Merge(file[p][name[p]], entry[p])
  <1> USE DEF Saving, Locked, Places, Goals
  <1>a. pc[p] = "store"
    BY DEF StoreGrant
  <1>b. e \in Entries
    BY <1>a, Operands DEF IInv, TypeOK, CopyIsCurrent, Merge, Entries, Vaults
  <1>c. vault' = Published(p, e)
    BY DEF StoreGrant
  <1>d. /\ vault' \in Vaults
        /\ Published(p, e) = vault'
        /\ vault'[name[p]] = e
        /\ \A q \in Providers : q # name[p] => vault'[q] = vault[q]
        /\ \A r \in Callers : r # p => pc[r] \notin Locked
    BY <1>a, <1>b, <1>c, PublishedEntry
  <1>e. /\ e.pair = entry[p].pair
        /\ ~e.marked
    BY DEF Merge
  <1> HIDE DEF e
  <1>1. TypeOK' BY <1>a, <1>b, <1>d, <1>e, Blanks, Operands, VaultAssumption DEF StoreGrant, Leave, Goto, world, IInv, TypeOK, LockInv, GoalInv, KnownPairs, EntryInv
  <1>2. LockInv' BY <1>a, <1>b, <1>d, <1>e, Blanks, Operands, VaultAssumption DEF StoreGrant, Leave, Goto, world, IInv, TypeOK, LockInv, GoalInv
  <1>3. GoalInv' BY <1>a, <1>b, <1>d, <1>e, Blanks, Operands, VaultAssumption DEF StoreGrant, Leave, Goto, world, IInv, TypeOK, LockInv, GoalInv
  <1>4. KnownPairs' BY <1>a, <1>b, <1>d, <1>e, Blanks, Operands, VaultAssumption DEF StoreGrant, Leave, Goto, world, IInv, TypeOK, KnownPairs, EntryInv
  <1>5. CopyIsCurrent' BY <1>a, <1>b, <1>d, <1>e, Blanks, Operands, VaultAssumption DEF StoreGrant, Leave, Goto, world, IInv, TypeOK, LockInv, CopyIsCurrent
  <1>6. EntryInv' BY <1>a, <1>b, <1>d, <1>e, Blanks, Operands, VaultAssumption DEF StoreGrant, Leave, Goto, world, IInv, TypeOK, LockInv, GoalInv, CopyIsCurrent, EntryInv
  <1>7. CarriedInv' BY <1>a, <1>b, <1>d, <1>e, Blanks, Operands, VaultAssumption DEF StoreGrant, Leave, Goto, world, IInv, TypeOK, LockInv, GoalInv, KnownPairs, EntryInv, CarriedInv, Carried
  <1>8. OwnPairsApart' BY <1>a, <1>b, <1>d, <1>e, Blanks, Operands, VaultAssumption DEF StoreGrant, Leave, Goto, world, IInv, TypeOK, KnownPairs, EntryInv, CarriedInv, Carried, OwnPairsApart
  <1>9. OwnChains' BY <1>a, <1>b, <1>d, <1>e, Blanks, Operands, VaultAssumption DEF StoreGrant, Leave, Goto, world, IInv, TypeOK, KnownPairs, EntryInv, OwnChains, Siblings
  <1>10. SpentIsMarked' BY <1>a, <1>b, <1>d, <1>e, Blanks, Operands, VaultAssumption DEF StoreGrant, Leave, Goto, world, IInv, TypeOK, KnownPairs, EntryInv, CarriedInv, Carried, OwnPairsApart, SpentIsMarked
  <1>11. SingleUse' BY <1>a, <1>b, <1>d, <1>e, Blanks, Operands, VaultAssumption DEF StoreGrant, Leave, Goto, world, IInv, TypeOK, LockInv, KnownPairs, EntryInv, CarriedInv, Carried, SpentIsMarked, SingleUse
  <1> QED BY <1>1, <1>2, <1>3, <1>4, <1>5, <1>6, <1>7, <1>8, <1>9, <1>10, <1>11 DEF IInv

(* StoreGrant, an adoption: the same, and the caller reads on. *)
LEMMA AdoptInv ==
  ASSUME ~ReadFaults, IInv, NEW p \in Callers, StoreGrant(p), goal[p] = "adopt"
  PROVE  IInv'
  <1> DEFINE e == Merge(file[p][name[p]], entry[p])
  <1> USE DEF Saving, Locked, Places, Goals
  <1>a. pc[p] = "store"
    BY DEF StoreGrant
  <1>b. e \in Entries
    BY <1>a, Operands DEF IInv, TypeOK, CopyIsCurrent, Merge, Entries, Vaults
  <1>c. vault' = Published(p, e)
    BY DEF StoreGrant
  <1>d. /\ vault' \in Vaults
        /\ Published(p, e) = vault'
        /\ vault'[name[p]] = e
        /\ \A q \in Providers : q # name[p] => vault'[q] = vault[q]
        /\ \A r \in Callers : r # p => pc[r] \notin Locked
    BY <1>a, <1>b, <1>c, PublishedEntry
  <1>e. /\ e.pair = entry[p].pair
        /\ ~e.marked
    BY DEF Merge
  <1> HIDE DEF e
  <1>1. TypeOK' BY <1>a, <1>b, <1>d, <1>e, Blanks, Operands, VaultAssumption DEF StoreGrant, Goto, world, IInv, TypeOK, LockInv, GoalInv, KnownPairs, EntryInv
  <1>2. LockInv' BY <1>a, <1>b, <1>d, <1>e, Blanks, Operands, VaultAssumption DEF StoreGrant, Goto, world, IInv, TypeOK, LockInv, GoalInv
  <1>3. GoalInv' BY <1>a, <1>b, <1>d, <1>e, Blanks, Operands, VaultAssumption DEF StoreGrant, Goto, world, IInv, TypeOK, LockInv, GoalInv
  <1>4. KnownPairs' BY <1>a, <1>b, <1>d, <1>e, Blanks, Operands, VaultAssumption DEF StoreGrant, Goto, world, IInv, TypeOK, KnownPairs, EntryInv
  <1>5. CopyIsCurrent' BY <1>a, <1>b, <1>d, <1>e, Blanks, Operands, VaultAssumption DEF StoreGrant, Goto, world, IInv, TypeOK, LockInv, CopyIsCurrent
  <1>6. EntryInv' BY <1>a, <1>b, <1>d, <1>e, Blanks, Operands, VaultAssumption DEF StoreGrant, Goto, world, IInv, TypeOK, LockInv, GoalInv, CopyIsCurrent, EntryInv
  <1>7. CarriedInv' BY <1>a, <1>b, <1>d, <1>e, Blanks, Operands, VaultAssumption DEF StoreGrant, Goto, world, IInv, TypeOK, LockInv, GoalInv, KnownPairs, EntryInv, CarriedInv, Carried
  <1>8. OwnPairsApart' BY <1>a, <1>b, <1>d, <1>e, Blanks, Operands, VaultAssumption DEF StoreGrant, Goto, world, IInv, TypeOK, KnownPairs, EntryInv, CarriedInv, Carried, OwnPairsApart
  <1>9. OwnChains' BY <1>a, <1>b, <1>d, <1>e, Blanks, Operands, VaultAssumption DEF StoreGrant, Goto, world, IInv, TypeOK, KnownPairs, EntryInv, OwnChains, Siblings
  <1>10. SpentIsMarked' BY <1>a, <1>b, <1>d, <1>e, Blanks, Operands, VaultAssumption DEF StoreGrant, Goto, world, IInv, TypeOK, KnownPairs, EntryInv, CarriedInv, Carried, OwnPairsApart, SpentIsMarked
  <1>11. SingleUse' BY <1>a, <1>b, <1>d, <1>e, Blanks, Operands, VaultAssumption DEF StoreGrant, Goto, world, IInv, TypeOK, LockInv, KnownPairs, EntryInv, CarriedInv, Carried, SpentIsMarked, SingleUse
  <1> QED BY <1>1, <1>2, <1>3, <1>4, <1>5, <1>6, <1>7, <1>8, <1>9, <1>10, <1>11 DEF IInv

(* RefuseTarget: the refusal is noted on the copy. *)
LEMMA RefuseInv ==
  ASSUME ~ReadFaults, IInv, NEW p \in Callers, pc[p] = "decide",
         Goto(p, "record"), entry' = [entry EXCEPT ![p].result = "refused"],
         UNCHANGED <<machine, world, goal, name, file, reply>>
  PROVE  IInv'
  <1> USE VaultAssumption DEF Goto, machine, world, Saving, Locked, Places, Goals
  <1>a. /\ entry' \in [Callers -> Entries]
        /\ entry'[p].pair = entry[p].pair /\ entry'[p].marked = entry[p].marked
        /\ \A r \in Callers : r # p => entry'[r] = entry[r]
    BY Operands DEF Entries, Results, IInv, TypeOK
  <1>1. TypeOK' BY <1>a, Operands DEF IInv, TypeOK, LockInv, GoalInv, KnownPairs, EntryInv
  <1>2. LockInv' BY <1>a, Operands DEF IInv, TypeOK, LockInv, GoalInv
  <1>3. GoalInv' BY <1>a, Operands DEF IInv, TypeOK, LockInv, GoalInv
  <1>4. KnownPairs' BY <1>a, Operands DEF IInv, TypeOK, KnownPairs, EntryInv
  <1>5. CopyIsCurrent' BY <1>a, Operands DEF IInv, TypeOK, LockInv, CopyIsCurrent
  <1>6. EntryInv' BY <1>a, Operands DEF IInv, TypeOK, LockInv, GoalInv, CopyIsCurrent, EntryInv
  <1>7. CarriedInv' BY <1>a, Operands DEF IInv, TypeOK, LockInv, GoalInv, KnownPairs, EntryInv, CarriedInv, Carried
  <1>8. OwnPairsApart' BY <1>a, Operands DEF IInv, TypeOK, KnownPairs, EntryInv, CarriedInv, Carried, OwnPairsApart
  <1>9. OwnChains' BY <1>a, Operands DEF IInv, TypeOK, KnownPairs, EntryInv, OwnChains, Siblings
  <1>10. SpentIsMarked' BY <1>a, Operands DEF IInv, TypeOK, KnownPairs, EntryInv, CarriedInv, Carried, OwnPairsApart, SpentIsMarked
  <1>11. SingleUse' BY <1>a, Operands DEF IInv, TypeOK, LockInv, KnownPairs, EntryInv, CarriedInv, Carried, SpentIsMarked, SingleUse
  <1> QED BY <1>1, <1>2, <1>3, <1>4, <1>5, <1>6, <1>7, <1>8, <1>9, <1>10, <1>11 DEF IInv

(* BeginRefresh: the marker is on the copy, not yet on disk. *)
LEMMA BeginRefreshInv ==
  ASSUME ~ReadFaults, IInv, NEW p \in Callers, BeginRefresh(p)
  PROVE  IInv'
  <1> USE VaultAssumption DEF BeginRefresh, Goto, machine, world, Saving, Locked, Places, Goals
  <1>a. /\ entry' \in [Callers -> Entries]
        /\ entry'[p].pair = entry[p].pair /\ entry'[p].marked
        /\ \A r \in Callers : r # p => entry'[r] = entry[r]
    BY Operands DEF Entries, Results, IInv, TypeOK
  <1>1. TypeOK' BY <1>a, Operands DEF IInv, TypeOK, LockInv, GoalInv, KnownPairs, EntryInv
  <1>2. LockInv' BY <1>a, Operands DEF IInv, TypeOK, LockInv, GoalInv
  <1>3. GoalInv' BY <1>a, Operands DEF IInv, TypeOK, LockInv, GoalInv
  <1>4. KnownPairs' BY <1>a, Operands DEF IInv, TypeOK, KnownPairs, EntryInv
  <1>5. CopyIsCurrent' BY <1>a, Operands DEF IInv, TypeOK, LockInv, CopyIsCurrent
  <1>6. EntryInv' BY <1>a, Operands DEF IInv, TypeOK, LockInv, GoalInv, CopyIsCurrent, EntryInv
  <1>7. CarriedInv' BY <1>a, Operands DEF IInv, TypeOK, LockInv, GoalInv, KnownPairs, EntryInv, CarriedInv, Carried
  <1>8. OwnPairsApart' BY <1>a, Operands DEF IInv, TypeOK, KnownPairs, EntryInv, CarriedInv, Carried, OwnPairsApart
  <1>9. OwnChains' BY <1>a, Operands DEF IInv, TypeOK, KnownPairs, EntryInv, OwnChains, Siblings
  <1>10. SpentIsMarked' BY <1>a, Operands DEF IInv, TypeOK, KnownPairs, EntryInv, CarriedInv, Carried, OwnPairsApart, SpentIsMarked
  <1>11. SingleUse' BY <1>a, Operands DEF IInv, TypeOK, LockInv, KnownPairs, EntryInv, CarriedInv, Carried, SpentIsMarked, SingleUse
  <1> QED BY <1>1, <1>2, <1>3, <1>4, <1>5, <1>6, <1>7, <1>8, <1>9, <1>10, <1>11 DEF IInv

(* WriteMarker: the marker is on disk before anything is sent. *)
LEMMA WriteMarkerInv ==
  ASSUME ~ReadFaults, IInv, NEW p \in Callers, WriteMarker(p)
  PROVE  IInv'
  <1> DEFINE e == entry[p]
  <1> USE DEF Saving, Locked, Places, Goals
  <1>a. pc[p] = "mark"
    BY DEF WriteMarker
  <1>b. e \in Entries
    BY Operands
  <1>c. vault' = Published(p, e)
    BY DEF WriteMarker
  <1>d. /\ vault' \in Vaults
        /\ Published(p, e) = vault'
        /\ vault'[name[p]] = e
        /\ \A q \in Providers : q # name[p] => vault'[q] = vault[q]
        /\ \A r \in Callers : r # p => pc[r] \notin Locked
    BY <1>a, <1>b, <1>c, PublishedEntry
  <1>1. TypeOK' BY <1>a, <1>b, <1>d, Blanks, Operands, VaultAssumption DEF WriteMarker, Goto, world, IInv, TypeOK, LockInv, GoalInv, KnownPairs, EntryInv
  <1>2. LockInv' BY <1>a, <1>b, <1>d, Blanks, Operands, VaultAssumption DEF WriteMarker, Goto, world, IInv, TypeOK, LockInv, GoalInv
  <1>3. GoalInv' BY <1>a, <1>b, <1>d, Blanks, Operands, VaultAssumption DEF WriteMarker, Goto, world, IInv, TypeOK, LockInv, GoalInv
  <1>4. KnownPairs' BY <1>a, <1>b, <1>d, Blanks, Operands, VaultAssumption DEF WriteMarker, Goto, world, IInv, TypeOK, KnownPairs, EntryInv
  <1>5. CopyIsCurrent' BY <1>a, <1>b, <1>d, Blanks, Operands, VaultAssumption DEF WriteMarker, Goto, world, IInv, TypeOK, LockInv, CopyIsCurrent
  <1>6. EntryInv' BY <1>a, <1>b, <1>d, Blanks, Operands, VaultAssumption DEF WriteMarker, Goto, world, IInv, TypeOK, LockInv, GoalInv, CopyIsCurrent, EntryInv
  <1>7. CarriedInv' BY <1>a, <1>b, <1>d, Blanks, Operands, VaultAssumption DEF WriteMarker, Goto, world, IInv, TypeOK, LockInv, GoalInv, KnownPairs, EntryInv, CarriedInv, Carried
  <1>8. OwnPairsApart' BY <1>a, <1>b, <1>d, Blanks, Operands, VaultAssumption DEF WriteMarker, Goto, world, IInv, TypeOK, KnownPairs, EntryInv, CarriedInv, Carried, OwnPairsApart
  <1>9. OwnChains' BY <1>a, <1>b, <1>d, Blanks, Operands, VaultAssumption DEF WriteMarker, Goto, world, IInv, TypeOK, KnownPairs, EntryInv, OwnChains, Siblings
  <1>10. SpentIsMarked' BY <1>a, <1>b, <1>d, Blanks, Operands, VaultAssumption DEF WriteMarker, Goto, world, IInv, TypeOK, KnownPairs, EntryInv, CarriedInv, Carried, OwnPairsApart, SpentIsMarked
  <1>11. SingleUse' BY <1>a, <1>b, <1>d, Blanks, Operands, VaultAssumption DEF WriteMarker, Goto, world, IInv, TypeOK, LockInv, KnownPairs, EntryInv, CarriedInv, Carried, SpentIsMarked, SingleUse
  <1> QED BY <1>1, <1>2, <1>3, <1>4, <1>5, <1>6, <1>7, <1>8, <1>9, <1>10, <1>11 DEF IInv

(* PostAccepted: the marked pair is sent, a fresh one is carried. *)
LEMMA AcceptedInv ==
  ASSUME ~ReadFaults, IInv, NEW p \in Callers, PostAccepted(p)
  PROVE  IInv'
  <1> USE VaultAssumption, Operands DEF PostAccepted, Goto, machine, Saving, Locked, Places, Goals
  <1>a. /\ entry[p] = vault[name[p]]
        /\ entry[p].pair \in 1 .. minted
        /\ vault[name[p]].marked
    BY DEF IInv, KnownPairs, EntryInv
  <1>1. TypeOK'
    <2>1. minted' \in 0 .. MaxPairs /\ minted' = minted + 1
      BY DEF IInv, TypeOK
    <2>2. \A i : /\ i \in 1 .. minted => i \in 1 .. minted'
                 /\ i \in 0 .. minted => i \in 0 .. minted'
                 /\ minted + 1 \in 1 .. minted'
                 /\ minted + 1 \in 0 .. minted'
      BY <2>1 DEF IInv, TypeOK
    <2>3. /\ ours' \subseteq 1 .. minted' /\ dead' \subseteq 1 .. minted'
          /\ presented' \subseteq 1 .. minted' /\ aged' \subseteq 1 .. minted'
      BY <1>a, <2>2 DEF IInv, TypeOK
    <2>4. sibling' \in [Siblings -> 0 .. minted'] /\ reply' \in [Callers -> 0 .. minted']
      BY <2>2 DEF IInv, TypeOK
    <2> QED BY <2>1, <2>3, <2>4 DEF IInv, TypeOK
  <1>2. LockInv' BY <1>a DEF IInv, TypeOK, LockInv, GoalInv
  <1>3. GoalInv' BY <1>a DEF IInv, TypeOK, LockInv, GoalInv
  <1>4. KnownPairs' BY <1>a DEF IInv, TypeOK, KnownPairs, EntryInv
  <1>5. CopyIsCurrent' BY <1>a DEF IInv, TypeOK, LockInv, CopyIsCurrent
  <1>6. EntryInv' BY <1>a DEF IInv, TypeOK, LockInv, GoalInv, CopyIsCurrent, EntryInv
  <1>7. CarriedInv' BY <1>a DEF IInv, TypeOK, LockInv, GoalInv, KnownPairs, EntryInv, CarriedInv, Carried
  <1>8. OwnPairsApart' BY <1>a DEF IInv, TypeOK, KnownPairs, EntryInv, CarriedInv, Carried, OwnPairsApart
  <1>9. OwnChains' BY <1>a DEF IInv, TypeOK, KnownPairs, EntryInv, OwnChains, Siblings
  <1>10. SpentIsMarked' BY <1>a DEF IInv, TypeOK, KnownPairs, OwnPairsApart, SpentIsMarked
  <1>11. SingleUse' BY <1>a DEF IInv, TypeOK, LockInv, KnownPairs, EntryInv, CarriedInv, Carried, SpentIsMarked, SingleUse
  <1> QED BY <1>1, <1>2, <1>3, <1>4, <1>5, <1>6, <1>7, <1>8, <1>9, <1>10, <1>11 DEF IInv

(* PostRefused: the marked pair is sent. *)
LEMMA RefusedInv ==
  ASSUME ~ReadFaults, IInv, NEW p \in Callers, PostRefused(p)
  PROVE  IInv'
  <1> USE VaultAssumption, Operands DEF PostRefused, Goto, machine, Saving, Locked, Places, Goals
  <1>a. /\ entry[p] = vault[name[p]]
        /\ entry[p].pair \in 1 .. minted
        /\ vault[name[p]].marked
    BY DEF IInv, KnownPairs, EntryInv
  <1>1. TypeOK' BY <1>a DEF IInv, TypeOK, LockInv, GoalInv, KnownPairs, EntryInv
  <1>2. LockInv' BY <1>a DEF IInv, TypeOK, LockInv, GoalInv
  <1>3. GoalInv' BY <1>a DEF IInv, TypeOK, LockInv, GoalInv
  <1>4. KnownPairs' BY <1>a DEF IInv, TypeOK, KnownPairs, EntryInv
  <1>5. CopyIsCurrent' BY <1>a DEF IInv, TypeOK, LockInv, CopyIsCurrent
  <1>6. EntryInv' BY <1>a DEF IInv, TypeOK, LockInv, GoalInv, CopyIsCurrent, EntryInv
  <1>7. CarriedInv' BY <1>a DEF IInv, TypeOK, LockInv, GoalInv, KnownPairs, EntryInv, CarriedInv, Carried
  <1>8. OwnPairsApart' BY <1>a DEF IInv, TypeOK, KnownPairs, EntryInv, CarriedInv, Carried, OwnPairsApart
  <1>9. OwnChains' BY <1>a DEF IInv, TypeOK, KnownPairs, EntryInv, OwnChains, Siblings
  <1>10. SpentIsMarked' BY <1>a DEF IInv, TypeOK, KnownPairs, OwnPairsApart, SpentIsMarked
  <1>11. SingleUse' BY <1>a DEF IInv, TypeOK, LockInv, KnownPairs, EntryInv, CarriedInv, Carried, SpentIsMarked, SingleUse
  <1> QED BY <1>1, <1>2, <1>3, <1>4, <1>5, <1>6, <1>7, <1>8, <1>9, <1>10, <1>11 DEF IInv

(* FinishRefresh: the carried pair replaces the sent one on the copy. *)
LEMMA FinishInv ==
  ASSUME ~ReadFaults, IInv, NEW p \in Callers, FinishRefresh(p)
  PROVE  IInv'
  <1> USE VaultAssumption DEF FinishRefresh, Goto, machine, world, Saving, Locked, Places, Goals
  <1>a. reply[p] \in Nat
    BY DEF IInv, TypeOK
  <1>b. /\ entry' \in [Callers -> Entries]
        /\ entry'[p].pair = reply[p] /\ ~entry'[p].marked
        /\ \A r \in Callers : r # p => entry'[r] = entry[r]
    <2>1. entry'[p] = [pair |-> reply[p], marked |-> FALSE,
                       endpoint |-> entry[p].endpoint, result |-> "ok"]
      BY Operands DEF Entries, IInv, TypeOK
    <2>2. entry[p].endpoint \in Endpoints \cup {NoEndpoint} BY Operands DEF Entries
    <2> HIDE DEF FinishRefresh
    <2>3. entry'[p] \in Entries BY <1>a, <2>1, <2>2 DEF Entries, Results
    <2> QED BY <2>1, <2>3 DEF FinishRefresh, IInv, TypeOK
  <1>1. TypeOK' BY <1>b, Operands DEF IInv, TypeOK, LockInv, GoalInv, KnownPairs, EntryInv
  <1>2. LockInv' BY <1>b, Operands DEF IInv, TypeOK, LockInv, GoalInv
  <1>3. GoalInv' BY <1>b, Operands DEF IInv, TypeOK, LockInv, GoalInv
  <1>4. KnownPairs' BY <1>b, Operands DEF IInv, TypeOK, KnownPairs, EntryInv
  <1>5. CopyIsCurrent' BY <1>b, Operands DEF IInv, TypeOK, LockInv, CopyIsCurrent
  <1>6. EntryInv' BY <1>b, Operands DEF IInv, TypeOK, LockInv, GoalInv, CopyIsCurrent, EntryInv
  <1>7. CarriedInv' BY <1>b, Operands DEF IInv, TypeOK, LockInv, GoalInv, KnownPairs, EntryInv, CarriedInv, Carried
  <1>8. OwnPairsApart' BY <1>b, Operands DEF IInv, TypeOK, KnownPairs, EntryInv, CarriedInv, Carried, OwnPairsApart
  <1>9. OwnChains' BY <1>b, Operands DEF IInv, TypeOK, KnownPairs, EntryInv, OwnChains, Siblings
  <1>10. SpentIsMarked' BY <1>b, Operands DEF IInv, TypeOK, KnownPairs, EntryInv, CarriedInv, Carried, OwnPairsApart, SpentIsMarked
  <1>11. SingleUse' BY <1>b, Operands DEF IInv, TypeOK, LockInv, KnownPairs, EntryInv, CarriedInv, Carried, SpentIsMarked, SingleUse
  <1> QED BY <1>1, <1>2, <1>3, <1>4, <1>5, <1>6, <1>7, <1>8, <1>9, <1>10, <1>11 DEF IInv

(* FailRefresh: the failure is noted on the copy, beside the marker. *)
LEMMA FailInv ==
  ASSUME ~ReadFaults, IInv, NEW p \in Callers, FailRefresh(p)
  PROVE  IInv'
  <1> USE VaultAssumption DEF FailRefresh, Goto, machine, world, Saving, Locked, Places, Goals
  <1>a. /\ entry' \in [Callers -> Entries]
        /\ entry'[p].pair = entry[p].pair /\ entry'[p].marked = entry[p].marked
        /\ \A r \in Callers : r # p => entry'[r] = entry[r]
    BY Operands DEF Entries, Results, IInv, TypeOK
  <1>1. TypeOK' BY <1>a, Operands DEF IInv, TypeOK, LockInv, GoalInv, KnownPairs, EntryInv
  <1>2. LockInv' BY <1>a, Operands DEF IInv, TypeOK, LockInv, GoalInv
  <1>3. GoalInv' BY <1>a, Operands DEF IInv, TypeOK, LockInv, GoalInv
  <1>4. KnownPairs' BY <1>a, Operands DEF IInv, TypeOK, KnownPairs, EntryInv
  <1>5. CopyIsCurrent' BY <1>a, Operands DEF IInv, TypeOK, LockInv, CopyIsCurrent
  <1>6. EntryInv' BY <1>a, Operands DEF IInv, TypeOK, LockInv, GoalInv, CopyIsCurrent, EntryInv
  <1>7. CarriedInv' BY <1>a, Operands DEF IInv, TypeOK, LockInv, GoalInv, KnownPairs, EntryInv, CarriedInv, Carried
  <1>8. OwnPairsApart' BY <1>a, Operands DEF IInv, TypeOK, KnownPairs, EntryInv, CarriedInv, Carried, OwnPairsApart
  <1>9. OwnChains' BY <1>a, Operands DEF IInv, TypeOK, KnownPairs, EntryInv, OwnChains, Siblings
  <1>10. SpentIsMarked' BY <1>a, Operands DEF IInv, TypeOK, KnownPairs, EntryInv, CarriedInv, Carried, OwnPairsApart, SpentIsMarked
  <1>11. SingleUse' BY <1>a, Operands DEF IInv, TypeOK, LockInv, KnownPairs, EntryInv, CarriedInv, Carried, SpentIsMarked, SingleUse
  <1> QED BY <1>1, <1>2, <1>3, <1>4, <1>5, <1>6, <1>7, <1>8, <1>9, <1>10, <1>11 DEF IInv

(* CommitRefresh: the carried pair is on disk. *)
LEMMA CommitInv ==
  ASSUME ~ReadFaults, IInv, NEW p \in Callers, CommitRefresh(p)
  PROVE  IInv'
  <1> DEFINE e == entry[p]
  <1> USE DEF Saving, Locked, Places, Goals
  <1>a. pc[p] = "commit"
    BY DEF CommitRefresh
  <1>b. e \in Entries
    BY Operands
  <1>c. vault' = Published(p, e)
    BY DEF CommitRefresh
  <1>d. /\ vault' \in Vaults
        /\ Published(p, e) = vault'
        /\ vault'[name[p]] = e
        /\ \A q \in Providers : q # name[p] => vault'[q] = vault[q]
        /\ \A r \in Callers : r # p => pc[r] \notin Locked
    BY <1>a, <1>b, <1>c, PublishedEntry
  <1>1. TypeOK' BY <1>a, <1>b, <1>d, Blanks, Operands, VaultAssumption DEF CommitRefresh, Leave, Goto, world, IInv, TypeOK, LockInv, GoalInv, KnownPairs, EntryInv
  <1>2. LockInv' BY <1>a, <1>b, <1>d, Blanks, Operands, VaultAssumption DEF CommitRefresh, Leave, Goto, world, IInv, TypeOK, LockInv, GoalInv
  <1>3. GoalInv' BY <1>a, <1>b, <1>d, Blanks, Operands, VaultAssumption DEF CommitRefresh, Leave, Goto, world, IInv, TypeOK, LockInv, GoalInv
  <1>4. KnownPairs' BY <1>a, <1>b, <1>d, Blanks, Operands, VaultAssumption DEF CommitRefresh, Leave, Goto, world, IInv, TypeOK, KnownPairs, EntryInv
  <1>5. CopyIsCurrent' BY <1>a, <1>b, <1>d, Blanks, Operands, VaultAssumption DEF CommitRefresh, Leave, Goto, world, IInv, TypeOK, LockInv, CopyIsCurrent
  <1>6. EntryInv' BY <1>a, <1>b, <1>d, Blanks, Operands, VaultAssumption DEF CommitRefresh, Leave, Goto, world, IInv, TypeOK, LockInv, GoalInv, CopyIsCurrent, EntryInv
  <1>7. CarriedInv' BY <1>a, <1>b, <1>d, Blanks, Operands, VaultAssumption DEF CommitRefresh, Leave, Goto, world, IInv, TypeOK, LockInv, GoalInv, KnownPairs, EntryInv, CarriedInv, Carried
  <1>8. OwnPairsApart' BY <1>a, <1>b, <1>d, Blanks, Operands, VaultAssumption DEF CommitRefresh, Leave, Goto, world, IInv, TypeOK, KnownPairs, EntryInv, CarriedInv, Carried, OwnPairsApart
  <1>9. OwnChains' BY <1>a, <1>b, <1>d, Blanks, Operands, VaultAssumption DEF CommitRefresh, Leave, Goto, world, IInv, TypeOK, KnownPairs, EntryInv, OwnChains, Siblings
  <1>10. SpentIsMarked' BY <1>a, <1>b, <1>d, Blanks, Operands, VaultAssumption DEF CommitRefresh, Leave, Goto, world, IInv, TypeOK, KnownPairs, EntryInv, CarriedInv, Carried, OwnPairsApart, SpentIsMarked
  <1>11. SingleUse' BY <1>a, <1>b, <1>d, Blanks, Operands, VaultAssumption DEF CommitRefresh, Leave, Goto, world, IInv, TypeOK, LockInv, KnownPairs, EntryInv, CarriedInv, Carried, SpentIsMarked, SingleUse
  <1> QED BY <1>1, <1>2, <1>3, <1>4, <1>5, <1>6, <1>7, <1>8, <1>9, <1>10, <1>11 DEF IInv

(* RecordFailure: the pair and its marker stay as they were. *)
LEMMA RecordInv ==
  ASSUME ~ReadFaults, IInv, NEW p \in Callers, RecordFailure(p)
  PROVE  IInv'
  <1> DEFINE e == entry[p]
  <1> USE DEF Saving, Locked, Places, Goals
  <1>a. pc[p] = "record"
    BY DEF RecordFailure
  <1>b. e \in Entries
    BY Operands
  <1>c. vault' = Published(p, e)
    BY DEF RecordFailure
  <1>d. /\ vault' \in Vaults
        /\ Published(p, e) = vault'
        /\ vault'[name[p]] = e
        /\ \A q \in Providers : q # name[p] => vault'[q] = vault[q]
        /\ \A r \in Callers : r # p => pc[r] \notin Locked
    BY <1>a, <1>b, <1>c, PublishedEntry
  <1>1. TypeOK' BY <1>a, <1>b, <1>d, Blanks, Operands, VaultAssumption DEF RecordFailure, Leave, Goto, world, IInv, TypeOK, LockInv, GoalInv, KnownPairs, EntryInv
  <1>2. LockInv' BY <1>a, <1>b, <1>d, Blanks, Operands, VaultAssumption DEF RecordFailure, Leave, Goto, world, IInv, TypeOK, LockInv, GoalInv
  <1>3. GoalInv' BY <1>a, <1>b, <1>d, Blanks, Operands, VaultAssumption DEF RecordFailure, Leave, Goto, world, IInv, TypeOK, LockInv, GoalInv
  <1>4. KnownPairs' BY <1>a, <1>b, <1>d, Blanks, Operands, VaultAssumption DEF RecordFailure, Leave, Goto, world, IInv, TypeOK, KnownPairs, EntryInv
  <1>5. CopyIsCurrent' BY <1>a, <1>b, <1>d, Blanks, Operands, VaultAssumption DEF RecordFailure, Leave, Goto, world, IInv, TypeOK, LockInv, CopyIsCurrent
  <1>6. EntryInv' BY <1>a, <1>b, <1>d, Blanks, Operands, VaultAssumption DEF RecordFailure, Leave, Goto, world, IInv, TypeOK, LockInv, GoalInv, CopyIsCurrent, EntryInv
  <1>7. CarriedInv' BY <1>a, <1>b, <1>d, Blanks, Operands, VaultAssumption DEF RecordFailure, Leave, Goto, world, IInv, TypeOK, LockInv, GoalInv, KnownPairs, EntryInv, CarriedInv, Carried
  <1>8. OwnPairsApart' BY <1>a, <1>b, <1>d, Blanks, Operands, VaultAssumption DEF RecordFailure, Leave, Goto, world, IInv, TypeOK, KnownPairs, EntryInv, CarriedInv, Carried, OwnPairsApart
  <1>9. OwnChains' BY <1>a, <1>b, <1>d, Blanks, Operands, VaultAssumption DEF RecordFailure, Leave, Goto, world, IInv, TypeOK, KnownPairs, EntryInv, OwnChains, Siblings
  <1>10. SpentIsMarked' BY <1>a, <1>b, <1>d, Blanks, Operands, VaultAssumption DEF RecordFailure, Leave, Goto, world, IInv, TypeOK, KnownPairs, EntryInv, CarriedInv, Carried, OwnPairsApart, SpentIsMarked
  <1>11. SingleUse' BY <1>a, <1>b, <1>d, Blanks, Operands, VaultAssumption DEF RecordFailure, Leave, Goto, world, IInv, TypeOK, LockInv, KnownPairs, EntryInv, CarriedInv, Carried, SpentIsMarked, SingleUse
  <1> QED BY <1>1, <1>2, <1>3, <1>4, <1>5, <1>6, <1>7, <1>8, <1>9, <1>10, <1>11 DEF IInv

(* A call begins: what it was called with is carried, and nothing else changes. *)
LEMMA ResolveInv ==
  ASSUME ~ReadFaults, IInv, NEW p \in Callers, NEW q \in Providers, Resolve(p, q)
  PROVE  IInv'
  <1> USE Blanks, VaultAssumption DEF Resolve, Begin, Goto, machine, world, Saving, Locked, Places, Goals
  <1>1. TypeOK' BY DEF IInv, TypeOK, LockInv, GoalInv, KnownPairs, EntryInv
  <1>2. LockInv' BY DEF IInv, TypeOK, LockInv, GoalInv
  <1>3. GoalInv' BY DEF IInv, TypeOK, LockInv, GoalInv
  <1>4. KnownPairs' BY DEF IInv, TypeOK, KnownPairs, EntryInv
  <1>5. CopyIsCurrent' BY DEF IInv, TypeOK, LockInv, CopyIsCurrent
  <1>6. EntryInv' BY DEF IInv, TypeOK, LockInv, GoalInv, CopyIsCurrent, EntryInv
  <1>7. CarriedInv' BY DEF IInv, TypeOK, LockInv, GoalInv, KnownPairs, EntryInv, CarriedInv, Carried
  <1>8. OwnPairsApart' BY DEF IInv, TypeOK, KnownPairs, EntryInv, CarriedInv, Carried, OwnPairsApart
  <1>9. OwnChains' BY DEF IInv, TypeOK, KnownPairs, EntryInv, OwnChains, Siblings
  <1>10. SpentIsMarked' BY DEF IInv, TypeOK, KnownPairs, EntryInv, CarriedInv, Carried, OwnPairsApart, SpentIsMarked
  <1>11. SingleUse' BY DEF IInv, TypeOK, LockInv, KnownPairs, EntryInv, CarriedInv, Carried, SpentIsMarked, SingleUse
  <1> QED BY <1>1, <1>2, <1>3, <1>4, <1>5, <1>6, <1>7, <1>8, <1>9, <1>10, <1>11 DEF IInv

(* A login carries a pair minted just now. *)
LEMMA LoginInv ==
  ASSUME ~ReadFaults, IInv, NEW p \in Callers, NEW q \in Providers,
         NEW e \in Endpoints \cup {NoEndpoint}, Login(p, q, e)
  PROVE  IInv'
  <1> USE VaultAssumption, Operands DEF Login, Begin, Goto, machine, Saving, Locked, Places, Goals
  <1>a. minted + 1 \in 1 .. minted' /\ (minted + 1 \notin ours \/ (minted + 1 = minted + 1))
    BY DEF IInv, TypeOK, KnownPairs, Siblings
  <1>b. /\ Incoming(minted + 1, e) \in Entries
        /\ entry' \in [Callers -> Entries]
        /\ entry'[p].pair = minted + 1
        /\ \A r \in Callers : r # p => entry'[r] = entry[r]
    <2>1. minted + 1 \in Nat
      BY <1>a DEF IInv, TypeOK
    <2>2. Incoming(minted + 1, e) \in Entries /\ Incoming(minted + 1, e).pair = minted + 1
      BY <2>1 DEF Incoming, NoEntry, Entries, Results
    <2> QED BY <2>2 DEF IInv, TypeOK
  <1>1. TypeOK' BY <1>a, <1>b DEF IInv, TypeOK, LockInv, GoalInv, KnownPairs, EntryInv
  <1>2. LockInv' BY <1>a, <1>b DEF IInv, TypeOK, LockInv, GoalInv
  <1>3. GoalInv' BY <1>a, <1>b DEF IInv, TypeOK, LockInv, GoalInv
  <1>4. KnownPairs' BY <1>a, <1>b DEF IInv, TypeOK, KnownPairs, EntryInv
  <1>5. CopyIsCurrent' BY <1>a, <1>b DEF IInv, TypeOK, LockInv, CopyIsCurrent
  <1>6. EntryInv' BY <1>a, <1>b DEF IInv, TypeOK, LockInv, GoalInv, CopyIsCurrent, EntryInv
  <1>7. CarriedInv' BY <1>a, <1>b DEF IInv, TypeOK, LockInv, GoalInv, KnownPairs, EntryInv, CarriedInv, Carried
  <1>8. OwnPairsApart' BY <1>a, <1>b DEF IInv, TypeOK, KnownPairs, EntryInv, CarriedInv, Carried, OwnPairsApart
  <1>9. OwnChains' BY <1>a, <1>b DEF IInv, TypeOK, KnownPairs, EntryInv, OwnChains, Siblings
  <1>10. SpentIsMarked' BY <1>a, <1>b DEF IInv, TypeOK, KnownPairs, EntryInv, CarriedInv, Carried, OwnPairsApart, SpentIsMarked
  <1>11. SingleUse' BY <1>a, <1>b DEF IInv, TypeOK, LockInv, KnownPairs, EntryInv, CarriedInv, Carried, SpentIsMarked, SingleUse
  <1> QED BY <1>1, <1>2, <1>3, <1>4, <1>5, <1>6, <1>7, <1>8, <1>9, <1>10, <1>11 DEF IInv

(* An import carries the sibling's pair, which is not ours. *)
LEMMA ImportInv ==
  ASSUME ~ReadFaults, IInv, NEW p \in Callers, NEW q \in Providers,
         NEW e \in Endpoints \cup {NoEndpoint}, ImportSibling(p, q, e)
  PROVE  IInv'
  <1> USE VaultAssumption, Operands DEF ImportSibling, Begin, Goto, machine, world, Saving, Locked, Places, Goals
  <1>a. sibling[q] \in 1 .. minted' /\ (sibling[q] \notin ours \/ (sibling[q] = minted + 1))
    BY DEF IInv, TypeOK, KnownPairs, Siblings
  <1>b. /\ Incoming(sibling[q], e) \in Entries
        /\ entry' \in [Callers -> Entries]
        /\ entry'[p].pair = sibling[q]
        /\ \A r \in Callers : r # p => entry'[r] = entry[r]
    <2>1. sibling[q] \in Nat
      BY <1>a DEF IInv, TypeOK
    <2>2. Incoming(sibling[q], e) \in Entries /\ Incoming(sibling[q], e).pair = sibling[q]
      BY <2>1 DEF Incoming, NoEntry, Entries, Results
    <2> QED BY <2>2 DEF IInv, TypeOK
  <1>1. TypeOK' BY <1>a, <1>b DEF IInv, TypeOK, LockInv, GoalInv, KnownPairs, EntryInv
  <1>2. LockInv' BY <1>a, <1>b DEF IInv, TypeOK, LockInv, GoalInv
  <1>3. GoalInv' BY <1>a, <1>b DEF IInv, TypeOK, LockInv, GoalInv
  <1>4. KnownPairs' BY <1>a, <1>b DEF IInv, TypeOK, KnownPairs, EntryInv
  <1>5. CopyIsCurrent' BY <1>a, <1>b DEF IInv, TypeOK, LockInv, CopyIsCurrent
  <1>6. EntryInv' BY <1>a, <1>b DEF IInv, TypeOK, LockInv, GoalInv, CopyIsCurrent, EntryInv
  <1>7. CarriedInv' BY <1>a, <1>b DEF IInv, TypeOK, LockInv, GoalInv, KnownPairs, EntryInv, CarriedInv, Carried
  <1>8. OwnPairsApart' BY <1>a, <1>b DEF IInv, TypeOK, KnownPairs, EntryInv, CarriedInv, Carried, OwnPairsApart
  <1>9. OwnChains' BY <1>a, <1>b DEF IInv, TypeOK, KnownPairs, EntryInv, OwnChains, Siblings
  <1>10. SpentIsMarked' BY <1>a, <1>b DEF IInv, TypeOK, KnownPairs, EntryInv, CarriedInv, Carried, OwnPairsApart, SpentIsMarked
  <1>11. SingleUse' BY <1>a, <1>b DEF IInv, TypeOK, LockInv, KnownPairs, EntryInv, CarriedInv, Carried, SpentIsMarked, SingleUse
  <1> QED BY <1>1, <1>2, <1>3, <1>4, <1>5, <1>6, <1>7, <1>8, <1>9, <1>10, <1>11 DEF IInv

(* So does an adoption. *)
LEMMA AdoptCallInv ==
  ASSUME ~ReadFaults, IInv, NEW p \in Callers, NEW q \in Providers,
         NEW e \in Endpoints \cup {NoEndpoint}, AdoptSibling(p, q, e)
  PROVE  IInv'
  <1> USE VaultAssumption, Operands DEF AdoptSibling, Begin, Goto, machine, world, Saving, Locked, Places, Goals
  <1>a. sibling[q] \in 1 .. minted' /\ (sibling[q] \notin ours \/ (sibling[q] = minted + 1))
    BY DEF IInv, TypeOK, KnownPairs, Siblings
  <1>b. /\ Incoming(sibling[q], e) \in Entries
        /\ entry' \in [Callers -> Entries]
        /\ entry'[p].pair = sibling[q]
        /\ \A r \in Callers : r # p => entry'[r] = entry[r]
    <2>1. sibling[q] \in Nat
      BY <1>a DEF IInv, TypeOK
    <2>2. Incoming(sibling[q], e) \in Entries /\ Incoming(sibling[q], e).pair = sibling[q]
      BY <2>1 DEF Incoming, NoEntry, Entries, Results
    <2> QED BY <2>2 DEF IInv, TypeOK
  <1>1. TypeOK' BY <1>a, <1>b DEF IInv, TypeOK, LockInv, GoalInv, KnownPairs, EntryInv
  <1>2. LockInv' BY <1>a, <1>b DEF IInv, TypeOK, LockInv, GoalInv
  <1>3. GoalInv' BY <1>a, <1>b DEF IInv, TypeOK, LockInv, GoalInv
  <1>4. KnownPairs' BY <1>a, <1>b DEF IInv, TypeOK, KnownPairs, EntryInv
  <1>5. CopyIsCurrent' BY <1>a, <1>b DEF IInv, TypeOK, LockInv, CopyIsCurrent
  <1>6. EntryInv' BY <1>a, <1>b DEF IInv, TypeOK, LockInv, GoalInv, CopyIsCurrent, EntryInv
  <1>7. CarriedInv' BY <1>a, <1>b DEF IInv, TypeOK, LockInv, GoalInv, KnownPairs, EntryInv, CarriedInv, Carried
  <1>8. OwnPairsApart' BY <1>a, <1>b DEF IInv, TypeOK, KnownPairs, EntryInv, CarriedInv, Carried, OwnPairsApart
  <1>9. OwnChains' BY <1>a, <1>b DEF IInv, TypeOK, KnownPairs, EntryInv, OwnChains, Siblings
  <1>10. SpentIsMarked' BY <1>a, <1>b DEF IInv, TypeOK, KnownPairs, EntryInv, CarriedInv, Carried, OwnPairsApart, SpentIsMarked
  <1>11. SingleUse' BY <1>a, <1>b DEF IInv, TypeOK, LockInv, KnownPairs, EntryInv, CarriedInv, Carried, SpentIsMarked, SingleUse
  <1> QED BY <1>1, <1>2, <1>3, <1>4, <1>5, <1>6, <1>7, <1>8, <1>9, <1>10, <1>11 DEF IInv

(* Time and the sibling CLI touch neither the vault nor the callers. *)
LEMMA AgeInv ==
  ASSUME ~ReadFaults, IInv, NEW n \in Pairs, Age(n)
  PROVE  IInv'
  <1> USE VaultAssumption DEF Age, machine, callers, Saving, Locked, Places, Goals
  <1>1. TypeOK' BY DEF IInv, TypeOK, LockInv, GoalInv, KnownPairs, EntryInv
  <1>2. LockInv' BY DEF IInv, TypeOK, LockInv, GoalInv
  <1>3. GoalInv' BY DEF IInv, TypeOK, LockInv, GoalInv
  <1>4. KnownPairs' BY DEF IInv, TypeOK, KnownPairs, EntryInv
  <1>5. CopyIsCurrent' BY DEF IInv, TypeOK, LockInv, CopyIsCurrent
  <1>6. EntryInv' BY DEF IInv, TypeOK, LockInv, GoalInv, CopyIsCurrent, EntryInv
  <1>7. CarriedInv' BY DEF IInv, TypeOK, LockInv, GoalInv, KnownPairs, EntryInv, CarriedInv, Carried
  <1>8. OwnPairsApart' BY DEF IInv, TypeOK, KnownPairs, EntryInv, CarriedInv, Carried, OwnPairsApart
  <1>9. OwnChains' BY DEF IInv, TypeOK, KnownPairs, EntryInv, OwnChains, Siblings
  <1>10. SpentIsMarked' BY DEF IInv, TypeOK, KnownPairs, EntryInv, CarriedInv, Carried, OwnPairsApart, SpentIsMarked
  <1>11. SingleUse' BY DEF IInv, TypeOK, LockInv, KnownPairs, EntryInv, CarriedInv, Carried, SpentIsMarked, SingleUse
  <1> QED BY <1>1, <1>2, <1>3, <1>4, <1>5, <1>6, <1>7, <1>8, <1>9, <1>10, <1>11 DEF IInv

(* A pair the sibling mints is not ours. *)
LEMMA SiblingInv ==
  ASSUME ~ReadFaults, IInv, NEW q \in Siblings, SiblingMint(q)
  PROVE  IInv'
  <1> USE VaultAssumption DEF SiblingMint, machine, callers, Saving, Locked, Places, Goals
  <1>a. /\ minted + 1 \in 1 .. minted'
        /\ sibling[q] # 0 => sibling[q] \in 1 .. minted
        /\ minted' \in 0 .. MaxPairs
    BY DEF IInv, TypeOK
  <1>1. TypeOK'
    <2>1. minted' \in 0 .. MaxPairs /\ minted' = minted + 1
      BY DEF IInv, TypeOK
    <2>2. \A i : /\ i \in 1 .. minted => i \in 1 .. minted'
                 /\ i \in 0 .. minted => i \in 0 .. minted'
                 /\ minted + 1 \in 1 .. minted'
                 /\ minted + 1 \in 0 .. minted'
      BY <2>1 DEF IInv, TypeOK
    <2>3. /\ ours' \subseteq 1 .. minted' /\ dead' \subseteq 1 .. minted'
          /\ presented' \subseteq 1 .. minted' /\ aged' \subseteq 1 .. minted'
      BY <1>a, <2>2 DEF IInv, TypeOK
    <2>4. sibling' \in [Siblings -> 0 .. minted'] /\ reply' \in [Callers -> 0 .. minted']
      BY <2>2 DEF IInv, TypeOK
    <2> QED BY <2>1, <2>3, <2>4 DEF IInv, TypeOK
  <1>2. LockInv' BY <1>a DEF IInv, TypeOK, LockInv, GoalInv
  <1>3. GoalInv' BY <1>a DEF IInv, TypeOK, LockInv, GoalInv
  <1>4. KnownPairs' BY <1>a DEF IInv, TypeOK, KnownPairs, EntryInv
  <1>5. CopyIsCurrent' BY <1>a DEF IInv, TypeOK, LockInv, CopyIsCurrent
  <1>6. EntryInv' BY <1>a DEF IInv, TypeOK, LockInv, GoalInv, CopyIsCurrent, EntryInv
  <1>7. CarriedInv' BY <1>a DEF IInv, TypeOK, LockInv, GoalInv, KnownPairs, EntryInv, CarriedInv, Carried
  <1>8. OwnPairsApart' BY <1>a DEF IInv, TypeOK, KnownPairs, EntryInv, CarriedInv, Carried, OwnPairsApart
  <1>9. OwnChains' BY <1>a DEF IInv, TypeOK, KnownPairs, EntryInv, OwnChains, Siblings
  <1>10. SpentIsMarked' BY <1>a DEF IInv, TypeOK, KnownPairs, EntryInv, CarriedInv, Carried, OwnPairsApart, SpentIsMarked
  <1>11. SingleUse' BY <1>a DEF IInv, TypeOK, LockInv, KnownPairs, EntryInv, CarriedInv, Carried, SpentIsMarked, SingleUse
  <1> QED BY <1>1, <1>2, <1>3, <1>4, <1>5, <1>6, <1>7, <1>8, <1>9, <1>10, <1>11 DEF IInv

(* A step that changes nothing keeps the invariant. *)
LEMMA StutterInv ==
  ASSUME IInv, UNCHANGED vars
  PROVE  IInv'
  <1> USE DEF vars, machine, world, callers, Saving, Locked, Places, Goals
  <1>1. TypeOK' BY DEF IInv, TypeOK, LockInv, GoalInv, KnownPairs, EntryInv
  <1>2. LockInv' BY DEF IInv, TypeOK, LockInv, GoalInv
  <1>3. GoalInv' BY DEF IInv, TypeOK, LockInv, GoalInv
  <1>4. KnownPairs' BY DEF IInv, TypeOK, KnownPairs, EntryInv
  <1>5. CopyIsCurrent' BY DEF IInv, TypeOK, LockInv, CopyIsCurrent
  <1>6. EntryInv' BY DEF IInv, TypeOK, LockInv, GoalInv, CopyIsCurrent, EntryInv
  <1>7. CarriedInv' BY DEF IInv, TypeOK, LockInv, GoalInv, KnownPairs, EntryInv, CarriedInv, Carried
  <1>8. OwnPairsApart' BY DEF IInv, TypeOK, KnownPairs, EntryInv, CarriedInv, Carried, OwnPairsApart
  <1>9. OwnChains' BY DEF IInv, TypeOK, KnownPairs, EntryInv, OwnChains, Siblings
  <1>10. SpentIsMarked' BY DEF IInv, TypeOK, KnownPairs, EntryInv, CarriedInv, Carried, OwnPairsApart, SpentIsMarked
  <1>11. SingleUse' BY DEF IInv, TypeOK, LockInv, KnownPairs, EntryInv, CarriedInv, Carried, SpentIsMarked, SingleUse
  <1> QED BY <1>1, <1>2, <1>3, <1>4, <1>5, <1>6, <1>7, <1>8, <1>9, <1>10, <1>11 DEF IInv

-----------------------------------------------------------------------------
(* The invariant is inductive *)

(* A caller's step, or the failure of one. *)
LEMMA StepInv ==
  ASSUME ~ReadFaults, IInv, NEW p \in Callers, Step(p) \/ WriteFails(p) \/ Crash(p)
  PROVE  IInv'
  <1>1. CASE \/ FindNoGrant(p) \/ TurnAway(p) \/ ServeUnlocked(p) \/ LockTimeout(p)
             \/ FindMarker(p) \/ ReuseRefresh(p) \/ NetworkFailure(p)
             \/ WriteFails(p) \/ Crash(p)
    BY <1>1, LeaveInv
    DEF FindNoGrant, TurnAway, ServeUnlocked, ReadVault, LockTimeout, FindMarker, ReuseRefresh,
        NetworkFailure, WriteFails, Crash
  <1>2. CASE NoticeStale(p) BY <1>2, NoticeStaleInv
  <1>3. CASE AcquireLock(p) BY <1>3, AcquireInv
  <1>4. CASE Load(p) BY <1>4, LoadInv
  <1>5. CASE StoreGrant(p)
    <2>1. goal[p] = "save" \/ goal[p] = "adopt" BY <1>5 DEF StoreGrant
    <2> QED BY <1>5, <2>1, SaveInv, AdoptInv
  <1>6. CASE RefuseTarget(p)
    <2>1. CASE Leave(p) BY <1>6, <2>1, LeaveInv DEF RefuseTarget
    <2>2. CASE ~Leave(p) BY <1>6, <2>2, RefuseInv DEF RefuseTarget, machine
    <2> QED BY <2>1, <2>2
  <1>7. CASE BeginRefresh(p) BY <1>7, BeginRefreshInv
  <1>8. CASE WriteMarker(p) BY <1>8, WriteMarkerInv
  <1>9. CASE PostAccepted(p) BY <1>9, AcceptedInv
  <1>10. CASE PostRefused(p) BY <1>10, RefusedInv
  <1>11. CASE FinishRefresh(p) BY <1>11, FinishInv
  <1>12. CASE FailRefresh(p) BY <1>12, FailInv
  <1>13. CASE CommitRefresh(p) BY <1>13, CommitInv
  <1>14. CASE RecordFailure(p) BY <1>14, RecordInv
  <1> QED BY <1>1, <1>2, <1>3, <1>4, <1>5, <1>6, <1>7, <1>8, <1>9, <1>10, <1>11, <1>12,
             <1>13, <1>14 DEF Step

(* Every step of the specification keeps the invariant. *)
LEMMA NextInv ==
  ASSUME ~ReadFaults, IInv, [Next]_vars
  PROVE  IInv'
  <1>1. CASE \E p \in Callers : Call(p)
    BY <1>1, ResolveInv, LoginInv, ImportInv, AdoptCallInv DEF Call
  <1>2. CASE \E p \in Callers : Step(p) \/ WriteFails(p) \/ Crash(p) BY <1>2, StepInv
  <1>3. CASE Environment BY <1>3, AgeInv, SiblingInv DEF Environment
  <1>4. CASE UNCHANGED vars BY <1>4, StutterInv
  <1> QED BY <1>1, <1>2, <1>3, <1>4 DEF Next

(* The lock, the copies and the chains stay as IInv says, however callers, *)
(* crashes, failures, the clock and the sibling CLI interleave.            *)
THEOREM Invariance ==
  ASSUME ~ReadFaults
  PROVE  Spec => []IInv
  <1>1. IInv /\ [Next]_vars => IInv' BY NextInv
  <1> QED BY InitInv, <1>1, PTL DEF Spec

(* Every variable keeps its type; no pair is used that was never minted. *)
THEOREM TypeCorrect ==
  ASSUME ~ReadFaults
  PROVE  Spec => []TypeOK
  <1>1. IInv => TypeOK BY DEF IInv
  <1> QED BY Invariance, <1>1, PTL

(* R5: no refresh token minted for this gateway is sent twice, for any number *)
(* of concurrent callers and any length of a chain (resolve_bearer).          *)
THEOREM RefreshTokenSingleUse ==
  ASSUME ~ReadFaults
  PROVE  Spec => []SingleUse
  <1>1. IInv => SingleUse BY DEF IInv
  <1> QED BY Invariance, <1>1, PTL

(* R6: a pair of ours that was sent is never on disk without its marker, so a *)
(* crash at any point of a refresh can be told from no refresh at all.        *)
THEOREM SpentPairMarked ==
  ASSUME ~ReadFaults
  PROVE  Spec => []SpentIsMarked
  <1>1. IInv => SpentIsMarked BY DEF IInv
  <1> QED BY Invariance, <1>1, PTL

(* KTD2: a writer past its load holds the file as it is on disk. *)
THEOREM WriterCopyCurrent ==
  ASSUME ~ReadFaults
  PROVE  Spec => []CopyIsCurrent
  <1>1. IInv => CopyIsCurrent BY DEF IInv
  <1> QED BY Invariance, <1>1, PTL

-----------------------------------------------------------------------------
(* What a step does to the file *)

(* A step that neither publishes nor sends. *)
Quiet == UNCHANGED <<vault, presented>>

(* Only four steps write the file, and only the two answers of the exchange *)
(* send a refresh token.                                                    *)
LEMMA Movers ==
  ASSUME [Next]_vars
  PROVE  \/ Quiet
         \/ \E p \in Callers : \/ StoreGrant(p) \/ WriteMarker(p) \/ CommitRefresh(p)
                               \/ RecordFailure(p) \/ PostAccepted(p) \/ PostRefused(p)
  <1> USE DEF Quiet, machine, world
  <1>1. ASSUME NEW p \in Callers, Call(p) PROVE Quiet
    BY <1>1 DEF Call, Resolve, Login, ImportSibling, AdoptSibling, Begin
  <1>2. ASSUME NEW p \in Callers,
               \/ FindNoGrant(p) \/ TurnAway(p) \/ ServeUnlocked(p) \/ NoticeStale(p)
               \/ AcquireLock(p) \/ LockTimeout(p) \/ Load(p) \/ FindMarker(p)
               \/ ReuseRefresh(p) \/ RefuseTarget(p) \/ BeginRefresh(p)
               \/ NetworkFailure(p) \/ FinishRefresh(p) \/ FailRefresh(p)
               \/ WriteFails(p) \/ Crash(p)
        PROVE  Quiet
    BY <1>2 DEF FindNoGrant, TurnAway, ServeUnlocked, NoticeStale, ReadVault, AcquireLock,
                LockTimeout, Load, FindMarker, ReuseRefresh, RefuseTarget, BeginRefresh,
                NetworkFailure, FinishRefresh, FailRefresh, WriteFails, Crash
  <1>3. CASE Environment BY <1>3 DEF Environment, Age, SiblingMint
  <1>4. CASE UNCHANGED vars BY <1>4 DEF vars
  <1> QED BY <1>1, <1>2, <1>3, <1>4 DEF Next, Step

(* StoreGrant leaves a grant: the pair the caller was given, without a marker. *)
LEMMA Stored ==
  ASSUME IInv, NEW p \in Callers, StoreGrant(p)
  PROVE  /\ vault' \in Vaults
         /\ vault'[name[p]].pair = entry[p].pair /\ ~vault'[name[p]].marked
         /\ \A q \in Providers : q # name[p] => vault'[q] = vault[q]
         /\ name[p] \in Providers /\ entry[p].pair \in 1 .. minted
         /\ name[p] \notin Siblings => entry[p].pair \in ours \ presented
  <1> DEFINE e == Merge(file[p][name[p]], entry[p])
  <1>1. pc[p] = "store" /\ vault' = Published(p, e) /\ Saving(p)
    BY DEF StoreGrant, Saving
  <1>2. e \in Entries
    BY <1>1, Operands DEF IInv, TypeOK, CopyIsCurrent, Locked, Merge, Entries, Vaults
  <1>3. e.pair = entry[p].pair /\ ~e.marked BY DEF Merge
  <1>4. /\ vault' \in Vaults /\ vault'[name[p]] = e
        /\ \A q \in Providers : q # name[p] => vault'[q] = vault[q]
    BY <1>1, <1>2, PublishedEntry DEF Locked
  <1>5. entry[p].pair \in 1 .. minted
    BY <1>1 DEF IInv, TypeOK, KnownPairs, EntryInv
  <1>6. name[p] \notin Siblings => entry[p].pair \in ours \ presented
    BY <1>1 DEF IInv, OwnChains, CarriedInv, Carried
  <1> QED BY <1>3, <1>4, <1>5, <1>6, Operands

(* The writes of a refresh publish the caller's entry under a grant already there. *)
LEMMA Refreshed ==
  ASSUME IInv, NEW p \in Callers, WriteMarker(p) \/ CommitRefresh(p) \/ RecordFailure(p)
  PROVE  /\ vault' \in Vaults /\ vault'[name[p]] = entry[p]
         /\ \A q \in Providers : q # name[p] => vault'[q] = vault[q]
         /\ name[p] \in Providers /\ entry[p].pair # 0
         /\ presented' = presented
  <1>1. /\ pc[p] \in {"mark", "commit", "record"}
        /\ vault' = Published(p, entry[p])
        /\ presented' = presented
    BY DEF WriteMarker, CommitRefresh, RecordFailure, world
  <1>2. entry[p].pair # 0 BY <1>1 DEF IInv, EntryInv
  <1> QED BY <1>1, <1>2, Operands, PublishedEntry DEF Locked

(* No write of the vault loses a grant or touches the entries of two providers. *)
THEOREM WritesKeepGrants ==
  ASSUME ~ReadFaults
  PROVE  Spec => WritesTouchOneGrant
  <1>1. ASSUME IInv, [Next]_vars
        PROVE  [/\ \A q \in Providers : IsGrant(vault[q]) => IsGrant(vault'[q])
                /\ \A q, r \in Providers :
                      vault'[q] # vault[q] /\ vault'[r] # vault[r] => q = r]_vault
    <2>1. CASE Quiet BY <2>1 DEF Quiet
    <2>2. ASSUME NEW p \in Callers, PostAccepted(p) \/ PostRefused(p)
          PROVE  vault' = vault
      BY <2>2 DEF PostAccepted, PostRefused, machine
    <2>3. ASSUME NEW p \in Callers, StoreGrant(p)
          PROVE  /\ \A q \in Providers : IsGrant(vault[q]) => IsGrant(vault'[q])
                 /\ \A q \in Providers : q # name[p] => vault'[q] = vault[q]
      BY <1>1, <2>3, Stored DEF IsGrant
    <2>4. ASSUME NEW p \in Callers, WriteMarker(p) \/ CommitRefresh(p) \/ RecordFailure(p)
          PROVE  /\ \A q \in Providers : IsGrant(vault[q]) => IsGrant(vault'[q])
                 /\ \A q \in Providers : q # name[p] => vault'[q] = vault[q]
      BY <1>1, <2>4, Refreshed DEF IsGrant
    <2> QED BY <1>1, <2>1, <2>2, <2>3, <2>4, Movers
  <1> QED BY <1>1, Invariance, PTL DEF Spec, WritesTouchOneGrant

-----------------------------------------------------------------------------
(* The vault implements the ledger *)

(* What the ledger sees of a write that replaces one entry. *)
LEMMA Projection ==
  ASSUME vault \in Vaults, vault' \in Vaults, NEW n \in Providers,
         \A q \in Providers : q # n => vault'[q] = vault[q]
  PROVE  /\ [q \in Providers |-> vault'[q].pair] =
              [[q \in Providers |-> vault[q].pair] EXCEPT ![n] = vault'[n].pair]
         /\ [q \in Providers |-> vault'[q].marked] =
              [[q \in Providers |-> vault[q].marked] EXCEPT ![n] = vault'[n].marked]
         /\ vault'[n].marked \in BOOLEAN
         /\ vault'[n].pair = vault[n].pair =>
              [q \in Providers |-> vault'[q].pair] = [q \in Providers |-> vault[q].pair]
         /\ vault'[n].marked = vault[n].marked =>
              [q \in Providers |-> vault'[q].marked] = [q \in Providers |-> vault[q].marked]
  <1>1. \A q \in Providers : vault'[q] \in Entries /\ vault[q] \in Entries BY DEF Vaults
  <1>2. vault'[n].marked \in BOOLEAN BY <1>1 DEF Entries
  <1> QED BY <1>1, <1>2

(* Every step of the vault is a move of the ledger or leaves it alone. *)
LEMMA LedgerStep ==
  ASSUME IInv, [Next]_vars
  PROVE  [Ledger!Next]_(Ledger!ledgerVars)
  <1> USE DEF Ledger!ledgerVars, Quiet
  <1>1. CASE Quiet BY <1>1
  <1>2. ASSUME NEW p \in Callers, StoreGrant(p)
        PROVE  Ledger!Store(name[p], entry[p].pair) /\ entry[p].pair \in Pairs
    <2>1. presented' = presented BY <1>2 DEF StoreGrant, world
    <2>2. entry[p].pair \in Pairs
      BY <1>2, Stored, VaultAssumption DEF IInv, TypeOK, Pairs
    <2>3. vault'[name[p]].marked = FALSE
      BY <1>2, Stored DEF Vaults, Entries
    <2> QED BY <1>2, <2>1, <2>2, <2>3, Stored, Projection DEF Ledger!Store, IInv, TypeOK
  <1>3. ASSUME NEW p \in Callers, WriteMarker(p)
        PROVE  Ledger!Intend(name[p])
    <2>1. /\ entry[p].pair = vault[name[p]].pair /\ vault[name[p]].pair # 0
          /\ entry[p].marked /\ ~vault[name[p]].marked
      BY <1>3 DEF WriteMarker, IInv, EntryInv
    <2>2. vault'[name[p]].marked = TRUE
      BY <1>3, <2>1, Refreshed DEF Vaults, Entries
    <2> QED BY <1>3, <2>1, <2>2, Refreshed, Projection, Operands DEF Ledger!Intend, IInv, TypeOK
  <1>4. ASSUME NEW p \in Callers, PostAccepted(p) \/ PostRefused(p)
        PROVE  Ledger!Present(name[p])
    <2>1. /\ pc[p] = "post" /\ vault' = vault
          /\ presented' = presented \cup {entry[p].pair}
      BY <1>4 DEF PostAccepted, PostRefused, machine
    <2>2. /\ entry[p] = vault[name[p]] /\ vault[name[p]].marked
          /\ name[p] \notin Siblings => entry[p].pair \notin presented
      BY <2>1, Operands DEF IInv, EntryInv, OwnChains, SingleUse
    <2> QED BY <2>1, <2>2, Operands DEF Ledger!Present
  <1>5. ASSUME NEW p \in Callers, CommitRefresh(p)
        PROVE  Ledger!Renew(name[p], entry[p].pair) /\ entry[p].pair \in Pairs
    <2>1. /\ entry[p].pair = reply[p] /\ reply[p] \in ours
          /\ ~entry[p].marked /\ vault[name[p]].marked
          /\ ~Saving(p)
      BY <1>5 DEF CommitRefresh, IInv, EntryInv, GoalInv
    <2>2. entry[p].pair \notin presented
      BY <2>1 DEF IInv, CarriedInv, Carried
    <2>3. entry[p].pair \in Pairs
      BY <2>1, VaultAssumption DEF IInv, TypeOK, Pairs
    <2> QED BY <1>5, <2>1, <2>2, <2>3, Refreshed, Projection DEF Ledger!Renew, IInv, TypeOK
  <1>6. ASSUME NEW p \in Callers, RecordFailure(p)
        PROVE  UNCHANGED Ledger!ledgerVars
    <2>1. /\ entry[p].pair = vault[name[p]].pair
          /\ entry[p].marked = vault[name[p]].marked
      BY <1>6 DEF RecordFailure, IInv, EntryInv
    <2> QED BY <1>6, <2>1, Refreshed, Projection DEF IInv, TypeOK
  <1>7. ASSUME NEW p \in Callers,
               \/ StoreGrant(p) \/ WriteMarker(p) \/ CommitRefresh(p) \/ RecordFailure(p)
               \/ PostAccepted(p) \/ PostRefused(p)
        PROVE  Ledger!Next \/ UNCHANGED Ledger!ledgerVars
    <2>1. name[p] \in Providers BY Operands
    <2>2. CASE StoreGrant(p) BY <1>2, <2>1, <2>2 DEF Ledger!Next, Ledger!Store
    <2>3. CASE WriteMarker(p) BY <1>3, <2>1, <2>3 DEF Ledger!Next, Ledger!Intend
    <2>4. CASE PostAccepted(p) \/ PostRefused(p) BY <1>4, <2>1, <2>4 DEF Ledger!Next
    <2>5. CASE CommitRefresh(p) BY <1>5, <2>1, <2>5 DEF Ledger!Next, Ledger!Renew
    <2>6. CASE RecordFailure(p) BY <1>6, <2>6
    <2> QED BY <1>7, <2>2, <2>3, <2>4, <2>5, <2>6
  <1> QED BY <1>1, <1>7, Movers

(* The vault, with its file, lock, callers and crashes, does nothing a ledger *)
(* of one single-use chain per provider could not do.                         *)
THEOREM VaultImplementsLedger ==
  ASSUME ~ReadFaults
  PROVE  Spec => LedgerSpec
  <1>1. Init => Ledger!Init BY DEF Init, Ledger!Init, EmptyVault, NoEntry
  <1>2. IInv /\ [Next]_vars => [Ledger!Next]_(Ledger!ledgerVars) BY LedgerStep
  <1> QED BY <1>1, <1>2, Invariance, PTL DEF Spec, LedgerSpec, Ledger!Spec
=============================================================================
