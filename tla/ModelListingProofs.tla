------------------------- MODULE ModelListingProofs -------------------------
(* Proofs about ModelListing, for any listings, providers, rows and edits: types,
   warnings that go with their catalogs, and listings that work on the file as
   it is.  The last rests on what the digest of the last load tells: if it is
   that of a table, the table in memory is that one.  *)
EXTENDS ModelListing, TLAPS

(* The table in memory is the one the digest is of. *)
DigestTells(c) == c.digest \in Tables => c.providers = c.digest

Configs == [mtime : Nat, fsMtime : 0 .. MaxStamp, digest : Bytes,
            providers : Tables]

Files == [stamp : 1 .. MaxStamp, bytes : Bytes]

LEMMA NotTables == /\ Missing \notin Tables
                   /\ Unreadable \notin Tables
                   /\ Garbled \notin Tables
  BY ListingAssumption DEF Tables

(* A reload keeps the types and what the digest tells, and leaves the table of *)
(* a file that holds one.                                                      *)
LEMMA ReloadedTable ==
    ASSUME NEW c \in Configs, DigestTells(c), file \in Files
    PROVE  /\ Reloaded(c) \in Configs
           /\ DigestTells(Reloaded(c))
           /\ file.bytes \in Tables => Reloaded(c).providers = file.bytes
  <1> DEFINE emptied == [c EXCEPT !.providers = NoRows, !.fsMtime = 0,
                                  !.digest = Missing]
             loaded  == [Stamped(c) EXCEPT !.providers = file.bytes]
  <1>0. /\ c.mtime \in Nat /\ c.fsMtime \in 0 .. MaxStamp /\ c.digest \in Bytes
        /\ c.providers \in Tables
        /\ file.stamp \in 1 .. MaxStamp /\ file.bytes \in Bytes
        /\ MaxStamp \in Nat
    BY ListingAssumption DEF Configs, Files
  <1>1. emptied \in Configs /\ DigestTells(emptied)
    <2>1. NoRows \in Tables /\ Missing \in Bytes /\ 0 \in 0 .. MaxStamp
      BY <1>0 DEF NoRows, Tables, Bytes
    <2>2. emptied \in Configs /\ emptied.digest = Missing
      BY <2>1 DEF Configs
    <2> QED BY <2>2, NotTables DEF DigestTells
  <1>2. /\ Stamped(c) \in Configs /\ Stamped(c).digest = file.bytes
        /\ Stamped(c).providers = c.providers
    <2>1. (IF file.stamp # c.mtime THEN file.stamp ELSE c.mtime + 1) \in Nat
      BY <1>0
    <2>2. file.stamp \in 0 .. MaxStamp
      BY <1>0
    <2> QED BY <1>0, <2>1, <2>2 DEF Stamped, Configs
  <1>3. file.bytes \in Tables
        => /\ loaded \in Configs /\ DigestTells(loaded)
           /\ loaded.providers = file.bytes
    BY <1>2 DEF Configs, DigestTells
  <1> HIDE DEF emptied, loaded
  <1>4. CASE file.bytes \in Tables
    <2>1. Reloaded(c) = IF Seen(c) THEN c ELSE loaded
      <3>1. /\ file.bytes # Missing /\ file.bytes # Unreadable
            /\ file.bytes # Garbled
        BY <1>4, NotTables
      <3> QED BY <3>1 DEF Reloaded, loaded
    <2>2. CASE Seen(c)
      <3>1. c.providers = file.bytes
        BY <1>4, <2>2 DEF Seen, DigestTells
      <3> QED BY <2>1, <2>2, <3>1
    <2>3. CASE ~Seen(c)
      BY <1>3, <1>4, <2>1, <2>3
    <2> QED BY <2>2, <2>3
  <1>5. CASE file.bytes \notin Tables
    <2>1. Reloaded(c) \in {emptied, c, Stamped(c)}
      <3>1. file.bytes \in {Missing, Unreadable, Garbled}
        BY <1>0, <1>5 DEF Bytes
      <3> QED BY <3>1 DEF Reloaded, emptied
    <2>2. DigestTells(Stamped(c))
      BY <1>2, <1>5 DEF DigestTells
    <2> QED BY <1>1, <1>2, <1>5, <2>1, <2>2
  <1> QED BY <1>4, <1>5

-----------------------------------------------------------------------------
IInv == /\ TypeOK /\ WarningMatchesCatalog /\ DigestTells(config)

LEMMA Typed == ASSUME IInv
               PROVE  /\ file \in Files /\ edits \in 0 .. MaxEdits
                      /\ config \in Configs /\ DigestTells(config)
  BY DEF IInv, TypeOK, Files, Configs

LEMMA Starts == Init => IInv
  <1> SUFFICES ASSUME Init PROVE IInv
    OBVIOUS
  <1>1. file \in Files
    <2>1. MaxStamp \in Nat \ {0} /\ 1 \in 1 .. MaxStamp
      BY ListingAssumption
    <2> QED BY <2>1 DEF Init, Files, Bytes
  <1>2. Unopened \in Configs /\ DigestTells(Unopened)
    <2>1. NoRows \in Tables /\ Missing \in Bytes /\ 0 \in 0 .. MaxStamp /\ 0 \in Nat
      BY ListingAssumption DEF NoRows, Tables, Bytes
    <2>2. Unopened \in Configs
      BY <2>1 DEF Unopened, Configs
    <2>3. Unopened.digest = Missing
      BY DEF Unopened
    <2> QED BY <2>2, <2>3, NotTables DEF DigestTells
  <1>3. config \in Configs /\ DigestTells(config)
    BY <1>1, <1>2, ReloadedTable DEF Init
  <1>4. NoCatalog \in Catalogs /\ NoCatalog.kind # "partial"
    BY DEF NoCatalog, Catalogs
  <1>5. catalog \in [Names -> Catalogs] /\ WarningMatchesCatalog
    BY <1>4 DEF Init, WarningMatchesCatalog
  <1>6. NoName \in Names
    BY ListingAssumption DEF NoName
  <1>7. NoRows \in Tables
    BY DEF NoRows, Tables
  <1>8. /\ edits \in 0 .. MaxEdits
        /\ live \subseteq Names /\ warned \subseteq Names /\ cacheMtime \in Nat
        /\ pc \in [Requests -> {"idle", "listing", "fetching"}]
        /\ snap \in [Requests -> Tables]
        /\ todo \in [Requests -> SUBSET Names]
        /\ at \in [Requests -> Names]
    BY <1>6, <1>7, ListingAssumption DEF Init
  <1> QED BY <1>1, <1>3, <1>5, <1>8 DEF IInv, TypeOK, Files, Configs

(* A catalog that is stored sets or clears its warning. *)
LEMMA PutKeeps ==
    ASSUME IInv, NEW q \in Names, NEW row \in Rows \cup {NoRow},
           NEW kind \in {"full", "partial", "failed"}, Put(q, row, kind)
    PROVE  /\ catalog' \in [Names -> Catalogs]
           /\ live' \subseteq Names /\ warned' \subseteq Names
           /\ cacheMtime' \in Nat
           /\ WarningMatchesCatalog'
  <1>1. /\ catalog \in [Names -> Catalogs] /\ live \subseteq Names
        /\ warned \subseteq Names /\ config \in Configs
    BY Typed DEF IInv, TypeOK
  <1>2. [row |-> row, kind |-> kind] \in Catalogs
    BY DEF Catalogs
  <1>3. catalog' \in [Names -> Catalogs]
    BY <1>1, <1>2 DEF Put
  <1>4. live' \subseteq Names /\ warned' \subseteq Names /\ cacheMtime' \in Nat
    BY <1>1 DEF Put, Configs
  <1>5. ASSUME NEW p \in Names
        PROVE  p \in warned' <=> catalog'[p].kind = "partial"
    <2>1. CASE p = q
      BY <1>1, <2>1 DEF Put
    <2>2. CASE p # q
      BY <1>1, <2>2 DEF Put, IInv, WarningMatchesCatalog
    <2> QED BY <2>1, <2>2
  <1> QED BY <1>3, <1>4, <1>5 DEF WarningMatchesCatalog

(* A step that leaves the cache alone. *)
LEMMA CacheUntouched ==
    ASSUME IInv, UNCHANGED cache
    PROVE  /\ catalog' \in [Names -> Catalogs]
           /\ live' \subseteq Names /\ warned' \subseteq Names
           /\ cacheMtime' \in Nat
           /\ WarningMatchesCatalog'
  BY DEF IInv, TypeOK, cache, WarningMatchesCatalog

(* Everything else has its type. *)
HandlersTyped == /\ pc \in [Requests -> {"idle", "listing", "fetching"}]
                 /\ snap \in [Requests -> Tables]
                 /\ todo \in [Requests -> SUBSET Names]
                 /\ at \in [Requests -> Names]

CacheGood == /\ catalog \in [Names -> Catalogs]
             /\ live \subseteq Names /\ warned \subseteq Names
             /\ cacheMtime \in Nat
             /\ WarningMatchesCatalog

ConfigGood == config \in Configs /\ DigestTells(config)

DiskGood == file \in Files /\ edits \in 0 .. MaxEdits

LEMMA Parts == IInv <=> HandlersTyped /\ CacheGood /\ ConfigGood /\ DiskGood
  BY DEF IInv, TypeOK, HandlersTyped, CacheGood, ConfigGood, DiskGood, Configs,
         Files

LEMMA WorkInv == ASSUME IInv, NEW r \in Requests, Work(r)
                 PROVE  IInv'
  <1>0. HandlersTyped /\ CacheGood /\ ConfigGood /\ DiskGood
    BY Parts
  <1>k. ConfigGood' /\ DiskGood'
    <2>1. UNCHANGED <<disk, config>>
      BY DEF Work, ServeCached, ListDeclared, ListByCommand, AskUpstream, Answer,
             Finish
    <2> QED BY <1>0, <2>1 DEF ConfigGood, DiskGood, disk
  <1>t. \A q \in Names : snap[r][q] \in Rows \cup {NoRow}
    BY <1>0 DEF HandlersTyped, Tables
  <1>p. \A q \in Names :
           \A kind \in {"full", "partial", "failed"} :
              Put(q, snap[r][q], kind) => CacheGood'
    BY <1>t, PutKeeps DEF CacheGood
  <1>u. UNCHANGED cache => CacheGood'
    BY CacheUntouched DEF CacheGood
  <1>1. CASE \E q \in Names : ServeCached(r, q)
    <2>1. HandlersTyped'
      BY <1>0, <1>1 DEF ServeCached, Done, HandlersTyped
    <2>2. CacheGood'
      BY <1>1, <1>u DEF ServeCached
    <2> QED BY <1>k, <2>1, <2>2, Parts, PTL
  <1>2. CASE \E q \in Names : ListDeclared(r, q)
    <2>1. HandlersTyped'
      BY <1>0, <1>2 DEF ListDeclared, Done, HandlersTyped
    <2>2. CacheGood'
      BY <1>2, <1>p DEF ListDeclared
    <2> QED BY <1>k, <2>1, <2>2, Parts, PTL
  <1>3. CASE \E q \in Names : ListByCommand(r, q)
    <2>1. HandlersTyped'
      BY <1>0, <1>3 DEF ListByCommand, Done, HandlersTyped
    <2>2. CacheGood'
      BY <1>3, <1>p DEF ListByCommand
    <2> QED BY <1>k, <2>1, <2>2, Parts, PTL
  <1>4. CASE \E q \in Names : AskUpstream(r, q)
    <2>1. HandlersTyped'
      BY <1>0, <1>4 DEF AskUpstream, Goto, HandlersTyped
    <2>2. CacheGood'
      BY <1>4, <1>u DEF AskUpstream
    <2> QED BY <1>k, <2>1, <2>2, Parts, PTL
  <1>5. CASE Answer(r)
    <2>1. HandlersTyped'
      BY <1>0, <1>5 DEF Answer, Goto, Done, HandlersTyped
    <2>2. at[r] \in Names
      BY <1>0 DEF HandlersTyped
    <2>3. CacheGood'
      BY <1>5, <1>p, <1>u, <2>2 DEF Answer, CacheAnswer
    <2> QED BY <1>k, <2>1, <2>3, Parts, PTL
  <1>6. CASE Finish(r)
    <2>1. NoName \in Names /\ NoRows \in Tables
      BY ListingAssumption DEF NoName, NoRows, Tables
    <2>2. HandlersTyped'
      BY <1>0, <1>6, <2>1 DEF Finish, Goto, HandlersTyped
    <2>3. CacheGood'
      BY <1>6, <1>u DEF Finish
    <2> QED BY <1>k, <2>2, <2>3, Parts, PTL
  <1> QED BY <1>1, <1>2, <1>3, <1>4, <1>5, <1>6 DEF Work

LEMMA AccessGood == ASSUME IInv, Access
                    PROVE  ConfigGood'
  <1>1. Reloaded(config) \in Configs /\ DigestTells(Reloaded(config))
    BY Typed, ReloadedTable
  <1> QED BY <1>1 DEF Access, ConfigGood

LEMMA NextInv == IInv /\ [Next]_vars => IInv'
  <1> SUFFICES ASSUME IInv, [Next]_vars PROVE IInv'
    OBVIOUS
  <1>0. HandlersTyped /\ CacheGood /\ ConfigGood /\ DiskGood
    BY Parts
  <1>u. UNCHANGED cache => CacheGood'
    BY CacheUntouched DEF CacheGood
  <1>1. ASSUME NEW r \in Requests, NEW only \in {{}} \cup {{q} : q \in Names},
               Start(r, only)
        PROVE  IInv'
    <2>1. ConfigGood' /\ CacheGood' /\ DiskGood'
      BY <1>0, <1>1, <1>u, AccessGood DEF Start, DiskGood, disk
    <2>2. config'.providers \in Tables
      BY <2>1 DEF ConfigGood, Configs
    <2>3. Known(config'.providers) \subseteq Names /\ only \subseteq Names
      BY <1>1 DEF Known
    <2>4. HandlersTyped'
      BY <1>0, <1>1, <2>2, <2>3 DEF Start, Goto, HandlersTyped
    <2> QED BY <2>1, <2>4, Parts, PTL
  <1>2. CASE Consult
    <2>1. ConfigGood' /\ CacheGood' /\ DiskGood'
      BY <1>0, <1>2, <1>u, AccessGood DEF Consult, DiskGood, disk
    <2>2. HandlersTyped'
      BY <1>0, <1>2 DEF Consult, HandlersTyped, requests
    <2> QED BY <2>1, <2>2, Parts, PTL
  <1>3. ASSUME NEW bytes \in Bytes, NEW stamp \in file.stamp .. MaxStamp,
               Edit(bytes, stamp)
        PROVE  IInv'
    <2>1. stamp \in 1 .. MaxStamp
      BY <1>0, <1>3, ListingAssumption DEF DiskGood, Files
    <2>2. edits' \in 0 .. MaxEdits
      BY <1>0, <1>3, ListingAssumption DEF DiskGood, Edit
    <2>3. DiskGood'
      BY <1>3, <2>1, <2>2 DEF DiskGood, Files, Edit
    <2>4. HandlersTyped' /\ ConfigGood' /\ CacheGood'
      BY <1>0, <1>3, <1>u DEF Edit, HandlersTyped, ConfigGood, requests
    <2> QED BY <2>3, <2>4, Parts, PTL
  <1>4. ASSUME NEW q \in Names, Expire(q)
        PROVE  IInv'
    <2>1. DiskGood' /\ HandlersTyped' /\ ConfigGood'
      BY <1>0, <1>4 DEF Expire, DiskGood, HandlersTyped, ConfigGood, disk, requests
    <2>2. CacheGood'
      BY <1>0, <1>4 DEF Expire, CacheGood, WarningMatchesCatalog
    <2> QED BY <2>1, <2>2, Parts, PTL
  <1>5. CASE UNCHANGED vars
    <2>1. DiskGood' /\ HandlersTyped' /\ ConfigGood' /\ CacheGood'
      BY <1>0, <1>5, <1>u
      DEF vars, DiskGood, HandlersTyped, ConfigGood, disk, requests
    <2> QED BY <2>1, Parts, PTL
  <1> QED BY <1>1, <1>2, <1>3, <1>4, <1>5, WorkInv DEF Next

LEMMA Invariance == Spec => []IInv
  BY Starts, NextInv, PTL DEF Spec

(* The variables have their types. *)
THEOREM TypeCorrect == Spec => []TypeOK
  <1>1. IInv => TypeOK
    BY DEF IInv
  <1> QED BY <1>1, Invariance, PTL

(* A cached catalog is marked as incomplete exactly while it is, however        *)
(* listings overlap (models.py:66-70).                                          *)
THEOREM WarningsGoWithCatalogs == Spec => []WarningMatchesCatalog
  <1>1. IInv => WarningMatchesCatalog
    BY DEF IInv
  <1> QED BY <1>1, Invariance, PTL

(* A listing that begins while the file holds a table works on that table: the *)
(* stamp may stand still or come back, the digest tells (config.py:223-241).   *)
THEOREM ListingsSeeTheFile == Spec => ListingSeesFile
  <1> DEFINE Sees == \A r \in Requests :
                pc[r] = "idle" /\ pc'[r] = "listing" /\ file.bytes \in Tables
                => snap'[r] = file.bytes
  <1>1. ASSUME IInv, Next, NEW r \in Requests,
               pc[r] = "idle", pc'[r] = "listing", file.bytes \in Tables
        PROVE  snap'[r] = file.bytes
    <2>0. HandlersTyped
      BY <1>1, Parts
    <2>1. ASSUME NEW s \in Requests, NEW only, Start(s, only)
          PROVE  snap'[r] = file.bytes
      <3>1. s = r
        BY <1>1, <2>0, <2>1 DEF Start, Goto, HandlersTyped
      <3>2. snap'[r] = config'.providers
        BY <2>0, <2>1, <3>1 DEF Start, HandlersTyped
      <3>3. config' = Reloaded(config)
        BY <2>1 DEF Start, Access
      <3> QED BY <1>1, <3>2, <3>3, Typed, ReloadedTable
    <2>2. ASSUME NEW s \in Requests, Work(s)
          PROVE  FALSE
      <3>1. pc[s] # "idle"
        BY <2>2 DEF Work, ServeCached, ListDeclared, ListByCommand, AskUpstream,
                    Turn, Answer, Finish
      <3>2. s # r
        BY <1>1, <3>1
      <3>3. pc'[r] = pc[r]
        BY <2>0, <2>2, <3>2
        DEF Work, ServeCached, ListDeclared, ListByCommand, AskUpstream, Answer,
            Finish, Goto, HandlersTyped
      <3> QED BY <1>1, <3>3
    <2>3. CASE Consult \/ (\E bytes \in Bytes :
                              \E stamp \in file.stamp .. MaxStamp :
                                 Edit(bytes, stamp))
                       \/ \E q \in Names : Expire(q)
      BY <1>1, <2>3 DEF Consult, Edit, Expire, requests
    <2> QED BY <1>1, <2>1, <2>2, <2>3 DEF Next
  <1>2. IInv /\ [Next]_vars => [Sees]_vars
    BY <1>1
  <1> QED BY <1>2, Invariance, PTL DEF Spec, ListingSeesFile
=============================================================================
