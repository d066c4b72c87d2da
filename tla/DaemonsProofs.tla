---------------------------- MODULE DaemonsProofs ----------------------------
(***************************************************************************)
(* Proofs about Daemons, for any commands and processes.                   *)
(*                                                                         *)
(* A pid file names the service in the background because only commands   *)
(* write or forget the files of the gateway and the dashboard, and a       *)
(* command that is alone looks at the file before it starts a service.     *)
(* Where a command stands therefore says which service may run: none of    *)
(* its kind between the look and the start, and its own child until the    *)
(* file is written.  That a gateway writes the file of the sidecar at the  *)
(* same time does not matter to the others.  A dashboard that looks at a   *)
(* file does matter: it may delete what has been written there since, and  *)
(* LooksAreCurrent says that nothing has.                                  *)
(***************************************************************************)
EXTENDS Daemons, TLAPS

Hosted == {"gateway", "dashboard"}     \* what a command starts in the background

(* Where commands and processes may stand; a process is gone iff it runs nothing. *)
Places ==
    /\ \A c \in Commands : pc[c] \in {"idle"} \cup StartPlaces \cup SidecarPlaces \cup StopPlaces
    /\ \A p \in Pids : pc[p] \in ProcessPlaces \cup SidecarPlaces \cup {"stopSidecar", "waitSidecar"}
    /\ \A p \in Pids : pc[p] = "off" <=> role[p] = "none"

(* A process just started is not reaped by anybody but the one that started it. *)
Children ==
    /\ \A c \in Commands : pc[c] \in {"write", "poll"} =>
          child[c] \in Pids /\ role[child[c]] = Service(c) /\ parent[child[c]] = c
    /\ \A a \in Actors : pc[a] \in {"scWrite", "scPoll"} =>
          child[a] \in Pids /\ role[child[a]] = "sidecar" /\ parent[child[a]] = a

InBack == \A p \in inBack : role[p] \in Hosted

Doomed(p) == ~Live(p) \/ signal[p] = "kill"

(* A file is deleted on behalf of a process that is gone or being killed. *)
LooksOK == \A a \in Actors : /\ look[a] = "none" => target[a] = NoPid
                             /\ look[a] = "drop" => Doomed(target[a])

(* TypeOK but for the files. *)
TablesOK ==
    /\ port \in [Services -> Pids \cup {NoPid}]
    /\ role \in [Pids -> Services \cup {"none"}]
    /\ parent \in [Pids -> Actors \cup {NoOne}]
    /\ inBack \subseteq Pids
    /\ signal \in [Pids -> {"none", "term", "kill"}]
    /\ pc \in [Actors -> {"idle"} \cup StartPlaces \cup SidecarPlaces \cup StopPlaces \cup ProcessPlaces]
    /\ goal \in [Commands -> Goals]
    /\ child \in [Actors -> Pids \cup {NoPid}]
    /\ look \in [Actors -> Looks]
    /\ target \in [Actors -> Pids \cup {NoPid}]

FilesOK == file \in [Services -> Pids \cup {NoPid}]

Tables == TablesOK /\ Places /\ Children /\ InBack /\ LooksOK

Base == FilesOK /\ Tables

(* What runs in the background and is not doomed. *)
Runs(p) == p \in inBack /\ Live(p) /\ signal[p] # "kill"

(* A step of a leaves the other commands alone and no service starts in it. *)
Others(a) == \A c \in Commands \ {a} :
    pc'[c] = pc[c] /\ goal'[c] = goal[c] /\ child'[c] = child[c]

(* It leaves the looks of the others alone, and what they have read stays doomed. *)
OthersLook(a) == \A b \in Actors \ {a} :
    look'[b] = look[b] /\ target'[b] = target[b] /\ (Doomed(target[b]) => Doomed(target[b])')

NoneStarts == \A p \in Pids : Runs(p)' => Runs(p) /\ role'[p] = role[p]

Moves(a) == Tables' /\ Others(a) /\ NoneStarts

LEMMA Kinds ==
    /\ \A c \in Commands : c \notin Pids /\ c \in Actors /\ c # NoPid
    /\ \A p \in Pids : p \notin Commands /\ p \in Actors /\ p # NoPid
    /\ \A a \in Actors : a # NoOne /\ (a \in Commands \/ a \in Pids)
    /\ NoPid \notin Pids
    BY DaemonsAssumption DEF Actors, NoOne

(* The look of the one that makes the step is over, or it has just seen what it read gone. *)
LEMMA LooksStay ==
    ASSUME Tables, NEW a \in Actors, OthersLook(a),
           look'[a] = "none" => target'[a] = NoPid, look'[a] = "drop" => Doomed(target[a])'
    PROVE  LooksOK'
  <1> SUFFICES ASSUME NEW b \in Actors
               PROVE  /\ look'[b] = "none" => target'[b] = NoPid
                      /\ look'[b] = "drop" => Doomed(target[b])'
    BY DEF LooksOK, Doomed, Live, Exists
  <1>1. CASE b = a
    BY <1>1
  <1>2. CASE b # a
    <2>1. look'[b] = look[b] /\ target'[b] = target[b] /\ (Doomed(target[b]) => Doomed(target[b])')
      BY <1>2 DEF OthersLook
    <2> QED BY <2>1 DEF Tables, LooksOK, Doomed, Live, Exists
  <1> QED BY <1>1, <1>2

-----------------------------------------------------------------------------
(* What a step may do to the tables *)

(* An actor goes on, and nothing else happens to processes. *)
LEMMA GotoTables ==
    ASSUME Tables, NEW a \in Actors, NEW place, Goto(a, place),
           a \in Commands => place \in ({"idle"} \cup StartPlaces \cup SidecarPlaces \cup StopPlaces)
                                           \ {"write", "scWrite"},
           a \in Pids => place \in {"boot", "bind", "check", "serving", "stopSidecar", "waitSidecar",
                                    "scProbe", "scPort", "scSpawn", "scPoll"} /\ pc[a] # "off",
           place = "poll" => pc[a] = "write",
           place = "scPoll" => pc[a] = "scWrite",
           UNCHANGED <<role, parent, inBack>>,
           port' \in [Services -> Pids \cup {NoPid}],
           signal' \in [Pids -> {"none", "term", "kill"}],
           goal' = [goal EXCEPT ![a] = goal'[a]], a \in Commands => goal'[a] \in Goals,
           place = "poll" => goal' = goal,
           target' \in [Actors -> Pids \cup {NoPid}], target' = [target EXCEPT ![a] = target'[a]],
           look' \in [Actors -> Looks], look' = [look EXCEPT ![a] = look'[a]],
           look'[a] = "none" => target'[a] = NoPid, look'[a] = "drop" => Doomed(target[a])',
           child' \in {child, [child EXCEPT ![a] = NoPid]},
           place \in {"poll", "scPoll"} => child' = child,
           a \in Pids => pc[a] # "zombie",
           \A p \in Pids : signal'[p] # "kill" => signal[p] # "kill"
    PROVE  Moves(a)
  <1>1. /\ \A b \in Actors : pc'[b] = IF b = a THEN place ELSE pc[b]
        /\ pc' \in [Actors -> {"idle"} \cup StartPlaces \cup SidecarPlaces \cup StopPlaces \cup ProcessPlaces]
    <2>1. place \in {"idle"} \cup StartPlaces \cup SidecarPlaces \cup StopPlaces \cup ProcessPlaces
      BY Kinds DEF SidecarPlaces, StopPlaces, ProcessPlaces
    <2> QED BY <2>1 DEF Goto, Tables, TablesOK
  <1>2. goal' \in [Commands -> Goals] /\ \A c \in Commands : c # a => goal'[c] = goal[c]
    BY DEF Tables, TablesOK
  <1>3. child' \in [Actors -> Pids \cup {NoPid}] /\ \A b \in Actors : b # a => child'[b] = child[b]
    BY DEF Tables, TablesOK
  <1>4. TablesOK'
    BY <1>1, <1>2, <1>3 DEF Tables, TablesOK
  <1>5. Places'
    <2>1. ASSUME NEW c \in Commands
          PROVE  pc'[c] \in {"idle"} \cup StartPlaces \cup SidecarPlaces \cup StopPlaces
      BY <1>1, Kinds DEF Tables, Places
    <2>2. ASSUME NEW p \in Pids
          PROVE  /\ pc'[p] \in ProcessPlaces \cup SidecarPlaces \cup {"stopSidecar", "waitSidecar"}
                 /\ pc'[p] = "off" <=> role[p] = "none"
      BY <1>1, Kinds DEF Tables, Places, ProcessPlaces, SidecarPlaces
    <2> QED BY <2>1, <2>2 DEF Places
  <1>6. Children'
    <2>1. ASSUME NEW c \in Commands, pc'[c] \in {"write", "poll"}
          PROVE  child'[c] \in Pids /\ role[child'[c]] = Service(c)' /\ parent[child'[c]] = c
      <3>1. pc[c] \in {"write", "poll"} /\ child'[c] = child[c] /\ goal'[c] = goal[c]
        BY <2>1, <1>1, <1>2, <1>3, Kinds
      <3> QED BY <3>1 DEF Tables, Children, Service
    <2>2. ASSUME NEW b \in Actors, pc'[b] \in {"scWrite", "scPoll"}
          PROVE  child'[b] \in Pids /\ role[child'[b]] = "sidecar" /\ parent[child'[b]] = b
      <3>1. pc[b] \in {"scWrite", "scPoll"} /\ child'[b] = child[b]
        BY <2>2, <1>1, <1>3, Kinds
      <3> QED BY <3>1 DEF Tables, Children
    <2> QED BY <2>1, <2>2 DEF Children
  <1>7. InBack'
    BY DEF Tables, InBack
  <1>8. Others(a)
    BY <1>1, <1>2, <1>3, Kinds DEF Others, Tables, TablesOK
  <1>9. NoneStarts
    BY <1>1, Kinds DEF NoneStarts, Runs, Live, Exists
  <1>10. LooksOK'
    <2>1. ASSUME NEW p \in Pids \cup {NoPid}, Doomed(p) PROVE Doomed(p)'
      BY <2>1, <1>1, Kinds DEF Doomed, Live, Exists
    <2>2. ASSUME NEW b \in Actors \ {a}
          PROVE  look'[b] = look[b] /\ target'[b] = target[b] /\ (Doomed(target[b]) => Doomed(target[b])')
      <3>1. look'[b] = look[b] /\ target'[b] = target[b] /\ target[b] \in Pids \cup {NoPid}
        BY DEF Tables, TablesOK
      <3> QED BY <2>1, <3>1
    <2> QED BY <2>2, LooksStay DEF OthersLook
  <1> QED BY <1>4, <1>5, <1>6, <1>7, <1>8, <1>9, <1>10 DEF Tables, Moves

(* An actor ends. *)
LEMMA EndTables ==
    ASSUME Tables, NEW a \in Actors, End(a), a \in Pids => pc[a] # "off"
    PROVE  Moves(a) /\ (a \in Commands => pc'[a] = "idle")
  <1>0. /\ Reaped(a) \subseteq Pids
        /\ \A z \in Reaped(a) : parent[z] = a \/ (z = a /\ parent[z] = NoOne)
    BY DEF Reaped
  <1>1. /\ \A b \in Actors : pc'[b] = IF b \in Reaped(a) THEN "off"
                                      ELSE IF b # a THEN pc[b]
                                      ELSE IF a \in Commands THEN "idle" ELSE "zombie"
        /\ pc' \in [Actors -> {"idle"} \cup StartPlaces \cup SidecarPlaces \cup StopPlaces \cup ProcessPlaces]
    BY DEF End, Tables, TablesOK, ProcessPlaces
  <1>2. /\ role' \in [Pids -> Services \cup {"none"}]
        /\ \A p \in Pids : role'[p] = IF p \in Reaped(a) THEN "none" ELSE role[p]
    BY DEF End, Tables, TablesOK
  <1>3. /\ parent' \in [Pids -> Actors \cup {NoOne}]
        /\ \A p \in Pids : parent'[p] = IF p \in Reaped(a) \/ parent[p] = a THEN NoOne ELSE parent[p]
    BY DEF End, Tables, TablesOK
  <1>4. /\ child' \in [Actors -> Pids \cup {NoPid}]
        /\ \A b \in Actors : b # a => child'[b] = child[b]
    BY DEF End, Tables, TablesOK
  <1>5. /\ goal' \in [Commands -> Goals]
        /\ \A c \in Commands : c # a => goal'[c] = goal[c]
    BY DEF End, Tables, TablesOK, Goals
  <1>6. TablesOK'
    <2>1. port' \in [Services -> Pids \cup {NoPid}] /\ inBack' \subseteq Pids
      BY DEF End, Tables, TablesOK
    <2>2. signal' \in [Pids -> {"none", "term", "kill"}] /\ target' \in [Actors -> Pids \cup {NoPid}]
          /\ look' \in [Actors -> Looks]
      BY DEF End, LookAway, Looks, Tables, TablesOK
    <2> QED BY <1>1, <1>2, <1>3, <1>4, <1>5, <2>1, <2>2 DEF TablesOK
  <1>7. Places'
    <2>1. ASSUME NEW c \in Commands
          PROVE  pc'[c] \in {"idle"} \cup StartPlaces \cup SidecarPlaces \cup StopPlaces
      BY <1>0, <1>1, Kinds DEF Tables, Places
    <2>2. ASSUME NEW p \in Pids
          PROVE  /\ pc'[p] \in ProcessPlaces \cup SidecarPlaces \cup {"stopSidecar", "waitSidecar"}
                 /\ pc'[p] = "off" <=> role'[p] = "none"
      BY <1>0, <1>1, <1>2, Kinds DEF Tables, Places, ProcessPlaces, SidecarPlaces
    <2> QED BY <2>1, <2>2 DEF Places
  <1>8. Children'
    <2>1. ASSUME NEW b \in Actors, b # a, NEW p \in Pids, parent[p] = b
          PROVE  role'[p] = role[p] /\ parent'[p] = b
      BY <1>0, <1>2, <1>3, <2>1, Kinds
    <2>2. ASSUME NEW c \in Commands, pc'[c] \in {"write", "poll"}
          PROVE  child'[c] \in Pids /\ role'[child'[c]] = Service(c)' /\ parent'[child'[c]] = c
      <3>1. c # a /\ pc[c] \in {"write", "poll"}
        BY <1>0, <1>1, <2>2, Kinds
      <3>2. child'[c] = child[c] /\ goal'[c] = goal[c]
        BY <3>1, <1>4, <1>5, Kinds
      <3> QED BY <2>1, <3>1, <3>2, Kinds DEF Tables, Children, Service
    <2>3. ASSUME NEW b \in Actors, pc'[b] \in {"scWrite", "scPoll"}
          PROVE  child'[b] \in Pids /\ role'[child'[b]] = "sidecar" /\ parent'[child'[b]] = b
      <3>1. b # a /\ pc[b] \in {"scWrite", "scPoll"}
        BY <1>0, <1>1, <2>3, Kinds
      <3> QED BY <2>1, <3>1, <1>4 DEF Tables, Children
    <2> QED BY <2>2, <2>3 DEF Children
  <1>9. InBack'
    BY <1>2 DEF End, Tables, TablesOK, InBack
  <1>10. Others(a)
    BY <1>0, <1>1, <1>4, <1>5, Kinds DEF Others
  <1>11. NoneStarts
    <2> SUFFICES ASSUME NEW p \in Pids, Runs(p)' PROVE Runs(p) /\ role'[p] = role[p]
      BY DEF NoneStarts
    <2>1. p \in inBack /\ pc'[p] # "zombie" /\ role'[p] # "none" /\ signal'[p] # "kill"
      BY DEF Runs, Live, Exists, End
    <2>2. p \notin Reaped(a) /\ p # a
      BY <2>1, <1>1, <1>2, Kinds
    <2>3. pc'[p] = pc[p] /\ role'[p] = role[p] /\ signal'[p] = signal[p]
      BY <2>2, <1>1, <1>2, Kinds DEF End
    <2> QED BY <2>1, <2>3 DEF Runs, Live, Exists
  <1>12. a \in Commands => pc'[a] = "idle"
    BY <1>0, <1>1, Kinds
  <1>13. LooksOK'
    <2>1. ASSUME NEW p \in Pids \cup {NoPid}, Doomed(p) PROVE Doomed(p)'
      <3>1. CASE p = NoPid
        BY <3>1, Kinds DEF Doomed, Live, Exists
      <3>2. CASE p \in Reaped(a) \/ p = a
        <4>1. p \in Reaped(a) => role'[p] = "none"
          BY <1>0, <1>2
        <4>2. p = a /\ p \notin Reaped(a) /\ p \in Pids => pc'[p] = "zombie"
          BY <1>1, Kinds
        <4> QED BY <3>2, <4>1, <4>2 DEF Doomed, Live, Exists
      <3>3. CASE p \in Pids /\ p \notin Reaped(a) /\ p # a
        <4>1. pc'[p] = pc[p] /\ role'[p] = role[p] /\ signal'[p] = signal[p]
          BY <3>3, <1>1, <1>2, Kinds DEF End
        <4> QED BY <2>1, <4>1 DEF Doomed, Live, Exists
      <3> QED BY <3>1, <3>2, <3>3
    <2>2. ASSUME NEW b \in Actors \ {a}
          PROVE  look'[b] = look[b] /\ target'[b] = target[b] /\ (Doomed(target[b]) => Doomed(target[b])')
      <3>1. look'[b] = look[b] /\ target'[b] = target[b] /\ target[b] \in Pids \cup {NoPid}
        BY DEF End, LookAway, Tables, TablesOK
      <3> QED BY <2>1, <3>1
    <2>3. look'[a] = "none" /\ target'[a] = NoPid
      BY DEF End, LookAway, Tables, TablesOK
    <2> QED BY <2>2, <2>3, LooksStay DEF OthersLook
  <1> QED BY <1>6, <1>7, <1>8, <1>9, <1>10, <1>11, <1>12, <1>13 DEF Tables, Moves

(* A process is started, by an actor that has it as its child or in a terminal. *)
LEMMA SpawnTables ==
    ASSUME Tables, NEW a \in Actors, NEW p \in Pids, NEW s \in Services, NEW place,
           Spawn(a, p, s, place), UNCHANGED <<port, signal, goal, look, target>>,
           \/ a \in Commands /\ s = Service(a) /\ place = "write" /\ inBack' = inBack \cup {p}
           \/ s = "sidecar" /\ place = "scWrite" /\ inBack' = inBack /\ (a \in Pids => pc[a] = "scSpawn")
    PROVE  /\ Tables' /\ Others(a) /\ p \notin inBack
           /\ pc'[a] = place /\ child'[a] = p /\ role' = [role EXCEPT ![p] = s]
           /\ \A q \in Pids : Runs(q)' => q = p \/ (Runs(q) /\ role'[q] = role[q])
  <1>0. /\ role[p] = "none" /\ pc[p] = "off" /\ a # p
        /\ \A b \in Actors : child[b] # p /\ target[b] # p
    <2>1. role[p] = "none" /\ \A b \in Actors : child[b] # p /\ target[b] # p
      BY DEF Spawn, FreePid, Exists, Services
    <2>2. pc[p] = "off"
      BY <2>1 DEF Tables, Places
    <2>3. a # p
      BY <2>2, Kinds
    <2> QED BY <2>1, <2>2, <2>3
  <1>1. /\ \A b \in Actors : pc'[b] = IF b = p THEN (IF s = "sidecar" THEN "bind" ELSE "boot")
                                      ELSE IF b = a THEN place ELSE pc[b]
        /\ pc' \in [Actors -> {"idle"} \cup StartPlaces \cup SidecarPlaces \cup StopPlaces \cup ProcessPlaces]
    BY Kinds DEF Spawn, Tables, TablesOK, StartPlaces, SidecarPlaces, ProcessPlaces
  <1>2. /\ role' \in [Pids -> Services \cup {"none"}]
        /\ \A q \in Pids : role'[q] = IF q = p THEN s ELSE role[q]
    BY DEF Spawn, Tables, TablesOK
  <1>3. /\ parent' \in [Pids -> Actors \cup {NoOne}]
        /\ \A q \in Pids : parent'[q] = IF q = p THEN a ELSE parent[q]
    BY DEF Spawn, Tables, TablesOK
  <1>4. /\ child' \in [Actors -> Pids \cup {NoPid}]
        /\ \A b \in Actors : child'[b] = IF b = a THEN p ELSE child[b]
    BY DEF Spawn, Tables, TablesOK
  <1>5. TablesOK'
    BY <1>1, <1>2, <1>3, <1>4 DEF Tables, TablesOK
  <1>6. Places'
    <2>1. ASSUME NEW c \in Commands
          PROVE  pc'[c] \in {"idle"} \cup StartPlaces \cup SidecarPlaces \cup StopPlaces
      BY <1>1, Kinds DEF Tables, Places, StartPlaces, SidecarPlaces
    <2>2. ASSUME NEW q \in Pids
          PROVE  /\ pc'[q] \in ProcessPlaces \cup SidecarPlaces \cup {"stopSidecar", "waitSidecar"}
                 /\ pc'[q] = "off" <=> role'[q] = "none"
      BY <1>1, <1>2, Kinds DEF Tables, Places, ProcessPlaces, SidecarPlaces, Services
    <2> QED BY <2>1, <2>2 DEF Places
  <1>7. Children'
    <2>1. ASSUME NEW c \in Commands, pc'[c] \in {"write", "poll"}
          PROVE  child'[c] \in Pids /\ role'[child'[c]] = Service(c)' /\ parent'[child'[c]] = c
      <3>1. Service(c)' = Service(c)
        BY DEF Service
      <3>2. CASE c = a
        BY <2>1, <3>1, <3>2, <1>0, <1>1, <1>2, <1>3, <1>4, Kinds
      <3>3. CASE c # a
        BY <2>1, <3>1, <3>3, <1>0, <1>1, <1>2, <1>3, <1>4, Kinds DEF Tables, Children
      <3> QED BY <3>2, <3>3
    <2>2. ASSUME NEW b \in Actors, pc'[b] \in {"scWrite", "scPoll"}
          PROVE  child'[b] \in Pids /\ role'[child'[b]] = "sidecar" /\ parent'[child'[b]] = b
      <3>1. CASE b = a
        BY <2>2, <3>1, <1>0, <1>1, <1>2, <1>3, <1>4
      <3>2. CASE b # a
        BY <2>2, <3>2, <1>0, <1>1, <1>2, <1>3, <1>4, Kinds DEF Tables, Children
      <3> QED BY <3>1, <3>2
    <2> QED BY <2>1, <2>2 DEF Children
  <1>8. InBack'
    BY <1>0, <1>2 DEF Tables, TablesOK, InBack, Service, Hosted
  <1>9. Others(a)
    BY <1>0, <1>1, <1>4, Kinds DEF Others
  <1>10. p \notin inBack
    BY <1>0 DEF Tables, InBack, Hosted
  <1>11. ASSUME NEW q \in Pids, Runs(q)', q # p
         PROVE  Runs(q) /\ role'[q] = role[q]
    <2>1. q # a \/ pc[q] # "zombie"
      BY <1>11, <1>1, Kinds DEF Spawn, Tables, Places
    <2> QED BY <2>1, <1>11, <1>1, <1>2, Kinds DEF Runs, Live, Exists
  <1>12. pc'[a] = place /\ child'[a] = p /\ role' = [role EXCEPT ![p] = s]
    BY <1>0, <1>1, <1>4 DEF Spawn
  <1>13. LooksOK'
    <2>1. ASSUME NEW b \in Actors, Doomed(target[b]) PROVE Doomed(target[b])'
      <3>1. target[b] \in Pids \cup {NoPid} /\ target[b] # p
        BY <1>0 DEF Tables, TablesOK
      <3>2. CASE target[b] = NoPid
        BY <3>2, Kinds DEF Doomed, Live, Exists
      <3>3. CASE target[b] \in Pids
        <4>1. role'[target[b]] = role[target[b]] /\ signal'[target[b]] = signal[target[b]]
          BY <3>1, <3>3, <1>2
        <4>2. pc[target[b]] = "zombie" => pc'[target[b]] = "zombie"
          BY <3>1, <3>3, <1>1, Kinds DEF Tables, Places, StartPlaces, SidecarPlaces, StopPlaces
        <4> QED BY <2>1, <3>3, <4>1, <4>2 DEF Doomed, Live, Exists
      <3> QED BY <3>1, <3>2, <3>3
    <2> QED BY <2>1, LooksStay DEF OthersLook, Tables, LooksOK, Doomed
  <1> QED BY <1>5, <1>6, <1>7, <1>8, <1>9, <1>10, <1>11, <1>12, <1>13 DEF Tables

LEMMA ForegroundTables ==
    ASSUME Tables, NEW p \in Pids, NEW s \in InTerminal, Foreground(p, s)
    PROVE  Moves(p)
  <1>0. /\ role[p] = "none" /\ pc[p] = "off" /\ s \in Hosted
        /\ \A b \in Actors : child[b] # p /\ target[b] # p
    BY DaemonsAssumption DEF Foreground, FreePid, Exists, Services, Tables, Places, Hosted
  <1>1. /\ \A b \in Actors : pc'[b] = IF b = p THEN "boot" ELSE pc[b]
        /\ pc' \in [Actors -> {"idle"} \cup StartPlaces \cup SidecarPlaces \cup StopPlaces \cup ProcessPlaces]
    BY DEF Foreground, Goto, Tables, TablesOK, ProcessPlaces
  <1>2. /\ role' \in [Pids -> Services \cup {"none"}]
        /\ \A q \in Pids : role'[q] = IF q = p THEN s ELSE role[q]
    BY <1>0 DEF Foreground, Tables, TablesOK, Hosted, Services
  <1>3. TablesOK'
    BY <1>1, <1>2 DEF Foreground, Tables, TablesOK
  <1>4. Places'
    <2>1. ASSUME NEW c \in Commands
          PROVE  pc'[c] \in {"idle"} \cup StartPlaces \cup SidecarPlaces \cup StopPlaces
      BY <1>1, Kinds DEF Tables, Places
    <2>2. ASSUME NEW q \in Pids
          PROVE  /\ pc'[q] \in ProcessPlaces \cup SidecarPlaces \cup {"stopSidecar", "waitSidecar"}
                 /\ pc'[q] = "off" <=> role'[q] = "none"
      BY <1>0, <1>1, <1>2, Kinds DEF Tables, Places, ProcessPlaces, Hosted
    <2> QED BY <2>1, <2>2 DEF Places
  <1>5. Children'
    <2>1. \A q \in Pids : q # p => role'[q] = role[q]
      BY <1>2
    <2>2. UNCHANGED <<parent, goal, child>>
      BY DEF Foreground
    <2>3. \A b \in Actors : pc'[b] \in {"write", "poll", "scWrite", "scPoll"} => pc[b] = pc'[b]
      BY <1>1
    <2> QED BY <1>0, <2>1, <2>2, <2>3, Kinds DEF Tables, Children, Service
  <1>6. InBack'
    BY <1>0, <1>2 DEF Foreground, Tables, TablesOK, InBack, Hosted
  <1>7. Others(p)
    BY <1>1, Kinds DEF Foreground, Others
  <1>8. p \notin inBack
    BY <1>0 DEF Tables, InBack, Hosted
  <1>9. NoneStarts
    BY <1>1, <1>2, <1>8, Kinds DEF NoneStarts, Foreground, Runs, Live, Exists
  <1>10. LooksOK'
    <2>1. ASSUME NEW b \in Actors, Doomed(target[b]) PROVE Doomed(target[b])'
      <3>1. target[b] \in Pids \cup {NoPid} /\ target[b] # p
        BY <1>0 DEF Tables, TablesOK
      <3> QED BY <2>1, <3>1, <1>1, <1>2, Kinds DEF Foreground, Doomed, Live, Exists
    <2> QED BY <2>1, Kinds, LooksStay DEF Foreground, OthersLook, Tables, LooksOK, Doomed
  <1> QED BY <1>3, <1>4, <1>5, <1>6, <1>7, <1>9, <1>10 DEF Tables, Moves

(* A gateway reaps the sidecar that has ended at once. *)
LEMMA ReapTables ==
    ASSUME Tables, NEW a \in Pids, pc[a] = "scPoll", ~Live(child[a]), Reap(a)
    PROVE  Moves(a)
  <1> DEFINE z == child[a]
  <1>0. /\ z \in Pids /\ role[z] = "sidecar" /\ parent[z] = a /\ pc[z] = "zombie" /\ z # a /\ a \in Actors
        /\ z \notin inBack
    <2>1. a \in Actors
      BY Kinds
    <2>2. z \in Pids /\ role[z] = "sidecar" /\ parent[z] = a
      BY <2>1 DEF Tables, Children
    <2>3. pc[z] = "zombie"
      BY <2>2 DEF Live, Exists
    <2>4. z \notin inBack
      BY <2>2 DEF Tables, InBack, Hosted
    <2> QED BY <2>1, <2>2, <2>3, <2>4
  <1>1. /\ \A b \in Actors : pc'[b] = IF b = a THEN "bind" ELSE IF b = z THEN "off" ELSE pc[b]
        /\ pc' \in [Actors -> {"idle"} \cup StartPlaces \cup SidecarPlaces \cup StopPlaces \cup ProcessPlaces]
    BY <1>0, Kinds DEF Reap, Tables, TablesOK, ProcessPlaces
  <1>2. /\ role' \in [Pids -> Services \cup {"none"}]
        /\ \A q \in Pids : role'[q] = IF q = z THEN "none" ELSE role[q]
    BY <1>0 DEF Reap, Tables, TablesOK
  <1>3. /\ parent' \in [Pids -> Actors \cup {NoOne}]
        /\ \A q \in Pids : parent'[q] = IF q = z THEN NoOne ELSE parent[q]
    BY <1>0 DEF Reap, Tables, TablesOK
  <1>4. /\ child' \in [Actors -> Pids \cup {NoPid}]
        /\ \A b \in Actors : b # a => child'[b] = child[b]
    BY DEF Reap, Tables, TablesOK
  <1>5. TablesOK'
    BY <1>1, <1>2, <1>3, <1>4 DEF Reap, Tables, TablesOK
  <1>6. Places'
    <2>1. ASSUME NEW c \in Commands
          PROVE  pc'[c] \in {"idle"} \cup StartPlaces \cup SidecarPlaces \cup StopPlaces
      BY <1>0, <1>1, Kinds DEF Tables, Places
    <2>2. ASSUME NEW q \in Pids
          PROVE  /\ pc'[q] \in ProcessPlaces \cup SidecarPlaces \cup {"stopSidecar", "waitSidecar"}
                 /\ pc'[q] = "off" <=> role'[q] = "none"
      BY <1>0, <1>1, <1>2, Kinds DEF Tables, Places, ProcessPlaces
    <2> QED BY <2>1, <2>2 DEF Places
  <1>7. Children'
    <2>1. ASSUME NEW b \in Actors, pc'[b] \in {"write", "poll", "scWrite", "scPoll"}
          PROVE  b # a /\ pc'[b] = pc[b] /\ child'[b] = child[b]
      BY <2>1, <1>1, <1>4
    <2>2. ASSUME NEW b \in Actors, b # a, NEW q \in Pids, parent[q] = b
          PROVE  role'[q] = role[q] /\ parent'[q] = b
      BY <2>2, <1>0, <1>2, <1>3
    <2>3. goal' = goal
      BY DEF Reap
    <2> QED BY <2>1, <2>2, <2>3, Kinds DEF Tables, Children, Service
  <1>8. InBack'
    BY <1>0, <1>2 DEF Reap, Tables, TablesOK, InBack
  <1>9. Others(a)
    BY <1>0, <1>1, <1>4, Kinds DEF Reap, Others
  <1>10. NoneStarts
    BY <1>0, <1>1, <1>2, Kinds DEF NoneStarts, Reap, Runs, Live, Exists
  <1>11. LooksOK'
    <2>1. ASSUME NEW b \in Actors, Doomed(target[b]) PROVE Doomed(target[b])'
      <3>1. target[b] \in Pids \cup {NoPid}
        BY DEF Tables, TablesOK
      <3> QED BY <2>1, <3>1, <1>0, <1>1, <1>2, Kinds DEF Reap, Doomed, Live, Exists
    <2> QED BY <2>1, <1>0, LooksStay DEF Reap, OthersLook, Tables, LooksOK, Doomed
  <1> QED BY <1>5, <1>6, <1>7, <1>8, <1>9, <1>10, <1>11 DEF Tables, Moves

-----------------------------------------------------------------------------
(* The files *)

(* A file is left alone, or forgotten because what it names has ended or is about to. *)
ForgetsTheDead ==
    /\ FilesOK'
    /\ \A s \in Hosted : file'[s] = file[s] \/ (file'[s] = NoPid /\ Doomed(file[s]))

(* At least as long as no file has been written under a look at it. *)
Forgets == FilesOK' /\ (LooksAreCurrent => ForgetsTheDead)

LEMMA SidecarFile ==
    ASSUME FilesOK, NEW p \in Pids \cup {NoPid}, file' = [file EXCEPT !["sidecar"] = p]
    PROVE  Forgets
  BY DEF FilesOK, ForgetsTheDead, Forgets, Hosted, Services

LEMMA SameFile == ASSUME FilesOK, UNCHANGED file PROVE Forgets
  BY DEF FilesOK, ForgetsTheDead, Forgets

LEMMA LookedAtKind == ASSUME NEW a PROVE LookedAt(a) \in Services
  BY DEF LookedAt, Service, Services

(* Whoever deletes a file after a look: it names what was read, or nothing. *)
LEMMA DropForgets ==
    ASSUME Base, NEW a \in Actors, look[a] = "drop", Forget(LookedAt(a))
    PROVE  Forgets /\ file'[LookedAt(a)] = NoPid
  <1>1. /\ \A s \in Services : file'[s] = IF s = LookedAt(a) THEN NoPid ELSE file[s]
        /\ FilesOK'
    BY LookedAtKind DEF Forget, Base, FilesOK
  <1>2. ASSUME LooksAreCurrent, LookedAt(a) \in Hosted PROVE Doomed(file[LookedAt(a)])
    <2>1. file[LookedAt(a)] \in {target[a], NoPid}
      BY <1>2 DEF LooksAreCurrent, Hosted
    <2>2. Doomed(target[a]) /\ Doomed(NoPid)
      BY Kinds DEF Base, Tables, LooksOK, Doomed, Live, Exists
    <2> QED BY <2>1, <2>2
  <1> QED BY <1>1, <1>2, LookedAtKind DEF Forgets, ForgetsTheDead, Hosted, Services

LEMMA FoundNoneForgets ==
    ASSUME Base, NEW a \in Actors, FoundNone(a)
    PROVE  Forgets /\ file'[LookedAt(a)] = NoPid
  BY DropForgets, SameFile DEF FoundNone, NoneThere, Base

-----------------------------------------------------------------------------
(* Where a command stands says which service of its kind may run. *)

SoleOf(c) == \A p \in Pids : Runs(p) /\ role[p] = Service(c) =>
                /\ pc[c] \notin {"port", "spawn"}
                /\ pc[c] \in {"write", "poll"} => p = child[c]

Named(p) == file[role[p]] = p \/ \E c \in Commands : pc[c] = "write" /\ child[c] = p

Tracked ==
    /\ \A c \in Commands : SoleOf(c)
    /\ \A p \in Pids : Runs(p) => Named(p)

IInv == Base /\ Tracked

(* Commands do not overlap. *)
Alone == \A c, d \in Commands : pc[c] # "idle" /\ pc[d] # "idle" => c = d

(* The steps that cannot lose a service: it is not started, and no file is written. *)
QuietAt(a) ==
    a \in Commands =>
        /\ pc[a] # "write"
        /\ \/ pc'[a] \notin {"port", "spawn", "write", "poll"}
           \/ pc'[a] = pc[a] /\ goal'[a] = goal[a] /\ child'[a] = child[a]

Quiet(a) == Moves(a) /\ Forgets /\ QuietAt(a)

LEMMA ServiceKind == ASSUME NEW c PROVE Service(c) \in Services /\ Service(c) \in Hosted
  BY DEF Service, Services, Hosted

LEMMA RunsHosted ==
    ASSUME Base, NEW p \in Pids, Runs(p)
    PROVE  role[p] \in Hosted /\ ~Doomed(p) /\ p # NoPid
  BY Kinds DEF Base, Tables, InBack, Runs, Doomed

(* A service whose file is only left alone or forgotten when dead keeps its name there. *)
LEMMA StaysNamed ==
    ASSUME Base, ForgetsTheDead, NEW p \in Pids, Runs(p), file[role[p]] = p
    PROVE  file'[role[p]] = p
  BY RunsHosted DEF ForgetsTheDead

(* A command that another step leaves alone. *)
LEMMA BystanderSole ==
    ASSUME IInv, NoneStarts, NEW c \in Commands,
           pc'[c] = pc[c], goal'[c] = goal[c], child'[c] = child[c]
    PROVE  SoleOf(c)'
  <1>1. SoleOf(c) /\ Service(c)' = Service(c)
    BY DEF IInv, Tracked, Service
  <1> QED BY <1>1 DEF SoleOf, NoneStarts

LEMMA QuietStep ==
    ASSUME IInv, LooksAreCurrent, NEW a \in Actors, Quiet(a)
    PROVE  IInv'
  <1>0. ForgetsTheDead
    BY DEF Quiet, Forgets
  <1>1. ASSUME NEW c \in Commands PROVE SoleOf(c)'
    <2>1. CASE c # a
      BY <2>1, BystanderSole DEF Quiet, Moves, Others
    <2>2. CASE c = a /\ pc'[a] \notin {"port", "spawn", "write", "poll"}
      BY <2>2 DEF SoleOf
    <2>3. CASE c = a /\ pc'[a] \in {"port", "spawn", "write", "poll"}
      BY <2>3, BystanderSole DEF Quiet, Moves, QuietAt
    <2> QED BY <2>1, <2>2, <2>3
  <1>2. ASSUME NEW p \in Pids, Runs(p)' PROVE Named(p)'
    <2>1. Runs(p) /\ role'[p] = role[p] /\ Named(p)
      BY <1>2 DEF Quiet, Moves, NoneStarts, IInv, Tracked
    <2>2. CASE file[role[p]] = p
      BY <1>0, <2>1, <2>2, StaysNamed DEF IInv, Named
    <2>3. CASE file[role[p]] # p
      <3>1. PICK c \in Commands : pc[c] = "write" /\ child[c] = p
        BY <2>1, <2>3 DEF Named
      <3>2. c # a
        BY <3>1 DEF Quiet, QuietAt
      <3>3. pc'[c] = "write" /\ child'[c] = p
        BY <3>1, <3>2 DEF Quiet, Moves, Others
      <3> QED BY <3>3 DEF Named
    <2> QED BY <2>2, <2>3
  <1>3. Base'
    BY DEF Quiet, Moves, Forgets, Base
  <1> QED BY <1>1, <1>2, <1>3 DEF IInv, Tracked

(* The steps of a command that is alone: the others are idle before and after. *)
LEMMA LoneStep ==
    ASSUME IInv, NEW c \in Commands, Alone, pc[c] # "idle", Tables', FilesOK', Others(c),
           SoleOf(c)', \A p \in Pids : Runs(p)' => Named(p)'
    PROVE  IInv'
  <1>1. ASSUME NEW d \in Commands, d # c PROVE SoleOf(d)'
    <2>1. pc'[d] = "idle"
      BY <1>1 DEF Alone, Others
    <2> QED BY <2>1 DEF SoleOf
  <1> QED BY <1>1 DEF IInv, Tracked, Base

(* While a command that is alone does not write, the files name what runs. *)
LEMMA LoneNamed ==
    ASSUME IInv, Alone, NEW c \in Commands, pc[c] \notin {"idle", "write"}, NEW p \in Pids, Runs(p)
    PROVE  file[role[p]] = p
  <1>1. Named(p)
    BY DEF IInv, Tracked
  <1>2. ASSUME NEW d \in Commands, pc[d] = "write" PROVE FALSE
    BY <1>2 DEF Alone
  <1> QED BY <1>1, <1>2 DEF Named

-----------------------------------------------------------------------------
(* Steps that are quiet *)

LEMMA EndIsQuiet ==
    ASSUME Base, NEW a \in Actors, End(a), Forgets,
           a \in Pids => pc[a] # "off", a \in Commands => pc[a] # "write"
    PROVE  Quiet(a)
  BY EndTables DEF Base, Quiet, QuietAt

(* What GotoTables wants to know of an actor that is done with its look, if it had one. *)
LEMMA LookedAway ==
    ASSUME Base, NEW a \in Actors, LookAway(a)
    PROVE  /\ target' \in [Actors -> Pids \cup {NoPid}] /\ target' = [target EXCEPT ![a] = target'[a]]
           /\ look' \in [Actors -> Looks] /\ look' = [look EXCEPT ![a] = look'[a]]
           /\ look'[a] = "none" /\ target'[a] = NoPid
  BY DEF LookAway, Looks, Base, Tables, TablesOK

(* An actor goes on and changes nothing but its own place. *)
LEMMA MoveOn ==
    ASSUME Base, NEW a \in Actors, NEW place, GoOn(a, place),
           a \in Commands => place \in ({"idle"} \cup StartPlaces \cup SidecarPlaces \cup StopPlaces)
                                           \ {"write", "scWrite"},
           a \in Pids => place \in {"bind", "check", "serving", "stopSidecar", "waitSidecar",
                                    "scProbe", "scPort", "scSpawn", "scPoll"} /\ pc[a] \notin {"off", "zombie"},
           place = "poll" => pc[a] = "write", place = "scPoll" => pc[a] = "scWrite"
    PROVE  Moves(a) /\ pc'[a] = place /\ UNCHANGED <<goal, child>>
  <1>1. /\ UNCHANGED <<role, parent, inBack, port, signal, goal, child>> /\ LookAway(a) /\ Goto(a, place)
        /\ goal' = [goal EXCEPT ![a] = goal'[a]]
        /\ a \in Commands => goal'[a] \in Goals
        /\ port' \in [Services -> Pids \cup {NoPid}] /\ signal' \in [Pids -> {"none", "term", "kill"}]
    BY DEF GoOn, tables, Base, Tables, TablesOK
  <1>2. Moves(a)
    BY <1>1, LookedAway, GotoTables DEF Base
  <1> QED BY <1>1, <1>2 DEF Base, Tables, TablesOK, Goto

(* An actor stays where it is, and looks. *)
LEMMA LookTables ==
    ASSUME Base, NEW a \in Actors, Looking(a) \/ Waiting(a),
           UNCHANGED <<pc, role, parent, inBack, port, goal, child>>,
           signal' \in [Pids -> {"none", "term", "kill"}],
           \A p \in Pids : signal'[p] # "kill" => signal[p] # "kill",
           target' \in [Actors -> Pids \cup {NoPid}], target' = [target EXCEPT ![a] = target'[a]],
           look' \in [Actors -> Looks], look' = [look EXCEPT ![a] = look'[a]],
           look'[a] # "none", look'[a] = "drop" => Doomed(target[a])'
    PROVE  Moves(a) /\ (a \in Commands => pc[a] # "write")
  <1>1. pc[a] \in {"probeGateway", "probe", "scProbe", "check", "boot",
                   "stopSidecar", "stopService", "waitSidecar", "waitService"}
    BY DEF Looking, Waiting, At
  <1>2. /\ a \in Commands => pc[a] \in ({"idle"} \cup StartPlaces \cup SidecarPlaces \cup StopPlaces)
                                           \ {"write", "scWrite"}
        /\ a \in Pids => pc[a] \in {"boot", "check", "scProbe", "stopSidecar", "waitSidecar"}
    <2>1. a \in Commands => pc[a] \in {"idle"} \cup StartPlaces \cup SidecarPlaces \cup StopPlaces
      BY DEF Base, Tables, Places
    <2>2. a \in Pids => pc[a] \in ProcessPlaces \cup SidecarPlaces \cup {"stopSidecar", "waitSidecar"}
      BY DEF Base, Tables, Places
    <2> QED BY <1>1, <2>1, <2>2 DEF ProcessPlaces, SidecarPlaces
  <1>3. /\ Goto(a, pc[a]) /\ goal' = [goal EXCEPT ![a] = goal'[a]]
        /\ a \in Commands => goal'[a] \in Goals
        /\ port' \in [Services -> Pids \cup {NoPid}]
    BY DEF Goto, Base, Tables, TablesOK
  <1>4. Moves(a)
    BY <1>1, <1>2, <1>3, GotoTables DEF Base
  <1> QED BY <1>1, <1>4

LEMMA LookStep == ASSUME Base, NEW a \in Actors, Look(a) PROVE Quiet(a)
  <1>1. /\ Looking(a) \/ Waiting(a)
        /\ UNCHANGED <<file, pc, role, parent, inBack, port, signal, goal, child>>
    BY DEF Look, ReadFile, SeeItGone, tables
  <1>2. /\ target' \in [Actors -> Pids \cup {NoPid}] /\ target' = [target EXCEPT ![a] = target'[a]]
        /\ look' \in [Actors -> Looks] /\ look' = [look EXCEPT ![a] = look'[a]]
        /\ look'[a] # "none" /\ (look'[a] = "drop" => Doomed(target[a])')
    <2>1. CASE ReadFile(a)
      BY <2>1, LookedAtKind DEF ReadFile, Looks, Base, FilesOK, Tables, TablesOK
    <2>2. CASE SeeItGone(a)
      <3>1. ~IsRunning(target[a])
        BY <2>2, Kinds DEF SeeItGone, NoneThere, Base, Tables, LooksOK, IsRunning, Exists
      <3>2. target' = target /\ role' = role /\ look' = [look EXCEPT ![a] = "drop"]
        BY <2>2 DEF SeeItGone, tables
      <3>3. Doomed(target[a])'
        BY <3>1, <3>2 DEF IsRunning, Exists, Doomed, Live
      <3> QED BY <3>2, <3>3 DEF Looks, Base, Tables, TablesOK
    <2> QED BY <2>1, <2>2 DEF Look
  <1>3. signal' \in [Pids -> {"none", "term", "kill"}] /\ \A p \in Pids : signal'[p] = signal[p]
    BY <1>1 DEF Base, Tables, TablesOK
  <1>4. Moves(a) /\ (a \in Commands => pc[a] # "write")
    BY <1>1, <1>2, <1>3, LookTables
  <1> QED BY <1>1, <1>4, SameFile DEF Quiet, QuietAt, Base

LEMMA CallStep ==
    ASSUME Base, NEW c \in Commands, NEW what \in Goals \ {"none"}, Call(c, what)
    PROVE  Quiet(c)
  <1> DEFINE place == CASE what = "start" -> "probe"
                        [] what = "dashStart" -> "probeGateway"
                        [] what = "dashStop" -> "stopService"
                        [] OTHER -> "stopSidecar"
  <1>1. c \in Actors /\ c \notin Pids
    BY Kinds
  <1>2. place \in {"probe", "probeGateway", "stopService", "stopSidecar"}
    OBVIOUS
  <1>3. Goto(c, place) /\ pc[c] = "idle" /\ goal' = [goal EXCEPT ![c] = what]
        /\ UNCHANGED <<file, port, role, parent, inBack, signal, child, look, target>>
    BY DEF Call, tables
  <1> HIDE DEF place
  <1>4. /\ port' \in [Services -> Pids \cup {NoPid}] /\ signal' \in [Pids -> {"none", "term", "kill"}]
        /\ goal' = [goal EXCEPT ![c] = goal'[c]] /\ goal'[c] \in Goals
        /\ target' \in [Actors -> Pids \cup {NoPid}] /\ target' = [target EXCEPT ![c] = target'[c]]
        /\ look' \in [Actors -> Looks] /\ look' = [look EXCEPT ![c] = look'[c]]
        /\ pc'[c] = place
    BY <1>1, <1>3 DEF Base, Tables, TablesOK, Goto
  <1>b. look'[c] = "none" => target'[c] = NoPid
    BY <1>1, <1>3 DEF Base, Tables, LooksOK
  <1>c. look'[c] = "drop" => Doomed(target[c])'
    <2>1. look[c] = "drop" => Doomed(target[c])
      BY <1>1 DEF Base, Tables, LooksOK
    <2>2. target[c] \in Pids => pc'[target[c]] = pc[target[c]]
      BY <1>1, <1>3, Kinds DEF Goto, Base, Tables, TablesOK
    <2> QED BY <1>3, <2>1, <2>2 DEF Doomed, Live, Exists
  <1>5. Moves(c)
    <2>1. place \in ({"idle"} \cup StartPlaces \cup SidecarPlaces \cup StopPlaces) \ {"write", "scWrite"}
          /\ place # "poll" /\ place # "scPoll"
      BY <1>2 DEF StartPlaces, StopPlaces
    <2> QED BY <1>1, <1>3, <1>4, <1>b, <1>c, <2>1, GotoTables DEF Base
  <1>6. Quiet(c)
    BY <1>2, <1>3, <1>4, <1>5, SameFile DEF Quiet, QuietAt, Base
  <1> QED BY <1>1, <1>6

(* start_cursor_sidecar is over. *)
LEMMA AfterSidecarMoves ==
    ASSUME Base, NEW a \in Actors, AfterSidecar(a), Forgets, pc[a] \in SidecarPlaces
    PROVE  Quiet(a)
  <1>1. CASE a \in Commands
    BY <1>1, EndIsQuiet, Kinds DEF AfterSidecar, SidecarPlaces
  <1>2. CASE a \notin Commands
    <2>1. /\ Goto(a, "bind") /\ child' = [child EXCEPT ![a] = NoPid] /\ LookAway(a)
          /\ UNCHANGED <<port, role, parent, inBack, signal, goal>>
      BY <1>2 DEF AfterSidecar, tables
    <2>2. /\ port' \in [Services -> Pids \cup {NoPid}] /\ signal' \in [Pids -> {"none", "term", "kill"}]
          /\ goal' = [goal EXCEPT ![a] = goal'[a]]
      BY <2>1 DEF Base, Tables, TablesOK
    <2>3. Moves(a)
      BY <1>2, <2>1, <2>2, LookedAway, GotoTables DEF Base, SidecarPlaces
    <2> QED BY <1>2, <2>3 DEF Quiet, QuietAt
  <1> QED BY <1>1, <1>2

LEMMA ScProbeStep == ASSUME Base, NEW a \in Actors, ScProbe(a) PROVE Quiet(a)
  <1>1. pc[a] = "scProbe" /\ (UNCHANGED file => Forgets)
    BY SameFile DEF ScProbe, At, Base
  <1>2. CASE AfterSidecar(a) /\ UNCHANGED file
    BY <1>1, <1>2, AfterSidecarMoves DEF SidecarPlaces
  <1>3. CASE FoundNone(a) /\ GoOn(a, "scPort")
    <2>1. Moves(a) /\ pc'[a] = "scPort"
      BY <1>1, <1>3, MoveOn DEF SidecarPlaces
    <2>2. Forgets
      BY <1>3, FoundNoneForgets
    <2> QED BY <1>1, <2>1, <2>2 DEF Quiet, QuietAt
  <1> QED BY <1>2, <1>3 DEF ScProbe, Found

LEMMA ScPortStep == ASSUME Base, NEW a \in Actors, ScPort(a) PROVE Quiet(a)
  <1>1. pc[a] = "scPort" /\ Forgets
    BY SameFile DEF ScPort, At, Base
  <1>2. CASE AfterSidecar(a)
    BY <1>1, <1>2, AfterSidecarMoves DEF SidecarPlaces
  <1>3. CASE GoOn(a, "scSpawn")
    <2>1. Moves(a) /\ pc'[a] = "scSpawn"
      BY <1>1, <1>3, MoveOn DEF SidecarPlaces
    <2> QED BY <1>1, <2>1 DEF Quiet, QuietAt
  <1> QED BY <1>2, <1>3 DEF ScPort

LEMMA SpawnFailsStep == ASSUME Base, NEW a \in Actors, SpawnFails(a) PROVE Quiet(a)
  <1>1. pc[a] \in {"spawn", "scSpawn"} /\ Forgets /\ End(a)
    BY SameFile DEF SpawnFails, At, Base
  <1> QED BY <1>1, EndIsQuiet

LEMMA ScSpawnStep == ASSUME Base, NEW a \in Actors, ScSpawn(a) PROVE Quiet(a)
  <1>1. PICK p \in Pids : Spawn(a, p, "sidecar", "scWrite")
    BY DEF ScSpawn
  <1>2. pc[a] = "scSpawn" /\ UNCHANGED <<file, port, inBack, signal, goal, look, target>>
    BY DEF ScSpawn, At
  <1>3. /\ Tables' /\ Others(a) /\ p \notin inBack /\ pc'[a] = "scWrite"
        /\ \A q \in Pids : Runs(q)' => q = p \/ (Runs(q) /\ role'[q] = role[q])
    BY <1>1, <1>2, SpawnTables DEF Base, Services
  <1>4. NoneStarts
    BY <1>2, <1>3 DEF NoneStarts, Runs
  <1>5. Quiet(a)
    BY <1>2, <1>3, <1>4, SameFile DEF Quiet, QuietAt, Moves, Base
  <1> QED BY <1>5

LEMMA ScWriteStep == ASSUME Base, NEW a \in Actors, ScWrite(a) PROVE Quiet(a)
  <1>1. pc[a] = "scWrite" /\ child[a] \in Pids
    BY DEF ScWrite, At, Base, Tables, Children
  <1>2. Forgets
    BY <1>1, SidecarFile DEF ScWrite, Base
  <1>3. Moves(a) /\ pc'[a] = "scPoll"
    BY <1>1, MoveOn DEF ScWrite, SidecarPlaces
  <1> QED BY <1>1, <1>2, <1>3 DEF Quiet, QuietAt

LEMMA ScPollStep == ASSUME Base, NEW a \in Actors, ScPoll(a) PROVE Quiet(a)
  <1>1. pc[a] = "scPoll"
    BY DEF ScPoll, At
  <1>2. CASE Live(child[a])
    BY <1>1, <1>2, AfterSidecarMoves, SameFile DEF ScPoll, SidecarPlaces, Base
  <1>3. CASE ~Live(child[a])
    <2>1. Forgets
      BY <1>3, SidecarFile DEF ScPoll, Forget, Base
    <2>2. CASE a \in Commands
      BY <1>1, <1>3, <2>1, <2>2, EndIsQuiet, Kinds DEF ScPoll
    <2>3. CASE a \notin Commands
      <3>1. a \in Pids /\ Reap(a)
        BY <1>3, <2>3, Kinds DEF ScPoll
      <3>2. Moves(a)
        BY <1>1, <1>3, <3>1, ReapTables DEF Base
      <3> QED BY <2>1, <2>3, <3>2 DEF Quiet, QuietAt
    <2> QED BY <2>2, <2>3
  <1> QED BY <1>2, <1>3

LEMMA SidecarStep == ASSUME Base, NEW a \in Actors, Sidecar(a) PROVE Quiet(a)
  BY ScProbeStep, ScPortStep, SpawnFailsStep, ScSpawnStep, ScWriteStep, ScPollStep DEF Sidecar


-----------------------------------------------------------------------------
(* Stopping *)

LEMMA AfterStopMoves ==
    ASSUME Base, NEW a \in Actors, pc[a] \in StopPlaces, AfterStop(a)
    PROVE  /\ Moves(a)
           /\ a \in Commands => pc'[a] \in {"stopService", "probe", "idle"} /\ pc[a] # "write"
  <1>0. pc[a] \notin {"off", "zombie", "write"}
    BY DEF StopPlaces
  <1>1. CASE a \in Commands /\ (LookedAt(a) = "sidecar" \/ goal[a] = "restart")
    <2> DEFINE place == IF LookedAt(a) = "sidecar" THEN "stopService" ELSE "probe"
    <2>1. place \in {"stopService", "probe"}
      OBVIOUS
    <2>2. GoOn(a, place)
      BY <1>1 DEF AfterStop
    <2> HIDE DEF place
    <2>3. Moves(a) /\ pc'[a] = place
      BY <1>1, <2>1, <2>2, Kinds, MoveOn DEF StartPlaces, StopPlaces
    <2> QED BY <1>0, <2>1, <2>3
  <1>2. CASE ~(a \in Commands /\ (LookedAt(a) = "sidecar" \/ goal[a] = "restart"))
    BY <1>0, <1>2, EndTables DEF AfterStop, Base
  <1> QED BY <1>1, <1>2

LEMMA CleanupStep == ASSUME Base, NEW a \in Actors, Cleanup(a) PROVE Quiet(a)
  <1>1. pc[a] \in StopPlaces /\ AfterStop(a) /\ Forgets
    BY DropForgets DEF Cleanup, At
  <1> QED BY <1>1, AfterStopMoves DEF Quiet, QuietAt

(* A signal dooms, or changes nothing. *)
LEMMA SendTables ==
    ASSUME Base, NEW p \in Pids, NEW what \in {"term", "kill"}, Send(p, what)
    PROVE  /\ signal' \in [Pids -> {"none", "term", "kill"}]
           /\ \A q \in Pids : signal'[q] # "kill" => signal[q] # "kill"
           /\ what = "kill" => ~Live(p) \/ signal'[p] = "kill"
  BY DEF Send, Base, Tables, TablesOK

LEMMA KillStep == ASSUME Base, NEW a \in Actors, Kill(a) PROVE Quiet(a)
  <1>1. /\ Waiting(a) /\ target[a] \in Pids /\ Send(target[a], "kill")
        /\ look' = [look EXCEPT ![a] = "drop"]
        /\ UNCHANGED <<file, port, role, parent, inBack, pc, goal, child, target>>
    BY DEF Kill, IsRunning, Exists
  <1>2. /\ signal' \in [Pids -> {"none", "term", "kill"}]
        /\ \A q \in Pids : signal'[q] # "kill" => signal[q] # "kill"
        /\ ~Live(target[a]) \/ signal'[target[a]] = "kill"
    BY <1>1, SendTables
  <1>3. /\ target' \in [Actors -> Pids \cup {NoPid}] /\ target' = [target EXCEPT ![a] = target'[a]]
        /\ look' \in [Actors -> Looks] /\ look' = [look EXCEPT ![a] = look'[a]] /\ look'[a] # "none"
    BY <1>1 DEF Looks, Base, Tables, TablesOK
  <1>4. Doomed(target[a])'
    BY <1>1, <1>2 DEF Doomed, Live, Exists
  <1>5. Moves(a) /\ (a \in Commands => pc[a] # "write")
    BY <1>1, <1>2, <1>3, <1>4, LookTables
  <1> QED BY <1>1, <1>5, SameFile DEF Quiet, QuietAt, Base

LEMMA TerminateStep == ASSUME Base, NEW a \in Actors, Terminate(a) PROVE Quiet(a)
  <1> DEFINE place == IF pc[a] = "stopSidecar" THEN "waitSidecar" ELSE "waitService"
  <1>1. /\ pc[a] \in {"stopSidecar", "stopService"}
        /\ look[a] = "read" /\ target[a] \in Pids /\ Send(target[a], "term") /\ Goto(a, place)
        /\ UNCHANGED <<file, port, role, parent, inBack, goal, child, look, target>>
    BY DEF Terminate, At, IsRunning, Exists
  <1>2. /\ place \in {"waitSidecar", "waitService"}
        /\ a \in Pids => place = "waitSidecar"
    <2>1. a \in Pids => pc[a] = "stopSidecar"
      BY <1>1 DEF Base, Tables, Places, ProcessPlaces, SidecarPlaces
    <2> QED BY <2>1
  <1> HIDE DEF place
  <1>3. /\ signal' \in [Pids -> {"none", "term", "kill"}]
        /\ \A q \in Pids : signal'[q] # "kill" => signal[q] # "kill"
    BY <1>1, SendTables
  <1>4. /\ port' \in [Services -> Pids \cup {NoPid}]
        /\ goal' = [goal EXCEPT ![a] = goal'[a]] /\ (a \in Commands => goal'[a] \in Goals)
        /\ target' \in [Actors -> Pids \cup {NoPid}] /\ target' = [target EXCEPT ![a] = target'[a]]
        /\ look' \in [Actors -> Looks] /\ look' = [look EXCEPT ![a] = look'[a]] /\ look'[a] = "read"
        /\ pc'[a] = place
    BY <1>1 DEF Base, Tables, TablesOK, Goto
  <1>5. Moves(a)
    <2>1. /\ a \in Commands => place \in ({"idle"} \cup StartPlaces \cup SidecarPlaces \cup StopPlaces)
                                           \ {"write", "scWrite"}
          /\ a \in Pids => place = "waitSidecar" /\ pc[a] \notin {"off", "zombie"}
          /\ place # "poll" /\ place # "scPoll"
      BY <1>1, <1>2 DEF StopPlaces
    <2> QED BY <1>1, <1>3, <1>4, <2>1, GotoTables DEF Base
  <1> QED BY <1>1, <1>2, <1>4, <1>5, SameFile DEF Quiet, QuietAt, Base

LEMMA StopStep == ASSUME Base, NEW a \in Actors, Stop(a) PROVE Quiet(a)
  BY TerminateStep, KillStep, CleanupStep DEF Stop

-----------------------------------------------------------------------------
(* Starting *)

LEMMA ProbeGatewayStep == ASSUME Base, NEW c \in Commands, ProbeGateway(c) PROVE Quiet(c)
  <1>1. pc[c] = "probeGateway" /\ c \in Actors /\ c \notin Pids /\ Forgets
    BY SameFile, FoundNoneForgets, Kinds DEF ProbeGateway, Found, Base
  <1>2. CASE End(c)
    BY <1>1, <1>2, EndIsQuiet
  <1>3. CASE GoOn(c, "probe")
    <2>1. Moves(c) /\ pc'[c] = "probe"
      BY <1>1, <1>3, MoveOn DEF StartPlaces
    <2> QED BY <1>1, <2>1 DEF Quiet, QuietAt
  <1> QED BY <1>2, <1>3 DEF ProbeGateway

LEMMA ProbeBase ==
    ASSUME Base, NEW c \in Commands, Probe(c)
    PROVE  /\ pc[c] = "probe" /\ Forgets
           /\ \/ Quiet(c)
              \/ Moves(c) /\ pc'[c] = "port" /\ UNCHANGED goal /\ file'[Service(c)] = NoPid
  <1>1. pc[c] = "probe" /\ Forgets /\ c \in Actors /\ c \notin Pids /\ LookedAt(c) = Service(c)
    BY SameFile, FoundNoneForgets, Kinds DEF Probe, Found, Base, LookedAt
  <1>2. CASE End(c)
    BY <1>1, <1>2, EndIsQuiet
  <1>3. CASE FoundNone(c) /\ GoOn(c, "port")
    BY <1>1, <1>3, MoveOn, FoundNoneForgets DEF StartPlaces
  <1> QED BY <1>1, <1>2, <1>3 DEF Probe

(* No file names a service of this kind, so none runs. *)
LEMMA ProbeStep == ASSUME IInv, Alone, LooksAreCurrent, NEW c \in Commands, Probe(c) PROVE IInv'
  <1>1. /\ pc[c] = "probe" /\ ForgetsTheDead /\ c \in Actors /\ Base
        /\ \/ Quiet(c)
           \/ Moves(c) /\ pc'[c] = "port" /\ UNCHANGED goal /\ file'[Service(c)] = NoPid
    BY ProbeBase, Kinds DEF IInv, Forgets
  <1>2. CASE Quiet(c)
    BY <1>1, <1>2, QuietStep
  <1>3. CASE Moves(c) /\ pc'[c] = "port" /\ UNCHANGED goal /\ file'[Service(c)] = NoPid
    <2>2. ASSUME NEW p \in Pids, Runs(p)'
          PROVE  Named(p)' /\ role'[p] # Service(c)
      <3>1. Runs(p) /\ role'[p] = role[p]
        BY <1>3, <2>2 DEF Moves, NoneStarts
      <3>2. file[role[p]] = p
        BY <1>1, <3>1, LoneNamed
      <3>3. file'[role[p]] = p /\ p # NoPid
        BY <1>1, <3>1, <3>2, StaysNamed, RunsHosted
      <3> QED BY <1>3, <3>1, <3>3 DEF Named
    <2>3. SoleOf(c)'
      BY <1>3, <2>2 DEF SoleOf, Service
    <2> QED BY <1>1, <1>3, <2>2, <2>3, LoneStep DEF Moves, ForgetsTheDead
  <1> QED BY <1>1, <1>2, <1>3

LEMMA ProbePortBase ==
    ASSUME Base, NEW c \in Commands, ProbePort(c)
    PROVE  /\ pc[c] = "port" /\ Forgets /\ UNCHANGED file
           /\ Quiet(c) \/ (Moves(c) /\ pc'[c] = "spawn" /\ UNCHANGED goal)
  <1>1. pc[c] = "port" /\ Forgets /\ UNCHANGED file /\ c \in Actors /\ c \notin Pids
    BY SameFile, Kinds DEF ProbePort, Base
  <1>2. CASE End(c)
    BY <1>1, <1>2, EndIsQuiet
  <1>3. CASE GoOn(c, "spawn")
    BY <1>1, <1>3, MoveOn DEF StartPlaces
  <1> QED BY <1>1, <1>2, <1>3 DEF ProbePort

LEMMA ProbePortStep == ASSUME IInv, Alone, LooksAreCurrent, NEW c \in Commands, ProbePort(c) PROVE IInv'
  <1>1. /\ pc[c] = "port" /\ FilesOK' /\ UNCHANGED file /\ c \in Actors
        /\ Quiet(c) \/ (Moves(c) /\ pc'[c] = "spawn" /\ UNCHANGED goal)
    BY ProbePortBase, Kinds DEF IInv, Forgets
  <1>2. CASE Quiet(c)
    BY <1>1, <1>2, QuietStep
  <1>3. CASE Moves(c) /\ pc'[c] = "spawn" /\ UNCHANGED goal
    <2>2. ASSUME NEW p \in Pids, Runs(p)'
          PROVE  Named(p)' /\ role'[p] # Service(c)
      <3>1. Runs(p) /\ role'[p] = role[p]
        BY <1>3, <2>2 DEF Moves, NoneStarts
      <3>2. role[p] # Service(c)
        BY <1>1, <3>1 DEF IInv, Tracked, SoleOf
      <3>3. file[role[p]] = p
        BY <1>1, <3>1, LoneNamed
      <3> QED BY <1>1, <3>1, <3>2, <3>3 DEF Named
    <2>3. SoleOf(c)'
      BY <1>3, <2>2 DEF SoleOf, Service
    <2> QED BY <1>1, <1>3, <2>2, <2>3, LoneStep DEF Moves
  <1> QED BY <1>1, <1>2, <1>3

LEMMA SpawnServiceBase ==
    ASSUME Base, NEW c \in Commands, SpawnService(c)
    PROVE  /\ Base' /\ Others(c) /\ pc[c] = "spawn" /\ pc'[c] = "write"
           /\ UNCHANGED <<file, goal>> /\ child'[c] \in Pids
           /\ \A q \in Pids : Runs(q)' => q = child'[c] \/ (Runs(q) /\ role'[q] = role[q])
  <1>1. PICK p \in Pids : Spawn(c, p, Service(c), "write") /\ inBack' = inBack \cup {p}
    BY DEF SpawnService
  <1>2. pc[c] = "spawn" /\ UNCHANGED <<file, port, signal, goal, look, target>> /\ c \in Actors
    BY Kinds DEF SpawnService
  <1>3. /\ Tables' /\ Others(c) /\ pc'[c] = "write" /\ child'[c] = p
        /\ \A q \in Pids : Runs(q)' => q = p \/ (Runs(q) /\ role'[q] = role[q])
    BY <1>1, <1>2, SpawnTables, ServiceKind DEF Base
  <1> QED BY <1>2, <1>3 DEF Base, FilesOK

(* The new service is the only one of its kind, and known to the command alone. *)
LEMMA SpawnServiceStep == ASSUME IInv, Alone, NEW c \in Commands, SpawnService(c) PROVE IInv'
  <1>1. /\ Base' /\ Others(c) /\ pc[c] = "spawn" /\ pc'[c] = "write"
        /\ UNCHANGED <<file, goal>> /\ child'[c] \in Pids
        /\ \A q \in Pids : Runs(q)' => q = child'[c] \/ (Runs(q) /\ role'[q] = role[q])
    BY SpawnServiceBase DEF IInv
  <1>2. ASSUME NEW q \in Pids, Runs(q)', q # child'[c]
        PROVE  Named(q)' /\ role'[q] # Service(c)
    <2>1. Runs(q) /\ role'[q] = role[q]
      BY <1>1, <1>2
    <2>2. role[q] # Service(c) /\ file[role[q]] = q
      BY <1>1, <2>1, LoneNamed DEF IInv, Tracked, SoleOf
    <2> QED BY <1>1, <2>1, <2>2 DEF Named
  <1>3. SoleOf(c)'
    BY <1>1, <1>2 DEF SoleOf, Service
  <1>4. \A q \in Pids : q = child'[c] => Named(q)'
    BY <1>1 DEF Named
  <1> QED BY <1>1, <1>2, <1>3, <1>4, LoneStep DEF Base

LEMMA WritePidBase ==
    ASSUME Base, NEW c \in Commands, WritePid(c)
    PROVE  /\ Moves(c) /\ FilesOK' /\ pc[c] = "write" /\ pc'[c] = "poll" /\ UNCHANGED <<goal, child>>
           /\ child[c] \in Pids /\ role[child[c]] = Service(c)
           /\ \A s \in Services : file'[s] = IF s = Service(c) THEN child[c] ELSE file[s]
  <1>1. /\ pc[c] = "write" /\ c \in Actors /\ c \notin Pids
        /\ child[c] \in Pids /\ role[child[c]] = Service(c)
    BY Kinds DEF WritePid, Base, Tables, Children
  <1>2. /\ \A s \in Services : file'[s] = IF s = Service(c) THEN child[c] ELSE file[s]
        /\ FilesOK'
    BY <1>1, ServiceKind DEF WritePid, Base, FilesOK
  <1>3. Moves(c) /\ pc'[c] = "poll" /\ goal' = goal /\ child' = child
    BY <1>1, MoveOn DEF WritePid, StartPlaces
  <1> QED BY <1>1, <1>2, <1>3

LEMMA WritePidStep == ASSUME IInv, Alone, NEW c \in Commands, WritePid(c) PROVE IInv'
  <1>1. /\ Moves(c) /\ FilesOK' /\ pc[c] = "write" /\ pc'[c] = "poll" /\ UNCHANGED <<goal, child>>
        /\ child[c] \in Pids /\ role[child[c]] = Service(c) /\ Base
        /\ \A s \in Services : file'[s] = IF s = Service(c) THEN child[c] ELSE file[s]
    BY WritePidBase DEF IInv
  <1>4. SoleOf(c)'
    <2>1. SoleOf(c) /\ Service(c)' = Service(c)
      BY <1>1 DEF IInv, Tracked, Service
    <2> QED BY <1>1, <2>1 DEF SoleOf, Moves, NoneStarts
  <1>5. ASSUME NEW p \in Pids, Runs(p)' PROVE Named(p)'
    <2>1. Runs(p) /\ role'[p] = role[p] /\ role[p] \in Services
      BY <1>1, <1>5, RunsHosted DEF Moves, NoneStarts, Hosted, Services
    <2>2. CASE role[p] = Service(c)
      BY <1>1, <2>1, <2>2 DEF IInv, Tracked, SoleOf, Named
    <2>3. CASE role[p] # Service(c)
      <3>1. Named(p) /\ p # child[c]
        BY <1>1, <2>1, <2>3 DEF IInv, Tracked
      <3>2. file[role[p]] = p
        BY <1>1, <3>1 DEF Named, Alone
      <3> QED BY <1>1, <2>1, <2>3, <3>2 DEF Named
    <2> QED BY <2>2, <2>3
  <1> QED BY <1>1, <1>4, <1>5, LoneStep DEF Moves

LEMMA PollBase ==
    ASSUME Base, NEW c \in Commands, Poll(c)
    PROVE  /\ pc[c] = "poll" /\ FilesOK'
           /\ \/ Quiet(c)
              \/ /\ Moves(c) /\ ~Live(child[c]) /\ pc'[c] = "idle"
                 /\ \A s \in Services : file'[s] = IF s = Service(c) THEN NoPid ELSE file[s]
  <1>1. pc[c] = "poll" /\ c \in Actors /\ c \notin Pids
    BY Kinds DEF Poll
  <1>2. CASE ~Live(child[c])
    <2>1. /\ \A s \in Services : file'[s] = IF s = Service(c) THEN NoPid ELSE file[s]
          /\ FilesOK' /\ End(c)
      BY <1>2, ServiceKind DEF Poll, Forget, Base, FilesOK
    <2> QED BY <1>1, <1>2, <2>1, EndTables DEF Base
  <1>3. CASE Live(child[c])
    <2>1. Forgets
      BY <1>3, SameFile DEF Poll, Base
    <2>2. CASE End(c)
      BY <1>1, <2>1, <2>2, EndIsQuiet DEF Forgets
    <2>3. CASE GoOn(c, "scProbe")
      <3>1. Moves(c) /\ pc'[c] = "scProbe"
        BY <1>1, <2>3, MoveOn DEF SidecarPlaces
      <3> QED BY <1>1, <2>1, <3>1 DEF Quiet, QuietAt, Forgets
    <2> QED BY <1>3, <2>2, <2>3 DEF Poll
  <1> QED BY <1>2, <1>3

(* The service that is forgotten is the only one of its kind, and has ended. *)
LEMMA PollStep == ASSUME IInv, Alone, LooksAreCurrent, NEW c \in Commands, Poll(c) PROVE IInv'
  <1>1. /\ pc[c] = "poll" /\ FilesOK' /\ c \in Actors /\ Base
        /\ \/ Quiet(c)
           \/ /\ Moves(c) /\ ~Live(child[c]) /\ pc'[c] = "idle"
              /\ \A s \in Services : file'[s] = IF s = Service(c) THEN NoPid ELSE file[s]
    BY PollBase, Kinds DEF IInv
  <1>2. CASE Quiet(c)
    BY <1>1, <1>2, QuietStep
  <1>3. CASE /\ Moves(c) /\ ~Live(child[c]) /\ pc'[c] = "idle"
             /\ \A s \in Services : file'[s] = IF s = Service(c) THEN NoPid ELSE file[s]
    <2>1. ASSUME NEW p \in Pids, Runs(p)' PROVE Named(p)'
      <3>1. Runs(p) /\ role'[p] = role[p] /\ role[p] \in Services
        BY <1>1, <1>3, <2>1, RunsHosted DEF Moves, NoneStarts, Hosted, Services
      <3>2. role[p] # Service(c)
        BY <1>1, <1>3, <3>1 DEF IInv, Tracked, SoleOf, Runs
      <3>3. file[role[p]] = p
        BY <1>1, <3>1, LoneNamed
      <3> QED BY <1>3, <3>1, <3>2, <3>3 DEF Named
    <2>2. SoleOf(c)'
      BY <1>3 DEF SoleOf
    <2> QED BY <1>1, <1>3, <2>1, <2>2, LoneStep DEF Moves
  <1> QED BY <1>1, <1>2, <1>3

LEMMA CommandBase == ASSUME Base, NEW c \in Commands, Command(c) PROVE Base' /\ Others(c)
  <1>1. c \in Actors
    BY Kinds
  <1>2. \A a : Quiet(a) => Base' /\ Others(a)
    BY DEF Quiet, Moves, Forgets, Base
  <1>3. Probe(c) \/ ProbePort(c) \/ Poll(c) \/ WritePid(c) => Base' /\ Others(c)
    BY <1>2, ProbeBase, ProbePortBase, PollBase, WritePidBase DEF Moves, Base, Forgets
  <1> QED BY <1>1, <1>2, <1>3, ProbeGatewayStep, SpawnServiceBase, LookStep, SidecarStep, StopStep DEF Command

LEMMA CommandStep == ASSUME IInv, Alone, LooksAreCurrent, NEW c \in Commands, Command(c) PROVE IInv'
  <1>1. c \in Actors /\ Base
    BY Kinds DEF IInv
  <1>2. Quiet(c) => IInv'
    BY <1>1, QuietStep
  <1> QED BY <1>1, <1>2, ProbeGatewayStep, ProbeStep, ProbePortStep, SpawnServiceStep, WritePidStep, PollStep,
             LookStep, SidecarStep, StopStep DEF Command

-----------------------------------------------------------------------------
(* The processes *)

(* A process ends or goes on, and forgets no file but of the dead. *)
LEMMA ProcessMoves ==
    ASSUME Base, NEW p \in Pids, Forgets, pc[p] \notin {"off", "zombie"},
           \/ End(p)
           \/ \E place \in {"bind", "check", "serving", "stopSidecar", "scProbe"} : GoOn(p, place)
    PROVE  Quiet(p)
  <1>1. p \in Actors /\ p \notin Commands
    BY Kinds
  <1>2. CASE End(p)
    BY <1>1, <1>2, EndIsQuiet
  <1>3. ASSUME NEW place \in {"bind", "check", "serving", "stopSidecar", "scProbe"}, GoOn(p, place)
        PROVE  Quiet(p)
    <2>1. Moves(p)
      BY <1>1, <1>3, MoveOn
    <2> QED BY <1>1, <2>1 DEF Quiet, QuietAt
  <1> QED BY <1>2, <1>3

LEMMA BootStep ==
    ASSUME Base, NEW p \in Pids, BootGateway(p) \/ BootDashboard(p) \/ CheckDashboard(p)
    PROVE  Quiet(p)
  <1>1. pc[p] \notin {"off", "zombie"} /\ p \in Actors
    BY Kinds DEF BootGateway, BootDashboard, CheckDashboard, At
  <1>2. Forgets
    <2>1. UNCHANGED file \/ FoundNone(p)
      BY DEF BootGateway, BootDashboard, CheckDashboard, Found
    <2> QED BY <1>1, <2>1, FoundNoneForgets, SameFile DEF Base
  <1>3. \/ End(p)
        \/ \E place \in {"bind", "check", "serving", "stopSidecar", "scProbe"} : GoOn(p, place)
    BY DEF BootGateway, BootDashboard, CheckDashboard
  <1> QED BY <1>1, <1>2, <1>3, ProcessMoves

(* A process takes a port or lets go of it, or of a signal it obeys. *)
LEMMA PortMoves ==
    ASSUME Base, NEW p \in Pids, NEW place \in {"serving", "stopSidecar"}, Goto(p, place),
           UNCHANGED <<file, role, parent, inBack, goal, child, look, target>>, pc[p] \notin {"off", "zombie"},
           port' \in [Services -> Pids \cup {NoPid}],
           \/ signal' = signal
           \/ signal' = [signal EXCEPT ![p] = "none"] /\ signal[p] # "kill"
    PROVE  Quiet(p)
  <1>1. p \in Actors /\ p \notin Commands
    BY Kinds
  <1>2. /\ signal' \in [Pids -> {"none", "term", "kill"}]
        /\ goal' = [goal EXCEPT ![p] = goal'[p]]
        /\ target' \in [Actors -> Pids \cup {NoPid}] /\ target' = [target EXCEPT ![p] = target'[p]]
        /\ look' \in [Actors -> Looks] /\ look' = [look EXCEPT ![p] = look'[p]]
        /\ \A q \in Pids : signal'[q] # "kill" => signal[q] # "kill"
    BY <1>1 DEF Base, Tables, TablesOK
  <1>3. look'[p] = "none" => target'[p] = NoPid
    BY <1>1 DEF Base, Tables, LooksOK
  <1>4. look'[p] = "drop" => Doomed(target[p])'
    <2>1. look[p] = "drop" => Doomed(target[p])
      BY <1>1 DEF Base, Tables, LooksOK
    <2>2. \A q \in Pids : /\ pc[q] = "zombie" => pc'[q] = "zombie"
                          /\ signal[q] = "kill" => signal'[q] = "kill"
      BY <1>1, Kinds DEF Goto, Base, Tables, TablesOK
    <2> QED BY <2>1, <2>2 DEF Doomed, Live, Exists
  <1>5. Moves(p)
    BY <1>1, <1>2, <1>3, <1>4, GotoTables DEF Base
  <1> QED BY <1>1, <1>5, SameFile DEF Quiet, QuietAt, Base

LEMMA BindStep == ASSUME Base, NEW p \in Pids, Bind(p) PROVE Quiet(p)
  <1>1. pc[p] = "bind" /\ UNCHANGED file
    BY DEF Bind, At
  <1>2. CASE port' = [port EXCEPT ![role[p]] = p] /\ Goto(p, "serving")
             /\ UNCHANGED <<role, parent, inBack, signal, goal, child, look, target>>
    <2>1. port' \in [Services -> Pids \cup {NoPid}]
      BY <1>2 DEF Base, Tables, TablesOK
    <2> QED BY <1>1, <1>2, <2>1, PortMoves
  <1>3. CASE End(p) \/ GoOn(p, "stopSidecar")
    BY <1>1, <1>3, ProcessMoves, SameFile DEF Base
  <1> QED BY <1>2, <1>3 DEF Bind

LEMMA LeaveStep ==
    ASSUME Base, NEW p \in Pids, Leave(p), pc[p] \notin {"off", "zombie"}, signal[p] # "kill"
    PROVE  Quiet(p)
  <1>1. port' \in [Services -> Pids \cup {NoPid}]
    BY DEF Leave, Base, Tables, TablesOK
  <1> QED BY <1>1, PortMoves DEF Leave

LEMMA EndsStep ==
    ASSUME Base, NEW p \in Pids, Interrupt(p) \/ Obey(p) \/ Die(p) \/ Crash(p)
    PROVE  Quiet(p)
  <1>1. Live(p) => pc[p] \notin {"off", "zombie"}
    BY DEF Live, Exists, Base, Tables, Places
  <1>2. CASE Live(p) /\ End(p) /\ UNCHANGED file
    BY <1>1, <1>2, ProcessMoves, SameFile DEF Base
  <1>3. CASE Leave(p) /\ pc[p] = "serving" /\ signal[p] # "kill"
    BY <1>3, LeaveStep
  <1> QED BY <1>2, <1>3 DEF Interrupt, Obey, Die, Crash, At

LEMMA ForegroundStep == ASSUME Base, NEW p \in Pids, NEW s \in InTerminal, Foreground(p, s) PROVE Quiet(p)
  <1>1. Quiet(p)
    BY ForegroundTables, SameFile, Kinds DEF Quiet, QuietAt, Base, Foreground
  <1> QED BY <1>1, Kinds

(* Everything a process does. *)
LEMMA ProcessQuiet ==
    ASSUME Base, NEW p \in Pids,
           \/ Process(p)
           \/ Interrupt(p) \/ Obey(p) \/ Die(p) \/ Crash(p)
           \/ \E s \in InTerminal : Foreground(p, s)
    PROVE  Quiet(p)
  <1>1. p \in Actors
    BY Kinds
  <1> QED BY <1>1, BootStep, BindStep, LookStep, SidecarStep, StopStep, EndsStep, ForegroundStep DEF Process

-----------------------------------------------------------------------------
(* The invariants *)

LEMMA BaseInit == Init => Base
  <1> SUFFICES ASSUME Init PROVE Base
    OBVIOUS
  <1>1. \A a \in Actors : pc[a] = IF a \in Commands THEN "idle" ELSE "off"
    BY DEF Init
  <1>2. TablesOK /\ FilesOK
    BY DEF Init, TablesOK, FilesOK, ProcessPlaces, Goals, Looks
  <1>3. Places
    BY <1>1, Kinds DEF Init, Places, ProcessPlaces
  <1>4. Children /\ InBack /\ LooksOK
    BY <1>1, Kinds DEF Init, Children, InBack, LooksOK
  <1> QED BY <1>2, <1>3, <1>4 DEF Base, Tables

LEMMA BaseNext == Base /\ [Next]_vars => Base'
  <1> SUFFICES ASSUME Base, [Next]_vars PROVE Base'
    OBVIOUS
  <1>1. CASE UNCHANGED vars
    BY <1>1 DEF vars, tables, Base, FilesOK, Tables, TablesOK, Places, Children, InBack, Service,
                LooksOK, Doomed, Live, Exists
  <1>2. ASSUME NEW c \in Commands, Command(c) \/ \E what \in Goals \ {"none"} : Call(c, what) PROVE Base'
    BY <1>2, CommandBase, CallStep DEF Quiet, Moves, Forgets, Base
  <1>3. ASSUME NEW p \in Pids, Quiet(p) PROVE Base'
    BY <1>3 DEF Quiet, Moves, Forgets, Base
  <1> QED BY <1>1, <1>2, <1>3, ProcessQuiet DEF Next

LEMMA TrackedInit == Init => IInv
  <1> SUFFICES ASSUME Init PROVE IInv
    OBVIOUS
  <1>1. Base
    BY BaseInit
  <1>2. inBack = {} /\ \A c \in Commands : pc[c] = "idle"
    BY Kinds DEF Init
  <1> QED BY <1>1, <1>2 DEF IInv, Tracked, SoleOf, Runs

LEMMA TrackedNext == IInv /\ Alone /\ LooksAreCurrent /\ [Next]_vars => IInv'
  <1> SUFFICES ASSUME IInv, Alone, LooksAreCurrent, [Next]_vars PROVE IInv'
    OBVIOUS
  <1>0. Base
    BY DEF IInv
  <1>1. CASE UNCHANGED vars
    <2>1. Base'
      BY <1>0, BaseNext
    <2>2. \A p \in Pids : Runs(p)' = Runs(p) /\ Named(p)' = Named(p)
      BY <1>1 DEF vars, tables, Runs, Live, Exists, Named
    <2>3. \A c \in Commands : SoleOf(c)' = SoleOf(c)
      BY <1>1, <2>2 DEF vars, tables, SoleOf, Service
    <2> QED BY <2>1, <2>2, <2>3 DEF IInv, Tracked
  <1>2. ASSUME NEW a \in Actors, Quiet(a) PROVE IInv'
    BY <1>2, QuietStep
  <1>3. ASSUME NEW c \in Commands, Command(c) \/ \E what \in Goals \ {"none"} : Call(c, what) PROVE IInv'
    BY <1>0, <1>2, <1>3, CommandStep, CallStep, Kinds
  <1> QED BY <1>0, <1>1, <1>2, <1>3, ProcessQuiet, Kinds DEF Next

(* However commands overlap and processes end, the tables keep their types: a step *)
(* that goes by a pid goes by one that was given out, or by none.                  *)
THEOREM TypeInvariance == Spec => []TypeOK
  <1>1. Base => TypeOK
    BY DEF Base, FilesOK, Tables, TablesOK, TypeOK
  <1> QED BY <1>1, BaseInit, BaseNext, PTL DEF Spec

(* Commands that do not overlap (of any number, with services also run by hand, and  *)
(* processes that end at any moment) never lose a service they run in the background *)
(* but in one way: a look at its pid file began before the file was written, and     *)
(* ended after.  Without such a look, the file names the service whenever the        *)
(* commands are done.                                                                *)
THEOREM LoneCommandsTrack == Spec /\ []Alone => ServicesAreTracked
  <1> DEFINE Track == (\A c \in Commands : pc[c] = "idle") =>
                          \A p \in inBack : Live(p) /\ signal[p] # "kill" => file[role[p]] = p
  <1>1. IInv => Track
    <2> SUFFICES ASSUME IInv, \A c \in Commands : pc[c] = "idle",
                        NEW p \in inBack, Live(p), signal[p] # "kill"
                 PROVE  file[role[p]] = p
      OBVIOUS
    <2>1. p \in Pids /\ Runs(p)
      BY DEF Runs, Live, Exists
    <2> QED BY <2>1 DEF IInv, Tracked, Named
  <1>2. Spec /\ []Alone /\ []LooksAreCurrent => []Track
    <2> HIDE DEF Track
    <2> QED BY <1>1, TrackedInit, TrackedNext, PTL DEF Spec
  <1> QED BY <1>2, PTL DEF ServicesAreTracked

(* _stop: whichever command waits for a process to end, and however many do, it goes *)
(* on only once the process has ended or has SIGKILL on its way.                     *)
THEOREM StopsWait == Spec => StopsAreDone
  <1> DEFINE Step == \A c \in Commands :
                        pc[c] \in {"waitSidecar", "waitService"} /\ pc'[c] # pc[c] =>
                            ~Live(target[c]) \/ signal[target[c]] = "kill"
  <1>1. ASSUME Base, [Next]_vars PROVE Step
    <2> SUFFICES ASSUME NEW c \in Commands, pc[c] \in {"waitSidecar", "waitService"}, pc'[c] # pc[c]
                 PROVE  ~Live(target[c]) \/ signal[target[c]] = "kill"
      OBVIOUS
    <2>1. ASSUME NEW a, Others(a) PROVE a = c
      BY <2>1 DEF Others
    <2>2. ~UNCHANGED vars
      BY DEF vars
    <2>3. ASSUME NEW d \in Commands, Command(d) \/ \E what \in Goals \ {"none"} : Call(d, what)
          PROVE  d = c
      <3>1. Others(d)
        BY <1>1, <2>3, CommandBase, CallStep DEF Quiet, Moves
      <3> QED BY <2>1, <3>1
    <2>4. ASSUME NEW p \in Pids,
                 \/ Process(p) \/ Interrupt(p) \/ Obey(p) \/ Die(p) \/ Crash(p)
                 \/ \E s \in InTerminal : Foreground(p, s)
          PROVE  FALSE
      <3>1. Others(p)
        BY <1>1, <2>4, ProcessQuiet DEF Quiet, Moves
      <3> QED BY <2>1, <3>1, Kinds
    <2>5. Command(c) \/ \E what \in Goals \ {"none"} : Call(c, what)
      BY <1>1, <2>2, <2>3, <2>4 DEF Next
    <2>6. Kill(c) \/ Look(c) => pc'[c] = pc[c]
      BY DEF Kill, Look, ReadFile, SeeItGone
    <2>7. Cleanup(c)
      BY <2>5, <2>6 DEF Command, Call, ProbeGateway, Probe, ProbePort, SpawnService, WritePid, Poll, Sidecar,
                  ScProbe, ScPort, ScSpawn, SpawnFails, ScWrite, ScPoll, Stop, Terminate, At
    <2>8. look[c] = "drop" /\ c \in Actors
      BY <2>7, Kinds DEF Cleanup
    <2> QED BY <1>1, <2>8 DEF Base, Tables, LooksOK, Doomed
  <1>2. Base /\ [Next]_vars => [Step]_vars
    BY <1>1
  <1> QED BY <1>2, BaseInit, BaseNext, PTL DEF Spec, StopsAreDone

=============================================================================
