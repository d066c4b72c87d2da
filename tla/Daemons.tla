------------------------------- MODULE Daemons -------------------------------
(***************************************************************************)
(* The background processes: the gateway, the standalone dashboard and the *)
(* Cursor sidecar, started and stopped by `otel-agent` commands through    *)
(* pid files (src/src/otel_agent/process.py, commands/proxy.py,            *)
(* commands/dashboard.py, cursor_sidecar.py).                              *)
(*                                                                         *)
(* Commands and gateways are programs that go from place to place; each    *)
(* step is one look at a pid file, a port or a process, or one change of   *)
(* them.  Nothing is locked: others go on between the moment a pid file is *)
(* read and the moment it is found outdated and deleted.  If the config    *)
(* has a loopback Cursor provider, a gateway starts the sidecar, and so    *)
(* does the command that started the gateway.  A process that ends stays   *)
(* in the process table until its parent reaps it or ends too; until then  *)
(* kill(pid, 0) finds it.                                                  *)
(***************************************************************************)
CONSTANTS Commands,   \* invocations of otel-agent that may overlap
          Pids,       \* process numbers
          NoPid,      \* an absent pid file, a free port, nobody
          InTerminal, \* the services that are also run by hand, in a terminal
          Cursor,     \* is a loopback Cursor provider configured?
          Crashes     \* may a process end by itself?

ASSUME DaemonsAssumption ==
    /\ Commands \cap Pids = {} /\ NoPid \notin Commands \cup Pids
    /\ InTerminal \subseteq {"gateway", "dashboard"}
    /\ Cursor \in BOOLEAN /\ Crashes \in BOOLEAN

Services == {"gateway", "dashboard", "sidecar"}
Actors   == Commands \cup Pids
NoOne    == NoPid

VARIABLES
    file,     \* file[s]: the pid in the pid file of a service
    port,     \* port[s]: the process listening on its port
    role,     \* role[p]: what a process runs
    parent,   \* parent[p]: who would reap it
    inBack,   \* processes started by a command in the background
    signal,   \* signal[p]: the signal on its way to a process
    pc,       \* where a command or a process stands
    goal,     \* goal[c]: what a command was called for
    child,    \* child[a]: the process it has just started
    look,     \* look[a]: how far it is with the pid file it looks at
    target    \* target[a]: the pid it has read there

tables == <<port, role, parent, inBack, signal>>
vars   == <<file, tables, pc, goal, child, look, target>>

StartPlaces   == {"probeGateway", "probe", "port", "spawn", "write", "poll"}
SidecarPlaces == {"scProbe", "scPort", "scSpawn", "scWrite", "scPoll"}
StopPlaces    == {"stopSidecar", "waitSidecar", "stopService", "waitService"}
ProcessPlaces == {"off", "boot", "check", "bind", "serving", "zombie"}
Looks         == {"none", "read", "drop"}     \* drop: about to delete the file
Goals         == {"none", "start", "stop", "restart", "dashStart", "dashStop"}

TypeOK ==
    /\ file \in [Services -> Pids \cup {NoPid}]
    /\ port \in [Services -> Pids \cup {NoPid}]
    /\ role \in [Pids -> Services \cup {"none"}]
    /\ parent \in [Pids -> Actors \cup {NoOne}]
    /\ inBack \subseteq Pids
    /\ signal \in [Pids -> {"none", "term", "kill"}]
    /\ pc \in [Actors -> {"idle"} \cup StartPlaces \cup SidecarPlaces \cup StopPlaces \cup ProcessPlaces]
    /\ goal \in [Commands -> Goals]
    /\ child \in [Actors -> Pids \cup {NoPid}]
    /\ look \in [Actors -> Looks]
    /\ target \in [Actors -> Pids \cup {NoPid}]

Init ==
    /\ file = [s \in Services |-> NoPid]
    /\ port = [s \in Services |-> NoPid]
    /\ role = [p \in Pids |-> "none"]
    /\ parent = [p \in Pids |-> NoOne]
    /\ inBack = {}
    /\ signal = [p \in Pids |-> "none"]
    /\ pc = [a \in Actors |-> IF a \in Commands THEN "idle" ELSE "off"]
    /\ goal = [c \in Commands |-> "none"]
    /\ child = [a \in Actors |-> NoPid]
    /\ look = [a \in Actors |-> "none"]
    /\ target = [a \in Actors |-> NoPid]

-----------------------------------------------------------------------------
(* Processes *)

Exists(p) == p \in Pids /\ role[p] # "none"

(* is_running: a process that has ended and was not reaped still counts. *)
IsRunning(p) == Exists(p)

Live(p) == Exists(p) /\ pc[p] # "zombie"

(* A process with a signal on its way does nothing but react to it. *)
At(a, places) == pc[a] \in places /\ (a \in Pids => signal[a] = "none")

Goto(a, place) == pc' = [pc EXCEPT ![a] = place]

(* Its look at a pid file, if it had one, is over. *)
LookAway(a) ==
    /\ look' = [look EXCEPT ![a] = "none"]
    /\ target' = [target EXCEPT ![a] = NoPid]

GoOn(a, place) == Goto(a, place) /\ LookAway(a) /\ UNCHANGED <<tables, goal, child>>

(* The processes that leave the table when a ends: those it had yet to reap, *)
(* and a itself if its own parent is gone.                                   *)
Reaped(a) == {z \in Pids : parent[z] = a /\ pc[z] = "zombie"}
             \cup (IF a \in Pids /\ parent[a] = NoOne THEN {a} ELSE {})

(* An actor ends: a command goes idle, a process lets go of its port. *)
End(a) ==
    /\ pc' = [x \in Actors |-> IF x \in Reaped(a) THEN "off"
                               ELSE IF x # a THEN pc[x]
                               ELSE IF a \in Commands THEN "idle" ELSE "zombie"]
    /\ role' = [p \in Pids |-> IF p \in Reaped(a) THEN "none" ELSE role[p]]
    /\ parent' = [p \in Pids |-> IF p \in Reaped(a) \/ parent[p] = a THEN NoOne ELSE parent[p]]
    /\ inBack' = inBack \ Reaped(a)
    /\ signal' = [p \in Pids |-> IF p = a \/ p \in Reaped(a) THEN "none" ELSE signal[p]]
    /\ port' = [s \in Services |-> IF port[s] = a THEN NoPid ELSE port[s]]
    /\ goal' = [c \in Commands |-> IF c = a THEN "none" ELSE goal[c]]
    /\ child' = [child EXCEPT ![a] = NoPid]
    /\ LookAway(a)

(* The system gives out a pid that is free and that no file or program remembers. *)
FreePid(p) ==
    /\ ~Exists(p)
    /\ \A s \in Services, a \in Actors : p \notin {file[s], child[a], target[a]}

Spawn(a, p, s, place) ==
    /\ FreePid(p)
    /\ role' = [role EXCEPT ![p] = s]
    /\ parent' = [parent EXCEPT ![p] = a]
    /\ child' = [child EXCEPT ![a] = p]
    /\ pc' = [pc EXCEPT ![a] = place, ![p] = IF s = "sidecar" THEN "bind" ELSE "boot"]

-----------------------------------------------------------------------------
(* Looking at a pid file *)

Service(c) == IF goal[c] \in {"dashStart", "dashStop"} THEN "dashboard" ELSE "gateway"

(* The file that is looked at from a place. *)
LookedAt(a) == CASE pc[a] \in {"probeGateway", "boot"} -> "gateway"
                 [] pc[a] = "check" -> "dashboard"
                 [] pc[a] \in {"scProbe", "stopSidecar", "waitSidecar"} -> "sidecar"
                 [] OTHER -> Service(a)

Looking(a) == \/ At(a, {"probeGateway", "probe", "check", "stopSidecar", "stopService"})
              \/ At(a, {"scProbe"}) /\ Cursor
              \/ At(a, {"boot"}) /\ role[a] = "dashboard"

Waiting(a) == At(a, {"waitSidecar", "waitService"})

(* It finds no pid: _get_status is done, _stop goes on to delete the file all the same. *)
NoneThere(a) == look[a] = "none" /\ file[LookedAt(a)] = NoPid

ReadFile(a) ==
    /\ Looking(a) /\ look[a] = "none"
    /\ ~NoneThere(a)
    /\ look' = [look EXCEPT ![a] = "read"]
    /\ target' = [target EXCEPT ![a] = file[LookedAt(a)]]
    /\ UNCHANGED <<file, tables, pc, goal, child>>

(* Mutant: a process that does not serve yet is taken for one that is gone. *)
SeeItSilent(a) ==
    /\ \/ Looking(a) /\ pc[a] \in StopPlaces /\ NoneThere(a)
       \/ (Looking(a) \/ Waiting(a)) /\ look[a] = "read" /\ pc[target[a]] # "serving"
    /\ look' = [look EXCEPT ![a] = "drop"]
    /\ UNCHANGED <<file, tables, pc, goal, child, target>>

(* The process that was read is gone.  _stop takes no pid for one that is gone. *)
SeeItGone(a) ==
    /\ \/ Looking(a) /\ pc[a] \in StopPlaces /\ NoneThere(a)
       \/ (Looking(a) \/ Waiting(a)) /\ look[a] = "read" /\ ~IsRunning(target[a])
    /\ look' = [look EXCEPT ![a] = "drop"]
    /\ UNCHANGED <<file, tables, pc, goal, child, target>>

(* _cleanup: the file is deleted, whatever it names by now. *)
Forget(s) == file' = [file EXCEPT ![s] = NoPid]

(* What _get_status answers. *)
Found(a) == look[a] = "read" /\ IsRunning(target[a]) /\ UNCHANGED file

FoundNone(a) == \/ NoneThere(a) /\ UNCHANGED file
                \/ look[a] = "drop" /\ Forget(LookedAt(a))

-----------------------------------------------------------------------------
(* Commands: `proxy start | stop | restart`, `dashboard start | stop` *)

Call(c, what) ==
    /\ pc[c] = "idle"
    /\ goal' = [goal EXCEPT ![c] = what]
    /\ Goto(c, CASE what = "start" -> "probe"
                 [] what = "dashStart" -> "probeGateway"
                 [] what = "dashStop" -> "stopService"
                 [] OTHER -> "stopSidecar")
    /\ UNCHANGED <<file, tables, child, look, target>>

(* The dashboard is not started beside a gateway. *)
ProbeGateway(c) ==
    /\ pc[c] = "probeGateway"
    /\ \/ Found(c) /\ End(c)
       \/ FoundNone(c) /\ GoOn(c, "probe")

Probe(c) ==
    /\ pc[c] = "probe"
    /\ \/ Found(c) /\ End(c)
       \/ FoundNone(c) /\ GoOn(c, "port")

ProbePort(c) ==
    /\ pc[c] = "port"
    /\ IF port[Service(c)] # NoPid THEN End(c) ELSE GoOn(c, "spawn")
    /\ UNCHANGED file

SpawnService(c) == \E p \in Pids :
    /\ pc[c] = "spawn"
    /\ Spawn(c, p, Service(c), "write")
    /\ inBack' = inBack \cup {p}
    /\ UNCHANGED <<file, port, signal, goal, look, target>>

(* Mutant: the command writes its own pid. *)
WriteOwnPid(c) ==
    /\ pc[c] = "write"
    /\ file' = [file EXCEPT ![Service(c)] = c]
    /\ GoOn(c, "poll")

WritePid(c) ==
    /\ pc[c] = "write"
    /\ file' = [file EXCEPT ![Service(c)] = child[c]]
    /\ GoOn(c, "poll")

(* Half a second later: a process that has ended is reaped and the file deleted, *)
(* whatever it names.                                                            *)
Poll(c) ==
    /\ pc[c] = "poll"
    /\ \/ /\ ~Live(child[c])
          /\ Forget(Service(c))
          /\ End(c)
       \/ /\ Live(child[c])
          /\ IF goal[c] = "dashStart" THEN End(c) ELSE GoOn(c, "scProbe")
          /\ UNCHANGED file

-----------------------------------------------------------------------------
(* start_cursor_sidecar, run by a command or by a gateway *)

(* The command is done; the gateway goes on to serve. *)
AfterSidecar(a) ==
    IF a \in Commands THEN End(a)
    ELSE /\ Goto(a, "bind")
         /\ child' = [child EXCEPT ![a] = NoPid]
         /\ LookAway(a)
         /\ UNCHANGED <<tables, goal>>

ScProbe(a) ==
    /\ At(a, {"scProbe"})
    /\ \/ ~Cursor /\ AfterSidecar(a) /\ UNCHANGED file
       \/ Cursor /\ Found(a) /\ AfterSidecar(a)
       \/ Cursor /\ FoundNone(a) /\ GoOn(a, "scPort")

(* Adopted when something listens; skipped when a binary is missing. *)
ScPort(a) ==
    /\ At(a, {"scPort"})
    /\ \/ AfterSidecar(a)
       \/ port["sidecar"] = NoPid /\ GoOn(a, "scSpawn")
    /\ UNCHANGED file

(* No process can be made: the command, or the gateway before it serves, fails. *)
SpawnFails(a) ==
    /\ At(a, {"spawn", "scSpawn"})
    /\ End(a)
    /\ UNCHANGED file

ScSpawn(a) == \E p \in Pids :
    /\ At(a, {"scSpawn"})
    /\ Spawn(a, p, "sidecar", "scWrite")
    /\ UNCHANGED <<file, port, inBack, signal, goal, look, target>>

ScWrite(a) ==
    /\ At(a, {"scWrite"})
    /\ file' = [file EXCEPT !["sidecar"] = child[a]]
    /\ GoOn(a, "scPoll")

(* A sidecar that has ended is reaped, and whatever the pid file names forgotten. *)
Reap(a) ==
    /\ role' = [role EXCEPT ![child[a]] = "none"]
    /\ parent' = [parent EXCEPT ![child[a]] = NoOne]
    /\ pc' = [pc EXCEPT ![child[a]] = "off", ![a] = "bind"]
    /\ child' = [child EXCEPT ![a] = NoPid]
    /\ UNCHANGED <<port, inBack, signal, goal, look, target>>

ScPoll(a) ==
    /\ At(a, {"scPoll"})
    /\ IF Live(child[a])
       THEN AfterSidecar(a) /\ UNCHANGED file
       ELSE Forget("sidecar") /\ IF a \in Commands THEN End(a) ELSE Reap(a)

-----------------------------------------------------------------------------
(* _stop, run by a command or by a gateway on its way out *)

(* A signal changes nothing for a process that has ended or is being killed. *)
Send(p, what) ==
    signal' = [signal EXCEPT ![p] = IF Live(p) /\ @ # "kill" THEN what ELSE @]

(* SIGTERM goes to the pid that was read.  If its process ends after it was looked for, *)
(* that comes to the same as having looked later (SeeItGone).                           *)
Terminate(a) ==
    /\ At(a, {"stopSidecar", "stopService"})
    /\ look[a] = "read" /\ IsRunning(target[a])
    /\ Send(target[a], "term")
    /\ Goto(a, IF pc[a] = "stopSidecar" THEN "waitSidecar" ELSE "waitService")
    /\ UNCHANGED <<file, port, role, parent, inBack, goal, child, look, target>>

(* Mutant: past the deadline the process is left to itself. *)
GiveUp(a) ==
    /\ Waiting(a)
    /\ look[a] = "read" /\ IsRunning(target[a])
    /\ look' = [look EXCEPT ![a] = "drop"]
    /\ UNCHANGED <<file, tables, pc, goal, child, target>>

(* Mutant: the process is waited for without a deadline. *)
WaitOn(a) ==
    /\ Waiting(a)
    /\ look[a] = "read" /\ IsRunning(target[a])
    /\ UNCHANGED vars

(* The deadline passes: SIGKILL, and no further look. *)
Kill(a) ==
    /\ Waiting(a)
    /\ look[a] = "read" /\ IsRunning(target[a])
    /\ Send(target[a], "kill")
    /\ look' = [look EXCEPT ![a] = "drop"]
    /\ UNCHANGED <<file, port, role, parent, inBack, pc, goal, child, target>>

(* A gateway is done; `stop` goes on to the service, `restart` then to the start. *)
AfterStop(a) ==
    IF a \in Commands /\ (LookedAt(a) = "sidecar" \/ goal[a] = "restart")
    THEN GoOn(a, IF LookedAt(a) = "sidecar" THEN "stopService" ELSE "probe")
    ELSE End(a)

Cleanup(a) ==
    /\ At(a, StopPlaces)
    /\ look[a] = "drop"
    /\ Forget(LookedAt(a))
    /\ AfterStop(a)

-----------------------------------------------------------------------------
(* The processes themselves *)

(* The interpreter comes up and reads its config, or ends. *)
BootGateway(p) ==
    /\ At(p, {"boot"}) /\ role[p] = "gateway"
    /\ GoOn(p, "scProbe") \/ End(p)
    /\ UNCHANGED file

(* A dashboard's process looks again at what the command looked at. *)
BootDashboard(p) ==
    /\ At(p, {"boot"}) /\ role[p] = "dashboard"
    /\ \/ Found(p) /\ End(p)
       \/ FoundNone(p) /\ GoOn(p, "check")

(* It may find the pid its own command has written for it. *)
CheckDashboard(p) ==
    /\ At(p, {"check"})
    /\ \/ Found(p) /\ target[p] # p /\ End(p)
       \/ Found(p) /\ target[p] = p /\ GoOn(p, "bind")
       \/ FoundNone(p) /\ GoOn(p, "bind")

(* A gateway that cannot bind still runs its `finally`. *)
Bind(p) ==
    /\ At(p, {"bind"})
    /\ \/ /\ port[role[p]] = NoPid
          /\ port' = [port EXCEPT ![role[p]] = p]
          /\ Goto(p, "serving")
          /\ UNCHANGED <<role, parent, inBack, signal, goal, child, look, target>>
       \/ /\ port[role[p]] # NoPid
          /\ IF role[p] = "gateway" THEN GoOn(p, "stopSidecar") ELSE End(p)
    /\ UNCHANGED file

(* uvicorn.run has returned: on to the `finally`. *)
Leave(p) ==
    /\ Goto(p, "stopSidecar")
    /\ port' = [port EXCEPT !["gateway"] = NoPid]
    /\ signal' = [signal EXCEPT ![p] = "none"]
    /\ UNCHANGED <<file, role, parent, inBack, goal, child, look, target>>

(* Ctrl-C in the terminal of a foreground gateway. *)
Interrupt(p) ==
    /\ At(p, {"serving"}) /\ role[p] = "gateway" /\ p \notin inBack
    /\ Leave(p)

(* SIGTERM ends a process, except that a serving gateway may shut down in order; *)
(* how long that takes is up to its open requests.                               *)
Obey(p) ==
    /\ Live(p) /\ signal[p] = "term"
    /\ \/ End(p) /\ UNCHANGED file
       \/ pc[p] = "serving" /\ role[p] = "gateway" /\ Leave(p)

Die(p) ==
    /\ Live(p) /\ signal[p] = "kill"
    /\ End(p)
    /\ UNCHANGED file

Crash(p) ==
    /\ Crashes /\ Live(p) /\ signal[p] = "none"
    /\ End(p)
    /\ UNCHANGED file

(* `proxy --foreground` or `dashboard --foreground`, in a terminal. *)
Foreground(p, s) ==
    /\ FreePid(p)
    /\ role' = [role EXCEPT ![p] = s]
    /\ Goto(p, "boot")
    /\ UNCHANGED <<file, port, parent, inBack, signal, goal, child, look, target>>

-----------------------------------------------------------------------------
Look(a) == ReadFile(a) \/ SeeItGone(a)

Sidecar(a) == ScProbe(a) \/ ScPort(a) \/ ScSpawn(a) \/ SpawnFails(a) \/ ScWrite(a) \/ ScPoll(a)

Stop(a) == Terminate(a) \/ Kill(a) \/ Cleanup(a)

Command(c) == \/ ProbeGateway(c) \/ Probe(c) \/ ProbePort(c) \/ SpawnService(c)
              \/ WritePid(c) \/ Poll(c) \/ Look(c) \/ Sidecar(c) \/ Stop(c)

Process(p) == \/ BootGateway(p) \/ BootDashboard(p) \/ CheckDashboard(p) \/ Bind(p)
              \/ Look(p) \/ Sidecar(p) \/ Stop(p)

Next == \/ \E c \in Commands : Command(c) \/ \E what \in Goals \ {"none"} : Call(c, what)
        \/ \E p \in Pids : \/ Process(p) \/ Interrupt(p) \/ Obey(p) \/ Die(p) \/ Crash(p)
                           \/ \E s \in InTerminal : Foreground(p, s)

Spec == Init /\ [][Next]_vars

(* A command that was called goes on: it waits 0.5 s for a start and 5 s for a stop. *)
FairSpec == Spec /\ \A c \in Commands : WF_vars(Command(c))

-----------------------------------------------------------------------------
(* Properties *)

(* The file of a gateway or a dashboard is not written while somebody who has read *)
(* something else there has yet to come to an end with it.                         *)
LooksAreCurrent ==
    \A a \in Actors : look[a] # "none" /\ LookedAt(a) # "sidecar" =>
        file[LookedAt(a)] \in {target[a], NoPid}

(* As long as no pid file is written under such a look: when no command is under way, *)
(* a service that runs in the background is the one its pid file names, so that       *)
(* `status` finds it and `stop` can end it.                                           *)
ServicesAreTracked ==
    []LooksAreCurrent =>
        []((\A c \in Commands : pc[c] = "idle") =>
               \A p \in inBack : Live(p) /\ signal[p] # "kill" => file[role[p]] = p)

(* A stop that goes on leaves the process it found ended, or doomed by SIGKILL (AE4). *)
StopsAreDone ==
    [][\A c \in Commands :
          pc[c] \in {"waitSidecar", "waitService"} /\ pc'[c] # pc[c] =>
              ~Live(target[c]) \/ signal[target[c]] = "kill"]_vars

(* Every command ends, even when a process does not react to SIGTERM. *)
CommandsEnd == \A c \in Commands : pc[c] # "idle" ~> pc[c] = "idle"

(* "`otel-agent proxy start` / `stop` then starts and stops the sidecar with the   *)
(* gateway" (README.md:366).  As `stop` goes by the pid file alone, the sidecar that *)
(* serves a gateway has to be the one the file names once the command is done.     *)
SidecarIsTracked ==
    (\A c \in Commands : pc[c] = "idle") /\ port["gateway"] # NoPid =>
        \A p \in Pids : port["sidecar"] = p /\ signal[p] = "none" => file["sidecar"] = p

(* stop_proxy "Returns True if proxy was stopped, False if no proxy was running"   *)
(* (process.py:147): a stop that is about to answer that no gateway was running    *)
(* leaves none running in the background.                                          *)
StopFindsGateway ==
    \A c \in Commands : pc[c] = "stopService" /\ LookedAt(c) = "gateway" /\ look[c] = "drop" =>
        \A p \in inBack : role[p] = "gateway" => ~Live(p) \/ signal[p] = "kill"
=============================================================================
