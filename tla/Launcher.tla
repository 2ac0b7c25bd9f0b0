------------------------------ MODULE Launcher ------------------------------
(***************************************************************************)
(* Starting and stopping the gateway process: the daemon commands          *)
(* (daemon-runtime.ts), the live CLI's controller (runtime-controller.ts), *)
(* the state file both keep the pid in (background-state.ts) and the life  *)
(* of a gateway process itself (runGatewayRuntime).  Process ids, signals  *)
(* and the port are the operating system's.                                *)
(***************************************************************************)
EXTENDS Naturals, FiniteSets

CONSTANTS
    Commands,  \* daemon commands that can run at once
    MaxPid,    \* bound on gateway processes, numbered as they are spawned
    MaxCalls   \* bound on commands

ASSUME LauncherAssumption == MaxPid \in Nat /\ MaxCalls \in Nat

VARIABLES
    gateway,    \* each process: "none", "booting", "bound", "ready", "closing", "unbound", "dead"
    file,       \* the state file: a pid, absent, or garbage that does not parse
    command,    \* each command: its step and the pid it works on
    cli,        \* the controller of one live CLI: its step, status and engine
    abandoned,  \* processes a failed start has sent SIGTERM to
    disturbed,  \* whether commands overlapped, a command died, or the CLI took part
    calls
launcherVars == <<gateway, file, command, cli, abandoned, disturbed, calls>>

Pids == 1 .. MaxPid
Absent == 0
Garbage == MaxPid + 1
Waiting == [at |-> "idle", pid |-> 0]
LauncherInit ==
    /\ gateway = [p \in Pids |-> "none"] /\ file = Absent
    /\ command = [c \in Commands |-> Waiting]
    /\ cli = [at |-> "idle", status |-> "stopped", engine |-> 0]
    /\ abandoned = {} /\ disturbed = FALSE /\ calls = 0

-----------------------------------------------------------------------------
(* The gateway process, runGatewayRuntime *)

Alive(p) == p \in Pids /\ gateway[p] \notin {"none", "dead"}
HoldsPort(p) == gateway[p] \in {"bound", "ready", "closing"}
GatewayIs(p, s) == gateway' = [gateway EXCEPT ![p] = s]
Runs(p, from, to) == gateway[p] = from /\ GatewayIs(p, to)
                     /\ UNCHANGED <<file, command, cli, abandoned, disturbed, calls>>
(* bootstrap, then the server; a port in use ends the process. *)
Bind(p) == Runs(p, "booting", IF \E q \in Pids : HoldsPort(q) THEN "dead" ELSE "bound")
(* startIntake, then ready, and the signal handlers with it. *)
StartIntake(p) == Runs(p, "bound", "ready")
(* The steps of the finally clause after a signal: intake and server, then  *)
(* the runtime with its turns.                                              *)
CloseServer(p) == Runs(p, "closing", "unbound")
CloseRuntime(p) == Runs(p, "unbound", "dead")
(* Any step fails, or polling ends and takes the process with it. *)
GatewayFails(p) == Alive(p) /\ Runs(p, gateway[p], "dead")

(* SIGTERM starts the shutdown of a ready gateway, once; before and after   *)
(* it the handlers are not there and the signal kills, as SIGKILL does.     *)
Terminated(p) ==
    [gateway EXCEPT ![p] = IF @ = "ready" THEN "closing" ELSE IF Alive(p) THEN "dead" ELSE @]
Killed(p) == [gateway EXCEPT ![p] = "dead"]
NextPid == Cardinality({p \in Pids : gateway[p] # "none"}) + 1

-----------------------------------------------------------------------------
(* The daemon commands *)

Step(c, at) == command' = [command EXCEPT ![c].at = at]
EndCommand(c) == command' = [command EXCEPT ![c] = Waiting]
Running == {c \in Commands : command[c].at # "idle"}

(* loadBackgroundRuntimeState: a live pid is returned, a missing file is    *)
(* nothing, any other content is cleared first and then nothing.            *)
Stale(next) == IF next = "spawn" THEN "clear, spawn" ELSE "clear, idle"
Load(c, found, next) ==
    IF Alive(file)
    THEN command' = [command EXCEPT ![c] =
                       [at |-> found, pid |-> IF found = "idle" THEN 0 ELSE file]]
    ELSE Step(c, IF file = Absent THEN next ELSE Stale(next))
BeginCommand(c) ==
    /\ command[c].at = "idle" /\ calls < MaxCalls /\ calls' = calls + 1
    /\ disturbed' = (disturbed \/ Running # {})
    /\ UNCHANGED <<gateway, file, cli, abandoned>>
StartDaemon(c) == BeginCommand(c) /\ Load(c, "idle", "spawn")
StopDaemon(c) == BeginCommand(c) /\ Load(c, "terminate", "idle")
ClearStale(c, next) ==
    /\ command[c].at = Stale(next)
    /\ file' = Absent /\ Step(c, next)
    /\ UNCHANGED <<gateway, cli, abandoned, disturbed, calls>>
(* getGatewayDaemonStatus, and the CLI's detect, load the file and print. *)
Status(c) == BeginCommand(c) /\ Load(c, "idle", "idle")

Spawn(c) ==
    /\ command[c].at = "spawn"
    /\ \/ NextPid \in Pids /\ GatewayIs(NextPid, "booting")
          /\ command' = [command EXCEPT ![c] = [at |-> "probe", pid |-> NextPid]]
       \/ EndCommand(c) /\ UNCHANGED gateway
    /\ UNCHANGED <<file, cli, abandoned, disturbed, calls>>
(* waitForGatewayReady asks the address, whoever answers there. *)
ProbeReady(c) ==
    /\ command[c].at = "probe"
    /\ \E q \in Pids : gateway[q] = "ready"
    /\ Step(c, "save")
    /\ UNCHANGED <<gateway, file, cli, abandoned, disturbed, calls>>
(* The child died, time is up, or the save fails: the child gets SIGTERM. *)
GiveUp(c) ==
    /\ gateway' = Terminated(command[c].pid)
    /\ abandoned' = abandoned \cup {command[c].pid}
    /\ EndCommand(c)
ProbeFails(c) ==
    /\ command[c].at = "probe"
    /\ GiveUp(c)
    /\ UNCHANGED <<file, cli, disturbed, calls>>
Save(c) ==
    /\ command[c].at = "save"
    /\ file' = command[c].pid /\ EndCommand(c)
    /\ UNCHANGED <<gateway, cli, abandoned, disturbed, calls>>
SaveFails(c) ==
    /\ command[c].at = "save"
    /\ file' \in {file, Garbage}
    /\ GiveUp(c)
    /\ UNCHANGED <<cli, disturbed, calls>>

(* stop: SIGTERM, a wait for the exit with a deadline, SIGKILL for one that *)
(* is still alive, and the file is cleared.                                 *)
Terminate(c) ==
    /\ command[c].at = "terminate"
    /\ gateway' = Terminated(command[c].pid) /\ Step(c, "wait")
    /\ UNCHANGED <<file, cli, abandoned, disturbed, calls>>

(* (seeded fault: a gateway that does not stop is left alone) *)
WaitOnly(c) == UNCHANGED gateway

KillIfAlive(c) == gateway' = IF Alive(command[c].pid) THEN Killed(command[c].pid) ELSE gateway
WaitEnds(c) ==
    /\ command[c].at = "wait"
    /\ KillIfAlive(c) /\ Step(c, "clear")
    /\ UNCHANGED <<file, cli, abandoned, disturbed, calls>>
Clear(c) ==
    /\ command[c].at = "clear"
    /\ file' = Absent /\ EndCommand(c)
    /\ UNCHANGED <<gateway, cli, abandoned, disturbed, calls>>
CommandDies(c) ==
    /\ command[c].at # "idle" /\ EndCommand(c) /\ disturbed' = TRUE
    /\ UNCHANGED <<gateway, file, cli, abandoned, calls>>

-----------------------------------------------------------------------------
(* LiveRuntimeController: the database comes up, a gateway is spawned and   *)
(* nobody waits for it to be ready.                                         *)
CliCall(at, status, engine) ==
    /\ cli' = [at |-> at, status |-> status, engine |-> engine]
    /\ disturbed' = TRUE /\ UNCHANGED <<command, abandoned>>
CliAsk == cli.at = "idle" /\ calls < MaxCalls /\ calls' = calls + 1
CliDetect ==
    /\ CliAsk
    /\ CliCall("idle", IF Alive(file) THEN "running-background" ELSE "stopped", cli.engine)
    /\ file' = IF Alive(file) THEN file ELSE Absent
    /\ UNCHANGED gateway
CliStart ==
    /\ CliAsk /\ cli.status = "stopped" /\ NextPid \in Pids
    /\ \/ CliCall("idle", "running-attached", NextPid) /\ GatewayIs(NextPid, "booting")
       \/ CliCall("idle", "stopped", cli.engine) /\ UNCHANGED gateway
    /\ UNCHANGED file
CliHide ==
    /\ CliAsk /\ cli.engine # 0
    /\ CliCall("idle", "running-background", cli.engine)
    /\ file' = cli.engine
    /\ UNCHANGED gateway
(* stop: its own engine gets SIGTERM and its exit is awaited; an engine     *)
(* that exited before is awaited for ever.  Without one the pid of the file *)
(* gets what the daemon's stop does, and kill throws when it is gone.       *)
CliStop ==
    /\ CliAsk
    /\ \/ /\ cli.engine # 0
          /\ CliCall(IF Alive(cli.engine) THEN "exit" ELSE "hung", "stopping", cli.engine)
          /\ gateway' = Terminated(cli.engine)
       \/ /\ cli.engine = 0 /\ Alive(file)
          /\ CliCall("hidden", "stopping", file)
          /\ UNCHANGED gateway
       \/ /\ cli.engine = 0 /\ ~Alive(file)
          /\ CliCall("clear", "stopping", 0)
          /\ UNCHANGED gateway
    /\ UNCHANGED file
CliTerminate ==
    /\ cli.at = "hidden"
    /\ IF Alive(cli.engine) THEN CliCall("wait", "stopping", cli.engine)
       ELSE CliCall("idle", "stopping", 0)
    /\ gateway' = Terminated(cli.engine)
    /\ UNCHANGED <<file, calls>>
CliExited ==
    /\ cli.at = "exit" /\ ~Alive(cli.engine)
    /\ CliCall("clear", "stopping", 0)
    /\ UNCHANGED <<gateway, file, calls>>
CliWaitEnds ==
    /\ cli.at = "wait"
    /\ gateway' = IF Alive(cli.engine) THEN Killed(cli.engine) ELSE gateway
    /\ CliCall("clear", "stopping", 0)
    /\ UNCHANGED <<file, calls>>
CliClear ==
    /\ cli.at = "clear"
    /\ file' = Absent
    /\ CliCall("idle", "stopped", 0)
    /\ UNCHANGED <<gateway, calls>>

LauncherNext ==
    \/ \E p \in Pids : Bind(p) \/ StartIntake(p) \/ CloseServer(p) \/ CloseRuntime(p) \/ GatewayFails(p)
    \/ \E c \in Commands :
          \/ StartDaemon(c) \/ StopDaemon(c) \/ Status(c)
          \/ \E next \in {"spawn", "idle"} : ClearStale(c, next)
          \/ Spawn(c) \/ ProbeReady(c) \/ ProbeFails(c) \/ Save(c) \/ SaveFails(c)
          \/ Terminate(c) \/ WaitEnds(c) \/ Clear(c) \/ CommandDies(c)
    \/ CliDetect \/ CliStart \/ CliHide
    \/ CliStop \/ CliTerminate \/ CliExited \/ CliWaitEnds \/ CliClear
LauncherSpec == LauncherInit /\ [][LauncherNext]_launcherVars

-----------------------------------------------------------------------------
(* Daemon commands run one after the other lose no gateway: between them a  *)
(* live process is the one in the state file, where status and stop find    *)
(* it, or has SIGTERM from the start that gave it up.  Timeouts, failed     *)
(* saves, hanging shutdowns and gateways that die are among them            *)
(* (startGatewayDaemon, stopGatewayDaemon).                                 *)
NoGatewayLost ==
    ~disturbed /\ Running = {} => \A p \in Pids : Alive(p) => file = p \/ p \in abandoned
-----------------------------------------------------------------------------
(* The inductive invariant behind it.                                       *)

LauncherTypeOK ==
    /\ gateway \in [Pids -> {"none", "booting", "bound", "ready", "closing", "unbound", "dead"}]
    /\ file \in 0 .. Garbage
    /\ command \in [Commands ->
         [at : {"idle", "spawn", "clear, spawn", "clear, idle", "terminate", "wait", "clear",
                "probe", "save"}, pid : 0 .. MaxPid]]
    /\ \A c \in Commands : command[c].at \in {"probe", "save", "terminate", "wait"} => command[c].pid \in Pids
    /\ cli \in [at : {"idle", "exit", "hung", "hidden", "wait", "clear"},
                status : {"stopped", "stopping", "running-attached", "running-background"},
                engine : 0 .. MaxPid]
    /\ abandoned \subseteq Pids /\ disturbed \in BOOLEAN /\ calls \in Nat

(* A live gateway is in the file, given up, or the child of a start that    *)
(* has still to write it there.                                             *)
Starting(c) == command[c].at \in {"probe", "save"}
Accounted ==
    \A p \in Pids : Alive(p) =>
      file = p \/ p \in abandoned \/ \E c \in Commands : Starting(c) /\ command[c].pid = p

(* What a command that runs alone knows of the file: it overwrites or       *)
(* clears no live gateway but the one it is at, and stops the one in it.    *)
FileKnown(c) ==
    /\ command[c].at \in {"spawn", "clear, spawn", "clear, idle", "clear"} => ~Alive(file)
    /\ Starting(c) /\ Alive(file) => file = command[c].pid
    /\ command[c].at \in {"terminate", "wait"} => file = command[c].pid

LauncherInv ==
    /\ LauncherTypeOK
    /\ disturbed \/ /\ \A c, e \in Running : c = e
                    /\ Accounted
                    /\ \A c \in Running : FileKnown(c)
=============================================================================
