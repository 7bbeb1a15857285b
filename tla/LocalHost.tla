----------------------------- MODULE LocalHost -----------------------------
(***************************************************************************)
(* The `codexnomad` processes of one user on one machine, and the files    *)
(* they share without a lock: machine-id, daemon.pid and daemon.status     *)
(* (config.Load, package service, app.Run, doctor).  Every command loads   *)
(* the configuration and may mint the machine id; `start` is the service;  *)
(* `stop` kills the pid it reads; `install` hands the service to the       *)
(* supervisor of the system; `doctor` and the sessions call the relay,     *)
(* through RelayGate.  `devices` is DeviceRegistry's subject, the session  *)
(* itself SessionLifecycle's and DaemonSession's.                          *)
(*                                                                         *)
(* A process is its pid: it may be launched again after its end, with      *)
(* another command.  os.WriteFile truncates and then writes: a reader, or  *)
(* a kill, may come between.                                               *)
(***************************************************************************)
EXTENDS RelayGate

CONSTANTS
  Procs,       \* pids
  None,
  MaxLaunches, \* bound: commands the user types
  MaxFaults    \* bound: kills and signals from elsewhere

ASSUME HostAssumption ==
  /\ Callers = Procs /\ None \notin Procs
  /\ MaxLaunches \in Nat /\ MaxFaults \in Nat

Agents == {"codex", "claude"}
Roles == {"start", "stop", "install", "doctor", "session"}

VARIABLES
  machineId,  \* the machine-id file; 0: absent or blank
  pidFile,    \* daemon.pid; None: absent or blank
  statusFile, \* daemon.status: the pid that says running; None otherwise
  pc, role,   \* per process: the step it has reached, its command
  id,         \* per process: cfg.MachineID; 0 until it is loaded
  target,     \* per process: the pid `stop` has read
  supervisor, \* what install leaves: "none", "always" or "logon"
  due,        \* the supervisor is to launch the service
  supervised, \* the process it launched
  minted, launches, faults,
  raced,      \* history: a process found no id while another was minting one
  overlapped, \* history: a service wrote its pid while another was alive
  stale,      \* history: the files a killed service left behind
  doubt       \* history: the stops whose target has ended, or was stale

files == <<machineId, pidFile, statusFile>>
control == <<supervisor, due, supervised, launches, faults>>
history == <<raced, overlapped, stale, doubt>>
vars == <<files, pc, role, id, target, control, minted, history, gateVars>>

-----------------------------------------------------------------------------
\* The service from the moment its pid file is open, and once it names it.
Owns(p) ==
  role[p] = "start" /\ pc[p] \in {"pid", "write", "wrote", "serving", "stop", "stopped", "remove"}
Serves(p) == Owns(p) /\ pc[p] # "pid"

To(p, step) == pc' = [pc EXCEPT ![p] = step]

At(p, r, step) == role[p] = r /\ pc[p] = step

\* Mutant of Restarts: Restart=on-failure.
RestartsOnFailure(ps) ==
  supervised \in ps /\ supervisor = "always" /\ pc[supervised] # "remove"

\* The unit says Restart=always, the plist KeepAlive; a logon task runs once.
Restarts(ps) == supervised \in ps /\ supervisor = "always"

\* Processes end: what they hold is gone, their pids are free.
End(ps) ==
  /\ pc' = [p \in Procs |-> IF p \in ps THEN "idle" ELSE pc[p]]
  /\ role' = [p \in Procs |-> IF p \in ps THEN "none" ELSE role[p]]
  /\ id' = [p \in Procs |-> IF p \in ps THEN 0 ELSE id[p]]
  /\ target' = [p \in Procs |-> IF p \in ps THEN None ELSE target[p]]
  /\ supervised' = IF supervised \in ps THEN None ELSE supervised
  /\ due' = (due \/ Restarts(ps))
  /\ doubt' = (doubt \cup {p \in Procs : target[p] \in ps}) \ ps

\* A process has done its work.
Exit(p) ==
  /\ End({p})
  /\ UNCHANGED <<supervisor, launches, faults, minted, raced, overlapped, stale, gateVars>>

\* p is killed, none of its deferred calls run; those of ps end with it.
Killed(p, ps) ==
  /\ End(ps \cup {p})
  /\ stale' = IF Owns(p) THEN {"pid", "status"} ELSE stale
  /\ call' = [call EXCEPT ![p] = NoCall]
  /\ UNCHANGED <<files, minted, raced, overlapped, supervisor, launches,
                 minute, window, counts, admitted, setBack>>

Begin(p, r) ==
  /\ pc[p] = "idle"
  /\ To(p, "load")
  /\ role' = [role EXCEPT ![p] = r]
  /\ UNCHANGED <<files, id, target, supervisor, minted, history, gateVars>>

\* The user runs a command.  A pid is always left for the supervisor.
Launch(p, r) ==
  /\ launches < MaxLaunches
  /\ \E q \in Procs \ {p} : pc[q] = "idle"
  /\ launches' = launches + 1
  /\ Begin(p, r)
  /\ UNCHANGED <<faults, due, supervised>>

\* systemd (Restart=always), launchd (KeepAlive) or the logon task.
Supervise(p) ==
  /\ due
  /\ due' = FALSE
  /\ supervised' = p
  /\ Begin(p, "start")
  /\ UNCHANGED <<launches, faults>>

-----------------------------------------------------------------------------
(* config.Load *)

\* Mutant of LoadMachineID: every load mints.
LoadMachineIDAlways(p) ==
  /\ pc[p] = "load"
  /\ To(p, "mint")
  /\ raced' = (raced \/ \E q \in Procs : pc[q] \in {"mint", "mintWrite"})
  /\ UNCHANGED <<id, files, role, target, control, minted, overlapped, stale, doubt, gateVars>>

\* loadMachineID reads the file; nothing in it means an id must be minted.
LoadMachineID(p) ==
  /\ pc[p] = "load"
  /\ IF machineId # 0
       THEN To(p, "run") /\ id' = [id EXCEPT ![p] = machineId] /\ UNCHANGED raced
       ELSE /\ To(p, "mint")
            /\ raced' = (raced \/ \E q \in Procs : pc[q] \in {"mint", "mintWrite"})
            /\ UNCHANGED id
  /\ UNCHANGED <<files, role, target, control, minted, overlapped, stale, doubt, gateVars>>

OpenMachineID(p) ==
  /\ pc[p] = "mint"
  /\ To(p, "mintWrite")
  /\ machineId' = 0
  /\ UNCHANGED <<pidFile, statusFile, role, id, target, control, minted, history, gateVars>>

WriteMachineID(p) ==
  /\ pc[p] = "mintWrite"
  /\ To(p, "run")
  /\ minted' = minted + 1
  /\ machineId' = minted + 1
  /\ id' = [id EXCEPT ![p] = minted + 1]
  /\ UNCHANGED <<pidFile, statusFile, role, target, control, history, gateVars>>

Load(p) == LoadMachineID(p) \/ OpenMachineID(p) \/ WriteMachineID(p)

-----------------------------------------------------------------------------
(* service.RunForeground *)

\* Mutant of OpenPID: a pid file that exists is left alone.
OpenPIDIfAbsent(p) ==
  /\ At(p, "start", "run")
  /\ overlapped' = (overlapped \/ \E q \in Procs : Owns(q))
  /\ pidFile' = pidFile
  /\ To(p, IF pidFile = None THEN "pid" ELSE "write")
  /\ UNCHANGED <<machineId, statusFile, role, id, target, control, minted, raced, stale,
                 doubt, gateVars>>

OpenPID(p) ==
  /\ At(p, "start", "run")
  /\ overlapped' = (overlapped \/ \E q \in Procs : Owns(q))
  /\ pidFile' = None
  /\ To(p, "pid")
  /\ UNCHANGED <<machineId, statusFile, role, id, target, control, minted, raced, stale,
                 doubt, gateVars>>

WritePID(p) ==
  /\ At(p, "start", "pid")
  /\ To(p, "write")
  /\ pidFile' = p
  /\ stale' = stale \ {"pid"}
  /\ UNCHANGED <<machineId, statusFile, role, id, target, control, minted, raced,
                 overlapped, doubt, gateVars>>

\* writeStatus("running"), first and at every tick.
OpenStatus(p) ==
  /\ role[p] = "start" /\ pc[p] \in {"write", "stop"}
  /\ To(p, IF pc[p] = "write" THEN "wrote" ELSE "stopped")
  /\ statusFile' = None
  /\ UNCHANGED <<machineId, pidFile, role, id, target, control, minted, history, gateVars>>

WriteRunning(p) ==
  /\ At(p, "start", "wrote")
  /\ To(p, "serving")
  /\ statusFile' = p
  /\ stale' = stale \ {"status"}
  /\ UNCHANGED <<machineId, pidFile, role, id, target, control, minted, raced, overlapped,
                 doubt, gateVars>>

Tick(p) ==
  /\ At(p, "start", "serving")
  /\ To(p, "write")
  /\ UNCHANGED <<files, role, id, target, control, minted, history, gateVars>>

\* SIGINT or SIGTERM: the loop ends and the deferred calls run, last one first.
Signal(p) ==
  /\ At(p, "start", "serving")
  /\ faults < MaxFaults /\ faults' = faults + 1
  /\ To(p, "stop")
  /\ UNCHANGED <<files, role, id, target, supervisor, due, supervised, launches, minted,
                 history, gateVars>>

\* Mutant of WriteStopped: the deferred call says running again.
WriteStoppedRunning(p) ==
  /\ At(p, "start", "stopped")
  /\ To(p, "remove")
  /\ statusFile' = p
  /\ UNCHANGED <<machineId, pidFile, role, id, target, control, minted, history, gateVars>>

WriteStopped(p) ==
  /\ At(p, "start", "stopped")
  /\ To(p, "remove")
  /\ statusFile' = None
  /\ UNCHANGED <<machineId, pidFile, role, id, target, control, minted, history, gateVars>>

\* Mutant of RemovePID: the pid file is left behind.
RemovePIDNot(p) ==
  /\ At(p, "start", "remove")
  /\ Exit(p)
  /\ UNCHANGED files

\* os.Remove takes away the file, whoever wrote it last.
RemovePID(p) ==
  /\ At(p, "start", "remove")
  /\ pidFile' = None
  /\ Exit(p)
  /\ UNCHANGED <<machineId, statusFile>>

Start(p) ==
  \/ OpenPID(p) \/ WritePID(p) \/ OpenStatus(p) \/ WriteRunning(p) \/ WriteStopped(p)
  \/ RemovePID(p)

-----------------------------------------------------------------------------
(* stop, install *)

\* No file, or no number in it: there is nothing to stop.
StopFindsNothing(p) ==
  /\ At(p, "stop", "run")
  /\ pidFile = None
  /\ Exit(p)
  /\ UNCHANGED files

ReadPID(p) ==
  /\ At(p, "stop", "run")
  /\ pidFile # None
  /\ To(p, "kill")
  /\ target' = [target EXCEPT ![p] = pidFile]
  /\ doubt' = IF "pid" \in stale THEN doubt \cup {p} ELSE doubt
  /\ UNCHANGED <<files, role, id, control, minted, raced, overlapped, stale, gateVars>>

\* Process.Kill: whatever has this pid now, and nothing tells it to clean up.
Stop(p) ==
  /\ At(p, "stop", "kill")
  /\ IF pc[target[p]] = "idle"
       THEN Exit(p) /\ UNCHANGED files
       ELSE Killed(target[p], {p}) /\ UNCHANGED faults

\* A service that runs is left alone; another supervisor there is not.
InstallAs(p, kind) ==
  /\ supervisor \in {"none", kind}
  /\ supervisor' = kind
  /\ due' = (supervised = None)
  /\ UNCHANGED <<files, role, id, target, supervised, launches, faults, minted, history,
                 gateVars>>

\* systemctl enable --now, launchctl load (after an unload, which is a Signal), and
\* schtasks /Run start the service at once.
InstallSystemdUser(p) == InstallAs(p, "always")
InstallLaunchd(p) == InstallAs(p, "always")
InstallWindowsTask(p) == InstallAs(p, "logon")

Install(p) ==
  /\ At(p, "install", "run")
  /\ To(p, "installed")
  /\ InstallSystemdUser(p) \/ InstallLaunchd(p) \/ InstallWindowsTask(p)

-----------------------------------------------------------------------------
(* doctor and the sessions *)

\* The shim of the package manager or the PATH, and not the sandboxed binary of the
\* Windows app.
ResolveExecutable(agent, found, sandboxed) ==
  agent \in found /\ ~(agent = "codex" /\ sandboxed)

\* doctor also runs it with --version; a session does not.
CheckOneAgentCLI(agent, found, broken, sandboxed) ==
  ResolveExecutable(agent, found, sandboxed) /\ agent \notin broken

\* An agent that was named must run, of "all" one.
CheckAgentCLIs(wanted, found, broken, sandboxed) ==
  LET ok == {a \in Agents : CheckOneAgentCLI(a, found, broken, sandboxed)}
  IN IF wanted \in Agents THEN wanted \in ok ELSE ok # {}

\* A relay that does not answer, or refuses, is only a warning unless it is required.
RelayFailure(ok, require) == ~ok /\ require

\* Both call the relay, doctor its /healthz, a session its /v1/relay.  A session
\* without an agent CLI still dials, and then fails.
CallRelay(p) ==
  /\ role[p] \in {"doctor", "session"} /\ pc[p] = "run"
  /\ To(p, "call")
  /\ Stamp(p)
  /\ UNCHANGED <<files, role, id, target, control, minted, history>>

\* handleDoctor: the machine id, the relay and the agents decide.
Doctor(p) ==
  /\ At(p, "doctor", "call")
  /\ \E require \in BOOLEAN, sandboxed \in BOOLEAN, found \in SUBSET Agents,
        broken \in SUBSET Agents, wanted \in Agents \cup {"all"} :
       To(p, IF /\ id[p] # 0 /\ ~RelayFailure(Allows(p), require)
                /\ CheckAgentCLIs(wanted, found, broken, sandboxed)
               THEN "ready" ELSE "failed")
  /\ Count(p)
  /\ UNCHANGED <<files, role, id, target, control, minted, history>>

\* run: without its agent, or without a relay it requires, the session ends.
Session(p) ==
  /\ At(p, "session", "call")
  /\ \E require \in BOOLEAN, sandboxed \in BOOLEAN, found \in SUBSET Agents, agent \in Agents :
       To(p, IF ~RelayFailure(Allows(p), require) /\ ResolveExecutable(agent, found, sandboxed)
               THEN "live" ELSE "failed")
  /\ Count(p)
  /\ UNCHANGED <<files, role, id, target, control, minted, history>>

Leave(p) ==
  /\ pc[p] \in {"installed", "ready", "failed"}
  /\ Exit(p)
  /\ UNCHANGED files

\* The agent of a session exits.
SessionEnds(p) ==
  /\ pc[p] = "live"
  /\ Exit(p)
  /\ UNCHANGED files

\* A kill from elsewhere, at any step.
Die(p) ==
  /\ pc[p] # "idle"
  /\ faults < MaxFaults /\ faults' = faults + 1
  /\ Killed(p, {})

Clock ==
  /\ MinutePasses
  /\ UNCHANGED <<files, pc, role, id, target, control, minted, history>>

-----------------------------------------------------------------------------
Init ==
  /\ machineId = 0 /\ pidFile = None /\ statusFile = None
  /\ pc = [p \in Procs |-> "idle"] /\ role = [p \in Procs |-> "none"]
  /\ id = [p \in Procs |-> 0] /\ target = [p \in Procs |-> None]
  /\ supervisor = "none" /\ due = FALSE /\ supervised = None
  /\ minted = 0 /\ launches = 0 /\ faults = 0
  /\ raced = FALSE /\ overlapped = FALSE /\ stale = {} /\ doubt = {}
  /\ GateInit

Command(p) ==
  \/ Load(p) \/ Start(p) \/ StopFindsNothing(p) \/ ReadPID(p) \/ Stop(p) \/ Install(p)
  \/ CallRelay(p) \/ Doctor(p) \/ Session(p) \/ Leave(p)

Next ==
  \/ \E p \in Procs :
       \/ \E r \in Roles : Launch(p, r)
       \/ Supervise(p) \/ Command(p) \/ Tick(p) \/ Signal(p) \/ SessionEnds(p) \/ Die(p)
  \/ Clock

Spec == Init /\ [][Next]_vars

\* The processes run and the supervisor does its work.  Nobody types, kills or
\* signals fairly, and no session has to end.
HostRuns ==
  /\ \A p \in Procs : WF_vars(Command(p))
  /\ WF_vars(\E p \in Procs : Supervise(p))

FairSpec == Spec /\ HostRuns

-----------------------------------------------------------------------------
(* Properties *)

\* Types.
TypeOK ==
  /\ machineId \in 0..minted /\ minted \in Nat
  /\ pidFile \in Procs \cup {None} /\ statusFile \in Procs \cup {None}
  /\ pc \in [Procs -> {"idle", "load", "mint", "mintWrite", "run", "pid", "write", "wrote",
                       "serving", "stop", "stopped", "remove", "kill", "call", "live",
                       "ready", "failed", "installed"}]
  /\ role \in [Procs -> Roles \cup {"none"}]
  /\ id \in [Procs -> 0..minted] /\ target \in [Procs -> Procs \cup {None}]
  /\ supervisor \in {"none", "always", "logon"} /\ due \in BOOLEAN
  /\ supervised \in Procs \cup {None}
  /\ launches \in 0..MaxLaunches /\ faults \in 0..MaxFaults
  /\ raced \in BOOLEAN /\ overlapped \in BOOLEAN
  /\ stale \subseteq {"pid", "status"} /\ doubt \subseteq Procs
  /\ GateTypeOK

\* Every process that has loaded the machine id has the one in the file, although
\* a first run may be killed between opening and writing it; only two first runs
\* at the same time give one machine two ids (loadMachineID).
MachineIdAgrees == ~raced => \A p \in Procs : id[p] # 0 => id[p] = machineId

\* daemon.pid names the service that runs, after kills, restarts and stale files
\* too, unless two services ran at the same time (RunForeground).
PidFileNamesService == ~overlapped => \A p \in Procs : Serves(p) => pidFile = p

\* daemon.status says running for a service that runs.  Only a killed service, which
\* is what `stop` leaves, is reported as running until the next one has started.
StatusIsTrue ==
  ~overlapped /\ "status" \notin stale /\ statusFile # None => Serves(statusFile)

\* What the files say of the service is so: both of the above.
HostFilesAreTrue == PidFileNamesService /\ StatusIsTrue

\* stop kills the service and nothing else, although a pid may have another process
\* by then: only a pid that a killed service left behind, or whose process ended
\* after stop had read it, can be somebody else's (Stop).
StopHitsService ==
  ~overlapped => \A p \in Procs : target[p] # None /\ p \notin doubt => Serves(target[p])

\* An installed service runs again after whatever ends it, `codexnomad stop` too,
\* once nobody stops it any more (installSystemdUser, installLaunchd).
ServiceComesBack == supervisor = "always" ~> [](\E p \in Procs : Serves(p))
=============================================================================
