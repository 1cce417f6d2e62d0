-------------------------------- MODULE Host --------------------------------
(***************************************************************************)
(* The process that runs the orchestrator: how the daemon is started, found, *)
(* stopped and reset, from the command line and from the TUI, as a process of *)
(* the host or as a container.  There is no lock: what is known of a daemon   *)
(* is three files in .jig/run, written after it was launched.                 *)
(*                                                                            *)
(* Process ids are not reused here, one port stands for the preferred one and *)
(* the daemon's number for a port that was free.  Log excerpts, the image and *)
(* its mounts are left out, and so is a client inside the container.          *)
(***************************************************************************)
EXTENDS Naturals, Sequences, FiniteSets

CONSTANTS
  Operators,     \* the processes that start, stop or reset
  MaxDaemons,    \* bound: daemons launched
  MaxHostFaults  \* bound: operators killed, stops that fail

ASSUME HostAssumption == {MaxDaemons, MaxHostFaults} \subseteq Nat

VARIABLES
  proc,      \* the daemons: [kind, port, st, known]
  pidFile,   \* daemon.pid, 0 if there is none
  ctrFile,   \* daemon.container
  addrFile,  \* daemon.addr: <<>> or <<port>>
  hop,       \* operator -> [at, docker, port, d, alone]
  hostFaults

hostVars == <<proc, pidFile, ctrFile, addrFile, hop, hostFaults>>

Preferred == 0
NoOp == [at |-> "idle", docker |-> FALSE, port |-> 0, d |-> 0, alone |-> TRUE]
Daemons == DOMAIN proc
AliveDaemon(d) == proc[d].st # "dead"
PortInUse(p) == \E d \in Daemons : proc[d].st = "serving" /\ proc[d].port = p
AllocatePort == IF PortInUse(Preferred) THEN Len(proc) + 1 ELSE Preferred
Busy(o) == hop[o].at # "idle"
\* It has looked at what is on file and may still write by that, or remove it.
\* Of those that watch what they started only a container's removes its file
\* without another look; the address decides only where no file names a daemon.
MayWrite(o) == hop[o].at \notin {"idle", "forget"} /\ (hop[o].at \in {"address", "poll"} => hop[o].docker)

-----------------------------------------------------------------------------
(* daemon_status *)

\* Whoever listens at the address that was written down.
OrphanOnPort == {d \in Daemons : addrFile = <<proc[d].port>> /\ proc[d].st = "serving" /\ proc[d].kind # "docker"}

(* Mutant: only the process file is read. *)
StatusFromPidFile ==
  IF pidFile # 0 /\ AliveDaemon(pidFile) THEN {pidFile} ELSE {}
\* The daemon that is running, if one is found: the container file goes before
\* the process file, and both before the address.
RunningDaemon ==
  CASE ctrFile # 0 -> {d \in {ctrFile} : AliveDaemon(d)}
    [] ctrFile = 0 /\ pidFile # 0 -> {d \in {pidFile} : AliveDaemon(d)}
    [] OTHER -> OrphanOnPort
StaleFiles == (ctrFile # 0 \/ pidFile # 0) /\ RunningDaemon = {}

\* An operator has looked and will write: it is alone if nobody else may, and
\* whoever may no longer is.
Begins(o, next) ==
  hop' = [p \in Operators |->
            IF p = o THEN [next EXCEPT !.alone = \A q \in Operators \ {o} : ~MayWrite(q)]
            ELSE IF MayWrite(p) THEN [hop[p] EXCEPT !.alone = FALSE] ELSE hop[p]]

-----------------------------------------------------------------------------
(* daemon_start *)

\* The port, the status; then the stale files go.
StartDaemon(o, docker) ==
  /\ ~Busy(o) /\ RunningDaemon = {} /\ Len(proc) < MaxDaemons
  /\ Begins(o, [NoOp EXCEPT !.at = IF StaleFiles THEN "stale" ELSE "launch",
                            !.docker = docker, !.port = AllocatePort])
  /\ UNCHANGED <<proc, pidFile, ctrFile, addrFile, hostFaults>>
ClearStale(o) ==
  /\ hop[o].at = "stale" /\ hop' = [hop EXCEPT ![o].at = "launch"]
  /\ pidFile' = 0 /\ ctrFile' = 0
  /\ UNCHANGED <<proc, addrFile, hostFaults>>

NewDaemon(kind, p) == [kind |-> kind, port |-> p, st |-> "starting", known |-> FALSE]

LaunchProcess(o) ==
  /\ hop[o].at = "launch" /\ ~hop[o].docker /\ Len(proc) < MaxDaemons
  /\ proc' = Append(proc, NewDaemon("host", hop[o].port))
  /\ hop' = [hop EXCEPT ![o].at = "record", ![o].d = Len(proc) + 1]
  /\ UNCHANGED <<pidFile, ctrFile, addrFile, hostFaults>>

\* find_project_containers, force_remove_container: every container of the
\* project goes before the new one is run.
NoContainers == [d \in Daemons |-> IF proc[d].kind = "docker" THEN [proc[d] EXCEPT !.st = "dead"] ELSE proc[d]]
LaunchContainer(o, ok) ==
  /\ hop[o].at = "launch" /\ hop[o].docker /\ Len(proc) < MaxDaemons
  /\ ok => \A d \in Daemons : NoContainers[d].st = "serving" => NoContainers[d].port # hop[o].port
  /\ proc' = IF ok THEN Append(NoContainers, NewDaemon("docker", hop[o].port)) ELSE NoContainers
  /\ hop' = [hop EXCEPT ![o] = IF ok THEN [@ EXCEPT !.at = "record", !.d = Len(proc) + 1] ELSE NoOp]
  /\ UNCHANGED <<pidFile, ctrFile, addrFile, hostFaults>>

\* The daemon's file first, then the address.
RecordDaemon(o) ==
  /\ hop[o].at = "record" /\ hop' = [hop EXCEPT ![o].at = "address"]
  /\ IF hop[o].docker THEN ctrFile' = hop[o].d /\ UNCHANGED pidFile
                      ELSE pidFile' = hop[o].d /\ UNCHANGED ctrFile
  /\ proc' = [proc EXCEPT ![hop[o].d].known = hop[o].alone]
  /\ UNCHANGED <<addrFile, hostFaults>>
WriteAddress(o) ==
  /\ hop[o].at = "address" /\ hop' = [hop EXCEPT ![o].at = "poll"]
  /\ addrFile' = <<hop[o].port>>
  /\ UNCHANGED <<proc, pidFile, ctrFile, hostFaults>>

(* Mutant: whatever the process file names goes. *)
SeesDeathUnread(o) ==
  /\ hop[o].at = "poll" /\ ~AliveDaemon(hop[o].d)
  /\ Begins(o, [hop[o] EXCEPT !.at = "clear"])
  /\ UNCHANGED <<proc, pidFile, ctrFile, addrFile, hostFaults>>
\* It has died within the time it is watched: its files go, the process file
\* only if it names no other daemon, the container file unread.
StartSeesDeath(o) ==
  /\ hop[o].at = "poll" /\ ~AliveDaemon(hop[o].d)
  /\ IF hop[o].docker \/ pidFile \in {hop[o].d, 0}
     THEN Begins(o, [hop[o] EXCEPT !.at = "clear"])
     ELSE hop' = [hop EXCEPT ![o].at = "forget"]
  /\ UNCHANGED <<proc, pidFile, ctrFile, addrFile, hostFaults>>
ClearRecord(o) ==
  /\ hop[o].at = "clear" /\ hop' = [hop EXCEPT ![o].at = "forget"]
  /\ IF hop[o].docker THEN ctrFile' = 0 /\ UNCHANGED pidFile
                      ELSE pidFile' = 0 /\ UNCHANGED ctrFile
  /\ UNCHANGED <<proc, addrFile, hostFaults>>
ForgetAddress(o) ==
  /\ hop[o].at = "forget" /\ hop' = [hop EXCEPT ![o] = NoOp] /\ addrFile' = <<>>
  /\ UNCHANGED <<proc, pidFile, ctrFile, hostFaults>>
StartSucceeds(o) ==
  /\ hop[o].at = "poll" /\ AliveDaemon(hop[o].d) /\ hop' = [hop EXCEPT ![o] = NoOp]
  /\ UNCHANGED <<proc, pidFile, ctrFile, addrFile, hostFaults>>

-----------------------------------------------------------------------------
(* daemon_stop and reset *)

StopDaemon(o) ==
  /\ ~Busy(o)
  /\ \/ RunningDaemon = {} /\ Begins(o, [NoOp EXCEPT !.at = "tidy"])
     \/ \E d \in RunningDaemon : Begins(o, [NoOp EXCEPT !.at = "kill", !.d = d])
  /\ UNCHANGED <<proc, pidFile, ctrFile, addrFile, hostFaults>>
\* Nothing runs: what is stale goes.
StopTidies(o) ==
  /\ hop[o].at = "tidy" /\ hop' = [hop EXCEPT ![o] = NoOp]
  /\ pidFile' = 0 /\ ctrFile' = 0
  /\ UNCHANGED <<proc, addrFile, hostFaults>>

\* SIGTERM and SIGKILL end a process; docker stop may fail, which nobody looks
\* at.  A daemon that survives is no longer known to anybody.
KillDaemon(o, ok) ==
  /\ hop[o].at = "kill" /\ hop' = [hop EXCEPT ![o].at = "unlink"]
  /\ ok \/ (proc[hop[o].d].kind = "docker" /\ hostFaults < MaxHostFaults)
  /\ hostFaults' = IF ok THEN hostFaults ELSE hostFaults + 1
  /\ proc' = [proc EXCEPT ![hop[o].d] = IF ok THEN [@ EXCEPT !.st = "dead"] ELSE [@ EXCEPT !.known = FALSE]]
  /\ UNCHANGED <<pidFile, ctrFile, addrFile>>
\* A stop is over; jig reset goes on.
StopUnlinks(o, wipes) ==
  /\ hop[o].at = "unlink"
  /\ hop' = [hop EXCEPT ![o] = IF wipes THEN [@ EXCEPT !.at = "wipe"] ELSE NoOp]
  /\ pidFile' = 0 /\ ctrFile' = 0 /\ addrFile' = <<>>
  /\ UNCHANGED <<proc, hostFaults>>

\* jig reset: a daemon that is running is stopped first, which takes its files
\* too; then .jig goes, with .git and the worktrees, without another look.
ResetProject(o) ==
  /\ ~Busy(o) /\ RunningDaemon = {} /\ Begins(o, [NoOp EXCEPT !.at = "wipe"])
  /\ UNCHANGED <<proc, pidFile, ctrFile, addrFile, hostFaults>>
WipeProject(o) ==
  /\ hop[o].at = "wipe" /\ hop' = [hop EXCEPT ![o] = NoOp]
  /\ pidFile' = 0 /\ ctrFile' = 0 /\ addrFile' = <<>>
  /\ UNCHANGED <<proc, hostFaults>>

-----------------------------------------------------------------------------
(* The daemons. *)

\* _run_orchestrator_loop: the server binds the port before the orchestrator
\* starts; if it is taken the process ends.
BindPort(d) ==
  /\ proc[d].st = "starting"
  /\ proc' = [proc EXCEPT ![d].st = IF PortInUse(proc[d].port) THEN "dead" ELSE "serving"]
  /\ UNCHANGED <<pidFile, ctrFile, addrFile, hop, hostFaults>>
DaemonDies(d) ==
  /\ AliveDaemon(d) /\ proc' = [proc EXCEPT ![d].st = "dead"]
  /\ UNCHANGED <<pidFile, ctrFile, addrFile, hop, hostFaults>>
\* jig start in a terminal: no status is read and no file written.
StartForeground ==
  /\ Len(proc) < MaxDaemons /\ proc' = Append(proc, NewDaemon("foreground", Preferred))
  /\ UNCHANGED <<pidFile, ctrFile, addrFile, hop, hostFaults>>
\* The operator's command is killed where it stands.
KillOperator(o) ==
  /\ Busy(o) /\ hostFaults < MaxHostFaults /\ hostFaults' = hostFaults + 1
  /\ hop' = [hop EXCEPT ![o] = NoOp]
  /\ UNCHANGED <<proc, pidFile, ctrFile, addrFile>>

-----------------------------------------------------------------------------
HostInit ==
  /\ proc = <<>> /\ pidFile = 0 /\ ctrFile = 0 /\ addrFile = <<>>
  /\ hop = [o \in Operators |-> NoOp] /\ hostFaults = 0

HostNext ==
  \/ \E o \in Operators :
       \/ \E docker \in BOOLEAN : StartDaemon(o, docker)
       \/ \E ok \in BOOLEAN : LaunchContainer(o, ok) \/ KillDaemon(o, ok) \/ StopUnlinks(o, ok)
       \/ ClearStale(o) \/ LaunchProcess(o) \/ RecordDaemon(o) \/ WriteAddress(o)
       \/ StartSeesDeath(o) \/ ClearRecord(o) \/ ForgetAddress(o) \/ StartSucceeds(o)
       \/ StopDaemon(o) \/ StopTidies(o) \/ ResetProject(o) \/ WipeProject(o) \/ KillOperator(o)
  \/ \E d \in Daemons : BindPort(d) \/ DaemonDies(d)
  \/ StartForeground

HostSpec == HostInit /\ [][HostNext]_hostVars

HostTypeOK ==
  /\ {pidFile, ctrFile} \subseteq 0..Len(proc)
  /\ \A d \in Daemons : proc[d].st \in {"starting", "serving", "dead"}
  /\ \A o \in Operators : hop[o].at \in
       {"idle", "stale", "launch", "record", "address", "poll", "clear", "forget", "kill", "unlink", "wipe", "tidy"}

\* Two orchestrators on one project would run every ticket twice.  However the
\* daemons die, however starts and stops are killed and whatever files that
\* leaves, at most one daemon is alive among those that a start wrote down and no
\* failed docker stop left alive, where that start had the files to itself: from
\* its look at them until it wrote, nobody else looked at them to write or remove
\* them by it.  Others may be watching daemons of theirs all the while and clean
\* up after one that died.  Starts and stops that do overlap have no lock, and
\* two daemons of theirs may both run.
OneDaemon ==
  Cardinality({d \in Daemons : AliveDaemon(d) /\ proc[d].known}) <= 1
=============================================================================
