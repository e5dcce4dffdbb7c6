---------------------------- MODULE DaemonControl ----------------------------
(***************************************************************************)
(* The commands that control the local daemon (apps/ums/src/               *)
(* daemon-lifecycle.ts, daemon-supervisor.ts, index.ts): install, start,   *)
(* stop, restart and uninstall, against the daemon process, which records  *)
(* its pid in the sync state file and rewrites that file in every cycle.   *)
(* A cycle works on the copy it read when it took the sync lock; DaemonSync *)
(* has the finer steps of one save.  Pids are not reused here.             *)
(***************************************************************************)
EXTENDS Integers, FiniteSets

CONSTANTS
  Pid,          \* pids of the daemons that are spawned, a set of numbers
  Command,      \* terminals that run a command
  SyncCommand,  \* the terminal that runs `ums sync`
  NoPid, MaxCommands  \* bound on the commands of a behaviour

ASSUME DaemonControlAssumption ==
  /\ Pid \subseteq Nat /\ NoPid \notin Pid /\ MaxCommands \in Nat
  /\ SyncCommand \notin Pid \cup {NoPid}

Cycler == Pid \cup {SyncCommand}

VARIABLES
  control,   \* install record and registration: [recorded, files, enabled]
  syncState, \* the sync state file: [pid, ran, error]; error is whose cycle failed
  daemon,    \* the processes
  dying,     \* those that were sent a signal
  cycle,     \* the copy of a cycler that is inside the sync lock
  command,   \* what each terminal does: [op, at, pid]
  calm,      \* whether commands are run one at a time and to their end
  begun      \* how many commands were given

daemonVars == <<control, syncState, daemon, dying, cycle, command, calm, begun>>

Quiet == [op |-> "none", at |-> "none", pid |-> NoPid]
NoCycle == [pid |-> NoPid, ran |-> FALSE, error |-> NoPid, in |-> FALSE]
DaemonInit ==
  /\ control = [recorded |-> FALSE, files |-> FALSE, enabled |-> FALSE]
  /\ syncState = [pid |-> NoPid, ran |-> FALSE, error |-> NoPid]
  /\ daemon = [p \in Pid |-> "none"] /\ dying = {}
  /\ cycle = [c \in Cycler |-> NoCycle]
  /\ command = [t \in Command |-> Quiet]
  /\ calm \in BOOLEAN /\ begun = 0

ProcessAlive(p) == p \in Pid /\ daemon[p] \in {"spawned", "checked", "running"}

\* clearStaleDaemonPid: whoever reads the status forgets the pid of a dead daemon.
Cleared(s) == IF ProcessAlive(s.pid) THEN s ELSE [s EXCEPT !.pid = NoPid]

InLock == {c \in Cycler : cycle[c].in}

------------------------------------------------------------------------------
(* The daemon process: `ums sync-daemon`.                                     *)

DaemonKeeps == UNCHANGED <<control, command, calm, begun, dying>>

\* It leaves again when another one is recorded and alive.
SeesAnother(p) == ProcessAlive(syncState.pid) /\ syncState.pid # p
DaemonChecks(p) ==
  /\ daemon[p] = "spawned"
  /\ syncState' = Cleared(syncState)
  /\ daemon' = [daemon EXCEPT ![p] = IF SeesAnother(p) THEN "dead" ELSE "checked"]
  /\ UNCHANGED cycle /\ DaemonKeeps

DaemonRecords(p) ==
  /\ daemon[p] = "checked"
  /\ syncState' = [syncState EXCEPT !.pid = p]
  /\ daemon' = [daemon EXCEPT ![p] = "running"]
  /\ UNCHANGED cycle /\ DaemonKeeps

\* runConfiguredSyncDaemon ended: the pid is cleared whoever's it is.
DaemonLeaves(p) ==
  /\ daemon[p] = "running" /\ ~cycle[p].in
  /\ syncState' = [syncState EXCEPT !.pid = NoPid]
  /\ daemon' = [daemon EXCEPT ![p] = "dead"]
  /\ UNCHANGED cycle /\ DaemonKeeps

\* SIGTERM has no handler: the process dies where it is, and a stale lock is
\* reclaimed.
DaemonDies(p) ==
  /\ p \in dying /\ ProcessAlive(p)
  /\ daemon' = [daemon EXCEPT ![p] = "dead"]
  /\ cycle' = [cycle EXCEPT ![p] = NoCycle]
  /\ dying' = dying \ {p}
  /\ UNCHANGED <<control, syncState, command, calm, begun>>

MayCycle(c) ==
  IF c = SyncCommand THEN ~calm \/ \A t \in Command : command[t].op = "none"
  ELSE daemon[c] = "running"

CycleStarts(c) ==
  /\ MayCycle(c) /\ InLock = {}
  /\ cycle' = [cycle EXCEPT ![c] = [pid |-> syncState.pid, ran |-> syncState.ran,
                                    error |-> syncState.error, in |-> TRUE]]
  /\ UNCHANGED <<syncState, daemon>> /\ DaemonKeeps

\* The state is written before the delivery, still with the error of the cycle
\* before, and after it.
CycleRan(c) ==
  /\ cycle[c].in /\ ~cycle[c].ran
  /\ cycle' = [cycle EXCEPT ![c].ran = TRUE]
  /\ syncState' = [pid |-> cycle[c].pid, ran |-> TRUE, error |-> cycle[c].error]
  /\ UNCHANGED daemon /\ DaemonKeeps

CycleEnds(c, failed) ==
  /\ cycle[c].in /\ cycle[c].ran
  /\ syncState' = [pid |-> cycle[c].pid, ran |-> TRUE,
                   error |-> IF failed THEN c ELSE NoPid]
  /\ cycle' = [cycle EXCEPT ![c] = NoCycle]
  /\ UNCHANGED daemon /\ DaemonKeeps

\* An I/O error before the state is written.
CycleFails(c) ==
  /\ cycle[c].in
  /\ cycle' = [cycle EXCEPT ![c] = NoCycle]
  /\ UNCHANGED <<syncState, daemon>> /\ DaemonKeeps

------------------------------------------------------------------------------
(* The commands.  A step reads the status, then acts on what it read.         *)

Goes(t, op, at, pid) == command' = [command EXCEPT ![t] = [op |-> op, at |-> at, pid |-> pid]]
Ends(t) == command' = [command EXCEPT ![t] = Quiet]

MayCommand(t) ==
  /\ command[t].op = "none" /\ begun < MaxCommands /\ begun' = begun + 1
  /\ calm => /\ \A u \in Command : command[u].op = "none"
             /\ ~cycle[SyncCommand].in

\* install: files, the old registration away, the new one in, then the record; a
\* native command may fail between them.
InstallResult(failsAt) ==
  [recorded |-> IF failsAt = "never" THEN TRUE ELSE control.recorded, files |-> TRUE,
   enabled |-> CASE failsAt = "remove" -> control.enabled
                 [] failsAt = "enable" -> FALSE
                 [] failsAt = "never" -> TRUE]
\* Nothing is removed or disabled where nothing is registered, so nothing fails.
NativeMayFail(failsAt) == failsAt \in {"remove", "disable"} => control.enabled
InstallDaemon(t, failsAt) ==
  /\ MayCommand(t) /\ NativeMayFail(failsAt)
  /\ control' = InstallResult(failsAt)
  /\ syncState' = IF failsAt = "never" THEN Cleared(syncState) ELSE syncState
  /\ UNCHANGED <<daemon, dying, cycle, command, calm>>

\* Every command but install wants the record, and every one that reads the status
\* forgets a stale pid.
ReadsStatus(t) ==
  /\ MayCommand(t) /\ control.recorded
  /\ syncState' = Cleared(syncState)
  /\ UNCHANGED <<control, daemon, dying, cycle, calm>>
Recorded == ProcessAlive(syncState.pid)

\* Already running: refused.
StartDaemon(t) ==
  /\ ReadsStatus(t)
  /\ IF Recorded THEN UNCHANGED command ELSE Goes(t, "start", "spawn", NoPid)
\* Not running: refused.
StopDaemon(t) ==
  /\ ReadsStatus(t)
  /\ IF Recorded THEN Goes(t, "stop", "signal", syncState.pid) ELSE UNCHANGED command
\* restart is a stop, refused when none runs, and then a start.
RestartDaemon(t) ==
  /\ ReadsStatus(t)
  /\ IF Recorded THEN Goes(t, "restart", "signal", syncState.pid) ELSE UNCHANGED command
UninstallBegins(t) ==
  /\ ReadsStatus(t)
  /\ Goes(t, "uninstall", IF Recorded THEN "signal" ELSE "unregister", syncState.pid)
\* status, and doctor, which reads it too; they need no record.
StatusDaemon(t) ==
  /\ MayCommand(t) /\ syncState' = Cleared(syncState)
  /\ UNCHANGED <<control, daemon, dying, cycle, calm, command>>

\* start and stop write the record they read back, with their times.
RecordWritten == [control EXCEPT !.recorded = TRUE]

SpawnDaemon(t) ==
  /\ command[t].at = "spawn"
  /\ \E p \in Pid :
       /\ daemon[p] = "none" /\ \A q \in Pid : q < p => daemon[q] # "none"
       /\ daemon' = [daemon EXCEPT ![p] = "spawned"]
       /\ Goes(t, command[t].op, "wait", p)
  /\ control' = RecordWritten
  /\ UNCHANGED <<syncState, dying, cycle, calm, begun>>

\* What a poll of waitForHealthyDaemon finds.
Polled(p) ==
  LET s == Cleared(syncState)
  IN CASE ~ProcessAlive(p) /\ s.pid = NoPid -> "exited"
       [] ~(~ProcessAlive(p) /\ s.pid = NoPid) /\ s.error # NoPid -> "error"
       [] s.error = NoPid /\ s.pid = p /\ s.ran -> "healthy"
       [] OTHER -> "waiting"

WaitHealthy(t) ==
  /\ command[t].at = "wait"
  /\ syncState' = Cleared(syncState)
  /\ LET p == command[t].pid
         found == Polled(p)
     IN IF found = "healthy" THEN Ends(t)
        ELSE Goes(t, command[t].op, "kill", p)  \* at once on an error, or it timed out
  /\ UNCHANGED <<control, daemon, dying, cycle, calm, begun>>

\* A daemon to stop, or one that was started and did not become healthy.
SignalDaemon(t) ==
  /\ command[t].at \in {"signal", "kill"}
  /\ dying' = IF ProcessAlive(command[t].pid) THEN dying \cup {command[t].pid} ELSE dying
  /\ Goes(t, command[t].op, IF command[t].at = "kill" THEN "killed" ELSE "exit",
          command[t].pid)
  /\ UNCHANGED <<control, syncState, daemon, cycle, calm, begun>>

\* SIGKILL follows a SIGTERM that took too long.  A process that survives both is
\* given up; it is not when commands are run calmly.
\* Faulty: the process is not waited for.
SignalIsEnough(p) == TRUE
StopIsOver(p) == calm => ~ProcessAlive(p)

Stopped(t, op, at) ==
  /\ command[t].op = op /\ command[t].at = at /\ StopIsOver(command[t].pid)
  /\ UNCHANGED <<daemon, dying, cycle, calm, begun>>
StopGivesUp(t) ==
  /\ Stopped(t, command[t].op, "exit") /\ ProcessAlive(command[t].pid)
  /\ Ends(t) /\ UNCHANGED <<control, syncState>>
StopEnds(t) ==
  /\ Stopped(t, "stop", "exit") /\ ~ProcessAlive(command[t].pid)
  /\ Ends(t) /\ syncState' = Cleared(syncState) /\ control' = RecordWritten
\* The start that follows reads the status again.
RestartGoesOn(t) ==
  /\ Stopped(t, "restart", "exit") /\ ~ProcessAlive(command[t].pid)
  /\ syncState' = Cleared(syncState) /\ control' = RecordWritten
  /\ IF Recorded THEN Ends(t) ELSE Goes(t, "restart", "spawn", NoPid)
UninstallGoesOn(t) ==
  /\ Stopped(t, "uninstall", "exit") /\ ~ProcessAlive(command[t].pid)
  /\ Goes(t, "uninstall", "unregister", NoPid) /\ UNCHANGED <<control, syncState>>
\* A start that failed: whether its daemon could be stopped or not.
StartFails(t) ==
  /\ Stopped(t, command[t].op, "killed")
  /\ Ends(t) /\ UNCHANGED <<control, syncState>>

\* Faulty: the control files go first.
UninstallRecordFirst(failsAt) ==
  [recorded |-> FALSE, files |-> failsAt # "never",
   enabled |-> failsAt = "disable" /\ control.enabled]
\* uninstall: the registration goes, then the descriptor, then the control files.
UninstallResult(failsAt) ==
  [recorded |-> failsAt # "never" /\ control.recorded,
   files |-> failsAt = "disable" /\ control.files,
   enabled |-> failsAt = "disable" /\ control.enabled]
UninstallDaemon(t, failsAt) ==
  /\ command[t].at = "unregister"
  /\ NativeMayFail(failsAt)
  /\ control' = UninstallResult(failsAt)
  /\ syncState' = IF failsAt = "never" THEN Cleared(syncState) ELSE syncState
  /\ Ends(t)
  /\ UNCHANGED <<daemon, dying, cycle, calm, begun>>

\* The terminal is closed while the command runs.
CommandDies(t) ==
  /\ ~calm /\ command[t].op # "none"
  /\ Ends(t)
  /\ UNCHANGED <<control, syncState, daemon, dying, cycle, calm, begun>>

DaemonNext ==
  \/ \E p \in Pid : DaemonChecks(p) \/ DaemonRecords(p) \/ DaemonLeaves(p) \/ DaemonDies(p)
  \/ \E c \in Cycler : CycleStarts(c) \/ CycleRan(c) \/ CycleFails(c)
                       \/ \E failed \in BOOLEAN : CycleEnds(c, failed)
  \/ \E t \in Command :
       \/ \E at \in {"remove", "enable", "never"} : InstallDaemon(t, at)
       \/ StartDaemon(t) \/ StopDaemon(t) \/ RestartDaemon(t) \/ UninstallBegins(t)
       \/ StatusDaemon(t) \/ SpawnDaemon(t) \/ WaitHealthy(t) \/ StartFails(t)
       \/ SignalDaemon(t) \/ StopGivesUp(t) \/ StopEnds(t) \/ RestartGoesOn(t)
       \/ UninstallGoesOn(t) \/ CommandDies(t)
       \/ \E at \in {"disable", "delete", "never"} : UninstallDaemon(t, at)

DaemonSpec == DaemonInit /\ [][DaemonNext]_daemonVars

------------------------------------------------------------------------------
DaemonTypeOK ==
  /\ control \in [recorded : BOOLEAN, files : BOOLEAN, enabled : BOOLEAN]
  /\ syncState \in [pid : Pid \cup {NoPid}, ran : BOOLEAN, error : Cycler \cup {NoPid}]
  /\ daemon \in [Pid -> {"none", "spawned", "checked", "running", "dead"}]
  /\ dying \subseteq Pid /\ calm \in BOOLEAN /\ begun \in 0..MaxCommands

\* Cycles of daemons and of `ums sync` never overlap.
OneCycle == Cardinality(InLock) <= 1

\* While commands are run one at a time and to their end there is one daemon: a
\* start that failed does not leave one behind that the next start cannot see.
OneDaemon ==
  calm => Cardinality({p \in Pid : ProcessAlive(p) /\ p \notin dying}) <= 1

\* Then the status file knows the daemon that runs, when no command is at work.
RunningIsRecorded ==
  calm /\ (\A t \in Command : command[t].op = "none") =>
    \A p \in Pid : daemon[p] = "running" /\ p \notin dying => syncState.pid = p

\* Without an install record every command but install refuses, so nothing may be
\* left to run then: no daemon, and nothing the supervisor would start.
NothingRunsUninstalled ==
  calm /\ (\A t \in Command : command[t].op = "none") /\ ~control.recorded =>
    \A p \in Pid : ProcessAlive(p) => p \in dying
EnabledIsReachable == control.enabled => control.files /\ control.recorded

\* What the daemon's commands and cycles leave, while commands do not overlap: one
\* daemon that runs, recorded where the status looks for it, and nothing that runs
\* unreachably; and nothing registered unreachably, nor two cycles, ever.
DaemonControlIsRight ==
  /\ OneCycle /\ OneDaemon /\ RunningIsRecorded /\ NothingRunsUninstalled
  /\ EnabledIsReachable

\* A daemon that was started, is alive and has failed no cycle is not killed by
\* the command that started it for an error some other process left in the file.
StartIsNotBlamed ==
  \A t \in Command : command[t].at = "kill" =>
    (Polled(command[t].pid) = "error" => syncState.error = command[t].pid)
=============================================================================
