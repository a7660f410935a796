------------------------------- MODULE DriveMount -------------------------------
(***************************************************************************)
(* The gated read-only Drive mount: the commands start, status and stop of *)
(* scripts/drive_mount_fallback.py, and the identity probe                 *)
(* (scripts/drive_identity_probe.py) that observes the mount they keep.    *)
(* A start leaves an rclone daemon behind, the mount it serves at one fixed*)
(* mount point, a private state file that names the daemon, and beside it  *)
(* a runtime directory with the executable.  Commands are processes of     *)
(* their own: each system call on one of these is a step.                  *)
(***************************************************************************)
EXTENDS Naturals

CONSTANTS
  Commands,    \* processes a person may have running
  StateFiles,  \* paths given as --state-file
  Daemons,     \* rclone processes, each a pid with its start time
  MaxDrive,    \* bound on the shared drives that come to bear the name
  Overlap,     \* whether a start or stop may begin while another one runs
  MaxMishaps,  \* bound on kills, interrupts, crashes, refusals and drifts
  Nobody,      \* no daemon
  Native       \* the owner of a mount that is not rclone's

ASSUME MountAssumption ==
  /\ Overlap \in BOOLEAN /\ MaxMishaps \in Nat /\ MaxDrive \in Nat
  /\ Nobody \notin Daemons \cup {Native} /\ Native \notin Daemons
  /\ StateFiles # {}

VARIABLES
  mounts,     \* whose entries /proc/self/mountinfo has at the mount point; nothing
              \* mounts on one in use, so that there is one at most
  daemon,     \* each rclone process
  saved,      \* what each state file says
  runtime,    \* each state file's runtime directory
  command,    \* what each command is doing
  drive,      \* what the shared drive's name resolves to now
  observed,   \* drive_identity_observation records printed
  abandoned,  \* state files a start or stop was killed on: a history
  mishaps

mountVars ==
  <<mounts, daemon, saved, runtime, command, drive, observed, abandoned, mishaps>>

Drives == 0..MaxDrive
Owner == Daemons \cup {Native}

\* The state file's pid and start time are the daemon; the digests are fixed.
Saved == [by : Daemons \cup {Nobody}, drive : Drives]
Unsaved == [by |-> Nobody, drive |-> 0]

MountStep == {"idle", "state", "mountpoint", "resolve", "mkdir", "install", "spawn",
         "record", "look", "write", "wait", "identify", "entries", "exact", "unmount",
         "terminate", "sigterm", "grace", "kill", "sigkill", "recheck", "removeState",
         "removeRuntime",
         "reap", "load", "process", "mount", "bind", "list", "live", "repeat"}

\* signalled: this pid was sent a signal since its present owner began.  raced: the
\* commands that had tested its start time and not yet sent the signal, and which of
\* the two signals, when the pid was given to another process; for the properties only.
Daemon == [life : {"unborn", "starting", "up", "dead", "reused"},
           signalled : BOOLEAN, raced : SUBSET (Commands \X MountStep), drive : Drives]

\* by: the daemon of the command's state; of a start, the one it spawned.
\* drive: that state's resource id; listed: what the probe listed; found: the
\* owner of the mount it last accepted; failed: an error of the cleanup.
Command == [op : {"none", "start", "status", "stop", "probe"}, file : StateFiles,
            at : MountStep, by : Daemons \cup {Nobody}, drive : Drives,
            listed : Drives, found : Owner \cup {Nobody}, failed : BOOLEAN]
Idle == [op |-> "none", file |-> CHOOSE f \in StateFiles : TRUE, at |-> "idle", by |-> Nobody,
         drive |-> 0, listed |-> 0, found |-> Nobody, failed |-> FALSE]

MountTypeOK ==
  /\ mounts \in SUBSET Owner
  /\ daemon \in [Daemons -> Daemon]
  /\ saved \in [StateFiles -> Saved]
  /\ runtime \in [StateFiles -> {"none", "bare", "ready"}]
  /\ command \in [Commands -> Command]
  /\ drive \in Drives
  /\ observed \in SUBSET [drive : Drives, found : Owner]
  /\ abandoned \in SUBSET StateFiles /\ mishaps \in Nat

MountInit ==
  /\ mounts = {}
  /\ daemon = [d \in Daemons |->
                 [life |-> "unborn", signalled |-> FALSE, raced |-> {}, drive |-> 0]]
  /\ saved = [f \in StateFiles |-> Unsaved]
  /\ runtime = [f \in StateFiles |-> "none"]
  /\ command = [c \in Commands |-> Idle]
  /\ drive = 0
  /\ observed = {} /\ abandoned = {} /\ mishaps = 0

--------------------------------------------------------------------------------
external == <<drive, observed, abandoned>>

On(c, step) == command[c].at = step
Go(c, step) == command' = [command EXCEPT ![c].at = step]
End(c) == command' = [command EXCEPT ![c] = Idle]
Mishap == mishaps < MaxMishaps /\ mishaps' = mishaps + 1

Alive(d) == daemon[d].life \in {"starting", "up"}
\* Some process has its pid.
Taken(d) == Alive(d) \/ daemon[d].life = "reused"
Changes(op) == op \in {"start", "stop"}

\* _require_exact_mount: one entry at the mount point, with rclone's file
\* system type, the fixed device name and read-only.  Which rclone is not said.
ExactMount == \E o \in Owner \ {Native} : mounts = {o}

\* An error in a stop or status ends it; a failed start goes on cleaning up and
\* reports the first error at the end.
Refuse(c, next) ==
  command' = [command EXCEPT ![c] =
                IF @.op = "start" THEN [@ EXCEPT !.at = next, !.failed = TRUE] ELSE Idle]

BeginMount(c, op, f) ==
  /\ On(c, "idle")
  /\ Changes(op) /\ ~Overlap => \A o \in Commands : ~Changes(command[o].op)
  /\ command' = [command EXCEPT ![c] =
                   [Idle EXCEPT !.op = op, !.file = f,
                                !.at = IF op = "start" THEN "state" ELSE "load"]]
  /\ UNCHANGED <<mounts, daemon, saved, runtime, external, mishaps>>

--------------------------------------------------------------------------------
(* start *)

LookForState(c) ==
  /\ On(c, "state")
  /\ IF saved[command[c].file] = Unsaved THEN Go(c, "mountpoint") ELSE End(c)
  /\ UNCHANGED <<mounts, daemon, saved, runtime, external, mishaps>>

LookForMounts(c) ==
  /\ On(c, "mountpoint")
  /\ IF mounts = {} THEN Go(c, "resolve") ELSE End(c)
  /\ UNCHANGED <<mounts, daemon, saved, runtime, external, mishaps>>

ResolveDrive(c) ==
  /\ On(c, "resolve")
  /\ command' = [command EXCEPT ![c].at = "mkdir", ![c].drive = drive]
  /\ UNCHANGED <<mounts, daemon, saved, runtime, external, mishaps>>

MakeRuntime(c) ==
  LET f == command[c].file IN
  /\ On(c, "mkdir")
  /\ IF runtime[f] = "none"
     THEN runtime' = [runtime EXCEPT ![f] = "bare"] /\ Go(c, "install")
     ELSE End(c) /\ UNCHANGED runtime
  /\ UNCHANGED <<mounts, daemon, saved, external, mishaps>>

InstallRclone(c) ==
  /\ On(c, "install")
  /\ runtime' = [runtime EXCEPT ![command[c].file] = "ready"]
  /\ Go(c, "spawn")
  /\ UNCHANGED <<mounts, daemon, saved, external, mishaps>>

SpawnMount(c) ==
  /\ On(c, "spawn")
  /\ \E d \in Daemons :
       /\ daemon[d].life = "unborn"
       /\ daemon' = [daemon EXCEPT ![d].life = "starting", ![d].drive = command[c].drive]
       /\ command' = [command EXCEPT ![c].at = "record", ![c].by = d]
  /\ UNCHANGED <<mounts, saved, runtime, external, mishaps>>

\* The pid and start time are read: from here on a failure cleans up by them.
RecordProcess(c) ==
  /\ On(c, "record")
  /\ Go(c, "look")
  /\ UNCHANGED <<mounts, daemon, saved, runtime, external, mishaps>>

LookBeforeWrite(c) ==
  /\ On(c, "look")
  /\ IF saved[command[c].file] = Unsaved THEN Go(c, "write") ELSE Go(c, "entries")
  /\ UNCHANGED <<mounts, daemon, saved, runtime, external, mishaps>>

WriteState(c) ==
  /\ On(c, "write")
  /\ saved' = [saved EXCEPT ![command[c].file] =
                 [by |-> command[c].by, drive |-> command[c].drive]]
  /\ Go(c, "wait")
  /\ UNCHANGED <<mounts, daemon, runtime, external, mishaps>>

\* One turn of the wait: the child has exited, or a mount has come that is or
\* is not rclone's, or there is none yet (and the deadline may have passed).
WaitForMount(c) ==
  LET exited == ~Alive(command[c].by) IN
  /\ On(c, "wait")
  /\ \/ (exited \/ (mounts # {} /\ ~ExactMount)) /\ Go(c, "entries")
     \/ ~exited /\ ExactMount /\ Go(c, "identify")
     \/ ~exited /\ mounts = {} /\ Go(c, "entries")
  /\ UNCHANGED <<mounts, daemon, saved, runtime, external, mishaps>>

IdentifyOwnProcess(c) ==
  /\ On(c, "identify")
  /\ IF Alive(command[c].by) /\ runtime[command[c].file] = "ready"
     THEN End(c) ELSE Go(c, "entries")
  /\ UNCHANGED <<mounts, daemon, saved, runtime, external, mishaps>>

\* A plausible mistake: after the spawn as before it, only the files are removed.
InterruptForgetsProcess(c) ==
  /\ Mishap
  /\ command[c].at \in {"install", "spawn", "record", "look", "write", "wait", "identify"}
  /\ Go(c, "removeState")
  /\ UNCHANGED <<mounts, daemon, saved, runtime, external>>

\* A download, a spawn, a write or a signal fails inside the try block.
InterruptStart(c) ==
  /\ Mishap
  /\ \/ command[c].at \in {"install", "spawn"} /\ Go(c, "removeState")
     \/ On(c, "record") /\ Go(c, "reap")
     \/ command[c].at \in {"look", "write", "wait", "identify"} /\ Go(c, "entries")
  /\ UNCHANGED <<mounts, daemon, saved, runtime, external>>

--------------------------------------------------------------------------------
(* _cleanup_failed_start and what stop shares with it *)

\* No state was recorded: terminate, or kill after five seconds.  A daemon that
\* is killed leaves its entry in the mount table.
ReapProcess(c) ==
  LET d == command[c].by IN
  /\ On(c, "reap")
  /\ daemon' = [daemon EXCEPT ![d].life = "dead", ![d].signalled = TRUE]
  /\ mounts' \in {mounts, mounts \ {d}}
  /\ Go(c, "removeState")
  /\ UNCHANGED <<saved, runtime, external, mishaps>>

LookForEntries(c) ==
  /\ On(c, "entries")
  /\ IF mounts = {} THEN Go(c, "terminate") ELSE Go(c, "exact")
  /\ UNCHANGED <<mounts, daemon, saved, runtime, external, mishaps>>

\* A plausible mistake: whatever is mounted there is taken for its own.
RequireAnyMount(c) ==
  /\ On(c, "exact")
  /\ IF mounts # {} THEN Go(c, "unmount") ELSE Refuse(c, "terminate")
  /\ UNCHANGED <<mounts, daemon, saved, runtime, external, mishaps>>

RequireExactMount(c) ==
  /\ On(c, "exact")
  /\ IF ExactMount THEN Go(c, "unmount") ELSE Refuse(c, "terminate")
  /\ UNCHANGED <<mounts, daemon, saved, runtime, external, mishaps>>

\* fusermount takes the newest mount off, whoever serves it.
Unmount(c) ==
  /\ On(c, "unmount")
  /\ IF mounts # {}
     THEN (\E o \in mounts : mounts' = mounts \ {o}) /\ Go(c, "terminate")
     ELSE Refuse(c, "terminate") /\ UNCHANGED mounts
  /\ UNCHANGED <<daemon, saved, runtime, external, mishaps>>

\* The mount is in use, or fusermount hangs.
UnmountFails(c) ==
  /\ On(c, "unmount") /\ Mishap
  /\ Refuse(c, "terminate")
  /\ UNCHANGED <<mounts, daemon, saved, runtime, external>>

\* The start time of the pid is read again: no process of that pid is a success; one
\* with another start time is not ours.
Terminate(c) ==
  LET d == command[c].by IN
  /\ On(c, "terminate")
  /\ \/ daemon[d].life = "dead" /\ Go(c, "recheck")
     \/ daemon[d].life = "reused" /\ Refuse(c, "recheck")
     \/ Alive(d) /\ Go(c, "sigterm")
  /\ UNCHANGED <<mounts, daemon, saved, runtime, external, mishaps>>

\* Whatever process has the pid by now is signalled, unless another user owns it.
SendTerm(c) ==
  LET d == command[c].by IN
  /\ On(c, "sigterm")
  /\ \/ daemon[d].life = "dead" /\ Go(c, "recheck") /\ UNCHANGED daemon
     \/ daemon[d].life = "reused" /\ Refuse(c, "recheck") /\ UNCHANGED daemon
     \/ /\ Taken(d) /\ daemon' = [daemon EXCEPT ![d].signalled = TRUE]
        /\ Go(c, "grace")
  /\ UNCHANGED <<mounts, saved, runtime, external, mishaps>>

\* Five seconds to leave /proc; the pid may go on to another process meanwhile, and
\* that one may end, too.
GraceEnds(c) ==
  LET d == command[c].by IN
  /\ On(c, "grace")
  /\ \/ Taken(d) /\ Go(c, "kill")
     \/ daemon[d].life \in {"dead", "reused"} /\ Go(c, "recheck")
  /\ UNCHANGED <<mounts, daemon, saved, runtime, external, mishaps>>

\* The start time once more.  A process that ended since is an error, unless it is the
\* command's own child, whose entry in /proc stays.
KillDaemon(c) ==
  LET d == command[c].by
      zombie == daemon[d].life = "dead" /\ command[c].op = "start" IN
  /\ On(c, "kill")
  /\ \/ (Alive(d) \/ zombie) /\ Go(c, "sigkill")
     \/ daemon[d].life \in {"dead", "reused"} /\ ~zombie /\ Refuse(c, "recheck")
  /\ UNCHANGED <<mounts, daemon, saved, runtime, external, mishaps>>

SendKill(c) ==
  LET d == command[c].by IN
  /\ On(c, "sigkill")
  /\ \/ daemon[d].life = "dead" /\ Go(c, "recheck") /\ UNCHANGED daemon
     \/ daemon[d].life = "reused" /\ Refuse(c, "recheck") /\ UNCHANGED daemon
     \/ /\ Taken(d)
        /\ daemon' = [daemon EXCEPT ![d].life = "dead", ![d].signalled = TRUE]
        /\ Go(c, "recheck")
  /\ UNCHANGED <<mounts, saved, runtime, external, mishaps>>

\* Only without an error and with the mount point free are the files removed.
RecheckMounts(c) ==
  /\ On(c, "recheck")
  /\ IF command[c].failed \/ mounts # {} THEN End(c)
     ELSE Go(c, IF command[c].op = "start" THEN "removeState" ELSE "removeRuntime")
  /\ UNCHANGED <<mounts, daemon, saved, runtime, external, mishaps>>

RemoveState(c) ==
  /\ On(c, "removeState")
  /\ saved' = [saved EXCEPT ![command[c].file] = Unsaved]
  /\ IF command[c].op = "start" THEN Go(c, "removeRuntime") ELSE End(c)
  /\ UNCHANGED <<mounts, daemon, runtime, external, mishaps>>

RemoveRuntime(c) ==
  /\ On(c, "removeRuntime")
  /\ runtime' = [runtime EXCEPT ![command[c].file] = "none"]
  /\ IF command[c].op = "start" THEN End(c) ELSE Go(c, "removeState")
  /\ UNCHANGED <<mounts, daemon, saved, external, mishaps>>

--------------------------------------------------------------------------------
(* validate_active_mount: the whole of status, the first part of stop and probe *)

LoadState(c) ==
  LET s == saved[command[c].file] IN
  /\ On(c, "load")
  /\ IF s.by = Nobody THEN End(c)
     ELSE command' = [command EXCEPT ![c].at = "process", ![c].by = s.by, ![c].drive = s.drive]
  /\ UNCHANGED <<mounts, daemon, saved, runtime, external, mishaps>>

RequireProcessIdentity(c) ==
  /\ On(c, "process")
  /\ IF Alive(command[c].by) /\ runtime[command[c].file] = "ready"
     THEN Go(c, "mount") ELSE End(c)
  /\ UNCHANGED <<mounts, daemon, saved, runtime, external, mishaps>>

RequireMount(c) ==
  /\ On(c, "mount")
  /\ IF ExactMount THEN Go(c, "bind") ELSE End(c)
  /\ UNCHANGED <<mounts, daemon, saved, runtime, external, mishaps>>

RequireStateBinding(c) ==
  LET next == CASE command[c].op = "stop" -> "unmount"
                [] command[c].op = "probe" -> "list"
                [] OTHER -> "idle" IN
  /\ On(c, "bind")
  /\ IF drive = command[c].drive /\ next # "idle" THEN Go(c, next) ELSE End(c)
  /\ UNCHANGED <<mounts, daemon, saved, runtime, external, mishaps>>

--------------------------------------------------------------------------------
(* probe, after it has validated the fallback's mount *)

\* A plausible mistake: an empty listing is an identity.
ListNothing(c) ==
  /\ On(c, "list")
  /\ command' = [command EXCEPT ![c].at = "live", ![c].listed = Nobody]
  /\ UNCHANGED <<mounts, daemon, saved, runtime, external, mishaps>>

ListDrive(c) ==
  /\ On(c, "list")
  /\ command' = [command EXCEPT ![c].at = "live", ![c].listed = drive]
  /\ UNCHANGED <<mounts, daemon, saved, runtime, external, mishaps>>

RequireLiveMount(c) ==
  /\ On(c, "live")
  /\ IF ExactMount
     THEN \E o \in mounts : command' = [command EXCEPT ![c].at = "repeat", ![c].found = o]
     ELSE End(c)
  /\ UNCHANGED <<mounts, daemon, saved, runtime, external, mishaps>>

\* The drive is asked for once more, and must be the one the state names.
ObserveDrive(c) ==
  /\ On(c, "repeat")
  /\ IF drive = command[c].listed /\ command[c].listed = command[c].drive
     THEN observed' = observed \cup
            {[drive |-> command[c].listed, found |-> command[c].found]}
     ELSE UNCHANGED observed
  /\ End(c)
  /\ UNCHANGED <<mounts, daemon, saved, runtime, drive, abandoned, mishaps>>

--------------------------------------------------------------------------------
(* the rclone daemon, the kernel, the Drive API and whoever kills a command *)

DaemonMounts(d) ==
  /\ daemon[d].life = "starting" /\ mounts = {}
  /\ mounts' = {d}
  /\ daemon' = [daemon EXCEPT ![d].life = "up"]
  /\ UNCHANGED <<saved, runtime, command, external, mishaps>>

\* rclone refuses a mount point in use, leaves when its mount is taken off, and
\* takes it off itself when it is told to end.
DaemonLeaves(d) ==
  /\ \/ daemon[d].life = "starting" /\ mounts # {}
     \/ daemon[d].life = "up" /\ d \notin mounts
     \/ Alive(d) /\ daemon[d].signalled
  /\ daemon' = [daemon EXCEPT ![d].life = "dead"]
  /\ mounts' = mounts \ {d}
  /\ UNCHANGED <<saved, runtime, command, external, mishaps>>

\* A crash leaves the entry in the mount table.
DaemonDies(d) ==
  /\ Alive(d) /\ Mishap
  /\ daemon' = [daemon EXCEPT ![d].life = "dead"]
  /\ UNCHANGED <<mounts, saved, runtime, command, external>>

\* The pid of a dead child stays taken until its parent has ended.
ReusePid(d) ==
  /\ daemon[d].life = "dead" /\ Mishap
  /\ \A c \in Commands : ~(command[c].op = "start" /\ command[c].by = d)
  /\ daemon' = [daemon EXCEPT ![d].life = "reused", ![d].signalled = FALSE,
                 ![d].raced = {<<c, command[c].at>> : c \in {o \in Commands :
                   command[o].by = d /\ command[o].at \in {"sigterm", "sigkill"}}}]
  /\ UNCHANGED <<mounts, saved, runtime, command, external>>

\* Drive for desktop or a notebook mounts the native way, on a free mount point.
NativeMount ==
  /\ mounts = {} /\ Mishap
  /\ mounts' = {Native}
  /\ UNCHANGED <<daemon, saved, runtime, command, external>>

\* Another shared drive comes to bear the name; none comes back to it.
DriveDrift ==
  /\ drive < MaxDrive /\ Mishap
  /\ drive' = drive + 1
  /\ UNCHANGED <<mounts, daemon, saved, runtime, command, observed, abandoned>>

\* SIGKILL, or a runtime that is recycled under the command.
KillCommand(c) ==
  /\ ~On(c, "idle") /\ Mishap
  /\ End(c)
  /\ abandoned' = abandoned \cup IF Changes(command[c].op) THEN {command[c].file} ELSE {}
  /\ UNCHANGED <<mounts, daemon, saved, runtime, drive, observed>>

--------------------------------------------------------------------------------
StartStep(c) ==
  \/ LookForState(c) \/ LookForMounts(c) \/ ResolveDrive(c) \/ MakeRuntime(c)
  \/ InstallRclone(c) \/ SpawnMount(c) \/ RecordProcess(c) \/ LookBeforeWrite(c)
  \/ WriteState(c) \/ WaitForMount(c) \/ IdentifyOwnProcess(c)

CleanupStep(c) ==
  \/ ReapProcess(c) \/ LookForEntries(c) \/ RequireExactMount(c) \/ Unmount(c)
  \/ Terminate(c) \/ SendTerm(c) \/ GraceEnds(c) \/ KillDaemon(c) \/ SendKill(c)
  \/ RecheckMounts(c) \/ RemoveState(c) \/ RemoveRuntime(c)

ValidateStep(c) ==
  \/ LoadState(c) \/ RequireProcessIdentity(c) \/ RequireMount(c) \/ RequireStateBinding(c)
  \/ ListDrive(c) \/ RequireLiveMount(c) \/ ObserveDrive(c)

CommandStep(c) == StartStep(c) \/ CleanupStep(c) \/ ValidateStep(c)

MountNext ==
  \/ \E c \in Commands :
       \/ CommandStep(c) \/ InterruptStart(c) \/ UnmountFails(c) \/ KillCommand(c)
       \/ \E f \in StateFiles, op \in {"start", "status", "stop", "probe"} : BeginMount(c, op, f)
  \/ \E d \in Daemons : DaemonMounts(d) \/ DaemonLeaves(d) \/ DaemonDies(d) \/ ReusePid(d)
  \/ NativeMount \/ DriveDrift

MountSpec == MountInit /\ [][MountNext]_mountVars

--------------------------------------------------------------------------------
\* As long as no start or stop was killed, a stop, or the cleanup of a failed start,
\* takes off no mount but the one of the daemon it started or its state file names
\* (_unmount after validate_active_mount or _require_exact_mount, which do not look at
\* whose mount it is): never a native mount, never the mount of another session.  And a
\* process that was given the pid of a dead daemon is signalled only by a command that
\* the change of hands overtook between its start-time test and the signal that follows
\* (_terminate_owned_process): never when the pid had changed hands before the test.
TouchesOnlyItsOwn ==
  [][/\ \A c \in Commands :
          (/\ On(c, "unmount") /\ command'[c].at # "unmount" /\ mounts' # mounts
           /\ abandoned = {})
            => mounts = {command[c].by}
     /\ \A d \in Daemons :
          daemon[d].life = "reused" /\ daemon'[d] # daemon[d] =>
            \E c \in Commands : /\ <<c, command[c].at>> \in daemon[d].raced
                                /\ command[c].by = d /\ command' # command]_mountVars

\* State files a start or stop is at work on, or was killed on.
Unsettled == abandoned \cup {command[c].file : c \in {o \in Commands : Changes(command[o].op)}}

\* What a start or stop has done in part it undoes, or keeps in the state for the next
\* stop: a state file nobody is at work on still has the runtime directory a stop needs,
\* and when nobody is at work at all, no daemon runs on that no state names.
NothingIsLeftBehind ==
  /\ \A f \in StateFiles \ Unsettled : saved[f] # Unsaved => runtime[f] = "ready"
  /\ Unsettled = {} => \A d \in Daemons :
       Alive(d) /\ ~daemon[d].signalled => \E f \in StateFiles : saved[f].by = d
================================================================================
