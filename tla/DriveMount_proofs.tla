--------------------------- MODULE DriveMount_proofs ---------------------------
(* What holds of the mount scripts for any commands, state files and daemons: *)
(* the types, whatever overlaps or is killed, and for starts and stops that   *)
(* do not overlap, that they touch only their own daemon and mount, and leave *)
(* nothing behind.  The argument: an invariant says where the files, the      *)
(* daemons and the mount stand, by the step the one start or stop there is at *)
(* has reached; what it says of daemons and mounts holds until a start or     *)
(* stop is killed.  Every step is shown to leave what it goes on with         *)
(* standing, and so is every act of a daemon, the kernel or a native mount.   *)
EXTENDS DriveMount, Integers, TLAPS

--------------------------------------------------------------------------------
\* Steps of a command, and those each command goes through.
LoadedSteps == {"process", "mount", "bind"}
Signalling == {"terminate", "sigterm", "grace", "kill", "sigkill"}
EndingSteps == {"terminate", "sigterm", "grace", "kill", "sigkill", "recheck", "removeState",
                "removeRuntime"}
BeforeSpawn == {"state", "mountpoint", "resolve", "mkdir", "install", "spawn"}
OwnSteps == {"record", "look", "write", "wait", "identify", "entries", "exact", "unmount",
             "terminate", "sigterm", "grace", "kill", "sigkill", "reap"}

StepsOf(op) ==
  CASE op = "none"   -> {"idle"}
    [] op = "start"  -> BeforeSpawn \cup OwnSteps \cup EndingSteps
    [] op = "stop"   -> {"load", "unmount"} \cup LoadedSteps \cup EndingSteps
    [] op = "status" -> {"load"} \cup LoadedSteps
    [] op = "probe"  -> {"load", "list", "live", "repeat"} \cup LoadedSteps

CommandTyped ==
  /\ command \in [Commands -> Command]
  /\ \A c \in Commands : /\ command[c].at \in StepsOf(command[c].op)
                         /\ command[c].at = "repeat" => command[c].found \in Owner

RestTyped ==
  /\ mounts \in SUBSET Owner /\ \A o, q \in mounts : o = q
  /\ daemon \in [Daemons -> Daemon]
  /\ saved \in [StateFiles -> Saved]
  /\ runtime \in [StateFiles -> {"none", "bare", "ready"}]
  /\ drive \in Drives
  /\ observed \in SUBSET [drive : Drives, found : Owner]
  /\ abandoned \in SUBSET StateFiles /\ mishaps \in Nat

MountTyped == CommandTyped /\ RestTyped

LEMMA IdleIsTyped == Idle \in Command /\ Idle.op = "none" /\ Idle.at = "idle" /\ Idle.by = Nobody
<1>1. (CHOOSE f \in StateFiles : TRUE) \in StateFiles
  BY MountAssumption
<1>2. 0 \in Drives
  BY MountAssumption DEF Drives
<1> QED BY <1>1, <1>2 DEF Idle, Command, MountStep

LEMMA StepsAreSteps ==
  ASSUME NEW op \in {"none", "start", "status", "stop", "probe"} PROVE StepsOf(op) \subseteq MountStep
BY DEF StepsOf, BeforeSpawn, OwnSteps, EndingSteps, LoadedSteps, MountStep

--------------------------------------------------------------------------------
(* Types. *)

LEMMA MovesAreTyped ==
  ASSUME CommandTyped, NEW c \in Commands, NEW k \in Command, k.at \in StepsOf(k.op),
         k.at = "repeat" => k.found \in Owner, command' = [command EXCEPT ![c] = k]
  PROVE  CommandTyped'
BY DEF CommandTyped

LEMMA GoIsTyped ==
  ASSUME CommandTyped, NEW c \in Commands, NEW step \in StepsOf(command[c].op) \ {"repeat"}, Go(c, step)
  PROVE  CommandTyped'
<1> DEFINE k == [command[c] EXCEPT !.at = step]
<1>1. command[c] \in Command /\ command[c].op \in {"none", "start", "status", "stop", "probe"}
  BY DEF CommandTyped, Command
<1>2. step \in MountStep
  BY <1>1, StepsAreSteps
<1>3. k \in Command /\ k.at \in StepsOf(k.op) /\ k.at # "repeat"
  BY <1>1, <1>2 DEF Command
<1>4. command' = [command EXCEPT ![c] = k]
  BY <1>1 DEF Go, CommandTyped
<1> HIDE DEF k
<1> QED BY <1>3, <1>4, MovesAreTyped

LEMMA EndIsTyped == ASSUME CommandTyped, NEW c \in Commands, End(c) PROVE CommandTyped'
<1>1. Idle.at \in StepsOf(Idle.op)
  BY IdleIsTyped DEF StepsOf
<1> QED BY <1>1, IdleIsTyped, MovesAreTyped DEF End

LEMMA RefuseIsTyped ==
  ASSUME CommandTyped, NEW c \in Commands, NEW next \in EndingSteps, Refuse(c, next)
  PROVE  CommandTyped'
<1> DEFINE k == [command[c] EXCEPT !.at = next, !.failed = TRUE]
<1>1. CASE command[c].op = "start"
  <2>1. command' = [command EXCEPT ![c] = k]
    BY <1>1 DEF Refuse, CommandTyped
  <2>2. command[c] \in Command /\ next \in MountStep
    BY DEF CommandTyped, EndingSteps, MountStep
  <2>3. k \in Command /\ k.at \in StepsOf(k.op) /\ k.at # "repeat"
    BY <1>1, <2>2 DEF Command, StepsOf, EndingSteps
  <2> HIDE DEF k
  <2> QED BY <2>1, <2>3, MovesAreTyped
<1>2. CASE command[c].op # "start"
  <2>1. End(c)
    BY <1>2 DEF Refuse, End, CommandTyped
  <2> QED BY <2>1, EndIsTyped
<1> QED BY <1>1, <1>2

LEMMA BeginIsTyped ==
  ASSUME CommandTyped, NEW c \in Commands, NEW f \in StateFiles,
         NEW op \in {"start", "status", "stop", "probe"}, BeginMount(c, op, f)
  PROVE  CommandTyped'
<1> DEFINE k == [Idle EXCEPT !.op = op, !.file = f,
                             !.at = IF op = "start" THEN "state" ELSE "load"]
<1>1. k \in Command /\ k.at \in StepsOf(k.op) /\ k.at # "repeat"
  BY IdleIsTyped DEF Command, MountStep, StepsOf, BeforeSpawn
<1>2. command' = [command EXCEPT ![c] = k]
  BY DEF BeginMount
<1> HIDE DEF k
<1> QED BY <1>1, <1>2, MovesAreTyped

\* A start or a stop at a step, and where the step may lead.
LEMMA StepTells ==
  ASSUME CommandTyped, NEW c \in Commands
  PROVE  /\ command[c] \in Command
         /\ command[c].at \in BeforeSpawn \cup {"record", "look", "write", "wait", "identify",
              "entries", "exact", "reap"} => command[c].op = "start"
         /\ command[c].at \in EndingSteps \cup {"unmount"} => command[c].op \in {"start", "stop"}
         /\ command[c].at \in {"list", "live", "repeat"} => command[c].op = "probe"
         /\ command[c].at \in LoadedSteps \cup {"load"} =>
              command[c].op \in {"stop", "status", "probe"}
         /\ command[c].at = "idle" => command[c].op = "none"
<1>1. command[c] \in Command /\ command[c].at \in StepsOf(command[c].op)
  BY DEF CommandTyped
<1>2. command[c].op \in {"none", "start", "status", "stop", "probe"}
  BY <1>1 DEF Command
<1> QED BY <1>1, <1>2 DEF StepsOf, BeforeSpawn, OwnSteps, EndingSteps, LoadedSteps

LEMMA StartStepIsTyped ==
  ASSUME MountTyped, NEW c \in Commands, StartStep(c) PROVE MountTyped'
<1> DEFINE k == command[c]
<1>1. /\ k \in Command /\ CommandTyped
      /\ k.at \in BeforeSpawn \cup {"record", "look", "write", "wait", "identify"} =>
           StepsOf(k.op) \ {"repeat"} = BeforeSpawn \cup OwnSteps \cup EndingSteps
  BY StepTells DEF MountTyped, StepsOf, BeforeSpawn, OwnSteps, EndingSteps
<1> HIDE DEF k
<1>2. ASSUME k.at \in BeforeSpawn \cup {"record", "look", "write", "wait", "identify"},
             \/ End(c)
             \/ \E step \in BeforeSpawn \cup OwnSteps \cup EndingSteps : Go(c, step)
      PROVE  CommandTyped'
  BY <1>1, <1>2, GoIsTyped, EndIsTyped DEF k
<1>3. CASE LookForState(c) \/ LookForMounts(c) \/ RecordProcess(c) \/ LookBeforeWrite(c)
           \/ WaitForMount(c) \/ IdentifyOwnProcess(c)
  <2>1. CommandTyped'
    BY <1>2, <1>3 DEF LookForState, LookForMounts, RecordProcess, LookBeforeWrite,
       WaitForMount, IdentifyOwnProcess, On, k, BeforeSpawn, OwnSteps
  <2>2. RestTyped'
    BY <1>3 DEF MountTyped, RestTyped, LookForState, LookForMounts, RecordProcess,
       LookBeforeWrite, WaitForMount, IdentifyOwnProcess, external
  <2> QED BY <2>1, <2>2 DEF MountTyped
<1>4. CASE ResolveDrive(c)
  <2> DEFINE n == [k EXCEPT !.at = "mkdir", !.drive = drive]
  <2>1. n \in Command /\ n.op = k.op /\ n.at = "mkdir"
    BY <1>1 DEF Command, MountTyped, RestTyped, MountStep
  <2>2. n.at \in StepsOf(n.op)
    BY <1>1, <1>4, <2>1 DEF ResolveDrive, On, k, BeforeSpawn
  <2>3. command' = [command EXCEPT ![c] = n]
    BY <1>1, <1>4 DEF ResolveDrive, k, CommandTyped
  <2> HIDE DEF n
  <2>4. CommandTyped'
    BY <1>1, <2>1, <2>2, <2>3, MovesAreTyped
  <2> QED BY <1>4, <2>4 DEF MountTyped, RestTyped, ResolveDrive, external
<1>5. CASE MakeRuntime(c) \/ InstallRclone(c)
  <2>1. CommandTyped'
    BY <1>2, <1>5 DEF MakeRuntime, InstallRclone, On, k, BeforeSpawn
  <2>2. k.file \in StateFiles
    BY <1>1 DEF Command
  <2>3. runtime' \in [StateFiles -> {"none", "bare", "ready"}]
    BY <1>5, <2>2 DEF MakeRuntime, InstallRclone, k, MountTyped, RestTyped
  <2> QED BY <1>5, <2>1, <2>3 DEF MountTyped, RestTyped, MakeRuntime, InstallRclone, external
<1>6. CASE SpawnMount(c)
  <2> PICK d \in Daemons :
        /\ daemon[d].life = "unborn"
        /\ daemon' = [daemon EXCEPT ![d].life = "starting", ![d].drive = command[c].drive]
        /\ command' = [command EXCEPT ![c].at = "record", ![c].by = d]
    BY <1>6 DEF SpawnMount
  <2> DEFINE n == [k EXCEPT !.at = "record", !.by = d]
  <2>1. n \in Command /\ n.op = k.op /\ n.at = "record"
    BY <1>1 DEF Command, MountStep
  <2>2. n.at \in StepsOf(n.op)
    BY <1>1, <1>6, <2>1 DEF SpawnMount, On, k, BeforeSpawn, OwnSteps
  <2>3. command' = [command EXCEPT ![c] = n]
    BY <1>1 DEF k, CommandTyped
  <2> HIDE DEF n
  <2>4. CommandTyped'
    BY <1>1, <2>1, <2>2, <2>3, MovesAreTyped
  <2>5. [daemon[d] EXCEPT !.life = "starting", !.drive = k.drive] \in Daemon
    BY <1>1 DEF MountTyped, RestTyped, Daemon, Command
  <2>6. daemon' = [daemon EXCEPT ![d] = [daemon[d] EXCEPT !.life = "starting", !.drive = k.drive]]
    BY DEF MountTyped, RestTyped, k
  <2>7. daemon' \in [Daemons -> Daemon]
    BY <2>5, <2>6 DEF MountTyped, RestTyped
  <2> QED BY <1>6, <2>4, <2>7 DEF MountTyped, RestTyped, SpawnMount, external
<1>7. CASE WriteState(c)
  <2>1. CommandTyped'
    BY <1>2, <1>7 DEF WriteState, On, k, OwnSteps
  <2>2. saved' \in [StateFiles -> Saved]
    BY <1>1, <1>7 DEF WriteState, k, Command, Saved, MountTyped, RestTyped
  <2> QED BY <1>7, <2>1, <2>2 DEF MountTyped, RestTyped, WriteState, external
<1> QED BY <1>3, <1>4, <1>5, <1>6, <1>7 DEF StartStep

LEMMA CleanupStepIsTyped ==
  ASSUME MountTyped, NEW c \in Commands, CleanupStep(c) PROVE MountTyped'
<1> DEFINE k == command[c]
<1>1. /\ k \in Command /\ CommandTyped
      /\ k.at \in {"reap", "entries", "exact", "unmount"} \cup EndingSteps =>
           EndingSteps \cup {"unmount"} \subseteq StepsOf(k.op) \ {"repeat"}
      /\ k.at = "entries" => "exact" \in StepsOf(k.op)
  BY StepTells DEF MountTyped, StepsOf, OwnSteps, EndingSteps
<1> HIDE DEF k
<1>2. ASSUME k.at \in {"reap", "entries", "exact", "unmount"} \cup EndingSteps,
             \/ End(c)
             \/ \E step \in EndingSteps \cup {"unmount"} : Go(c, step)
             \/ k.at = "entries" /\ Go(c, "exact")
             \/ \E next \in EndingSteps : Refuse(c, next)
      PROVE  CommandTyped'
  BY <1>1, <1>2, GoIsTyped, EndIsTyped, RefuseIsTyped DEF k
<1>3. CommandTyped'
  <2>1. CASE ReapProcess(c) \/ LookForEntries(c) \/ RequireExactMount(c) \/ Unmount(c)
    BY <1>2, <2>1 DEF ReapProcess, LookForEntries, RequireExactMount, Unmount, On, k, EndingSteps
  <2>2. CASE Terminate(c) \/ SendTerm(c) \/ GraceEnds(c) \/ KillDaemon(c) \/ SendKill(c)
    BY <1>2, <2>2 DEF Terminate, SendTerm, GraceEnds, KillDaemon, SendKill, On, k, EndingSteps
  <2>3. CASE RecheckMounts(c) \/ RemoveState(c) \/ RemoveRuntime(c)
    BY <1>2, <2>3 DEF RecheckMounts, RemoveState, RemoveRuntime, On, k, EndingSteps
  <2> QED BY <2>1, <2>2, <2>3 DEF CleanupStep
<1>4. mounts' \in SUBSET Owner /\ \A o, q \in mounts' : o = q
  BY DEF CleanupStep, ReapProcess, LookForEntries, RequireExactMount, Unmount, Terminate,
     SendTerm, GraceEnds, KillDaemon, SendKill, RecheckMounts, RemoveState, RemoveRuntime,
     MountTyped, RestTyped
<1>5. daemon' \in [Daemons -> Daemon]
  <2> DEFINE d == command[c].by
  <2>1. \/ daemon' = daemon
        \/ daemon' = [daemon EXCEPT ![d].life = "dead", ![d].signalled = TRUE]
        \/ daemon' = [daemon EXCEPT ![d].signalled = TRUE]
    BY DEF CleanupStep, ReapProcess, LookForEntries, RequireExactMount, Unmount, Terminate,
       SendTerm, GraceEnds, KillDaemon, SendKill, RecheckMounts, RemoveState, RemoveRuntime
  <2> HIDE DEF d
  <2>2. CASE d \in Daemons
    <3>1. /\ daemon[d] \in Daemon
          /\ [daemon[d] EXCEPT !.life = "dead", !.signalled = TRUE] \in Daemon
          /\ [daemon[d] EXCEPT !.signalled = TRUE] \in Daemon
      BY <2>2 DEF MountTyped, RestTyped, Daemon
    <3>2. \/ daemon' = daemon
          \/ daemon' = [daemon EXCEPT ![d] = [daemon[d] EXCEPT !.life = "dead", !.signalled = TRUE]]
          \/ daemon' = [daemon EXCEPT ![d] = [daemon[d] EXCEPT !.signalled = TRUE]]
      BY <2>1, <2>2 DEF MountTyped, RestTyped
    <3> QED BY <2>2, <3>1, <3>2 DEF MountTyped, RestTyped
  <2>3. CASE d \notin Daemons
    BY <2>1, <2>3 DEF MountTyped, RestTyped
  <2> QED BY <2>2, <2>3
<1>6. saved' \in [StateFiles -> Saved] /\ runtime' \in [StateFiles -> {"none", "bare", "ready"}]
  <2>1. Unsaved \in Saved
    BY MountAssumption DEF Unsaved, Saved, Drives
  <2> QED BY <1>1, <2>1
          DEF CleanupStep, ReapProcess, LookForEntries, RequireExactMount, Unmount, Terminate,
          SendTerm, GraceEnds, KillDaemon, SendKill, RecheckMounts, RemoveState, RemoveRuntime,
          MountTyped, RestTyped
<1>7. UNCHANGED <<external, mishaps>>
  BY DEF CleanupStep, ReapProcess, LookForEntries, RequireExactMount, Unmount, Terminate,
     SendTerm, GraceEnds, KillDaemon, SendKill, RecheckMounts, RemoveState, RemoveRuntime, external
<1> QED BY <1>3, <1>4, <1>5, <1>6, <1>7 DEF MountTyped, RestTyped, external

LEMMA ValidateStepIsTyped ==
  ASSUME MountTyped, NEW c \in Commands, ValidateStep(c) PROVE MountTyped'
<1> DEFINE k == command[c]
<1>1. /\ k \in Command /\ CommandTyped /\ RestTyped
      /\ k.at \in {"list", "live", "repeat"} => k.op = "probe"
      /\ k.at \in LoadedSteps \cup {"load"} =>
           /\ k.op \in {"stop", "status", "probe"}
           /\ LoadedSteps \subseteq StepsOf(k.op) \ {"repeat"}
      /\ "unmount" \in StepsOf("stop") /\ {"list", "live", "repeat"} \subseteq StepsOf("probe")
  BY StepTells DEF MountTyped, StepsOf, LoadedSteps
<1> HIDE DEF k
<1>2. CASE RequireProcessIdentity(c) \/ RequireMount(c) \/ RequireStateBinding(c)
  <2>1. k.at \in LoadedSteps
    BY <1>2 DEF RequireProcessIdentity, RequireMount, RequireStateBinding, On, k, LoadedSteps
  <2>2. End(c) \/ \E step \in StepsOf(k.op) \ {"repeat"} : Go(c, step)
    BY <1>1, <1>2, <2>1
       DEF RequireProcessIdentity, RequireMount, RequireStateBinding, k, LoadedSteps
  <2>3. CommandTyped'
    BY <1>1, <2>2, GoIsTyped, EndIsTyped DEF k
  <2> QED BY <1>2, <1>1, <2>3
          DEF MountTyped, RestTyped, RequireProcessIdentity, RequireMount, RequireStateBinding,
          external
<1>3. CASE LoadState(c)
  <2> DEFINE n == [k EXCEPT !.at = "process", !.by = saved[k.file].by,
                            !.drive = saved[k.file].drive]
  <2>1. saved[k.file] \in Saved
    BY <1>1 DEF RestTyped, Command
  <2>2. n \in Command /\ n.op = k.op /\ n.at = "process"
    BY <1>1, <2>1 DEF Command, Saved, MountStep
  <2>3. n.at \in StepsOf(n.op)
    BY <1>1, <1>3, <2>2 DEF LoadState, On, k, LoadedSteps
  <2>4. End(c) \/ command' = [command EXCEPT ![c] = n]
    BY <1>1, <1>3 DEF LoadState, k, CommandTyped
  <2> HIDE DEF n
  <2>5. CommandTyped'
    BY <1>1, <2>2, <2>3, <2>4, MovesAreTyped, EndIsTyped
  <2> QED BY <1>1, <1>3, <2>5 DEF MountTyped, RestTyped, LoadState, external
<1>4. CASE ListDrive(c) \/ RequireLiveMount(c)
  <2> PICK n : /\ \/ n = [k EXCEPT !.at = "live", !.listed = drive] /\ k.at = "list"
                  \/ \E o \in mounts : n = [k EXCEPT !.at = "repeat", !.found = o]
                                       /\ k.at = "live"
                  \/ n = Idle
               /\ command' = [command EXCEPT ![c] = n]
    BY <1>1, <1>4 DEF ListDrive, RequireLiveMount, End, On, k, CommandTyped
  <2>1. ASSUME n = [k EXCEPT !.at = "live", !.listed = drive], k.at = "list"
        PROVE  CommandTyped'
    <3>1. n \in Command /\ n.at = "live" /\ n.op = k.op
      BY <1>1, <2>1 DEF Command, MountStep, RestTyped
    <3> QED BY <1>1, <2>1, <3>1, MovesAreTyped
  <2>2. ASSUME NEW o \in mounts, n = [k EXCEPT !.at = "repeat", !.found = o], k.at = "live"
        PROVE  CommandTyped'
    <3>1. n \in Command /\ n.at = "repeat" /\ n.op = k.op /\ n.found \in Owner
      BY <1>1, <2>2 DEF Command, MountStep, RestTyped
    <3> QED BY <1>1, <2>2, <3>1, MovesAreTyped
  <2>3. ASSUME n = Idle PROVE CommandTyped'
    BY <1>1, <2>3, EndIsTyped DEF End
  <2>4. CommandTyped'
    BY <2>1, <2>2, <2>3
  <2> QED BY <1>1, <1>4, <2>4 DEF MountTyped, RestTyped, ListDrive, RequireLiveMount, external
<1>5. CASE ObserveDrive(c)
  <2>1. CommandTyped'
    BY <1>1, <1>5, EndIsTyped DEF ObserveDrive
  <2>2. k.listed \in Drives /\ k.found \in Owner
    BY <1>1, <1>5 DEF ObserveDrive, On, k, CommandTyped, Command
  <2>3. RestTyped'
    BY <1>1, <1>5, <2>2 DEF RestTyped, ObserveDrive, k
  <2> QED BY <2>1, <2>3 DEF MountTyped
<1> QED BY <1>2, <1>3, <1>4, <1>5 DEF ValidateStep

LEMMA MishapIsTyped == ASSUME MountTyped, Mishap PROVE mishaps' \in Nat
BY DEF MountTyped, RestTyped, Mishap

LEMMA DaemonStepIsTyped ==
  ASSUME MountTyped, NEW d \in Daemons,
         DaemonMounts(d) \/ DaemonLeaves(d) \/ DaemonDies(d) \/ ReusePid(d)
  PROVE  MountTyped'
<1> DEFINE raced == {<<c, command[c].at>> : c \in {o \in Commands :
                       command[o].by = d /\ command[o].at \in {"sigterm", "sigkill"}}}
           reused == [daemon[d] EXCEPT !.life = "reused", !.signalled = FALSE, !.raced = raced]
<1>0. raced \in SUBSET (Commands \X MountStep)
  BY DEF MountStep
<1> HIDE DEF raced
<1>1. /\ daemon[d] \in Daemon
      /\ [daemon[d] EXCEPT !.life = "up"] \in Daemon
      /\ [daemon[d] EXCEPT !.life = "dead"] \in Daemon
      /\ reused \in Daemon
  BY <1>0 DEF MountTyped, RestTyped, Daemon
<1>2. daemon' \in {[daemon EXCEPT ![d] = [daemon[d] EXCEPT !.life = "up"]],
                   [daemon EXCEPT ![d] = [daemon[d] EXCEPT !.life = "dead"]],
                   [daemon EXCEPT ![d] = reused]}
  BY DEF DaemonMounts, DaemonLeaves, DaemonDies, ReusePid, MountTyped, RestTyped, raced
<1> HIDE DEF reused
<1>3. daemon' \in [Daemons -> Daemon]
  BY <1>1, <1>2 DEF MountTyped, RestTyped
<1>4. mounts' \in SUBSET Owner /\ \A o, q \in mounts' : o = q
  BY DEF DaemonMounts, DaemonLeaves, DaemonDies, ReusePid, MountTyped, RestTyped, Owner
<1>5. mishaps' \in Nat
  BY MishapIsTyped DEF DaemonMounts, DaemonLeaves, DaemonDies, ReusePid, MountTyped, RestTyped
<1>6. UNCHANGED <<saved, runtime, command, external>>
  BY DEF DaemonMounts, DaemonLeaves, DaemonDies, ReusePid
<1>7. CommandTyped'
  BY <1>6 DEF MountTyped, CommandTyped
<1> QED BY <1>3, <1>4, <1>5, <1>6, <1>7 DEF MountTyped, RestTyped, external

LEMMA OtherStepIsTyped ==
  ASSUME MountTyped, NativeMount \/ DriveDrift \/ UNCHANGED mountVars PROVE MountTyped'
<1>1. CommandTyped'
  BY DEF MountTyped, CommandTyped, NativeMount, DriveDrift, mountVars
<1>2. CASE NativeMount
  BY <1>1, <1>2, MishapIsTyped DEF MountTyped, RestTyped, NativeMount, external, Owner
<1>3. CASE DriveDrift
  <2>1. drive' \in Drives
    BY <1>3, MountAssumption DEF DriveDrift, MountTyped, RestTyped, Drives
  <2> QED BY <1>1, <1>3, <2>1, MishapIsTyped DEF MountTyped, RestTyped, DriveDrift
<1>4. CASE UNCHANGED mountVars
  BY <1>1, <1>4 DEF MountTyped, RestTyped, mountVars
<1> QED BY <1>2, <1>3, <1>4

LEMMA FailureIsTyped ==
  ASSUME MountTyped, NEW c \in Commands, InterruptStart(c) \/ UnmountFails(c) \/ KillCommand(c)
  PROVE  MountTyped'
<1>1. CommandTyped /\ command[c] \in Command /\ mishaps' \in Nat
  BY MishapIsTyped, StepTells DEF InterruptStart, UnmountFails, KillCommand, MountTyped
<1>2. CASE InterruptStart(c)
  <2>1. command[c].op = "start"
    BY <1>1, <1>2, StepTells DEF InterruptStart, On, BeforeSpawn
  <2>2. \E step \in {"removeState", "reap", "entries"} : Go(c, step)
    BY <1>2 DEF InterruptStart
  <2>3. {"removeState", "reap", "entries"} \subseteq StepsOf("start") \ {"repeat"}
    BY DEF StepsOf, OwnSteps, EndingSteps
  <2>4. CommandTyped'
    BY <1>1, <2>1, <2>2, <2>3, GoIsTyped
  <2> QED BY <1>1, <1>2, <2>4 DEF MountTyped, RestTyped, InterruptStart, external
<1>3. CASE UnmountFails(c)
  <2>1. CommandTyped'
    BY <1>1, <1>3, RefuseIsTyped DEF UnmountFails, EndingSteps
  <2> QED BY <1>1, <1>3, <2>1 DEF MountTyped, RestTyped, UnmountFails, external
<1>4. CASE KillCommand(c)
  <2>1. CommandTyped'
    BY <1>1, <1>4, EndIsTyped DEF KillCommand
  <2>2. abandoned' \in SUBSET StateFiles
    BY <1>1, <1>4 DEF KillCommand, MountTyped, RestTyped, Command
  <2> QED BY <1>1, <1>4, <2>1, <2>2 DEF MountTyped, RestTyped, KillCommand
<1> QED BY <1>2, <1>3, <1>4

LEMMA MountStepIsTyped == MountTyped /\ [MountNext]_mountVars => MountTyped'
<1> SUFFICES ASSUME MountTyped, [MountNext]_mountVars PROVE MountTyped'
  OBVIOUS
<1>1. ASSUME NEW c \in Commands, CommandStep(c) PROVE MountTyped'
  BY <1>1, StartStepIsTyped, CleanupStepIsTyped, ValidateStepIsTyped DEF CommandStep
<1>2. ASSUME NEW c \in Commands, NEW f \in StateFiles,
             NEW op \in {"start", "status", "stop", "probe"}, BeginMount(c, op, f)
      PROVE  MountTyped'
  <2>1. CommandTyped'
    BY <1>2, BeginIsTyped DEF MountTyped
  <2> QED BY <1>2, <2>1 DEF MountTyped, RestTyped, BeginMount, external
<1> QED BY <1>1, <1>2, FailureIsTyped, DaemonStepIsTyped, OtherStepIsTyped DEF MountNext

LEMMA MountStartsTyped == MountInit => MountTyped
<1> SUFFICES ASSUME MountInit PROVE MountTyped
  OBVIOUS
<1>1. 0 \in Drives /\ Idle.at \in StepsOf(Idle.op)
  BY MountAssumption, IdleIsTyped DEF Drives, StepsOf
<1>2. CommandTyped
  BY <1>1, IdleIsTyped DEF MountInit, CommandTyped
<1>3. RestTyped
  BY <1>1 DEF MountInit, RestTyped, Daemon, Saved, Unsaved
<1> QED BY <1>2, <1>3 DEF MountTyped

\* Every variable of the mount scripts keeps its type, whatever overlaps, dies or is killed
\* (drive_mount_fallback.py, drive_identity_probe.py).
THEOREM MountsAreTyped == MountSpec => []MountTypeOK
<1>1. MountTyped => MountTypeOK
  BY DEF MountTyped, CommandTyped, RestTyped, MountTypeOK
<1> QED BY <1>1, MountStartsTyped, MountStepIsTyped, PTL DEF MountSpec

--------------------------------------------------------------------------------
(* The invariant. *)

Alone == \A c, o \in Commands : Changes(command[c].op) /\ Changes(command[o].op) => c = o

\* The start or stop that is at work, or that there is none.
IsWork(w) ==
  \/ \E c \in Commands : Changes(command[c].op) /\ w = command[c]
  \/ w = Idle /\ \A c \in Commands : ~Changes(command[c].op)

\* The daemon and the files of the start or stop w, by the step it is at.
StartStands(w, dm, sv, rt) ==
  /\ w.at \in BeforeSpawn => w.by = Nobody
  /\ w.at \in OwnSteps => w.by \in Daemons
  /\ w.at \in (BeforeSpawn \ {"state"}) \cup {"record", "look", "write", "reap", "removeRuntime"}
       => sv[w.file] = Unsaved
  /\ w.at \in {"wait", "identify"} => sv[w.file].by = w.by
  /\ w.at \in {"entries", "exact", "unmount"} \cup (EndingSteps \ {"removeRuntime"})
       => sv[w.file] = Unsaved \/ sv[w.file].by = w.by
  /\ w.at \in {"spawn", "recheck"} \cup OwnSteps => rt[w.file] = "ready"
  /\ w.by \in Daemons => dm[w.by].life \notin {"unborn", "reused"}
  /\ w.at \in {"recheck", "removeState", "removeRuntime"} /\ w.by \in Daemons
       => dm[w.by].life = "dead"

StopStands(w, dm, sv) ==
  /\ w.at \in LoadedSteps \cup {"unmount"} \cup EndingSteps
       => w.by \in Daemons /\ sv[w.file].by = w.by
  /\ w.at \in {"recheck", "removeRuntime", "removeState"} => dm[w.by].life \in {"dead", "reused"}

WorkerStands(w, dm, sv, rt) ==
  /\ w.op = "start" => StartStands(w, dm, sv, rt)
  /\ w.op = "stop" => StopStands(w, dm, sv)

\* A state lacks the runtime directory only between the last two removals of a stop.
FilesStand(w, sv, rt, ab) ==
  \A f \in StateFiles \ ab :
    sv[f] # Unsaved /\ rt[f] # "ready" => w.op = "stop" /\ w.at = "removeState" /\ w.file = f

\* A daemon that is alive is the work's, or a state file names it.
DaemonStands(d, w, m, life, signalled, sv) ==
  /\ life = "starting" => w.op = "start" /\ w.by = d
  /\ life = "up" =>
       d \in m \/ (Changes(w.op) /\ w.by = d /\ w.at \in Signalling)
  /\ life \in {"starting", "up"} /\ signalled =>
       Changes(w.op) /\ w.by = d /\ w.at \in {"grace", "kill", "sigkill"}
  /\ life \in {"starting", "up"} =>
       (w.op = "start" /\ w.by = d) \/ \E f \in StateFiles : sv[f].by = d
  /\ d \in m => life \notin {"starting", "unborn"}

\* What is mounted is the work's own or native.
MountStands(w, m) ==
  /\ w.op = "start" =>
       /\ w.at \in {"resolve", "mkdir", "install", "spawn"} => m \subseteq {Native}
       /\ w.at \in OwnSteps => m \subseteq {w.by, Native}
       /\ w.at \in {"identify", "unmount"} => w.by \in m
  /\ w.op = "stop" /\ w.at \in {"mount", "bind", "unmount"} => w.by \in m

Stands(w, m, dm, sv, rt, ab) ==
  /\ WorkerStands(w, dm, sv, rt)
  /\ FilesStand(w, sv, rt, ab)
  /\ ab = {} => /\ MountStands(w, m)
                /\ \A d \in Daemons : DaemonStands(d, w, m, dm[d].life, dm[d].signalled, sv)

UnbornAreQuiet == \A d \in Daemons : daemon[d].life = "unborn" => ~daemon[d].signalled

WorkStands ==
  \A w \in Command : IsWork(w) => Stands(w, mounts, daemon, saved, runtime, abandoned)

MountInv == MountTyped /\ UnbornAreQuiet /\ Alone /\ WorkStands

\* What a command does next: it takes on k, which goes on from w to a step of its own.
Takes(c, k) == k \in Command /\ command' = [command EXCEPT ![c] = k]
Onward(w, k, step) == k.op = w.op /\ k.file = w.file /\ k.by = w.by /\ k.at = step

LEMMA GoingOn ==
  ASSUME CommandTyped, NEW c \in Commands, NEW step \in MountStep, Go(c, step)
  PROVE  \E k : Takes(c, k) /\ Onward(command[c], k, step)
<1> DEFINE k == [command[c] EXCEPT !.at = step]
<1>1. command[c] \in Command
  BY DEF CommandTyped
<1>2. k \in Command /\ Onward(command[c], k, step)
  BY <1>1 DEF Command, Onward
<1>3. command' = [command EXCEPT ![c] = k]
  BY DEF Go, CommandTyped
<1> QED BY <1>2, <1>3 DEF Takes

LEMMA Ending == ASSUME NEW c \in Commands, End(c) PROVE Takes(c, Idle)
BY IdleIsTyped DEF End, Takes

LEMMA Refusing ==
  ASSUME CommandTyped, NEW c \in Commands, NEW next \in MountStep, Refuse(c, next)
  PROVE  \/ /\ command[c].op = "start"
            /\ \E k : Takes(c, k) /\ Onward(command[c], k, next)
         \/ command[c].op # "start" /\ Takes(c, Idle)
<1> DEFINE k == [command[c] EXCEPT !.at = next, !.failed = TRUE]
<1>1. command[c] \in Command
  BY DEF CommandTyped
<1>2. k \in Command /\ Onward(command[c], k, next)
  BY <1>1 DEF Command, Onward
<1>3. CASE command[c].op = "start"
  <2>1. command' = [command EXCEPT ![c] = k]
    BY <1>3 DEF Refuse, CommandTyped
  <2> HIDE DEF k
  <2> QED BY <1>2, <1>3, <2>1 DEF Takes
<1>4. CASE command[c].op # "start"
  BY <1>4, IdleIsTyped DEF Refuse, Takes, CommandTyped
<1> QED BY <1>3, <1>4

LEMMA RefusedAt ==
  ASSUME CommandTyped, NEW c \in Commands, NEW next \in MountStep, Refuse(c, next)
  PROVE  command'[c].at \in {next, "idle"}
<1>1. \E k : Takes(c, k) /\ k.at \in {next, "idle"}
  BY Refusing, IdleIsTyped DEF Onward
<1> QED BY <1>1 DEF Takes, CommandTyped

\* Whose work it is after a command took on k.
LEMMA WorkerMoves ==
  ASSUME CommandTyped, Alone, NEW c \in Commands, NEW k, Takes(c, k), Changes(command[c].op),
         k = Idle \/ k.op = command[c].op
  PROVE  IsWork(command[c]) /\ Alone' /\ \A w : IsWork(w)' => w = k
<1>1. \A o \in Commands : command'[o] = IF o = c THEN k ELSE command[o]
  BY DEF Takes, CommandTyped
<1>2. \A o \in Commands \ {c} : ~Changes(command[o].op)
  BY DEF Alone
<1>3. ~Changes(Idle.op)
  BY IdleIsTyped DEF Changes
<1>4. IsWork(command[c])
  BY DEF IsWork
<1>5. Alone'
  BY <1>1, <1>2 DEF Alone
<1>6. ASSUME NEW w, IsWork(w)' PROVE w = k
  BY <1>1, <1>2, <1>3, <1>6 DEF IsWork
<1> QED BY <1>4, <1>5, <1>6

LEMMA WatcherMoves ==
  ASSUME CommandTyped, Alone, NEW c \in Commands, NEW k, Takes(c, k),
         ~Changes(command[c].op), ~Changes(k.op)
  PROVE  Alone' /\ \A w : IsWork(w)' => IsWork(w)
<1>1. \A o \in Commands : command'[o] = IF o = c THEN k ELSE command[o]
  BY DEF Takes, CommandTyped
<1>2. \A o \in Commands : Changes(command'[o].op) => command'[o] = command[o]
  BY <1>1
<1>3. \A o \in Commands : Changes(command[o].op) => command'[o] = command[o]
  BY <1>1
<1>4. Alone'
  BY <1>2 DEF Alone
<1>5. ASSUME NEW w, IsWork(w)' PROVE IsWork(w)
  BY <1>2, <1>3, <1>5 DEF IsWork
<1> QED BY <1>4, <1>5

\* The same at the start of one: there was no other.
LEMMA WorkBegins ==
  ASSUME CommandTyped, NEW c \in Commands, NEW k, Takes(c, k),
         \A o \in Commands : ~Changes(command[o].op)
  PROVE  /\ IsWork(Idle) /\ Alone'
         /\ Changes(k.op) => \A w : IsWork(w)' => w = k
<1>1. \A o \in Commands : command'[o] = IF o = c THEN k ELSE command[o]
  BY DEF Takes, CommandTyped
<1> QED BY <1>1 DEF IsWork, Alone

--------------------------------------------------------------------------------
(* Steps that only look: the same facts, at the next step. *)

MountParts(m, dm, sv, rt) ==
  /\ m \in SUBSET Owner /\ \A o, q \in m : o = q
  /\ dm \in [Daemons -> Daemon] /\ sv \in [StateFiles -> Saved]
  /\ rt \in [StateFiles -> {"none", "bare", "ready"}]

\* From one step of the ending of a daemon to the next.
Signals(w, step) ==
  \/ w.at = "terminate" /\ step = "sigterm"
  \/ w.at = "grace" /\ step = "kill"
  \/ w.at = "kill" /\ step = "sigkill"

\* A start that goes on from w to a step.
StartGoes(w, step, m, dm, sv) ==
  \/ w.at = "state" /\ step = "mountpoint" /\ sv[w.file] = Unsaved
  \/ w.at = "mountpoint" /\ step = "resolve" /\ m = {}
  \/ w.at = "resolve" /\ step = "mkdir"
  \/ w.at \in {"install", "spawn"} /\ step = "removeState"
  \/ w.at = "record" /\ step \in {"look", "reap"}
  \/ w.at = "look" /\ step = "write" /\ sv[w.file] = Unsaved
  \/ w.at \in {"look", "write", "wait", "identify"} /\ step = "entries"
  \/ w.at = "wait" /\ step = "identify" /\ \E o \in Daemons : m = {o}
  \/ w.at = "entries" /\ step = "terminate" /\ m = {}
  \/ w.at = "entries" /\ step = "exact"
  \/ w.at = "exact" /\ step = "unmount" /\ \E o \in Daemons : m = {o}
  \/ w.at = "exact" /\ step = "terminate"
  \/ w.at = "unmount" /\ step = "terminate"
  \/ w.at \in Signalling /\ step = "recheck" /\ dm[w.by].life = "dead"
  \/ Signals(w, step)
  \/ w.at = "recheck" /\ step = "removeState"

LEMMA StartGoesOn ==
  ASSUME NEW m, NEW dm, NEW sv, NEW rt, NEW ab, MountParts(m, dm, sv, rt),
         NEW w \in Command, NEW k \in Command, NEW step, Onward(w, k, step),
         w.op = "start", StartGoes(w, step, m, dm, sv), Stands(w, m, dm, sv, rt, ab)
  PROVE  Stands(k, m, dm, sv, rt, ab)
<1>1. StartStands(k, dm, sv, rt)
  BY MountAssumption
     DEF Stands, WorkerStands, StartStands, StartGoes, Signals, Signalling, Onward, BeforeSpawn, OwnSteps, EndingSteps
<1>2. WorkerStands(k, dm, sv, rt)
  BY <1>1 DEF WorkerStands, Onward
<1>3. FilesStand(k, sv, rt, ab)
  BY DEF Stands, FilesStand
<1>4. ASSUME ab = {} PROVE MountStands(k, m)
  BY <1>4, MountAssumption DEF Stands, MountStands, StartGoes, Signals, Signalling, Onward, OwnSteps, BeforeSpawn
<1>5. ASSUME ab = {}, NEW d \in Daemons
      PROVE  DaemonStands(d, k, m, dm[d].life, dm[d].signalled, sv)
  <2>1. DaemonStands(d, w, m, dm[d].life, dm[d].signalled, sv)
    BY <1>5 DEF Stands
  <2> QED BY <2>1 DEF DaemonStands, StartGoes, Signals, Signalling, Onward, Changes
<1> QED BY <1>2, <1>3, <1>4, <1>5 DEF Stands

\* A stop that goes on from w to a step.
StopGoes(w, step, dm) ==
  \/ w.at = "process" /\ step = "mount" /\ dm[w.by].life \in {"starting", "up"}
  \/ w.at = "mount" /\ step = "bind"
  \/ w.at = "bind" /\ step = "unmount"
  \/ w.at \in Signalling /\ step = "recheck" /\ dm[w.by].life \in {"dead", "reused"}
  \/ Signals(w, step)
  \/ w.at = "recheck" /\ step = "removeRuntime"

LEMMA StopGoesOn ==
  ASSUME NEW m, NEW dm, NEW sv, NEW rt, NEW ab, MountParts(m, dm, sv, rt),
         NEW w \in Command, NEW k \in Command, NEW step, Onward(w, k, step),
         w.op = "stop", StopGoes(w, step, dm), Stands(w, m, dm, sv, rt, ab)
  PROVE  Stands(k, m, dm, sv, rt, ab)
<1>1. StopStands(w, dm, sv)
  BY DEF Stands, WorkerStands
<1>2. StopStands(k, dm, sv)
  BY <1>1 DEF StopStands, StopGoes, Signals, Signalling, Onward, LoadedSteps, EndingSteps
<1>3. WorkerStands(k, dm, sv, rt)
  BY <1>2 DEF WorkerStands, Onward
<1>4. FilesStand(k, sv, rt, ab)
  BY DEF Stands, FilesStand, StopGoes, Signals, Signalling
<1>5. ASSUME ab = {} PROVE MountStands(k, m)
  <2>1. ASSUME w.at = "process"
        PROVE  w.by \in Daemons /\ DaemonStands(w.by, w, m, dm[w.by].life, dm[w.by].signalled, sv)
    BY <1>1, <1>5, <2>1 DEF Stands, StopStands, LoadedSteps
  <2> QED BY <1>5, <2>1 DEF Stands, MountStands, StopGoes, Signals, Signalling, Onward, DaemonStands, Signalling
<1>6. ASSUME ab = {}, NEW d \in Daemons
      PROVE  DaemonStands(d, k, m, dm[d].life, dm[d].signalled, sv)
  <2>1. DaemonStands(d, w, m, dm[d].life, dm[d].signalled, sv)
    BY <1>6 DEF Stands
  <2> QED BY <2>1 DEF DaemonStands, StopGoes, Signals, Signalling, Onward, Changes
<1> QED BY <1>3, <1>4, <1>5, <1>6 DEF Stands

\* A start or stop that ends here leaves nothing undone.
MayEnd(w, dm) ==
  \/ w.op = "start" /\ w.at \in {"state", "mountpoint", "mkdir", "identify", "recheck"}
  \/ /\ w.op = "stop"
     /\ \/ w.at \in {"load", "process", "mount", "bind", "unmount", "recheck"}
        \/ w.at \in Signalling /\ dm[w.by].life \in {"dead", "reused"}

LEMMA WorkEnds ==
  ASSUME NEW m, NEW dm, NEW sv, NEW rt, NEW ab, MountParts(m, dm, sv, rt),
         NEW w \in Command, MayEnd(w, dm), Stands(w, m, dm, sv, rt, ab)
  PROVE  Stands(Idle, m, dm, sv, rt, ab)
<1>1. WorkerStands(Idle, dm, sv, rt)
  BY IdleIsTyped DEF WorkerStands
<1>2. FilesStand(Idle, sv, rt, ab)
  BY DEF Stands, FilesStand, MayEnd, Signalling
<1>3. ASSUME ab = {} PROVE MountStands(Idle, m)
  BY IdleIsTyped DEF MountStands
<1>4. ASSUME ab = {}, NEW d \in Daemons
      PROVE  DaemonStands(d, Idle, m, dm[d].life, dm[d].signalled, sv)
  <2>1. DaemonStands(d, w, m, dm[d].life, dm[d].signalled, sv)
    BY <1>4 DEF Stands
  <2>2. ASSUME w.op = "start", w.by = d, dm[d].life \in {"starting", "up"}
        PROVE  d \in m /\ dm[d].life = "up" /\ ~dm[d].signalled /\ sv[w.file].by = d
    <3>1. StartStands(w, dm, sv, rt) /\ MountStands(w, m)
      BY <1>4, <2>2 DEF Stands, WorkerStands
    <3>2. w.at = "identify"
      BY <2>2, <3>1, MountAssumption DEF StartStands, MayEnd, Signalling, BeforeSpawn
    <3> QED BY <2>1, <2>2, <3>1, <3>2 DEF StartStands, MountStands, DaemonStands, Signalling
  <2>3. w.file \in StateFiles
    BY DEF Command
  <2> QED BY <2>1, <2>2, <2>3 DEF DaemonStands, Signalling, MayEnd, Changes
<1> QED BY <1>1, <1>2, <1>3, <1>4 DEF Stands

\* After a step of the start or stop c, what it goes on with stands.
StepStands(c) ==
  \E k : /\ Takes(c, k) /\ (k = Idle \/ k.op = command[c].op)
         /\ Stands(k, mounts', daemon', saved', runtime', abandoned')

Working(c) ==
  /\ MountTyped /\ Changes(command[c].op)
  /\ Stands(command[c], mounts, daemon, saved, runtime, abandoned)

Goes(c, step) ==
  /\ step \in MountStep
  /\ \/ command[c].op = "start" /\ StartGoes(command[c], step, mounts, daemon, saved)
     \/ command[c].op = "stop" /\ StopGoes(command[c], step, daemon)

LEMMA WorkerTells ==
  ASSUME NEW c \in Commands, Working(c)
  PROVE  /\ CommandTyped /\ MountParts(mounts, daemon, saved, runtime)
         /\ command[c] \in Command /\ command[c].op \in {"start", "stop"}
         /\ command[c].file \in StateFiles
BY DEF Working, MountTyped, RestTyped, CommandTyped, MountParts, Changes, Command

LEMMA LookingOn ==
  ASSUME NEW c \in Commands, Working(c), UNCHANGED <<mounts, daemon, saved, runtime, abandoned>>,
         \/ \E step : Goes(c, step) /\ Go(c, step)
         \/ MayEnd(command[c], daemon) /\ End(c)
         \/ \E next \in MountStep :
              /\ Refuse(c, next)
              /\ command[c].op = "start" => Goes(c, next)
              /\ command[c].op # "start" => MayEnd(command[c], daemon)
  PROVE  StepStands(c)
<1>1. /\ CommandTyped /\ MountParts(mounts, daemon, saved, runtime)
      /\ command[c] \in Command /\ command[c].op \in {"start", "stop"}
      /\ Stands(command[c], mounts, daemon, saved, runtime, abandoned)
  BY WorkerTells DEF Working
<1>2. ASSUME NEW step, Goes(c, step), NEW k, Takes(c, k), Onward(command[c], k, step)
      PROVE  StepStands(c)
  <2>1. k \in Command
    BY <1>2 DEF Takes
  <2>2. Stands(k, mounts, daemon, saved, runtime, abandoned)
    BY <1>1, <1>2, <2>1, StartGoesOn, StopGoesOn DEF Goes
  <2> QED BY <1>2, <2>2 DEF StepStands, Onward
<1>3. ASSUME MayEnd(command[c], daemon), Takes(c, Idle) PROVE StepStands(c)
  BY <1>1, <1>3, WorkEnds DEF StepStands
<1> QED BY <1>1, <1>2, <1>3, GoingOn, Ending, Refusing DEF Goes

LEMMA StartLooks ==
  ASSUME NEW c \in Commands, Working(c),
         \/ LookForState(c) \/ LookForMounts(c) \/ ResolveDrive(c) \/ RecordProcess(c)
         \/ LookBeforeWrite(c) \/ WaitForMount(c) \/ IdentifyOwnProcess(c) \/ InterruptStart(c)
  PROVE  StepStands(c)
<1>1. /\ CommandTyped /\ MountParts(mounts, daemon, saved, runtime)
      /\ command[c] \in Command
  BY WorkerTells
<1>2. command[c].op = "start"
  BY <1>1, StepTells
     DEF LookForState, LookForMounts, ResolveDrive, RecordProcess, LookBeforeWrite, WaitForMount,
         IdentifyOwnProcess, InterruptStart, On, BeforeSpawn
<1>3. UNCHANGED <<mounts, daemon, saved, runtime, abandoned>>
  BY DEF LookForState, LookForMounts, ResolveDrive, RecordProcess, LookBeforeWrite, WaitForMount,
         IdentifyOwnProcess, InterruptStart, external
<1>4. CASE ResolveDrive(c)
  <2> DEFINE k == [command[c] EXCEPT !.at = "mkdir", !.drive = drive]
  <2>1. k \in Command /\ Onward(command[c], k, "mkdir")
    BY <1>1 DEF Command, Onward, MountStep, Working, MountTyped, RestTyped
  <2>2. command' = [command EXCEPT ![c] = k]
    BY <1>1, <1>4 DEF ResolveDrive, CommandTyped
  <2>3. StartGoes(command[c], "mkdir", mounts, daemon, saved)
    BY <1>4 DEF ResolveDrive, StartGoes, On
  <2> HIDE DEF k
  <2>4. Stands(k, mounts, daemon, saved, runtime, abandoned)
    BY <1>1, <1>2, <2>1, <2>3, StartGoesOn DEF Working
  <2> QED BY <1>2, <1>3, <2>1, <2>2, <2>4 DEF StepStands, Takes, Onward
<1>5. CASE LookForState(c) \/ LookForMounts(c) \/ RecordProcess(c) \/ LookBeforeWrite(c)
  <2>1. (\E step : Goes(c, step) /\ Go(c, step)) \/ (MayEnd(command[c], daemon) /\ End(c))
    BY <1>2, <1>5 DEF LookForState, LookForMounts, RecordProcess, LookBeforeWrite, Goes, StartGoes,
       MayEnd, On, MountStep
  <2> QED BY <1>3, <2>1, LookingOn
<1>6. CASE WaitForMount(c) \/ IdentifyOwnProcess(c) \/ InterruptStart(c)
  <2>1. ExactMount => \E o \in Daemons : mounts = {o}
    BY DEF ExactMount, Owner
  <2>2. (\E step : Goes(c, step) /\ Go(c, step)) \/ (MayEnd(command[c], daemon) /\ End(c))
    BY <1>2, <1>6, <2>1 DEF WaitForMount, IdentifyOwnProcess, InterruptStart, Goes, StartGoes,
       MayEnd, On, MountStep
  <2> QED BY <1>3, <2>2, LookingOn
<1> QED BY <1>4, <1>5, <1>6

LEMMA CleanupLooks ==
  ASSUME NEW c \in Commands, Working(c),
         \/ LookForEntries(c) \/ RequireExactMount(c) \/ UnmountFails(c) \/ GraceEnds(c)
         \/ RecheckMounts(c) \/ Terminate(c) \/ KillDaemon(c)
         \/ (SendTerm(c) /\ ~Go(c, "grace")) \/ (SendKill(c) /\ UNCHANGED daemon)
         \/ (Unmount(c) /\ mounts = {})
  PROVE  StepStands(c)
<1>1. /\ CommandTyped /\ MountParts(mounts, daemon, saved, runtime)
      /\ command[c] \in Command /\ command[c].op \in {"start", "stop"}
  BY WorkerTells
<1>2. command[c].at \in {"entries", "exact"} => command[c].op = "start"
  BY <1>1, StepTells
<1>3. UNCHANGED <<mounts, daemon, saved, runtime, abandoned>>
  BY DEF LookForEntries, RequireExactMount, UnmountFails, GraceEnds, RecheckMounts, Terminate,
         KillDaemon, SendTerm, SendKill, Unmount, external
<1>4. ExactMount => \E o \in Daemons : mounts = {o}
  BY DEF ExactMount, Owner
<1>5. CASE LookForEntries(c) \/ RequireExactMount(c)
  <2>1. \/ \E step : Goes(c, step) /\ Go(c, step)
        \/ \E next \in MountStep : Refuse(c, next) /\ Goes(c, next)
    BY <1>2, <1>4, <1>5 DEF LookForEntries, RequireExactMount, Goes, StartGoes, On, MountStep
  <2> QED BY <1>2, <1>3, <1>5, <2>1, LookingOn DEF LookForEntries, RequireExactMount, On
<1>6. CASE UnmountFails(c) \/ (Unmount(c) /\ mounts = {})
  <2>1. Refuse(c, "terminate") /\ command[c].at = "unmount"
    BY <1>6 DEF UnmountFails, Unmount, On
  <2>2. /\ "terminate" \in MountStep
        /\ command[c].op = "start" => Goes(c, "terminate")
        /\ command[c].op # "start" => MayEnd(command[c], daemon)
    BY <1>1, <2>1 DEF Goes, StartGoes, MayEnd, MountStep
  <2> QED BY <1>3, <2>1, <2>2, LookingOn
<1>7. CASE RecheckMounts(c)
  <2>1. (\E step : Goes(c, step) /\ Go(c, step)) \/ (MayEnd(command[c], daemon) /\ End(c))
    BY <1>1, <1>7 DEF RecheckMounts, Goes, StartGoes, StopGoes, MayEnd, On, MountStep
  <2> QED BY <1>3, <2>1, LookingOn
<1>8. ASSUME command[c].at \in Signalling
      PROVE  /\ command[c].by \in Daemons
             /\ daemon[command[c].by].life = "reused" => command[c].op = "stop"
  <2>1. command[c].by \in Daemons
    BY <1>1, <1>8 DEF Working, Stands, WorkerStands, StartStands, StopStands, OwnSteps,
       EndingSteps, Signalling
  <2> QED BY <1>1, <2>1 DEF Working, Stands, WorkerStands, StartStands
<1>9. ASSUME command[c].at \in Signalling, daemon[command[c].by].life \in {"dead", "reused"},
             \/ Refuse(c, "recheck") /\ command[c].op = "stop"
             \/ Go(c, "recheck")
      PROVE  StepStands(c)
  <2>1. "recheck" \in MountStep
    BY DEF MountStep
  <2>2. Go(c, "recheck") => Goes(c, "recheck")
    BY <1>1, <1>8, <1>9, <2>1 DEF Goes, StartGoes, StopGoes
  <2>3. command[c].op = "stop" => MayEnd(command[c], daemon)
    BY <1>9 DEF MayEnd, Signalling
  <2> QED BY <1>3, <1>9, <2>1, <2>2, <2>3, LookingOn
<1>10. ASSUME NEW step, Signals(command[c], step), Go(c, step) PROVE StepStands(c)
  <2>1. Goes(c, step)
    BY <1>1, <1>10 DEF Goes, StartGoes, StopGoes, Signals, MountStep
  <2> QED BY <1>3, <1>10, <2>1, LookingOn
<1>11. CASE Terminate(c)
  <2>1. command[c].at = "terminate" /\ command[c].at \in Signalling
    BY <1>11 DEF Terminate, On, Signalling
  <2>2. CASE Go(c, "sigterm")
    BY <1>10, <2>1, <2>2 DEF Signals
  <2>3. CASE ~Go(c, "sigterm")
    BY <1>8, <1>9, <1>11, <2>1, <2>3 DEF Terminate
  <2> QED BY <2>2, <2>3
<1>12. CASE GraceEnds(c)
  <2>1. command[c].at = "grace" /\ command[c].at \in Signalling
    BY <1>12 DEF GraceEnds, On, Signalling
  <2>2. CASE Go(c, "kill")
    BY <1>10, <2>1, <2>2 DEF Signals
  <2>3. CASE ~Go(c, "kill")
    BY <1>9, <1>12, <2>1, <2>3 DEF GraceEnds
  <2> QED BY <2>2, <2>3
<1>13. CASE KillDaemon(c)
  <2>1. command[c].at = "kill" /\ command[c].at \in Signalling
    BY <1>13 DEF KillDaemon, On, Signalling
  <2>2. CASE Go(c, "sigkill")
    BY <1>10, <2>1, <2>2 DEF Signals
  <2>3. CASE ~Go(c, "sigkill")
    BY <1>1, <1>8, <1>9, <1>13, <2>1, <2>3 DEF KillDaemon
  <2> QED BY <2>2, <2>3
<1>14. CASE SendTerm(c) /\ ~Go(c, "grace")
  BY <1>8, <1>9, <1>14 DEF SendTerm, On, Signalling
<1>15. CASE SendKill(c) /\ UNCHANGED daemon
  <2>1. command[c].at \in Signalling /\ command[c].by \in Daemons
    BY <1>8, <1>15 DEF SendKill, On, Signalling
  <2>2. ~(Taken(command[c].by)
          /\ daemon = [daemon EXCEPT ![command[c].by].life = "dead",
                                     ![command[c].by].signalled = TRUE])
    BY <1>1, <2>1 DEF Taken, Alive, MountParts, Daemon
  <2> QED BY <1>8, <1>9, <1>15, <2>1, <2>2 DEF SendKill
<1> QED BY <1>5, <1>6, <1>7, <1>11, <1>12, <1>13, <1>14, <1>15

LEMMA StopLooks ==
  ASSUME NEW c \in Commands, Working(c),
         RequireProcessIdentity(c) \/ RequireMount(c) \/ RequireStateBinding(c)
  PROVE  StepStands(c)
<1>1. command[c].op = "stop"
  BY WorkerTells, StepTells
     DEF RequireProcessIdentity, RequireMount, RequireStateBinding, On, LoadedSteps
<1>2. UNCHANGED <<mounts, daemon, saved, runtime, abandoned>>
  BY DEF RequireProcessIdentity, RequireMount, RequireStateBinding, external
<1>3. (\E step : Goes(c, step) /\ Go(c, step)) \/ (MayEnd(command[c], daemon) /\ End(c))
  BY <1>1 DEF RequireProcessIdentity, RequireMount, RequireStateBinding, Goes, StopGoes, MayEnd,
     On, Alive, MountStep
<1> QED BY <1>2, <1>3, LookingOn

LEMMA StopLoads ==
  ASSUME NEW c \in Commands, Working(c), LoadState(c)
  PROVE  StepStands(c)
<1> DEFINE w == command[c]
           s == saved[w.file]
           k == [w EXCEPT !.at = "process", !.by = s.by, !.drive = s.drive]
<1>1. /\ CommandTyped /\ MountParts(mounts, daemon, saved, runtime) /\ w \in Command
      /\ w.op = "stop" /\ w.at = "load" /\ s \in Saved
      /\ Stands(w, mounts, daemon, saved, runtime, abandoned)
  BY WorkerTells, StepTells DEF LoadState, On, Working, MountParts
<1>2. UNCHANGED <<mounts, daemon, saved, runtime, abandoned>>
  BY DEF LoadState, external
<1>3. CASE s.by = Nobody
  BY <1>1, <1>2, <1>3, LookingOn DEF LoadState, MayEnd, Signalling
<1>4. CASE s.by # Nobody
  <2>1. /\ k \in Command /\ k.op = "stop" /\ k.file = w.file /\ k.at = "process"
        /\ k.by = s.by /\ k.by \in Daemons
    BY <1>1, <1>4 DEF Command, Saved, MountStep
  <2>2. command' = [command EXCEPT ![c] = k]
    BY <1>1, <1>4 DEF LoadState, CommandTyped
  <2> HIDE DEF k
  <2>3. WorkerStands(k, daemon, saved, runtime)
    BY <2>1 DEF WorkerStands, StopStands
  <2>4. FilesStand(k, saved, runtime, abandoned)
    BY <1>1 DEF Stands, FilesStand
  <2>5. MountStands(k, mounts)
    BY <2>1 DEF MountStands
  <2>6. ASSUME abandoned = {}, NEW d \in Daemons
        PROVE  DaemonStands(d, k, mounts, daemon[d].life, daemon[d].signalled, saved)
    <3>1. DaemonStands(d, w, mounts, daemon[d].life, daemon[d].signalled, saved)
      BY <1>1, <2>6 DEF Stands
    <3> QED BY <1>1, <2>1, <3>1 DEF DaemonStands, Signalling, Changes
  <2> QED BY <1>1, <1>2, <2>1, <2>2, <2>3, <2>4, <2>5, <2>6 DEF StepStands, Takes, Stands
<1> QED BY <1>3, <1>4

--------------------------------------------------------------------------------
(* Steps that change something. *)

LEMMA RuntimeStands ==
  ASSUME NEW c \in Commands, Working(c), MakeRuntime(c) \/ InstallRclone(c)
  PROVE  StepStands(c)
<1> DEFINE w == command[c]
<1>1. /\ CommandTyped /\ MountParts(mounts, daemon, saved, runtime) /\ w \in Command
      /\ w.op = "start" /\ w.file \in StateFiles
      /\ Stands(w, mounts, daemon, saved, runtime, abandoned)
  BY WorkerTells, StepTells DEF MakeRuntime, InstallRclone, On, Working, BeforeSpawn
<1>2. UNCHANGED <<mounts, daemon, saved, abandoned>>
  BY DEF MakeRuntime, InstallRclone, external
<1>3. CASE MakeRuntime(c) /\ runtime[w.file] # "none"
  BY <1>1, <1>2, <1>3, LookingOn DEF MakeRuntime, MayEnd, Signalling, On
<1>4. CASE InstallRclone(c) \/ (MakeRuntime(c) /\ runtime[w.file] = "none")
  <2> PICK step \in {"install", "spawn"} :
        /\ Go(c, step)
        /\ runtime' = [runtime EXCEPT ![w.file] = IF step = "spawn" THEN "ready" ELSE "bare"]
        /\ w.at = IF step = "spawn" THEN "install" ELSE "mkdir"
    BY <1>4 DEF MakeRuntime, InstallRclone, On
  <2> PICK k : Takes(c, k) /\ Onward(w, k, step)
    BY <1>1, GoingOn DEF MountStep
  <2>1. WorkerStands(k, daemon, saved, runtime')
    BY <1>1 DEF Stands, WorkerStands, StartStands, Onward, BeforeSpawn, OwnSteps, EndingSteps,
       MountParts
  <2>2. FilesStand(k, saved, runtime', abandoned)
    <3>1. saved[w.file] = Unsaved
      BY <1>1 DEF Stands, WorkerStands, StartStands, BeforeSpawn
    <3> QED BY <1>1, <3>1 DEF Stands, FilesStand, MountParts
  <2>3. ASSUME abandoned = {} PROVE MountStands(k, mounts)
    BY <1>1, <2>3 DEF Stands, MountStands, Onward, OwnSteps
  <2>4. ASSUME abandoned = {}, NEW d \in Daemons
        PROVE  DaemonStands(d, k, mounts, daemon[d].life, daemon[d].signalled, saved)
    <3>1. DaemonStands(d, w, mounts, daemon[d].life, daemon[d].signalled, saved)
      BY <1>1, <2>4 DEF Stands
    <3> QED BY <3>1 DEF DaemonStands, Signalling, Onward, Changes
  <2> QED BY <1>1, <1>2, <2>1, <2>2, <2>3, <2>4 DEF StepStands, Stands, Onward
<1> QED BY <1>3, <1>4

LEMMA SpawnStands ==
  ASSUME NEW c \in Commands, Working(c), UnbornAreQuiet, SpawnMount(c)
  PROVE  StepStands(c)
<1> DEFINE w == command[c]
<1>0. PICK b \in Daemons :
        /\ daemon[b].life = "unborn"
        /\ daemon' = [daemon EXCEPT ![b].life = "starting", ![b].drive = w.drive]
        /\ command' = [command EXCEPT ![c].at = "record", ![c].by = b]
  BY DEF SpawnMount
<1> DEFINE k == [w EXCEPT !.at = "record", !.by = b]
<1>1. /\ CommandTyped /\ MountParts(mounts, daemon, saved, runtime) /\ w \in Command
      /\ w.op = "start" /\ w.at = "spawn" /\ w.file \in StateFiles
      /\ Stands(w, mounts, daemon, saved, runtime, abandoned)
  BY WorkerTells, StepTells DEF SpawnMount, On, Working, BeforeSpawn
<1>2. UNCHANGED <<mounts, saved, runtime, abandoned>>
  BY DEF SpawnMount, external
<1>3. k \in Command /\ k.op = "start" /\ k.file = w.file /\ k.at = "record" /\ k.by = b
  BY <1>1 DEF Command, MountStep
<1>4. command' = [command EXCEPT ![c] = k]
  BY <1>0, <1>1 DEF CommandTyped
<1> HIDE DEF k
<1>5. \A d \in Daemons : /\ daemon'[d].life = IF d = b THEN "starting" ELSE daemon[d].life
                         /\ daemon'[d].signalled = daemon[d].signalled
  BY <1>0, <1>1 DEF MountParts, Daemon
<1>6. saved[w.file] = Unsaved /\ runtime[w.file] = "ready" /\ w.by = Nobody
  BY <1>1 DEF Stands, WorkerStands, StartStands, BeforeSpawn
<1>7. FilesStand(w, saved, runtime, abandoned)
  BY <1>1 DEF Stands
<1>8. ASSUME abandoned = {} PROVE mounts \subseteq {Native}
  BY <1>1, <1>8 DEF Stands, MountStands
<1>9. ASSUME abandoned = {}, NEW d \in Daemons
      PROVE  DaemonStands(d, w, mounts, daemon[d].life, daemon[d].signalled, saved)
  BY <1>1, <1>9 DEF Stands
<1>10. ~daemon[b].signalled
  BY <1>0 DEF UnbornAreQuiet
<1> HIDE DEF w
<1>11. WorkerStands(k, daemon', saved, runtime)
  BY <1>3, <1>5, <1>6 DEF WorkerStands, StartStands, BeforeSpawn, OwnSteps, EndingSteps
<1>12. FilesStand(k, saved, runtime, abandoned)
  BY <1>1, <1>7 DEF FilesStand
<1>13. ASSUME abandoned = {} PROVE MountStands(k, mounts)
  BY <1>3, <1>8, <1>13 DEF MountStands
<1>14. ASSUME abandoned = {}, NEW d \in Daemons
       PROVE  DaemonStands(d, k, mounts, daemon'[d].life, daemon'[d].signalled, saved)
  <2>1. CASE d = b
    BY <1>1, <1>3, <1>5, <1>8, <1>9, <1>10, <1>14, <2>1, MountAssumption DEF DaemonStands, Signalling, Changes
  <2>2. CASE d # b
    BY <1>1, <1>3, <1>5, <1>6, <1>9, <1>14, <2>2, MountAssumption DEF DaemonStands, Signalling, Changes
  <2> QED BY <2>1, <2>2
<1>15. Stands(k, mounts, daemon', saved, runtime, abandoned)
  BY <1>11, <1>12, <1>13, <1>14 DEF Stands
<1> QED BY <1>1, <1>2, <1>3, <1>4, <1>15 DEF StepStands, Takes, w

\* terminate, kill and the reaping of a child: the work's own daemon is sent a signal.
LEMMA SignalStands ==
  ASSUME NEW c \in Commands, Working(c),
         ReapProcess(c) \/ (SendTerm(c) /\ Go(c, "grace")) \/ (SendKill(c) /\ daemon' # daemon)
  PROVE  StepStands(c)
<1> DEFINE w == command[c]
           b == w.by
<1>1. /\ CommandTyped /\ MountParts(mounts, daemon, saved, runtime) /\ w \in Command
      /\ w.op \in {"start", "stop"} /\ w.file \in StateFiles
      /\ w.at \in {"reap", "sigterm", "sigkill"} /\ (w.at = "reap" => w.op = "start")
      /\ Stands(w, mounts, daemon, saved, runtime, abandoned)
  BY WorkerTells, StepTells DEF ReapProcess, SendTerm, SendKill, On, Working
<1>2. UNCHANGED <<saved, runtime, abandoned>>
  BY DEF ReapProcess, SendTerm, SendKill, external
<1>3. /\ b \in Daemons /\ WorkerStands(w, daemon, saved, runtime)
      /\ FilesStand(w, saved, runtime, abandoned)
  BY <1>1 DEF Stands, WorkerStands, StartStands, StopStands, OwnSteps, EndingSteps
<1>4. ASSUME abandoned = {}
      PROVE  /\ MountStands(w, mounts)
             /\ \A d \in Daemons :
                  DaemonStands(d, w, mounts, daemon[d].life, daemon[d].signalled, saved)
  BY <1>1, <1>4 DEF Stands
<1>5. \E step, life :
        /\ Go(c, step)
        /\ daemon' = [daemon EXCEPT ![b].life = life, ![b].signalled = TRUE]
        /\ mounts' \in {mounts, mounts \ {b}}
        /\ \/ w.at = "reap" /\ step = "removeState" /\ life = "dead"
           \/ w.at = "sigkill" /\ step = "recheck" /\ life = "dead" /\ mounts' = mounts
           \/ w.at = "sigterm" /\ step = "grace" /\ life = daemon[b].life /\ mounts' = mounts
  <2>1. CASE ReapProcess(c)
    BY <2>1 DEF ReapProcess, On
  <2>2. CASE SendTerm(c) /\ Go(c, "grace")
    <3>1. daemon' = [daemon EXCEPT ![b].signalled = TRUE]
      <4>1. command'[c].at = "grace"
        BY <1>1, <2>2 DEF Go, CommandTyped, Command
      <4>2. ~Go(c, "recheck") /\ ~Refuse(c, "recheck")
        BY <1>1, <4>1, RefusedAt DEF Go, CommandTyped, Command, MountStep
      <4> QED BY <2>2, <4>2 DEF SendTerm
    <3>2. daemon' = [daemon EXCEPT ![b].life = daemon[b].life, ![b].signalled = TRUE]
      BY <1>1, <1>3, <3>1 DEF MountParts, Daemon
    <3> QED BY <2>2, <3>2 DEF SendTerm, On
  <2>3. CASE SendKill(c) /\ daemon' # daemon
    BY <2>3 DEF SendKill, On
  <2> QED BY <2>1, <2>2, <2>3
<1>6. PICK step, life :
        /\ Go(c, step)
        /\ daemon' = [daemon EXCEPT ![b].life = life, ![b].signalled = TRUE]
        /\ mounts' \in {mounts, mounts \ {b}}
        /\ \/ w.at = "reap" /\ step = "removeState" /\ life = "dead"
           \/ w.at = "sigkill" /\ step = "recheck" /\ life = "dead" /\ mounts' = mounts
           \/ w.at = "sigterm" /\ step = "grace" /\ life = daemon[b].life /\ mounts' = mounts
  BY <1>5
<1>7. PICK k : Takes(c, k) /\ Onward(w, k, step)
  BY <1>1, <1>6, GoingOn DEF MountStep
<1>8. \A d \in Daemons : /\ daemon'[d].life = IF d = b THEN life ELSE daemon[d].life
                         /\ daemon'[d].signalled = IF d = b THEN TRUE ELSE daemon[d].signalled
  BY <1>1, <1>3, <1>6 DEF MountParts, Daemon
<1>9. /\ mounts' \in {mounts, mounts \ {b}}
      /\ \/ w.at = "reap" /\ step = "removeState" /\ life = "dead"
         \/ w.at = "sigkill" /\ step = "recheck" /\ life = "dead" /\ mounts' = mounts
         \/ w.at = "sigterm" /\ step = "grace" /\ life = daemon[b].life /\ mounts' = mounts
  BY <1>6
<1>10. k.op = w.op /\ k.file = w.file /\ k.by = b /\ k.at = step
  BY <1>7 DEF Onward
<1> HIDE DEF w, b
<1>11. WorkerStands(k, daemon', saved, runtime)
  <2>1. CASE w.op = "start"
    BY <1>3, <1>8, <1>9, <1>10, <2>1
       DEF WorkerStands, StartStands, BeforeSpawn, OwnSteps, EndingSteps, b
  <2>2. CASE w.op = "stop"
    BY <1>1, <1>3, <1>8, <1>9, <1>10, <2>2
       DEF WorkerStands, StopStands, LoadedSteps, EndingSteps, b
  <2> QED BY <1>1, <2>1, <2>2
<1>12. FilesStand(k, saved, runtime, abandoned)
  BY <1>1, <1>3 DEF FilesStand
<1>13. ASSUME abandoned = {} PROVE MountStands(k, mounts')
  BY <1>4, <1>9, <1>10, <1>13 DEF MountStands, OwnSteps, b
<1>14. ASSUME abandoned = {}, NEW d \in Daemons
       PROVE  DaemonStands(d, k, mounts', daemon'[d].life, daemon'[d].signalled, saved)
  <2>1. CASE d = b
    <3>1. /\ DaemonStands(d, w, mounts, daemon[d].life, daemon[d].signalled, saved)
          /\ daemon'[d].life = life /\ Changes(w.op) /\ w.by = d
      BY <1>1, <1>4, <1>8, <1>14, <2>1 DEF Changes, b
    <3>2. CASE life = "dead"
      BY <3>1, <3>2 DEF DaemonStands
    <3>3. CASE w.at = "sigterm" /\ step = "grace" /\ life = daemon[b].life /\ mounts' = mounts
      BY <1>10, <2>1, <3>1, <3>3 DEF DaemonStands, Signalling
    <3> QED BY <1>9, <3>2, <3>3
  <2>2. CASE d # b
    BY <1>1, <1>4, <1>8, <1>9, <1>10, <1>14, <2>2 DEF DaemonStands, Signalling, Changes, b
  <2> QED BY <2>1, <2>2
<1>15. Stands(k, mounts', daemon', saved, runtime, abandoned)
  BY <1>11, <1>12, <1>13, <1>14 DEF Stands
<1> QED BY <1>2, <1>7, <1>10, <1>15 DEF StepStands, w

\* fusermount takes off what there is: the work's own mount.
LEMMA UnmountStands ==
  ASSUME NEW c \in Commands, Working(c), Unmount(c), mounts # {}
  PROVE  StepStands(c)
<1> DEFINE w == command[c]
<1>1. /\ CommandTyped /\ MountParts(mounts, daemon, saved, runtime) /\ w \in Command
      /\ w.op \in {"start", "stop"} /\ w.file \in StateFiles /\ w.at = "unmount"
      /\ Stands(w, mounts, daemon, saved, runtime, abandoned)
  BY WorkerTells DEF Unmount, On, Working
<1>2. UNCHANGED <<daemon, saved, runtime, abandoned>> /\ mounts' = {} /\ Go(c, "terminate")
  <2>1. \A o, q \in mounts : o = q
    BY <1>1 DEF MountParts
  <2> QED BY <2>1 DEF Unmount, external
<1>3. PICK k : Takes(c, k) /\ Onward(w, k, "terminate")
  BY <1>1, <1>2, GoingOn DEF MountStep
<1>4. k.op = w.op /\ k.file = w.file /\ k.by = w.by /\ k.at = "terminate"
  BY <1>3 DEF Onward
<1>5. WorkerStands(w, daemon, saved, runtime) /\ FilesStand(w, saved, runtime, abandoned)
  BY <1>1 DEF Stands
<1>6. ASSUME abandoned = {} PROVE w.by \in mounts
  BY <1>1, <1>6 DEF Stands, MountStands
<1>7. ASSUME abandoned = {}, NEW d \in Daemons
      PROVE  DaemonStands(d, w, mounts, daemon[d].life, daemon[d].signalled, saved)
  BY <1>1, <1>7 DEF Stands
<1> HIDE DEF w
<1>8. WorkerStands(k, daemon, saved, runtime)
  BY <1>1, <1>4, <1>5
     DEF WorkerStands, StartStands, StopStands, BeforeSpawn, OwnSteps, EndingSteps, LoadedSteps
<1>9. FilesStand(k, saved, runtime, abandoned)
  BY <1>1, <1>5 DEF FilesStand
<1>10. MountStands(k, {})
  BY <1>4 DEF MountStands
<1>11. ASSUME abandoned = {}, NEW d \in Daemons
       PROVE  DaemonStands(d, k, {}, daemon[d].life, daemon[d].signalled, saved)
  BY <1>1, <1>4, <1>6, <1>7, <1>11 DEF DaemonStands, Signalling, Changes, MountParts
<1>12. Stands(k, {}, daemon, saved, runtime, abandoned)
  BY <1>8, <1>9, <1>10, <1>11 DEF Stands
<1> QED BY <1>2, <1>3, <1>4, <1>12 DEF StepStands, w

LEMMA WriteStands ==
  ASSUME NEW c \in Commands, Working(c), WriteState(c)
  PROVE  StepStands(c)
<1> DEFINE w == command[c]
<1>1. /\ CommandTyped /\ MountParts(mounts, daemon, saved, runtime) /\ w \in Command
      /\ w.op = "start" /\ w.file \in StateFiles /\ w.at = "write"
      /\ Stands(w, mounts, daemon, saved, runtime, abandoned)
  BY WorkerTells, StepTells DEF WriteState, On, Working
<1>2. UNCHANGED <<mounts, daemon, runtime, abandoned>> /\ Go(c, "wait")
  BY DEF WriteState, external
<1>3. PICK k : Takes(c, k) /\ Onward(w, k, "wait")
  BY <1>1, <1>2, GoingOn DEF MountStep
<1>4. k.op = "start" /\ k.file = w.file /\ k.by = w.by /\ k.at = "wait"
  BY <1>1, <1>3 DEF Onward
<1>5. /\ WorkerStands(w, daemon, saved, runtime) /\ FilesStand(w, saved, runtime, abandoned)
      /\ saved[w.file] = Unsaved /\ runtime[w.file] = "ready" /\ w.by \in Daemons
  BY <1>1 DEF Stands, WorkerStands, StartStands, OwnSteps
<1>6. ASSUME abandoned = {}
      PROVE  /\ MountStands(w, mounts)
             /\ \A d \in Daemons :
                  DaemonStands(d, w, mounts, daemon[d].life, daemon[d].signalled, saved)
  BY <1>1, <1>6 DEF Stands
<1>7. \A f \in StateFiles : IF f = w.file THEN saved'[f].by = w.by ELSE saved'[f] = saved[f]
  BY <1>1 DEF WriteState, MountParts
<1> HIDE DEF w
<1>8. WorkerStands(k, daemon, saved', runtime)
  BY <1>1, <1>4, <1>5, <1>7
     DEF WorkerStands, StartStands, BeforeSpawn, OwnSteps, EndingSteps
<1>9. FilesStand(k, saved', runtime, abandoned)
  BY <1>1, <1>5, <1>7 DEF FilesStand
<1>10. ASSUME abandoned = {} PROVE MountStands(k, mounts)
  BY <1>1, <1>4, <1>6, <1>10 DEF MountStands, OwnSteps
<1>11. ASSUME abandoned = {}, NEW d \in Daemons
       PROVE  DaemonStands(d, k, mounts, daemon[d].life, daemon[d].signalled, saved')
  <2>1. DaemonStands(d, w, mounts, daemon[d].life, daemon[d].signalled, saved)
    BY <1>6, <1>11
  <2>2. (\E f \in StateFiles : saved[f].by = d) => \E f \in StateFiles : saved'[f].by = d
    BY <1>1, <1>5, <1>7, MountAssumption DEF Unsaved
  <2> QED BY <1>1, <1>4, <2>1, <2>2 DEF DaemonStands, Signalling, Changes
<1>12. Stands(k, mounts, daemon, saved', runtime, abandoned)
  BY <1>8, <1>9, <1>10, <1>11 DEF Stands
<1> QED BY <1>1, <1>2, <1>3, <1>4, <1>12 DEF StepStands, w

LEMMA RemoveStateStands ==
  ASSUME NEW c \in Commands, Working(c), RemoveState(c)
  PROVE  StepStands(c)
<1> DEFINE w == command[c]
<1>1. /\ CommandTyped /\ MountParts(mounts, daemon, saved, runtime) /\ w \in Command
      /\ w.op \in {"start", "stop"} /\ w.file \in StateFiles /\ w.at = "removeState"
      /\ Stands(w, mounts, daemon, saved, runtime, abandoned)
  BY WorkerTells DEF RemoveState, On, Working
<1>2. UNCHANGED <<mounts, daemon, runtime, abandoned>>
  BY DEF RemoveState, external
<1>3. PICK k : /\ Takes(c, k)
               /\ IF w.op = "start" THEN Onward(w, k, "removeRuntime") ELSE k = Idle
  BY <1>1, GoingOn, Ending DEF RemoveState, MountStep
<1>4. /\ w.op = "start" =>
           k.op = "start" /\ k.file = w.file /\ k.by = w.by /\ k.at = "removeRuntime"
      /\ w.op = "stop" => k = Idle /\ k.op = "none"
  BY <1>3, IdleIsTyped DEF Onward
<1>5. WorkerStands(w, daemon, saved, runtime) /\ FilesStand(w, saved, runtime, abandoned)
  BY <1>1 DEF Stands
<1>6. ASSUME abandoned = {}, NEW d \in Daemons
      PROVE  DaemonStands(d, w, mounts, daemon[d].life, daemon[d].signalled, saved)
  BY <1>1, <1>6 DEF Stands
<1>7. saved'[w.file] = Unsaved /\ \A f \in StateFiles \ {w.file} : saved'[f] = saved[f]
  BY <1>1 DEF RemoveState, MountParts
<1>8. \A d \in Daemons : (w.op = "start" /\ w.by = d) \/ saved[w.file].by = d =>
        daemon[d].life \in {"dead", "reused"}
  BY <1>1, <1>5, MountAssumption
     DEF WorkerStands, StartStands, StopStands, EndingSteps, Unsaved
<1> HIDE DEF w
<1>9. WorkerStands(k, daemon, saved', runtime)
  BY <1>1, <1>4, <1>5, <1>7
     DEF WorkerStands, StartStands, BeforeSpawn, OwnSteps, EndingSteps
<1>10. FilesStand(k, saved', runtime, abandoned)
  BY <1>1, <1>5, <1>7 DEF FilesStand
<1>11. MountStands(k, mounts)
  BY <1>1, <1>4 DEF MountStands, OwnSteps
<1>12. ASSUME abandoned = {}, NEW d \in Daemons
       PROVE  DaemonStands(d, k, mounts, daemon[d].life, daemon[d].signalled, saved')
  <2>1. DaemonStands(d, w, mounts, daemon[d].life, daemon[d].signalled, saved)
    BY <1>6, <1>12
  <2>2. ASSUME daemon[d].life \in {"starting", "up"}, NEW f \in StateFiles, saved[f].by = d
        PROVE  saved'[f].by = d
    BY <1>7, <1>8, <2>2
  <2> QED BY <1>1, <1>4, <1>8, <2>1, <2>2 DEF DaemonStands, Signalling, Changes
<1>13. Stands(k, mounts, daemon, saved', runtime, abandoned)
  BY <1>9, <1>10, <1>11, <1>12 DEF Stands
<1> QED BY <1>1, <1>2, <1>3, <1>4, <1>13 DEF StepStands, w

LEMMA RemoveRuntimeStands ==
  ASSUME NEW c \in Commands, Working(c), RemoveRuntime(c)
  PROVE  StepStands(c)
<1> DEFINE w == command[c]
<1>1. /\ CommandTyped /\ MountParts(mounts, daemon, saved, runtime) /\ w \in Command
      /\ w.op \in {"start", "stop"} /\ w.file \in StateFiles /\ w.at = "removeRuntime"
      /\ Stands(w, mounts, daemon, saved, runtime, abandoned)
  BY WorkerTells DEF RemoveRuntime, On, Working
<1>2. UNCHANGED <<mounts, daemon, saved, abandoned>>
  BY DEF RemoveRuntime, external
<1>3. PICK k : /\ Takes(c, k)
               /\ IF w.op = "start" THEN k = Idle ELSE Onward(w, k, "removeState")
  BY <1>1, GoingOn, Ending DEF RemoveRuntime, MountStep
<1>4. /\ w.op = "start" => k = Idle /\ k.op = "none"
      /\ w.op = "stop" => k.op = "stop" /\ k.file = w.file /\ k.by = w.by /\ k.at = "removeState"
  BY <1>3, IdleIsTyped DEF Onward
<1>5. WorkerStands(w, daemon, saved, runtime) /\ FilesStand(w, saved, runtime, abandoned)
  BY <1>1 DEF Stands
<1>6. ASSUME abandoned = {}, NEW d \in Daemons
      PROVE  DaemonStands(d, w, mounts, daemon[d].life, daemon[d].signalled, saved)
  BY <1>1, <1>6 DEF Stands
<1>7. \A f \in StateFiles \ {w.file} : runtime'[f] = runtime[f]
  BY <1>1 DEF RemoveRuntime, MountParts
<1>8. \A d \in Daemons : w.by = d => daemon[d].life \in {"dead", "reused"}
  BY <1>1, <1>5 DEF WorkerStands, StartStands, StopStands
<1>9. w.op = "start" => saved[w.file] = Unsaved
  BY <1>1, <1>5 DEF WorkerStands, StartStands
<1> HIDE DEF w
<1>10. WorkerStands(k, daemon, saved, runtime')
  BY <1>1, <1>4, <1>5 DEF WorkerStands, StopStands, EndingSteps
<1>11. FilesStand(k, saved, runtime', abandoned)
  BY <1>1, <1>4, <1>5, <1>7, <1>9 DEF FilesStand
<1>12. MountStands(k, mounts)
  BY <1>1, <1>4 DEF MountStands
<1>13. ASSUME abandoned = {}, NEW d \in Daemons
       PROVE  DaemonStands(d, k, mounts, daemon[d].life, daemon[d].signalled, saved)
  <2>1. DaemonStands(d, w, mounts, daemon[d].life, daemon[d].signalled, saved)
    BY <1>6, <1>13
  <2> QED BY <1>1, <1>4, <1>8, <2>1 DEF DaemonStands, Signalling, Changes
<1>14. Stands(k, mounts, daemon, saved, runtime', abandoned)
  BY <1>10, <1>11, <1>12, <1>13 DEF Stands
<1> QED BY <1>1, <1>2, <1>3, <1>4, <1>14 DEF StepStands, w

--------------------------------------------------------------------------------
(* The whole next-state relation. *)

\* Who is at work, and how it stands, follows for every start and stop.
LEMMA WorkerSteps ==
  ASSUME MountTyped, Alone, WorkStands, NEW c \in Commands, Changes(command[c].op),
         Working(c) => StepStands(c)
  PROVE  /\ Alone'
         /\ \A w : IsWork(w)' => Stands(w, mounts', daemon', saved', runtime', abandoned')
<1>1. CommandTyped /\ command[c] \in Command
  BY DEF MountTyped, CommandTyped
<1>2. IsWork(command[c])
  BY DEF IsWork
<1>3. Working(c)
  BY <1>1, <1>2 DEF Working, WorkStands
<1>4. PICK k : /\ Takes(c, k) /\ (k = Idle \/ k.op = command[c].op)
               /\ Stands(k, mounts', daemon', saved', runtime', abandoned')
  BY <1>3 DEF StepStands
<1> QED BY <1>1, <1>4, WorkerMoves

LEMMA StartAndCleanupStand ==
  ASSUME MountTyped, UnbornAreQuiet, NEW c \in Commands, Working(c),
         StartStep(c) \/ CleanupStep(c) \/ InterruptStart(c) \/ UnmountFails(c)
         \/ (ValidateStep(c) /\ command[c].op = "stop")
  PROVE  StepStands(c)
<1>1. CASE StartStep(c) \/ InterruptStart(c)
  BY <1>1, StartLooks, RuntimeStands, SpawnStands, WriteStands DEF StartStep
<1>2. CASE CleanupStep(c) \/ UnmountFails(c)
  BY <1>2, CleanupLooks, SignalStands, UnmountStands, RemoveStateStands, RemoveRuntimeStands
     DEF CleanupStep
<1>3. CASE ValidateStep(c) /\ command[c].op = "stop"
  <2>1. ~ListDrive(c) /\ ~RequireLiveMount(c) /\ ~ObserveDrive(c)
    BY <1>3, WorkerTells, StepTells DEF ListDrive, RequireLiveMount, ObserveDrive, On
  <2> QED BY <1>3, <2>1, StopLooks, StopLoads DEF ValidateStep
<1> QED BY <1>1, <1>2, <1>3

\* Why a daemon may leave, and how one turns to another life.
Leaving(b) ==
  \/ daemon[b].life = "starting"
  \/ daemon[b].life = "up" /\ b \notin mounts
  \/ Alive(b) /\ daemon[b].signalled

Turns(b, w, life) ==
  \/ /\ daemon[b].life = "starting" /\ life = "up" /\ mounts = {} /\ mounts' = {b}
     /\ daemon'[b].signalled = daemon[b].signalled
  \/ Leaving(b) /\ life = "dead" /\ mounts' = mounts \ {b}
  \/ Alive(b) /\ life = "dead" /\ mounts' = mounts
  \/ /\ daemon[b].life = "dead" /\ life = "reused" /\ mounts' = mounts
     /\ ~(w.op = "start" /\ w.by = b)

\* The daemons, the kernel and others: what stands goes on standing.
LEMMA DaemonsActOnWork ==
  ASSUME MountTyped, NEW w \in Command, IsWork(w), NEW b \in Daemons,
         Stands(w, mounts, daemon, saved, runtime, abandoned),
         DaemonMounts(b) \/ DaemonLeaves(b) \/ DaemonDies(b) \/ ReusePid(b)
  PROVE  Stands(w, mounts', daemon', saved', runtime', abandoned')
<1>1. MountParts(mounts, daemon, saved, runtime) /\ w.file \in StateFiles
  BY DEF MountTyped, RestTyped, MountParts, Command
<1>2. UNCHANGED <<saved, runtime, abandoned>>
  BY DEF DaemonMounts, DaemonLeaves, DaemonDies, ReusePid, external
<1>3. \E life :
        /\ \A d \in Daemons : daemon'[d].life = IF d = b THEN life ELSE daemon[d].life
        /\ \A d \in Daemons \ {b} : daemon'[d].signalled = daemon[d].signalled
        /\ Turns(b, w, life)
  <2>1. CASE DaemonMounts(b)
    BY <1>1, <2>1 DEF DaemonMounts, MountParts, Daemon, Turns
  <2>2. CASE DaemonLeaves(b)
    <3>1. /\ \A d \in Daemons : daemon'[d].life = IF d = b THEN "dead" ELSE daemon[d].life
          /\ \A d \in Daemons \ {b} : daemon'[d].signalled = daemon[d].signalled
      BY <1>1, <2>2 DEF DaemonLeaves, MountParts, Daemon
    <3>2. Turns(b, w, "dead")
      BY <2>2 DEF DaemonLeaves, Turns, Leaving
    <3> QED BY <3>1, <3>2
  <2>4. CASE DaemonDies(b)
    <3>1. /\ \A d \in Daemons : daemon'[d].life = IF d = b THEN "dead" ELSE daemon[d].life
          /\ \A d \in Daemons \ {b} : daemon'[d].signalled = daemon[d].signalled
      BY <1>1, <2>4 DEF DaemonDies, MountParts, Daemon
    <3>2. Turns(b, w, "dead")
      BY <2>4 DEF DaemonDies, Turns
    <3> QED BY <3>1, <3>2
  <2>3. CASE ReusePid(b)
    <3>1. ~(w.op = "start" /\ w.by = b)
      BY <2>3, IdleIsTyped DEF ReusePid, IsWork
    <3> QED BY <1>1, <2>3, <3>1 DEF ReusePid, MountParts, Daemon, Turns
  <2> QED BY <2>1, <2>2, <2>3, <2>4
<1>4. PICK life :
        /\ \A d \in Daemons : daemon'[d].life = IF d = b THEN life ELSE daemon[d].life
        /\ \A d \in Daemons \ {b} : daemon'[d].signalled = daemon[d].signalled
        /\ Turns(b, w, life)
  BY <1>3
<1>5. WorkerStands(w, daemon, saved, runtime) /\ FilesStand(w, saved, runtime, abandoned)
  BY DEF Stands
<1>6. ASSUME abandoned = {}
      PROVE  /\ MountStands(w, mounts)
             /\ \A d \in Daemons :
                  DaemonStands(d, w, mounts, daemon[d].life, daemon[d].signalled, saved)
  BY <1>6 DEF Stands
<1>7. WorkerStands(w, daemon', saved, runtime)
  <2>1. ASSUME w.op = "start" PROVE StartStands(w, daemon', saved, runtime)
    BY <1>4, <1>5, <2>1 DEF WorkerStands, StartStands, Turns, Leaving, Alive
  <2>2. ASSUME w.op = "stop" PROVE StopStands(w, daemon', saved)
    BY <1>4, <1>5, <2>2 DEF WorkerStands, StopStands, Turns, Leaving, Alive, EndingSteps
  <2> QED BY <2>1, <2>2 DEF WorkerStands
<1>8. ASSUME abandoned = {} PROVE MountStands(w, mounts')
  <2>1. DaemonStands(b, w, mounts, daemon[b].life, daemon[b].signalled, saved)
    BY <1>6, <1>8
  <2>2. w.op = "start" /\ w.at \in BeforeSpawn => w.by = Nobody
    BY <1>5 DEF WorkerStands, StartStands
  <2>3. CASE daemon[b].life = "starting" /\ mounts' = {b}
    BY <1>6, <1>8, <2>1, <2>2, <2>3, MountAssumption DEF MountStands, DaemonStands, Signalling, BeforeSpawn
  <2>4. CASE mounts' = mounts
    BY <1>6, <1>8, <2>4
  <2>5. CASE Leaving(b) /\ mounts' = mounts \ {b}
    BY <1>6, <1>8, <2>1, <2>5 DEF MountStands, DaemonStands, Signalling, Leaving, Alive
  <2> QED BY <1>4, <2>3, <2>4, <2>5 DEF Turns
<1>9. ASSUME abandoned = {}, NEW d \in Daemons
      PROVE  DaemonStands(d, w, mounts', daemon'[d].life, daemon'[d].signalled, saved)
  <2>1. /\ DaemonStands(d, w, mounts, daemon[d].life, daemon[d].signalled, saved)
        /\ DaemonStands(b, w, mounts, daemon[b].life, daemon[b].signalled, saved)
    BY <1>6, <1>9
  <2>2. CASE d = b
    BY <1>4, <2>1, <2>2 DEF DaemonStands, Signalling, Turns, Leaving, Alive
  <2>3. CASE d # b
    BY <1>4, <2>1, <2>3 DEF DaemonStands, Signalling, Turns, Leaving, Alive
  <2> QED BY <2>2, <2>3
<1> QED BY <1>2, <1>5, <1>7, <1>8, <1>9 DEF Stands

LEMMA NativeActsOnWork ==
  ASSUME MountTyped, NEW w \in Command, NativeMount,
         Stands(w, mounts, daemon, saved, runtime, abandoned)
  PROVE  Stands(w, mounts', daemon', saved', runtime', abandoned')
<1>1. UNCHANGED <<daemon, saved, runtime, abandoned>> /\ mounts = {} /\ mounts' = {Native}
  BY DEF NativeMount, external
<1>2. ASSUME abandoned = {} PROVE MountStands(w, {Native})
  BY <1>1, <1>2 DEF Stands, MountStands
<1>3. ASSUME abandoned = {}, NEW d \in Daemons
      PROVE  DaemonStands(d, w, {Native}, daemon[d].life, daemon[d].signalled, saved)
  <2>1. DaemonStands(d, w, {}, daemon[d].life, daemon[d].signalled, saved)
    BY <1>1, <1>3 DEF Stands
  <2> QED BY <2>1, MountAssumption DEF DaemonStands, Signalling
<1> QED BY <1>1, <1>2, <1>3 DEF Stands

LEMMA OthersActOnWork ==
  ASSUME MountTyped, Alone, WorkStands,
         \/ \E b \in Daemons : DaemonMounts(b) \/ DaemonLeaves(b) \/ DaemonDies(b) \/ ReusePid(b)
         \/ NativeMount \/ DriveDrift \/ UNCHANGED mountVars
  PROVE  Alone' /\ WorkStands'
<1>1. command' = command
  BY DEF DaemonMounts, DaemonLeaves, DaemonDies, ReusePid, NativeMount, DriveDrift, mountVars
<1>2. Alone' /\ \A w : IsWork(w)' => IsWork(w)
  BY <1>1 DEF Alone, IsWork
<1>3. ASSUME NEW w \in Command, IsWork(w)
      PROVE  Stands(w, mounts', daemon', saved', runtime', abandoned')
  <2>1. Stands(w, mounts, daemon, saved, runtime, abandoned)
    BY <1>3 DEF WorkStands
  <2>2. CASE DriveDrift \/ UNCHANGED mountVars
    BY <2>1, <2>2 DEF DriveDrift, mountVars
  <2> QED BY <1>3, <2>1, <2>2, DaemonsActOnWork, NativeActsOnWork
<1> QED BY <1>2, <1>3 DEF WorkStands

\* Commands that change nothing: status, the probe, and what begins or ends beside the work.
LEMMA WatchersLook ==
  ASSUME MountTyped, Alone, WorkStands, NEW c \in Commands, NEW k, Takes(c, k),
         ~Changes(command[c].op), ~Changes(k.op),
         UNCHANGED <<mounts, daemon, saved, runtime, abandoned>>
  PROVE  Alone' /\ WorkStands'
<1>1. Alone' /\ \A w : IsWork(w)' => IsWork(w)
  BY WatcherMoves DEF MountTyped
<1> QED BY <1>1 DEF WorkStands

LEMMA WatcherSteps ==
  ASSUME MountTyped, Alone, WorkStands, NEW c \in Commands, ~Changes(command[c].op), CommandStep(c)
  PROVE  Alone' /\ WorkStands'
<1>1. CommandTyped /\ RestTyped /\ command[c] \in Command /\ CommandTyped'
  <2>1. MountTyped'
    BY StartStepIsTyped, CleanupStepIsTyped, ValidateStepIsTyped DEF CommandStep
  <2> QED BY <2>1 DEF MountTyped, CommandTyped
<1>2. ValidateStep(c)
  <2>1. ~StartStep(c)
    BY <1>1, StepTells DEF Changes, StartStep, LookForState, LookForMounts, ResolveDrive, MakeRuntime,
       InstallRclone, SpawnMount, RecordProcess, LookBeforeWrite, WriteState, WaitForMount,
       IdentifyOwnProcess, On, BeforeSpawn
  <2>2. ~CleanupStep(c)
    BY <1>1, StepTells DEF Changes, CleanupStep, ReapProcess, LookForEntries, RequireExactMount,
       Unmount, Terminate, SendTerm, GraceEnds, KillDaemon, SendKill, RecheckMounts,
       RemoveState, RemoveRuntime, On,
       EndingSteps
  <2> QED BY <2>1, <2>2 DEF CommandStep
<1>3. UNCHANGED <<mounts, daemon, saved, runtime, abandoned>>
  BY <1>2 DEF ValidateStep, LoadState, RequireProcessIdentity, RequireMount, RequireStateBinding,
     ListDrive, RequireLiveMount, ObserveDrive, external
<1>4. \E k : Takes(c, k) /\ k.op \in {command[c].op, "none"}
  <2>1. CASE \E step \in MountStep : Go(c, step)
    BY <1>1, <2>1, GoingOn DEF Onward
  <2>2. CASE End(c)
    BY <2>2, Ending, IdleIsTyped
  <2>3. CASE LoadState(c) \/ RequireProcessIdentity(c) \/ RequireMount(c) \/ RequireStateBinding(c)
    <3> DEFINE s == saved[command[c].file]
               k == [command[c] EXCEPT !.at = "process", !.by = s.by, !.drive = s.drive]
    <3>1. \/ \E step \in MountStep : Go(c, step)
          \/ End(c)
          \/ command' = [command EXCEPT ![c] = k]
      BY <1>1, <2>3 DEF LoadState, RequireProcessIdentity, RequireMount, RequireStateBinding,
         MountStep, CommandTyped
    <3>2. s \in Saved
      BY <1>1 DEF RestTyped, Command
    <3>3. k \in Command /\ k.op = command[c].op
      BY <1>1, <3>2 DEF Command, Saved, MountStep
    <3> HIDE DEF k
    <3> QED BY <2>1, <2>2, <3>1, <3>3 DEF Takes
  <2>4. CASE ListDrive(c)
    <3> DEFINE k == [command[c] EXCEPT !.at = "live", !.listed = drive]
    <3>1. k \in Command /\ k.op = command[c].op
      BY <1>1 DEF Command, MountStep, RestTyped
    <3>2. command' = [command EXCEPT ![c] = k]
      BY <1>1, <2>4 DEF ListDrive, CommandTyped
    <3> QED BY <3>1, <3>2 DEF Takes
  <2>5. CASE RequireLiveMount(c) /\ ~End(c)
    <3> PICK o \in mounts : command' = [command EXCEPT ![c].at = "repeat", ![c].found = o]
      BY <2>5 DEF RequireLiveMount
    <3> DEFINE k == [command[c] EXCEPT !.at = "repeat", !.found = o]
    <3>1. k \in Command /\ k.op = command[c].op
      BY <1>1 DEF Command, MountStep, RestTyped
    <3>2. command' = [command EXCEPT ![c] = k]
      BY <1>1 DEF CommandTyped
    <3> QED BY <3>1, <3>2 DEF Takes
  <2> QED BY <1>2, <2>2, <2>3, <2>4, <2>5 DEF ValidateStep, ObserveDrive
<1> QED BY <1>3, <1>4, WatchersLook DEF Changes

LEMMA BeginStands ==
  ASSUME ~Overlap, MountTyped, Alone, WorkStands, NEW c \in Commands, NEW f \in StateFiles,
         NEW op \in {"start", "status", "stop", "probe"}, BeginMount(c, op, f)
  PROVE  Alone' /\ WorkStands'
<1> DEFINE k == [Idle EXCEPT !.op = op, !.file = f,
                             !.at = IF op = "start" THEN "state" ELSE "load"]
<1>1. /\ k \in Command /\ k.op = op /\ k.at = IF op = "start" THEN "state" ELSE "load"
      /\ k.by = Nobody
  BY IdleIsTyped DEF Command, MountStep
<1>2. Takes(c, k)
  BY <1>1 DEF BeginMount, Takes
<1>3. UNCHANGED <<mounts, daemon, saved, runtime, abandoned>>
  BY DEF BeginMount, external
<1>4. ~Changes(command[c].op)
  BY StepTells DEF BeginMount, On, MountTyped, Changes
<1> HIDE DEF k
<1>5. CASE ~Changes(op)
  BY <1>1, <1>2, <1>3, <1>4, <1>5, WatchersLook
<1>6. CASE Changes(op)
  <2>1. \A o \in Commands : ~Changes(command[o].op)
    BY <1>6 DEF BeginMount
  <2>2. IsWork(Idle) /\ Alone' /\ \A w : IsWork(w)' => w = k
    BY <1>1, <1>2, <1>6, <2>1, WorkBegins DEF MountTyped
  <2>3. Stands(Idle, mounts, daemon, saved, runtime, abandoned)
    BY <2>2, IdleIsTyped DEF WorkStands
  <2>4. WorkerStands(k, daemon, saved, runtime)
    BY <1>1, MountAssumption
       DEF WorkerStands, StartStands, StopStands, BeforeSpawn, OwnSteps, EndingSteps, LoadedSteps
  <2>5. FilesStand(k, saved, runtime, abandoned)
    BY <2>3, IdleIsTyped DEF Stands, FilesStand
  <2>6. MountStands(k, mounts)
    BY <1>1 DEF MountStands, OwnSteps
  <2>7. ASSUME abandoned = {}, NEW d \in Daemons
        PROVE  DaemonStands(d, k, mounts, daemon[d].life, daemon[d].signalled, saved)
    <3>1. DaemonStands(d, Idle, mounts, daemon[d].life, daemon[d].signalled, saved)
      BY <2>3, <2>7 DEF Stands
    <3> QED BY <3>1, IdleIsTyped DEF DaemonStands, Signalling, Changes
  <2> QED BY <1>3, <2>2, <2>4, <2>5, <2>6, <2>7 DEF WorkStands, Stands
<1> QED BY <1>5, <1>6

LEMMA KillStands ==
  ASSUME MountTyped, Alone, WorkStands, NEW c \in Commands, KillCommand(c)
  PROVE  Alone' /\ WorkStands'
<1> DEFINE w == command[c]
<1>1. /\ CommandTyped /\ w \in Command /\ w.file \in StateFiles
      /\ UNCHANGED <<mounts, daemon, saved, runtime>> /\ Takes(c, Idle)
  BY Ending DEF KillCommand, MountTyped, CommandTyped, Command
<1>2. CASE ~Changes(w.op)
  BY <1>1, <1>2, WatchersLook, IdleIsTyped DEF KillCommand, Changes
<1>3. CASE Changes(w.op)
  <2>1. IsWork(w) /\ Alone' /\ \A v : IsWork(v)' => v = Idle
    BY <1>1, <1>3, WorkerMoves
  <2>2. Stands(w, mounts, daemon, saved, runtime, abandoned)
    BY <1>1, <2>1 DEF WorkStands
  <2>3. abandoned' = abandoned \cup {w.file}
    BY <1>3 DEF KillCommand
  <2>4. WorkerStands(Idle, daemon, saved, runtime)
    BY IdleIsTyped DEF WorkerStands
  <2>5. FilesStand(Idle, saved, runtime, abandoned')
    BY <2>2, <2>3 DEF Stands, FilesStand
  <2>6. Stands(Idle, mounts, daemon, saved, runtime, abandoned')
    BY <2>3, <2>4, <2>5 DEF Stands
  <2> QED BY <1>1, <2>1, <2>6 DEF WorkStands
<1> QED BY <1>2, <1>3

LEMMA UnbornStayQuiet == MountTyped /\ UnbornAreQuiet /\ [MountNext]_mountVars => UnbornAreQuiet'
<1> SUFFICES ASSUME MountTyped, UnbornAreQuiet, [MountNext]_mountVars PROVE UnbornAreQuiet'
  OBVIOUS
<1>1. daemon \in [Daemons -> Daemon]
  BY DEF MountTyped, RestTyped
<1>2. ASSUME daemon' = daemon PROVE UnbornAreQuiet'
  BY <1>2 DEF UnbornAreQuiet
<1>3. ASSUME NEW c \in Commands, CommandStep(c) PROVE UnbornAreQuiet'
  <2>1. CASE daemon' = daemon
    BY <1>2, <2>1
  <2>2. CASE SpawnMount(c)
    BY <1>1, <2>2 DEF SpawnMount, UnbornAreQuiet, Daemon
  <2>3. CASE ReapProcess(c)
    BY <1>1, <2>3 DEF ReapProcess, UnbornAreQuiet, Daemon
  <2>4. CASE SendTerm(c) /\ daemon' # daemon
    BY <1>1, <2>4 DEF SendTerm, Taken, Alive, UnbornAreQuiet, Daemon
  <2>5. CASE SendKill(c) /\ daemon' # daemon
    BY <1>1, <2>5 DEF SendKill, Taken, Alive, UnbornAreQuiet, Daemon
  <2>6. StartStep(c) => daemon' = daemon \/ SpawnMount(c)
    BY DEF StartStep, LookForState, LookForMounts, ResolveDrive, MakeRuntime, InstallRclone,
       RecordProcess, LookBeforeWrite, WriteState, WaitForMount, IdentifyOwnProcess
  <2>7. CleanupStep(c) => daemon' = daemon \/ ReapProcess(c) \/ SendTerm(c) \/ SendKill(c)
    BY DEF CleanupStep, LookForEntries, RequireExactMount, Unmount, Terminate, GraceEnds,
       KillDaemon, RecheckMounts, RemoveState, RemoveRuntime
  <2>8. ValidateStep(c) => daemon' = daemon
    BY DEF ValidateStep, LoadState, RequireProcessIdentity, RequireMount, RequireStateBinding,
       ListDrive, RequireLiveMount, ObserveDrive
  <2> QED BY <1>3, <2>1, <2>2, <2>3, <2>4, <2>5, <2>6, <2>7, <2>8 DEF CommandStep
<1>4. ASSUME NEW d \in Daemons, DaemonMounts(d) \/ DaemonLeaves(d) \/ DaemonDies(d) \/ ReusePid(d)
      PROVE  UnbornAreQuiet'
  BY <1>1, <1>4 DEF DaemonMounts, DaemonLeaves, DaemonDies, ReusePid, UnbornAreQuiet, Daemon
<1>5. ASSUME NEW c \in Commands,
             \/ InterruptStart(c) \/ UnmountFails(c) \/ KillCommand(c)
             \/ \E f \in StateFiles, op \in {"start", "status", "stop", "probe"} :
                  BeginMount(c, op, f)
      PROVE  UnbornAreQuiet'
  BY <1>2, <1>5 DEF InterruptStart, UnmountFails, KillCommand, BeginMount
<1>6. ASSUME NativeMount \/ DriveDrift \/ UNCHANGED mountVars PROVE UnbornAreQuiet'
  BY <1>2, <1>6 DEF NativeMount, DriveDrift, mountVars
<1> QED BY <1>3, <1>4, <1>5, <1>6 DEF MountNext

LEMMA MountInvIsKept ==
  ASSUME ~Overlap
  PROVE  MountInv /\ [MountNext]_mountVars => MountInv'
<1> SUFFICES ASSUME MountInv, [MountNext]_mountVars PROVE MountInv'
  OBVIOUS
<1>1. MountTyped' /\ UnbornAreQuiet'
  BY MountStepIsTyped, UnbornStayQuiet DEF MountInv
<1>2. ASSUME NEW c \in Commands, CommandStep(c) \/ InterruptStart(c) \/ UnmountFails(c)
      PROVE  Alone' /\ WorkStands'
  <2>1. CASE Changes(command[c].op)
    <3>1. ASSUME Working(c) PROVE StepStands(c)
      <4>1. ValidateStep(c) => command[c].op = "stop"
        <5>1. ValidateStep(c) =>
                command[c].at \in LoadedSteps \cup {"load", "list", "live", "repeat"}
          BY DEF ValidateStep, LoadState, RequireProcessIdentity, RequireMount,
             RequireStateBinding, ListDrive, RequireLiveMount, ObserveDrive, On, LoadedSteps
        <5> QED BY <3>1, <5>1, WorkerTells, StepTells
      <4> QED BY <1>2, <3>1, <4>1, StartAndCleanupStand DEF MountInv, CommandStep
    <3> QED BY <2>1, <3>1, WorkerSteps DEF MountInv, WorkStands
  <2>2. CASE ~Changes(command[c].op)
    <3>1. ~InterruptStart(c) /\ ~UnmountFails(c)
      BY <2>2, StepTells DEF InterruptStart, UnmountFails, On, BeforeSpawn, Changes, MountInv,
         MountTyped
    <3> QED BY <1>2, <2>2, <3>1, WatcherSteps DEF MountInv
  <2> QED BY <2>1, <2>2
<1>3. Alone' /\ WorkStands'
  BY <1>2, BeginStands, KillStands, OthersActOnWork DEF MountInv, MountNext
<1> QED BY <1>1, <1>3 DEF MountInv

LEMMA MountInvStarts == MountInit => MountInv
<1> SUFFICES ASSUME MountInit PROVE MountInv
  OBVIOUS
<1>1. MountTyped /\ UnbornAreQuiet
  BY MountStartsTyped DEF MountInit, UnbornAreQuiet
<1>2. Alone /\ \A w : IsWork(w) => w = Idle
  BY IdleIsTyped DEF MountInit, Alone, IsWork, Changes
<1>3. WorkerStands(Idle, daemon, saved, runtime) /\ MountStands(Idle, mounts)
  BY IdleIsTyped DEF WorkerStands, MountStands
<1>4. FilesStand(Idle, saved, runtime, abandoned)
  BY DEF MountInit, FilesStand
<1>5. ASSUME NEW d \in Daemons
      PROVE  DaemonStands(d, Idle, mounts, daemon[d].life, daemon[d].signalled, saved)
  BY DEF MountInit, DaemonStands, Signalling
<1> QED BY <1>1, <1>2, <1>3, <1>4, <1>5 DEF MountInv, WorkStands, Stands

\* Where nobody is at work and nothing was killed, state files and daemons agree.
LEMMA NothingIsLeft == MountInv => NothingIsLeftBehind
<1> SUFFICES ASSUME MountInv PROVE NothingIsLeftBehind
  OBVIOUS
<1>1. CommandTyped
  BY DEF MountInv, MountTyped
<1>2. ASSUME NEW f \in StateFiles \ Unsettled, saved[f] # Unsaved PROVE runtime[f] = "ready"
  <2>1. PICK w \in Command : IsWork(w)
    BY <1>1, IdleIsTyped DEF IsWork, CommandTyped
  <2>2. FilesStand(w, saved, runtime, abandoned)
    BY <2>1 DEF MountInv, WorkStands, Stands
  <2>3. f \notin abandoned /\ \A c \in Commands : Changes(command[c].op) => command[c].file # f
    BY <1>2 DEF Unsettled
  <2>4. w.op = "stop" => w.file # f
    BY <2>1, <2>3, IdleIsTyped DEF IsWork, Changes
  <2> QED BY <1>2, <2>2, <2>3, <2>4 DEF FilesStand
<1>3. ASSUME Unsettled = {}, NEW d \in Daemons, Alive(d)
      PROVE  \E f \in StateFiles : saved[f].by = d
  <2>1. abandoned = {} /\ \A c \in Commands : ~Changes(command[c].op)
    BY <1>3 DEF Unsettled
  <2>2. IsWork(Idle)
    BY <2>1 DEF IsWork
  <2>3. DaemonStands(d, Idle, mounts, daemon[d].life, daemon[d].signalled, saved)
    BY <2>1, <2>2, IdleIsTyped DEF MountInv, WorkStands, Stands
  <2> QED BY <1>3, <2>3, IdleIsTyped DEF DaemonStands, Signalling, Alive
<1> QED BY <1>2, <1>3 DEF NothingIsLeftBehind

\* Starts and stops that do not overlap leave nothing behind: a state file nobody is at
\* work on has the runtime directory a stop needs, and, nothing being under way or killed,
\* every daemon that runs on is named by a state file (_cleanup_failed_start, stop).
THEOREM MountsLeaveNothing == ASSUME ~Overlap PROVE MountSpec => []NothingIsLeftBehind
<1>1. MountInv /\ [MountNext]_mountVars => MountInv'
  BY MountInvIsKept
<1> QED BY <1>1, MountInvStarts, NothingIsLeft, PTL DEF MountSpec

\* A command about to signal a pid that has gone to another process was overtaken: that
\* process took the pid between the test and the signal.
RacedAreNoted ==
  \A d \in Daemons, c \in Commands :
    command[c].by = d /\ command[c].at \in {"sigterm", "sigkill"} /\ daemon[d].life = "reused"
      => <<c, command[c].at>> \in daemon[d].raced

\* How a command comes to be about to signal, and how a pid comes to be another's.
LEMMA SignalsAreTested ==
  ASSUME MountInv, [MountNext]_mountVars, NEW c \in Commands,
         command'[c].at \in {"sigterm", "sigkill"}, command'[c] # command[c]
  PROVE  /\ command'[c].by = command[c].by /\ daemon' = daemon
         /\ daemon[command[c].by].life # "reused"
<1>1. CommandTyped /\ command[c] \in Command /\ Idle.at = "idle"
  BY IdleIsTyped DEF MountInv, MountTyped, CommandTyped
<1>2. ASSUME NEW o \in Commands, NEW step, Go(o, step), step \notin {"sigterm", "sigkill"}
      PROVE  FALSE
  BY <1>1, <1>2 DEF Go, CommandTyped
<1>3. ASSUME NEW o \in Commands, End(o) PROVE FALSE
  BY <1>1, <1>3 DEF End, CommandTyped
<1>4. ASSUME NEW o \in Commands, NEW next, Refuse(o, next), next \notin {"sigterm", "sigkill"}
      PROVE  FALSE
  BY <1>1, <1>4 DEF Refuse, CommandTyped
<1>5. ASSUME NEW o \in Commands, StartStep(o) PROVE FALSE
  <2>1. CASE SpawnMount(o) \/ ResolveDrive(o)
    <3>1. \E k : command' = [command EXCEPT ![o] = k] /\ k.at \in {"record", "mkdir"}
      <4>1. CASE SpawnMount(o)
        <5> PICK d \in Daemons : command' = [command EXCEPT ![o].at = "record", ![o].by = d]
          BY <4>1 DEF SpawnMount
        <5> QED BY <1>1 DEF CommandTyped, Command
      <4>2. CASE ResolveDrive(o)
        BY <1>1, <4>2 DEF ResolveDrive, CommandTyped, Command
      <4> QED BY <2>1, <4>1, <4>2
    <3> QED BY <1>1, <3>1 DEF CommandTyped
  <2> QED BY <1>2, <1>3, <1>5, <2>1
          DEF StartStep, LookForState, LookForMounts, MakeRuntime, InstallRclone, RecordProcess,
          LookBeforeWrite, WriteState, WaitForMount, IdentifyOwnProcess
<1>6. ASSUME NEW o \in Commands, ValidateStep(o) PROVE FALSE
  <2>1. CASE LoadState(o) \/ ListDrive(o) \/ RequireLiveMount(o)
    <3>1. \E k : command' = [command EXCEPT ![o] = k] /\ k.at \in {"process", "live", "repeat"}
      <4>1. CASE LoadState(o)
        BY <1>1, <1>3, <2>1, <4>1 DEF LoadState, CommandTyped, Command
      <4>2. CASE ListDrive(o)
        BY <1>1, <4>2 DEF ListDrive, CommandTyped, Command
      <4>3. CASE RequireLiveMount(o)
        BY <1>1, <1>3, <4>3 DEF RequireLiveMount, CommandTyped, Command
      <4> QED BY <2>1, <4>1, <4>2, <4>3
    <3> QED BY <1>1, <3>1 DEF CommandTyped
  <2> QED BY <1>2, <1>3, <1>6, <2>1
          DEF ValidateStep, RequireProcessIdentity, RequireMount, RequireStateBinding, ObserveDrive
<1>7. ASSUME NEW o \in Commands, CleanupStep(o) PROVE Terminate(o) \/ KillDaemon(o)
  BY <1>2, <1>3, <1>4, <1>7
     DEF CleanupStep, ReapProcess, LookForEntries, RequireExactMount, Unmount, SendTerm, GraceEnds,
     SendKill, RecheckMounts, RemoveState, RemoveRuntime
<1>8. ASSUME NEW o \in Commands,
             \/ InterruptStart(o) \/ UnmountFails(o) \/ KillCommand(o)
             \/ \E f \in StateFiles, op \in {"start", "status", "stop", "probe"} :
                  BeginMount(o, op, f)
      PROVE  FALSE
  <2>1. ASSUME NEW f \in StateFiles, NEW op \in {"start", "status", "stop", "probe"},
               BeginMount(o, op, f)
        PROVE  FALSE
    <3> DEFINE k == [Idle EXCEPT !.op = op, !.file = f,
                                 !.at = IF op = "start" THEN "state" ELSE "load"]
    <3>1. k.at \in {"state", "load"}
      BY IdleIsTyped DEF Command
    <3>2. command' = [command EXCEPT ![o] = k]
      BY <2>1 DEF BeginMount
    <3> HIDE DEF k
    <3> QED BY <1>1, <3>1, <3>2 DEF CommandTyped
  <2> QED BY <1>2, <1>3, <1>4, <1>8, <2>1 DEF InterruptStart, UnmountFails, KillCommand
<1>9. ~(\/ \E b \in Daemons : DaemonMounts(b) \/ DaemonLeaves(b) \/ DaemonDies(b) \/ ReusePid(b)
        \/ NativeMount \/ DriveDrift \/ UNCHANGED mountVars)
  BY DEF DaemonMounts, DaemonLeaves, DaemonDies, ReusePid, NativeMount, DriveDrift, mountVars
<1>10. PICK o \in Commands : Terminate(o) \/ KillDaemon(o)
  BY <1>5, <1>6, <1>7, <1>8, <1>9 DEF MountNext, CommandStep
<1>11. o = c
  BY <1>1, <1>10 DEF Terminate, KillDaemon, Go, Refuse, CommandTyped
<1>12. daemon' = daemon
  BY <1>10 DEF Terminate, KillDaemon
<1>13. command'[c].by = command[c].by
  <2>1. Go(c, "sigterm") \/ Go(c, "sigkill")
    BY <1>2, <1>4, <1>10, <1>11 DEF Terminate, KillDaemon
  <2> QED BY <1>1, <2>1 DEF Go, CommandTyped, Command
<1>14. daemon[command[c].by].life # "reused"
  BY <1>2, <1>4, <1>10, <1>11 DEF Terminate, KillDaemon, Alive
<1> QED BY <1>12, <1>13, <1>14

\* What happens to the process that has the pid of d.
LEMMA ReusedAreSignalledOnly ==
  ASSUME MountInv, [MountNext]_mountVars, NEW d \in Daemons
  PROVE  \/ daemon'[d] = daemon[d]
         \/ daemon[d].life # "reused" /\ daemon'[d].life # "reused"
         \/ ReusePid(d)
         \/ \E c \in Commands : (SendTerm(c) \/ SendKill(c)) /\ command[c].by = d
<1> DEFINE Kept == \/ daemon'[d] = daemon[d]
                   \/ daemon[d].life # "reused" /\ daemon'[d].life # "reused"
<1>1. CommandTyped /\ daemon \in [Daemons -> Daemon]
  BY DEF MountInv, MountTyped, RestTyped
<1>2. ASSUME NEW c \in Commands, CommandStep(c)
      PROVE  Kept \/ ((SendTerm(c) \/ SendKill(c)) /\ command[c].by = d)
  <2>1. CASE daemon' = daemon
    BY <2>1
  <2>2. CASE SpawnMount(c)
    BY <1>1, <2>2 DEF SpawnMount, Daemon
  <2>3. CASE ReapProcess(c)
    <3>1. command[c].op = "start" /\ command[c].at = "reap" /\ command[c] \in Command
      BY <1>1, <2>3, StepTells DEF ReapProcess, On
    <3>2. StartStands(command[c], daemon, saved, runtime)
      BY <3>1 DEF MountInv, WorkStands, IsWork, Changes, Stands, WorkerStands
    <3>3. command[c].by = d => daemon[d].life # "reused"
      BY <3>2 DEF StartStands
    <3> QED BY <1>1, <2>3, <3>3 DEF ReapProcess, Daemon
  <2>4. CASE SendTerm(c) \/ SendKill(c)
    BY <1>1, <2>4 DEF SendTerm, SendKill, Daemon
  <2>5. StartStep(c) => daemon' = daemon \/ SpawnMount(c)
    BY DEF StartStep, LookForState, LookForMounts, ResolveDrive, MakeRuntime, InstallRclone,
       RecordProcess, LookBeforeWrite, WriteState, WaitForMount, IdentifyOwnProcess
  <2>6. CleanupStep(c) => daemon' = daemon \/ ReapProcess(c) \/ SendTerm(c) \/ SendKill(c)
    BY DEF CleanupStep, LookForEntries, RequireExactMount, Unmount, Terminate, GraceEnds,
       KillDaemon, RecheckMounts, RemoveState, RemoveRuntime
  <2>7. ValidateStep(c) => daemon' = daemon
    BY DEF ValidateStep, LoadState, RequireProcessIdentity, RequireMount, RequireStateBinding,
       ListDrive, RequireLiveMount, ObserveDrive
  <2> QED BY <1>2, <2>1, <2>2, <2>3, <2>4, <2>5, <2>6, <2>7 DEF CommandStep
<1>3. ASSUME NEW b \in Daemons, DaemonMounts(b) \/ DaemonLeaves(b) \/ DaemonDies(b) \/ ReusePid(b)
      PROVE  Kept \/ ReusePid(d)
  <2>1. CASE ReusePid(b)
    BY <1>1, <2>1 DEF ReusePid
  <2>2. CASE DaemonMounts(b) \/ DaemonLeaves(b) \/ DaemonDies(b)
    BY <1>1, <2>2 DEF DaemonMounts, DaemonLeaves, DaemonDies, Alive, Daemon
  <2> QED BY <1>3, <2>1, <2>2
<1>4. ASSUME NEW c \in Commands,
             \/ InterruptStart(c) \/ UnmountFails(c) \/ KillCommand(c)
             \/ \E f \in StateFiles, op \in {"start", "status", "stop", "probe"} :
                  BeginMount(c, op, f)
      PROVE  Kept
  BY <1>4 DEF InterruptStart, UnmountFails, KillCommand, BeginMount
<1>5. ASSUME NativeMount \/ DriveDrift \/ UNCHANGED mountVars PROVE Kept
  BY <1>5 DEF NativeMount, DriveDrift, mountVars
<1> HIDE DEF Kept
<1>6. Kept \/ ReusePid(d) \/ \E c \in Commands : (SendTerm(c) \/ SendKill(c)) /\ command[c].by = d
  BY <1>2, <1>3, <1>4, <1>5 DEF MountNext
<1> QED BY <1>6 DEF Kept

LEMMA RacedStayNoted ==
  ASSUME MountInv, RacedAreNoted, [MountNext]_mountVars PROVE RacedAreNoted'
<1> SUFFICES ASSUME NEW d \in Daemons, NEW c \in Commands, command'[c].by = d,
                    command'[c].at \in {"sigterm", "sigkill"}, daemon'[d].life = "reused"
             PROVE  <<c, command'[c].at>> \in daemon'[d].raced
  BY DEF RacedAreNoted
<1>1. command'[c] = command[c]
  BY SignalsAreTested
<1>2. daemon \in [Daemons -> Daemon]
  BY DEF MountInv, MountTyped, RestTyped
<1>3. CASE daemon'[d] = daemon[d]
  BY <1>1, <1>3 DEF RacedAreNoted
<1>4. CASE ReusePid(d)
  BY <1>1, <1>2, <1>4 DEF ReusePid
<1>5. ASSUME NEW o \in Commands, SendTerm(o) \/ SendKill(o), command[o].by = d
      PROVE  daemon'[d].life = daemon[d].life /\ daemon'[d].raced = daemon[d].raced
  BY <1>2, <1>5 DEF SendTerm, SendKill, Daemon
<1> QED BY <1>1, <1>3, <1>4, <1>5, ReusedAreSignalledOnly DEF RacedAreNoted

LEMMA RacersSignal ==
  ASSUME MountInv, RacedAreNoted, [MountNext]_mountVars, NEW d \in Daemons,
         daemon[d].life = "reused", daemon'[d] # daemon[d]
  PROVE  \E c \in Commands : /\ <<c, command[c].at>> \in daemon[d].raced
                             /\ command[c].by = d /\ command' # command
<1>1. PICK c \in Commands : (SendTerm(c) \/ SendKill(c)) /\ command[c].by = d
  BY ReusedAreSignalledOnly DEF ReusePid
<1>2. command[c].at \in {"sigterm", "sigkill"}
  BY <1>1 DEF SendTerm, SendKill, On
<1>3. command'[c].at # command[c].at
  <2>1. CommandTyped /\ command[c] \in Command
    BY DEF MountInv, MountTyped, CommandTyped
  <2>2. \/ \E step : Go(c, step) /\ step # command[c].at
        \/ Refuse(c, "recheck") /\ "recheck" \in MountStep
    BY <1>1 DEF SendTerm, SendKill, On, MountStep
  <2>3. Refuse(c, "recheck") /\ "recheck" \in MountStep => command'[c].at \in {"recheck", "idle"}
    BY <2>1, RefusedAt
  <2> QED BY <1>2, <2>1, <2>2, <2>3 DEF Go, CommandTyped, Command
<1> QED BY <1>1, <1>2, <1>3 DEF RacedAreNoted

LEMMA OwnMountIsTakenOff ==
  ASSUME MountInv, NEW c \in Commands, On(c, "unmount"), abandoned = {}
  PROVE  mounts = {command[c].by}
<1>1. command[c] \in Command /\ command[c].op \in {"start", "stop"}
  BY StepTells DEF MountInv, MountTyped, On
<1>2. MountStands(command[c], mounts)
  BY <1>1 DEF MountInv, WorkStands, IsWork, Changes, Stands
<1>3. command[c].by \in mounts
  BY <1>1, <1>2 DEF MountStands, On
<1> QED BY <1>3 DEF MountInv, MountTyped, RestTyped

\* Starts and stops that do not overlap take off no mount but their own daemon's, as long as
\* none was killed, and signal a process that was given a dead daemon's pid only where it was
\* given the pid between their start-time test and the signal (_unmount,
\* _terminate_owned_process).
THEOREM MountsTouchTheirOwn == ASSUME ~Overlap PROVE MountSpec => TouchesOnlyItsOwn
<1>1. MountInv /\ [MountNext]_mountVars => MountInv'
  BY MountInvIsKept
<1>2. MountInit => RacedAreNoted
  BY IdleIsTyped DEF MountInit, RacedAreNoted
<1>3. MountInv /\ RacedAreNoted /\ [MountNext]_mountVars => RacedAreNoted'
  BY RacedStayNoted
<1>4. MountInv /\ RacedAreNoted /\ [MountNext]_mountVars =>
        [/\ \A c \in Commands :
              (/\ On(c, "unmount") /\ command'[c].at # "unmount" /\ mounts' # mounts
               /\ abandoned = {})
                => mounts = {command[c].by}
         /\ \A d \in Daemons :
              daemon[d].life = "reused" /\ daemon'[d] # daemon[d] =>
                \E c \in Commands : /\ <<c, command[c].at>> \in daemon[d].raced
                                    /\ command[c].by = d /\ command' # command]_mountVars
  BY RacersSignal, OwnMountIsTakenOff
<1> QED BY <1>1, <1>2, <1>3, <1>4, MountInvStarts, PTL DEF MountSpec, TouchesOnlyItsOwn
================================================================================
