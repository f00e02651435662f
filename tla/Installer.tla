------------------------------ MODULE Installer ------------------------------
(***************************************************************************)
(* The Linux installer of Quantum Runtime (internal/installer): install,   *)
(* repair and uninstall as sequences of file writes and systemctl calls,   *)
(* the rollback of a failed install, and what happens around it.           *)
(*                                                                         *)
(* Covered: every step that changes a file, the system identity or the     *)
(* service; the failure of every one of them; the rollback and its own     *)
(* failures; systemctl calls whose error the code ignores; the installer   *)
(* being killed between two steps (the CLI runs with context.Background(), *)
(* so an interrupt is a kill); a reboot; the service exiting and being     *)
(* restarted by systemd; the operator editing, deleting and creating the   *)
(* environment file and stopping the service at any moment.                *)
(*                                                                         *)
(* Abstracted: contents are versions, writeAtomic is one step (temporary   *)
(* file, fsync and rename), the probes answer nondeterministically, and    *)
(* daemon-reload has no effect of its own.  Not covered: two installers at *)
(* once, a marker file that does not decode, loss of a rename at a reboot. *)
(***************************************************************************)
EXTENDS Naturals, FiniteSets

CONSTANTS
  Versions,         \* builds of the Runtime that may be installed
  Broken,           \* builds whose service never answers /healthz and /readyz
  Edits,            \* environment files an operator may write
  DefaultConfig,    \* the environment file of defaultEnvironment()
  Foreign,          \* a binary or unit this installer did not write
  Absent,           \* no file, no process
  MaxCommands,      \* bound: installer commands issued
  MaxCrashes,       \* bound: kills of the installer and reboots
  MaxOperatorActs,  \* bound: operator actions
  MaxServiceExits   \* bound: times the service process exits by itself

ASSUME VersionsAssumption ==
  /\ Broken \subseteq Versions
  /\ Foreign \notin Versions
  /\ Absent \notin Versions \cup {Foreign}
ASSUME ConfigAssumption ==
  /\ DefaultConfig \notin Edits
  /\ Absent \notin Edits \cup {DefaultConfig}
ASSUME BoundsAssumption ==
  /\ MaxCommands \in Nat
  /\ MaxCrashes \in Nat
  /\ MaxOperatorActs \in Nat
  /\ MaxServiceExits \in Nat

VARIABLES
  disk,      \* the four files of Layout
  identity,  \* which of the system group and user exist
  svc,       \* quantum-runtime.service: enabled at boot, image of its process
  pc,        \* next step of the running installer command, or "idle"
  cmd,       \* arguments of the last command
  snap,      \* captureSnapshot: the files when the install began
  owned,     \* configOwned of the running command
  outcome,   \* how the last command ended
  used,      \* how much of each bound is spent
  history    \* facts no code keeps: they only serve the properties

vars == <<disk, identity, svc, pc, cmd, snap, owned, outcome, used, history>>

-----------------------------------------------------------------------------
Images    == Versions \cup {Foreign, Absent}
Configs   == Edits \cup {DefaultConfig, Absent}
Marker    == [version : Versions, configOwned : BOOLEAN]

(* A marker is a record, so it is compared through its presence.            *)
NoMarker  == [version |-> Absent, configOwned |-> FALSE]
Disk      == [binary : Images, config : Configs, unit : Images,
              marker : Marker \cup {NoMarker}]
Command   == [op : {"none", "install", "uninstall"},
              version : Versions \cup {Absent},
              start : BOOLEAN, purge : BOOLEAN]
NoCommand == [op |-> "none", version |-> Absent, start |-> FALSE, purge |-> FALSE]

InstallSteps   == {"identity", "binary", "config", "unit", "marker",
                   "reload", "enable", "wait"}
RestoreSteps   == {"restore_binary", "restore_config", "restore_unit",
                   "restore_marker"}
ServiceSteps   == {"restore_service", "restore_service_after_error"}
UninstallSteps == {"disable", "remove_binary", "remove_unit",
                   "remove_config", "remove_marker"}
Steps == {"idle", "preflight", "snapshot"}
           \cup InstallSteps \cup RestoreSteps \cup ServiceSteps \cup UninstallSteps

Creators == {"nobody", "installer", "operator", "operator_later"}
History  == [creator : Creators,                \* who created the environment file
             author  : Creators,                \* the same, when the snapshot was taken
             touched : BOOLEAN,                 \* operator changed it since the snapshot
             damaged : BOOLEAN,                 \* an unfinished command is not yet repaired
             before  : [image : Images, enabled : BOOLEAN]]   \* svc at the snapshot

Outcomes == {"none", "ok", "refused", "rolled_back", "rollback_failed",
             "failed", "killed", "rolled_back_service_unknown"}

(* runtimeOwnership                                                         *)
Marked(d) == d.marker # NoMarker
Ownership(d) ==
  IF Marked(d) THEN "managed"
  ELSE IF d.binary # Absent \/ d.unit # Absent THEN "external"
  ELSE "disabled"

-----------------------------------------------------------------------------
CleanHost == [binary |-> Absent, config |-> Absent, unit |-> Absent,
              marker |-> NoMarker]

(* What history holds between two commands.                                 *)
Forgotten == [creator |-> "nobody", author |-> "nobody", touched |-> FALSE,
              damaged |-> FALSE, before |-> [image |-> Absent, enabled |-> FALSE]]

(* A clean host, one where the operator wrote the environment file first,   *)
(* or one with a Runtime somebody else installed, running or not.           *)
Init ==
  /\ \/ /\ \E c \in Edits \cup {Absent} :
             disk = [CleanHost EXCEPT !.config = c]
        /\ svc = [image |-> Absent, enabled |-> FALSE]
     \/ /\ disk = [CleanHost EXCEPT !.binary = Foreign, !.unit = Foreign]
        /\ \E i \in {Absent, Foreign}, e \in BOOLEAN :
             svc = [image |-> i, enabled |-> e]
  /\ identity = {}
  /\ pc = "idle"
  /\ cmd = NoCommand
  /\ snap = CleanHost
  /\ owned = FALSE
  /\ outcome = "none"
  /\ used = [commands |-> 0, crashes |-> 0, acts |-> 0, exits |-> 0]
  /\ history = [Forgotten EXCEPT !.creator =
                  IF disk.config = Absent THEN "nobody" ELSE "operator"]

-----------------------------------------------------------------------------
(* A command ends: its local variables are gone.                            *)
Return(result, damaged) ==
  /\ pc' = "idle"
  /\ outcome' = result
  /\ cmd' = NoCommand
  /\ snap' = CleanHost
  /\ owned' = FALSE
  /\ history' = [Forgotten EXCEPT !.creator = history.creator, !.damaged = damaged]

Goto(step) == pc' = step /\ UNCHANGED <<outcome, cmd, snap, owned>>

SetFile(name, content) == disk' = [disk EXCEPT ![name] = content]

Issue ==
  /\ pc = "idle"
  /\ used.commands < MaxCommands
  /\ used' = [used EXCEPT !.commands = @ + 1]

InstallCommand(v, start) ==
  [op |-> "install", version |-> v, start |-> start, purge |-> FALSE]

(* Install, up to the preflight.  The checks that precede it touch nothing. *)
Install(v, start) ==
  /\ Issue
  /\ pc' = "preflight"
  /\ cmd' = InstallCommand(v, start)
  /\ UNCHANGED <<disk, identity, svc, snap, owned, outcome, history>>

(* Repair refuses unless the Runtime is managed, and then is Install.       *)
Repair(v, start) ==
  /\ Ownership(disk) = "managed"
  /\ Install(v, start)

RepairRefuses ==
  /\ Issue
  /\ Ownership(disk) # "managed"
  /\ Return("refused", history.damaged)
  /\ UNCHANGED <<disk, identity, svc>>

(* Uninstall up to the first systemctl call.                                *)
Uninstall(purge) ==
  /\ Issue
  /\ Ownership(disk) = "managed"
  /\ pc' = "disable"
  /\ cmd' = [op |-> "uninstall", version |-> Absent, start |-> FALSE, purge |-> purge]
  /\ owned' = disk.marker.configOwned
  /\ UNCHANGED <<disk, identity, svc, snap, outcome, history>>

UninstallDoesNothing ==
  /\ Issue
  /\ \/ Ownership(disk) = "disabled" /\ Return("ok", history.damaged)
     \/ Ownership(disk) = "external" /\ Return("refused", history.damaged)
  /\ UNCHANGED <<disk, identity, svc>>

-----------------------------------------------------------------------------
(* A step of a command goes from one pc to the next and changes one thing.  *)
Step(from, to) == pc = from /\ Goto(to) /\ UNCHANGED used
FileStep(from, to, files) ==
  Step(from, to) /\ disk' = files /\ UNCHANGED <<identity, svc>>

(* Mutant: the ownership of existing files is not looked at.                *)
PreflightIgnoresOwnership ==
  FileStep("preflight", "snapshot", disk) /\ UNCHANGED history

(* Preflight: systemd and Ollama must answer, the files must not be foreign. *)
(* Every error up to the snapshot returns with nothing to roll back.         *)
PreflightAccepts ==
  /\ Ownership(disk) # "external"
  /\ FileStep("preflight", "snapshot", disk)
  /\ UNCHANGED history

PreflightRefuses ==
  /\ pc \in {"preflight", "snapshot"}
  /\ Return("refused", history.damaged)
  /\ UNCHANGED <<disk, identity, svc, used>>

CaptureSnapshot ==
  /\ pc = "snapshot"
  /\ pc' = "identity"
  /\ snap' = disk
  /\ owned' = IF Marked(disk) THEN disk.marker.configOwned
                              ELSE disk.config = Absent
  /\ history' = [history EXCEPT !.touched = FALSE, !.before = svc,
                                !.author = history.creator]
  /\ UNCHANGED <<disk, identity, svc, cmd, outcome, used>>

EnsureIdentity ==
  /\ Step("identity", "binary")
  /\ identity' = {"group", "user"}
  /\ UNCHANGED <<disk, svc, history>>

(* Mutant: the environment file is written whether or not one exists.       *)
CopyBinaryThenConfig ==
  /\ FileStep("binary", "config", [disk EXCEPT !.binary = cmd.version])
  /\ UNCHANGED history

CopyBinary ==
  /\ FileStep("binary", IF snap.config = Absent THEN "config" ELSE "unit",
              [disk EXCEPT !.binary = cmd.version])
  /\ UNCHANGED history

WriteConfig ==
  /\ FileStep("config", "unit", [disk EXCEPT !.config = DefaultConfig])
  /\ history' = [history EXCEPT !.creator = "installer"]

WriteUnit ==
  FileStep("unit", "marker", [disk EXCEPT !.unit = cmd.version]) /\ UNCHANGED history

NewMarker(version) == [version |-> version, configOwned |-> owned]

(* Mutant: the marker is written without its version.                       *)
WriteUnversionedMarker ==
  /\ FileStep("marker", "reload", [disk EXCEPT !.marker = NewMarker(Absent)])
  /\ UNCHANGED history

WriteMarker ==
  /\ FileStep("marker", "reload", [disk EXCEPT !.marker = NewMarker(cmd.version)])
  /\ UNCHANGED history

(* daemon-reload, after which --no-start is done.                           *)
ReloadSystemd ==
  /\ pc = "reload"
  /\ IF cmd.start THEN Goto("enable") /\ UNCHANGED history
                  ELSE Return("ok", FALSE)
  /\ UNCHANGED <<disk, identity, svc, used>>

(* What systemd runs when the service is started from these files.  The unit  *)
(* of the installer names the environment file without the "-" that would     *)
(* make it optional: the service does not start when the file is missing.     *)
Runnable(d) ==
  IF d.unit = Absent \/ (d.unit \in Versions /\ d.config = Absent) THEN Absent
                                                                   ELSE d.binary

(* systemctl enable --now starts a stopped unit and leaves a running one.   *)
EnableNow ==
  /\ Step("enable", "wait")
  /\ svc' = [enabled |-> TRUE,
             image   |-> IF svc.image = Absent THEN Runnable(disk) ELSE svc.image]
  /\ UNCHANGED <<disk, identity, history>>

Activated == pc = "wait" /\ Return("ok", FALSE) /\ UNCHANGED <<disk, identity, svc, used>>

(* Mutant: activation succeeds without an answer from the service.          *)
WaitWithoutProbe == Activated

WaitReady == svc.image \notin Broken \cup {Absent} /\ Activated

(* Mutant: the wait for readiness has no last attempt.                      *)
EveryStepButWaitFails ==
  /\ \E step \in InstallSteps \ {"wait"} : FileStep(step, "restore_binary", disk)
  /\ UNCHANGED history

(* Any step after the snapshot may fail: the rollback starts.  ensureIdentity *)
(* may have made the group and not the user, and a failed enable --now may    *)
(* have enabled the unit without starting it.                                 *)
InstallStepFails ==
  /\ \E step \in InstallSteps : Step(step, "restore_binary")
  /\ \/ pc = "identity" /\ identity' = identity \cup {"group"}
     \/ UNCHANGED identity
  /\ \/ pc = "enable" /\ svc' = [svc EXCEPT !.enabled = TRUE]
     \/ UNCHANGED svc
  /\ UNCHANGED <<disk, history>>

-----------------------------------------------------------------------------
(* rollback: restoreSnapshot file by file, then the service.                *)
(* Mutant: the marker is restored first, in the place of the binary.        *)
RestoreMarkerFirst ==
  /\ FileStep("restore_binary", "restore_config", [disk EXCEPT !.marker = snap.marker])
  /\ UNCHANGED history

RestoreBinary ==
  /\ FileStep("restore_binary", "restore_config", [disk EXCEPT !.binary = snap.binary])
  /\ UNCHANGED history

(* Mutant: the environment file is left as the failed install made it.      *)
KeepConfig == FileStep("restore_config", "restore_unit", disk) /\ UNCHANGED history

RestoreConfig ==
  /\ FileStep("restore_config", "restore_unit", [disk EXCEPT !.config = snap.config])
  /\ history' = [history EXCEPT !.creator = history.author]

(* Mutant: the unit is left as the failed install made it.                  *)
KeepUnit == FileStep("restore_unit", "restore_marker", disk) /\ UNCHANGED history

RestoreUnit ==
  /\ FileStep("restore_unit", "restore_marker", [disk EXCEPT !.unit = snap.unit])
  /\ UNCHANGED history

RestoreMarker ==
  /\ FileStep("restore_marker", "restore_service", [disk EXCEPT !.marker = snap.marker])
  /\ UNCHANGED history

(* restoreSnapshot gives up at its first error; the service is still        *)
(* handled and the error reported.                                          *)
RestoreFails ==
  /\ \E step \in RestoreSteps : FileStep(step, "restore_service_after_error", disk)
  /\ UNCHANGED history

Stopped == [image |-> Absent, enabled |-> FALSE]

(* systemctl disable --now.  It refuses a unit whose file is gone, and whether *)
(* the links that enable it, or the process, are gone by then is up to systemd. *)
Disabled ==
  IF disk.unit = Absent THEN {svc, [svc EXCEPT !.enabled = FALSE], Stopped} ELSE {Stopped}

(* systemctl restart, which starts a stopped service too, and refuses a unit  *)
(* whose file is gone.                                                        *)
Restarted ==
  IF disk.unit = Absent THEN {svc, [svc EXCEPT !.image = Absent]}
                        ELSE {[svc EXCEPT !.image = Runnable(disk)]}

(* Mutant: the service is started, not restarted.                           *)
StartedService ==
  IF Marked(snap) /\ svc.image # Absent THEN {svc}
  ELSE IF Marked(snap) THEN Restarted ELSE Disabled

(* What is asked of systemd when the files are back, which for a first       *)
(* install means that the unit is gone.                                      *)
RestoredService == IF Marked(snap) THEN Restarted ELSE Disabled

(* The error of the systemctl call is dropped: the service may not have     *)
(* changed, or have been stopped and not started again.                     *)
RestoreService ==
  /\ pc \in ServiceSteps
  /\ \E obeyed \in BOOLEAN :
       /\ svc' \in IF obeyed THEN RestoredService
                   ELSE {svc, [svc EXCEPT !.image = Absent]}
       /\ IF pc # "restore_service" THEN Return("rollback_failed", TRUE)
          ELSE IF obeyed            THEN Return("rolled_back", history.damaged)
          ELSE Return("rolled_back_service_unknown", history.damaged)
  /\ UNCHANGED <<disk, identity, used>>

-----------------------------------------------------------------------------
(* Uninstall.  The error of disable --now is dropped.                       *)
DisableService ==
  /\ Step("disable", "remove_binary")
  /\ svc' \in {svc} \cup Disabled
  /\ UNCHANGED <<disk, identity, history>>

RemoveBinary ==
  /\ FileStep("remove_binary", "remove_unit", [disk EXCEPT !.binary = Absent])
  /\ UNCHANGED history

(* Mutant: a purge does not ask who created the environment file.           *)
RemoveUnitThenConfig ==
  /\ FileStep("remove_unit", IF cmd.purge THEN "remove_config" ELSE "remove_marker",
              [disk EXCEPT !.unit = Absent])
  /\ UNCHANGED history

RemoveUnit ==
  /\ FileStep("remove_unit",
              IF cmd.purge /\ owned THEN "remove_config" ELSE "remove_marker",
              [disk EXCEPT !.unit = Absent])
  /\ UNCHANGED history

RemoveConfig ==
  /\ FileStep("remove_config", "remove_marker", [disk EXCEPT !.config = Absent])
  /\ history' = [history EXCEPT !.creator = "nobody"]

(* The marker goes last; daemon-reload has no effect the model sees.        *)
RemoveMarker ==
  /\ pc = "remove_marker"
  /\ disk' = [disk EXCEPT !.marker = NoMarker]
  /\ Return("ok", FALSE)
  /\ UNCHANGED <<identity, svc, used>>

RemoveFails ==
  /\ pc \in UninstallSteps \ {"disable"}
  /\ Return("failed", TRUE)
  /\ UNCHANGED <<disk, identity, svc, used>>

-----------------------------------------------------------------------------
(* The world around the installer.                                          *)
Installing == pc \in InstallSteps \cup RestoreSteps \cup ServiceSteps

Crash ==
  /\ used.crashes < MaxCrashes
  /\ used' = [used EXCEPT !.crashes = @ + 1]
  /\ UNCHANGED <<disk, identity>>

Killed ==
  /\ pc # "idle"
  /\ Crash
  /\ Return("killed", TRUE)
  /\ UNCHANGED svc

Reboot ==
  /\ Crash
  /\ svc' = [svc EXCEPT !.image = IF svc.enabled THEN Runnable(disk) ELSE Absent]
  /\ IF pc = "idle" THEN UNCHANGED <<pc, cmd, snap, owned, outcome, history>>
                    ELSE Return("killed", TRUE)

(* Restart=on-failure: a service that fails comes back from the disk.       *)
ServiceExits ==
  /\ svc.image # Absent
  /\ used.exits < MaxServiceExits
  /\ used' = [used EXCEPT !.exits = @ + 1]
  /\ svc' = [svc EXCEPT !.image = Runnable(disk)]
  /\ UNCHANGED <<disk, identity, pc, cmd, snap, owned, outcome, history>>

OperatorActs ==
  /\ used.acts < MaxOperatorActs
  /\ used' = [used EXCEPT !.acts = @ + 1]
  /\ UNCHANGED <<identity, pc, cmd, snap, owned, outcome>>

(* A file created beside a marker, or after the snapshot was taken, did not  *)
(* exist before the install.                                                 *)
OperatorWritesConfig ==
  /\ OperatorActs
  /\ \E e \in Edits \ {disk.config} : disk' = [disk EXCEPT !.config = e]
  /\ history' = [history EXCEPT
                   !.touched = pc # "idle",
                   !.creator = IF disk.config # Absent THEN @
                               ELSE IF Marked(disk) \/ Installing THEN "operator_later"
                               ELSE "operator"]
  /\ UNCHANGED svc

OperatorDeletesConfig ==
  /\ OperatorActs
  /\ disk.config # Absent
  /\ disk' = [disk EXCEPT !.config = Absent]
  /\ history' = [history EXCEPT !.touched = pc # "idle", !.creator = "nobody"]
  /\ UNCHANGED svc

OperatorStopsService ==
  /\ OperatorActs
  /\ svc.image # Absent
  /\ svc' = [svc EXCEPT !.image = Absent]
  /\ UNCHANGED <<disk, history>>

-----------------------------------------------------------------------------
InstallProgress ==
  \/ PreflightAccepts \/ PreflightRefuses \/ CaptureSnapshot
  \/ EnsureIdentity \/ CopyBinary \/ WriteConfig \/ WriteUnit \/ WriteMarker
  \/ ReloadSystemd \/ EnableNow \/ WaitReady \/ InstallStepFails

RollbackProgress ==
  \/ RestoreBinary \/ RestoreConfig \/ RestoreUnit \/ RestoreMarker
  \/ RestoreFails \/ RestoreService

UninstallProgress ==
  \/ DisableService \/ RemoveBinary \/ RemoveUnit \/ RemoveConfig
  \/ RemoveMarker \/ RemoveFails

Progress == InstallProgress \/ RollbackProgress \/ UninstallProgress

Commands ==
  \/ \E v \in Versions, start \in BOOLEAN : Install(v, start) \/ Repair(v, start)
  \/ RepairRefuses
  \/ \E purge \in BOOLEAN : Uninstall(purge)
  \/ UninstallDoesNothing

Environment ==
  \/ Killed \/ Reboot \/ ServiceExits
  \/ OperatorWritesConfig \/ OperatorDeletesConfig \/ OperatorStopsService

Next == Commands \/ Progress \/ Environment

Spec == Init /\ [][Next]_vars

(* A running command keeps taking steps: every file operation and systemctl *)
(* call returns, and waitReady makes at most twenty attempts.               *)
FairSpec == Spec /\ WF_vars(Progress)

-----------------------------------------------------------------------------
(* Every variable keeps its type.                                           *)
TypeOK ==
  /\ disk \in Disk
  /\ identity \subseteq {"group", "user"}
  /\ svc \in [image : Images, enabled : BOOLEAN]
  /\ pc \in Steps
  /\ cmd \in Command
  /\ snap \in Disk
  /\ owned \in BOOLEAN
  /\ outcome \in Outcomes
  /\ used \in [commands : 0..MaxCommands, crashes : 0..MaxCrashes,
               acts : 0..MaxOperatorActs, exits : 0..MaxServiceExits]
  /\ history \in History

(* Binary, unit and marker belong to one build, or none of them is ours.     *)
Coherent(d) ==
  IF Marked(d) THEN d.binary = d.marker.version /\ d.unit = d.marker.version
               ELSE d.binary = d.unit /\ d.binary \notin Versions

(* At rest, and unless a command was killed or reported a failed rollback or  *)
(* removal and was not repaired since, the three managed files are of one     *)
(* build: no sequence of installs, failed updates, repairs and uninstalls     *)
(* leaves a new binary beside an old unit or marker (installer.go:263-321).   *)
NoMixedVersions == pc = "idle" /\ ~history.damaged => Coherent(disk)

(* No step, the installer being killed included, turns a managed host into    *)
(* one where the installer refuses to work: the marker goes last in Uninstall *)
(* and in restoreSnapshot (installer.go:350-368, 537-558).                     *)
ManagedNeverBecomesExternal ==
  [][Ownership(disk) = "managed" => Ownership(disk)' # "external"]_vars

Ends(result) == pc # "idle" /\ pc' = "idle" /\ outcome' = result

(* A rollback that reports no error of its own leaves the four files as the   *)
(* snapshot found them, the environment file excepted if the operator changed *)
(* it meanwhile (installer.go:263-275, 537-558).                               *)
RollbackRestoresSnapshot ==
  [][Ends("rolled_back") =>
       /\ \A name \in {"binary", "unit", "marker"} : disk'[name] = snap[name]
       /\ history.touched \/ disk'.config = snap.config]_vars

(* If systemctl restart obeys and the operator kept the environment file, the  *)
(* service of a managed host runs no build but that of the snapshot after such *)
(* a rollback, and does run it if it ran when the install began: the files     *)
(* come back before the restart (installer.go:263-275).  A service that was    *)
(* stopped may be running now, and after a first install the build that failed *)
(* may be: disable --now comes when its unit is gone (269, 546).               *)
RollbackServesOldBuild ==
  [][Ends("rolled_back") /\ ~history.touched /\ Marked(snap) /\ snap.unit # Absent =>
       /\ svc'.image \in {Absent, Runnable(snap)}
       /\ history.before.image # Absent => svc'.image = Runnable(snap)]_vars

InstallerStep == used' = used

(* An install, its rollback included, changes an environment file written by  *)
(* the operator only if the operator changed it during that very install      *)
(* (installer.go:254-262, 289-293).                                            *)
OperatorConfigSurvivesInstall ==
  [][InstallerStep /\ cmd.op = "install" /\ disk.config \in Edits
       /\ disk'.config # disk.config => history.touched]_vars

(* An environment file that existed before the installer managed the host is  *)
(* never purged, whatever installs, rollbacks, crashes and uninstalls came    *)
(* between (installer.go:254-262, 359-363; INSTALLATION.md:88).                 *)
PreexistingConfigNeverPurged ==
  [][InstallerStep /\ cmd.op = "uninstall" /\ history.creator = "operator"
       => disk'.config = disk.config]_vars

(* If the service was stopped when the install began, a successful activation *)
(* has probed the build it installed (installer.go:314-321, 472-494).          *)
FreshActivationIsHealthy ==
  [][Ends("ok") /\ cmd.op = "install" /\ cmd.start
       /\ history.before.image = Absent =>
         svc'.image = disk'.binary /\ disk'.binary \notin Broken]_vars

(* The files the installer manages, seen as one transaction: during an        *)
(* install they still are what the snapshot holds.                             *)
Owning(d) == [binary |-> d.binary, unit |-> d.unit, marker |-> d.marker.version]

Transaction == INSTANCE InstallTransaction WITH
  files <- IF Installing THEN Owning(snap) ELSE Owning(disk),
  job   <- IF Installing THEN cmd.version
           ELSE IF pc \in UninstallSteps THEN "removal" ELSE Absent,
  torn  <- history.damaged

(* The installer implements the transaction: install all or nothing, tear only *)
(* by interruption or reported error, marker last (installer.go:220-369).      *)
ImplementsTransaction == Transaction!Spec

(* Every command returns (installer.go:472-494: the wait is bounded).          *)
CommandTerminates == pc # "idle" ~> pc = "idle"

-----------------------------------------------------------------------------
(* What the documentation says, and the code does not do.                   *)

(* "external: Runtime files exist but were not created by this installer"    *)
(* (docs/INSTALLATION.md:33).                                                  *)
ExternalMeansForeign ==
  pc = "idle" /\ Ownership(disk) = "external" => Foreign \in {disk.binary, disk.unit}

(* "require both /healthz and /readyz" (docs/INSTALLATION.md:57): an install  *)
(* that starts the service succeeds only with a build that answers them.      *)
ActivationProbesInstalledBuild ==
  [][Ends("ok") /\ cmd.op = "install" /\ cmd.start => disk'.binary \notin Broken]_vars
=============================================================================
