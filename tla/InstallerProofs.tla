--------------------------- MODULE InstallerProofs ---------------------------
(***************************************************************************)
(* Proofs about Installer for every set of builds, every environment file  *)
(* and every bound: its types; that the files it manages stay of one build *)
(* and never fall out of its ownership; what a rollback brings back; that  *)
(* the operator's environment file survives; and that the installer        *)
(* implements InstallTransaction.                                          *)
(***************************************************************************)
EXTENDS Installer, TLAPS

-----------------------------------------------------------------------------
(* The types of the records, and how their updates keep them.               *)
LEMMA DiskFields ==
  ASSUME NEW d \in Disk
  PROVE  /\ d.binary \in Images
         /\ d.config \in Configs
         /\ d.unit \in Images
         /\ d.marker \in Marker \cup {NoMarker}
         /\ d.marker.configOwned \in BOOLEAN
         /\ Marked(d) => d.marker \in Marker /\ d.marker.version \in Versions
  <1>1. d.marker \in Marker \/ d.marker = NoMarker
    BY DEF Disk
  <1>2. d.marker \in Marker => d.marker.configOwned \in BOOLEAN
    BY DEF Marker
  <1>3. d.marker = NoMarker => d.marker.configOwned \in BOOLEAN
    BY DEF NoMarker
  <1>4. d.marker \in Marker => d.marker.version \in Versions
    BY DEF Marker
  <1> QED
    BY <1>1, <1>2, <1>3, <1>4 DEF Disk, Marked

LEMMA DiskUpdates ==
  ASSUME NEW d \in Disk
  PROVE  /\ \A v \in Images : [d EXCEPT !.binary = v] \in Disk
         /\ \A v \in Configs : [d EXCEPT !.config = v] \in Disk
         /\ \A v \in Images : [d EXCEPT !.unit = v] \in Disk
         /\ \A v \in Marker \cup {NoMarker} : [d EXCEPT !.marker = v] \in Disk
  BY DEF Disk

LEMMA Defaults == CleanHost \in Disk /\ NoCommand \in Command /\ Forgotten \in History
  BY DEF Disk, CleanHost, Images, Configs, Command, NoCommand, History, Forgotten,
         Creators

LEMMA ReturnType ==
  ASSUME history \in History, NEW result \in Outcomes, NEW damaged \in BOOLEAN,
         Return(result, damaged)
  PROVE  /\ pc' = "idle"
         /\ cmd' = NoCommand
         /\ snap' = CleanHost
         /\ owned' = FALSE
         /\ outcome' \in Outcomes
         /\ history' \in History
         /\ history'.damaged = damaged
  BY DEF Return, History, Forgotten, Creators, Images

(* A record of history keeps its type when its fields are set.              *)
LEMMA HistoryUpdates ==
  ASSUME history \in History
  PROVE  /\ \A c \in Creators : [history EXCEPT !.creator = c] \in History
         /\ \A c \in Creators, t \in BOOLEAN :
              [history EXCEPT !.touched = t, !.creator = c] \in History
         /\ \A c \in Creators, b \in [image : Images, enabled : BOOLEAN] :
              [history EXCEPT !.touched = FALSE, !.before = b, !.author = c] \in History
         /\ history.creator \in Creators
         /\ history.author \in Creators
         /\ history.damaged \in BOOLEAN
  BY DEF History

(* What the type of the state is made of; used tells how much of each bound *)
(* is spent.                                                                *)
Used == [commands : 0..MaxCommands, crashes : 0..MaxCrashes,
         acts : 0..MaxOperatorActs, exits : 0..MaxServiceExits]

LEMMA UsedUpdates ==
  ASSUME used \in Used
  PROVE  /\ used.commands < MaxCommands => [used EXCEPT !.commands = @ + 1] \in Used
         /\ used.crashes < MaxCrashes => [used EXCEPT !.crashes = @ + 1] \in Used
         /\ used.acts < MaxOperatorActs => [used EXCEPT !.acts = @ + 1] \in Used
         /\ used.exits < MaxServiceExits => [used EXCEPT !.exits = @ + 1] \in Used
  BY BoundsAssumption DEF Used

Service == [image : Images, enabled : BOOLEAN]

LEMMA ServiceUpdates ==
  ASSUME svc \in Service
  PROVE  /\ \A i \in Images : [svc EXCEPT !.image = i] \in Service
         /\ \A e \in BOOLEAN : [svc EXCEPT !.enabled = e] \in Service
         /\ Stopped \in Service
         /\ svc.image \in Images
         /\ \A d \in Disk : Runnable(d) \in Images
  BY DiskFields DEF Service, Stopped, Runnable, Images

(* What systemctl leaves of the service, whatever it was asked.             *)
LEMMA ServiceOutcomes ==
  ASSUME svc \in Service, disk \in Disk
  PROVE  /\ Disabled \subseteq Service
         /\ Restarted \subseteq Service
         /\ RestoredService \subseteq Service
  <1>1. Absent \in Images /\ Runnable(disk) \in Images
    BY ServiceUpdates DEF Images
  <1>2. Disabled \subseteq Service
    BY ServiceUpdates DEF Disabled
  <1>3. Restarted \subseteq Service
    BY <1>1, ServiceUpdates DEF Restarted
  <1> QED
    BY <1>2, <1>3 DEF RestoredService

-----------------------------------------------------------------------------
(* Every stage of an install knows the build it installs.                   *)
Arguments ==
  pc \in {"preflight", "snapshot"} \cup InstallSteps \cup RestoreSteps
    => cmd.version \in Versions

IType == TypeOK /\ Arguments

LEMMA InitType == Init => IType
  <1> SUFFICES ASSUME Init PROVE IType
    OBVIOUS
  <1>1. disk \in Disk /\ snap \in Disk
    <2>1. \A c \in Edits \cup {Absent} : [CleanHost EXCEPT !.config = c] \in Disk
      BY Defaults, DiskUpdates DEF Configs
    <2>2. [CleanHost EXCEPT !.binary = Foreign, !.unit = Foreign] \in Disk
      BY Defaults, DiskUpdates DEF Images, Disk
    <2> QED
      BY <2>1, <2>2, Defaults DEF Init
  <1>2. svc \in Service
    <2>1. \A i \in {Absent, Foreign}, e \in BOOLEAN :
            [image |-> i, enabled |-> e] \in Service
      BY DEF Service, Images
    <2> QED
      BY <2>1 DEF Init
  <1>3. used \in Used
    BY BoundsAssumption DEF Init, Used
  <1>4. history \in History
    BY Defaults DEF Init, History, Creators
  <1>5. pc \in Steps /\ outcome \in Outcomes /\ Arguments
    BY DEF Init, Steps, Outcomes, Arguments, InstallSteps, RestoreSteps
  <1> QED
    BY <1>1, <1>2, <1>3, <1>4, <1>5, Defaults DEF Init, IType, TypeOK, Used, Service

(* The steps of a command that only write a file or only move on.           *)
LEMMA FileStepType ==
  ASSUME IType, NEW from, NEW to \in Steps, NEW files \in Disk,
         FileStep(from, to, files), history' \in History, Arguments'
  PROVE  IType'
  BY DEF IType, TypeOK, FileStep, Step, Goto

(* The steps that end a command.                                            *)
LEMMA EndType ==
  ASSUME IType, NEW result \in Outcomes, NEW damaged \in BOOLEAN,
         Return(result, damaged), disk' \in Disk, identity' = identity,
         svc' \in Service, used' \in Used
  PROVE  IType'
  <1>1. history \in History
    BY DEF IType, TypeOK
  <1>2. pc' \in Steps /\ Arguments'
    BY <1>1, ReturnType DEF Steps, Arguments, InstallSteps, RestoreSteps
  <1> QED
    BY <1>1, <1>2, ReturnType, Defaults DEF IType, TypeOK, Service, Used

LEMMA NextType == IType /\ [Next]_vars => IType'
  <1> SUFFICES ASSUME IType, [Next]_vars PROVE IType'
    OBVIOUS
  <1>h. /\ history \in History /\ history.damaged \in BOOLEAN
        /\ history.author \in Creators /\ history.creator \in Creators
    BY HistoryUpdates DEF IType, TypeOK
  <1>u. used \in Used
    BY DEF IType, TypeOK, Used
  <1>s. /\ svc \in Service /\ Stopped \in Service /\ svc.image \in Images
        /\ \A i \in Images : [svc EXCEPT !.image = i] \in Service
        /\ \A e \in BOOLEAN : [svc EXCEPT !.enabled = e] \in Service
    BY ServiceUpdates DEF IType, TypeOK, Service
  <1>d. /\ disk \in Disk /\ snap \in Disk
        /\ Runnable(disk) \in Images /\ disk.binary \in Images
        /\ snap.binary \in Images /\ snap.config \in Configs /\ snap.unit \in Images
        /\ snap.marker \in Marker \cup {NoMarker}
        /\ disk.marker.configOwned \in BOOLEAN
    BY <1>s, ServiceUpdates, DiskFields DEF IType, TypeOK
  <1>v. \A v \in Versions \cup {Absent} : v \in Images
    BY DEF Images
  <1>o. \A r \in {"ok", "refused", "rolled_back", "rollback_failed", "failed",
                  "killed", "rolled_back_service_unknown"} : r \in Outcomes
    BY DEF Outcomes
  <1>p. InstallSteps \cup RestoreSteps \cup ServiceSteps \cup UninstallSteps
          \cup {"preflight", "snapshot"} \subseteq Steps
    BY DEF Steps
  <1>1. CASE Commands
    <2>1. ASSUME NEW v \in Versions, NEW start \in BOOLEAN, Install(v, start)
          PROVE  IType'
      BY <2>1, <1>u, <1>p, UsedUpdates
      DEF Install, Issue, InstallCommand, IType, TypeOK, Used, Arguments, Command
    <2>2. ASSUME NEW v \in Versions, NEW start \in BOOLEAN, Repair(v, start)
          PROVE  IType'
      BY <2>1, <2>2 DEF Repair
    <2>3. CASE RepairRefuses
      BY <2>3, <1>h, <1>u, <1>s, <1>d, <1>o, EndType, UsedUpdates DEF RepairRefuses, Issue
    <2>4. ASSUME NEW purge \in BOOLEAN, Uninstall(purge) PROVE IType'
      <3>1. Arguments'
        BY <2>4 DEF Uninstall, Arguments, InstallSteps, RestoreSteps
      <3>2. cmd' \in Command
        BY <2>4 DEF Uninstall, Command
      <3>3. pc' \in Steps
        BY <2>4, <1>p DEF Uninstall, UninstallSteps
      <3> QED
        BY <2>4, <3>1, <3>2, <3>3, <1>u, <1>d, UsedUpdates
        DEF Uninstall, Issue, IType, TypeOK, Used
    <2>5. CASE UninstallDoesNothing
      BY <2>5, <1>h, <1>u, <1>s, <1>d, <1>o, EndType, UsedUpdates
      DEF UninstallDoesNothing, Issue
    <2> QED
      BY <1>1, <2>1, <2>2, <2>3, <2>4, <2>5 DEF Commands
  <1>2. CASE PreflightAccepts
    BY <1>2, <1>d, <1>h, <1>p, FileStepType
    DEF PreflightAccepts, FileStep, Step, Goto, IType, Arguments
  <1>3. CASE PreflightRefuses
    BY <1>3, <1>h, <1>u, <1>s, <1>d, <1>o, EndType DEF PreflightRefuses
  <1>4. CASE CaptureSnapshot
    <2>1. history' \in History
      BY <1>4, <1>h, <1>s, HistoryUpdates DEF CaptureSnapshot, Service
    <2>2. owned' \in BOOLEAN /\ snap' \in Disk
      BY <1>4, <1>d DEF CaptureSnapshot
    <2>3. pc' \in Steps /\ Arguments'
      BY <1>4, <1>p DEF CaptureSnapshot, IType, Arguments, InstallSteps
    <2> QED
      BY <1>4, <2>1, <2>2, <2>3 DEF CaptureSnapshot, IType, TypeOK
  <1>5. CASE EnsureIdentity
    <2>1. pc' \in Steps /\ Arguments'
      BY <1>5, <1>p DEF EnsureIdentity, Step, Goto, IType, Arguments, InstallSteps
    <2> QED
      BY <1>5, <2>1 DEF EnsureIdentity, Step, Goto, IType, TypeOK
  <1>6. CASE CopyBinary \/ WriteConfig \/ WriteUnit \/ WriteMarker
    <2>1. cmd.version \in Versions
      BY <1>6 DEF CopyBinary, WriteConfig, WriteUnit, WriteMarker, FileStep, Step,
                  IType, Arguments, InstallSteps
    <2>2. NewMarker(cmd.version) \in Marker
      BY <2>1 DEF NewMarker, Marker, IType, TypeOK
    <2>3. pc' \in InstallSteps /\ Arguments'
      BY <1>6, <2>1 DEF CopyBinary, WriteConfig, WriteUnit, WriteMarker, FileStep, Step,
                        Goto, Arguments, InstallSteps
    <2>4. history' \in History
      BY <1>6, <1>h, HistoryUpdates
      DEF CopyBinary, WriteConfig, WriteUnit, WriteMarker, Creators
    <2>5. disk' \in Disk
      BY <1>6, <1>d, <1>v, <2>1, <2>2, DiskUpdates
      DEF CopyBinary, WriteConfig, WriteUnit, WriteMarker, FileStep, Configs
    <2> QED
      BY <1>6, <1>p, <2>3, <2>4, <2>5
      DEF CopyBinary, WriteConfig, WriteUnit, WriteMarker, FileStep, Step, Goto,
          IType, TypeOK
  <1>7. CASE ReloadSystemd
    <2>1. CASE cmd.start
      BY <1>7, <2>1, <1>d, <1>h, <1>p
      DEF ReloadSystemd, Goto, IType, TypeOK, Arguments, InstallSteps
    <2>2. CASE ~cmd.start
      BY <1>7, <2>2, <1>h, <1>u, <1>s, <1>d, <1>o, EndType DEF ReloadSystemd
    <2> QED
      BY <2>1, <2>2
  <1>8. CASE EnableNow
    <2>1. svc' \in Service
      BY <1>8, <1>s, <1>d DEF EnableNow, Service
    <2>2. pc' \in Steps /\ Arguments'
      BY <1>8, <1>p DEF EnableNow, Step, Goto, IType, Arguments, InstallSteps
    <2> QED
      BY <1>8, <2>1, <2>2 DEF EnableNow, Step, Goto, IType, TypeOK, Service
  <1>9. CASE WaitReady
    BY <1>9, <1>h, <1>u, <1>s, <1>d, <1>o, EndType DEF WaitReady, Activated
  <1>10. CASE InstallStepFails
    <2>1. svc' \in Service
      BY <1>10, <1>s DEF InstallStepFails
    <2>2. pc' \in Steps /\ Arguments'
      BY <1>10, <1>p
      DEF InstallStepFails, Step, Goto, IType, Arguments, InstallSteps, RestoreSteps
    <2>3. identity' \subseteq {"group", "user"}
      BY <1>10 DEF InstallStepFails, IType, TypeOK
    <2> QED
      BY <1>10, <2>1, <2>2, <2>3 DEF InstallStepFails, Step, Goto, IType, TypeOK, Service
  <1>11. CASE RestoreBinary \/ RestoreConfig \/ RestoreUnit \/ RestoreMarker
    <2>1. pc' \in Steps /\ Arguments'
      BY <1>11, <1>p
      DEF RestoreBinary, RestoreConfig, RestoreUnit, RestoreMarker, FileStep, Step,
          Goto, IType, Arguments, InstallSteps, RestoreSteps, ServiceSteps
    <2>2. history' \in History
      BY <1>11, <1>h, HistoryUpdates
      DEF RestoreBinary, RestoreConfig, RestoreUnit, RestoreMarker
    <2>3. disk' \in Disk
      BY <1>11, <1>d, DiskUpdates
      DEF RestoreBinary, RestoreConfig, RestoreUnit, RestoreMarker, FileStep
    <2> QED
      BY <1>11, <2>1, <2>2, <2>3
      DEF RestoreBinary, RestoreConfig, RestoreUnit, RestoreMarker, FileStep, Step,
          Goto, IType, TypeOK
  <1>12. CASE RestoreFails
    <2>1. pc' \in Steps /\ Arguments'
      BY <1>12, <1>p
      DEF RestoreFails, FileStep, Step, Goto, Arguments, InstallSteps, RestoreSteps,
          ServiceSteps
    <2> QED
      BY <1>12, <2>1 DEF RestoreFails, FileStep, Step, Goto, IType, TypeOK
  <1>13. CASE RestoreService
    <2>1. svc' \in Service
      BY <1>13, <1>s, <1>d, ServiceOutcomes DEF RestoreService, Images
    <2>2. \E r \in Outcomes, b \in BOOLEAN : Return(r, b)
      BY <1>13, <1>h, <1>o DEF RestoreService
    <2> QED
      BY <1>13, <2>1, <2>2, <1>u, <1>d, EndType DEF RestoreService
  <1>14. CASE DisableService
    <2>1. svc' \in Service
      BY <1>14, <1>s, <1>d, ServiceOutcomes DEF DisableService
    <2>2. pc' \in Steps /\ Arguments'
      BY <1>14, <1>p
      DEF DisableService, Step, Goto, Arguments, InstallSteps, RestoreSteps, UninstallSteps
    <2> QED
      BY <1>14, <2>1, <2>2 DEF DisableService, Step, Goto, IType, TypeOK, Service
  <1>15. CASE RemoveBinary \/ RemoveUnit \/ RemoveConfig
    <2>1. pc' \in Steps /\ Arguments'
      BY <1>15, <1>p
      DEF RemoveBinary, RemoveUnit, RemoveConfig, FileStep, Step, Goto, Arguments,
          InstallSteps, RestoreSteps, UninstallSteps
    <2>2. history' \in History
      BY <1>15, <1>h, HistoryUpdates DEF RemoveBinary, RemoveUnit, RemoveConfig, Creators
    <2>3. disk' \in Disk
      <3>1. Absent \in Images /\ Absent \in Configs
        BY DEF Images, Configs
      <3>2. disk' \in {[disk EXCEPT !.binary = Absent], [disk EXCEPT !.unit = Absent],
                      [disk EXCEPT !.config = Absent]}
        BY <1>15 DEF RemoveBinary, RemoveUnit, RemoveConfig, FileStep
      <3> QED
        BY <3>1, <3>2, <1>d, DiskUpdates
    <2> QED
      BY <1>15, <2>1, <2>2, <2>3
      DEF RemoveBinary, RemoveUnit, RemoveConfig, FileStep, Step, Goto, IType, TypeOK
  <1>16. CASE RemoveMarker
    BY <1>16, <1>h, <1>u, <1>s, <1>d, <1>o, EndType, DiskUpdates DEF RemoveMarker
  <1>17. CASE RemoveFails
    BY <1>17, <1>h, <1>u, <1>s, <1>d, <1>o, EndType DEF RemoveFails
  <1>18. CASE Killed
    BY <1>18, <1>h, <1>u, <1>s, <1>d, <1>o, EndType, UsedUpdates DEF Killed, Crash
  <1>19. CASE Reboot
    <2>1. svc' \in Service
      BY <1>19, <1>s, <1>d DEF Reboot, Images
    <2>2. used' \in Used
      BY <1>19, <1>u, UsedUpdates DEF Reboot, Crash
    <2>3. CASE pc = "idle"
      BY <1>19, <2>1, <2>2, <2>3
      DEF Reboot, Crash, IType, TypeOK, Arguments, Service, Used
    <2>4. CASE pc # "idle"
      BY <1>19, <2>1, <2>2, <2>4, <1>h, <1>d, <1>o, EndType DEF Reboot, Crash
    <2> QED
      BY <2>3, <2>4
  <1>20. CASE ServiceExits
    BY <1>20, <1>u, <1>s, <1>d, UsedUpdates
    DEF ServiceExits, IType, TypeOK, Arguments, Service, Used
  <1>21. CASE OperatorWritesConfig \/ OperatorDeletesConfig \/ OperatorStopsService
    <2>1. used' \in Used
      BY <1>21, <1>u, UsedUpdates
      DEF OperatorWritesConfig, OperatorDeletesConfig, OperatorStopsService, OperatorActs
    <2>2. disk' \in Disk
      BY <1>21, <1>d, DiskUpdates
      DEF OperatorWritesConfig, OperatorDeletesConfig, OperatorStopsService, Configs
    <2>3. history' \in History
      BY <1>21, <1>h, HistoryUpdates
      DEF OperatorWritesConfig, OperatorDeletesConfig, OperatorStopsService, Creators
    <2>4. svc' \in Service
      BY <1>21, <1>s
      DEF OperatorWritesConfig, OperatorDeletesConfig, OperatorStopsService, Images
    <2> QED
      BY <1>21, <2>1, <2>2, <2>3, <2>4
      DEF OperatorWritesConfig, OperatorDeletesConfig, OperatorStopsService,
          OperatorActs, IType, TypeOK, Arguments, Service, Used
  <1>22. CASE UNCHANGED vars
    BY <1>22 DEF vars, IType, TypeOK, Arguments
  <1> QED
    BY <1>1, <1>2, <1>3, <1>4, <1>5, <1>6, <1>7, <1>8, <1>9, <1>10, <1>11, <1>12,
       <1>13, <1>14, <1>15, <1>16, <1>17, <1>18, <1>19, <1>20, <1>21, <1>22
    DEF Next, Progress, InstallProgress, RollbackProgress, UninstallProgress, Environment

(* Every variable keeps its type, whatever fails, is killed or edited.       *)
THEOREM TypeCorrect == Spec => []TypeOK
  <1>1. IType => TypeOK
    BY DEF IType
  <1> QED
    BY <1>1, InitType, NextType, PTL DEF Spec

-----------------------------------------------------------------------------
(* The inductive invariant: what each stage of a command has already done.  *)
SnapshotIsOurs ==
  /\ pc = "snapshot" => Ownership(disk) # "external"
  /\ Installing /\ ~Marked(snap) => snap.binary = Absent /\ snap.unit = Absent

InstalledSoFar ==
  /\ pc \in {"config", "unit", "marker", "reload", "enable", "wait"}
       => disk.binary = cmd.version
  /\ pc \in {"marker", "reload", "enable", "wait"} => disk.unit = cmd.version
  /\ pc \in {"reload", "enable", "wait"} => disk.marker.version = cmd.version

RestoredSoFar ==
  /\ pc \in {"restore_config", "restore_unit", "restore_marker", "restore_service"}
       => disk.binary = snap.binary
  /\ pc \in {"restore_marker", "restore_service"} => disk.unit = snap.unit
  /\ pc = "restore_service" => disk.marker = snap.marker

RemovedSoFar ==
  /\ pc \in {"remove_unit", "remove_config", "remove_marker"} => disk.binary = Absent
  /\ pc \in {"remove_config", "remove_marker"} => disk.unit = Absent

CoherentUnlessDamaged ==
  ~history.damaged =>
    /\ pc \in {"idle", "preflight", "snapshot"} => Coherent(disk)
    /\ Installing => Coherent(snap)

Stages ==
  /\ SnapshotIsOurs
  /\ InstalledSoFar
  /\ RestoredSoFar
  /\ RemovedSoFar
  /\ CoherentUnlessDamaged

(* Which command runs, and that an uninstall lets go of the marker last.     *)
Running ==
  /\ pc \in {"preflight", "snapshot"} => cmd.op = "install"
  /\ Installing => cmd.op = "install" /\ cmd.version \in Versions
  /\ pc \in UninstallSteps => cmd.op = "uninstall" /\ Marked(disk)

(* What an install has made of the environment file, if nobody else did.     *)
ConfigSoFar ==
  /\ pc = "config" => snap.config = Absent
  /\ ~history.touched =>
       /\ Installing => disk.config \in {snap.config, DefaultConfig}
       /\ pc \in {"identity", "binary", "config", "restore_unit", "restore_marker",
                  "restore_service"} => disk.config = snap.config

(* Every managed file is the one of the snapshot or the new one.             *)
OldOrNew ==
  Installing =>
    /\ disk.binary \in {snap.binary, cmd.version}
    /\ disk.unit \in {snap.unit, cmd.version}
    /\ disk.marker.version \in {snap.marker.version, cmd.version}

(* What the installer takes for its own was not made by the operator first.  *)
Provenance ==
  /\ disk.config = Absent <=> history.creator = "nobody"
  /\ disk.marker.configOwned => history.creator # "operator"
  /\ Installing =>
       /\ snap.config = Absent <=> history.author = "nobody"
       /\ disk.marker.configOwned \/ snap.marker.configOwned => owned
       /\ owned => "operator" \notin {history.creator, history.author}
  /\ pc \in UninstallSteps => owned = disk.marker.configOwned
  /\ pc = "remove_config" => owned

(* A service that was stopped is not started before enable --now, and then   *)
(* from the build just installed.                                            *)
ServiceSoFar ==
  history.before.image = Absent =>
    /\ pc \in InstallSteps \ {"wait"} => svc.image = Absent
    /\ pc = "wait" => svc.image \in {Absent, disk.binary}

Facts == Running /\ ConfigSoFar /\ OldOrNew /\ Provenance /\ ServiceSoFar

IInv == IType /\ Stages /\ Facts

LEMMA InitStages == Init => Stages
  <1> SUFFICES ASSUME Init PROVE Stages
    OBVIOUS
  <1>1. Coherent(disk)
    <2>1. disk.binary = disk.unit /\ disk.binary \in {Absent, Foreign}
            /\ disk.marker = NoMarker
      BY DEF Init, CleanHost
    <2> QED
      BY <2>1, VersionsAssumption DEF Coherent, Marked
  <1>2. pc = "idle"
    BY DEF Init
  <1> QED
    BY <1>1, <1>2
    DEF Stages, SnapshotIsOurs, InstalledSoFar, RestoredSoFar, RemovedSoFar,
        CoherentUnlessDamaged, Installing, InstallSteps, RestoreSteps, ServiceSteps

(* A command ends well if the disk is then coherent or known to be damaged.  *)
LEMMA EndStages ==
  ASSUME IType, NEW result \in Outcomes, NEW damaged \in BOOLEAN,
         Return(result, damaged), ~damaged => Coherent(disk)'
  PROVE  Stages'
  <1>1. pc' = "idle" /\ history'.damaged = damaged
    BY ReturnType DEF IType, TypeOK
  <1> QED
    BY <1>1
    DEF Stages, SnapshotIsOurs, InstalledSoFar, RestoredSoFar, RemovedSoFar,
        CoherentUnlessDamaged, Installing, InstallSteps, RestoreSteps, ServiceSteps

(* What the stages say depends on the managed files and the command alone.   *)
LEMMA KeptStages ==
  ASSUME Stages, UNCHANGED <<pc, cmd, snap>>, history'.damaged = history.damaged,
         disk'.binary = disk.binary, disk'.unit = disk.unit,
         disk'.marker = disk.marker
  PROVE  Stages'
  BY DEF Stages, SnapshotIsOurs, InstalledSoFar, RestoredSoFar, RemovedSoFar,
         CoherentUnlessDamaged, Installing, Coherent, Ownership, Marked

(* A marker that names a build is one.                                       *)
LEMMA NamedMarker ==
  ASSUME NEW d, d.marker.version \in Versions
  PROVE  Marked(d)
  BY VersionsAssumption DEF Marked, NoMarker

LEMMA CompleteIsCoherent ==
  ASSUME NEW d, NEW v \in Versions,
         d.binary = v, d.unit = v, d.marker.version = v
  PROVE  Coherent(d)
  BY NamedMarker DEF Coherent

LEMMA NextStages == IType /\ IType' /\ Stages /\ [Next]_vars => Stages'
  <1> SUFFICES ASSUME IType, IType', Stages, [Next]_vars PROVE Stages'
    OBVIOUS
  <1>h. history \in History /\ history.damaged \in BOOLEAN
    BY HistoryUpdates DEF IType, TypeOK
  <1>d. disk \in Disk /\ snap \in Disk /\ disk' \in Disk
    BY DEF IType, TypeOK
  <1>o. \A r \in {"ok", "refused", "rolled_back", "rollback_failed", "failed",
                  "killed", "rolled_back_service_unknown"} : r \in Outcomes
    BY DEF Outcomes
  <1>c. pc \in {"idle", "preflight", "snapshot"} /\ ~history.damaged => Coherent(disk)
    BY DEF Stages, CoherentUnlessDamaged
  <1>1. CASE Commands
    <2>1. ASSUME NEW v \in Versions, NEW start \in BOOLEAN, Install(v, start)
          PROVE  Stages'
      BY <2>1
      DEF Install, Issue, Stages, SnapshotIsOurs, InstalledSoFar, RestoredSoFar,
          RemovedSoFar, CoherentUnlessDamaged, Installing, InstallSteps, RestoreSteps,
          ServiceSteps, Coherent, Marked
    <2>2. ASSUME NEW v \in Versions, NEW start \in BOOLEAN, Repair(v, start)
          PROVE  Stages'
      BY <2>1, <2>2 DEF Repair
    <2>3. CASE RepairRefuses
      <3>1. Coherent(disk)' = Coherent(disk)
        BY <2>3 DEF RepairRefuses, Coherent, Marked
      <3> QED
        BY <2>3, <3>1, <1>h, <1>o, <1>c, EndStages DEF RepairRefuses, Issue
    <2>4. ASSUME NEW purge \in BOOLEAN, Uninstall(purge) PROVE Stages'
      BY <2>4
      DEF Uninstall, Stages, SnapshotIsOurs, InstalledSoFar, RestoredSoFar, RemovedSoFar,
          CoherentUnlessDamaged, Installing, InstallSteps, RestoreSteps, ServiceSteps
    <2>5. CASE UninstallDoesNothing
      <3>1. Coherent(disk)' = Coherent(disk)
        BY <2>5 DEF UninstallDoesNothing, Coherent, Marked
      <3> QED
        BY <2>5, <3>1, <1>h, <1>o, <1>c, EndStages DEF UninstallDoesNothing, Issue
    <2> QED
      BY <1>1, <2>1, <2>2, <2>3, <2>4, <2>5 DEF Commands
  <1>2. CASE PreflightAccepts
    BY <1>2
    DEF PreflightAccepts, FileStep, Step, Goto, Stages, SnapshotIsOurs, InstalledSoFar,
        RestoredSoFar, RemovedSoFar, CoherentUnlessDamaged, Installing, InstallSteps,
        RestoreSteps, ServiceSteps, Coherent, Marked, Ownership
  <1>3. CASE PreflightRefuses
    <2>1. Coherent(disk)' = Coherent(disk)
      BY <1>3 DEF PreflightRefuses, Coherent, Marked
    <2> QED
      BY <1>3, <2>1, <1>h, <1>o, <1>c, EndStages DEF PreflightRefuses
  <1>4. CASE CaptureSnapshot
    <2>1. history'.damaged = history.damaged
      BY <1>4, <1>h DEF CaptureSnapshot, History
    <2>2. pc = "snapshot" /\ pc' = "identity" /\ snap' = disk
      BY <1>4 DEF CaptureSnapshot
    <2>3. SnapshotIsOurs'
      BY <2>2 DEF Stages, SnapshotIsOurs, Ownership, Marked
    <2>4. CoherentUnlessDamaged'
      BY <2>1, <2>2, <1>c DEF CoherentUnlessDamaged, Coherent, Marked
    <2> QED
      BY <2>2, <2>3, <2>4 DEF Stages, InstalledSoFar, RestoredSoFar, RemovedSoFar
  <1>5. CASE EnsureIdentity
    BY <1>5
    DEF EnsureIdentity, Step, Goto, Stages, SnapshotIsOurs, InstalledSoFar,
        RestoredSoFar, RemovedSoFar, CoherentUnlessDamaged, Installing, InstallSteps,
        RestoreSteps, ServiceSteps, Coherent, Marked
  <1>6. CASE CopyBinary \/ WriteConfig \/ WriteUnit \/ WriteMarker
    <2>1. /\ pc \in {"binary", "config", "unit", "marker"}
          /\ pc' \in {"config", "unit", "marker", "reload"}
          /\ UNCHANGED <<cmd, snap>>
      BY <1>6 DEF CopyBinary, WriteConfig, WriteUnit, WriteMarker, FileStep, Step, Goto
    <2>2. history'.damaged = history.damaged
      BY <1>6, <1>h DEF CopyBinary, WriteConfig, WriteUnit, WriteMarker, History
    <2>3. SnapshotIsOurs' /\ CoherentUnlessDamaged'
      BY <2>1, <2>2
      DEF Stages, SnapshotIsOurs, CoherentUnlessDamaged, Installing, InstallSteps,
          Coherent, Marked
    <2>4. InstalledSoFar'
      <3>1. CASE CopyBinary
        BY <3>1, <1>d DEF CopyBinary, FileStep, Step, Goto, InstalledSoFar, Disk
      <3>2. CASE WriteConfig
        BY <3>2, <1>d DEF WriteConfig, FileStep, Step, Goto, Stages, InstalledSoFar, Disk
      <3>3. CASE WriteUnit
        BY <3>3, <1>d DEF WriteUnit, FileStep, Step, Goto, Stages, InstalledSoFar, Disk
      <3>4. CASE WriteMarker
        BY <3>4, <1>d
        DEF WriteMarker, NewMarker, FileStep, Step, Goto, Stages, InstalledSoFar, Disk
      <3> QED
        BY <1>6, <3>1, <3>2, <3>3, <3>4
    <2> QED
      BY <2>1, <2>3, <2>4 DEF Stages, RestoredSoFar, RemovedSoFar
  <1>f. pc \in {"reload", "wait"} => Coherent(disk)
    <2>1. ASSUME pc \in {"reload", "wait"} PROVE cmd.version \in Versions
      BY <2>1 DEF IType, Arguments, InstallSteps
    <2> QED
      BY <2>1, CompleteIsCoherent DEF Stages, InstalledSoFar
  <1>7. CASE ReloadSystemd
    <2>1. CASE cmd.start
      BY <1>7, <2>1
      DEF ReloadSystemd, Goto, Stages, SnapshotIsOurs, InstalledSoFar, RestoredSoFar,
          RemovedSoFar, CoherentUnlessDamaged, Installing, InstallSteps, Coherent, Marked
    <2>2. CASE ~cmd.start
      <3>1. Coherent(disk)'
        BY <1>7, <1>f DEF ReloadSystemd, Coherent, Marked
      <3> QED
        BY <1>7, <2>2, <3>1, <1>o, EndStages DEF ReloadSystemd
    <2> QED
      BY <2>1, <2>2
  <1>8. CASE EnableNow
    BY <1>8
    DEF EnableNow, Step, Goto, Stages, SnapshotIsOurs, InstalledSoFar, RestoredSoFar,
        RemovedSoFar, CoherentUnlessDamaged, Installing, InstallSteps, Coherent, Marked
  <1>9. CASE WaitReady
    <2>1. Coherent(disk)'
      BY <1>9, <1>f DEF WaitReady, Activated, Coherent, Marked
    <2> QED
      BY <1>9, <2>1, <1>o, EndStages DEF WaitReady, Activated
  <1>10. CASE InstallStepFails
    <2>1. /\ pc \in InstallSteps /\ pc' = "restore_binary"
          /\ UNCHANGED <<disk, cmd, snap, history>>
      BY <1>10 DEF InstallStepFails, Step, Goto
    <2> QED
      BY <2>1
      DEF Stages, SnapshotIsOurs, InstalledSoFar, RestoredSoFar, RemovedSoFar,
          CoherentUnlessDamaged, Installing, RestoreSteps, Coherent, Marked
  <1>11. CASE RestoreBinary \/ RestoreConfig \/ RestoreUnit \/ RestoreMarker
    <2>1. /\ pc \in RestoreSteps
          /\ pc' \in {"restore_config", "restore_unit", "restore_marker", "restore_service"}
          /\ UNCHANGED <<cmd, snap>>
      BY <1>11
      DEF RestoreBinary, RestoreConfig, RestoreUnit, RestoreMarker, FileStep, Step, Goto,
          RestoreSteps
    <2>2. history'.damaged = history.damaged
      BY <1>11, <1>h DEF RestoreBinary, RestoreConfig, RestoreUnit, RestoreMarker, History
    <2>3. SnapshotIsOurs' /\ CoherentUnlessDamaged'
      BY <2>1, <2>2
      DEF Stages, SnapshotIsOurs, CoherentUnlessDamaged, Installing, RestoreSteps,
          ServiceSteps, Coherent, Marked
    <2>4. RestoredSoFar'
      <3>1. CASE RestoreBinary
        BY <3>1, <1>d DEF RestoreBinary, FileStep, Step, Goto, RestoredSoFar, Disk
      <3>2. CASE RestoreConfig
        BY <3>2, <1>d DEF RestoreConfig, FileStep, Step, Goto, Stages, RestoredSoFar, Disk
      <3>3. CASE RestoreUnit
        BY <3>3, <1>d DEF RestoreUnit, FileStep, Step, Goto, Stages, RestoredSoFar, Disk
      <3>4. CASE RestoreMarker
        BY <3>4, <1>d DEF RestoreMarker, FileStep, Step, Goto, Stages, RestoredSoFar, Disk
      <3> QED
        BY <1>11, <3>1, <3>2, <3>3, <3>4
    <2> QED
      BY <2>1, <2>3, <2>4 DEF Stages, InstalledSoFar, RemovedSoFar
  <1>12. CASE RestoreFails
    <2>1. /\ pc \in RestoreSteps /\ pc' = "restore_service_after_error"
          /\ UNCHANGED <<disk, cmd, snap, history>>
      BY <1>12 DEF RestoreFails, FileStep, Step, Goto
    <2> QED
      BY <2>1
      DEF Stages, SnapshotIsOurs, InstalledSoFar, RestoredSoFar, RemovedSoFar,
          CoherentUnlessDamaged, Installing, ServiceSteps, Coherent, Marked
  <1>13. CASE RestoreService
    <2>1. pc = "restore_service" /\ ~history.damaged => Coherent(disk)'
      BY <1>13
      DEF RestoreService, Stages, RestoredSoFar, CoherentUnlessDamaged, Installing,
          ServiceSteps, Coherent, Marked
    <2>2. \/ Return("rollback_failed", TRUE)
          \/ /\ pc = "restore_service"
             /\ \/ Return("rolled_back", history.damaged)
                \/ Return("rolled_back_service_unknown", history.damaged)
      BY <1>13 DEF RestoreService
    <2> QED
      BY <2>1, <2>2, <1>h, <1>o, EndStages
  <1>14. CASE DisableService
    BY <1>14
    DEF DisableService, Step, Goto, Stages, SnapshotIsOurs, InstalledSoFar, RestoredSoFar,
        RemovedSoFar, CoherentUnlessDamaged, Installing, InstallSteps, RestoreSteps,
        ServiceSteps
  <1>15. CASE RemoveBinary \/ RemoveUnit \/ RemoveConfig
    <2>1. pc' \in {"remove_unit", "remove_config", "remove_marker"}
      BY <1>15 DEF RemoveBinary, RemoveUnit, RemoveConfig, FileStep, Step, Goto
    <2>2. RemovedSoFar'
      BY <1>15, <1>d
      DEF RemoveBinary, RemoveUnit, RemoveConfig, FileStep, Step, Goto, Stages,
          RemovedSoFar, Disk
    <2> QED
      BY <2>1, <2>2
      DEF Stages, SnapshotIsOurs, InstalledSoFar, RestoredSoFar, CoherentUnlessDamaged,
          Installing, InstallSteps, RestoreSteps, ServiceSteps
  <1>16. CASE RemoveMarker
    <2>1. /\ disk.binary = Absent /\ disk.unit = Absent
          /\ disk' = [disk EXCEPT !.marker = NoMarker]
      BY <1>16 DEF RemoveMarker, Stages, RemovedSoFar
    <2>2. disk'.binary = Absent /\ disk'.unit = Absent /\ disk'.marker = NoMarker
      BY <2>1, <1>d DEF Disk
    <2>3. Coherent(disk)'
      BY <2>2, VersionsAssumption DEF Coherent, Marked
    <2> QED
      BY <1>16, <2>3, <1>o, EndStages DEF RemoveMarker
  <1>17. CASE RemoveFails
    BY <1>17, <1>o, EndStages DEF RemoveFails
  <1>18. CASE Killed
    BY <1>18, <1>o, EndStages DEF Killed
  <1>19. CASE Reboot
    <2>1. CASE pc = "idle"
      BY <1>19, <2>1, KeptStages DEF Reboot, Crash
    <2>2. CASE pc # "idle"
      BY <1>19, <2>2, <1>o, EndStages DEF Reboot
    <2> QED
      BY <2>1, <2>2
  <1>20. CASE ServiceExits
    BY <1>20, KeptStages DEF ServiceExits
  <1>21. CASE OperatorWritesConfig \/ OperatorDeletesConfig \/ OperatorStopsService
    <2>1. history'.damaged = history.damaged
      BY <1>21, <1>h
      DEF OperatorWritesConfig, OperatorDeletesConfig, OperatorStopsService, History
    <2>2. disk'.binary = disk.binary /\ disk'.unit = disk.unit
            /\ disk'.marker = disk.marker
      BY <1>21, <1>d
      DEF OperatorWritesConfig, OperatorDeletesConfig, OperatorStopsService, Disk
    <2> QED
      BY <1>21, <2>1, <2>2, KeptStages
      DEF OperatorWritesConfig, OperatorDeletesConfig, OperatorStopsService, OperatorActs
  <1>22. CASE UNCHANGED vars
    BY <1>22, KeptStages DEF vars
  <1> QED
    BY <1>1, <1>2, <1>3, <1>4, <1>5, <1>6, <1>7, <1>8, <1>9, <1>10, <1>11, <1>12,
       <1>13, <1>14, <1>15, <1>16, <1>17, <1>18, <1>19, <1>20, <1>21, <1>22
    DEF Next, Progress, InstallProgress, RollbackProgress, UninstallProgress, Environment

(* The sets of stages have nothing in common.                                *)
LEMMA StagesApart ==
  /\ \A step \in InstallSteps \cup RestoreSteps \cup ServiceSteps :
       step \notin UninstallSteps \cup {"idle", "preflight", "snapshot"}
  /\ \A step \in UninstallSteps : step \notin {"idle", "preflight", "snapshot"}
  BY DEF InstallSteps, RestoreSteps, ServiceSteps, UninstallSteps

(* Facts of a state where no command has taken its snapshot.                 *)
LEMMA BeforeSnapshot ==
  ASSUME pc' \in {"idle", "preflight", "snapshot"}, pc' # "idle" => cmd'.op = "install",
         disk'.config = Absent <=> history'.creator = "nobody",
         disk'.marker.configOwned => history'.creator # "operator"
  PROVE  Facts'
  BY StagesApart
  DEF Facts, Running, ConfigSoFar, OldOrNew, Provenance, ServiceSoFar, Installing,
      InstallSteps, UninstallSteps

LEMMA InitFacts == Init => Facts
  <1> SUFFICES ASSUME Init PROVE Facts
    OBVIOUS
  <1>1. pc = "idle" /\ history.creator = IF disk.config = Absent THEN "nobody" ELSE "operator"
    BY DEF Init, Forgotten
  <1>2. disk.marker = NoMarker
    BY DEF Init, CleanHost
  <1>3. ~disk.marker.configOwned
    BY <1>2 DEF NoMarker
  <1> QED
    BY <1>1, <1>3
    DEF Facts, Running, ConfigSoFar, OldOrNew, Provenance, ServiceSoFar, Installing,
        InstallSteps, RestoreSteps, ServiceSteps, UninstallSteps

(* The end of a command that leaves the environment file.                    *)
LEMMA EndFacts ==
  ASSUME IType, Facts, NEW result \in Outcomes, NEW damaged \in BOOLEAN,
         Return(result, damaged), disk' = disk \/ disk' = [disk EXCEPT !.marker = NoMarker]
  PROVE  Facts'
  <1>1. pc' = "idle" /\ history'.creator = history.creator
    BY DEF Return, Forgotten
  <1>2. disk'.config = disk.config
    BY DEF IType, TypeOK, Disk
  <1>3. disk'.marker = disk.marker \/ disk'.marker = NoMarker
    BY DEF IType, TypeOK, Disk
  <1>4. disk'.marker.configOwned => disk.marker.configOwned
    BY <1>3 DEF NoMarker
  <1> QED
    BY <1>1, <1>2, <1>4, BeforeSnapshot DEF Facts, Provenance

(* A step to another stage that changes no file, service or history.         *)
LEMMA MoveFacts ==
  ASSUME Facts, UNCHANGED <<disk, svc, cmd, snap, owned, history>>,
         \/ pc \in InstallSteps /\ pc' = "restore_binary"
         \/ pc = "reload" /\ pc' = "enable"
         \/ pc = "identity" /\ pc' = "binary"
         \/ pc \in RestoreSteps /\ pc' = "restore_service_after_error"
  PROVE  Facts'
  BY DEF Facts, Running, ConfigSoFar, OldOrNew, Provenance, ServiceSoFar, Installing,
         InstallSteps, RestoreSteps, ServiceSteps, UninstallSteps

LEMMA NextFacts == IType /\ IType' /\ Stages /\ Facts /\ [Next]_vars => Facts'
  <1> SUFFICES ASSUME IType, IType', Stages, Facts, [Next]_vars PROVE Facts'
    OBVIOUS
  <1>h. history \in History /\ history.damaged \in BOOLEAN
    BY HistoryUpdates DEF IType, TypeOK
  <1>d. disk \in Disk /\ snap \in Disk
    BY DEF IType, TypeOK
  <1>o. \A r \in {"ok", "refused", "rolled_back", "rollback_failed", "failed",
                  "killed", "rolled_back_service_unknown"} : r \in Outcomes
    BY DEF Outcomes
  <1>p. /\ disk.config = Absent <=> history.creator = "nobody"
        /\ disk.marker.configOwned => history.creator # "operator"
    BY DEF Facts, Provenance
  <1>1. CASE Commands
    <2>1. ASSUME NEW v \in Versions, NEW start \in BOOLEAN, Install(v, start)
          PROVE  Facts'
      BY <2>1, <1>p, BeforeSnapshot DEF Install, InstallCommand
    <2>2. ASSUME NEW v \in Versions, NEW start \in BOOLEAN, Repair(v, start)
          PROVE  Facts'
      BY <2>1, <2>2 DEF Repair
    <2>3. CASE RepairRefuses
      BY <2>3, <1>h, <1>o, EndFacts DEF RepairRefuses
    <2>4. ASSUME NEW purge \in BOOLEAN, Uninstall(purge) PROVE Facts'
      <3>1. /\ pc' = "disable" /\ cmd'.op = "uninstall" /\ owned' = disk.marker.configOwned
            /\ Marked(disk) /\ UNCHANGED <<disk, history>>
        BY <2>4 DEF Uninstall, Ownership
      <3> QED
        BY <3>1, <1>p
        DEF Facts, Running, ConfigSoFar, OldOrNew, Provenance, ServiceSoFar, Installing,
            InstallSteps, RestoreSteps, ServiceSteps, Marked
    <2>5. CASE UninstallDoesNothing
      BY <2>5, <1>h, <1>o, EndFacts DEF UninstallDoesNothing
    <2> QED
      BY <1>1, <2>1, <2>2, <2>3, <2>4, <2>5 DEF Commands
  <1>2. CASE PreflightAccepts
    <2>1. cmd.op = "install"
      BY <1>2 DEF PreflightAccepts, FileStep, Step, Facts, Running
    <2> QED
      BY <1>2, <2>1, <1>p, BeforeSnapshot DEF PreflightAccepts, FileStep, Step, Goto
  <1>3. CASE PreflightRefuses
    BY <1>3, <1>h, <1>o, EndFacts DEF PreflightRefuses
  <1>4. CASE CaptureSnapshot
    <2>1. /\ pc = "snapshot" /\ pc' = "identity" /\ snap' = disk
          /\ owned' = IF Marked(disk) THEN disk.marker.configOwned ELSE disk.config = Absent
          /\ UNCHANGED <<disk, identity, svc, cmd>>
      BY <1>4 DEF CaptureSnapshot
    <2>2. /\ history'.creator = history.creator /\ history'.author = history.creator
          /\ history'.before = svc
      BY <1>4, <1>h DEF CaptureSnapshot, History
    <2>3. cmd.version \in Versions /\ cmd.op = "install"
      BY <2>1 DEF IType, Arguments, Facts, Running
    <2>4. disk.marker.configOwned => owned'
      BY <2>1 DEF Marked, NoMarker
    <2>5. owned' => history.creator # "operator"
      BY <2>1, <1>p
    <2> QED
      BY <2>1, <2>2, <2>3, <2>4, <2>5, <1>p
      DEF Facts, Running, ConfigSoFar, OldOrNew, Provenance, ServiceSoFar, Installing,
          InstallSteps, RestoreSteps, ServiceSteps, UninstallSteps
  <1>5. CASE EnsureIdentity
    BY <1>5, MoveFacts DEF EnsureIdentity, Step, Goto
  <1>6. CASE CopyBinary
    <2>1. /\ pc = "binary" /\ pc' = (IF snap.config = Absent THEN "config" ELSE "unit")
          /\ disk' = [disk EXCEPT !.binary = cmd.version]
          /\ UNCHANGED <<svc, cmd, snap, owned, history>>
      BY <1>6 DEF CopyBinary, FileStep, Step, Goto
    <2>2. /\ disk'.binary = cmd.version /\ disk'.unit = disk.unit
          /\ disk'.marker = disk.marker /\ disk'.config = disk.config
      BY <2>1, <1>d DEF Disk
    <2> QED
      BY <2>1, <2>2
      DEF Facts, Running, ConfigSoFar, OldOrNew, Provenance, ServiceSoFar, Installing,
          InstallSteps, RestoreSteps, ServiceSteps, UninstallSteps
  <1>7. CASE WriteConfig
    <2>1. /\ pc = "config" /\ pc' = "unit"
          /\ disk' = [disk EXCEPT !.config = DefaultConfig]
          /\ history' = [history EXCEPT !.creator = "installer"]
          /\ UNCHANGED <<svc, cmd, snap, owned>>
      BY <1>7 DEF WriteConfig, FileStep, Step, Goto
    <2>2. /\ disk'.binary = disk.binary /\ disk'.unit = disk.unit
          /\ disk'.marker = disk.marker /\ disk'.config = DefaultConfig
      BY <2>1, <1>d DEF Disk
    <2>3. /\ history'.creator = "installer" /\ history'.author = history.author
          /\ history'.touched = history.touched /\ history'.before = history.before
      BY <2>1, <1>h DEF History
    <2>4. DefaultConfig # Absent
      BY ConfigAssumption
    <2> QED
      BY <2>1, <2>2, <2>3, <2>4
      DEF Facts, Running, ConfigSoFar, OldOrNew, Provenance, ServiceSoFar, Installing,
          InstallSteps, RestoreSteps, ServiceSteps, UninstallSteps
  <1>8. CASE WriteUnit
    <2>1. /\ pc = "unit" /\ pc' = "marker"
          /\ disk' = [disk EXCEPT !.unit = cmd.version]
          /\ UNCHANGED <<svc, cmd, snap, owned, history>>
      BY <1>8 DEF WriteUnit, FileStep, Step, Goto
    <2>2. /\ disk'.unit = cmd.version /\ disk'.binary = disk.binary
          /\ disk'.marker = disk.marker /\ disk'.config = disk.config
      BY <2>1, <1>d DEF Disk
    <2> QED
      BY <2>1, <2>2
      DEF Facts, Running, ConfigSoFar, OldOrNew, Provenance, ServiceSoFar, Installing,
          InstallSteps, RestoreSteps, ServiceSteps, UninstallSteps
  <1>9. CASE WriteMarker
    <2>1. /\ pc = "marker" /\ pc' = "reload"
          /\ disk' = [disk EXCEPT !.marker = NewMarker(cmd.version)]
          /\ UNCHANGED <<svc, cmd, snap, owned, history>>
      BY <1>9 DEF WriteMarker, FileStep, Step, Goto
    <2>2. /\ disk'.marker.version = cmd.version /\ disk'.marker.configOwned = owned
          /\ disk'.binary = disk.binary /\ disk'.unit = disk.unit
          /\ disk'.config = disk.config
      BY <2>1, <1>d DEF Disk, NewMarker
    <2> QED
      BY <2>1, <2>2
      DEF Facts, Running, ConfigSoFar, OldOrNew, Provenance, ServiceSoFar, Installing,
          InstallSteps, RestoreSteps, ServiceSteps, UninstallSteps
  <1>10. CASE ReloadSystemd
    <2>1. CASE cmd.start
      BY <1>10, <2>1, MoveFacts DEF ReloadSystemd, Goto
    <2>2. CASE ~cmd.start
      BY <1>10, <2>2, <1>o, EndFacts DEF ReloadSystemd
    <2> QED
      BY <2>1, <2>2
  <1>11. CASE EnableNow
    <2>1. /\ pc = "enable" /\ pc' = "wait"
          /\ svc'.image = (IF svc.image = Absent THEN Runnable(disk) ELSE svc.image)
          /\ UNCHANGED <<disk, cmd, snap, owned, history>>
      BY <1>11 DEF EnableNow, Step, Goto
    <2>2. Runnable(disk) \in {Absent, disk.binary}
      BY DEF Runnable
    <2> QED
      BY <2>1, <2>2
      DEF Facts, Running, ConfigSoFar, OldOrNew, Provenance, ServiceSoFar, Installing,
          InstallSteps, RestoreSteps, ServiceSteps, UninstallSteps
  <1>12. CASE WaitReady
    BY <1>12, <1>o, EndFacts DEF WaitReady, Activated
  <1>13. CASE InstallStepFails
    <2>1. /\ pc \in InstallSteps /\ pc' = "restore_binary"
          /\ UNCHANGED <<disk, cmd, snap, owned, history>>
      BY <1>13 DEF InstallStepFails, Step, Goto
    <2> QED
      BY <2>1
      DEF Facts, Running, ConfigSoFar, OldOrNew, Provenance, ServiceSoFar, Installing,
          InstallSteps, RestoreSteps, ServiceSteps, UninstallSteps
  <1>14. CASE RestoreBinary
    <2>1. /\ pc = "restore_binary" /\ pc' = "restore_config"
          /\ disk' = [disk EXCEPT !.binary = snap.binary]
          /\ UNCHANGED <<svc, cmd, snap, owned, history>>
      BY <1>14 DEF RestoreBinary, FileStep, Step, Goto
    <2>2. /\ disk'.binary = snap.binary /\ disk'.unit = disk.unit
          /\ disk'.marker = disk.marker /\ disk'.config = disk.config
      BY <2>1, <1>d DEF Disk
    <2> QED
      BY <2>1, <2>2
      DEF Facts, Running, ConfigSoFar, OldOrNew, Provenance, ServiceSoFar, Installing,
          InstallSteps, RestoreSteps, ServiceSteps, UninstallSteps
  <1>15. CASE RestoreConfig
    <2>1. /\ pc = "restore_config" /\ pc' = "restore_unit"
          /\ disk' = [disk EXCEPT !.config = snap.config]
          /\ history' = [history EXCEPT !.creator = history.author]
          /\ UNCHANGED <<svc, cmd, snap, owned>>
      BY <1>15 DEF RestoreConfig, FileStep, Step, Goto
    <2>2. /\ disk'.binary = disk.binary /\ disk'.unit = disk.unit
          /\ disk'.marker = disk.marker /\ disk'.config = snap.config
      BY <2>1, <1>d DEF Disk
    <2>3. /\ history'.creator = history.author /\ history'.author = history.author
          /\ history'.touched = history.touched /\ history'.before = history.before
      BY <2>1, <1>h DEF History
    <2> QED
      BY <2>1, <2>2, <2>3
      DEF Facts, Running, ConfigSoFar, OldOrNew, Provenance, ServiceSoFar, Installing,
          InstallSteps, RestoreSteps, ServiceSteps, UninstallSteps
  <1>16. CASE RestoreUnit
    <2>1. /\ pc = "restore_unit" /\ pc' = "restore_marker"
          /\ disk' = [disk EXCEPT !.unit = snap.unit]
          /\ UNCHANGED <<svc, cmd, snap, owned, history>>
      BY <1>16 DEF RestoreUnit, FileStep, Step, Goto
    <2>2. /\ disk'.unit = snap.unit /\ disk'.binary = disk.binary
          /\ disk'.marker = disk.marker /\ disk'.config = disk.config
      BY <2>1, <1>d DEF Disk
    <2> QED
      BY <2>1, <2>2
      DEF Facts, Running, ConfigSoFar, OldOrNew, Provenance, ServiceSoFar, Installing,
          InstallSteps, RestoreSteps, ServiceSteps, UninstallSteps
  <1>17. CASE RestoreMarker
    <2>1. /\ pc = "restore_marker" /\ pc' = "restore_service"
          /\ disk' = [disk EXCEPT !.marker = snap.marker]
          /\ UNCHANGED <<svc, cmd, snap, owned, history>>
      BY <1>17 DEF RestoreMarker, FileStep, Step, Goto
    <2>2. /\ disk'.marker = snap.marker /\ disk'.binary = disk.binary
          /\ disk'.unit = disk.unit /\ disk'.config = disk.config
      BY <2>1, <1>d DEF Disk
    <2> QED
      BY <2>1, <2>2
      DEF Facts, Running, ConfigSoFar, OldOrNew, Provenance, ServiceSoFar, Installing,
          InstallSteps, RestoreSteps, ServiceSteps, UninstallSteps
  <1>18. CASE RestoreFails
    BY <1>18, MoveFacts DEF RestoreFails, FileStep, Step, Goto
  <1>19. CASE RestoreService
    <2>1. \E r \in Outcomes, b \in BOOLEAN : Return(r, b)
      BY <1>19, <1>h, <1>o DEF RestoreService
    <2> QED
      BY <1>19, <2>1, EndFacts DEF RestoreService
  <1>20. CASE DisableService
    <2>1. /\ pc = "disable" /\ pc' = "remove_binary"
          /\ UNCHANGED <<disk, cmd, snap, owned, history>>
      BY <1>20 DEF DisableService, Step, Goto
    <2> QED
      BY <2>1
      DEF Facts, Running, ConfigSoFar, OldOrNew, Provenance, ServiceSoFar, Installing,
          InstallSteps, RestoreSteps, ServiceSteps, UninstallSteps
  <1>21. CASE RemoveBinary \/ RemoveUnit
    <2>1. /\ pc \in {"remove_binary", "remove_unit"}
          /\ pc' \in {"remove_unit", "remove_config", "remove_marker"}
          /\ pc' = "remove_config" => owned
          /\ disk' \in {[disk EXCEPT !.binary = Absent], [disk EXCEPT !.unit = Absent]}
          /\ UNCHANGED <<cmd, snap, owned, history>>
      BY <1>21 DEF RemoveBinary, RemoveUnit, FileStep, Step, Goto
    <2>2. disk'.marker = disk.marker /\ disk'.config = disk.config
      BY <2>1, <1>d DEF Disk
    <2> QED
      BY <2>1, <2>2
      DEF Facts, Running, ConfigSoFar, OldOrNew, Provenance, ServiceSoFar, Installing,
          InstallSteps, RestoreSteps, ServiceSteps, UninstallSteps, Marked
  <1>22. CASE RemoveConfig
    <2>1. /\ pc = "remove_config" /\ pc' = "remove_marker"
          /\ disk' = [disk EXCEPT !.config = Absent]
          /\ history' = [history EXCEPT !.creator = "nobody"]
          /\ UNCHANGED <<cmd, snap, owned>>
      BY <1>22 DEF RemoveConfig, FileStep, Step, Goto
    <2>2. /\ disk'.marker = disk.marker /\ disk'.config = Absent
          /\ history'.creator = "nobody"
      BY <2>1, <1>d, <1>h DEF Disk, History
    <2> QED
      BY <2>1, <2>2
      DEF Facts, Running, ConfigSoFar, OldOrNew, Provenance, ServiceSoFar, Installing,
          InstallSteps, RestoreSteps, ServiceSteps, UninstallSteps, Marked
  <1>23. CASE RemoveMarker
    BY <1>23, <1>o, EndFacts DEF RemoveMarker
  <1>24. CASE RemoveFails
    BY <1>24, <1>o, EndFacts DEF RemoveFails
  <1>25. CASE Killed
    BY <1>25, <1>o, EndFacts DEF Killed, Crash
  <1>26. CASE Reboot
    <2>1. CASE pc = "idle"
      BY <1>26, <2>1, <1>p, BeforeSnapshot DEF Reboot, Crash
    <2>2. CASE pc # "idle"
      BY <1>26, <2>2, <1>o, EndFacts DEF Reboot, Crash
    <2> QED
      BY <2>1, <2>2
  <1>27. CASE ServiceExits
    <2>1. /\ svc.image # Absent /\ svc'.image = Runnable(disk)
          /\ UNCHANGED <<disk, pc, cmd, snap, owned, history>>
      BY <1>27 DEF ServiceExits, IType, TypeOK
    <2>2. Runnable(disk) \in {Absent, disk.binary}
      BY DEF Runnable
    <2> QED
      BY <2>1, <2>2
      DEF Facts, Running, ConfigSoFar, OldOrNew, Provenance, ServiceSoFar, Installing, Marked
  <1>28. CASE OperatorWritesConfig \/ OperatorDeletesConfig
    <2>1. /\ disk'.binary = disk.binary /\ disk'.unit = disk.unit
          /\ disk'.marker = disk.marker
          /\ UNCHANGED <<svc, pc, cmd, snap, owned>>
      BY <1>28, <1>d DEF OperatorWritesConfig, OperatorDeletesConfig, OperatorActs, Disk
    <2>2. /\ history'.touched = (pc # "idle") /\ history'.author = history.author
          /\ history'.before = history.before
      BY <1>28, <1>h DEF OperatorWritesConfig, OperatorDeletesConfig, History
    <2>3. /\ disk'.config = Absent <=> history'.creator = "nobody"
          /\ history'.creator = "operator" =>
               history.creator = "operator" \/ (~Marked(disk) /\ ~Installing)
      <3>1. CASE OperatorWritesConfig
        <4>1. disk'.config \in Edits /\ disk'.config # Absent
          BY <3>1, <1>d, ConfigAssumption DEF OperatorWritesConfig, Disk
        <4>2. history'.creator = IF disk.config # Absent THEN history.creator
                                 ELSE IF Marked(disk) \/ Installing THEN "operator_later"
                                 ELSE "operator"
          BY <3>1, <1>h DEF OperatorWritesConfig, History
        <4> QED
          BY <4>1, <4>2, <1>p
      <3>2. CASE OperatorDeletesConfig
        BY <3>2, <1>d, <1>h DEF OperatorDeletesConfig, Disk, History
      <3> QED
        BY <1>28, <3>1, <3>2
    <2>4. Marked(disk)' = Marked(disk) /\ Installing' = Installing
      BY <2>1 DEF Marked, Installing
    <2>5. ~Marked(disk) => ~disk.marker.configOwned
      BY DEF Marked, NoMarker
    <2>6. pc = "idle" \/ history'.touched
      BY <2>2
    <2>7. Running' /\ OldOrNew'
      BY <2>1, <2>4 DEF Facts, Running, OldOrNew
    <2>8. ConfigSoFar'
      BY <2>1, <2>6 DEF Facts, ConfigSoFar, Installing, InstallSteps, RestoreSteps, ServiceSteps
    <2>9. Provenance'
      BY <2>1, <2>2, <2>3, <2>4, <2>5 DEF Facts, Provenance
    <2>10. ServiceSoFar'
      BY <2>1, <2>2 DEF Facts, ServiceSoFar
    <2> QED
      BY <2>7, <2>8, <2>9, <2>10 DEF Facts
  <1>29. CASE OperatorStopsService
    <2>1. svc'.image = Absent /\ UNCHANGED <<disk, pc, cmd, snap, owned, history>>
      BY <1>29 DEF OperatorStopsService, OperatorActs, IType, TypeOK
    <2> QED
      BY <2>1
      DEF Facts, Running, ConfigSoFar, OldOrNew, Provenance, ServiceSoFar, Installing, Marked
  <1>30. CASE UNCHANGED vars
    BY <1>30
    DEF vars, Facts, Running, ConfigSoFar, OldOrNew, Provenance, ServiceSoFar, Installing, Marked
  <1> QED
    BY <1>1, <1>2, <1>3, <1>4, <1>5, <1>6, <1>7, <1>8, <1>9, <1>10, <1>11, <1>12,
       <1>13, <1>14, <1>15, <1>16, <1>17, <1>18, <1>19, <1>20, <1>21, <1>22, <1>23,
       <1>24, <1>25, <1>26, <1>27, <1>28, <1>29, <1>30
    DEF Next, Progress, InstallProgress, RollbackProgress, UninstallProgress, Environment

(* The inductive invariant holds of every reachable state.                   *)
THEOREM Invariant == Spec => []IInv
  <1>1. Init => IInv
    BY InitType, InitStages, InitFacts DEF IInv
  <1>2. IInv /\ [Next]_vars => IInv'
    BY NextType, NextStages, NextFacts DEF IInv
  <1> QED
    BY <1>1, <1>2, PTL DEF Spec

(* At rest, and unless a reported damage is not repaired, the managed files   *)
(* are of one build.                                                          *)
THEOREM OneVersion == Spec => []NoMixedVersions
  <1>1. IInv => NoMixedVersions
    BY DEF IInv, Stages, CoherentUnlessDamaged, NoMixedVersions
  <1> QED
    BY <1>1, Invariant, PTL

(* No step takes a managed host out of the installer's hands: the marker is   *)
(* the last file a rollback or an uninstall touches.                          *)
THEOREM StaysManageable == Spec => ManagedNeverBecomesExternal
  <1>1. ASSUME IInv, [Next]_vars, Ownership(disk) = "managed"
        PROVE  Ownership(disk)' # "external"
    <2>1. Marked(disk) /\ disk \in Disk /\ disk' \in Disk
      BY <1>1, NextType DEF IInv, IType, TypeOK, Ownership
    <2>2. disk'.marker = disk.marker => Ownership(disk)' # "external"
      BY <2>1 DEF Ownership, Marked
    <2>3. CASE WriteMarker
      <3>1. cmd.version \in Versions
        BY <1>1, <2>3
        DEF WriteMarker, FileStep, Step, IInv, IType, Arguments, InstallSteps
      <3>2. disk'.marker.version = cmd.version
        BY <2>1, <2>3 DEF WriteMarker, FileStep, NewMarker, Disk
      <3> QED
        BY <3>1, <3>2, NamedMarker DEF Ownership, Marked
    <2>4. CASE RestoreMarker
      <3>1. /\ disk.binary = snap.binary /\ disk.unit = snap.unit
            /\ ~Marked(snap) => snap.binary = Absent /\ snap.unit = Absent
        BY <1>1, <2>4
        DEF RestoreMarker, FileStep, Step, IInv, Stages, RestoredSoFar, SnapshotIsOurs,
            Installing, RestoreSteps
      <3>2. /\ disk'.marker = snap.marker
            /\ disk'.binary = disk.binary /\ disk'.unit = disk.unit
        BY <2>1, <2>4 DEF RestoreMarker, FileStep, Disk
      <3> QED
        BY <3>1, <3>2 DEF Ownership, Marked
    <2>5. CASE RemoveMarker
      <3>1. disk.binary = Absent /\ disk.unit = Absent
        BY <1>1, <2>5 DEF RemoveMarker, IInv, Stages, RemovedSoFar
      <3>2. disk'.binary = disk.binary /\ disk'.unit = disk.unit
        BY <2>1, <2>5 DEF RemoveMarker, Disk
      <3> QED
        BY <3>1, <3>2 DEF Ownership
    <2>6. CASE CopyBinary \/ WriteConfig \/ WriteUnit \/ RestoreBinary \/ RestoreConfig
                \/ RestoreUnit \/ RemoveBinary \/ RemoveUnit \/ RemoveConfig
      BY <2>1, <2>2, <2>6
      DEF CopyBinary, WriteConfig, WriteUnit, RestoreBinary, RestoreConfig, RestoreUnit,
          RemoveBinary, RemoveUnit, RemoveConfig, FileStep, Disk
    <2>7. CASE OperatorWritesConfig \/ OperatorDeletesConfig
      BY <2>1, <2>2, <2>7 DEF OperatorWritesConfig, OperatorDeletesConfig, Disk
    <2>8. CASE UNCHANGED disk
      BY <2>2, <2>8
    <2>9. CASE Commands
      BY <2>8, <2>9
      DEF Commands, Install, Repair, RepairRefuses, Uninstall, UninstallDoesNothing
    <2>10. CASE PreflightAccepts \/ PreflightRefuses \/ CaptureSnapshot \/ EnsureIdentity
                 \/ ReloadSystemd \/ EnableNow \/ WaitReady \/ InstallStepFails
      BY <2>8, <2>10
      DEF PreflightAccepts, PreflightRefuses, CaptureSnapshot, EnsureIdentity,
          ReloadSystemd, EnableNow, WaitReady, Activated, InstallStepFails, FileStep
    <2>11. CASE RestoreFails \/ RestoreService \/ DisableService \/ RemoveFails
      BY <2>8, <2>11
      DEF RestoreFails, RestoreService, DisableService, RemoveFails, FileStep
    <2>12. CASE Killed \/ Reboot \/ ServiceExits \/ OperatorStopsService
      BY <2>8, <2>12 DEF Killed, Reboot, Crash, ServiceExits, OperatorStopsService
    <2>13. CASE UNCHANGED vars
      BY <2>8, <2>13 DEF vars
    <2> QED
      BY <1>1, <2>3, <2>4, <2>5, <2>6, <2>7, <2>9, <2>10, <2>11, <2>12, <2>13
      DEF Next, Progress, InstallProgress, RollbackProgress, UninstallProgress, Environment
  <1>2. IInv /\ [Next]_vars
          => [Ownership(disk) = "managed" => Ownership(disk)' # "external"]_vars
    BY <1>1
  <1> QED
    BY <1>2, Invariant, PTL DEF Spec, ManagedNeverBecomesExternal

-----------------------------------------------------------------------------
(* The steps after which a running command no longer runs.                   *)
LEMMA HowCommandsEnd ==
  ASSUME [Next]_vars, pc # "idle", pc' = "idle"
  PROVE  \/ PreflightRefuses \/ (ReloadSystemd /\ ~cmd.start) \/ WaitReady
         \/ RestoreService \/ RemoveMarker \/ RemoveFails \/ Killed \/ Reboot
  <1>1. ~Commands
    BY DEF Commands, Install, Repair, RepairRefuses, Uninstall, UninstallDoesNothing, Issue
  <1>2. ~(PreflightAccepts \/ CaptureSnapshot \/ EnsureIdentity \/ CopyBinary \/ WriteConfig
          \/ WriteUnit \/ WriteMarker \/ EnableNow \/ InstallStepFails)
    BY DEF PreflightAccepts, CaptureSnapshot, EnsureIdentity, CopyBinary, WriteConfig,
           WriteUnit, WriteMarker, EnableNow, InstallStepFails, FileStep, Step, Goto
  <1>3. ReloadSystemd => ~cmd.start
    BY DEF ReloadSystemd, Goto
  <1>4. ~(RestoreBinary \/ RestoreConfig \/ RestoreUnit \/ RestoreMarker \/ RestoreFails)
    BY DEF RestoreBinary, RestoreConfig, RestoreUnit, RestoreMarker, RestoreFails,
           FileStep, Step, Goto
  <1>5. ~(DisableService \/ RemoveBinary \/ RemoveUnit \/ RemoveConfig)
    BY DEF DisableService, RemoveBinary, RemoveUnit, RemoveConfig, FileStep, Step, Goto
  <1>6. ~(ServiceExits \/ OperatorWritesConfig \/ OperatorDeletesConfig \/ OperatorStopsService)
    BY DEF ServiceExits, OperatorWritesConfig, OperatorDeletesConfig, OperatorStopsService,
           OperatorActs
  <1>7. ~UNCHANGED vars
    BY DEF vars
  <1> QED
    BY <1>1, <1>2, <1>3, <1>4, <1>5, <1>6, <1>7
    DEF Next, Progress, InstallProgress, RollbackProgress, UninstallProgress, Environment

(* A rollback that reports no error has restored every file and was obeyed.  *)
LEMMA RolledBack ==
  ASSUME IInv, [Next]_vars, Ends("rolled_back")
  PROVE  /\ disk' = disk
         /\ disk.binary = snap.binary /\ disk.unit = snap.unit /\ disk.marker = snap.marker
         /\ history.touched \/ disk.config = snap.config
         /\ svc' \in RestoredService
  <1>1. pc # "idle" /\ pc' = "idle" /\ outcome' = "rolled_back"
    BY DEF Ends
  <1>2. ~(PreflightRefuses \/ (ReloadSystemd /\ ~cmd.start) \/ WaitReady \/ RemoveMarker
          \/ RemoveFails \/ Killed \/ Reboot)
    BY <1>1
    DEF PreflightRefuses, ReloadSystemd, WaitReady, Activated, RemoveMarker, RemoveFails,
        Killed, Reboot, Return
  <1>3. RestoreService
    <2>1. \/ PreflightRefuses \/ (ReloadSystemd /\ ~cmd.start) \/ WaitReady
          \/ RestoreService \/ RemoveMarker \/ RemoveFails \/ Killed \/ Reboot
      BY <1>1, HowCommandsEnd
    <2> QED
      BY <1>2, <2>1
  <1>4. pc = "restore_service" /\ svc' \in RestoredService /\ disk' = disk
    BY <1>1, <1>3 DEF RestoreService, Return
  <1>5. disk.binary = snap.binary /\ disk.unit = snap.unit /\ disk.marker = snap.marker
    BY <1>4 DEF IInv, Stages, RestoredSoFar
  <1>6. history.touched \/ disk.config = snap.config
    BY <1>4 DEF IInv, Facts, ConfigSoFar
  <1> QED
    BY <1>4, <1>5, <1>6

(* A rollback that reports no error of its own leaves the four files as the   *)
(* snapshot found them, the environment file excepted if the operator changed *)
(* it meanwhile (installer.go:263-275, 537-558).                              *)
THEOREM RollbackRestores == Spec => RollbackRestoresSnapshot
  <1>1. ASSUME IInv, [Next]_vars, Ends("rolled_back")
        PROVE  /\ \A name \in {"binary", "unit", "marker"} : disk'[name] = snap[name]
               /\ history.touched \/ disk'.config = snap.config
    <2>1. /\ disk' = disk
          /\ disk.binary = snap.binary /\ disk.unit = snap.unit /\ disk.marker = snap.marker
          /\ history.touched \/ disk.config = snap.config
      BY <1>1, RolledBack
    <2> QED
      BY <2>1
  <1>2. IInv /\ [Next]_vars =>
          [Ends("rolled_back") =>
             /\ \A name \in {"binary", "unit", "marker"} : disk'[name] = snap[name]
             /\ history.touched \/ disk'.config = snap.config]_vars
    BY <1>1
  <1> QED
    BY <1>2, Invariant, PTL DEF Spec, RollbackRestoresSnapshot

(* After such a rollback of a managed host, unless the operator changed the   *)
(* environment file, the service runs no build but the snapshot's, and runs   *)
(* that if it ran when the install began: the files come back before the      *)
(* restart (installer.go:263-275).                                            *)
THEOREM RollbackServes == Spec => RollbackServesOldBuild
  <1>1. ASSUME IInv, [Next]_vars, Ends("rolled_back"), ~history.touched,
               Marked(snap), snap.unit # Absent
        PROVE  svc'.image = Runnable(snap)
    <2>1. /\ disk.binary = snap.binary /\ disk.unit = snap.unit
          /\ disk.config = snap.config
          /\ svc' \in RestoredService
      BY <1>1, RolledBack
    <2>2. Runnable(disk) = Runnable(snap)
      BY <2>1 DEF Runnable
    <2>3. svc' = [svc EXCEPT !.image = Runnable(snap)]
      BY <1>1, <2>1, <2>2 DEF RestoredService, Restarted
    <2>4. svc \in Service
      BY <1>1 DEF IInv, IType, TypeOK, Service
    <2> QED
      BY <2>3, <2>4 DEF Service
  <1>2. IInv /\ [Next]_vars =>
          [Ends("rolled_back") /\ ~history.touched /\ Marked(snap) /\ snap.unit # Absent =>
             /\ svc'.image \in {Absent, Runnable(snap)}
             /\ history.before.image # Absent => svc'.image = Runnable(snap)]_vars
    BY <1>1
  <1> QED
    BY <1>2, Invariant, PTL DEF Spec, RollbackServesOldBuild

(* If the service was stopped when the install began, a successful activation *)
(* has probed the build it installed (installer.go:314-321, 472-494).         *)
THEOREM ActivationIsProbed == Spec => FreshActivationIsHealthy
  <1>1. ASSUME IInv, [Next]_vars, Ends("ok"), cmd.op = "install", cmd.start,
               history.before.image = Absent
        PROVE  svc'.image = disk'.binary /\ disk'.binary \notin Broken
    <2>1. pc # "idle" /\ pc' = "idle" /\ outcome' = "ok"
      BY <1>1 DEF Ends
    <2>2. ~(PreflightRefuses \/ RestoreService \/ RemoveFails \/ Killed \/ Reboot)
      BY <2>1 DEF PreflightRefuses, RestoreService, RemoveFails, Killed, Reboot, Return
    <2>3. ~RemoveMarker
      BY <1>1 DEF RemoveMarker, IInv, Facts, Running, UninstallSteps
    <2>4. WaitReady
      BY <1>1, <2>1, <2>2, <2>3, HowCommandsEnd
    <2>5. /\ pc = "wait" /\ UNCHANGED <<disk, svc>>
          /\ svc.image \notin Broken \cup {Absent}
      BY <2>4 DEF WaitReady, Activated
    <2>6. svc.image \in {Absent, disk.binary}
      BY <1>1, <2>5 DEF IInv, Facts, ServiceSoFar
    <2> QED
      BY <2>5, <2>6
  <1>2. IInv /\ [Next]_vars =>
          [Ends("ok") /\ cmd.op = "install" /\ cmd.start /\ history.before.image = Absent =>
             svc'.image = disk'.binary /\ disk'.binary \notin Broken]_vars
    BY <1>1
  <1> QED
    BY <1>2, Invariant, PTL DEF Spec, FreshActivationIsHealthy

(* The steps of the installer itself that change the environment file.       *)
LEMMA WhoWritesConfig ==
  ASSUME IInv, [Next]_vars, InstallerStep, disk'.config # disk.config
  PROVE  WriteConfig \/ RestoreConfig \/ RemoveConfig
  <1>1. disk \in Disk /\ used \in Used
    BY DEF IInv, IType, TypeOK, Used
  <1>2. disk' # disk
    OBVIOUS
  <1>3. ~Commands
    BY <1>2
    DEF Commands, Install, Repair, RepairRefuses, Uninstall, UninstallDoesNothing
  <1>4. ~(PreflightAccepts \/ PreflightRefuses \/ CaptureSnapshot \/ EnsureIdentity
          \/ ReloadSystemd \/ EnableNow \/ WaitReady \/ InstallStepFails
          \/ RestoreFails \/ RestoreService \/ DisableService \/ RemoveFails)
    BY <1>2
    DEF PreflightAccepts, PreflightRefuses, CaptureSnapshot, EnsureIdentity, ReloadSystemd,
        EnableNow, WaitReady, Activated, InstallStepFails, RestoreFails, RestoreService,
        DisableService, RemoveFails, FileStep
  <1>5. ~(CopyBinary \/ WriteUnit \/ WriteMarker \/ RestoreBinary \/ RestoreUnit
          \/ RestoreMarker \/ RemoveBinary \/ RemoveUnit \/ RemoveMarker)
    BY <1>1
    DEF CopyBinary, WriteUnit, WriteMarker, RestoreBinary, RestoreUnit, RestoreMarker,
        RemoveBinary, RemoveUnit, RemoveMarker, FileStep, Disk
  <1>6. ~(Killed \/ Reboot \/ ServiceExits)
    BY <1>2 DEF Killed, Reboot, Crash, ServiceExits
  <1>7. ~OperatorActs
    <2>1. used.acts \in Nat /\ [used EXCEPT !.acts = @ + 1].acts = used.acts + 1
      BY <1>1, BoundsAssumption DEF Used
    <2>2. used.acts + 1 # used.acts
      BY <2>1
    <2> QED
      BY <2>1, <2>2, Zenon DEF OperatorActs, InstallerStep
  <1>8. ~UNCHANGED vars
    BY <1>2 DEF vars
  <1> QED
    BY <1>3, <1>4, <1>5, <1>6, <1>7, <1>8
    DEF Next, Progress, InstallProgress, RollbackProgress, UninstallProgress, Environment,
        OperatorWritesConfig, OperatorDeletesConfig, OperatorStopsService

(* An install, its rollback included, changes an environment file written by  *)
(* the operator only if the operator changed it during that very install      *)
(* (installer.go:254-262, 289-293).                                           *)
THEOREM OperatorConfigSurvives == Spec => OperatorConfigSurvivesInstall
  <1>1. ASSUME IInv, [Next]_vars, InstallerStep, cmd.op = "install", disk.config \in Edits,
               disk'.config # disk.config
        PROVE  history.touched
    <2>1. WriteConfig \/ RestoreConfig \/ RemoveConfig
      BY <1>1, WhoWritesConfig
    <2>2. disk.config \notin {Absent, DefaultConfig}
      BY <1>1, ConfigAssumption
    <2>3. CASE WriteConfig
      BY <2>2, <2>3, <1>1 DEF WriteConfig, FileStep, Step, IInv, Facts, ConfigSoFar
    <2>4. CASE RestoreConfig
      <3>1. pc = "restore_config" /\ disk'.config = snap.config
        BY <2>4, <1>1 DEF RestoreConfig, FileStep, Step, IInv, IType, TypeOK, Disk
      <3> QED
        BY <3>1, <2>2, <1>1 DEF IInv, Facts, ConfigSoFar, Installing, RestoreSteps
    <2>5. CASE RemoveConfig
      BY <2>5, <1>1 DEF RemoveConfig, FileStep, Step, IInv, Facts, Running, UninstallSteps
    <2> QED
      BY <2>1, <2>3, <2>4, <2>5
  <1>2. IInv /\ [Next]_vars =>
          [InstallerStep /\ cmd.op = "install" /\ disk.config \in Edits
             /\ disk'.config # disk.config => history.touched]_vars
    BY <1>1
  <1> QED
    BY <1>2, Invariant, PTL DEF Spec, OperatorConfigSurvivesInstall

(* An environment file that existed before the installer managed the host is  *)
(* never purged, whatever came between (installer.go:254-262, 359-363).       *)
THEOREM PreexistingConfigStays == Spec => PreexistingConfigNeverPurged
  <1>1. ASSUME IInv, [Next]_vars, InstallerStep, cmd.op = "uninstall",
               history.creator = "operator", disk'.config # disk.config
        PROVE  FALSE
    <2>1. WriteConfig \/ RestoreConfig \/ RemoveConfig
      BY <1>1, WhoWritesConfig
    <2>2. CASE WriteConfig \/ RestoreConfig
      BY <2>2, <1>1
      DEF WriteConfig, RestoreConfig, FileStep, Step, IInv, Facts, Running, Installing,
          InstallSteps, RestoreSteps
    <2>3. CASE RemoveConfig
      BY <2>3, <1>1 DEF RemoveConfig, FileStep, Step, IInv, Facts, Provenance, UninstallSteps
    <2> QED
      BY <2>1, <2>2, <2>3
  <1>2. IInv /\ [Next]_vars =>
          [InstallerStep /\ cmd.op = "uninstall" /\ history.creator = "operator"
             => disk'.config = disk.config]_vars
    BY <1>1
  <1> QED
    BY <1>2, Invariant, PTL DEF Spec, PreexistingConfigNeverPurged

-----------------------------------------------------------------------------
(* What the transaction sees of the installer.                               *)
Files == IF Installing THEN Owning(snap) ELSE Owning(disk)
Job   == IF Installing THEN cmd.version
         ELSE IF pc \in UninstallSteps THEN "removal" ELSE Absent

(* Only the version of a marker belongs to the transaction.                  *)
LEMMA SameOwning ==
  ASSUME NEW d, NEW e, d.binary = e.binary, d.unit = e.unit,
         d.marker.version = e.marker.version
  PROVE  Owning(d) = Owning(e)
  BY DEF Owning

LEMMA Undisturbed ==
  ASSUME Files' = Files, Job' = Job, history'.damaged = history.damaged
  PROVE  UNCHANGED Transaction!vars
  BY DEF Files, Job, Transaction!vars

(* Where no command holds the files, and where one keeps holding them.       *)
LEMMA Outside ==
  ASSUME pc \in {"idle", "preflight", "snapshot"}
  PROVE  Files = Owning(disk) /\ Job = Absent
  BY StagesApart DEF Files, Job, Installing

LEMMA Inside ==
  ASSUME Installing
  PROVE  Files = Owning(snap) /\ Job = cmd.version
  BY DEF Files, Job

LEMMA Removing ==
  ASSUME pc \in UninstallSteps
  PROVE  Files = Owning(disk) /\ Job = "removal"
  BY StagesApart DEF Files, Job, Installing

(* A command that is killed or fails leaves every file old or new.           *)
LEMMA Torn ==
  ASSUME IInv, Files' = Owning(disk), Job' = Absent, history'.damaged = TRUE
  PROVE  Transaction!Next
  <1>1. CASE Installing
    <2>1. Files = Owning(snap) /\ Job = cmd.version /\ cmd.version \in Versions
      BY <1>1, Inside DEF IInv, Facts, Running
    <2>2. /\ disk.binary \in {snap.binary, cmd.version}
          /\ disk.unit \in {snap.unit, cmd.version}
          /\ disk.marker.version \in {snap.marker.version, cmd.version}
      BY <1>1 DEF IInv, Facts, OldOrNew
    <2> DEFINE names == {"binary", "unit", "marker"}
               fresh == {name \in names : Owning(disk)[name] # Owning(snap)[name]}
    <2>3. Owning(disk) = [name \in names |->
                            IF name \in fresh THEN cmd.version ELSE Owning(snap)[name]]
      <3>1. \A name \in names : Owning(disk)[name] \in {Owning(snap)[name], cmd.version}
        BY <2>2 DEF Owning
      <3>2. Owning(disk) = [name \in names |-> Owning(disk)[name]]
        BY DEF Owning
      <3> QED
        BY <3>1, <3>2
    <2>4. fresh \in SUBSET names
      OBVIOUS
    <2>5. \E new \in SUBSET names :
            Files' = [name \in names |-> IF name \in new THEN Job ELSE Files[name]]
      BY <2>1, <2>3, <2>4
    <2>6. Transaction!Tear
      BY <2>1, <2>5 DEF Transaction!Tear, Files, Job
    <2> QED
      BY <2>6 DEF Transaction!Next
  <1>2. CASE pc \in UninstallSteps
    <2>1. Transaction!AbandonRemoval
      BY <1>2, Removing DEF Transaction!AbandonRemoval, Files, Job
    <2> QED
      BY <2>1 DEF Transaction!Next
  <1>3. CASE ~Installing /\ pc \notin UninstallSteps
    <2>1. Files = Owning(disk) /\ Job = Absent
      BY <1>3 DEF Files, Job
    <2>2. Transaction!Interrupted
      BY <2>1 DEF Transaction!Interrupted, Files, Job
    <2> QED
      BY <2>2 DEF Transaction!Next
  <1> QED
    BY <1>1, <1>2, <1>3

LEMMA EndIsOutside ==
  ASSUME NEW result, NEW damaged, Return(result, damaged)
  PROVE  Files' = Owning(disk') /\ Job' = Absent /\ history'.damaged = damaged
  <1>1. pc' = "idle" /\ history' = [Forgotten EXCEPT !.creator = history.creator, !.damaged = damaged]
    BY DEF Return
  <1>2. history'.damaged = damaged
    BY <1>1 DEF Forgotten
  <1>3. ~Installing' /\ pc' \notin UninstallSteps
    BY <1>1 DEF Installing, InstallSteps, RestoreSteps, ServiceSteps, UninstallSteps
  <1> QED
    BY <1>2, <1>3 DEF Files, Job, Owning

LEMMA InitTransaction == Init => Transaction!Init
  <1> SUFFICES ASSUME Init
               PROVE  Transaction!Init
    OBVIOUS
  <1>1. pc = "idle" /\ history.damaged = FALSE
    BY DEF Init, Forgotten
  <1>2. Files = Owning(disk) /\ Job = Absent
    BY <1>1, Outside
  <1>3. \/ disk.binary = Absent /\ disk.unit = Absent
        \/ disk.binary = Foreign /\ disk.unit = Foreign
    BY DEF Init, CleanHost
  <1>4. disk.marker.version = Absent
    <2>1. disk.marker = NoMarker
      BY DEF Init, CleanHost
    <2> QED
      BY <2>1 DEF NoMarker
  <1>5. Owning(disk) \in {[binary |-> Absent, unit |-> Absent, marker |-> Absent],
                          [binary |-> Foreign, unit |-> Foreign, marker |-> Absent]}
    BY <1>3, <1>4 DEF Owning
  <1> QED
    BY <1>1, <1>2, <1>5 DEF Transaction!Init, Transaction!All, Files, Job

(* An install that ends well has replaced the three files.                   *)
LEMMA Committed ==
  ASSUME IInv, pc \in {"reload", "wait"}, NEW result, Return(result, FALSE), disk' = disk
  PROVE  Transaction!Next
  <1>1. Installing
    BY DEF Installing, InstallSteps
  <1>2. Files = Owning(snap) /\ Job = cmd.version /\ cmd.version \in Versions
    BY <1>1, Inside DEF IInv, Facts, Running
  <1>3. /\ disk.binary = cmd.version /\ disk.unit = cmd.version
        /\ disk.marker.version = cmd.version
    BY DEF IInv, Stages, InstalledSoFar
  <1>4. Files' = Owning(disk) /\ Job' = Absent /\ history'.damaged = FALSE
    BY EndIsOutside
  <1>5. Owning(disk) = Transaction!All(Job)
    BY <1>2, <1>3 DEF Owning, Transaction!All
  <1>6. Transaction!Commit
    BY <1>2, <1>4, <1>5 DEF Transaction!Commit, Files, Job
  <1> QED
    BY <1>6 DEF Transaction!Next

(* Steps within one stage of the transaction do nothing to it.               *)
LEMMA StaysOutside ==
  ASSUME pc \in {"idle", "preflight", "snapshot"}, pc' \in {"idle", "preflight", "snapshot"},
         Owning(disk') = Owning(disk), history'.damaged = history.damaged
  PROVE  UNCHANGED Transaction!vars
  <1>1. Files = Owning(disk) /\ Job = Absent
    BY Outside
  <1>2. Files' = Owning(disk') /\ Job' = Absent
    BY StagesApart DEF Files, Job, Installing, Owning
  <1> QED
    BY <1>1, <1>2, Undisturbed

LEMMA StaysInside ==
  ASSUME Installing, pc' \in InstallSteps \cup RestoreSteps \cup ServiceSteps,
         snap' = snap, cmd' = cmd, history'.damaged = history.damaged
  PROVE  UNCHANGED Transaction!vars
  <1>1. Files = Owning(snap) /\ Job = cmd.version
    BY Inside
  <1>2. Files' = Owning(snap') /\ Job' = cmd'.version
    BY DEF Files, Job, Installing, Owning
  <1> QED
    BY <1>1, <1>2, Undisturbed

LEMMA StaysRemoving ==
  ASSUME pc \in UninstallSteps, pc' \in UninstallSteps,
         Owning(disk') = Owning(disk), history'.damaged = history.damaged
  PROVE  UNCHANGED Transaction!vars
  <1>1. Files = Owning(disk) /\ Job = "removal"
    BY Removing
  <1>2. Files' = Owning(disk') /\ Job' = "removal"
    BY StagesApart DEF Files, Job, Installing, Owning
  <1> QED
    BY <1>1, <1>2, Undisturbed

(* Whatever stage it finds, the operator touches the environment file only.  *)
LEMMA StaysPut ==
  ASSUME UNCHANGED <<pc, cmd, snap>>, Owning(disk') = Owning(disk),
         history'.damaged = history.damaged
  PROVE  UNCHANGED Transaction!vars
  <1>1. Files' = Files
    BY DEF Files, Installing, Owning
  <1>2. Job' = Job
    BY DEF Job, Installing
  <1> QED
    BY <1>1, <1>2, Undisturbed

LEMMA EnvironmentTears ==
  ASSUME IInv, Environment
  PROVE  Transaction!Next \/ UNCHANGED Transaction!vars
  <1>d. disk \in Disk /\ history \in History
    BY DEF IInv, IType, TypeOK
  <1>1. CASE Killed \/ (Reboot /\ pc # "idle")
    <2>1. Return("killed", TRUE) /\ disk' = disk
      BY <1>1 DEF Killed, Reboot, Crash
    <2>2. Files' = Owning(disk) /\ Job' = Absent /\ history'.damaged = TRUE
      BY <2>1, EndIsOutside
    <2> QED
      BY <2>2, Torn
  <1>2. CASE (Reboot /\ pc = "idle") \/ ServiceExits \/ OperatorStopsService
    <2>1. UNCHANGED <<disk, pc, cmd, snap, history>>
      BY <1>2 DEF Reboot, Crash, ServiceExits, OperatorStopsService, OperatorActs
    <2> QED
      BY <2>1, StaysPut
  <1>3. CASE OperatorWritesConfig \/ OperatorDeletesConfig
    <2>1. UNCHANGED <<pc, cmd, snap>>
      BY <1>3 DEF OperatorWritesConfig, OperatorDeletesConfig, OperatorActs
    <2>2. /\ disk'.binary = disk.binary /\ disk'.unit = disk.unit
          /\ disk'.marker = disk.marker
      BY <1>3, <1>d DEF OperatorWritesConfig, OperatorDeletesConfig, Disk
    <2>3. history'.damaged = history.damaged
      BY <1>3, <1>d DEF OperatorWritesConfig, OperatorDeletesConfig, History
    <2>4. Owning(disk') = Owning(disk)
      BY <2>2, SameOwning
    <2> QED
      BY <2>1, <2>3, <2>4, StaysPut
  <1> QED
    BY <1>1, <1>2, <1>3 DEF Environment

LEMMA CommandsBegin ==
  ASSUME IInv, Commands
  PROVE  Transaction!Next \/ UNCHANGED Transaction!vars
  <1>1. pc = "idle" /\ disk' = disk
    BY DEF Commands, Install, Repair, RepairRefuses, Uninstall, UninstallDoesNothing, Issue
  <1>2. ASSUME NEW v \in Versions, NEW start \in BOOLEAN, Install(v, start)
        PROVE  UNCHANGED Transaction!vars
    <2>1. pc' = "preflight" /\ history' = history
      BY <1>2 DEF Install
    <2> QED
      BY <1>1, <2>1, StaysOutside
  <1>3. CASE RepairRefuses \/ UninstallDoesNothing
    <2>1. \E result \in Outcomes : Return(result, history.damaged)
      BY <1>3 DEF RepairRefuses, UninstallDoesNothing, Outcomes
    <2>2. pc' = "idle" /\ history'.damaged = history.damaged
      BY <2>1, EndIsOutside DEF Return
    <2> QED
      BY <1>1, <2>2, StaysOutside
  <1>4. ASSUME NEW purge \in BOOLEAN, Uninstall(purge)
        PROVE  Transaction!Next
    <2>1. pc' = "disable" /\ history' = history /\ Marked(disk)
      BY <1>4 DEF Uninstall, Ownership
    <2>2. disk.marker.version # Absent
      BY <2>1, DiskFields, VersionsAssumption DEF IInv, IType, TypeOK
    <2>3. Files = Owning(disk) /\ Job = Absent
      BY <1>1, Outside
    <2>4. pc' \in UninstallSteps
      BY <2>1 DEF UninstallSteps
    <2>5. Files' = Owning(disk) /\ Job' = "removal"
      BY <1>1, <2>4, StagesApart DEF Files, Job, Installing, Owning
    <2>6. Files.marker # Absent
      BY <2>2, <2>3 DEF Owning
    <2>7. Transaction!BeginRemoval
      BY <2>1, <2>3, <2>5, <2>6
      DEF Transaction!BeginRemoval, Transaction!Managed, Files, Job
    <2> QED
      BY <2>7 DEF Transaction!Next
  <1> QED
    BY <1>2, <1>3, <1>4 DEF Commands, Repair

LEMMA InstallBeginsAndCommits ==
  ASSUME IInv, InstallProgress
  PROVE  Transaction!Next \/ UNCHANGED Transaction!vars
  <1>h. history \in History
    BY DEF IInv, IType, TypeOK
  <1>1. CASE PreflightAccepts
    <2>1. pc = "preflight" /\ pc' = "snapshot" /\ UNCHANGED <<disk, history>>
      BY <1>1 DEF PreflightAccepts, FileStep, Step, Goto
    <2> QED
      BY <2>1, StaysOutside
  <1>2. CASE PreflightRefuses
    <2>1. pc \in {"preflight", "snapshot"} /\ disk' = disk /\ Return("refused", history.damaged)
      BY <1>2 DEF PreflightRefuses
    <2>2. pc' = "idle" /\ history'.damaged = history.damaged
      BY <2>1, EndIsOutside DEF Return
    <2> QED
      BY <2>1, <2>2, StaysOutside
  <1>3. CASE CaptureSnapshot
    <2>1. /\ pc = "snapshot" /\ pc' = "identity" /\ snap' = disk /\ cmd' = cmd
          /\ history'.damaged = history.damaged
      BY <1>3, <1>h DEF CaptureSnapshot, History
    <2>2. Files = Owning(disk) /\ Job = Absent
      BY <2>1, Outside
    <2>3. Files' = Owning(disk) /\ Job' = cmd.version
      BY <2>1 DEF Files, Job, Installing, InstallSteps, Owning
    <2>4. cmd.version \in Versions
      BY <2>1 DEF IInv, IType, Arguments
    <2>5. Ownership(disk) # "external"
      BY <2>1 DEF IInv, Stages, SnapshotIsOurs
    <2>6. \/ Owning(disk).marker # Absent
          \/ /\ Owning(disk).marker = Absent
             /\ Owning(disk).binary = Absent /\ Owning(disk).unit = Absent
      <3>1. disk \in Disk
        BY DEF IInv, IType, TypeOK
      <3>2. CASE Marked(disk)
        BY <3>1, <3>2, DiskFields, VersionsAssumption DEF Owning
      <3>3. CASE ~Marked(disk)
        <4>1. disk.binary = Absent /\ disk.unit = Absent
          BY <2>5, <3>3 DEF Ownership
        <4>2. disk.marker.version = Absent
          BY <3>3 DEF Marked, NoMarker
        <4> QED
          BY <4>1, <4>2 DEF Owning
      <3> QED
        BY <3>2, <3>3
    <2>7. Transaction!Managed \/ Transaction!Free
      BY <2>2, <2>6 DEF Transaction!Managed, Transaction!Free, Files
    <2>8. Transaction!BeginInstall(cmd.version)
      BY <2>1, <2>2, <2>3, <2>7 DEF Transaction!BeginInstall, Files, Job
    <2> QED
      BY <2>4, <2>8 DEF Transaction!Next
  <1>4. CASE EnsureIdentity \/ CopyBinary \/ WriteConfig \/ WriteUnit \/ WriteMarker
               \/ EnableNow \/ InstallStepFails \/ (ReloadSystemd /\ cmd.start)
    <2>1. /\ pc \in InstallSteps /\ pc' \in InstallSteps \cup RestoreSteps
          /\ UNCHANGED <<cmd, snap>>
      BY <1>4
      DEF EnsureIdentity, CopyBinary, WriteConfig, WriteUnit, WriteMarker, EnableNow,
          InstallStepFails, ReloadSystemd, FileStep, Step, Goto, InstallSteps, RestoreSteps
    <2>2. history'.damaged = history.damaged
      BY <1>4, <1>h
      DEF EnsureIdentity, CopyBinary, WriteConfig, WriteUnit, WriteMarker, EnableNow,
          InstallStepFails, ReloadSystemd, History
    <2> QED
      BY <2>1, <2>2, StaysInside DEF Installing
  <1>5. CASE (ReloadSystemd /\ ~cmd.start) \/ WaitReady
    <2>1. pc \in {"reload", "wait"} /\ disk' = disk /\ Return("ok", FALSE)
      BY <1>5 DEF ReloadSystemd, WaitReady, Activated
    <2> QED
      BY <2>1, Committed
  <1> QED
    BY <1>1, <1>2, <1>3, <1>4, <1>5 DEF InstallProgress

LEMMA RollbackAborts ==
  ASSUME IInv, RollbackProgress
  PROVE  Transaction!Next \/ UNCHANGED Transaction!vars
  <1>h. history \in History
    BY DEF IInv, IType, TypeOK
  <1>1. CASE RestoreBinary \/ RestoreConfig \/ RestoreUnit \/ RestoreMarker \/ RestoreFails
    <2>1. /\ pc \in RestoreSteps /\ pc' \in RestoreSteps \cup ServiceSteps
          /\ UNCHANGED <<cmd, snap>>
      BY <1>1
      DEF RestoreBinary, RestoreConfig, RestoreUnit, RestoreMarker, RestoreFails, FileStep,
          Step, Goto, RestoreSteps, ServiceSteps
    <2>2. history'.damaged = history.damaged
      BY <1>1, <1>h
      DEF RestoreBinary, RestoreConfig, RestoreUnit, RestoreMarker, RestoreFails, History
    <2> QED
      BY <2>1, <2>2, StaysInside DEF Installing
  <1>2. CASE RestoreService /\ pc # "restore_service"
    <2>1. disk' = disk /\ Return("rollback_failed", TRUE)
      BY <1>2 DEF RestoreService
    <2>2. Files' = Owning(disk) /\ Job' = Absent /\ history'.damaged = TRUE
      BY <2>1, EndIsOutside
    <2> QED
      BY <2>2, Torn
  <1>3. CASE RestoreService /\ pc = "restore_service"
    <2>1. disk' = disk /\ \E result \in Outcomes : Return(result, history.damaged)
      BY <1>3 DEF RestoreService, Outcomes
    <2>2. Files' = Owning(disk) /\ Job' = Absent /\ history'.damaged = history.damaged
      BY <2>1, EndIsOutside
    <2>3. Installing
      BY <1>3 DEF Installing, ServiceSteps
    <2>4. Files = Owning(snap) /\ Job = cmd.version /\ cmd.version \in Versions
      BY <2>3, Inside DEF IInv, Facts, Running
    <2>5. disk.binary = snap.binary /\ disk.unit = snap.unit /\ disk.marker = snap.marker
      BY <1>3 DEF IInv, Stages, RestoredSoFar
    <2>6. Owning(disk) = Owning(snap)
      BY <2>5, SameOwning
    <2>7. Transaction!Abort
      BY <2>2, <2>4, <2>6 DEF Transaction!Abort, Files, Job
    <2> QED
      BY <2>7 DEF Transaction!Next
  <1> QED
    BY <1>1, <1>2, <1>3 DEF RollbackProgress

LEMMA UninstallRemoves ==
  ASSUME IInv, UninstallProgress
  PROVE  Transaction!Next \/ UNCHANGED Transaction!vars
  <1>h. disk \in Disk /\ history \in History
    BY DEF IInv, IType, TypeOK
  <1>1. CASE DisableService \/ RemoveConfig
    <2>1. pc \in UninstallSteps /\ pc' \in UninstallSteps
      BY <1>1 DEF DisableService, RemoveConfig, FileStep, Step, Goto, UninstallSteps
    <2>2. /\ disk'.binary = disk.binary /\ disk'.unit = disk.unit
          /\ disk'.marker = disk.marker
      BY <1>1, <1>h DEF DisableService, RemoveConfig, FileStep, Disk
    <2>3. history'.damaged = history.damaged
      BY <1>1, <1>h DEF DisableService, RemoveConfig, History
    <2>4. Owning(disk') = Owning(disk)
      BY <2>2, SameOwning
    <2> QED
      BY <2>1, <2>3, <2>4, StaysRemoving
  <1>2. CASE RemoveBinary \/ RemoveUnit
    <2>1. pc \in UninstallSteps /\ pc' \in UninstallSteps /\ history' = history
      BY <1>2 DEF RemoveBinary, RemoveUnit, FileStep, Step, Goto, UninstallSteps
    <2>2. Files = Owning(disk) /\ Job = "removal"
      BY <2>1, Removing
    <2>3. Files' = Owning(disk') /\ Job' = "removal"
      BY <2>1, StagesApart DEF Files, Job, Installing, Owning
    <2>4. PICK name \in {"binary", "unit"} : disk' = [disk EXCEPT ![name] = Absent]
      BY <1>2 DEF RemoveBinary, RemoveUnit, FileStep
    <2>5. Owning(disk') = [Owning(disk) EXCEPT ![name] = Absent]
      BY <1>h, <2>4 DEF Owning, Disk
    <2>6. Transaction!RemoveImage(name)
      BY <2>1, <2>2, <2>3, <2>5 DEF Transaction!RemoveImage, Files, Job
    <2> QED
      BY <2>6 DEF Transaction!Next
  <1>3. CASE RemoveMarker
    <2>1. /\ pc = "remove_marker" /\ Return("ok", FALSE)
          /\ disk' = [disk EXCEPT !.marker = NoMarker]
      BY <1>3 DEF RemoveMarker
    <2>2. Files' = Owning(disk') /\ Job' = Absent /\ history'.damaged = FALSE
      BY <2>1, EndIsOutside
    <2>3. disk.binary = Absent /\ disk.unit = Absent
      BY <2>1 DEF IInv, Stages, RemovedSoFar
    <2>4. /\ disk'.binary = disk.binary /\ disk'.unit = disk.unit
          /\ disk'.marker = NoMarker
      BY <1>h, <2>1 DEF Disk
    <2>5. disk'.marker.version = Absent
      BY <2>4 DEF NoMarker
    <2>6. Files = Owning(disk) /\ Job = "removal"
      BY <2>1, Removing DEF UninstallSteps
    <2>7. Owning(disk') = Transaction!All(Absent)
      BY <2>3, <2>4, <2>5 DEF Owning, Transaction!All
    <2>8. Files.binary = Absent /\ Files.unit = Absent
      BY <2>3, <2>6 DEF Owning
    <2>9. Transaction!FinishRemoval
      BY <2>2, <2>6, <2>7, <2>8 DEF Transaction!FinishRemoval, Files, Job
    <2> QED
      BY <2>9 DEF Transaction!Next
  <1>4. CASE RemoveFails
    <2>1. disk' = disk /\ Return("failed", TRUE)
      BY <1>4 DEF RemoveFails
    <2>2. Files' = Owning(disk) /\ Job' = Absent /\ history'.damaged = TRUE
      BY <2>1, EndIsOutside
    <2> QED
      BY <2>2, Torn
  <1> QED
    BY <1>1, <1>2, <1>3, <1>4 DEF UninstallProgress

LEMMA NextTransaction == IInv /\ [Next]_vars => [Transaction!Next]_(Transaction!vars)
  <1> SUFFICES ASSUME IInv, [Next]_vars
               PROVE  Transaction!Next \/ UNCHANGED Transaction!vars
    OBVIOUS
  <1>1. CASE UNCHANGED vars
    <2>1. UNCHANGED <<disk, pc, cmd, snap, history>>
      BY <1>1 DEF vars
    <2> QED
      BY <2>1, StaysPut
  <1> QED
    BY <1>1, EnvironmentTears, CommandsBegin, InstallBeginsAndCommits, RollbackAborts,
       UninstallRemoves
    DEF Next, Progress

(* The installer is the transaction: an install replaces binary, unit and      *)
(* marker together or not at all, only an interruption or a reported error      *)
(* tears them, and an uninstall lets go of the marker last                      *)
(* (installer.go:220-369).                                                      *)
THEOREM InstallerIsTransaction == Spec => ImplementsTransaction
  <1> QED
    BY InitTransaction, NextTransaction, Invariant, PTL
    DEF Spec, ImplementsTransaction, Transaction!Spec
=============================================================================
