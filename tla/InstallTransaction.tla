------------------------- MODULE InstallTransaction -------------------------
(***************************************************************************)
(* What the installer promises of the files it manages: an install         *)
(* replaces binary, unit and marker together or leaves them as they were;  *)
(* only an interruption or a reported error tears them, and then each file *)
(* is still wholly the old or wholly the new one; an uninstall lets go of  *)
(* the marker last.                                                        *)
(***************************************************************************)
CONSTANTS Versions, Foreign, Absent

VARIABLES
  files,  \* binary, unit and marker as they are outside an install
  job,    \* the build being installed, "removal" or Absent
  torn    \* a command was left unfinished and not repaired since

vars == <<files, job, torn>>

All(v) == [binary |-> v, unit |-> v, marker |-> v]

Init ==
  /\ files \in {All(Absent),
                [binary |-> Foreign, unit |-> Foreign, marker |-> Absent]}
  /\ job = Absent
  /\ torn = FALSE

Managed == files.marker # Absent
Free    == ~Managed /\ files.binary = Absent /\ files.unit = Absent

BeginInstall(v) ==
  /\ job = Absent
  /\ Managed \/ Free
  /\ job' = v
  /\ UNCHANGED <<files, torn>>

Commit ==
  /\ job \in Versions
  /\ files' = All(job)
  /\ job' = Absent
  /\ torn' = FALSE

Abort ==
  /\ job \in Versions
  /\ job' = Absent
  /\ UNCHANGED <<files, torn>>

(* An interruption or a failed rollback: every file is the old or the new one. *)
Tear ==
  /\ job \in Versions
  /\ \E fresh \in SUBSET {"binary", "unit", "marker"} :
       files' = [name \in {"binary", "unit", "marker"} |->
                   IF name \in fresh THEN job ELSE files[name]]
  /\ job' = Absent
  /\ torn' = TRUE

BeginRemoval ==
  /\ job = Absent
  /\ Managed
  /\ job' = "removal"
  /\ UNCHANGED <<files, torn>>

RemoveImage(name) ==
  /\ job = "removal"
  /\ files' = [files EXCEPT ![name] = Absent]
  /\ UNCHANGED <<job, torn>>

FinishRemoval ==
  /\ job = "removal"
  /\ files.binary = Absent
  /\ files.unit = Absent
  /\ files' = All(Absent)
  /\ job' = Absent
  /\ torn' = FALSE

AbandonRemoval ==
  /\ job = "removal"
  /\ job' = Absent
  /\ torn' = TRUE
  /\ UNCHANGED files

(* A command interrupted before it took hold of the files.                  *)
Interrupted ==
  /\ job = Absent
  /\ torn' = TRUE
  /\ UNCHANGED <<files, job>>

Next ==
  \/ \E v \in Versions : BeginInstall(v)
  \/ Commit \/ Abort \/ Tear
  \/ BeginRemoval
  \/ \E name \in {"binary", "unit"} : RemoveImage(name)
  \/ FinishRemoval \/ AbandonRemoval
  \/ Interrupted

Spec == Init /\ [][Next]_vars
=============================================================================
