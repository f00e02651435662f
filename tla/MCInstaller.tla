---------------------------- MODULE MCInstaller ----------------------------
(***************************************************************************)
(* Instances of Installer for TLC: two builds, one of them never healthy,  *)
(* and the bounds the cfg files choose.                                    *)
(***************************************************************************)
EXTENDS Installer, TLC

(* The operator's environment files only differ from each other.            *)
EditSymmetry == Permutations(Edits)
=============================================================================
