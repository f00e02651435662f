--------------------------- MODULE MCCompatibility ---------------------------
(***************************************************************************)
(* Compatibility for TLC: every configuration, every envelope, and bodies  *)
(* asking for up to MaxFeatures features at once.                          *)
(***************************************************************************)
EXTENDS Compatibility
=============================================================================
