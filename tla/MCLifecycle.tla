----------------------------- MODULE MCLifecycle -----------------------------
(***************************************************************************)
(* Lifecycle for TLC: two calibrations and one other request at a time.  A *)
(* tick stands for the 5 s of Grace, in which 3 s have passed.             *)
(***************************************************************************)
EXTENDS Lifecycle
=============================================================================
