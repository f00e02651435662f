-------------------------- MODULE MCResourceControl --------------------------
(***************************************************************************)
(* ResourceControl for TLC: three requests at once, three in all, each     *)
(* measuring two worker counts.                                            *)
(***************************************************************************)
EXTENDS ResourceControl
=============================================================================
