----------------------------- MODULE MCPlacement -----------------------------
(***************************************************************************)
(* Placement for TLC: sizes of 0 to 2, words of 3 bits, so that requests   *)
(* of six classes fit, do not fit, and overflow.                           *)
(***************************************************************************)
EXTENDS Placement

MCSizes      == 0..2
MCExtras     == 0..1
MCCapacities == {0, 2, 5}
MCFleets     == {{}, {1, 3}}
=============================================================================
