--------------------------- MODULE MCStreamBridge ---------------------------
(***************************************************************************)
(* StreamBridge for TLC; the cfg files bound the lines the backend sends.  *)
(***************************************************************************)
EXTENDS StreamBridge
=============================================================================
