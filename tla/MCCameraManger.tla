--------------------------- MODULE MCCameraManger ---------------------------
(***************************************************************************)
(* The registry with devices of two names, for TLC.                        *)
(***************************************************************************)
EXTENDS CameraManger

CONSTANTS n1, n2
=============================================================================
