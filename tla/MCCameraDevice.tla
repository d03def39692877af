--------------------------- MODULE MCCameraDevice ---------------------------
(***************************************************************************)
(* The camera device with one other camera beside it, for TLC.             *)
(***************************************************************************)
EXTENDS CameraDevice

CONSTANTS dev, other
=============================================================================
