------------------------ MODULE MCFirmwareDeployment ------------------------
(* Instances of FirmwareDeployment for TLC. *)
EXTENDS FirmwareDeployment
=============================================================================
