---------------------------- MODULE MCAudioService ----------------------------
(* Values of enum class Priority for the .cfg files are the code's own.      *)
EXTENDS AudioService
=============================================================================
