----------------------------- MODULE MCUprocess ------------------------------
(***************************************************************************)
(* Bounds for model-checking Uprocess.                                     *)
(***************************************************************************)
EXTENDS Uprocess

MCExitCodes == {1}

==============================================================================
