-------------------------------- MODULE MCTty --------------------------------
(***************************************************************************)
(* Bounds for model-checking Tty.                                          *)
(***************************************************************************)
EXTENDS Tty

MCNL   == "nl"
MCChar == {"a", MCNL}
MCLens == {1, 5}

==============================================================================
