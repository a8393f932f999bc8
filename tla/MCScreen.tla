-------------------------------- MODULE MCScreen --------------------------------
(* Screen for TLC: a text mode of two rows and a font with three, on a     *)
(* terminal of four rows.                                                  *)
EXTENDS Screen
================================================================================
