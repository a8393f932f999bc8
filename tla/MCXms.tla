--------------------------------- MODULE MCXms ---------------------------------
(* Xms for TLC. *)
EXTENDS Xms
================================================================================
