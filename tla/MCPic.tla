--------------------------------- MODULE MCPic ---------------------------------
(* Pic for TLC. *)
EXTENDS Pic

(* Programs mask the keyboard's line for a while, and unmask the slave,   *)
(* whose lines are all masked at first.                                    *)
DeviceMasks == [c \in Chips |-> IF c = 0 THEN {{}, {1}} ELSE {{}}]

(* Programs only unmask.                                                   *)
CascadeMasks == [c \in Chips |-> {{}}]

(* Programs mask line 10 again. *)
LateMasks == [c \in Chips |-> IF c = 0 THEN {{}} ELSE {{}, {2}}]
================================================================================
