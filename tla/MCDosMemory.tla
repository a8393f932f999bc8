------------------------------ MODULE MCDosMemory ------------------------------
(* DosMemory for TLC: an arena of a dozen paragraphs with PSP, handle      *)
(* table and environment scaled down to one or two paragraphs each.        *)
EXTENDS McbWalk

MCRequests == {1, 3}
MCImages == {[min |-> 1, max |-> 65535], [min |-> 2, max |-> 2]}
================================================================================
