------------------------------- MODULE MCKeyboard -------------------------------
(* Keyboard for TLC. *)
EXTENDS Keyboard

NoMasks == [c \in Chips |-> {}]
================================================================================
