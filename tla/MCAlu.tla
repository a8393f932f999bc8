--------------------------------- MODULE MCAlu ----------------------------------
(* Alu for TLC: every byte, and words at the boundaries. *)
EXTENDS Alu

Boundaries == {0, 1, 9, 15, 16, 69, 102, 127, 128, 153, 200, 255}
BoundaryWords == {0, 1, 15, 255, 256, 4660, 32767, 32768, 40000, 65280, 65535}
AllLoaded == 0 .. 255 \cup BoundaryWords
ShiftCounts == {0, 1, 2, 7, 8, 9, 15, 16, 17, 31, 33}
=================================================================================
