--------------------------------- MODULE MCEms ---------------------------------
(* Ems for TLC: a frame of two pages. *)
EXTENDS Ems

Rows == [log : {0, 1, Unmap}, phys : {0, 1, 2}]

(* Single rows; pairs where the second row is late, refused, the same page *)
(* again or behind the frame; rows by segment, one not of the frame.       *)
MCTables ==
    [seg : {FALSE},
     rows : {<<r>> : r \in Rows}
            \cup {<<[log |-> 0, phys |-> 0], [log |-> g, phys |-> p]>> :
                      g \in {0, 1}, p \in {0, 1, 2, 3}}]
    \cup [seg : {TRUE},
          rows : {<<[log |-> 1, phys |-> SegmentOf(1)], [log |-> 0, phys |-> p]>> :
                      p \in {1, 2, SegmentOf(0), SegmentOf(2)}}]

(* An address whose lower half is no page of any block, and whose upper    *)
(* half is one.                                                            *)
MCLow == [m \in Mem |-> 4096]
MCHigh == [m \in Mem |-> 1]

MemSymmetry == Permutations(Mem)
================================================================================
