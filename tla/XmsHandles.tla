------------------------------ MODULE XmsHandles ------------------------------
(***************************************************************************)
(* What the XMS driver promises its programs: blocks of extended memory    *)
(* behind handles, each with a size and a lock count.  A call changes the  *)
(* block of its handle only, a locked block neither goes away nor changes  *)
(* its size, and no more memory is handed out than there is.               *)
(***************************************************************************)
EXTENDS Naturals, FiniteSets

CONSTANTS
    TotalKb,     \* kilobytes of extended memory
    MaxHandle,   \* the largest handle, 65535 in the program
    MaxLock      \* the largest lock count, 255 in the program

VARIABLE blocks  \* size and lock count of each block in use, by handle

(* The kilobytes of the blocks in bs, each named by its handle and number. *)
Handed(bs) == UNION {{h} \X (1 .. bs[h].size) : h \in DOMAIN bs}

UsedKb(bs) == Cardinality(Handed(bs))

Init == blocks = <<>>

Alloc(h, kb) ==
    /\ h \notin DOMAIN blocks
    /\ blocks' = [x \in DOMAIN blocks \cup {h} |->
                    IF x = h THEN [size |-> kb, locked |-> 0] ELSE blocks[x]]
    /\ UsedKb(blocks') <= TotalKb

Free(h) ==
    /\ blocks[h].locked = 0
    /\ blocks' = [x \in DOMAIN blocks \ {h} |-> blocks[x]]

Lock(h) ==
    /\ blocks[h].locked < MaxLock
    /\ blocks' = [blocks EXCEPT ![h].locked = @ + 1]

Unlock(h) ==
    /\ blocks[h].locked > 0
    /\ blocks' = [blocks EXCEPT ![h].locked = @ - 1]

Realloc(h, kb) ==
    /\ blocks[h].locked = 0
    /\ blocks' = [blocks EXCEPT ![h].size = kb]
    /\ UsedKb(blocks') <= TotalKb

Next ==
    \/ \E h \in 1 .. MaxHandle, kb \in 0 .. TotalKb : Alloc(h, kb)
    \/ \E h \in DOMAIN blocks : Free(h) \/ Lock(h) \/ Unlock(h)
    \/ \E h \in DOMAIN blocks, kb \in 0 .. TotalKb : Realloc(h, kb)

Spec == Init /\ [][Next]_blocks
================================================================================
