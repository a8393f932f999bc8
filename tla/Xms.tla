---------------------------------- MODULE Xms ----------------------------------
(***************************************************************************)
(* The list of extended memory blocks of the XMS driver, src/src/extmem.c. *)
(* A program calls the driver through a far pointer, and each call runs to *)
(* its end.                                                                *)
(*                                                                         *)
(* Sizes and offsets are kilobytes below 2^31.  What is in the blocks, the *)
(* high memory area, the A20 gate and host memory running out are left     *)
(* out, and so is what calls answer (AH=0Fh leaves AX as it was when it    *)
(* succeeds).                                                              *)
(***************************************************************************)
EXTENDS Integers, SequencesExt

CONSTANTS
    TotalKb,     \* kilobytes of extended memory behind the HMA
    MaxHandle,   \* the largest handle, 65535 in the program
    MaxLock,     \* the largest lock count, 255 in the program
    Sizes,       \* sizes programs ask for
    MaxBlocks    \* bound: a block is shrunk while the list is shorter

ASSUME XmsAssumption ==
    /\ TotalKb \in Nat
    /\ MaxHandle \in Nat \ {0}
    /\ MaxLock \in Nat \ {0}
    /\ Sizes \subseteq Nat
    /\ MaxBlocks \in Nat

VARIABLES
    embs,   \* the list that starts at EMB_DATA_ROOT
    fate    \* "runs"; "crashed": a null pointer was followed;
            \* "damaged": the list holds a node that was given back

vars == <<embs, fate>>

emb_data == [size : Nat, offset : Nat, locked : 0 .. MaxLock,
             handle : 0 .. MaxHandle]

IsFree(b) == b.handle = 0

Init ==
    /\ embs = <<[size |-> TotalKb, offset |-> 0, locked |-> 0, handle |-> 0]>>
    /\ fate = "runs"

--------------------------------------------------------------------------------
(* Where the block of handle h is in list bs. *)
search_handle(bs, h) == {i \in DOMAIN bs : ~ IsFree(bs[i]) /\ bs[i].handle = h}

Used(bs) == {bs[i].handle : i \in DOMAIN bs} \ {0}

(* Mutant: handles are numbered by how many are in use. *)
HandlesInUse(bs) == Cardinality(Used(bs))

(* emb_lasthandle, which both loops over the list compute again. *)
LastHandle(bs) == Max({bs[i].handle : i \in DOMAIN bs})

(* Mutant: what is left starts behind the block as it was. *)
SplitBehind(bs, i, kb) ==
    IF bs[i].size = kb
    THEN bs
    ELSE InsertAt([bs EXCEPT ![i].size = kb], i + 1,
                  [size |-> bs[i].size - kb, offset |-> bs[i].offset + bs[i].size,
                   locked |-> 0, handle |-> 0])

(* Block i of bs keeps kb, and what is left becomes a free block. *)
Split(bs, i, kb) ==
    IF bs[i].size = kb
    THEN bs
    ELSE InsertAt([bs EXCEPT ![i].size = kb], i + 1,
                  [size |-> bs[i].size - kb, offset |-> bs[i].offset + kb,
                   locked |-> 0, handle |-> 0])

(* The free blocks of bs that search_freemem takes for kb: the first of    *)
(* the smallest that are large enough.                                     *)
search_freemem(bs, kb) ==
    LET fits == {i \in DOMAIN bs : IsFree(bs[i]) /\ bs[i].size >= kb}
    IN  {i \in fits : \A j \in fits :
            \/ bs[i].size < bs[j].size
            \/ bs[i].size = bs[j].size /\ i <= j}

(* Block b joins the blocks that are done: a free block goes into a free   *)
(* block in front of it.                                                   *)
Joined(done, b) ==
    IF done # <<>> /\ IsFree(done[Len(done)]) /\ IsFree(b)
    THEN [done EXCEPT ![Len(done)].size = @ + b.size]
    ELSE Append(done, b)

(* Each run of free blocks becomes one block where the run starts. *)
merge_free_region(bs) ==
    LET done[n \in 0 .. Len(bs)] ==
            IF n = 0 THEN <<>> ELSE Joined(done[n - 1], bs[n])
    IN  done[Len(bs)]

--------------------------------------------------------------------------------
(* The call returns. *)
Survives == fate = "runs" /\ fate' = "runs"

Ends(how) == fate = "runs" /\ fate' = how

QueryFree ==
    /\ embs' = merge_free_region(embs)
    /\ Survives

(* Mutant: handles never run out. *)
AllocPastLast(kb) ==
    \E i \in search_freemem(embs, kb) :
        /\ embs' = [Split(embs, i, kb) EXCEPT ![i].handle = LastHandle(embs) + 1]
        /\ Survives

(* The free block is split before the handles are found to have run out.   *)
Alloc(kb) ==
    \E i \in search_freemem(embs, kb) :
        LET split == Split(embs, i, kb)
            last == LastHandle(embs)
        IN  /\ embs' = IF last = MaxHandle THEN split
                       ELSE [split EXCEPT ![i].handle = last + 1]
            /\ Survives

(* Nothing is large enough: search_freemem reads from a null pointer       *)
(* before its caller can say so (extmem.c:97, 326-331).                    *)
AllocCrash(kb) ==
    /\ search_freemem(embs, kb) = {}
    /\ Ends("crashed")
    /\ UNCHANGED embs

Free(h) ==
    \E i \in search_handle(embs, h) :
        /\ embs[i].locked = 0
        /\ embs' = [embs EXCEPT ![i].handle = 0]
        /\ Survives

Lock(h) ==
    \E i \in search_handle(embs, h) :
        /\ embs[i].locked < MaxLock
        /\ embs' = [embs EXCEPT ![i].locked = @ + 1]
        /\ Survives

Unlock(h) ==
    \E i \in search_handle(embs, h) :
        /\ embs[i].locked > 0
        /\ embs' = [embs EXCEPT ![i].locked = @ - 1]
        /\ Survives

--------------------------------------------------------------------------------
(* Mutant: a locked block shrinks, too. *)
ShrinkLocked(h, kb) ==
    \E i \in search_handle(embs, h) :
        /\ kb < embs[i].size
        /\ Len(embs) < MaxBlocks
        /\ embs' = Split(embs, i, kb)
        /\ Survives

(* AH=0Fh, of a block that is not locked. *)
Shrink(h, kb) ==
    \E i \in search_handle(embs, h) :
        /\ embs[i].locked = 0
        /\ kb < embs[i].size
        /\ Len(embs) < MaxBlocks
        /\ embs' = Split(embs, i, kb)
        /\ Survives

(* Growing merges first; bs is the merged list, and block i is to grow.    *)
Grows(bs, i, h, kb) ==
    /\ i \in search_handle(bs, h)
    /\ bs[i].locked = 0
    /\ bs[i].size < kb

(* What block i and a free block behind it have together, else 0. *)
Room(bs, i) ==
    IF i < Len(bs) /\ IsFree(bs[i + 1]) THEN bs[i].size + bs[i + 1].size ELSE 0

(* Mutant: the free block behind it keeps its size. *)
GrowIntoNextAlone(bs, h, kb) ==
    \E i \in DOMAIN bs :
        /\ Grows(bs, i, h, kb)
        /\ Room(bs, i) > kb
        /\ embs' = [bs EXCEPT ![i].size = kb]
        /\ Survives

(* The free block behind it shrinks, but its offset stays (extmem.c:573).  *)
GrowIntoNext(bs, h, kb) ==
    \E i \in DOMAIN bs :
        /\ Grows(bs, i, h, kb)
        /\ Room(bs, i) > kb
        /\ embs' = [bs EXCEPT ![i].size = kb,
                              ![i + 1].size = Room(bs, i) - kb]
        /\ Survives

(* The free block behind it is used up.  What is given back is not that    *)
(* block but the one after it, if any (extmem.c:568-569).                  *)
GrowOverNext(bs, h, kb) ==
    \E i \in DOMAIN bs :
        /\ Grows(bs, i, h, kb)
        /\ Room(bs, i) = kb
        /\ IF i + 1 = Len(bs)
           THEN /\ embs' = [Front(bs) EXCEPT ![i].size = kb]
                /\ Survives
           ELSE /\ Ends("damaged")
                /\ UNCHANGED embs

(* The handle moves to a free block that is large enough. *)
GrowElsewhere(bs, h, kb) ==
    \E i \in DOMAIN bs, j \in search_freemem(bs, kb) :
        /\ Grows(bs, i, h, kb)
        /\ Room(bs, i) < kb
        /\ embs' = Split([bs EXCEPT ![i].handle = 0, ![j].handle = h], j, kb)
        /\ Survives

GrowCrash(bs, h, kb) ==
    \E i \in DOMAIN bs :
        /\ Grows(bs, i, h, kb)
        /\ Room(bs, i) < kb
        /\ search_freemem(bs, kb) = {}
        /\ Ends("crashed")
        /\ embs' = bs

Next ==
    \/ QueryFree
    \/ \E kb \in Sizes : Alloc(kb)
    \/ \E kb \in Sizes : AllocCrash(kb)
    \/ \E h \in Used(embs) : Free(h)
    \/ \E h \in Used(embs) : Lock(h)
    \/ \E h \in Used(embs) : Unlock(h)
    \/ \E h \in Used(embs), kb \in Sizes : Shrink(h, kb)
    \/ \E bs \in {merge_free_region(embs)}, h \in Used(embs), kb \in Sizes :
          \/ GrowIntoNext(bs, h, kb)
          \/ GrowOverNext(bs, h, kb)
          \/ GrowElsewhere(bs, h, kb)
          \/ GrowCrash(bs, h, kb)

Spec == Init /\ [][Next]_vars
--------------------------------------------------------------------------------
TypeOK ==
    /\ embs \in Seq(emb_data) /\ embs # <<>>
    /\ fate \in {"runs", "crashed", "damaged"}

(* What a program knows of its blocks, by handle. *)
Table(bs) ==
    [h \in Used(bs) |->
        LET b == bs[CHOOSE i \in search_handle(bs, h) : TRUE]
        IN  [size |-> b.size, locked |-> b.locked]]

(* Programs see a table of blocks by handle that obeys XmsHandles: handles *)
(* are never shared, and however blocks are split, merged and moved, no    *)
(* call changes another handle's size or lock (extmem.c:309-366, 435-592). *)
Promise == INSTANCE XmsHandles WITH blocks <- Table(embs)

Promised == Promise!Spec

(* How many kilobytes the first n blocks of bs have together. *)
Upto(bs) ==
    LET kb[n \in 0 .. Len(bs)] == IF n = 0 THEN 0 ELSE kb[n - 1] + bs[n].size
    IN  kb

(* Extended memory neither leaks nor grows: the sizes of the list add up   *)
(* to all of it after any sequence of splits, merges and reallocations     *)
(* (extmem.c:97-110, 114-148, 545-590).                                    *)
NothingLost == Upto(embs)[Len(embs)] = TotalKb

(* No block reaches past the end of memory, although growing a block       *)
(* leaves an offset behind (extmem.c:571-575).                             *)
BlocksInside == \A i \in DOMAIN embs : embs[i].offset + embs[i].size <= TotalKb

(* A locked block, whose address a program holds, keeps handle, place and  *)
(* size while others are freed, merged and moved (extmem.c:435-460, 534).  *)
LockedStays ==
    [][\A i \in DOMAIN embs : embs[i].locked > 0 =>
          \E j \in DOMAIN embs' :
              /\ embs'[j].handle = embs[i].handle
              /\ embs'[j].offset = embs[i].offset
              /\ embs'[j].size = embs[i].size]_vars

Kilobytes(b) == b.offset .. (b.offset + b.size - 1)

(* A block that was grown with AH=0Fh, "Realloc EMB" (extmem.c:522), is    *)
(* the program's own: no two blocks in use share memory.                   *)
NoOverlap ==
    \A i, j \in DOMAIN embs :
        i # j /\ ~ IsFree(embs[i]) /\ ~ IsFree(embs[j])
            => Kilobytes(embs[i]) \cap Kilobytes(embs[j]) = {}
================================================================================
