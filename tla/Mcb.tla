---------------------------------- MODULE Mcb ----------------------------------
(***************************************************************************)
(* The DOS memory arena: the chain of memory control blocks that the       *)
(* allocator of src/src/loader.c keeps in conventional memory.             *)
(*                                                                         *)
(* An arena is a function from the paragraph of each header that can be    *)
(* reached from mcb_start to the header's fields.  Bytes left behind by a  *)
(* header that was merged into its predecessor are not part of it.         *)
(* Segments handed to programs are the paragraph after a header.           *)
(***************************************************************************)
EXTENDS Integers, FiniteSetsExt

CONSTANTS
    MemStart,   \* mcb_start: paragraph of the first header
    MemEnd      \* one past the last paragraph of the arena

ASSUME ArenaAssumption ==
    /\ MemStart \in Nat \ {0}
    /\ MemEnd \in Nat
    /\ MemStart < MemEnd
    /\ MemEnd <= 47104   \* 0xB800, the highest end init_dos chooses

Paras == MemStart .. MemEnd - 1

Header == [owner : Nat, size : Nat, last : BOOLEAN]

(* Strategies of INT 21h AH=58h; every value above 1 is last fit. *)
FirstFit == 0
BestFit == 1

--------------------------------------------------------------------------------
mcb_new(ar, mcb, owner, size, last) ==
    [a \in DOMAIN ar \cup {mcb} |->
        IF a = mcb THEN [owner |-> owner, size |-> size, last |-> last]
                   ELSE ar[a]]

mcb_next(ar, mcb) == mcb + ar[mcb].size + 1

mcb_is_free(ar, mcb) == ar[mcb].owner = 0

mcb_set_owner(ar, mcb, owner) == [ar EXCEPT ![mcb].owner = owner]

(* Slip of FreeRun: the block that ends the run is merged too. *)
FreeRunTooFar(ar, mcb) ==
    {b \in DOMAIN ar : /\ mcb < b
                       /\ \A c \in DOMAIN ar :
                            mcb < c /\ c < b => mcb_is_free(ar, c)}

(* The free blocks that directly follow mcb, up to the first used one.     *)
FreeRun(ar, mcb) ==
    {b \in DOMAIN ar : /\ mcb < b
                       /\ \A c \in DOMAIN ar :
                            mcb < c /\ c <= b => mcb_is_free(ar, c)}

(* The header of mcb once it has swallowed the free blocks behind it.      *)
GrownHeader(ar, mcb) ==
    LET end == Max({mcb} \cup FreeRun(ar, mcb))
    IN  [owner |-> ar[mcb].owner,
         size  |-> mcb_next(ar, end) - mcb - 1,
         last  |-> ar[end].last]

mcb_grow_max(ar, mcb) ==
    [a \in DOMAIN ar \ FreeRun(ar, mcb) |->
        IF a = mcb THEN GrownHeader(ar, mcb) ELSE ar[a]]

mcb_free(ar, mcb) == mcb_grow_max(mcb_set_owner(ar, mcb, 0), mcb)

--------------------------------------------------------------------------------
(* mcb_alloc_new: the free blocks that are big enough, the one that the    *)
(* strategy picks, and the size reported when there is none.               *)
Fitting(ar, size) ==
    {a \in DOMAIN ar : mcb_is_free(ar, a) /\ ar[a].size >= size}

(* Slip of IsBest: of equal blocks the last is taken. *)
IsBestLast(ar, fit, stg, a) ==
    \A b \in fit :
        CASE stg = FirstFit -> a <= b
          [] stg = BestFit  -> \/ ar[a].size < ar[b].size
                               \/ ar[a].size = ar[b].size /\ b <= a
          [] OTHER          -> b <= a

IsBest(ar, fit, stg, a) ==
    \A b \in fit :
        CASE stg = FirstFit -> a <= b
          [] stg = BestFit  -> \/ ar[a].size < ar[b].size
                               \/ ar[a].size = ar[b].size /\ a <= b
          [] OTHER          -> b <= a

LargestTooSmall(ar, size) ==
    Max({0} \cup {ar[a].size : a \in {b \in DOMAIN ar :
                                        mcb_is_free(ar, b) /\ ar[b].size < size}})

(* The arena after best was given to owner: whole when it fits exactly, its *)
(* top end for last fit, its bottom end for the other strategies.           *)
Place(ar, best, size, owner, stg) ==
    LET slack == ar[best].size - size
        last  == ar[best].last
    IN  CASE slack = 0 ->
               [mcb   |-> best,
                arena |-> mcb_new(ar, best, owner, size, last)]
          [] slack > 0 /\ stg >= 2 ->
               [mcb   |-> best + slack,
                arena |-> mcb_new(mcb_new(ar, best + slack, owner, size, last),
                                  best, 0, slack - 1, FALSE)]
          [] OTHER ->
               [mcb   |-> best,
                arena |-> mcb_new(mcb_new(ar, best + size + 1, 0, slack - 1, last),
                                  best, owner, size, FALSE)]

mcb_alloc_new(ar, size, owner, stg) ==
    LET fit == Fitting(ar, size)
        best == CHOOSE a \in fit : IsBest(ar, fit, stg, a)
    IN  IF fit = {}
        THEN [mcb |-> 0, arena |-> ar]
        ELSE Place(ar, best, size, owner, stg)

--------------------------------------------------------------------------------
(* Slip of Shrink: the paragraph of the new header is not subtracted. *)
ShrinkNoHeader(ar, mcb, size) ==
    mcb_new(mcb_new(ar, mcb + size + 1, 0, ar[mcb].size - size, ar[mcb].last),
            mcb, ar[mcb].owner, size, FALSE)

(* Cut mcb down to size; what is left becomes a free block behind it.      *)
Shrink(ar, mcb, size) ==
    mcb_new(mcb_new(ar, mcb + size + 1, 0, ar[mcb].size - size - 1, ar[mcb].last),
            mcb, ar[mcb].owner, size, FALSE)

(* Slip of mcb_resize: a block that just fits is split as well. *)
ResizeAlwaysSplits(ar, mcb, size) ==
    LET grown == mcb_grow_max(ar, mcb)
    IN  IF ar[mcb].size = size THEN ar
        ELSE IF grown[mcb].size >= size THEN Shrink(grown, mcb, size)
        ELSE grown

(* A request that cannot be met leaves the block at its largest size.      *)
mcb_resize(ar, mcb, size) ==
    LET grown == mcb_grow_max(ar, mcb)
    IN  IF ar[mcb].size = size THEN ar
        ELSE IF grown[mcb].size > size THEN Shrink(grown, mcb, size)
        ELSE grown

mcb_init == [a \in {MemStart} |->
                [owner |-> 0, size |-> MemEnd - MemStart - 1, last |-> TRUE]]

(* Slip of mem_free_owned: it stops at the first block of the process. *)
FreeFirstOwned(ar, psp) ==
    LET owned == {a \in DOMAIN ar : ar[a].owner = psp}
    IN  IF owned = {} THEN ar ELSE mcb_free(ar, Min(owned))

(* The walk of mem_free_owned goes up the chain: each block of the process *)
(* merges with the blocks above it that were free before the walk.         *)
mem_free_owned(ar, psp) ==
    LET owned == {a \in DOMAIN ar : ar[a].owner = psp}
    IN  [a \in DOMAIN ar \ UNION {FreeRun(ar, b) : b \in owned} |->
            IF a \in owned THEN [GrownHeader(ar, a) EXCEPT !.owner = 0]
                           ELSE ar[a]]

--------------------------------------------------------------------------------
(* The arena is sound when its blocks tile the memory from MemStart to     *)
(* MemEnd: each header is followed by its block and then by the next       *)
(* header, none lies inside another's block, and only the topmost block is *)
(* marked 'Z'.                                                             *)
Tiled(ar) ==
    /\ MemStart \in DOMAIN ar
    /\ \A a \in DOMAIN ar :
         /\ mcb_next(ar, a) <= MemEnd
         /\ ar[a].last <=> mcb_next(ar, a) = MemEnd
         /\ mcb_next(ar, a) < MemEnd => mcb_next(ar, a) \in DOMAIN ar
         /\ \A b \in DOMAIN ar : a < b => mcb_next(ar, a) <= b

IsArena(ar) ==
    /\ DOMAIN ar \subseteq Paras
    /\ ar \in [DOMAIN ar -> Header]
================================================================================
