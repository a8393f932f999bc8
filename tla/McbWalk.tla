-------------------------------- MODULE McbWalk --------------------------------
(***************************************************************************)
(* The loops of the allocator as they run, block by block, and that the    *)
(* operators of module Mcb compute what they do.  A loop is a function of  *)
(* the number of passes that ends when it has seen the topmost block; no   *)
(* loop needs more passes than the arena has paragraphs.                   *)
(***************************************************************************)
EXTENDS DosMemory

Passes == 0 .. MemEnd - MemStart
End(f) == f[MemEnd - MemStart]

(* The block behind mcb, and 0 behind the topmost one. *)
After(ar, mcb) == IF ar[mcb].last THEN 0 ELSE mcb_next(ar, mcb)

--------------------------------------------------------------------------------
(* A pass of mcb_grow_max: swallow the next block when it is free. *)
Swallow(ar, mcb) ==
    LET nxt == mcb_next(ar, mcb)
        merged == [ar[mcb] EXCEPT !.size = @ + 1 + ar[nxt].size,
                                  !.last = ar[nxt].last]
    IN  IF ar[mcb].last \/ ~ mcb_is_free(ar, nxt)
        THEN ar
        ELSE [a \in DOMAIN ar \ {nxt} |-> IF a = mcb THEN merged ELSE ar[a]]

GrowWalk(ar, mcb) ==
    LET f[n \in Passes] == IF n = 0 THEN ar ELSE Swallow(f[n - 1], mcb)
    IN  End(f)

(* A pass of mem_free_owned: free the block when it is p's, and go on in    *)
(* the chain as that has left it.                                          *)
VisitOwned(s, p) ==
    LET now == IF s.arena[s.mcb].owner = p
               THEN GrowWalk(mcb_set_owner(s.arena, s.mcb, 0), s.mcb)
               ELSE s.arena
    IN  IF s.mcb = 0 THEN s ELSE [mcb |-> After(now, s.mcb), arena |-> now]

FreeOwnedWalk(ar, p) ==
    LET f[n \in Passes] == IF n = 0 THEN [mcb |-> MemStart, arena |-> ar]
                           ELSE VisitOwned(f[n - 1], p)
    IN  End(f).arena

(* A pass of the scan of mcb_alloc_new: best is the block to take, max the *)
(* largest that is too small.                                              *)
Consider(ar, size, stg, s) ==
    LET free == mcb_is_free(ar, s.mcb)
        fits == ar[s.mcb].size >= size
        takes == \/ s.best = 0
                 \/ stg = BestFit /\ ar[s.mcb].size < ar[s.best].size
                 \/ stg >= 2
    IN  IF s.mcb = 0 THEN s
        ELSE [mcb  |-> After(ar, s.mcb),
              best |-> IF free /\ fits /\ takes THEN s.mcb ELSE s.best,
              max  |-> IF free /\ ~ fits /\ ar[s.mcb].size > s.max
                       THEN ar[s.mcb].size ELSE s.max]

ScanWalk(ar, size, stg) ==
    LET f[n \in Passes] == IF n = 0 THEN [mcb |-> MemStart, best |-> 0, max |-> 0]
                           ELSE Consider(ar, size, stg, f[n - 1])
    IN  End(f)

--------------------------------------------------------------------------------
(* mcb_grow_max (loader.c:465-481) reaches the end of the free run. *)
GrowsAsWalked ==
    \A a \in DOMAIN arena : mcb_grow_max(arena, a) = GrowWalk(arena, a)

(* mem_free_owned (loader.c:591-603) frees what the process owns, although *)
(* each free changes the chain that is walked.                             *)
FreesAsWalked ==
    \A p \in {arena[a].owner : a \in DOMAIN arena} \ {0} :
        mem_free_owned(arena, p) = FreeOwnedWalk(arena, p)

(* The scan (loader.c:489-516) finds the block of each strategy, and the   *)
(* largest size there is, for requests and sizes just below them.          *)
ScansAsWalked ==
    \A size \in Requests \cup {r - 1 : r \in Requests \ {0}}, stg \in Strategies :
        LET walk == ScanWalk(arena, size, stg)
            fit == Fitting(arena, size)
        IN  /\ walk.max = LargestTooSmall(arena, size)
            /\ walk.best = 0 <=> fit = {}
            /\ fit # {} => walk.best = CHOOSE a \in fit : IsBest(arena, fit, stg, a)

(* The operators that replace the loops of the allocator do, on every arena *)
(* that DOS calls lead to, what the loops do block by block.               *)
AsWalked == GrowsAsWalked /\ FreesAsWalked /\ ScansAsWalked
================================================================================
