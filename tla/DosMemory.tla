------------------------------- MODULE DosMemory -------------------------------
(***************************************************************************)
(* Processes and their memory: INT 21h AH=48h/49h/4Ah/58h, EXEC (4B00h and *)
(* 4B01h inside the emulator, ENV_EXEC_SAME), terminate (00h/4Ch) and      *)
(* terminate-and-stay-resident (31h), on top of the arena of module Mcb.   *)
(*                                                                         *)
(* Each INT 21h call is handled to its end before the program runs again,  *)
(* so one call is one action.  Programs are assumed to free and resize     *)
(* only blocks of their own; what EXEC does when it runs out of memory,    *)
(* and in which order processes come and go, is not restricted.            *)
(***************************************************************************)
EXTENDS Mcb, Sequences, FiniteSets

CONSTANTS
    PspParas,     \* size of a PSP, 16 paragraphs in the program
    JftParas,     \* size of a handle table block, 16 paragraphs
    MinResident,  \* least size AH=31h keeps, 6 paragraphs
    EnvSizes,     \* paragraphs an environment can need
    Images,       \* programs: least and greatest block they can run in
    Requests,     \* sizes that programs ask for
    Strategies    \* values given to AH=58h, without bits 6 and 7 (loader.c:492)

ASSUME SizesAssumption ==
    /\ PspParas \in Nat /\ JftParas \in Nat /\ MinResident \in Nat
    /\ EnvSizes \subseteq Nat
    /\ Requests \subseteq Nat
    /\ Strategies \subseteq Nat
    /\ Images \subseteq [min : Nat, max : Nat]
    /\ \A i \in Images : PspParas <= i.max   \* exe_sz counts the PSP

VARIABLES
    arena,          \* the MCB chain
    mcb_alloc_st,   \* allocation strategy, shared by all processes
    current_PSP,    \* segment of the running process
    psp,            \* fields of the PSP of each live process
    exec_psp_root,  \* stack of the EXECs that have not returned, top first
    resident,       \* processes that ended with AH=31h
    status          \* "boot", "running", "exited" or "overrun"

vars == <<arena, mcb_alloc_st, current_PSP, psp, exec_psp_root, resident, status>>

NoParent == 65534   \* 0xFFFE in PSP:16h
SystemOwner == 1    \* owner of the blocks create_PSP has not handed over yet
AllMemory == 65535

Live == DOMAIN psp

--------------------------------------------------------------------------------
(* create_PSP takes the environment, the handle table and then the largest *)
(* block there is.  When one of them fails nothing is given back.          *)
create_PSP(ar, stg, envSize) ==
    LET env == mcb_alloc_new(ar, envSize, SystemOwner, stg)
        jft == mcb_alloc_new(env.arena, JftParas, SystemOwner, stg)
        all == mcb_alloc_new(jft.arena, AllMemory, SystemOwner, stg)
        max == LargestTooSmall(jft.arena, AllMemory)
        blk == IF all.mcb # 0 THEN all
               ELSE mcb_alloc_new(jft.arena, max, SystemOwner, stg)
        seg == blk.mcb + 1
    IN  IF env.mcb = 0 \/ jft.mcb = 0 \/ blk.mcb = 0
        THEN [ok |-> FALSE, arena |-> blk.arena]
        ELSE [ok |-> TRUE, seg |-> seg, jft |-> jft.mcb + 1,
              size |-> blk.arena[blk.mcb].size,
              arena |-> mcb_set_owner(mcb_set_owner(mcb_set_owner(
                            blk.arena, env.mcb, seg), jft.mcb, seg), blk.mcb, seg)]

(* The 256 bytes written at the new PSP run over the header that follows.  *)
Overruns(new) == new.ok /\ new.size < PspParas

(* dos_load_exe sizes the block of the PSP for the image. *)
SizedFor(ar, seg, image) == mcb_resize(ar, seg - 1, image.max)

(* COM and EXE files alike are refused below their least size. *)
Loads(ar, seg, image) ==
    LET size == SizedFor(ar, seg, image)[seg - 1].size
    IN  size >= image.min \/ size >= image.max

--------------------------------------------------------------------------------
Init ==
    /\ arena = mcb_init
    /\ mcb_alloc_st = 0
    /\ current_PSP = 0
    /\ psp = [p \in {} |-> {}]
    /\ exec_psp_root = <<>>
    /\ resident = {}
    /\ status = "boot"

(* init_dos and main: the first program. *)
Boot(envSize, image) ==
    /\ status = "boot"
    /\ LET new == create_PSP(arena, mcb_alloc_st, envSize)
       IN  /\ new.ok
           /\ ~ Overruns(new)
           /\ Loads(new.arena, new.seg, image)
           /\ arena' = SizedFor(new.arena, new.seg, image)
           /\ current_PSP' = new.seg
           /\ psp' = [p \in {new.seg} |-> [parent |-> NoParent, jft |-> new.jft]]
    /\ status' = "running"
    /\ UNCHANGED <<mcb_alloc_st, exec_psp_root, resident>>

(* A block that the running program may resize; it may free those that do  *)
(* not hold its own PSP.                                                   *)
Owns(seg) ==
    /\ seg - 1 \in DOMAIN arena
    /\ arena[seg - 1].owner = current_PSP
    /\ seg # psp[current_PSP].jft

AllocBlock(size) ==
    /\ status = "running"
    /\ arena' = mcb_alloc_new(arena, size, current_PSP, mcb_alloc_st).arena
    /\ UNCHANGED <<mcb_alloc_st, current_PSP, psp, exec_psp_root, resident, status>>

FreeBlock(seg) ==
    /\ status = "running"
    /\ Owns(seg)
    /\ seg # current_PSP
    /\ arena' = mcb_free(arena, seg - 1)
    /\ UNCHANGED <<mcb_alloc_st, current_PSP, psp, exec_psp_root, resident, status>>

ResizeBlock(seg, size) ==
    /\ status = "running"
    /\ Owns(seg)
    /\ seg = current_PSP => size >= PspParas
    /\ arena' = mcb_resize(arena, seg - 1, size)
    /\ UNCHANGED <<mcb_alloc_st, current_PSP, psp, exec_psp_root, resident, status>>

SetStrategy(stg) ==
    /\ status = "running"
    /\ mcb_alloc_st' = stg
    /\ UNCHANGED <<arena, current_PSP, psp, exec_psp_root, resident, status>>

--------------------------------------------------------------------------------
(* AH=4Bh.  al = 0 loads and runs the child, al = 1 only loads it, which   *)
(* makes it the current process without an entry on the EXEC stack.        *)
Exec(al, envSize, image) ==
    /\ status = "running"
    /\ LET new == create_PSP(arena, mcb_alloc_st, envSize)
       IN  /\ new.ok
           /\ ~ Overruns(new)
           /\ Loads(new.arena, new.seg, image)
           /\ arena' = SizedFor(new.arena, new.seg, image)
           /\ current_PSP' = new.seg
           /\ psp' = [p \in Live \cup {new.seg} |->
                        IF p = new.seg
                        THEN [parent |-> current_PSP, jft |-> new.jft]
                        ELSE psp[p]]
           /\ exec_psp_root' =
                IF al = 0
                THEN <<[psp |-> new.seg, parent |-> current_PSP]>> \o exec_psp_root
                ELSE exec_psp_root
    /\ UNCHANGED <<mcb_alloc_st, resident, status>>

(* AX=8: blocks that were taken before the failure stay with owner 1. *)
ExecNoMemory(envSize) ==
    /\ status = "running"
    /\ LET new == create_PSP(arena, mcb_alloc_st, envSize)
       IN  /\ ~ new.ok
           /\ arena' = new.arena
    /\ UNCHANGED <<mcb_alloc_st, current_PSP, psp, exec_psp_root, resident, status>>

(* The new PSP is written over the arena; what follows is not modelled. *)
ExecOverrun(envSize) ==
    /\ status = "running"
    /\ Overruns(create_PSP(arena, mcb_alloc_st, envSize))
    /\ status' = "overrun"
    /\ UNCHANGED <<arena, mcb_alloc_st, current_PSP, psp, exec_psp_root, resident>>

(* print_error ends the emulator when the image does not fit. *)
ExecUnloadable(envSize, image) ==
    /\ status = "running"
    /\ LET new == create_PSP(arena, mcb_alloc_st, envSize)
       IN  /\ new.ok
           /\ ~ Overruns(new)
           /\ ~ Loads(new.arena, new.seg, image)
    /\ status' = "exited"
    /\ UNCHANGED <<arena, mcb_alloc_st, current_PSP, psp, exec_psp_root, resident>>

--------------------------------------------------------------------------------
(* Slip of TopIsCurrent: the EXEC on top is taken for that of whoever ends. *)
AnyOnTop == exec_psp_root # <<>>

(* Whom termination returns to: the EXEC on top of the stack when it is    *)
(* the one that started this process, else the parent named in the PSP.    *)
TopIsCurrent ==
    /\ exec_psp_root # <<>>
    /\ Head(exec_psp_root).psp = current_PSP

ReturnTo ==
    IF TopIsCurrent THEN Head(exec_psp_root).parent ELSE psp[current_PSP].parent

(* Slip of LeaveProcess: the EXEC stays on the stack. *)
LeaveWithoutPop ==
    /\ status = "running"
    /\ psp[current_PSP].parent # NoParent
    /\ current_PSP' = ReturnTo
    /\ psp' = [p \in Live \ {current_PSP} |-> psp[p]]
    /\ UNCHANGED <<mcb_alloc_st, exec_psp_root, status>>

LeaveProcess ==
    /\ status = "running"
    /\ psp[current_PSP].parent # NoParent
    /\ current_PSP' = ReturnTo
    /\ exec_psp_root' = IF TopIsCurrent THEN Tail(exec_psp_root) ELSE exec_psp_root
    /\ psp' = [p \in Live \ {current_PSP} |-> psp[p]]
    /\ UNCHANGED <<mcb_alloc_st, status>>

(* Slip of Terminate: the parent is made current before memory is freed. *)
TerminateTooLate ==
    /\ LeaveProcess
    /\ arena' = mem_free_owned(arena, ReturnTo)
    /\ UNCHANGED resident

Terminate ==
    /\ LeaveProcess
    /\ arena' = mem_free_owned(arena, current_PSP)
    /\ UNCHANGED resident

KeepResident(size) ==
    /\ LeaveProcess
    /\ arena' = mcb_resize(arena, current_PSP - 1,
                           IF size < MinResident THEN MinResident ELSE size)
    /\ resident' = resident \cup {current_PSP}

(* The first program has no parent: the emulator ends with it. *)
ExitEmulator ==
    /\ status = "running"
    /\ psp[current_PSP].parent = NoParent
    /\ status' = "exited"
    /\ UNCHANGED <<arena, mcb_alloc_st, current_PSP, psp, exec_psp_root, resident>>

Next ==
    \/ \E e \in EnvSizes, i \in Images : Boot(e, i)
    \/ \E n \in Requests : AllocBlock(n)
    \/ \E a \in DOMAIN arena : FreeBlock(a + 1)
    \/ \E a \in DOMAIN arena, n \in Requests : ResizeBlock(a + 1, n)
    \/ \E s \in Strategies : SetStrategy(s)
    \/ \E al \in {0, 1}, e \in EnvSizes, i \in Images : Exec(al, e, i)
    \/ \E e \in EnvSizes : ExecNoMemory(e)
    \/ \E e \in EnvSizes : ExecOverrun(e)
    \/ \E e \in EnvSizes, i \in Images : ExecUnloadable(e, i)
    \/ Terminate
    \/ \E n \in Requests : KeepResident(n)
    \/ ExitEmulator

Spec == Init /\ [][Next]_vars

--------------------------------------------------------------------------------
TypeOK ==
    /\ IsArena(arena)
    /\ mcb_alloc_st \in Nat
    /\ current_PSP \in Nat
    /\ Live \subseteq Nat
    /\ psp \in [Live -> [parent : Nat, jft : Nat]]
    /\ exec_psp_root \in Seq([psp : Nat, parent : Nat])
    /\ resident \subseteq Nat
    /\ status \in {"boot", "running", "exited", "overrun"}

(* However allocations, frees, resizes, EXECs and exits follow each other, *)
(* the MCB chain tiles the arena: no paragraph is lost from it and no two  *)
(* blocks overlap (loader.c:397-602).                                      *)
ArenaTiled == Tiled(arena)

(* No block outlives its process unless the process stayed resident: every *)
(* used block belongs to a live or a resident process, or to an EXEC that  *)
(* failed half way in create_PSP (loader.c:655-659, 591-602).              *)
OwnersKnown ==
    \A a \in DOMAIN arena :
        arena[a].owner \in {0, SystemOwner} \cup Live \cup resident

(* Every live process still holds the blocks it runs from, its PSP and its *)
(* handle table, whatever its children and the programs they left resident *)
(* did meanwhile (dos.c:3311-3336, 3601-3612).                             *)
Holds(p, seg) == seg - 1 \in DOMAIN arena /\ arena[seg - 1].owner = p

ProcessesHeld ==
    \A p \in Live :
        /\ Holds(p, p)
        /\ Holds(p, psp[p].jft)
        /\ arena[p - 1].size >= PspParas
        /\ p # psp[p].jft

(* Termination always finds a live process to return to, and each EXEC on  *)
(* the stack still has both its child and its parent (dos.c:3513-3526,     *)
(* 3615-3636).                                                             *)
ReturnChain ==
    status = "running" =>
        /\ current_PSP \in Live
        /\ \A p \in Live : psp[p].parent \in (Live \ {p}) \cup {NoParent}
        /\ \A i \in DOMAIN exec_psp_root :
             /\ {exec_psp_root[i].psp, exec_psp_root[i].parent} \subseteq Live
             /\ psp[exec_psp_root[i].psp].parent = exec_psp_root[i].parent

(* The live processes are one line of descent that ends in the running     *)
(* one, d gives each its depth, and the EXECs on the stack are in the order *)
(* of that line (dos.c:81-95, 3513-3526, 3615-3636).                       *)
LineOf(d) ==
    /\ current_PSP \in Live
    /\ \A p \in Live :
         /\ p # current_PSP => d[p] < d[current_PSP]
         /\ \/ psp[p].parent = NoParent
            \/ psp[p].parent \in Live /\ d[p] = d[psp[p].parent] + 1
         /\ \A q \in Live : d[p] = d[q] => p = q
    /\ \A i \in DOMAIN exec_psp_root :
         /\ exec_psp_root[i].psp \in Live
         /\ exec_psp_root[i].parent \in Live
         /\ psp[exec_psp_root[i].psp].parent = exec_psp_root[i].parent
         /\ \A j \in DOMAIN exec_psp_root :
              i < j => d[exec_psp_root[j].psp] < d[exec_psp_root[i].psp]

Nested(D) ==
    IF status = "boot"
    THEN Live = {} /\ exec_psp_root = <<>>
    ELSE \E d \in [Live -> D] : LineOf(d)

(* Processes end in the reverse order of their start, with AH=4Bh/01h and  *)
(* AH=31h in the mix, and so does the stack of EXECs (dos.c:3487-3645).    *)
Lineage == Nested(0 .. Cardinality(Live) - 1)

(* A call touches only memory of the process that makes it: a block of     *)
(* another process, of a resident one included, keeps its place, size and  *)
(* owner in every step.                                                    *)
OthersUntouched ==
    [][\A a \in DOMAIN arena :
          arena[a].owner \notin {0, current_PSP} =>
              /\ a \in DOMAIN arena'
              /\ arena'[a].owner = arena[a].owner
              /\ arena'[a].size = arena[a].size]_vars

(* EXEC is given a block that its PSP fits in: "Creates a mcb to hold the  *)
(* PSP and the loaded program" (loader.c:648).                             *)
PspFits == status # "overrun"
================================================================================
