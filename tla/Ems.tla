---------------------------------- MODULE Ems ----------------------------------
(***************************************************************************)
(* The EMS driver of src/src/ems.c: handles that own pages of expanded     *)
(* memory, and the page frame that shows some of those pages to programs.  *)
(*                                                                         *)
(* A handle's pages are one host block with the header ems_data in front;  *)
(* the frame refers to it by its host address, and so do the copies of the *)
(* frame kept in handles and in program memory.                            *)
(* Those copies are not followed when a block is freed or moves: each time *)
(* one is put back, validate_emsmap looks for what is gone.  An address    *)
(* that was freed can be given to a later handle.                          *)
(*                                                                         *)
(* AH=56h keeps a copy, too, in ems_call_save_map, but nothing reads it:   *)
(* intr67 would put it back when called from ems_header_seg:0022h, and it  *)
(* is always called at 0:0067h, where the vector's far jump leads.         *)
(*                                                                         *)
(* What the pages contain, names, attributes and calls that only answer    *)
(* are left out.                                                           *)
(***************************************************************************)
EXTENDS Naturals, SequencesExt

CONSTANTS
    Mem,           \* host addresses that malloc and realloc can return
    Null,          \* the frame refers to no block
    PhysPages,     \* pages of the frame, 4
    MaxPages,      \* ems_maxpages
    MaxHandles,    \* EMS_MAXHANDLES
    Tables,        \* tables that programs give to AH=50h, 55h, 56h (44h: a row)
    LowHalf,       \* the two halves of a host address of 8 bytes, as the
    HighHalf,      \* numbers they are in two log_pages
    MaxCopies      \* bound: copies of the frame that are kept

Phys == 0 .. PhysPages - 1

(* What a page of the frame shows: a logical page of the block at mem. *)
Page == [mem : Mem, log : Nat]
FrameType == [Phys -> Page \cup {Null}]

(* A table, whose rows name pages of the frame by number or by segment     *)
(* (seg).  The logical page of a row is Unmap for FFFFh.                   *)
Unmap == 65535
Row == [log : Nat, phys : Nat]
Table == [seg : BOOLEAN, rows : Seq(Row)]

EMS_PAGEFRAME_SEG == 53248
SegmentOf(i) == EMS_PAGEFRAME_SEG + 1024 * i

ASSUME EmsAssumption ==
    /\ Null \notin Page
    /\ PhysPages \in Nat \ {0}
    /\ MaxPages \in Nat /\ MaxPages < Unmap
    /\ MaxHandles \in Nat
    /\ Tables \subseteq Table
    /\ LowHalf \in [Mem -> Nat] /\ HighHalf \in [Mem -> Nat]
    /\ MaxCopies \in Nat

VARIABLES
    ems_memory,         \* the list of blocks
    ems_freepages,
    ems_map,            \* the frame
    buffer,             \* a frame in program memory (AH=4Eh, 4Fh), with flags
    fate                \* "runs", or "wild": a store outside of the frame

vars == <<ems_memory, ems_freepages, ems_map, buffer, fate>>

(* saved_map is Null while is_map_saved is 0: the frame in it is not read. *)
Node == [mem : Mem, handle : Nat, pages : Nat, saved_map : FrameType \cup {Null}]

IsSaved(node) == node.saved_map # Null

EmptyFrame == [i \in Phys |-> Null]
NoBuffer == [map |-> EmptyFrame, flag |-> {}]

Init ==
    /\ ems_memory = <<>>
    /\ ems_freepages = MaxPages
    /\ ems_map = EmptyFrame
    /\ buffer = NoBuffer
    /\ fate = "runs"

--------------------------------------------------------------------------------
(* search_handle: the first block with this handle. *)
Holders(h) == {k \in DOMAIN ems_memory : ems_memory[k].handle = h}
IsFirst(k, h) == k \in Holders(h) /\ \A j \in Holders(h) : k <= j

Shows(list, page, k) ==
    page # Null /\ list[k].mem = page.mem /\ page.log < list[k].pages

(* Whether the block that page refers to is at position k of the list.     *)
RefersTo(list, page, k) == page # Null /\ list[k].mem = page.mem

(* validate_emsmap.  The search for page i of the frame goes on where that *)
(* for page i - 1 stopped: at its block, or at the end when it had none.   *)
(* So page i is found only if the pages before it refer to blocks too, and *)
(* in the order of the list.                                               *)
Reached(list, map, i) ==
    \A j \in 0 .. i :
        /\ \E k \in DOMAIN list : RefersTo(list, map[j], k)
        /\ \A h \in 0 .. j, k, n \in DOMAIN list :
               RefersTo(list, map[h], k) /\ RefersTo(list, map[j], n) => k <= n

Validated(list, map) ==
    [i \in Phys |->
        IF Reached(list, map, i) /\ \E k \in DOMAIN list : Shows(list, map[i], k)
        THEN map[i] ELSE Null]

(* Copies of the frame that are kept somewhere. *)
Copies ==
    Cardinality({k \in DOMAIN ems_memory : IsSaved(ems_memory[k])})
    + (IF buffer = NoBuffer THEN 0 ELSE 1)

InUse == {ems_memory[k].mem : k \in DOMAIN ems_memory}

Survives == fate = "runs" /\ fate' = "runs"

--------------------------------------------------------------------------------
(* AH=43h.  The handle grows by one at each block that has it already, in  *)
(* one pass over the list.                                                 *)
HandleAfter(list) ==
    LET scan[k \in 0 .. Len(list)] ==
            IF k = 0 THEN 1
            ELSE IF list[k].handle = scan[k - 1] THEN scan[k - 1] + 1 ELSE scan[k - 1]
    IN  scan[Len(list)]

(* Mutant: the limit is the size of the memory, not what is free. *)
AllocateOverFree(n, mem) ==
    /\ n \in 1 .. MaxPages
    /\ mem \notin InUse
    /\ HandleAfter(ems_memory) <= MaxHandles
    /\ ems_memory' = Append(ems_memory,
           [mem |-> mem, handle |-> HandleAfter(ems_memory), pages |-> n,
            saved_map |-> Null])
    /\ ems_freepages' = ems_freepages - n
    /\ Survives
    /\ UNCHANGED <<ems_map, buffer>>

Allocate(n, mem) ==
    /\ n \in 1 .. ems_freepages
    /\ mem \notin InUse
    /\ HandleAfter(ems_memory) <= MaxHandles
    /\ ems_memory' = Append(ems_memory,
           [mem |-> mem, handle |-> HandleAfter(ems_memory), pages |-> n,
            saved_map |-> Null])
    /\ ems_freepages' = ems_freepages - n
    /\ Survives
    /\ UNCHANGED <<ems_map, buffer>>

(* What row gives to its page of the frame, in a table for node. *)
Entry(node, row) ==
    IF row.log = Unmap THEN Null ELSE [mem |-> node.mem, log |-> row.log]

InBlock(node, row) == row.log = Unmap \/ row.log < node.pages

(* AH=44h, one page. *)
MapPage(k, row) ==
    /\ InBlock(ems_memory[k], row)
    /\ row.phys \in Phys
    /\ ems_map' = [ems_map EXCEPT ![row.phys] = Entry(ems_memory[k], row)]
    /\ Survives
    /\ UNCHANGED <<ems_memory, ems_freepages, buffer>>

(* Mutant: the block goes although its save area is in use. *)
ReleaseSaved(k) ==
    /\ ems_memory' = RemoveAt(ems_memory, k)
    /\ ems_freepages' = ems_freepages + ems_memory[k].pages
    /\ ems_map' = Validated(ems_memory', ems_map)
    /\ Survives
    /\ UNCHANGED buffer

(* AH=45h. *)
Release(k) ==
    /\ ~ IsSaved(ems_memory[k])
    /\ ems_memory' = RemoveAt(ems_memory, k)
    /\ ems_freepages' = ems_freepages + ems_memory[k].pages
    /\ ems_map' = Validated(ems_memory', ems_map)
    /\ Survives
    /\ UNCHANGED buffer

(* Mutant: what the block had is not given back first. *)
ReallocateTwice(k, n, mem) ==
    /\ n # ems_memory[k].pages
    /\ n <= ems_freepages
    /\ mem = ems_memory[k].mem \/ mem \notin InUse
    /\ ems_memory' = [ems_memory EXCEPT ![k].pages = n, ![k].mem = mem]
    /\ ems_freepages' = ems_freepages - n
    /\ ems_map' = Validated(ems_memory', ems_map)
    /\ Survives
    /\ UNCHANGED buffer

(* AH=51h.  realloc gives the same address or another; the header with its *)
(* saved frame goes along.                                                 *)
Reallocate(k, n, mem) ==
    /\ n # ems_memory[k].pages
    /\ n <= MaxPages
    /\ n <= ems_freepages + ems_memory[k].pages
    /\ mem = ems_memory[k].mem \/ mem \notin InUse
    /\ ems_memory' = [ems_memory EXCEPT ![k].pages = n, ![k].mem = mem]
    /\ ems_freepages' = ems_freepages + ems_memory[k].pages - n
    /\ ems_map' = Validated(ems_memory', ems_map)
    /\ Survives
    /\ UNCHANGED buffer

--------------------------------------------------------------------------------
(* AH=47h and 48h: the save area of a handle.  Both validate the frame.    *)
SaveContext(k) ==
    /\ ~ IsSaved(ems_memory[k])
    /\ Copies < MaxCopies
    /\ ems_map' = Validated(ems_memory, ems_map)
    /\ ems_memory' = [ems_memory EXCEPT ![k].saved_map = ems_map']
    /\ Survives
    /\ UNCHANGED <<ems_freepages, buffer>>

(* Mutant: what was saved is believed. *)
RestoreBlindly(k) ==
    /\ IsSaved(ems_memory[k])
    /\ ems_memory' = [ems_memory EXCEPT ![k].saved_map = Null]
    /\ ems_map' = ems_memory[k].saved_map
    /\ Survives
    /\ UNCHANGED <<ems_freepages, buffer>>

RestoreContext(k) ==
    /\ IsSaved(ems_memory[k])
    /\ ems_memory' = [ems_memory EXCEPT ![k].saved_map = Null]
    /\ ems_map' = Validated(ems_memory, ems_memory[k].saved_map)
    /\ Survives
    /\ UNCHANGED <<ems_freepages, buffer>>

(* AH=4Eh and 4Fh: a copy in program memory.  The flags are those of the   *)
(* partial copy; AX=4F00h copies the whole frame.  Which pages it flags is *)
(* open: it shifts by a segment (ems.c:535).                               *)
GetMap(flag) ==
    /\ Copies < MaxCopies
    /\ buffer' = [map |-> ems_map, flag |-> flag]
    /\ Survives
    /\ UNCHANGED <<ems_memory, ems_freepages, ems_map>>

SetMap ==
    /\ ems_map' = Validated(ems_memory, buffer.map)
    /\ buffer' = NoBuffer
    /\ Survives
    /\ UNCHANGED <<ems_memory, ems_freepages>>

SwapMap ==
    /\ ems_map' = Validated(ems_memory, buffer.map)
    /\ buffer' = [map |-> ems_map, flag |-> Phys]
    /\ Survives
    /\ UNCHANGED <<ems_memory, ems_freepages>>

SetPartialMap ==
    /\ ems_map' = Validated(ems_memory,
           [i \in Phys |-> IF i \in buffer.flag THEN buffer.map[i] ELSE ems_map[i]])
    /\ buffer' = NoBuffer
    /\ Survives
    /\ UNCHANGED <<ems_memory, ems_freepages>>

--------------------------------------------------------------------------------
(* Where row r of a table is stored.  A segment that is not one of the     *)
(* frame is refused, but used as a page number all the same.               *)
Place(table, r) ==
    LET phys == table.rows[r].phys
        pages == {i \in Phys : phys = SegmentOf(i)}
    IN  IF table.seg /\ pages # {} THEN CHOOSE i \in pages : TRUE ELSE phys

(* The rows of a table that are carried out: up to the first with a        *)
(* logical page the block has not, or with a number past 4.  The rows      *)
(* before it stay in force.                                                *)
Done(node, table) ==
    {r \in DOMAIN table.rows :
        \A s \in 1 .. r : /\ InBlock(node, table.rows[s])
                          /\ table.seg \/ table.rows[s].phys <= PhysPages}

RowsFor(node, table, n) == {r \in Done(node, table) : Place(table, r) = n}

(* Number 4 passes the check, and segments are not checked: such a row is  *)
(* stored behind the frame.                                                *)
IsWild(node, table) == \E r \in Done(node, table) : Place(table, r) >= PhysPages

(* The pointer of such a row, NULL or the address of node, may lie over    *)
(* log_page[i].                                                            *)
HalfOf(node, row, i) ==
    IF row.log = Unmap THEN 0 ELSE IF i % 2 = 0 THEN LowHalf[node.mem] ELSE HighHalf[node.mem]

(* The frame after the table: for each page the last row that stores it,   *)
(* and a pointer that is stored over its log_page later.                   *)
Altered(node, table) ==
    [i \in Phys |->
        LET own == RowsFor(node, table, i)
            over == RowsFor(node, table, PhysPages + i \div 2)
            page == IF own = {} THEN ems_map[i] ELSE Entry(node, table.rows[Max(own)])
        IN  IF page # Null /\ over # {} /\ \A r \in own : r < Max(over)
            THEN [page EXCEPT !.log = HalfOf(node, table.rows[Max(over)], i)]
            ELSE page]

(* AH=50h, and 55h and 56h, which then go on somewhere else. *)
MapMultiple(k, table) ==
    /\ ~ IsWild(ems_memory[k], table)
    /\ ems_map' = Altered(ems_memory[k], table)
    /\ Survives
    /\ UNCHANGED <<ems_memory, ems_freepages, buffer>>

(* The same with a row behind the frame.  It also writes over the stack of *)
(* intr67, so that nothing is known from then on.                          *)
StoreWild(k, table) ==
    /\ fate = "runs"
    /\ IsWild(ems_memory[k], table)
    /\ ems_map' = Altered(ems_memory[k], table)
    /\ fate' = "wild"
    /\ UNCHANGED <<ems_memory, ems_freepages, buffer>>

--------------------------------------------------------------------------------
(* A call that names a handle acts on the first block with it. *)
Named == {k \in DOMAIN ems_memory : IsFirst(k, ems_memory[k].handle)}

Next ==
    \/ \E n \in 1 .. MaxPages, mem \in Mem : Allocate(n, mem)
    \/ \E k \in Named, table \in Tables : Len(table.rows) = 1 /\ MapPage(k, table.rows[1])
    \/ \E k \in Named : Release(k)
    \/ \E k \in Named, n \in 0 .. MaxPages, mem \in Mem : Reallocate(k, n, mem)
    \/ \E k \in Named : SaveContext(k)
    \/ \E k \in Named : RestoreContext(k)
    \/ \E flag \in SUBSET Phys : GetMap(flag)
    \/ SetMap
    \/ SwapMap
    \/ SetPartialMap
    \/ \E k \in Named, table \in Tables : MapMultiple(k, table)
    \/ \E k \in Named, table \in Tables : StoreWild(k, table)

Spec == Init /\ [][Next]_vars
--------------------------------------------------------------------------------
TypeOK ==
    /\ ems_memory \in Seq(Node)
    /\ ems_freepages \in Nat
    /\ ems_map \in FrameType
    /\ buffer \in [map : FrameType, flag : SUBSET Phys]
    /\ fate \in {"runs", "wild"}

Live(page) == \E k \in DOMAIN ems_memory : Shows(ems_memory, page, k)

(* The frame shows pages of blocks that are allocated (ems.c:570 "Map/unmap *)
(* multiple handle pages").  It fails when a row is stored behind it.       *)
MapsHandlePages == \A i \in Phys : ems_map[i] # Null => Live(ems_map[i])

(* As long as no row was stored behind the frame, a program that reads or  *)
(* writes the frame never touches memory that was freed, moved or cut off, *)
(* also after old copies of the frame are put back and addresses are used  *)
(* again (ems.c:126-169, 228-248).                                         *)
FrameIsLive == fate = "runs" => MapsHandlePages

(* The pages of all blocks, by address; blocks at one address would share  *)
(* them.                                                                   *)
PagesOf(node) == {node.mem} \X (1 .. node.pages)
AllPages(list) == UNION {PagesOf(list[k]) : k \in DOMAIN list}

(* Every page is free or in one block (ems.c:337, 386, 660-666). *)
PagesConserved == ems_freepages + Cardinality(AllPages(ems_memory)) = MaxPages

(* The save area of a handle is there until it is restored: the handle is  *)
(* not released, and the frame in it not replaced (ems.c:380-384, 410-414). *)
SavedIsKept ==
    [][\A k \in DOMAIN ems_memory :
          IsSaved(ems_memory[k]) =>
             \E j \in DOMAIN ems_memory' :
                /\ ems_memory'[j].handle = ems_memory[k].handle
                /\ ems_memory'[j].saved_map \in {ems_memory[k].saved_map, Null}]_vars

(* Saving the frame, or releasing a handle, leaves the pages of the other  *)
(* handles where they are (ems.c:401, 372).                                *)
MappingsKept ==
    [][\A k \in DOMAIN ems_memory :
          SaveContext(k) \/ Release(k) =>
             \A i \in Phys :
                ems_map[i] # Null /\ ems_map[i].mem # ems_memory[k].mem =>
                   ems_map'[i] = ems_map[i]]_vars
================================================================================
