# A TLA+ model of emu2

emu2 runs DOS programs in a terminal. It emulates an 8086 (or, through a
vendored core, an IA-32 CPU), a PC BIOS, the interrupt controllers, timer and
keyboard of an IBM PC/AT, and the DOS services: memory, processes, files, XMS
and EMS. This directory holds TLA+ models of the parts of emu2 that keep state
between calls, TLC configurations that check them, and proofs for TLAPS.

Paths below are relative to the repository; lines are those of the commit this
project was written against.

## 1. The system

Everything runs in **one thread**. `main` (src/main.c:584-589) loops over
`execute()` and `emulator_update()`. `execute()` (src/cpu.c:2532) interprets
instructions until `exit_cpu` is set by `SIGALRM`, about 18 times a second, and
calls `handle_irq()` before each instruction while the interrupt flag is set.
`emulator_update()` raises IRQ 0, advances the BIOS clock, refreshes the screen
and polls the keyboard. A BIOS or DOS call is an `INT` instruction that lands in
`bios_routine()` (main.c:277), which runs the whole service in C before the next
instruction. So a service is atomic for the DOS program, *except* for
`getch()`, which calls `emulator_update()` while it waits. Interleaving
comes from three sides: hardware interrupts between any two instructions of a
program, nested processes that share the DOS tables, and resident programs
that are called by others.

| Component | State | Operations | Interacts with | What makes it correct |
|---|---|---|---|---|
| Memory arena, loader.c:397-602 | chain of MCBs in emulated memory, `mcb_alloc_st` | allocate, free, resize, free all of a process | called by INT 21h and by `create_PSP` | the chain tiles the arena; nobody's block is touched by another's call |
| Processes, dos.c:3337-3646, loader.c:640-766 | `current_PSP`, PSP fields in memory, `exec_psp_root` | EXEC (run, load only), exit, stay resident | arena, file handles, video, INT 22h-24h | exit returns to a live parent; a process holds its memory while it lives, and no longer |
| Interrupt controllers, pic.c | registers of two i8259 | `cpuTriggerIRQ`, `handle_irq`, `pic_eoi`, port writes | timer, keyboard, CPU, BIOS | priorities, no lost or masked interrupt, each EOI ends the right line |
| File handles, dos.c:97-576, 2344-3284 | `filetable` (SFT) with counts, JFT of each process | open, create, close, dup, dup2, FCB open and close, EXEC and exit | processes | an SFT entry is open exactly while some JFT or FCB names it |
| Find-first and LFN handles, dos.c:926-1053, 1466-1649 | table of 256 search states | find first, next, close | host directories | a search is dropped when it ends; the table does not fill up |
| Character input, dos.c:1349-1374 | `inp_last_key` | INT 21h AH=01h, 06h-0Ah, 3Fh | keyboard | each key is returned once, its scan code second |
| Keyboard, keyb.c | `queued_key`, `prev_key`, modifiers, 8042 command, BIOS buffer at 40:1A | `kbhit`, `getch`, ports 60h/64h, INT 09h/16h | PIC, main loop, A20 | keys in order, none twice; the BIOS buffer has the queued key |
| Timer, timer.c | three i8253 counters with latch and access state, BIOS tick count | port reads and writes, INT 1Ah | host clock | low and high byte of one read belong together |
| XMS, extmem.c | list of extended memory blocks, A20 | allocate, free, move, lock, reallocate | CPU address wrap | blocks tile extended memory, a locked block stays |
| EMS, ems.c | list of blocks by handle, page frame `ems_map`, copies of it in handles and in program memory | LIM 4.0 functions 40h-58h | memory access | the frame shows only memory that is allocated; pages are conserved |
| BIOS dispatch, main.c | far-call table | INT and I/O port dispatch | all of the above | a table lookup |
| Screen, video.c | video memory, `term_screen` (what the terminal shows), counted cursor row, `output_row` | INT 10h, `check_screen`, open and close | terminal, main loop, EXEC and exit | the copy is what the terminal shows, and it shows video memory |
| 8086 CPU, cpu.c | registers, flags | one instruction at a time | everything | results and flags are those of the arithmetic |
| i386c/, dis.c, dbg.c, codepage.c, dosnames.c, utils.c, loader.c:1-396 | tables | | | not modelled, see section 7 |

Hard behaviours: nested processes that end in unusual orders (load-only EXEC,
resident programs), calls that fail after they changed something, lazily
merged memory, interrupt handlers that nest and acknowledge early or late,
controllers reprogrammed while requests come in, single-slot buffers between
an interrupt and a poll, copies (of the page frame, of the screen, of the file
table) that must follow what they copy, and carries that are taken from single
bits. PROJECT.json lists them under "hazards", each at its
line. There are no threads, no persistent state and no network, so there is
nothing about crash recovery or message loss.

## 2. Modules

| Module | Models | Extends |
|---|---|---|
| `Mcb` | the allocator: operators on one arena value | community modules |
| `DosMemory` | processes and DOS memory calls, a state machine over `Mcb` | `Mcb` |
| `McbWalk` | the allocator's loops pass by pass, and that `Mcb` agrees with them | `DosMemory` |
| `MCDosMemory` | sizes for TLC | `McbWalk` |
| `NumberLemmas` | lemmas: least and greatest numbers, induction over a set, sizes of finite sets | theorem modules |
| `DosMemoryProofs` | what each allocator operator does to any arena, the invariant of `DosMemory`, the agreement with the loops, and the theorems | `McbWalk`, `NumberLemmas` |
| `Pic` | both interrupt controllers, devices, handlers | community modules |
| `MCPic` | masks for TLC | `Pic` |
| `Keyboard` | the queued key, IRQ 1, the BIOS buffer, reads through INT 16h and 21h, composed with the controllers | `Pic` |
| `PicKeyboardProofs` | the invariants of `Pic` and `Keyboard`, and the theorems about both | `Keyboard`, `NumberLemmas` |
| `MCKeyboard` | masks for TLC | `Keyboard` |
| `FileHandles` | the system file table and the handle tables of processes | community modules |
| `FileHandlesProofs` | the invariant of `FileHandles` and the theorems | `FileHandles`, `NumberLemmas` |
| `MCFileHandles` | symmetry for TLC | `FileHandles` |
| `XmsHandles` | what the XMS driver promises: blocks by handle | standard modules |
| `Xms` | the driver's list of blocks, shown to implement `XmsHandles` | community modules |
| `XmsProofs` | the invariant of `Xms`, the theorems, and the refinement | `Xms`, `NumberLemmas` |
| `MCXms` | the instance for TLC | `Xms` |
| `Ems` | the EMS driver: blocks, the page frame, and its copies | community modules |
| `EmsProofs` | the invariant of `Ems` and the theorems | `Ems`, `NumberLemmas` |
| `MCEms` | tables for AH=44h, 50h, 55h, 56h | `Ems` |
| `Screen` | rows of the screen, of the copy and of the terminal | community modules |
| `ScreenProofs` | the invariant of `Screen` and the theorems | `Screen`, `NumberLemmas` |
| `MCScreen` | the instance for TLC | `Screen` |
| `Alu` | arithmetic instructions on AX: results and flags | standard modules |
| `AluProofs` | what each instruction computes for all operands, the invariant of `Alu` and the theorems | `Alu`, `NumberLemmas` |
| `MCAlu` | bytes, boundary words and counts for TLC | `Alu` |

### Mcb and DosMemory

An *arena* is a function from the paragraph of each reachable MCB header to its
fields `owner`, `size`, `last` ('Z'). The bytes of headers that were merged away
are not reachable from `mcb_start` and are left out. `mcb_grow_max` is a loop in
the code; here the free blocks it swallows are one set, `FreeRun`, and the header
it leaves is `GrownHeader`. `mem_free_owned` walks the chain upwards and frees as
it goes; since a merge only reaches upwards over blocks that were free before,
the result of the walk is given in one step by `mem_free_owned`. `McbWalk` follows
the three loops (`mcb_grow_max`, the scan of `mcb_alloc_new`, `mem_free_owned`)
block by block, each as a recursive function of the number of passes with the pass as an operator
(`Swallow`, `Consider`, `VisitOwned`), and `AsWalked` compares them
with the operators of `Mcb` on every arena that DOS calls lead to. A loop ends when it has seen the
topmost block; every pass but a last one gets at least a paragraph further, so as many passes as the arena has
paragraphs are enough.
`mcb_alloc_new` is the scan (`Fitting`, `IsBest`, `LargestTooSmall`) and the
placement (`Place`). Fields of the header are 16 bits wide in the code; the
arena ends at B800h at most (`ArenaAssumption`), so no sum wraps.

`DosMemory` has one action per call: `AllocBlock` (AH=48h), `FreeBlock` (49h),
`ResizeBlock` (4Ah), `SetStrategy` (58h), `Exec` with `al` 0 or 1 (4B00h,
4B01h), `Terminate` (00h, 4Ch), `KeepResident` (31h), `ExitEmulator`. The outcomes
of EXEC that are not a success are actions of their own: `ExecNoMemory`
(AX=8), `ExecUnloadable` (the emulator stops), `ExecOverrun`. `psp` maps each live
process to the parent and handle table its PSP names; `exec_psp_root` is the
stack of the code. A program frees and resizes blocks of its own, and keeps
its PSP and handle table: the code does not check this, so a program that
frees other memory can break everything, as on real DOS.

After `ExecOverrun` the arena is damaged and nothing is modelled any more.

### Pic

`pic[c]` has the registers of chip `c`, with bit sets for IMR, IRR, ISR and
`pending`. `frames` is what is on the CPU's stack: the handlers that have not
returned, innermost first, and for each the chips it still has to send an EOI
to. `cpuTriggerIRQ` is a device; `handle_irq` is the code's function, split by
outcome into `AcceptMaster`, `AcceptSlave`, `AcceptNothing` (IR2 without a slave
request) and `LatchCascade` (the slave's request is latched, nothing is
accepted); `ICW1`, `ICW2or3`, `ICW4`, `OCW1`, `OCW3`, `OCW2NonSpecific` and `OCW2Specific` are
port writes; `pic_eoi` is the BIOS; `SetIFlag` and `IRET` are the program. A scan
of a chip is the set of levels it can stop at (`Eligible`), of which the lowest
number wins.

What the environment is assumed to do: a handler sends each EOI it owes once,
to the slave first, and before its IRET; a chip is initialised only while no
handler runs.

### FileHandles

`filetable` is the table of the code: per entry the host stream, its reference
count, whether `devinfo` marks a regular file, and whether the copy of the
entry in DOS memory (what `MEM`-like programs read) shows it in use. `jft` is
the handle table of each process, `line` the processes as in `DosMemory`.
Actions: `dos_open_file` (AH=3Ch, 3Dh, 5Bh, FCB open and create), `OpenRefused`
(the same calls when the host refuses), `dos_close_file` (3Eh, FCB close), `DUP`,
`DUP2` (45h, 46h, both through `set_handle`), `Exec` (`copy_jft`, and
`restore_handles` for al = 0), `Exit` (`dos_close_allfile_owned`, then
`restore_handles`), `KeepResident`. The handle of an FCB is an ordinary handle of
the process, so an FCB that is dropped without a close is a handle that stays.

`size` is the size of each process's handle table: all entries, or the few that fit in
the PSP (20 in the program). `SetHandleCount` (AH=67h) changes it, and `CreateChildPSP`
(AH=55h) makes a child with a small table, which runs from then on.

Left out: reading and writing, AH=26h and 50h, a DUP2 of a handle onto itself, and
handles beyond the table. `CutsOpen = FALSE` says that a program closes the handles that
AH=67h cuts off, because the code does not.

### XmsHandles and Xms

`XmsHandles` is the abstract driver: a function from handles to size and lock count.
`Xms` has the list of the code, `embs`, with one record per node, and refines it by
looking up each handle in the list (`Promise`, `Promised`). `Split`, `search_freemem`
and `merge_free_region` are operators on a list; the actions are the calls
`QueryFree` (AH=08h), `Alloc` (09h), `Free` (0Ah), `Lock` (0Ch), `Unlock` (0Dh), and
0Fh by outcome: `Shrink`, `GrowIntoNext`, `GrowOverNext`, `GrowElsewhere`. `AllocCrash` and
`GrowCrash` are the read through a null pointer at extmem.c:97 when nothing is
large enough. `fate` says that the emulator has ended so, or that the list holds a
node that was given back (`GrowOverNext` before another block); what
happens after that is up to the host's heap and is not modelled.

### Keyboard

`Keyboard` extends `Pic` with the key that is held (`queued_key`), the keys typed and
taken from the terminal, the two-byte keys of INT 21h (`inp_last_key`), the BIOS buffer,
and `call`, the call that waits in `getch`. While a call waits no instruction runs, so
`Instruction` guards everything a program does. `kbhit` is an operator on the registers of
the controllers, because its callers raise IRQ 0 before it: `Poll` (INT 16h AH=01h, INT 21h
AH=0Bh, reads of ports 60h and 64h), `emulator_update` (the main loop) and `WaitInGetch` (one
round of the loop in `getch`). `keyb_handle_irq` is the BIOS handler with its EOI. A key is of a kind: a
character, a key with a scan code alone, or `"null"`, an input that `read_key` does not know
and returns as 0. `Polls` says that the program reads only when it was told of a key.
A key is what `read_key` returns: input that it consumes and drops with -1 (keyb.c:355-356, 366-370, 379-387) is
as if it had not been typed, and the second byte of a DBCS character, which the next call returns from
`prev_key`, is a key of its own. `buf` is the BIOS buffer with its slots, head (40:1Ah) and tail (40:1Ch), as in memory.

### Ems

`ems_memory` is the list of blocks: host address, handle, pages, saved frame. The frame
`ems_map` shows for each physical page a logical page of a block, by the block's *address*, as
in the code; addresses are a small set and are used again. One action per call: 43h `Allocate`,
44h `MapPage`, 45h `Release`, 47h/48h `SaveContext` and `RestoreContext`, 4Eh `GetMap`, `SetMap`,
`SwapMap`, 4Fh also `SetPartialMap`, 51h `Reallocate`, and 50h, 55h and 56h `MapMultiple`. `Validated`
is `validate_emsmap`, with the order in which it walks the list.

A table names pages of the frame by number or by segment. `Done` are its rows that take effect before one is
refused, `Place` the page a row is stored at, `Altered` the frame that results. Two checks let a row
pass whose place is behind the frame: `phy_page > 4` the number 4, and the search for a segment everything that it
does not find, since it sets an error and goes on. Its pointer is stored over `log_page` of pages in front
of it, and the frame is committed with that; `StoreWild` does this, with the pointer as two numbers (`LowHalf`,
`HighHalf`). It also writes behind `tmp`, over the stack of `intr67`, so `fate` is "wild" and nothing is modelled
after that step. `FrameIsLive` is claimed while `fate` is "runs"; `MapsHandlePages` is the
claim without that condition.

AH=56h keeps a copy of the frame for its return, but the return never comes to it: `intr67` looks for
a call from `ems_header_seg:0022h` (ems.c:263), and it is always called at 0:0067h, where the
header's far jump leads (ems.c:113-117), by the core of cpu.c:393 as well as by that of i386c (cpu_i386c.c:98). So
that copy is no state of the model, and AH=56h is `MapMultiple`: what 55h and 56h do to the stack and where they go on is
left out.

### Screen

A row is one value. `vram` is video memory, `shadow` the rows of `term_screen`, `term` what emu2
counts (`posy`, `output_row`) together with the terminal itself: its rows and the cursor's
row, `at`. The terminal is external, given by the four sequences that video.c sends:
`CursorDown`, `CursorUp`, `LineFeeds`, `EraseBelow`. emu2 may start with the cursor in any row.
`term_goto_xy`, `Put` (`put_vc_xy`) and `check_screen` follow the code; scrolling up is
`ScrollTerminal` when it takes (almost) the whole screen and `ScrollUp` otherwise. `posy`
is unsigned: it wraps at `Word`, which stands for 2^32. `KeepsRows = FALSE` says that a program that
makes the screen smaller (a taller font, or AH=00h without clearing) has cleared the rows that go
(`Cleared`), and for AH=11h had the last row that stays drawn blank, too. The cursor is set by INT 10h only: a program that
sets it past the screen through the CRTC's ports (video.c:1191-1203) is left out.

### Alu

`ax` and the flags `fl`; `last` is the instruction before, with its operands. Byte and word
forms are one definition with the width `w` as parameter. The carry goes on from one
instruction to the next through `MovAX`; the decimal and ASCII adjustments follow an addition or a
subtraction of bytes, AAD follows AAM.

## 3. Runs

| Run | Configuration | Question |
|---|---|---|
| `memory` | MCDosMemory.cfg | Do the arena and the processes stay sound under every order of calls, and do the operators of `Mcb` compute what the loops do? 159,694 states |
| `pic` | MCPic.cfg | Priorities, EOI and masks with timer, keyboard and a slave device. 206,144 states |
| `pic_programming` | MCPicProgramming.cfg | Is a request lost while a chip is programmed? 488,688 states |
| `keyboard` | MCKeyboard.cfg | Is a key lost, given twice, or never served? 61,137 states |
| `keyboard_polling` | MCKeyboardPolling.cfg | Does a program that polls before it reads get every key? No (finding) |
| `handles` | MCFileHandles.cfg | Counts, streams and the copy under every order of calls, with three processes. 641,330 states |
| `xms` | MCXms.cfg | Does the block list implement a table by handle, and is memory conserved? 185,407 states |
| `xms_overlap` | MCXmsOverlap.cfg | Do blocks in use ever overlap? Yes (finding) |
| `ems` | MCEms.cfg | Does the frame ever show memory that is not allocated, before a row is stored behind it? 136,184 states |
| `screen` | MCScreen.cfg | Does the terminal show video memory after every redraw? 19,362 states |
| `screen_same_height` | MCScreenSameHeight.cfg | Also when it has no more rows than the screen? No (finding) |
| `alu` | MCAlu.cfg | Are results and flags those of the integers? 172,278 states |

**Bounds.** `memory`: an arena of 14 paragraphs, PSP, handle table and
environment of one paragraph each, requests of 1 and 3 paragraphs, one image
that takes all memory and one that takes two paragraphs. This is room for
three nested processes, or two with blocks of their own between them, for every
kind of split (exact fit, slack of one paragraph, more) and for runs of three
free blocks to merge. A PSP has one paragraph there, so every block but an empty one is large
enough for it; `ExecOverrun` is taken with an empty block.
File handles: three entries, of which two are standard ones, so that entry 1 (which
`set_handle` treats differently), another standard entry and one for files are there;
two handles per process, so that both name one file or each its own, and a handle is
opened, duplicated and replaced; two host streams, one more than entries for them.
`MaxCount = 2` stops the count of entry 1, which only grows when its handles are given
away. A small table has one entry, so a child with one inherits some handles and not others.
XMS: 4 kilobytes, three handles, so that there is a block before and one behind the
one that moves and handles do run out, blocks of 0, 2 and 3 kilobytes, lock counts
up to 2. `MaxBlocks = 4` stops `Shrink` on a longer list: shrinking to
nothing and freeing leaves an empty node each time, which only a merge removes.
PIC runs: at most 4 handlers nest (`MaxNesting`), more than the lines
raised, so the bound never forbids a nesting that priorities allow.
In `pic` the slave device is on line 10, the one line for which the bit set by pic.c:290
is right, and masks on the slave are lifted but not set again: elsewhere the properties
are false, see "Also seen". `pic_programming` uses both modes of every mode bit and may
reinitialise either chip.
Keyboard: three keys of every kind (`MaxKeys`), so that one is held, one is in the terminal
and one was handed out; four slots of the BIOS buffer, so that it wraps; three nested
handlers, more than the two lines allow.
EMS: two pages of expanded memory and of the frame, two host addresses, so that blocks share
pages, move, and come back at a freed address; tables of one and two rows with every kind of bad
row, by number and by segment, so that page 2 has the part of page 4. The halves of an address are 4096, a page that no
block has, and 1, one that a block may have. `MaxCopies = 1` keeps one copy of the frame at a time, in a handle or in
program memory; copies do not influence each other.
Screen: a text mode of two rows and fonts with one and three, so that the screen grows and
shrinks, by AH=11h and by AH=00h, on a terminal of four; rows hold text or are blank, and
programs clear the rows that go (`KeepsRows = FALSE`).
ALU: AL takes every value, operands twelve values at the boundaries of the signed, unsigned and decimal
ranges; words eleven values; shift counts up to 33, that is, below, at and above both widths and past
the five bits that count. Word multiplication and division are left out: TLC's integers have 32 bits.

**Properties.** Each is stated in a comment where it is defined, and there is one type invariant
per module. `ArenaTiled`, `OwnersKnown`, `ProcessesHeld`, `ReturnChain`, `Lineage`, `AsWalked`,
`OthersUntouched` (memory); `InServiceOwned`, `StrictNesting`, `NoMaskedInterrupt`, `NoLostRequest`
(controllers); `NoKeyLost`, `KeyStored`, `KeyboardServed`, `KeyDelivered` (keyboard); `CountsMatch`,
`HostStreams`, `CopyAgrees`, `HandleKeepsFile` (files); `Promised` (a refinement), `NothingLost`,
`BlocksInside`, `LockedStays` (XMS); `FrameIsLive`, `PagesConserved`, `SavedIsKept` (EMS);
`ShadowIsDisplayed`, `ScreenIsShown` (screen); `SumsExact`, `DecimalExact`, `ShiftsAreRepeated`,
`ProductsExact` (CPU).
Deadlock is not checked in `memory`, for the handles, XMS, EMS and the keyboard: the emulator exits
with its first process, crashes, or all keys are typed and read.

**Fairness** (`keyboard`). Programs enable interrupts again and let handlers finish
(`CliSti(TRUE)`, `TimerEOI`, `keyb_handle_irq` and `Return` are weakly fair), and ask for keys
again and again (`Poll`, and a read, are strongly fair, as interrupts come between them).
`AcceptIRQ` is strongly fair: `execute()` calls `handle_irq` before *every* instruction with
interrupts enabled, so a program that keeps switching them on and off cannot avoid it; and so is
its acceptance of line 1, because between two ticks it is called thousands of times.
`emulator_update` is guarded: a handler of IRQ 0 ends before the next tick. With a
handler that takes longer than 55 ms the timer does starve the keyboard, on this controller as
on the real one. Typing and ticks are not fair: a user may stop typing, and while `getch`
waits it must find the key without them.

## 4. Findings

- `xms_overlap`: growing a block in place (extmem.c:573) shortens the free block behind
  it but does not move its offset, so the next block allocated there overlaps.
- `keyboard_polling`: an input that `read_key` does not know is queued as key 0, which
  `kbhit` then returns as "no key" (keyb.c:492) without looking for another one. A program that
  polls before it reads gets no key from then on.
- `screen_same_height`: on a terminal with as many rows as the screen, INT 10h AH=06h over the
  whole screen clears the copy of the terminal and not the terminal, and makes `term_posy`
  wrap (video.c:571-581). The old text stays.

Also seen. The first ones are properties stated in a module that no run checks, because they
do not hold; put them into the module's configuration to see the trace:

- `PspFits` (DosMemory): `create_PSP` (loader.c:648-651) takes the largest free block "to hold the
  PSP and the loaded program" without looking at its size, and clears 256 bytes of it;
- `NoForgottenFile` (FileHandles): `set_handle` (dos.c:283) tests the entry of the handle with `* 0xFF`
  where the unused mark is `0xFF`, so entry 1 is taken for unused: a file that was put
  there after a close of standard output stays open when its last handle is replaced;
- `NoDeadHandle` (FileHandles): an open that fails after `get_new_handle` returns the error without
  giving the handle back (dos.c:415-453, 541-549), so a program that probes for files runs out
  of handles;
- `KeyInBuffer` (Keyboard), against keyb.c:623 "The BIOS should read a key pressed here and add it to the keyboard
  buffer": `getch` moves the head of the BIOS buffer on for each key, the handler of IRQ 1 the tail for each
  interrupt (keyb.c:37, 627), and two keys found while IRQ 1 is not served raise it once. A poll with interrupts off
  finds the first key, a read takes it, a poll finds the second, and the one interrupt stores it: head and tail are equal, and
  a program that reads the buffer itself finds it empty with the key in it. After two reads it
  finds fifteen keys where there is none. What does hold is `KeyStored`: the handler has put the key that is held into
  the slot behind which it left the tail;
- `MapsHandlePages` (Ems): a table of AH=50h, 55h or 56h with a row for physical page 4, or with a segment that is not one
  of the frame, is stored behind the pointers of the frame, over the logical pages of others, and committed
  (ems.c:618-631, 849-875). The frame then shows memory outside of the handle's block. AH=44h refuses page 4 (ems.c:360);
- `MappingsKept` (Ems): `validate_emsmap` does not start its search again for each page (ems.c:230),
  so releasing one handle, or saving the frame, unmaps pages of others;
- `DaaExact` (Alu): `i_daa` holds AL in a byte, so `al += 6` wraps for sums FAh to FFh before
  `al > 0x9f` is looked at (cpu.c:732): 61h + 99h adjusts to 00 without a carry.

And with other constants, or by reading:

- controllers: `handle_irq` sets the master's bit in the slave's ISR (pic.c:290); a slave
  request that is masked after the master latched it leaves IR2 in service for good
  (pic.c:281-285); in special mask mode the master looks at the slave's IMR (pic.c:271) and
  delivers masked lines (pic.c:276); the BIOS acknowledges vectors 70h-77h to the master
  (main.c:283). No device of emu2 raises a line of the slave today;
- files: AH=67h does not close the handles it cuts off (`CutsOpen = TRUE`, dos.c:3927); DUP2
  stores at handles behind the table (dos.c:3274); the branch at dos.c:3615 is dead, by
  `ReturnChain`; `clear_find_first_dta` frees slot 0 only (dos.c:973);
- XMS: a request for more extended memory than is free ends the emulator (extmem.c:97);
  growing a block over exactly the free block behind it frees the wrong node (extmem.c:569), and
  a block that moves copies bytes for kilobytes (extmem.c:585);
- EMS: a routine called by AH=56h does not come back to the program with the frame of before: the branch for its
  return (ems.c:263-268) is dead, see `Ems` in section 2, and the return address is pushed with
  `cpuGetAddrSS`, which uses ES (ems.c:867, cpu.c:2621), and taken at once by the IRET behind `bios_routine`
  (cpu.c:396-399); with three blocks a handle can be given twice (ems.c:308);
  AX=4F00h shifts by a segment (ems.c:535); AH=50h does not set its success code; AH=57h lets a region end one page
  past its block (ems.c:1005) and exchanges one fixed byte (ems.c:956);
- keyboard: a write to port 60h overwrites the key that is held (keyb.c:573);
- timer: `set_timer` adds where it should subtract (timer.c:48-52); after a word was loaded,
  both bytes of the next one are taken for its high byte (timer.c:208-229);
- screen: AH=00h without clearing, to fewer rows, leaves rows on the terminal, and AH=11h to fewer
  rows erases the terminal from the last row that remains on, but the copy only from the row behind
  it (video.c:300-305), so what that row showed is gone and is not drawn again (both `KeepsRows = TRUE`,
  where `ShadowIsDisplayed` and `ScreenIsShown` fail); a program that starts another one finds its screen closed on return
  (video.c:265-272, dos.c:3633) when it was open;
- CPU: SAR of a word takes its carry from the low byte, wrong for counts above 8 (cpu.c:1621);
  IDIV of a word divides 80000000h by -1 (cpu.c:2098), which C leaves undefined; BOUND compares
  unsigned (cpu.c:2146).

## 5. Proofs

Theorems hold for every value of the constants that satisfies the assumptions of the module
(`ArenaAssumption`, `SizesAssumption`, `PicAssumption`, ...): of every number of blocks, handles,
entries, keys and nested handlers, where the runs have a few. TLC evaluates all assumptions. The
bounds of section 3 that are constants of a module (`MaxCount`, `MaxBlocks`, `MaxCopies`,
`MaxNesting`, `MaxKeys`) are arbitrary here.

| Module | Theorem | Property | Under |
|---|---|---|---|
| `DosMemoryProofs` | `TypeCorrect` | `TypeOK` | |
| | `ArenaStaysTiled` | `ArenaTiled` | |
| | `NoOrphanBlocks` | `OwnersKnown` | |
| | `LiveProcessesHeld` | `ProcessesHeld` | |
| | `ReturnIsSafe` | `ReturnChain` | |
| | `CallsSpareOthers` | `OthersUntouched` | |
| | `LoopsAgree` | `AsWalked` | |
| | `OneLineOfDescent` | `Lineage` | |
| `FileHandlesProofs` | `TypeCorrect` | `TypeOK` | |
| | `CountsAreRight` | `CountsMatch` | `CutsOpen = FALSE` |
| | `StreamsAgree` | `HostStreams` | |
| | `CopyIsRight` | `CopyAgrees` | |
| | `FilesStay` | `HandleKeepsFile` | |
| `EmsProofs` | `TypeCorrect` | `TypeOK` | |
| | `PagesAreConserved` | `PagesConserved` | |
| | `BlocksApart` | `Apart(ems_memory)` | |
| | `FrameStaysLive` | `FrameIsLive` | |
| | `SavesAreKept` | `SavedIsKept` | |
| `XmsProofs` | `TypeCorrect` | `TypeOK` | |
| | `MemoryIsKept` | `NothingLost` | |
| | `BlocksStayInside` | `BlocksInside` | |
| | `LockedBlocksStay` | `LockedStays` | |
| | `ListImplementsHandles` | `Promised` (refinement of `XmsHandles`) | |
| `PicKeyboardProofs` | `TypeCorrect` | `TypeOK` | |
| | `RequestsAreKept` | `NoLostRequest` | |
| | `MasksAreKept` | `NoMaskedInterrupt` | no special mask mode |
| | `ServiceIsOwned` | `InServiceOwned` | `Disciplined` |
| | `NestedByPriority` | `StrictNesting` | `Disciplined` |
| | `KeyTypeCorrect` | `KeyTypeOK` | |
| | `KeysAreKept` | `NoKeyLost` | |
| | `ServedKeyStored` | `KeyStored` | |
| `ScreenProofs` | `TypeCorrect` | `TypeOK` | `Tall`, `KeepsRows = FALSE` |
| | `CopyIsDisplayed` | `ShadowIsDisplayed` | `Tall`, `KeepsRows = FALSE` |
| | `MemoryIsShown` | `ScreenIsShown` | `Tall`, `KeepsRows = FALSE` |
| `AluProofs` | `TypeInvariant` | `TypeOK` | |
| | `Sums` | `SumsExact` | |
| | `Decimals` | `DecimalExact` | |
| | `Shifts` | `ShiftsAreRepeated` | |
| | `Products` | `ProductsExact` | |

**Hypotheses.** Where a theorem has one, the code makes the property false without it (section 4,
"Also seen"), and the hypothesis says what a program has to do, not what the code does. The configurations of
the runs that check these properties satisfy them.
`CutsOpen = FALSE`: AH=67h does not close the handles it cuts off. No special mask mode: in it `handle_irq` delivers masked
lines. `Disciplined`: as well, the BIOS acknowledges lines of the master only, and the only line
of the slave that is raised is number 10, with the slave initialised once, without special
nesting, and that line not masked again. Each part answers a line of the code: vectors 70h-77h are
acknowledged to the master (main.c:283), the slave's ISR gets the bit of the master's cascade line, which is
right for line 10 alone (pic.c:290), and a slave request that vanishes leaves IR2 in service
(pic.c:281-285). With line 10 not raised, as in emu2 today, only the first three remain.
`Tall`: the terminal has more rows than any screen of the program; with as many, the counted row wraps and the
copy is wrong (finding `screen_same_height`). `KeepsRows = FALSE`: see `Screen` in section 2.

**Arguments.** Each module has an inductive invariant, `IInv` (`KeyInv` for the keyboard), which
every action preserves; action properties follow from it for each step.

*Memory.* `IInv` is `TypeOK`, `ArenaTiled`, `OwnersKnown`, `ProcessesHeld` and `Nested(Nat)`. Why the
last: `ReturnChain` by itself says that every parent is live, but not that it stays so when somebody
else ends. That the live processes form one line of descent which ends in the running one makes the
running one the only process without a live child, so its end removes nobody's parent. The line is
given by a depth for each process; `Nested(D)` says that depths in `D` exist. For a
finite set of processes the number of live ones above a process is a depth too (`RankedLine`), so the
bounded form `Lineage`, which TLC can evaluate, follows. `ProcessesHeld` is needed for the arena itself: a
resize at exit (AH=31h) acts on the block in front of the PSP and is harmless only because that block
exists and is the process's own. The lemmas about the allocator rest on a few relations between an
old and a new arena (`Kept`, `OwnersFrom`, `Grown`, `Resized`, `Allocated`, `Split`, `Merged`): for each
operator one lemma shows that it keeps an arena `Sound` and which of them holds.

The agreement with the code's loops (`AsWalked`) is proved for every arena that the invariant allows. A loop of `McbWalk`
is a function of the number of passes (`Iteration` in `NumberLemmas`), and the proofs are inductions
over that number, each with what the loop keeps. Growing: swallowing a block does not change where
growing ends (`JoinedGrows`), and each pass gets at least a paragraph further. Freeing the blocks of a process while
the chain changes under the walk: below the current block everything of the process is free
(`FreedBelow`), from it on the arena is as it was (`SameFrom`). Searching: the block held so far is the
best of those seen (`BestOf`) and the size the largest (`LargestOf`), and a best block is unique for each strategy.

*File handles.* The handles that name an entry are a set, and the invariant (`Good`) says of each entry what
its count, its stream and its copy have to do with that set, whose size `CountsMatch` compares with the
count. Closing, duplicating, inheriting and the exit of a process are then
additions and removals of single handles, and copying or dropping a whole table is a sequence of
those. `Loose` entries (entry 1, and all when AH=67h cuts off open handles) may have a count that is too
high, never one that is too low: so the other theorems need no hypothesis.

*EMS.* Pages of a block are pairs of its address and a number, so that conservation is about the size
of one set; it needs `Apart`, no two blocks at one address. For the frame the invariant (`Frames`) covers the live one only, while
`fate` is "runs": every copy is validated when it comes back (`ValidatedGood`), and a table leaves a good frame good, unless a
row of it is stored behind the frame (`AlteredGood`).

*XMS.* The list says no more than which block follows which, and offsets are wrong after a block grew
(section 4). What holds is that no block starts later than the blocks in front of it add up to
(`StartsWithin`), and that all of them add up to all memory; so no block reaches past its end. Free
blocks are unlocked, and blocks in use have different handles. For the refinement each call is
reduced to one of five changes of the table, and the memory in use is bounded by placing each kilobyte
that was handed out at a different number of 1 to `TotalKb`.

*Controllers.* Bits in service are matched with the handlers on the stack that still owe an EOI,
innermost first in order of priority (`Matched`); a new handler must have higher priority than all of these, and
an EOI ends the first of them. While a chip is initialised its requests are held back (`HeldBack`).

*Keyboard.* A key that is held and that the handler has not stored is requested or is being handled
(`Announced`), which needs that programs leave the master as the BIOS set it up (`Plain`).

*Screen.* emu2's first row is on row `at - posy` of the terminal, which is never above the top, since
the counted row is at most the real one. The copy agrees with the terminal from there on (`Shows`); the rows behind
`output_row` are blank in both. While the screen is closed nothing is known of the copy, but all rows below
the cursor are blank (`BlankBelow`), which is what a program that opens it again starts from. Rows that the screen lost are blank
in video memory (`Cleared`), so a screen that grows again finds them as the terminal has them. The lemmas
follow one row: through `term_goto_xy`, which may scroll the terminal, through each row that is drawn, and
through the erased end.

*CPU.* Each instruction has a lemma for all bytes, words and shift counts, where the run has boundary
values. An adjustment depends on the instruction before it, so `IInv` has, next to `TypeOK` and
`SumsExact`, what a sum leaves for DAA, DAS, AAA and AAS (`Kept`: operands, carry and the upper half of AX), and
AAM for AAD (`Digits`). Flags are single bits of a wider sum; they become comparisons of numbers through
half of the range, `Sized(w, H)`. Decimal operands and sums are split into their digits. Quotients are right because
quotient and remainder are unique (`ComposedUnique`); the trap of IDIV is right because the
truncated quotient is the only one with a remainder of the right sign (`IsRest`). The shifts that compute with the
count are compared with repeated ones by induction over the count, with the powers of two up to 2^32 from a table; each
step of a rotate is a `Turn` of a number that is split at a power of two.
The exceptions in `DecimalExact` and `ShiftsAreRepeated` are the ones of section 4: the carry that
DAA loses, and the carry of SAR of a word.

Only model-checked: liveness of the keyboard (`KeyboardServed`, `KeyDelivered`), which rests on
fairness and is out of the prover's reach. Every invariant and every action property of the passing runs is stated by a theorem.

## 6. Plan

1. The composition of `FileHandles` with `DosMemory`: a handle table in a block of the arena, which
   exit frees before it reads it (dos.c:3609).
2. `FindFirst`: the search table; a bounded table against searches that end.
3. `Timer`: latch and byte order of the i8253, without the count itself.

## 7. Not modelled

- The IA-32 core in src/i386c: vendored code, three quarters of the lines of the repository. emu2's own
  C sources are about 17,000 lines; a third of them is file name and code page tables,
  the disassembler and logging, which are data.
- The rest of the 8086: logic instructions and moves, addressing, strings, stack and jumps, word
  multiplication and division, the parity flag.
- The timer (it counts host time in floating point), the A20 gate and the high memory area (flags
  that calls set), the find-first table, directory scans and file name translation (host I/O).
- Image parsing and relocation in the loader, reduced to the memory an image asks for.
- BIOS dispatch in main.c, a table of calls; the parts of it that raise and acknowledge
  interrupts are in `Pic` and `Keyboard`.
- UMBs, overlays (4B03h), and programs that switch PSPs themselves (AH=26h, 50h).
- What calls only answer, as the result of AH=0Fh of XMS, which leaves AX as it was when it succeeds.
- Contents: of files, of extended and expanded memory, of screen columns.
