------------------------------ MODULE FileHandles ------------------------------
(***************************************************************************)
(* DOS file handles: the system file table `filetable' of src/src/dos.c,   *)
(* the handle table (JFT) of each process, and the calls that open, close  *)
(* and duplicate handles, also those of FCBs, whose handle is kept in the  *)
(* FCB.  EXEC and AH=55h share the parent's files with the child, exit     *)
(* closes those of the process, a resident program keeps its own.  A JFT   *)
(* has all its entries or the few that fit in the PSP; AH=67h changes it.  *)
(*                                                                         *)
(* Processes are a line of descent (DosMemory, Lineage), and only its last *)
(* member runs.  Contents and positions of files are left out; of devinfo  *)
(* only whether it marks a regular file, and of the copy of the table in   *)
(* DOS memory only whether it shows an entry as used.                      *)
(***************************************************************************)
EXTENDS Naturals, Sequences, FiniteSetsExt

CONSTANTS
    Entries,      \* entries of filetable, 255 in the program
    Handles,      \* entries of a JFT, 255 in the program
    SmallTable,   \* entries of the JFT within the PSP, 20 in the program
    CutsOpen,     \* AH=67h may cut off handles that are open
    Standard,     \* entries restore_handles fills, 5 in the program
    Redirected,   \* of the first three entries, those on a regular file
    Procs,        \* processes
    Streams,      \* host streams
    MaxCount      \* bound: a handle of entry 1 is given away below this count

Sft == 0 .. Entries - 1
Jft == 0 .. Handles - 1

Unused == 255          \* a free handle
NULL == "NULL"
StdStream == "std"     \* stdin, stdout or stderr, which are never closed

ASSUME HandlesAssumption ==
    /\ Entries \in 1 .. 255
    /\ Handles \in 1 .. 255
    /\ SmallTable \in 1 .. Handles
    /\ CutsOpen \in BOOLEAN
    /\ Standard \in 2 .. 5
    /\ Standard <= Entries /\ Standard <= Handles
    /\ Redirected \subseteq 0 .. 2
    /\ {NULL, StdStream} \cap Streams = {}
    /\ Procs # {}
    /\ MaxCount \in Nat

VARIABLES
    filetable,   \* the system file table
    jft,         \* the handle table of each process
    size,        \* the entries it has
    line,        \* live processes, the running one first
    resident,    \* processes that ended with AH=31h
    opened       \* streams open on the host

vars == <<filetable, jft, size, line, resident, opened>>

(* shown: the copy of the entry in DOS memory says that it is in use. *)
Entry == [f : Streams \cup {NULL, StdStream}, count : Nat,
          isfile : BOOLEAN, shown : BOOLEAN]

FreeEntry == [f |-> NULL, count |-> 0, isfile |-> TRUE, shown |-> FALSE]

current == Head(line)
Using == {line[i] : i \in DOMAIN line} \cup resident

(* The handles of process p that name entry s. *)
Naming(p, s) == {h \in Jft : jft[p][h] = s}

(* Entries 2, 3 and 4 are all on stderr. *)
OnFile(s) == (IF s > 2 THEN 2 ELSE s) \in Redirected

(* init_handles and init_jft. *)
Init ==
    /\ filetable = [s \in Sft |->
          IF s < Standard
          THEN [f |-> StdStream, count |-> 1, isfile |-> OnFile(s), shown |-> FALSE]
          ELSE FreeEntry]
    /\ \E p \in Procs :
          /\ line = <<p>>
          /\ jft = [q \in Procs |-> [h \in Jft |->
                       IF q = p /\ h < Standard THEN h ELSE Unused]]
    /\ size = [q \in Procs |-> Handles]
    /\ resident = {}
    /\ opened = {}

--------------------------------------------------------------------------------
(* get_new_sft and the search of get_new_handle. *)
FreeSft == {s \in Sft : filetable[s].count = 0 /\ filetable[s].f = NULL}
FreeHandles == {h \in Naming(current, Unused) : h < size[current]}

(* A new handle on a new entry, which holds stream f. *)
Assign(f, isfile) ==
    /\ FreeHandles # {}
    /\ FreeSft # {}
    /\ LET h == Min(FreeHandles)
           s == Min(FreeSft)
       IN  /\ jft' = [jft EXCEPT ![current][h] = s]
           /\ filetable' = [filetable EXCEPT ![s] =
                 [f |-> f, count |-> 1, isfile |-> isfile,
                  shown |-> IF f # NULL /\ isfile THEN TRUE ELSE @.shown]]
    /\ UNCHANGED <<size, line, resident>>

(* Open or create by name or by FCB; a device is no regular file.          *)
dos_open_file(x, isfile) ==
    /\ x \notin opened
    /\ Assign(x, isfile)
    /\ opened' = opened \cup {x}

(* The mode is wrong or the host refuses: the handle is not given back     *)
(* (dos.c:415-420, 438-453, 541-549).                                      *)
OpenRefused ==
    /\ Assign(NULL, TRUE)
    /\ UNCHANGED opened

--------------------------------------------------------------------------------
(* Mutant: an entry that is still in use is taken off the copy.            *)
ReleasedUnshown(e, n) ==
    CASE e.f = NULL  -> [e EXCEPT !.count = 0]
      [] e.f # NULL /\ e.count > n ->
            [e EXCEPT !.count = @ - n, !.shown = @ /\ ~ e.isfile]
      [] OTHER -> [FreeEntry EXCEPT !.shown = e.shown /\ ~ e.isfile]

(* Entry e after n of its handles were closed by dos_close_file. *)
Released(e, n) ==
    CASE e.f = NULL  -> [e EXCEPT !.count = 0]
      [] e.f # NULL /\ e.count > n ->
            [e EXCEPT !.count = @ - n, !.shown = @ \/ e.isfile]
      [] OTHER -> [FreeEntry EXCEPT !.shown = e.shown /\ ~ e.isfile]

(* The stream that is closed with it. *)
Fclosed(e, n) == IF e.count > n THEN {} ELSE {e.f} \ {NULL, StdStream}

dos_close_file(h) ==
    LET s == jft[current][h]
    IN  /\ s # Unused
        /\ jft' = [jft EXCEPT ![current][h] = Unused]
        /\ filetable' = [filetable EXCEPT ![s] = Released(@, 1)]
        /\ opened' = opened \ Fclosed(filetable[s], 1)
        /\ UNCHANGED <<size, line, resident>>

(* Mutant: the entry that h named is not closed. *)
SetHandleOver(h, s) ==
    /\ jft' = [jft EXCEPT ![current][h] = s]
    /\ filetable' = [filetable EXCEPT ![s].count = @ + 1]
    /\ UNCHANGED <<opened, size, line, resident>>

(* What h named is closed first, unless it is entry 1: the code compares   *)
(* the entry times 0xFF with 0xFF (dos.c:283).                             *)
set_handle(h, s) ==
    LET prev == jft[current][h]
        closes == prev \notin {Unused, 1}
        table == IF closes THEN [filetable EXCEPT ![prev] = Released(@, 1)]
                           ELSE filetable
    IN  /\ jft' = [jft EXCEPT ![current][h] = s]
        /\ filetable' = [table EXCEPT ![s].count = @ + 1]
        /\ opened' = IF closes THEN opened \ Fclosed(filetable[prev], 1) ELSE opened
        /\ UNCHANGED <<size, line, resident>>

IsOpen(h) ==
    /\ jft[current][h] # Unused
    /\ filetable[jft[current][h]].f # NULL

DUP(h) ==
    /\ IsOpen(h)
    /\ FreeHandles # {}
    /\ set_handle(Min(FreeHandles), jft[current][h])

(* AH=46h with the same handle twice, which DOS does not allow either, is  *)
(* left out.                                                               *)
DUP2(h, g) ==
    /\ h # g
    /\ g < size[current]
    /\ IsOpen(h)
    /\ jft[current][g] = 1 => filetable[1].count <= MaxCount
    /\ set_handle(g, jft[current][h])

(* AH=67h: the table moves into the PSP, or to a block of its own again.   *)
(* What it cuts off is not closed.                                         *)
SetHandleCount(n) ==
    /\ n # size[current]
    /\ CutsOpen \/ \A h \in n .. Handles - 1 : jft[current][h] = Unused
    /\ size' = [size EXCEPT ![current] = n]
    /\ jft' = [jft EXCEPT ![current] = [h \in Jft |-> IF h < n THEN @[h] ELSE Unused]]
    /\ UNCHANGED <<filetable, line, resident, opened>>

--------------------------------------------------------------------------------
(* Mutant: what is in the standard entries is replaced. *)
RestoreAll(table) ==
    [s \in Sft |->
        IF s < Standard
        THEN [table[s] EXCEPT !.f = StdStream, !.isfile = s \in Redirected]
        ELSE table[s]]

(* restore_handles: closed standard entries are opened again. *)
Restored(table) ==
    [s \in Sft |->
        IF s < Standard /\ table[s].f \in {NULL, StdStream}
        THEN [table[s] EXCEPT !.f = StdStream,
                              !.isfile = IF s < 3 THEN s \in Redirected ELSE @]
        ELSE table[s]]

(* copy_jft: entries without a stream are not handed to the child, which  *)
(* has a table of n.                                                       *)
Inherited(h, n) == IF h < n /\ IsOpen(h) THEN jft[current][h] ELSE Unused

(* Mutant: the child's handles are not counted. *)
SharedUncounted(n) == filetable

Shared(n) ==
    [s \in Sft |-> [filetable[s] EXCEPT
        !.count = @ + Cardinality({h \in Jft : Inherited(h, n) = s})]]

BecomesChild(p, n) ==
    /\ line' = <<p>> \o line
    /\ jft' = [jft EXCEPT ![p] = [h \in Jft |-> Inherited(h, n)]]
    /\ size' = [size EXCEPT ![p] = n]
    /\ UNCHANGED <<resident, opened>>

(* AH=4Bh; al = 1 only loads the child and does not restore handles. *)
Exec(al) ==
    \E p \in Procs \ Using :
        /\ BecomesChild(p, Handles)
        /\ filetable' = IF al = 0 THEN Restored(Shared(Handles)) ELSE Shared(Handles)

(* AH=55h: a program makes its own child, which runs from then on. *)
CreateChildPSP ==
    \E p \in Procs \ Using :
        /\ BecomesChild(p, SmallTable)
        /\ filetable' = Shared(SmallTable)

(* dos_close_allfile_owned: every handle of the process is closed. *)
AllReleased ==
    [s \in Sft |->
        LET n == Cardinality(Naming(current, s))
        IN  IF n = 0 THEN filetable[s] ELSE Released(filetable[s], n)]

AllFclosed ==
    UNION {Fclosed(filetable[s], Cardinality(Naming(current, s))) :
              s \in {t \in Sft : Naming(current, t) # {}}}

(* Mutant: the first process returns to a parent, too. *)
ExitOfAny ==
    /\ line' = Tail(line)
    /\ jft' = [jft EXCEPT ![current] = [h \in Jft |-> Unused]]
    /\ filetable' = Restored(AllReleased)
    /\ opened' = opened \ AllFclosed
    /\ size' = [size EXCEPT ![current] = Handles]
    /\ UNCHANGED resident

(* With the first process the emulator ends; that is left out. *)
Exit ==
    /\ Len(line) > 1
    /\ line' = Tail(line)
    /\ jft' = [jft EXCEPT ![current] = [h \in Jft |-> Unused]]
    /\ filetable' = Restored(AllReleased)
    /\ opened' = opened \ AllFclosed
    /\ size' = [size EXCEPT ![current] = Handles]
    /\ UNCHANGED resident

KeepResident ==
    /\ Len(line) > 1
    /\ line' = Tail(line)
    /\ resident' = resident \cup {current}
    /\ filetable' = Restored(filetable)
    /\ UNCHANGED <<jft, size, opened>>

Next ==
    \/ \E x \in Streams, isfile \in BOOLEAN : dos_open_file(x, isfile)
    \/ OpenRefused
    \/ \E h \in Jft : dos_close_file(h)
    \/ \E h \in Jft : DUP(h)
    \/ \E h, g \in Jft : DUP2(h, g)
    \/ \E n \in {SmallTable, Handles} : SetHandleCount(n)
    \/ \E al \in {0, 1} : Exec(al)
    \/ CreateChildPSP
    \/ Exit
    \/ KeepResident

Spec == Init /\ [][Next]_vars
--------------------------------------------------------------------------------
TypeOK ==
    /\ filetable \in [Sft -> Entry]
    /\ jft \in [Procs -> [Jft -> Sft \cup {Unused}]]
    /\ size \in [Procs -> {SmallTable, Handles}]
    /\ line \in Seq(Procs) /\ line # <<>>
    /\ resident \subseteq Procs
    /\ opened \subseteq Streams

References(s) == {x \in Using \X Jft : jft[x[1]][x[2]] = s}

(* The count of an entry is the number of handles of all processes, the    *)
(* resident ones included, that name it; only that of entry 1 may be too   *)
(* high (dos.c:156-316, 3608-3612).                                        *)
CountsMatch ==
    \A s \in Sft :
        LET n == Cardinality(References(s))
        IN  IF s = 1 THEN filetable[s].count >= n ELSE filetable[s].count = n

(* A host stream that is open is held by exactly one entry, and no entry   *)
(* holds a closed one: nothing is read through a dead FILE pointer, and    *)
(* nothing is closed twice or forgotten (dos.c:232-264, 139-154).          *)
HostStreams ==
    /\ opened = {filetable[s].f : s \in Sft} \ {NULL, StdStream}
    /\ \A s, t \in Sft : filetable[s].f = filetable[t].f
                            => s = t \/ filetable[s].f \in {NULL, StdStream}

(* The copy of the table in DOS memory shows every regular file that is    *)
(* open and no entry that is free (dos.c:746-852, 251, 473).               *)
CopyAgrees ==
    \A s \in Sft :
        /\ filetable[s].f \in Streams /\ filetable[s].isfile => filetable[s].shown
        /\ filetable[s].shown => filetable[s].f # NULL

(* A handle that names an open file, of whatever process, names the same   *)
(* open file until it is closed or given to another entry itself: a child  *)
(* cannot close its parent's files (dos.c:232-264, 302-316).               *)
HandleKeepsFile ==
    [][\A p \in Using, h \in Jft :
          LET s == jft[p][h]
          IN  s # Unused /\ p \in Using' /\ jft'[p][h] = s /\ filetable[s].f # NULL
                 => filetable'[s].f = filetable[s].f]_vars

(* Nothing stays open for nobody: exit is to "Close all files"             *)
(* (dos.c:3610), so a stream is open only while some handle names it.      *)
NoForgottenFile ==
    \A s \in Sft : filetable[s].f \in Streams => References(s) # {}

(* A call that is to "fail" (dos.c:430) leaves no handle behind: every     *)
(* handle in use names an open file.                                       *)
NoDeadHandle ==
    \A p \in Using, h \in Jft :
        jft[p][h] # Unused => filetable[jft[p][h]].f # NULL
================================================================================
