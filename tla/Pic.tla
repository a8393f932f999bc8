---------------------------------- MODULE Pic ----------------------------------
(***************************************************************************)
(* The two cascaded i8259 interrupt controllers of src/src/pic.c, the      *)
(* devices that raise lines, and a program whose interrupt handlers        *)
(* acknowledge them.                                                       *)
(*                                                                         *)
(* Everything runs in one thread.  Devices raise lines when the emulator   *)
(* leaves execute() or a BIOS call polls the keyboard; handle_irq runs     *)
(* before each instruction while interrupts are enabled.  Handlers may     *)
(* enable interrupts at once, acknowledge early or late, and each          *)
(* acknowledges its own interrupt exactly once before it returns.          *)
(* Programs initialise a chip only while no handler runs.  Vectors         *)
(* (irq_base) and what a read of a port returns are left out.              *)
(***************************************************************************)
EXTENDS Naturals, Sequences, FiniteSetsExt

CONSTANTS
    Lines,         \* lines that devices raise, 0 .. 15
    Masks,         \* Masks[c]: values programs write to the IMR of chip c
    Initialised,   \* chips that programs initialise again with ICW1 .. ICW4
    AutoEoi,       \* values of the auto-EOI bit in ICW4
    SpecialNest,   \* values of the special-nested bit in ICW4
    SpecialMask,   \* values programs give to special mask mode with OCW3
    BiosLines,     \* lines whose vector programs leave to the BIOS
    MaxNesting     \* bound: interrupt handlers on the CPU's stack

Chips == {0, 1}    \* master, slave
Levels == 0 .. 7
CASCADED == 2

ASSUME PicAssumption ==
    /\ Lines \subseteq (0 .. 15) \ {CASCADED}
    /\ Masks \in [Chips -> SUBSET SUBSET Levels]
    /\ Initialised \subseteq Chips
    /\ AutoEoi \subseteq BOOLEAN
    /\ SpecialNest \subseteq BOOLEAN
    /\ SpecialMask \subseteq BOOLEAN
    /\ BiosLines \subseteq Lines
    /\ MaxNesting \in Nat \ {0}

VARIABLES
    pic,      \* registers of both chips
    IFlag,    \* interrupt flag of the CPU
    frames    \* handlers on the CPU's stack, innermost first

vars == <<pic, IFlag, frames>>

Chip == [initializing : 0 .. 3, auto_eoi : BOOLEAN, special_nest : BOOLEAN,
         special_mask : BOOLEAN, IMR : SUBSET Levels, IRR : SUBSET Levels,
         ISR : SUBSET Levels, pending : SUBSET Levels]

(* A handler: the line it serves, and the chips it still has to send EOI. *)
Frame == [irq : 0 .. 15, due : SUBSET Chips]

ChipOf(irq) == IF irq >= 8 THEN 1 ELSE 0
LevelOf(irq) == irq % 8

(* The level at which line irq shows on chip c. *)
LevelOn(c, irq) == IF c = ChipOf(irq) THEN LevelOf(irq) ELSE CASCADED

ResetChip(imr) ==
    [initializing |-> 0, auto_eoi |-> FALSE, special_nest |-> FALSE,
     special_mask |-> FALSE, IMR |-> imr, IRR |-> {}, ISR |-> {}, pending |-> {}]

Init ==
    /\ pic = [c \in Chips |-> ResetChip(IF c = 0 THEN 3 .. 7 ELSE Levels)]
    /\ IFlag = TRUE
    /\ frames = <<>>

--------------------------------------------------------------------------------
(* Mutant: the line reaches the IRR also while the chip is initialised.    *)
TriggeredAtOnce(p, irq) ==
    [p EXCEPT ![ChipOf(irq)].IRR = @ \cup {LevelOf(irq)}]

Triggered(p, irq) ==
    IF p[ChipOf(irq)].initializing # 0
    THEN [p EXCEPT ![ChipOf(irq)].pending = @ \cup {LevelOf(irq)}]
    ELSE [p EXCEPT ![ChipOf(irq)].IRR = @ \cup {LevelOf(irq)}]

cpuTriggerIRQ(irq) ==
    /\ pic' = Triggered(pic, irq)
    /\ UNCHANGED <<IFlag, frames>>

--------------------------------------------------------------------------------
(* Mutants: the scan does not look at the mask; it goes on over any level  *)
(* in service but the one it looks at.                                     *)
EligibleUnmasked(chip, passed, exempt) ==
    {l \in chip.IRR :
        /\ l \in chip.ISR => l \in exempt
        /\ \A h \in chip.ISR : h < l => h \in exempt \cup passed}

EligibleBelowService(chip, passed, exempt) ==
    {l \in chip.IRR :
        /\ chip.special_mask \/ l \notin chip.IMR
        /\ l \in chip.ISR => l \in exempt}

(* handle_irq.  Each chip is scanned from level 0 up.  A level that is in  *)
(* service ends the scan, unless it is passed over or exempt; a masked     *)
(* level is skipped, but not in special mask mode.                         *)
Eligible(chip, passed, exempt) ==
    {l \in chip.IRR :
        /\ chip.special_mask \/ l \notin chip.IMR
        /\ l \in chip.ISR => l \in exempt
        /\ \A h \in chip.ISR : h < l => h \in exempt \cup passed}

SlaveEligible ==
    Eligible(pic[1], IF pic[1].special_mask THEN pic[1].IMR ELSE {}, {})

(* The master looks at the slave's IMR here (pic.c:271). *)
MasterEligible(p) ==
    Eligible(p[0], IF p[0].special_mask THEN p[1].IMR ELSE {},
             IF p[0].special_nest THEN {CASCADED} ELSE {})

(* Mutant: the request stays in the IRR. *)
AckedStillRequested(chip, l, inService) ==
    [chip EXCEPT !.ISR = IF chip.auto_eoi THEN @ ELSE @ \cup {inService}]

Acked(chip, l, inService) ==
    [chip EXCEPT !.IRR = @ \ {l},
                 !.ISR = IF chip.auto_eoi THEN @ ELSE @ \cup {inService}]

(* The chips that wait for an EOI after line irq was accepted. *)
Due(irq) == {c \in {0, ChipOf(irq)} : ~ pic[c].auto_eoi}

Enter(irq) ==
    /\ IFlag' = FALSE
    /\ frames' = <<[irq |-> irq, due |-> Due(irq)]>> \o frames

(* What the slave asks for, seen by the master: IR2 is raised first. *)
Seen == IF SlaveEligible = {} THEN pic ELSE Triggered(pic, CASCADED)

Accept(l) ==
    /\ IFlag
    /\ Len(frames) < MaxNesting
    /\ l \in MasterEligible(Seen)
    /\ \A h \in MasterEligible(Seen) : l <= h

AcceptMaster(l) ==
    /\ Accept(l)
    /\ l # CASCADED
    /\ pic' = [Seen EXCEPT ![0] = Acked(@, l, l)]
    /\ Enter(l)

(* The slave's ISR gets the master's bit, CASCADED (pic.c:290). *)
AcceptSlave(l) ==
    /\ Accept(CASCADED)
    /\ l \in SlaveEligible
    /\ \A h \in SlaveEligible : l <= h
    /\ pic' = [Seen EXCEPT ![0] = Acked(@, CASCADED, CASCADED),
                           ![1] = Acked(@, l, CASCADED)]
    /\ Enter(8 + l)

(* IR2 was latched earlier, and the slave no longer has a request. *)
AcceptNothing ==
    /\ Accept(CASCADED)
    /\ SlaveEligible = {}
    /\ pic' = [Seen EXCEPT ![0] = Acked(@, CASCADED, CASCADED)]
    /\ UNCHANGED <<IFlag, frames>>

(* The slave's request is latched in the master, which cannot accept yet. *)
LatchCascade ==
    /\ IFlag
    /\ Len(frames) < MaxNesting
    /\ MasterEligible(Seen) = {}
    /\ pic' = Seen
    /\ pic' # pic
    /\ UNCHANGED <<IFlag, frames>>

handle_irq ==
    \/ \E l \in Levels : AcceptMaster(l)
    \/ \E l \in Levels : AcceptSlave(l)
    \/ AcceptNothing
    \/ LatchCascade

--------------------------------------------------------------------------------
(* Writes to the ports of a chip.  A write to the data port is ICW2, ICW3, *)
(* ICW4 or the IMR, by how far the initialisation has come.                *)
ICW1(c) ==
    /\ frames = <<>>
    /\ pic' = [pic EXCEPT ![c] =
                 [@ EXCEPT !.initializing = 1, !.IMR = {}, !.ISR = {}, !.IRR = {},
                           !.pending = {}, !.special_mask = FALSE]]
    /\ UNCHANGED <<IFlag, frames>>

(* Mutant: ICW4 is counted like the words before it. *)
ICW2or3or4(c) ==
    /\ pic[c].initializing # 0
    /\ pic' = [pic EXCEPT ![c].initializing = @ + 1]
    /\ UNCHANGED <<IFlag, frames>>

ICW2or3(c) ==
    /\ pic[c].initializing \in {1, 2}
    /\ pic' = [pic EXCEPT ![c].initializing = @ + 1]
    /\ UNCHANGED <<IFlag, frames>>

ICW4(c, autoEoi, specialNest) ==
    /\ pic[c].initializing = 3
    /\ pic' = [pic EXCEPT ![c] =
                 [@ EXCEPT !.auto_eoi = autoEoi, !.special_nest = specialNest,
                           !.initializing = 0, !.IRR = pic[c].pending]]
    /\ UNCHANGED <<IFlag, frames>>

OCW1(c, mask) ==
    /\ pic[c].initializing = 0
    /\ pic' = [pic EXCEPT ![c].IMR = mask]
    /\ UNCHANGED <<IFlag, frames>>

OCW3(c, mode) ==
    /\ pic' = [pic EXCEPT ![c].special_mask = mode]
    /\ UNCHANGED <<IFlag, frames>>

(* Mutant: the lowest priority in service ends. *)
NonSpecificLowest(chip) ==
    IF chip.ISR = {} THEN chip ELSE [chip EXCEPT !.ISR = @ \ {Max(@)}]

NonSpecific(chip) ==
    IF chip.ISR = {} THEN chip ELSE [chip EXCEPT !.ISR = @ \ {Min(@)}]

Specific(chip, l) == [chip EXCEPT !.ISR = @ \ {l}]

--------------------------------------------------------------------------------
(* The innermost handler acknowledges its interrupt to chip c with OCW2,   *)
(* to the slave before the master.                                         *)
Acknowledges(c) ==
    /\ frames # <<>>
    /\ c \in Head(frames).due
    /\ c = 0 => 1 \notin Head(frames).due
    /\ frames' = [frames EXCEPT ![1].due = @ \ {c}]
    /\ IFlag' = IFlag

OCW2NonSpecific(c) ==
    /\ Acknowledges(c)
    /\ pic' = [pic EXCEPT ![c] = NonSpecific(@)]

OCW2Specific(c) ==
    /\ Acknowledges(c)
    /\ pic' = [pic EXCEPT ![c] = Specific(@, LevelOn(c, Head(frames).irq))]

(* pic_eoi(num) ends line num of the master; num is below 8 in every call. *)
(* bios_routine passes the vector minus 8 or minus 70h, which for a line   *)
(* of the slave is its level, so that the slave gets no EOI.               *)
pic_eoi ==
    /\ frames # <<>>
    /\ Head(frames).irq \in BiosLines
    /\ Head(frames).due # {}
    /\ pic' = [pic EXCEPT ![0] = Specific(@, LevelOf(Head(frames).irq))]
    /\ frames' = [frames EXCEPT ![1].due = {}]
    /\ IFlag' = IFlag

(* CLI and STI of the program or of a handler, and IRET of a handler.      *)
SetIFlag(flag) ==
    /\ IFlag # flag
    /\ IFlag' = flag
    /\ UNCHANGED <<pic, frames>>

IRET ==
    /\ frames # <<>>
    /\ Head(frames).due = {}
    /\ IFlag' = TRUE
    /\ frames' = Tail(frames)
    /\ UNCHANGED pic

Next ==
    \/ \E irq \in Lines : cpuTriggerIRQ(irq)
    \/ handle_irq
    \/ \E c \in Initialised : ICW1(c)
    \/ \E c \in Initialised : ICW2or3(c)
    \/ \E c \in Initialised, a \in AutoEoi, n \in SpecialNest : ICW4(c, a, n)
    \/ \E c \in Chips : \E m \in Masks[c] : OCW1(c, m)
    \/ \E c \in Chips, m \in SpecialMask : OCW3(c, m)
    \/ \E c \in Chips : OCW2NonSpecific(c)
    \/ \E c \in Chips : OCW2Specific(c)
    \/ pic_eoi
    \/ \E flag \in BOOLEAN : SetIFlag(flag)
    \/ IRET

Spec == Init /\ [][Next]_vars
--------------------------------------------------------------------------------
TypeOK ==
    /\ pic \in [Chips -> Chip]
    /\ IFlag \in BOOLEAN
    /\ frames \in Seq(Frame)

Waiting(c) == {i \in DOMAIN frames : c \in frames[i].due}

(* What each chip holds to be in service is what handlers still have to    *)
(* acknowledge: an EOI, which names no line, always ends the interrupt of  *)
(* the handler that sends it, and a lost or a stray ISR bit blocks no line *)
(* for good (pic.c:147-163, 281-290).                                      *)
InServiceOwned ==
    \A c \in Chips :
        pic[c].ISR = {LevelOn(c, frames[i].irq) : i \in Waiting(c)}

(* No handler is interrupted by a line of its own or of lower priority     *)
(* before it has acknowledged its interrupt (pic.c:241-246, 268-274).      *)
StrictNesting ==
    \A c \in Chips : \A i, j \in Waiting(c) :
        i < j => LevelOn(c, frames[i].irq) < LevelOn(c, frames[j].irq)

(* Requests that are still to be served, with those held back while the    *)
(* chip is being initialised.                                              *)
Requests(c) ==
    pic[c].IRR \cup IF pic[c].initializing # 0 THEN pic[c].pending ELSE {}

Entered(irq) == Len(frames') = Len(frames) + 1 /\ frames'[1].irq = irq

(* A request is dropped only by ICW1 or by the start of its handler, also  *)
(* when it comes while the chip is being initialised (pic.c:222-225, 191). *)
NoLostRequest ==
    [][\A irq \in Lines :
          LET c == ChipOf(irq)
              l == LevelOf(irq)
          IN  l \in Requests(c) /\ l \notin Requests(c)' =>
                 Entered(irq) \/ pic'[c].initializing = 1]_vars

(* A handler starts only for a line that was requested and is not masked   *)
(* (pic.c:247-254, 274-280).                                               *)
NoMaskedInterrupt ==
    [][\A irq \in 0 .. 15 :
          Entered(irq) =>
             /\ LevelOf(irq) \in pic[ChipOf(irq)].IRR
             /\ LevelOf(irq) \notin pic[ChipOf(irq)].IMR]_vars

================================================================================
