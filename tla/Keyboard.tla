-------------------------------- MODULE Keyboard --------------------------------
(***************************************************************************)
(* The keyboard of src/src/keyb.c, with the interrupt controllers of Pic   *)
(* and a program that reads keys through INT 16h and INT 21h.              *)
(*                                                                         *)
(* emu2 holds one key at a time, queued_key.  kbhit takes a key from the   *)
(* terminal when there is none and raises IRQ 1; the BIOS handler of IRQ 1 *)
(* copies the key to the buffer at 40:1Eh; getch hands it to the program   *)
(* and takes it out of the buffer.  emu2 runs in one thread: while a call  *)
(* waits in getch no instruction runs, so no interrupt is accepted.        *)
(*                                                                         *)
(* Keys are the numbers 1, 2, ... in the order in which they are typed.    *)
(* A key is what read_key returns.  Input that it consumes and drops with  *)
(* -1 (UTF-8 that is cut off, characters the code page has not) is as if   *)
(* it had not been typed; the second byte of a DBCS character (prev_key),  *)
(* which the next call returns without a read, is a key of its own.  Shift *)
(* states, control-break, input from files and the controller's own        *)
(* commands (ports 60h and 64h) are left out, and so are programs that     *)
(* have a keyboard handler of their own.                                   *)
(***************************************************************************)
EXTENDS Pic

CONSTANTS
    Kinds,       \* kinds of keys that are typed, of KeyKinds
    MaxKeys,     \* bound: keys typed
    BufSlots,    \* slots of the BIOS buffer, 16
    Polls        \* the program asks for a key first, and reads when it is told yes

(* A character; a key with a scan code alone (low byte 0), which INT 21h   *)
(* gives in two bytes; what read_key does not know, and returns as 0.      *)
KeyKinds == {"char", "ext", "null"}

ASSUME KeyboardAssumption ==
    /\ Kinds \subseteq KeyKinds
    /\ MaxKeys \in Nat
    /\ BufSlots \in Nat \ {0}
    /\ Polls \in BOOLEAN
    /\ {0, 1} \subseteq Lines

VARIABLES
    typed,         \* kinds of the keys typed so far
    nread,         \* keys that emu2 has taken from the terminal
    queued_key,    \* the key held, 0 when there is none (-1 in the code)
    inp_last_key,  \* the key whose scan code INT 21h gives next, or 0
    taken,         \* keys that getch has handed out
    tty_fd,        \* the terminal is open
    call,          \* the call that sits in getch
    buf            \* the BIOS buffer: its slots from 40:1Eh, and where 40:1Ah
                   \* (head) and 40:1Ch (tail) point; a slot without a key is 0

keyVars == <<typed, nread, queued_key, inp_last_key, taken, tty_fd, call, buf>>
allVars == <<vars, keyVars>>

Slots == 0 .. BufSlots - 1

KeyInit ==
    /\ Init
    /\ typed = <<>>
    /\ nread = 0
    /\ queued_key = 0
    /\ inp_last_key = 0
    /\ taken = 0
    /\ tty_fd = FALSE
    /\ call = "none"
    /\ buf = [head |-> 0, tail |-> 0, slot |-> [p \in Slots |-> 0]]

Ahead(p) == (p + 1) % BufSlots

Type(kind) ==
    /\ Len(typed) < MaxKeys
    /\ typed' = Append(typed, kind)
    /\ UNCHANGED <<vars, nread, queued_key, inp_last_key, taken, tty_fd, call, buf>>

--------------------------------------------------------------------------------
(* kbhit, from a caller that raised the lines of p before.                 *)
(* Mutants: a key is taken although one is held; nobody hears of the key.  *)
KbhitAlways(p) ==
    /\ tty_fd' = TRUE
    /\ IF nread = Len(typed)
       THEN pic' = p /\ UNCHANGED <<nread, queued_key>>
       ELSE /\ nread' = nread + 1
            /\ queued_key' = nread + 1
            /\ pic' = Triggered(p, 1)

KbhitSilent(p) ==
    IF queued_key # 0
    THEN pic' = p /\ UNCHANGED <<tty_fd, nread, queued_key>>
    ELSE /\ tty_fd' = TRUE
         /\ pic' = p
         /\ nread' = IF nread = Len(typed) THEN nread ELSE nread + 1
         /\ queued_key' = IF nread = Len(typed) THEN 0 ELSE nread + 1

kbhit(p) ==
    IF queued_key # 0
    THEN pic' = p /\ UNCHANGED <<tty_fd, nread, queued_key>>
    ELSE /\ tty_fd' = TRUE
         /\ IF nread = Len(typed)
            THEN pic' = p /\ UNCHANGED <<nread, queued_key>>
            ELSE /\ nread' = nread + 1
                 /\ queued_key' = nread + 1
                 /\ pic' = Triggered(p, 1)

(* What kbhit returns is the key itself: 0 for one that is not known. *)
Answers(key) == key # 0 /\ typed[key] # "null"

(* Before each instruction handle_irq accepts what it can. *)
Instruction ==
    /\ call = "none"
    /\ IFlag => MasterEligible(Seen) = {}

(* INT 16h AH=01h, 02h; INT 21h AH=0Bh, AX=2509h; reads of ports 60h, 64h. *)
Poll ==
    /\ Instruction
    /\ frames = <<>>
    /\ kbhit(pic)
    /\ UNCHANGED <<IFlag, frames, typed, inp_last_key, taken, call, buf>>

(* The main loop, when the interval timer stopped execute().  The keyboard *)
(* is looked at once a program has used it.  The ticks are 55 ms apart: a  *)
(* handler of IRQ 0 has ended before the next one.                         *)
emulator_update ==
    /\ call = "none"
    /\ \A i \in DOMAIN frames : frames[i].irq # 0
    /\ IF tty_fd
       THEN kbhit(Triggered(pic, 0))
       ELSE pic' = Triggered(pic, 0) /\ UNCHANGED <<tty_fd, nread, queued_key>>
    /\ UNCHANGED <<IFlag, frames, typed, inp_last_key, taken, call, buf>>

--------------------------------------------------------------------------------
(* INT 16h AH=00h, and INT 21h AH=01h, 06h, 07h, 08h. *)
intr16 ==
    /\ Instruction
    /\ frames = <<>>
    /\ Polls => Answers(queued_key)
    /\ call' = "bios"
    /\ UNCHANGED <<vars, typed, nread, queued_key, inp_last_key, taken, tty_fd, buf>>

char_input ==
    /\ Instruction
    /\ frames = <<>>
    /\ inp_last_key = 0
    /\ Polls => Answers(queued_key)
    /\ call' = "dos"
    /\ UNCHANGED <<vars, typed, nread, queued_key, inp_last_key, taken, tty_fd, buf>>

(* The scan code of the key before; getch is not called. *)
SecondByte ==
    /\ Instruction
    /\ frames = <<>>
    /\ inp_last_key # 0
    /\ inp_last_key' = 0
    /\ UNCHANGED <<vars, typed, nread, queued_key, taken, tty_fd, call, buf>>

(* Mutant: getch leaves it to emulator_update to look for a key. *)
WaitBlindly ==
    /\ call # "none"
    /\ queued_key = 0
    /\ pic' = Triggered(pic, 0)
    /\ UNCHANGED <<IFlag, frames, keyVars>>

(* One round of the loop in getch.  When kbhit returns 0, be it for a key  *)
(* that is not known, emulator_update follows, which raises IRQ 0 and does *)
(* not look at the keyboard (waiting_key).                                 *)
WaitInGetch ==
    /\ call # "none"
    /\ queued_key = 0
    /\ \/ nread < Len(typed) /\ typed[nread + 1] # "null" /\ kbhit(pic)
       \/ nread < Len(typed) /\ typed[nread + 1] = "null" /\ kbhit(Triggered(pic, 0))
       \/ nread = Len(typed) /\ kbhit(Triggered(pic, 0))
    /\ UNCHANGED <<IFlag, frames, typed, inp_last_key, taken, call, buf>>

(* Mutant: the key stays. *)
GetchKeeps ==
    /\ call # "none"
    /\ queued_key # 0
    /\ taken' = taken + 1
    /\ buf' = [buf EXCEPT !.head = Ahead(@)]
    /\ inp_last_key' = IF call = "dos" /\ typed[queued_key] = "ext" THEN queued_key ELSE inp_last_key
    /\ call' = "none"
    /\ UNCHANGED <<vars, typed, nread, queued_key, tty_fd>>

getch ==
    /\ call # "none"
    /\ queued_key # 0
    /\ taken' = taken + 1
    /\ queued_key' = 0
    /\ buf' = [buf EXCEPT !.head = Ahead(@)]
    /\ inp_last_key' = IF call = "dos" /\ typed[queued_key] = "ext" THEN queued_key ELSE inp_last_key
    /\ call' = "none"
    /\ UNCHANGED <<vars, typed, nread, tty_fd>>

--------------------------------------------------------------------------------
(* bios_routine for vector 09h: the EOI, then keyb_handle_irq, which takes *)
(* what queued_key is now: FFFFh, here 0, when getch was faster.           *)
keyb_handle_irq ==
    /\ call = "none"
    /\ frames # <<>>
    /\ Head(frames).irq = 1
    /\ pic_eoi
    /\ buf' = [buf EXCEPT !.slot[buf.tail] = queued_key, !.tail = Ahead(@)]
    /\ UNCHANGED <<typed, nread, queued_key, inp_last_key, taken, tty_fd, call>>

(* Everything else the CPU does: it accepts interrupts, the handler of     *)
(* IRQ 0 runs and programs disable and enable interrupts.                  *)
TimerHandler == frames # <<>> /\ Head(frames).irq = 0

AcceptIRQ ==
    /\ call = "none"
    /\ handle_irq
    /\ UNCHANGED keyVars

TimerEOI ==
    /\ Instruction
    /\ TimerHandler
    /\ OCW2Specific(0)
    /\ UNCHANGED keyVars

CliSti(flag) ==
    /\ Instruction
    /\ TimerHandler \/ frames = <<>>
    /\ SetIFlag(flag)
    /\ UNCHANGED keyVars

Return ==
    /\ Instruction
    /\ IRET
    /\ UNCHANGED keyVars

KeyNext ==
    \/ \E kind \in Kinds : Type(kind)
    \/ Poll
    \/ emulator_update
    \/ intr16
    \/ char_input
    \/ SecondByte
    \/ WaitInGetch
    \/ getch
    \/ keyb_handle_irq
    \/ AcceptIRQ
    \/ TimerEOI
    \/ \E flag \in BOOLEAN : CliSti(flag)
    \/ Return

(* Liveness.  The program goes on: it enables interrupts again, ends its   *)
(* handlers and asks for keys again and again, and emu2 does what it is    *)
(* asked.  Thousands of instructions run between two ticks, and handle_irq *)
(* before each while interrupts are enabled: the strong fairness.          *)
KeyFairness ==
    /\ WF_allVars(CliSti(TRUE))
    /\ WF_allVars(TimerEOI)
    /\ WF_allVars(keyb_handle_irq)
    /\ WF_allVars(Return)
    /\ SF_allVars(AcceptIRQ)
    /\ SF_allVars(AcceptMaster(1) /\ AcceptIRQ)
    /\ WF_allVars(nread < Len(typed) /\ WaitInGetch)
    /\ WF_allVars(getch)
    /\ SF_allVars(Poll)
    /\ SF_allVars(intr16 \/ char_input \/ SecondByte)

KeySpec == KeyInit /\ [][KeyNext]_allVars /\ KeyFairness
--------------------------------------------------------------------------------
KeyTypeOK ==
    /\ TypeOK
    /\ typed \in Seq(Kinds)
    /\ nread \in 0 .. Len(typed)
    /\ queued_key \in 0 .. nread
    /\ inp_last_key \in 0 .. taken
    /\ taken \in 0 .. nread
    /\ tty_fd \in BOOLEAN
    /\ call \in {"none", "bios", "dos"}
    /\ buf \in [head : Slots, tail : Slots, slot : [Slots -> 0 .. nread]]

(* Every key that read_key returned is the one held or was handed out,     *)
(* once and in the order typed, whether the main loop, a poll or a read    *)
(* found it (keyb.c:457-460, 498-510, 519).                                *)
NoKeyLost ==
    /\ nread = taken + (IF queued_key = 0 THEN 0 ELSE 1)
    /\ queued_key # 0 => queued_key = taken + 1

(* The interrupt of the key that is held was served. *)
HeldServed ==
    /\ queued_key # 0
    /\ 1 \notin pic[0].IRR
    /\ \A i \in Waiting(0) : frames[i].irq # 1

(* Once its interrupt was served, the key that is held is in memory, in    *)
(* the slot behind which the handler left the tail, also when the request  *)
(* was raised for a key before it (keyb.c:461, 621-628).                   *)
KeyStored ==
    HeldServed => \E p \in Slots : Ahead(p) = buf.tail /\ buf.slot[p] = queued_key

(* What programs find that read the buffer themselves: the slots from head *)
(* up to tail.                                                             *)
Pending ==
    {p \in Slots :
        (p + BufSlots - buf.head) % BufSlots < (buf.tail + BufSlots - buf.head) % BufSlots}

(* And they find the key there (keyb.c:623 "The BIOS should read a key     *)
(* pressed here and add it to the keyboard buffer").  It fails: getch      *)
(* moves the head on for each key, the handler the tail for each           *)
(* interrupt, and one interrupt can stand for two keys.                    *)
KeyInBuffer ==
    HeldServed => \E p \in Pending : buf.slot[p] = queued_key

(* A request of IRQ 1 is served, however often the timer interrupts, or    *)
(* the program sits in getch, where no interrupt is accepted.              *)
KeyboardServed ==
    1 \in pic[0].IRR ~> (call # "none" \/ \E i \in DOMAIN frames : frames[i].irq = 1)

(* Each key that is typed, and that emu2 knows, reaches the program        *)
(* (dos.c:1370 "Returns true if a character to read is pending").          *)
KeyDelivered ==
    \A k \in 1 .. MaxKeys :
        Len(typed) >= k /\ typed[k] # "null" ~> taken >= k
================================================================================
