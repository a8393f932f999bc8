----------------------------------- MODULE Alu ----------------------------------
(***************************************************************************)
(* The arithmetic of the 8086 in src/src/cpu.c: how an instruction computes*)
(* its result and the flags.  The code takes carries and overflows from    *)
(* single bits of a wider sum and has one form for bytes and one for words;*)
(* here the width w is a parameter.  What ModRM addresses is an operand y. *)
(*                                                                         *)
(* A step is one instruction on AX; last says which, and on what.  MOV     *)
(* changes no flag, so that a carry goes on to the next instruction, as in *)
(* the loops that add long numbers.                                        *)
(***************************************************************************)
EXTENDS Integers

CONSTANTS
    Loaded,         \* what AX may hold at first
    Moved,          \* words that MOV brings to AX later
    ByteOperands,
    WordOperands,
    Counts          \* shift counts, CL or immediate

(* The numbers of w bits. *)
Numbers(w) == 0 .. 2^w - 1

ASSUME AluAssumption ==
    /\ Loaded \subseteq Numbers(16)
    /\ Moved \subseteq Numbers(16)
    /\ ByteOperands \subseteq Numbers(8)
    /\ WordOperands \subseteq Numbers(16)
    /\ Counts \subseteq Numbers(8)

VARIABLES
    ax,
    fl,     \* CF, AF, OF, ZF, SF
    last    \* the instruction, its operands, AX and the carry before it

vars == <<ax, fl, last>>

Bit(x, n) == (x \div 2^n) % 2
Flag(p) == IF p THEN 1 ELSE 0
Wrap(x, w) == x % 2^w
Signed(x, w) == IF Bit(x, w - 1) = 1 THEN x - 2^w ELSE x
Operands(w) == IF w = 8 THEN ByteOperands ELSE WordOperands

Init ==
    /\ ax \in Loaded
    /\ fl = [CF |-> 0, AF |-> 0, OF |-> 0, ZF |-> 0, SF |-> 0]
    /\ last = [op |-> "MOV"]

(* AL or AX, and AX with a new AL. *)
Dest(w) == Wrap(ax, w)
With(r, w) == (ax \div 2^w) * 2^w + r

(* SetZFB, SetSFB and their word forms. *)
Marked(f, r, w) == [f EXCEPT !.ZF = Flag(r = 0), !.SF = Bit(r, w - 1)]

(* MOV AX, v *)
MovAX(v) ==
    /\ last.op # "MOV"
    /\ ax' = v
    /\ last' = [op |-> "MOV"]
    /\ UNCHANGED fl

--------------------------------------------------------------------------------
(* ADD_8, ADC_8 and their word forms; SUB, SBB, CMP. *)
(* Mutant: the borrow of a difference taken as the carry of a sum. *)
CarryShifted(tmp, w) == tmp \div 2^w

Carry(tmp, w) == Bit(tmp, w)

(* Mutant: overflow as the subtraction has it. *)
SumFlagsOfDifference(x, y, tmp, w) ==
    Marked([fl EXCEPT !.CF = Carry(tmp, w),
                      !.OF = Flag(Bit(x, w - 1) # Bit(y, w - 1)
                                  /\ Bit(x, w - 1) # Bit(tmp, w - 1)),
                      !.AF = (Bit(tmp, 4) + Bit(x, 4) + Bit(y, 4)) % 2],
           Wrap(tmp, w), w)

SumFlags(x, y, tmp, w) ==
    Marked([fl EXCEPT !.CF = Carry(tmp, w),
                      !.OF = Flag(Bit(tmp, w - 1) # Bit(y, w - 1)
                                  /\ Bit(tmp, w - 1) # Bit(x, w - 1)),
                      !.AF = (Bit(tmp, 4) + Bit(x, 4) + Bit(y, 4)) % 2],
           Wrap(tmp, w), w)

DiffFlags(x, y, tmp, w) ==
    Marked([fl EXCEPT !.CF = Carry(tmp, w),
                      !.OF = Flag(Bit(x, w - 1) # Bit(y, w - 1)
                                  /\ Bit(x, w - 1) # Bit(tmp, w - 1)),
                      !.AF = (Bit(tmp, 4) + Bit(x, 4) + Bit(y, 4)) % 2],
           Wrap(tmp, w), w)

Did(op, y, w) ==
    [op |-> op, x |-> Dest(w), y |-> y, w |-> w, CF |-> fl.CF, ax |-> ax]

Fresh == last.op = "MOV"

Add(y, w, op) ==
    LET tmp == Dest(w) + y + (IF op = "ADC" THEN fl.CF ELSE 0)
    IN  /\ Fresh
        /\ fl' = SumFlags(Dest(w), y, tmp, w)
        /\ ax' = With(Wrap(tmp, w), w)
        /\ last' = Did(op, y, w)

Sub(y, w, op) ==
    LET tmp == Dest(w) - y - (IF op = "SBB" THEN fl.CF ELSE 0)
    IN  /\ Fresh
        /\ fl' = DiffFlags(Dest(w), y, tmp, w)
        /\ ax' = IF op = "CMP" THEN ax ELSE With(Wrap(tmp, w), w)
        /\ last' = Did(op, y, w)

(* INC and DEC leave the carry alone. *)
Inc(w) ==
    LET r == Wrap(Dest(w) + 1, w)
    IN  /\ Fresh
        /\ fl' = Marked([fl EXCEPT !.OF = Flag(r = 2^(w - 1)),
                                   !.AF = (Bit(r, 4) + Bit(r - 1, 4)) % 2], r, w)
        /\ ax' = With(r, w)
        /\ last' = Did("INC", 1, w)

Dec(w) ==
    LET r == Wrap(Dest(w) - 1, w)
    IN  /\ Fresh
        /\ fl' = Marked([fl EXCEPT !.OF = Flag(r = 2^(w - 1) - 1),
                                   !.AF = (Bit(r, 4) + Bit(r + 1, 4)) % 2], r, w)
        /\ ax' = With(r, w)
        /\ last' = Did("DEC", 1, w)

Neg(w) ==
    LET r == Wrap(2^w - Dest(w), w)
    IN  /\ Fresh
        /\ fl' = Marked([fl EXCEPT !.CF = Flag(r # 0), !.OF = Flag(r = 2^(w - 1)),
                                   !.AF = (Bit(r, 4) + Bit(2^w - r, 4)) % 2], r, w)
        /\ ax' = With(r, w)
        /\ last' = Did("NEG", 0, w)

--------------------------------------------------------------------------------
(* Decimal adjustment of what the instruction before left in AL. *)
Adjusting(op) == [op |-> op, of |-> last]

LowInvalid == fl.AF = 1 \/ ax % 16 > 9

(* Mutant: one too high. *)
DaaHighNotA0(al) == al > 160

(* AL is a byte: the sum with 6 has wrapped. *)
DaaHigh(al) == al > 159

i_daa ==
    LET al == IF LowInvalid THEN (Dest(8) + 6) % 256 ELSE Dest(8)
        high == fl.CF = 1 \/ DaaHigh(al)
        r == IF high THEN (al + 96) % 256 ELSE al
    IN  /\ last.op \in {"ADD", "ADC"} /\ last.w = 8
        /\ ax' = With(r, 8)
        /\ fl' = Marked([fl EXCEPT !.AF = Flag(LowInvalid), !.CF = Flag(high)], r, 8)
        /\ last' = Adjusting("DAA")

i_das ==
    LET old == Dest(8)
        al == IF LowInvalid THEN (old - 6) % 256 ELSE old
        high == fl.CF = 1 \/ old > 153
        r == IF high THEN (al - 96) % 256 ELSE al
        borrow == LowInvalid /\ (fl.CF = 1 \/ old < 6)
    IN  /\ last.op \in {"SUB", "SBB"} /\ last.w = 8
        /\ ax' = With(r, 8)
        /\ fl' = Marked([fl EXCEPT !.AF = Flag(LowInvalid), !.CF = Flag(high \/ borrow)], r, 8)
        /\ last' = Adjusting("DAS")

i_aaa ==
    LET r == IF LowInvalid
             THEN ((ax \div 256 + 1) % 256) * 256 + ((ax + 6) % 16)
             ELSE (ax \div 256) * 256 + (ax % 16)
    IN  /\ last.op \in {"ADD", "ADC"} /\ last.w = 8
        /\ ax' = r
        /\ fl' = Marked([fl EXCEPT !.AF = Flag(LowInvalid), !.CF = Flag(LowInvalid)], r % 256, 8)
        /\ last' = Adjusting("AAA")

i_aas ==
    LET s == (ax - 262) % 65536
        r == IF LowInvalid
             THEN (s \div 256) * 256 + (s % 16)
             ELSE (ax \div 256) * 256 + (ax % 16)
    IN  /\ last.op \in {"SUB", "SBB"} /\ last.w = 8
        /\ ax' = r
        /\ fl' = Marked([fl EXCEPT !.AF = Flag(LowInvalid), !.CF = Flag(LowInvalid)], r % 256, 8)
        /\ last' = Adjusting("AAS")
--------------------------------------------------------------------------------
(* Shifts and rotates.  shift1 is by one; a result is a value and a carry. *)
Rotates == {"ROL", "ROR", "RCL", "RCR"}

shift1(kind, v, cf, w) ==
    CASE kind = "ROL" -> [r |-> Wrap(2 * v, w) + Bit(v, w - 1), CF |-> Bit(v, w - 1)]
      [] kind = "ROR" -> [r |-> (v \div 2) + Bit(v, 0) * 2^(w - 1), CF |-> Bit(v, 0)]
      [] kind = "RCL" -> [r |-> Wrap(2 * v, w) + cf, CF |-> Bit(v, w - 1)]
      [] kind = "RCR" -> [r |-> (v \div 2) + cf * 2^(w - 1), CF |-> Bit(v, 0)]
      [] kind = "SHL" -> [r |-> Wrap(2 * v, w), CF |-> Bit(v, w - 1)]
      [] kind = "SHR" -> [r |-> v \div 2, CF |-> Bit(v, 0)]
      [] kind = "SAR" -> [r |-> (v \div 2) + Bit(v, w - 1) * 2^(w - 1), CF |-> Bit(v, 0)]

Times(kind, v, cf, w, n) ==
    LET f[i \in 0 .. n] == IF i = 0 THEN [r |-> v, CF |-> cf]
                           ELSE LET p == f[i - 1] IN shift1(kind, p.r, p.CF, w)
    IN  f[n]

(* Mutant: one bit too far. *)
ShlCarryNext(v, n, w) == IF n >= w THEN 0 ELSE Bit(v, w - n - 1)

(* The last bit that left to the left. *)
ShlCarry(v, n, w) == IF n > w THEN 0 ELSE Bit(v, w - n)

(* By a count: SHL, SHR and SAR do not take it one by one.  SAR takes the  *)
(* carry of words, too, from their low byte as a signed number.            *)
shifts(kind, v, cf, w, n) ==
    CASE kind \in Rotates -> Times(kind, v, cf, w, n)
      [] kind = "SHL" -> [r |-> IF n > w THEN 0 ELSE Wrap(v, w - n) * 2^n, CF |-> ShlCarry(v, n, w)]
      [] kind = "SHR" -> [r |-> IF n > w THEN 0 ELSE v \div 2^n,
                          CF |-> IF n > w THEN 0 ELSE Bit(v, n - 1)]
      [] kind = "SAR" -> [r |-> Times(kind, v, cf, w, n).r,
                          CF |-> Bit(Signed(v % 256, 8), n - 1)]

(* The flag of an overflow: after ROR, RCR from the two high bits; after a *)
(* single SHR the sign that was, and none after SAR or a longer SHR.       *)
ShiftOverflow(kind, v, n, res, w) ==
    CASE kind \in {"ROL", "RCL", "SHL"} -> Flag(Bit(res.r, w - 1) # res.CF)
      [] kind \in {"ROR", "RCR"} -> Flag(Bit(res.r, w - 2) # Bit(res.r, w - 1))
      [] kind = "SHR" -> IF n = 1 THEN Bit(v, w - 1) ELSE 0
      [] kind = "SAR" -> 0

(* shifts_b, shifts_w: five bits of the count are used. *)
Shift(kind, w, count) ==
    LET n == count % 32
        v == Dest(w)
        res == IF n = 1 THEN shift1(kind, v, fl.CF, w) ELSE shifts(kind, v, fl.CF, w, n)
        f == [fl EXCEPT !.CF = res.CF, !.AF = 0, !.OF = ShiftOverflow(kind, v, n, res, w)]
    IN  /\ Fresh
        /\ IF n = 0 THEN UNCHANGED <<ax, fl>>
           ELSE /\ ax' = With(res.r, w)
                /\ fl' = IF kind \in Rotates THEN f ELSE Marked(f, res.r, w)
        /\ last' = Did(kind, count, w)

--------------------------------------------------------------------------------
(* The byte forms of multiplication and division.  C divides towards 0. *)
Magnitude(x) == IF x < 0 THEN -x ELSE x

Quotient(a, b) ==
    LET q == Magnitude(a) \div Magnitude(b)
    IN  IF (a < 0) = (b < 0) THEN q ELSE -q

Remainder(a, b) == a - b * Quotient(a, b)

Mul(y) ==
    LET r == y * Dest(8)
    IN  /\ Fresh
        /\ ax' = r
        /\ fl' = [fl EXCEPT !.SF = Bit(r, 7), !.ZF = Flag(r = 0),
                            !.CF = Flag(r > 255), !.OF = Flag(r > 255)]
        /\ last' = Did("MUL", y, 8)

(* Mutant: a negative product that fits is taken for one that does not. *)
ImulFitsUnsigned(r) == r \div 128 = 0

(* The nine high bits agree. *)
ImulFits(r) == r \div 128 \in {0, 511}

Imul(y) ==
    LET r == (Signed(y, 8) * Signed(Dest(8), 8)) % 65536
    IN  /\ Fresh
        /\ ax' = r
        /\ fl' = [fl EXCEPT !.SF = Bit(r, 7), !.ZF = Flag(r = 0),
                            !.CF = Flag(~ ImulFits(r)), !.OF = Flag(~ ImulFits(r))]
        /\ last' = Did("IMUL", y, 8)

DivFits(a, b) == b # 0 /\ a \div b < 256

(* cpu_trap(0) changes nothing here; the interrupt is taken instead. *)
Div(y) ==
    /\ Fresh
    /\ ax' = IF DivFits(ax, y) THEN (ax % y) * 256 + (ax \div y) ELSE ax
    /\ last' = Did(IF DivFits(ax, y) THEN "DIV" ELSE "TrapDIV", y, 8)
    /\ UNCHANGED fl

IdivFits(a, b) == b # 0 /\ Quotient(a, b) \in -128 .. 127

Idiv(y) ==
    LET a == Signed(ax, 16)
        b == Signed(y, 8)
    IN  /\ Fresh
        /\ ax' = IF IdivFits(a, b)
                 THEN (Remainder(a, b) * 256 + (Quotient(a, b) % 256)) % 65536 ELSE ax
        /\ last' = Did(IF IdivFits(a, b) THEN "IDIV" ELSE "TrapIDIV", y, 8)
        /\ UNCHANGED fl

i_aam(m) ==
    /\ Fresh
    /\ IF m = 0 THEN UNCHANGED <<ax, fl>>
       ELSE /\ ax' = (Dest(8) % m) + (Dest(8) \div m) * 256
            /\ fl' = [fl EXCEPT !.ZF = Flag(ax' = 0), !.SF = Bit(ax', 15)]
    /\ last' = Did(IF m = 0 THEN "TrapAAM" ELSE "AAM", m, 8)

i_aad(m) ==
    LET r == ((ax \div 256) * m + ax) % 256
    IN  /\ last.op \in {"MOV", "AAM"}
        /\ ax' = r
        /\ fl' = Marked([fl EXCEPT !.AF = 0, !.OF = 0, !.CF = 0], r, 8)
        /\ last' = IF last.op = "AAM"
                   THEN [op |-> "AAD", of |-> last, y |-> m] ELSE Did("AAD0", m, 8)

Next ==
    \/ \E v \in Moved : MovAX(v)
    \/ \E w \in {8, 16} : \E y \in Operands(w) :
          \/ \E op \in {"ADD", "ADC"} : Add(y, w, op)
          \/ \E op \in {"SUB", "SBB", "CMP"} : Sub(y, w, op)
    \/ \E w \in {8, 16} : Inc(w) \/ Dec(w) \/ Neg(w)
    \/ i_daa \/ i_das \/ i_aaa \/ i_aas
    \/ \E kind \in Rotates \cup {"SHL", "SHR", "SAR"}, w \in {8, 16}, n \in Counts :
          Shift(kind, w, n)
    \/ \E y \in ByteOperands : Mul(y) \/ Imul(y) \/ Div(y) \/ Idiv(y)
    \/ \E m \in ByteOperands : i_aam(m) \/ i_aad(m)

Spec == Init /\ [][Next]_vars
--------------------------------------------------------------------------------
TypeOK ==
    /\ ax \in Numbers(16)
    /\ fl \in [{"CF", "AF", "OF", "ZF", "SF"} -> {0, 1}]

Result == Dest(last.w)
FitsSigned(x, w) == -(2^(w - 1)) <= x /\ x < 2^(w - 1)

(* What the flags say of a result: it is zero, it is negative, the signed  *)
(* value does not fit.                                                     *)
FlagsTell(value) ==
    /\ fl.ZF = 1 <=> Result = 0
    /\ fl.SF = 1 <=> Signed(Result, last.w) < 0
    /\ fl.OF = 1 <=> ~ FitsSigned(value, last.w)

(* Sums and differences are exact, with the carry as one more digit, which *)
(* INC and DEC leave alone for the loops around longer numbers.            *)
SumsExact ==
    LET w == last.w
        a == Signed(last.x, w)
        b == Signed(last.y, w)
        c == last.CF
    IN  CASE last.op \in {"ADD", "ADC"} ->
               LET k == IF last.op = "ADC" THEN c ELSE 0
               IN  /\ Result + fl.CF * 2^w = last.x + last.y + k
                   /\ FlagsTell(a + b + k)
                   /\ fl.AF = ((last.x % 16) + (last.y % 16) + k) \div 16
          [] last.op \in {"SUB", "SBB"} ->
               LET k == IF last.op = "SBB" THEN c ELSE 0
               IN  /\ Result - fl.CF * 2^w = last.x - last.y - k
                   /\ FlagsTell(a - b - k)
                   /\ fl.AF = 1 <=> last.x % 16 < (last.y % 16) + k
          [] last.op = "CMP" ->
               /\ Dest(w) = last.x
               /\ fl.CF = 1 <=> last.x < last.y
               /\ fl.ZF = 1 <=> last.x = last.y
               /\ fl.SF # fl.OF <=> a < b
          [] last.op = "INC" -> fl.CF = c /\ Result = Wrap(last.x + 1, w) /\ FlagsTell(a + 1)
          [] last.op = "DEC" -> fl.CF = c /\ Result = Wrap(last.x - 1, w) /\ FlagsTell(a - 1)
          [] last.op = "NEG" ->
               Result - fl.CF * 2^w = -last.x /\ FlagsTell(-a)
          [] OTHER -> TRUE

Decimal(b) == 10 * (b \div 16) + (b % 16)
IsDecimal(b) == b \div 16 < 10 /\ b % 16 < 10

(* The instruction that was adjusted, and the carry it took in. *)
Carried(o) == IF o.op \in {"ADC", "SBB"} THEN o.CF ELSE 0
TwoDigits(o) == IsDecimal(o.x) /\ IsDecimal(o.y)
OneDigit(o) == o.x < 10 /\ o.y < 10

(* ADD or ADC and then DAA (cpu.c:721) add numbers of two decimal digits.  *)
DaaExact ==
    last.op = "DAA" /\ TwoDigits(last.of) =>
        /\ IsDecimal(Dest(8))
        /\ Decimal(Dest(8)) + 100 * fl.CF
               = Decimal(last.of.x) + Decimal(last.of.y) + Carried(last.of)

(* So they do when the sum is not FAh to FFh, where adding 6 in a byte     *)
(* loses the carry; SUB or SBB and then DAS subtract all numbers of two    *)
(* digits; AAA and AAS do the same for one digit, and count in AH.         *)
DecimalExact ==
    last.op \in {"DAA", "DAS", "AAA", "AAS"} =>
        LET o == last.of
            k == Carried(o)
        IN  /\ o.x + o.y + k \notin 250 .. 255 => DaaExact
            /\ last.op = "DAS" /\ TwoDigits(o) =>
                   /\ IsDecimal(Dest(8))
                   /\ Decimal(Dest(8)) - 100 * fl.CF = Decimal(o.x) - Decimal(o.y) - k
            /\ last.op = "AAA" /\ OneDigit(o) =>
                   /\ Dest(8) + 10 * fl.CF = o.x + o.y + k
                   /\ ax \div 256 = (o.ax \div 256 + fl.CF) % 256
            /\ last.op = "AAS" /\ OneDigit(o) =>
                   /\ Dest(8) - 10 * fl.CF = o.x - o.y - k
                   /\ o.ax > 255 => ax \div 256 = o.ax \div 256 - fl.CF

(* A number of n bits, rotated to the left. *)
RotatedLeft(x, n, bits) ==
    LET k == n % bits IN Wrap(x, bits - k) * 2^k + (x \div 2^(bits - k))

(* A shift by a count is as many shifts by one, also past the width; a     *)
(* rotate is one of the bits, through the carry of the bits and the carry. *)
(* SAR of a word by more than eight is left out: its carry is wrong.       *)
ShiftsAreRepeated ==
    last.op \in Rotates \cup {"SHL", "SHR", "SAR"} =>
        LET w == last.w
            n == last.y % 32
            long == last.CF * 2^w + last.x
            now == fl.CF * 2^w + Result
            t == Times(last.op, last.x, last.CF, w, n)
        IN  CASE last.op = "ROL" -> Result = RotatedLeft(last.x, n, w)
              [] last.op = "ROR" -> last.x = RotatedLeft(Result, n, w)
              [] last.op = "RCL" -> now = RotatedLeft(long, n, w + 1)
              [] last.op = "RCR" -> long = RotatedLeft(now, n, w + 1)
              [] OTHER -> /\ Result = t.r
                          /\ fl.CF = t.CF \/ (last.op = "SAR" /\ w = 16 /\ n > 8)

(* r may be left when a is divided by b. *)
IsRest(r, a, b) == Magnitude(r) < Magnitude(b) /\ (r # 0 => (r < 0) = (a < 0))

(* A product is exact and its carry says that it needs the upper half; a   *)
(* division traps only where the quotient does not fit, and otherwise      *)
(* leaves a remainder of the sign of what was divided; AAD undoes AAM.     *)
ProductsExact ==
    LET a == Signed(last.ax, 16)
        b == Signed(last.y, 8)
        q == Signed(Dest(8), 8)
        r == Signed(ax \div 256, 8)
    IN  CASE last.op = "MUL" -> ax = last.x * last.y /\ (fl.CF = 1 <=> ax > 255)
          [] last.op = "IMUL" ->
               /\ Signed(ax, 16) = Signed(last.x, 8) * b
               /\ fl.CF = 1 <=> Signed(ax, 16) # q
          [] last.op = "DIV" ->
               last.ax = last.y * Dest(8) + (ax \div 256) /\ ax \div 256 < last.y
          [] last.op = "TrapDIV" -> last.ax >= 256 * last.y
          [] last.op = "IDIV" ->
               a = b * q + r /\ IsRest(r, a, b)
          [] last.op = "TrapIDIV" ->
               \A k \in -128 .. 127 : ~ IsRest(a - b * k, a, b)
          [] last.op = "AAM" -> last.x = last.y * (ax \div 256) + Dest(8) /\ Dest(8) < last.y
          [] last.op = "AAD" /\ last.y = last.of.y -> ax = last.of.x
          [] OTHER -> TRUE
================================================================================
