-------------------------------- MODULE AluProofs --------------------------------
(***************************************************************************)
(* Alu: for all operands and all shift counts, each instruction of the     *)
(* model computes what its property says.  Each has a lemma for its step.  *)
(***************************************************************************)
EXTENDS Alu, NumberLemmas, TLAPS

--------------------------------------------------------------------------------
(* Bits, widths and flags. *)
Flags == [{"CF", "AF", "OF", "ZF", "SF"} -> {0, 1}]

(* The widths of bytes and of words, with their powers of two as numbers. *)
Sized(w, H) ==
    /\ (w = 8 /\ H = 128) \/ (w = 16 /\ H = 32768)
    /\ 2^(w - 1) = H /\ 2^w = 2 * H

LEMMA Sizes ==
  ASSUME NEW w \in {8, 16}
  PROVE  \E H \in Nat : Sized(w, H)
<1>1. CASE w = 8
  <2>1. PICK H \in Nat : H = 128
    OBVIOUS
  <2>2. 2^(w - 1) = H /\ 2^w = 2 * H
    BY <1>1, <2>1
  <2>3. Sized(w, H)
    BY ONLY <1>1, <2>1, <2>2 DEF Sized
  <2>. QED BY <2>3
<1>2. CASE w = 16
  <2>1. PICK H \in Nat : H = 32768
    OBVIOUS
  <2>2. 2^(w - 1) = H /\ 2^w = 2 * H
    BY <1>2, <2>1
  <2>3. Sized(w, H)
    BY ONLY <1>2, <2>1, <2>2 DEF Sized
  <2>. QED BY <2>3
<1>. QED BY <1>1, <1>2

LEMMA NumbersBelow ==
  ASSUME NEW w, NEW M \in Nat, 2^w = M, NEW x
  PROVE  x \in Numbers(w) <=> x \in Int /\ 0 <= x /\ x < M
BY SMT DEF Numbers

LEMMA Bytes == ASSUME NEW x PROVE x \in Numbers(8) <=> x \in Int /\ 0 <= x /\ x < 256
<1>1. PICK w : w = 8
  OBVIOUS
<1>2. 2^w = 256
  BY <1>1
<1>3. x \in Numbers(w) <=> x \in Int /\ 0 <= x /\ x < 256
  BY ONLY <1>2, NumbersBelow
<1>. QED BY ONLY <1>1, <1>3

LEMMA Words == ASSUME NEW x PROVE x \in Numbers(16) <=> x \in Int /\ 0 <= x /\ x < 65536
<1>1. PICK w : w = 16
  OBVIOUS
<1>2. 2^w = 65536
  BY <1>1
<1>3. x \in Numbers(w) <=> x \in Int /\ 0 <= x /\ x < 65536
  BY ONLY <1>2, NumbersBelow
<1>. QED BY ONLY <1>1, <1>3

LEMMA SizedNumbers ==
  ASSUME NEW w, NEW H \in Nat, Sized(w, H), NEW x
  PROVE  x \in Numbers(w) <=> x \in Int /\ 0 <= x /\ x < 2 * H
<1>1. 2^w = 2 * H /\ 2 * H \in Nat
  BY DEF Sized
<1>. QED BY ONLY <1>1, NumbersBelow

LEMMA TopBit ==
  ASSUME NEW w, NEW H \in Nat, Sized(w, H), NEW x \in Numbers(w)
  PROVE  Bit(x, w - 1) = IF x < H THEN 0 ELSE 1
<1>1. x \in Int /\ 0 <= x /\ x < 2 * H
  BY SizedNumbers
<1>2. Bit(x, w - 1) = (x \div H) % 2
  BY DEF Bit, Sized
<1>3. H = 128 \/ H = 32768
  BY DEF Sized
<1>4. CASE H = 128
  BY ONLY <1>1, <1>2, <1>4
<1>5. CASE H = 32768
  BY ONLY <1>1, <1>2, <1>5
<1>. QED BY <1>3, <1>4, <1>5

(* A sum or a difference of numbers of w bits, and what is left of it. *)
LEMMA Wrapped ==
  ASSUME NEW w, NEW H \in Nat, Sized(w, H), NEW t \in Int, -(2 * H) <= t, t < 2 * H + 2 * H
  PROVE  /\ Wrap(t, w) = IF t < 0 THEN t + 2 * H ELSE IF t < 2 * H THEN t ELSE t - 2 * H
         /\ Wrap(t, w) \in Numbers(w)
         /\ Bit(t, w) = IF 0 <= t /\ t < 2 * H THEN 0 ELSE 1
         /\ Bit(t, w - 1) = IF Wrap(t, w) < H THEN 0 ELSE 1
<1>1. H = 128 \/ H = 32768
  BY DEF Sized
<1>2. /\ Wrap(t, w) = t % (2 * H) /\ Bit(t, w) = (t \div (2 * H)) % 2
      /\ Bit(t, w - 1) = (t \div H) % 2
  BY DEF Bit, Wrap, Sized
<1>3. /\ Wrap(t, w) = IF t < 0 THEN t + 2 * H ELSE IF t < 2 * H THEN t ELSE t - 2 * H
      /\ Bit(t, w) = IF 0 <= t /\ t < 2 * H THEN 0 ELSE 1
      /\ Bit(t, w - 1) = IF Wrap(t, w) < H THEN 0 ELSE 1
  <2>1. CASE H = 128
    BY <1>2, <2>1
  <2>2. CASE H = 32768
    BY <1>2, <2>2
  <2>. QED BY <1>1, <2>1, <2>2
<1>4. Wrap(t, w) \in Numbers(w)
  <2>1. Wrap(t, w) \in Int /\ 0 <= Wrap(t, w) /\ Wrap(t, w) < 2 * H
    BY <1>3
  <2>. QED BY <2>1, SizedNumbers
<1>. QED BY <1>3, <1>4

LEMMA SignedValue ==
  ASSUME NEW w, NEW H \in Nat, Sized(w, H), NEW x \in Numbers(w)
  PROVE  /\ Signed(x, w) = IF x < H THEN x ELSE x - 2 * H
         /\ Bit(x, w - 1) = 1 <=> Signed(x, w) < 0
<1>1. x \in Int /\ 0 <= x /\ x < 2 * H
  BY SizedNumbers
<1>2. Bit(x, w - 1) = IF x < H THEN 0 ELSE 1
  BY TopBit
<1>3. 2^w = 2 * H
  BY DEF Sized
<1>. QED BY <1>1, <1>2, <1>3 DEF Signed
--------------------------------------------------------------------------------
(* Flags. *)

(* What the flags f say of a result r of w bits: FlagsTell, with the flags *)
(* and the result as parameters.                                           *)
Tells(f, r, w, value) ==
    /\ f.ZF = 1 <=> r = 0
    /\ f.SF = 1 <=> Signed(r, w) < 0
    /\ f.OF = 1 <=> ~ FitsSigned(value, w)

LEMMA FlagOf == ASSUME NEW p \in BOOLEAN PROVE Flag(p) \in {0, 1} /\ (Flag(p) = 1 <=> p)
BY DEF Flag

LEMMA MarkedFlags ==
  ASSUME NEW f \in Flags, NEW w, NEW H \in Nat, Sized(w, H), NEW r \in Numbers(w)
  PROVE  /\ Marked(f, r, w) \in Flags
         /\ Marked(f, r, w).CF = f.CF /\ Marked(f, r, w).AF = f.AF
         /\ Marked(f, r, w).OF = f.OF
         /\ Marked(f, r, w).ZF = 1 <=> r = 0
         /\ Marked(f, r, w).SF = Bit(r, w - 1)
         /\ Marked(f, r, w).SF = 1 <=> Signed(r, w) < 0
<1>1. PICK s : s = Bit(r, w - 1)
  OBVIOUS
<1>2. s \in {0, 1} /\ (s = 1 <=> Signed(r, w) < 0)
  BY <1>1, TopBit, SignedValue
<1>3. PICK z : z = Flag(r = 0)
  OBVIOUS
<1>4. z \in {0, 1} /\ (z = 1 <=> r = 0)
  BY <1>3 DEF Flag
<1>5. Marked(f, r, w) = [f EXCEPT !.ZF = z, !.SF = s]
  BY <1>1, <1>3 DEF Marked
<1>. QED BY ONLY f \in Flags, <1>1, <1>2, <1>4, <1>5 DEF Flags

(* The flags of a sum or a difference before its result is looked at. *)
ThreeBits(c, o, a) == c \in {0, 1} /\ o \in {0, 1} /\ a \in {0, 1}

WithThree(g, f, c, o, a) ==
    /\ g = [f EXCEPT !.CF = c, !.OF = o, !.AF = a]
    /\ g.CF = c /\ g.OF = o /\ g.AF = a

LEMMA ThreeFlags ==
  ASSUME NEW f, f \in Flags, NEW c, NEW o, NEW a, ThreeBits(c, o, a)
  PROVE  \E g \in Flags : WithThree(g, f, c, o, a)
<1>1. PICK g : g = [f EXCEPT !.CF = c, !.OF = o, !.AF = a]
  OBVIOUS
<1>2. g \in Flags /\ g.CF = c /\ g.OF = o /\ g.AF = a
  BY <1>1 DEF Flags, ThreeBits
<1>. QED BY <1>1, <1>2 DEF WithThree

(* The fourth bits give the carry from the low four. *)
IsSum(t, x, y, k) == x \in Nat /\ y \in Nat /\ k \in {0, 1} /\ t = x + y + k
IsDifference(t, x, y, k) == x \in Nat /\ y \in Nat /\ k \in {0, 1} /\ t = x - y - k

HalfCarry(t, x, y) == (Bit(t, 4) + Bit(x, 4) + Bit(y, 4)) % 2

LEMMA NibbleCarry ==
  ASSUME NEW x, NEW y, NEW k, NEW t, IsSum(t, x, y, k)
  PROVE  /\ HalfCarry(t, x, y) = ((x % 16) + (y % 16) + k) \div 16
         /\ HalfCarry(t, x, y) \in {0, 1}
<1>. x \in Nat /\ y \in Nat /\ k \in {0, 1} /\ t = x + y + k
  BY DEF IsSum
<1>1. PICK a \in Nat, b \in Nat : a = x \div 16 /\ b = y \div 16
  OBVIOUS
<1>2. PICK c \in 0 .. 15, d \in 0 .. 15 : c = x % 16 /\ d = y % 16
  OBVIOUS
<1>3. x = 16 * a + c /\ y = 16 * b + d
  BY <1>1, <1>2
<1>4. PICK e \in {0, 1} : e = (c + d + k) \div 16
  OBVIOUS
<1>5. t \div 16 = a + b + e
  BY <1>3, <1>4
<1>6. HalfCarry(t, x, y) = (((a + b + e) % 2) + (a % 2) + (b % 2)) % 2
  BY <1>1, <1>5 DEF Bit, HalfCarry
<1>. QED BY <1>2, <1>4, <1>6

LEMMA NibbleBorrow ==
  ASSUME NEW x, NEW y, NEW k, NEW t, IsDifference(t, x, y, k)
  PROVE  /\ HalfCarry(t, x, y) \in {0, 1}
         /\ HalfCarry(t, x, y) = 1 <=> x % 16 < (y % 16) + k
<1>. x \in Nat /\ y \in Nat /\ k \in {0, 1} /\ t = x - y - k
  BY DEF IsDifference
<1>1. PICK a \in Nat, b \in Nat : a = x \div 16 /\ b = y \div 16
  OBVIOUS
<1>2. PICK c \in 0 .. 15, d \in 0 .. 15 : c = x % 16 /\ d = y % 16
  OBVIOUS
<1>3. x = 16 * a + c /\ y = 16 * b + d
  BY <1>1, <1>2
<1>4. PICK e \in {0, 1} : e = 1 <=> c < d + k
  OBVIOUS
<1>5. t \div 16 = a - b - e
  BY <1>3, <1>4
<1>6. HalfCarry(t, x, y) = (((a - b - e) % 2) + (a % 2) + (b % 2)) % 2
  BY <1>1, <1>5 DEF Bit, HalfCarry
<1>. QED BY <1>2, <1>4, <1>6

(* A sum or a difference of two numbers leaves the range of the signed     *)
(* numbers when the signs of the operands and of the result say so.        *)
SignedAs(v, x, H) == v = IF x < H THEN x ELSE x - 2 * H

InRange(H, x, y, k, r) ==
    /\ H \in Nat /\ x \in Nat /\ y \in Nat /\ r \in Nat /\ k \in {0, 1}
    /\ x < 2 * H /\ y < 2 * H /\ r < 2 * H

SumWraps(H, x, y, k, r) == r = x + y + k \/ r = x + y + k - (2 * H)
DifferenceWraps(H, x, y, k, r) == r = x - y - k \/ r = (2 * H) + x - y - k

OutOf(H, v) == ~ (-H <= v /\ v < H)

SignOfSum(H, x, y, r) == (y < H <=> ~ (r < H)) /\ (x < H <=> ~ (r < H))
SignOfDifference(H, x, y, r) == (x < H <=> ~ (y < H)) /\ (x < H <=> ~ (r < H))

LEMMA SumOverflow ==
  ASSUME NEW H, NEW x, NEW y, NEW k, NEW r, InRange(H, x, y, k, r), SumWraps(H, x, y, k, r),
         NEW a, SignedAs(a, x, H), NEW b, SignedAs(b, y, H)
  PROVE  OutOf(H, a + b + k) <=> SignOfSum(H, x, y, r)
BY DEF SignedAs, InRange, SumWraps, OutOf, SignOfSum

LEMMA DifferenceOverflow ==
  ASSUME NEW H, NEW x, NEW y, NEW k, NEW r, InRange(H, x, y, k, r), DifferenceWraps(H, x, y, k, r),
         NEW a, SignedAs(a, x, H), NEW b, SignedAs(b, y, H)
  PROVE  /\ OutOf(H, a - b - k) <=> SignOfDifference(H, x, y, r)
         /\ k = 0 => (a < b <=> (SignOfDifference(H, x, y, r) <=> r < H))
BY DEF SignedAs, InRange, DifferenceWraps, OutOf, SignOfDifference

(* A sum of two numbers and a carry. *)
Summed(w, t, x, y, k) ==
    x \in Numbers(w) /\ y \in Numbers(w) /\ k \in {0, 1} /\ t = x + y + k

LEMMA SumTells ==
  ASSUME fl \in Flags, NEW w, NEW H \in Nat, Sized(w, H),
         NEW x, NEW y, NEW k, NEW t, Summed(w, t, x, y, k)
  PROVE  /\ SumFlags(x, y, t, w) \in Flags
         /\ Wrap(t, w) \in Numbers(w)
         /\ Wrap(t, w) + SumFlags(x, y, t, w).CF * 2^w = t
         /\ Tells(SumFlags(x, y, t, w), Wrap(t, w), w, Signed(x, w) + Signed(y, w) + k)
         /\ SumFlags(x, y, t, w).AF = ((x % 16) + (y % 16) + k) \div 16
<1>. x \in Numbers(w) /\ y \in Numbers(w) /\ k \in {0, 1} /\ t = x + y + k
  BY DEF Summed
<1>1. /\ x \in Nat /\ x < 2 * H /\ y \in Nat /\ y < 2 * H
      /\ t \in Int /\ 0 <= t /\ t < 2 * H + 2 * H /\ -(2 * H) <= t
  BY SizedNumbers
<1>2. PICK r \in Int, c \in {0, 1} :
         /\ r = Wrap(t, w) /\ c = Bit(t, w) /\ r + c * (2 * H) = t
         /\ 0 <= r /\ r < 2 * H
         /\ Bit(t, w - 1) = IF r < H THEN 0 ELSE 1
  BY <1>1, Wrapped
<1>3. r \in Numbers(w)
  BY <1>2, SizedNumbers
<1>4. /\ Bit(x, w - 1) = IF x < H THEN 0 ELSE 1
      /\ Bit(y, w - 1) = IF y < H THEN 0 ELSE 1
  BY TopBit
<1>5. PICK a : a = HalfCarry(t, x, y)
  OBVIOUS
<1>6. a = ((x % 16) + (y % 16) + k) \div 16 /\ a \in {0, 1}
  <2>1. IsSum(t, x, y, k)
    BY <1>1 DEF IsSum
  <2>. QED BY <1>5, <2>1, NibbleCarry
<1>7. PICK o : o = Flag(Bit(t, w - 1) # Bit(y, w - 1) /\ Bit(t, w - 1) # Bit(x, w - 1))
  OBVIOUS
<1>8. o \in {0, 1} /\ (o = 1 <=> (y < H <=> ~ (r < H)) /\ (x < H <=> ~ (r < H)))
  BY <1>2, <1>4, <1>7 DEF Flag
<1>9. PICK f \in Flags : WithThree(f, fl, c, o, a)
  <2>1. ThreeBits(c, o, a)
    BY <1>6, <1>8 DEF ThreeBits
  <2>. QED BY <2>1, ThreeFlags
<1>10. SumFlags(x, y, t, w) = Marked(f, r, w)
  BY ONLY <1>2, <1>5, <1>7, <1>9 DEF SumFlags, Carry, WithThree, HalfCarry
<1>11. /\ Marked(f, r, w) \in Flags
       /\ Marked(f, r, w).CF = c /\ Marked(f, r, w).OF = o /\ Marked(f, r, w).AF = a
       /\ Marked(f, r, w).ZF = 1 <=> r = 0
       /\ Marked(f, r, w).SF = 1 <=> Signed(r, w) < 0
  <2>1. /\ Marked(f, r, w) \in Flags
        /\ Marked(f, r, w).CF = f.CF /\ Marked(f, r, w).AF = f.AF
        /\ Marked(f, r, w).OF = f.OF
        /\ Marked(f, r, w).ZF = 1 <=> r = 0
        /\ Marked(f, r, w).SF = Bit(r, w - 1)
        /\ Marked(f, r, w).SF = 1 <=> Signed(r, w) < 0
    BY ONLY f \in Flags, H \in Nat, Sized(w, H), <1>3, MarkedFlags
  <2>. QED BY ONLY <2>1, <1>9 DEF WithThree
<1>12. /\ Signed(x, w) = IF x < H THEN x ELSE x - 2 * H
       /\ Signed(y, w) = IF y < H THEN y ELSE y - 2 * H
  BY SignedValue
<1>13. 2^w = 2 * H /\ 2^(w - 1) = H
  BY DEF Sized
<1>14. PICK p, q : p = Signed(x, w) /\ q = Signed(y, w)
  OBVIOUS
<1>15. SignedAs(p, x, H) /\ SignedAs(q, y, H)
  BY <1>12, <1>14 DEF SignedAs
<1>16. InRange(H, x, y, k, r) /\ SumWraps(H, x, y, k, r)
  BY <1>1, <1>2 DEF InRange, SumWraps
<1>17. OutOf(H, p + q + k) <=> o = 1
  BY <1>8, <1>15, <1>16, SumOverflow DEF SignOfSum
<1>18. o = 1 <=> ~ FitsSigned(p + q + k, w)
  BY ONLY <1>13, <1>17 DEF FitsSigned, OutOf
<1>. QED BY <1>2, <1>3, <1>6, <1>10, <1>11, <1>13, <1>14, <1>18 DEF Tells

(* A difference of two numbers and a borrow. *)
Subtracted(w, t, x, y, k) ==
    x \in Numbers(w) /\ y \in Numbers(w) /\ k \in {0, 1} /\ t = x - y - k

LEMMA DifferenceTells ==
  ASSUME fl \in Flags, NEW w, NEW H \in Nat, Sized(w, H),
         NEW x, NEW y, NEW k, NEW t, Subtracted(w, t, x, y, k)
  PROVE  /\ DiffFlags(x, y, t, w) \in Flags
         /\ Wrap(t, w) \in Numbers(w)
         /\ Wrap(t, w) - DiffFlags(x, y, t, w).CF * 2^w = t
         /\ Tells(DiffFlags(x, y, t, w), Wrap(t, w), w, Signed(x, w) - Signed(y, w) - k)
         /\ DiffFlags(x, y, t, w).AF = 1 <=> x % 16 < (y % 16) + k
         /\ k = 0 => (DiffFlags(x, y, t, w).SF # DiffFlags(x, y, t, w).OF
                         <=> Signed(x, w) < Signed(y, w))
<1>. x \in Numbers(w) /\ y \in Numbers(w) /\ k \in {0, 1} /\ t = x - y - k
  BY DEF Subtracted
<1>1. /\ x \in Nat /\ x < 2 * H /\ y \in Nat /\ y < 2 * H
      /\ t \in Int /\ t < 2 * H /\ t < 2 * H + 2 * H /\ -(2 * H) <= t
  BY SizedNumbers
<1>2. PICK r \in Int, c \in {0, 1} :
         /\ r = Wrap(t, w) /\ c = Bit(t, w) /\ r - c * (2 * H) = t
         /\ 0 <= r /\ r < 2 * H
         /\ Bit(t, w - 1) = IF r < H THEN 0 ELSE 1
  BY <1>1, Wrapped
<1>3. r \in Numbers(w)
  BY <1>2, SizedNumbers
<1>4. /\ Bit(x, w - 1) = IF x < H THEN 0 ELSE 1
      /\ Bit(y, w - 1) = IF y < H THEN 0 ELSE 1
  BY TopBit
<1>5. PICK a : a = HalfCarry(t, x, y)
  OBVIOUS
<1>6. a \in {0, 1} /\ (a = 1 <=> x % 16 < (y % 16) + k)
  <2>1. IsDifference(t, x, y, k)
    BY <1>1 DEF IsDifference
  <2>. QED BY <1>5, <2>1, NibbleBorrow
<1>7. PICK o : o = Flag(Bit(x, w - 1) # Bit(y, w - 1) /\ Bit(x, w - 1) # Bit(t, w - 1))
  OBVIOUS
<1>8. o \in {0, 1} /\ (o = 1 <=> (x < H <=> ~ (y < H)) /\ (x < H <=> ~ (r < H)))
  BY <1>2, <1>4, <1>7 DEF Flag
<1>9. PICK f \in Flags : WithThree(f, fl, c, o, a)
  <2>1. ThreeBits(c, o, a)
    BY <1>6, <1>8 DEF ThreeBits
  <2>. QED BY <2>1, ThreeFlags
<1>10. DiffFlags(x, y, t, w) = Marked(f, r, w)
  BY ONLY <1>2, <1>5, <1>7, <1>9 DEF DiffFlags, Carry, WithThree, HalfCarry
<1>11. /\ Marked(f, r, w) \in Flags
       /\ Marked(f, r, w).CF = c /\ Marked(f, r, w).OF = o /\ Marked(f, r, w).AF = a
       /\ Marked(f, r, w).ZF = 1 <=> r = 0
       /\ Marked(f, r, w).SF = Bit(r, w - 1)
       /\ Marked(f, r, w).SF = 1 <=> Signed(r, w) < 0
  <2>1. /\ Marked(f, r, w) \in Flags
        /\ Marked(f, r, w).CF = f.CF /\ Marked(f, r, w).AF = f.AF
        /\ Marked(f, r, w).OF = f.OF
        /\ Marked(f, r, w).ZF = 1 <=> r = 0
        /\ Marked(f, r, w).SF = Bit(r, w - 1)
        /\ Marked(f, r, w).SF = 1 <=> Signed(r, w) < 0
    BY ONLY f \in Flags, H \in Nat, Sized(w, H), <1>3, MarkedFlags
  <2>. QED BY ONLY <2>1, <1>9 DEF WithThree
<1>12. /\ Signed(x, w) = IF x < H THEN x ELSE x - 2 * H
       /\ Signed(y, w) = IF y < H THEN y ELSE y - 2 * H
       /\ Bit(r, w - 1) = IF r < H THEN 0 ELSE 1
  BY <1>3, SignedValue, TopBit
<1>13. 2^w = 2 * H /\ 2^(w - 1) = H
  BY DEF Sized
<1>14. PICK p, q : p = Signed(x, w) /\ q = Signed(y, w)
  OBVIOUS
<1>15. SignedAs(p, x, H) /\ SignedAs(q, y, H)
  BY <1>12, <1>14 DEF SignedAs
<1>16. InRange(H, x, y, k, r) /\ DifferenceWraps(H, x, y, k, r)
  BY <1>1, <1>2 DEF InRange, DifferenceWraps
<1>17. OutOf(H, p - q - k) <=> o = 1
  BY <1>8, <1>15, <1>16, DifferenceOverflow DEF SignOfDifference
<1>18. o = 1 <=> ~ FitsSigned(p - q - k, w)
  BY ONLY <1>13, <1>17 DEF FitsSigned, OutOf
<1>19. k = 0 => (Bit(r, w - 1) # o <=> Signed(x, w) < Signed(y, w))
  <2>1. k = 0 => (p < q <=> (o = 1 <=> r < H))
    BY <1>8, <1>15, <1>16, DifferenceOverflow DEF SignOfDifference
  <2>. QED BY ONLY <2>1, <1>8, <1>12, <1>14
<1>. QED BY <1>2, <1>3, <1>6, <1>10, <1>11, <1>13, <1>14, <1>18, <1>19 DEF Tells

--------------------------------------------------------------------------------
(* Products and division. *)
LEMMA TimesLarger ==
  ASSUME NEW a \in Nat, NEW b \in Nat, NEW c \in Nat, NEW d \in Nat, a <= b, c <= d
  PROVE  a * c <= b * d
<1>1. a * c <= b * c
  OBVIOUS
<1>2. b * c <= b * d
  OBVIOUS
<1>. QED BY <1>1, <1>2

LEMMA TimesType ==
  ASSUME NEW a \in Int, NEW b \in Int
  PROVE  a * b \in Int /\ (a \in Nat /\ b \in Nat => a * b \in Nat)
OBVIOUS

(* Division by a positive number. *)
Divides(a, m, q, s) ==
    /\ q = a \div m /\ s = a % m
    /\ q \in Int /\ s \in Nat /\ s < m /\ a = m * q + s
    /\ a \in Nat => q \in Nat

LEMMA Division ==
  ASSUME NEW a \in Int, NEW m \in Nat, m # 0
  PROVE  \E q, s : Divides(a, m, q, s)
<1>1. a \div m \in Int /\ a % m \in Nat /\ a % m < m
  OBVIOUS
<1>2. a = m * (a \div m) + (a % m)
  OBVIOUS
<1>3. ASSUME a \in Nat
      PROVE  a \div m \in Nat
  <2>1. PICK q \in Int, s \in Nat : q = a \div m /\ s = a % m
    BY <1>1
  <2>2. a = m * q + s /\ s < m
    BY <1>1, <1>2, <2>1
  <2>3. q < 0 => m * q <= -m
    OBVIOUS
  <2>. QED BY <1>3, <2>1, <2>2, <2>3
<1>4. PICK q, s : q = a \div m /\ s = a % m
  OBVIOUS
<1>5. Divides(a, m, q, s)
  BY <1>1, <1>2, <1>3, <1>4 DEF Divides
<1>. QED BY <1>5

LEMMA DivisionUnique ==
  ASSUME NEW m \in Nat, NEW j \in Int, NEW r \in Nat, r < m, NEW a, a = m * j + r
  PROVE  j = a \div m /\ r = a % m
<1>1. PICK q \in Int, s \in Nat : q = a \div m /\ s = a % m /\ s < m /\ a = m * q + s
  <2>1. PICK q, s : Divides(a, m, q, s)
    BY Division
  <2>. QED BY <2>1 DEF Divides
<1>2. PICK e \in Int : e = j - q
  OBVIOUS
<1>3. m * e = s - r
  BY <1>1, <1>2
<1>4. e < 1
  <2>1. e >= 1 => m * e >= m
    OBVIOUS
  <2>. QED BY <1>1, <1>3, <2>1
<1>5. e > -1
  <2>1. e <= -1 => m * e <= -m
    OBVIOUS
  <2>. QED BY <1>1, <1>3, <2>1
<1>6. e = 0
  BY <1>4, <1>5
<1>7. j = q
  BY <1>2, <1>6
<1>. QED BY <1>1, <1>7

(* The same, for a solver to match. *)
Composed(a, m, j, r) == m \in Nat /\ j \in Int /\ r \in Nat /\ r < m /\ a = m * j + r

LEMMA ComposedUnique ==
  ASSUME NEW a, NEW m, NEW j, NEW r, Composed(a, m, j, r)
  PROVE  j = a \div m /\ r = a % m
BY DivisionUnique DEF Composed

--------------------------------------------------------------------------------
(* The inductive invariant. *)

(* What is kept of the last instruction, for an adjustment to come. *)
Kept ==
    /\ last.x \in Numbers(8) /\ last.y \in Numbers(8) /\ last.CF \in {0, 1}
    /\ last.ax \in Numbers(16) /\ ax \div 256 = last.ax \div 256

(* What AAM made of AL. *)
Digits ==
    /\ last.x \in Numbers(8) /\ last.y \in Numbers(8) /\ last.y # 0
    /\ last.x = last.y * (ax \div 256) + (ax % 256)

LastOK ==
    /\ last.op \in {"ADD", "ADC", "SUB", "SBB"} /\ last.w = 8 => Kept
    /\ last.op = "AAM" => Digits

IInv == TypeOK /\ LastOK /\ SumsExact

LEMMA OtherSums ==
  ASSUME last'.op \notin {"ADD", "ADC", "SUB", "SBB", "CMP", "INC", "DEC", "NEG"}
  PROVE  SumsExact'
BY DEF SumsExact

LEMMA OtherLast ==
  ASSUME last'.op \notin {"ADD", "ADC", "SUB", "SBB", "AAM"}
  PROVE  LastOK'
BY DEF LastOK

LEMMA Typed == TypeOK <=> ax \in Numbers(16) /\ fl \in Flags
BY DEF TypeOK, Flags

LEMMA CarryType == ASSUME NEW f \in Flags PROVE f.CF \in {0, 1} /\ f.AF \in {0, 1}
BY DEF Flags

LEMMA OperandType ==
  ASSUME NEW w \in {8, 16}, NEW y \in Operands(w)
  PROVE  y \in Numbers(w)
BY AluAssumption DEF Operands

(* The destination is a number of w bits, and takes one. *)
LEMMA DestType ==
  ASSUME TypeOK, NEW w \in {8, 16}
  PROVE  Dest(w) \in Numbers(w)
<1>1. ax \in Int /\ 0 <= ax /\ ax < 65536
  BY Typed, Words
<1>2. PICK H \in Nat : Sized(w, H)
  BY Sizes
<1>3. Dest(w) = ax % (2 * H)
  BY <1>2 DEF Dest, Wrap, Sized
<1>4. H = 128 \/ H = 32768
  BY <1>2 DEF Sized
<1>5. Dest(w) \in Int /\ 0 <= Dest(w) /\ Dest(w) < 2 * H
  BY <1>1, <1>3, <1>4
<1>. QED BY <1>2, <1>5, SizedNumbers

LEMMA Halves ==
  ASSUME TypeOK
  PROVE  /\ ax \in Nat /\ ax < 65536
         /\ ax = 256 * (ax \div 256) + Dest(8)
         /\ ax \div 256 \in Nat /\ ax \div 256 < 256
         /\ Dest(8) = ax % 256 /\ Dest(8) \in Nat /\ Dest(8) < 256
         /\ Dest(16) = ax
<1>1. ax \in Nat /\ ax < 65536
  BY Typed, Words
<1>2. PICK w : w = 8
  OBVIOUS
<1>3. PICK v : v = 16
  OBVIOUS
<1>4. 2^w = 256 /\ 2^v = 65536
  BY <1>2, <1>3
<1>5. Dest(w) = ax % 256 /\ Dest(v) = ax % 65536
  BY <1>4 DEF Dest, Wrap
<1>6. ax % 65536 = ax
  BY <1>1
<1>. QED BY <1>1, <1>2, <1>3, <1>5, <1>6

LEMMA WithNumber ==
  ASSUME TypeOK, NEW w \in {8, 16}, NEW r \in Numbers(w)
  PROVE  /\ With(r, w) \in Numbers(16)
         /\ Wrap(With(r, w), w) = r
         /\ w = 8 => With(r, w) \div 256 = ax \div 256
<1>1. PICK q \in Nat : q = ax \div 256 /\ q < 256
  BY Halves
<1>2. ax \in Nat /\ ax < 65536
  BY Halves
<1>3. PICK H \in Nat : Sized(w, H)
  BY Sizes
<1>4. r \in Nat /\ r < 2 * H
  BY <1>3, SizedNumbers
<1>5. PICK u : u = With(r, w)
  OBVIOUS
<1>6. u = (ax \div (2 * H)) * (2 * H) + r /\ Wrap(u, w) = u % (2 * H)
  BY <1>3, <1>5 DEF With, Wrap, Sized
<1>7. u \in Nat /\ u < 65536 /\ u % (2 * H) = r
  <2>1. CASE H = 128
    <3>1. u = q * 256 + r /\ u % (2 * H) = u % 256 /\ r < 256
      BY <1>1, <1>4, <1>6, <2>1
    <3>. QED BY <1>1, <1>4, <3>1
  <2>2. CASE H = 32768
    <3>1. ax \div (2 * H) = 0
      BY <1>2, <2>2
    <3>. QED BY <1>4, <1>6, <2>2, <3>1
  <2>. QED BY <1>3, <2>1, <2>2 DEF Sized
<1>8. w = 8 => u \div 256 = q
  <2>1. w = 8 => H = 128
    BY <1>3 DEF Sized
  <2>2. H = 128 => u \div 256 = q
    BY <1>1, <1>4, <1>6
  <2>. QED BY <2>1, <2>2
<1>. QED BY <1>1, <1>5, <1>6, <1>7, <1>8, Words

(* What Did keeps. *)
LEMMA DidKeeps ==
  ASSUME NEW op, NEW y, NEW w, last' = Did(op, y, w)
  PROVE  /\ last'.op = op /\ last'.x = Dest(w) /\ last'.y = y /\ last'.w = w
         /\ last'.CF = fl.CF /\ last'.ax = ax
BY DEF Did

(* The new state of an instruction that leaves r in its destination. *)
LEMMA Leaves ==
  ASSUME TypeOK, NEW w \in {8, 16}, NEW r \in Numbers(w), ax' = With(r, w), fl' \in Flags
  PROVE  /\ TypeOK'
         /\ Dest(w)' = r
         /\ w = 8 => ax' \div 256 = ax \div 256
<1>1. /\ ax' \in Numbers(16) /\ Wrap(ax', w) = r
      /\ w = 8 => ax' \div 256 = ax \div 256
  BY WithNumber
<1>. QED BY <1>1 DEF TypeOK, Flags, Dest

LEMMA TellsOfResult ==
  ASSUME NEW r, NEW value, last'.w \in {8, 16}, Result' = r, Tells(fl', r, last'.w, value)
  PROVE  FlagsTell(value)'
BY DEF FlagsTell, Tells, FitsSigned, Signed, Bit

(* What is kept of a byte instruction. *)
LEMMA Keeps ==
  ASSUME TypeOK, NEW op, op # "AAM", NEW w \in {8, 16}, NEW y \in Numbers(w),
         last' = Did(op, y, w), w = 8 => ax' \div 256 = ax \div 256
  PROVE  LastOK'
<1>1. /\ last'.op = op /\ last'.x = Dest(w) /\ last'.y = y /\ last'.w = w
      /\ last'.CF = fl.CF /\ last'.ax = ax
  BY DidKeeps
<1>2. Dest(w) \in Numbers(w) /\ ax \in Numbers(16) /\ fl.CF \in {0, 1}
  BY DestType, Typed, CarryType
<1>3. w = 8 => Kept'
  BY <1>1, <1>2 DEF Kept
<1>. QED BY <1>1, <1>3 DEF LastOK

--------------------------------------------------------------------------------
(* Sums and differences, instruction by instruction. *)
LEMMA AddStep ==
  ASSUME IInv, NEW w \in {8, 16}, NEW y \in Operands(w), NEW op \in {"ADD", "ADC"},
         Add(y, w, op)
  PROVE  IInv'
<1>1. TypeOK /\ fl \in Flags /\ fl.CF \in {0, 1}
  BY Typed, CarryType DEF IInv
<1>2. PICK H \in Nat : Sized(w, H)
  BY Sizes
<1>3. PICK x : x = Dest(w)
  OBVIOUS
<1>4. PICK k : k = IF op = "ADC" THEN fl.CF ELSE 0
  OBVIOUS
<1>5. PICK t : t = x + y + k
  OBVIOUS
<1>6. x \in Numbers(w) /\ y \in Numbers(w) /\ k \in {0, 1}
  BY <1>1, <1>3, <1>4, DestType, OperandType
<1>7. fl' = SumFlags(x, y, t, w) /\ ax' = With(Wrap(t, w), w) /\ last' = Did(op, y, w)
  BY <1>3, <1>4, <1>5 DEF Add
<1>8. /\ fl' \in Flags /\ Wrap(t, w) \in Numbers(w) /\ Wrap(t, w) + fl'.CF * 2^w = t
      /\ Tells(fl', Wrap(t, w), w, Signed(x, w) + Signed(y, w) + k)
      /\ fl'.AF = ((x % 16) + (y % 16) + k) \div 16
  <2>1. Summed(w, t, x, y, k)
    BY <1>5, <1>6 DEF Summed
  <2>. QED BY <1>1, <1>2, <1>7, <2>1, SumTells
<1>9. TypeOK' /\ Dest(w)' = Wrap(t, w) /\ (w = 8 => ax' \div 256 = ax \div 256)
  BY <1>1, <1>7, <1>8, Leaves
<1>10. LastOK'
  BY <1>1, <1>6, <1>7, <1>9, Keeps
<1>11. /\ last'.op = op /\ last'.x = x /\ last'.y = y /\ last'.w = w /\ last'.CF = fl.CF
       /\ Result' = Wrap(t, w)
  BY <1>3, <1>7, <1>9, DidKeeps DEF Result
<1>12. FlagsTell(Signed(x, w) + Signed(y, w) + k)'
  BY <1>8, <1>11, TellsOfResult
<1>13. SumsExact'
  BY <1>4, <1>5, <1>8, <1>11, <1>12 DEF SumsExact
<1>. QED BY <1>9, <1>10, <1>13 DEF IInv

LEMMA SubStep ==
  ASSUME IInv, NEW w \in {8, 16}, NEW y \in Operands(w), NEW op \in {"SUB", "SBB", "CMP"},
         Sub(y, w, op)
  PROVE  IInv'
<1>1. TypeOK /\ fl \in Flags /\ fl.CF \in {0, 1}
  BY Typed, CarryType DEF IInv
<1>2. PICK H \in Nat : Sized(w, H)
  BY Sizes
<1>3. PICK x : x = Dest(w)
  OBVIOUS
<1>4. PICK k : k = IF op = "SBB" THEN fl.CF ELSE 0
  OBVIOUS
<1>5. PICK t : t = x - y - k
  OBVIOUS
<1>6. x \in Numbers(w) /\ y \in Numbers(w) /\ k \in {0, 1}
  BY <1>1, <1>3, <1>4, DestType, OperandType
<1>7. /\ fl' = DiffFlags(x, y, t, w) /\ last' = Did(op, y, w)
      /\ ax' = IF op = "CMP" THEN ax ELSE With(Wrap(t, w), w)
  BY <1>3, <1>4, <1>5 DEF Sub
<1>8. /\ fl' \in Flags /\ Wrap(t, w) \in Numbers(w) /\ Wrap(t, w) - fl'.CF * 2^w = t
      /\ Tells(fl', Wrap(t, w), w, Signed(x, w) - Signed(y, w) - k)
      /\ fl'.AF = 1 <=> x % 16 < (y % 16) + k
      /\ k = 0 => (fl'.SF # fl'.OF <=> Signed(x, w) < Signed(y, w))
  <2>1. Subtracted(w, t, x, y, k)
    BY <1>5, <1>6 DEF Subtracted
  <2>. QED BY <1>1, <1>2, <1>7, <2>1, DifferenceTells
<1>9. /\ last'.op = op /\ last'.x = x /\ last'.y = y /\ last'.w = w /\ last'.CF = fl.CF
  BY <1>3, <1>7, DidKeeps
<1>10. CASE op = "CMP"
  <2>1. ax' = ax /\ Dest(w)' = x
    BY <1>3, <1>7, <1>10 DEF Dest
  <2>2. TypeOK' /\ LastOK'
    BY <1>1, <1>8, <1>9, <1>10, <2>1 DEF TypeOK, Flags, LastOK
  <2>3. fl'.CF \in {0, 1} /\ 2^w = 2 * H /\ Wrap(t, w) \in Int /\ 0 <= Wrap(t, w) /\ Wrap(t, w) < 2 * H
    BY <1>2, <1>8, CarryType, SizedNumbers DEF Sized
  <2>4. x \in Int /\ y \in Int /\ 0 <= x /\ 0 <= y /\ x < 2 * H /\ y < 2 * H
    BY <1>2, <1>6, SizedNumbers
  <2>5. PICK r, c : r = Wrap(t, w) /\ c = fl'.CF
    OBVIOUS
  <2>6. r - c * (2 * H) = x - y
    BY <1>4, <1>5, <1>8, <1>10, <2>3, <2>4, <2>5
  <2>7. (c = 1 <=> x < y) /\ (r = 0 <=> x = y)
    BY <2>3, <2>4, <2>5, <2>6
  <2>8. fl'.ZF = 1 <=> x = y
    BY <1>8, <2>5, <2>7 DEF Tells
  <2>9. SumsExact'
    BY <1>4, <1>8, <1>9, <1>10, <2>1, <2>5, <2>7, <2>8 DEF SumsExact
  <2>. QED BY <2>2, <2>9 DEF IInv
<1>11. CASE op # "CMP"
  <2>1. TypeOK' /\ Dest(w)' = Wrap(t, w) /\ (w = 8 => ax' \div 256 = ax \div 256)
    BY <1>1, <1>7, <1>8, <1>11, Leaves
  <2>2. LastOK'
    BY <1>1, <1>6, <1>7, <2>1, Keeps
  <2>3. Result' = Wrap(t, w)
    BY <1>9, <2>1 DEF Result
  <2>4. FlagsTell(Signed(x, w) - Signed(y, w) - k)'
    BY <1>8, <1>9, <2>3, TellsOfResult
  <2>5. SumsExact'
    BY <1>4, <1>5, <1>8, <1>9, <1>11, <2>3, <2>4 DEF SumsExact
  <2>. QED BY <2>1, <2>2, <2>5 DEF IInv
<1>. QED BY <1>10, <1>11

LEMMA HalfType == ASSUME NEW x \in Int, NEW y \in Int PROVE (Bit(x, 4) + Bit(y, 4)) % 2 \in {0, 1}
<1>1. Bit(x, 4) \in Int /\ Bit(y, 4) \in Int
  BY DEF Bit
<1>. QED BY <1>1

(* What such an instruction leaves: r in its destination, and f with the   *)
(* marks of r, when f has the overflow o and the carry c.                  *)
LEMMA Counted ==
  ASSUME IInv, NEW op \in {"INC", "DEC", "NEG"}, NEW w \in {8, 16}, NEW y \in Numbers(w),
         NEW r \in Numbers(w), NEW f \in Flags, fl' = Marked(f, r, w), ax' = With(r, w),
         last' = Did(op, y, w)
  PROVE  /\ TypeOK' /\ LastOK' /\ Result' = r
         /\ last'.op = op /\ last'.x = Dest(w) /\ last'.w = w /\ last'.CF = fl.CF
         /\ fl'.CF = f.CF
         /\ \A v : (f.OF = 1 <=> ~ FitsSigned(v, w)) => FlagsTell(v)'
<1>1. TypeOK
  BY DEF IInv
<1>2. PICK H \in Nat : Sized(w, H)
  BY Sizes
<1>3. /\ fl' \in Flags /\ fl'.CF = f.CF /\ fl'.OF = f.OF
      /\ fl'.ZF = 1 <=> r = 0
      /\ fl'.SF = 1 <=> Signed(r, w) < 0
  BY <1>2, MarkedFlags
<1>4. TypeOK' /\ Dest(w)' = r /\ (w = 8 => ax' \div 256 = ax \div 256)
  BY <1>1, <1>3, Leaves
<1>5. LastOK'
  BY <1>1, <1>4, Keeps
<1>6. /\ last'.op = op /\ last'.x = Dest(w) /\ last'.w = w /\ last'.CF = fl.CF
      /\ Result' = r
  BY <1>4, DidKeeps DEF Result
<1>7. ASSUME NEW v, f.OF = 1 <=> ~ FitsSigned(v, w)
      PROVE  FlagsTell(v)'
  <2>1. Tells(fl', r, w, v)
    BY <1>3, <1>7 DEF Tells
  <2>. QED BY <1>6, <2>1, TellsOfResult
<1>. QED BY <1>3, <1>4, <1>5, <1>6, <1>7

LEMMA IncStep == ASSUME IInv, NEW w \in {8, 16}, Inc(w) PROVE IInv'
<1>1. TypeOK /\ fl \in Flags
  BY Typed DEF IInv
<1>2. PICK H \in Nat : Sized(w, H)
  BY Sizes
<1>3. PICK x : x = Dest(w)
  OBVIOUS
<1>4. PICK r : r = Wrap(x + 1, w)
  OBVIOUS
<1>5. x \in Numbers(w) /\ x \in Int /\ 0 <= x /\ x < 2 * H /\ H > 1 /\ 2^(w - 1) = H /\ 2^w = 2 * H
  BY <1>1, <1>2, <1>3, DestType, SizedNumbers DEF Sized
<1>6. r \in Numbers(w) /\ r \in Int /\ r = IF x + 1 < 2 * H THEN x + 1 ELSE 0
  BY <1>2, <1>4, <1>5, Wrapped
<1>7. PICK o : o = Flag(r = H)
  OBVIOUS
<1>8. o \in {0, 1} /\ (o = 1 <=> r = H)
  BY <1>7 DEF Flag
<1>9. PICK a : a = (Bit(r, 4) + Bit(r - 1, 4)) % 2
  OBVIOUS
<1>10. a \in {0, 1}
  BY <1>6, <1>9, HalfType
<1>11. PICK f : f = [fl EXCEPT !.OF = o, !.AF = a]
  OBVIOUS
<1>12. f \in Flags /\ f.CF = fl.CF /\ f.OF = o
  BY ONLY <1>1, <1>8, <1>10, <1>11 DEF Flags
<1>13. fl' = Marked(f, r, w) /\ ax' = With(r, w) /\ last' = Did("INC", 1, w)
  BY <1>3, <1>4, <1>5, <1>7, <1>9, <1>11 DEF Inc
<1>14. 1 \in Numbers(w)
  BY <1>2, <1>5, SizedNumbers
<1>15. /\ TypeOK' /\ LastOK' /\ Result' = r
       /\ last'.op = "INC" /\ last'.x = x /\ last'.w = w /\ last'.CF = fl.CF
       /\ fl'.CF = f.CF
       /\ \A v : (f.OF = 1 <=> ~ FitsSigned(v, w)) => FlagsTell(v)'
  BY <1>3, <1>6, <1>12, <1>13, <1>14, Counted
<1>16. FlagsTell(Signed(x, w) + 1)'
  <2>1. Signed(x, w) = IF x < H THEN x ELSE x - 2 * H
    BY <1>2, <1>5, SignedValue
  <2>2. o = 1 <=> ~ FitsSigned(Signed(x, w) + 1, w)
    BY <1>5, <1>6, <1>8, <2>1 DEF FitsSigned
  <2>. QED BY <1>12, <1>15, <2>2
<1>17. SumsExact'
  BY <1>4, <1>12, <1>15, <1>16 DEF SumsExact
<1>. QED BY <1>15, <1>17 DEF IInv

LEMMA DecStep == ASSUME IInv, NEW w \in {8, 16}, Dec(w) PROVE IInv'
<1>1. TypeOK /\ fl \in Flags
  BY Typed DEF IInv
<1>2. PICK H \in Nat : Sized(w, H)
  BY Sizes
<1>3. PICK x : x = Dest(w)
  OBVIOUS
<1>4. PICK r : r = Wrap(x - 1, w)
  OBVIOUS
<1>5. x \in Numbers(w) /\ x \in Int /\ 0 <= x /\ x < 2 * H /\ H > 1 /\ 2^(w - 1) = H /\ 2^w = 2 * H
  BY <1>1, <1>2, <1>3, DestType, SizedNumbers DEF Sized
<1>6. r \in Numbers(w) /\ r \in Int /\ r = IF x > 0 THEN x - 1 ELSE 2 * H - 1
  BY <1>2, <1>4, <1>5, Wrapped
<1>7. PICK o : o = Flag(r = H - 1)
  OBVIOUS
<1>8. o \in {0, 1} /\ (o = 1 <=> r = H - 1)
  BY <1>7 DEF Flag
<1>9. PICK a : a = (Bit(r, 4) + Bit(r + 1, 4)) % 2
  OBVIOUS
<1>10. a \in {0, 1}
  BY <1>6, <1>9, HalfType
<1>11. PICK f : f = [fl EXCEPT !.OF = o, !.AF = a]
  OBVIOUS
<1>12. f \in Flags /\ f.CF = fl.CF /\ f.OF = o
  BY ONLY <1>1, <1>8, <1>10, <1>11 DEF Flags
<1>13. fl' = Marked(f, r, w) /\ ax' = With(r, w) /\ last' = Did("DEC", 1, w)
  BY <1>3, <1>4, <1>5, <1>7, <1>9, <1>11 DEF Dec
<1>14. 1 \in Numbers(w)
  BY <1>2, <1>5, SizedNumbers
<1>15. /\ TypeOK' /\ LastOK' /\ Result' = r
       /\ last'.op = "DEC" /\ last'.x = x /\ last'.w = w /\ last'.CF = fl.CF
       /\ fl'.CF = f.CF
       /\ \A v : (f.OF = 1 <=> ~ FitsSigned(v, w)) => FlagsTell(v)'
  BY <1>3, <1>6, <1>12, <1>13, <1>14, Counted
<1>16. FlagsTell(Signed(x, w) - 1)'
  <2>1. Signed(x, w) = IF x < H THEN x ELSE x - 2 * H
    BY <1>2, <1>5, SignedValue
  <2>2. o = 1 <=> ~ FitsSigned(Signed(x, w) - 1, w)
    BY <1>5, <1>6, <1>8, <2>1 DEF FitsSigned
  <2>. QED BY <1>12, <1>15, <2>2
<1>17. SumsExact'
  BY <1>4, <1>12, <1>15, <1>16 DEF SumsExact
<1>. QED BY <1>15, <1>17 DEF IInv

LEMMA NegStep == ASSUME IInv, NEW w \in {8, 16}, Neg(w) PROVE IInv'
<1>1. TypeOK /\ fl \in Flags
  BY Typed DEF IInv
<1>2. PICK H \in Nat : Sized(w, H)
  BY Sizes
<1>3. PICK x : x = Dest(w)
  OBVIOUS
<1>4. PICK r : r = Wrap(2^w - x, w)
  OBVIOUS
<1>5. x \in Numbers(w) /\ x \in Int /\ 0 <= x /\ x < 2 * H /\ H > 1 /\ 2^(w - 1) = H /\ 2^w = 2 * H
  BY <1>1, <1>2, <1>3, DestType, SizedNumbers DEF Sized
<1>6. r \in Numbers(w) /\ r \in Int /\ r = IF x > 0 THEN 2 * H - x ELSE 0
  <2>1. PICK t \in Int : t = 2^w - x /\ t = 2 * H - x
    BY <1>5
  <2>. QED BY <1>2, <1>4, <1>5, <2>1, Wrapped
<1>7. PICK o, c : o = Flag(r = H) /\ c = Flag(r # 0)
  OBVIOUS
<1>8. o \in {0, 1} /\ (o = 1 <=> r = H) /\ c \in {0, 1} /\ (c = 1 <=> r # 0)
  BY <1>7 DEF Flag
<1>9. PICK a : a = (Bit(r, 4) + Bit(2^w - r, 4)) % 2
  OBVIOUS
<1>10. a \in {0, 1}
  BY <1>5, <1>6, <1>9, HalfType
<1>11. PICK f \in Flags : WithThree(f, fl, c, o, a)
  <2>1. ThreeBits(c, o, a)
    BY <1>8, <1>10 DEF ThreeBits
  <2>. QED BY <1>1, <2>1, ThreeFlags
<1>12. f.CF = c /\ f.OF = o
  BY <1>11 DEF WithThree
<1>13. fl' = Marked(f, r, w) /\ ax' = With(r, w) /\ last' = Did("NEG", 0, w)
  BY <1>3, <1>4, <1>5, <1>7, <1>9, <1>11 DEF Neg, WithThree
<1>14. 0 \in Numbers(w)
  BY <1>2, <1>5, SizedNumbers
<1>15. /\ TypeOK' /\ LastOK' /\ Result' = r
       /\ last'.op = "NEG" /\ last'.x = x /\ last'.w = w /\ last'.CF = fl.CF
       /\ fl'.CF = f.CF
       /\ \A v : (f.OF = 1 <=> ~ FitsSigned(v, w)) => FlagsTell(v)'
  BY <1>3, <1>6, <1>12, <1>13, <1>14, Counted
<1>16. FlagsTell(-Signed(x, w))'
  <2>1. Signed(x, w) = IF x < H THEN x ELSE x - 2 * H
    BY <1>2, <1>5, SignedValue
  <2>2. o = 1 <=> ~ FitsSigned(-Signed(x, w), w)
    BY <1>5, <1>6, <1>8, <2>1 DEF FitsSigned
  <2>. QED BY <1>12, <1>15, <2>2
<1>17. r - c * 2^w = -x
  BY <1>5, <1>6, <1>8
<1>18. SumsExact'
  BY <1>12, <1>15, <1>16, <1>17 DEF SumsExact
<1>. QED BY <1>15, <1>18 DEF IInv

--------------------------------------------------------------------------------
(* Decimal adjustment. *)

(* A byte of two decimal digits a, b. *)
Digit(d) == d \in Nat /\ d < 10

LEMMA TwoDecimals ==
  ASSUME NEW x \in Numbers(8), IsDecimal(x)
  PROVE  \E a, b : Digit(a) /\ Digit(b) /\ x = 16 * a + b /\ Decimal(x) = 10 * a + b /\ x % 16 = b
<1>1. x \in Nat /\ x < 256
  BY Bytes
<1>2. PICK a, b : a = x \div 16 /\ b = x % 16
  OBVIOUS
<1>3. a \in Nat /\ b \in Nat /\ x = 16 * a + b
  BY <1>1, <1>2
<1>4. Digit(a) /\ Digit(b) /\ Decimal(x) = 10 * a + b /\ x % 16 = b
  BY <1>2, <1>3 DEF IsDecimal, Decimal, Digit
<1>. QED BY <1>3, <1>4

(* What an addition of a byte, or a subtraction, left. *)
LEMMA AfterByte ==
  ASSUME IInv, last.op \in {"ADD", "ADC", "SUB", "SBB"}, last.w = 8
  PROVE  /\ last.x \in Numbers(8) /\ last.y \in Numbers(8) /\ Carried(last) \in {0, 1}
         /\ last.ax \in Numbers(16) /\ ax \div 256 = last.ax \div 256
         /\ fl.CF \in {0, 1} /\ fl.AF \in {0, 1} /\ fl \in Flags
         /\ last.op \in {"ADD", "ADC"} =>
               /\ Dest(8) + fl.CF * 256 = last.x + last.y + Carried(last)
               /\ fl.AF = ((last.x % 16) + (last.y % 16) + Carried(last)) \div 16
         /\ last.op \in {"SUB", "SBB"} =>
               /\ Dest(8) - fl.CF * 256 = last.x - last.y - Carried(last)
               /\ fl.AF = 1 <=> last.x % 16 < (last.y % 16) + Carried(last)
<1>1. Kept /\ TypeOK
  BY DEF IInv, LastOK
<1>2. fl.CF \in {0, 1} /\ fl.AF \in {0, 1} /\ fl \in Flags
  BY <1>1, Typed, CarryType
<1>3. Carried(last) = IF last.op \in {"ADC", "SBB"} THEN last.CF ELSE 0
  BY DEF Carried
<1>4. PICK w : w = 8
  OBVIOUS
<1>5. 2^w = 256 /\ Result = Dest(8) /\ last.w = w
  BY <1>4 DEF Result
<1>6. /\ last.op \in {"ADD", "ADC"} =>
            /\ Result + fl.CF * 2^w = last.x + last.y + Carried(last)
            /\ fl.AF = ((last.x % 16) + (last.y % 16) + Carried(last)) \div 16
      /\ last.op \in {"SUB", "SBB"} =>
            /\ Result - fl.CF * 2^w = last.x - last.y - Carried(last)
            /\ fl.AF = 1 <=> last.x % 16 < (last.y % 16) + Carried(last)
  BY <1>3, <1>5 DEF IInv, SumsExact
<1>. QED BY <1>1, <1>2, <1>3, <1>5, <1>6 DEF Kept

(* The invariant when no sum was computed. *)
LEMMA NoSum ==
  ASSUME TypeOK', last'.op \notin {"ADD", "ADC", "SUB", "SBB", "CMP", "INC", "DEC", "NEG", "AAM"}
  PROVE  IInv'
BY OtherSums, OtherLast DEF IInv

(* An adjusted byte r with the flags a and c. *)
LEMMA Adjusted ==
  ASSUME TypeOK, NEW r \in Numbers(8), NEW a \in {0, 1}, NEW c \in {0, 1},
         fl' = Marked([fl EXCEPT !.AF = a, !.CF = c], r, 8), ax' = With(r, 8)
  PROVE  TypeOK' /\ Dest(8)' = r /\ fl'.CF = c
<1>1. PICK f : f = [fl EXCEPT !.AF = a, !.CF = c]
  OBVIOUS
<1>2. f \in Flags /\ f.CF = c
  BY <1>1, Typed DEF Flags
<1>3. PICK w \in {8, 16} : w = 8
  OBVIOUS
<1>4. PICK H \in Nat : Sized(w, H)
  BY Sizes
<1>5. fl' \in Flags /\ fl'.CF = c
  BY <1>1, <1>2, <1>3, <1>4, MarkedFlags
<1>. QED BY <1>3, <1>5, Leaves

LEMMA LowFour ==
  ASSUME IInv
  PROVE  LowInvalid <=> fl.AF = 1 \/ Dest(8) % 16 > 9
<1>1. ax % 16 = Dest(8) % 16
  BY Halves DEF IInv
<1>. QED BY <1>1 DEF LowInvalid

(* DAA as arithmetic on the digits: old is the sum of ab, cd and k. *)
DaaBytes(a, b, c, d, k, old, cf, al, r) ==
    /\ Digit(a) /\ Digit(b) /\ Digit(c) /\ Digit(d) /\ k \in {0, 1} /\ cf \in {0, 1}
    /\ old \in Nat /\ old < 256 /\ old + cf * 256 = 16 * a + b + 16 * c + d + k
    /\ ~ (old + cf * 256 >= 250 /\ old + cf * 256 <= 255)
    /\ al = IF b + d + k > 9 THEN (old + 6) % 256 ELSE old
    /\ r = IF cf = 1 \/ al > 159 THEN (al + 96) % 256 ELSE al

LEMMA DaaDigits ==
  ASSUME NEW a, NEW b, NEW c, NEW d, NEW k, NEW old, NEW cf, NEW al, NEW r,
         DaaBytes(a, b, c, d, k, old, cf, al, r)
  PROVE  /\ IsDecimal(r)
         /\ Decimal(r) + 100 * Flag(cf = 1 \/ al > 159) = (10 * a + b) + (10 * c + d) + k
<1>. /\ Digit(a) /\ Digit(b) /\ Digit(c) /\ Digit(d) /\ k \in {0, 1} /\ cf \in {0, 1}
     /\ old \in Nat /\ old < 256 /\ old + cf * 256 = 16 * a + b + 16 * c + d + k
     /\ ~ (old + cf * 256 >= 250 /\ old + cf * 256 <= 255)
     /\ al = IF b + d + k > 9 THEN (old + 6) % 256 ELSE old
     /\ r = IF cf = 1 \/ al > 159 THEN (al + 96) % 256 ELSE al
  BY DEF DaaBytes
<1>. USE DEF Digit
<1>1. PICK e \in {0, 1} : e = 1 <=> b + d + k > 9
  OBVIOUS
<1>2. PICK l \in Nat : l = b + d + k - 10 * e /\ l < 10
  BY <1>1
<1>3. PICK m \in Nat : m = a + c + e /\ m < 20
  BY <1>1
<1>4. (old + cf * 256) + 6 * e = 16 * m + l
  BY <1>2, <1>3
<1>5. m < 16 => al = 16 * m + l /\ (cf = 1 \/ al > 159 <=> m > 9)
  BY <1>1, <1>2, <1>3, <1>4
<1>6. m >= 16 => al = 16 * m + l - 256 /\ cf = 1
  BY <1>1, <1>2, <1>3, <1>4
<1>7. PICK h \in {0, 1} : h = 1 <=> m > 9
  OBVIOUS
<1>8. (cf = 1 \/ al > 159 <=> h = 1) /\ Flag(cf = 1 \/ al > 159) = h
  BY <1>3, <1>5, <1>6, <1>7 DEF Flag
<1>9. r = 16 * (m - 10 * h) + l
  BY <1>2, <1>3, <1>5, <1>6, <1>7, <1>8
<1>10. PICK n \in Nat : n = m - 10 * h /\ n < 10
  BY <1>3, <1>7
<1>11. r \div 16 = n /\ r % 16 = l
  BY <1>2, <1>9, <1>10
<1>. QED BY <1>2, <1>3, <1>8, <1>10, <1>11 DEF IsDecimal, Decimal

LEMMA DaaStep == ASSUME IInv, i_daa PROVE IInv' /\ DecimalExact'
<1>1. last.op \in {"ADD", "ADC"} /\ last.w = 8
  BY DEF i_daa
<1>2. PICK x, y, k : x = last.x /\ y = last.y /\ k = Carried(last)
  OBVIOUS
<1>3. PICK old, cf : old = Dest(8) /\ cf = fl.CF
  OBVIOUS
<1>4. /\ x \in Numbers(8) /\ y \in Numbers(8) /\ k \in {0, 1} /\ cf \in {0, 1}
      /\ old + cf * 256 = x + y + k
      /\ fl.AF = ((x % 16) + (y % 16) + k) \div 16
  BY <1>1, <1>2, <1>3, AfterByte
<1>5. old \in Nat /\ old < 256 /\ TypeOK
  BY <1>3, Halves DEF IInv
<1>6. PICK al : al = IF LowInvalid THEN (old + 6) % 256 ELSE old
  OBVIOUS
<1>7. al \in Nat /\ al < 256
  BY <1>5, <1>6
<1>8. PICK r : r = IF cf = 1 \/ al > 159 THEN (al + 96) % 256 ELSE al
  OBVIOUS
<1>9. r \in Numbers(8)
  <2>1. r \in Int /\ 0 <= r /\ r < 256
    BY <1>7, <1>8
  <2>. QED BY <2>1, Bytes
<1>10. PICK a, c : a = Flag(LowInvalid) /\ c = Flag(cf = 1 \/ al > 159)
  OBVIOUS
<1>11. a \in {0, 1} /\ c \in {0, 1}
  BY <1>10 DEF Flag
<1>12. /\ ax' = With(r, 8) /\ last' = Adjusting("DAA")
       /\ fl' = Marked([fl EXCEPT !.AF = a, !.CF = c], r, 8)
  BY <1>3, <1>6, <1>8, <1>10 DEF i_daa, DaaHigh
<1>13. TypeOK' /\ Dest(8)' = r /\ fl'.CF = c
  BY <1>5, <1>9, <1>11, <1>12, Adjusted
<1>14. last'.op = "DAA" /\ last'.of = last
  BY <1>12 DEF Adjusting
<1>15. ASSUME x + y + k \notin 250 .. 255, IsDecimal(x), IsDecimal(y)
       PROVE  IsDecimal(r) /\ Decimal(r) + 100 * c = Decimal(x) + Decimal(y) + k
  <2>1. PICK p, q : Digit(p) /\ Digit(q) /\ x = 16 * p + q /\ Decimal(x) = 10 * p + q /\ x % 16 = q
    BY <1>4, <1>15, TwoDecimals
  <2>2. PICK s, t : Digit(s) /\ Digit(t) /\ y = 16 * s + t /\ Decimal(y) = 10 * s + t /\ y % 16 = t
    BY <1>4, <1>15, TwoDecimals
  <2>3. LowInvalid <=> q + t + k > 9
    <3>1. LowInvalid <=> (q + t + k) \div 16 = 1 \/ old % 16 > 9
      BY <1>3, <1>4, <2>1, <2>2, LowFour
    <3>2. old % 16 = (q + t + k) % 16
      BY <1>4, <1>5, <2>1, <2>2 DEF Digit
    <3>. QED BY <1>4, <2>1, <2>2, <3>1, <3>2 DEF Digit
  <2>4. DaaBytes(p, q, s, t, k, old, cf, al, r)
    <3>1. ~ (x + y + k >= 250 /\ x + y + k <= 255)
      BY <1>4, <1>15, Bytes
    <3>2. old + cf * 256 = 16 * p + q + 16 * s + t + k
      BY <1>4, <2>1, <2>2 DEF Digit
    <3>3. ~ (old + cf * 256 >= 250 /\ old + cf * 256 <= 255)
      BY <1>4, <3>1
    <3>. QED BY <1>4, <1>5, <1>6, <1>8, <2>1, <2>2, <2>3, <3>2, <3>3 DEF DaaBytes
  <2>5. /\ IsDecimal(r)
        /\ Decimal(r) + 100 * Flag(cf = 1 \/ al > 159) = (10 * p + q) + (10 * s + t) + k
    BY <2>4, DaaDigits
  <2>. QED BY <1>10, <2>1, <2>2, <2>5
<1>16. IInv'
  BY <1>13, <1>14, NoSum
<1>17. x + y + k \notin 250 .. 255 => DaaExact'
  BY <1>2, <1>13, <1>14, <1>15 DEF DaaExact, TwoDigits
<1>18. DecimalExact'
  BY <1>2, <1>14, <1>17 DEF DecimalExact
<1>. QED BY <1>16, <1>18

(* DAS as arithmetic on the digits: old is the difference of ab, cd and k. *)
DasBytes(a, b, c, d, k, old, cf, al, r) ==
    /\ Digit(a) /\ Digit(b) /\ Digit(c) /\ Digit(d) /\ k \in {0, 1} /\ cf \in {0, 1}
    /\ old \in Nat /\ old < 256 /\ old - cf * 256 = (16 * a + b) - (16 * c + d) - k
    /\ al = IF b < d + k THEN (old - 6) % 256 ELSE old
    /\ r = IF cf = 1 \/ old > 153 THEN (al - 96) % 256 ELSE al

DasCarry(cf, old, low) == Flag((cf = 1 \/ old > 153) \/ (low /\ (cf = 1 \/ old < 6)))

LEMMA DasDigits ==
  ASSUME NEW a, NEW b, NEW c, NEW d, NEW k, NEW old, NEW cf, NEW al, NEW r,
         DasBytes(a, b, c, d, k, old, cf, al, r)
  PROVE  /\ IsDecimal(r)
         /\ Decimal(r) - 100 * DasCarry(cf, old, b < d + k) = (10 * a + b) - (10 * c + d) - k
<1>. /\ Digit(a) /\ Digit(b) /\ Digit(c) /\ Digit(d) /\ k \in {0, 1} /\ cf \in {0, 1}
     /\ old \in Nat /\ old < 256 /\ old - cf * 256 = (16 * a + b) - (16 * c + d) - k
     /\ al = IF b < d + k THEN (old - 6) % 256 ELSE old
     /\ r = IF cf = 1 \/ old > 153 THEN (al - 96) % 256 ELSE al
  BY DEF DasBytes
<1>. USE DEF Digit
<1>1. PICK e \in {0, 1} : e = 1 <=> b < d + k
  OBVIOUS
<1>2. PICK l \in Nat : l = (b + 10 * e) - d - k /\ l < 10
  BY <1>1
<1>3. PICK m \in Int : m = a - c - e /\ -10 <= m /\ m < 10
  BY <1>1
<1>4. old - cf * 256 = 16 * m + 6 * e + l
  BY <1>2, <1>3
<1>5. PICK h \in {0, 1} : h = 1 <=> m < 0
  OBVIOUS
<1>6. m >= 0 => cf = 0 /\ old = 16 * m + 6 * e + l /\ ~ (old > 153) /\ (e = 1 => old >= 6)
  BY <1>2, <1>3, <1>4
<1>7. m < -1 => cf = 1 /\ old = 256 + 16 * m + 6 * e + l
  BY <1>2, <1>3, <1>4
<1>8. m = -1 => cf = 1 /\ old = 240 + 6 * e + l
  BY <1>2, <1>3, <1>4
<1>9. (cf = 1 \/ old > 153 <=> h = 1) /\ (b < d + k /\ (cf = 1 \/ old < 6) => h = 1)
  BY <1>1, <1>3, <1>5, <1>6, <1>7, <1>8
<1>10. DasCarry(cf, old, b < d + k) = h
  BY <1>5, <1>9 DEF Flag, DasCarry
<1>11. PICK n \in Nat : n = m + 10 * h /\ n < 10
  BY <1>3, <1>5
<1>12. al = old - 6 * e
  BY <1>1, <1>2, <1>3, <1>6, <1>7, <1>8
<1>13. r = 16 * n + l
  BY <1>2, <1>3, <1>5, <1>6, <1>7, <1>8, <1>9, <1>11, <1>12
<1>14. r \div 16 = n /\ r % 16 = l
  BY <1>2, <1>11, <1>13
<1>. QED BY <1>2, <1>3, <1>10, <1>11, <1>14 DEF IsDecimal, Decimal

LEMMA DasStep == ASSUME IInv, i_das PROVE IInv' /\ DecimalExact'
<1>1. last.op \in {"SUB", "SBB"} /\ last.w = 8
  BY DEF i_das
<1>2. PICK x, y, k : x = last.x /\ y = last.y /\ k = Carried(last)
  OBVIOUS
<1>3. PICK old, cf : old = Dest(8) /\ cf = fl.CF
  OBVIOUS
<1>4. /\ x \in Numbers(8) /\ y \in Numbers(8) /\ k \in {0, 1} /\ cf \in {0, 1}
      /\ old - cf * 256 = x - y - k
      /\ fl.AF = 1 <=> x % 16 < (y % 16) + k
  BY <1>1, <1>2, <1>3, AfterByte
<1>5. old \in Nat /\ old < 256 /\ TypeOK
  BY <1>3, Halves DEF IInv
<1>6. PICK al : al = IF LowInvalid THEN (old - 6) % 256 ELSE old
  OBVIOUS
<1>7. al \in Nat /\ al < 256
  BY <1>5, <1>6
<1>8. PICK r : r = IF cf = 1 \/ old > 153 THEN (al - 96) % 256 ELSE al
  OBVIOUS
<1>9. r \in Numbers(8)
  <2>1. r \in Int /\ 0 <= r /\ r < 256
    BY <1>7, <1>8
  <2>. QED BY <2>1, Bytes
<1>10. PICK a, c : /\ a = Flag(LowInvalid)
                   /\ c = Flag((cf = 1 \/ old > 153) \/ (LowInvalid /\ (cf = 1 \/ old < 6)))
  OBVIOUS
<1>11. a \in {0, 1} /\ c \in {0, 1}
  BY <1>10 DEF Flag
<1>12. /\ ax' = With(r, 8) /\ last' = Adjusting("DAS")
       /\ fl' = Marked([fl EXCEPT !.AF = a, !.CF = c], r, 8)
  BY <1>3, <1>6, <1>8, <1>10 DEF i_das
<1>13. TypeOK' /\ Dest(8)' = r /\ fl'.CF = c
  BY <1>5, <1>9, <1>11, <1>12, Adjusted
<1>14. last'.op = "DAS" /\ last'.of = last
  BY <1>12 DEF Adjusting
<1>15. ASSUME IsDecimal(x), IsDecimal(y)
       PROVE  IsDecimal(r) /\ Decimal(r) - 100 * c = Decimal(x) - Decimal(y) - k
  <2>1. PICK p, q : Digit(p) /\ Digit(q) /\ x = 16 * p + q /\ Decimal(x) = 10 * p + q /\ x % 16 = q
    BY <1>4, <1>15, TwoDecimals
  <2>2. PICK s, t : Digit(s) /\ Digit(t) /\ y = 16 * s + t /\ Decimal(y) = 10 * s + t /\ y % 16 = t
    BY <1>4, <1>15, TwoDecimals
  <2>3. LowInvalid <=> q < t + k
    <3>1. LowInvalid <=> q < t + k \/ old % 16 > 9
      BY <1>3, <1>4, <2>1, <2>2, LowFour
    <3>2. q >= t + k => old % 16 = q - t - k
      BY <1>4, <1>5, <2>1, <2>2 DEF Digit
    <3>. QED BY <1>4, <2>1, <2>2, <3>1, <3>2 DEF Digit
  <2>4. DasBytes(p, q, s, t, k, old, cf, al, r)
    BY <1>4, <1>5, <1>6, <1>8, <2>1, <2>2, <2>3 DEF DasBytes
  <2>5. /\ IsDecimal(r)
        /\ Decimal(r) - 100 * DasCarry(cf, old, q < t + k) = (10 * p + q) - (10 * s + t) - k
    BY <2>4, DasDigits
  <2>6. DasCarry(cf, old, q < t + k) = c
    BY <1>10, <2>3 DEF DasCarry, Flag
  <2>. QED BY <2>1, <2>2, <2>5, <2>6
<1>16. IInv'
  BY <1>13, <1>14, NoSum
<1>17. DaaExact'
  BY <1>14 DEF DaaExact
<1>18. DecimalExact'
  BY <1>2, <1>13, <1>14, <1>15, <1>17 DEF DecimalExact, TwoDigits
<1>. QED BY <1>16, <1>18

(* The adjustments to one digit. *)
AsciiLeaves(r, d, a) ==
    /\ r \in Numbers(16) /\ d = r % 256 /\ a \in {0, 1}
    /\ ax' = r
    /\ fl' = Marked([fl EXCEPT !.AF = a, !.CF = a], d, 8)

LEMMA AsciiType ==
  ASSUME IInv, NEW r, NEW d, NEW a, AsciiLeaves(r, d, a)
  PROVE  TypeOK' /\ fl'.CF = a /\ Dest(8)' = d
<1>. /\ r \in Numbers(16) /\ d = r % 256 /\ a \in {0, 1} /\ ax' = r
     /\ fl' = Marked([fl EXCEPT !.AF = a, !.CF = a], d, 8)
  BY DEF AsciiLeaves
<1>1. PICK f : f = [fl EXCEPT !.AF = a, !.CF = a]
  OBVIOUS
<1>2. f \in Flags /\ f.CF = a
  BY <1>1, Typed DEF Flags, IInv
<1>3. PICK w \in {8, 16} : w = 8
  OBVIOUS
<1>4. PICK H \in Nat : Sized(w, H)
  BY Sizes
<1>5. r \in Nat /\ r < 65536
  BY Words
<1>6. d \in Numbers(w)
  <2>1. d \in Int /\ 0 <= d /\ d < 256
    BY <1>5
  <2>. QED BY <1>3, <2>1, Bytes
<1>7. fl' \in Flags /\ fl'.CF = a
  <2>1. Marked(f, d, w) \in Flags /\ Marked(f, d, w).CF = f.CF
    BY ONLY <1>2, <1>4, <1>6, MarkedFlags
  <2>2. fl' = Marked(f, d, w)
    BY <1>1, <1>3
  <2>. QED BY <1>2, <2>1, <2>2
<1>8. TypeOK'
  BY <1>7 DEF TypeOK, Flags
<1>9. 2^w = 256
  BY <1>3
<1>10. Dest(w)' = d
  BY <1>9 DEF Dest, Wrap
<1>. QED BY <1>3, <1>7, <1>8, <1>10

LEMMA AaaStep == ASSUME IInv, i_aaa PROVE IInv' /\ DecimalExact'
<1>1. last.op \in {"ADD", "ADC"} /\ last.w = 8
  BY DEF i_aaa
<1>2. PICK x, y, k : x = last.x /\ y = last.y /\ k = Carried(last)
  OBVIOUS
<1>3. PICK old, cf, hi : old = Dest(8) /\ cf = fl.CF /\ hi = ax \div 256
  OBVIOUS
<1>4. /\ x \in Nat /\ y \in Nat /\ k \in {0, 1} /\ cf \in {0, 1}
      /\ old + cf * 256 = x + y + k
      /\ fl.AF = ((x % 16) + (y % 16) + k) \div 16
      /\ hi = last.ax \div 256
  BY <1>1, <1>2, <1>3, AfterByte, Bytes
<1>5. /\ old \in Nat /\ old < 256 /\ TypeOK
      /\ hi \in Nat /\ hi < 256 /\ ax = 256 * hi + old
  BY <1>3, Halves DEF IInv
<1>6. PICK r : r = IF LowInvalid THEN ((hi + 1) % 256) * 256 + ((ax + 6) % 16) ELSE hi * 256 + (ax % 16)
  OBVIOUS
<1>7. PICK n, d \in Nat : /\ n = (IF LowInvalid THEN (hi + 1) % 256 ELSE hi) /\ n < 256
                          /\ d = (IF LowInvalid THEN (ax + 6) % 16 ELSE ax % 16) /\ d < 16
  BY <1>5
<1>8. r = n * 256 + d
  BY <1>6, <1>7
<1>9. r \in Nat /\ r < 65536 /\ r % 256 = d /\ r \div 256 = n
  BY <1>7, <1>8
<1>10. r \in Numbers(16)
  BY <1>9, Words
<1>11. PICK a : a = Flag(LowInvalid)
  OBVIOUS
<1>12. a \in {0, 1} /\ (a = 1 <=> LowInvalid)
  BY <1>11 DEF Flag
<1>13. /\ ax' = r /\ last' = Adjusting("AAA")
       /\ fl' = Marked([fl EXCEPT !.AF = a, !.CF = a], r % 256, 8)
  BY <1>3, <1>6, <1>11 DEF i_aaa
<1>14. TypeOK' /\ fl'.CF = a /\ Dest(8)' = d
  <2>1. AsciiLeaves(r, d, a)
    BY <1>9, <1>10, <1>12, <1>13 DEF AsciiLeaves
  <2>. QED BY <2>1, AsciiType
<1>15. last'.op = "AAA" /\ last'.of = last
  BY <1>13 DEF Adjusting
<1>16. ASSUME x < 10, y < 10
       PROVE  d + 10 * a = x + y + k /\ n = (hi + a) % 256
  <2>1. cf = 0 /\ old = x + y + k /\ old < 20
    BY <1>4, <1>5, <1>16
  <2>2. fl.AF = (x + y + k) \div 16
    BY <1>4, <1>16
  <2>3. LowInvalid <=> old > 9
    <3>1. LowInvalid <=> old \div 16 = 1 \/ old % 16 > 9
      BY <1>3, <2>1, <2>2, LowFour
    <3>. QED BY <1>5, <2>1, <3>1
  <2>4. (ax + 6) % 16 = (old + 6) % 16 /\ ax % 16 = old % 16
    BY <1>5
  <2>. QED BY <1>4, <1>5, <1>7, <1>12, <2>1, <2>3, <2>4
<1>17. IInv'
  BY <1>14, <1>15, NoSum
<1>18. DaaExact'
  BY <1>15 DEF DaaExact
<1>19. ax' \div 256 = n
  BY <1>9, <1>13
<1>20. DecimalExact'
  BY <1>2, <1>4, <1>14, <1>15, <1>16, <1>18, <1>19 DEF DecimalExact, OneDigit
<1>. QED BY <1>17, <1>20

LEMMA AasStep == ASSUME IInv, i_aas PROVE IInv' /\ DecimalExact'
<1>1. last.op \in {"SUB", "SBB"} /\ last.w = 8
  BY DEF i_aas
<1>2. PICK x, y, k : x = last.x /\ y = last.y /\ k = Carried(last)
  OBVIOUS
<1>3. PICK old, cf, hi : old = Dest(8) /\ cf = fl.CF /\ hi = ax \div 256
  OBVIOUS
<1>4. /\ x \in Nat /\ y \in Nat /\ k \in {0, 1} /\ cf \in {0, 1}
      /\ old - cf * 256 = x - y - k
      /\ fl.AF = 1 <=> x % 16 < (y % 16) + k
      /\ hi = last.ax \div 256 /\ last.ax \in Nat
  BY <1>1, <1>2, <1>3, AfterByte, Bytes, Words
<1>5. /\ old \in Nat /\ old < 256 /\ TypeOK
      /\ hi \in Nat /\ hi < 256 /\ ax = 256 * hi + old
  BY <1>3, Halves DEF IInv
<1>6. PICK s \in Nat : s = (ax - 262) % 65536 /\ s < 65536
  BY <1>5
<1>7. PICK r : r = IF LowInvalid THEN (s \div 256) * 256 + (s % 16) ELSE hi * 256 + (ax % 16)
  OBVIOUS
<1>8. PICK n, d \in Nat : /\ n = (IF LowInvalid THEN s \div 256 ELSE hi) /\ n < 256
                          /\ d = (IF LowInvalid THEN s % 16 ELSE ax % 16) /\ d < 16
  BY <1>5, <1>6
<1>9. r = n * 256 + d
  BY <1>7, <1>8
<1>10. r \in Nat /\ r < 65536 /\ r % 256 = d /\ r \div 256 = n
  BY <1>8, <1>9
<1>11. r \in Numbers(16)
  BY <1>10, Words
<1>12. PICK a : a = Flag(LowInvalid)
  OBVIOUS
<1>13. a \in {0, 1} /\ (a = 1 <=> LowInvalid)
  BY <1>12 DEF Flag
<1>14. /\ ax' = r /\ last' = Adjusting("AAS")
       /\ fl' = Marked([fl EXCEPT !.AF = a, !.CF = a], r % 256, 8)
  BY <1>3, <1>6, <1>7, <1>12 DEF i_aas
<1>15. TypeOK' /\ fl'.CF = a /\ Dest(8)' = d
  <2>1. AsciiLeaves(r, d, a)
    BY <1>10, <1>11, <1>13, <1>14 DEF AsciiLeaves
  <2>. QED BY <2>1, AsciiType
<1>16. last'.op = "AAS" /\ last'.of = last
  BY <1>14 DEF Adjusting
<1>17. ASSUME x < 10, y < 10
       PROVE  d - 10 * a = x - y - k /\ (hi > 0 => n = hi - a)
  <2>1. PICK v \in Int : v = x - y - k /\ -10 <= v /\ v < 10
    BY <1>4, <1>17
  <2>2. old = IF v < 0 THEN 256 + v ELSE v
    BY <1>4, <1>5, <2>1
  <2>3. LowInvalid <=> v < 0
    <3>1. fl.AF = 1 <=> v < 0
      BY <1>4, <1>17, <2>1
    <3>2. v >= 0 => old % 16 = v
      BY <2>1, <2>2
    <3>. QED BY <1>3, <2>1, <3>1, <3>2, LowFour
  <2>4. CASE v >= 0
    <3>1. ax % 16 = v
      BY <1>5, <2>1, <2>2, <2>4
    <3>. QED BY <1>5, <1>8, <1>13, <2>1, <2>3, <2>4, <3>1
  <2>5. CASE v < 0
    <3>1. ax - 262 = 256 * (hi - 1) + 250 + v
      BY <1>5, <2>1, <2>2, <2>5
    <3>2. s = IF hi > 0 THEN 256 * (hi - 1) + 250 + v ELSE 65280 + 250 + v
      BY <1>5, <1>6, <2>1, <3>1
    <3>3. s % 16 = 10 + v /\ (hi > 0 => s \div 256 = hi - 1)
      BY <1>5, <2>1, <2>5, <3>2
    <3>. QED BY <1>8, <1>13, <2>1, <2>3, <2>5, <3>3
  <2>. QED BY <2>1, <2>4, <2>5
<1>18. IInv'
  BY <1>15, <1>16, NoSum
<1>19. DaaExact'
  BY <1>16 DEF DaaExact
<1>20. ax' \div 256 = n /\ (last.ax > 255 => hi > 0)
  BY <1>4, <1>10, <1>14
<1>21. DecimalExact'
  BY <1>2, <1>4, <1>15, <1>16, <1>17, <1>19, <1>20 DEF DecimalExact, OneDigit
<1>. QED BY <1>18, <1>21

--------------------------------------------------------------------------------
(* Multiplication and division. *)
ProductFlags(g, f, s, z, c) == g = [f EXCEPT !.SF = s, !.ZF = z, !.CF = c, !.OF = c]

LEMMA ProductFlagsType ==
  ASSUME NEW f, f \in Flags, NEW s, NEW z, NEW c, ThreeBits(s, z, c), NEW g,
         ProductFlags(g, f, s, z, c)
  PROVE  g \in Flags /\ g.CF = c
BY DEF Flags, ThreeBits, ProductFlags

LEMMA BitType == ASSUME NEW x \in Int, NEW w \in {4, 7, 15} PROVE Bit(x, w) \in {0, 1}
<1>1. PICK m \in Nat : m = 2^w /\ m # 0
  <2>1. CASE w = 4
    BY <2>1
  <2>2. CASE w = 7
    BY <2>2
  <2>3. CASE w = 15
    BY <2>3
  <2>. QED BY <2>1, <2>2, <2>3
<1>2. PICK q \in Int : q = x \div m
  BY <1>1
<1>3. Bit(x, w) = q % 2
  BY <1>1, <1>2 DEF Bit
<1>. QED BY <1>3

LEMMA ByteType == ASSUME NEW y \in ByteOperands PROVE y \in Numbers(8) /\ y \in Nat /\ y < 256
<1>1. y \in Numbers(8)
  BY AluAssumption
<1>. QED BY <1>1, Bytes

LEMMA NewLowByte == Dest(8)' = ax' % 256
<1>1. PICK w : w = 8
  OBVIOUS
<1>2. 2^w = 256
  BY <1>1
<1>3. Dest(w)' = ax' % 256
  BY <1>2 DEF Dest, Wrap
<1>. QED BY <1>1, <1>3

LEMMA MulStep == ASSUME IInv, NEW y \in ByteOperands, Mul(y) PROVE IInv' /\ ProductsExact'
<1>1. TypeOK /\ fl \in Flags
  BY Typed DEF IInv
<1>2. PICK x : x = Dest(8)
  OBVIOUS
<1>3. x \in Nat /\ x <= 255 /\ y \in Nat /\ y <= 255
  BY <1>1, <1>2, Halves, ByteType
<1>4. PICK r : r = y * x
  OBVIOUS
<1>5. r \in Nat /\ r <= 65025 /\ x * y = r
  <2>1. y * x \in Nat /\ y * x = x * y
    BY <1>3
  <2>2. y * x <= 255 * 255
    BY <1>3, TimesLarger
  <2>. QED BY <1>4, <2>1, <2>2
<1>6. r \in Numbers(16)
  BY <1>5, Words
<1>7. PICK s, z, c : s = Bit(r, 7) /\ z = Flag(r = 0) /\ c = Flag(r > 255)
  OBVIOUS
<1>8. s \in {0, 1} /\ z \in {0, 1} /\ c \in {0, 1} /\ (c = 1 <=> r > 255)
  BY <1>5, <1>7, BitType DEF Flag
<1>9. ax' = r /\ ProductFlags(fl', fl, s, z, c) /\ last' = Did("MUL", y, 8)
  BY <1>2, <1>4, <1>7 DEF Mul, ProductFlags
<1>10. fl' \in Flags /\ fl'.CF = c
  BY <1>1, <1>8, <1>9, ProductFlagsType DEF ThreeBits
<1>11. last'.op = "MUL" /\ last'.x = x /\ last'.y = y
  BY <1>2, <1>9, DidKeeps
<1>12. IInv'
  <2>1. TypeOK'
    BY <1>6, <1>9, <1>10 DEF TypeOK, Flags
  <2>. QED BY <1>11, <2>1, NoSum
<1>13. ProductsExact'
  <2>1. ax' = last'.x * last'.y /\ (fl'.CF = 1 <=> ax' > 255)
    BY <1>5, <1>8, <1>9, <1>10, <1>11
  <2>. QED BY ONLY <1>11, <2>1 DEF ProductsExact
<1>. QED BY <1>12, <1>13

LEMMA SignedByte ==
  ASSUME NEW x \in Numbers(8)
  PROVE  /\ Signed(x, 8) = IF x < 128 THEN x ELSE x - 256
         /\ Signed(x, 8) \in Int /\ -128 <= Signed(x, 8) /\ Signed(x, 8) < 128
<1>1. PICK w \in {8, 16} : w = 8
  OBVIOUS
<1>2. PICK H \in Nat : Sized(w, H)
  BY Sizes
<1>3. H = 128
  BY <1>1, <1>2 DEF Sized
<1>4. Signed(x, w) = IF x < H THEN x ELSE x - 2 * H
  BY <1>1, <1>2, SignedValue
<1>5. x \in Nat /\ x < 256
  BY Bytes
<1>. QED BY <1>1, <1>3, <1>4, <1>5

LEMMA SignedWord ==
  ASSUME NEW x \in Numbers(16)
  PROVE  /\ Signed(x, 16) = IF x < 32768 THEN x ELSE x - 65536
         /\ Signed(x, 16) \in Int /\ -32768 <= Signed(x, 16) /\ Signed(x, 16) < 32768
<1>1. PICK w \in {8, 16} : w = 16
  OBVIOUS
<1>2. PICK H \in Nat : Sized(w, H)
  BY Sizes
<1>3. H = 32768
  BY <1>1, <1>2 DEF Sized
<1>4. Signed(x, w) = IF x < H THEN x ELSE x - 2 * H
  BY <1>1, <1>2, SignedValue
<1>5. x \in Nat /\ x < 65536
  BY Words
<1>. QED BY <1>1, <1>3, <1>4, <1>5

(* The product of two signed bytes. *)
LEMMA ProductBound ==
  ASSUME NEW a \in Int, NEW b \in Int, -128 <= a, a < 128, -128 <= b, b < 128
  PROVE  a * b \in Int /\ -16384 <= a * b /\ a * b <= 16384
<1>1. PICK m \in Nat, n \in Nat : /\ m = (IF a < 0 THEN -a ELSE a) /\ m <= 128
                                  /\ n = (IF b < 0 THEN -b ELSE b) /\ n <= 128
  OBVIOUS
<1>2. m * n <= 128 * 128 /\ m * n \in Nat
  BY <1>1, TimesLarger
<1>3. a * b = m * n \/ a * b = -(m * n)
  BY <1>1
<1>. QED BY <1>2, <1>3

LEMMA ImulStep == ASSUME IInv, NEW y \in ByteOperands, Imul(y) PROVE IInv' /\ ProductsExact'
<1>1. TypeOK /\ fl \in Flags
  BY Typed DEF IInv
<1>2. PICK x : x = Dest(8)
  OBVIOUS
<1>3. x \in Numbers(8) /\ y \in Numbers(8)
  BY <1>1, <1>2, DestType, ByteType
<1>4. PICK a, b : a = Signed(x, 8) /\ b = Signed(y, 8)
  OBVIOUS
<1>5. a \in Int /\ b \in Int /\ -128 <= a /\ a < 128 /\ -128 <= b /\ b < 128
  BY <1>3, <1>4, SignedByte
<1>6. PICK p : p = b * a
  OBVIOUS
<1>7. p \in Int /\ -16384 <= p /\ p <= 16384 /\ a * b = p
  BY <1>5, <1>6, ProductBound
<1>8. PICK r : r = p % 65536
  OBVIOUS
<1>9. r \in Nat /\ r < 65536 /\ r = IF p < 0 THEN p + 65536 ELSE p
  BY <1>7, <1>8
<1>10. r \in Numbers(16)
  BY <1>9, Words
<1>11. Signed(r, 16) = p
  BY <1>7, <1>9, <1>10, SignedWord
<1>12. ImulFits(r) <=> -128 <= p /\ p < 128
  <2>1. r \div 128 \in Int /\ (r \div 128 = 0 <=> r < 128) /\ (r \div 128 = 511 <=> r >= 65408)
    BY <1>9
  <2>. QED BY <1>7, <1>9, <2>1 DEF ImulFits
<1>13. PICK s, z, c : s = Bit(r, 7) /\ z = Flag(r = 0) /\ c = Flag(~ ImulFits(r))
  OBVIOUS
<1>14. s \in {0, 1} /\ z \in {0, 1} /\ c \in {0, 1} /\ (c = 1 <=> ~ ImulFits(r))
  BY <1>9, <1>13, BitType DEF Flag
<1>15. ax' = r /\ ProductFlags(fl', fl, s, z, c) /\ last' = Did("IMUL", y, 8)
  BY <1>2, <1>4, <1>6, <1>8, <1>13 DEF Imul, ProductFlags
<1>16. fl' \in Flags /\ fl'.CF = c
  BY <1>1, <1>14, <1>15, ProductFlagsType DEF ThreeBits
<1>17. last'.op = "IMUL" /\ last'.x = x /\ last'.y = y
  BY <1>2, <1>15, DidKeeps
<1>18. TypeOK'
  BY <1>10, <1>15, <1>16 DEF TypeOK, Flags
<1>19. IInv'
  BY <1>17, <1>18, NoSum
<1>20. PICK d : d = Dest(8)'
  OBVIOUS
<1>21. d \in Numbers(8) /\ d = r % 256
  <2>1. d = r % 256
    BY <1>15, <1>20, NewLowByte
  <2>2. d \in Int /\ 0 <= d /\ d < 256
    BY <1>9, <2>1
  <2>. QED BY <2>1, <2>2, Bytes
<1>22. Signed(d, 8) = p <=> -128 <= p /\ p < 128
  <2>1. d \in Nat /\ d < 256 /\ Signed(d, 8) = IF d < 128 THEN d ELSE d - 256
    BY <1>21, Bytes, SignedByte
  <2>. QED BY <1>7, <1>9, <1>21, <2>1
<1>23. Signed(Dest(8)', 8) = Signed(d, 8) /\ Signed(ax', 16) = p
  BY <1>11, <1>15, <1>20
<1>24. ProductsExact'
  <2>1. Signed(ax', 16) = Signed(last'.x, 8) * Signed(last'.y, 8)
    BY <1>4, <1>7, <1>17, <1>23
  <2>2. fl'.CF = 1 <=> Signed(ax', 16) # Signed(Dest(8)', 8)
    BY <1>12, <1>14, <1>16, <1>22, <1>23
  <2>. QED BY <1>17, <2>1, <2>2 DEF ProductsExact
<1>. QED BY <1>19, <1>24

LEMMA DivStep == ASSUME IInv, NEW y \in ByteOperands, Div(y) PROVE IInv' /\ ProductsExact'
<1>1. TypeOK /\ fl \in Flags /\ ax \in Nat /\ ax < 65536
  BY Typed, Halves DEF IInv
<1>2. y \in Nat /\ y < 256
  BY ByteType
<1>3. fl' = fl
  BY DEF Div
<1>4. CASE DivFits(ax, y)
  <2>1. PICK q \in Nat, s \in Nat :
           /\ q = ax \div y /\ s = ax % y /\ s < y /\ ax = y * q + s /\ q < 256
    <3>1. y # 0 /\ ax \div y < 256
      BY <1>4 DEF DivFits
    <3>2. PICK q, s : Divides(ax, y, q, s)
      BY <1>1, <1>2, <3>1, Division
    <3>. QED BY <1>1, <3>1, <3>2 DEF Divides
  <2>3. ax' = s * 256 + q /\ last' = Did("DIV", y, 8)
    BY <1>4, <2>1 DEF Div
  <2>4. last'.op = "DIV" /\ last'.y = y /\ last'.ax = ax
    BY <2>3, DidKeeps
  <2>5. PICK n \in Nat : n = s * 256 + q /\ n < 65536 /\ n \div 256 = s /\ n % 256 = q
    <3>1. s < 256 /\ q < 256
      BY <1>2, <2>1
    <3>2. PICK n \in Nat : n = s * 256 + q /\ n < 65536
      BY <3>1
    <3>3. n \div 256 = s /\ n % 256 = q
      BY <3>1, <3>2
    <3>. QED BY <3>2, <3>3
  <2>6. ax' = n /\ ax' \in Numbers(16)
    BY <2>3, <2>5, Words
  <2>7. IInv'
    <3>1. TypeOK'
      BY <1>1, <1>3, <2>6 DEF TypeOK
    <3>. QED BY <2>4, <3>1, NoSum
  <2>8. Dest(8)' = q /\ ax' \div 256 = s
    BY <2>5, <2>6, NewLowByte
  <2>9. last'.ax = last'.y * Dest(8)' + (ax' \div 256) /\ ax' \div 256 < last'.y
    BY ONLY <2>1, <2>4, <2>8
  <2>10. ProductsExact'
    BY ONLY <2>4, <2>9 DEF ProductsExact
  <2>. QED BY <2>7, <2>10
<1>5. CASE ~ DivFits(ax, y)
  <2>1. ax' = ax /\ last' = Did("TrapDIV", y, 8)
    BY <1>5 DEF Div
  <2>2. last'.op = "TrapDIV" /\ last'.y = y /\ last'.ax = ax
    BY <2>1, DidKeeps
  <2>3. IInv'
    <3>1. TypeOK'
      BY <1>1, <1>3, <2>1 DEF TypeOK
    <3>. QED BY <2>2, <3>1, NoSum
  <2>4. ax >= 256 * y
    <3>1. CASE y = 0
      BY <1>1, <3>1
    <3>2. CASE y # 0
      <4>1. PICK q, s : Divides(ax, y, q, s)
        BY <1>1, <1>2, <3>2, Division
      <4>2. q \in Nat /\ s \in Nat /\ q >= 256 /\ ax = y * q + s
        BY <1>1, <1>5, <3>2, <4>1 DEF DivFits, Divides
      <4>3. y * q >= y * 256 /\ y * q \in Nat
        BY <1>2, <4>2
      <4>. QED BY <1>2, <4>2, <4>3
    <3>. QED BY <3>1, <3>2
  <2>5. last'.ax >= 256 * last'.y
    BY <2>2, <2>4
  <2>6. ProductsExact'
    BY ONLY <2>2, <2>5 DEF ProductsExact
  <2>. QED BY <2>3, <2>6
<1>. QED BY <1>4, <1>5

(* The quotient towards 0, and what remains. *)
LEMMA TruncatedDivision ==
  ASSUME NEW a \in Int, NEW b \in Int, b # 0
  PROVE  /\ Quotient(a, b) \in Int /\ Remainder(a, b) \in Int
         /\ a = b * Quotient(a, b) + Remainder(a, b)
         /\ Magnitude(Remainder(a, b)) < Magnitude(b)
         /\ Remainder(a, b) # 0 => (Remainder(a, b) < 0) = (a < 0)
<1>1. PICK m \in Nat, n \in Nat : /\ m = Magnitude(a) /\ n = Magnitude(b) /\ n # 0
                                  /\ m = (IF a < 0 THEN -a ELSE a)
                                  /\ n = (IF b < 0 THEN -b ELSE b)
  BY DEF Magnitude
<1>2. PICK q \in Nat, s \in Nat : q = m \div n /\ m = n * q + s /\ s < n
  <2>1. PICK q, s : Divides(m, n, q, s)
    BY <1>1, Division
  <2>. QED BY <2>1 DEF Divides
<1>3. PICK t : t = Quotient(a, b)
  OBVIOUS
<1>4. t = IF (a < 0) = (b < 0) THEN q ELSE -q
  BY <1>1, <1>2, <1>3 DEF Quotient
<1>5. t \in Int /\ a = b * t + (IF a < 0 THEN -s ELSE s)
  <2>1. (a < 0 /\ b < 0 => n = -b /\ m = -a /\ t = q) /\ (a < 0 /\ b >= 0 => n = b /\ m = -a /\ t = -q)
    BY <1>1, <1>4
  <2>2. (a >= 0 /\ b < 0 => n = -b /\ m = a /\ t = -q) /\ (a >= 0 /\ b >= 0 => n = b /\ m = a /\ t = q)
    BY <1>1, <1>4
  <2>3. (-b) * q = -(b * q) /\ b * (-q) = -(b * q)
    OBVIOUS
  <2>4. n * q = IF (a < 0) THEN -(b * t) ELSE b * t
    BY <2>1, <2>2, <2>3
  <2>5. t \in Int
    BY <1>2, <1>4
  <2>6. PICK e \in Int : e = b * t
    BY <2>5
  <2>. QED BY <1>1, <1>2, <2>4, <2>5, <2>6
<1>6. Remainder(a, b) = a - b * t
  BY <1>3 DEF Remainder
<1>7. PICK p \in Int : p = b * t
  BY <1>5
<1>8. Remainder(a, b) = IF a < 0 THEN -s ELSE s
  BY <1>5, <1>6, <1>7
<1>9. PICK v \in Int : v = Remainder(a, b) /\ v = (IF a < 0 THEN -s ELSE s)
  BY <1>8
<1>10. Magnitude(v) < n /\ (v # 0 => (v < 0) = (a < 0))
  BY <1>1, <1>2, <1>9 DEF Magnitude
<1>. QED BY <1>1, <1>3, <1>5, <1>6, <1>7, <1>9, <1>10

(* No other quotient leaves a small remainder of that sign. *)
LEMMA QuotientUnique ==
  ASSUME NEW a \in Int, NEW b \in Int, b # 0, NEW k \in Int, NEW v \in Int, a = b * k + v,
         Magnitude(v) < Magnitude(b), v # 0 => (v < 0) = (a < 0)
  PROVE  k = Quotient(a, b)
<1>1. PICK m \in Nat, n \in Nat : /\ m = Magnitude(a) /\ n = Magnitude(b) /\ n # 0
                                  /\ m = (IF a < 0 THEN -a ELSE a)
                                  /\ n = (IF b < 0 THEN -b ELSE b)
  BY DEF Magnitude
<1>2. PICK s \in Nat : s = (IF v < 0 THEN -v ELSE v) /\ s < n
  BY <1>1 DEF Magnitude
<1>3. v = IF a < 0 THEN -s ELSE s
  BY <1>2
<1>4. PICK j \in Int : j = IF (a < 0) = (b < 0) THEN k ELSE -k
  OBVIOUS
<1>5. m = n * j + s
  <2>1. (a < 0 /\ b < 0 => n = -b /\ m = -a /\ j = k) /\ (a < 0 /\ b >= 0 => n = b /\ m = -a /\ j = -k)
    BY <1>1, <1>4
  <2>2. (a >= 0 /\ b < 0 => n = -b /\ m = a /\ j = -k) /\ (a >= 0 /\ b >= 0 => n = b /\ m = a /\ j = k)
    BY <1>1, <1>4
  <2>3. (-b) * k = -(b * k) /\ b * (-k) = -(b * k) /\ (-b) * (-k) = b * k
    OBVIOUS
  <2>. QED BY <1>3, <2>1, <2>2, <2>3
<1>6. j = m \div n
  BY ONLY n \in Nat, j \in Int, s \in Nat, <1>2, <1>5, DivisionUnique
<1>. QED BY <1>1, <1>4, <1>6 DEF Quotient

LEMMA IdivStep == ASSUME IInv, NEW y \in ByteOperands, Idiv(y) PROVE IInv' /\ ProductsExact'
<1>1. TypeOK /\ fl \in Flags /\ ax \in Numbers(16)
  BY Typed DEF IInv
<1>2. y \in Numbers(8)
  BY ByteType
<1>3. fl' = fl
  BY DEF Idiv
<1>4. PICK a, b : a = Signed(ax, 16) /\ b = Signed(y, 8)
  OBVIOUS
<1>5. a \in Int /\ b \in Int /\ -128 <= b /\ b < 128
  BY <1>1, <1>2, <1>4, SignedByte, SignedWord
<1>6. CASE IdivFits(a, b)
  <2>1. PICK q, r : q = Quotient(a, b) /\ r = Remainder(a, b)
    OBVIOUS
  <2>2. b # 0 /\ -128 <= q /\ q < 128
    BY <1>6, <2>1 DEF IdivFits
  <2>3. /\ q \in Int /\ r \in Int /\ a = b * q + r
        /\ Magnitude(r) < Magnitude(b)
        /\ r # 0 => (r < 0) = (a < 0)
    BY <1>5, <2>1, <2>2, TruncatedDivision
  <2>4. -128 < r /\ r < 128
    BY <1>5, <2>3 DEF Magnitude
  <2>5. ax' = (r * 256 + (q % 256)) % 65536 /\ last' = Did("IDIV", y, 8)
    BY <1>4, <1>6, <2>1 DEF Idiv
  <2>6. last'.op = "IDIV" /\ last'.y = y /\ last'.ax = ax
    BY <2>5, DidKeeps
  <2>7. PICK u \in Nat, v \in Nat : /\ u = (IF r < 0 THEN r + 256 ELSE r) /\ u < 256
                                    /\ v = (IF q < 0 THEN q + 256 ELSE q) /\ v < 256
    BY <2>2, <2>3, <2>4
  <2>8. q % 256 = v
    BY <2>2, <2>3, <2>7
  <2>9. PICK n \in Nat : n = u * 256 + v /\ n < 65536
    BY <2>7
  <2>10. ax' = n
    BY <2>3, <2>4, <2>5, <2>7, <2>8, <2>9
  <2>11. n \div 256 = u /\ n % 256 = v
    BY <2>7, <2>9
  <2>12. ax' \div 256 = u /\ Dest(8)' = v
    BY <2>10, <2>11, NewLowByte
  <2>13. ax' \in Numbers(16)
    BY <2>9, <2>10, Words
  <2>14. IInv'
    <3>1. TypeOK'
      BY <1>1, <1>3, <2>13 DEF TypeOK
    <3>. QED BY <2>6, <3>1, NoSum
  <2>15. Signed(u, 8) = r /\ Signed(v, 8) = q
    <3>1. u \in Numbers(8) /\ v \in Numbers(8)
      BY <2>7, Bytes
    <3>2. /\ Signed(u, 8) = IF u < 128 THEN u ELSE u - 256
          /\ Signed(v, 8) = IF v < 128 THEN v ELSE v - 256
      BY <3>1, SignedByte
    <3>. QED BY <2>2, <2>3, <2>4, <2>7, <3>2
  <2>16. Signed(ax' \div 256, 8) = r /\ Signed(Dest(8)', 8) = q
    BY <2>12, <2>15
  <2>17. Signed(last'.ax, 16) = a /\ Signed(last'.y, 8) = b
    BY <1>4, <2>6
  <2>18. ProductsExact'
    <3>1. a = b * q + r /\ IsRest(r, a, b)
      BY <2>3 DEF IsRest
    <3>. QED BY ONLY <2>6, <2>16, <2>17, <3>1 DEF ProductsExact
  <2>. QED BY <2>14, <2>18
<1>7. CASE ~ IdivFits(a, b)
  <2>1. ax' = ax /\ last' = Did("TrapIDIV", y, 8)
    BY <1>4, <1>7 DEF Idiv
  <2>2. last'.op = "TrapIDIV" /\ last'.y = y /\ last'.ax = ax
    BY <2>1, DidKeeps
  <2>3. IInv'
    <3>1. TypeOK'
      BY <1>1, <1>3, <2>1 DEF TypeOK
    <3>. QED BY <2>2, <3>1, NoSum
  <2>4. ASSUME NEW k \in -128 .. 127, NEW v, v = a - b * k
        PROVE  ~ IsRest(v, a, b)
    <3>1. v \in Int /\ a = b * k + v
      BY <1>5, <2>4
    <3>2. CASE b = 0
      BY <3>1, <3>2 DEF Magnitude, IsRest
    <3>3. CASE b # 0
      <4>1. Quotient(a, b) # k
        BY <1>7, <3>3 DEF IdivFits
      <4>2. Magnitude(v) \in Int /\ Magnitude(b) \in Int
        BY <1>5, <3>1 DEF Magnitude
      <4>. QED BY <1>5, <3>1, <3>3, <4>1, <4>2, QuotientUnique DEF IsRest
    <3>. QED BY <3>2, <3>3
  <2>5. Signed(last'.ax, 16) = a /\ Signed(last'.y, 8) = b
    BY <1>4, <2>2
  <2>6. ProductsExact'
    BY ONLY <2>2, <2>4, <2>5 DEF ProductsExact
  <2>. QED BY <2>3, <2>6
<1>. QED BY <1>6, <1>7

LEMMA AamStep == ASSUME IInv, NEW m \in ByteOperands, i_aam(m) PROVE IInv' /\ ProductsExact'
<1>1. TypeOK /\ fl \in Flags
  BY Typed DEF IInv
<1>2. PICK x : x = Dest(8)
  OBVIOUS
<1>3. x \in Numbers(8) /\ x \in Nat /\ x < 256 /\ m \in Numbers(8) /\ m \in Nat /\ m < 256
  BY <1>1, <1>2, Halves, DestType, ByteType
<1>4. CASE m = 0
  <2>1. ax' = ax /\ fl' = fl /\ last' = Did("TrapAAM", m, 8)
    BY <1>4 DEF i_aam
  <2>2. last'.op = "TrapAAM"
    BY <2>1, DidKeeps
  <2>3. TypeOK'
    BY <1>1, <2>1 DEF TypeOK
  <2>. QED BY <2>2, <2>3, NoSum DEF ProductsExact
<1>5. CASE m # 0
  <2>1. PICK q, s : Divides(x, m, q, s)
    BY <1>3, <1>5, Division
  <2>2. q = x \div m /\ s = x % m /\ q \in Nat /\ s \in Nat /\ s < m /\ x = m * q + s
    BY <1>3, <2>1 DEF Divides
  <2>3. q <= x
    <3>1. m * q >= q
      BY <1>3, <1>5, <2>2
    <3>. QED BY <1>3, <2>2, <3>1
  <2>4. PICK n \in Nat : n = s + q * 256 /\ n < 65536 /\ n \div 256 = q /\ n % 256 = s
    <3>1. q \in Nat /\ s \in Nat
      BY <2>2
    <3>2. s < 256 /\ q < 256
      BY <1>3, <2>2, <2>3
    <3>3. PICK n \in Nat : n = s + q * 256
      BY ONLY <3>1
    <3>4. n < 65536
      BY ONLY <3>1, <3>2, <3>3
    <3>5. n \div 256 = q /\ n % 256 = s
      BY ONLY <3>1, <3>2, <3>3
    <3>. QED BY ONLY <3>3, <3>4, <3>5
  <2>5. /\ ax' = n /\ fl' = [fl EXCEPT !.ZF = Flag(n = 0), !.SF = Bit(n, 15)]
        /\ last' = Did("AAM", m, 8)
    <3>1. /\ ax' = (x % m) + (x \div m) * 256
          /\ fl' = [fl EXCEPT !.ZF = Flag(ax' = 0), !.SF = Bit(ax', 15)]
          /\ last' = Did("AAM", m, 8)
      BY <1>2, <1>5 DEF i_aam
    <3>2. ax' = s + q * 256
      BY ONLY <2>2, <3>1
    <3>3. ax' = n
      BY ONLY <2>4, <3>2
    <3>. QED BY ONLY <3>1, <3>3
  <2>6. fl' \in Flags
    <3>1. PICK z, t : z = Flag(n = 0) /\ t = Bit(n, 15)
      OBVIOUS
    <3>2. z \in {0, 1} /\ t \in {0, 1}
      BY <2>4, <3>1, BitType DEF Flag
    <3>. QED BY <1>1, <2>5, <3>1, <3>2 DEF Flags
  <2>7. ax' \in Numbers(16)
    BY <2>4, <2>5, Words
  <2>8. last'.op = "AAM" /\ last'.x = x /\ last'.y = m
    BY <1>2, <2>5, DidKeeps
  <2>9. ax' \div 256 = q /\ ax' % 256 = s /\ Dest(8)' = s
    BY <2>4, <2>5, NewLowByte
  <2>10. last'.x = last'.y * (ax' \div 256) + (ax' % 256)
    BY <2>2, <2>8, <2>9
  <2>11. LastOK'
    <3>1. Digits'
      BY ONLY <1>3, <1>5, <2>8, <2>10 DEF Digits
    <3>. QED BY <2>8, <3>1 DEF LastOK
  <2>12. IInv'
    <3>1. TypeOK'
      BY <2>6, <2>7 DEF TypeOK, Flags
    <3>. QED BY <2>8, <2>11, <3>1, OtherSums DEF IInv
  <2>13. last'.x = last'.y * (ax' \div 256) + Dest(8)' /\ Dest(8)' < last'.y
    BY <2>2, <2>8, <2>9
  <2>14. ProductsExact'
    BY ONLY <2>8, <2>13 DEF ProductsExact
  <2>. QED BY <2>12, <2>14
<1>. QED BY <1>4, <1>5

LEMMA AadStep == ASSUME IInv, NEW m \in ByteOperands, i_aad(m) PROVE IInv' /\ ProductsExact'
<1>1. TypeOK /\ fl \in Flags
  BY Typed DEF IInv
<1>2. PICK h, l : h = ax \div 256 /\ l = ax % 256
  OBVIOUS
<1>3. ax \in Nat /\ ax = 256 * h + l /\ h \in Nat /\ l \in Nat /\ l < 256 /\ m \in Nat
  BY <1>1, <1>2, Halves, ByteType
<1>4. PICK p \in Nat : p = h * m
  BY <1>3
<1>5. PICK r : r = (p + ax) % 256
  OBVIOUS
<1>6. r \in Nat /\ r < 256 /\ r = (p + l) % 256
  BY <1>3, <1>4, <1>5
<1>7. r \in Numbers(16) /\ r \in Numbers(8)
  BY <1>6, Bytes, Words
<1>8. /\ ax' = r
      /\ fl' = Marked([fl EXCEPT !.AF = 0, !.OF = 0, !.CF = 0], r, 8)
      /\ last' = IF last.op = "AAM" THEN [op |-> "AAD", of |-> last, y |-> m] ELSE Did("AAD0", m, 8)
  BY <1>2, <1>4, <1>5 DEF i_aad
<1>9. fl' \in Flags
  <2>1. PICK f : f = [fl EXCEPT !.AF = 0, !.OF = 0, !.CF = 0]
    OBVIOUS
  <2>2. f \in Flags
    BY <1>1, <2>1 DEF Flags
  <2>3. PICK w \in {8, 16} : w = 8
    OBVIOUS
  <2>4. PICK H \in Nat : Sized(w, H)
    BY Sizes
  <2>5. Marked(f, r, w) \in Flags
    BY <1>7, <2>2, <2>3, <2>4, MarkedFlags
  <2>. QED BY <1>8, <2>1, <2>3, <2>5
<1>10. TypeOK'
  BY <1>7, <1>8, <1>9 DEF TypeOK, Flags
<1>11. CASE last.op = "AAM"
  <2>1. last'.op = "AAD" /\ last'.of = last /\ last'.y = m
    BY <1>8, <1>11
  <2>2. ASSUME last.y = m
        PROVE  r = last.x
    <3>1. Digits
      BY <1>11 DEF IInv, LastOK
    <3>2. PICK x \in Nat : x = last.x /\ x < 256 /\ x = m * h + l
      BY <1>2, <2>2, <3>1, Bytes DEF Digits
    <3>3. m * h = p
      BY <1>3, <1>4
    <3>4. p + l = x
      BY <3>2, <3>3
    <3>. QED BY <1>6, <3>2, <3>4
  <2>3. last'.y = last'.of.y => ax' = last'.of.x
    BY <1>8, <2>1, <2>2
  <2>4. ProductsExact'
    BY ONLY <2>1, <2>3 DEF ProductsExact
  <2>. QED BY <1>10, <2>1, <2>4, NoSum
<1>12. CASE last.op # "AAM"
  <2>1. last'.op = "AAD0"
    BY <1>8, <1>12, DidKeeps
  <2>. QED BY <1>10, <2>1, NoSum DEF ProductsExact
<1>. QED BY <1>11, <1>12

LEMMA InitInv == Init => IInv
<1>1. SUFFICES ASSUME Init PROVE IInv
  OBVIOUS
<1>2. ax \in Numbers(16)
  BY <1>1, AluAssumption DEF Init
<1>3. fl \in Flags
  BY <1>1 DEF Init, Flags
<1>4. last.op = "MOV"
  BY <1>1 DEF Init
<1>5. TypeOK
  BY <1>2, <1>3 DEF TypeOK, Flags
<1>6. LastOK /\ SumsExact
  BY <1>4 DEF LastOK, SumsExact
<1>. QED BY <1>5, <1>6 DEF IInv

LEMMA MovStep ==
  ASSUME IInv, NEW v \in Moved, MovAX(v)
  PROVE  IInv' /\ last'.op = "MOV"
<1>1. ax' = v /\ fl' = fl /\ last'.op = "MOV"
  BY DEF MovAX
<1>2. v \in Numbers(16) /\ fl \in Flags
  BY AluAssumption, Typed DEF IInv
<1>3. TypeOK'
  BY <1>1, <1>2 DEF TypeOK, Flags
<1>. QED BY <1>1, <1>3, NoSum

--------------------------------------------------------------------------------
(* Shifts: powers of two. *)

Powered(k) == 2^k \in Nat /\ 2^k # 0 /\ 2^(k + 1) = 2 * 2^k

LEMMA Powers == ASSUME NEW k \in Nat, k < 32 PROVE Powered(k)
<1>1. Powered(0) /\ Powered(1) /\ Powered(2) /\ Powered(3)
      /\ Powered(4) /\ Powered(5) /\ Powered(6) /\ Powered(7)
  BY DEF Powered
<1>2. Powered(8) /\ Powered(9) /\ Powered(10) /\ Powered(11)
      /\ Powered(12) /\ Powered(13) /\ Powered(14) /\ Powered(15)
  BY DEF Powered
<1>3. Powered(16) /\ Powered(17) /\ Powered(18) /\ Powered(19)
      /\ Powered(20) /\ Powered(21) /\ Powered(22) /\ Powered(23)
  BY DEF Powered
<1>4. Powered(24) /\ Powered(25) /\ Powered(26) /\ Powered(27)
      /\ Powered(28) /\ Powered(29) /\ Powered(30) /\ Powered(31)
  BY DEF Powered
<1>. QED BY <1>1, <1>2, <1>3, <1>4

(* What Times goes through. *)
Repeats(f, kind, v, cf, w, n) ==
    f = [i \in 0 .. n |-> IF i = 0 THEN [r |-> v, CF |-> cf]
                          ELSE shift1(kind, f[i - 1].r, f[i - 1].CF, w)]

LEMMA RepeatsExist ==
  ASSUME NEW kind, NEW v, NEW cf, NEW w, NEW n \in Nat
  PROVE  \E f : Repeats(f, kind, v, cf, w, n)
<1>1. PICK T : T = {k \in Nat : \E f : Repeats(f, kind, v, cf, w, k)}
  OBVIOUS
<1>2. 0 \in T
  <2>1. PICK f : f = [i \in 0 .. 0 |-> [r |-> v, CF |-> cf]]
    OBVIOUS
  <2>2. Repeats(f, kind, v, cf, w, 0)
    BY <2>1 DEF Repeats
  <2>. QED BY <1>1, <2>2
<1>3. ASSUME NEW k \in T
      PROVE  k + 1 \in T
  <2>1. k \in Nat
    BY <1>1
  <2>2. PICK f : Repeats(f, kind, v, cf, w, k)
    BY <1>1
  <2>3. PICK z : z = shift1(kind, f[k].r, f[k].CF, w)
    OBVIOUS
  <2>4. PICK g : g = [i \in 0 .. k + 1 |-> IF i = k + 1 THEN z ELSE f[i]]
    OBVIOUS
  <2>5. ASSUME NEW i \in 0 .. k + 1
        PROVE  g[i] = IF i = 0 THEN [r |-> v, CF |-> cf] ELSE shift1(kind, g[i - 1].r, g[i - 1].CF, w)
    <3>1. CASE i = k + 1
      <4>1. g[i] = z /\ g[i - 1] = f[k]
        BY <2>1, <2>4, <3>1
      <4>. QED BY <2>1, <2>3, <3>1, <4>1
    <3>2. CASE i # k + 1
      <4>1. i \in 0 .. k
        BY <2>1, <3>2
      <4>2. g[i] = f[i] /\ (i # 0 => g[i - 1] = f[i - 1])
        BY <2>1, <2>4, <3>2, <4>1
      <4>3. f[i] = IF i = 0 THEN [r |-> v, CF |-> cf] ELSE shift1(kind, f[i - 1].r, f[i - 1].CF, w)
        BY <2>2, <4>1 DEF Repeats
      <4>. QED BY <4>2, <4>3
    <3>. QED BY <3>1, <3>2
  <2>6. Repeats(g, kind, v, cf, w, k + 1)
    <3>1. PICK h : h = [i \in 0 .. k + 1 |-> IF i = 0 THEN [r |-> v, CF |-> cf]
                                             ELSE shift1(kind, g[i - 1].r, g[i - 1].CF, w)]
      OBVIOUS
    <3>2. \A i \in 0 .. k + 1 : h[i] = g[i]
      BY <2>5, <3>1
    <3>3. h = g
      BY <2>4, <3>1, <3>2
    <3>. QED BY <3>1, <3>3 DEF Repeats
  <2>. QED BY <1>1, <2>1, <2>6
<1>4. T = Nat
  BY <1>1, <1>2, <1>3, NatSetInduction
<1>. QED BY <1>1, <1>4

LEMMA TimesRepeats ==
  ASSUME NEW kind, NEW v, NEW cf, NEW w, NEW n \in Nat
  PROVE  \E f : /\ f[0] = [r |-> v, CF |-> cf]
                /\ \A i \in Nat : i < n => f[i + 1] = shift1(kind, f[i].r, f[i].CF, w)
                /\ Times(kind, v, cf, w, n) = f[n]
<1>1. PICK f : f = CHOOSE g : Repeats(g, kind, v, cf, w, n)
  OBVIOUS
<1>2. Repeats(f, kind, v, cf, w, n)
  BY <1>1, RepeatsExist
<1>3. Times(kind, v, cf, w, n) = f[n]
  BY <1>1 DEF Times, Repeats
<1>4. f[0] = [r |-> v, CF |-> cf]
  BY <1>2 DEF Repeats
<1>5. ASSUME NEW i \in Nat, i < n
      PROVE  f[i + 1] = shift1(kind, f[i].r, f[i].CF, w)
  <2>1. i + 1 \in 0 .. n /\ i + 1 # 0 /\ (i + 1) - 1 = i
    BY <1>5
  <2>. QED BY <1>2, <2>1 DEF Repeats
<1>. QED BY <1>3, <1>4, <1>5

--------------------------------------------------------------------------------
(* What a shift leaves is a number of the width and a carry. *)
Kinds == Rotates \cup {"SHL", "SHR", "SAR"}
Fits(s, w) == s.r \in Numbers(w) /\ s.CF \in {0, 1}

(* The lowest bit, and the highest. *)
LEMMA LowBit == ASSUME NEW x \in Int PROVE Bit(x, 0) = x % 2
<1>1. PICK k : k = 0
  OBVIOUS
<1>2. 2^k = 1
  BY <1>1
<1>3. Bit(x, k) = (x \div 1) % 2
  BY <1>2 DEF Bit
<1>. QED BY <1>1, <1>3

(* A number of which 2 * H is the width: its top bit, its double in the    *)
(* width, its half and its lowest bit.                                     *)
Parts(v, H, top, left, half, low) ==
    /\ top = IF v < H THEN 0 ELSE 1
    /\ left = IF v < H THEN 2 * v ELSE 2 * v - 2 * H
    /\ half = v \div 2 /\ low = v % 2

PartsType(H, top, left, half, low) ==
    /\ top = 0 \/ top = 1
    /\ low = 0 \/ low = 1
    /\ left \in Nat /\ left + 1 < 2 * H
    /\ half \in Nat /\ half < H

LEMMA PartsExist ==
  ASSUME NEW w, NEW H \in Nat, Sized(w, H), NEW v \in Numbers(w)
  PROVE  \E top, left, half, low :
           Parts(v, H, top, left, half, low) /\ PartsType(H, top, left, half, low)
<1>1. H = 128 \/ H = 32768
  BY DEF Sized
<1>2. v \in Nat /\ v < 2 * H
  BY SizedNumbers
<1>3. PICK top \in {0, 1} : top = IF v < H THEN 0 ELSE 1
  OBVIOUS
<1>4. PICK left \in Nat : left = (IF v < H THEN 2 * v ELSE 2 * v - 2 * H) /\ left + 1 < 2 * H
  <2>1. CASE v < H
    <3>1. 2 * v \in Nat /\ 2 * v + 1 < 2 * H
      BY <1>2, <2>1
    <3>. QED BY ONLY <2>1, <3>1
  <2>2. CASE ~ (v < H)
    <3>1. 2 * v - 2 * H \in Nat /\ (2 * v - 2 * H) + 1 < 2 * H
      BY <1>2, <2>2
    <3>. QED BY ONLY <2>2, <3>1
  <2>. QED BY ONLY <2>1, <2>2
<1>5. PICK half \in Nat : half = v \div 2 /\ half < H
  BY ONLY <1>1, <1>2
<1>6. PICK low \in {0, 1} : low = v % 2
  BY ONLY <1>2
<1>. QED BY ONLY <1>3, <1>4, <1>5, <1>6 DEF Parts, PartsType

(* A shift by one. *)
OneShift(w, H, v, cf, top, left, half, low) ==
    /\ shift1("ROL", v, cf, w) = [r |-> left + top, CF |-> top]
    /\ shift1("ROR", v, cf, w) = [r |-> half + low * H, CF |-> low]
    /\ shift1("RCL", v, cf, w) = [r |-> left + cf, CF |-> top]
    /\ shift1("RCR", v, cf, w) = [r |-> half + cf * H, CF |-> low]
    /\ shift1("SHL", v, cf, w) = [r |-> left, CF |-> top]
    /\ shift1("SHR", v, cf, w) = [r |-> half, CF |-> low]
    /\ shift1("SAR", v, cf, w) = [r |-> half + top * H, CF |-> low]

LEMMA ShiftByOne ==
  ASSUME NEW w, NEW H \in Nat, Sized(w, H), NEW v \in Numbers(w), NEW cf,
         NEW top, NEW left, NEW half, NEW low, Parts(v, H, top, left, half, low)
  PROVE  OneShift(w, H, v, cf, top, left, half, low)
<1>1. top = (IF v < H THEN 0 ELSE 1) /\ half = v \div 2
  BY DEF Parts
<1>2. Bit(v, w - 1) = top
  BY <1>1, TopBit
<1>3. v \in Nat /\ v < 2 * H
  BY SizedNumbers
<1>4. Bit(v, 0) = low
  BY <1>3, LowBit DEF Parts
<1>5. 2^(w - 1) = H
  BY DEF Sized
<1>6. Wrap(2 * v, w) = left
  <2>1. 2 * v \in Int /\ -(2 * H) <= 2 * v /\ 2 * v < 2 * H + 2 * H
    BY <1>3
  <2>2. Wrap(2 * v, w) = IF 2 * v < 0 THEN 2 * v + 2 * H
                        ELSE IF 2 * v < 2 * H THEN 2 * v ELSE 2 * v - 2 * H
    BY <2>1, Wrapped
  <2>3. left = IF v < H THEN 2 * v ELSE 2 * v - 2 * H
    BY DEF Parts
  <2>. QED BY ONLY <1>3, <2>2, <2>3, H \in Nat
<1>. QED BY ONLY <1>1, <1>2, <1>4, <1>5, <1>6 DEF shift1, OneShift

LEMMA OneFits ==
  ASSUME NEW kind \in Kinds, NEW w \in {8, 16}, NEW v \in Numbers(w), NEW cf \in {0, 1}
  PROVE  Fits(shift1(kind, v, cf, w), w)
<1>1. PICK H \in Nat : Sized(w, H)
  BY Sizes
<1>2. H = 128 \/ H = 32768
  BY <1>1 DEF Sized
<1>3. PICK top, left, half, low :
        Parts(v, H, top, left, half, low) /\ PartsType(H, top, left, half, low)
  BY <1>1, PartsExist
<1>4. PICK s : s = shift1(kind, v, cf, w)
  OBVIOUS
<1>5. \/ s = [r |-> left + top, CF |-> top] \/ s = [r |-> half + low * H, CF |-> low]
      \/ s = [r |-> left + cf, CF |-> top] \/ s = [r |-> half + cf * H, CF |-> low]
      \/ s = [r |-> left, CF |-> top] \/ s = [r |-> half, CF |-> low]
      \/ s = [r |-> half + top * H, CF |-> low]
  <2>1. kind \in {"ROL", "ROR", "RCL", "RCR", "SHL", "SHR", "SAR"}
    BY DEF Kinds, Rotates
  <2>2. OneShift(w, H, v, cf, top, left, half, low)
    <3>1. H \in Nat /\ Sized(w, H) /\ v \in Numbers(w) /\ Parts(v, H, top, left, half, low)
      BY <1>1, <1>3
    <3>. QED BY ONLY <3>1, ShiftByOne
  <2>. QED BY ONLY <1>4, <2>1, <2>2 DEF OneShift
<1>6. top \in {0, 1} /\ low \in {0, 1}
  BY <1>3 DEF PartsType
<1>7. s.CF \in {0, 1}
  BY ONLY <1>5, <1>6
<1>8. s.r = left \/ s.r = left + 1 \/ s.r = half \/ s.r = half + H
  <2>1. s.r \in {left, left + top, left + cf, half, half + low * H, half + cf * H, half + top * H}
    BY ONLY <1>5
  <2>2. left \in Nat /\ half \in Nat
    BY <1>3 DEF PartsType
  <2>. QED BY <1>6, <2>1, <2>2
<1>9. s.r \in Int /\ 0 <= s.r /\ s.r < 2 * H
  BY ONLY <1>2, <1>3, <1>8 DEF PartsType
<1>. QED BY <1>1, <1>4, <1>7, <1>9, SizedNumbers DEF Fits

LEMMA TimesFits ==
  ASSUME NEW kind \in Kinds, NEW w \in {8, 16}, NEW v \in Numbers(w), NEW cf \in {0, 1},
         NEW n \in Nat
  PROVE  Fits(Times(kind, v, cf, w, n), w)
<1>1. PICK f : /\ f[0] = [r |-> v, CF |-> cf]
               /\ \A i \in Nat : i < n => f[i + 1] = shift1(kind, f[i].r, f[i].CF, w)
               /\ Times(kind, v, cf, w, n) = f[n]
  BY TimesRepeats
<1>2. PICK T : T = {i \in Nat : i <= n => Fits(f[i], w)}
  OBVIOUS
<1>3. 0 \in T
  BY <1>1, <1>2 DEF Fits
<1>4. ASSUME NEW i \in T PROVE i + 1 \in T
  <2>1. SUFFICES ASSUME i + 1 <= n PROVE Fits(f[i + 1], w)
    BY <1>2
  <2>2. i \in Nat /\ i < n /\ Fits(f[i], w)
    BY <1>2, <2>1
  <2>3. f[i + 1] = shift1(kind, f[i].r, f[i].CF, w)
    BY <1>1, <2>2
  <2>4. f[i].r \in Numbers(w) /\ f[i].CF \in {0, 1}
    BY <2>2 DEF Fits
  <2>. QED BY <2>3, <2>4, OneFits
<1>5. T = Nat
  BY <1>2, <1>3, <1>4, NatSetInduction
<1>. QED BY <1>1, <1>2, <1>5

(* P and Q are 2^n and 2^(b - n), and N is their product 2^b. *)
Split(b, n, P, Q, N) ==
    /\ P = 2^n /\ Q = 2^(b - n) /\ N = 2^b
    /\ P \in Nat /\ Q \in Nat /\ P # 0 /\ Q # 0 /\ N = P * Q

LEMMA PowersMultiply ==
  ASSUME NEW b \in Nat, b < 32, NEW n \in Nat, n <= b
  PROVE  \E P, Q, N \in Nat : Split(b, n, P, Q, N)
<1>1. PICK N \in Nat : N = 2^b
  BY Powers DEF Powered
<1>2. PICK T : T = {k \in Nat : k <= b => \E P, Q \in Nat : Split(b, k, P, Q, N)}
  OBVIOUS
<1>3. 0 \in T
  <2>1. PICK z : z = 0
    OBVIOUS
  <2>2. 2^z = 1 /\ b - z = b /\ z \in Nat
    BY <2>1
  <2>3. N # 0 /\ N = 1 * N
    BY <1>1, Powers DEF Powered
  <2>4. Split(b, z, 1, N, N)
    BY <1>1, <2>2, <2>3 DEF Split
  <2>. QED BY <1>1, <1>2, <2>1, <2>4
<1>4. ASSUME NEW k \in T PROVE k + 1 \in T
  <2>1. SUFFICES ASSUME k + 1 <= b PROVE \E P, Q \in Nat : Split(b, k + 1, P, Q, N)
    BY <1>2
  <2>2. k \in Nat /\ k <= b /\ k < 32
    BY <1>2, <2>1
  <2>3. PICK P, Q \in Nat : Split(b, k, P, Q, N)
    BY <1>2, <2>2
  <2>4. PICK j \in Nat : j = b - (k + 1) /\ j + 1 = b - k /\ j < 32
    BY <2>1, <2>2
  <2>5. PICK R \in Nat : R = 2^j /\ R # 0 /\ 2^(j + 1) = 2 * R
    BY <2>4, Powers DEF Powered
  <2>6. 2^(k + 1) = 2 * P /\ Q = 2 * R /\ N = P * Q /\ P # 0 /\ R # 0 /\ N = 2^b
    BY <2>2, <2>3, <2>4, <2>5, Powers DEF Powered, Split
  <2>7. (2 * P) * R = P * (2 * R)
    OBVIOUS
  <2>8. Split(b, k + 1, 2 * P, R, N)
    BY <2>3, <2>4, <2>5, <2>6, <2>7 DEF Split
  <2>. QED BY <2>3, <2>5, <2>8
<1>5. T = Nat
  BY <1>2, <1>3, <1>4, NatSetInduction
<1>. QED BY <1>1, <1>2, <1>5

LEMMA AnyBit == ASSUME NEW x \in Int, NEW k \in Nat, k < 32 PROVE Bit(x, k) \in {0, 1}
<1>1. PICK m \in Nat : m = 2^k /\ m # 0
  BY Powers DEF Powered
<1>2. PICK q \in Int : q = x \div m
  BY <1>1
<1>. QED BY <1>1, <1>2 DEF Bit

(* What SHL by n leaves: the lower part of v, moved up. *)
LEMMA MovedUp ==
  ASSUME NEW P \in Nat, NEW Q \in Nat, NEW N \in Nat, P # 0, Q # 0, N = P * Q, NEW v \in Nat
  PROVE  (v % Q) * P \in Nat /\ (v % Q) * P + P <= N
<1>1. PICK b \in Nat : b = v % Q /\ b < Q
  OBVIOUS
<1>2. (b + 1) * P <= Q * P
  BY <1>1, TimesLarger
<1>3. (b + 1) * P = b * P + P /\ Q * P = N /\ b * P \in Nat
  BY <1>1
<1>. QED BY <1>1, <1>2, <1>3

LEMMA ShiftsFit ==
  ASSUME NEW kind \in Kinds, NEW w \in {8, 16}, NEW v \in Numbers(w), NEW cf \in {0, 1},
         NEW n \in Nat, n # 0, n < 32
  PROVE  Fits(shifts(kind, v, cf, w, n), w)
<1>1. PICK H \in Nat : Sized(w, H)
  BY Sizes
<1>2. v \in Nat /\ v < 2 * H
  BY <1>1, SizedNumbers
<1>3. PICK s : s = shifts(kind, v, cf, w, n)
  OBVIOUS
<1>4. PICK t : t = Times(kind, v, cf, w, n) /\ Fits(t, w)
  BY TimesFits
<1>5. PICK k \in Nat : k = n - 1 /\ k < 32
  OBVIOUS
<1>6. 0 \in Numbers(w)
  BY <1>1, SizedNumbers DEF Sized
<1>7. CASE kind \in Rotates
  BY <1>3, <1>4, <1>7 DEF shifts, Rotates
<1>8. CASE kind = "SHL"
  <2>1. s = [r |-> IF n > w THEN 0 ELSE Wrap(v, w - n) * 2^n, CF |-> ShlCarry(v, n, w)]
    BY <1>3, <1>8 DEF shifts, Rotates
  <2>2. CASE n > w
    BY <1>3, <1>6, <2>1, <2>2 DEF Fits, ShlCarry
  <2>3. CASE n <= w
    <3>1. PICK P, Q, N \in Nat : Split(w, n, P, Q, N)
      BY <2>3, PowersMultiply
    <3>2. N = 2 * H
      BY <1>1, <3>1 DEF Split, Sized
    <3>3. Wrap(v, w - n) * 2^n = (v % Q) * P
      BY <3>1 DEF Split, Wrap
    <3>4. PICK r : r = (v % Q) * P
      OBVIOUS
    <3>5. r \in Nat /\ r + P <= N /\ P # 0
      BY <1>2, <3>1, <3>4, MovedUp DEF Split
    <3>6. r \in Numbers(w)
      BY <1>1, <3>1, <3>2, <3>5, SizedNumbers
    <3>7. PICK j \in Nat : j = w - n /\ j < 32
      BY <2>3
    <3>8. ShlCarry(v, n, w) \in {0, 1}
      BY <1>2, <2>3, <3>7, AnyBit DEF ShlCarry
    <3>. QED BY <1>3, <2>1, <2>3, <3>3, <3>4, <3>6, <3>8 DEF Fits
  <2>. QED BY <2>2, <2>3
<1>9. CASE kind = "SHR"
  <2>1. s = [r |-> IF n > w THEN 0 ELSE v \div 2^n, CF |-> IF n > w THEN 0 ELSE Bit(v, n - 1)]
    BY <1>3, <1>9 DEF shifts, Rotates
  <2>2. PICK P \in Nat : P = 2^n /\ P # 0
    BY Powers DEF Powered
  <2>3. PICK q, d : Divides(v, P, q, d)
    BY <1>2, <2>2, Division
  <2>4. q = v \div P /\ q \in Nat /\ d \in Nat /\ v = P * q + d
    BY <1>2, <2>3 DEF Divides
  <2>5. q <= v
    <3>1. 1 * q <= P * q
      BY <2>2, <2>4, TimesLarger
    <3>2. P * q \in Nat /\ 1 * q = q
      BY <2>2, <2>4
    <3>. QED BY <1>2, <2>4, <3>1, <3>2
  <2>6. q \in Numbers(w)
    BY <1>1, <1>2, <2>4, <2>5, SizedNumbers
  <2>7. Bit(v, n - 1) \in {0, 1}
    BY <1>2, <1>5, AnyBit
  <2>. QED BY <1>3, <1>6, <2>1, <2>2, <2>4, <2>6, <2>7 DEF Fits
<1>10. CASE kind = "SAR"
  <2>1. s = [r |-> t.r, CF |-> Bit(Signed(v % 256, 8), n - 1)]
    BY <1>3, <1>4, <1>10 DEF shifts, Rotates
  <2>2. PICK x \in Int : x = Signed(v % 256, 8)
    <3>1. PICK u : u = 8
      OBVIOUS
    <3>2. 2^u = 256
      BY <3>1
    <3>3. v % 256 \in Int /\ (v % 256) - 256 \in Int
      BY <1>2
    <3>4. Signed(v % 256, u) \in Int
      BY <3>2, <3>3 DEF Signed
    <3>. QED BY <3>1, <3>4
  <2>3. Bit(x, n - 1) \in {0, 1}
    BY <1>5, <2>2, AnyBit
  <2>. QED BY <1>3, <1>4, <2>1, <2>2, <2>3 DEF Fits
<1>11. kind \in Rotates \/ kind = "SHL" \/ kind = "SHR" \/ kind = "SAR"
  BY DEF Kinds
<1>. QED BY ONLY <1>7, <1>8, <1>9, <1>10, <1>11

--------------------------------------------------------------------------------
(* The step of a shift. *)
ShiftResult(kind, v, cf, w, n) ==
    IF n = 1 THEN shift1(kind, v, cf, w) ELSE shifts(kind, v, cf, w, n)

LEMMA CountBits == ASSUME NEW count \in Counts PROVE count % 32 \in Nat /\ count % 32 < 32
<1>1. count \in Nat
  BY AluAssumption, Bytes
<1>. QED BY <1>1

LEMMA ResultFits ==
  ASSUME NEW kind \in Kinds, NEW w \in {8, 16}, NEW v \in Numbers(w), NEW cf \in {0, 1},
         NEW n \in Nat, n # 0, n < 32
  PROVE  Fits(ShiftResult(kind, v, cf, w, n), w)
BY OneFits, ShiftsFit DEF ShiftResult

LEMMA OverflowType ==
  ASSUME NEW kind \in Kinds, NEW w \in {8, 16}, NEW v \in Numbers(w), NEW n, NEW res, Fits(res, w)
  PROVE  ShiftOverflow(kind, v, n, res, w) \in {0, 1}
<1>1. PICK H \in Nat : Sized(w, H)
  BY Sizes
<1>2. Bit(v, w - 1) \in {0, 1}
  BY <1>1, TopBit
<1>3. PICK o : o = ShiftOverflow(kind, v, n, res, w)
  OBVIOUS
<1>4. CASE kind \in {"ROL", "RCL", "SHL"}
  <2>1. o = Flag(Bit(res.r, w - 1) # res.CF)
    BY <1>3, <1>4 DEF ShiftOverflow
  <2>. QED BY <1>3, <2>1 DEF Flag
<1>5. CASE kind \in {"ROR", "RCR"}
  <2>1. o = Flag(Bit(res.r, w - 2) # Bit(res.r, w - 1))
    BY <1>3, <1>5 DEF ShiftOverflow
  <2>. QED BY <1>3, <2>1 DEF Flag
<1>6. CASE kind = "SHR"
  BY <1>2, <1>6 DEF ShiftOverflow
<1>7. CASE kind = "SAR"
  BY <1>7 DEF ShiftOverflow
<1>8. kind \in {"ROL", "RCL", "SHL", "ROR", "RCR", "SHR", "SAR"}
  BY DEF Kinds, Rotates
<1>. QED BY ONLY <1>3, <1>4, <1>5, <1>6, <1>7, <1>8

(* The new AX and the new carry are those of the result. *)
LEMMA ShiftStep ==
  ASSUME IInv, NEW kind \in Kinds, NEW w \in {8, 16}, NEW count \in Counts, Shift(kind, w, count)
  PROVE  /\ IInv'
         /\ last'.op = kind /\ last'.w = w /\ last'.y = count
         /\ last'.x = Dest(w) /\ last'.CF = fl.CF
         /\ count % 32 = 0 => Dest(w)' = Dest(w) /\ fl'.CF = fl.CF
         /\ count % 32 # 0 =>
              LET res == ShiftResult(kind, Dest(w), fl.CF, w, count % 32)
              IN  Dest(w)' = res.r /\ fl'.CF = res.CF
<1>1. TypeOK /\ fl \in Flags
  BY Typed DEF IInv
<1>2. PICK v : v = Dest(w)
  OBVIOUS
<1>3. v \in Numbers(w) /\ fl.CF \in {0, 1}
  BY <1>1, <1>2, DestType, CarryType
<1>4. PICK n \in Nat : n = count % 32 /\ n < 32
  BY CountBits
<1>5. PICK res : res = ShiftResult(kind, v, fl.CF, w, n)
  OBVIOUS
<1>6. PICK f : f = [fl EXCEPT !.CF = res.CF, !.AF = 0, !.OF = ShiftOverflow(kind, v, n, res, w)]
  OBVIOUS
<1>7. /\ last' = Did(kind, count, w)
      /\ IF n = 0 THEN ax' = ax /\ fl' = fl
         ELSE ax' = With(res.r, w) /\ fl' = IF kind \in Rotates THEN f ELSE Marked(f, res.r, w)
  BY <1>2, <1>4, <1>5, <1>6 DEF Shift, ShiftResult
<1>8. /\ last'.op = kind /\ last'.w = w /\ last'.y = count
      /\ last'.x = v /\ last'.CF = fl.CF
  BY <1>2, <1>7, DidKeeps
<1>9. last'.op \notin {"ADD", "ADC", "SUB", "SBB", "CMP", "INC", "DEC", "NEG", "AAM"}
  BY <1>8 DEF Kinds, Rotates
<1>10. CASE n = 0
  <2>1. ax' = ax /\ fl' = fl
    BY <1>7, <1>10
  <2>2. TypeOK'
    BY <1>1, <2>1 DEF TypeOK
  <2>3. Dest(w)' = v /\ fl'.CF = fl.CF
    BY <1>2, <2>1 DEF Dest
  <2>. QED BY <1>2, <1>4, <1>8, <1>9, <1>10, <2>2, <2>3, NoSum
<1>11. CASE n # 0
  <2>1. Fits(res, w)
    BY <1>3, <1>4, <1>5, <1>11, ResultFits
  <2>2. res.r \in Numbers(w) /\ res.CF \in {0, 1}
    BY <2>1 DEF Fits
  <2>3. ShiftOverflow(kind, v, n, res, w) \in {0, 1}
    BY <1>3, <2>1, OverflowType
  <2>4. f \in Flags /\ f.CF = res.CF
    BY <1>1, <1>6, <2>2, <2>3 DEF Flags
  <2>5. PICK H \in Nat : Sized(w, H)
    BY Sizes
  <2>6. Marked(f, res.r, w) \in Flags /\ Marked(f, res.r, w).CF = f.CF
    BY <2>2, <2>4, <2>5, MarkedFlags
  <2>7. fl' \in Flags /\ fl'.CF = res.CF
    BY <1>7, <1>11, <2>4, <2>6
  <2>8. ax' = With(res.r, w)
    BY <1>7, <1>11
  <2>9. TypeOK' /\ Dest(w)' = res.r
    BY <1>1, <2>2, <2>7, <2>8, Leaves
  <2>. QED BY <1>2, <1>4, <1>5, <1>8, <1>9, <1>11, <2>7, <2>9, NoSum
<1>. QED BY <1>10, <1>11

--------------------------------------------------------------------------------
(* Rotates.  A number z is a quotient a and a rest e of a division by 2 * m;*)
(* c is the highest bit of the rest, d what is below it.                   *)
Halves2(z, m, a, e, c, d) ==
    /\ a \in Int /\ e \in Nat /\ d \in Nat /\ (c = 0 \/ c = 1)
    /\ a = z \div (2 * m) /\ e = z % (2 * m) /\ z = (2 * m) * a + e /\ e < 2 * m
    /\ d = z % m /\ 2 * a + c = z \div m /\ e = c * m + d /\ d < m
    /\ z \in Nat => a \in Nat

LEMMA Halving ==
  ASSUME NEW z \in Int, NEW m \in Nat, m # 0
  PROVE  \E a, e, c, d : Halves2(z, m, a, e, c, d)
<1>1. PICK n \in Nat : n = 2 * m /\ n # 0
  OBVIOUS
<1>2. PICK a, e : Divides(z, n, a, e)
  BY <1>1, Division
<1>3. /\ a \in Int /\ e \in Nat /\ e < 2 * m /\ z = n * a + e
      /\ a = z \div n /\ e = z % n /\ (z \in Nat => a \in Nat)
  BY <1>1, <1>2 DEF Divides
<1>4. PICK c \in {0, 1} : c = IF e < m THEN 0 ELSE 1
  OBVIOUS
<1>5. PICK d \in Nat : d = e - c * m /\ d < m /\ e = c * m + d
  <2>1. CASE e < m
    BY <1>3, <1>4, <2>1
  <2>2. CASE ~ (e < m)
    BY <1>3, <1>4, <2>2
  <2>. QED BY <2>1, <2>2
<1>6. PICK j \in Int : j = 2 * a + c
  BY <1>3, <1>4
<1>7. z = m * j + d
  <2>1. n * a = m * (2 * a)
    BY <1>1, <1>3
  <2>2. m * j = m * (2 * a) + m * c
    <3>1. PICK h \in Int : h = 2 * a
      BY <1>3
    <3>2. m * (h + c) = m * h + m * c
      BY ONLY <3>1, c \in {0, 1}, m \in Nat
    <3>. QED BY ONLY <1>6, <3>1, <3>2
  <2>3. m * c = c * m /\ m * (2 * a) \in Int /\ c * m \in Int
    BY <1>3, <1>4
  <2>. QED BY <1>3, <1>5, <2>1, <2>2, <2>3
<1>8. j = z \div m /\ d = z % m
  BY <1>5, <1>6, <1>7, DivisionUnique
<1>9. Halves2(z, m, a, e, c, d)
  BY <1>1, <1>3, <1>4, <1>5, <1>6, <1>8 DEF Halves2
<1>. QED BY <1>9

(* y is z, rotated to the left by one bit; 2 * M is the width. *)
Turn(z, y, M) == y = IF z < M THEN 2 * z ELSE 2 * z - 2 * M + 1

(* z, rotated to the left by k bits, where P is 2^k and P * Q the width. *)
Turned(z, P, Q) == (z % Q) * P + (z \div Q)

LEMMA TurnAfter ==
  ASSUME NEW P \in Nat, NEW Q \in Nat, NEW M \in Nat, P # 0, Q # 0, M = P * Q,
         NEW z \in Nat, z < 2 * M, NEW y, Turn(Turned(z, P, 2 * Q), y, M)
  PROVE  y = Turned(z, 2 * P, Q)
<1>1. PICK a, e, c, d : Halves2(z, Q, a, e, c, d)
  BY Halving
<1>2. /\ a \in Nat /\ e \in Nat /\ d \in Nat /\ c \in {0, 1} /\ e = c * Q + d /\ d < Q
      /\ z = (2 * Q) * a + e
  BY <1>1 DEF Halves2
<1>3. Turned(z, P, 2 * Q) = e * P + a /\ Turned(z, 2 * P, Q) = d * (2 * P) + (2 * a + c)
  BY <1>1 DEF Halves2, Turned
<1>4. a < P
  <2>1. a >= P => (2 * Q) * a >= (2 * Q) * P
    BY <1>2, TimesLarger
  <2>2. (2 * Q) * P = 2 * M
    OBVIOUS
  <2>3. PICK u \in Nat : u = (2 * Q) * a
    BY <1>2
  <2>. QED BY <1>2, <2>1, <2>2, <2>3
<1>5. PICK x \in Nat : x = d * P + a /\ x < M
  <2>1. (d + 1) * P <= Q * P
    BY <1>2, TimesLarger
  <2>2. (d + 1) * P = d * P + P /\ Q * P = M /\ d * P \in Nat
    BY <1>2
  <2>. QED BY <1>2, <1>4, <2>1, <2>2
<1>6. e * P + a = c * M + x
  <2>1. e * P = (c * Q) * P + d * P
    BY <1>2
  <2>2. (c * Q) * P = c * M
    BY <1>2
  <2>3. PICK u, v \in Nat : u = c * M /\ v = d * P
    BY <1>2
  <2>. QED BY <1>2, <1>5, <2>1, <2>2, <2>3
<1>7. y = 2 * x + c
  <2>1. CASE c = 0
    <3>1. Turned(z, P, 2 * Q) = x
      BY <1>3, <1>5, <1>6, <2>1
    <3>. QED BY <1>5, <2>1, <3>1 DEF Turn
  <2>2. CASE c = 1
    <3>1. Turned(z, P, 2 * Q) = M + x
      BY <1>3, <1>5, <1>6, <2>2
    <3>. QED BY <1>5, <2>2, <3>1 DEF Turn
  <2>. QED BY <1>2, <2>1, <2>2
<1>8. 2 * x + c = d * (2 * P) + (2 * a + c)
  <2>1. PICK v \in Nat : v = d * P
    BY <1>2
  <2>2. d * (2 * P) = 2 * v
    BY <1>2, <2>1
  <2>. QED BY <1>2, <1>5, <2>1, <2>2
<1>. QED BY <1>3, <1>7, <1>8

LEMMA TurnBefore ==
  ASSUME NEW P \in Nat, NEW Q \in Nat, NEW M \in Nat, P # 0, Q # 0, M = P * Q,
         NEW z \in Nat, z < 2 * M, NEW y, Turn(z, y, M)
  PROVE  Turned(y, P, 2 * Q) = Turned(z, 2 * P, Q)
<1>1. PICK A, B : Divides(z, Q, A, B)
  BY Division
<1>2. A \in Nat /\ B \in Nat /\ B < Q /\ z = Q * A + B /\ A = z \div Q /\ B = z % Q
  BY <1>1 DEF Divides
<1>3. A < 2 * P
  <2>1. A >= 2 * P => Q * A >= Q * (2 * P)
    BY <1>2, TimesLarger
  <2>2. Q * (2 * P) = 2 * M
    OBVIOUS
  <2>3. PICK u \in Nat : u = Q * A
    BY <1>2
  <2>. QED BY <1>2, <2>1, <2>2, <2>3
<1>4. PICK b \in {0, 1} : b = IF A < P THEN 0 ELSE 1
  OBVIOUS
<1>5. PICK D \in Nat : A = b * P + D /\ D < P
  <2>1. CASE A < P
    <3>1. b = 0
      BY <1>4, <2>1
    <3>2. A \in Nat
      BY <1>2
    <3>3. A = b * P + A
      BY ONLY <3>1, <3>2, P \in Nat
    <3>. QED BY ONLY <2>1, <3>2, <3>3
  <2>2. CASE ~ (A < P)
    <3>1. A \in Nat
      BY <1>2
    <3>2. PICK D \in Nat : A = P + D /\ D < P
      BY ONLY <1>3, <2>2, <3>1, P \in Nat
    <3>3. b = 1 /\ 1 * P = P
      BY <1>4, <2>2
    <3>. QED BY ONLY <3>2, <3>3
  <2>. QED BY <2>1, <2>2
<1>6. PICK x \in Nat : x = Q * D + B /\ x < M
  <2>1. Q * (D + 1) <= Q * P
    BY <1>5, TimesLarger
  <2>2. Q * (D + 1) = Q * D + Q /\ Q * P = M /\ Q * D \in Nat
    BY <1>5
  <2>. QED BY <1>2, <2>1, <2>2
<1>7. z = b * M + x
  <2>1. Q * A = Q * (b * P) + Q * D
    <3>1. PICK u \in Nat : u = b * P
      BY <1>4
    <3>2. Q * (u + D) = Q * u + Q * D
      BY ONLY <3>1, D \in Nat, Q \in Nat
    <3>. QED BY ONLY <1>5, <3>1, <3>2
  <2>2. Q * (b * P) = b * M
    BY <1>4
  <2>3. PICK u, v \in Nat : u = b * M /\ v = Q * D
    BY <1>4, <1>5
  <2>. QED BY <1>2, <1>6, <2>1, <2>2, <2>3
<1>8. y = 2 * x + b
  <2>1. CASE b = 0
    BY <1>6, <1>7, <2>1 DEF Turn
  <2>2. CASE b = 1
    BY <1>6, <1>7, <2>2 DEF Turn
  <2>. QED BY <1>4, <2>1, <2>2
<1>9. PICK n, r \in Nat : n = 2 * Q /\ r = 2 * B + b /\ r < n
  <2>1. B \in Nat /\ B < Q
    BY <1>2
  <2>2. 2 * Q \in Nat /\ 2 * B + b \in Nat /\ 2 * B + b < 2 * Q
    BY ONLY <2>1, b \in {0, 1}, Q \in Nat
  <2>. QED BY ONLY <2>2
<1>10. y = n * D + r
  <2>1. PICK v \in Nat : v = Q * D
    BY <1>5
  <2>2. n * D = 2 * v
    BY <1>5, <1>9, <2>1
  <2>. QED BY <1>2, <1>4, <1>6, <1>8, <1>9, <2>1, <2>2
<1>11. D = y \div n /\ r = y % n
  <2>1. n \in Nat /\ D \in Int /\ r \in Nat /\ r < n
    BY <1>9
  <2>. QED BY ONLY <1>10, <2>1, DivisionUnique
<1>12. Turned(y, P, 2 * Q) = r * P + D
  BY <1>9, <1>11 DEF Turned
<1>13. Turned(z, 2 * P, Q) = B * (2 * P) + A
  BY <1>2 DEF Turned
<1>14. r * P + D = B * (2 * P) + A
  <2>1. PICK u, v \in Nat : u = B * P /\ v = b * P
    BY <1>2, <1>4
  <2>2. r * P = 2 * u + v /\ B * (2 * P) = 2 * u
    <3>1. B \in Nat
      BY <1>2
    <3>2. (2 * B + b) * P = 2 * (B * P) + b * P /\ B * (2 * P) = 2 * (B * P)
      BY ONLY <3>1, b \in {0, 1}, P \in Nat
    <3>. QED BY ONLY <1>9, <2>1, <3>2
  <2>3. A = v + D /\ A \in Nat /\ D \in Nat
    BY <1>2, <1>5, <2>1
  <2>. QED BY ONLY <2>1, <2>2, <2>3
<1>. QED BY <1>12, <1>13, <1>14

(* RotatedLeft by i, and by one more. *)
Rotation(b, i, M, P, Q) ==
    /\ P # 0 /\ Q # 0 /\ M = P * Q
    /\ \A z \in Nat : z < 2 * M =>
         /\ RotatedLeft(z, i, b) = Turned(z, P, 2 * Q)
         /\ RotatedLeft(z, i + 1, b) = Turned(z, 2 * P, Q)

LEMMA RotatedNext ==
  ASSUME NEW b \in Nat, 0 < b, b < 31, NEW M \in Nat, 2^b = 2 * M, NEW i \in Nat
  PROVE  \E P, Q \in Nat : Rotation(b, i, M, P, Q)
<1>1. PICK t, k : Divides(i, b, t, k)
  BY Division
<1>2. k = i % b /\ k \in Nat /\ k < b /\ t \in Int /\ i = b * t + k
  BY <1>1 DEF Divides
<1>3. PICK P, Q2, N \in Nat : Split(b, k, P, Q2, N)
  BY <1>2, PowersMultiply
<1>4. P = 2^k /\ Q2 = 2^(b - k) /\ N = 2 * M /\ P # 0 /\ N = P * Q2
  BY <1>3 DEF Split
<1>5. PICK j \in Nat : j = b - (k + 1) /\ b - k = j + 1 /\ j < 32
  BY <1>2
<1>6. PICK Q \in Nat : Q = 2^j /\ Q # 0 /\ Q2 = 2 * Q
  BY <1>4, <1>5, Powers DEF Powered
<1>7. M = P * Q
  <2>1. PICK u \in Nat : u = P * Q
    BY <1>6
  <2>2. P * (2 * Q) = 2 * u
    BY ONLY <2>1, P \in Nat, Q \in Nat
  <2>. QED BY <1>4, <1>6, <2>1, <2>2
<1>8. 2^(k + 1) = 2 * P
  BY <1>2, <1>4, Powers DEF Powered
<1>9. ASSUME NEW z \in Nat, z < 2 * M
      PROVE  RotatedLeft(z, i, b) = Turned(z, P, 2 * Q)
  BY <1>2, <1>4, <1>6 DEF RotatedLeft, Turned, Wrap
<1>10. ASSUME NEW z \in Nat, z < 2 * M
       PROVE  RotatedLeft(z, i + 1, b) = Turned(z, 2 * P, Q)
  <2>1. CASE k + 1 < b
    <3>1. PICK l \in Nat : l = k + 1 /\ l < b
      BY <1>2, <2>1
    <3>2. i + 1 = b * t + l
      <4>1. PICK u \in Int : u = b * t
        BY <1>2
      <4>. QED BY <1>2, <3>1, <4>1
    <3>3. (i + 1) % b = l
      BY <1>2, <3>1, <3>2, DivisionUnique
    <3>. QED BY <1>5, <1>6, <1>8, <3>1, <3>3 DEF RotatedLeft, Turned, Wrap
  <2>2. CASE ~ (k + 1 < b)
    <3>1. j = 0 /\ k + 1 = b
      BY <1>2, <1>5, <2>2
    <3>2. Q = 1
      BY <1>6, <3>1
    <3>3. PICK l \in Nat, s \in Int : l = 0 /\ s = t + 1
      BY <1>2
    <3>4. i + 1 = b * s + l
      <4>1. b * s = b * t + b
        BY <1>2, <3>3
      <4>2. PICK u \in Int : u = b * t
        BY <1>2
      <4>. QED BY <1>2, <3>1, <3>3, <4>1, <4>2
    <3>5. (i + 1) % b = l
      <4>1. l \in Nat /\ s \in Int /\ l < b /\ b \in Nat
        BY <3>3
      <4>2. PICK a : a = i + 1 /\ a = b * s + l
        BY <3>4
      <4>3. Composed(a, b, s, l)
        BY ONLY <4>1, <4>2 DEF Composed
      <4>4. l = a % b
        BY ONLY <4>3, ComposedUnique
      <4>. QED BY ONLY <4>2, <4>4
    <3>6. 2^l = 1 /\ 2^(b - l) = 2 * M
      BY <3>3
    <3>7. RotatedLeft(z, i + 1, b) = (z % (2 * M)) * 1 + (z \div (2 * M))
      BY <3>5, <3>6 DEF RotatedLeft, Wrap
    <3>8. PICK n \in Nat : n = 2 * M /\ z < n
      BY <1>10
    <3>9. z = n * 0 + z
      BY <3>8
    <3>10. z % n = z /\ z \div n = 0
      BY <1>10, <3>8, <3>9, DivisionUnique
    <3>11. RotatedLeft(z, i + 1, b) = z
      BY <3>7, <3>8, <3>10
    <3>12. z % 1 = 0 /\ z \div 1 = z
      OBVIOUS
    <3>13. Turned(z, 2 * P, Q) = z
      BY <3>2, <3>12 DEF Turned
    <3>. QED BY <3>11, <3>13
  <2>. QED BY <2>1, <2>2
<1>. QED BY <1>4, <1>6, <1>7, <1>9, <1>10 DEF Rotation

(* One more turn, of the result or of the number. *)
LEMMA RotatedOneMore ==
  ASSUME NEW b \in Nat, 0 < b, b < 31, NEW M \in Nat, 2^b = 2 * M, NEW i \in Nat,
         NEW z \in Nat, z < 2 * M, NEW y
  PROVE  /\ Turn(RotatedLeft(z, i, b), y, M) => y = RotatedLeft(z, i + 1, b)
         /\ Turn(z, y, M) => RotatedLeft(y, i, b) = RotatedLeft(z, i + 1, b)
<1>1. PICK P, Q \in Nat : Rotation(b, i, M, P, Q)
  BY RotatedNext
<1>2. RotatedLeft(z, i, b) = Turned(z, P, 2 * Q) /\ RotatedLeft(z, i + 1, b) = Turned(z, 2 * P, Q)
  BY <1>1 DEF Rotation
<1>3. ASSUME Turn(RotatedLeft(z, i, b), y, M)
      PROVE  y = RotatedLeft(z, i + 1, b)
  <2>1. Turn(Turned(z, P, 2 * Q), y, M)
    BY <1>2, <1>3
  <2>2. y = Turned(z, 2 * P, Q)
    BY <1>1, <2>1, TurnAfter DEF Rotation
  <2>. QED BY <1>2, <2>2
<1>4. ASSUME Turn(z, y, M)
      PROVE  RotatedLeft(y, i, b) = RotatedLeft(z, i + 1, b)
  <2>1. y \in Nat /\ y < 2 * M
    BY <1>4 DEF Turn
  <2>2. RotatedLeft(y, i, b) = Turned(y, P, 2 * Q)
    BY <1>1, <2>1 DEF Rotation
  <2>3. Turned(y, P, 2 * Q) = Turned(z, 2 * P, Q)
    BY <1>1, <1>4, TurnBefore DEF Rotation
  <2>. QED BY <1>2, <2>2, <2>3
<1>. QED BY <1>3, <1>4

LEMMA RotatedByNone ==
  ASSUME NEW b \in Nat, 0 < b, b < 31, NEW M \in Nat, 2^b = 2 * M, NEW z \in Nat, z < 2 * M
  PROVE  RotatedLeft(z, 0, b) = z
<1>1. PICK l \in Nat : l = 0
  OBVIOUS
<1>2. 0 % b = l /\ 2^l = 1 /\ 2^(b - l) = 2 * M
  <2>1. 0 = b * l + l
    BY <1>1
  <2>2. 0 % b = l
    BY <1>1, <2>1, DivisionUnique
  <2>. QED BY <1>1, <2>2
<1>3. RotatedLeft(z, 0, b) = (z % (2 * M)) * 1 + (z \div (2 * M))
  BY <1>2 DEF RotatedLeft, Wrap
<1>4. PICK n \in Nat : n = 2 * M /\ z < n
  OBVIOUS
<1>5. z = n * 0 + z
  BY <1>4
<1>6. z % n = z /\ z \div n = 0
  BY <1>4, <1>5, DivisionUnique
<1>. QED BY <1>3, <1>4, <1>6

(* The carry and the number as one longer number. *)
Long(cf, r, H) == cf * (2 * H) + r

LEMMA OneTurn ==
  ASSUME NEW w, NEW H \in Nat, Sized(w, H), NEW v \in Numbers(w), NEW cf \in {0, 1},
         NEW kind, NEW s, s = shift1(kind, v, cf, w), Fits(s, w)
  PROVE  /\ kind = "ROL" => Turn(v, s.r, H)
         /\ kind = "ROR" => Turn(s.r, v, H)
         /\ kind = "RCL" => Turn(Long(cf, v, H), Long(s.CF, s.r, H), 2 * H)
         /\ kind = "RCR" => Turn(Long(s.CF, s.r, H), Long(cf, v, H), 2 * H)
<1>1. PICK top, left, half, low :
        Parts(v, H, top, left, half, low) /\ PartsType(H, top, left, half, low)
  BY PartsExist
<1>2. OneShift(w, H, v, cf, top, left, half, low)
  BY <1>1, ShiftByOne
<1>3. v \in Nat /\ v < 2 * H
  BY SizedNumbers
<1>4. H = 128 \/ H = 32768
  BY DEF Sized
<1>5. /\ top = (IF v < H THEN 0 ELSE 1) /\ left = (IF v < H THEN 2 * v ELSE 2 * v - 2 * H)
      /\ half \in Nat /\ half < H /\ (low = 0 \/ low = 1) /\ v = 2 * half + low /\ left \in Nat
  BY <1>1, <1>3 DEF Parts, PartsType
<1>6. PICK u \in Nat : u = cf * (2 * H) + v /\ u = Long(cf, v, H)
  BY <1>3 DEF Long
<1>7. cf = 0 => u = v
  BY ONLY <1>3, <1>6, H \in Nat
<1>8. cf = 1 => u = 2 * H + v
  BY ONLY <1>3, <1>6, H \in Nat
<1>9. PICK z : z = Long(s.CF, s.r, H)
  OBVIOUS
<1>10. ASSUME kind = "ROL" PROVE Turn(v, s.r, H)
  <2>1. s.r = left + top
    BY <1>2, <1>10 DEF OneShift
  <2>. QED BY ONLY <1>3, <1>4, <1>5, <2>1 DEF Turn
<1>11. ASSUME kind = "ROR" PROVE Turn(s.r, v, H)
  <2>1. s.r = half + low * H
    BY <1>2, <1>11 DEF OneShift
  <2>2. CASE low = 0
    <3>1. s.r = half
      BY ONLY <1>4, <1>5, <2>1, <2>2
    <3>. QED BY ONLY <1>4, <1>5, <2>2, <3>1 DEF Turn
  <2>3. CASE low = 1
    <3>1. s.r = half + H
      BY ONLY <1>4, <1>5, <2>1, <2>3
    <3>. QED BY ONLY <1>4, <1>5, <2>3, <3>1 DEF Turn
  <2>. QED BY <1>5, <2>2, <2>3
<1>12. ASSUME kind = "RCL" PROVE Turn(u, z, 2 * H)
  <2>1. s.r = left + cf /\ s.CF = top
    BY <1>2, <1>12 DEF OneShift
  <2>2. z = 2 * v + cf
    <3>1. z = top * (2 * H) + (left + cf)
      BY <1>9, <2>1 DEF Long
    <3>2. CASE v < H
      BY ONLY <1>3, <1>4, <1>5, <3>1, <3>2, cf \in {0, 1}
    <3>3. CASE ~ (v < H)
      BY ONLY <1>3, <1>4, <1>5, <3>1, <3>3, cf \in {0, 1}
    <3>. QED BY <3>2, <3>3
  <2>3. CASE cf = 0
    BY ONLY <1>3, <1>4, <1>7, <2>2, <2>3 DEF Turn
  <2>4. CASE cf = 1
    BY ONLY <1>3, <1>4, <1>8, <2>2, <2>4 DEF Turn
  <2>. QED BY <2>3, <2>4
<1>13. ASSUME kind = "RCR" PROVE Turn(z, u, 2 * H)
  <2>1. s.r = half + cf * H /\ s.CF = low
    BY <1>2, <1>13 DEF OneShift
  <2>2. z = low * (2 * H) + (half + cf * H)
    BY <1>9, <2>1 DEF Long
  <2>3. CASE cf = 0
    <3>1. z = low * (2 * H) + half
      BY ONLY <1>4, <1>5, <2>2, <2>3
    <3>. QED BY ONLY <1>4, <1>5, <1>7, <2>3, <3>1 DEF Turn
  <2>4. CASE cf = 1
    <3>1. z = low * (2 * H) + (half + H)
      BY ONLY <1>4, <1>5, <2>2, <2>4
    <3>. QED BY ONLY <1>4, <1>5, <1>8, <2>4, <3>1 DEF Turn
  <2>. QED BY <2>3, <2>4
<1>. QED BY <1>6, <1>9, <1>10, <1>11, <1>12, <1>13

(* What i rotates by one leave of v and cf. *)
Rotated(kind, v, cf, w, H, s, i) ==
    /\ kind = "ROL" => s.r = RotatedLeft(v, i, w)
    /\ kind = "ROR" => v = RotatedLeft(s.r, i, w)
    /\ kind = "RCL" => Long(s.CF, s.r, H) = RotatedLeft(Long(cf, v, H), i, w + 1)
    /\ kind = "RCR" => Long(cf, v, H) = RotatedLeft(Long(s.CF, s.r, H), i, w + 1)

(* The widths of a rotate, and of one through the carry. *)
LEMMA Widths ==
  ASSUME NEW w \in {8, 16}, NEW H \in Nat, Sized(w, H)
  PROVE  /\ w \in Nat /\ 0 < w /\ w < 31 /\ 2^w = 2 * H
         /\ w + 1 \in Nat /\ 0 < w + 1 /\ w + 1 < 31 /\ 2^(w + 1) = 2 * (2 * H)
BY Powers DEF Powered, Sized

LEMMA LongType ==
  ASSUME NEW w, NEW H \in Nat, Sized(w, H), NEW s, Fits(s, w)
  PROVE  /\ s.r \in Nat /\ s.r < 2 * H
         /\ Long(s.CF, s.r, H) \in Nat /\ Long(s.CF, s.r, H) < 2 * (2 * H)
<1>1. s.r \in Nat /\ s.r < 2 * H /\ s.CF \in {0, 1}
  BY SizedNumbers DEF Fits
<1>2. PICK r \in Nat, c \in {0, 1} : r = s.r /\ c = s.CF /\ r < 2 * H
  BY <1>1
<1>3. c * (2 * H) \in Nat /\ c * (2 * H) <= 2 * H
  <2>1. CASE c = 0
    BY <2>1
  <2>2. CASE c = 1
    BY <2>2
  <2>. QED BY <1>2, <2>1, <2>2
<1>. QED BY <1>2, <1>3 DEF Long

LEMMA RotatedStep ==
  ASSUME NEW w \in {8, 16}, NEW H \in Nat, Sized(w, H), NEW v, NEW cf, NEW kind,
         NEW i \in Nat, NEW s, NEW t, Fits(s, w), Fits(t, w), t = shift1(kind, s.r, s.CF, w),
         v \in Numbers(w), cf \in {0, 1}, Rotated(kind, v, cf, w, H, s, i)
  PROVE  Rotated(kind, v, cf, w, H, t, i + 1)
<1>1. PICK a, b, c, d, e, f :
        a = s.r /\ b = t.r /\ c = Long(s.CF, s.r, H) /\ d = Long(t.CF, t.r, H)
        /\ e = Long(cf, v, H) /\ f = w + 1
  OBVIOUS
<1>2. /\ kind = "ROL" => Turn(a, b, H)
      /\ kind = "ROR" => Turn(b, a, H)
      /\ kind = "RCL" => Turn(c, d, 2 * H)
      /\ kind = "RCR" => Turn(d, c, 2 * H)
  <2>1. s.r \in Numbers(w) /\ s.CF \in {0, 1}
    BY DEF Fits
  <2>. QED BY <1>1, <2>1, OneTurn
<1>3. /\ a \in Nat /\ a < 2 * H /\ b \in Nat /\ b < 2 * H
      /\ c \in Nat /\ c < 2 * (2 * H) /\ d \in Nat /\ d < 2 * (2 * H)
  BY <1>1, LongType
<1>4. v \in Nat /\ v < 2 * H /\ e \in Nat /\ e < 2 * (2 * H)
  <2>1. PICK x : x = [r |-> v, CF |-> cf]
    OBVIOUS
  <2>2. Fits(x, w)
    BY <2>1 DEF Fits
  <2>. QED BY <1>1, <2>1, <2>2, LongType
<1>5. PICK N \in Nat : N = 2 * H
  OBVIOUS
<1>6. w \in Nat /\ 0 < w /\ w < 31 /\ 2^w = 2 * H /\ f \in Nat /\ 0 < f /\ f < 31 /\ 2^f = 2 * N
  BY <1>1, <1>5, Widths
<1>7. /\ kind = "ROL" => a = RotatedLeft(v, i, w)
      /\ kind = "ROR" => v = RotatedLeft(a, i, w)
      /\ kind = "RCL" => c = RotatedLeft(e, i, f)
      /\ kind = "RCR" => e = RotatedLeft(c, i, f)
  BY <1>1 DEF Rotated
<1>8. kind = "ROL" => b = RotatedLeft(v, i + 1, w)
  BY <1>2, <1>4, <1>6, <1>7, RotatedOneMore
<1>9. kind = "ROR" => v = RotatedLeft(b, i + 1, w)
  BY <1>2, <1>3, <1>6, <1>7, RotatedOneMore
<1>10. kind = "RCL" => d = RotatedLeft(e, i + 1, f)
  BY <1>2, <1>4, <1>5, <1>6, <1>7, RotatedOneMore
<1>11. kind = "RCR" => e = RotatedLeft(d, i + 1, f)
  BY <1>2, <1>3, <1>5, <1>6, <1>7, RotatedOneMore
<1>. QED BY <1>1, <1>8, <1>9, <1>10, <1>11 DEF Rotated

LEMMA RotatedTimes ==
  ASSUME NEW kind \in Rotates, NEW w \in {8, 16}, NEW H \in Nat, Sized(w, H),
         NEW v \in Numbers(w), NEW cf \in {0, 1}, NEW n \in Nat
  PROVE  Rotated(kind, v, cf, w, H, Times(kind, v, cf, w, n), n)
<1>1. PICK f : /\ f[0] = [r |-> v, CF |-> cf]
               /\ \A i \in Nat : i < n => f[i + 1] = shift1(kind, f[i].r, f[i].CF, w)
               /\ Times(kind, v, cf, w, n) = f[n]
  BY TimesRepeats
<1>2. PICK T : T = {i \in Nat : i <= n => Fits(f[i], w) /\ Rotated(kind, v, cf, w, H, f[i], i)}
  OBVIOUS
<1>3. Fits(f[0], w)
  BY <1>1 DEF Fits
<1>4. 0 \in T
  <2>1. v \in Nat /\ v < 2 * H /\ Long(cf, v, H) \in Nat /\ Long(cf, v, H) < 2 * (2 * H)
    BY <1>1, <1>3, LongType
  <2>2. PICK e \in Nat, N \in Nat, b \in Nat : e = Long(cf, v, H) /\ N = 2 * H /\ b = w + 1
    BY <2>1, Widths
  <2>3. RotatedLeft(v, 0, w) = v
    BY <2>1, Widths, RotatedByNone
  <2>4. RotatedLeft(e, 0, b) = e
    BY <2>1, <2>2, Widths, RotatedByNone
  <2>5. Rotated(kind, v, cf, w, H, f[0], 0)
    BY <1>1, <2>2, <2>3, <2>4 DEF Rotated
  <2>. QED BY <1>2, <1>3, <2>5
<1>5. ASSUME NEW i \in T PROVE i + 1 \in T
  <2>1. SUFFICES ASSUME i + 1 <= n
                 PROVE  Fits(f[i + 1], w) /\ Rotated(kind, v, cf, w, H, f[i + 1], i + 1)
    BY <1>2
  <2>2. i \in Nat /\ i < n /\ Fits(f[i], w) /\ Rotated(kind, v, cf, w, H, f[i], i)
    BY <1>2, <2>1
  <2>3. f[i + 1] = shift1(kind, f[i].r, f[i].CF, w)
    BY <1>1, <2>2
  <2>4. f[i].r \in Numbers(w) /\ f[i].CF \in {0, 1} /\ kind \in Kinds
    BY <2>2 DEF Fits, Kinds
  <2>5. Fits(f[i + 1], w)
    BY <2>3, <2>4, OneFits
  <2>. QED BY <2>2, <2>3, <2>5, RotatedStep
<1>6. T = Nat
  BY <1>2, <1>4, <1>5, NatSetInduction
<1>. QED BY <1>1, <1>2, <1>6

--------------------------------------------------------------------------------
(* Shifts by one, repeated. *)
ShlValue(v, i, w) == IF i > w THEN 0 ELSE Wrap(v, w - i) * 2^i

InHalf(x, H) == x \in Int /\ -H <= x /\ x < H

SarAt(z, i, H, s) == InHalf(z \div 2^i, H) /\ s.r = (z \div 2^i) % (2 * H)

Repeated(kind, v, w, H, s, i) ==
    /\ kind = "SHL" => s.r = ShlValue(v, i, w) /\ (i # 0 => s.CF = ShlCarry(v, i, w))
    /\ kind = "SHR" => s.r = v \div 2^i /\ (i # 0 => s.CF = Bit(v, i - 1))
    /\ kind = "SAR" => SarAt(Signed(v, w), i, H, s) /\ (i # 0 => s.CF = Bit(Signed(v, w), i - 1))

(* One shift of a number that is moved up so far that c is its top bit. *)
Above(u, c, x, H) == (c = 0 \/ c = 1) /\ x \in Nat /\ x < H /\ u = c * H + x

LEMMA OneLeft ==
  ASSUME NEW w, NEW H \in Nat, Sized(w, H), NEW cf, NEW u, NEW c, NEW x, Above(u, c, x, H),
         NEW t, t = shift1("SHL", u, cf, w)
  PROVE  t.r = 2 * x /\ t.CF = c
<1>1. u \in Nat /\ u < 2 * H /\ x \in Nat /\ x < H
      /\ ((c = 0 /\ u = x) \/ (c = 1 /\ u = H + x))
  <2>1. x \in Nat /\ x < H /\ u = c * H + x /\ (c = 0 \/ c = 1)
    BY DEF Above
  <2>2. x \in Nat /\ x < H
    BY DEF Above
  <2>3. CASE c = 0
    <3>1. u = x
      BY ONLY <2>1, <2>3, H \in Nat
    <3>2. u \in Nat /\ u < 2 * H
      BY ONLY <2>2, <3>1, H \in Nat
    <3>. QED BY ONLY <2>2, <2>3, <3>1, <3>2
  <2>4. CASE c = 1
    <3>1. u = H + x
      BY ONLY <2>1, <2>4, H \in Nat
    <3>. QED BY ONLY <2>2, <2>4, <3>1, H \in Nat
  <2>. QED BY <2>1, <2>3, <2>4
<1>2. u \in Numbers(w)
  BY <1>1, SizedNumbers
<1>3. PICK top, left, half, low :
        Parts(u, H, top, left, half, low) /\ PartsType(H, top, left, half, low)
  BY <1>2, PartsExist
<1>4. t.r = left /\ t.CF = top
  <2>1. OneShift(w, H, u, cf, top, left, half, low)
    BY <1>2, <1>3, ShiftByOne
  <2>. QED BY <2>1 DEF OneShift
<1>5. top = (IF u < H THEN 0 ELSE 1) /\ left = (IF u < H THEN 2 * u ELSE 2 * u - 2 * H)
  BY <1>3 DEF Parts
<1>. QED BY ONLY <1>1, <1>4, <1>5, H \in Nat

LEMMA HalfOf ==
  ASSUME NEW a \in Int, NEW c \in {0, 1}
  PROVE  (2 * a + c) \div 2 = a /\ (2 * a + c) % 2 = c
OBVIOUS

LEMMA ShlStep ==
  ASSUME NEW w \in {8, 16}, NEW H \in Nat, Sized(w, H), NEW v \in Numbers(w), NEW i \in Nat, i < 31,
         NEW s, s.r = ShlValue(v, i, w), NEW t, t = shift1("SHL", s.r, s.CF, w)
  PROVE  t.r = ShlValue(v, i + 1, w) /\ t.CF = ShlCarry(v, i + 1, w)
<1>1. v \in Nat /\ v < 2 * H
  BY SizedNumbers
<1>2. w \in Nat /\ 0 < w /\ w < 31 /\ 2^w = 2 * H
  BY Widths
<1>3. CASE i < w
  <2>1. PICK P, Q2, N \in Nat : Split(w, i, P, Q2, N)
    BY <1>2, <1>3, PowersMultiply
  <2>2. P = 2^i /\ Q2 = 2^(w - i) /\ N = 2 * H /\ P # 0 /\ N = P * Q2
    BY <1>2, <2>1 DEF Split
  <2>3. PICK j \in Nat : j = w - (i + 1) /\ w - i = j + 1 /\ j < 32
    BY <1>2, <1>3
  <2>4. PICK Q \in Nat : Q = 2^j /\ Q # 0 /\ Q2 = 2 * Q
    BY <2>2, <2>3, Powers DEF Powered
  <2>5. H = P * Q
    <3>1. PICK u \in Nat : u = P * Q
      OBVIOUS
    <3>2. P * (2 * Q) = 2 * u
      BY ONLY <3>1, P \in Nat, Q \in Nat
    <3>. QED BY <2>2, <2>4, <3>1, <3>2
  <2>6. 2^(i + 1) = 2 * P
    BY <2>2, Powers DEF Powered
  <2>7. PICK a, e, c, d : Halves2(v, Q, a, e, c, d)
    BY <1>1, <2>4, Halving
  <2>8. /\ c \in {0, 1} /\ d \in Nat /\ e = v % Q2 /\ e = c * Q + d /\ d < Q /\ d = v % Q
        /\ 2 * a + c = v \div Q /\ a \in Int
    BY <2>4, <2>7 DEF Halves2
  <2>9. PICK x \in Nat : x = d * P /\ x < H
    <3>1. (d + 1) * P <= Q * P
      BY <2>8, TimesLarger
    <3>2. (d + 1) * P = d * P + P /\ Q * P = H /\ d * P \in Nat
      BY <2>5, <2>8
    <3>. QED BY <2>2, <3>1, <3>2
  <2>10. s.r = c * H + x
    <3>1. s.r = e * P
      BY <1>2, <1>3, <2>2, <2>8 DEF ShlValue, Wrap
    <3>2. e * P = (c * Q) * P + d * P
      BY <2>8
    <3>3. (c * Q) * P = c * H
      BY <2>5, <2>8
    <3>. QED BY <2>9, <3>1, <3>2, <3>3
  <2>11. t.r = 2 * x /\ t.CF = c
    <3>1. Above(s.r, c, x, H)
      BY <2>8, <2>9, <2>10 DEF Above
    <3>. QED BY <3>1, OneLeft
  <2>12. ~ (i + 1 > w)
    BY <1>2, <1>3
  <2>13. ShlValue(v, i + 1, w) = 2 * x
    <3>1. ShlValue(v, i + 1, w) = d * (2 * P)
      BY <2>3, <2>4, <2>6, <2>8, <2>12 DEF ShlValue, Wrap
    <3>2. d * (2 * P) = 2 * (d * P)
      BY ONLY <2>8, P \in Nat
    <3>. QED BY <2>9, <3>1, <3>2
  <2>14. ShlCarry(v, i + 1, w) = c
    <3>1. ShlCarry(v, i + 1, w) = (2 * a + c) % 2
      BY <2>3, <2>4, <2>8, <2>12 DEF ShlCarry, Bit
    <3>2. (2 * a + c) % 2 = c
      BY ONLY <2>8
    <3>. QED BY <3>1, <3>2
  <2>. QED BY <2>11, <2>13, <2>14
<1>4. CASE ~ (i < w)
  <2>1. s.r = 0
    <3>1. CASE i > w
      BY <3>1 DEF ShlValue
    <3>2. CASE i = w
      <4>1. PICK k \in Nat : k = w - i /\ k = 0
        BY <1>2, <3>2
      <4>2. 2^k = 1
        BY <4>1
      <4>3. Wrap(v, w - i) = 0
        BY <1>1, <4>1, <4>2 DEF Wrap
      <4>4. s.r = 0 * 2^i
        BY <1>2, <3>2, <4>3 DEF ShlValue
      <4>5. PICK p \in Nat : p = 2^i
        BY Powers DEF Powered
      <4>. QED BY <4>4, <4>5
    <3>. QED BY <1>2, <1>4, <3>1, <3>2
  <2>2. s.r = 0 * H + 0 /\ 0 < H
    <3>1. H = 128 \/ H = 32768
      BY DEF Sized
    <3>. QED BY <2>1, <3>1
  <2>3. t.r = 2 * 0 /\ t.CF = 0
    <3>1. Above(s.r, 0, 0, H)
      BY <2>2 DEF Above
    <3>. QED BY <3>1, OneLeft
  <2>4. i + 1 > w
    BY <1>2, <1>4
  <2>. QED BY <2>3, <2>4 DEF ShlValue, ShlCarry
<1>. QED BY <1>3, <1>4

LEMMA ShrStep ==
  ASSUME NEW w \in {8, 16}, NEW H \in Nat, Sized(w, H), NEW v \in Numbers(w), NEW i \in Nat, i < 31,
         NEW s, Fits(s, w), s.r = v \div 2^i, NEW t, t = shift1("SHR", s.r, s.CF, w)
  PROVE  t.r = v \div 2^(i + 1) /\ t.CF = Bit(v, i)
<1>1. v \in Nat
  BY SizedNumbers
<1>2. PICK P \in Nat : P = 2^i /\ P # 0 /\ 2^(i + 1) = 2 * P
  BY Powers DEF Powered
<1>3. PICK a, e, c, d : Halves2(v, P, a, e, c, d)
  BY <1>1, <1>2, Halving
<1>4. a \in Int /\ c \in {0, 1} /\ a = v \div (2 * P) /\ 2 * a + c = v \div P
  BY <1>3 DEF Halves2
<1>5. s.r \in Numbers(w)
  BY DEF Fits
<1>6. PICK top, left, half, low :
        Parts(s.r, H, top, left, half, low) /\ PartsType(H, top, left, half, low)
  BY <1>5, PartsExist
<1>7. t.r = half /\ t.CF = low
  <2>1. PICK cf : cf = s.CF
    OBVIOUS
  <2>2. OneShift(w, H, s.r, cf, top, left, half, low)
    BY <1>5, <1>6, ShiftByOne
  <2>. QED BY <2>1, <2>2 DEF OneShift
<1>8. half = (2 * a + c) \div 2 /\ low = (2 * a + c) % 2
  BY <1>2, <1>4, <1>6 DEF Parts
<1>9. half = a /\ low = c
  BY <1>4, <1>8, HalfOf
<1>10. Bit(v, i) = (2 * a + c) % 2
  BY <1>2, <1>4 DEF Bit
<1>. QED BY <1>2, <1>4, <1>7, <1>8, <1>9, <1>10

LEMMA SarStep ==
  ASSUME NEW w \in {8, 16}, NEW H \in Nat, Sized(w, H), NEW z \in Int, NEW i \in Nat, i < 31,
         NEW s, Fits(s, w), SarAt(z, i, H, s), NEW t, t = shift1("SAR", s.r, s.CF, w)
  PROVE  SarAt(z, i + 1, H, t) /\ t.CF = Bit(z, i)
<1>1. H = 128 \/ H = 32768
  BY DEF Sized
<1>2. PICK P \in Nat : P = 2^i /\ P # 0 /\ 2^(i + 1) = 2 * P
  BY Powers DEF Powered
<1>3. PICK a, e, c, d : Halves2(z, P, a, e, c, d)
  BY <1>2, Halving
<1>4. a \in Int /\ c \in {0, 1} /\ a = z \div (2 * P) /\ 2 * a + c = z \div P
  BY <1>3 DEF Halves2
<1>5. PICK x \in Int : x = 2 * a + c /\ x = z \div 2^i /\ -H <= x /\ x < H
  BY <1>2, <1>4 DEF InHalf, SarAt
<1>6. -H <= a /\ a < H /\ (x < 0 <=> a < 0)
  <2>1. a \in Int /\ c \in {0, 1} /\ x = 2 * a + c /\ -H <= x /\ x < H
    BY <1>4, <1>5
  <2>. QED BY ONLY <1>1, <2>1
<1>7. s.r \in Numbers(w)
  BY DEF Fits
<1>8. PICK top, left, half, low :
        Parts(s.r, H, top, left, half, low) /\ PartsType(H, top, left, half, low)
  BY <1>7, PartsExist
<1>9. t.r = half + top * H /\ t.CF = low
  <2>1. PICK cf : cf = s.CF
    OBVIOUS
  <2>2. OneShift(w, H, s.r, cf, top, left, half, low)
    BY <1>7, <1>8, ShiftByOne
  <2>. QED BY <2>1, <2>2 DEF OneShift
<1>10. PICK r \in Nat : r = s.r /\ r = IF x < 0 THEN x + 2 * H ELSE x
  <2>1. x % (2 * H) = IF x < 0 THEN x + 2 * H ELSE x
    BY ONLY <1>1, <1>5
  <2>2. (IF x < 0 THEN x + 2 * H ELSE x) \in Nat
    BY ONLY <1>1, <1>5
  <2>3. s.r = x % (2 * H)
    BY <1>5 DEF SarAt
  <2>. QED BY ONLY <2>1, <2>2, <2>3
<1>11. top = (IF r < H THEN 0 ELSE 1) /\ half = r \div 2 /\ low = r % 2
  BY <1>8, <1>10 DEF Parts
<1>12. low = c /\ half + top * H = IF a < 0 THEN a + 2 * H ELSE a
  <2>1. a \in Int /\ (c = 0 \/ c = 1) /\ x = 2 * a + c
    BY <1>4, <1>5
  <2>2. CASE x < 0
    <3>1. PICK h \in Int : h = a + H /\ r = 2 * h + c /\ a < 0 /\ r >= H
      BY ONLY <1>1, <1>5, <1>6, <1>10, <2>1, <2>2
    <3>2. half = h /\ low = c
      BY <1>4, <1>11, <3>1, HalfOf
    <3>3. top * H = H
      BY ONLY <1>1, <1>10, <1>11, <3>1
    <3>. QED BY ONLY <1>1, <2>1, <3>1, <3>2, <3>3
  <2>3. CASE ~ (x < 0)
    <3>1. r = 2 * a + c /\ ~ (a < 0) /\ r < H
      BY ONLY <1>1, <1>5, <1>6, <1>10, <2>1, <2>3
    <3>2. half = a /\ low = c
      BY <1>4, <1>11, <3>1, HalfOf
    <3>3. top * H = 0
      BY ONLY <1>1, <1>10, <1>11, <3>1
    <3>. QED BY ONLY <1>1, <2>1, <3>1, <3>2, <3>3
  <2>. QED BY <2>2, <2>3
<1>13. a % (2 * H) = IF a < 0 THEN a + 2 * H ELSE a
  <2>1. a \in Int
    BY <1>4
  <2>. QED BY ONLY <1>1, <1>6, <2>1
<1>14. Bit(z, i) = c
  <2>1. Bit(z, i) = (2 * a + c) % 2
    BY <1>2, <1>4 DEF Bit
  <2>2. (2 * a + c) % 2 = c
    BY ONLY <1>4
  <2>. QED BY <2>1, <2>2
<1>15. z \div 2^(i + 1) = a
  BY <1>2, <1>4
<1>. QED BY <1>4, <1>6, <1>9, <1>12, <1>13, <1>14, <1>15 DEF InHalf, SarAt

LEMMA SignedType ==
  ASSUME NEW w, NEW H \in Nat, Sized(w, H), NEW v \in Numbers(w)
  PROVE  /\ InHalf(Signed(v, w), H)
         /\ Signed(v, w) = IF v < H THEN v ELSE v - 2 * H
         /\ Signed(v, w) % (2 * H) = v
<1>1. H = 128 \/ H = 32768
  BY DEF Sized
<1>2. v \in Nat /\ v < 2 * H
  BY SizedNumbers
<1>3. PICK z : z = Signed(v, w)
  OBVIOUS
<1>4. z = IF v < H THEN v ELSE v - 2 * H
  BY <1>3, TopBit DEF Signed, Sized
<1>5. CASE v < H
  <2>1. z = v
    BY ONLY <1>4, <1>5
  <2>2. v % (2 * H) = v
    BY ONLY <1>1, <1>2
  <2>. QED BY ONLY <1>1, <1>2, <1>3, <1>4, <1>5, <2>1, <2>2 DEF InHalf
<1>6. CASE ~ (v < H)
  <2>1. z = v - 2 * H
    BY ONLY <1>4, <1>6
  <2>2. (v - 2 * H) % (2 * H) = v
    BY ONLY <1>1, <1>2
  <2>3. -H <= v - 2 * H /\ v - 2 * H < H /\ v - 2 * H \in Int
    BY ONLY <1>1, <1>2, <1>6
  <2>. QED BY ONLY <1>3, <1>4, <2>1, <2>2, <2>3 DEF InHalf
<1>. QED BY <1>5, <1>6

LEMMA RepeatedTimes ==
  ASSUME NEW kind \in Kinds, NEW w \in {8, 16}, NEW H \in Nat, Sized(w, H),
         NEW v \in Numbers(w), NEW cf \in {0, 1}, NEW n \in Nat, n < 32
  PROVE  Repeated(kind, v, w, H, Times(kind, v, cf, w, n), n)
<1>1. PICK f : /\ f[0] = [r |-> v, CF |-> cf]
               /\ \A i \in Nat : i < n => f[i + 1] = shift1(kind, f[i].r, f[i].CF, w)
               /\ Times(kind, v, cf, w, n) = f[n]
  BY TimesRepeats
<1>2. PICK T : T = {i \in Nat : i <= n => Fits(f[i], w) /\ Repeated(kind, v, w, H, f[i], i)}
  OBVIOUS
<1>3. Fits(f[0], w)
  BY <1>1 DEF Fits
<1>4. v \in Nat /\ v < 2 * H
  BY SizedNumbers
<1>5. PICK z \in Int : z = Signed(v, w) /\ InHalf(z, H) /\ z % (2 * H) = v
  BY SignedType DEF InHalf
<1>6. 0 \in T
  <2>1. PICK o \in Nat : o = 0
    OBVIOUS
  <2>2. 2^o = 1
    BY <2>1
  <2>3. v \div 1 = v /\ z \div 1 = z /\ v * 1 = v
    BY <1>4
  <2>4. f[o].r = v
    BY <1>1, <2>1
  <2>5. ShlValue(v, o, w) = v
    <3>1. w - o = w /\ ~ (o > w)
      BY <2>1
    <3>2. Wrap(v, w) = v % (2 * H)
      BY DEF Wrap, Sized
    <3>3. PICK N \in Nat : N = 2 * H /\ v < N
      BY <1>4
    <3>4. Composed(v, N, 0, v)
      BY <1>4, <3>3 DEF Composed
    <3>5. v % N = v
      BY <3>4, ComposedUnique
    <3>. QED BY <2>2, <2>3, <3>1, <3>2, <3>3, <3>5 DEF ShlValue
  <2>6. Repeated(kind, v, w, H, f[o], o)
    BY <1>5, <2>1, <2>2, <2>3, <2>4, <2>5 DEF Repeated, SarAt
  <2>. QED BY <1>2, <1>3, <2>1, <2>6
<1>7. ASSUME NEW i \in T PROVE i + 1 \in T
  <2>1. SUFFICES ASSUME i + 1 <= n
                 PROVE  Fits(f[i + 1], w) /\ Repeated(kind, v, w, H, f[i + 1], i + 1)
    BY <1>2
  <2>2. i \in Nat /\ i < n /\ i < 31 /\ Fits(f[i], w) /\ Repeated(kind, v, w, H, f[i], i)
    BY <1>2, <2>1
  <2>3. PICK s, t : s = f[i] /\ t = f[i + 1]
    OBVIOUS
  <2>4. t = shift1(kind, s.r, s.CF, w)
    BY <1>1, <2>2, <2>3
  <2>5. s.r \in Numbers(w) /\ s.CF \in {0, 1} /\ Fits(s, w)
    BY <2>2, <2>3 DEF Fits
  <2>6. Fits(t, w)
    BY <2>4, <2>5, OneFits
  <2>7. PICK k \in Nat : k = i + 1 /\ k - 1 = i /\ k # 0
    BY <2>2
  <2>8. kind = "SHL" => t.r = ShlValue(v, k, w) /\ t.CF = ShlCarry(v, k, w)
    <3>1. kind = "SHL" => s.r = ShlValue(v, i, w)
      BY <2>2, <2>3 DEF Repeated
    <3>. QED BY <2>2, <2>4, <2>7, <3>1, ShlStep
  <2>9. kind = "SHR" => t.r = v \div 2^k /\ t.CF = Bit(v, k - 1)
    <3>1. kind = "SHR" => s.r = v \div 2^i
      BY <2>2, <2>3 DEF Repeated
    <3>. QED BY <2>2, <2>4, <2>5, <2>7, <3>1, ShrStep
  <2>10. kind = "SAR" => SarAt(z, k, H, t) /\ t.CF = Bit(z, k - 1)
    <3>1. kind = "SAR" => SarAt(z, i, H, s)
      BY <1>5, <2>2, <2>3 DEF Repeated
    <3>. QED BY <2>2, <2>4, <2>5, <2>7, <3>1, SarStep
  <2>11. Repeated(kind, v, w, H, t, k)
    BY <1>5, <2>8, <2>9, <2>10 DEF Repeated
  <2>. QED BY <2>3, <2>6, <2>7, <2>11
<1>8. T = Nat
  BY <1>2, <1>6, <1>7, NatSetInduction
<1>. QED BY <1>1, <1>2, <1>8

(* The code's forms of a shift by a count are the repeated shift by one. *)
LEMMA ZeroAbove ==
  ASSUME NEW w \in {8, 16}, NEW H \in Nat, Sized(w, H), NEW v \in Numbers(w),
         NEW k \in Nat, w <= k, k < 32
  PROVE  v \div 2^k = 0
<1>1. w \in Nat /\ 2^w = 2 * H /\ v \in Nat /\ v < 2 * H
  <2>1. v \in Int /\ 0 <= v /\ v < 2 * H
    BY SizedNumbers
  <2>2. w \in Nat /\ 2^w = 2 * H
    BY Widths
  <2>. QED BY <2>1, <2>2
<1>2. PICK P, Q, N \in Nat : Split(k, w, P, Q, N)
  BY <1>1, PowersMultiply
<1>3. N = 2^k /\ P = 2 * H /\ Q # 0 /\ N = P * Q
  BY <1>1, <1>2 DEF Split
<1>4. P * 1 <= P * Q
  BY <1>3, TimesLarger
<1>5. v < N
  BY <1>1, <1>3, <1>4
<1>6. Composed(v, N, 0, v)
  BY <1>1, <1>5 DEF Composed
<1>. QED BY <1>3, <1>6, ComposedUnique

LEMMA ShrForm ==
  ASSUME NEW w \in {8, 16}, NEW v \in Numbers(w), NEW cf \in {0, 1}, NEW n \in Nat, n # 0, n < 32,
         NEW t, t = Times("SHR", v, cf, w, n)
  PROVE  shifts("SHR", v, cf, w, n).r = t.r /\ shifts("SHR", v, cf, w, n).CF = t.CF
<1>1. PICK H \in Nat : Sized(w, H)
  BY Sizes
<1>2. PICK kind \in Kinds : kind = "SHR"
  BY DEF Kinds
<1>3. Repeated(kind, v, w, H, t, n)
  BY <1>1, <1>2, RepeatedTimes
<1>4. t.r = v \div 2^n /\ t.CF = Bit(v, n - 1)
  BY <1>2, <1>3 DEF Repeated
<1>5. PICK s : s = shifts("SHR", v, cf, w, n)
  OBVIOUS
<1>6. s = [r |-> IF n > w THEN 0 ELSE v \div 2^n, CF |-> IF n > w THEN 0 ELSE Bit(v, n - 1)]
  BY <1>5 DEF shifts, Rotates
<1>7. CASE n > w
  <2>1. PICK k \in Nat : k = n - 1 /\ w <= k /\ k < 32
    BY <1>7
  <2>2. v \div 2^n = 0 /\ v \div 2^k = 0
    BY <1>1, <1>7, <2>1, ZeroAbove
  <2>3. Bit(v, n - 1) = 0
    BY <2>1, <2>2 DEF Bit
  <2>. QED BY <1>4, <1>5, <1>6, <1>7, <2>2, <2>3
<1>8. CASE ~ (n > w)
  BY <1>4, <1>5, <1>6, <1>8
<1>. QED BY <1>7, <1>8

LEMMA ShlForm ==
  ASSUME NEW w \in {8, 16}, NEW v \in Numbers(w), NEW cf \in {0, 1}, NEW n \in Nat, n # 0, n < 32,
         NEW t, t = Times("SHL", v, cf, w, n)
  PROVE  shifts("SHL", v, cf, w, n).r = t.r /\ shifts("SHL", v, cf, w, n).CF = t.CF
<1>1. PICK H \in Nat : Sized(w, H)
  BY Sizes
<1>2. PICK kind \in Kinds : kind = "SHL"
  BY DEF Kinds
<1>3. Repeated(kind, v, w, H, t, n)
  BY <1>1, <1>2, RepeatedTimes
<1>4. t.r = ShlValue(v, n, w) /\ t.CF = ShlCarry(v, n, w)
  BY <1>2, <1>3 DEF Repeated
<1>5. shifts("SHL", v, cf, w, n)
        = [r |-> IF n > w THEN 0 ELSE Wrap(v, w - n) * 2^n, CF |-> ShlCarry(v, n, w)]
  BY DEF shifts, Rotates
<1>. QED BY <1>4, <1>5 DEF ShlValue

(* The low byte of a word, as a signed number, has the same low bits. *)
LowAlike(x, y) == \E j \in Int : y = x + 256 * j

LEMMA LowBits ==
  ASSUME NEW x \in Int, NEW y \in Int, LowAlike(x, y), NEW k \in Nat, k < 8
  PROVE  Bit(y, k) = Bit(x, k)
<1>1. PICK j \in Int : y = x + 256 * j
  BY DEF LowAlike
<1>2. PICK b \in Nat : b = 8
  OBVIOUS
<1>3. PICK P, Q2, N \in Nat : Split(b, k, P, Q2, N)
  BY <1>2, PowersMultiply
<1>4. P = 2^k /\ Q2 = 2^(b - k) /\ N = 256 /\ P # 0 /\ N = P * Q2
  BY <1>2, <1>3 DEF Split
<1>5. PICK l \in Nat : l = b - (k + 1) /\ b - k = l + 1 /\ l < 32
  BY <1>2
<1>6. PICK Q \in Nat : Q = 2^l /\ Q2 = 2 * Q
  BY <1>4, <1>5, Powers DEF Powered
<1>7. PICK q, s : Divides(x, P, q, s)
  BY <1>4, Division
<1>8. q \in Int /\ q = x \div P /\ s \in Nat /\ s < P /\ x = P * q + s
  BY <1>7 DEF Divides
<1>9. PICK m \in Int : m = Q * j
  OBVIOUS
<1>10. 256 * j = P * (2 * m)
  <2>1. 256 * j = (P * (2 * Q)) * j
    BY <1>4, <1>6
  <2>2. (P * (2 * Q)) * j = P * (2 * (Q * j))
    OBVIOUS
  <2>. QED BY <1>9, <2>1, <2>2
<1>11. PICK p \in Int : p = q + 2 * m
  BY <1>8
<1>12. y = P * p + s
  <2>1. P * p = P * q + P * (2 * m)
    <3>1. q \in Int
      BY <1>8
    <3>2. PICK h \in Int : h = 2 * m
      OBVIOUS
    <3>3. P * (q + h) = P * q + P * h
      BY ONLY <3>1, <3>2, P \in Nat
    <3>. QED BY ONLY <1>11, <3>2, <3>3
  <2>2. PICK u, g, e \in Int : u = P * q /\ g = P * (2 * m) /\ e = P * p
    BY <1>8
  <2>3. e = u + g /\ x = u + s /\ y = x + g
    BY <1>1, <1>8, <1>10, <2>1, <2>2
  <2>4. s \in Nat /\ y = e + s
    BY <1>8, <2>3
  <2>. QED BY <2>2, <2>4
<1>13. Composed(y, P, p, s)
  BY <1>8, <1>12 DEF Composed
<1>14. p = y \div P
  BY <1>13, ComposedUnique
<1>15. p % 2 = q % 2
  <2>1. q \in Int
    BY <1>8
  <2>. QED BY ONLY <1>11, <2>1, m \in Int
<1>. QED BY <1>4, <1>8, <1>14, <1>15 DEF Bit

LEMMA SarForm ==
  ASSUME NEW w \in {8, 16}, NEW v \in Numbers(w), NEW cf \in {0, 1}, NEW n \in Nat, n # 0, n < 32,
         NEW t, t = Times("SAR", v, cf, w, n)
  PROVE  /\ shifts("SAR", v, cf, w, n).r = t.r
         /\ shifts("SAR", v, cf, w, n).CF = t.CF \/ (w = 16 /\ n > 8)
<1>1. PICK H \in Nat : Sized(w, H)
  BY Sizes
<1>2. PICK kind \in Kinds : kind = "SAR"
  BY DEF Kinds
<1>3. Repeated(kind, v, w, H, t, n)
  BY <1>1, <1>2, RepeatedTimes
<1>4. t.CF = Bit(Signed(v, w), n - 1)
  BY <1>2, <1>3 DEF Repeated
<1>5. shifts("SAR", v, cf, w, n) = [r |-> t.r, CF |-> Bit(Signed(v % 256, 8), n - 1)]
  BY DEF shifts, Rotates
<1>6. v \in Nat /\ v < 2 * H
  BY <1>1, SizedNumbers
<1>7. CASE w = 8
  <2>1. H = 128
    BY <1>1, <1>7 DEF Sized
  <2>2. v % 256 = v
    BY ONLY <1>6, <2>1
  <2>. QED BY <1>4, <1>5, <1>7, <2>2
<1>8. CASE w = 16 /\ ~ (n > 8)
  <2>1. PICK l, h \in Nat : l = v % 256 /\ h = v \div 256 /\ v = 256 * h + l /\ l < 256
    BY ONLY <1>6
  <2>2. PICK z \in Int : z = Signed(v, w) /\ (z = v \/ z = v - 65536)
    <3>1. H = 32768
      BY <1>1, <1>8 DEF Sized
    <3>2. Signed(v, w) = IF v < H THEN v ELSE v - 2 * H
      BY <1>1, SignedType
    <3>. QED BY ONLY <1>6, <3>1, <3>2
  <2>3. PICK x \in Int : x = Signed(l, 8) /\ (x = l \/ x = l - 256)
    <3>1. PICK b \in {8, 16} : b = 8
      OBVIOUS
    <3>2. PICK G \in Nat : Sized(b, G) /\ G = 128
      BY <3>1, Sizes DEF Sized
    <3>3. l \in Numbers(b)
      BY <2>1, <3>2, SizedNumbers
    <3>4. Signed(l, b) = IF l < G THEN l ELSE l - 2 * G
      BY <3>2, <3>3, SignedType
    <3>. QED BY ONLY <2>1, <3>1, <3>2, <3>4
  <2>4. LowAlike(x, z)
    <3>1. (h \in Int /\ h + 1 \in Int) /\ (h - 256 \in Int /\ h - 255 \in Int)
      BY <2>1
    <3>2. \/ z = x + 256 * h \/ z = x + 256 * (h + 1)
          \/ z = x + 256 * (h - 256) \/ z = x + 256 * (h - 255)
      BY ONLY <2>1, <2>2, <2>3
    <3>3. PICK a, b, c \in Int : a = h + 1 /\ b = h - 256 /\ c = h - 255
      BY ONLY <3>1
    <3>4. z = x + 256 * h \/ z = x + 256 * a \/ z = x + 256 * b \/ z = x + 256 * c
      BY ONLY <3>2, <3>3
    <3>5. h \in Int
      BY ONLY <3>1
    <3>6. \E j \in Int : z = x + 256 * j
      <4>1. CASE z = x + 256 * h
        BY ONLY <3>5, <4>1
      <4>2. CASE z = x + 256 * a
        BY ONLY <3>3, <4>2
      <4>3. CASE z = x + 256 * b
        BY ONLY <3>3, <4>3
      <4>4. CASE z = x + 256 * c
        BY ONLY <3>3, <4>4
      <4>. QED BY ONLY <3>4, <4>1, <4>2, <4>3, <4>4
    <3>. QED BY ONLY <3>6 DEF LowAlike
  <2>5. PICK k \in Nat : k = n - 1 /\ k < 8
    BY <1>8
  <2>6. Bit(z, k) = Bit(x, k)
    BY <2>4, <2>5, LowBits
  <2>. QED BY <1>4, <1>5, <2>1, <2>2, <2>3, <2>5, <2>6
<1>9. CASE w = 16 /\ n > 8
  BY <1>5, <1>9
<1>. QED BY <1>7, <1>8, <1>9

LEMMA TimesNone ==
  ASSUME NEW kind, NEW v, NEW cf, NEW w
  PROVE  Times(kind, v, cf, w, 0) = [r |-> v, CF |-> cf]
<1>1. PICK f : /\ f[0] = [r |-> v, CF |-> cf]
               /\ \A i \in Nat : i < 0 => f[i + 1] = shift1(kind, f[i].r, f[i].CF, w)
               /\ Times(kind, v, cf, w, 0) = f[0]
  BY TimesRepeats
<1>. QED BY <1>1

LEMMA TimesOne ==
  ASSUME NEW kind, NEW v, NEW cf, NEW w
  PROVE  Times(kind, v, cf, w, 1) = shift1(kind, v, cf, w)
<1>1. PICK f : /\ f[0] = [r |-> v, CF |-> cf]
               /\ \A i \in Nat : i < 1 => f[i + 1] = shift1(kind, f[i].r, f[i].CF, w)
               /\ Times(kind, v, cf, w, 1) = f[1]
  BY TimesRepeats
<1>2. f[0 + 1] = shift1(kind, f[0].r, f[0].CF, w)
  BY <1>1
<1>. QED BY <1>1, <1>2

(* The result of a shift is the repeated shift by one, but for the carry   *)
(* of SAR of a word by more than eight.                                    *)
AsRepeated(kind, w, n, s, t) ==
    s.r = t.r /\ (s.CF = t.CF \/ (kind = "SAR" /\ w = 16 /\ n > 8))

LEMMA ResultRepeated ==
  ASSUME NEW kind \in Kinds, NEW w \in {8, 16}, NEW v \in Numbers(w), NEW cf \in {0, 1},
         NEW n \in Nat, n # 0, n < 32
  PROVE  AsRepeated(kind, w, n, ShiftResult(kind, v, cf, w, n), Times(kind, v, cf, w, n))
<1>1. CASE n = 1
  BY <1>1, TimesOne DEF ShiftResult, AsRepeated
<1>2. CASE n # 1
  <2>1. PICK s, t : s = shifts(kind, v, cf, w, n) /\ t = Times(kind, v, cf, w, n)
    OBVIOUS
  <2>2. ShiftResult(kind, v, cf, w, n) = s
    BY <1>2, <2>1 DEF ShiftResult
  <2>3. kind \in Rotates => s = t
    BY <2>1 DEF shifts, Rotates
  <2>4. kind = "SHL" => s.r = t.r /\ s.CF = t.CF
    BY <2>1, ShlForm
  <2>5. kind = "SHR" => s.r = t.r /\ s.CF = t.CF
    BY <2>1, ShrForm
  <2>6. kind = "SAR" => s.r = t.r /\ (s.CF = t.CF \/ (w = 16 /\ n > 8))
    BY <2>1, SarForm
  <2>7. kind \in Rotates \/ kind = "SHL" \/ kind = "SHR" \/ kind = "SAR"
    BY DEF Kinds
  <2>. QED BY ONLY <2>1, <2>2, <2>3, <2>4, <2>5, <2>6, <2>7 DEF AsRepeated
<1>. QED BY <1>1, <1>2

LEMMA ShiftExact ==
  ASSUME IInv, NEW kind \in Kinds, NEW w \in {8, 16}, NEW count \in Counts, Shift(kind, w, count)
  PROVE  ShiftsAreRepeated'
<1>1. PICK v, c, n, r, d : v = Dest(w) /\ c = fl.CF /\ n = count % 32 /\ r = Dest(w)' /\ d = fl'.CF
  OBVIOUS
<1>2. v \in Numbers(w) /\ c \in {0, 1} /\ n \in Nat /\ n < 32
  BY <1>1, Typed, DestType, CarryType, CountBits DEF IInv
<1>3. PICK H \in Nat : Sized(w, H)
  BY Sizes
<1>4. PICK t : t = Times(kind, v, c, w, n)
  OBVIOUS
<1>5. PICK s : s = [r |-> r, CF |-> d]
  OBVIOUS
<1>6. AsRepeated(kind, w, n, s, t)
  <2>1. CASE n = 0
    <3>1. r = v /\ d = c
      BY <1>1, <2>1, ShiftStep
    <3>. QED BY <1>4, <1>5, <2>1, <3>1, TimesNone DEF AsRepeated
  <2>2. CASE n # 0
    <3>1. PICK res : res = ShiftResult(kind, v, c, w, n)
      OBVIOUS
    <3>2. r = res.r /\ d = res.CF
      BY <1>1, <2>2, <3>1, ShiftStep
    <3>3. AsRepeated(kind, w, n, res, t)
      BY <1>2, <1>4, <2>2, <3>1, ResultRepeated
    <3>. QED BY <1>5, <3>2, <3>3 DEF AsRepeated
  <2>. QED BY <2>1, <2>2
<1>7. kind \in Rotates => Rotated(kind, v, c, w, H, s, n)
  <2>1. kind \in Rotates => Rotated(kind, v, c, w, H, t, n)
    BY <1>2, <1>3, <1>4, RotatedTimes
  <2>2. kind \in Rotates => s.r = t.r /\ s.CF = t.CF
    BY <1>6 DEF AsRepeated, Rotates
  <2>. QED BY <2>1, <2>2 DEF Rotated
<1>8. /\ last'.op = kind /\ last'.w = w /\ last'.y % 32 = n
      /\ last'.x = v /\ last'.CF = c
  BY <1>1, ShiftStep
<1>9. Result' = r
  BY <1>1, <1>8 DEF Result, Dest
<1>10. PICK N : N = 2^w
  OBVIOUS
<1>11. c * N + v = Long(c, v, H) /\ d * N + r = Long(s.CF, s.r, H)
  BY <1>3, <1>5, <1>10 DEF Long, Sized
<1>12. /\ kind = "ROL" => r = RotatedLeft(v, n, w)
       /\ kind = "ROR" => v = RotatedLeft(r, n, w)
       /\ kind = "RCL" => d * N + r = RotatedLeft(c * N + v, n, w + 1)
       /\ kind = "RCR" => c * N + v = RotatedLeft(d * N + r, n, w + 1)
  BY <1>5, <1>7, <1>11 DEF Rotated, Rotates
<1>13. r = t.r /\ (d = t.CF \/ (kind = "SAR" /\ w = 16 /\ n > 8))
  BY <1>5, <1>6 DEF AsRepeated
<1>. QED BY ONLY <1>1, <1>4, <1>8, <1>9, <1>10, <1>12, <1>13 DEF ShiftsAreRepeated

--------------------------------------------------------------------------------
(* Every step keeps the invariant, and leaves what the properties say.     *)
Exact == DecimalExact /\ ShiftsAreRepeated /\ ProductsExact

Arithmetic == {"ADD", "ADC", "SUB", "SBB", "CMP", "INC", "DEC", "NEG"}

(* Properties about other instructions. *)
LEMMA NoDecimal ==
  ASSUME last'.op \notin {"DAA", "DAS", "AAA", "AAS"}
  PROVE  DecimalExact'
BY DEF DecimalExact

LEMMA NoShift == ASSUME last'.op \notin Kinds PROVE ShiftsAreRepeated'
BY DEF ShiftsAreRepeated, Kinds

LEMMA NoProduct ==
  ASSUME last'.op \notin {"MUL", "IMUL", "DIV", "TrapDIV", "IDIV", "TrapIDIV", "AAM", "AAD"}
  PROVE  ProductsExact'
BY DEF ProductsExact

LEMMA InvStep ==
  ASSUME IInv, Next
  PROVE  IInv' /\ Exact'
<1>1. ASSUME NEW v \in Moved, MovAX(v) PROVE IInv' /\ Exact'
  <2>1. IInv' /\ last'.op = "MOV"
    BY <1>1, MovStep
  <2>. QED BY <2>1, NoDecimal, NoShift, NoProduct DEF Exact, Kinds, Rotates
<1>2. ASSUME last'.op \in Arithmetic PROVE Exact'
  BY <1>2, NoDecimal, NoShift, NoProduct DEF Exact, Kinds, Rotates, Arithmetic
<1>3. ASSUME NEW w \in {8, 16}, NEW y \in Operands(w), NEW op \in {"ADD", "ADC"}, Add(y, w, op)
      PROVE  IInv' /\ Exact'
  <2>1. last'.op \in Arithmetic
    BY <1>3, DidKeeps DEF Add, Arithmetic
  <2>2. IInv'
    BY <1>3, AddStep
  <2>. QED BY <1>2, <2>1, <2>2
<1>4. ASSUME NEW w \in {8, 16}, NEW y \in Operands(w), NEW op \in {"SUB", "SBB", "CMP"}, Sub(y, w, op)
      PROVE  IInv' /\ Exact'
  <2>1. last'.op \in Arithmetic
    BY <1>4, DidKeeps DEF Sub, Arithmetic
  <2>2. IInv'
    BY <1>4, SubStep
  <2>. QED BY <1>2, <2>1, <2>2
<1>5. ASSUME NEW w \in {8, 16}, Inc(w) \/ Dec(w) \/ Neg(w)
      PROVE  IInv' /\ Exact'
  <2>1. last'.op \in Arithmetic
    BY <1>5, DidKeeps DEF Inc, Dec, Neg, Arithmetic
  <2>2. IInv'
    BY <1>5, IncStep, DecStep, NegStep
  <2>. QED BY <1>2, <2>1, <2>2
<1>6. ASSUME i_daa \/ i_das \/ i_aaa \/ i_aas
      PROVE  IInv' /\ Exact'
  <2>1. last'.op \in {"DAA", "DAS", "AAA", "AAS"}
    BY <1>6 DEF i_daa, i_das, i_aaa, i_aas, Adjusting
  <2>2. IInv' /\ DecimalExact'
    BY <1>6, DaaStep, DasStep, AaaStep, AasStep
  <2>. QED BY <2>1, <2>2, NoShift, NoProduct DEF Exact, Kinds, Rotates
<1>7. ASSUME NEW kind \in Rotates \cup {"SHL", "SHR", "SAR"}, NEW w \in {8, 16}, NEW n \in Counts,
             Shift(kind, w, n)
      PROVE  IInv' /\ Exact'
  <2>1. kind \in Kinds
    BY DEF Kinds
  <2>2. IInv' /\ ShiftsAreRepeated' /\ last'.op = kind
    BY <1>7, <2>1, ShiftStep, ShiftExact
  <2>. QED BY <2>1, <2>2, NoDecimal, NoProduct DEF Exact, Kinds, Rotates
<1>8. ASSUME NEW y \in ByteOperands, Mul(y) \/ Imul(y) \/ Div(y) \/ Idiv(y)
      PROVE  IInv' /\ Exact'
  <2>1. last'.op \in {"MUL", "IMUL", "DIV", "TrapDIV", "IDIV", "TrapIDIV"}
    BY <1>8, DidKeeps DEF Mul, Imul, Div, Idiv
  <2>2. IInv' /\ ProductsExact'
    BY <1>8, MulStep, ImulStep, DivStep, IdivStep
  <2>. QED BY <2>1, <2>2, NoDecimal, NoShift DEF Exact, Kinds, Rotates
<1>9. ASSUME NEW m \in ByteOperands, i_aam(m) \/ i_aad(m)
      PROVE  IInv' /\ Exact'
  <2>1. last'.op \in {"TrapAAM", "AAM", "AAD", "AAD0"}
    <3>1. CASE i_aam(m)
      BY <3>1, DidKeeps DEF i_aam
    <3>2. CASE i_aad(m)
      BY <3>2, DidKeeps DEF i_aad
    <3>. QED BY <1>9, <3>1, <3>2
  <2>2. IInv' /\ ProductsExact'
    BY <1>9, AamStep, AadStep
  <2>. QED BY <2>1, <2>2, NoDecimal, NoShift DEF Exact, Kinds, Rotates
<1>. QED BY <1>1, <1>3, <1>4, <1>5, <1>6, <1>7, <1>8, <1>9 DEF Next

(* The first state, where nothing has been done yet. *)
LEMMA InitExact == Init => Exact
BY DEF Init, Exact, DecimalExact, ShiftsAreRepeated, ProductsExact, Rotates

LEMMA Inductive == Spec => [](IInv /\ Exact)
<1>1. Init => IInv /\ Exact
  BY InitInv, InitExact
<1>2. IInv /\ Exact /\ [Next]_vars => (IInv /\ Exact)'
  <2>1. SUFFICES ASSUME IInv, Exact, [Next]_vars PROVE (IInv /\ Exact)'
    OBVIOUS
  <2>2. CASE Next
    BY <2>1, <2>2, InvStep
  <2>3. CASE UNCHANGED vars
    <3>1. IInv'
      BY <2>1, <2>3
         DEF vars, IInv, TypeOK, LastOK, Kept, Digits, SumsExact, Result, FlagsTell, Dest
    <3>2. DecimalExact'
      BY <2>1, <2>3 DEF vars, Exact, DecimalExact, DaaExact, Dest
    <3>3. ShiftsAreRepeated'
      BY <2>1, <2>3 DEF vars, Exact, ShiftsAreRepeated, Result, Dest
    <3>4. ProductsExact'
      <4>1. ax' = ax /\ fl' = fl /\ last' = last /\ ProductsExact
        BY <2>1, <2>3 DEF vars, Exact
      <4>2. Dest(8)' = Dest(8)
        BY <4>1 DEF Dest
      <4>. QED BY ONLY <4>1, <4>2 DEF ProductsExact
    <3>. QED BY <3>1, <3>2, <3>3, <3>4 DEF Exact
  <2>. QED BY <2>1, <2>2, <2>3
<1>. QED BY <1>1, <1>2, PTL DEF Spec

(* AX stays a word, and each flag a bit. *)
THEOREM TypeInvariant == Spec => []TypeOK
<1>1. IInv => TypeOK
  BY DEF IInv
<1>. QED BY <1>1, Inductive, PTL

(* Sums and differences of bytes and words, with and without a carry, are  *)
(* exact, and the flags say what they mean (cpu.c:455-551, INC and DEC at  *)
(* 149-171, NEG at 2045-2054).                                             *)
THEOREM Sums == Spec => []SumsExact
<1>1. IInv => SumsExact
  BY DEF IInv
<1>. QED BY <1>1, Inductive, PTL

(* An adjusted sum or difference of decimal digits is the decimal one,     *)
(* with its carry (cpu.c:695-786; for DAA, where no carry is lost).        *)
THEOREM Decimals == Spec => []DecimalExact
<1>1. Exact => DecimalExact
  BY DEF Exact
<1>. QED BY <1>1, Inductive, PTL

(* Shifting by a count is shifting by one again and again, and rotating    *)
(* moves the bits in a circle (cpu.c:1323-1631).                           *)
THEOREM Shifts == Spec => []ShiftsAreRepeated
<1>1. Exact => ShiftsAreRepeated
  BY DEF Exact
<1>. QED BY <1>1, Inductive, PTL

(* Products and quotients are exact, signed ones too, and what does not    *)
(* fit is trapped (cpu.c:1980-2021, AAM and AAD at 1695-1726).             *)
THEOREM Products == Spec => []ProductsExact
<1>1. Exact => ProductsExact
  BY DEF Exact
<1>. QED BY <1>1, Inductive, PTL
================================================================================
