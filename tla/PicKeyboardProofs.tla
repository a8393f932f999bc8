---------------------------- MODULE PicKeyboardProofs ----------------------------
(***************************************************************************)
(* Pic: the types, that no request is lost and that no masked line is      *)
(* served, for any lines, masks and nesting; and, for programs of the      *)
(* discipline that Disciplined states, that the ISRs are what the handlers *)
(* still have to acknowledge, and that handlers nest by priority.          *)
(*                                                                         *)
(* Keyboard, from these: no key is lost or handed out twice, and a key     *)
(* whose interrupt was served is in the BIOS buffer, for any number and    *)
(* kinds of keys, any buffer and any nesting of handlers.                  *)
(***************************************************************************)
EXTENDS Keyboard, NumberLemmas, SequenceTheorems

--------------------------------------------------------------------------------
(* What the handlers of fr still owe chip c, the innermost first, is isr,  *)
(* and each is of higher priority than those it interrupted.               *)
Owes(c, fr, i) == i \in 1 .. Len(fr) /\ c \in fr[i].due

Matched(c, isr, fr) ==
    /\ isr \subseteq Levels
    /\ \A h \in Levels : h \in isr <=> \E i \in 1 .. Len(fr) : Owes(c, fr, i) /\ h = LevelOn(c, fr[i].irq)
    /\ \A i, j \in 1 .. Len(fr) :
          i < j /\ Owes(c, fr, i) /\ Owes(c, fr, j) => LevelOn(c, fr[i].irq) < LevelOn(c, fr[j].irq)

(* g is fr with the handler f started.                                     *)
IsPushed(fr, f, g) ==
    /\ f \in Frame
    /\ fr \in Seq(Frame)
    /\ g \in Seq(Frame)
    /\ Len(g) = Len(fr) + 1
    /\ g[1] = f
    /\ \A i \in 1 .. Len(fr) : g[i + 1] = fr[i]

(* g is fr after the innermost handler returned.                           *)
IsPopped(fr, g) ==
    /\ fr \in Seq(Frame)
    /\ g \in Seq(Frame)
    /\ Len(fr) # 0
    /\ Len(g) = Len(fr) - 1
    /\ fr[1].due = {}
    /\ \A i \in 1 .. Len(g) : g[i] = fr[i + 1]

(* g is fr after the innermost handler acknowledged to chips, and d is due. *)
IsAcked(fr, d, g) ==
    /\ fr \in Seq(Frame)
    /\ g \in Seq(Frame)
    /\ Len(fr) # 0
    /\ Len(g) = Len(fr)
    /\ d \subseteq fr[1].due
    /\ g[1].irq = fr[1].irq
    /\ g[1].due = d
    /\ \A i \in 2 .. Len(fr) : g[i] = fr[i]

(* The level of a line on a chip. *)
LEMMA LevelType ==
  ASSUME NEW c \in Chips, NEW irq \in 0 .. 15
  PROVE  /\ LevelOn(c, irq) \in Levels
         /\ LevelOf(irq) \in Levels
         /\ ChipOf(irq) \in Chips
         /\ irq \in Levels => LevelOf(irq) = irq /\ ChipOf(irq) = 0
         /\ irq \notin Levels => ChipOf(irq) = 1 /\ irq = 8 + LevelOf(irq)
BY DEF LevelOn, LevelOf, ChipOf, Chips, Levels, CASCADED

(* The fields of a handler. *)
LEMMA FrameFields ==
  ASSUME NEW fr \in Seq(Frame), NEW i \in 1 .. Len(fr)
  PROVE  fr[i] \in Frame /\ fr[i].irq \in 0 .. 15 /\ fr[i].due \subseteq Chips
<1>1. fr[i] \in Frame
  BY ElementOfSeq
<1>2. QED
  BY <1>1 DEF Frame

(* Starting a handler. *)
LEMMA Pushed ==
  ASSUME NEW fr \in Seq(Frame), NEW f \in Frame
  PROVE  IsPushed(fr, f, <<f>> \o fr)
<1>1. <<f>> \in Seq(Frame) /\ Len(<<f>>) = 1 /\ <<f>>[1] = f
  OBVIOUS
<1>2. Len(fr) \in Nat
  BY LenProperties
<1>3. PICK one : one = <<f>>
  OBVIOUS
<1>4. /\ one \o fr \in Seq(Frame)
      /\ Len(one \o fr) = Len(one) + Len(fr)
      /\ \A i \in 1 .. Len(one) + Len(fr) :
            (one \o fr)[i] = IF i <= Len(one) THEN one[i] ELSE fr[i - Len(one)]
  BY <1>1, <1>3, ConcatProperties
<1>5. Len(one) = 1 /\ one[1] = f
  BY <1>1, <1>3
<1>6. PICK g : g = one \o fr
  OBVIOUS
<1>7. /\ g \in Seq(Frame)
      /\ Len(g) = 1 + Len(fr)
      /\ \A i \in 1 .. 1 + Len(fr) : g[i] = IF i <= 1 THEN one[i] ELSE fr[i - 1]
  BY <1>4, <1>5, <1>6
<1>8. g[1] = f
  BY <1>2, <1>5, <1>7
<1>9. ASSUME NEW i \in 1 .. Len(fr) PROVE g[i + 1] = fr[i]
  <2>1. i + 1 \in 1 .. 1 + Len(fr) /\ ~ (i + 1 <= 1) /\ (i + 1) - 1 = i
    BY <1>2
  <2>2. QED
    BY <1>7, <2>1
<1>10. QED
  BY <1>2, <1>3, <1>6, <1>7, <1>8, <1>9 DEF IsPushed

(* The return of a handler. *)
LEMMA Popped ==
  ASSUME NEW fr \in Seq(Frame), fr # <<>>, Head(fr).due = {}
  PROVE  IsPopped(fr, Tail(fr))
<1>1. Len(fr) \in Nat \ {0}
  BY EmptySeq
<1>2. fr[1] = Head(fr)
  BY <1>1
<1>3. /\ Tail(fr) \in Seq(Frame)
      /\ Len(Tail(fr)) = Len(fr) - 1
      /\ \A i \in 1 .. Len(Tail(fr)) : Tail(fr)[i] = fr[i + 1]
  BY HeadTailProperties
<1>4. QED
  BY <1>1, <1>2, <1>3 DEF IsPopped

(* The innermost handler acknowledges its interrupt. *)
LEMMA Acknowledged ==
  ASSUME NEW fr \in Seq(Frame), fr # <<>>, NEW d, d \subseteq Head(fr).due
  PROVE  IsAcked(fr, d, [fr EXCEPT ![1].due = d])
<1>1. Len(fr) \in Nat \ {0}
  BY EmptySeq
<1>2. fr[1] = Head(fr) /\ 1 \in 1 .. Len(fr)
  BY <1>1
<1>3. fr[1] \in Frame /\ fr[1].irq \in 0 .. 15 /\ fr[1].due \subseteq Chips
  BY <1>2, FrameFields
<1>4. PICK e : e = [fr[1] EXCEPT !.due = d]
  OBVIOUS
<1>5. e = [irq |-> fr[1].irq, due |-> d]
  BY <1>3, <1>4 DEF Frame
<1>6. e \in Frame /\ e.irq = fr[1].irq /\ e.due = d
  BY <1>2, <1>3, <1>5 DEF Frame
<1>7. [fr EXCEPT ![1].due = d] = [fr EXCEPT ![1] = e]
  BY <1>4
<1>8. /\ [fr EXCEPT ![1] = e] \in Seq(Frame)
      /\ Len([fr EXCEPT ![1] = e]) = Len(fr)
      /\ \A j \in 1 .. Len(fr) : [fr EXCEPT ![1] = e][j] = IF j = 1 THEN e ELSE fr[j]
  BY <1>2, <1>6, ExceptSeq
<1>9. QED
  BY <1>1, <1>2, <1>6, <1>7, <1>8 DEF IsAcked

(* A handler that owes chip c nothing starts. *)
LEMMA MatchedPushedElsewhere ==
  ASSUME NEW c \in Chips, NEW isr, NEW fr, NEW f, NEW g,
         IsPushed(fr, f, g), c \notin f.due, Matched(c, isr, fr)
  PROVE  Matched(c, isr, g)
<1>1. Len(fr) \in Nat /\ Len(g) = Len(fr) + 1
  BY LenProperties DEF IsPushed
<1>2. ASSUME NEW i \in 1 .. Len(g), Owes(c, g, i)
      PROVE  i - 1 \in 1 .. Len(fr) /\ Owes(c, fr, i - 1) /\ g[i] = fr[i - 1]
  <2>1. i # 1
    BY <1>2 DEF IsPushed, Owes
  <2>2. i - 1 \in 1 .. Len(fr) /\ (i - 1) + 1 = i
    BY <1>1, <2>1
  <2>3. g[i] = fr[i - 1]
    BY <2>2 DEF IsPushed
  <2>4. QED
    BY <1>2, <2>2, <2>3 DEF Owes
<1>3. ASSUME NEW i \in 1 .. Len(fr), Owes(c, fr, i)
      PROVE  i + 1 \in 1 .. Len(g) /\ Owes(c, g, i + 1) /\ g[i + 1] = fr[i]
  <2>1. i + 1 \in 1 .. Len(g)
    BY <1>1
  <2>2. g[i + 1] = fr[i]
    BY DEF IsPushed
  <2>3. QED
    BY <1>3, <2>1, <2>2 DEF Owes
<1>4. ASSUME NEW h \in Levels
      PROVE  h \in isr <=> \E i \in 1 .. Len(g) : Owes(c, g, i) /\ h = LevelOn(c, g[i].irq)
  <2>1. h \in isr <=> \E i \in 1 .. Len(fr) : Owes(c, fr, i) /\ h = LevelOn(c, fr[i].irq)
    BY DEF Matched
  <2>2. QED
    BY <1>2, <1>3, <2>1
<1>5. ASSUME NEW i \in 1 .. Len(g), NEW j \in 1 .. Len(g), i < j, Owes(c, g, i), Owes(c, g, j)
      PROVE  LevelOn(c, g[i].irq) < LevelOn(c, g[j].irq)
  <2>1. i - 1 \in 1 .. Len(fr) /\ Owes(c, fr, i - 1) /\ g[i] = fr[i - 1]
    BY <1>2, <1>5
  <2>2. j - 1 \in 1 .. Len(fr) /\ Owes(c, fr, j - 1) /\ g[j] = fr[j - 1]
    BY <1>2, <1>5
  <2>3. i - 1 < j - 1
    BY <1>5
  <2>4. PICK a \in 1 .. Len(fr), b \in 1 .. Len(fr) : a = i - 1 /\ b = j - 1
    BY <2>1, <2>2
  <2>5. LevelOn(c, fr[a].irq) < LevelOn(c, fr[b].irq)
    BY <2>1, <2>2, <2>3, <2>4 DEF Matched
  <2>6. QED
    BY <2>1, <2>2, <2>4, <2>5
<1>6. QED
  BY <1>4, <1>5 DEF Matched

(* A handler starts for a level above all that are in service. *)
LEMMA MatchedPushed ==
  ASSUME NEW c \in Chips, NEW isr, NEW fr, NEW f, NEW g, NEW l,
         IsPushed(fr, f, g), c \in f.due, l = LevelOn(c, f.irq),
         \A h \in isr : l < h, Matched(c, isr, fr)
  PROVE  Matched(c, isr \cup {l}, g)
<1>1. Len(fr) \in Nat /\ Len(g) = Len(fr) + 1
  BY LenProperties DEF IsPushed
<1>2. f.irq \in 0 .. 15 /\ l \in Levels
  BY LevelType DEF IsPushed, Frame
<1>3. ASSUME NEW i \in 1 .. Len(g), i # 1
      PROVE  i - 1 \in 1 .. Len(fr) /\ g[i] = fr[i - 1] /\ (Owes(c, g, i) <=> Owes(c, fr, i - 1))
  <2>1. i - 1 \in 1 .. Len(fr) /\ (i - 1) + 1 = i
    BY <1>1, <1>3
  <2>2. g[i] = fr[i - 1]
    BY <2>1 DEF IsPushed
  <2>3. QED
    BY <2>1, <2>2 DEF Owes
<1>4. ASSUME NEW i \in 1 .. Len(fr)
      PROVE  i + 1 \in 1 .. Len(g) /\ g[i + 1] = fr[i] /\ (Owes(c, fr, i) <=> Owes(c, g, i + 1))
  <2>1. i + 1 \in 1 .. Len(g)
    BY <1>1
  <2>2. g[i + 1] = fr[i]
    BY DEF IsPushed
  <2>3. QED
    BY <2>1, <2>2 DEF Owes
<1>5. 1 \in 1 .. Len(g) /\ Owes(c, g, 1) /\ l = LevelOn(c, g[1].irq)
  BY <1>1 DEF Owes, IsPushed
<1>6. ASSUME NEW i \in 1 .. Len(fr), Owes(c, fr, i)
      PROVE  LevelOn(c, fr[i].irq) \in isr
  <2>1. fr[i].irq \in 0 .. 15
    BY FrameFields DEF IsPushed
  <2>2. LevelOn(c, fr[i].irq) \in Levels
    BY <2>1, LevelType
  <2>3. QED
    BY <1>6, <2>2 DEF Matched
<1>7. ASSUME NEW h \in Levels
      PROVE  h \in isr \cup {l} <=> \E i \in 1 .. Len(g) : Owes(c, g, i) /\ h = LevelOn(c, g[i].irq)
  <2>1. h \in isr <=> \E i \in 1 .. Len(fr) : Owes(c, fr, i) /\ h = LevelOn(c, fr[i].irq)
    BY DEF Matched
  <2>2. ASSUME h \in isr
        PROVE  \E i \in 1 .. Len(g) : Owes(c, g, i) /\ h = LevelOn(c, g[i].irq)
    BY <1>4, <2>1, <2>2
  <2>3. ASSUME NEW i \in 1 .. Len(g), Owes(c, g, i), h = LevelOn(c, g[i].irq)
        PROVE  h \in isr \cup {l}
    <3>1. CASE i = 1
      BY <1>5, <2>3, <3>1
    <3>2. CASE i # 1
      BY <1>3, <2>1, <2>3, <3>2
    <3>3. QED
      BY <3>1, <3>2
  <2>4. QED
    BY <1>5, <2>2, <2>3
<1>8. ASSUME NEW i \in 1 .. Len(g), NEW j \in 1 .. Len(g), i < j, Owes(c, g, i), Owes(c, g, j)
      PROVE  LevelOn(c, g[i].irq) < LevelOn(c, g[j].irq)
  <2>1. j # 1
    BY <1>8
  <2>2. j - 1 \in 1 .. Len(fr) /\ Owes(c, fr, j - 1) /\ g[j] = fr[j - 1]
    BY <1>3, <1>8, <2>1
  <2>3. CASE i = 1
    BY <1>5, <1>6, <2>2, <2>3
  <2>4. CASE i # 1
    <3>1. i - 1 \in 1 .. Len(fr) /\ Owes(c, fr, i - 1) /\ g[i] = fr[i - 1]
      BY <1>3, <1>8, <2>4
    <3>2. PICK a \in 1 .. Len(fr), b \in 1 .. Len(fr) : a = i - 1 /\ b = j - 1 /\ a < b
      BY <1>8, <2>2, <3>1
    <3>3. LevelOn(c, fr[a].irq) < LevelOn(c, fr[b].irq)
      BY <2>2, <3>1, <3>2 DEF Matched
    <3>4. QED
      BY <2>2, <3>1, <3>2, <3>3
  <2>5. QED
    BY <2>3, <2>4
<1>9. isr \cup {l} \subseteq Levels
  BY <1>2 DEF Matched
<1>10. QED
  BY <1>7, <1>8, <1>9 DEF Matched

(* A handler returns that owes nothing. *)
LEMMA MatchedPopped ==
  ASSUME NEW c \in Chips, NEW isr, NEW fr, NEW g, IsPopped(fr, g), Matched(c, isr, fr)
  PROVE  Matched(c, isr, g)
<1>1. Len(fr) \in Nat /\ Len(g) \in Nat /\ Len(g) = Len(fr) - 1
  BY LenProperties DEF IsPopped
<1>2. ASSUME NEW i \in 1 .. Len(g)
      PROVE  i + 1 \in 1 .. Len(fr) /\ g[i] = fr[i + 1] /\ (Owes(c, g, i) <=> Owes(c, fr, i + 1))
  <2>1. i + 1 \in 1 .. Len(fr)
    BY <1>1
  <2>2. g[i] = fr[i + 1]
    BY DEF IsPopped
  <2>3. QED
    BY <2>1, <2>2 DEF Owes
<1>3. ASSUME NEW i \in 1 .. Len(fr), Owes(c, fr, i)
      PROVE  i - 1 \in 1 .. Len(g) /\ g[i - 1] = fr[i] /\ Owes(c, g, i - 1)
  <2>1. i # 1
    BY <1>3 DEF IsPopped, Owes
  <2>2. i - 1 \in 1 .. Len(g) /\ (i - 1) + 1 = i
    BY <1>1, <2>1
  <2>3. QED
    BY <1>2, <1>3, <2>2
<1>4. ASSUME NEW h \in Levels
      PROVE  h \in isr <=> \E i \in 1 .. Len(g) : Owes(c, g, i) /\ h = LevelOn(c, g[i].irq)
  <2>1. h \in isr <=> \E i \in 1 .. Len(fr) : Owes(c, fr, i) /\ h = LevelOn(c, fr[i].irq)
    BY DEF Matched
  <2>2. QED
    BY <1>2, <1>3, <2>1
<1>5. ASSUME NEW i \in 1 .. Len(g), NEW j \in 1 .. Len(g), i < j, Owes(c, g, i), Owes(c, g, j)
      PROVE  LevelOn(c, g[i].irq) < LevelOn(c, g[j].irq)
  <2>1. PICK a \in 1 .. Len(fr), b \in 1 .. Len(fr) : a = i + 1 /\ b = j + 1 /\ a < b
    BY <1>2, <1>5
  <2>2. LevelOn(c, fr[a].irq) < LevelOn(c, fr[b].irq)
    BY <1>2, <1>5, <2>1 DEF Matched
  <2>3. QED
    BY <1>2, <2>1, <2>2
<1>6. QED
  BY <1>4, <1>5 DEF Matched

(* The innermost handler acknowledges to another chip, or owes c nothing. *)
LEMMA MatchedAckedElsewhere ==
  ASSUME NEW c \in Chips, NEW isr, NEW fr, NEW d, NEW g,
         IsAcked(fr, d, g), c \in d <=> c \in fr[1].due, Matched(c, isr, fr)
  PROVE  Matched(c, isr, g)
<1>1. Len(g) = Len(fr)
  BY DEF IsAcked
<1>2. ASSUME NEW i \in 1 .. Len(fr)
      PROVE  g[i].irq = fr[i].irq /\ (Owes(c, g, i) <=> Owes(c, fr, i))
  <2>1. i = 1 \/ i \in 2 .. Len(fr)
    OBVIOUS
  <2>2. QED
    BY <1>1, <2>1 DEF IsAcked, Owes
<1>3. QED
  BY <1>1, <1>2 DEF Matched

(* The innermost handler acknowledges to chip c: its level is the highest  *)
(* in service, so that an EOI that names no line ends just that level.     *)
LEMMA MatchedAcked ==
  ASSUME NEW c \in Chips, NEW isr, NEW fr, NEW d, NEW g, NEW l,
         IsAcked(fr, d, g), c \notin d, c \in fr[1].due, l = LevelOn(c, fr[1].irq),
         Matched(c, isr, fr)
  PROVE  /\ l \in isr
         /\ \A h \in isr : l <= h
         /\ Matched(c, isr \ {l}, g)
<1>1. Len(g) = Len(fr) /\ Len(fr) \in Nat /\ Len(fr) # 0 /\ 1 \in 1 .. Len(fr)
  BY LenProperties DEF IsAcked
<1>2. fr[1].irq \in 0 .. 15
  BY <1>1, FrameFields DEF IsAcked
<1>3. l \in Levels
  BY <1>2, LevelType
<1>4. Owes(c, fr, 1)
  BY <1>1 DEF Owes
<1>5. l \in isr
  BY <1>1, <1>3, <1>4 DEF Matched
<1>6. ASSUME NEW i \in 1 .. Len(fr), i # 1
      PROVE  g[i] = fr[i] /\ (Owes(c, g, i) <=> Owes(c, fr, i))
  <2>1. i \in 2 .. Len(fr)
    BY <1>6
  <2>2. g[i] = fr[i]
    BY <2>1 DEF IsAcked
  <2>3. QED
    BY <1>1, <2>2 DEF Owes
<1>7. ~ Owes(c, g, 1)
  BY DEF Owes, IsAcked
<1>8. ASSUME NEW i \in 1 .. Len(fr), i # 1, Owes(c, fr, i)
      PROVE  l < LevelOn(c, fr[i].irq)
  <2>1. 1 < i
    BY <1>8
  <2>2. QED
    BY <1>1, <1>4, <1>8, <2>1 DEF Matched
<1>9. ASSUME NEW h \in isr PROVE l <= h
  <2>1. h \in Levels
    BY DEF Matched
  <2>2. PICK i \in 1 .. Len(fr) : Owes(c, fr, i) /\ h = LevelOn(c, fr[i].irq)
    BY <2>1 DEF Matched
  <2>3. CASE i = 1
    BY <1>3, <2>2, <2>3 DEF Levels
  <2>4. CASE i # 1
    BY <1>3, <1>8, <2>1, <2>2, <2>4 DEF Levels
  <2>5. QED
    BY <2>3, <2>4
<1>10. ASSUME NEW h \in Levels
       PROVE  h \in isr \ {l} <=> \E i \in 1 .. Len(g) : Owes(c, g, i) /\ h = LevelOn(c, g[i].irq)
  <2>1. h \in isr <=> \E i \in 1 .. Len(fr) : Owes(c, fr, i) /\ h = LevelOn(c, fr[i].irq)
    BY DEF Matched
  <2>2. ASSUME h \in isr \ {l}
        PROVE  \E i \in 1 .. Len(g) : Owes(c, g, i) /\ h = LevelOn(c, g[i].irq)
    <3>1. PICK i \in 1 .. Len(fr) : Owes(c, fr, i) /\ h = LevelOn(c, fr[i].irq)
      BY <2>1, <2>2
    <3>2. i # 1
      BY <2>2, <3>1
    <3>3. QED
      BY <1>1, <1>6, <3>1, <3>2
  <2>3. ASSUME NEW i \in 1 .. Len(g), Owes(c, g, i), h = LevelOn(c, g[i].irq)
        PROVE  h \in isr \ {l}
    <3>1. i # 1 /\ i \in 1 .. Len(fr)
      BY <1>1, <1>7, <2>3
    <3>2. Owes(c, fr, i) /\ h = LevelOn(c, fr[i].irq)
      BY <1>6, <2>3, <3>1
    <3>3. l < h
      BY <1>8, <3>1, <3>2
    <3>4. QED
      BY <1>3, <2>1, <3>1, <3>2, <3>3 DEF Levels
  <2>4. QED
    BY <2>2, <2>3
<1>11. ASSUME NEW i \in 1 .. Len(g), NEW j \in 1 .. Len(g), i < j, Owes(c, g, i), Owes(c, g, j)
       PROVE  LevelOn(c, g[i].irq) < LevelOn(c, g[j].irq)
  <2>1. i # 1 /\ j # 1 /\ i \in 1 .. Len(fr) /\ j \in 1 .. Len(fr)
    BY <1>1, <1>7, <1>11
  <2>2. g[i] = fr[i] /\ g[j] = fr[j] /\ Owes(c, fr, i) /\ Owes(c, fr, j)
    BY <1>6, <1>11, <2>1
  <2>3. QED
    BY <1>11, <2>1, <2>2 DEF Matched
<1>12. isr \ {l} \subseteq Levels
  BY DEF Matched
<1>13. QED
  BY <1>5, <1>9, <1>10, <1>11, <1>12 DEF Matched

--------------------------------------------------------------------------------
(* One chip changes, to x.                                                 *)
IsUpdated(p, c, x, q) ==
    /\ q \in [Chips -> Chip]
    /\ q[c] = x
    /\ \A d \in Chips \ {c} : q[d] = p[d]

(* What the writes of initialisation, mask and special mask mode set.      *)
SameModes(a, x) ==
    /\ x.initializing = a.initializing
    /\ x.auto_eoi = a.auto_eoi
    /\ x.special_nest = a.special_nest
    /\ x.special_mask = a.special_mask
    /\ x.IMR = a.IMR

(* A chip field by field. *)
LEMMA ChipFields ==
  ASSUME NEW a \in Chip
  PROVE  /\ a = [initializing |-> a.initializing, auto_eoi |-> a.auto_eoi,
                 special_nest |-> a.special_nest, special_mask |-> a.special_mask,
                 IMR |-> a.IMR, IRR |-> a.IRR, ISR |-> a.ISR, pending |-> a.pending]
         /\ a.initializing \in 0 .. 3
         /\ a.auto_eoi \in BOOLEAN
         /\ a.special_nest \in BOOLEAN
         /\ a.special_mask \in BOOLEAN
         /\ a.IMR \subseteq Levels
         /\ a.IRR \subseteq Levels
         /\ a.ISR \subseteq Levels
         /\ a.pending \subseteq Levels
BY DEF Chip

(* x is the chip a with other requests, levels in service, and held back.  *)
SetsLines(a, r, s, w, x) ==
    /\ a \in Chip
    /\ r \subseteq Levels /\ s \subseteq Levels /\ w \subseteq Levels
    /\ x = [a EXCEPT !.IRR = r, !.ISR = s, !.pending = w]

(* Requests and levels in service change. *)
LEMMA ChipServes ==
  ASSUME NEW a, NEW r, NEW s, NEW w, NEW x, SetsLines(a, r, s, w, x)
  PROVE  x \in Chip /\ SameModes(a, x) /\ x.IRR = r /\ x.ISR = s /\ x.pending = w
<1>1. x = [initializing |-> a.initializing, auto_eoi |-> a.auto_eoi,
           special_nest |-> a.special_nest, special_mask |-> a.special_mask,
           IMR |-> a.IMR, IRR |-> r, ISR |-> s, pending |-> w]
  <2>1. a = [initializing |-> a.initializing, auto_eoi |-> a.auto_eoi,
             special_nest |-> a.special_nest, special_mask |-> a.special_mask,
             IMR |-> a.IMR, IRR |-> a.IRR, ISR |-> a.ISR, pending |-> a.pending]
    BY ChipFields DEF SetsLines
  <2>2. QED
    BY <2>1 DEF SetsLines
<1>2. /\ a.initializing \in 0 .. 3
      /\ a.auto_eoi \in BOOLEAN
      /\ a.special_nest \in BOOLEAN
      /\ a.special_mask \in BOOLEAN
      /\ a.IMR \subseteq Levels
  BY ChipFields DEF SetsLines
<1>3. r \subseteq Levels /\ s \subseteq Levels /\ w \subseteq Levels
  BY DEF SetsLines
<1>4. x \in Chip
  BY ONLY <1>1, <1>2, <1>3 DEF Chip
<1>5. /\ x.initializing = a.initializing
      /\ x.auto_eoi = a.auto_eoi
      /\ x.special_nest = a.special_nest
      /\ x.special_mask = a.special_mask
      /\ x.IMR = a.IMR
      /\ x.IRR = r
      /\ x.ISR = s
      /\ x.pending = w
  BY ONLY <1>1
<1>6. QED
  BY <1>4, <1>5, Zenon DEF SameModes

(* One chip of the pair is replaced. *)
LEMMA Updated ==
  ASSUME NEW p \in [Chips -> Chip], NEW c \in Chips, NEW x \in Chip
  PROVE  IsUpdated(p, c, x, [p EXCEPT ![c] = x])
BY DEF IsUpdated

(* The next chips, given by their registers: requests are in r0, r1, held  *)
(* back in w0, w1, in service in s0, s1.                                   *)
IsServing(p, c, r, s, w, q) ==
    /\ q \in [Chips -> Chip]
    /\ \A d \in Chips : SameModes(p[d], q[d])
    /\ \A d \in Chips \ {c} : q[d] = p[d]
    /\ q[c].IRR = r
    /\ q[c].ISR = s
    /\ q[c].pending = w

(* Registers of one chip change, and no mode. *)
LEMMA Serving ==
  ASSUME NEW p \in [Chips -> Chip], NEW c \in Chips,
         NEW r, r \subseteq Levels, NEW s, s \subseteq Levels, NEW w, w \subseteq Levels
  PROVE  IsServing(p, c, r, s, w, [p EXCEPT ![c] = [@ EXCEPT !.IRR = r, !.ISR = s, !.pending = w]])
<1>1. PICK x : x = [p[c] EXCEPT !.IRR = r, !.ISR = s, !.pending = w]
  OBVIOUS
<1>2. x \in Chip /\ SameModes(p[c], x) /\ x.IRR = r /\ x.ISR = s /\ x.pending = w
  <2>1. SetsLines(p[c], r, s, w, x)
    BY <1>1 DEF SetsLines
  <2>2. PICK a : a = p[c]
    OBVIOUS
  <2>3. SetsLines(a, r, s, w, x)
    BY <2>1, <2>2
  <2>4. x \in Chip /\ SameModes(a, x) /\ x.IRR = r /\ x.ISR = s /\ x.pending = w
    BY ONLY <2>3, ChipServes
  <2>5. QED
    BY <2>2, <2>4, Zenon
<1>3. [p EXCEPT ![c] = [@ EXCEPT !.IRR = r, !.ISR = s, !.pending = w]] = [p EXCEPT ![c] = x]
  BY <1>1
<1>4. IsUpdated(p, c, x, [p EXCEPT ![c] = x])
  BY <1>2, Updated
<1>5. PICK q : q = [p EXCEPT ![c] = x]
  OBVIOUS
<1>6. q \in [Chips -> Chip] /\ q[c] = x /\ \A d \in Chips \ {c} : q[d] = p[d]
  BY <1>4, <1>5, Zenon DEF IsUpdated
<1>7. ASSUME NEW d \in Chips PROVE SameModes(p[d], q[d])
  <2>1. CASE d = c
    BY <1>2, <1>6, <2>1, Zenon
  <2>2. CASE d # c
    <3>1. q[d] = p[d]
      BY <1>6, <2>2
    <3>2. QED
      BY <3>1, Zenon DEF SameModes
  <2>3. QED
    BY <2>1, <2>2
<1>8. IsServing(p, c, r, s, w, q)
  BY <1>2, <1>6, <1>7, Zenon DEF IsServing
<1>9. QED
  BY <1>3, <1>5, <1>8, Zenon

(* A device or the slave raises a line. *)
LEMMA TriggeredServing ==
  ASSUME NEW p \in [Chips -> Chip], NEW irq \in 0 .. 15
  PROVE  \E r, w \in SUBSET Levels :
            /\ IsServing(p, ChipOf(irq), r, p[ChipOf(irq)].ISR, w, Triggered(p, irq))
            /\ p[ChipOf(irq)].initializing # 0 =>
                  r = p[ChipOf(irq)].IRR /\ w = p[ChipOf(irq)].pending \cup {LevelOf(irq)}
            /\ p[ChipOf(irq)].initializing = 0 =>
                  r = p[ChipOf(irq)].IRR \cup {LevelOf(irq)} /\ w = p[ChipOf(irq)].pending
<1>1. PICK c \in Chips, l \in Levels : c = ChipOf(irq) /\ l = LevelOf(irq)
  BY LevelType DEF CASCADED, Levels, Chips, ChipOf, LevelOf
<1>2. PICK a : a = p[c]
  OBVIOUS
<1>3. a \in Chip
  BY <1>2
<1>4. /\ a = [initializing |-> a.initializing, auto_eoi |-> a.auto_eoi,
              special_nest |-> a.special_nest, special_mask |-> a.special_mask,
              IMR |-> a.IMR, IRR |-> a.IRR, ISR |-> a.ISR, pending |-> a.pending]
      /\ a.IRR \subseteq Levels /\ a.ISR \subseteq Levels /\ a.pending \subseteq Levels
  BY <1>3, ChipFields
<1>5. PICK r, w : /\ r = IF a.initializing # 0 THEN a.IRR ELSE a.IRR \cup {l}
                  /\ w = IF a.initializing # 0 THEN a.pending \cup {l} ELSE a.pending
  OBVIOUS
<1>6. r \subseteq Levels /\ w \subseteq Levels
  BY <1>4, <1>5
<1>7. IsServing(p, c, r, a.ISR, w, [p EXCEPT ![c] = [@ EXCEPT !.IRR = r, !.ISR = a.ISR, !.pending = w]])
  BY <1>4, <1>6, Serving
<1>8. PICK x : x = [a EXCEPT !.IRR = r, !.ISR = a.ISR, !.pending = w]
  OBVIOUS
<1>9. [p EXCEPT ![c] = [@ EXCEPT !.IRR = r, !.ISR = a.ISR, !.pending = w]] = [p EXCEPT ![c] = x]
  BY <1>2, <1>8
<1>10. Triggered(p, irq) = [p EXCEPT ![c] = x]
  <2>1. CASE a.initializing # 0
    <3>1. x = [a EXCEPT !.pending = a.pending \cup {l}]
      BY ONLY <1>4, <1>5, <1>8, <2>1
    <3>2. Triggered(p, irq) = [p EXCEPT ![c].pending = @ \cup {l}]
      BY <1>1, <1>2, <2>1 DEF Triggered
    <3>3. QED
      BY <1>2, <3>1, <3>2
  <2>2. CASE a.initializing = 0
    <3>1. x = [a EXCEPT !.IRR = a.IRR \cup {l}]
      BY ONLY <1>4, <1>5, <1>8, <2>2
    <3>2. Triggered(p, irq) = [p EXCEPT ![c].IRR = @ \cup {l}]
      BY <1>1, <1>2, <2>2 DEF Triggered
    <3>3. QED
      BY <1>2, <3>1, <3>2
  <2>3. QED
    BY <2>1, <2>2
<1>11. IsServing(p, c, r, a.ISR, w, Triggered(p, irq))
  BY <1>7, <1>9, <1>10, Zenon
<1>12. /\ a.initializing # 0 => r = a.IRR /\ w = a.pending \cup {l}
       /\ a.initializing = 0 => r = a.IRR \cup {l} /\ w = a.pending
  BY <1>5
<1>13. r \in SUBSET Levels /\ w \in SUBSET Levels
  BY <1>6
<1>14. QED
  BY <1>1, <1>2, <1>11, <1>12, <1>13, Zenon

(* A chip accepts a request. *)
LEMMA AckedServing ==
  ASSUME NEW p \in [Chips -> Chip], NEW c \in Chips, NEW l \in Levels, NEW k \in Levels
  PROVE  IsServing(p, c, p[c].IRR \ {l}, IF p[c].auto_eoi THEN p[c].ISR ELSE p[c].ISR \cup {k},
                   p[c].pending, [p EXCEPT ![c] = Acked(@, l, k)])
<1>1. PICK a : a = p[c]
  OBVIOUS
<1>2. a \in Chip
  BY <1>1
<1>3. /\ a = [initializing |-> a.initializing, auto_eoi |-> a.auto_eoi,
              special_nest |-> a.special_nest, special_mask |-> a.special_mask,
              IMR |-> a.IMR, IRR |-> a.IRR, ISR |-> a.ISR, pending |-> a.pending]
      /\ a.IRR \subseteq Levels /\ a.ISR \subseteq Levels /\ a.pending \subseteq Levels
  BY <1>2, ChipFields
<1>4. PICK r, s, w : /\ r = a.IRR \ {l}
                     /\ s = IF a.auto_eoi THEN a.ISR ELSE a.ISR \cup {k}
                     /\ w = a.pending
  OBVIOUS
<1>5. r \subseteq Levels /\ s \subseteq Levels /\ w \subseteq Levels
  BY <1>3, <1>4
<1>6. IsServing(p, c, r, s, w, [p EXCEPT ![c] = [@ EXCEPT !.IRR = r, !.ISR = s, !.pending = w]])
  BY <1>5, Serving
<1>7. PICK x : x = [a EXCEPT !.IRR = r, !.ISR = s, !.pending = w]
  OBVIOUS
<1>8. [p EXCEPT ![c] = [@ EXCEPT !.IRR = r, !.ISR = s, !.pending = w]] = [p EXCEPT ![c] = x]
  BY <1>1, <1>7
<1>9. x = Acked(a, l, k)
  <2>1. Acked(a, l, k) = [a EXCEPT !.IRR = r, !.ISR = s]
    BY <1>3, <1>4 DEF Acked
  <2>2. x = [a EXCEPT !.IRR = r, !.ISR = s]
    BY ONLY <1>3, <1>4, <1>7
  <2>3. QED
    BY <2>1, <2>2
<1>10. [p EXCEPT ![c] = Acked(@, l, k)] = [p EXCEPT ![c] = x]
  BY <1>1, <1>9
<1>11. IsServing(p, c, r, s, w, [p EXCEPT ![c] = Acked(@, l, k)])
  BY <1>6, <1>8, <1>10, Zenon
<1>12. QED
  BY <1>1, <1>4, <1>11, Zenon

--------------------------------------------------------------------------------
(* Nothing that programs chose for the chips changes. *)
LEMMA SameModesTransitive ==
  ASSUME NEW a, NEW b, NEW x, SameModes(a, b), SameModes(b, x)
  PROVE  SameModes(a, x)
BY Zenon DEF SameModes

(* The chips when the slave has raised IR2. *)
LEMMA SeenFacts ==
  ASSUME TypeOK
  PROVE  /\ Seen \in [Chips -> Chip]
         /\ \A d \in Chips : SameModes(pic[d], Seen[d])
         /\ Seen[1] = pic[1]
         /\ Seen[0].ISR = pic[0].ISR
         /\ pic[0].IRR \subseteq Seen[0].IRR
         /\ Seen[0].IRR \subseteq pic[0].IRR \cup {CASCADED}
         /\ Seen[0].pending \subseteq pic[0].pending \cup {CASCADED}
         /\ pic[0].pending \subseteq Seen[0].pending
         /\ pic[0].initializing # 0 => Seen[0].IRR = pic[0].IRR
         /\ SlaveEligible = {} => Seen = pic
<1>1. pic \in [Chips -> Chip] /\ 0 \in Chips /\ 1 \in Chips
  BY DEF TypeOK, Chips
<1>2. CASE SlaveEligible = {}
  <2>1. Seen = pic
    BY <1>2 DEF Seen
  <2>2. \A d \in Chips : SameModes(pic[d], Seen[d])
    BY <2>1, Zenon DEF SameModes
  <2>3. QED
    BY <1>1, <2>1, <2>2
<1>3. CASE SlaveEligible # {}
  <2>1. Seen = Triggered(pic, CASCADED)
    BY <1>3 DEF Seen
  <2>2. CASCADED \in 0 .. 15 /\ ChipOf(CASCADED) = 0 /\ LevelOf(CASCADED) = CASCADED
    BY DEF CASCADED, ChipOf, LevelOf
  <2>3. PICK r \in SUBSET Levels, w \in SUBSET Levels :
            /\ IsServing(pic, 0, r, pic[0].ISR, w, Seen)
            /\ pic[0].initializing # 0 => r = pic[0].IRR /\ w = pic[0].pending \cup {CASCADED}
            /\ pic[0].initializing = 0 => r = pic[0].IRR \cup {CASCADED} /\ w = pic[0].pending
    <3>1. PICK irq : irq = CASCADED
      OBVIOUS
    <3>2. irq \in 0 .. 15 /\ ChipOf(irq) = 0 /\ LevelOf(irq) = irq
      BY <2>2, <3>1
    <3>3. \E r, w \in SUBSET Levels :
            /\ IsServing(pic, ChipOf(irq), r, pic[ChipOf(irq)].ISR, w, Triggered(pic, irq))
            /\ pic[ChipOf(irq)].initializing # 0 =>
                  r = pic[ChipOf(irq)].IRR /\ w = pic[ChipOf(irq)].pending \cup {LevelOf(irq)}
            /\ pic[ChipOf(irq)].initializing = 0 =>
                  r = pic[ChipOf(irq)].IRR \cup {LevelOf(irq)} /\ w = pic[ChipOf(irq)].pending
      BY <1>1, <3>2, TriggeredServing, Zenon
    <3>4. QED
      BY <2>1, <3>1, <3>2, <3>3, Zenon
  <2>4. /\ Seen \in [Chips -> Chip]
        /\ \A d \in Chips : SameModes(pic[d], Seen[d])
        /\ \A d \in Chips \ {0} : Seen[d] = pic[d]
        /\ Seen[0].IRR = r
        /\ Seen[0].ISR = pic[0].ISR
        /\ Seen[0].pending = w
    BY <2>3, Zenon DEF IsServing
  <2>5. Seen[1] = pic[1]
    BY <2>4 DEF Chips
  <2>6. /\ pic[0].IRR \subseteq r
        /\ r \subseteq pic[0].IRR \cup {CASCADED}
        /\ w \subseteq pic[0].pending \cup {CASCADED}
        /\ pic[0].pending \subseteq w
        /\ pic[0].initializing # 0 => r = pic[0].IRR
    BY <2>3
  <2>7. QED
    BY <1>3, <2>4, <2>5, <2>6, Zenon
<1>4. QED
  BY <1>2, <1>3

(* What the master accepts. *)
LEMMA AcceptFacts ==
  ASSUME TypeOK, NEW l, Accept(l)
  PROVE  /\ l \in Seen[0].IRR
         /\ pic[0].special_mask \/ l \notin pic[0].IMR
         /\ l \in pic[0].ISR => pic[0].special_nest /\ l = CASCADED
         /\ \A h \in pic[0].ISR : h < l =>
               \/ pic[0].special_nest /\ h = CASCADED
               \/ pic[0].special_mask /\ h \in pic[1].IMR
<1>1. /\ SameModes(pic[0], Seen[0])
      /\ Seen[1] = pic[1]
      /\ Seen[0].ISR = pic[0].ISR
  BY SeenFacts DEF Chips
<1>2. /\ Seen[0].special_mask = pic[0].special_mask
      /\ Seen[0].special_nest = pic[0].special_nest
      /\ Seen[0].IMR = pic[0].IMR
  BY <1>1, Zenon DEF SameModes
<1>3. l \in Eligible(Seen[0], IF Seen[0].special_mask THEN Seen[1].IMR ELSE {},
                     IF Seen[0].special_nest THEN {CASCADED} ELSE {})
  BY DEF Accept, MasterEligible
<1>4. PICK passed, exempt :
         /\ passed = IF Seen[0].special_mask THEN Seen[1].IMR ELSE {}
         /\ exempt = IF Seen[0].special_nest THEN {CASCADED} ELSE {}
  OBVIOUS
<1>5. /\ l \in Seen[0].IRR
      /\ Seen[0].special_mask \/ l \notin Seen[0].IMR
      /\ l \in Seen[0].ISR => l \in exempt
      /\ \A h \in Seen[0].ISR : h < l => h \in exempt \cup passed
  BY <1>3, <1>4 DEF Eligible
<1>6. \A h \in exempt : pic[0].special_nest /\ h = CASCADED
  BY <1>2, <1>4
<1>7. \A h \in passed : pic[0].special_mask /\ h \in pic[1].IMR
  BY <1>1, <1>2, <1>4
<1>8. QED
  BY <1>1, <1>2, <1>5, <1>6, <1>7

(* What the slave asks for. *)
LEMMA SlaveFacts ==
  ASSUME TypeOK, NEW l \in SlaveEligible
  PROVE  /\ l \in pic[1].IRR
         /\ pic[1].special_mask \/ l \notin pic[1].IMR
         /\ l \notin pic[1].ISR
BY DEF SlaveEligible, Eligible

(* The frame that a handler starts with. *)
LEMMA EnterFacts ==
  ASSUME TypeOK, NEW irq \in 0 .. 15, Enter(irq)
  PROVE  /\ IsPushed(frames, [irq |-> irq, due |-> Due(irq)], frames')
         /\ Due(irq) \subseteq {0, ChipOf(irq)}
         /\ frames' \in Seq(Frame)
         /\ frames'[1].irq = irq
         /\ IFlag' = FALSE
<1>1. Due(irq) \subseteq {0, ChipOf(irq)} /\ {0, ChipOf(irq)} \subseteq Chips
  BY DEF Due, ChipOf, Chips
<1>2. PICK f : f = [irq |-> irq, due |-> Due(irq)]
  OBVIOUS
<1>3. f \in Frame /\ f.irq = irq
  BY <1>1, <1>2 DEF Frame
<1>4. frames \in Seq(Frame)
  BY DEF TypeOK
<1>5. IsPushed(frames, f, <<f>> \o frames)
  BY <1>3, <1>4, Pushed
<1>6. frames' = <<f>> \o frames /\ IFlag' = FALSE
  BY <1>2 DEF Enter
<1>7. IsPushed(frames, f, frames')
  BY <1>5, <1>6, Zenon
<1>8. frames' \in Seq(Frame) /\ frames'[1].irq = irq
  BY <1>3, <1>7 DEF IsPushed
<1>9. QED
  BY <1>1, <1>2, <1>6, <1>7, <1>8, Zenon

(* The chips after the master accepted l and put k in service. *)
LEMMA MasterEffect ==
  ASSUME TypeOK, NEW l \in Levels, NEW q, q = [Seen EXCEPT ![0] = Acked(@, l, l)]
  PROVE  /\ q \in [Chips -> Chip]
         /\ \A d \in Chips : SameModes(pic[d], q[d])
         /\ q[1] = pic[1]
         /\ q[0].IRR = Seen[0].IRR \ {l}
         /\ q[0].ISR = IF pic[0].auto_eoi THEN pic[0].ISR ELSE pic[0].ISR \cup {l}
         /\ q[0].pending = Seen[0].pending
<1>1. PICK p : p = Seen
  OBVIOUS
<1>2. p \in [Chips -> Chip] /\ 0 \in Chips /\ 1 \in Chips
  BY <1>1, SeenFacts DEF Chips
<1>3. IsServing(p, 0, p[0].IRR \ {l}, IF p[0].auto_eoi THEN p[0].ISR ELSE p[0].ISR \cup {l},
                p[0].pending, [p EXCEPT ![0] = Acked(@, l, l)])
  BY <1>2, AckedServing, Zenon
<1>4. IsServing(p, 0, p[0].IRR \ {l}, IF p[0].auto_eoi THEN p[0].ISR ELSE p[0].ISR \cup {l},
                p[0].pending, q)
  BY <1>1, <1>3, Zenon
<1>5. /\ \A d \in Chips : SameModes(pic[d], p[d])
      /\ p[1] = pic[1]
      /\ p[0].ISR = pic[0].ISR
  BY <1>1, SeenFacts
<1>6. p[0].auto_eoi = pic[0].auto_eoi
  BY <1>2, <1>5, Zenon DEF SameModes
<1>7. /\ q \in [Chips -> Chip]
      /\ \A d \in Chips : SameModes(p[d], q[d])
      /\ \A d \in Chips \ {0} : q[d] = p[d]
      /\ q[0].IRR = p[0].IRR \ {l}
      /\ q[0].ISR = IF p[0].auto_eoi THEN p[0].ISR ELSE p[0].ISR \cup {l}
      /\ q[0].pending = p[0].pending
  BY <1>4, Zenon DEF IsServing
<1>8. q[1] = pic[1]
  BY <1>5, <1>7 DEF Chips
<1>9. \A d \in Chips : SameModes(pic[d], q[d])
  BY <1>5, <1>7, SameModesTransitive, Zenon
<1>10. q[0].ISR = IF pic[0].auto_eoi THEN pic[0].ISR ELSE pic[0].ISR \cup {l}
  BY <1>5, <1>6, <1>7
<1>11. QED
  BY <1>1, <1>7, <1>8, <1>9, <1>10, Zenon

(* The chips after the master and the slave accepted level l of the slave. *)
LEMMA SlaveEffect ==
  ASSUME TypeOK, NEW l \in Levels, NEW q,
         q = [Seen EXCEPT ![0] = Acked(@, CASCADED, CASCADED), ![1] = Acked(@, l, CASCADED)]
  PROVE  /\ q \in [Chips -> Chip]
         /\ \A d \in Chips : SameModes(pic[d], q[d])
         /\ q[0].IRR = Seen[0].IRR \ {CASCADED}
         /\ q[0].ISR = IF pic[0].auto_eoi THEN pic[0].ISR ELSE pic[0].ISR \cup {CASCADED}
         /\ q[0].pending = Seen[0].pending
         /\ q[1].IRR = pic[1].IRR \ {l}
         /\ q[1].ISR = IF pic[1].auto_eoi THEN pic[1].ISR ELSE pic[1].ISR \cup {CASCADED}
         /\ q[1].pending = pic[1].pending
<1>1. PICK k : k = CASCADED
  OBVIOUS
<1>2. k \in Levels
  BY <1>1 DEF CASCADED, Levels
<1>3. PICK p : p = [Seen EXCEPT ![0] = Acked(@, k, k)]
  OBVIOUS
<1>4. /\ p \in [Chips -> Chip]
      /\ \A d \in Chips : SameModes(pic[d], p[d])
      /\ p[1] = pic[1]
      /\ p[0].IRR = Seen[0].IRR \ {k}
      /\ p[0].ISR = IF pic[0].auto_eoi THEN pic[0].ISR ELSE pic[0].ISR \cup {k}
      /\ p[0].pending = Seen[0].pending
  BY <1>2, <1>3, MasterEffect, Zenon
<1>5. 0 \in Chips /\ 1 \in Chips
  BY DEF Chips
<1>6. IsServing(p, 1, p[1].IRR \ {l}, IF p[1].auto_eoi THEN p[1].ISR ELSE p[1].ISR \cup {k},
                p[1].pending, [p EXCEPT ![1] = Acked(@, l, k)])
  BY <1>2, <1>4, <1>5, AckedServing, Zenon
<1>7. q = [p EXCEPT ![1] = Acked(@, l, k)]
  BY <1>1, <1>3
<1>8. IsServing(p, 1, p[1].IRR \ {l}, IF p[1].auto_eoi THEN p[1].ISR ELSE p[1].ISR \cup {k},
                p[1].pending, q)
  BY <1>6, <1>7, Zenon
<1>9. /\ q \in [Chips -> Chip]
      /\ \A d \in Chips : SameModes(p[d], q[d])
      /\ \A d \in Chips \ {1} : q[d] = p[d]
      /\ q[1].IRR = p[1].IRR \ {l}
      /\ q[1].ISR = IF p[1].auto_eoi THEN p[1].ISR ELSE p[1].ISR \cup {k}
      /\ q[1].pending = p[1].pending
  BY <1>8, Zenon DEF IsServing
<1>10. q[0] = p[0]
  BY <1>9 DEF Chips
<1>11. \A d \in Chips : SameModes(pic[d], q[d])
  BY <1>4, <1>9, SameModesTransitive, Zenon
<1>12. q[1].ISR = IF pic[1].auto_eoi THEN pic[1].ISR ELSE pic[1].ISR \cup {k}
  BY <1>4, <1>9
<1>13. q[1].IRR = pic[1].IRR \ {l} /\ q[1].pending = pic[1].pending
  BY <1>4, <1>9
<1>14. QED
  BY <1>1, <1>4, <1>9, <1>10, <1>11, <1>12, <1>13, Zenon

(* The first word of the initialisation clears the chip. *)
LEMMA ICW1Effect ==
  ASSUME TypeOK, NEW c \in Chips, ICW1(c)
  PROVE  IsUpdated(pic, c,
            [initializing |-> 1, auto_eoi |-> pic[c].auto_eoi,
             special_nest |-> pic[c].special_nest, special_mask |-> FALSE,
             IMR |-> {}, IRR |-> {},
             ISR |-> {}, pending |-> {}], pic')
<1>1. PICK a : a = pic[c]
  OBVIOUS
<1>2. a \in Chip /\ pic \in [Chips -> Chip]
  BY <1>1 DEF TypeOK
<1>3. /\ a = [initializing |-> a.initializing, auto_eoi |-> a.auto_eoi,
               special_nest |-> a.special_nest, special_mask |-> a.special_mask,
               IMR |-> a.IMR, IRR |-> a.IRR,
               ISR |-> a.ISR, pending |-> a.pending]
      /\ a.initializing \in 0 .. 3
      /\ a.auto_eoi \in BOOLEAN
      /\ a.special_nest \in BOOLEAN
      /\ a.special_mask \in BOOLEAN
      /\ a.IMR \subseteq Levels
      /\ a.IRR \subseteq Levels
      /\ a.ISR \subseteq Levels
      /\ a.pending \subseteq Levels
  BY <1>2, ChipFields
<1>4. PICK x : x = [initializing |-> 1, auto_eoi |-> a.auto_eoi,
                    special_nest |-> a.special_nest, special_mask |-> FALSE,
                    IMR |-> {}, IRR |-> {},
                    ISR |-> {}, pending |-> {}]
  OBVIOUS
<1>5. x \in Chip
  BY ONLY <1>3, <1>4 DEF Chip, Levels
<1>6. x = [a EXCEPT !.initializing = 1, !.IMR = {}, !.ISR = {}, !.IRR = {},
                    !.pending = {}, !.special_mask = FALSE]
  <2>1. a = [initializing |-> a.initializing, auto_eoi |-> a.auto_eoi,
             special_nest |-> a.special_nest, special_mask |-> a.special_mask,
             IMR |-> a.IMR, IRR |-> a.IRR,
             ISR |-> a.ISR, pending |-> a.pending]
    BY <1>3
  <2>2. PICK y : y = [a EXCEPT !.initializing = 1]
    OBVIOUS
  <2>3. y = [initializing |-> 1, auto_eoi |-> a.auto_eoi,
             special_nest |-> a.special_nest, special_mask |-> a.special_mask,
             IMR |-> a.IMR, IRR |-> a.IRR,
             ISR |-> a.ISR, pending |-> a.pending]
    BY ONLY <2>1, <2>2
  <2>4. PICK z : z = [y EXCEPT !.IMR = {}, !.ISR = {}]
    OBVIOUS
  <2>5. z = [initializing |-> 1, auto_eoi |-> a.auto_eoi,
             special_nest |-> a.special_nest, special_mask |-> a.special_mask,
             IMR |-> {}, IRR |-> a.IRR,
             ISR |-> {}, pending |-> a.pending]
    BY ONLY <2>3, <2>4
  <2>6. PICK u : u = [z EXCEPT !.IRR = {}, !.pending = {}]
    OBVIOUS
  <2>7. u = [initializing |-> 1, auto_eoi |-> a.auto_eoi,
             special_nest |-> a.special_nest, special_mask |-> a.special_mask,
             IMR |-> {}, IRR |-> {},
             ISR |-> {}, pending |-> {}]
    BY ONLY <2>5, <2>6
  <2>8. PICK v : v = [u EXCEPT !.special_mask = FALSE]
    OBVIOUS
  <2>9. v = [initializing |-> 1, auto_eoi |-> a.auto_eoi,
             special_nest |-> a.special_nest, special_mask |-> FALSE,
             IMR |-> {}, IRR |-> {},
             ISR |-> {}, pending |-> {}]
    BY ONLY <2>7, <2>8
  <2>10. x = v
    BY ONLY <1>4, <2>9
  <2>11. QED
    BY <2>2, <2>4, <2>6, <2>8, <2>10, Zenon
<1>7. pic' = [pic EXCEPT ![c] = x]
  BY <1>1, <1>6 DEF ICW1
<1>8. IsUpdated(pic, c, x, pic')
  BY <1>2, <1>5, <1>7, Updated, Zenon
<1>9. QED
  BY <1>1, <1>4, <1>8, Zenon

(* The second and the third word are counted. *)
LEMMA ICW2or3Effect ==
  ASSUME TypeOK, NEW c \in Chips, ICW2or3(c)
  PROVE  IsUpdated(pic, c,
            [initializing |-> pic[c].initializing + 1, auto_eoi |-> pic[c].auto_eoi,
             special_nest |-> pic[c].special_nest, special_mask |-> pic[c].special_mask,
             IMR |-> pic[c].IMR, IRR |-> pic[c].IRR,
             ISR |-> pic[c].ISR, pending |-> pic[c].pending], pic')
<1>1. PICK a : a = pic[c]
  OBVIOUS
<1>2. a \in Chip /\ pic \in [Chips -> Chip]
  BY <1>1 DEF TypeOK
<1>3. /\ a = [initializing |-> a.initializing, auto_eoi |-> a.auto_eoi,
               special_nest |-> a.special_nest, special_mask |-> a.special_mask,
               IMR |-> a.IMR, IRR |-> a.IRR,
               ISR |-> a.ISR, pending |-> a.pending]
      /\ a.initializing \in 0 .. 3
      /\ a.auto_eoi \in BOOLEAN
      /\ a.special_nest \in BOOLEAN
      /\ a.special_mask \in BOOLEAN
      /\ a.IMR \subseteq Levels
      /\ a.IRR \subseteq Levels
      /\ a.ISR \subseteq Levels
      /\ a.pending \subseteq Levels
  BY <1>2, ChipFields
<1>4. PICK x : x = [initializing |-> a.initializing + 1, auto_eoi |-> a.auto_eoi,
                    special_nest |-> a.special_nest, special_mask |-> a.special_mask,
                    IMR |-> a.IMR, IRR |-> a.IRR,
                    ISR |-> a.ISR, pending |-> a.pending]
  OBVIOUS
<1>5. x \in Chip
  <2>1. a.initializing + 1 \in 0 .. 3
    BY <1>1 DEF ICW2or3
  <2>2. PICK n : n = a.initializing + 1
    OBVIOUS
  <2>3. QED
    BY ONLY <1>3, <1>4, <2>1, <2>2 DEF Chip
<1>6. x = [a EXCEPT !.initializing = a.initializing + 1]
  BY ONLY <1>3, <1>4
<1>7. pic' = [pic EXCEPT ![c] = x]
  BY <1>1, <1>6 DEF ICW2or3
<1>8. IsUpdated(pic, c, x, pic')
  BY <1>2, <1>5, <1>7, Updated, Zenon
<1>9. QED
  BY <1>1, <1>4, <1>8, Zenon

(* The fourth word ends the initialisation. *)
LEMMA ICW4Effect ==
  ASSUME TypeOK, NEW c \in Chips, NEW ae \in BOOLEAN, NEW sn \in BOOLEAN, ICW4(c, ae, sn)
  PROVE  IsUpdated(pic, c,
            [initializing |-> 0, auto_eoi |-> ae,
             special_nest |-> sn, special_mask |-> pic[c].special_mask,
             IMR |-> pic[c].IMR, IRR |-> pic[c].pending,
             ISR |-> pic[c].ISR, pending |-> pic[c].pending], pic')
<1>1. PICK a : a = pic[c]
  OBVIOUS
<1>2. a \in Chip /\ pic \in [Chips -> Chip]
  BY <1>1 DEF TypeOK
<1>3. /\ a = [initializing |-> a.initializing, auto_eoi |-> a.auto_eoi,
               special_nest |-> a.special_nest, special_mask |-> a.special_mask,
               IMR |-> a.IMR, IRR |-> a.IRR,
               ISR |-> a.ISR, pending |-> a.pending]
      /\ a.initializing \in 0 .. 3
      /\ a.auto_eoi \in BOOLEAN
      /\ a.special_nest \in BOOLEAN
      /\ a.special_mask \in BOOLEAN
      /\ a.IMR \subseteq Levels
      /\ a.IRR \subseteq Levels
      /\ a.ISR \subseteq Levels
      /\ a.pending \subseteq Levels
  BY <1>2, ChipFields
<1>4. PICK x : x = [initializing |-> 0, auto_eoi |-> ae,
                    special_nest |-> sn, special_mask |-> a.special_mask,
                    IMR |-> a.IMR, IRR |-> a.pending,
                    ISR |-> a.ISR, pending |-> a.pending]
  OBVIOUS
<1>5. x \in Chip
  BY ONLY <1>3, <1>4, ae \in BOOLEAN, sn \in BOOLEAN DEF Chip, Levels
<1>6. x = [a EXCEPT !.auto_eoi = ae, !.special_nest = sn,
                    !.initializing = 0, !.IRR = a.pending]
  <2>1. a = [initializing |-> a.initializing, auto_eoi |-> a.auto_eoi,
             special_nest |-> a.special_nest, special_mask |-> a.special_mask,
             IMR |-> a.IMR, IRR |-> a.IRR,
             ISR |-> a.ISR, pending |-> a.pending]
    BY <1>3
  <2>2. PICK y : y = [a EXCEPT !.auto_eoi = ae]
    OBVIOUS
  <2>3. y = [initializing |-> a.initializing, auto_eoi |-> ae,
             special_nest |-> a.special_nest, special_mask |-> a.special_mask,
             IMR |-> a.IMR, IRR |-> a.IRR,
             ISR |-> a.ISR, pending |-> a.pending]
    BY ONLY <2>1, <2>2
  <2>4. PICK z : z = [y EXCEPT !.special_nest = sn]
    OBVIOUS
  <2>5. z = [initializing |-> a.initializing, auto_eoi |-> ae,
             special_nest |-> sn, special_mask |-> a.special_mask,
             IMR |-> a.IMR, IRR |-> a.IRR,
             ISR |-> a.ISR, pending |-> a.pending]
    BY ONLY <2>3, <2>4
  <2>6. PICK u : u = [z EXCEPT !.initializing = 0]
    OBVIOUS
  <2>7. u = [initializing |-> 0, auto_eoi |-> ae,
             special_nest |-> sn, special_mask |-> a.special_mask,
             IMR |-> a.IMR, IRR |-> a.IRR,
             ISR |-> a.ISR, pending |-> a.pending]
    BY ONLY <2>5, <2>6
  <2>8. PICK v : v = [u EXCEPT !.IRR = a.pending]
    OBVIOUS
  <2>9. v = [initializing |-> 0, auto_eoi |-> ae,
             special_nest |-> sn, special_mask |-> a.special_mask,
             IMR |-> a.IMR, IRR |-> a.pending,
             ISR |-> a.ISR, pending |-> a.pending]
    BY ONLY <2>7, <2>8
  <2>10. x = v
    BY ONLY <1>4, <2>9
  <2>11. QED
    BY <2>2, <2>4, <2>6, <2>8, <2>10, Zenon
<1>7. pic' = [pic EXCEPT ![c] = x]
  BY <1>1, <1>6 DEF ICW4
<1>8. IsUpdated(pic, c, x, pic')
  BY <1>2, <1>5, <1>7, Updated, Zenon
<1>9. QED
  BY <1>1, <1>4, <1>8, Zenon

(* The mask is written. *)
LEMMA OCW1Effect ==
  ASSUME TypeOK, NEW c \in Chips, NEW m \in SUBSET Levels, OCW1(c, m)
  PROVE  IsUpdated(pic, c,
            [initializing |-> pic[c].initializing, auto_eoi |-> pic[c].auto_eoi,
             special_nest |-> pic[c].special_nest, special_mask |-> pic[c].special_mask,
             IMR |-> m, IRR |-> pic[c].IRR,
             ISR |-> pic[c].ISR, pending |-> pic[c].pending], pic')
<1>1. PICK a : a = pic[c]
  OBVIOUS
<1>2. a \in Chip /\ pic \in [Chips -> Chip]
  BY <1>1 DEF TypeOK
<1>3. /\ a = [initializing |-> a.initializing, auto_eoi |-> a.auto_eoi,
               special_nest |-> a.special_nest, special_mask |-> a.special_mask,
               IMR |-> a.IMR, IRR |-> a.IRR,
               ISR |-> a.ISR, pending |-> a.pending]
      /\ a.initializing \in 0 .. 3
      /\ a.auto_eoi \in BOOLEAN
      /\ a.special_nest \in BOOLEAN
      /\ a.special_mask \in BOOLEAN
      /\ a.IMR \subseteq Levels
      /\ a.IRR \subseteq Levels
      /\ a.ISR \subseteq Levels
      /\ a.pending \subseteq Levels
  BY <1>2, ChipFields
<1>4. PICK x : x = [initializing |-> a.initializing, auto_eoi |-> a.auto_eoi,
                    special_nest |-> a.special_nest, special_mask |-> a.special_mask,
                    IMR |-> m, IRR |-> a.IRR,
                    ISR |-> a.ISR, pending |-> a.pending]
  OBVIOUS
<1>5. x \in Chip
  BY ONLY <1>3, <1>4, m \in SUBSET Levels DEF Chip, Levels
<1>6. x = [a EXCEPT !.IMR = m]
  BY ONLY <1>3, <1>4
<1>7. pic' = [pic EXCEPT ![c] = x]
  BY <1>1, <1>6 DEF OCW1
<1>8. IsUpdated(pic, c, x, pic')
  BY <1>2, <1>5, <1>7, Updated, Zenon
<1>9. QED
  BY <1>1, <1>4, <1>8, Zenon

(* Special mask mode is set or reset. *)
LEMMA OCW3Effect ==
  ASSUME TypeOK, NEW c \in Chips, NEW sm \in BOOLEAN, OCW3(c, sm)
  PROVE  IsUpdated(pic, c,
            [initializing |-> pic[c].initializing, auto_eoi |-> pic[c].auto_eoi,
             special_nest |-> pic[c].special_nest, special_mask |-> sm,
             IMR |-> pic[c].IMR, IRR |-> pic[c].IRR,
             ISR |-> pic[c].ISR, pending |-> pic[c].pending], pic')
<1>1. PICK a : a = pic[c]
  OBVIOUS
<1>2. a \in Chip /\ pic \in [Chips -> Chip]
  BY <1>1 DEF TypeOK
<1>3. /\ a = [initializing |-> a.initializing, auto_eoi |-> a.auto_eoi,
               special_nest |-> a.special_nest, special_mask |-> a.special_mask,
               IMR |-> a.IMR, IRR |-> a.IRR,
               ISR |-> a.ISR, pending |-> a.pending]
      /\ a.initializing \in 0 .. 3
      /\ a.auto_eoi \in BOOLEAN
      /\ a.special_nest \in BOOLEAN
      /\ a.special_mask \in BOOLEAN
      /\ a.IMR \subseteq Levels
      /\ a.IRR \subseteq Levels
      /\ a.ISR \subseteq Levels
      /\ a.pending \subseteq Levels
  BY <1>2, ChipFields
<1>4. PICK x : x = [initializing |-> a.initializing, auto_eoi |-> a.auto_eoi,
                    special_nest |-> a.special_nest, special_mask |-> sm,
                    IMR |-> a.IMR, IRR |-> a.IRR,
                    ISR |-> a.ISR, pending |-> a.pending]
  OBVIOUS
<1>5. x \in Chip
  BY ONLY <1>3, <1>4, sm \in BOOLEAN DEF Chip, Levels
<1>6. x = [a EXCEPT !.special_mask = sm]
  BY ONLY <1>3, <1>4
<1>7. pic' = [pic EXCEPT ![c] = x]
  BY <1>1, <1>6 DEF OCW3
<1>8. IsUpdated(pic, c, x, pic')
  BY <1>2, <1>5, <1>7, Updated, Zenon
<1>9. QED
  BY <1>1, <1>4, <1>8, Zenon

(* An EOI ends levels of a chip. *)
LEMMA EOIEffect ==
  ASSUME TypeOK, NEW c \in Chips, NEW s, s \subseteq Levels,
         pic' = [pic EXCEPT ![c] = [@ EXCEPT !.ISR = s]]
  PROVE  IsServing(pic, c, pic[c].IRR, s, pic[c].pending, pic')
<1>1. PICK a : a = pic[c]
  OBVIOUS
<1>2. a \in Chip /\ pic \in [Chips -> Chip]
  BY <1>1 DEF TypeOK
<1>3. /\ a = [initializing |-> a.initializing, auto_eoi |-> a.auto_eoi,
              special_nest |-> a.special_nest, special_mask |-> a.special_mask,
              IMR |-> a.IMR, IRR |-> a.IRR, ISR |-> a.ISR, pending |-> a.pending]
      /\ a.IRR \subseteq Levels /\ a.pending \subseteq Levels
  BY <1>2, ChipFields
<1>4. PICK r, w : r = a.IRR /\ w = a.pending
  OBVIOUS
<1>5. r \subseteq Levels /\ w \subseteq Levels
  BY <1>3, <1>4
<1>6. IsServing(pic, c, r, s, w, [pic EXCEPT ![c] = [@ EXCEPT !.IRR = r, !.ISR = s, !.pending = w]])
  BY <1>2, <1>5, Serving
<1>7. PICK x : x = [a EXCEPT !.IRR = r, !.ISR = s, !.pending = w]
  OBVIOUS
<1>8. [pic EXCEPT ![c] = [@ EXCEPT !.IRR = r, !.ISR = s, !.pending = w]] = [pic EXCEPT ![c] = x]
  BY <1>1, <1>7
<1>9. x = [a EXCEPT !.ISR = s]
  BY ONLY <1>3, <1>4, <1>7
<1>10. pic' = [pic EXCEPT ![c] = x]
  BY <1>1, <1>9
<1>11. IsServing(pic, c, r, s, w, pic')
  BY <1>6, <1>8, <1>10, Zenon
<1>12. QED
  BY <1>1, <1>4, <1>11, Zenon

--------------------------------------------------------------------------------
(* Programs that leave special mask mode alone, let the BIOS serve lines   *)
(* of the master only, and use of the slave's lines at most the one whose  *)
(* level is CASCADED, the bit that AcceptSlave sets.  With that line they  *)
(* neither choose special nesting, nor initialise the slave, nor mask the  *)
(* line again, by which a request would be latched that the slave no       *)
(* longer has.                                                             *)
Disciplined ==
    /\ TRUE \notin SpecialMask
    /\ BiosLines \subseteq Levels
    /\ Lines \subseteq Levels \cup {8 + CASCADED}
    /\ 8 + CASCADED \in Lines =>
          /\ TRUE \notin SpecialNest
          /\ 1 \notin Initialised
          /\ \A m \in Masks[1] : CASCADED \notin m

(* While a chip is initialised its requests are held back.                 *)
HeldBack == \A c \in Chips : pic[c].initializing # 0 => pic[c].IRR = {}

NoSpecialMask == \A c \in Chips : pic[c].special_mask = FALSE

(* The slave has requests of line CASCADED alone, and the master has a     *)
(* request of the slave only as long as the slave wants to be served.      *)
SlaveSide ==
    /\ pic[1].IRR \subseteq {CASCADED}
    /\ pic[1].pending \subseteq {CASCADED}
    /\ pic[1].ISR \subseteq {CASCADED}
    /\ CASCADED \in pic[1].IRR \cup pic[1].pending => 8 + CASCADED \in Lines
    /\ CASCADED \in Requests(0) =>
          CASCADED \in pic[1].IRR /\ CASCADED \notin pic[1].IMR /\ CASCADED \notin pic[1].ISR
    /\ 8 + CASCADED \in Lines => pic[0].special_nest = FALSE /\ pic[1].initializing = 0

OwnFrame(f) ==
    /\ f.irq \in Levels => f.irq # CASCADED /\ f.due \subseteq {0}
    /\ f.irq \notin Levels => f.irq = 8 + CASCADED /\ 8 + CASCADED \in Lines

OwnFrames == \A i \in 1 .. Len(frames) : OwnFrame(frames[i])

Owned == \A c \in Chips : Matched(c, pic[c].ISR, frames)

Discipline == SlaveSide /\ OwnFrames /\ Owned

IInv ==
    /\ TypeOK
    /\ HeldBack
    /\ TRUE \notin SpecialMask => NoSpecialMask
    /\ Disciplined => Discipline

(* Properties from the invariant. *)
LEMMA OwnedInService ==
  ASSUME TypeOK, Owned
  PROVE  InServiceOwned /\ StrictNesting
<1>1. frames \in Seq(Frame) /\ DOMAIN frames = 1 .. Len(frames)
  BY LenProperties DEF TypeOK
<1>2. ASSUME NEW c \in Chips
      PROVE  pic[c].ISR = {LevelOn(c, frames[i].irq) : i \in Waiting(c)}
  <2>1. Matched(c, pic[c].ISR, frames)
    BY DEF Owned
  <2>2. ASSUME NEW i \in Waiting(c)
        PROVE  i \in 1 .. Len(frames) /\ Owes(c, frames, i) /\ LevelOn(c, frames[i].irq) \in Levels
    <3>1. i \in 1 .. Len(frames) /\ Owes(c, frames, i)
      BY <1>1 DEF Waiting, Owes
    <3>2. frames[i].irq \in 0 .. 15
      BY <1>1, <3>1, FrameFields
    <3>3. QED
      BY <3>1, <3>2, LevelType
  <2>3. \A i \in 1 .. Len(frames) : Owes(c, frames, i) => i \in Waiting(c)
    BY <1>1 DEF Waiting, Owes
  <2>4. ASSUME NEW h \in pic[c].ISR
        PROVE  h \in {LevelOn(c, frames[i].irq) : i \in Waiting(c)}
    <3>1. h \in Levels
      BY <2>1 DEF Matched
    <3>2. PICK i \in 1 .. Len(frames) : Owes(c, frames, i) /\ h = LevelOn(c, frames[i].irq)
      BY <2>1, <3>1 DEF Matched
    <3>3. QED
      BY <2>3, <3>2
  <2>5. ASSUME NEW i \in Waiting(c) PROVE LevelOn(c, frames[i].irq) \in pic[c].ISR
    BY <2>1, <2>2 DEF Matched
  <2>6. QED
    BY <2>4, <2>5
<1>3. ASSUME NEW c \in Chips, NEW i \in Waiting(c), NEW j \in Waiting(c), i < j
      PROVE  LevelOn(c, frames[i].irq) < LevelOn(c, frames[j].irq)
  <2>1. Matched(c, pic[c].ISR, frames)
    BY DEF Owned
  <2>2. i \in 1 .. Len(frames) /\ j \in 1 .. Len(frames) /\ Owes(c, frames, i) /\ Owes(c, frames, j)
    BY <1>1 DEF Waiting, Owes
  <2>3. QED
    BY <1>3, <2>1, <2>2 DEF Matched
<1>4. QED
  BY <1>2, <1>3 DEF InServiceOwned, StrictNesting

(* The slave wants to be served by its line CASCADED or not at all. *)
LEMMA SlaveWants ==
  ASSUME TypeOK, NoSpecialMask, SlaveSide
  PROVE  /\ CASCADED \in Requests(0) => SlaveEligible # {}
         /\ \A l \in SlaveEligible :
               /\ l = CASCADED
               /\ 8 + CASCADED \in Lines
               /\ CASCADED \in pic[1].IRR
               /\ CASCADED \notin pic[1].IMR
               /\ CASCADED \notin pic[1].ISR
<1>1. pic[1].special_mask = FALSE
  BY DEF NoSpecialMask, Chips
<1>2. ASSUME CASCADED \in Requests(0) PROVE CASCADED \in SlaveEligible
  <2>1. /\ CASCADED \in pic[1].IRR /\ CASCADED \notin pic[1].IMR /\ CASCADED \notin pic[1].ISR
        /\ pic[1].ISR \subseteq {CASCADED}
    BY <1>2 DEF SlaveSide
  <2>2. pic[1].ISR = {}
    BY <2>1
  <2>3. QED
    BY <2>1, <2>2 DEF SlaveEligible, Eligible
<1>3. ASSUME NEW l \in SlaveEligible
      PROVE  /\ l = CASCADED
             /\ 8 + CASCADED \in Lines
             /\ CASCADED \in pic[1].IRR
             /\ CASCADED \notin pic[1].IMR
             /\ CASCADED \notin pic[1].ISR
  <2>1. /\ l \in pic[1].IRR
        /\ pic[1].special_mask \/ l \notin pic[1].IMR
        /\ l \notin pic[1].ISR
    BY SlaveFacts
  <2>2. l = CASCADED
    BY <2>1 DEF SlaveSide
  <2>3. QED
    BY <1>1, <2>1, <2>2 DEF SlaveSide
<1>4. QED
  BY <1>2, <1>3

(* The chips and the handlers after a step that keeps the ISRs and the     *)
(* handlers.                                                               *)
LEMMA OwnedKept ==
  ASSUME IInv, frames' = frames, \A c \in Chips : pic'[c].ISR = pic[c].ISR
  PROVE  Disciplined => OwnFrames' /\ Owned'
<1>1. ASSUME Disciplined PROVE OwnFrames /\ Owned
  BY <1>1 DEF IInv, Discipline
<1>2. ASSUME OwnFrames PROVE OwnFrames'
  BY <1>2 DEF OwnFrames, OwnFrame
<1>3. ASSUME Owned, NEW c \in Chips PROVE Matched(c, pic'[c].ISR, frames')
  BY <1>3 DEF Owned
<1>4. ASSUME Owned PROVE Owned'
  BY <1>3, <1>4 DEF Owned
<1>5. QED
  BY <1>1, <1>2, <1>4

(* Special mask mode stays off. *)
LEMMA NoSpecialMaskKept ==
  ASSUME IInv, \A d \in Chips : SameModes(pic[d], pic'[d])
  PROVE  TRUE \notin SpecialMask => NoSpecialMask'
<1>1. \A d \in Chips : pic'[d].special_mask = pic[d].special_mask
  BY Zenon DEF SameModes
<1>2. QED
  BY <1>1 DEF IInv, NoSpecialMask

(* What the discipline gives in a state of the invariant. *)
LEMMA UnderDiscipline ==
  ASSUME IInv, Disciplined
  PROVE  /\ NoSpecialMask /\ SlaveSide /\ OwnFrames /\ Owned
         /\ pic[0].special_mask = FALSE /\ pic[1].special_mask = FALSE
BY DEF IInv, Disciplined, Discipline, NoSpecialMask, Chips

(* Devices raise lines. *)
LEMMA TriggerKeeps ==
  ASSUME IInv, NEW irq \in Lines, cpuTriggerIRQ(irq)
  PROVE  IInv'
<1>1. irq \in 0 .. 15 /\ irq # CASCADED
  BY PicAssumption
<1>2. pic \in [Chips -> Chip] /\ TypeOK /\ HeldBack
  BY DEF IInv, TypeOK
<1>3. PICK c \in Chips, l \in Levels : c = ChipOf(irq) /\ l = LevelOf(irq)
  BY <1>1, LevelType DEF Chips
<1>4. PICK r \in SUBSET Levels, w \in SUBSET Levels :
         /\ IsServing(pic, c, r, pic[c].ISR, w, pic')
         /\ pic[c].initializing # 0 => r = pic[c].IRR /\ w = pic[c].pending \cup {l}
         /\ pic[c].initializing = 0 => r = pic[c].IRR \cup {l} /\ w = pic[c].pending
  <2>1. \E r, w \in SUBSET Levels :
            /\ IsServing(pic, ChipOf(irq), r, pic[ChipOf(irq)].ISR, w, Triggered(pic, irq))
            /\ pic[ChipOf(irq)].initializing # 0 =>
                  r = pic[ChipOf(irq)].IRR /\ w = pic[ChipOf(irq)].pending \cup {LevelOf(irq)}
            /\ pic[ChipOf(irq)].initializing = 0 =>
                  r = pic[ChipOf(irq)].IRR \cup {LevelOf(irq)} /\ w = pic[ChipOf(irq)].pending
    BY <1>1, <1>2, TriggeredServing, Zenon
  <2>2. pic' = Triggered(pic, irq)
    BY DEF cpuTriggerIRQ
  <2>3. QED
    BY <1>3, <2>1, <2>2, Zenon
<1>5. /\ pic' \in [Chips -> Chip]
      /\ \A d \in Chips : SameModes(pic[d], pic'[d])
      /\ \A d \in Chips \ {c} : pic'[d] = pic[d]
      /\ pic'[c].IRR = r
      /\ pic'[c].ISR = pic[c].ISR
      /\ pic'[c].pending = w
  BY <1>4, Zenon DEF IsServing
<1>6. IFlag' = IFlag /\ frames' = frames
  BY DEF cpuTriggerIRQ
<1>7. TypeOK'
  BY <1>2, <1>5, <1>6 DEF TypeOK
<1>8. \A d \in Chips : pic'[d].initializing = pic[d].initializing
  BY <1>5, Zenon DEF SameModes
<1>9. HeldBack'
  <2>1. ASSUME NEW d \in Chips, pic'[d].initializing # 0 PROVE pic'[d].IRR = {}
    <3>1. pic[d].initializing # 0 /\ pic[d].IRR = {}
      BY <1>2, <1>8, <2>1 DEF HeldBack
    <3>2. CASE d = c
      BY <1>4, <1>5, <3>1, <3>2
    <3>3. CASE d # c
      BY <1>5, <3>1, <3>3
    <3>4. QED
      BY <3>2, <3>3
  <2>2. QED
    BY <2>1 DEF HeldBack
<1>10. TRUE \notin SpecialMask => NoSpecialMask'
  BY <1>5, NoSpecialMaskKept
<1>11. ASSUME NEW d \in Chips PROVE pic'[d].ISR = pic[d].ISR
  BY <1>5
<1>12. Disciplined => OwnFrames' /\ Owned'
  BY <1>6, <1>11, OwnedKept
<1>13. ASSUME Disciplined PROVE SlaveSide'
  <2>1. SlaveSide
    BY <1>13, UnderDiscipline
  <2>2. /\ pic'[1].IMR = pic[1].IMR /\ pic'[0].special_nest = pic[0].special_nest
        /\ pic'[0].initializing = pic[0].initializing
        /\ pic'[1].initializing = pic[1].initializing
        /\ pic'[1].ISR = pic[1].ISR
    BY <1>5, <1>8, <1>11, Zenon DEF SameModes, Chips
  <2>3. c = 0 \/ c = 1
    BY DEF Chips
  <2>4. CASE c = 0
    <3>1. pic'[1] = pic[1]
      BY <1>5, <2>4 DEF Chips
    <3>2. l # CASCADED
      BY <1>1, <1>3, <2>4 DEF ChipOf, LevelOf, CASCADED
    <3>3. CASCADED \in Requests(0)' => CASCADED \in Requests(0)
      BY <1>4, <1>5, <2>2, <2>4, <3>2 DEF Requests
    <3>4. QED
      BY <2>1, <2>2, <3>1, <3>3 DEF SlaveSide
  <2>5. CASE c = 1
    <3>1. pic'[0] = pic[0]
      BY <1>5, <2>5 DEF Chips
    <3>2. irq = 8 + CASCADED /\ l = CASCADED
      BY <1>1, <1>3, <1>13, <2>5 DEF ChipOf, LevelOf, CASCADED, Disciplined, Levels
    <3>3. Requests(0)' = Requests(0)
      BY <3>1 DEF Requests
    <3>4. /\ r \subseteq pic[1].IRR \cup {CASCADED} /\ w \subseteq pic[1].pending \cup {CASCADED}
          /\ pic[1].IRR \subseteq r
      BY <1>4, <2>5, <3>2
    <3>5. pic'[1].IRR = r /\ pic'[1].pending = w
      BY <1>5, <2>5
    <3>6. 8 + CASCADED \in Lines
      BY <3>2
    <3>7. QED
      BY <2>1, <2>2, <3>1, <3>3, <3>4, <3>5, <3>6 DEF SlaveSide
  <2>6. QED
    BY <2>3, <2>4, <2>5
<1>14. QED
  BY <1>7, <1>9, <1>10, <1>12, <1>13 DEF IInv, Discipline

(* The chips after the master saw the slave's request. *)
LEMMA SeenKeeps ==
  ASSUME IInv, Disciplined
  PROVE  CASCADED \in Seen[0].IRR \cup (IF pic[0].initializing # 0 THEN Seen[0].pending ELSE {}) =>
            /\ CASCADED \in pic[1].IRR
            /\ CASCADED \notin pic[1].IMR
            /\ CASCADED \notin pic[1].ISR
            /\ SlaveEligible # {}
<1>1. TypeOK /\ NoSpecialMask /\ SlaveSide
  BY UnderDiscipline DEF IInv
<1>2. CASE SlaveEligible = {}
  <2>1. Seen = pic
    BY <1>1, <1>2, SeenFacts
  <2>2. CASCADED \notin Requests(0)
    BY <1>1, <1>2, SlaveWants
  <2>3. QED
    BY <2>1, <2>2 DEF Requests
<1>3. CASE SlaveEligible # {}
  BY <1>1, <1>3, SlaveWants
<1>4. QED
  BY <1>2, <1>3

(* The master latches the slave's request, which it cannot accept yet. *)
LEMMA LatchKeeps ==
  ASSUME IInv, LatchCascade
  PROVE  IInv'
<1>1. TypeOK /\ HeldBack
  BY DEF IInv
<1>2. pic' = Seen /\ IFlag' = IFlag /\ frames' = frames
  BY DEF LatchCascade
<1>3. /\ pic' \in [Chips -> Chip]
      /\ \A d \in Chips : SameModes(pic[d], pic'[d])
      /\ pic'[1] = pic[1]
      /\ pic'[0].ISR = pic[0].ISR
      /\ pic[0].initializing # 0 => pic'[0].IRR = pic[0].IRR
  BY <1>1, <1>2, SeenFacts
<1>4. TypeOK'
  BY <1>1, <1>2, <1>3 DEF TypeOK
<1>5. \A d \in Chips : pic'[d].initializing = pic[d].initializing
  BY <1>3, Zenon DEF SameModes
<1>6. HeldBack'
  BY <1>1, <1>3, <1>5 DEF HeldBack, Chips
<1>7. TRUE \notin SpecialMask => NoSpecialMask'
  BY <1>3, NoSpecialMaskKept
<1>8. \A d \in Chips : pic'[d].ISR = pic[d].ISR
  BY <1>3 DEF Chips
<1>9. Disciplined => OwnFrames' /\ Owned'
  BY <1>2, <1>8, OwnedKept
<1>10. ASSUME Disciplined PROVE SlaveSide'
  <2>1. SlaveSide
    BY <1>10, UnderDiscipline
  <2>2. pic'[0].special_nest = pic[0].special_nest /\ pic'[0].initializing = pic[0].initializing
    BY <1>3, Zenon DEF SameModes, Chips
  <2>3. CASCADED \in Requests(0)' =>
           CASCADED \in pic[1].IRR /\ CASCADED \notin pic[1].IMR /\ CASCADED \notin pic[1].ISR
    BY <1>2, <1>10, <2>2, SeenKeeps DEF Requests
  <2>4. QED
    BY <1>3, <2>1, <2>2, <2>3 DEF SlaveSide
<1>11. QED
  BY <1>4, <1>6, <1>7, <1>9, <1>10 DEF IInv, Discipline

(* A request of the slave that is latched is still wanted. *)
LEMMA NothingKeeps ==
  ASSUME IInv, AcceptNothing
  PROVE  IInv'
<1>1. TypeOK /\ HeldBack
  BY DEF IInv
<1>2. /\ Accept(CASCADED)
      /\ SlaveEligible = {}
      /\ pic' = [Seen EXCEPT ![0] = Acked(@, CASCADED, CASCADED)]
      /\ IFlag' = IFlag /\ frames' = frames
  BY DEF AcceptNothing
<1>3. PICK k : k = CASCADED
  OBVIOUS
<1>4. k \in Levels /\ pic' = [Seen EXCEPT ![0] = Acked(@, k, k)]
  BY <1>2, <1>3 DEF CASCADED, Levels
<1>5. /\ pic' \in [Chips -> Chip]
      /\ \A d \in Chips : SameModes(pic[d], pic'[d])
      /\ pic'[1] = pic[1]
      /\ pic'[0].IRR = Seen[0].IRR \ {k}
  BY <1>1, <1>4, MasterEffect, Zenon
<1>6. TypeOK'
  BY <1>1, <1>2, <1>5 DEF TypeOK
<1>7. \A d \in Chips : pic'[d].initializing = pic[d].initializing
  BY <1>5, Zenon DEF SameModes
<1>8. pic[0].initializing # 0 => Seen[0].IRR = pic[0].IRR
  BY <1>1, SeenFacts
<1>9. HeldBack'
  BY <1>1, <1>5, <1>7, <1>8 DEF HeldBack, Chips
<1>10. TRUE \notin SpecialMask => NoSpecialMask'
  BY <1>5, NoSpecialMaskKept
<1>11. ~ Disciplined
  <2>1. CASCADED \in Seen[0].IRR
    BY <1>1, <1>2, AcceptFacts
  <2>2. QED
    BY <1>2, <2>1, SeenKeeps
<1>12. QED
  BY <1>6, <1>9, <1>10, <1>11 DEF IInv

(* A handler that starts is one of those the discipline knows. *)
LEMMA OwnFramesPushed ==
  ASSUME NEW fr, NEW f, NEW g, IsPushed(fr, f, g), OwnFrame(f),
         \A i \in 1 .. Len(fr) : OwnFrame(fr[i])
  PROVE  \A i \in 1 .. Len(g) : OwnFrame(g[i])
<1>1. Len(fr) \in Nat /\ Len(g) = Len(fr) + 1
  BY LenProperties DEF IsPushed
<1>2. ASSUME NEW i \in 1 .. Len(g) PROVE OwnFrame(g[i])
  <2>1. CASE i = 1
    BY <2>1 DEF IsPushed
  <2>2. CASE i # 1
    <3>1. PICK j \in 1 .. Len(fr) : i = j + 1
      <4>1. i - 1 \in 1 .. Len(fr) /\ i = (i - 1) + 1
        BY <1>1, <2>2
      <4>2. QED
        BY <4>1
    <3>2. g[i] = fr[j]
      BY <3>1 DEF IsPushed
    <3>3. QED
      BY <3>2
  <2>3. QED
    BY <2>1, <2>2
<1>3. QED
  BY <1>2

(* The master accepts a request of its own. *)
LEMMA MasterKeeps ==
  ASSUME IInv, NEW l \in Levels, AcceptMaster(l)
  PROVE  IInv'
<1>1. TypeOK /\ HeldBack
  BY DEF IInv
<1>2. /\ Accept(l)
      /\ l # CASCADED
      /\ pic' = [Seen EXCEPT ![0] = Acked(@, l, l)]
      /\ Enter(l)
  BY DEF AcceptMaster
<1>3. /\ pic' \in [Chips -> Chip]
      /\ \A d \in Chips : SameModes(pic[d], pic'[d])
      /\ pic'[1] = pic[1]
      /\ pic'[0].IRR = Seen[0].IRR \ {l}
      /\ pic'[0].ISR = IF pic[0].auto_eoi THEN pic[0].ISR ELSE pic[0].ISR \cup {l}
      /\ pic'[0].pending = Seen[0].pending
  BY <1>1, <1>2, MasterEffect, Zenon
<1>4. l \in 0 .. 15 /\ ChipOf(l) = 0 /\ LevelOf(l) = l /\ LevelOn(0, l) = l
  BY DEF Levels, ChipOf, LevelOf, LevelOn
<1>5. PICK f : f = [irq |-> l, due |-> Due(l)]
  OBVIOUS
<1>6. /\ IsPushed(frames, f, frames')
      /\ Due(l) \subseteq {0, ChipOf(l)}
      /\ frames' \in Seq(Frame)
      /\ IFlag' = FALSE
  BY <1>1, <1>2, <1>4, <1>5, EnterFacts, Zenon
<1>7. TypeOK'
  BY <1>3, <1>6 DEF TypeOK
<1>8. \A d \in Chips : pic'[d].initializing = pic[d].initializing
  BY <1>3, Zenon DEF SameModes
<1>9. pic[0].initializing # 0 => Seen[0].IRR = pic[0].IRR
  BY <1>1, SeenFacts
<1>10. HeldBack'
  BY <1>1, <1>3, <1>8, <1>9 DEF HeldBack, Chips
<1>11. TRUE \notin SpecialMask => NoSpecialMask'
  BY <1>3, NoSpecialMaskKept
<1>12. f.irq = l /\ f.due = Due(l) /\ f.due \subseteq {0}
  BY <1>4, <1>5, <1>6
<1>13. ASSUME Disciplined PROVE Discipline'
  <2>1. /\ NoSpecialMask /\ SlaveSide /\ OwnFrames /\ Owned
        /\ pic[0].special_mask = FALSE
    BY <1>13, UnderDiscipline
  <2>2. pic'[0].special_nest = pic[0].special_nest /\ pic'[0].initializing = pic[0].initializing
    BY <1>3, Zenon DEF SameModes, Chips
  <2>3. SlaveSide'
    <3>1. CASCADED \in Requests(0)' =>
             CASCADED \in pic[1].IRR /\ CASCADED \notin pic[1].IMR /\ CASCADED \notin pic[1].ISR
      BY <1>3, <1>13, <2>2, SeenKeeps DEF Requests
    <3>2. QED
      BY <1>3, <2>1, <2>2, <3>1 DEF SlaveSide
  <2>4. OwnFrames'
    <3>1. OwnFrame(f)
      BY <1>2, <1>12 DEF OwnFrame
    <3>2. PICK fr, g : fr = frames /\ g = frames'
      OBVIOUS
    <3>3. IsPushed(fr, f, g) /\ \A i \in 1 .. Len(fr) : OwnFrame(fr[i])
      BY <1>6, <2>1, <3>2 DEF OwnFrames
    <3>4. \A i \in 1 .. Len(g) : OwnFrame(g[i])
      BY ONLY <3>1, <3>3, OwnFramesPushed
    <3>5. QED
      BY <3>2, <3>4 DEF OwnFrames, OwnFrame
  <2>5. Matched(0, pic[0].ISR, frames) /\ Matched(1, pic[1].ISR, frames)
    BY <2>1 DEF Owned, Chips
  <2>6. pic[0].special_nest => CASCADED \notin pic[0].ISR
    <3>1. SUFFICES ASSUME pic[0].special_nest, CASCADED \in pic[0].ISR PROVE FALSE
      OBVIOUS
    <3>2. 8 + CASCADED \notin Lines
      BY <2>1, <3>1 DEF SlaveSide
    <3>3. PICK i \in 1 .. Len(frames) : CASCADED = LevelOn(0, frames[i].irq)
      BY <2>5, <3>1 DEF Matched, CASCADED, Levels
    <3>4. frames[i].irq \in Levels /\ frames[i].irq # CASCADED
      BY <2>1, <3>2 DEF OwnFrames, OwnFrame
    <3>5. LevelOn(0, frames[i].irq) = frames[i].irq
      BY <3>4 DEF LevelOn, LevelOf, ChipOf, Levels
    <3>6. QED
      BY <3>3, <3>4, <3>5
  <2>7. ASSUME NEW h \in pic[0].ISR PROVE l < h
    <3>1. h \in Levels
      BY <2>5 DEF Matched
    <3>2. l \notin pic[0].ISR /\ ~ (h < l)
      BY <1>1, <1>2, <2>1, <2>6, <2>7, AcceptFacts
    <3>3. QED
      BY <2>7, <3>1, <3>2 DEF Levels
  <2>8. Matched(0, pic'[0].ISR, frames')
    <3>1. CASE pic[0].auto_eoi
      <4>1. 0 \notin f.due
        BY <1>12, <3>1 DEF Due
      <4>2. QED
        BY <1>3, <1>6, <2>5, <3>1, <4>1, MatchedPushedElsewhere DEF Chips
    <3>2. CASE ~ pic[0].auto_eoi
      <4>1. 0 \in f.due
        BY <1>12, <3>2 DEF Due
      <4>2. l = LevelOn(0, f.irq)
        BY <1>4, <1>12
      <4>3. PICK s : s = pic[0].ISR
        OBVIOUS
      <4>4. PICK fr, g : fr = frames /\ g = frames'
        OBVIOUS
      <4>5. IsPushed(fr, f, g) /\ Matched(0, s, fr) /\ 0 \in Chips /\ \A h \in s : l < h
        BY <1>6, <2>5, <2>7, <4>3, <4>4 DEF Chips
      <4>6. Matched(0, s \cup {l}, g)
        BY ONLY <4>1, <4>2, <4>5, MatchedPushed
      <4>7. QED
        BY <1>3, <3>2, <4>3, <4>4, <4>6
    <3>3. QED
      BY <3>1, <3>2
  <2>9. Matched(1, pic'[1].ISR, frames')
    <3>1. 1 \notin f.due /\ 1 \in Chips
      BY <1>12 DEF Chips
    <3>2. QED
      BY <1>3, <1>6, <2>5, <3>1, MatchedPushedElsewhere
  <2>10. Owned'
    BY <2>8, <2>9 DEF Owned, Chips
  <2>11. QED
    BY <2>3, <2>4, <2>10 DEF Discipline
<1>14. QED
  BY <1>7, <1>10, <1>11, <1>13 DEF IInv

(* The master and the slave accept a request of the slave. *)
LEMMA SlaveKeeps ==
  ASSUME IInv, NEW l \in Levels, AcceptSlave(l)
  PROVE  IInv'
<1>1. TypeOK /\ HeldBack
  BY DEF IInv
<1>2. /\ Accept(CASCADED)
      /\ l \in SlaveEligible
      /\ pic' = [Seen EXCEPT ![0] = Acked(@, CASCADED, CASCADED), ![1] = Acked(@, l, CASCADED)]
      /\ Enter(8 + l)
  BY DEF AcceptSlave
<1>3. /\ pic' \in [Chips -> Chip]
      /\ \A d \in Chips : SameModes(pic[d], pic'[d])
      /\ pic'[0].IRR = Seen[0].IRR \ {CASCADED}
      /\ pic'[0].ISR = IF pic[0].auto_eoi THEN pic[0].ISR ELSE pic[0].ISR \cup {CASCADED}
      /\ pic'[0].pending = Seen[0].pending
      /\ pic'[1].IRR = pic[1].IRR \ {l}
      /\ pic'[1].ISR = IF pic[1].auto_eoi THEN pic[1].ISR ELSE pic[1].ISR \cup {CASCADED}
      /\ pic'[1].pending = pic[1].pending
  BY <1>1, <1>2, SlaveEffect, Zenon
<1>4. PICK irq : irq = 8 + l
  OBVIOUS
<1>5. irq \in 0 .. 15 /\ ChipOf(irq) = 1
  BY <1>4 DEF Levels, ChipOf
<1>6. PICK f : f = [irq |-> irq, due |-> Due(irq)]
  OBVIOUS
<1>7. Enter(irq)
  BY <1>2, <1>4
<1>8. /\ IsPushed(frames, f, frames')
      /\ frames' \in Seq(Frame)
      /\ IFlag' = FALSE
  BY <1>1, <1>5, <1>6, <1>7, EnterFacts, Zenon
<1>9. TypeOK'
  BY <1>3, <1>8 DEF TypeOK
<1>10. \A d \in Chips : pic'[d].initializing = pic[d].initializing
  BY <1>3, Zenon DEF SameModes
<1>11. pic[0].initializing # 0 => Seen[0].IRR = pic[0].IRR
  BY <1>1, SeenFacts
<1>12. HeldBack'
  BY <1>1, <1>3, <1>10, <1>11 DEF HeldBack, Chips
<1>13. TRUE \notin SpecialMask => NoSpecialMask'
  BY <1>3, NoSpecialMaskKept
<1>14. f.irq = irq /\ f.due = Due(irq)
  BY <1>6
<1>15. ASSUME Disciplined PROVE Discipline'
  <2>1. /\ NoSpecialMask /\ SlaveSide /\ OwnFrames /\ Owned
        /\ pic[0].special_mask = FALSE
    BY <1>15, UnderDiscipline
  <2>2. /\ l = CASCADED
        /\ 8 + CASCADED \in Lines
        /\ CASCADED \notin pic[1].ISR
    BY <1>1, <1>2, <2>1, SlaveWants
  <2>3. /\ pic'[0].special_nest = pic[0].special_nest
        /\ pic'[0].initializing = pic[0].initializing
        /\ pic'[1].initializing = pic[1].initializing
    BY <1>3, Zenon DEF SameModes, Chips
  <2>4. CASCADED \in Seen[0].IRR
    BY <1>1, <1>2, AcceptFacts
  <2>5. pic[0].initializing = 0
    <3>1. pic[0].initializing # 0 => pic[0].IRR = {}
      BY <1>1 DEF HeldBack, Chips
    <3>2. QED
      BY <1>11, <2>4, <3>1
  <2>6. SlaveSide'
    <3>1. CASCADED \notin Requests(0)'
      BY <1>3, <2>3, <2>5 DEF Requests
    <3>2. pic'[1].ISR \subseteq {CASCADED}
      BY <1>3, <2>1 DEF SlaveSide
    <3>3. QED
      BY <1>3, <2>1, <2>2, <2>3, <3>1, <3>2 DEF SlaveSide
  <2>7. irq = 8 + CASCADED /\ LevelOn(0, irq) = CASCADED /\ LevelOn(1, irq) = CASCADED
    BY <1>4, <2>2 DEF LevelOn, LevelOf, ChipOf, CASCADED
  <2>8. OwnFrames'
    <3>1. OwnFrame(f)
      BY <1>14, <2>2, <2>7 DEF OwnFrame, Levels, CASCADED
    <3>2. PICK fr, g : fr = frames /\ g = frames'
      OBVIOUS
    <3>3. IsPushed(fr, f, g) /\ \A i \in 1 .. Len(fr) : OwnFrame(fr[i])
      BY <1>8, <2>1, <3>2 DEF OwnFrames
    <3>4. \A i \in 1 .. Len(g) : OwnFrame(g[i])
      BY ONLY <3>1, <3>3, OwnFramesPushed
    <3>5. QED
      BY <3>2, <3>4 DEF OwnFrames, OwnFrame
  <2>9. Matched(0, pic[0].ISR, frames) /\ Matched(1, pic[1].ISR, frames)
    BY <2>1 DEF Owned, Chips
  <2>10. pic[0].special_nest = FALSE
    BY <2>1, <2>2 DEF SlaveSide
  <2>11. ASSUME NEW h \in pic[0].ISR PROVE CASCADED < h
    <3>1. h \in Levels
      BY <2>9 DEF Matched
    <3>2. CASCADED \notin pic[0].ISR /\ ~ (h < CASCADED)
      BY <1>1, <1>2, <2>1, <2>10, <2>11, AcceptFacts
    <3>3. QED
      BY <2>11, <3>1, <3>2 DEF Levels, CASCADED
  <2>12. ASSUME NEW h \in pic[1].ISR PROVE CASCADED < h
    BY <2>1, <2>2 DEF SlaveSide
  <2>13. PICK fr, g, k : fr = frames /\ g = frames' /\ k = CASCADED
    OBVIOUS
  <2>14. ASSUME NEW c \in Chips, NEW s, s = pic[c].ISR, \A h \in s : k < h, Matched(c, s, fr)
         PROVE  Matched(c, IF pic[c].auto_eoi THEN s ELSE s \cup {k}, g)
    <3>1. c \in f.due <=> ~ pic[c].auto_eoi
      BY <1>5, <1>14 DEF Due, Chips
    <3>2. k = LevelOn(c, f.irq)
      BY <1>14, <2>7, <2>13 DEF Chips
    <3>3. IsPushed(fr, f, g)
      BY <1>8, <2>13
    <3>4. CASE pic[c].auto_eoi
      <4>1. c \notin f.due
        BY <3>1, <3>4
      <4>2. Matched(c, s, g)
        BY ONLY c \in Chips, <2>14, <3>3, <4>1, MatchedPushedElsewhere
      <4>3. QED
        BY <3>4, <4>2
    <3>5. CASE ~ pic[c].auto_eoi
      <4>1. c \in f.due
        BY <3>1, <3>5
      <4>2. Matched(c, s \cup {k}, g)
        BY ONLY c \in Chips, <2>14, <3>2, <3>3, <4>1, MatchedPushed
      <4>3. QED
        BY <3>5, <4>2
    <3>6. QED
      BY <3>4, <3>5
  <2>15. Matched(0, pic'[0].ISR, frames')
    <3>1. PICK s : s = pic[0].ISR
      OBVIOUS
    <3>2. 0 \in Chips /\ (\A h \in s : k < h) /\ Matched(0, s, fr)
      BY <2>9, <2>11, <2>13, <3>1 DEF Chips
    <3>3. Matched(0, IF pic[0].auto_eoi THEN s ELSE s \cup {k}, g)
      BY <2>14, <3>1, <3>2
    <3>4. QED
      BY <1>3, <2>13, <3>1, <3>3
  <2>16. Matched(1, pic'[1].ISR, frames')
    <3>1. PICK s : s = pic[1].ISR
      OBVIOUS
    <3>2. 1 \in Chips /\ (\A h \in s : k < h) /\ Matched(1, s, fr)
      BY <2>9, <2>12, <2>13, <3>1 DEF Chips
    <3>3. Matched(1, IF pic[1].auto_eoi THEN s ELSE s \cup {k}, g)
      BY <2>14, <3>1, <3>2
    <3>4. QED
      BY <1>3, <2>13, <3>1, <3>3
  <2>17. Owned'
    BY <2>15, <2>16 DEF Owned, Chips
  <2>18. QED
    BY <2>6, <2>8, <2>17 DEF Discipline
<1>16. QED
  BY <1>9, <1>12, <1>13, <1>15 DEF IInv

(* A program starts to initialise a chip, while no handler runs. *)
LEMMA ICW1Keeps ==
  ASSUME IInv, NEW c \in Initialised, ICW1(c)
  PROVE  IInv'
<1>1. TypeOK /\ HeldBack
  BY DEF IInv
<1>2. c \in Chips
  BY PicAssumption
<1>3. PICK x : x = [initializing |-> 1, auto_eoi |-> pic[c].auto_eoi,
                     special_nest |-> pic[c].special_nest, special_mask |-> FALSE,
                     IMR |-> {}, IRR |-> {},
                     ISR |-> {}, pending |-> {}]
  OBVIOUS
<1>4. IsUpdated(pic, c, x, pic')
  BY <1>1, <1>2, <1>3, ICW1Effect, Zenon
<1>5. /\ pic' \in [Chips -> Chip]
      /\ pic'[c] = x
      /\ \A d \in Chips \ {c} : pic'[d] = pic[d]
  BY <1>4, Zenon DEF IsUpdated
<1>6. frames' = frames /\ IFlag' = IFlag
  BY DEF ICW1
<1>7. TypeOK'
  BY <1>1, <1>5, <1>6 DEF TypeOK
<1>8. /\ pic'[c].initializing = 1
      /\ pic'[c].special_mask = FALSE
      /\ pic'[c].special_nest = pic[c].special_nest
      /\ pic'[c].IMR = {}
      /\ pic'[c].IRR = {}
      /\ pic'[c].ISR = {}
      /\ pic'[c].pending = {}
  BY ONLY <1>3, <1>5
<1>9. HeldBack'
  BY <1>1, <1>5, <1>8 DEF HeldBack
<1>10. ASSUME TRUE \notin SpecialMask PROVE NoSpecialMask'
  <2>1. NoSpecialMask
    BY <1>10 DEF IInv
  <2>2. QED
    BY <1>5, <1>8, <2>1 DEF NoSpecialMask
<1>11. ASSUME Disciplined PROVE Discipline'
  <2>1. SlaveSide /\ OwnFrames /\ Owned
    BY <1>11, UnderDiscipline
  <2>2. Len(frames) = 0 /\ Len(frames') = 0
    BY <1>6 DEF ICW1
  <2>3. Owned'
    <3>1. ASSUME NEW d \in Chips PROVE Matched(d, pic'[d].ISR, frames')
      <4>1. CASE d = c
        BY <1>8, <2>2, <4>1 DEF Matched
      <4>2. CASE d # c
        BY <1>5, <1>6, <2>1, <4>2 DEF Owned
      <4>3. QED
        BY <4>1, <4>2
    <3>2. QED
      BY <3>1 DEF Owned
  <2>4. OwnFrames'
    BY <2>2 DEF OwnFrames
  <2>5. SlaveSide'
    <3>1. CASE c = 0
      <4>1. pic'[1] = pic[1]
        BY <1>5, <3>1 DEF Chips
      <4>2. CASCADED \notin Requests(0)'
        BY <1>8, <3>1 DEF Requests
      <4>3. QED
        BY <1>8, <2>1, <3>1, <4>1, <4>2 DEF SlaveSide
    <3>2. CASE c = 1
      <4>1. pic'[0] = pic[0] /\ 8 + CASCADED \notin Lines
        <5>1. pic'[0] = pic[0]
          BY <1>5, <3>2 DEF Chips
        <5>2. 1 \in Initialised
          BY <3>2
        <5>3. QED
          BY <1>11, <5>1, <5>2 DEF Disciplined
      <4>2. Requests(0)' = Requests(0)
        BY <4>1 DEF Requests
      <4>3. CASCADED \notin Requests(0)
        BY <2>1, <4>1 DEF SlaveSide
      <4>4. QED
        BY <1>8, <2>1, <3>2, <4>1, <4>2, <4>3 DEF SlaveSide
    <3>3. QED
      BY <1>2, <3>1, <3>2 DEF Chips
  <2>6. QED
    BY <2>3, <2>4, <2>5 DEF Discipline
<1>12. QED
  BY <1>7, <1>9, <1>10, <1>11 DEF IInv

(* The second and the third word of the initialisation. *)
LEMMA ICW2or3Keeps ==
  ASSUME IInv, NEW c \in Initialised, ICW2or3(c)
  PROVE  IInv'
<1>1. TypeOK /\ HeldBack
  BY DEF IInv
<1>2. c \in Chips
  BY PicAssumption
<1>3. PICK x : x = [initializing |-> pic[c].initializing + 1, auto_eoi |-> pic[c].auto_eoi,
                     special_nest |-> pic[c].special_nest, special_mask |-> pic[c].special_mask,
                     IMR |-> pic[c].IMR, IRR |-> pic[c].IRR,
                     ISR |-> pic[c].ISR, pending |-> pic[c].pending]
  OBVIOUS
<1>4. IsUpdated(pic, c, x, pic')
  BY <1>1, <1>2, <1>3, ICW2or3Effect, Zenon
<1>5. /\ pic' \in [Chips -> Chip]
      /\ pic'[c] = x
      /\ \A d \in Chips \ {c} : pic'[d] = pic[d]
  BY <1>4, Zenon DEF IsUpdated
<1>6. frames' = frames /\ IFlag' = IFlag
  BY DEF ICW2or3
<1>7. TypeOK'
  BY <1>1, <1>5, <1>6 DEF TypeOK
<1>8. /\ pic'[c].initializing = pic[c].initializing + 1
      /\ pic'[c].special_mask = pic[c].special_mask
      /\ pic'[c].special_nest = pic[c].special_nest
      /\ pic'[c].IMR = pic[c].IMR
      /\ pic'[c].IRR = pic[c].IRR
      /\ pic'[c].ISR = pic[c].ISR
      /\ pic'[c].pending = pic[c].pending
  BY ONLY <1>3, <1>5
<1>9. HeldBack'
  BY <1>1, <1>5, <1>8 DEF HeldBack, ICW2or3
<1>10. ASSUME TRUE \notin SpecialMask PROVE NoSpecialMask'
  <2>1. NoSpecialMask
    BY <1>10 DEF IInv
  <2>2. QED
    BY <1>5, <1>8, <2>1 DEF NoSpecialMask
<1>11. \A d \in Chips : pic'[d].ISR = pic[d].ISR
  BY <1>5, <1>8
<1>12. Disciplined => OwnFrames' /\ Owned'
  BY <1>6, <1>11, OwnedKept
<1>13. ASSUME Disciplined PROVE SlaveSide'
  <2>1. SlaveSide
    BY <1>13, UnderDiscipline
  <2>2. CASE c = 0
    <3>1. c = 0 /\ pic'[1] = pic[1]
      BY <1>5, <2>2 DEF Chips
    <3>2. Requests(0)' = Requests(0)
      BY <1>8, <3>1 DEF Requests, ICW2or3, Chips
    <3>3. QED
      BY <1>8, <2>1, <3>1, <3>2 DEF SlaveSide
  <2>3. CASE c = 1
    <3>1. c = 1 /\ pic'[0] = pic[0]
      BY <1>5, <2>3 DEF Chips
    <3>2. Requests(0)' = Requests(0)
      BY <3>1 DEF Requests
    <3>3. 8 + CASCADED \notin Lines /\ CASCADED \notin Requests(0)
      BY <1>13, <2>1, <3>1 DEF Disciplined, SlaveSide
    <3>4. QED
      BY <1>8, <2>1, <3>1, <3>2, <3>3 DEF SlaveSide
  <2>4. QED
    BY <1>2, <2>2, <2>3 DEF Chips
<1>14. QED
  BY <1>7, <1>9, <1>10, <1>12, <1>13 DEF IInv, Discipline

(* The end of the initialisation: the requests held back reach the IRR. *)
LEMMA ICW4Keeps ==
  ASSUME IInv, NEW c \in Initialised, NEW ae \in AutoEoi, NEW sn \in SpecialNest, ICW4(c, ae, sn)
  PROVE  IInv'
<1>1. TypeOK /\ HeldBack
  BY DEF IInv
<1>2. c \in Chips /\ ae \in BOOLEAN /\ sn \in BOOLEAN
  BY PicAssumption DEF Chips
<1>3. PICK x : x = [initializing |-> 0, auto_eoi |-> ae,
                     special_nest |-> sn, special_mask |-> pic[c].special_mask,
                     IMR |-> pic[c].IMR, IRR |-> pic[c].pending,
                     ISR |-> pic[c].ISR, pending |-> pic[c].pending]
  OBVIOUS
<1>4. IsUpdated(pic, c, x, pic')
  BY <1>1, <1>2, <1>3, ICW4Effect, Zenon
<1>5. /\ pic' \in [Chips -> Chip]
      /\ pic'[c] = x
      /\ \A d \in Chips \ {c} : pic'[d] = pic[d]
  BY <1>4, Zenon DEF IsUpdated
<1>6. frames' = frames /\ IFlag' = IFlag
  BY DEF ICW4
<1>7. TypeOK'
  BY <1>1, <1>5, <1>6 DEF TypeOK
<1>8. /\ pic'[c].initializing = 0
      /\ pic'[c].special_mask = pic[c].special_mask
      /\ pic'[c].special_nest = sn
      /\ pic'[c].IMR = pic[c].IMR
      /\ pic'[c].IRR = pic[c].pending
      /\ pic'[c].ISR = pic[c].ISR
      /\ pic'[c].pending = pic[c].pending
  BY ONLY <1>3, <1>5
<1>9. HeldBack'
  BY <1>1, <1>5, <1>8 DEF HeldBack
<1>10. ASSUME TRUE \notin SpecialMask PROVE NoSpecialMask'
  <2>1. NoSpecialMask
    BY <1>10 DEF IInv
  <2>2. QED
    BY <1>5, <1>8, <2>1 DEF NoSpecialMask
<1>11. \A d \in Chips : pic'[d].ISR = pic[d].ISR
  BY <1>5, <1>8
<1>12. Disciplined => OwnFrames' /\ Owned'
  BY <1>6, <1>11, OwnedKept
<1>13. ASSUME Disciplined PROVE SlaveSide'
  <2>1. SlaveSide
    BY <1>13, UnderDiscipline
  <2>2. CASE c = 0
    <3>1. c = 0 /\ pic'[1] = pic[1]
      BY <1>5, <2>2 DEF Chips
    <3>2. Requests(0)' \subseteq Requests(0)
      BY <1>8, <3>1 DEF Requests, ICW4
    <3>3. QED
      BY <1>2, <1>13, <1>8, <2>1, <3>1, <3>2 DEF SlaveSide, Disciplined
  <2>3. CASE c = 1
    <3>1. c = 1 /\ pic'[0] = pic[0]
      BY <1>5, <2>3 DEF Chips
    <3>2. Requests(0)' = Requests(0)
      BY <3>1 DEF Requests
    <3>3. 8 + CASCADED \notin Lines /\ CASCADED \notin Requests(0)
      BY <1>13, <2>1, <3>1 DEF Disciplined, SlaveSide
    <3>4. QED
      BY <1>8, <2>1, <3>1, <3>2, <3>3 DEF SlaveSide
  <2>4. QED
    BY <1>2, <2>2, <2>3 DEF Chips
<1>14. QED
  BY <1>7, <1>9, <1>10, <1>12, <1>13 DEF IInv, Discipline

(* A program writes a mask. *)
LEMMA OCW1Keeps ==
  ASSUME IInv, NEW c \in Chips, NEW m \in Masks[c], OCW1(c, m)
  PROVE  IInv'
<1>1. TypeOK /\ HeldBack
  BY DEF IInv
<1>2. c \in Chips /\ m \in SUBSET Levels
  BY PicAssumption DEF Chips
<1>3. PICK x : x = [initializing |-> pic[c].initializing, auto_eoi |-> pic[c].auto_eoi,
                     special_nest |-> pic[c].special_nest, special_mask |-> pic[c].special_mask,
                     IMR |-> m, IRR |-> pic[c].IRR,
                     ISR |-> pic[c].ISR, pending |-> pic[c].pending]
  OBVIOUS
<1>4. IsUpdated(pic, c, x, pic')
  BY <1>1, <1>2, <1>3, OCW1Effect, Zenon
<1>5. /\ pic' \in [Chips -> Chip]
      /\ pic'[c] = x
      /\ \A d \in Chips \ {c} : pic'[d] = pic[d]
  BY <1>4, Zenon DEF IsUpdated
<1>6. frames' = frames /\ IFlag' = IFlag
  BY DEF OCW1
<1>7. TypeOK'
  BY <1>1, <1>5, <1>6 DEF TypeOK
<1>8. /\ pic'[c].initializing = pic[c].initializing
      /\ pic'[c].special_mask = pic[c].special_mask
      /\ pic'[c].special_nest = pic[c].special_nest
      /\ pic'[c].IMR = m
      /\ pic'[c].IRR = pic[c].IRR
      /\ pic'[c].ISR = pic[c].ISR
      /\ pic'[c].pending = pic[c].pending
  BY ONLY <1>3, <1>5
<1>9. HeldBack'
  BY <1>1, <1>5, <1>8 DEF HeldBack
<1>10. ASSUME TRUE \notin SpecialMask PROVE NoSpecialMask'
  <2>1. NoSpecialMask
    BY <1>10 DEF IInv
  <2>2. QED
    BY <1>5, <1>8, <2>1 DEF NoSpecialMask
<1>11. \A d \in Chips : pic'[d].ISR = pic[d].ISR
  BY <1>5, <1>8
<1>12. Disciplined => OwnFrames' /\ Owned'
  BY <1>6, <1>11, OwnedKept
<1>13. ASSUME Disciplined PROVE SlaveSide'
  <2>1. SlaveSide
    BY <1>13, UnderDiscipline
  <2>2. CASE c = 0
    <3>1. c = 0 /\ pic'[1] = pic[1]
      BY <1>5, <2>2 DEF Chips
    <3>2. Requests(0)' = Requests(0)
      BY <1>8, <3>1 DEF Requests
    <3>3. QED
      BY <1>8, <2>1, <3>1, <3>2 DEF SlaveSide
  <2>3. CASE c = 1
    <3>1. c = 1 /\ pic'[0] = pic[0]
      BY <1>5, <2>3 DEF Chips
    <3>2. Requests(0)' = Requests(0)
      BY <3>1 DEF Requests
    <3>3. CASCADED \in Requests(0) => CASCADED \notin m
      BY <1>13, <2>1, <3>1 DEF Disciplined, SlaveSide
    <3>4. QED
      BY <1>8, <2>1, <3>1, <3>2, <3>3 DEF SlaveSide
  <2>4. QED
    BY <1>2, <2>2, <2>3 DEF Chips
<1>14. QED
  BY <1>7, <1>9, <1>10, <1>12, <1>13 DEF IInv, Discipline

(* A program sets or resets special mask mode. *)
LEMMA OCW3Keeps ==
  ASSUME IInv, NEW c \in Chips, NEW sm \in SpecialMask, OCW3(c, sm)
  PROVE  IInv'
<1>1. TypeOK /\ HeldBack
  BY DEF IInv
<1>2. c \in Chips /\ sm \in BOOLEAN
  BY PicAssumption DEF Chips
<1>3. PICK x : x = [initializing |-> pic[c].initializing, auto_eoi |-> pic[c].auto_eoi,
                     special_nest |-> pic[c].special_nest, special_mask |-> sm,
                     IMR |-> pic[c].IMR, IRR |-> pic[c].IRR,
                     ISR |-> pic[c].ISR, pending |-> pic[c].pending]
  OBVIOUS
<1>4. IsUpdated(pic, c, x, pic')
  BY <1>1, <1>2, <1>3, OCW3Effect, Zenon
<1>5. /\ pic' \in [Chips -> Chip]
      /\ pic'[c] = x
      /\ \A d \in Chips \ {c} : pic'[d] = pic[d]
  BY <1>4, Zenon DEF IsUpdated
<1>6. frames' = frames /\ IFlag' = IFlag
  BY DEF OCW3
<1>7. TypeOK'
  BY <1>1, <1>5, <1>6 DEF TypeOK
<1>8. /\ pic'[c].initializing = pic[c].initializing
      /\ pic'[c].special_mask = sm
      /\ pic'[c].special_nest = pic[c].special_nest
      /\ pic'[c].IMR = pic[c].IMR
      /\ pic'[c].IRR = pic[c].IRR
      /\ pic'[c].ISR = pic[c].ISR
      /\ pic'[c].pending = pic[c].pending
  BY ONLY <1>3, <1>5
<1>9. HeldBack'
  BY <1>1, <1>5, <1>8 DEF HeldBack
<1>10. ASSUME TRUE \notin SpecialMask PROVE NoSpecialMask'
  <2>1. NoSpecialMask
    BY <1>10 DEF IInv
  <2>2. sm = FALSE
    BY <1>2, <1>10
  <2>3. QED
    BY <1>5, <1>8, <2>1, <2>2 DEF NoSpecialMask
<1>11. \A d \in Chips : pic'[d].ISR = pic[d].ISR
  BY <1>5, <1>8
<1>12. Disciplined => OwnFrames' /\ Owned'
  BY <1>6, <1>11, OwnedKept
<1>13. ASSUME Disciplined PROVE SlaveSide'
  <2>1. SlaveSide
    BY <1>13, UnderDiscipline
  <2>2. CASE c = 0
    <3>1. c = 0 /\ pic'[1] = pic[1]
      BY <1>5, <2>2 DEF Chips
    <3>2. Requests(0)' = Requests(0)
      BY <1>8, <3>1 DEF Requests
    <3>3. QED
      BY <1>8, <2>1, <3>1, <3>2 DEF SlaveSide
  <2>3. CASE c = 1
    <3>1. c = 1 /\ pic'[0] = pic[0]
      BY <1>5, <2>3 DEF Chips
    <3>2. Requests(0)' = Requests(0)
      BY <3>1 DEF Requests
    <3>3. QED
      BY <1>8, <2>1, <3>1, <3>2 DEF SlaveSide
  <2>4. QED
    BY <1>2, <2>2, <2>3 DEF Chips
<1>14. QED
  BY <1>7, <1>9, <1>10, <1>12, <1>13 DEF IInv, Discipline

(* The innermost handler acknowledges, and levels of one chip end. *)
LEMMA EOIKeeps ==
  ASSUME IInv, NEW c \in Chips, NEW s, s \subseteq pic[c].ISR, NEW d,
         pic' = [pic EXCEPT ![c] = [@ EXCEPT !.ISR = s]],
         IsAcked(frames, d, frames'), IFlag' = IFlag,
         Disciplined => \A e \in Chips : Matched(e, IF e = c THEN s ELSE pic[e].ISR, frames')
  PROVE  IInv'
<1>1. TypeOK /\ HeldBack
  BY DEF IInv
<1>2. pic[c] \in Chip
  BY <1>1 DEF TypeOK
<1>3. s \subseteq Levels
  <2>1. pic[c].ISR \subseteq Levels
    BY <1>2, ChipFields
  <2>2. QED
    BY <2>1
<1>4. IsServing(pic, c, pic[c].IRR, s, pic[c].pending, pic')
  BY <1>1, <1>3, EOIEffect, Zenon
<1>5. /\ pic' \in [Chips -> Chip]
      /\ \A e \in Chips : SameModes(pic[e], pic'[e])
      /\ \A e \in Chips \ {c} : pic'[e] = pic[e]
      /\ pic'[c].IRR = pic[c].IRR
      /\ pic'[c].ISR = s
      /\ pic'[c].pending = pic[c].pending
  BY <1>4, Zenon DEF IsServing
<1>6. frames' \in Seq(Frame)
  BY DEF IsAcked
<1>7. TypeOK'
  BY <1>1, <1>5, <1>6 DEF TypeOK
<1>8. ASSUME NEW e \in Chips
      PROVE  /\ pic'[e].initializing = pic[e].initializing
             /\ pic'[e].special_nest = pic[e].special_nest
             /\ pic'[e].IMR = pic[e].IMR
  BY <1>5, Zenon DEF SameModes
<1>9. ASSUME NEW e \in Chips
      PROVE  /\ pic'[e].IRR = pic[e].IRR
             /\ pic'[e].pending = pic[e].pending
             /\ pic'[e].ISR \subseteq pic[e].ISR
             /\ pic'[e].ISR = IF e = c THEN s ELSE pic[e].ISR
  BY <1>5
<1>10. HeldBack'
  BY <1>1, <1>8, <1>9 DEF HeldBack
<1>11. TRUE \notin SpecialMask => NoSpecialMask'
  BY <1>5, NoSpecialMaskKept
<1>12. ASSUME Disciplined PROVE Discipline'
  <2>1. SlaveSide /\ OwnFrames
    BY <1>12, UnderDiscipline
  <2>2. SlaveSide'
    <3>1. /\ pic'[1].IRR = pic[1].IRR /\ pic'[1].pending = pic[1].pending
          /\ pic'[1].ISR \subseteq pic[1].ISR
          /\ pic'[0].IRR = pic[0].IRR /\ pic'[0].pending = pic[0].pending
          /\ pic'[1].IMR = pic[1].IMR
          /\ pic'[0].special_nest = pic[0].special_nest
          /\ pic'[0].initializing = pic[0].initializing
          /\ pic'[1].initializing = pic[1].initializing
      BY <1>8, <1>9 DEF Chips
    <3>2. Requests(0)' = Requests(0)
      BY <3>1 DEF Requests
    <3>3. QED
      BY <2>1, <3>1, <3>2 DEF SlaveSide
  <2>3. OwnFrames'
    <3>1. Len(frames') = Len(frames) /\ Len(frames) \in Nat
      BY LenProperties DEF IsAcked
    <3>2. ASSUME NEW i \in 1 .. Len(frames') PROVE OwnFrame(frames'[i])
      <4>1. OwnFrame(frames[i])
        BY <2>1, <3>1 DEF OwnFrames
      <4>2. frames'[i].irq = frames[i].irq /\ frames'[i].due \subseteq frames[i].due
        <5>1. CASE i = 1
          BY <5>1 DEF IsAcked
        <5>2. CASE i # 1
          <6>1. i \in 2 .. Len(frames)
            BY <3>1, <5>2
          <6>2. QED
            BY <6>1 DEF IsAcked
        <5>3. QED
          BY <5>1, <5>2
      <4>3. QED
        BY <4>1, <4>2 DEF OwnFrame
    <3>3. QED
      BY <3>2 DEF OwnFrames, OwnFrame
  <2>4. ASSUME NEW e \in Chips PROVE Matched(e, pic'[e].ISR, frames')
    <3>1. Matched(e, IF e = c THEN s ELSE pic[e].ISR, frames')
      BY <1>12
    <3>2. QED
      BY <1>9, <3>1
  <2>5. Owned'
    BY <2>4 DEF Owned
  <2>6. QED
    BY <2>2, <2>3, <2>5 DEF Discipline
<1>13. QED
  BY <1>7, <1>10, <1>11, <1>12 DEF IInv

(* The innermost handler has acknowledged to chip c. *)
LEMMA AcknowledgesFacts ==
  ASSUME TypeOK, NEW c \in Chips, Acknowledges(c)
  PROVE  /\ IsAcked(frames, frames[1].due \ {c}, frames')
         /\ c \in frames[1].due
         /\ frames[1].irq \in 0 .. 15
         /\ Head(frames) = frames[1]
         /\ IFlag' = IFlag
<1>1. frames \in Seq(Frame) /\ frames # <<>>
  BY DEF TypeOK, Acknowledges
<1>2. Len(frames) \in Nat \ {0}
  BY <1>1, EmptySeq
<1>3. Head(frames) = frames[1] /\ 1 \in 1 .. Len(frames)
  BY <1>1, <1>2
<1>4. frames[1].irq \in 0 .. 15
  BY <1>1, <1>3, FrameFields
<1>5. PICK d : d = frames[1].due \ {c}
  OBVIOUS
<1>6. frames' = [frames EXCEPT ![1].due = d]
  BY <1>5 DEF Acknowledges
<1>7. d \subseteq Head(frames).due
  BY <1>3, <1>5
<1>8. PICK fr : fr = frames
  OBVIOUS
<1>9. fr \in Seq(Frame) /\ fr # <<>> /\ d \subseteq Head(fr).due
  BY <1>1, <1>7, <1>8
<1>10. IsAcked(fr, d, [fr EXCEPT ![1].due = d])
  BY ONLY <1>9, Acknowledged
<1>11. QED
  BY <1>3, <1>4, <1>5, <1>6, <1>8, <1>10, Zenon DEF Acknowledges

(* The level that an acknowledgement ends, on the chip that is told. *)
LEMMA AcknowledgesMatched ==
  ASSUME IInv, Disciplined, NEW c \in Chips, Acknowledges(c)
  PROVE  /\ LevelOn(c, frames[1].irq) \in pic[c].ISR
         /\ \A h \in pic[c].ISR : LevelOn(c, frames[1].irq) <= h
         /\ \A e \in Chips :
               Matched(e, IF e = c THEN pic[c].ISR \ {LevelOn(c, frames[1].irq)} ELSE pic[e].ISR, frames')
<1>1. Owned /\ TypeOK
  BY UnderDiscipline DEF IInv
<1>2. PICK fr, g, l, d : /\ fr = frames /\ g = frames'
                         /\ l = LevelOn(c, frames[1].irq) /\ d = frames[1].due \ {c}
  OBVIOUS
<1>3. IsAcked(fr, d, g) /\ c \in fr[1].due /\ c \notin d /\ l = LevelOn(c, fr[1].irq)
  BY <1>1, <1>2, AcknowledgesFacts
<1>4. PICK s : s = pic[c].ISR
  OBVIOUS
<1>5. Matched(c, s, fr)
  BY <1>1, <1>2, <1>4 DEF Owned
<1>6. l \in s /\ (\A h \in s : l <= h) /\ Matched(c, s \ {l}, g)
  <2>1. Matched(c, s \ {l}, g)
    BY ONLY c \in Chips, <1>3, <1>5, MatchedAcked
  <2>2. l \in s
    BY ONLY c \in Chips, <1>3, <1>5, <2>1, MatchedAcked
  <2>3. ASSUME NEW h \in s PROVE l <= h
    BY ONLY c \in Chips, <1>3, <1>5, <2>1, h \in s, MatchedAcked
  <2>4. QED
    BY <2>1, <2>2, <2>3
<1>7. ASSUME NEW e \in Chips
      PROVE  Matched(e, IF e = c THEN s \ {l} ELSE pic[e].ISR, g)
  <2>1. CASE e = c
    BY <1>6, <2>1
  <2>2. CASE e # c
    <3>1. e \in d <=> e \in fr[1].due
      BY <1>2, <2>2
    <3>2. PICK t : t = pic[e].ISR
      OBVIOUS
    <3>3. Matched(e, t, fr)
      BY <1>1, <1>2, <3>2 DEF Owned
    <3>4. Matched(e, t, g)
      BY ONLY e \in Chips, <1>3, <3>1, <3>3, MatchedAckedElsewhere
    <3>5. QED
      BY <2>2, <3>2, <3>4
  <2>3. QED
    BY <2>1, <2>2
<1>8. QED
  BY <1>2, <1>4, <1>6, <1>7, Zenon

(* A handler ends its interrupt with an EOI that names its line. *)
LEMMA SpecificKeeps ==
  ASSUME IInv, NEW c \in Chips, OCW2Specific(c)
  PROVE  IInv'
<1>1. TypeOK /\ Acknowledges(c)
  BY DEF IInv, OCW2Specific
<1>2. PICK l, s, d : /\ l = LevelOn(c, frames[1].irq) /\ s = pic[c].ISR \ {l}
                     /\ d = frames[1].due \ {c}
  OBVIOUS
<1>3. IsAcked(frames, d, frames') /\ Head(frames) = frames[1] /\ IFlag' = IFlag
  BY <1>1, <1>2, AcknowledgesFacts
<1>4. pic' = [pic EXCEPT ![c] = [@ EXCEPT !.ISR = s]]
  BY <1>2, <1>3 DEF OCW2Specific, Specific
<1>5. s \subseteq pic[c].ISR
  BY <1>2
<1>6. ASSUME Disciplined
      PROVE  \A e \in Chips : Matched(e, IF e = c THEN s ELSE pic[e].ISR, frames')
  BY <1>1, <1>2, <1>6, AcknowledgesMatched, Zenon
<1>7. QED
  BY <1>3, <1>4, <1>5, <1>6, EOIKeeps, Zenon

(* A handler ends its interrupt with an EOI that names no line. *)
LEMMA NonSpecificKeeps ==
  ASSUME IInv, NEW c \in Chips, OCW2NonSpecific(c)
  PROVE  IInv'
<1>1. TypeOK /\ Acknowledges(c)
  BY DEF IInv, OCW2NonSpecific
<1>2. PICK a : a = pic[c]
  OBVIOUS
<1>3. a \in Chip
  BY <1>1, <1>2 DEF TypeOK
<1>4. PICK s, d : /\ s = IF a.ISR = {} THEN a.ISR ELSE a.ISR \ {Min(a.ISR)}
                  /\ d = frames[1].due \ {c}
  OBVIOUS
<1>5. IsAcked(frames, d, frames') /\ IFlag' = IFlag
  BY <1>1, <1>4, AcknowledgesFacts
<1>6. NonSpecific(a) = [a EXCEPT !.ISR = s]
  <2>1. a = [initializing |-> a.initializing, auto_eoi |-> a.auto_eoi,
             special_nest |-> a.special_nest, special_mask |-> a.special_mask,
             IMR |-> a.IMR, IRR |-> a.IRR, ISR |-> a.ISR, pending |-> a.pending]
    BY <1>3, ChipFields
  <2>2. CASE a.ISR = {}
    <3>1. s = a.ISR /\ NonSpecific(a) = a
      BY <1>4, <2>2 DEF NonSpecific
    <3>2. [a EXCEPT !.ISR = a.ISR] = a
      BY ONLY <2>1
    <3>3. QED
      BY <3>1, <3>2
  <2>3. CASE a.ISR # {}
    BY <1>4, <2>3 DEF NonSpecific
  <2>4. QED
    BY <2>2, <2>3
<1>7. pic' = [pic EXCEPT ![c] = [@ EXCEPT !.ISR = s]]
  BY <1>2, <1>6 DEF OCW2NonSpecific
<1>8. s \subseteq pic[c].ISR
  BY <1>2, <1>4
<1>9. ASSUME Disciplined
      PROVE  \A e \in Chips : Matched(e, IF e = c THEN s ELSE pic[e].ISR, frames')
  <2>1. PICK l : l = LevelOn(c, frames[1].irq)
    OBVIOUS
  <2>2. /\ l \in pic[c].ISR
        /\ \A h \in pic[c].ISR : l <= h
        /\ \A e \in Chips : Matched(e, IF e = c THEN pic[c].ISR \ {l} ELSE pic[e].ISR, frames')
    BY <1>1, <1>9, <2>1, AcknowledgesMatched, Zenon
  <2>3. PICK t : t = a.ISR
    OBVIOUS
  <2>4. t \subseteq Nat
    <3>1. t \subseteq Levels
      BY <1>3, <2>3, ChipFields
    <3>2. QED
      BY <3>1 DEF Levels
  <2>5. t # {} /\ l \in t /\ \A h \in t : l <= h
    BY <1>2, <2>2, <2>3
  <2>6. Min(t) \in t /\ \A y \in t : Min(t) <= y
    BY <2>4, <2>5, MinProperty
  <2>7. Min(t) = l
    <3>1. PICK v : v = Min(t)
      OBVIOUS
    <3>2. v \in Nat /\ l \in Nat /\ v <= l /\ l <= v
      BY <2>4, <2>5, <2>6, <3>1
    <3>3. v = l
      BY ONLY <3>2
    <3>4. QED
      BY <3>1, <3>3
  <2>8. s = pic[c].ISR \ {l}
    BY <1>2, <1>4, <2>3, <2>5, <2>7
  <2>9. QED
    BY <2>2, <2>8
<1>10. QED
  BY <1>5, <1>7, <1>8, <1>9, EOIKeeps, Zenon

(* The BIOS ends the interrupt of its handler on the master. *)
LEMMA BiosEOIKeeps ==
  ASSUME IInv, pic_eoi
  PROVE  IInv'
<1>1. /\ TypeOK
      /\ frames # <<>>
      /\ Head(frames).irq \in BiosLines
      /\ Head(frames).due # {}
      /\ pic' = [pic EXCEPT ![0] = Specific(@, LevelOf(Head(frames).irq))]
      /\ frames' = [frames EXCEPT ![1].due = {}]
      /\ IFlag' = IFlag
  BY DEF IInv, pic_eoi
<1>2. frames \in Seq(Frame)
  BY <1>1 DEF TypeOK
<1>3. Len(frames) \in Nat \ {0}
  BY <1>1, <1>2, EmptySeq
<1>4. Head(frames) = frames[1] /\ 1 \in 1 .. Len(frames)
  BY <1>2, <1>3
<1>5. PICK fr, g, d : fr = frames /\ g = frames' /\ d = {}
  OBVIOUS
<1>6. fr \in Seq(Frame) /\ fr # <<>> /\ d \subseteq Head(fr).due /\ g = [fr EXCEPT ![1].due = d]
  BY <1>1, <1>2, <1>5
<1>7. IsAcked(fr, d, g)
  <2>1. IsAcked(fr, d, [fr EXCEPT ![1].due = d])
    BY ONLY <1>6, Acknowledged
  <2>2. QED
    BY <1>6, <2>1, Zenon
<1>8. PICK l, s : l = LevelOf(frames[1].irq) /\ s = pic[0].ISR \ {l}
  OBVIOUS
<1>9. pic' = [pic EXCEPT ![0] = [@ EXCEPT !.ISR = s]]
  BY <1>1, <1>4, <1>8 DEF Specific
<1>10. s \subseteq pic[0].ISR /\ 0 \in Chips
  BY <1>8 DEF Chips
<1>11. ASSUME Disciplined
       PROVE  \A e \in Chips : Matched(e, IF e = 0 THEN s ELSE pic[e].ISR, g)
  <2>1. Owned /\ OwnFrames
    BY <1>11, UnderDiscipline
  <2>2. fr[1].irq \in Levels
    BY <1>1, <1>4, <1>5, <1>11 DEF Disciplined
  <2>3. fr[1].due = {0}
    BY <1>1, <1>4, <1>5, <2>1, <2>2 DEF OwnFrames, OwnFrame
  <2>4. l = LevelOn(0, fr[1].irq)
    BY <1>5, <1>8, <2>2 DEF LevelOn, ChipOf, Levels
  <2>5. PICK t : t = pic[0].ISR
    OBVIOUS
  <2>6. Matched(0, t, fr)
    BY <1>5, <1>10, <2>1, <2>5 DEF Owned
  <2>7. 0 \notin d /\ 0 \in fr[1].due
    BY <1>5, <2>3
  <2>8. Matched(0, t \ {l}, g)
    BY ONLY <1>7, <1>10, <2>4, <2>6, <2>7, MatchedAcked
  <2>9. ASSUME NEW e \in Chips, e # 0 PROVE Matched(e, pic[e].ISR, g)
    <3>1. e \in d <=> e \in fr[1].due
      BY <1>5, <2>3, <2>9
    <3>2. PICK u : u = pic[e].ISR
      OBVIOUS
    <3>3. Matched(e, u, fr)
      BY <1>5, <2>1, <3>2 DEF Owned
    <3>4. Matched(e, u, g)
      BY ONLY e \in Chips, <1>7, <3>1, <3>3, MatchedAckedElsewhere
    <3>5. QED
      BY <3>2, <3>4
  <2>10. ASSUME NEW e \in Chips PROVE Matched(e, IF e = 0 THEN s ELSE pic[e].ISR, g)
    <3>1. CASE e = 0
      BY <1>8, <2>5, <2>8, <3>1
    <3>2. CASE e # 0
      BY <2>9, <3>2
    <3>3. QED
      BY <3>1, <3>2
  <2>11. QED
    BY <2>10
<1>12. IsAcked(frames, d, frames')
  BY <1>5, <1>7
<1>13. Disciplined => \A e \in Chips : Matched(e, IF e = 0 THEN s ELSE pic[e].ISR, frames')
  BY <1>5, <1>11, Zenon
<1>14. QED
  BY <1>1, <1>9, <1>10, <1>12, <1>13, EOIKeeps, Zenon

(* A step that leaves the chips and the handlers alone. *)
LEMMA ChipsAlone ==
  ASSUME IInv, pic' = pic, frames' = frames, IFlag' \in BOOLEAN
  PROVE  IInv'
<1>1. TypeOK'
  BY DEF IInv, TypeOK
<1>2. HeldBack' /\ (TRUE \notin SpecialMask => NoSpecialMask')
  BY DEF IInv, HeldBack, NoSpecialMask
<1>3. Disciplined => OwnFrames' /\ Owned'
  BY OwnedKept
<1>4. ASSUME Disciplined PROVE SlaveSide'
  <2>1. SlaveSide /\ Requests(0)' = Requests(0)
    BY <1>4, UnderDiscipline DEF Requests
  <2>2. QED
    BY <2>1 DEF SlaveSide
<1>5. QED
  BY <1>1, <1>2, <1>3, <1>4 DEF IInv, Discipline

(* A handler returns. *)
LEMMA ReturnKeeps ==
  ASSUME IInv, IRET
  PROVE  IInv'
<1>1. TypeOK /\ HeldBack
  BY DEF IInv
<1>2. /\ frames # <<>> /\ Head(frames).due = {}
      /\ IFlag' = TRUE /\ frames' = Tail(frames) /\ pic' = pic
  BY DEF IRET
<1>3. PICK fr, g : fr = frames /\ g = frames'
  OBVIOUS
<1>4. IsPopped(fr, g)
  <2>1. fr \in Seq(Frame) /\ fr # <<>> /\ Head(fr).due = {}
    BY <1>1, <1>2, <1>3 DEF TypeOK
  <2>2. IsPopped(fr, Tail(fr))
    BY ONLY <2>1, Popped
  <2>3. QED
    BY <1>2, <1>3, <2>2
<1>5. TypeOK'
  BY <1>1, <1>2, <1>3, <1>4 DEF TypeOK, IsPopped
<1>6. HeldBack' /\ (TRUE \notin SpecialMask => NoSpecialMask')
  BY <1>2 DEF IInv, HeldBack, NoSpecialMask
<1>7. ASSUME Disciplined PROVE Discipline'
  <2>1. SlaveSide /\ OwnFrames /\ Owned
    BY <1>7, UnderDiscipline
  <2>2. SlaveSide'
    <3>1. Requests(0)' = Requests(0)
      BY <1>2 DEF Requests
    <3>2. QED
      BY <1>2, <2>1, <3>1 DEF SlaveSide
  <2>3. OwnFrames'
    <3>1. Len(g) \in Nat /\ Len(fr) \in Nat /\ Len(g) = Len(fr) - 1
      BY <1>4, LenProperties DEF IsPopped
    <3>2. ASSUME NEW i \in 1 .. Len(g) PROVE OwnFrame(g[i])
      <4>1. i + 1 \in 1 .. Len(fr)
        BY <3>1
      <4>2. g[i] = fr[i + 1]
        BY <1>4 DEF IsPopped
      <4>3. QED
        BY <1>3, <2>1, <4>1, <4>2 DEF OwnFrames
    <3>3. QED
      BY <1>3, <3>2 DEF OwnFrames, OwnFrame
  <2>4. ASSUME NEW c \in Chips PROVE Matched(c, pic'[c].ISR, frames')
    <3>1. PICK s : s = pic[c].ISR
      OBVIOUS
    <3>2. Matched(c, s, fr)
      BY <1>3, <2>1, <3>1 DEF Owned
    <3>3. Matched(c, s, g)
      BY ONLY c \in Chips, <1>4, <3>2, MatchedPopped
    <3>4. QED
      BY <1>2, <1>3, <3>1, <3>3
  <2>5. Owned'
    BY <2>4 DEF Owned
  <2>6. QED
    BY <2>2, <2>3, <2>5 DEF Discipline
<1>8. QED
  BY <1>5, <1>6, <1>7 DEF IInv

(* The chips as pic.c declares them. *)
LEMMA InitHolds == Init => IInv
<1>1. SUFFICES ASSUME Init PROVE IInv
  OBVIOUS
<1>2. ASSUME NEW m, m \subseteq Levels PROVE ResetChip(m) \in Chip
  BY <1>2 DEF ResetChip, Chip
<1>3. (IF 0 = 0 THEN 3 .. 7 ELSE Levels) \subseteq Levels
  BY DEF Levels
<1>4. pic[0] = ResetChip(3 .. 7) /\ pic[1] = ResetChip(Levels)
  BY <1>1 DEF Init, Chips
<1>5. ResetChip(3 .. 7) \in Chip /\ ResetChip(Levels) \in Chip
  BY <1>2 DEF Levels
<1>6. pic \in [Chips -> Chip]
  <2>1. \A c \in Chips : ResetChip(IF c = 0 THEN 3 .. 7 ELSE Levels) \in Chip
    BY <1>5 DEF Chips
  <2>2. QED
    BY <1>1, <2>1 DEF Init
<1>7. frames \in Seq(Frame) /\ Len(frames) = 0
  <2>1. frames = <<>>
    BY <1>1 DEF Init
  <2>2. QED
    BY <2>1, EmptySeq
<1>8. TypeOK
  BY <1>1, <1>6, <1>7 DEF TypeOK, Init
<1>9. ASSUME NEW c \in Chips
      PROVE  /\ pic[c].initializing = 0
             /\ pic[c].special_nest = FALSE
             /\ pic[c].special_mask = FALSE
             /\ pic[c].IRR = {}
             /\ pic[c].ISR = {}
             /\ pic[c].pending = {}
  BY <1>4 DEF Chips, ResetChip
<1>10. HeldBack /\ NoSpecialMask
  BY <1>9 DEF HeldBack, NoSpecialMask
<1>11. SlaveSide
  <2>1. Requests(0) = {}
    BY <1>9 DEF Requests, Chips
  <2>2. QED
    BY <1>9, <2>1 DEF SlaveSide, Chips
<1>12. OwnFrames
  BY <1>7 DEF OwnFrames
<1>13. Owned
  <2>1. 1 .. Len(frames) = {}
    BY <1>7
  <2>2. ASSUME NEW c \in Chips PROVE Matched(c, pic[c].ISR, frames)
    BY <1>9, <2>1 DEF Matched
  <2>3. QED
    BY <2>2 DEF Owned
<1>14. QED
  BY <1>8, <1>10, <1>11, <1>12, <1>13 DEF IInv, Discipline

(* Every step keeps the invariant. *)
LEMMA StepKeeps == IInv /\ [Next]_vars => IInv'
<1>1. SUFFICES ASSUME IInv, [Next]_vars PROVE IInv'
  OBVIOUS
<1>2. ASSUME NEW irq \in Lines, cpuTriggerIRQ(irq) PROVE IInv'
  BY <1>1, <1>2, TriggerKeeps
<1>3. ASSUME handle_irq PROVE IInv'
  BY <1>1, <1>3, MasterKeeps, SlaveKeeps, NothingKeeps, LatchKeeps DEF handle_irq
<1>4. ASSUME NEW c \in Initialised, ICW1(c) PROVE IInv'
  BY <1>1, <1>4, ICW1Keeps
<1>5. ASSUME NEW c \in Initialised, ICW2or3(c) PROVE IInv'
  BY <1>1, <1>5, ICW2or3Keeps
<1>6. ASSUME NEW c \in Initialised, NEW a \in AutoEoi, NEW n \in SpecialNest, ICW4(c, a, n)
      PROVE  IInv'
  BY <1>1, <1>6, ICW4Keeps
<1>7. ASSUME NEW c \in Chips, NEW m \in Masks[c], OCW1(c, m) PROVE IInv'
  BY <1>1, <1>7, OCW1Keeps
<1>8. ASSUME NEW c \in Chips, NEW m \in SpecialMask, OCW3(c, m) PROVE IInv'
  BY <1>1, <1>8, OCW3Keeps
<1>9. ASSUME NEW c \in Chips, OCW2NonSpecific(c) PROVE IInv'
  BY <1>1, <1>9, NonSpecificKeeps
<1>10. ASSUME NEW c \in Chips, OCW2Specific(c) PROVE IInv'
  BY <1>1, <1>10, SpecificKeeps
<1>11. ASSUME pic_eoi PROVE IInv'
  BY <1>1, <1>11, BiosEOIKeeps
<1>12. ASSUME NEW flag \in BOOLEAN, SetIFlag(flag) PROVE IInv'
  BY <1>1, <1>12, ChipsAlone DEF SetIFlag
<1>13. ASSUME IRET PROVE IInv'
  BY <1>1, <1>13, ReturnKeeps
<1>14. ASSUME UNCHANGED vars PROVE IInv'
  BY <1>1, <1>14, ChipsAlone DEF vars, IInv, TypeOK
<1>15. QED
  BY <1>1, <1>2, <1>3, <1>4, <1>5, <1>6, <1>7, <1>8, <1>9, <1>10, <1>11, <1>12, <1>13, <1>14
     DEF Next

(* IInv is an invariant. *)
THEOREM Invariant == Spec => []IInv
BY InitHolds, StepKeeps, PTL DEF Spec

(* The registers have their types, whatever programs write to the ports:   *)
(* the count of initialisation words never leaves 0 .. 3 (pic.c:100-127).  *)
THEOREM TypeCorrect == Spec => []TypeOK
<1>1. IInv => TypeOK
  BY DEF IInv
<1>2. QED
  BY <1>1, Invariant, PTL

(* For disciplined programs the chips hold in service what handlers still  *)
(* have to acknowledge, and nothing else.                                  *)
THEOREM ServiceIsOwned == Disciplined => (Spec => []InServiceOwned)
<1>1. Disciplined /\ IInv => InServiceOwned
  BY OwnedInService DEF IInv, Discipline
<1>2. SUFFICES ASSUME Disciplined PROVE Spec => []InServiceOwned
  OBVIOUS
<1>3. IInv => InServiceOwned
  BY <1>1, <1>2
<1>4. QED
  BY <1>3, Invariant, PTL

(* For disciplined programs no handler is interrupted by a line of its own *)
(* or of lower priority before it has acknowledged its interrupt.          *)
THEOREM NestedByPriority == Disciplined => (Spec => []StrictNesting)
<1>1. Disciplined /\ IInv => StrictNesting
  BY OwnedInService DEF IInv, Discipline
<1>2. SUFFICES ASSUME Disciplined PROVE Spec => []StrictNesting
  OBVIOUS
<1>3. IInv => StrictNesting
  BY <1>1, <1>2
<1>4. QED
  BY <1>3, Invariant, PTL

--------------------------------------------------------------------------------
(* Requests that stay, chip by chip. *)
LEMMA RequestsStay ==
  ASSUME NEW c \in Chips, pic'[c].IRR = pic[c].IRR, pic'[c].pending = pic[c].pending,
         pic'[c].initializing = pic[c].initializing
  PROVE  Requests(c)' = Requests(c)
BY DEF Requests

(* What a step takes away from the requests of a chip. *)
Drops(c, S) == Requests(c) \subseteq Requests(c)' \cup S

(* Raising a line takes nothing away. *)
LEMMA TriggerDrops ==
  ASSUME TypeOK, NEW irq \in Lines, cpuTriggerIRQ(irq), NEW c \in Chips
  PROVE  Drops(c, {})
<1>1. irq \in 0 .. 15 /\ pic \in [Chips -> Chip]
  BY PicAssumption DEF TypeOK
<1>2. PICK e \in Chips, l \in Levels : e = ChipOf(irq) /\ l = LevelOf(irq)
  BY <1>1, LevelType DEF Chips
<1>3. PICK r \in SUBSET Levels, w \in SUBSET Levels :
         /\ IsServing(pic, e, r, pic[e].ISR, w, pic')
         /\ pic[e].initializing # 0 => r = pic[e].IRR /\ w = pic[e].pending \cup {l}
         /\ pic[e].initializing = 0 => r = pic[e].IRR \cup {l} /\ w = pic[e].pending
  <2>1. \E r, w \in SUBSET Levels :
            /\ IsServing(pic, ChipOf(irq), r, pic[ChipOf(irq)].ISR, w, Triggered(pic, irq))
            /\ pic[ChipOf(irq)].initializing # 0 =>
                  r = pic[ChipOf(irq)].IRR /\ w = pic[ChipOf(irq)].pending \cup {LevelOf(irq)}
            /\ pic[ChipOf(irq)].initializing = 0 =>
                  r = pic[ChipOf(irq)].IRR \cup {LevelOf(irq)} /\ w = pic[ChipOf(irq)].pending
    BY <1>1, TriggeredServing, Zenon
  <2>2. pic' = Triggered(pic, irq)
    BY DEF cpuTriggerIRQ
  <2>3. QED
    BY <1>2, <2>1, <2>2, Zenon
<1>4. /\ \A d \in Chips : SameModes(pic[d], pic'[d])
      /\ \A d \in Chips \ {e} : pic'[d] = pic[d]
      /\ pic'[e].IRR = r
      /\ pic'[e].pending = w
  BY <1>3, Zenon DEF IsServing
<1>5. pic'[c].initializing = pic[c].initializing
  BY <1>4, Zenon DEF SameModes
<1>6. pic[c].IRR \subseteq pic'[c].IRR /\ pic[c].pending \subseteq pic'[c].pending
  <2>1. CASE c = e
    BY <1>3, <1>4, <2>1
  <2>2. CASE c # e
    BY <1>4, <2>2
  <2>3. QED
    BY <2>1, <2>2
<1>7. QED
  BY <1>5, <1>6 DEF Drops, Requests

(* The master drops the request that it accepts, and the slave the one     *)
(* whose handler starts.                                                   *)
LEMMA MasterDrops ==
  ASSUME TypeOK, NEW l \in Levels, pic' = [Seen EXCEPT ![0] = Acked(@, l, l)], NEW c \in Chips
  PROVE  Drops(c, IF c = 0 THEN {l} ELSE {})
<1>1. /\ \A d \in Chips : SameModes(pic[d], pic'[d])
      /\ pic'[1] = pic[1]
      /\ pic'[0].IRR = Seen[0].IRR \ {l}
      /\ pic'[0].pending = Seen[0].pending
  BY MasterEffect, Zenon
<1>2. pic[0].IRR \subseteq Seen[0].IRR /\ pic[0].pending \subseteq Seen[0].pending
  BY SeenFacts
<1>3. pic'[c].initializing = pic[c].initializing
  BY <1>1, Zenon DEF SameModes
<1>4. c = 0 \/ c = 1
  BY DEF Chips
<1>5. CASE c = 0
  BY <1>1, <1>2, <1>3, <1>5 DEF Drops, Requests
<1>6. CASE c = 1
  BY <1>1, <1>6 DEF Drops, Requests
<1>7. QED
  BY <1>4, <1>5, <1>6

(* The same when the slave's request is accepted. *)
LEMMA SlaveDrops ==
  ASSUME TypeOK, NEW l \in Levels, AcceptSlave(l), NEW c \in Chips
  PROVE  Drops(c, IF c = 0 THEN {CASCADED} ELSE {l})
<1>1. pic' = [Seen EXCEPT ![0] = Acked(@, CASCADED, CASCADED), ![1] = Acked(@, l, CASCADED)]
  BY DEF AcceptSlave
<1>2. /\ \A d \in Chips : SameModes(pic[d], pic'[d])
      /\ pic'[0].IRR = Seen[0].IRR \ {CASCADED}
      /\ pic'[0].pending = Seen[0].pending
      /\ pic'[1].IRR = pic[1].IRR \ {l}
      /\ pic'[1].pending = pic[1].pending
  BY <1>1, SlaveEffect, Zenon
<1>3. pic[0].IRR \subseteq Seen[0].IRR /\ pic[0].pending \subseteq Seen[0].pending
  BY SeenFacts
<1>4. pic'[c].initializing = pic[c].initializing
  BY <1>2, Zenon DEF SameModes
<1>5. c = 0 \/ c = 1
  BY DEF Chips
<1>6. CASE c = 0
  BY <1>2, <1>3, <1>4, <1>6 DEF Drops, Requests
<1>7. CASE c = 1
  BY <1>2, <1>4, <1>7 DEF Drops, Requests
<1>8. QED
  BY <1>5, <1>6, <1>7

(* The initialisation words, masks and modes take nothing away, except     *)
(* ICW1: what was requested meanwhile reaches the IRR with ICW4.           *)
LEMMA WritesDrop ==
  ASSUME TypeOK, HeldBack, NEW e \in Chips, NEW c \in Chips,
         \/ ICW2or3(e)
         \/ \E ae \in BOOLEAN, sn \in BOOLEAN : ICW4(e, ae, sn)
         \/ \E m \in SUBSET Levels : OCW1(e, m)
         \/ \E sm \in BOOLEAN : OCW3(e, sm)
  PROVE  Drops(c, {})
<1>1. ASSUME NEW x, IsUpdated(pic, e, x, pic') PROVE pic'[e] = x /\ (c # e => pic'[c] = pic[c])
  BY <1>1, Zenon DEF IsUpdated
<1>2. CASE c # e
  <2>1. \E x : IsUpdated(pic, e, x, pic')
    BY ICW2or3Effect, ICW4Effect, OCW1Effect, OCW3Effect, Zenon
  <2>2. pic'[c] = pic[c]
    BY <1>1, <1>2, <2>1
  <2>3. QED
    BY <2>2 DEF Drops, Requests
<1>3. CASE c = e
  <2>1. ASSUME ICW2or3(e) PROVE Drops(e, {})
    <3>1. /\ pic'[e].initializing = pic[e].initializing + 1
          /\ pic'[e].IRR = pic[e].IRR
          /\ pic'[e].pending = pic[e].pending
      <4>1. pic'[e] = [initializing |-> pic[e].initializing + 1, auto_eoi |-> pic[e].auto_eoi,
                       special_nest |-> pic[e].special_nest, special_mask |-> pic[e].special_mask,
                       IMR |-> pic[e].IMR, IRR |-> pic[e].IRR,
                       ISR |-> pic[e].ISR, pending |-> pic[e].pending]
        BY <1>1, <2>1, ICW2or3Effect, Zenon
      <4>2. QED
        BY ONLY <4>1
    <3>2. pic[e].initializing \in {1, 2}
      BY <2>1 DEF ICW2or3
    <3>3. QED
      BY <3>1, <3>2 DEF Drops, Requests
  <2>2. ASSUME NEW ae \in BOOLEAN, NEW sn \in BOOLEAN, ICW4(e, ae, sn) PROVE Drops(e, {})
    <3>1. pic'[e].initializing = 0 /\ pic'[e].IRR = pic[e].pending
      <4>1. pic'[e] = [initializing |-> 0, auto_eoi |-> ae,
                       special_nest |-> sn, special_mask |-> pic[e].special_mask,
                       IMR |-> pic[e].IMR, IRR |-> pic[e].pending,
                       ISR |-> pic[e].ISR, pending |-> pic[e].pending]
        BY <1>1, <2>2, ICW4Effect, Zenon
      <4>2. QED
        BY ONLY <4>1
    <3>2. pic[e].initializing = 3 /\ pic[e].IRR = {}
      <4>1. pic[e].initializing = 3
        BY <2>2, Zenon DEF ICW4
      <4>2. QED
        BY <4>1 DEF HeldBack
    <3>3. QED
      BY <3>1, <3>2 DEF Drops, Requests
  <2>3. ASSUME NEW m \in SUBSET Levels, OCW1(e, m) PROVE Drops(e, {})
    <3>1. /\ pic'[e].initializing = pic[e].initializing
          /\ pic'[e].IRR = pic[e].IRR
          /\ pic'[e].pending = pic[e].pending
      <4>1. pic'[e] = [initializing |-> pic[e].initializing, auto_eoi |-> pic[e].auto_eoi,
                       special_nest |-> pic[e].special_nest, special_mask |-> pic[e].special_mask,
                       IMR |-> m, IRR |-> pic[e].IRR,
                       ISR |-> pic[e].ISR, pending |-> pic[e].pending]
        BY <1>1, <2>3, OCW1Effect, Zenon
      <4>2. QED
        BY ONLY <4>1
    <3>2. QED
      BY <3>1 DEF Drops, Requests
  <2>4. ASSUME NEW sm \in BOOLEAN, OCW3(e, sm) PROVE Drops(e, {})
    <3>1. /\ pic'[e].initializing = pic[e].initializing
          /\ pic'[e].IRR = pic[e].IRR
          /\ pic'[e].pending = pic[e].pending
      <4>1. pic'[e] = [initializing |-> pic[e].initializing, auto_eoi |-> pic[e].auto_eoi,
                       special_nest |-> pic[e].special_nest, special_mask |-> sm,
                       IMR |-> pic[e].IMR, IRR |-> pic[e].IRR,
                       ISR |-> pic[e].ISR, pending |-> pic[e].pending]
        BY <1>1, <2>4, OCW3Effect, Zenon
      <4>2. QED
        BY ONLY <4>1
    <3>2. QED
      BY <3>1 DEF Drops, Requests
  <2>5. QED
    BY <1>3, <2>1, <2>2, <2>3, <2>4
<1>4. QED
  BY <1>2, <1>3

(* An EOI takes nothing away. *)
LEMMA EOIDrops ==
  ASSUME TypeOK, NEW e \in Chips, NEW c \in Chips,
         OCW2NonSpecific(e) \/ OCW2Specific(e) \/ (pic_eoi /\ e = 0)
  PROVE  Drops(c, {})
<1>1. PICK a : a = pic[e]
  OBVIOUS
<1>2. a \in Chip /\ pic \in [Chips -> Chip]
  BY <1>1 DEF TypeOK
<1>3. \E x : pic' = [pic EXCEPT ![e] = x] /\ (x = a \/ \E s : x = [a EXCEPT !.ISR = s])
  <2>1. CASE OCW2NonSpecific(e)
    BY <1>1, <2>1 DEF OCW2NonSpecific, NonSpecific
  <2>2. CASE OCW2Specific(e)
    BY <1>1, <2>2 DEF OCW2Specific, Specific
  <2>3. CASE pic_eoi /\ e = 0
    BY <1>1, <2>3 DEF pic_eoi, Specific
  <2>4. QED
    BY <2>1, <2>2, <2>3
<1>4. PICK x : pic' = [pic EXCEPT ![e] = x] /\ (x = a \/ \E s : x = [a EXCEPT !.ISR = s])
  BY <1>3
<1>5. x.IRR = a.IRR /\ x.pending = a.pending /\ x.initializing = a.initializing
  <2>1. CASE x = a
    BY <2>1
  <2>2. ASSUME NEW s, x = [a EXCEPT !.ISR = s]
        PROVE  x.IRR = a.IRR /\ x.pending = a.pending /\ x.initializing = a.initializing
    <3>1. a = [initializing |-> a.initializing, auto_eoi |-> a.auto_eoi,
               special_nest |-> a.special_nest, special_mask |-> a.special_mask,
               IMR |-> a.IMR, IRR |-> a.IRR, ISR |-> a.ISR, pending |-> a.pending]
      BY <1>2, ChipFields
    <3>2. QED
      BY ONLY <2>2, <3>1
  <2>3. QED
    BY <1>4, <2>1, <2>2
<1>6. pic'[e] = x /\ (c # e => pic'[c] = pic[c])
  BY <1>2, <1>4
<1>7. CASE c = e
  BY <1>1, <1>5, <1>6, <1>7 DEF Drops, Requests
<1>8. CASE c # e
  BY <1>6, <1>8 DEF Drops, Requests
<1>9. QED
  BY <1>7, <1>8

(* A request is dropped only by ICW1, by the start of its handler, or, for *)
(* the line of the master to which the slave is wired, by an acceptance.   *)
LEMMA StepDrops ==
  ASSUME IInv, Next, NEW irq \in Lines,
         LevelOf(irq) \in Requests(ChipOf(irq)), LevelOf(irq) \notin Requests(ChipOf(irq))'
  PROVE  Entered(irq) \/ pic'[ChipOf(irq)].initializing = 1
<1>1. TypeOK /\ HeldBack /\ frames \in Seq(Frame)
  BY DEF IInv, TypeOK
<1>2. irq \in 0 .. 15 /\ irq # CASCADED
  BY PicAssumption
<1>3. PICK c \in Chips, k \in Levels : c = ChipOf(irq) /\ k = LevelOf(irq)
  BY <1>2, LevelType DEF Chips
<1>4. ~ Drops(c, {})
  BY <1>3 DEF Drops
<1>5. c = 0 => k = irq /\ k # CASCADED
  BY <1>2, <1>3 DEF ChipOf, LevelOf, CASCADED
<1>6. c = 1 => irq = 8 + k
  BY <1>2, <1>3 DEF ChipOf, LevelOf
<1>7. ASSUME NEW n \in 0 .. 15, Enter(n), irq = n PROVE Entered(irq)
  <2>1. Len(frames') = Len(frames) + 1 /\ frames'[1].irq = irq
    BY <1>1, <1>7, EnterFacts DEF IsPushed
  <2>2. QED
    BY <2>1 DEF Entered
<1>8. ASSUME NEW l \in Lines, cpuTriggerIRQ(l) PROVE FALSE
  BY <1>1, <1>4, <1>8, TriggerDrops
<1>9. ASSUME NEW l \in Levels, AcceptMaster(l) PROVE Entered(irq)
  <2>1. Enter(l) /\ l \in 0 .. 15 /\ pic' = [Seen EXCEPT ![0] = Acked(@, l, l)]
    BY <1>9 DEF AcceptMaster, Levels
  <2>2. Drops(c, IF c = 0 THEN {l} ELSE {})
    BY <1>1, <2>1, MasterDrops, Zenon
  <2>3. c = 0 /\ k = l
    BY <1>3, <1>4, <2>2 DEF Drops
  <2>4. QED
    BY <1>5, <1>7, <2>1, <2>3
<1>10. ASSUME NEW l \in Levels, AcceptSlave(l) PROVE Entered(irq)
  <2>1. Drops(c, IF c = 0 THEN {CASCADED} ELSE {l})
    BY <1>1, <1>10, SlaveDrops, Zenon
  <2>2. c = 1 /\ k = l
    BY <1>3, <1>5, <2>1 DEF Drops, Chips
  <2>3. Enter(8 + l) /\ irq = 8 + l
    BY <1>6, <1>10, <2>2 DEF AcceptSlave
  <2>4. QED
    BY <1>2, <1>7, <2>3
<1>11. ASSUME AcceptNothing PROVE FALSE
  <2>1. PICK l : l = CASCADED
    OBVIOUS
  <2>2. l \in Levels /\ pic' = [Seen EXCEPT ![0] = Acked(@, l, l)]
    BY <1>11, <2>1 DEF AcceptNothing, CASCADED, Levels
  <2>3. Drops(c, IF c = 0 THEN {l} ELSE {})
    BY <1>1, <2>2, MasterDrops, Zenon
  <2>4. QED
    BY <1>3, <1>5, <2>1, <2>3 DEF Drops
<1>12. ASSUME LatchCascade PROVE FALSE
  <2>1. pic' = Seen
    BY <1>12 DEF LatchCascade
  <2>2. /\ SameModes(pic[0], pic'[0])
        /\ pic'[1] = pic[1]
        /\ pic[0].IRR \subseteq pic'[0].IRR
        /\ pic[0].pending \subseteq pic'[0].pending
    BY <1>1, <2>1, SeenFacts DEF Chips
  <2>3. pic'[0].initializing = pic[0].initializing
    BY <2>2, Zenon DEF SameModes
  <2>4. QED
    BY <1>4, <2>2, <2>3 DEF Drops, Requests, Chips
<1>13. ASSUME NEW e \in Initialised, ICW1(e) PROVE pic'[c].initializing = 1
  <2>1. e \in Chips
    BY PicAssumption
  <2>2. PICK x : /\ x = [initializing |-> 1, auto_eoi |-> pic[e].auto_eoi,
                         special_nest |-> pic[e].special_nest, special_mask |-> FALSE,
                         IMR |-> {}, IRR |-> {}, ISR |-> {}, pending |-> {}]
                 /\ IsUpdated(pic, e, x, pic')
    BY <1>1, <1>13, <2>1, ICW1Effect, Zenon
  <2>3. pic'[e] = x /\ (c # e => pic'[c] = pic[c])
    BY <2>2, Zenon DEF IsUpdated
  <2>4. x.initializing = 1
    BY ONLY <2>2
  <2>5. c = e
    BY <1>4, <2>3 DEF Drops, Requests
  <2>6. QED
    BY <2>3, <2>4, <2>5
<1>14. ASSUME NEW e \in Initialised, ICW2or3(e) PROVE FALSE
  BY <1>1, <1>4, <1>14, PicAssumption, WritesDrop
<1>15. ASSUME NEW e \in Initialised, NEW a \in AutoEoi, NEW n \in SpecialNest, ICW4(e, a, n)
       PROVE  FALSE
  <2>1. e \in Chips /\ a \in BOOLEAN /\ n \in BOOLEAN
    BY PicAssumption
  <2>2. Drops(c, {})
    BY <1>1, <1>15, <2>1, WritesDrop, Zenon
  <2>3. QED
    BY <1>4, <2>2
<1>16. ASSUME NEW e \in Chips, NEW m \in Masks[e], OCW1(e, m) PROVE FALSE
  <2>1. m \in SUBSET Levels
    BY PicAssumption
  <2>2. Drops(c, {})
    BY <1>1, <1>16, <2>1, WritesDrop, Zenon
  <2>3. QED
    BY <1>4, <2>2
<1>17. ASSUME NEW e \in Chips, NEW m \in SpecialMask, OCW3(e, m) PROVE FALSE
  <2>1. m \in BOOLEAN
    BY PicAssumption
  <2>2. Drops(c, {})
    BY <1>1, <1>17, <2>1, WritesDrop, Zenon
  <2>3. QED
    BY <1>4, <2>2
<1>18. ASSUME NEW e \in Chips, OCW2NonSpecific(e) \/ OCW2Specific(e) PROVE FALSE
  BY <1>1, <1>4, <1>18, EOIDrops
<1>19. ASSUME pic_eoi PROVE FALSE
  BY <1>1, <1>4, <1>19, EOIDrops DEF Chips
<1>20. ASSUME pic' = pic PROVE FALSE
  BY <1>4, <1>20 DEF Drops, Requests
<1>21. CASE handle_irq
  BY <1>9, <1>10, <1>11, <1>12, <1>21 DEF handle_irq
<1>22. CASE \E e \in Initialised : ICW1(e)
  BY <1>3, <1>13, <1>22
<1>23. QED
  BY <1>8, <1>14, <1>15, <1>16, <1>17, <1>18, <1>19, <1>20, <1>21, <1>22
     DEF Next, SetIFlag, IRET

(* No request is lost, in whatever order lines are raised, chips are       *)
(* initialised, masked and acknowledged.                                   *)
THEOREM RequestsAreKept == Spec => NoLostRequest
<1>1. IInv /\ [Next]_vars =>
         [\A irq \in Lines :
             LET c == ChipOf(irq)
                 l == LevelOf(irq)
             IN  l \in Requests(c) /\ l \notin Requests(c)' =>
                    Entered(irq) \/ pic'[c].initializing = 1]_vars
  BY StepDrops
<1>2. QED
  BY <1>1, Invariant, PTL DEF Spec, NoLostRequest

(* Unless a program sets special mask mode, a handler starts only for a    *)
(* line that was requested and is not masked.                              *)
THEOREM MasksAreKept == TRUE \notin SpecialMask => (Spec => NoMaskedInterrupt)
<1>1. ASSUME TRUE \notin SpecialMask, IInv, Next, NEW irq \in 0 .. 15, Entered(irq)
      PROVE  LevelOf(irq) \in pic[ChipOf(irq)].IRR /\ LevelOf(irq) \notin pic[ChipOf(irq)].IMR
  <2>1. TypeOK /\ NoSpecialMask /\ frames \in Seq(Frame) /\ Len(frames) \in Nat
    BY <1>1, LenProperties DEF IInv, TypeOK
  <2>2. pic[0].special_mask = FALSE /\ pic[1].special_mask = FALSE
    BY <2>1 DEF NoSpecialMask, Chips
  <2>3. Len(frames') = Len(frames) + 1 /\ frames'[1].irq = irq
    BY <1>1 DEF Entered
  <2>4. ASSUME NEW l \in Levels, AcceptMaster(l)
        PROVE  LevelOf(irq) \in pic[ChipOf(irq)].IRR /\ LevelOf(irq) \notin pic[ChipOf(irq)].IMR
    <3>1. Accept(l) /\ Enter(l) /\ l \in 0 .. 15 /\ l # CASCADED
      BY <2>4 DEF AcceptMaster, Levels
    <3>2. irq = l /\ ChipOf(irq) = 0 /\ LevelOf(irq) = l
      <4>1. irq = l
        BY <2>1, <2>3, <3>1, EnterFacts
      <4>2. QED
        BY <4>1 DEF ChipOf, LevelOf, Levels
    <3>3. l \in Seen[0].IRR /\ l \notin pic[0].IMR
      BY <2>1, <2>2, <3>1, AcceptFacts
    <3>4. Seen[0].IRR \subseteq pic[0].IRR \cup {CASCADED}
      BY <2>1, SeenFacts
    <3>5. QED
      BY <3>1, <3>2, <3>3, <3>4
  <2>5. ASSUME NEW l \in Levels, AcceptSlave(l)
        PROVE  LevelOf(irq) \in pic[ChipOf(irq)].IRR /\ LevelOf(irq) \notin pic[ChipOf(irq)].IMR
    <3>1. PICK n \in 0 .. 15 : n = 8 + l
      BY DEF Levels
    <3>2. Enter(n) /\ l \in SlaveEligible
      BY <2>5, <3>1 DEF AcceptSlave
    <3>3. irq = n
      BY <2>1, <2>3, <3>2, EnterFacts
    <3>4. ChipOf(irq) = 1 /\ LevelOf(irq) = l
      BY <3>1, <3>3 DEF ChipOf, LevelOf, Levels
    <3>5. QED
      BY <2>1, <2>2, <3>2, <3>4, SlaveFacts
  <2>6. ASSUME Len(frames') = Len(frames) PROVE FALSE
    BY <2>1, <2>3, <2>6
  <2>7. ASSUME frames' = frames PROVE FALSE
    BY <2>6, <2>7
  <2>8. ASSUME NEW c \in Chips, Acknowledges(c) PROVE FALSE
    BY <2>1, <2>6, <2>8, AcknowledgesFacts DEF IsAcked
  <2>9. ASSUME IRET PROVE FALSE
    <3>1. frames # <<>> /\ frames' = Tail(frames)
      BY <2>9 DEF IRET
    <3>2. Len(frames') = Len(frames) - 1
      BY <2>1, <3>1, HeadTailProperties
    <3>3. QED
      BY <2>1, <2>3, <3>2
  <2>10. ASSUME pic_eoi PROVE FALSE
    <3>1. /\ frames # <<>> /\ frames' = [frames EXCEPT ![1].due = {}]
      BY <2>10 DEF pic_eoi
    <3>2. PICK fr, d : fr = frames /\ d = {}
      OBVIOUS
    <3>3. fr \in Seq(Frame) /\ fr # <<>> /\ d \subseteq Head(fr).due
      BY <2>1, <3>1, <3>2
    <3>4. IsAcked(fr, d, [fr EXCEPT ![1].due = d])
      BY ONLY <3>3, Acknowledged
    <3>5. QED
      BY <2>6, <3>1, <3>2, <3>4 DEF IsAcked
  <2>11. QED
    BY <1>1, <2>4, <2>5, <2>7, <2>8, <2>9, <2>10
       DEF Next, handle_irq, cpuTriggerIRQ, AcceptNothing, LatchCascade, ICW1, ICW2or3, ICW4,
           OCW1, OCW3, OCW2NonSpecific, OCW2Specific, SetIFlag
<1>2. SUFFICES ASSUME TRUE \notin SpecialMask PROVE Spec => NoMaskedInterrupt
  OBVIOUS
<1>3. IInv /\ [Next]_vars =>
         [\A irq \in 0 .. 15 :
             Entered(irq) =>
                /\ LevelOf(irq) \in pic[ChipOf(irq)].IRR
                /\ LevelOf(irq) \notin pic[ChipOf(irq)].IMR]_vars
  BY <1>1, <1>2
<1>4. QED
  BY <1>3, Invariant, PTL DEF Spec, NoMaskedInterrupt

--------------------------------------------------------------------------------
(* The chips p of a program that leaves them as the BIOS set them up: the  *)
(* master is not being initialised and waits for EOIs.                     *)
Plain(p) ==
    /\ p \in [Chips -> Chip]
    /\ p[0].initializing = 0
    /\ p[0].auto_eoi = FALSE

(* A handler of line 1 has not acknowledged its interrupt. *)
Handled(fr) == \E i \in 1 .. Len(fr) : 0 \in fr[i].due /\ fr[i].irq = 1

(* The handler put key in the buffer b, and nothing after it. *)
Stored(key, b) == \E p \in Slots : Ahead(p) = b.tail /\ b.slot[p] = key

(* A key that it has not put there is requested, or being handled.         *)
Announced(key, b, irr, fr) ==
    key # 0 /\ ~ Stored(key, b) => 1 \in irr \/ Handled(fr)

(* The buffer, when n keys were read. *)
Buffer(n) == [head : Slots, tail : Slots, slot : [Slots -> 0 .. n]]

KeyInv ==
    /\ KeyTypeOK
    /\ NoKeyLost
    /\ Plain(pic)
    /\ Announced(queued_key, buf, pic[0].IRR, frames)

(* The key in memory, from the invariant. *)
LEMMA InvKeyStored == KeyInv => KeyStored
<1>1. SUFFICES ASSUME KeyInv, queued_key # 0, 1 \notin pic[0].IRR,
                      \A i \in Waiting(0) : frames[i].irq # 1
               PROVE  Stored(queued_key, buf)
  BY DEF KeyStored, HeldServed, Stored
<1>2. frames \in Seq(Frame)
  BY <1>1 DEF KeyInv, KeyTypeOK, TypeOK
<1>3. DOMAIN frames = 1 .. Len(frames)
  BY <1>2, LenProperties
<1>4. ~ Handled(frames)
  BY <1>1, <1>3 DEF Handled, Waiting
<1>5. QED
  BY <1>1, <1>4 DEF KeyInv, Announced

(* IRQ 0 or IRQ 1 is raised at the master. *)
LEMMA Raised ==
  ASSUME NEW p, Plain(p), NEW irq \in {0, 1}
  PROVE  /\ Plain(Triggered(p, irq))
         /\ Triggered(p, irq)[0].IRR = p[0].IRR \cup {irq}
<1>1. p \in [Chips -> Chip] /\ irq \in 0 .. 15 /\ ChipOf(irq) = 0 /\ LevelOf(irq) = irq
  BY DEF Plain, ChipOf, LevelOf
<1>2. PICK q : q = Triggered(p, irq)
  OBVIOUS
<1>3. PICK r \in SUBSET Levels, w \in SUBSET Levels :
         /\ IsServing(p, 0, r, p[0].ISR, w, q)
         /\ p[0].initializing = 0 => r = p[0].IRR \cup {irq} /\ w = p[0].pending
  <2>1. \E r, w \in SUBSET Levels :
            /\ IsServing(p, ChipOf(irq), r, p[ChipOf(irq)].ISR, w, Triggered(p, irq))
            /\ p[ChipOf(irq)].initializing # 0 =>
                  r = p[ChipOf(irq)].IRR /\ w = p[ChipOf(irq)].pending \cup {LevelOf(irq)}
            /\ p[ChipOf(irq)].initializing = 0 =>
                  r = p[ChipOf(irq)].IRR \cup {LevelOf(irq)} /\ w = p[ChipOf(irq)].pending
    BY <1>1, TriggeredServing, Zenon
  <2>2. QED
    BY <1>1, <1>2, <2>1, Zenon
<1>4. /\ q \in [Chips -> Chip]
      /\ SameModes(p[0], q[0])
      /\ q[0].IRR = r
  BY <1>3, Zenon DEF IsServing, Chips
<1>5. q[0].initializing = p[0].initializing /\ q[0].auto_eoi = p[0].auto_eoi
  BY <1>4, Zenon DEF SameModes
<1>6. QED
  BY <1>2, <1>3, <1>4, <1>5 DEF Plain

(* The keys and the buffer, as far as kbhit does not touch them. *)
LEMMA KbhitKeeps ==
  ASSUME KeyInv, NEW p, Plain(p), pic[0].IRR \subseteq p[0].IRR, kbhit(p),
         UNCHANGED <<IFlag, frames, typed, inp_last_key, taken, call, buf>>
  PROVE  KeyInv'
<1>1. /\ TypeOK /\ NoKeyLost
      /\ typed \in Seq(Kinds) /\ Len(typed) \in Nat
      /\ nread \in 0 .. Len(typed) /\ queued_key \in 0 .. nread
      /\ inp_last_key \in 0 .. taken /\ taken \in 0 .. nread
      /\ tty_fd \in BOOLEAN /\ call \in {"none", "bios", "dos"}
      /\ buf \in Buffer(nread)
      /\ Announced(queued_key, buf, pic[0].IRR, frames)
  BY LenProperties DEF KeyInv, KeyTypeOK, Buffer
<1>2. Plain(Triggered(p, 1)) /\ Triggered(p, 1)[0].IRR = p[0].IRR \cup {1}
  BY Raised
<1>3. IFlag' = IFlag /\ frames' = frames /\ typed' = typed /\ inp_last_key' = inp_last_key
      /\ taken' = taken /\ call' = call /\ buf' = buf
  OBVIOUS
<1>4. CASE pic' = p /\ queued_key' = queued_key /\ nread' = nread /\ tty_fd' \in BOOLEAN
  <2>1. TypeOK'
    BY <1>1, <1>3, <1>4 DEF TypeOK, Plain
  <2>2. Announced(queued_key', buf', pic'[0].IRR, frames')
    BY <1>1, <1>3, <1>4 DEF Announced
  <2>3. KeyTypeOK' /\ NoKeyLost' /\ Plain(pic)'
    BY <1>1, <1>3, <1>4, <2>1 DEF KeyTypeOK, NoKeyLost, Plain, Buffer
  <2>4. QED
    BY <2>2, <2>3 DEF KeyInv
<1>5. CASE /\ queued_key = 0 /\ nread # Len(typed)
           /\ nread' = nread + 1 /\ queued_key' = nread + 1
           /\ pic' = Triggered(p, 1) /\ tty_fd' = TRUE
  <2>1. TypeOK'
    BY <1>1, <1>2, <1>3, <1>5 DEF TypeOK, Plain
  <2>2. Announced(queued_key', buf', pic'[0].IRR, frames')
    BY <1>2, <1>5 DEF Announced
  <2>3. nread' \in 0 .. Len(typed) /\ queued_key' \in 0 .. nread' /\ taken \in 0 .. nread'
    BY <1>1, <1>5
  <2>4. buf \in Buffer(nread')
    <3>1. 0 .. nread \subseteq 0 .. nread'
      BY <1>1, <1>5
    <3>2. [Slots -> 0 .. nread] \subseteq [Slots -> 0 .. nread']
      BY ONLY <3>1
    <3>3. QED
      BY <1>1, <3>2 DEF Buffer
  <2>5. KeyTypeOK'
    BY <1>1, <1>3, <1>5, <2>1, <2>3, <2>4 DEF KeyTypeOK, Buffer
  <2>6. NoKeyLost'
    BY <1>1, <1>3, <1>5 DEF NoKeyLost
  <2>7. Plain(pic)'
    BY <1>2, <1>5 DEF Plain
  <2>8. QED
    BY <2>2, <2>5, <2>6, <2>7 DEF KeyInv
<1>6. QED
  BY <1>1, <1>4, <1>5 DEF kbhit

(* The keys when only the chips and the handlers change. *)
LEMMA ChipsMove ==
  ASSUME KeyInv, UNCHANGED keyVars, TypeOK', Plain(pic)',
         1 \in pic[0].IRR => 1 \in pic'[0].IRR \/ Handled(frames'),
         Handled(frames) => Handled(frames')
  PROVE  KeyInv'
<1>1. /\ typed' = typed /\ nread' = nread /\ queued_key' = queued_key
      /\ inp_last_key' = inp_last_key /\ taken' = taken /\ tty_fd' = tty_fd
      /\ call' = call /\ buf' = buf
  BY DEF keyVars
<1>2. KeyTypeOK' /\ NoKeyLost'
  BY <1>1 DEF KeyInv, KeyTypeOK, NoKeyLost
<1>3. Announced(queued_key', buf', pic'[0].IRR, frames')
  BY <1>1 DEF KeyInv, Announced
<1>4. QED
  BY <1>2, <1>3 DEF KeyInv

(* A handler that starts leaves the others on the stack. *)
LEMMA HandledPushed ==
  ASSUME NEW fr, NEW f, NEW g, IsPushed(fr, f, g), Handled(fr)
  PROVE  Handled(g)
<1>1. PICK i \in 1 .. Len(fr) : 0 \in fr[i].due /\ fr[i].irq = 1
  BY DEF Handled
<1>2. Len(fr) \in Nat /\ Len(g) = Len(fr) + 1
  BY LenProperties DEF IsPushed
<1>3. i + 1 \in 1 .. Len(g) /\ g[i + 1] = fr[i]
  BY <1>2 DEF IsPushed
<1>4. QED
  BY <1>1, <1>3 DEF Handled

(* A handler that returns owed nothing. *)
LEMMA HandledPopped ==
  ASSUME NEW fr, NEW g, IsPopped(fr, g), Handled(fr)
  PROVE  Handled(g)
<1>1. PICK i \in 1 .. Len(fr) : 0 \in fr[i].due /\ fr[i].irq = 1
  BY DEF Handled
<1>2. Len(fr) \in Nat /\ Len(g) = Len(fr) - 1
  BY LenProperties DEF IsPopped
<1>3. i # 1
  BY <1>1 DEF IsPopped
<1>4. i - 1 \in 1 .. Len(g) /\ (i - 1) + 1 = i
  BY <1>2, <1>3
<1>5. g[i - 1] = fr[i]
  BY <1>4 DEF IsPopped
<1>6. QED
  BY <1>1, <1>4, <1>5 DEF Handled

(* A handler of another line acknowledges. *)
LEMMA HandledAcked ==
  ASSUME NEW fr, NEW d, NEW g, IsAcked(fr, d, g), fr[1].irq # 1, Handled(fr)
  PROVE  Handled(g)
<1>1. PICK i \in 1 .. Len(fr) : 0 \in fr[i].due /\ fr[i].irq = 1
  BY DEF Handled
<1>2. i # 1
  BY <1>1
<1>3. i \in 2 .. Len(fr) /\ Len(g) = Len(fr)
  BY <1>2 DEF IsAcked
<1>4. g[i] = fr[i]
  BY <1>3 DEF IsAcked
<1>5. QED
  BY <1>1, <1>3, <1>4 DEF Handled

--------------------------------------------------------------------------------
(* An interrupt is accepted: the request of IRQ 1 stays, or its handler    *)
(* starts, which owes an EOI.                                              *)
LEMMA AcceptKeeps ==
  ASSUME KeyInv, AcceptIRQ
  PROVE  KeyInv'
<1>1. /\ TypeOK /\ Plain(pic) /\ frames \in Seq(Frame)
      /\ UNCHANGED keyVars
  BY DEF KeyInv, KeyTypeOK, TypeOK, AcceptIRQ
<1>2. /\ pic[0].initializing = 0 /\ pic[0].auto_eoi = FALSE
  BY <1>1 DEF Plain
<1>3. pic[0].IRR \subseteq Seen[0].IRR
  BY <1>1, SeenFacts
<1>4. ASSUME pic' \in [Chips -> Chip], SameModes(pic[0], pic'[0])
      PROVE  Plain(pic)'
  <2>1. pic'[0].initializing = pic[0].initializing /\ pic'[0].auto_eoi = pic[0].auto_eoi
    BY <1>4, Zenon DEF SameModes
  <2>2. QED
    BY <1>2, <1>4, <2>1 DEF Plain
<1>5. ASSUME NEW l \in Levels, AcceptMaster(l) PROVE KeyInv'
  <2>1. Enter(l) /\ l \in 0 .. 15 /\ pic' = [Seen EXCEPT ![0] = Acked(@, l, l)]
    BY <1>5 DEF AcceptMaster, Levels
  <2>2. /\ pic' \in [Chips -> Chip]
        /\ \A d \in Chips : SameModes(pic[d], pic'[d])
        /\ pic'[0].IRR = Seen[0].IRR \ {l}
    BY <1>1, <2>1, MasterEffect, Zenon
  <2>3. PICK f : f = [irq |-> l, due |-> Due(l)]
    OBVIOUS
  <2>4. IsPushed(frames, f, frames') /\ frames' \in Seq(Frame) /\ IFlag' = FALSE
    BY <1>1, <2>1, <2>3, EnterFacts, Zenon
  <2>5. TypeOK' /\ Plain(pic)'
    BY <1>4, <2>2, <2>4 DEF TypeOK, Chips
  <2>6. PICK fr, g : fr = frames /\ g = frames'
    OBVIOUS
  <2>7. Handled(frames) => Handled(frames')
    <3>1. ASSUME Handled(fr) PROVE Handled(g)
      <4>1. IsPushed(fr, f, g)
        BY <2>4, <2>6
      <4>2. QED
        BY ONLY <3>1, <4>1, HandledPushed
    <3>2. QED
      BY <2>6, <3>1
  <2>8. l = 1 => Handled(frames')
    <3>1. f.irq = l /\ 0 \in f.due
      BY <1>2, <2>3 DEF Due, Chips
    <3>2. frames'[1] = f /\ 1 \in 1 .. Len(frames')
      <4>1. Len(frames) \in Nat /\ Len(frames') = Len(frames) + 1
        BY <1>1, <2>4, LenProperties DEF IsPushed
      <4>2. QED
        BY <2>4, <4>1 DEF IsPushed
    <3>3. QED
      BY <3>1, <3>2 DEF Handled
  <2>9. 1 \in pic[0].IRR => 1 \in pic'[0].IRR \/ Handled(frames')
    BY <1>3, <2>2, <2>8
  <2>10. QED
    BY <1>1, <2>5, <2>7, <2>9, ChipsMove
<1>6. ASSUME NEW l \in Levels, AcceptSlave(l) PROVE KeyInv'
  <2>1. pic' = [Seen EXCEPT ![0] = Acked(@, CASCADED, CASCADED), ![1] = Acked(@, l, CASCADED)]
    BY <1>6 DEF AcceptSlave
  <2>2. /\ pic' \in [Chips -> Chip]
        /\ \A d \in Chips : SameModes(pic[d], pic'[d])
        /\ pic'[0].IRR = Seen[0].IRR \ {CASCADED}
    BY <1>1, <2>1, SlaveEffect, Zenon
  <2>3. PICK n : n = 8 + l
    OBVIOUS
  <2>4. n \in 0 .. 15 /\ Enter(n)
    BY <1>6, <2>3 DEF AcceptSlave, Levels
  <2>5. PICK f : f = [irq |-> n, due |-> Due(n)]
    OBVIOUS
  <2>6. IsPushed(frames, f, frames') /\ frames' \in Seq(Frame) /\ IFlag' = FALSE
    BY <1>1, <2>4, <2>5, EnterFacts, Zenon
  <2>7. TypeOK' /\ Plain(pic)'
    BY <1>4, <2>2, <2>6 DEF TypeOK, Chips
  <2>8. PICK fr, g : fr = frames /\ g = frames'
    OBVIOUS
  <2>9. Handled(frames) => Handled(frames')
    <3>1. ASSUME Handled(fr) PROVE Handled(g)
      <4>1. IsPushed(fr, f, g)
        BY <2>6, <2>8
      <4>2. QED
        BY ONLY <3>1, <4>1, HandledPushed
    <3>2. QED
      BY <2>8, <3>1
  <2>10. 1 \in pic[0].IRR => 1 \in pic'[0].IRR
    BY <1>3, <2>2 DEF CASCADED
  <2>11. QED
    BY <1>1, <2>7, <2>9, <2>10, ChipsMove
<1>7. ASSUME AcceptNothing PROVE KeyInv'
  <2>1. PICK l : l = CASCADED
    OBVIOUS
  <2>2. l \in Levels /\ l # 1 /\ pic' = [Seen EXCEPT ![0] = Acked(@, l, l)]
    BY <1>7, <2>1 DEF AcceptNothing, CASCADED, Levels
  <2>3. /\ pic' \in [Chips -> Chip]
        /\ \A d \in Chips : SameModes(pic[d], pic'[d])
        /\ pic'[0].IRR = Seen[0].IRR \ {l}
    BY <1>1, <2>2, MasterEffect, Zenon
  <2>4. IFlag' = IFlag /\ frames' = frames
    BY <1>7 DEF AcceptNothing
  <2>5. TypeOK' /\ Plain(pic)'
    BY <1>1, <1>4, <2>3, <2>4 DEF TypeOK, Chips
  <2>6. QED
    BY <1>1, <1>3, <2>2, <2>3, <2>4, <2>5, ChipsMove
<1>8. ASSUME LatchCascade PROVE KeyInv'
  <2>1. pic' = Seen /\ IFlag' = IFlag /\ frames' = frames
    BY <1>8 DEF LatchCascade
  <2>2. pic' \in [Chips -> Chip] /\ SameModes(pic[0], pic'[0])
    BY <1>1, <2>1, SeenFacts DEF Chips
  <2>3. TypeOK' /\ Plain(pic)'
    BY <1>1, <1>4, <2>1, <2>2 DEF TypeOK
  <2>4. QED
    BY <1>1, <1>3, <2>1, <2>3, ChipsMove
<1>9. QED
  BY <1>5, <1>6, <1>7, <1>8 DEF AcceptIRQ, handle_irq

(* The BIOS handler of IRQ 1 puts the key that is held in the buffer.      *)
LEMMA HandlerKeeps ==
  ASSUME KeyInv, keyb_handle_irq
  PROVE  KeyInv'
<1>1. /\ TypeOK /\ Plain(pic) /\ pic \in [Chips -> Chip] /\ frames \in Seq(Frame)
      /\ queued_key \in 0 .. nread
      /\ buf \in Buffer(nread)
  BY DEF KeyInv, KeyTypeOK, TypeOK, Buffer
<1>2. /\ frames # <<>>
      /\ pic' = [pic EXCEPT ![0] = Specific(@, LevelOf(Head(frames).irq))]
      /\ frames' = [frames EXCEPT ![1].due = {}]
      /\ IFlag' = IFlag
      /\ buf' = [buf EXCEPT !.slot[buf.tail] = queued_key, !.tail = Ahead(@)]
      /\ UNCHANGED <<typed, nread, queued_key, inp_last_key, taken, tty_fd, call>>
  BY DEF keyb_handle_irq, pic_eoi
<1>3. frames' \in Seq(Frame)
  <2>1. PICK fr, d : fr = frames /\ d = {}
    OBVIOUS
  <2>2. fr \in Seq(Frame) /\ fr # <<>> /\ d \subseteq Head(fr).due
    BY <1>1, <1>2, <2>1
  <2>3. IsAcked(fr, d, [fr EXCEPT ![1].due = d])
    BY ONLY <2>2, Acknowledged
  <2>4. QED
    BY <1>2, <2>1, <2>3 DEF IsAcked
<1>4. TypeOK' /\ Plain(pic)'
  <2>1. PICK s : s = pic[0].ISR \ {LevelOf(Head(frames).irq)}
    OBVIOUS
  <2>2. 0 \in Chips /\ s \subseteq Levels
    <3>1. 0 \in Chips /\ pic[0] \in Chip
      BY <1>1 DEF Chips
    <3>2. QED
      BY <2>1, <3>1, ChipFields
  <2>3. pic' = [pic EXCEPT ![0] = [@ EXCEPT !.ISR = s]]
    BY <1>2, <2>1 DEF Specific
  <2>4. IsServing(pic, 0, pic[0].IRR, s, pic[0].pending, pic')
    BY <1>1, <2>2, <2>3, EOIEffect, Zenon
  <2>5. pic' \in [Chips -> Chip] /\ SameModes(pic[0], pic'[0])
    BY <2>2, <2>4, Zenon DEF IsServing
  <2>6. pic'[0].initializing = pic[0].initializing /\ pic'[0].auto_eoi = pic[0].auto_eoi
    BY <2>5, Zenon DEF SameModes
  <2>7. QED
    BY <1>1, <1>2, <1>3, <2>5, <2>6 DEF TypeOK, Plain
<1>5. Stored(queued_key, buf') /\ buf' \in Buffer(nread)
  <2>1. buf.tail \in Slots /\ Ahead(buf.tail) \in Slots
    BY <1>1, KeyboardAssumption DEF Ahead, Slots, Buffer
  <2>2. PICK p, t, key, m : /\ p = buf.tail /\ t = Ahead(p) /\ key = queued_key
                            /\ m = [buf.slot EXCEPT ![p] = key]
    OBVIOUS
  <2>3. buf.slot \in [Slots -> 0 .. nread] /\ p \in Slots /\ key \in 0 .. nread
    BY <1>1, <2>1, <2>2 DEF Buffer
  <2>4. m \in [Slots -> 0 .. nread] /\ m[p] = key
    BY ONLY <2>2, <2>3
  <2>5. buf' = [head |-> buf.head, tail |-> t, slot |-> m]
    BY <1>1, <1>2, <2>2 DEF Buffer
  <2>6. Stored(queued_key, buf')
    BY <2>2, <2>3, <2>4, <2>5 DEF Stored
  <2>. QED
    BY <1>1, <2>1, <2>2, <2>4, <2>5, <2>6 DEF Buffer
<1>6. KeyTypeOK' /\ NoKeyLost'
  BY <1>2, <1>4, <1>5 DEF KeyInv, KeyTypeOK, NoKeyLost, Buffer
<1>7. Announced(queued_key', buf', pic'[0].IRR, frames')
  BY <1>2, <1>5 DEF Announced
<1>8. QED
  BY <1>4, <1>6, <1>7 DEF KeyInv

(* The handler of IRQ 0 acknowledges its interrupt. *)
LEMMA TimerKeeps ==
  ASSUME KeyInv, TimerEOI
  PROVE  KeyInv'
<1>1. /\ TypeOK /\ Plain(pic) /\ pic \in [Chips -> Chip] /\ 0 \in Chips
      /\ UNCHANGED keyVars /\ OCW2Specific(0) /\ Head(frames).irq = 0
  BY DEF KeyInv, KeyTypeOK, TypeOK, TimerEOI, TimerHandler, Chips
<1>2. Acknowledges(0)
  BY <1>1 DEF OCW2Specific
<1>3. PICK d : d = frames[1].due \ {0}
  OBVIOUS
<1>4. IsAcked(frames, d, frames') /\ Head(frames) = frames[1] /\ IFlag' = IFlag
  BY <1>1, <1>2, <1>3, AcknowledgesFacts
<1>5. PICK s : s = pic[0].ISR \ {LevelOn(0, frames[1].irq)}
  OBVIOUS
<1>6. s \subseteq Levels
  <2>1. pic[0] \in Chip
    BY <1>1
  <2>2. QED
    BY <1>5, <2>1, ChipFields
<1>7. pic' = [pic EXCEPT ![0] = [@ EXCEPT !.ISR = s]]
  BY <1>1, <1>4, <1>5 DEF OCW2Specific, Specific
<1>8. IsServing(pic, 0, pic[0].IRR, s, pic[0].pending, pic')
  BY <1>1, <1>6, <1>7, EOIEffect, Zenon
<1>9. pic' \in [Chips -> Chip] /\ SameModes(pic[0], pic'[0]) /\ pic'[0].IRR = pic[0].IRR
  BY <1>1, <1>8, Zenon DEF IsServing
<1>10. pic'[0].initializing = pic[0].initializing /\ pic'[0].auto_eoi = pic[0].auto_eoi
  BY <1>9, Zenon DEF SameModes
<1>11. TypeOK' /\ Plain(pic)'
  BY <1>1, <1>4, <1>9, <1>10 DEF TypeOK, Plain, IsAcked
<1>12. Handled(frames) => Handled(frames')
  <2>1. PICK fr, g : fr = frames /\ g = frames'
    OBVIOUS
  <2>2. IsAcked(fr, d, g) /\ fr[1].irq # 1
    BY <1>1, <1>4, <2>1
  <2>3. ASSUME Handled(fr) PROVE Handled(g)
    BY ONLY <2>2, <2>3, HandledAcked
  <2>4. QED
    BY <2>1, <2>3
<1>13. QED
  BY <1>1, <1>9, <1>11, <1>12, ChipsMove

(* A handler returns. *)
LEMMA KeyReturnKeeps ==
  ASSUME KeyInv, Return
  PROVE  KeyInv'
<1>1. /\ TypeOK /\ Plain(pic) /\ frames \in Seq(Frame)
      /\ UNCHANGED keyVars /\ pic' = pic /\ IFlag' = TRUE
      /\ frames # <<>> /\ Head(frames).due = {} /\ frames' = Tail(frames)
  BY DEF KeyInv, KeyTypeOK, TypeOK, Return, IRET
<1>2. PICK fr, g : fr = frames /\ g = frames'
  OBVIOUS
<1>3. IsPopped(fr, g)
  <2>1. fr \in Seq(Frame) /\ fr # <<>> /\ Head(fr).due = {}
    BY <1>1, <1>2
  <2>2. IsPopped(fr, Tail(fr))
    BY ONLY <2>1, Popped
  <2>3. QED
    BY <1>1, <1>2, <2>2
<1>4. TypeOK' /\ Plain(pic)'
  BY <1>1, <1>2, <1>3 DEF TypeOK, Plain, IsPopped
<1>5. Handled(frames) => Handled(frames')
  <2>1. ASSUME Handled(fr) PROVE Handled(g)
    BY ONLY <1>3, <2>1, HandledPopped
  <2>2. QED
    BY <1>2, <2>1
<1>6. QED
  BY <1>1, <1>4, <1>5, ChipsMove

(* getch hands out the key that is held, the next in the order typed. *)
LEMMA GetchHandsOut ==
  ASSUME KeyInv, getch
  PROVE  KeyInv'
<1>1. /\ TypeOK /\ Plain(pic)
      /\ nread = taken + 1 /\ queued_key = taken + 1
      /\ taken \in Nat /\ nread \in 0 .. Len(typed) /\ inp_last_key \in 0 .. taken
      /\ buf \in Buffer(nread)
  BY LenProperties DEF KeyInv, KeyTypeOK, NoKeyLost, getch, Buffer
<1>2. /\ taken' = taken + 1 /\ queued_key' = 0 /\ call' = "none"
      /\ buf' = [buf EXCEPT !.head = Ahead(@)]
      /\ inp_last_key' \in {queued_key, inp_last_key}
      /\ typed' = typed /\ nread' = nread /\ tty_fd' = tty_fd
      /\ pic' = pic /\ IFlag' = IFlag /\ frames' = frames
  BY DEF getch, vars
<1>3. buf' \in Buffer(nread)
  <2>1. Ahead(buf.head) \in Slots
    BY <1>1, KeyboardAssumption DEF Ahead, Slots, Buffer
  <2>2. PICK h : h = Ahead(buf.head)
    OBVIOUS
  <2>3. buf' = [head |-> h, tail |-> buf.tail, slot |-> buf.slot]
    BY <1>1, <1>2, <2>2 DEF Buffer
  <2>4. QED
    BY <1>1, <2>1, <2>2, <2>3 DEF Buffer
<1>4. inp_last_key' \in 0 .. taken' /\ taken' \in 0 .. nread
  BY <1>1, <1>2
<1>5. TypeOK' /\ Plain(pic)'
  BY <1>1, <1>2 DEF TypeOK, Plain
<1>6. KeyTypeOK'
  BY <1>1, <1>2, <1>3, <1>4, <1>5 DEF KeyInv, KeyTypeOK, Buffer
<1>7. NoKeyLost' /\ Announced(queued_key', buf', pic'[0].IRR, frames')
  BY <1>1, <1>2 DEF NoKeyLost, Announced
<1>8. QED
  BY <1>5, <1>6, <1>7 DEF KeyInv

(* A key is typed, or a call starts or ends without a key. *)
LEMMA CallsKeep ==
  ASSUME KeyInv, UNCHANGED vars, UNCHANGED <<nread, queued_key, taken, tty_fd, buf>>,
         typed' = typed \/ (\E kind \in Kinds : typed' = Append(typed, kind)),
         call' \in {"none", "bios", "dos"}, inp_last_key' \in {inp_last_key, 0}
  PROVE  KeyInv'
<1>1. /\ typed \in Seq(Kinds) /\ Len(typed) \in Nat /\ nread \in 0 .. Len(typed)
      /\ inp_last_key \in 0 .. taken /\ taken \in 0 .. nread
  BY LenProperties DEF KeyInv, KeyTypeOK
<1>2. typed' \in Seq(Kinds) /\ Len(typed') \in Nat /\ Len(typed) <= Len(typed')
  <2>1. CASE typed' = typed
    BY <1>1, <2>1
  <2>2. ASSUME NEW kind \in Kinds, typed' = Append(typed, kind)
        PROVE  typed' \in Seq(Kinds) /\ Len(typed') \in Nat /\ Len(typed) <= Len(typed')
    BY <1>1, <2>2
  <2>3. QED
    BY <2>1, <2>2
<1>3. nread \in 0 .. Len(typed') /\ inp_last_key' \in 0 .. taken
  BY <1>1, <1>2
<1>4. TypeOK' /\ Plain(pic)'
  BY DEF KeyInv, KeyTypeOK, TypeOK, Plain, vars
<1>5. KeyTypeOK'
  BY <1>2, <1>3, <1>4 DEF KeyInv, KeyTypeOK
<1>6. NoKeyLost' /\ Announced(queued_key', buf', pic'[0].IRR, frames')
  BY DEF KeyInv, NoKeyLost, Announced, vars
<1>7. QED
  BY <1>4, <1>5, <1>6 DEF KeyInv

(* Every step keeps the invariant. *)
LEMMA KeyStepKeeps == KeyInv /\ [KeyNext]_allVars => KeyInv'
<1>1. SUFFICES ASSUME KeyInv, [KeyNext]_allVars PROVE KeyInv'
  OBVIOUS
<1>2. /\ Plain(pic) /\ call \in {"none", "bios", "dos"} /\ pic[0].IRR \subseteq pic[0].IRR
      /\ Plain(Triggered(pic, 0)) /\ pic[0].IRR \subseteq Triggered(pic, 0)[0].IRR
  <2>1. Plain(pic) /\ call \in {"none", "bios", "dos"}
    BY <1>1 DEF KeyInv, KeyTypeOK
  <2>2. QED
    BY <2>1, Raised
<1>3. ASSUME NEW kind \in Kinds, Type(kind) PROVE KeyInv'
  BY <1>1, <1>2, <1>3, CallsKeep DEF Type
<1>4. ASSUME Poll PROVE KeyInv'
  BY <1>1, <1>2, <1>4, KbhitKeeps DEF Poll
<1>5. ASSUME emulator_update PROVE KeyInv'
  <2>1. UNCHANGED <<IFlag, frames, typed, inp_last_key, taken, call, buf>>
    BY <1>5 DEF emulator_update
  <2>2. CASE tty_fd
    BY <1>1, <1>2, <1>5, <2>1, <2>2, KbhitKeeps DEF emulator_update
  <2>3. CASE ~ tty_fd
    <3>1. pic' = Triggered(pic, 0) /\ UNCHANGED keyVars /\ IFlag' = IFlag /\ frames' = frames
      BY <1>5, <2>3 DEF emulator_update, keyVars
    <3>2. TypeOK' /\ Plain(pic)'
      BY <1>1, <1>2, <3>1 DEF KeyInv, KeyTypeOK, TypeOK, Plain
    <3>3. QED
      BY <1>1, <1>2, <3>1, <3>2, ChipsMove
  <2>4. QED
    BY <2>2, <2>3
<1>6. ASSUME intr16 \/ char_input PROVE KeyInv'
  BY <1>1, <1>2, <1>6, CallsKeep DEF intr16, char_input
<1>7. ASSUME SecondByte PROVE KeyInv'
  BY <1>1, <1>2, <1>7, CallsKeep DEF SecondByte
<1>8. ASSUME WaitInGetch PROVE KeyInv'
  <2>1. UNCHANGED <<IFlag, frames, typed, inp_last_key, taken, call, buf>>
    BY <1>8 DEF WaitInGetch
  <2>2. kbhit(pic) \/ kbhit(Triggered(pic, 0))
    BY <1>8 DEF WaitInGetch
  <2>3. QED
    BY <1>1, <1>2, <2>1, <2>2, KbhitKeeps
<1>9. ASSUME getch PROVE KeyInv'
  BY <1>1, <1>9, GetchHandsOut
<1>10. ASSUME keyb_handle_irq PROVE KeyInv'
  BY <1>1, <1>10, HandlerKeeps
<1>11. ASSUME AcceptIRQ PROVE KeyInv'
  BY <1>1, <1>11, AcceptKeeps
<1>12. ASSUME TimerEOI PROVE KeyInv'
  BY <1>1, <1>12, TimerKeeps
<1>13. ASSUME NEW flag \in BOOLEAN, CliSti(flag) PROVE KeyInv'
  <2>1. pic' = pic /\ frames' = frames /\ IFlag' = flag /\ UNCHANGED keyVars
    BY <1>13 DEF CliSti, SetIFlag
  <2>2. TypeOK' /\ Plain(pic)'
    BY <1>1, <1>2, <2>1 DEF KeyInv, KeyTypeOK, TypeOK, Plain
  <2>3. QED
    BY <1>1, <2>1, <2>2, ChipsMove
<1>14. ASSUME Return PROVE KeyInv'
  BY <1>1, <1>14, KeyReturnKeeps
<1>15. ASSUME UNCHANGED allVars PROVE KeyInv'
  <2>1. UNCHANGED vars /\ UNCHANGED keyVars
    BY <1>15 DEF allVars
  <2>2. QED
    BY <1>1, <1>2, <2>1, CallsKeep DEF keyVars
<1>16. QED
  BY <1>1, <1>3, <1>4, <1>5, <1>6, <1>7, <1>8, <1>9, <1>10, <1>11, <1>12, <1>13, <1>14, <1>15
     DEF KeyNext

(* The keyboard before the program has looked at it. *)
LEMMA KeyInitHolds == KeyInit => KeyInv
<1>1. SUFFICES ASSUME KeyInit PROVE KeyInv
  OBVIOUS
<1>2. Init
  BY <1>1 DEF KeyInit
<1>3. TypeOK
  BY <1>2, InitHolds DEF IInv
<1>4. pic[0] = ResetChip(3 .. 7)
  BY <1>2 DEF Init, Chips
<1>5. Plain(pic)
  BY <1>3, <1>4 DEF Plain, TypeOK, ResetChip
<1>6. typed = <<>> /\ typed \in Seq(Kinds) /\ Len(typed) = 0
  BY <1>1, EmptySeq DEF KeyInit
<1>7. buf \in Buffer(nread)
  BY <1>1, KeyboardAssumption DEF KeyInit, Buffer, Slots
<1>8. KeyTypeOK
  BY <1>1, <1>3, <1>6, <1>7 DEF KeyTypeOK, KeyInit, Buffer
<1>9. NoKeyLost /\ Announced(queued_key, buf, pic[0].IRR, frames)
  BY <1>1 DEF KeyInit, NoKeyLost, Announced
<1>10. QED
  BY <1>5, <1>8, <1>9 DEF KeyInv

(* KeyInv is an invariant. *)
THEOREM KeyInvariant == KeySpec => []KeyInv
BY KeyInitHolds, KeyStepKeeps, PTL DEF KeySpec

(* The keyboard's variables have their types.                              *)
THEOREM KeyTypeCorrect == KeySpec => []KeyTypeOK
<1>1. KeyInv => KeyTypeOK
  BY DEF KeyInv
<1>2. QED
  BY <1>1, KeyInvariant, PTL

(* Whoever finds a key, it is handed out once, and in the order typed.     *)
THEOREM KeysAreKept == KeySpec => []NoKeyLost
<1>1. KeyInv => NoKeyLost
  BY DEF KeyInv
<1>2. QED
  BY <1>1, KeyInvariant, PTL

(* A key that is held, and whose interrupt was served, is in the slot that *)
(* the handler filled last: the request of IRQ 1 is never dropped before   *)
(* its handler has put the key there.                                      *)
THEOREM ServedKeyStored == KeySpec => []KeyStored
BY InvKeyStored, KeyInvariant, PTL
================================================================================
