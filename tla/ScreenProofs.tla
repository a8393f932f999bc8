------------------------------ MODULE ScreenProofs ------------------------------
(***************************************************************************)
(* Screen: term_screen is what the terminal displays, and after            *)
(* check_screen the terminal shows video memory, on a terminal with more   *)
(* rows than the screen has, for any fonts, texts and places on the        *)
(* terminal.                                                               *)
(***************************************************************************)
EXTENDS Screen, NumberLemmas

(* The terminal has a row below the last one of the screen. *)
Tall == MaxRows < TermRows

TRows == 0 .. TermRows - 1

Term == [posy : TRows, output_row : -1 .. MaxRows - 1, rows : [TRows -> Contents], at : TRows]

--------------------------------------------------------------------------------
(* The inductive invariant. *)

(* The row of the terminal where emu2's first row is. *)
Base(t) == t.at - t.posy

At(t, y) == IF Base(t) + y < TermRows THEN t.rows[Base(t) + y] ELSE Blank

(* The rows that were drawn are on the terminal. *)
TermOK(t) ==
    /\ t \in Term
    /\ t.posy <= t.at
    /\ Base(t) + t.output_row < TermRows

(* The terminal t displays sh, and nothing was drawn after output_row. *)
Shows(t, sh) ==
    /\ TermOK(t)
    /\ sh \in [TRows -> Contents]
    /\ \A y \in TRows : At(t, y) = sh[y] /\ (y > t.output_row => sh[y] = Blank)

(* While emu2 has no screen, the terminal is blank from its cursor on. *)
BlankBelow(t) == \A r \in TRows : r >= t.at => t.rows[r] = Blank

Agrees(sh, rows) == \A y \in VidRows : y < rows => sh[y] = vram[y]

IInv ==
    /\ TypeOK
    /\ Cleared(vid_sy)
    /\ IF video_initialized THEN Shows(term, shadow) ELSE BlankBelow(term)
    /\ drawn => video_initialized /\ Agrees(shadow, vid_sy)

--------------------------------------------------------------------------------
(* Rows of the screen, of the copy and of the terminal. *)
LEMMA Rows ==
  /\ TermRows \in 1 .. 64 /\ MaxRows \in 1 .. 64
  /\ TextRows \in 1 .. MaxRows
  /\ Heights \subseteq 1 .. MaxRows
  /\ VidRows = 0 .. MaxRows - 1
  /\ Tall => ShadowRows = TRows /\ VidRows \subseteq TRows
<1> DEFINE H == Heights \cup {TextRows}
<1>1. H \subseteq 0 .. 64 /\ H \subseteq 1 .. 64 /\ H # {} /\ TextRows \in H
  BY ScreenAssumption
<1>2. Max(H) \in H /\ \A y \in H : y <= Max(H)
  BY <1>1, MaxProperty
<1>3. MaxRows \in 1 .. 64 /\ \A y \in H : y <= MaxRows
  BY <1>1, <1>2 DEF MaxRows
<1>4. H \subseteq 1 .. MaxRows
  BY <1>1, <1>3
<1>5. TermRows \in 1 .. 64
  BY ScreenAssumption
<1>6. ASSUME Tall PROVE ShadowRows = TRows
  <2> DEFINE M == {MaxRows, TermRows}
  <2>1. M \subseteq 0 .. 64 /\ M # {}
    BY <1>3, <1>5
  <2>2. Max(M) \in M /\ \A y \in M : y <= Max(M)
    BY <2>1, MaxProperty
  <2>3. Max(M) = TermRows
    BY <2>2, <1>3, <1>5, <1>6 DEF Tall
  <2>4. QED
    BY <2>3 DEF ShadowRows, TRows
<1>7. QED
  BY <1>3, <1>4, <1>5, <1>6 DEF VidRows, TRows, Tall

--------------------------------------------------------------------------------
(* Moving the cursor of the terminal. *)

(* g is t with the cursor moved, and perhaps scrolled under emu2's rows. *)
Moved(t, g, y) ==
    /\ TermOK(g)
    /\ g.posy = y
    /\ g.output_row = t.output_row
    /\ \A r \in TRows : At(g, r) = At(t, r)

LEMMA Down ==
  ASSUME NEW t, TermOK(t), NEW n \in Nat, t.posy + n <= t.output_row
  PROVE  Moved(t, [CursorDown(t, n) EXCEPT !.posy = @ + n], t.posy + n)
<1>1. TermRows \in 1 .. 64 /\ MaxRows \in 1 .. 64
  BY Rows
<1>2. t \in Term /\ t.posy \in TRows /\ t.at \in TRows /\ t.posy <= t.at
      /\ t.output_row \in -1 .. MaxRows - 1 /\ (t.at - t.posy) + t.output_row < TermRows
  BY DEF TermOK, Base, Term
<1>3. t.at + n \in TRows /\ t.posy + n \in TRows
  BY <1>1, <1>2 DEF TRows
<1>4. Lower(t.at + n, TermRows - 1) = t.at + n
  BY <1>1, <1>3 DEF Lower, TRows
<1>5. PICK g : g = [CursorDown(t, n) EXCEPT !.posy = @ + n]
  OBVIOUS
<1>6. g = [posy |-> t.posy + n, output_row |-> t.output_row, rows |-> t.rows, at |-> t.at + n]
  BY <1>2, <1>4, <1>5 DEF CursorDown, Term
<1>7. g \in Term
  BY <1>2, <1>3, <1>6 DEF Term
<1>8. Base(g) = Base(t)
  BY <1>2, <1>6 DEF Base, TRows
<1>9. \A r \in TRows : At(g, r) = At(t, r)
  BY <1>6, <1>8 DEF At
<1>10. TermOK(g)
  BY <1>1, <1>2, <1>3, <1>6, <1>7, <1>8 DEF TermOK, TRows
<1>11. QED
  BY <1>5, <1>6, <1>9, <1>10 DEF Moved

LEMMA Up ==
  ASSUME NEW t, TermOK(t), NEW y \in Nat, y < t.posy
  PROVE  Moved(t, [CursorUp(t, t.posy - y) EXCEPT !.posy = y], y)
<1>1. TermRows \in 1 .. 64 /\ MaxRows \in 1 .. 64
  BY Rows
<1>2. t \in Term /\ t.posy \in TRows /\ t.at \in TRows /\ t.posy <= t.at
      /\ t.output_row \in -1 .. MaxRows - 1 /\ (t.at - t.posy) + t.output_row < TermRows
  BY DEF TermOK, Base, Term
<1>3. PICK n : n = t.posy - y
  OBVIOUS
<1>4. n \in TRows /\ t.at - n \in TRows /\ y \in TRows /\ (t.at - n) - y = t.at - t.posy
  BY <1>1, <1>2, <1>3 DEF TRows
<1>5. (IF t.at > n THEN t.at - n ELSE 0) = t.at - n
  BY <1>1, <1>2, <1>3, <1>4 DEF TRows
<1>6. PICK g : g = [CursorUp(t, n) EXCEPT !.posy = y]
  OBVIOUS
<1>7. g = [posy |-> y, output_row |-> t.output_row, rows |-> t.rows, at |-> t.at - n]
  BY <1>2, <1>5, <1>6 DEF CursorUp, Term
<1>8. g \in Term
  BY <1>2, <1>4, <1>7 DEF Term
<1>9. Base(g) = Base(t)
  BY <1>4, <1>7 DEF Base
<1>10. \A r \in TRows : At(g, r) = At(t, r)
  BY <1>7, <1>9 DEF At
<1>11. y <= t.at - n
  BY <1>1, <1>2, <1>3 DEF TRows
<1>12. TermOK(g)
  BY <1>2, <1>7, <1>8, <1>9, <1>11 DEF TermOK, Base
<1>13. QED
  BY <1>3, <1>6, <1>7, <1>10, <1>12 DEF Moved

(* Line feeds scroll the terminal when they reach its end. *)
LEMMA Feed ==
  ASSUME NEW t, TermOK(t), NEW y \in TRows, t.posy < y
  PROVE  Moved(t, [LineFeeds(t, y - t.posy) EXCEPT !.posy = y], y)
<1>1. TermRows \in 1 .. 64 /\ MaxRows \in 1 .. 64 /\ TRows = 0 .. TermRows - 1
  BY Rows DEF TRows
<1>2. t \in Term /\ t.posy \in TRows /\ t.at \in TRows /\ t.posy <= t.at
      /\ t.output_row \in -1 .. MaxRows - 1 /\ (t.at - t.posy) + t.output_row < TermRows
      /\ t.rows \in [TRows -> Contents]
  BY DEF TermOK, Base, Term
<1>3. PICK n : n = y - t.posy
  OBVIOUS
<1>4. n \in 1 .. TermRows - 1
  BY <1>1, <1>2, <1>3
<1>5. PICK lost : lost = IF t.at + n < TermRows THEN 0 ELSE t.at + n - (TermRows - 1)
  OBVIOUS
<1>6. /\ lost \in 0 .. TermRows - 1 /\ lost <= t.at - t.posy
      /\ Lower(t.at + n, TermRows - 1) = (t.at + n) - lost /\ (t.at + n) - lost \in TRows
  <2>1. PICK a, p, T : a = t.at /\ p = t.posy /\ T = TermRows
    OBVIOUS
  <2>2. /\ a \in 0 .. T - 1 /\ p \in 0 .. T - 1 /\ p <= a /\ n \in 1 .. T - 1 /\ T \in 1 .. 64
        /\ lost = IF a + n < T THEN 0 ELSE a + n - (T - 1)
        /\ p + n <= T - 1
    BY <1>1, <1>2, <1>3, <1>4, <1>5, <2>1
  <2>3. /\ lost \in 0 .. T - 1 /\ lost <= a - p
        /\ (IF a + n < T - 1 THEN a + n ELSE T - 1) = (a + n) - lost /\ (a + n) - lost \in 0 .. T - 1
    <3>1. CASE a + n < T
      BY ONLY <2>2, <3>1
    <3>2. CASE ~ (a + n < T)
      <4>1. lost = (a + n) - (T - 1)
        BY ONLY <2>2, <3>2
      <4>2. QED
        BY ONLY <2>2, <3>2, <4>1
    <3>3. QED
      BY <3>1, <3>2
  <2>4. QED
    BY <1>1, <2>1, <2>3 DEF Lower
<1>7. Lower(t.at + n, TermRows - 1) = (t.at + n) - lost /\ (t.at + n) - lost \in TRows
  BY <1>6
<1>8. PICK w : w = [r \in TRows |-> IF r + lost < TermRows THEN t.rows[r + lost] ELSE Blank]
  OBVIOUS
<1>9. w \in [TRows -> Contents]
  <2>1. ASSUME NEW r \in TRows PROVE w[r] \in Contents
    <3>1. CASE r + lost < TermRows
      <4>1. r + lost \in TRows
        BY <1>1, <1>6, <3>1
      <4>2. QED
        BY <1>2, <1>8, <3>1, <4>1
    <3>2. CASE ~ (r + lost < TermRows)
      BY <1>8, <3>2 DEF Contents
    <3>3. QED
      BY <3>1, <3>2
  <2>2. QED
    BY <1>8, <2>1
<1>10. PICK g : g = [LineFeeds(t, n) EXCEPT !.posy = y]
  OBVIOUS
<1>11. DOMAIN t.rows = TRows
  BY <1>2
<1>12. g = [posy |-> y, output_row |-> t.output_row, rows |-> w, at |-> (t.at + n) - lost]
  BY <1>2, <1>5, <1>7, <1>8, <1>10, <1>11 DEF LineFeeds, Term
<1>13. g \in Term
  BY <1>2, <1>7, <1>9, <1>12 DEF Term
<1>14. Base(g) = Base(t) - lost
  <2>1. g.at = (t.at + n) - lost /\ g.posy = y
    BY <1>12
  <2>2. t.at \in Int /\ t.posy \in Int /\ y \in Int /\ lost \in Int
    BY <1>1, <1>2, <1>6
  <2>3. QED
    BY <1>3, <2>1, <2>2 DEF Base
<1>15. Base(t) \in 0 .. TermRows - 1
  <2>1. PICK a, p, T : a = t.at /\ p = t.posy /\ T = TermRows
    OBVIOUS
  <2>2. a \in 0 .. T - 1 /\ p \in 0 .. T - 1 /\ p <= a /\ T \in 1 .. 64
    BY <1>1, <1>2, <2>1
  <2>3. a - p \in 0 .. T - 1
    BY ONLY <2>2
  <2>4. QED
    BY <2>1, <2>3 DEF Base
<1>16. ASSUME NEW r \in TRows PROVE At(g, r) = At(t, r)
  <2>1. PICK b : b = Base(t)
    OBVIOUS
  <2>2. b \in 0 .. TermRows - 1 /\ lost <= b /\ r \in Nat
    BY <1>1, <1>2, <1>6, <1>15, <2>1 DEF Base
  <2>3. CASE b + r < TermRows
    <3>1. (b - lost) + r \in TRows /\ (b - lost) + r < TermRows
      BY <1>1, <1>6, <2>2, <2>3
    <3>2. w[(b - lost) + r] = t.rows[b + r]
      <4>1. ((b - lost) + r) + lost = b + r
        BY <1>6, <2>2
      <4>2. QED
        BY <1>8, <2>3, <3>1, <4>1
    <3>3. QED
      BY <1>12, <1>14, <2>1, <2>3, <3>1, <3>2 DEF At
  <2>4. CASE b + r >= TermRows /\ (b - lost) + r < TermRows
    <3>1. (b - lost) + r \in TRows
      BY <1>1, <1>6, <2>2, <2>4
    <3>2. ((b - lost) + r) + lost >= TermRows
      BY <1>1, <1>6, <2>2, <2>4
    <3>3. w[(b - lost) + r] = Blank
      BY <1>1, <1>6, <1>8, <3>1, <3>2
    <3>4. ~ (b + r < TermRows)
      BY <1>1, <2>2, <2>4
    <3>5. QED
      BY <1>12, <1>14, <2>1, <2>4, <3>3, <3>4 DEF At
  <2>5. CASE b + r >= TermRows /\ (b - lost) + r >= TermRows
    <3>1. ~ (b + r < TermRows) /\ ~ ((b - lost) + r < TermRows)
      BY <1>1, <1>6, <2>2, <2>5
    <3>2. QED
      BY <1>12, <1>14, <2>1, <3>1 DEF At
  <2>6. QED
    BY <1>1, <1>6, <2>2, <2>3, <2>4, <2>5
<1>17. y <= (t.at + n) - lost
  <2>1. PICK a, p : a = t.at /\ p = t.posy
    OBVIOUS
  <2>2. a \in Int /\ p \in Int /\ y \in Int /\ n = y - p /\ lost \in Int /\ lost <= a - p
    BY <1>1, <1>2, <1>3, <1>6, <2>1
  <2>3. y <= (a + n) - lost
    BY ONLY <2>2
  <2>4. QED
    BY <2>1, <2>3
<1>18. Base(g) + t.output_row < TermRows
  <2>1. PICK b, o, T : b = Base(t) /\ o = t.output_row /\ T = TermRows
    OBVIOUS
  <2>2. b \in Int /\ o \in Int /\ T \in Int /\ lost \in Nat /\ b + o < T
    BY <1>1, <1>2, <1>6, <1>15, <2>1 DEF Base
  <2>3. (b - lost) + o < T
    BY ONLY <2>2
  <2>4. QED
    BY <1>14, <2>1, <2>3
<1>19. TermOK(g)
  <2>1. g.posy = y /\ g.at = (t.at + n) - lost /\ g.output_row = t.output_row
    BY <1>12
  <2>2. QED
    BY <1>13, <1>17, <1>18, <2>1 DEF TermOK
<1>20. QED
  BY <1>3, <1>10, <1>12, <1>16, <1>19 DEF Moved

(* The three parts of term_goto_xy; p is the row it starts from.           *)
Reached(row) == IF row >= TermRows THEN TermRows - 1 ELSE row

Crossed(t, y, p) ==
    IF t.posy < y /\ p < t.output_row
    THEN [CursorDown(t, (IF y < t.output_row THEN y ELSE t.output_row) - p) EXCEPT
             !.posy = @ + ((IF y < t.output_row THEN y ELSE t.output_row) - p)]
    ELSE t

Fed(t, y) == IF t.posy < y THEN [LineFeeds(t, y - t.posy) EXCEPT !.posy = y] ELSE t

Climbed(t, y) == IF t.posy > y THEN [CursorUp(t, t.posy - y) EXCEPT !.posy = y] ELSE t

LEMMA GotoInParts ==
  ASSUME NEW t, NEW row
  PROVE  term_goto_xy(t, row) =
             Climbed(Fed(Crossed(t, Reached(row), Signed(t.posy)), Reached(row)), Reached(row))
BY DEF term_goto_xy, Climbed, Fed, Crossed, Reached

(* term_goto_xy reaches the row, and displays what was displayed.          *)
LEMMA GotoMoves ==
  ASSUME NEW t, TermOK(t), NEW row \in TRows
  PROVE  Moved(t, term_goto_xy(t, row), row)
<1>1. TermRows \in 1 .. 64 /\ MaxRows \in 1 .. 64 /\ TRows = 0 .. TermRows - 1
  BY Rows DEF TRows
<1>2. t.posy \in TRows /\ t.output_row \in -1 .. MaxRows - 1
  BY DEF TermOK, Term
<1>3. Signed(t.posy) = t.posy
  BY <1>1, <1>2 DEF Signed, Word
<1>4. Reached(row) = row
  BY <1>1 DEF Reached
<1>5. PICK inc : inc = (IF row < t.output_row THEN row ELSE t.output_row) - t.posy
  OBVIOUS
<1>6. PICK t1 : t1 = Crossed(t, row, t.posy)
  OBVIOUS
<1>7. PICK t2 : t2 = Fed(t1, row)
  OBVIOUS
<1>8. term_goto_xy(t, row) = Climbed(t2, row)
  BY <1>3, <1>4, <1>6, <1>7, GotoInParts
<1>9. Moved(t, t1, t1.posy) /\ t1.posy \in TRows
  <2>1. CASE t.posy < row /\ t.posy < t.output_row
    <3>1. inc \in Nat /\ t.posy + inc <= t.output_row
      BY <1>1, <1>2, <1>5, <2>1
    <3>2. Moved(t, t1, t.posy + inc)
      BY <1>5, <1>6, <2>1, <3>1, Down DEF Crossed
    <3>3. QED
      BY <3>2 DEF Moved, TermOK, Term
  <2>2. CASE ~ (t.posy < row /\ t.posy < t.output_row)
    BY <1>2, <1>6, <2>2 DEF Moved, Crossed
  <2>3. QED
    BY <2>1, <2>2
<1>10. Moved(t1, t2, t2.posy) /\ t2.posy \in TRows
  <2>1. TermOK(t1)
    BY <1>9 DEF Moved
  <2>2. CASE t1.posy < row
    <3>1. Moved(t1, t2, row)
      BY <1>7, <2>1, <2>2, Feed DEF Fed
    <3>2. QED
      BY <3>1 DEF Moved
  <2>3. CASE ~ (t1.posy < row)
    BY <1>7, <1>9, <2>1, <2>3 DEF Moved, Fed
  <2>4. QED
    BY <2>2, <2>3
<1>11. t2.posy >= row
  <2>1. CASE t1.posy < row
    <3>1. TermOK(t1)
      BY <1>9 DEF Moved
    <3>2. Moved(t1, t2, row)
      BY <1>7, <2>1, <3>1, Feed DEF Fed
    <3>3. QED
      BY <1>1, <3>2 DEF Moved
  <2>2. CASE ~ (t1.posy < row)
    BY <1>1, <1>7, <1>9, <2>2 DEF Fed
  <2>3. QED
    BY <2>1, <2>2
<1>12. TermOK(t2)
  BY <1>10 DEF Moved
<1>13. PICK g : g = term_goto_xy(t, row)
  OBVIOUS
<1>14. Moved(t2, g, row)
  <2>1. CASE t2.posy > row
    <3>1. row \in Nat /\ row < t2.posy
      BY <1>1, <1>10, <2>1
    <3>2. QED
      BY <1>8, <1>12, <1>13, <2>1, <3>1, Up DEF Climbed
  <2>2. CASE ~ (t2.posy > row)
    <3>1. t2.posy = row
      BY <1>1, <1>10, <1>11, <2>2
    <3>2. QED
      BY <1>8, <1>12, <1>13, <2>2, <3>1 DEF Moved, Climbed
  <2>3. QED
    BY <2>1, <2>2
<1>15. Moved(t, g, row)
  BY <1>9, <1>10, <1>14 DEF Moved
<1>16. QED
  BY <1>13, <1>15

(* A move shows the same rows. *)
LEMMA MovedShows ==
  ASSUME NEW t, NEW g, NEW sh, NEW y, Shows(t, sh), Moved(t, g, y)
  PROVE  Shows(g, sh)
BY DEF Shows, Moved
--------------------------------------------------------------------------------
(* Drawing.                                                                *)

(* A row that is put is displayed, and drawn from then on.                 *)
LEMMA PutShows ==
  ASSUME Tall, NEW t, NEW sh, Shows(t, sh), NEW row \in VidRows, NEW text \in Contents
  PROVE  Shows(Put(t, text, row), [sh EXCEPT ![row] = text])
<1>1. /\ TermRows \in 1 .. 64 /\ MaxRows \in 1 .. 64 /\ TRows = 0 .. TermRows - 1
      /\ VidRows = 0 .. MaxRows - 1 /\ row \in TRows
  BY Rows DEF TRows
<1>2. TermOK(t) /\ sh \in [TRows -> Contents]
  BY DEF Shows
<1>3. PICK g : g = term_goto_xy(t, row)
  OBVIOUS
<1>4. Moved(t, g, row)
  BY <1>1, <1>2, <1>3, GotoMoves
<1>5. Shows(g, sh) /\ g.posy = row /\ TermOK(g)
  BY <1>4, MovedShows DEF Moved
<1>6. /\ g \in Term /\ g.at \in TRows /\ g.output_row \in -1 .. MaxRows - 1
      /\ g.rows \in [TRows -> Contents] /\ row <= g.at /\ (g.at - row) + g.output_row < TermRows
  BY <1>5 DEF TermOK, Term, Base
<1>7. PICK o : o = IF g.output_row < row THEN row ELSE g.output_row
  OBVIOUS
<1>8. o \in -1 .. MaxRows - 1 /\ (g.at - row) + o < TermRows /\ g.output_row <= o /\ row <= o
  <2>1. CASE g.output_row < row
    BY <1>1, <1>6, <1>7, <2>1
  <2>2. CASE ~ (g.output_row < row)
    BY <1>1, <1>6, <1>7, <2>2
  <2>3. QED
    BY <2>1, <2>2
<1>9. PICK w : w = [g.rows EXCEPT ![g.at] = text]
  OBVIOUS
<1>10. w \in [TRows -> Contents]
  BY <1>6, <1>9
<1>11. PICK p : p = Put(t, text, row)
  OBVIOUS
<1>12. p = [posy |-> row, output_row |-> o, rows |-> w, at |-> g.at]
  BY <1>3, <1>5, <1>6, <1>7, <1>9, <1>11 DEF Put, Term
<1>13. p \in Term
  BY <1>1, <1>6, <1>8, <1>10, <1>12 DEF Term
<1>14. TermOK(p)
  BY <1>6, <1>8, <1>12, <1>13 DEF TermOK, Base
<1>15. PICK s2 : s2 = [sh EXCEPT ![row] = text]
  OBVIOUS
<1>16. s2 \in [TRows -> Contents]
  BY <1>2, <1>15
<1>17. ASSUME NEW y \in TRows
       PROVE  At(p, y) = s2[y] /\ (y > p.output_row => s2[y] = Blank)
  <2>1. At(g, y) = sh[y] /\ (y > g.output_row => sh[y] = Blank)
    BY <1>5 DEF Shows
  <2>2. PICK b : b = g.at - row
    OBVIOUS
  <2>3. Base(p) = b /\ Base(g) = b /\ b \in Nat /\ b + row = g.at
    BY <1>1, <1>5, <1>6, <1>12, <2>2 DEF Base
  <2>4. CASE y = row
    <3>1. s2[y] = text
      BY <1>2, <1>15, <2>4
    <3>2. b + y < TermRows /\ w[b + y] = text
      BY <1>1, <1>6, <1>9, <2>3, <2>4
    <3>3. ~ (y > o)
      BY <1>1, <1>8, <2>4
    <3>4. QED
      BY <1>12, <2>3, <3>1, <3>2, <3>3 DEF At
  <2>5. CASE y # row
    <3>1. s2[y] = sh[y]
      BY <1>2, <1>15, <2>5
    <3>2. b + y # g.at
      BY <1>1, <2>3, <2>5
    <3>3. w[b + y] = g.rows[b + y] \/ ~ (b + y < TermRows)
      <4>1. CASE b + y < TermRows
        <5>1. b + y \in TRows
          BY <1>1, <2>3, <4>1
        <5>2. QED
          BY <1>6, <1>9, <3>2, <5>1
      <4>2. QED
        BY <4>1
    <3>4. At(p, y) = At(g, y)
      BY <1>12, <2>3, <3>3 DEF At
    <3>5. y > o => y > g.output_row
      BY <1>1, <1>6, <1>8
    <3>6. QED
      BY <1>12, <2>1, <3>1, <3>4, <3>5
  <2>6. QED
    BY <2>4, <2>5
<1>18. Shows(p, s2)
  BY <1>14, <1>16, <1>17 DEF Shows
<1>19. QED
  BY <1>11, <1>15, <1>18

(* One row of check_screen, and the recursion of Drawn. *)
DrawnRow(t, sh, u, k) ==
    IF k \in RowsToDraw(t, sh) /\ vram[k] # sh[k] THEN Put(u, vram[k], k) ELSE u

IsDrawing(t, sh, f, n) ==
    f = [y \in 0 .. n |-> IF y = 0 THEN t ELSE DrawnRow(t, sh, f[y - 1], y - 1)]

LEMMA DrawingExists ==
  ASSUME NEW t, NEW sh
  PROVE  \E f : IsDrawing(t, sh, f, MaxRows) /\ Drawn(t, sh) = f[MaxRows]
<1> DEFINE T == {n \in Nat : \E f : IsDrawing(t, sh, f, n)}
<1>1. 0 \in T
  <2>1. PICK f : f = [y \in 0 .. 0 |-> t]
    OBVIOUS
  <2>2. \A y \in 0 .. 0 : y = 0
    OBVIOUS
  <2>3. IsDrawing(t, sh, f, 0)
    BY <2>1, <2>2 DEF IsDrawing
  <2>4. QED
    BY <2>3
<1>2. ASSUME NEW n \in T PROVE n + 1 \in T
  <2>1. PICK f : IsDrawing(t, sh, f, n)
    OBVIOUS
  <2>2. PICK v : v = DrawnRow(t, sh, f[n], n)
    OBVIOUS
  <2>3. PICK g : g = [y \in 0 .. n + 1 |-> IF y = n + 1 THEN v ELSE f[y]]
    OBVIOUS
  <2>4. n \in Nat
    OBVIOUS
  <2>5. ASSUME NEW y \in 0 .. n + 1
        PROVE  g[y] = IF y = 0 THEN t ELSE DrawnRow(t, sh, g[y - 1], y - 1)
    <3>1. CASE y = n + 1
      <4>1. y - 1 = n /\ y # 0 /\ g[y] = v /\ g[n] = f[n]
        BY <2>3, <2>4, <3>1
      <4>2. QED
        BY <2>2, <4>1
    <3>2. CASE y # n + 1
      <4>1. y \in 0 .. n
        BY <2>4, <3>2
      <4>2. f[y] = IF y = 0 THEN t ELSE DrawnRow(t, sh, f[y - 1], y - 1)
        BY <2>1, <4>1 DEF IsDrawing
      <4>3. g[y] = f[y] /\ (y # 0 => g[y - 1] = f[y - 1])
        BY <2>3, <2>4, <4>1
      <4>4. QED
        BY <4>2, <4>3
    <3>3. QED
      BY <3>1, <3>2
  <2>6. g = [y \in 0 .. n + 1 |-> g[y]]
    BY <2>3
  <2>7. IsDrawing(t, sh, g, n + 1)
    BY <2>5, <2>6 DEF IsDrawing
  <2>8. QED
    BY <2>4, <2>7
<1>3. MaxRows \in T
  <2>1. T \subseteq Nat
    OBVIOUS
  <2> HIDE DEF T
  <2>2. T = Nat
    BY <1>1, <1>2, <2>1, NatSetInduction
  <2>3. QED
    BY <2>2, Rows
<1>4. PICK f : f = CHOOSE h : IsDrawing(t, sh, h, MaxRows)
  OBVIOUS
<1>5. IsDrawing(t, sh, f, MaxRows)
  BY <1>3, <1>4
<1>6. Drawn(t, sh) = f[MaxRows]
  BY <1>4 DEF Drawn, IsDrawing, DrawnRow
<1>7. QED
  BY <1>5, <1>6
(* The copy while rows are drawn, before row n. *)
Partly(t, sh, n) == [y \in TRows |-> IF y < n /\ y \in RowsToDraw(t, sh) THEN vram[y] ELSE sh[y]]

LEMMA RowDrawn ==
  ASSUME Tall, vram \in [VidRows -> Contents], NEW t, NEW sh, sh \in [TRows -> Contents],
         NEW n \in VidRows, NEW u, Shows(u, Partly(t, sh, n))
  PROVE  Shows(DrawnRow(t, sh, u, n), Partly(t, sh, n + 1))
<1>1. /\ TermRows \in 1 .. 64 /\ MaxRows \in 1 .. 64 /\ TRows = 0 .. TermRows - 1
      /\ VidRows = 0 .. MaxRows - 1 /\ n \in TRows /\ vram[n] \in Contents
  BY Rows DEF TRows
<1>2. \A y \in TRows : y < n + 1 <=> y < n \/ y = n
  BY <1>1
<1>3. CASE n \in RowsToDraw(t, sh) /\ vram[n] # sh[n]
  <2>1. PICK p : p = Partly(t, sh, n)
    OBVIOUS
  <2>2. PICK q : q = [p EXCEPT ![n] = vram[n]]
    OBVIOUS
  <2>3. \A y \in TRows : q[y] = IF y < n + 1 /\ y \in RowsToDraw(t, sh) THEN vram[y] ELSE sh[y]
    BY <1>1, <1>2, <1>3, <2>1, <2>2 DEF Partly
  <2>4. q = [y \in TRows |-> q[y]]
    BY <2>1, <2>2 DEF Partly
  <2>5. q = Partly(t, sh, n + 1)
    BY <2>3, <2>4 DEF Partly
  <2>6. Shows(Put(u, vram[n], n), q)
    BY <1>1, <2>1, <2>2, PutShows
  <2>7. QED
    BY <1>3, <2>5, <2>6 DEF DrawnRow
<1>4. CASE ~ (n \in RowsToDraw(t, sh) /\ vram[n] # sh[n])
  <2>1. \A y \in TRows : (IF y < n + 1 /\ y \in RowsToDraw(t, sh) THEN vram[y] ELSE sh[y])
                         = (IF y < n /\ y \in RowsToDraw(t, sh) THEN vram[y] ELSE sh[y])
    BY <1>2, <1>4
  <2>2. Partly(t, sh, n + 1) = Partly(t, sh, n)
    BY <2>1 DEF Partly
  <2>3. QED
    BY <1>4, <2>2 DEF DrawnRow
<1>5. QED
  BY <1>3, <1>4

(* check_screen brings terminal and copy to the same rows. *)
LEMMA DrawnShows ==
  ASSUME Tall, vram \in [VidRows -> Contents], NEW t, NEW sh, Shows(t, sh)
  PROVE  Shows(Drawn(t, sh), Copied(t, sh))
<1>1. /\ TermRows \in 1 .. 64 /\ MaxRows \in 1 .. 64 /\ TRows = 0 .. TermRows - 1
      /\ VidRows = 0 .. MaxRows - 1 /\ VidRows \subseteq TRows /\ ShadowRows = TRows
  BY Rows DEF TRows
<1>2. sh \in [TRows -> Contents]
  BY DEF Shows
<1>3. PICK f : IsDrawing(t, sh, f, MaxRows) /\ Drawn(t, sh) = f[MaxRows]
  BY DrawingExists
<1>4. f[0] = t
  BY <1>1, <1>3 DEF IsDrawing
<1>5. ASSUME NEW n \in 0 .. MaxRows - 1 PROVE f[n + 1] = DrawnRow(t, sh, f[n], n)
  <2>1. n + 1 \in 0 .. MaxRows /\ n + 1 # 0 /\ (n + 1) - 1 = n
    BY <1>1
  <2>2. f[n + 1] = DrawnRow(t, sh, f[(n + 1) - 1], (n + 1) - 1)
    BY <1>3, <2>1 DEF IsDrawing
  <2>3. QED
    BY <2>1, <2>2
<1> DEFINE T == {n \in Nat : n <= MaxRows => Shows(f[n], Partly(t, sh, n))}
<1>6. 0 \in T
  <2>1. Partly(t, sh, 0) = sh
    <3>1. \A y \in TRows : ~ (y < 0)
      BY <1>1
    <3>2. Partly(t, sh, 0) = [y \in TRows |-> sh[y]]
      BY <3>1 DEF Partly
    <3>3. QED
      BY <1>2, <3>2
  <2>2. QED
    BY <1>4, <2>1
<1>7. ASSUME NEW n \in T PROVE n + 1 \in T
  <2>1. n \in Nat
    OBVIOUS
  <2>2. SUFFICES ASSUME n + 1 <= MaxRows PROVE Shows(f[n + 1], Partly(t, sh, n + 1))
    OBVIOUS
  <2>3. n \in VidRows /\ n \in 0 .. MaxRows - 1
    BY <1>1, <2>1, <2>2
  <2>4. Shows(f[n], Partly(t, sh, n))
    BY <1>1, <2>1, <2>2
  <2>5. Shows(DrawnRow(t, sh, f[n], n), Partly(t, sh, n + 1))
    BY <1>2, <2>3, <2>4, RowDrawn
  <2>6. QED
    BY <1>5, <2>3, <2>5
<1>8. Shows(f[MaxRows], Partly(t, sh, MaxRows))
  <2>1. T \subseteq Nat
    OBVIOUS
  <2>2. T = Nat
    <3> HIDE DEF T
    <3>1. QED
      BY <1>6, <1>7, <2>1, NatSetInduction
  <2>3. MaxRows \in T
    <3> HIDE DEF T
    <3>1. QED
      BY <1>1, <2>2
  <2>4. QED
    BY <1>1, <2>3
<1>9. Partly(t, sh, MaxRows) = Copied(t, sh)
  <2>1. \A y \in TRows : y \in RowsToDraw(t, sh) => y < MaxRows
    BY <1>1 DEF RowsToDraw
  <2>2. \A y \in TRows : (IF y < MaxRows /\ y \in RowsToDraw(t, sh) THEN vram[y] ELSE sh[y])
                         = (IF y \in RowsToDraw(t, sh) THEN vram[y] ELSE sh[y])
    BY <2>1
  <2>3. QED
    BY <1>1, <2>2 DEF Partly, Copied
<1>10. QED
  BY <1>3, <1>8, <1>9

LEMMA CheckedShows ==
  ASSUME Tall, vram \in [VidRows -> Contents], cursor \in VidRows,
         NEW t, NEW sh, Shows(t, sh), NEW shown
  PROVE  Shows(Checked(t, sh, shown), Copied(t, sh))
<1>1. Shows(Drawn(t, sh), Copied(t, sh))
  BY DrawnShows
<1>2. cursor \in TRows
  BY Rows
<1>3. TermOK(Drawn(t, sh))
  BY <1>1 DEF Shows
<1>4. Moved(Drawn(t, sh), term_goto_xy(Drawn(t, sh), cursor), cursor)
  BY <1>2, <1>3, GotoMoves
<1>5. Shows(term_goto_xy(Drawn(t, sh), cursor), Copied(t, sh))
  BY <1>1, <1>4, MovedShows
<1>6. QED
  BY <1>1, <1>5 DEF Checked

(* The copy is video memory, as far as the screen has rows. *)
LEMMA CopiedAgrees ==
  ASSUME Tall, NEW t, NEW sh
  PROVE  Agrees(Copied(t, sh), vid_sy)
<1>1. VidRows \subseteq ShadowRows /\ VidRows = 0 .. MaxRows - 1
  BY Rows
<1>2. SUFFICES ASSUME NEW y \in VidRows, y < vid_sy PROVE Copied(t, sh)[y] = vram[y]
  BY DEF Agrees
<1>3. y <= y
  BY <1>1
<1>4. y \in RowsToDraw(t, sh) \/ vram[y] = sh[y]
  BY <1>2, <1>3 DEF RowsToDraw
<1>5. QED
  BY <1>1, <1>4 DEF Copied
--------------------------------------------------------------------------------
(* Scrolling, erasing, closing and opening.                                *)

(* The rows that were drawn are counted from m rows further down.          *)
LEMMA ScrolledShows ==
  ASSUME Tall, NEW t, NEW sh, Shows(t, sh), NEW m \in Nat, m <= t.output_row + 1,
         NEW g, g = IF t.posy < m THEN term_goto_xy(t, m) ELSE t,
         NEW s2, s2 = [y \in TRows |->
                          IF y + m < TermRows THEN sh[y + m]
                          ELSE IF y < TermRows THEN Blank ELSE sh[y]]
  PROVE  Shows([g EXCEPT !.output_row = @ - m, !.posy = (@ - m) % Word], s2)
<1>1. /\ TermRows \in 1 .. 64 /\ MaxRows \in 1 .. 64 /\ TRows = 0 .. TermRows - 1
      /\ MaxRows < TermRows
  BY Rows DEF TRows, Tall
<1>2. TermOK(t) /\ sh \in [TRows -> Contents] /\ t.posy \in TRows /\ t.output_row \in -1 .. MaxRows - 1
  BY DEF Shows, TermOK, Term
<1>3. m \in TRows
  BY <1>1, <1>2
<1>4. Shows(g, sh) /\ g.output_row = t.output_row /\ g.posy >= m
  <2>1. CASE t.posy < m
    <3>1. Moved(t, g, m)
      BY <1>2, <1>3, <2>1, GotoMoves
    <3>2. QED
      BY <1>1, <1>3, <3>1, MovedShows DEF Moved
  <2>2. CASE ~ (t.posy < m)
    BY <1>1, <1>2, <1>3, <2>2
  <2>3. QED
    BY <2>1, <2>2
<1>5. /\ g \in Term /\ g.at \in TRows /\ g.posy \in TRows /\ g.rows \in [TRows -> Contents]
      /\ g.posy <= g.at /\ (g.at - g.posy) + g.output_row < TermRows
  BY <1>4 DEF Shows, TermOK, Term, Base
<1>6. PICK p, o : p = g.posy - m /\ o = g.output_row - m
  OBVIOUS
<1>7. /\ p \in TRows /\ p <= g.at /\ o \in -1 .. MaxRows - 1
      /\ (g.at - p) + o < TermRows /\ g.at - p = (g.at - g.posy) + m
      /\ p % 256 = p
  <2>1. PICK a, q, u, M, T :
           a = g.at /\ q = g.posy /\ u = g.output_row /\ M = MaxRows /\ T = TermRows
    OBVIOUS
  <2>2. /\ T \in 1 .. 64 /\ M \in 1 .. 64 /\ a \in 0 .. T - 1 /\ q \in 0 .. T - 1 /\ u \in -1 .. M - 1
        /\ m \in 0 .. T - 1 /\ m <= u + 1 /\ m <= q /\ q <= a /\ (a - q) + u < T
        /\ p = q - m /\ o = u - m
    BY <1>1, <1>2, <1>3, <1>4, <1>5, <1>6, <2>1
  <2>3. p \in 0 .. T - 1 /\ p <= a /\ o \in -1 .. M - 1
    BY ONLY <2>2
  <2>4. (a - p) + o < T /\ a - p = (a - q) + m
    BY ONLY <2>2
  <2>5. p % 256 = p
    BY ONLY <2>2, <2>3
  <2>6. QED
    BY <1>1, <2>1, <2>3, <2>4, <2>5
<1>8. PICK h : h = [g EXCEPT !.output_row = @ - m, !.posy = (@ - m) % Word]
  OBVIOUS
<1>9. h = [posy |-> p, output_row |-> o, rows |-> g.rows, at |-> g.at]
  <2>1. g = [posy |-> g.posy, output_row |-> g.output_row, rows |-> g.rows, at |-> g.at]
    BY <1>5 DEF Term
  <2>2. h = [posy |-> (g.posy - m) % Word, output_row |-> g.output_row - m,
             rows |-> g.rows, at |-> g.at]
    BY ONLY <1>8, <2>1
  <2>3. QED
    BY <1>6, <1>7, <2>2 DEF Word
<1>10. h \in Term
  BY <1>5, <1>7, <1>9 DEF Term
<1>11. TermOK(h)
  BY <1>7, <1>9, <1>10 DEF TermOK, Base
<1>12. s2 \in [TRows -> Contents]
  <2>1. ASSUME NEW y \in TRows PROVE s2[y] \in Contents
    <3>1. CASE y + m < TermRows
      <4>1. y + m \in TRows
        BY <1>1, <1>3, <3>1
      <4>2. QED
        BY <1>2, <3>1, <4>1
    <3>2. CASE ~ (y + m < TermRows)
      BY <1>1, <3>2 DEF Contents
    <3>3. QED
      BY <3>1, <3>2
  <2>2. QED
    BY <2>1
<1>13. ASSUME NEW y \in TRows
       PROVE  At(h, y) = s2[y] /\ (y > h.output_row => s2[y] = Blank)
  <2>1. PICK b : b = g.at - g.posy
    OBVIOUS
  <2>2. b \in 0 .. TermRows - 1 /\ Base(g) = b /\ Base(h) = b + m
    <3>1. b \in 0 .. TermRows - 1
      <4>1. PICK c, q, T : c = g.at /\ q = g.posy /\ T = TermRows
        OBVIOUS
      <4>2. c \in 0 .. T - 1 /\ q \in 0 .. T - 1 /\ q <= c /\ T \in 1 .. 64 /\ b = c - q
        BY <1>1, <1>5, <2>1, <4>1
      <4>3. QED
        BY ONLY <4>1, <4>2
    <3>2. Base(g) = b /\ Base(h) = g.at - p
      BY <1>9, <2>1 DEF Base
    <3>3. QED
      BY <1>7, <2>1, <3>1, <3>2
  <2>3. (b + m) + y = b + (y + m)
    BY <1>1, <1>3, <2>2
  <2>4. CASE y + m < TermRows
    <3>1. y + m \in TRows /\ (y > o => y + m > g.output_row)
      BY <1>1, <1>2, <1>3, <1>4, <1>6, <2>4
    <3>2. At(g, y + m) = sh[y + m] /\ (y + m > g.output_row => sh[y + m] = Blank)
      BY <1>4, <3>1 DEF Shows
    <3>3. At(h, y) = At(g, y + m)
      BY <1>9, <2>2, <2>3 DEF At
    <3>4. s2[y] = sh[y + m]
      BY <2>4
    <3>5. QED
      BY <1>9, <3>1, <3>2, <3>3, <3>4
  <2>5. CASE ~ (y + m < TermRows)
    <3>1. s2[y] = Blank
      BY <1>1, <2>5
    <3>2. ~ ((b + m) + y < TermRows)
      BY <1>1, <1>3, <2>2, <2>3, <2>5
    <3>3. QED
      BY <2>2, <3>1, <3>2 DEF At
  <2>6. QED
    BY <2>4, <2>5
<1>14. Shows(h, s2)
  BY <1>11, <1>12, <1>13 DEF Shows
<1>15. QED
  BY <1>8, <1>14

(* The rows behind the last one of a smaller font are cleared.             *)
LEMMA ErasedShows ==
  ASSUME Tall, NEW t, NEW sh, Shows(t, sh), NEW rows \in 1 .. MaxRows, sh[rows - 1] = Blank,
         NEW s2, s2 = [y \in TRows |-> IF y >= rows THEN Blank ELSE sh[y]]
  PROVE  Shows([EraseBelow(term_goto_xy(t, rows - 1)) EXCEPT !.output_row = Lower(@, rows - 1)], s2)
<1>1. /\ TermRows \in 1 .. 64 /\ MaxRows \in 1 .. 64 /\ TRows = 0 .. TermRows - 1
      /\ MaxRows < TermRows
  BY Rows DEF TRows, Tall
<1>2. TermOK(t) /\ sh \in [TRows -> Contents]
  BY DEF Shows
<1>3. PICK row : row = rows - 1
  OBVIOUS
<1>4. row \in TRows /\ row \in 0 .. MaxRows - 1 /\ \A y \in TRows : y >= rows <=> y > row
  BY <1>1, <1>3
<1>5. PICK g : g = term_goto_xy(t, row)
  OBVIOUS
<1>6. Moved(t, g, row)
  BY <1>2, <1>4, <1>5, GotoMoves
<1>7. Shows(g, sh) /\ g.posy = row
  BY <1>6, MovedShows DEF Moved
<1>8. /\ g \in Term /\ g.at \in TRows /\ g.output_row \in -1 .. MaxRows - 1
      /\ g.rows \in [TRows -> Contents] /\ row <= g.at /\ (g.at - row) + g.output_row < TermRows
  BY <1>7 DEF Shows, TermOK, Term, Base
<1>9. PICK o : o = Lower(g.output_row, row)
  OBVIOUS
<1>10. /\ o \in -1 .. MaxRows - 1 /\ o <= row /\ o <= g.output_row
       /\ (o = row \/ o = g.output_row)
  BY <1>4, <1>8, <1>9 DEF Lower
<1>11. PICK w : w = [r \in TRows |-> IF r >= g.at THEN Blank ELSE g.rows[r]]
  OBVIOUS
<1>12. w \in [TRows -> Contents]
  BY <1>8, <1>11 DEF Contents
<1>13. PICK h : h = [EraseBelow(g) EXCEPT !.output_row = Lower(@, row)]
  OBVIOUS
<1>14. DOMAIN g.rows = TRows
  BY <1>8
<1>15. EraseBelow(g) = [posy |-> row, output_row |-> g.output_row, rows |-> w, at |-> g.at]
  BY <1>7, <1>8, <1>11, <1>14 DEF EraseBelow, Term
<1>16. h = [posy |-> row, output_row |-> o, rows |-> w, at |-> g.at]
  BY <1>9, <1>13, <1>15
<1>17. h \in Term
  BY <1>4, <1>8, <1>10, <1>12, <1>16 DEF Term
<1>18. (g.at - row) + o < TermRows
  BY <1>1, <1>4, <1>8, <1>10
<1>19. TermOK(h)
  BY <1>8, <1>16, <1>17, <1>18 DEF TermOK, Base
<1>20. s2 \in [TRows -> Contents]
  BY <1>2 DEF Contents
<1>21. ASSUME NEW y \in TRows
       PROVE  At(h, y) = s2[y] /\ (y > h.output_row => s2[y] = Blank)
  <2>1. PICK b : b = g.at - row
    OBVIOUS
  <2>2. b \in 0 .. TermRows - 1 /\ Base(g) = b /\ Base(h) = b /\ b + row = g.at
    <3>1. g.posy = row /\ h.at = g.at /\ h.posy = row
      BY <1>7, <1>16
    <3>2. PICK a, T : a = g.at /\ T = TermRows
      OBVIOUS
    <3>3. a \in 0 .. T - 1 /\ row \in Nat /\ row <= a /\ T \in Nat /\ b = a - row
      <4>1. TRows = 0 .. TermRows - 1 /\ TermRows \in 1 .. 64 /\ row \in 0 .. MaxRows - 1
        BY <1>1, <1>4
      <4>2. g.at \in TRows /\ row <= g.at
        BY <1>8
      <4>3. QED
        BY ONLY <2>1, <3>2, <4>1, <4>2
    <3>4. b \in 0 .. T - 1 /\ b + row = a
      BY ONLY <3>3
    <3>5. QED
      BY <2>1, <3>1, <3>2, <3>4 DEF Base
  <2>3. At(g, y) = sh[y] /\ (y > g.output_row => sh[y] = Blank)
    BY <1>7 DEF Shows
  <2>4. CASE y >= row
    <3>1. s2[y] = Blank
      <4>1. CASE y = row
        <5>1. s2[y] = Blank \/ s2[y] = sh[y]
          OBVIOUS
        <5>2. sh[y] = Blank
          BY <1>3, <4>1
        <5>3. QED
          BY <5>1, <5>2
      <4>2. CASE y > row
        BY <1>4, <4>2
      <4>3. QED
        BY <1>1, <1>4, <2>4, <4>1, <4>2
    <3>2. b + y < TermRows => b + y \in TRows /\ b + y >= g.at
      BY <1>1, <1>4, <2>2, <2>4
    <3>3. b + y < TermRows => w[b + y] = Blank
      BY <1>11, <3>2
    <3>4. QED
      BY <1>16, <2>2, <3>1, <3>3 DEF At
  <2>5. CASE ~ (y >= row)
    <3>1. s2[y] = sh[y]
      BY <1>1, <1>4, <2>5
    <3>2. b + y < TermRows => b + y \in TRows /\ ~ (b + y >= g.at)
      BY <1>1, <1>4, <1>8, <2>2, <2>5
    <3>3. b + y < TermRows => w[b + y] = g.rows[b + y]
      BY <1>11, <3>2
    <3>4. At(h, y) = At(g, y)
      BY <1>16, <2>2, <3>3 DEF At
    <3>5. y > o => y > g.output_row
      BY <1>1, <1>4, <1>8, <1>10, <2>5
    <3>6. QED
      BY <1>16, <2>3, <3>1, <3>4, <3>5
  <2>6. QED
    BY <2>4, <2>5
<1>22. Shows(h, s2)
  BY <1>19, <1>20, <1>21 DEF Shows
<1>23. QED
  BY <1>3, <1>5, <1>13, <1>22

(* Behind the last row in use the terminal is blank: there emu2 leaves the *)
(* cursor, and starts again.                                               *)
LEMMA ClosedIsBlank ==
  ASSUME Tall, NEW t, NEW sh, Shows(t, sh), NEW row \in 0 .. MaxRows,
         \A y \in TRows : y >= row => sh[y] = Blank
  PROVE  term_goto_xy(t, row) \in Term /\ BlankBelow(term_goto_xy(t, row))
<1>1. /\ TermRows \in 1 .. 64 /\ MaxRows \in 1 .. 64 /\ TRows = 0 .. TermRows - 1
      /\ MaxRows < TermRows /\ row \in TRows
  BY Rows DEF TRows, Tall
<1>2. TermOK(t)
  BY DEF Shows
<1>3. PICK g : g = term_goto_xy(t, row)
  OBVIOUS
<1>4. Moved(t, g, row)
  BY <1>1, <1>2, <1>3, GotoMoves
<1>5. Shows(g, sh) /\ g.posy = row
  BY <1>4, MovedShows DEF Moved
<1>6. g \in Term /\ g.at \in TRows /\ row <= g.at
  BY <1>5 DEF Shows, TermOK, Term
<1>7. ASSUME NEW r \in TRows, r >= g.at PROVE g.rows[r] = Blank
  <2>1. PICK y : y = r - (g.at - row)
    OBVIOUS
  <2>2. y \in TRows /\ y >= row /\ Base(g) + y = r /\ r < TermRows
    BY <1>1, <1>5, <1>6, <1>7, <2>1 DEF Base
  <2>3. At(g, y) = g.rows[r]
    BY <2>2 DEF At
  <2>4. At(g, y) = sh[y]
    BY <1>5, <2>2 DEF Shows
  <2>5. QED
    BY <2>2, <2>3, <2>4
<1>8. QED
  BY <1>3, <1>6, <1>7 DEF BlankBelow

LEMMA OpenedShows ==
  ASSUME NEW t, t \in Term, BlankBelow(t)
  PROVE  Shows([t EXCEPT !.posy = 0, !.output_row = -1], [r \in TRows |-> Blank])
<1>1. TermRows \in 1 .. 64 /\ MaxRows \in 1 .. 64 /\ TRows = 0 .. TermRows - 1
  BY Rows DEF TRows
<1>2. t.at \in TRows /\ t.rows \in [TRows -> Contents]
  BY DEF Term
<1>3. PICK g : g = [t EXCEPT !.posy = 0, !.output_row = -1]
  OBVIOUS
<1>4. g = [posy |-> 0, output_row |-> -1, rows |-> t.rows, at |-> t.at]
  BY <1>3 DEF Term
<1>5. g \in Term
  BY <1>1, <1>2, <1>4 DEF Term
<1>6. Base(g) = t.at
  BY <1>1, <1>2, <1>4 DEF Base
<1>7. TermOK(g)
  <2>1. g.posy <= g.at
    BY <1>1, <1>2, <1>4
  <2>2. t.at + -1 < TermRows
    BY <1>1, <1>2
  <2>3. Base(g) + g.output_row < TermRows
    BY <1>4, <1>6, <2>2
  <2>4. QED
    BY <1>5, <2>1, <2>3 DEF TermOK
<1>8. PICK s : s = [r \in TRows |-> Blank]
  OBVIOUS
<1>9. s \in [TRows -> Contents] /\ \A y \in TRows : s[y] = Blank
  BY <1>8 DEF Contents
<1>10. ASSUME NEW y \in TRows PROVE At(g, y) = Blank
  <2>1. t.at + y < TermRows => t.at + y \in TRows /\ t.at + y >= t.at
    BY <1>1, <1>2
  <2>2. QED
    BY <1>4, <1>6, <2>1 DEF At, BlankBelow
<1>11. Shows(g, s)
  BY <1>7, <1>9, <1>10 DEF Shows
<1>12. QED
  BY <1>3, <1>8, <1>11
--------------------------------------------------------------------------------
(* The type invariant and what the terminal displays are one.              *)
LEMMA ShowsTyped ==
  ASSUME NEW t, NEW sh, Shows(t, sh)
  PROVE  t \in Term /\ sh \in [TRows -> Contents]
BY DEF Shows, TermOK

(* Rows that a shorter screen does not have stay blank. *)
StaysCleared(rows, v) == \A y \in VidRows : y >= rows => v[y] = Blank

LEMMA ScrollType ==
  ASSUME NEW y0 \in 0 .. MaxRows, NEW y1 \in 0 .. MaxRows, NEW n \in Nat, NEW fill \in Contents,
         NEW rows, y1 < rows, rows \in 1 .. MaxRows,
         vram \in [VidRows -> Contents], Cleared(rows)
  PROVE  /\ Scrolled(y0, y1, n, fill) \in [VidRows -> Contents]
         /\ StaysCleared(rows, Scrolled(y0, y1, n, fill))
         /\ ScrolledDown(y0, y1, n, fill) \in [VidRows -> Contents]
         /\ StaysCleared(rows, ScrolledDown(y0, y1, n, fill))
<1>1. MaxRows \in 1 .. 64 /\ VidRows = 0 .. MaxRows - 1
  BY Rows
<1>2. ASSUME NEW y \in VidRows, y >= rows PROVE y > y1 /\ vram[y] = Blank
  BY <1>1, <1>2 DEF Cleared
<1>3. ASSUME NEW y \in VidRows, ~ (y < y0 \/ y > y1), y + n <= y1 PROVE vram[y + n] \in Contents
  <2>1. y + n \in VidRows
    <3>1. y + n \in Nat /\ y + n < rows
      BY <1>1, <1>3
    <3>2. QED
      BY <1>1, <3>1
  <2>2. QED
    BY <2>1
<1>4. ASSUME NEW y \in VidRows, ~ (y < y0 \/ y > y1), y >= y0 + n PROVE vram[y - n] \in Contents
  <2>1. y - n \in VidRows
    BY <1>1, <1>4
  <2>2. QED
    BY <2>1
<1>5. PICK v : v = Scrolled(y0, y1, n, fill)
  OBVIOUS
<1>6. v \in [VidRows -> Contents] /\ StaysCleared(rows, v)
  <2>1. ASSUME NEW y \in VidRows PROVE v[y] \in Contents /\ (y >= rows => v[y] = Blank)
    <3>1. CASE y < y0 \/ y > y1
      BY <1>2, <1>5, <3>1 DEF Scrolled
    <3>2. CASE ~ (y < y0 \/ y > y1)
      <4>1. v[y] = IF y + n <= y1 THEN vram[y + n] ELSE fill
        BY <1>5, <3>2 DEF Scrolled
      <4>2. QED
        BY <1>2, <1>3, <3>2, <4>1
    <3>3. QED
      BY <3>1, <3>2
  <2>2. v = [y \in VidRows |-> v[y]]
    BY <1>5 DEF Scrolled
  <2>3. QED
    BY <2>1, <2>2 DEF StaysCleared
<1>7. PICK w : w = ScrolledDown(y0, y1, n, fill)
  OBVIOUS
<1>8. w \in [VidRows -> Contents] /\ StaysCleared(rows, w)
  <2>1. ASSUME NEW y \in VidRows PROVE w[y] \in Contents /\ (y >= rows => w[y] = Blank)
    <3>1. CASE y < y0 \/ y > y1
      BY <1>2, <1>7, <3>1 DEF ScrolledDown
    <3>2. CASE ~ (y < y0 \/ y > y1)
      <4>1. w[y] = IF y >= y0 + n THEN vram[y - n] ELSE fill
        BY <1>7, <3>2 DEF ScrolledDown
      <4>2. QED
        BY <1>2, <1>4, <3>2, <4>1
    <3>3. QED
      BY <3>1, <3>2
  <2>2. w = [y \in VidRows |-> w[y]]
    BY <1>7 DEF ScrolledDown
  <2>3. QED
    BY <2>1, <2>2 DEF StaysCleared
<1>9. QED
  BY <1>5, <1>6, <1>7, <1>8

(* get_last_used_row: the rows from there on are blank. *)
LEMMA LastUsed ==
  ASSUME NEW sh, NEW rows \in 1 .. MaxRows
  PROVE  /\ LastUsedRow(sh, rows) \in 0 .. MaxRows
         /\ \A y \in VidRows : y < rows /\ y >= LastUsedRow(sh, rows) => sh[y] = Blank
<1>1. MaxRows \in 1 .. 64 /\ VidRows = 0 .. MaxRows - 1
  BY Rows
<1> DEFINE U == {0} \cup {y + 1 : y \in {z \in VidRows : z < rows /\ sh[z] # Blank}}
<1>2. U \subseteq 0 .. MaxRows /\ U # {}
  BY <1>1
<1>3. Max(U) \in U /\ \A y \in U : y <= Max(U)
  <2>1. PICK V : V = U
    OBVIOUS
  <2>2. V \subseteq 0 .. MaxRows /\ V # {} /\ MaxRows \in Nat
    BY <1>1, <1>2, <2>1
  <2>3. Max(V) \in V /\ \A y \in V : y <= Max(V)
    BY ONLY <2>2, MaxProperty
  <2>4. QED
    BY <2>1, <2>3
<1>4. LastUsedRow(sh, rows) = Max(U)
  BY DEF LastUsedRow
<1>5. PICK m : m = Max(U)
  OBVIOUS
<1>6. m \in 0 .. MaxRows
  BY <1>2, <1>3, <1>5
<1>7. ASSUME NEW y \in VidRows, y < rows, y >= m, sh[y] # Blank PROVE FALSE
  <2>1. y + 1 \in U
    BY <1>7
  <2>2. y + 1 <= m
    BY <1>3, <1>5, <2>1
  <2>3. QED
    BY <1>1, <1>6, <1>7, <2>2
<1>8. QED
  BY <1>4, <1>5, <1>6, <1>7
--------------------------------------------------------------------------------
(* The invariant, in parts that steps change together.                     *)
Screened ==
    /\ vram \in [VidRows -> Contents]
    /\ vid_sy \in 1 .. MaxRows /\ vid_sy \in Heights \cup {TextRows}
    /\ cursor \in VidRows
    /\ vid_cursor \in BOOLEAN
    /\ video_initialized \in BOOLEAN
    /\ drawn \in BOOLEAN
    /\ StaysCleared(vid_sy, vram)

Displayed ==
    /\ term \in Term
    /\ shadow \in [TRows -> Contents]
    /\ IF video_initialized THEN Shows(term, shadow) ELSE BlankBelow(term)

LEMMA InvParts ==
  ASSUME Tall
  PROVE  IInv <=> Screened /\ Displayed /\ (drawn => video_initialized /\ Agrees(shadow, vid_sy))
<1>1. ShadowRows = TRows /\ Heights \cup {TextRows} \subseteq 1 .. MaxRows
  BY Rows
<1>2. Cleared(vid_sy) <=> StaysCleared(vid_sy, vram)
  BY DEF Cleared, StaysCleared
<1>3. TypeOK /\ Cleared(vid_sy) <=> Screened /\ term \in Term /\ shadow \in [TRows -> Contents]
  BY <1>1, <1>2 DEF TypeOK, Screened, Term, TRows
<1>4. QED
  BY <1>3 DEF IInv, Displayed

LEMMA InitInv ==
  ASSUME Tall, Init
  PROVE  IInv
<1>1. /\ TermRows \in 1 .. 64 /\ MaxRows \in 1 .. 64 /\ TRows = 0 .. TermRows - 1
      /\ VidRows = 0 .. MaxRows - 1 /\ ShadowRows = TRows /\ TextRows \in 1 .. MaxRows
  BY Rows DEF TRows
<1>2. Blank \in Contents
  BY DEF Contents
<1>3. PICK at \in TRows : term = [posy |-> 0, output_row |-> -1, rows |-> NoText, at |-> at]
  BY DEF Init, TRows
<1>4. NoText \in [TRows -> Contents] /\ \A r \in TRows : NoText[r] = Blank
  BY <1>2 DEF NoText, TRows
<1>5. 0 \in TRows /\ -1 \in -1 .. MaxRows - 1 /\ 0 \in VidRows
  BY <1>1
<1>6. term \in Term
  BY <1>3, <1>4, <1>5 DEF Term
<1>7. BlankBelow(term)
  BY <1>3, <1>4 DEF BlankBelow
<1>8. Screened
  BY <1>1, <1>2, <1>5 DEF Init, Screened, StaysCleared
<1>9. Displayed
  BY <1>1, <1>2, <1>6, <1>7 DEF Init, Displayed
<1>10. ~ drawn
  BY DEF Init
<1>11. QED
  BY <1>8, <1>9, <1>10, InvParts

(* What a step leaves when it did not redraw. *)
LEMMA NotDrawn ==
  ASSUME Tall, Screened', Displayed', drawn' = FALSE
  PROVE  IInv'
<1>1. (Screened /\ Displayed /\ (drawn => video_initialized /\ Agrees(shadow, vid_sy)) => IInv)'
  BY InvParts, PTL
<1>2. QED
  BY <1>1
(* Steps of programs that leave the copy and the terminal alone. *)
LEMMA VramSteps ==
  ASSUME Tall, KeepsRows = FALSE, IInv,
         \/ \E y \in VidRows, text \in Contents : SetRow(y, text)
         \/ \E y \in VidRows, shown \in BOOLEAN : SetCursor(y, shown)
         \/ \E clear \in BOOLEAN : set_text_mode(clear)
         \/ \E y0, y1, n \in 0 .. MaxRows, fill \in Contents : ScrollUp(y0, y1, n, fill)
         \/ \E y0, y1, n \in 0 .. MaxRows, fill \in Contents : vid_scroll_dwn(y0, y1, n, fill)
  PROVE  IInv'
<1>1. Screened /\ Displayed
  BY InvParts
<1>2. /\ MaxRows \in 1 .. 64 /\ VidRows = 0 .. MaxRows - 1 /\ TextRows \in 1 .. MaxRows
      /\ Blank \in Contents /\ 0 \in VidRows
  BY Rows DEF Contents
<1>3. ASSUME NEW y \in VidRows, NEW text \in Contents, SetRow(y, text) PROVE IInv'
  <2>1. /\ vram' = [vram EXCEPT ![y] = text] /\ y < vid_sy /\ drawn' = FALSE
        /\ UNCHANGED <<vid_sy, cursor, vid_cursor, video_initialized, shadow, term>>
    BY <1>3 DEF SetRow
  <2>2. vram' \in [VidRows -> Contents] /\ StaysCleared(vid_sy, vram')
    BY <1>1, <1>2, <2>1 DEF Screened, StaysCleared
  <2>3. Screened'
    BY <1>1, <2>1, <2>2 DEF Screened
  <2>4. Displayed'
    BY <1>1, <2>1 DEF Displayed
  <2>5. QED
    BY <2>1, <2>3, <2>4, NotDrawn
<1>4. ASSUME NEW y \in VidRows, NEW shown \in BOOLEAN, SetCursor(y, shown) PROVE IInv'
  <2>1. /\ cursor' = y /\ vid_cursor' = shown /\ drawn' = FALSE
        /\ UNCHANGED <<vram, vid_sy, video_initialized, shadow, term>>
    BY <1>4 DEF SetCursor
  <2>2. Screened'
    BY <1>1, <2>1 DEF Screened
  <2>3. Displayed'
    BY <1>1, <2>1 DEF Displayed
  <2>4. QED
    BY <2>1, <2>2, <2>3, NotDrawn
<1>5. ASSUME NEW clear \in BOOLEAN, set_text_mode(clear) PROVE IInv'
  <2>1. /\ vram' = (IF clear THEN [r \in VidRows |-> Blank] ELSE vram)
        /\ clear \/ StaysCleared(TextRows, vram)
        /\ vid_sy' = TextRows /\ cursor' = 0 /\ vid_cursor' = TRUE /\ drawn' = FALSE
        /\ UNCHANGED <<video_initialized, shadow, term>>
    BY <1>5 DEF set_text_mode, Cleared, StaysCleared
  <2>2. vram' \in [VidRows -> Contents] /\ StaysCleared(TextRows, vram')
    BY <1>1, <1>2, <2>1 DEF Screened, StaysCleared
  <2>3. Screened'
    BY <1>1, <1>2, <2>1, <2>2 DEF Screened
  <2>4. Displayed'
    BY <1>1, <2>1 DEF Displayed
  <2>5. QED
    BY <2>1, <2>3, <2>4, NotDrawn
<1>6. ASSUME NEW v, v \in [VidRows -> Contents], StaysCleared(vid_sy, v), vram' = v, drawn' = FALSE,
             UNCHANGED <<vid_sy, cursor, vid_cursor, video_initialized, shadow, term>>
      PROVE  IInv'
  <2>1. Screened'
    BY <1>1, <1>6 DEF Screened
  <2>2. Displayed'
    BY <1>1, <1>6 DEF Displayed
  <2>3. QED
    BY <1>6, <2>1, <2>2, NotDrawn
<1>7. Cleared(vid_sy) /\ vid_sy \in 1 .. MaxRows /\ vram \in [VidRows -> Contents]
  BY <1>1 DEF Screened, Cleared, StaysCleared
<1>8. ASSUME NEW y0 \in 0 .. MaxRows, NEW y1 \in 0 .. MaxRows, NEW n \in 0 .. MaxRows,
             NEW fill \in Contents,
             ScrollUp(y0, y1, n, fill) \/ vid_scroll_dwn(y0, y1, n, fill)
      PROVE  IInv'
  <2>1. /\ vram' = Scrolled(y0, y1, n, fill) \/ vram' = ScrolledDown(y0, y1, n, fill)
        /\ y1 < vid_sy /\ drawn' = FALSE
        /\ UNCHANGED <<vid_sy, cursor, vid_cursor, video_initialized, shadow, term>>
    BY <1>8 DEF ScrollUp, vid_scroll_dwn
  <2>2. n \in Nat
    BY <1>2
  <2>3. /\ Scrolled(y0, y1, n, fill) \in [VidRows -> Contents]
        /\ StaysCleared(vid_sy, Scrolled(y0, y1, n, fill))
        /\ ScrolledDown(y0, y1, n, fill) \in [VidRows -> Contents]
        /\ StaysCleared(vid_sy, ScrolledDown(y0, y1, n, fill))
    BY <1>7, <2>1, <2>2, ScrollType
  <2>4. QED
    BY <1>6, <2>1, <2>3
<1>9. QED
  BY <1>3, <1>4, <1>5, <1>8

(* AH=11h *)
LEMMA FontStep ==
  ASSUME Tall, KeepsRows = FALSE, IInv, NEW rows \in Heights, vid_set_font(rows)
  PROVE  IInv'
<1>1. Screened /\ Displayed
  BY InvParts
<1>2. MaxRows \in 1 .. 64 /\ rows \in 1 .. MaxRows /\ ShadowRows = TRows
  BY Rows
<1>3. /\ vid_sy' = rows /\ drawn' = FALSE /\ video_initialized
      /\ UNCHANGED <<vram, cursor, vid_cursor, video_initialized>>
      /\ Cleared(rows)
  BY DEF vid_set_font
<1>4. Screened'
  BY <1>1, <1>2, <1>3 DEF Screened, Cleared, StaysCleared
<1>5. Shows(term, shadow)
  BY <1>1, <1>3 DEF Displayed
<1>6. Shows(term', shadow')
  <2>1. CASE LastUsedRow(shadow, vid_sy) > rows
    <3>1. PICK s2 : s2 = [y \in TRows |-> IF y >= rows THEN Blank ELSE shadow[y]]
      OBVIOUS
    <3>2. shadow[rows - 1] = Blank
      BY <2>1 DEF vid_set_font
    <3>3. shadow' = s2 /\ term' = [EraseBelow(term_goto_xy(term, rows - 1))
                                      EXCEPT !.output_row = Lower(@, rows - 1)]
      BY <1>2, <2>1, <3>1 DEF vid_set_font
    <3>4. QED
      BY <1>2, <1>5, <3>1, <3>2, <3>3, ErasedShows
  <2>2. CASE ~ (LastUsedRow(shadow, vid_sy) > rows)
    BY <1>5, <2>2 DEF vid_set_font
  <2>3. QED
    BY <2>1, <2>2
<1>7. Displayed'
  <2>1. term' \in Term /\ shadow' \in [TRows -> Contents]
    BY <1>6, ShowsTyped
  <2>2. QED
    BY <1>3, <1>6, <2>1 DEF Displayed
<1>8. QED
  BY <1>3, <1>4, <1>7, NotDrawn

LEMMA CheckStep ==
  ASSUME Tall, IInv, check_screen
  PROVE  IInv'
<1>1. Screened /\ Displayed
  BY InvParts
<1>2. /\ video_initialized /\ term' = Checked(term, shadow, vid_cursor)
      /\ shadow' = Copied(term, shadow) /\ drawn' = TRUE
      /\ UNCHANGED <<vram, vid_sy, cursor, vid_cursor, video_initialized>>
  BY DEF check_screen
<1>3. Shows(term, shadow)
  BY <1>1, <1>2 DEF Displayed
<1>4. Shows(term', shadow')
  BY <1>1, <1>2, <1>3, CheckedShows DEF Screened
<1>5. Screened'
  BY <1>1, <1>2 DEF Screened
<1>6. Displayed'
  <2>1. term' \in Term /\ shadow' \in [TRows -> Contents]
    BY <1>4, ShowsTyped
  <2>2. QED
    BY <1>2, <1>4, <2>1 DEF Displayed
<1>7. Agrees(shadow, vid_sy)'
  <2>1. Agrees(Copied(term, shadow), vid_sy)
    BY CopiedAgrees
  <2>2. QED
    BY <1>2, <2>1 DEF Agrees
<1>8. (Screened /\ Displayed /\ (drawn => video_initialized /\ Agrees(shadow, vid_sy)) => IInv)'
  BY InvParts, PTL
<1>9. QED
  BY <1>2, <1>5, <1>6, <1>7, <1>8
(* AH=06h over the whole screen *)
LEMMA ScrollStep ==
  ASSUME Tall, IInv, NEW y1 \in 0 .. MaxRows, NEW n \in 0 .. MaxRows, NEW fill \in Contents,
         NEW page, ScrollTerminal(y1, n, fill, page)
  PROVE  IInv'
<1>1. Screened /\ Displayed
  BY InvParts
<1>2. MaxRows \in 1 .. 64 /\ ShadowRows = TRows
  BY Rows
<1>3. /\ video_initialized /\ y1 < vid_sy /\ n \in 1 .. y1 + 1 /\ drawn' = FALSE
      /\ vram' = Scrolled(0, y1, n, fill) \/ vram' = vram
      /\ UNCHANGED <<vid_sy, cursor, vid_cursor, video_initialized>>
  BY DEF ScrollTerminal
<1>4. PICK t, sh, m : /\ t = Checked(term, shadow, vid_cursor) /\ sh = Copied(term, shadow)
                      /\ m = Shifted(t, n)
  OBVIOUS
<1>5. PICK g, s2 : /\ g = IF t.posy < m THEN term_goto_xy(t, m) ELSE t
                   /\ s2 = [y \in TRows |->
                              IF y + m < TermRows THEN sh[y + m]
                              ELSE IF y < TermRows THEN Blank ELSE sh[y]]
  OBVIOUS
<1>6. /\ term' = [g EXCEPT !.output_row = @ - m, !.posy = (@ - m) % Word]
      /\ shadow' = s2
  BY <1>2, <1>4, <1>5 DEF ScrollTerminal
<1>7. Shows(t, sh)
  <2>1. Shows(term, shadow)
    BY <1>1, <1>3 DEF Displayed
  <2>2. QED
    BY <1>1, <1>4, <2>1, CheckedShows DEF Screened
<1>8. m \in Nat /\ m <= t.output_row + 1
  <2>1. t.output_row \in -1 .. MaxRows - 1
    BY <1>7 DEF Shows, TermOK, Term
  <2>2. CASE n > t.output_row + 1
    BY <1>2, <1>4, <2>1, <2>2 DEF Shifted
  <2>3. CASE ~ (n > t.output_row + 1)
    BY <1>2, <1>4, <2>1, <2>3 DEF Shifted
  <2>4. QED
    BY <2>2, <2>3
<1>9. Shows(term', shadow')
  BY <1>5, <1>6, <1>7, <1>8, ScrolledShows
<1>10. vram' \in [VidRows -> Contents] /\ StaysCleared(vid_sy, vram')
  <2>1. /\ Cleared(vid_sy) /\ vid_sy \in 1 .. MaxRows /\ vram \in [VidRows -> Contents]
        /\ n \in Nat /\ 0 \in 0 .. MaxRows /\ StaysCleared(vid_sy, vram)
    BY <1>1, <1>2 DEF Screened, Cleared, StaysCleared
  <2>2. /\ Scrolled(0, y1, n, fill) \in [VidRows -> Contents]
        /\ StaysCleared(vid_sy, Scrolled(0, y1, n, fill))
    BY <1>3, <2>1, ScrollType
  <2>3. QED
    BY <1>3, <2>1, <2>2
<1>11. Screened'
  BY <1>1, <1>3, <1>10 DEF Screened
<1>12. Displayed'
  <2>1. term' \in Term /\ shadow' \in [TRows -> Contents]
    BY <1>9, ShowsTyped
  <2>2. QED
    BY <1>3, <1>9, <2>1 DEF Displayed
<1>13. QED
  BY <1>3, <1>11, <1>12, NotDrawn

LEMMA OpenStep ==
  ASSUME Tall, IInv, init_video
  PROVE  IInv'
<1>1. Screened /\ Displayed /\ ShadowRows = TRows
  BY InvParts, Rows
<1>2. /\ ~ video_initialized /\ video_initialized' = TRUE /\ drawn' = FALSE
      /\ shadow' = [r \in TRows |-> Blank] /\ term' = [term EXCEPT !.posy = 0, !.output_row = -1]
      /\ UNCHANGED <<vram, vid_sy, cursor, vid_cursor>>
  BY <1>1 DEF init_video
<1>3. term \in Term /\ BlankBelow(term)
  BY <1>1, <1>2 DEF Displayed
<1>4. Shows(term', shadow')
  BY <1>2, <1>3, OpenedShows
<1>5. Screened'
  BY <1>1, <1>2 DEF Screened
<1>6. Displayed'
  <2>1. term' \in Term /\ shadow' \in [TRows -> Contents]
    BY <1>4, ShowsTyped
  <2>2. QED
    BY <1>2, <1>4, <2>1 DEF Displayed
<1>7. QED
  BY <1>2, <1>5, <1>6, NotDrawn

LEMMA CloseStep ==
  ASSUME Tall, IInv, exit_video
  PROVE  IInv'
<1>1. Screened /\ Displayed
  BY InvParts
<1>2. /\ MaxRows \in 1 .. 64 /\ TermRows \in 1 .. 64 /\ TRows = 0 .. TermRows - 1
      /\ VidRows = 0 .. MaxRows - 1 /\ ShadowRows = TRows
  BY Rows DEF TRows
<1>3. PICK t, sh : t = Checked(term, shadow, TRUE) /\ sh = Copied(term, shadow)
  OBVIOUS
<1>4. /\ video_initialized /\ video_initialized' = FALSE /\ vid_cursor' = TRUE /\ drawn' = FALSE
      /\ shadow' = sh /\ term' = term_goto_xy(t, LastUsedRow(sh, vid_sy))
      /\ UNCHANGED <<vram, vid_sy, cursor>>
  BY <1>3 DEF exit_video
<1>5. Shows(term, shadow) /\ vid_sy \in 1 .. MaxRows
  BY <1>1, <1>4 DEF Displayed, Screened
<1>6. Shows(t, sh)
  BY <1>1, <1>3, <1>5, CheckedShows DEF Screened
<1>7. PICK row : row = LastUsedRow(sh, vid_sy)
  OBVIOUS
<1>8. row \in 0 .. MaxRows /\ \A y \in VidRows : y < vid_sy /\ y >= row => sh[y] = Blank
  BY <1>5, <1>7, LastUsed
<1>9. ASSUME NEW y \in TRows, y >= row PROVE sh[y] = Blank
  <2>1. CASE y \in VidRows /\ y < vid_sy
    BY <1>8, <1>9, <2>1
  <2>2. CASE y \in RowsToDraw(term, shadow) /\ ~ (y \in VidRows /\ y < vid_sy)
    <3>1. y \in VidRows /\ y >= vid_sy
      BY <1>2, <1>5, <2>2 DEF RowsToDraw
    <3>2. vram[y] = Blank
      BY <1>1, <3>1 DEF Screened, StaysCleared
    <3>3. QED
      BY <1>2, <1>3, <2>2, <3>2 DEF Copied
  <2>3. CASE y \notin RowsToDraw(term, shadow) /\ ~ (y \in VidRows /\ y < vid_sy)
    <3>1. y > term.output_row
      <4>1. term.output_row \in -1 .. MaxRows - 1
        BY <1>1 DEF Displayed, Term
      <4>2. CASE y \in VidRows
        <5>1. ~ (y <= term.output_row)
          BY <2>3, <4>2 DEF RowsToDraw
        <5>2. QED
          BY <1>2, <4>1, <5>1
      <4>3. CASE y \notin VidRows
        BY <1>2, <4>1, <4>3
      <4>4. QED
        BY <4>2, <4>3
    <3>2. shadow[y] = Blank
      BY <1>5, <3>1 DEF Shows
    <3>3. QED
      BY <1>2, <1>3, <2>3, <3>2 DEF Copied
  <2>4. QED
    BY <2>1, <2>2, <2>3
<1>10. term' \in Term /\ BlankBelow(term)'
  <2>1. term_goto_xy(t, row) \in Term /\ BlankBelow(term_goto_xy(t, row))
    BY <1>6, <1>8, <1>9, ClosedIsBlank
  <2>2. term' = term_goto_xy(t, row)
    BY <1>4, <1>7
  <2>3. QED
    BY <2>1, <2>2 DEF BlankBelow
<1>11. Screened'
  BY <1>1, <1>4 DEF Screened
<1>12. Displayed'
  <2>1. shadow' \in [TRows -> Contents]
    BY <1>4, <1>6, ShowsTyped
  <2>2. QED
    BY <1>4, <1>10, <2>1 DEF Displayed
<1>13. QED
  BY <1>4, <1>11, <1>12, NotDrawn

LEMMA NextInv ==
  ASSUME Tall, KeepsRows = FALSE, IInv, [Next]_vars
  PROVE  IInv'
<1>1. ASSUME UNCHANGED vars PROVE IInv'
  <2>1. Screened' /\ Displayed' /\ (drawn' => video_initialized' /\ Agrees(shadow, vid_sy)')
    BY <1>1, InvParts DEF vars, Screened, Displayed, Agrees
  <2>2. (Screened /\ Displayed /\ (drawn => video_initialized /\ Agrees(shadow, vid_sy)) => IInv)'
    BY InvParts, PTL
  <2>3. QED
    BY <2>1, <2>2
<1>2. QED
  BY <1>1, VramSteps, FontStep, CheckStep, ScrollStep, OpenStep, CloseStep DEF Next

--------------------------------------------------------------------------------
(* On a terminal with more rows than the screen, and for programs that     *)
(* clear the rows that a smaller screen loses, IInv is an invariant.       *)
THEOREM Invariant == Tall /\ KeepsRows = FALSE => (Spec => []IInv)
<1>1. SUFFICES ASSUME Tall, KeepsRows = FALSE PROVE Spec => []IInv
  OBVIOUS
<1>2. Init => IInv
  BY <1>1, InitInv
<1>3. IInv /\ [Next]_vars => IInv'
  BY <1>1, NextInv
<1>4. QED
  BY <1>2, <1>3, PTL DEF Spec

(* The counted row never leaves the terminal, and wraps below 0 never.     *)
THEOREM TypeCorrect == Tall /\ KeepsRows = FALSE => (Spec => []TypeOK)
<1>1. IInv => TypeOK
  BY DEF IInv
<1>2. SUFFICES ASSUME Tall /\ KeepsRows = FALSE PROVE Spec => []TypeOK
  OBVIOUS
<1>3. Spec => []IInv
  BY <1>2, Invariant
<1>4. QED
  BY <1>1, <1>3, PTL

(* What Seen says of a row of the screen. *)
LEMMA SeenRow ==
  ASSUME Shows(term, shadow), NEW y \in TRows
  PROVE  Seen(y) = shadow[y]
<1>1. TRows = 0 .. TermRows - 1 /\ TermRows \in 1 .. 64
  BY Rows DEF TRows
<1>2. PICK b : b = term.at - term.posy
  OBVIOUS
<1>3. b \in 0 .. TermRows - 1
  <2>1. term.at \in TRows /\ term.posy \in TRows /\ term.posy <= term.at
    BY DEF Shows, TermOK, Term
  <2>2. QED
    BY <1>1, <1>2, <2>1
<1>4. b + y \in TRows <=> b + y < TermRows
  BY <1>1, <1>3
<1>5. Seen(y) = IF b + y \in TRows THEN term.rows[b + y] ELSE Blank
  BY <1>2 DEF Seen, TRows
<1>6. At(term, y) = IF b + y < TermRows THEN term.rows[b + y] ELSE Blank
  BY <1>2 DEF At, Base
<1>7. At(term, y) = shadow[y]
  BY DEF Shows
<1>8. QED
  BY <1>4, <1>5, <1>6, <1>7

(* term_screen is what the terminal displays, through all redraws, scrolls *)
(* of the whole screen, fonts, and programs that close and open it.        *)
THEOREM CopyIsDisplayed == Tall /\ KeepsRows = FALSE => (Spec => []ShadowIsDisplayed)
<1>1. SUFFICES ASSUME Tall /\ KeepsRows = FALSE PROVE Spec => []ShadowIsDisplayed
  OBVIOUS
<1>2. IInv => ShadowIsDisplayed
  BY SeenRow DEF IInv, ShadowIsDisplayed, TRows
<1>3. Spec => []IInv
  BY <1>1, Invariant
<1>4. QED
  BY <1>2, <1>3, PTL

(* After check_screen the terminal shows all rows of video memory.         *)
THEOREM MemoryIsShown == Tall /\ KeepsRows = FALSE => (Spec => []ScreenIsShown)
<1>1. SUFFICES ASSUME Tall /\ KeepsRows = FALSE PROVE Spec => []ScreenIsShown
  OBVIOUS
<1>2. IInv => ScreenIsShown
  <2>1. SUFFICES ASSUME IInv, drawn, NEW y \in 0 .. vid_sy - 1 PROVE Seen(y) = vram[y]
    BY DEF ScreenIsShown
  <2>2. Shows(term, shadow) /\ Agrees(shadow, vid_sy)
    BY <2>1 DEF IInv
  <2>3. vid_sy \in 1 .. MaxRows /\ MaxRows \in 1 .. 64 /\ VidRows = 0 .. MaxRows - 1 /\ VidRows \subseteq TRows
    BY <1>1, <2>1, Rows DEF IInv, TypeOK
  <2>4. y \in VidRows /\ y < vid_sy /\ y \in TRows
    BY <2>3
  <2>5. Seen(y) = shadow[y]
    BY <2>2, <2>4, SeenRow
  <2>6. QED
    BY <2>2, <2>4, <2>5 DEF Agrees
<1>3. Spec => []IInv
  BY <1>1, Invariant
<1>4. QED
  BY <1>2, <1>3, PTL
================================================================================
