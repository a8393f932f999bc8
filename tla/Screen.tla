--------------------------------- MODULE Screen ---------------------------------
(***************************************************************************)
(* The text screen of src/src/video.c.  Programs write to video memory;    *)
(* check_screen compares it with term_screen, "a copy of the currently     *)
(* displayed output in the terminal window", and sends the terminal only   *)
(* what differs.  emu2 never learns where on the terminal it is: it counts *)
(* rows from where its output began and moves the cursor by differences,   *)
(* so that a wrong count or a wrong copy stays wrong.                      *)
(*                                                                         *)
(* A row is drawn as a whole: columns, colours, two-byte characters, the   *)
(* other video pages and the TopView buffer are left out.  The terminal is *)
(* external, as the sequences that video.c sends to it define it.          *)
(***************************************************************************)
EXTENDS Integers, FiniteSetsExt

CONSTANTS
    Text,       \* what a row may hold other than Blank
    Blank,
    Heights,    \* rows that programs set by choosing a font
    TextRows,   \* rows of the text mode, 25
    TermRows,   \* term_sy
    KeepsRows   \* programs make the screen smaller without clearing what goes

Contents == Text \cup {Blank}
MaxRows == Max(Heights \cup {TextRows})
VidRows == 0 .. MaxRows - 1
ShadowRows == 0 .. Max({MaxRows, TermRows}) - 1

(* vid_set_font and term_get_size allow 64 rows. *)
ASSUME ScreenAssumption ==
    /\ Blank \notin Text
    /\ Heights \subseteq 1 .. 64
    /\ TextRows \in 1 .. 64
    /\ TermRows \in 1 .. 64
    /\ KeepsRows \in BOOLEAN

(* Row numbers are unsigned: 2^32, of which 64 rows need little. *)
Word == 256

VARIABLES
    vram,               \* the rows of video memory
    vid_sy,
    cursor,             \* row of the video cursor (vid_posy, crtc_cursor_loc)
    vid_cursor,         \* the cursor is shown
    video_initialized,
    shadow,             \* term_screen
    term,               \* term_posy, output_row; the terminal's rows and cursor
    drawn               \* check_screen was the last thing that happened

vars == <<vram, vid_sy, cursor, vid_cursor, video_initialized, shadow, term, drawn>>

NoText == [r \in 0 .. TermRows - 1 |-> Blank]

(* emu2 is started anywhere on the terminal; what is above is not its own. *)
Init ==
    /\ vram = [r \in VidRows |-> Blank]
    /\ vid_sy = TextRows
    /\ cursor = 0
    /\ vid_cursor = TRUE
    /\ video_initialized = FALSE
    /\ shadow = [r \in ShadowRows |-> Blank]
    /\ \E at \in 0 .. TermRows - 1 :
           term = [posy |-> 0, output_row |-> -1, rows |-> NoText, at |-> at]
    /\ drawn = FALSE

--------------------------------------------------------------------------------
(* The terminal: CUD and CUU stop at its edges, a line feed scrolls it at  *)
(* the last row, ED clears from the cursor on.                             *)
Lower(a, b) == IF a < b THEN a ELSE b

CursorDown(t, n) == [t EXCEPT !.at = Lower(@ + n, TermRows - 1)]
CursorUp(t, n) == [t EXCEPT !.at = IF @ > n THEN @ - n ELSE 0]

LineFeeds(t, n) ==
    LET lost == IF t.at + n < TermRows THEN 0 ELSE t.at + n - (TermRows - 1)
    IN  [t EXCEPT !.at = Lower(@ + n, TermRows - 1),
                  !.rows = [r \in DOMAIN @ |->
                               IF r + lost < TermRows THEN @[r + lost] ELSE Blank]]

EraseBelow(t) ==
    [t EXCEPT !.rows = [r \in DOMAIN @ |-> IF r >= t.at THEN Blank ELSE @[r]]]

(* term_goto_xy, in its three parts: rows that were drawn are crossed by   *)
(* CUD, rows that were not by line feeds.                                  *)
Signed(n) == IF n >= Word \div 2 THEN n - Word ELSE n

(* Mutant: CUD to rows that were not drawn, too. *)
GotoWithoutLineFeeds(t, row) ==
    LET y == IF row >= TermRows THEN TermRows - 1 ELSE row
    IN  IF t.posy < y
        THEN [CursorDown(t, y - t.posy) EXCEPT !.posy = y]
        ELSE [CursorUp(t, t.posy - y) EXCEPT !.posy = y]

term_goto_xy(t, row) ==
    LET y == IF row >= TermRows THEN TermRows - 1 ELSE row
        inc == (IF y < t.output_row THEN y ELSE t.output_row) - Signed(t.posy)
        t1 == IF t.posy < y /\ Signed(t.posy) < t.output_row
              THEN [CursorDown(t, inc) EXCEPT !.posy = @ + inc] ELSE t
        t2 == IF t1.posy < y THEN [LineFeeds(t1, y - t1.posy) EXCEPT !.posy = y] ELSE t1
    IN  IF t2.posy > y THEN [CursorUp(t2, t2.posy - y) EXCEPT !.posy = y] ELSE t2

(* put_vc_xy *)
Put(t, text, row) ==
    LET g == term_goto_xy(t, row)
    IN  [g EXCEPT !.rows[g.at] = text,
                  !.output_row = IF @ < g.posy THEN g.posy ELSE @]

--------------------------------------------------------------------------------
(* check_screen draws the rows up to the last one that was drawn, or that  *)
(* differs from its copy.                                                  *)
RowsToDraw(t, sh) ==
    {y \in VidRows :
        \/ y <= t.output_row
        \/ \E z \in VidRows : y <= z /\ z < vid_sy /\ vram[z] # sh[z]}

Drawn(t, sh) ==
    LET upTo[y \in 0 .. MaxRows] ==
            IF y = 0 THEN t
            ELSE IF y - 1 \in RowsToDraw(t, sh) /\ vram[y - 1] # sh[y - 1]
            THEN Put(upTo[y - 1], vram[y - 1], y - 1)
            ELSE upTo[y - 1]
    IN  upTo[MaxRows]

(* Mutant: the copy of rows that were not drawn before is not updated.     *)
CopiedOnce(t, sh) ==
    [y \in ShadowRows |-> IF y \in VidRows /\ y <= t.output_row THEN vram[y] ELSE sh[y]]

Copied(t, sh) ==
    [y \in ShadowRows |-> IF y \in RowsToDraw(t, sh) THEN vram[y] ELSE sh[y]]

Checked(t, sh, shown) ==
    IF shown THEN term_goto_xy(Drawn(t, sh), cursor) ELSE Drawn(t, sh)

check_screen ==
    /\ video_initialized
    /\ term' = Checked(term, shadow, vid_cursor)
    /\ shadow' = Copied(term, shadow)
    /\ drawn' = TRUE
    /\ UNCHANGED <<vram, vid_sy, cursor, vid_cursor, video_initialized>>

--------------------------------------------------------------------------------
(* What programs do.  Any call of INT 10h starts the video emulation.      *)
init_video ==
    /\ ~ video_initialized
    /\ video_initialized' = TRUE
    /\ shadow' = [r \in ShadowRows |-> Blank]
    /\ term' = [term EXCEPT !.posy = 0, !.output_row = -1]
    /\ drawn' = FALSE
    /\ UNCHANGED <<vram, vid_sy, cursor, vid_cursor>>

(* Writes to video memory, straight or by INT 10h. *)
SetRow(y, text) ==
    /\ y < vid_sy
    /\ vram' = [vram EXCEPT ![y] = text]
    /\ drawn' = FALSE
    /\ UNCHANGED <<vid_sy, cursor, vid_cursor, video_initialized, shadow, term>>

(* AH=01h, 02h.  Through the CRTC's ports (3D4h, 3D5h) a program can set   *)
(* the cursor past the screen, too (video.c:1191-1203); this is left out.  *)
SetCursor(y, shown) ==
    /\ video_initialized
    /\ y < vid_sy
    /\ cursor' = y
    /\ vid_cursor' = shown
    /\ drawn' = FALSE
    /\ UNCHANGED <<vram, vid_sy, video_initialized, shadow, term>>

(* get_last_used_row *)
LastUsedRow(sh, rows) ==
    Max({0} \cup {y + 1 : y \in {z \in VidRows : z < rows /\ sh[z] # Blank}})

(* The program has cleared the rows from rows on. *)
Cleared(rows) == \A y \in VidRows : y >= rows => vram[y] = Blank

(* AH=11h.  The terminal is cleared from row rows - 1 on, the copy from    *)
(* row rows on: without KeepsRows row rows - 1 of the copy is blank then.  *)
vid_set_font(rows) ==
    /\ video_initialized
    /\ rows # vid_sy
    /\ \/ KeepsRows
       \/ Cleared(rows) /\ (LastUsedRow(shadow, vid_sy) > rows => shadow[rows - 1] = Blank)
    /\ IF LastUsedRow(shadow, vid_sy) > rows
       THEN /\ term' = [EraseBelow(term_goto_xy(term, rows - 1))
                           EXCEPT !.output_row = Lower(@, rows - 1)]
            /\ shadow' = [y \in ShadowRows |-> IF y >= rows THEN Blank ELSE shadow[y]]
       ELSE UNCHANGED <<term, shadow>>
    /\ vid_sy' = rows
    /\ drawn' = FALSE
    /\ UNCHANGED <<vram, cursor, vid_cursor, video_initialized>>

(* AH=00h *)
set_text_mode(clear) ==
    /\ video_initialized
    /\ clear \/ Cleared(TextRows) \/ KeepsRows
    /\ vram' = IF clear THEN [r \in VidRows |-> Blank] ELSE vram
    /\ vid_sy' = TextRows
    /\ cursor' = 0
    /\ vid_cursor' = TRUE
    /\ drawn' = FALSE
    /\ UNCHANGED <<video_initialized, shadow, term>>

--------------------------------------------------------------------------------
(* Scrolling.  The rows of video memory move, and fill comes in. *)
Scrolled(y0, y1, n, fill) ==
    [y \in VidRows |->
        IF y < y0 \/ y > y1 THEN vram[y]
        ELSE IF y + n <= y1 THEN vram[y + n] ELSE fill]

ScrolledDown(y0, y1, n, fill) ==
    [y \in VidRows |->
        IF y < y0 \/ y > y1 THEN vram[y]
        ELSE IF y >= y0 + n THEN vram[y - n] ELSE fill]

(* Mutant: the copy moves by what was asked for. *)
ShiftedByAsked(t, n) == n

(* The rows that can go: not more than were drawn. *)
Shifted(t, n) == IF n > t.output_row + 1 THEN t.output_row + 1 ELSE n

WholeScreen(y0, y1) == y0 = 0 /\ y1 >= vid_sy - 2

(* vid_scroll_up, when it scrolls (almost) the whole screen: the terminal  *)
(* is not scrolled, emu2 counts its rows from a lower one from now on.     *)
(* The page that is scrolled need not be the one that is shown.            *)
ScrollTerminal(y1, n, fill, page) ==
    /\ video_initialized
    /\ y1 < vid_sy
    /\ n \in 1 .. y1 + 1
    /\ WholeScreen(0, y1)
    /\ LET t == Checked(term, shadow, vid_cursor)
           sh == Copied(term, shadow)
           m == Shifted(t, n)
           g == IF t.posy < m THEN term_goto_xy(t, m) ELSE t
       IN  /\ term' = [g EXCEPT !.output_row = @ - m, !.posy = (@ - m) % Word]
           /\ shadow' = [y \in ShadowRows |->
                            IF y + m < TermRows THEN sh[y + m]
                            ELSE IF y < TermRows THEN Blank ELSE sh[y]]
    /\ vram' = IF page = "shown" THEN Scrolled(0, y1, n, fill) ELSE vram
    /\ drawn' = FALSE
    /\ UNCHANGED <<vid_sy, cursor, vid_cursor, video_initialized>>

ScrollUp(y0, y1, n, fill) ==
    /\ video_initialized
    /\ y1 < vid_sy
    /\ n \in 1 .. y1 - y0 + 1
    /\ ~ WholeScreen(y0, y1)
    /\ vram' = Scrolled(y0, y1, n, fill)
    /\ drawn' = FALSE
    /\ UNCHANGED <<vid_sy, cursor, vid_cursor, video_initialized, shadow, term>>

vid_scroll_dwn(y0, y1, n, fill) ==
    /\ video_initialized
    /\ y1 < vid_sy
    /\ n \in 1 .. y1 - y0 + 1
    /\ vram' = ScrolledDown(y0, y1, n, fill)
    /\ drawn' = FALSE
    /\ UNCHANGED <<vid_sy, cursor, vid_cursor, video_initialized, shadow, term>>

(* At exit, and when a program starts another one (dos.c:3528). *)
exit_video ==
    /\ video_initialized
    /\ video_initialized' = FALSE
    /\ vid_cursor' = TRUE
    /\ shadow' = Copied(term, shadow)
    /\ term' = term_goto_xy(Checked(term, shadow, TRUE), LastUsedRow(shadow', vid_sy))
    /\ drawn' = FALSE
    /\ UNCHANGED <<vram, vid_sy, cursor>>

Next ==
    \/ init_video
    \/ check_screen
    \/ \E y \in VidRows, text \in Contents : SetRow(y, text)
    \/ \E y \in VidRows, shown \in BOOLEAN : SetCursor(y, shown)
    \/ \E rows \in Heights : vid_set_font(rows)
    \/ \E clear \in BOOLEAN : set_text_mode(clear)
    \/ \E y1, n \in 0 .. MaxRows, fill \in Contents, page \in {"shown", "hidden"} :
           ScrollTerminal(y1, n, fill, page)
    \/ \E y0, y1, n \in 0 .. MaxRows, fill \in Contents : ScrollUp(y0, y1, n, fill)
    \/ \E y0, y1, n \in 0 .. MaxRows, fill \in Contents : vid_scroll_dwn(y0, y1, n, fill)
    \/ exit_video

Spec == Init /\ [][Next]_vars
--------------------------------------------------------------------------------
TypeOK ==
    /\ vram \in [VidRows -> Contents]
    /\ vid_sy \in Heights \cup {TextRows}
    /\ cursor \in VidRows
    /\ vid_cursor \in BOOLEAN
    /\ video_initialized \in BOOLEAN
    /\ shadow \in [ShadowRows -> Contents]
    /\ term \in [posy : 0 .. TermRows - 1, output_row : -1 .. MaxRows - 1,
                 rows : [0 .. TermRows - 1 -> Contents], at : 0 .. TermRows - 1]
    /\ drawn \in BOOLEAN

(* The row of the terminal where row y of the screen is, and what is seen  *)
(* there: rows behind the last row of the terminal are not there yet.      *)
Seen(y) ==
    LET at == term.at - term.posy + y
    IN  IF at \in 0 .. TermRows - 1 THEN term.rows[at] ELSE Blank

(* term_screen is what the terminal displays (video.c:30 "This is a copy   *)
(* of the currently displayed output in the terminal window").             *)
ShadowIsDisplayed ==
    video_initialized => \A y \in 0 .. TermRows - 1 : Seen(y) = shadow[y]

(* After check_screen the terminal shows the rows of video memory, however *)
(* the screen was scrolled, closed and opened before, and resized; with    *)
(* KeepsRows = FALSE only by programs that clear the rows that go.         *)
ScreenIsShown ==
    drawn => \A y \in 0 .. vid_sy - 1 : Seen(y) = vram[y]
================================================================================
