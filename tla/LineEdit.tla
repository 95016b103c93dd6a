------------------------------ MODULE LineEdit -------------------------------
(***************************************************************************)
(* The line editor of telegram-curses (td-line-edit.cpp): a text of        *)
(* several lines, a cursor, and a block of the window that shows the part  *)
(* of the text the cursor is in.  The chat window and the input windows    *)
(* redraw after each key, so that a key and the drawing are one action.    *)
(***************************************************************************)
EXTENDS Integers, Sequences, FiniteSets

CONSTANTS
    Char,       \* what can be typed, newlines included
    NL,
    Width,      \* block_width
    Height,     \* max_block_height
    Page,       \* lines that PAGEUP and PAGEDOWN move, 10 in the code
    MaxLen      \* bound: characters of the text

ASSUME LineEditAssumption ==
    /\ NL \in Char
    /\ Width \in Nat \ {0} /\ Height \in Nat \ {0}
    /\ Page \in Nat \ {0} /\ MaxLen \in Nat

VARIABLES
    state,      \* the text
    pos,        \* the cursor: how many characters are before it
    frame_start_line, \* the first row of the text that is drawn
    echo        \* whether the text is drawn at all: not that of a password

vars == <<state, pos, frame_start_line, echo>>

-----------------------------------------------------------------------------
(***************************************************************************)
(* Where the characters are.  Character i of the code is t[i + 1]; a row   *)
(* ends at a newline or when it has Width characters.                      *)
(***************************************************************************)
Newlines(t, a, b) == {i \in a..(b - 1) : t[i + 1] = NL}

LineStart(t, p) ==
    LET before == Newlines(t, 0, p)
    IN IF before = {} THEN 0 ELSE 1 + CHOOSE i \in before : \A j \in before : j <= i

(* Rows that are only broken when a character does not fit any more. *)
RowEndsLate(t, p) ==
    {i \in 0..(p - 1) : \/ t[i + 1] = NL
                        \/ (i # LineStart(t, i) /\ (i - LineStart(t, i)) % Width = 0)}

RowEnds(t, p) ==
    {i \in 0..(p - 1) : t[i + 1] = NL \/ (i + 1 - LineStart(t, i)) % Width = 0}

Row(t, p) == Cardinality(RowEnds(t, p))
Column(t, p) == (p - LineStart(t, p)) % Width
Rows(t) == Row(t, Len(t)) + 1

(* A frame one row short of the cursor. *)
FrameShort(f, r) ==
    LET up == IF f > r THEN r ELSE f
    IN IF r - up > Height THEN r - Height + 1 ELSE up

(* draw moves the frame as little as shows the row r of the cursor ...     *)
FrameFollowing(f, r) ==
    LET up == IF f > r THEN r ELSE f
    IN IF r - up >= Height THEN r - Height + 1 ELSE up

(* A frame that does not go back when the text gets shorter. *)
FrameLoose(f, r, n) == FrameFollowing(f, r)

(* ... and back when the text has only n rows.                             *)
Frame(f, r, n) ==
    LET seen == FrameFollowing(f, r)
    IN IF seen <= n - Height THEN seen
       ELSE IF n >= Height THEN n - Height ELSE 0

-----------------------------------------------------------------------------
(***************************************************************************)
(* What the keys do: text and cursor after each of them.                   *)
(***************************************************************************)
Insert(t, p, c) == SubSeq(t, 1, p) \o <<c>> \o SubSeq(t, p + 1, Len(t))
Erase(t, i) == SubSeq(t, 1, i) \o SubSeq(t, i + 2, Len(t))

LineEnd(t, p) ==
    LET after == Newlines(t, p, Len(t))
    IN IF after = {} THEN Len(t) ELSE CHOOSE i \in after : \A j \in after : i <= j

(* try_move_up that stops after the newline and not on it. *)
MoveUpShort(t, p, n) ==
    LET Ends(i) == Cardinality(Newlines(t, i, p)) = n
        before == {i \in Newlines(t, 0, p) : Ends(i)}
    IN IF before = {} THEN 0 ELSE 1 + CHOOSE i \in before : TRUE

(* n times try_move_up: to the newline that ends the n-th line above.      *)
MoveUp(t, p, n) ==
    LET Ends(i) == Cardinality(Newlines(t, i, p)) = n
        before == {i \in Newlines(t, 0, p) : Ends(i)}
    IN IF before = {} THEN 0 ELSE CHOOSE i \in before : TRUE

(* n times try_move_down: past the n-th newline.                           *)
MoveDown(t, p, n) ==
    LET after == {i \in Newlines(t, p, Len(t)) : Cardinality(Newlines(t, p, i + 1)) = n}
    IN IF after = {} THEN Len(t) ELSE 1 + CHOOSE i \in after : TRUE

(* try_move_line_begin looks at the character under the cursor first.      *)
LineBegin(t, p) == IF p < Len(t) /\ t[p + 1] = NL THEN p + 1 ELSE LineStart(t, p)

(* A key: the text and the cursor change, then draw moves the frame, if    *)
(* there is something to draw.                                             *)
Edit(t, p) ==
    /\ state' = t
    /\ pos' = p
    /\ frame_start_line' =
         IF echo THEN Frame(frame_start_line, Row(t, p), Rows(t)) ELSE frame_start_line
    /\ UNCHANGED echo

-----------------------------------------------------------------------------
Init ==
    /\ state = <<>>
    /\ pos = 0
    /\ frame_start_line = 0
    /\ echo \in BOOLEAN

(* process_key, and TAB, ENTER and SPACE of sym_process_key. *)
Type ==
    /\ Len(state) < MaxLen
    /\ \E c \in Char : Edit(Insert(state, pos, c), pos + 1)

Backspace == pos > 0 /\ Edit(Erase(state, pos - 1), pos - 1)
Delete == pos < Len(state) /\ Edit(Erase(state, pos), pos)

Up == Edit(state, MoveUp(state, pos, 1))
Down == Edit(state, MoveDown(state, pos, 1))
Left == pos > 0 /\ state[pos] # NL /\ Edit(state, pos - 1)
Right == pos < Len(state) /\ state[pos + 1] # NL /\ Edit(state, pos + 1)
Home == Edit(state, LineBegin(state, pos))
End == Edit(state, LineEnd(state, pos))
PageUp == Edit(state, MoveUp(state, pos, Page))
PageDown == Edit(state, MoveDown(state, pos, Page))

(* clear, when the text was sent. *)
Clear == Edit(<<>>, 0)

Next ==
    \/ Type \/ Backspace \/ Delete
    \/ Up \/ Down \/ Left \/ Right \/ Home \/ End \/ PageUp \/ PageDown
    \/ Clear

Spec == Init /\ [][Next]_vars
-----------------------------------------------------------------------------
(***************************************************************************)
(* Properties.                                                             *)
(***************************************************************************)

(* Type correctness: the cursor is in the text, for which insert and erase *)
(* would otherwise throw.                                                  *)
TypeOK ==
    /\ state \in Seq(Char)
    /\ pos \in 0..Len(state)
    /\ frame_start_line \in Nat
    /\ echo \in BOOLEAN

(* The cursor of a text that is drawn is in the block, and no row is drawn *)
(* that the text does not have (draw).                                     *)
CursorShown ==
    LET r == Row(state, pos)
    IN echo =>
       /\ frame_start_line <= r /\ r < frame_start_line + Height
       /\ frame_start_line < Rows(state)

(* No room of the block is wasted while rows above it are not shown: the   *)
(* frame has only moved where a text is drawn, and is full (draw).         *)
FrameFilled ==
    frame_start_line > 0 => echo /\ frame_start_line + Height <= Rows(state)

(* The loop of draw for an editor that echoes and has the cursor, as every *)
(* one that is drawn: a window opened has one editor, and with it the      *)
(* cursor.  Character after character, the rows that are done, the length  *)
(* of the current one, where the cursor is and the longest row.            *)
Push(d) ==
    [d EXCEPT !.rows = @ + 1, !.cur = 0, !.widest = IF d.cur > @ THEN d.cur ELSE @]
Cursor(d) ==
    LET e == IF d.cur = Width THEN Push(d) ELSE d IN [e EXCEPT !.row = e.rows, !.col = e.cur]
Wider(d) == [d EXCEPT !.cur = @ + 1]

DrawStart == [rows |-> 0, cur |-> 0, row |-> -1, col |-> -1, widest |-> 0]

DrawChar(d, k) ==
    LET here == pos = k - 1
    IN IF state[k] = NL
       THEN Push(IF here THEN Wider(Cursor(d)) ELSE d)
       ELSE LET c == IF here THEN [d EXCEPT !.row = d.rows, !.col = d.cur] ELSE d
                e == Wider(c)
            IN IF e.cur = Width THEN Push(e) ELSE e

DrawLoop ==
    LET D[k \in 0..Len(state)] == IF k = 0 THEN DrawStart ELSE DrawChar(D[k - 1], k)
        last == D[Len(state)]
    IN Push(IF pos = Len(state) THEN Wider(Cursor(last)) ELSE last)

(* The loop puts the cursor and the rows where they belong, and no row is  *)
(* longer than the block, the blank under the cursor included.             *)
LayoutAgrees ==
    LET d == DrawLoop
    IN echo =>
       /\ d.row = Row(state, pos) /\ d.col = Column(state, pos)
       /\ d.rows = Rows(state) /\ d.widest <= Width

LineNo(p) == Cardinality(Newlines(state, 0, p))
LastLine == LineNo(Len(state))
Above(n) == IF LineNo(pos) > n THEN LineNo(pos) - n ELSE 0
Below(n) == IF LineNo(pos) + n < LastLine THEN LineNo(pos) + n ELSE LastLine

(* LEFT, RIGHT and END never leave the line, HOME only from a newline (it  *)
(* then goes to the start of the next line); UP, DOWN and the page keys    *)
(* move by exactly the lines they promise, or to the first or last one.    *)
KeysMoveByLines ==
    [][/\ Left \/ Right \/ End => LineNo(pos)' = LineNo(pos)
       /\ Home /\ pos # LineEnd(state, pos) => pos' = LineStart(state, pos)
       /\ Up => LineNo(pos)' = Above(1)
       /\ Down => LineNo(pos)' = Below(1)
       /\ PageUp => LineNo(pos)' = Above(Page)
       /\ PageDown => LineNo(pos)' = Below(Page)]_vars
=============================================================================
