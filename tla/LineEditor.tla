------------------------------- MODULE LineEditor -------------------------------
(***************************************************************************)
(* The line editor of the console (console/interpreter.hpp): one buffer,   *)
(* the length of the line in it, a cursor and the escape sequence that is  *)
(* under way.  A module of operators on that record; Viewer holds one.     *)
(***************************************************************************)
EXTENDS Integers, Sequences

CONSTANTS
    Char,   \* what ReadChar() may return
    Nul,    \* what the buffer is filled with
    Size    \* 256: characters of the buffer

Enter     == "enter"
Esc       == "esc"
Backspace == "backspace"
Delete    == "~"

ASSUME EditorAssumption ==
    /\ {Enter, Esc, Backspace, Delete, "[", "C", "D"} \subseteq Char
    /\ Nul \notin Char
    /\ Size \in Nat

\* Interpreter.
Inputs ==
    [buf : [0 .. Size - 1 -> Char \cup {Nul}], length : 0 .. Size,
     cursor_pos : 0 .. Size, state : {"Normal", "Escape", "EscapeBracket"}]

NewInput == [buf |-> [i \in 0 .. Size - 1 |-> Nul], length |-> 0,
             cursor_pos |-> 0, state |-> "Normal"]

\* GetBuffer(), and the line that HandleInputLine gets.
GetBuffer(in) == [i \in 1 .. in.length |-> in.buf[i - 1]]

\* Show(): the line before the cursor, and from the cursor on.
BeforeCursor(in) == SubSeq(GetBuffer(in), 1, in.cursor_pos)
FromCursor(in)   == SubSeq(GetBuffer(in), in.cursor_pos + 1, in.length)

-----------------------------------------------------------------------------
ShiftedLeft_Late(in, from) ==
    [i \in DOMAIN in.buf |->
        IF i \in from + 1 .. in.length - 2 THEN in.buf[i + 1] ELSE in.buf[i]]

\* The characters behind position from, one to the left.
ShiftedLeft(in, from) ==
    [i \in DOMAIN in.buf |->
        IF i \in from .. in.length - 2 THEN in.buf[i + 1] ELSE in.buf[i]]

\* Those at the cursor and behind it, one to the right, and ch in the gap.
\* There is room: the code does not ask.
Inserted(in, ch) ==
    [i \in DOMAIN in.buf |->
        CASE i \in in.cursor_pos + 1 .. in.length -> in.buf[i - 1]
          [] i = in.cursor_pos -> ch
          [] OTHER -> in.buf[i]]

\* The line is handed to HandleInputLine.
Submits(in, ch) == in.state = "Normal" /\ ch = Enter /\ in.length > 0

HandleNormalInput(in, ch) ==
    CASE ch = Enter -> [in EXCEPT !.length = 0, !.cursor_pos = 0]
      [] ch = Esc -> [in EXCEPT !.state = "Escape"]
      [] ch = Backspace /\ in.cursor_pos > 0 ->
             [in EXCEPT !.buf = ShiftedLeft(in, in.cursor_pos - 1),
                        !.length = @ - 1, !.cursor_pos = @ - 1]
      [] ch = Delete /\ in.cursor_pos # in.length ->
             [in EXCEPT !.buf = ShiftedLeft(in, in.cursor_pos), !.length = @ - 1]
      [] \/ ch = Backspace /\ in.cursor_pos = 0
         \/ ch = Delete /\ in.cursor_pos = in.length -> in
      [] OTHER -> [in EXCEPT !.buf = Inserted(in, ch),
                             !.length = @ + 1, !.cursor_pos = @ + 1]

HandleEscapeInput(in, ch) ==
    [in EXCEPT !.state = IF ch = "[" THEN "EscapeBracket" ELSE "Normal"]

Moved_Freely(in, ch) ==
    CASE ch = "D" /\ in.cursor_pos > 0 -> in.cursor_pos - 1
      [] ch = "C" /\ in.cursor_pos < Size -> in.cursor_pos + 1
      [] OTHER -> in.cursor_pos

\* Where an arrow key takes the cursor.
Moved(in, ch) ==
    CASE ch = "D" /\ in.cursor_pos > 0 -> in.cursor_pos - 1
      [] ch = "C" /\ in.cursor_pos < in.length -> in.cursor_pos + 1
      [] OTHER -> in.cursor_pos

HandleEscapeBracketInput(in, ch) ==
    [in EXCEPT !.cursor_pos = Moved(in, ch), !.state = "Normal"]

HandleInput(in, ch) ==
    CASE in.state = "Normal" -> HandleNormalInput(in, ch)
      [] in.state = "Escape" -> HandleEscapeInput(in, ch)
      [] in.state = "EscapeBracket" -> HandleEscapeBracketInput(in, ch)

\* Nothing is typed into a full buffer.
HasRoom(in, ch) ==
    \/ in.length < Size
    \/ in.state # "Normal"
    \/ ch \in {Enter, Esc, Backspace, Delete}
===============================================================================
