-------------------------------- MODULE MCViewer --------------------------------
(***************************************************************************)
(* An instance of Viewer: the user types x and [ into a line of 3          *)
(* characters, and every key of an escape sequence where one can come.     *)
(***************************************************************************)
EXTENDS Viewer

UserKeys == [s \in {"Normal", "Escape", "EscapeBracket"} |->
    CASE s = "Normal" -> {Enter, Esc, Backspace, Delete, "x", "["}
      [] s = "Escape" -> {"[", "x"}
      [] s = "EscapeBracket" -> {"C", "D", "x"}]

\* Bound: entries are added while nothing was typed or logged yet, and the other
\* way round.  The two share no variable.
Apart == (\A e \in Entry : used[e] = "new") \/ (input = NewInput /\ logged = 0)
===============================================================================
