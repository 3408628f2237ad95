--------------------------------- MODULE Console ---------------------------------
(***************************************************************************)
(* What the monitor's screen shows, as its user knows it: the entries that *)
(* were added in their order, the last lines of the log, the line being    *)
(* typed with a cursor between two halves of it, the last line entered.    *)
(***************************************************************************)
EXTENDS Naturals, Sequences, SequencesExt

CONSTANTS Entry, Line, NoLog, Shown, Char, Size

VARIABLES
    entries, moved,     \* and those whose text another object holds
    log, before, after, pending, command, garbage, undefined

lineVars == <<before, after, pending, command>>
vars == <<entries, moved, log, lineVars, garbage, undefined>>

Init ==
    /\ entries = <<>> /\ moved = {}
    /\ log = [i \in 1 .. Shown |-> NoLog]
    /\ before = <<>> /\ after = <<>>
    /\ pending = <<>>      \* the escape sequence so far
    /\ command = <<>>
    /\ garbage = {} /\ undefined = FALSE

\* Once the last entry has moved no other is shown behind it.
AddEntry(e) ==
    /\ entries' = IF entries # <<>> /\ Last(entries) \in moved
                  THEN entries ELSE Append(entries, e)
    /\ UNCHANGED <<moved, log, lineVars, garbage, undefined>>

Removable(i) == entries[i] \notin moved /\ (i = 1 \/ i # Len(entries))

\* The one behind moves up, in the object of the one removed.
RemoveEntry(i) ==
    /\ Removable(i)
    /\ entries' = RemoveAt(entries, i)
    /\ moved' = moved \cup IF i = 1 THEN {} ELSE {entries[i + 1]}
    /\ UNCHANGED <<log, lineVars, garbage, undefined>>

\* Nobody knows what removing any other does.
RemoveOther(e) ==
    /\ \A i \in DOMAIN entries : entries[i] = e => ~Removable(i)
    /\ undefined' = TRUE
    /\ UNCHANGED <<entries, moved, log, lineVars, garbage>>

AddLine(line) ==
    /\ log' = Tail(Append(log, line))
    /\ UNCHANGED <<entries, moved, lineVars, garbage, undefined>>

Submit ==
    /\ before \o after # <<>>
    /\ command' = before \o after
    /\ before' = <<>> /\ after' = <<>>

Insert(ch) ==
    /\ before' = Append(before, ch)
    /\ UNCHANGED <<after, command>>

EraseLeft ==
    /\ before # <<>>
    /\ before' = Front(before)
    /\ UNCHANGED <<after, command>>

EraseRight ==
    /\ after # <<>>
    /\ after' = Tail(after)
    /\ UNCHANGED <<before, command>>

\* A key that is not part of an escape sequence, and one that ends it.
Edit(ch) ==
    CASE ch = "enter" -> Submit
      [] ch = "backspace" -> EraseLeft
      [] ch = "~" -> EraseRight
      [] OTHER -> Insert(ch)

\* The arrows move one character from one half to the other.
Arrow(ch) ==
    /\ before' = CASE ch = "D" /\ before # <<>> -> Front(before)
                   [] ch = "C" /\ after # <<>> -> Append(before, Head(after))
                   [] OTHER -> before
    /\ after' = CASE ch = "D" /\ before # <<>> -> <<Last(before)>> \o after
                  [] ch = "C" /\ after # <<>> -> Tail(after)
                  [] OTHER -> after
    /\ UNCHANGED command

Key(ch) ==
    \/ /\ pending = <<>> /\ ch # "esc"
       /\ Edit(ch)
       /\ pending' = <<>>
    \/ /\ <<pending, ch>> \in {<<<<>>, "esc">>, <<<<"esc">>, "[">>}
       /\ pending' = Append(pending, ch)
       /\ UNCHANGED <<before, after, command>>
    \/ /\ pending = <<"esc">> /\ ch # "["
       /\ pending' = <<>>
       /\ UNCHANGED <<before, after, command>>
    \/ /\ Len(pending) = 2
       /\ Arrow(ch)
       /\ pending' = <<>>

\* Every frame may show garbage for the log, and for a line that fills the buffer.
Frame ==
    /\ garbage' \subseteq {"log", "command"}
    /\ "command" \in garbage' => Len(command) = Size
    /\ (\E ch \in Char : Key(ch)) \/ UNCHANGED lineVars
    /\ UNCHANGED <<entries, moved, log, undefined>>

Next ==
    /\ ~undefined
    /\ \/ \E e \in Entry : AddEntry(e) \/ RemoveOther(e)
       \/ \E i \in DOMAIN entries : RemoveEntry(i)
       \/ \E line \in Line : AddLine(line)
       \/ Frame

Spec == Init /\ [][Next]_vars
===============================================================================
