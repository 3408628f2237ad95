--------------------------------- MODULE Viewer ---------------------------------
(***************************************************************************)
(* The monitor: a Bus with a linked list of entries and a ring of log      *)
(* lines (monitor/bus.hpp), and the coroutine that prints both, prints the *)
(* line being typed and reads a key, twenty times a second                 *)
(* (monitor/viewer.hpp).  A frame has no co_await in it and is one step;   *)
(* whoever adds an entry or a line runs between two frames.                *)
(*                                                                         *)
(* What a frame prints is a function of the state and not a variable:      *)
(* Entries, Lines, GetBuffer and the cursor.                               *)
(***************************************************************************)
EXTENDS LineEditor, LogMonitor, FiniteSets, Functions

CONSTANTS
    Entry,     \* Entry objects; a user adds one once, with a null link
    Null,      \* nullptr
    Keys,      \* [states of the editor -> SUBSET Char] the user may type
    MaxLines   \* bound: lines logged

ASSUME ViewerAssumption ==
    /\ IsFiniteSet(Entry) /\ Null \notin Entry
    /\ \A s \in {"Normal", "Escape", "EscapeBracket"} : Keys[s] \subseteq Char
    /\ MaxLines \in Nat /\ 1 .. MaxLines \subseteq Line

VARIABLES
    head, tail, next,   \* Bus::head_, tail_ and the links of the entries
    text,               \* the entry whose display_name and text an object holds
    used,               \* what the users did with an object
    log,                \* Bus::log_monitor_
    logged,             \* lines logged, which number them
    input, command,     \* the viewer's static variables
    garbage,            \* parts of the last frame read from memory not theirs
    undefined           \* the behaviour is, from here on

list == <<head, tail, next, text, used>>
shell == <<input, command, garbage>>
vars == <<list, log, logged, shell, undefined>>

Init ==
    /\ head = Null /\ tail = Null
    /\ next = [e \in Entry |-> Null]
    /\ text = [e \in Entry |-> e]
    /\ used = [e \in Entry |-> "new"]
    /\ log = NewLog
    /\ logged = 0
    /\ input = NewInput
    /\ command = <<>>
    /\ garbage = {}
    /\ undefined = FALSE

-----------------------------------------------------------------------------
\* Entries(): what iterating from an entry to nullptr gives, at most n of them.
EntriesFrom[n \in Nat] ==
    [e \in Entry \cup {Null} |->
        IF e = Null \/ n = 0 THEN <<>> ELSE <<e>> \o EntriesFrom[n - 1][next[e]]]

Entries == EntriesFrom[Cardinality(Entry) + 1][head]

NewTail_Kept(e) == IF head = Null THEN e ELSE tail

\* AddEntry moves the tail, to an empty list too.
NewTail(e) == e

\* The new entry is linked behind tail_, on the list or not.
AddEntry(e) ==
    /\ used[e] = "new"
    /\ IF head = Null
       THEN head' = e /\ UNCHANGED next
       ELSE next' = [next EXCEPT ![tail] = e] /\ UNCHANGED head
    /\ tail' = NewTail(e)
    /\ used' = [used EXCEPT ![e] = "added"]
    /\ UNCHANGED <<text, log, logged, shell, undefined>>

RemoveHead(e) ==
    /\ head = e
    /\ head' = next[e]
    /\ UNCHANGED <<tail, next, text, undefined>>

\* prev->Next() and entry->Next() are references to entries and not links: the
\* assignment copies the successor with its link over e, which stays on the list
\* in its place.  tail_ stays, at the successor too.
Overwrite(e) ==
    /\ head # e /\ e \in Range(Entries) /\ next[e] # Null
    /\ next' = [next EXCEPT ![e] = next[next[e]]]
    /\ text' = [text EXCEPT ![e] = text[next[e]]]
    /\ UNCHANGED <<head, tail, undefined>>

\* The last entry has no successor to copy, and the walk to an entry that is not
\* on the list goes past the end of it: either reads through nullptr.
Stray(e) ==
    /\ head # e /\ (e \in Range(Entries) => next[e] = Null)
    /\ undefined' = TRUE
    /\ UNCHANGED <<head, tail, next, text>>

\* Of an entry that was added, and once.
RemoveEntry(e) ==
    /\ used[e] = "added"
    /\ used' = [used EXCEPT ![e] = "removed"]
    /\ RemoveHead(e) \/ Overwrite(e) \/ Stray(e)
    /\ UNCHANGED <<log, logged, shell>>

\* LoggerAdapter::Log
Log ==
    /\ logged < MaxLines
    /\ log' = AddLine(log, logged + 1)
    /\ logged' = logged + 1
    /\ UNCHANGED <<list, shell, undefined>>

\* What a frame may print of memory that is not its own: the lines are found
\* through GetLogMonitor()'s copy after its end (its iterators point into the ring
\* of the Bus, if they are still there), and a line as long as command_buf has no
\* terminator behind it.
Stale == {"log"} \cup IF Len(command) = Size THEN {"command"} ELSE {}

\* HandleInputLine copies an entered line to command_buf.
Type(ch) ==
    /\ HasRoom(input, ch)
    /\ input' = HandleInput(input, ch)
    /\ command' = IF Submits(input, ch) THEN GetBuffer(input) ELSE command

\* A frame prints; then ReadChar() has a key for it or not.
Frame ==
    /\ garbage' \in SUBSET Stale
    /\ \/ \E ch \in Keys[input.state] : Type(ch)
       \/ UNCHANGED <<input, command>>
    /\ UNCHANGED <<list, log, logged, undefined>>

Next ==
    /\ ~undefined
    /\ \/ \E e \in Entry : AddEntry(e) \/ RemoveEntry(e)
       \/ Log
       \/ Frame

Spec == Init /\ [][Next]_vars

-----------------------------------------------------------------------------
(* Properties. *)

\* Every variable stays within its type, the cursor within the line.
TypeOK ==
    /\ head \in Entry \cup {Null} /\ tail \in Entry \cup {Null}
    /\ next \in [Entry -> Entry \cup {Null}]
    /\ text \in [Entry -> Entry]
    /\ used \in [Entry -> {"new", "added", "removed"}]
    /\ log \in Logs
    /\ input \in Inputs /\ input.cursor_pos <= input.length
    /\ command \in Seq(Char)
    /\ garbage \subseteq {"log", "command"} /\ undefined \in BOOLEAN

\* What the entries of the list say.
Texts == [i \in DOMAIN Entries |-> text[Entries[i]]]

\* AddEntry links where no iteration comes: tail_ is an entry that was copied.
Cut == head # Null /\ tail \notin Range(Entries)

\* The screen shows no entry that was removed, though its object may be on the
\* list for ever, and all that were added, though theirs may not: unless the last
\* one was copied, and AddEntry links behind the object it left.
AddedAreShown ==
    LET added == {e \in Entry : used[e] = "added"}
    IN ~undefined => /\ Range(Texts) \subseteq added
                     /\ Cut \/ added \subseteq Range(Texts)

\* What a frame prints is the console a user can expect: the linked list is a
\* sequence of entries, the ring the last lines in their order, the buffer with
\* its cursor a line in two halves that the keys edit.
Screen == INSTANCE Console WITH
    Shown   <- Capacity - 1,
    entries <- Texts,
    moved   <- {text[e] : e \in {o \in Range(Entries) : text[o] # o}},
    log     <- Lines(log),
    before  <- BeforeCursor(input),
    after   <- FromCursor(input),
    pending <- CASE input.state = "Normal" -> <<>>
                 [] input.state = "Escape" -> <<Esc>>
                 [] input.state = "EscapeBracket" -> <<Esc, "[">>

ImplementsConsole == Screen!Spec
===============================================================================
