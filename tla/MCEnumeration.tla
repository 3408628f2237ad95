----------------------------- MODULE MCEnumeration -----------------------------
(***************************************************************************)
(* Instances of Enumeration: 8 addresses, of which 4 .. 7 are tags and 7   *)
(* is Broadcast.                                                           *)
(***************************************************************************)
EXTENDS EnumerationInvariant

CONSTANTS root, dev1, dev2, dev3

\* Every device draws a tag of its own: 1 and 5 are one tag.
OwnTags ==
    [n \in Node |-> CASE n = root -> {} [] n = dev1 -> {1, 5} [] n = dev2 -> {6}]

\* Devices may draw one tag, Broadcast included.
AnyTags ==
    [n \in Node |-> CASE n = root -> {} [] n = dev1 -> {1, 7} [] n = dev2 -> {1, 2}
                      [] n = dev3 -> {0}]
===============================================================================
