----------------------------- MODULE DeviceDirectory -----------------------------
(***************************************************************************)
(* What EnumerateInterface::Query promises: a device is asked, and some    *)
(* time later the answer is there at once, as if the device had been       *)
(* looked at in a single moment after the question.                        *)
(***************************************************************************)
EXTENDS Sequences, SequencesExt

CONSTANTS Node, Query, Targets, Creator, Name, Initial, Later

VARIABLES
    interfaces,   \* of each device
    asked,        \* {} or the question of each query, with what was known then
    answered      \* {} or its answer

vars == <<interfaces, asked, answered>>

Init ==
    /\ interfaces = Initial
    /\ asked = [q \in Query |-> {}]
    /\ answered = [q \in Query |-> {}]

AddInterface(n, intf) ==
    /\ \A i \in interfaces[n] : i.port # intf.port
    /\ interfaces' = [interfaces EXCEPT ![n] = @ \cup {intf}]
    /\ UNCHANGED <<asked, answered>>

Ask(q, dev) ==
    /\ asked[q] = {}
    /\ dev \in Targets[q]
    /\ asked' = [asked EXCEPT ![q] = {[dev |-> dev, known |-> interfaces[dev]]}]
    /\ UNCHANGED <<interfaces, answered>>

Answer(q) ==
    /\ answered[q] = {}
    /\ \E question \in asked[q] :
       \E held \in SUBSET interfaces[question.dev] : \E listed \in SetToSeqs(held) :
          /\ question.known \subseteq held
          /\ answered' = [answered EXCEPT ![q] =
                 {[creator |-> Creator[question.dev], name |-> Name[question.dev],
                   interfaces |-> listed]}]
    /\ UNCHANGED <<interfaces, asked>>

Next ==
    \/ \E n \in Node : \E l \in Later : l[1] = n /\ AddInterface(n, l[2])
    \/ \E q \in Query : Answer(q) \/ \E dev \in Node : Ask(q, dev)

\* No query is left without its answer.
Spec == Init /\ [][Next]_vars /\ \A q \in Query : WF_vars(Answer(q))
===============================================================================
