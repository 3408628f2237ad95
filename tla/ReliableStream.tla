---------------------------- MODULE ReliableStream -----------------------------
(***************************************************************************)
(* What a control stream promises a client that waits for tx_ok: what is   *)
(* put at one end is fired once, in order, at the other, and tx_ok is      *)
(* fired after that.  There are no frames, codes, timers or losses here.   *)
(***************************************************************************)
EXTENDS Naturals, Sequences

CONSTANTS Node, Peer, Data, MaxPut

VARIABLES
    put,   \* messages put at an end
    got,   \* messages delivered at an end
    busy   \* an end has put a message that is not confirmed

vars == <<put, got, busy>>

Init ==
    /\ put = [n \in Node |-> <<>>]
    /\ got = [n \in Node |-> <<>>]
    /\ busy = [n \in Node |-> FALSE]

Put(n, d) ==
    /\ ~busy[n]
    /\ Len(put[n]) < MaxPut[n]
    /\ put' = [put EXCEPT ![n] = Append(@, d)]
    /\ busy' = [busy EXCEPT ![n] = TRUE]
    /\ UNCHANGED got

\* The one message of n that its peer has not seen is delivered there.
Deliver(n) ==
    /\ busy[n]
    /\ got[Peer[n]] # put[n]
    /\ got' = [got EXCEPT ![Peer[n]] = put[n]]
    /\ UNCHANGED <<put, busy>>

Confirm(n) ==
    /\ busy[n]
    /\ got[Peer[n]] = put[n]
    /\ busy' = [busy EXCEPT ![n] = FALSE]
    /\ UNCHANGED <<put, got>>

Next == \E n \in Node :
            \/ \E d \in Data : Put(n, d)
            \/ Deliver(n)
            \/ Confirm(n)

Spec == Init /\ [][Next]_vars

FairSpec == Spec /\ \A n \in Node : WF_vars(Deliver(n)) /\ WF_vars(Confirm(n))
===============================================================================
