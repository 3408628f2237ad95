------------------------- MODULE ControlStreamInvariant -------------------------
(***************************************************************************)
(* The inductive invariant behind InOrder, for a client that waits for     *)
(* tx_ok.  It is stated per direction, from n to Peer[n]: everything on    *)
(* the way is either of the last message put at n or of the one before.    *)
(***************************************************************************)
EXTENDS ControlStream

\* The codes before the last message and before the one before it, and the
\* payload before the last.
Prv(n)     == IF put[n] = <<>> THEN 0 ELSE chain[n][Len(put[n])]
Prv2(n)    == IF Len(put[n]) < 2 THEN 0 ELSE chain[n][Len(put[n]) - 1]
PrvData(n) == IF Len(put[n]) < 2 THEN NoData ELSE put[n][Len(put[n]) - 1]

\* The receiver holds front, the sender announces back, queue is on the way, and
\* the change from old to new travels from back to front.
Ordered(queue, front, back, old, new) ==
    /\ {front, back} \subseteq {old, new}
    /\ \A i \in DOMAIN queue : queue[i] \in {old, new}
    /\ \A i, j \in DOMAIN queue : i < j /\ queue[i] = new => queue[j] = new
    /\ \A i \in DOMAIN queue : queue[i] = new => back = new
    /\ front = new => back = new /\ \A i \in DOMAIN queue : queue[i] = new

Hovs(queue) == [i \in DOMAIN queue |-> queue[i].hov]
Hifs(queue) == [i \in DOMAIN queue |-> queue[i].hif]

\* Has the peer taken the last message of n?
Taken(n) == hIf[Peer[n]] = hOv[n]

\* LoadRxControlData of n still has to hand pendingOf[n] to the outbound half.
Loading(n) == stage[n] \in {"validated", "rx_data"}

\* The histories agree with the outbound half.
History(n) ==
    /\ Len(chain[n]) = Len(put[n]) + 1
    /\ chain[n][Len(put[n]) + 1] = hOv[n]
    /\ txData[n] = IF put[n] = <<>> THEN NoData ELSE put[n][Len(put[n])]

\* Codes, payloads and feedback on the way.
Validation(n) == Ordered(Hovs(ctrlCh[Peer[n]]), hIv[Peer[n]], hOv[n], Prv(n), hOv[n])
Payload(n)    == Ordered(dataCh[Peer[n]], rxData[Peer[n]], txData[n],
                         PrvData(n), txData[n])
Feedback(n)   ==
    /\ Ordered(Hifs(ctrlCh[n]), IF Loading(n) THEN pendingOf[n] ELSE hOf[n],
               hIf[Peer[n]], Prv(n), hOv[n])
    /\ hOf[n] = hOv[n] /\ Loading(n) => pendingOf[n] = hOv[n]
    /\ ~busy[n] => hOf[n] = hOv[n]

\* What the peer computes from.
Receiver(n) ==
    LET m == Peer[n]
    IN  /\ prevState[m] = IF hIv[m] = hOv[n] THEN Prv(n) ELSE Prv2(n)
        /\ hasNew[m] =>
             /\ rxData[m] \in Data
             /\ \E p \in {Prv(n), Prv2(n)} : calcState[m] = Mixed(p, rxData[m])
             /\ hIv[m] # hOv[n] => calcState[m] = Mixed(Prv2(n), rxData[m])
             /\ Taken(n) => calcState[m] = Mixed(Prv(n), rxData[m])

Progress(n) ==
    LET m == Peer[n]
    IN  \/ /\ Taken(n)
           /\ hIv[m] = hOv[n]
           /\ rxData[m] = txData[n]
           /\ got[m] = put[n]
        \/ /\ ~Taken(n)
           /\ busy[n]
           /\ put[n] # <<>>
           /\ dataUpd[n].need
           /\ LastMissing(n)

Direction(n) ==
    /\ History(n)
    /\ Validation(n)
    /\ Payload(n)
    /\ Feedback(n)
    /\ Receiver(n)
    /\ Progress(n)

\* Why InOrder and RetransmitsUntilTaken hold when the client waits for tx_ok
\* (cstream.hpp:51-119, 131-179): both ends and every frame between them are at
\* the last message or at the one before, and only ever move forward.
IInv == \A n \in Node : Direction(n)
===============================================================================
