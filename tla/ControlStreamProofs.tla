-------------------------- MODULE ControlStreamProofs --------------------------
(***************************************************************************)
(* Proofs about ControlStream, for every pair of ends, payload set,        *)
(* checksum, MixCode, timeout and channel capacity.                        *)
(***************************************************************************)
EXTENDS ControlStreamInvariant, TLAPS

\* has_new_data_ guards the use of the received data.
HasData == \A n \in Node : hasNew[n] => rxData[n] \in Data

TypeInv == TypeOK /\ HasData

\* The retransmission clock keeps its type under each of its operations.
LEMMA UpdatableType ==
    /\ U!Quiet \in U!Updatable
    /\ U!Update \in U!Updatable
    /\ \A u \in U!Updatable : U!Reset(u) \in U!Updatable /\ U!Tick(u) \in U!Updatable
<1>1. U!Quiet \in U!Updatable /\ U!Update \in U!Updatable
  BY BoundAssumption DEF U!Quiet, U!Update, U!Updatable
<1>2. ASSUME NEW u \in U!Updatable
      PROVE  U!Reset(u) \in U!Updatable
  BY DEF U!Reset, U!Updatable
<1>3. ASSUME NEW u \in U!Updatable
      PROVE  U!Tick(u) \in U!Updatable
  <2>1. CASE U!Expires(u)
    BY <2>1, BoundAssumption DEF U!Tick, U!Updatable
  <2>2. CASE u.need /\ ~U!Expires(u)
    <3>1. U!Tick(u) = [u EXCEPT !.timer = @ - 1]
      BY <2>2 DEF U!Tick
    <3>2. u.timer \in 2 .. TimeoutTicks
      BY <2>2, BoundAssumption DEF U!Expires, U!Updatable
    <3>3. QED
      BY <3>1, <3>2, BoundAssumption DEF U!Updatable
  <2>3. CASE ~u.need
    <3>1. U!Tick(u) = u
      BY <2>3 DEF U!Tick, U!Expires
    <3>2. QED
      BY <3>1
  <2>4. QED
    BY <2>1, <2>2, <2>3
<1>4. QED
  BY <1>1, <1>2, <1>3

\* A full channel drops the frame; either way the channel keeps its type.
LEMMA SentType ==
    ASSUME NEW S, NEW q \in Seq(S), NEW f \in S
    PROVE  Sent(q, f) \in Seq(S)
BY DEF Sent

LEMMA ControlType ==
    ASSUME NEW v \in StateCode, NEW f \in StateCode
    PROVE  Control(v, f) \in CtrlFrame
BY DEF Control, CtrlFrame

\* CheckIntegrity keeps the types of everything it may write.
LEMMA InboundType ==
    ASSUME TypeOK,
           NEW n \in Node, NEW ok \in BOOLEAN, NEW new \in BOOLEAN,
           NEW calc \in StateCode, NEW validate \in StateCode,
           NEW d, new => d \in Data,
           NEW bus \in [Node -> Seq(CtrlFrame)],
           Inbound_CheckIntegrity(n, ok, new, calc, validate, d, bus)
    PROVE  /\ rxOk' \in [Node -> BOOLEAN]
           /\ hasNew' \in [Node -> BOOLEAN]
           /\ hIf' \in [Node -> StateCode]
           /\ feedbackUpd' \in [Node -> U!Updatable]
           /\ ctrlCh' \in [Node -> Seq(CtrlFrame)]
           /\ got' \in [Node -> Seq(Data)]
           /\ \A m \in Node : hasNew'[m] => IF m = n THEN new ELSE hasNew[m]
<1>1. /\ Control(hOv[n], calc) \in CtrlFrame
      /\ Sent(bus[Peer[n]], Control(hOv[n], calc)) \in Seq(CtrlFrame)
  BY SentType, ControlType, NodeAssumption DEF TypeOK
<1>2. CASE ~ok /\ new /\ hIf[n] # calc /\ validate = calc
  <2>1. /\ hIf' = [hIf EXCEPT ![n] = calc]
        /\ feedbackUpd' = [feedbackUpd EXCEPT ![n] = U!Update]
        /\ ctrlCh' = [bus EXCEPT ![Peer[n]] = Sent(@, Control(hOv[n], calc))]
        /\ got' = [got EXCEPT ![n] = Append(@, d)]
        /\ rxOk' = [rxOk EXCEPT ![n] = TRUE]
        /\ hasNew' = [hasNew EXCEPT ![n] = FALSE]
    BY <1>2 DEF Inbound_CheckIntegrity, Accepts
  <2>2. ctrlCh' \in [Node -> Seq(CtrlFrame)]
    BY <1>1, <2>1, NodeAssumption
  <2>3. got' \in [Node -> Seq(Data)]
    BY <1>2, <2>1 DEF TypeOK
  <2>4. QED
    BY <2>1, <2>2, <2>3, UpdatableType DEF TypeOK
<1>3. CASE ~(~ok /\ new /\ hIf[n] # calc /\ validate = calc)
  BY <1>3 DEF Inbound_CheckIntegrity, Accepts, TypeOK
<1>4. QED
  BY <1>2, <1>3

LEMMA TypeInit == Init => TypeInv
<1>1. <<>> \in Seq(Data) /\ <<>> \in Seq(CtrlFrame) /\ <<0>> \in Seq(StateCode)
  BY MixAssumption
<1>2. QED
  BY <1>1, MixAssumption, UpdatableType
     DEF Init, Inbound_Init, Outbound_Init, TypeInv, TypeOK, HasData, Stage

\* Every step of the bus, the handlers and the client keeps the types.
LEMMA TypeStep == TypeInv /\ [Next]_vars => TypeInv'
<1> SUFFICES ASSUME TypeInv, [Next]_vars PROVE TypeInv'
  OBVIOUS
<1> USE DEF TypeInv
<1>1. CASE UNCHANGED vars
  BY <1>1 DEF TypeOK, HasData, vars, inboundVars, outboundVars, clientVars
<1>2. ASSUME NEW n \in Node, NEW d \in Data, PutTxData(n, d)
      PROVE  TypeInv'
  <2>1. Mixed(hOv[n], d) \in StateCode
    BY MixAssumption DEF TypeOK
  <2>2. /\ Sent(ctrlCh[Peer[n]], Control(Mixed(hOv[n], d), hIf[n])) \in Seq(CtrlFrame)
        /\ Sent(dataCh[Peer[n]], d) \in Seq(Data)
    BY <2>1, SentType, ControlType, NodeAssumption DEF TypeOK
  <2>3. ctrlCh' \in [Node -> Seq(CtrlFrame)] /\ dataCh' \in [Node -> Seq(Data)]
    BY <1>2, <2>2 DEF PutTxData, TypeOK
  <2>4. /\ put' \in [Node -> Seq(Data)]
        /\ chain' \in [Node -> Seq(StateCode)]
        /\ hOv' \in [Node -> StateCode]
    BY <1>2, <2>1 DEF PutTxData, TypeOK
  <2>5. QED
    BY <1>2, <2>3, <2>4, UpdatableType
       DEF PutTxData, TypeOK, HasData, inboundVars
<1>3. ASSUME NEW n \in Node, FeedRxData(n)
      PROVE  TypeInv'
  <2> DEFINE d    == Head(dataCh[n])
             calc == Mixed(prevState[n], d)
  <2>1. d \in Data /\ Tail(dataCh[n]) \in Seq(Data)
    BY <1>3 DEF FeedRxData, TypeOK
  <2>2. calc \in StateCode
    BY <2>1, MixAssumption DEF TypeOK
  <2>3. Inbound_CheckIntegrity(n, FALSE, TRUE, calc, hIv[n], d, ctrlCh)
    BY <1>3 DEF FeedRxData
  <2>4. hIv[n] \in StateCode /\ ctrlCh \in [Node -> Seq(CtrlFrame)]
    BY DEF TypeOK
  <2> HIDE DEF d, calc
  <2>5. /\ rxOk' \in [Node -> BOOLEAN]
        /\ hasNew' \in [Node -> BOOLEAN]
        /\ hIf' \in [Node -> StateCode]
        /\ feedbackUpd' \in [Node -> U!Updatable]
        /\ ctrlCh' \in [Node -> Seq(CtrlFrame)]
        /\ got' \in [Node -> Seq(Data)]
        /\ \A m \in Node : hasNew'[m] => IF m = n THEN TRUE ELSE hasNew[m]
    BY <2>1, <2>2, <2>3, <2>4, InboundType
  <2>6. /\ rxData' = [rxData EXCEPT ![n] = d]
        /\ calcState' = [calcState EXCEPT ![n] = calc]
        /\ dataCh' = [dataCh EXCEPT ![n] = Tail(@)]
        /\ UNCHANGED <<prevState, hIv, outboundVars, stage, pendingOf, busy, put,
                       chain>>
    BY <1>3 DEF FeedRxData, d, calc
  <2>7. HasData'
    BY <2>1, <2>5, <2>6 DEF TypeOK, HasData
  <2>8. TypeOK'
    BY <2>1, <2>2, <2>5, <2>6 DEF TypeOK, outboundVars
  <2>9. QED
    BY <2>7, <2>8
<1>4. ASSUME NEW n \in Node, LoadRxControlData(n)
      PROVE  TypeInv'
  <2> DEFINE frame    == Head(ctrlCh[n])
             received == [ctrlCh EXCEPT ![n] = Tail(@)]
  <2>1. /\ frame \in CtrlFrame
        /\ received \in [Node -> Seq(CtrlFrame)]
    BY <1>4 DEF LoadRxControlData, TypeOK
  <2>2. frame.hov \in StateCode /\ frame.hif \in StateCode
    BY <2>1 DEF CtrlFrame
  <2>3. CASE /\ frame.hov = hIv[n]
             /\ ctrlCh' = received
             /\ UNCHANGED <<prevState, hIv, rxOk, hasNew, hIf, feedbackUpd, got>>
    BY <1>4, <2>1, <2>2, <2>3
       DEF LoadRxControlData, TypeOK, HasData, outboundVars, Stage
  <2>4. CASE /\ frame.hov # hIv[n]
             /\ prevState' = [prevState EXCEPT ![n] = hIv[n]]
             /\ hIv' = [hIv EXCEPT ![n] = frame.hov]
             /\ Inbound_CheckIntegrity(n, FALSE, hasNew[n], calcState[n],
                                       frame.hov, rxData[n], received)
    <3>1. /\ hasNew[n] \in BOOLEAN
          /\ calcState[n] \in StateCode
          /\ hasNew[n] => rxData[n] \in Data
      BY DEF TypeOK, HasData
    <3> HIDE DEF frame, received
    <3>2. /\ rxOk' \in [Node -> BOOLEAN]
          /\ hasNew' \in [Node -> BOOLEAN]
          /\ hIf' \in [Node -> StateCode]
          /\ feedbackUpd' \in [Node -> U!Updatable]
          /\ ctrlCh' \in [Node -> Seq(CtrlFrame)]
          /\ got' \in [Node -> Seq(Data)]
          /\ \A m \in Node : hasNew'[m] => IF m = n THEN hasNew[n] ELSE hasNew[m]
      BY <2>1, <2>2, <2>4, <3>1, InboundType
    <3>3. pendingOf' = [pendingOf EXCEPT ![n] = frame.hif]
      BY <1>4 DEF LoadRxControlData, frame
    <3>4. QED
      BY <1>4, <2>2, <2>4, <3>2, <3>3
         DEF LoadRxControlData, TypeOK, HasData, outboundVars, Stage
  <2>5. QED
    BY <1>4, <2>3, <2>4 DEF LoadRxControlData
<1>5. ASSUME NEW n \in Node, SetStateFeedback(n)
      PROVE  TypeInv'
  <2>1. /\ hOf' \in [Node -> StateCode]
        /\ pendingOf' \in [Node -> StateCode]
        /\ txOk' \in [Node -> BOOLEAN]
    BY <1>5, MixAssumption DEF SetStateFeedback, TypeOK
  <2>2. /\ dataUpd' \in [Node -> U!Updatable]
        /\ busy' \in [Node -> BOOLEAN]
        /\ stage' \in [Node -> Stage]
    <3>1. CASE hOv[n] = pendingOf[n]
      <4>1. /\ dataUpd' = [dataUpd EXCEPT ![n] = U!Reset(@)]
            /\ busy' = [busy EXCEPT ![n] = FALSE]
            /\ stage' = [stage EXCEPT ![n] = "tx_ok"]
        BY <1>5, <3>1 DEF SetStateFeedback
      <4>2. QED
        BY <4>1, UpdatableType DEF TypeOK, Stage
    <3>2. CASE hOv[n] # pendingOf[n]
      BY <1>5, <3>2 DEF SetStateFeedback, TypeOK, Stage
    <3>3. QED
      BY <3>1, <3>2
  <2>3. QED
    BY <1>5, <2>1, <2>2 DEF SetStateFeedback, TypeOK, HasData, inboundVars
<1>6. ASSUME NEW n \in Node, TxOkReturns(n)
      PROVE  TypeInv'
  BY <1>6 DEF TxOkReturns, TypeOK, HasData, Stage, inboundVars, clientVars
<1>7. ASSUME NEW n \in Node, Tick(n)
      PROVE  TypeInv'
  <2>1. \A q \in Seq(CtrlFrame) : Sent(q, Control(hOv[n], hIf[n])) \in Seq(CtrlFrame)
    BY SentType, ControlType DEF TypeOK
  <2>2. ctrlCh' \in [Node -> Seq(CtrlFrame)]
    BY <1>7, <2>1, NodeAssumption DEF Tick, TypeOK
  <2>3. txData[n] # NoData => Sent(dataCh[Peer[n]], txData[n]) \in Seq(Data)
    BY SentType, NodeAssumption DEF TypeOK
  <2>4. dataCh' \in [Node -> Seq(Data)]
    BY <1>7, <2>3 DEF Tick, TypeOK
  <2>5. QED
    BY <1>7, <2>2, <2>4, UpdatableType DEF Tick, TypeOK, HasData, clientVars
<1>8. ASSUME NEW n \in Node, LoseData(n)
      PROVE  TypeInv'
  <2>1. Tail(dataCh[n]) \in Seq(Data)
    BY <1>8 DEF LoseData, TypeOK
  <2>2. QED
    BY <1>8, <2>1
       DEF LoseData, TypeOK, HasData, inboundVars, outboundVars, clientVars
<1>9. ASSUME NEW n \in Node, LoseCtrl(n)
      PROVE  TypeInv'
  <2>1. Tail(ctrlCh[n]) \in Seq(CtrlFrame)
    BY <1>9 DEF LoseCtrl, TypeOK
  <2>2. QED
    BY <1>9, <2>1
       DEF LoseCtrl, TypeOK, HasData, inboundVars, outboundVars, clientVars
<1>10. QED
  BY <1>1, <1>2, <1>3, <1>4, <1>5, <1>6, <1>7, <1>8, <1>9 DEF Next, Handler

\* The types of cstream.hpp's state and of the frames on the bus are invariant.
THEOREM TypeCorrect == Spec => []TypeOK
<1>1. TypeInv => TypeOK
  BY DEF TypeInv
<1>2. QED
  BY <1>1, TypeInit, TypeStep, PTL DEF Spec
-----------------------------------------------------------------------------
(* What the bus does to a change on its way from the sender to the receiver. *)

\* Announcing the current value.
LEMMA OrderedSent ==
    ASSUME NEW S, NEW q \in Seq(S), NEW front, NEW back \in S, NEW old, NEW new,
           Ordered(q, front, back, old, new)
    PROVE  Ordered(Sent(q, back), front, back, old, new)
<1>1. CASE Len(q) < QueueCap
  <2>1. /\ Sent(q, back) = Append(q, back)
        /\ DOMAIN Append(q, back) = 1 .. Len(q) + 1
        /\ DOMAIN q = 1 .. Len(q)
        /\ \A i \in 1 .. Len(q) : Append(q, back)[i] = q[i]
        /\ Append(q, back)[Len(q) + 1] = back
    BY <1>1 DEF Sent
  <2>2. \A i \in 1 .. Len(q) + 1 : i \in 1 .. Len(q) \/ i = Len(q) + 1
    OBVIOUS
  <2>3. QED
    BY <2>1, <2>2 DEF Ordered
<1>2. CASE ~(Len(q) < QueueCap)
  BY <1>2 DEF Sent
<1>3. QED
  BY <1>1, <1>2

\* Losing the first frame.
LEMMA OrderedTail ==
    ASSUME NEW S, NEW q \in Seq(S), q # <<>>,
           NEW front, NEW back, NEW old, NEW new,
           Ordered(q, front, back, old, new)
    PROVE  Ordered(Tail(q), front, back, old, new)
<1>1. /\ DOMAIN Tail(q) = 1 .. Len(q) - 1
      /\ DOMAIN q = 1 .. Len(q)
      /\ \A i \in 1 .. Len(q) - 1 : Tail(q)[i] = q[i + 1] /\ i + 1 \in 1 .. Len(q)
      /\ Len(q) \in Nat
  OBVIOUS
<1>2. QED
  BY <1>1 DEF Ordered

\* Receiving it.
LEMMA OrderedHead ==
    ASSUME NEW S, NEW q \in Seq(S), q # <<>>,
           NEW front, NEW back, NEW old, NEW new,
           Ordered(q, front, back, old, new)
    PROVE  /\ Ordered(Tail(q), Head(q), back, old, new)
           /\ Head(q) \in {old, new}
           /\ front = new => Head(q) = new
<1>1. /\ DOMAIN Tail(q) = 1 .. Len(q) - 1
      /\ DOMAIN q = 1 .. Len(q)
      /\ \A i \in 1 .. Len(q) - 1 :
            Tail(q)[i] = q[i + 1] /\ i + 1 \in 1 .. Len(q) /\ 1 < i + 1
      /\ Len(q) \in Nat /\ 1 \in 1 .. Len(q)
      /\ Head(q) = q[1]
  OBVIOUS
<1>2. QED
  BY <1>1 DEF Ordered

\* The sender starts to announce the new value.
LEMMA OrderedBack ==
    ASSUME NEW q, NEW front, NEW back, NEW old, NEW new,
           Ordered(q, front, back, old, new)
    PROVE  Ordered(q, front, new, old, new)
BY DEF Ordered

\* Once the receiver has the new value, it is the old one of the next round.
LEMMA OrderedAdvance ==
    ASSUME NEW q, NEW front, NEW back, NEW old, NEW new, NEW next,
           Ordered(q, front, back, old, new), front = new
    PROVE  Ordered(q, front, back, new, next)
BY DEF Ordered

\* Projections of a control channel.
LEMMA Projections ==
    ASSUME NEW q \in Seq(CtrlFrame)
    PROVE  /\ Hovs(q) \in Seq(StateCode)
           /\ Hifs(q) \in Seq(StateCode)
           /\ \A f \in CtrlFrame : /\ Hovs(Sent(q, f)) = Sent(Hovs(q), f.hov)
                                   /\ Hifs(Sent(q, f)) = Sent(Hifs(q), f.hif)
           /\ q # <<>> => /\ Hovs(q) # <<>> /\ Hifs(q) # <<>>
                          /\ Hovs(Tail(q)) = Tail(Hovs(q))
                          /\ Hifs(Tail(q)) = Tail(Hifs(q))
                          /\ Head(q).hov = Head(Hovs(q))
                          /\ Head(q).hif = Head(Hifs(q))
<1>1. /\ DOMAIN q = 1 .. Len(q)
      /\ Len(q) \in Nat
      /\ \A i \in 1 .. Len(q) : q[i] \in CtrlFrame
  OBVIOUS
<1>2. \A f \in CtrlFrame : f.hov \in StateCode /\ f.hif \in StateCode
  BY DEF CtrlFrame
<1>3. /\ Hovs(q) \in Seq(StateCode) /\ Len(Hovs(q)) = Len(q)
      /\ Hifs(q) \in Seq(StateCode) /\ Len(Hifs(q)) = Len(q)
  BY <1>1, <1>2 DEF Hovs, Hifs
<1>4. ASSUME NEW f \in CtrlFrame
      PROVE  /\ Hovs(Append(q, f)) = Append(Hovs(q), f.hov)
             /\ Hifs(Append(q, f)) = Append(Hifs(q), f.hif)
  BY <1>1, <1>2, <1>3 DEF Hovs, Hifs
<1>5. ASSUME NEW f \in CtrlFrame
      PROVE  /\ Hovs(Sent(q, f)) = Sent(Hovs(q), f.hov)
             /\ Hifs(Sent(q, f)) = Sent(Hifs(q), f.hif)
  BY <1>3, <1>4 DEF Sent
<1>6. ASSUME q # <<>>
      PROVE  /\ Hovs(q) # <<>> /\ Hifs(q) # <<>>
             /\ Hovs(Tail(q)) = Tail(Hovs(q))
             /\ Hifs(Tail(q)) = Tail(Hifs(q))
             /\ Head(q).hov = Head(Hovs(q))
             /\ Head(q).hif = Head(Hifs(q))
  BY <1>1, <1>3, <1>6 DEF Hovs, Hifs
<1>7. QED
  BY <1>3, <1>5, <1>6
-----------------------------------------------------------------------------
(* The invariant is preserved.                                             *)

\* What n has put, and the code it announces.
PutSame(n) == UNCHANGED <<put[n], chain[n], hOv[n], txData[n]>>

\* Each part of the invariant only depends on a few variables.
LEMMA Frame ==
    ASSUME NEW n \in Node, PutSame(n), Direction(n)
    PROVE  LET m == Peer[n]
           IN  /\ History(n)'
               /\ Prv(n)' = Prv(n) /\ Prv2(n)' = Prv2(n) /\ PrvData(n)' = PrvData(n)
               /\ UNCHANGED <<ctrlCh[m], hIv[m]>> => Validation(n)'
               /\ UNCHANGED <<dataCh[m], rxData[m]>> => Payload(n)'
               /\ UNCHANGED <<ctrlCh[n], stage[n], pendingOf[n], hOf[n], hIf[m],
                              busy[n]>> => Feedback(n)'
               /\ UNCHANGED <<prevState[m], hIv[m], hasNew[m], rxData[m],
                              calcState[m], hIf[m]>> => Receiver(n)'
               /\ UNCHANGED <<hIf[m], hIv[m], rxData[m], got[m], busy[n],
                              dataUpd[n].need>> => Progress(n)'
<1> DEFINE m == Peer[n]
<1>1. History(n)'
  BY DEF PutSame, Direction, History
<1>2. Prv(n)' = Prv(n) /\ Prv2(n)' = Prv2(n) /\ PrvData(n)' = PrvData(n)
  BY DEF PutSame, Prv, Prv2, PrvData
<1>3. UNCHANGED <<ctrlCh[m], hIv[m]>> => Validation(n)'
  BY <1>2 DEF PutSame, Direction, Validation
<1>4. UNCHANGED <<dataCh[m], rxData[m]>> => Payload(n)'
  BY <1>2 DEF PutSame, Direction, Payload
<1>5. ASSUME UNCHANGED <<ctrlCh[n], stage[n], pendingOf[n], hOf[n], hIf[m], busy[n]>>
      PROVE  Feedback(n)'
  BY <1>2, <1>5 DEF PutSame, Direction, Feedback, Loading
<1>6. UNCHANGED <<prevState[m], hIv[m], hasNew[m], rxData[m], calcState[m], hIf[m]>>
          => Receiver(n)'
  BY <1>2 DEF PutSame, Direction, Receiver, Taken
<1>7. UNCHANGED <<hIf[m], hIv[m], rxData[m], got[m], busy[n], dataUpd[n].need>>
          => Progress(n)'
  BY DEF PutSame, Direction, Progress, Taken, LastMissing
<1>8. QED
  BY <1>1, <1>2, <1>3, <1>4, <1>5, <1>6, <1>7

\* The sender announces its code once more, the receiver its feedback.
LEMMA Announced ==
    ASSUME TypeInv, NEW n \in Node, PutSame(n), Direction(n),
           NEW f \in CtrlFrame
    PROVE  LET m == Peer[n]
           IN  /\ /\ f.hov = hOv[n]
                  /\ hIv'[m] = hIv[m]
                  /\ ctrlCh'[m] = Sent(ctrlCh[m], f)
                  => Validation(n)'
               /\ /\ f.hif = hIf[m]
                  /\ ctrlCh'[n] = Sent(ctrlCh[n], f)
                  /\ UNCHANGED <<stage[n], pendingOf[n], hOf[n], hIf[m], busy[n]>>
                  => Feedback(n)'
<1> DEFINE m == Peer[n]
<1>1. /\ ctrlCh[n] \in Seq(CtrlFrame) /\ ctrlCh[m] \in Seq(CtrlFrame)
      /\ hOv[n] \in StateCode /\ hIf[m] \in StateCode
      /\ m \in Node
  BY NodeAssumption DEF TypeInv, TypeOK
<1>2. Prv(n)' = Prv(n) /\ hOv'[n] = hOv[n]
  BY DEF PutSame, Prv
<1>3. ASSUME f.hov = hOv[n], hIv'[m] = hIv[m], ctrlCh'[m] = Sent(ctrlCh[m], f)
      PROVE  Validation(n)'
  <2>1. /\ Hovs(ctrlCh[m]) \in Seq(StateCode)
        /\ Hovs(ctrlCh'[m]) = Sent(Hovs(ctrlCh[m]), hOv[n])
    BY <1>1, <1>3, Projections
  <2>2. Ordered(Hovs(ctrlCh[m]), hIv[m], hOv[n], Prv(n), hOv[n])
    BY DEF Direction, Validation
  <2>3. Ordered(Sent(Hovs(ctrlCh[m]), hOv[n]), hIv[m], hOv[n], Prv(n), hOv[n])
    BY <1>1, <2>1, <2>2, OrderedSent
  <2>4. QED
    BY <1>2, <1>3, <2>1, <2>3 DEF Validation
<1>4. ASSUME f.hif = hIf[m], ctrlCh'[n] = Sent(ctrlCh[n], f),
             UNCHANGED <<stage[n], pendingOf[n], hOf[n], hIf[m], busy[n]>>
      PROVE  Feedback(n)'
  <2> DEFINE front == IF Loading(n) THEN pendingOf[n] ELSE hOf[n]
  <2>1. /\ Hifs(ctrlCh[n]) \in Seq(StateCode)
        /\ Hifs(ctrlCh'[n]) = Sent(Hifs(ctrlCh[n]), hIf[m])
    BY <1>1, <1>4, Projections
  <2>2. Ordered(Hifs(ctrlCh[n]), front, hIf[m], Prv(n), hOv[n])
    BY DEF Direction, Feedback
  <2>3. Ordered(Sent(Hifs(ctrlCh[n]), hIf[m]), front, hIf[m], Prv(n), hOv[n])
    <3> HIDE DEF front
    <3>1. QED
      BY <1>1, <2>1, <2>2, OrderedSent
  <2>4. front' = front /\ (Loading(n)' <=> Loading(n))
    BY <1>4 DEF Loading
  <2>5. QED
    BY <1>2, <1>4, <2>1, <2>3, <2>4 DEF Feedback, Direction
<1>5. QED
  BY <1>3, <1>4

\* Tick at either end announces what both ends hold.
LEMMA TickStep ==
    ASSUME TypeInv, IInv, NEW x \in Node, Tick(x), NEW n \in Node
    PROVE  Direction(n)'
<1> DEFINE m == Peer[n]
           f == Control(hOv[x], hIf[x])
           y == Peer[x]
<1>1. Direction(n)
  BY DEF IInv
<1>2. PutSame(n)
  BY DEF Tick, PutSame, clientVars
<1>3. /\ UNCHANGED <<hIv, hIf, stage, pendingOf, hOf, busy, rxData, got, prevState,
                     hasNew, calcState>>
      /\ dataUpd'[n].need = dataUpd[n].need
  <2>1. UNCHANGED <<hIv, hIf, stage, pendingOf, hOf, busy, rxData, got, prevState,
                    hasNew, calcState>>
    BY DEF Tick, clientVars
  <2>2. U!Tick(dataUpd[n]).need = dataUpd[n].need
    BY DEF U!Tick, U!Expires, TypeInv, TypeOK, U!Updatable
  <2>3. dataUpd'[n] \in {dataUpd[n], U!Tick(dataUpd[n])}
    BY DEF Tick, TypeInv, TypeOK
  <2>4. QED
    BY <2>1, <2>2, <2>3
<1>4. History(n)' /\ Receiver(n)' /\ Progress(n)'
  BY <1>1, <1>2, <1>3, Frame
<1>5. f \in CtrlFrame /\ f.hov = hOv[x] /\ f.hif = hIf[x]
  BY ControlType DEF TypeInv, TypeOK, Control
<1>6. Payload(n)'
  <2>1. CASE dataCh'[m] = dataCh[m]
    BY <1>1, <1>2, <1>3, <2>1, Frame
  <2>2. CASE /\ x = n
             /\ dataCh'[m] = Sent(dataCh[m], txData[n])
             /\ txData[n] # NoData
    <3>1. dataCh[m] \in Seq(Data) /\ txData[n] \in Data
      BY <2>2, NodeAssumption DEF TypeInv, TypeOK
    <3>2. Ordered(dataCh[m], rxData[m], txData[n], PrvData(n), txData[n])
      BY <1>1 DEF Direction, Payload
    <3>3. Ordered(Sent(dataCh[m], txData[n]), rxData[m], txData[n], PrvData(n),
                  txData[n])
      BY <3>1, <3>2, OrderedSent
    <3>4. PrvData(n)' = PrvData(n) /\ txData'[n] = txData[n]
      BY <1>2 DEF PutSame, PrvData
    <3>5. QED
      BY <1>3, <2>2, <3>3, <3>4 DEF Payload
  <2>3. QED
    BY <2>1, <2>2, NodeAssumption DEF Tick, TypeInv, TypeOK
<1>7. Validation(n)' /\ Feedback(n)'
  <2>1. /\ \A z \in Node : z # y => ctrlCh'[z] = ctrlCh[z]
        /\ ctrlCh'[y] \in {ctrlCh[y], Sent(ctrlCh[y], f), Sent(Sent(ctrlCh[y], f), f)}
    BY NodeAssumption DEF Tick, TypeInv, TypeOK
  <2>2. CASE ctrlCh'[m] = ctrlCh[m] /\ ctrlCh'[n] = ctrlCh[n]
    BY <1>1, <1>2, <1>3, <2>2, Frame
  <2>3. CASE x = n
    <3>1. ctrlCh'[n] = ctrlCh[n] /\ m = y
      BY <2>1, <2>3, NodeAssumption
    <3>2. Feedback(n)'
      BY <1>1, <1>2, <1>3, <3>1, Frame
    <3>3. /\ Hovs(ctrlCh[m]) \in Seq(StateCode)
          /\ hOv[n] \in StateCode
          /\ Sent(ctrlCh[m], f) \in Seq(CtrlFrame)
          /\ ctrlCh[m] \in Seq(CtrlFrame)
      BY <1>5, Projections, SentType, NodeAssumption DEF TypeInv, TypeOK
    <3>4. /\ Hovs(Sent(ctrlCh[m], f)) = Sent(Hovs(ctrlCh[m]), hOv[n])
          /\ Hovs(Sent(Sent(ctrlCh[m], f), f))
                 = Sent(Sent(Hovs(ctrlCh[m]), hOv[n]), hOv[n])
      BY <1>5, <2>3, <3>3, Projections
    <3>5. Ordered(Hovs(ctrlCh[m]), hIv[m], hOv[n], Prv(n), hOv[n])
      BY <1>1 DEF Direction, Validation
    <3>6. Ordered(Sent(Hovs(ctrlCh[m]), hOv[n]), hIv[m], hOv[n], Prv(n), hOv[n])
      BY <3>3, <3>5, OrderedSent
    <3>7. Ordered(Sent(Sent(Hovs(ctrlCh[m]), hOv[n]), hOv[n]), hIv[m], hOv[n],
                  Prv(n), hOv[n])
      BY <3>3, <3>6, OrderedSent, SentType
    <3>8. Prv(n)' = Prv(n) /\ hOv'[n] = hOv[n] /\ hIv'[m] = hIv[m]
      BY <1>1, <1>2, <1>3, Frame DEF PutSame
    <3>9. QED
      BY <2>1, <3>1, <3>2, <3>4, <3>5, <3>6, <3>7, <3>8 DEF Validation
  <2>4. CASE x = m
    <3>1. ctrlCh'[m] = ctrlCh[m] /\ n = y
      BY <2>1, <2>4, NodeAssumption
    <3>2. Validation(n)'
      BY <1>1, <1>2, <1>3, <3>1, Frame
    <3>3. /\ Hifs(ctrlCh[n]) \in Seq(StateCode)
          /\ hIf[m] \in StateCode
          /\ Sent(ctrlCh[n], f) \in Seq(CtrlFrame)
          /\ ctrlCh[n] \in Seq(CtrlFrame)
      BY <1>5, Projections, SentType, NodeAssumption DEF TypeInv, TypeOK
    <3>4. /\ Hifs(Sent(ctrlCh[n], f)) = Sent(Hifs(ctrlCh[n]), hIf[m])
          /\ Hifs(Sent(Sent(ctrlCh[n], f), f))
                 = Sent(Sent(Hifs(ctrlCh[n]), hIf[m]), hIf[m])
      BY <1>5, <2>4, <3>3, Projections
    <3> DEFINE front == IF Loading(n) THEN pendingOf[n] ELSE hOf[n]
    <3>5. Ordered(Hifs(ctrlCh[n]), front, hIf[m], Prv(n), hOv[n])
      BY <1>1 DEF Direction, Feedback
    <3>6. Ordered(Sent(Hifs(ctrlCh[n]), hIf[m]), front, hIf[m], Prv(n), hOv[n])
      <4> HIDE DEF front
      <4>1. QED
        BY <3>3, <3>5, OrderedSent
    <3>7. Ordered(Sent(Sent(Hifs(ctrlCh[n]), hIf[m]), hIf[m]), front, hIf[m],
                  Prv(n), hOv[n])
      <4> HIDE DEF front
      <4>1. QED
        BY <3>3, <3>6, OrderedSent, SentType
    <3>8. /\ Prv(n)' = Prv(n) /\ hOv'[n] = hOv[n] /\ hIf'[m] = hIf[m]
          /\ front' = front /\ (Loading(n)' <=> Loading(n))
      BY <1>1, <1>2, <1>3, Frame DEF PutSame, Loading
    <3>9. QED
      BY <1>1, <1>3, <2>1, <3>1, <3>2, <3>4, <3>5, <3>6, <3>7, <3>8
         DEF Feedback, Direction
  <2>5. QED
    BY <2>1, <2>2, <2>3, <2>4, NodeAssumption
<1>8. QED
  BY <1>4, <1>6, <1>7 DEF Direction

\* Only a client's slot runs until TxOkReturns.
LEMMA TxOkReturnsStep ==
    ASSUME TypeInv, IInv, NEW x \in Node, TxOkReturns(x), NEW n \in Node
    PROVE  Direction(n)'
<1>1. Direction(n) /\ PutSame(n)
  BY DEF IInv, TxOkReturns, PutSame, clientVars
<1>2. UNCHANGED <<inboundVars, dataUpd, hOf, pendingOf, dataCh, ctrlCh, clientVars>>
  BY DEF TxOkReturns
<1>3. Validation(n)' /\ Payload(n)' /\ Receiver(n)' /\ Progress(n)' /\ History(n)'
  BY <1>1, <1>2, Frame DEF inboundVars, clientVars
<1>4. Loading(n)' <=> Loading(n)
  BY DEF TxOkReturns, Loading, TypeInv, TypeOK
<1>5. Prv(n)' = Prv(n)
  BY <1>1, Frame
<1>6. Feedback(n)'
  BY <1>1, <1>2, <1>4, <1>5
     DEF Feedback, Direction, PutSame, inboundVars, clientVars
<1>7. QED
  BY <1>3, <1>6 DEF Direction

\* The feedback reaches the outbound half: tx_ok is fired for the last message,
\* and its retransmission stops, only when the peer has taken it.
LEMMA SetStateFeedbackStep ==
    ASSUME TypeInv, IInv, NEW x \in Node, SetStateFeedback(x), NEW n \in Node
    PROVE  Direction(n)'
<1> DEFINE m == Peer[n]
<1>1. Direction(n) /\ PutSame(n)
  BY DEF IInv, SetStateFeedback, PutSame
<1>2. UNCHANGED <<inboundVars, dataCh, ctrlCh, put, got>>
  BY DEF SetStateFeedback
<1>3. Validation(n)' /\ Payload(n)' /\ Receiver(n)' /\ History(n)'
  BY <1>1, <1>2, Frame DEF inboundVars
<1>4. Prv(n)' = Prv(n) /\ hOv'[n] = hOv[n]
  BY <1>1, Frame DEF PutSame
<1>5. CASE x # n
  <2>1. UNCHANGED <<stage[n], pendingOf[n], hOf[n], busy[n], dataUpd[n]>>
    BY <1>5 DEF SetStateFeedback, TypeInv, TypeOK
  <2>2. Feedback(n)' /\ Progress(n)'
    BY <1>1, <1>2, <2>1, Frame DEF inboundVars
  <2>3. QED
    BY <1>3, <2>2 DEF Direction
<1>6. CASE x = n
  <2>1. /\ Loading(n) /\ ~Loading(n)'
        /\ hOf'[n] = pendingOf[n]
    BY <1>6 DEF SetStateFeedback, Loading, TypeInv, TypeOK
  <2>2. /\ busy'[n] = IF hOv[n] = pendingOf[n] THEN FALSE ELSE busy[n]
        /\ hOv[n] # pendingOf[n] => dataUpd'[n] = dataUpd[n]
    <3>1. n \in DOMAIN busy /\ n \in DOMAIN dataUpd
      BY DEF TypeInv, TypeOK
    <3>2. QED
      BY <1>6, <3>1 DEF SetStateFeedback
  <2>3. Ordered(Hifs(ctrlCh[n]), pendingOf[n], hIf[m], Prv(n), hOv[n])
    BY <1>1, <2>1 DEF Direction, Feedback
  <2>4. Feedback(n)'
    BY <1>1, <1>2, <1>4, <2>1, <2>2, <2>3 DEF Feedback, Direction, inboundVars
  <2>5. pendingOf[n] = hOv[n] => Taken(n)
    BY <2>3 DEF Ordered, Taken
  <2>6. Progress(n)'
    <3>1. CASE Taken(n)
      BY <1>1, <1>2, <1>4, <3>1 DEF Progress, Direction, Taken, PutSame, inboundVars
    <3>2. CASE ~Taken(n)
      BY <1>1, <1>2, <1>4, <2>2, <2>5, <3>2
         DEF Progress, Direction, Taken, PutSame, LastMissing, inboundVars
    <3>3. QED
      BY <3>1, <3>2
  <2>7. QED
    BY <1>3, <2>4, <2>6 DEF Direction
<1>7. QED
  BY <1>5, <1>6

\* A lost frame leaves the order of the others.
LEMMA LoseDataStep ==
    ASSUME TypeInv, IInv, NEW x \in Node, LoseData(x), NEW n \in Node
    PROVE  Direction(n)'
<1> DEFINE m == Peer[n]
<1>1. Direction(n) /\ PutSame(n)
  BY DEF IInv, LoseData, PutSame, outboundVars, clientVars
<1>2. UNCHANGED <<inboundVars, outboundVars, stage, pendingOf, ctrlCh, clientVars>>
  BY DEF LoseData
<1>3. Validation(n)' /\ Feedback(n)' /\ Receiver(n)' /\ Progress(n)' /\ History(n)'
  BY <1>1, <1>2, Frame DEF inboundVars, outboundVars, clientVars
<1>4. PrvData(n)' = PrvData(n)
  BY <1>1, Frame
<1>5. Ordered(dataCh'[m], rxData[m], txData[n], PrvData(n), txData[n])
  <2>1. Ordered(dataCh[m], rxData[m], txData[n], PrvData(n), txData[n])
    BY <1>1 DEF Direction, Payload
  <2>2. dataCh[m] \in Seq(Data) /\ m \in Node
    BY NodeAssumption DEF TypeInv, TypeOK
  <2>3. \/ dataCh'[m] = dataCh[m]
        \/ dataCh[m] # <<>> /\ dataCh'[m] = Tail(dataCh[m])
    BY DEF LoseData, TypeInv, TypeOK
  <2>4. QED
    BY <2>1, <2>2, <2>3, OrderedTail
<1>6. Payload(n)'
  BY <1>2, <1>4, <1>5 DEF Payload, inboundVars, outboundVars
<1>7. QED
  BY <1>3, <1>6 DEF Direction

LEMMA LoseCtrlStep ==
    ASSUME TypeInv, IInv, NEW x \in Node, LoseCtrl(x), NEW n \in Node
    PROVE  Direction(n)'
<1> DEFINE m == Peer[n]
           front == IF Loading(n) THEN pendingOf[n] ELSE hOf[n]
<1>1. Direction(n) /\ PutSame(n)
  BY DEF IInv, LoseCtrl, PutSame, outboundVars, clientVars
<1>2. UNCHANGED <<inboundVars, outboundVars, stage, pendingOf, dataCh, clientVars>>
  BY DEF LoseCtrl
<1>3. Payload(n)' /\ Receiver(n)' /\ Progress(n)' /\ History(n)'
  BY <1>1, <1>2, Frame DEF inboundVars, outboundVars, clientVars
<1>4. Prv(n)' = Prv(n)
  BY <1>1, Frame
<1>5. ASSUME NEW z \in Node
      PROVE  /\ ctrlCh[z] \in Seq(CtrlFrame)
             /\ Hovs(ctrlCh[z]) \in Seq(StateCode) /\ Hifs(ctrlCh[z]) \in Seq(StateCode)
             /\ \/ ctrlCh'[z] = ctrlCh[z]
                \/ /\ Hovs(ctrlCh[z]) # <<>> /\ Hifs(ctrlCh[z]) # <<>>
                   /\ Hovs(ctrlCh'[z]) = Tail(Hovs(ctrlCh[z]))
                   /\ Hifs(ctrlCh'[z]) = Tail(Hifs(ctrlCh[z]))
  <2>1. /\ ctrlCh[z] \in Seq(CtrlFrame)
        /\ \/ ctrlCh'[z] = ctrlCh[z]
           \/ ctrlCh[z] # <<>> /\ ctrlCh'[z] = Tail(ctrlCh[z])
    BY DEF LoseCtrl, TypeInv, TypeOK
  <2>2. QED
    BY <2>1, Projections
<1>6. Ordered(Hovs(ctrlCh'[m]), hIv[m], hOv[n], Prv(n), hOv[n])
  <2>1. Ordered(Hovs(ctrlCh[m]), hIv[m], hOv[n], Prv(n), hOv[n])
    BY <1>1 DEF Direction, Validation
  <2>2. m \in Node
    BY NodeAssumption
  <2>3. QED
    BY <1>5, <2>1, <2>2, OrderedTail
<1>7. Ordered(Hifs(ctrlCh'[n]), front, hIf[m], Prv(n), hOv[n])
  <2>1. Ordered(Hifs(ctrlCh[n]), front, hIf[m], Prv(n), hOv[n])
    BY <1>1 DEF Direction, Feedback
  <2> HIDE DEF front
  <2>2. QED
    BY <1>5, <2>1, OrderedTail
<1>8. Validation(n)'
  BY <1>2, <1>4, <1>6 DEF Validation, inboundVars, outboundVars
<1>9. Feedback(n)'
  BY <1>1, <1>2, <1>4, <1>7
     DEF Feedback, Direction, Loading, inboundVars, outboundVars, clientVars
<1>10. QED
  BY <1>3, <1>8, <1>9 DEF Direction

\* What NoCollision says of the last message.
LEMMA LastCode ==
    ASSUME TypeOK, NEW n \in Node, History(n), NoCollision, put[n] # <<>>
    PROVE  /\ hOv[n] # Prv(n)
           /\ \A p \in {Prv(n), Prv2(n)}, d \in {PrvData(n), txData[n]} :
                 d \in Data /\ Mixed(p, d) = hOv[n] => d = txData[n]
<1> DEFINE k == Len(put[n])
<1>1. k \in Nat \ {0} /\ k \in 1 .. Len(put[n]) /\ DOMAIN put[n] = 1 .. k
  BY DEF TypeOK
<1>2. chain[n][k + 1] = hOv[n] /\ chain[n][k] = Prv(n) /\ put[n][k] = txData[n]
  BY <1>1 DEF History, Prv
<1>3. /\ hOv[n] # Prv(n)
      /\ \A i \in {k - 1, k} \cap DOMAIN put[n], j \in {k - 1, k} \cap DOMAIN put[n] :
            Mixed(chain[n][i], put[n][j]) = hOv[n] => put[n][j] = txData[n]
  <2>1. /\ chain[n][k + 1] # chain[n][k]
        /\ \A i \in {k - 1, k} \cap DOMAIN put[n],
              j \in {k - 1, k} \cap DOMAIN put[n] :
              Mixed(chain[n][i], put[n][j]) = chain[n][k + 1]
                  => put[n][j] = put[n][k]
    BY <1>1 DEF NoCollision
  <2>2. QED
    BY <1>2, <2>1
<1>4. CASE k = 1
  BY <1>1, <1>3, <1>4, DataAssumption DEF PrvData
<1>5. CASE k # 1
  <2>1. k - 1 \in 1 .. k /\ k \in 1 .. k /\ ~(k < 2)
    <3>1. k \in Nat /\ k # 0 /\ k # 1
      BY <1>1, <1>5
    <3> HIDE DEF k
    <3>2. QED
      BY <3>1
  <2>2. chain[n][k - 1] = Prv2(n) /\ put[n][k - 1] = PrvData(n)
    BY <2>1 DEF Prv2, PrvData
  <2>3. ASSUME NEW p \in {Prv(n), Prv2(n)}, NEW d \in {PrvData(n), txData[n]},
               Mixed(p, d) = hOv[n]
        PROVE  d = txData[n]
    <3>1. PICK i \in {k - 1, k} : p = chain[n][i]
      BY <1>2, <2>2
    <3>2. PICK j \in {k - 1, k} : d = put[n][j]
      BY <1>2, <2>2
    <3>3. i \in DOMAIN put[n] /\ j \in DOMAIN put[n]
      BY <1>1, <2>1
    <3>4. QED
      BY <1>3, <2>3, <3>1, <3>2, <3>3
  <2>4. QED
    BY <1>3, <2>3
<1>6. QED
  BY <1>4, <1>5

\* A new message starts a new round: what was the last one is now the one before,
\* and with tx_ok awaited the peer has taken it.
LEMMA PutTxDataStep ==
    ASSUME AwaitOk, TypeInv, TypeInv', IInv, NoCollision',
           NEW x \in Node, NEW d \in Data, PutTxData(x, d), NEW n \in Node
    PROVE  Direction(n)'
<1> DEFINE m == Peer[n]
           code == Mixed(hOv[x], d)
           f == Control(code, hIf[x])
           k == Len(put[n])
<1>1. Direction(n)
  BY DEF IInv
<1>2. UNCHANGED <<inboundVars, hOf, stage, pendingOf, got>>
  BY DEF PutTxData
<1>3. /\ f \in CtrlFrame /\ f.hov = code /\ f.hif = hIf[x]
      /\ code \in StateCode
  BY ControlType, MixAssumption DEF TypeInv, TypeOK, Control
<1>4. /\ \A z \in Node : z # Peer[x] => ctrlCh'[z] = ctrlCh[z] /\ dataCh'[z] = dataCh[z]
      /\ ctrlCh'[Peer[x]] = Sent(ctrlCh[Peer[x]], f)
      /\ dataCh'[Peer[x]] = Sent(dataCh[Peer[x]], d)
  BY NodeAssumption DEF PutTxData, TypeInv, TypeOK
<1>5. CASE x # n
  <2>1. PutSame(n)
    BY <1>5 DEF PutTxData, PutSame, TypeInv, TypeOK
  <2>2. UNCHANGED <<busy[n], dataUpd[n]>>
    <3>1. /\ busy' = [busy EXCEPT ![x] = TRUE]
          /\ dataUpd' = [dataUpd EXCEPT ![x] = U!Update]
      BY DEF PutTxData
    <3>2. DOMAIN busy = Node /\ DOMAIN dataUpd = Node
      BY DEF TypeInv, TypeOK
    <3>3. QED
      BY <1>5, <3>1, <3>2
  <2>3. ctrlCh'[m] = ctrlCh[m] /\ dataCh'[m] = dataCh[m]
    BY <1>4, <1>5, NodeAssumption
  <2>4. /\ Validation(n)' /\ Payload(n)' /\ Receiver(n)' /\ Progress(n)'
        /\ History(n)'
    BY <1>1, <1>2, <2>1, <2>2, <2>3, Frame DEF inboundVars
  <2>5. Feedback(n)'
    <3>1. CASE x = m
      <4>1. ctrlCh'[n] = Sent(ctrlCh[n], f) /\ f.hif = hIf[m]
        BY <1>3, <1>4, <3>1, NodeAssumption
      <4>2. QED
        BY <1>1, <1>2, <1>3, <2>1, <2>2, <4>1, Announced DEF inboundVars
    <3>2. CASE x # m
      <4>1. ctrlCh'[n] = ctrlCh[n]
        BY <1>4, <3>2, NodeAssumption
      <4>2. QED
        BY <1>1, <1>2, <2>1, <2>2, <4>1, Frame DEF inboundVars
    <3>3. QED
      BY <3>1, <3>2
  <2>6. QED
    BY <2>4, <2>5 DEF Direction
<1>6. CASE x = n
  <2>1. ~busy[n]
    BY <1>6 DEF PutTxData
  <2>2. /\ Taken(n) /\ hIv[m] = hOv[n] /\ rxData[m] = txData[n] /\ got[m] = put[n]
        /\ hOf[n] = hOv[n]
        /\ Loading(n) => pendingOf[n] = hOv[n]
    BY <1>1, <2>1 DEF Direction, Progress, Feedback
  <2>3. /\ put'[n] = Append(put[n], d)
        /\ chain'[n] = Append(chain[n], code)
        /\ hOv'[n] = code
        /\ txData'[n] = d
        /\ busy'[n] = TRUE
        /\ dataUpd'[n] = U!Update
    BY <1>6 DEF PutTxData, TypeInv, TypeOK
  <2>4. /\ k \in Nat
        /\ Len(put'[n]) = k + 1
        /\ put'[n] # <<>>
        /\ put'[n][k + 1] = d
        /\ \A i \in 1 .. k : put'[n][i] = put[n][i]
    <3>1. put[n] \in Seq(Data)
      BY DEF TypeInv, TypeOK
    <3>2. QED
      BY <2>3, <3>1
  <2>5. /\ Len(chain[n]) = k + 1
        /\ Len(chain'[n]) = k + 2
        /\ chain'[n][k + 2] = code
        /\ \A i \in 1 .. k + 1 : chain'[n][i] = chain[n][i]
    <3>1. chain[n] \in Seq(StateCode) /\ Len(chain[n]) = k + 1
      BY <1>1 DEF Direction, History, TypeInv, TypeOK
    <3> HIDE DEF k, code
    <3>2. QED
      BY <1>3, <2>3, <2>4, <3>1
  <2>6. History(n)'
    BY <2>3, <2>4, <2>5 DEF History
  <2>7. Prv(n)' = hOv[n]
    BY <1>1, <2>4, <2>5 DEF Prv, Direction, History
  <2>8. Prv2(n)' = Prv(n)
    <3>1. CASE k = 0
      BY <2>4, <3>1 DEF Prv, Prv2, TypeInv, TypeOK
    <3>2. CASE k # 0
      <4>1. k \in 1 .. k + 1 /\ ~(k + 1 < 2) /\ put[n] # <<>>
        BY <2>4, <3>2
      <4>2. QED
        BY <2>4, <2>5, <4>1 DEF Prv, Prv2
    <3>3. QED
      BY <3>1, <3>2
  <2>9. PrvData(n)' = txData[n]
    <3>1. CASE k = 0
      BY <1>1, <2>4, <3>1 DEF PrvData, Direction, History, TypeInv, TypeOK
    <3>2. CASE k # 0
      <4>1. k \in 1 .. k /\ ~(k + 1 < 2) /\ put[n] # <<>>
        BY <2>4, <3>2
      <4>2. QED
        BY <1>1, <2>4, <4>1 DEF PrvData, Direction, History
    <3>3. QED
      BY <3>1, <3>2
  <2>10. hOv'[n] # hOv[n]
    <3>1. k + 1 \in 1 .. Len(put'[n]) /\ (k + 1) + 1 = k + 2 /\ k + 1 \in 1 .. k + 1
      BY <2>4
    <3>2. chain'[n][(k + 1) + 1] # chain'[n][k + 1]
      BY <3>1 DEF NoCollision
    <3>3. chain'[n][k + 1] = hOv[n]
      BY <1>1, <2>5, <3>1 DEF Direction, History
    <3>4. QED
      BY <2>3, <2>5, <3>1, <3>2, <3>3
  <2>11. m \in Node /\ m # n /\ Peer[m] = n
    BY NodeAssumption
  <2>12. Validation(n)'
    <3>1. Ordered(Hovs(ctrlCh[m]), hIv[m], code, hOv[n], code)
      BY <1>1, <2>2, OrderedAdvance, OrderedBack DEF Direction, Validation
    <3>2. /\ Hovs(ctrlCh[m]) \in Seq(StateCode)
          /\ Hovs(ctrlCh'[m]) = Sent(Hovs(ctrlCh[m]), code)
      <4>1. ctrlCh[m] \in Seq(CtrlFrame) /\ ctrlCh'[m] = Sent(ctrlCh[m], f)
        BY <1>4, <1>6, <2>11 DEF TypeInv, TypeOK
      <4> HIDE DEF f, code
      <4>2. QED
        BY <1>3, <4>1, Projections
    <3>3. Ordered(Hovs(ctrlCh'[m]), hIv[m], code, hOv[n], code)
      <4> HIDE DEF code
      <4>1. QED
        BY <1>3, <3>1, <3>2, OrderedSent
    <3>4. QED
      BY <1>2, <2>3, <2>7, <3>3 DEF Validation, inboundVars
  <2>13. Payload(n)'
    <3>1. Ordered(dataCh[m], rxData[m], d, txData[n], d)
      BY <1>1, <2>2, OrderedAdvance, OrderedBack DEF Direction, Payload
    <3>2. /\ dataCh[m] \in Seq(Data)
          /\ dataCh'[m] = Sent(dataCh[m], d)
      BY <1>4, <1>6, <2>11 DEF TypeInv, TypeOK
    <3>3. Ordered(dataCh'[m], rxData[m], d, txData[n], d)
      BY <3>1, <3>2, OrderedSent
    <3>4. QED
      BY <1>2, <2>3, <2>9, <3>3 DEF Payload, inboundVars
  <2>14. Feedback(n)'
    <3> DEFINE front == IF Loading(n) THEN pendingOf[n] ELSE hOf[n]
    <3>1. Ordered(Hifs(ctrlCh[n]), front, hIf[m], Prv(n), hOv[n]) /\ front = hOv[n]
      BY <1>1, <2>2 DEF Direction, Feedback
    <3>2. Ordered(Hifs(ctrlCh[n]), front, hIf[m], hOv[n], code)
      <4> HIDE DEF front, code
      <4>1. QED
        BY <3>1, OrderedAdvance
    <3>3. front' = front /\ ctrlCh'[n] = ctrlCh[n] /\ (Loading(n)' <=> Loading(n))
      BY <1>2, <1>4, <1>6, <2>11 DEF Loading
    <3>4. QED
      BY <1>2, <2>2, <2>3, <2>7, <2>10, <3>2, <3>3 DEF Feedback, inboundVars
  <2>15. Receiver(n)'
    BY <1>1, <1>2, <2>2, <2>3, <2>7, <2>8, <2>10
       DEF Receiver, Direction, Taken, inboundVars
  <2>16. Progress(n)'
    BY <1>2, <2>2, <2>3, <2>4, <2>10
       DEF Progress, Taken, LastMissing, inboundVars, U!Update
  <2>17. QED
    BY <2>6, <2>12, <2>13, <2>14, <2>15, <2>16 DEF Direction
<1>7. QED
  BY <1>5, <1>6

\* The feedback of the peer turns to the new code and is announced.
LEMMA FeedbackTurns ==
    ASSUME TypeInv, NEW n \in Node, PutSame(n), Direction(n),
           NEW f \in CtrlFrame, f.hif = hOv[n],
           hIf'[Peer[n]] = hOv[n],
           ctrlCh'[n] = Sent(ctrlCh[n], f),
           UNCHANGED <<stage[n], pendingOf[n], hOf[n], busy[n]>>
    PROVE  Feedback(n)'
<1> DEFINE front == IF Loading(n) THEN pendingOf[n] ELSE hOf[n]
<1>1. /\ Prv(n)' = Prv(n) /\ hOv'[n] = hOv[n]
      /\ front' = front /\ (Loading(n)' <=> Loading(n))
  BY Frame DEF PutSame, Loading
<1>2. /\ Hifs(ctrlCh[n]) \in Seq(StateCode)
      /\ Hifs(ctrlCh'[n]) = Sent(Hifs(ctrlCh[n]), hOv[n])
      /\ hOv[n] \in StateCode
  BY Projections DEF TypeInv, TypeOK
<1>3. Ordered(Hifs(ctrlCh[n]), front, hIf[Peer[n]], Prv(n), hOv[n])
  BY DEF Direction, Feedback
<1>4. Ordered(Hifs(ctrlCh'[n]), front, hOv[n], Prv(n), hOv[n])
  <2> HIDE DEF front
  <2>1. QED
    BY <1>2, <1>3, OrderedBack, OrderedSent
<1>5. QED
  BY <1>1, <1>4 DEF Feedback, Direction

\* What FeedRxData changes: the data frame is stored and its code computed; rx_data
\* may be fired.
LEMMA Fed ==
    ASSUME TypeInv, NEW x \in Node, FeedRxData(x)
    PROVE  LET d == Head(dataCh[x])
               calc == Mixed(prevState[x], d)
               f == Control(hOv[x], hIf'[x])
           IN  /\ dataCh[x] # <<>> /\ d \in Data
               /\ f \in CtrlFrame /\ f.hov = hOv[x] /\ f.hif = hIf'[x]
               /\ UNCHANGED <<prevState, hIv, outboundVars, stage, pendingOf, busy,
                              put, chain>>
               /\ rxData'[x] = d /\ calcState'[x] = calc
               /\ dataCh'[x] = Tail(dataCh[x])
               /\ \A z \in Node \ {x} : UNCHANGED <<rxData[z], calcState[z], dataCh[z]>>
               /\ \A z \in Node \ {x} : UNCHANGED <<hIf[z], got[z], hasNew[z]>>
               /\ \A z \in Node \ {Peer[x]} : ctrlCh'[z] = ctrlCh[z]
               /\ ctrlCh'[Peer[x]] \in {ctrlCh[Peer[x]], Sent(ctrlCh[Peer[x]], f)}
               /\ \/ /\ UNCHANGED <<hIf[x], got[x]>>
                     /\ hasNew'[x] = TRUE
                     /\ ctrlCh'[Peer[x]] = ctrlCh[Peer[x]]
                  \/ /\ hIf[x] # calc /\ hIv[x] = calc
                     /\ hIf'[x] = calc
                     /\ got'[x] = Append(got[x], d)
                     /\ hasNew'[x] = FALSE
                     /\ ctrlCh'[Peer[x]] = Sent(ctrlCh[Peer[x]], f)
<1> DEFINE d == Head(dataCh[x])
           calc == Mixed(prevState[x], d)
           f == Control(hOv[x], hIf'[x])
<1>1. UNCHANGED <<prevState, hIv, outboundVars, stage, pendingOf, busy, put, chain>>
  BY DEF FeedRxData
<1>2. /\ dataCh[x] # <<>> /\ d \in Data
      /\ calc \in StateCode
      /\ hIv[x] \in StateCode
      /\ ctrlCh \in [Node -> Seq(CtrlFrame)]
  <2>1. dataCh[x] # <<>> /\ d \in Data
    BY DEF FeedRxData, TypeInv, TypeOK
  <2>2. calc \in StateCode
    BY <2>1, MixAssumption DEF TypeInv, TypeOK
  <2>3. QED
    BY <2>1, <2>2, NodeAssumption DEF TypeInv, TypeOK
<1>3. /\ Inbound_CheckIntegrity(x, FALSE, TRUE, calc, hIv[x], d, ctrlCh)
      /\ rxData'[x] = d
      /\ calcState'[x] = calc
      /\ dataCh'[x] = Tail(dataCh[x])
      /\ \A z \in Node \ {x} : UNCHANGED <<rxData[z], calcState[z], dataCh[z]>>
  BY DEF FeedRxData, TypeInv, TypeOK
<1> HIDE DEF d, calc
<1>4. /\ \A z \in Node \ {x} : UNCHANGED <<hIf[z], got[z], hasNew[z]>>
      /\ \A z \in Node \ {Peer[x]} : ctrlCh'[z] = ctrlCh[z]
      /\ ctrlCh'[Peer[x]] \in {ctrlCh[Peer[x]], Sent(ctrlCh[Peer[x]], f)}
      /\ \/ /\ UNCHANGED <<hIf[x], got[x]>>
            /\ hasNew'[x] = TRUE
            /\ ctrlCh'[Peer[x]] = ctrlCh[Peer[x]]
         \/ /\ hIf[x] # calc /\ hIv[x] = calc
            /\ hIf'[x] = calc
            /\ got'[x] = Append(got[x], d)
            /\ hasNew'[x] = FALSE
            /\ ctrlCh'[Peer[x]] = Sent(ctrlCh[Peer[x]], f)
  <2>1. CASE hIf[x] # calc /\ hIv[x] = calc
    <3>1. /\ hIf' = [hIf EXCEPT ![x] = calc]
          /\ ctrlCh' = [ctrlCh EXCEPT ![Peer[x]] = Sent(@, Control(hOv[x], calc))]
          /\ got' = [got EXCEPT ![x] = Append(@, d)]
          /\ hasNew' = [hasNew EXCEPT ![x] = FALSE]
      BY <1>3, <2>1 DEF Inbound_CheckIntegrity, Accepts
    <3>2. QED
      BY <2>1, <3>1, NodeAssumption DEF TypeInv, TypeOK
  <2>2. CASE ~(hIf[x] # calc /\ hIv[x] = calc)
    <3>1. /\ hasNew' = [hasNew EXCEPT ![x] = TRUE]
          /\ ctrlCh' = ctrlCh
          /\ UNCHANGED <<hIf, got>>
      BY <1>3, <2>2 DEF Inbound_CheckIntegrity, Accepts
    <3>2. QED
      BY <3>1, NodeAssumption DEF TypeInv, TypeOK
  <2>3. QED
    BY <2>1, <2>2
<1>5. f \in CtrlFrame /\ f.hov = hOv[x] /\ f.hif = hIf'[x]
  <2>1. hIf'[x] \in StateCode
    BY <1>2, <1>4 DEF TypeInv, TypeOK
  <2>2. QED
    BY <2>1, ControlType DEF TypeInv, TypeOK, Control
<1>6. QED
  BY <1>1, <1>2, <1>3, <1>4, <1>5 DEF d, calc

\* A data frame is fired by rx_data only when it is the message its sender put
\* last and the peer has not taken yet.
LEMMA FeedRxDataStep ==
    ASSUME TypeInv, IInv, NoCollision, NEW x \in Node, FeedRxData(x), NEW n \in Node
    PROVE  Direction(n)'
<1> DEFINE m == Peer[n]
           d == Head(dataCh[x])
           calc == Mixed(prevState[x], d)
           f == Control(hOv[x], hIf'[x])
<1>1. Direction(n) /\ PutSame(n)
  BY DEF IInv, FeedRxData, PutSame, outboundVars
<1>2. UNCHANGED <<prevState, hIv, outboundVars, stage, pendingOf, busy, put, chain>>
  BY Fed
<1>3. dataCh[x] # <<>> /\ d \in Data /\ m \in Node /\ m # n /\ Peer[m] = n
  BY Fed, NodeAssumption
<1>4. /\ rxData'[x] = d
      /\ calcState'[x] = calc
      /\ dataCh'[x] = Tail(dataCh[x])
      /\ \A z \in Node \ {x} : UNCHANGED <<rxData[z], calcState[z], dataCh[z]>>
  BY Fed
<1>5. /\ \A z \in Node \ {x} : UNCHANGED <<hIf[z], got[z], hasNew[z]>>
      /\ \A z \in Node \ {Peer[x]} : ctrlCh'[z] = ctrlCh[z]
      /\ ctrlCh'[Peer[x]] \in {ctrlCh[Peer[x]], Sent(ctrlCh[Peer[x]], f)}
      /\ \/ /\ UNCHANGED <<hIf[x], got[x]>>
            /\ hasNew'[x] = TRUE
            /\ ctrlCh'[Peer[x]] = ctrlCh[Peer[x]]
         \/ /\ hIf[x] # calc /\ hIv[x] = calc
            /\ hIf'[x] = calc
            /\ got'[x] = Append(got[x], d)
            /\ hasNew'[x] = FALSE
            /\ ctrlCh'[Peer[x]] = Sent(ctrlCh[Peer[x]], f)
  BY Fed
<1>6. f \in CtrlFrame /\ f.hov = hOv[x] /\ f.hif = hIf'[x]
  BY Fed
<1> HIDE DEF d, calc
<1> HIDE DEF f
<1>7. CASE x # m
  <2>1. UNCHANGED <<rxData[m], calcState[m], dataCh[m], hIf[m], got[m], hasNew[m]>>
    BY <1>3, <1>4, <1>5, <1>7
  <2>2. ctrlCh'[n] = ctrlCh[n]
    BY <1>3, <1>5, <1>7, NodeAssumption
  <2>3. /\ Payload(n)' /\ Feedback(n)' /\ Receiver(n)' /\ Progress(n)'
        /\ History(n)'
    BY <1>1, <1>2, <2>1, <2>2, Frame DEF outboundVars
  <2>4. Validation(n)'
    <3>1. CASE x = n
      BY <1>1, <1>2, <1>5, <1>6, <3>1, Announced, Frame
    <3>2. CASE x # n
      <4>1. ctrlCh'[m] = ctrlCh[m]
        BY <1>3, <1>5, <3>2, NodeAssumption
      <4>2. QED
        BY <1>1, <1>2, <4>1, Frame
    <3>3. QED
      BY <3>1, <3>2
  <2>5. QED
    BY <2>3, <2>4 DEF Direction
<1>8. CASE x = m
  <2>1. /\ Ordered(dataCh[m], rxData[m], txData[n], PrvData(n), txData[n])
        /\ Ordered(Tail(dataCh[m]), d, txData[n], PrvData(n), txData[n])
        /\ d \in {PrvData(n), txData[n]}
        /\ rxData[m] = txData[n] => d = txData[n]
    BY <1>1, <1>3, <1>8, OrderedHead DEF Direction, Payload, d, TypeInv, TypeOK
  <2>2. /\ History(n)' /\ Validation(n)'
        /\ Prv(n)' = Prv(n) /\ Prv2(n)' = Prv2(n) /\ PrvData(n)' = PrvData(n)
    BY <1>1, <1>2, <1>3, <1>5, <1>8, Frame
  <2>3. Payload(n)'
    BY <1>1, <1>4, <1>8, <2>1, <2>2 DEF Payload, PutSame
  <2>4. calc = Mixed(IF hIv[m] = hOv[n] THEN Prv(n) ELSE Prv2(n), d)
    BY <1>1, <1>8 DEF Direction, Receiver, calc
  <2>5. hIf[m] \in {Prv(n), hOv[n]} /\ hIv[m] \in {Prv(n), hOv[n]}
    BY <1>1 DEF Direction, Feedback, Validation, Ordered
  <2>6. CASE UNCHANGED <<hIf[m], got[m], ctrlCh[n]>>
    <3>1. Feedback(n)'
      BY <1>1, <1>2, <2>6, Frame DEF outboundVars
    <3>2. Progress(n)'
      BY <1>1, <1>2, <1>4, <1>8, <2>1, <2>6
         DEF Progress, Direction, Taken, LastMissing, outboundVars
    <3>3. Taken(n) => hIv[m] = hOv[n]
      BY <1>1 DEF Direction, Progress
    <3>4. Receiver(n)'
      BY <1>1, <1>2, <1>3, <1>4, <1>8, <2>2, <2>4, <2>6, <3>3
         DEF Receiver, Direction, Taken, outboundVars
    <3>5. QED
      BY <2>2, <2>3, <3>1, <3>2, <3>4 DEF Direction
  <2>7. CASE /\ hIf[m] # calc /\ hIv[m] = calc
             /\ hIf'[m] = calc
             /\ got'[m] = Append(got[m], d)
             /\ hasNew'[m] = FALSE
             /\ ctrlCh'[n] = Sent(ctrlCh[n], f)
    <3>1. ~Taken(n)
      BY <1>1, <2>7 DEF Direction, Progress, Taken
    <3>2. hIv[m] = hOv[n] /\ calc = hOv[n] /\ calc = Mixed(Prv(n), d)
      BY <2>4, <2>5, <2>7, <3>1 DEF Taken
    <3>3. busy[n] /\ put[n] # <<>> /\ LastMissing(n)
      BY <1>1, <3>1 DEF Direction, Progress
    <3>4. d = txData[n]
      <4>1. TypeOK /\ History(n)
        BY <1>1 DEF TypeInv, Direction
      <4>2. QED
        BY <1>3, <2>1, <3>2, <3>3, <4>1, LastCode
    <3>5. Progress(n)'
      BY <1>1, <1>2, <1>4, <1>8, <2>7, <3>2, <3>3, <3>4
         DEF Progress, Taken, LastMissing, outboundVars
    <3>6. Feedback(n)'
      BY <1>1, <1>2, <1>6, <1>8, <2>7, <3>2, FeedbackTurns DEF outboundVars
    <3>7. Receiver(n)'
      BY <1>1, <1>2, <1>8, <2>2, <2>7 DEF Receiver, Direction, outboundVars
    <3>8. QED
      BY <2>2, <2>3, <3>5, <3>6, <3>7 DEF Direction
  <2>8. QED
    BY <1>3, <1>5, <1>8, <2>6, <2>7
<1>9. QED
  BY <1>7, <1>8

\* What the inbound half of LoadRxControlData changes: the code to validate and
\* the pending feedback come from the frame; rx_data may be fired.
LEMMA Loaded ==
    ASSUME TypeInv, NEW x \in Node, LoadRxControlData(x)
    PROVE  LET frame == Head(ctrlCh[x])
           IN  /\ ctrlCh[x] # <<>> /\ frame \in CtrlFrame
               /\ UNCHANGED <<calcState, rxData, outboundVars, dataCh, busy, put, chain>>
               /\ \A z \in Node \ {x} :
                     UNCHANGED <<hIf[z], got[z], hasNew[z], hIv[z], prevState[z],
                                 stage[z], pendingOf[z]>>
               /\ ~Loading(x) /\ Loading(x)' /\ pendingOf'[x] = frame.hif
               /\ hIv'[x] = frame.hov
               /\ prevState'[x] = IF frame.hov = hIv[x] THEN prevState[x] ELSE hIv[x]
               /\ ctrlCh'[x] = Tail(ctrlCh[x])
               /\ \A z \in Node \ {x, Peer[x]} : ctrlCh'[z] = ctrlCh[z]
               /\ \/ /\ UNCHANGED <<hIf[x], got[x], hasNew[x]>>
                     /\ ctrlCh'[Peer[x]] = ctrlCh[Peer[x]]
                  \/ /\ hasNew[x] /\ hIf[x] # calcState[x]
                     /\ frame.hov = calcState[x] /\ frame.hov # hIv[x]
                     /\ hIf'[x] = calcState[x]
                     /\ got'[x] = Append(got[x], rxData[x])
                     /\ hasNew'[x] = FALSE
                     /\ ctrlCh'[Peer[x]] = Sent(ctrlCh[Peer[x]],
                                                Control(hOv[x], hIf'[x]))
<1> DEFINE frame == Head(ctrlCh[x])
           received == [ctrlCh EXCEPT ![x] = Tail(@)]
<1>1. /\ ctrlCh[x] # <<>> /\ frame \in CtrlFrame
      /\ stage[x] = "idle"
      /\ UNCHANGED <<calcState, rxData, outboundVars, dataCh, busy, put, chain>>
      /\ pendingOf' = [pendingOf EXCEPT ![x] = frame.hif]
      /\ stage' = [stage EXCEPT ![x] = IF hIf'[x] # hIf[x] THEN "rx_data"
                                                           ELSE "validated"]
  BY DEF LoadRxControlData, TypeInv, TypeOK
<1>2. /\ received[x] = Tail(ctrlCh[x])
      /\ received \in [Node -> {ctrlCh[z] : z \in Node} \cup {Tail(ctrlCh[x])}]
      /\ \A z \in Node \ {x} : received[z] = ctrlCh[z]
  BY DEF TypeInv, TypeOK
<1>3. Peer[x] \in Node /\ Peer[x] # x
  BY NodeAssumption
<1>4. /\ ~Loading(x) /\ Loading(x)' /\ pendingOf'[x] = frame.hif
      /\ \A z \in Node \ {x} : UNCHANGED <<stage[z], pendingOf[z]>>
  BY <1>1 DEF Loading, TypeInv, TypeOK
<1>5. CASE /\ frame.hov = hIv[x]
           /\ ctrlCh' = received
           /\ UNCHANGED <<prevState, hIv, rxOk, hasNew, hIf, feedbackUpd, got>>
  <2> HIDE DEF frame, received
  <2>1. QED
    BY <1>1, <1>2, <1>3, <1>4, <1>5 DEF frame
<1>6. CASE /\ frame.hov # hIv[x]
           /\ prevState' = [prevState EXCEPT ![x] = hIv[x]]
           /\ hIv' = [hIv EXCEPT ![x] = frame.hov]
           /\ Inbound_CheckIntegrity(x, FALSE, hasNew[x], calcState[x],
                                     frame.hov, rxData[x], received)
  <2> HIDE DEF frame, received
  <2>1. /\ hIv'[x] = frame.hov
        /\ prevState'[x] = hIv[x]
        /\ \A z \in Node \ {x} : UNCHANGED <<hIv[z], prevState[z]>>
    BY <1>6 DEF TypeInv, TypeOK
  <2>2. CASE hasNew[x] /\ hIf[x] # calcState[x] /\ frame.hov = calcState[x]
    <3>1. /\ hIf' = [hIf EXCEPT ![x] = calcState[x]]
          /\ ctrlCh' = [received EXCEPT ![Peer[x]] =
                            Sent(@, Control(hOv[x], calcState[x]))]
          /\ got' = [got EXCEPT ![x] = Append(@, rxData[x])]
          /\ hasNew' = [hasNew EXCEPT ![x] = FALSE]
      BY <1>6, <2>2 DEF Inbound_CheckIntegrity, Accepts
    <3>2. /\ hIf'[x] = calcState[x]
          /\ got'[x] = Append(got[x], rxData[x])
          /\ hasNew'[x] = FALSE
          /\ \A z \in Node \ {x} : UNCHANGED <<hIf[z], got[z], hasNew[z]>>
      BY <3>1 DEF TypeInv, TypeOK
    <3>3. /\ ctrlCh'[Peer[x]] = Sent(ctrlCh[Peer[x]], Control(hOv[x], calcState[x]))
          /\ ctrlCh'[x] = Tail(ctrlCh[x])
          /\ \A z \in Node \ {x, Peer[x]} : ctrlCh'[z] = ctrlCh[z]
      BY <1>2, <1>3, <3>1
    <3>4. QED
      BY <1>1, <1>4, <1>6, <2>1, <2>2, <3>2, <3>3 DEF frame
  <2>3. CASE ~(hasNew[x] /\ hIf[x] # calcState[x] /\ frame.hov = calcState[x])
    <3>1. /\ hasNew' = [hasNew EXCEPT ![x] = hasNew[x]]
          /\ ctrlCh' = received
          /\ UNCHANGED <<hIf, got>>
      BY <1>6, <2>3 DEF Inbound_CheckIntegrity, Accepts
    <3>2. \A z \in Node : hasNew'[z] = hasNew[z]
      BY <3>1 DEF TypeInv, TypeOK
    <3>3. QED
      BY <1>1, <1>2, <1>3, <1>4, <1>6, <2>1, <3>1, <3>2 DEF frame
  <2>4. QED
    BY <2>2, <2>3
<1>7. QED
  BY <1>5, <1>6 DEF LoadRxControlData

\* A control frame moves the peer forward at most, and makes it fire rx_data only
\* for the message it has not taken yet.
LEMMA LoadRxControlDataStep ==
    ASSUME TypeInv, IInv, NoCollision, NEW x \in Node, LoadRxControlData(x),
           NEW n \in Node
    PROVE  Direction(n)'
<1> DEFINE m == Peer[n]
           frame == Head(ctrlCh[x])
           f == Control(hOv[x], hIf'[x])
<1>1. /\ ctrlCh[x] # <<>> /\ frame \in CtrlFrame
      /\ UNCHANGED <<calcState, rxData, outboundVars, dataCh, busy, put, chain>>
      /\ \A z \in Node \ {x} :
            UNCHANGED <<hIf[z], got[z], hasNew[z], hIv[z], prevState[z],
                        stage[z], pendingOf[z]>>
      /\ ~Loading(x) /\ Loading(x)' /\ pendingOf'[x] = frame.hif
      /\ hIv'[x] = frame.hov
      /\ prevState'[x] = IF frame.hov = hIv[x] THEN prevState[x] ELSE hIv[x]
      /\ ctrlCh'[x] = Tail(ctrlCh[x])
      /\ \A z \in Node \ {x, Peer[x]} : ctrlCh'[z] = ctrlCh[z]
  BY Loaded
<1>2. \/ /\ UNCHANGED <<hIf[x], got[x], hasNew[x]>>
         /\ ctrlCh'[Peer[x]] = ctrlCh[Peer[x]]
      \/ /\ hasNew[x] /\ hIf[x] # calcState[x]
         /\ frame.hov = calcState[x] /\ frame.hov # hIv[x]
         /\ hIf'[x] = calcState[x]
         /\ got'[x] = Append(got[x], rxData[x])
         /\ hasNew'[x] = FALSE
         /\ ctrlCh'[Peer[x]] = Sent(ctrlCh[Peer[x]], f)
  BY Loaded
<1>3. Direction(n) /\ PutSame(n)
  BY <1>1 DEF IInv, PutSame, outboundVars
<1>4. /\ f \in CtrlFrame /\ f.hov = hOv[x] /\ f.hif = hIf'[x]
  <2>1. hIf'[x] \in StateCode
    BY <1>2 DEF TypeInv, TypeOK
  <2>2. QED
    BY <2>1, ControlType DEF TypeInv, TypeOK, Control
<1>5. /\ m \in Node /\ m # n /\ Peer[m] = n
      /\ \A z \in Node : z # n /\ z # m => Peer[z] # n /\ Peer[z] # m
  BY NodeAssumption
<1>6. /\ Hovs(ctrlCh[x]) \in Seq(StateCode) /\ Hovs(ctrlCh[x]) # <<>>
      /\ Hifs(ctrlCh[x]) \in Seq(StateCode) /\ Hifs(ctrlCh[x]) # <<>>
      /\ Hovs(ctrlCh'[x]) = Tail(Hovs(ctrlCh[x])) /\ frame.hov = Head(Hovs(ctrlCh[x]))
      /\ Hifs(ctrlCh'[x]) = Tail(Hifs(ctrlCh[x])) /\ frame.hif = Head(Hifs(ctrlCh[x]))
  BY <1>1, Projections DEF TypeInv, TypeOK
<1> HIDE DEF frame, f
<1>7. History(n)' /\ Prv(n)' = Prv(n) /\ Prv2(n)' = Prv2(n) /\ Payload(n)'
  BY <1>1, <1>3, Frame
<1>8. CASE x # n /\ x # m
  <2>1. /\ UNCHANGED <<hIf[m], got[m], hasNew[m], hIv[m], prevState[m]>>
        /\ UNCHANGED <<stage[n], pendingOf[n], ctrlCh[n], ctrlCh[m]>>
    BY <1>1, <1>5, <1>8
  <2>2. QED
    BY <1>1, <1>3, <1>7, <2>1, Frame DEF Direction, outboundVars
<1>9. CASE x = n
  <2>1. UNCHANGED <<hIf[m], got[m], hasNew[m], hIv[m], prevState[m]>>
    BY <1>1, <1>5, <1>9
  <2>2. Receiver(n)' /\ Progress(n)'
    BY <1>1, <1>3, <2>1, Frame DEF outboundVars
  <2>3. Validation(n)'
    <3>1. CASE ctrlCh'[m] = ctrlCh[m]
      BY <1>3, <2>1, <3>1, Frame
    <3>2. CASE ctrlCh'[m] = Sent(ctrlCh[m], f)
      BY <1>3, <1>4, <1>9, <2>1, <3>2, Announced
    <3>3. QED
      BY <1>2, <1>9, <3>1, <3>2
  <2>4. Feedback(n)'
    <3>1. Ordered(Hifs(ctrlCh[n]), hOf[n], hIf[m], Prv(n), hOv[n])
      BY <1>1, <1>3, <1>9 DEF Direction, Feedback
    <3>2. /\ Ordered(Hifs(ctrlCh'[n]), pendingOf'[n], hIf[m], Prv(n), hOv[n])
          /\ hOf[n] = hOv[n] => pendingOf'[n] = hOv[n]
      <4> DEFINE q == Hifs(ctrlCh[n])
      <4>1. /\ q \in Seq(StateCode) /\ q # <<>>
            /\ Hifs(ctrlCh'[n]) = Tail(q)
            /\ pendingOf'[n] = Head(q)
        BY <1>1, <1>6, <1>9
      <4>2. Ordered(q, hOf[n], hIf[m], Prv(n), hOv[n])
        BY <3>1
      <4> HIDE DEF q
      <4>3. QED
        BY <4>1, <4>2, OrderedHead
    <3>3. QED
      BY <1>1, <1>3, <1>7, <1>9, <2>1, <3>2
         DEF Feedback, Direction, outboundVars
  <2>5. QED
    BY <1>7, <2>2, <2>3, <2>4 DEF Direction
<1>10. CASE x = m
  <2>1. UNCHANGED <<stage[n], pendingOf[n], hOf[n], busy[n], hOv[n], txData[n]>>
    BY <1>1, <1>5, <1>10 DEF outboundVars
  <2>2. Ordered(Hovs(ctrlCh[m]), hIv[m], hOv[n], Prv(n), hOv[n])
    BY <1>3 DEF Direction, Validation
  <2>3. /\ Ordered(Hovs(ctrlCh'[m]), frame.hov, hOv[n], Prv(n), hOv[n])
        /\ frame.hov \in {Prv(n), hOv[n]}
        /\ hIv[m] = hOv[n] => frame.hov = hOv[n]
    <3> DEFINE q == Hovs(ctrlCh[m])
    <3>1. /\ q \in Seq(StateCode) /\ q # <<>>
          /\ Hovs(ctrlCh'[m]) = Tail(q)
          /\ frame.hov = Head(q)
      BY <1>6, <1>10
    <3>2. Ordered(q, hIv[m], hOv[n], Prv(n), hOv[n])
      BY <2>2
    <3> HIDE DEF q
    <3>3. QED
      BY <3>1, <3>2, OrderedHead
  <2>4. Validation(n)'
    BY <1>1, <1>7, <1>10, <2>1, <2>3 DEF Validation
  <2>5. hIv[m] \in {Prv(n), hOv[n]}
    BY <2>2 DEF Ordered
  <2>6. /\ frame.hov # hIv[m] => hIv[m] = Prv(n) /\ frame.hov = hOv[n]
        /\ prevState'[m] = IF hIv'[m] = hOv[n] THEN Prv(n) ELSE Prv2(n)
    BY <1>1, <1>3, <1>10, <2>3, <2>5 DEF Direction, Receiver
  <2>7. CASE UNCHANGED <<hIf[m], got[m], hasNew[m], ctrlCh[n]>>
    <3>1. Feedback(n)'
      BY <1>3, <2>1, <2>7, Frame
    <3>2. Taken(n) => hIv[m] = hOv[n]
      BY <1>3 DEF Direction, Progress
    <3>3. hIv'[m] = hIv[m] \/ ~Taken(n)
      BY <1>1, <1>10, <2>6, <3>2
    <3>4. Progress(n)'
      BY <1>1, <1>3, <2>1, <2>7, <3>3
         DEF Progress, Direction, Taken, LastMissing, outboundVars
    <3>5. Receiver(n)'
      <4>1. /\ calcState'[m] = calcState[m] /\ rxData'[m] = rxData[m]
            /\ hasNew'[m] = hasNew[m] /\ hIf'[m] = hIf[m]
        BY <1>1, <2>7
      <4>2. hIv'[m] # hOv[n] => hIv'[m] = hIv[m]
        BY <1>1, <1>10, <2>6
      <4>3. QED
        BY <1>3, <1>7, <2>1, <2>6, <4>1, <4>2 DEF Receiver, Direction, Taken
    <3>6. QED
      BY <1>7, <2>4, <3>1, <3>4, <3>5 DEF Direction
  <2>8. CASE /\ hasNew[m] /\ hIf[m] # calcState[m]
             /\ frame.hov = calcState[m] /\ frame.hov # hIv[m]
             /\ hIf'[m] = calcState[m]
             /\ got'[m] = Append(got[m], rxData[m])
             /\ hasNew'[m] = FALSE
             /\ ctrlCh'[n] = Sent(ctrlCh[n], f)
    <3>1. calcState[m] = hOv[n] /\ ~Taken(n)
      BY <2>6, <2>8 DEF Taken
    <3>2. busy[n] /\ put[n] # <<>> /\ LastMissing(n)
      BY <1>3, <3>1 DEF Direction, Progress
    <3>3. rxData[m] = txData[n]
      <4>1. /\ rxData[m] \in Data
            /\ \E p \in {Prv(n), Prv2(n)} : calcState[m] = Mixed(p, rxData[m])
        BY <1>3, <2>8 DEF Direction, Receiver
      <4>2. rxData[m] \in {PrvData(n), txData[n]}
        BY <1>3 DEF Direction, Payload, Ordered
      <4>3. TypeOK /\ History(n)
        BY <1>3 DEF TypeInv, Direction
      <4>4. QED
        BY <3>1, <3>2, <4>1, <4>2, <4>3, LastCode
    <3>4. Progress(n)'
      BY <1>1, <1>10, <2>1, <2>6, <2>8, <3>1, <3>2, <3>3
         DEF Progress, Taken, LastMissing, outboundVars
    <3>5. Feedback(n)'
      BY <1>3, <1>4, <1>10, <2>1, <2>8, <3>1, FeedbackTurns
    <3>6. Receiver(n)'
      BY <1>7, <2>1, <2>6, <2>8 DEF Receiver
    <3>7. QED
      BY <1>7, <2>4, <3>4, <3>5, <3>6 DEF Direction
  <2>9. QED
    BY <1>2, <1>5, <1>10, <2>7, <2>8
<1>11. QED
  BY <1>8, <1>9, <1>10

LEMMA IInvInit == Init => IInv
<1> SUFFICES ASSUME Init, NEW n \in Node PROVE Direction(n)
  BY DEF IInv
<1> DEFINE m == Peer[n]
<1>1. m \in Node
  BY NodeAssumption
<1>2. put[n] = <<>> /\ Prv(n) = 0 /\ Prv2(n) = 0 /\ PrvData(n) = NoData
  BY DEF Init, Inbound_Init, Outbound_Init, Prv, Prv2, PrvData
<1>3. History(n)
  BY DEF Init, Inbound_Init, Outbound_Init, History
<1>4. Validation(n) /\ Payload(n) /\ Feedback(n)
  <2>1. \A v : Ordered(<<>>, v, v, v, v)
    BY DEF Ordered
  <2>2. \A z \in Node : /\ Hovs(ctrlCh[z]) = <<>>
                        /\ Hifs(ctrlCh[z]) = <<>>
                        /\ dataCh[z] = <<>>
    BY DEF Init, Inbound_Init, Outbound_Init, Hovs, Hifs
  <2>3. /\ hIv[m] = 0 /\ hOv[n] = 0 /\ rxData[m] = NoData /\ txData[n] = NoData
        /\ hOf[n] = 0 /\ hIf[m] = 0 /\ ~Loading(n)
    BY <1>1 DEF Init, Inbound_Init, Outbound_Init, Loading
  <2>4. QED
    BY <1>1, <1>2, <2>1, <2>2, <2>3 DEF Validation, Payload, Feedback
<1>5. Receiver(n) /\ Progress(n)
  BY <1>1, <1>2 DEF Init, Inbound_Init, Outbound_Init, Receiver, Progress, Taken
<1>6. QED
  BY <1>3, <1>4, <1>5 DEF Direction

LEMMA IInvStep ==
    AwaitOk /\ TypeInv /\ IInv /\ NoCollision /\ NoCollision' /\ [Next]_vars => IInv'
<1> SUFFICES ASSUME AwaitOk, TypeInv, IInv, NoCollision, NoCollision', [Next]_vars,
                    NEW n \in Node
             PROVE  Direction(n)'
  BY DEF IInv
<1>1. TypeInv'
  BY TypeStep
<1>2. CASE UNCHANGED vars
  <2>1. Direction(n) /\ PutSame(n)
    BY <1>2 DEF IInv, PutSame, vars, outboundVars, clientVars
  <2>2. QED
    BY <1>2, <2>1, Frame DEF vars, inboundVars, outboundVars, clientVars, Direction
<1>3. CASE Next
  <2>1. ASSUME NEW x \in Node, NEW d \in Data, PutTxData(x, d) PROVE Direction(n)'
    BY <1>1, <2>1, PutTxDataStep
  <2>2. ASSUME NEW x \in Node, FeedRxData(x) PROVE Direction(n)'
    BY <2>2, FeedRxDataStep
  <2>3. ASSUME NEW x \in Node, LoadRxControlData(x) PROVE Direction(n)'
    BY <2>3, LoadRxControlDataStep
  <2>4. ASSUME NEW x \in Node, SetStateFeedback(x) PROVE Direction(n)'
    BY <2>4, SetStateFeedbackStep
  <2>5. ASSUME NEW x \in Node, TxOkReturns(x) PROVE Direction(n)'
    BY <2>5, TxOkReturnsStep
  <2>6. ASSUME NEW x \in Node, Tick(x) PROVE Direction(n)'
    BY <2>6, TickStep
  <2>7. ASSUME NEW x \in Node, LoseData(x) PROVE Direction(n)'
    BY <2>7, LoseDataStep
  <2>8. ASSUME NEW x \in Node, LoseCtrl(x) PROVE Direction(n)'
    BY <2>8, LoseCtrlStep
  <2>9. QED
    BY <1>3, <2>1, <2>2, <2>3, <2>4, <2>5, <2>6, <2>7, <2>8 DEF Next, Handler
<1>4. QED
  BY <1>2, <1>3

-----------------------------------------------------------------------------
LEMMA Inductive == AwaitOk /\ Spec /\ []NoCollision => [](TypeInv /\ IInv)
<1>1. AwaitOk /\ TypeInv /\ IInv /\ NoCollision /\ NoCollision' /\ [Next]_vars
          => (TypeInv /\ IInv)'
  BY TypeStep, IInvStep
<1>2. CASE AwaitOk
  BY TypeInit, IInvInit, <1>1, <1>2, PTL DEF Spec
<1>3. QED
  BY <1>2

\* With tx_ok awaited, both ends and every frame between them are at the last
\* message or at the one before it, and CheckIntegrity never moves them back.
THEOREM IInvCorrect == AwaitOk /\ Spec /\ []NoCollision => []IInv
BY Inductive, PTL

\* A client that waits for tx_ok gets its messages through once each and in order,
\* as long as the checksums keep its payloads apart.
THEOREM DeliveredInOrder == AwaitOk /\ Spec /\ []NoCollision => []InOrder
<1>1. IInv => InOrder
  BY DEF IInv, Direction, Progress, InOrder
<1>2. QED
  BY <1>1, IInvCorrect, PTL

\* And Reset() never silences a message the other end has not taken.
THEOREM KeepsRetransmitting ==
    AwaitOk /\ Spec /\ []NoCollision => []RetransmitsUntilTaken
<1>1. IInv => RetransmitsUntilTaken
  BY DEF IInv, Direction, Progress, Taken, RetransmitsUntilTaken
<1>2. QED
  BY <1>1, IInvCorrect, PTL

-----------------------------------------------------------------------------
\* rx_data fires one message more, at one end.
LEMMA Fired ==
    ASSUME TypeInv, NEW x \in Node, FeedRxData(x) \/ LoadRxControlData(x)
    PROVE  \/ UNCHANGED got
           \/ \E d \in Data : got' = [got EXCEPT ![x] = Append(@, d)]
<1>1. CASE FeedRxData(x)
  <2>1. Head(dataCh[x]) \in Data
    BY <1>1 DEF FeedRxData, TypeInv, TypeOK
  <2>2. QED
    BY <1>1, <2>1 DEF FeedRxData, Inbound_CheckIntegrity, Accepts
<1>2. CASE LoadRxControlData(x)
  <2>1. hasNew[x] => rxData[x] \in Data
    BY DEF TypeInv, HasData
  <2>2. QED
    BY <1>2, <2>1 DEF LoadRxControlData, Inbound_CheckIntegrity, Accepts
<1>3. QED
  BY <1>1, <1>2

\* Each step of the stream is a step of the abstract one, or is invisible.
LEMMA RefinementStep ==
    AwaitOk /\ TypeInv /\ IInv /\ IInv' /\ [Next]_vars => [RS!Next]_RS!vars
<1> SUFFICES ASSUME AwaitOk, TypeInv, IInv, IInv', [Next]_vars
             PROVE  [RS!Next]_RS!vars
  OBVIOUS
<1>1. CASE UNCHANGED <<put, got, busy>>
  BY <1>1 DEF RS!vars
<1>2. ASSUME NEW x \in Node, NEW d \in Data, PutTxData(x, d)
      PROVE  RS!Next
  <2>1. RS!Put(x, d)
    BY <1>2 DEF PutTxData, RS!Put
  <2>2. QED
    BY <2>1 DEF RS!Next
<1>3. ASSUME NEW x \in Node, FeedRxData(x) \/ LoadRxControlData(x)
      PROVE  [RS!Next]_RS!vars
  <2> DEFINE n == Peer[x]
  <2>1. n \in Node /\ Peer[n] = x
    BY NodeAssumption
  <2>2. UNCHANGED <<put, busy, txData>>
    BY <1>3 DEF FeedRxData, LoadRxControlData, outboundVars
  <2>3. CASE UNCHANGED got
    BY <2>2, <2>3 DEF RS!vars
  <2>4. ASSUME NEW d \in Data, got' = [got EXCEPT ![x] = Append(@, d)]
        PROVE  RS!Next
    <3>1. /\ got[x] \in Seq(Data) /\ put[n] \in Seq(Data)
          /\ got'[x] = Append(got[x], d)
      BY <2>1, <2>4 DEF TypeInv, TypeOK
    <3>2. /\ Len(got'[x]) = Len(got[x]) + 1
          /\ Len(got[x]) \in Nat
          /\ Len(Append(got'[x], txData[n])) = Len(got[x]) + 2
          /\ Len(Append(got[x], txData[n])) = Len(got[x]) + 1
      BY <3>1
    <3>3. got'[x] = put[n] \/ put[n] = Append(got'[x], txData[n])
      BY <2>1, <2>2 DEF IInv, Direction, Progress, LastMissing
    <3>4. got[x] = put[n] \/ (busy[n] /\ put[n] = Append(got[x], txData[n]))
      BY <2>1 DEF IInv, Direction, Progress, LastMissing
    <3>5. got'[x] = put[n] /\ busy[n] /\ got[x] # put[n]
      BY <3>2, <3>3, <3>4
    <3>6. got' = [got EXCEPT ![Peer[n]] = put[n]]
      BY <2>1, <2>4, <3>1, <3>5
    <3>7. RS!Deliver(n)
      BY <2>1, <2>2, <3>5, <3>6 DEF RS!Deliver
    <3>8. QED
      BY <2>1, <3>7 DEF RS!Next
  <2>5. QED
    BY <1>3, <2>3, <2>4, Fired
<1>4. ASSUME NEW x \in Node, SetStateFeedback(x)
      PROVE  [RS!Next]_RS!vars
  <2>1. UNCHANGED <<put, got>>
    BY <1>4 DEF SetStateFeedback
  <2>2. CASE hOv[x] = pendingOf[x]
    <3>1. busy' = [busy EXCEPT ![x] = FALSE]
      BY <1>4, <2>2 DEF SetStateFeedback
    <3>2. Taken(x)
      <4>1. Loading(x)
        BY <1>4 DEF SetStateFeedback, Loading
      <4>2. QED
        BY <2>2, <4>1 DEF IInv, Direction, Feedback, Ordered, Taken
    <3>3. got[Peer[x]] = put[x]
      BY <3>2 DEF IInv, Direction, Progress
    <3>4. CASE busy[x]
      <4>1. RS!Confirm(x)
        BY <2>1, <3>1, <3>3, <3>4 DEF RS!Confirm
      <4>2. QED
        BY <4>1 DEF RS!Next
    <3>5. CASE ~busy[x]
      <4>1. busy' = busy
        BY <3>1, <3>5 DEF TypeInv, TypeOK
      <4>2. QED
        BY <2>1, <4>1 DEF RS!vars
    <3>6. QED
      BY <3>4, <3>5
  <2>3. CASE hOv[x] # pendingOf[x]
    BY <1>4, <2>1, <2>3 DEF SetStateFeedback, RS!vars
  <2>4. QED
    BY <2>2, <2>3
<1>5. ASSUME NEW x \in Node,
             TxOkReturns(x) \/ Tick(x) \/ LoseData(x) \/ LoseCtrl(x)
      PROVE  UNCHANGED <<put, got, busy>>
  BY <1>5 DEF TxOkReturns, Tick, LoseData, LoseCtrl, clientVars
<1>6. CASE UNCHANGED vars
  BY <1>1, <1>6 DEF vars, clientVars
<1>7. QED
  BY <1>1, <1>2, <1>3, <1>4, <1>5, <1>6 DEF Next, Handler

\* The control stream implements the reliable stream: no client that waits for
\* tx_ok can tell the bus, its losses and its retransmissions from a channel that
\* delivers every message once and confirms it afterwards.
THEOREM Refinement == AwaitOk /\ Spec /\ []NoCollision => RS!Spec
<1>1. Init => RS!Init
  BY DEF Init, Inbound_Init, Outbound_Init, RS!Init
<1>2. CASE AwaitOk
  BY <1>1, <1>2, Inductive, RefinementStep, PTL DEF Spec, RS!Spec
<1>3. QED
  BY <1>2
===============================================================================
