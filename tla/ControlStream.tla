----------------------------- MODULE ControlStream -----------------------------
(***************************************************************************)
(* The control stream of robobus (network/cstream.hpp) on its CAN binding  *)
(* (network/cstream_can.hpp): two ends exchange data frames and control    *)
(* frames over a lossy bus, and recognise a data frame by the state code   *)
(* that mixes its checksum into the code of everything sent before.        *)
(*                                                                         *)
(* Every handler runs on one thread.  The slots a client connects run      *)
(* inside the handler that fires them and may call PutTxData there, so     *)
(* LoadRxControlData is split where a slot can run: stage[n] says in which *)
(* slot of n's handler the program is.  FeedRxData needs no such split: a  *)
(* PutTxData in its slot touches only the outbound half, which the rest of *)
(* that handler does not read, and is the same step taken after it.        *)
(***************************************************************************)
EXTENDS Naturals, Sequences

CONSTANTS
    Node,            \* the two ends of each stream
    Peer,            \* [Node -> Node], the other end
    Data,            \* payloads of a data frame
    NoData,          \* std::nullopt
    StateCode,       \* values of a ControlStreamState
    RD16(_),         \* the external 16-bit checksum of a payload
    MixCode(_, _),   \* ControlStreamState::MixCode
    TimeoutTicks,    \* MultiUpdatable::kTimeout_s, in calls of Tick()
    QueueCap,        \* frames of one CAN id the bus holds for one end
    MaxPut,          \* bound: messages each end puts, [Node -> Nat]
    AwaitOk          \* the client waits for tx_ok before the next PutTxData

U == INSTANCE MultiUpdatable

Mixed(s, d) == MixCode(s, RD16(d))

ASSUME NodeAssumption ==
    /\ Peer \in [Node -> Node]
    /\ \A n \in Node : Peer[n] # n /\ Peer[Peer[n]] = n
ASSUME DataAssumption == NoData \notin Data
ASSUME MixAssumption ==
    /\ 0 \in StateCode
    /\ \A s \in StateCode, d \in Data : Mixed(s, d) \in StateCode
ASSUME BoundAssumption ==
    /\ TimeoutTicks \in Nat \ {0}
    /\ QueueCap \in Nat \ {0}
    /\ MaxPut \in [Node -> Nat]
    /\ AwaitOk \in BOOLEAN

VARIABLES
    \* ControlStream_Inbound
    prevState, calcState, rxOk, hasNew, rxData,
    hIv,          \* state_validate
    hIf,          \* state_feedback
    feedbackUpd,  \* its MultiUpdatable
    \* ControlStream_Outbound
    txOk, txData,
    dataUpd,      \* MultiUpdatable of data_
    hOv,          \* state_validate_
    validateUpd,  \* its MultiUpdatable
    hOf,          \* state_feedback_
    \* control flow of LoadRxControlData
    stage,
    pendingOf,    \* the h_of still to be handed to the outbound half
    \* the CAN bus, per receiving end
    dataCh, ctrlCh,
    \* the client, and what it has seen
    busy,         \* has put a message and seen no tx_ok since
    put, got,     \* messages put at n; messages fired by n's rx_data
    chain         \* the codes hOv[n] has taken, from the initial 0 on

inboundVars  == <<prevState, calcState, rxOk, hasNew, rxData, hIv, hIf,
                  feedbackUpd>>
outboundVars == <<txOk, txData, dataUpd, hOv, validateUpd, hOf>>
clientVars   == <<busy, put, got, chain>>
vars == <<inboundVars, outboundVars, stage, pendingOf, dataCh, ctrlCh,
          clientVars>>

Stage == {"idle", "validated", "rx_data", "tx_ok"}
CtrlFrame == [hov : StateCode, hif : StateCode]

Inbound_Init ==
    /\ prevState = [n \in Node |-> 0]
    /\ calcState = [n \in Node |-> 0]
    /\ rxOk = [n \in Node |-> FALSE]
    /\ hasNew = [n \in Node |-> FALSE]
    /\ rxData = [n \in Node |-> NoData]
    /\ hIv = [n \in Node |-> 0]
    /\ hIf = [n \in Node |-> 0]
    /\ feedbackUpd = [n \in Node |-> U!Quiet]

Outbound_Init ==
    /\ txOk = [n \in Node |-> FALSE]
    /\ txData = [n \in Node |-> NoData]
    /\ dataUpd = [n \in Node |-> U!Quiet]
    /\ hOv = [n \in Node |-> 0]
    /\ validateUpd = [n \in Node |-> U!Quiet]
    /\ hOf = [n \in Node |-> 0]

Init ==
    /\ Inbound_Init
    /\ Outbound_Init
    /\ stage = [n \in Node |-> "idle"]
    /\ pendingOf = [n \in Node |-> 0]
    /\ dataCh = [n \in Node |-> <<>>]
    /\ ctrlCh = [n \in Node |-> <<>>]
    /\ busy = [n \in Node |-> FALSE]
    /\ put = [n \in Node |-> <<>>]
    /\ got = [n \in Node |-> <<>>]
    /\ chain = [n \in Node |-> <<0>>]

-----------------------------------------------------------------------------
\* can_->Send: the result is ignored, so a frame the bus has no room for is lost.
Sent(queue, frame) ==
    IF Len(queue) < QueueCap THEN Append(queue, frame) ELSE queue

Control_Swapped(validate, feedback) == [hov |-> feedback, hif |-> validate]

\* ProcessTxControlData: every control frame carries both codes of its sender.
Control(validate, feedback) == [hov |-> validate, hif |-> feedback]

-----------------------------------------------------------------------------
\* ControlStream_Inbound

Accepts_Again(n, ok, new, calc, validate) == ~ok /\ new /\ validate = calc
Accepts_Unvalidated(n, ok, new, calc, validate) == ~ok /\ new /\ hIf[n] # calc

\* The early returns of CheckIntegrity.
Accepts(n, ok, new, calc, validate) ==
    ~ok /\ new /\ hIf[n] # calc /\ validate = calc

\* CheckIntegrity once its caller has left ok in is_ok_value_, new in
\* has_new_data_ and so on; bus is the control channel the caller leaves.  When
\* nothing returns early, the feedback is announced before rx_data is fired.
Inbound_CheckIntegrity(n, ok, new, calc, validate, d, bus) ==
    \/ /\ Accepts(n, ok, new, calc, validate)
       /\ hIf' = [hIf EXCEPT ![n] = calc]
       /\ feedbackUpd' = [feedbackUpd EXCEPT ![n] = U!Update]
       /\ ctrlCh' = [bus EXCEPT ![Peer[n]] = Sent(@, Control(hOv[n], calc))]
       /\ got' = [got EXCEPT ![n] = Append(@, d)]
       /\ rxOk' = [rxOk EXCEPT ![n] = TRUE]
       /\ hasNew' = [hasNew EXCEPT ![n] = FALSE]
    \/ /\ ~Accepts(n, ok, new, calc, validate)
       /\ rxOk' = [rxOk EXCEPT ![n] = ok]
       /\ hasNew' = [hasNew EXCEPT ![n] = new]
       /\ ctrlCh' = bus
       /\ UNCHANGED <<hIf, feedbackUpd, got>>

\* FeedData, called by OnRx for a frame of rx_data_msg_id.
FeedRxData(n) ==
    /\ stage[n] = "idle"
    /\ dataCh[n] # <<>>
    /\ LET d    == Head(dataCh[n])
           calc == Mixed(prevState[n], d)
       IN  /\ rxData' = [rxData EXCEPT ![n] = d]
           /\ calcState' = [calcState EXCEPT ![n] = calc]
           /\ Inbound_CheckIntegrity(n, FALSE, TRUE, calc, hIv[n], d, ctrlCh)
    /\ dataCh' = [dataCh EXCEPT ![n] = Tail(@)]
    /\ UNCHANGED <<prevState, hIv, outboundVars, stage, pendingOf, busy, put,
                   chain>>

\* The inbound half of LoadRxControlData, called by OnRx for a frame of
\* rx_ctrl_msg_id.  SetStateValidate leaves calculated_state_ as it is.
LoadRxControlData(n) ==
    /\ stage[n] = "idle"
    /\ ctrlCh[n] # <<>>
    /\ LET frame    == Head(ctrlCh[n])
           received == [ctrlCh EXCEPT ![n] = Tail(@)]
       IN  /\ pendingOf' = [pendingOf EXCEPT ![n] = frame.hif]
           /\ \/ /\ frame.hov = hIv[n]
                 /\ ctrlCh' = received
                 /\ UNCHANGED <<prevState, hIv, rxOk, hasNew, hIf, feedbackUpd,
                                got>>
              \/ /\ frame.hov # hIv[n]
                 /\ prevState' = [prevState EXCEPT ![n] = hIv[n]]
                 /\ hIv' = [hIv EXCEPT ![n] = frame.hov]
                 /\ Inbound_CheckIntegrity(n, FALSE, hasNew[n], calcState[n],
                                           frame.hov, rxData[n], received)
    /\ stage' = [stage EXCEPT ![n] = IF hIf'[n] # hIf[n] THEN "rx_data"
                                                         ELSE "validated"]
    /\ UNCHANGED <<calcState, rxData, outboundVars, dataCh, busy, put, chain>>

-----------------------------------------------------------------------------
\* ControlStream_Outbound

\* The outbound half of LoadRxControlData: SetStateFeedback with the h_of of the
\* frame, after SetStateValidate has returned.  CheckIntegrity resets data_
\* before it fires tx_ok.
SetStateFeedback(n) ==
    /\ stage[n] \in {"validated", "rx_data"}
    /\ hOf' = [hOf EXCEPT ![n] = pendingOf[n]]
    /\ txOk' = [txOk EXCEPT ![n] = FALSE]
    /\ pendingOf' = [pendingOf EXCEPT ![n] = 0]
    /\ \/ /\ hOv[n] = pendingOf[n]
          /\ dataUpd' = [dataUpd EXCEPT ![n] = U!Reset(@)]
          /\ busy' = [busy EXCEPT ![n] = FALSE]
          /\ stage' = [stage EXCEPT ![n] = "tx_ok"]
       \/ /\ hOv[n] # pendingOf[n]
          /\ stage' = [stage EXCEPT ![n] = "idle"]
          /\ UNCHANGED <<dataUpd, busy>>
    /\ UNCHANGED <<inboundVars, txData, hOv, validateUpd, dataCh, ctrlCh, put,
                   got, chain>>

TxOkReturns_ThenResets(n) ==
    /\ stage[n] = "tx_ok"
    /\ stage' = [stage EXCEPT ![n] = "idle"]
    /\ txOk' = [txOk EXCEPT ![n] = TRUE]
    /\ dataUpd' = [dataUpd EXCEPT ![n] = U!Reset(@)]
    /\ UNCHANGED <<inboundVars, txData, hOv, validateUpd, hOf, pendingOf,
                   dataCh, ctrlCh, clientVars>>

\* The tx_ok slots return to CheckIntegrity.
TxOkReturns(n) ==
    /\ stage[n] = "tx_ok"
    /\ stage' = [stage EXCEPT ![n] = "idle"]
    /\ txOk' = [txOk EXCEPT ![n] = TRUE]
    /\ UNCHANGED <<inboundVars, txData, dataUpd, hOv, validateUpd, hOf,
                   pendingOf, dataCh, ctrlCh, clientVars>>

\* SetData, from the client's own thread of control or from one of its slots:
\* the data frame goes out before the code that validates it.
PutTxData(n, d) ==
    /\ stage[n] # "validated"
    /\ Len(put[n]) < MaxPut[n]
    /\ AwaitOk => ~busy[n]
    /\ LET code == Mixed(hOv[n], d)
       IN  /\ hOv' = [hOv EXCEPT ![n] = code]
           /\ chain' = [chain EXCEPT ![n] = Append(@, code)]
           /\ ctrlCh' = [ctrlCh EXCEPT ![Peer[n]] =
                             Sent(@, Control(code, hIf[n]))]
    /\ txOk' = [txOk EXCEPT ![n] = FALSE]
    /\ txData' = [txData EXCEPT ![n] = d]
    /\ dataUpd' = [dataUpd EXCEPT ![n] = U!Update]
    /\ dataCh' = [dataCh EXCEPT ![Peer[n]] = Sent(@, d)]
    /\ validateUpd' = [validateUpd EXCEPT ![n] = U!Update]
    /\ busy' = [busy EXCEPT ![n] = TRUE]
    /\ put' = [put EXCEPT ![n] = Append(@, d)]
    /\ UNCHANGED <<inboundVars, hOf, stage, pendingOf, got>>

-----------------------------------------------------------------------------
\* Tick: the inbound half, then the outbound one.  Each updatable that expires
\* announces the value it holds now, so both control frames are the same frame.
Tick(n) ==
    LET frame     == Control(hOv[n], hIf[n])
        once      == IF U!Expires(feedbackUpd[n])
                     THEN Sent(ctrlCh[Peer[n]], frame) ELSE ctrlCh[Peer[n]]
        announced == IF U!Expires(validateUpd[n])
                     THEN Sent(once, frame) ELSE once
    IN  /\ stage[n] = "idle"
        /\ feedbackUpd' = [feedbackUpd EXCEPT ![n] = U!Tick(@)]
        /\ dataUpd' = [dataUpd EXCEPT ![n] = U!Tick(@)]
        /\ validateUpd' = [validateUpd EXCEPT ![n] = U!Tick(@)]
        /\ dataCh' = [dataCh EXCEPT ![Peer[n]] =
                          IF U!Expires(dataUpd[n]) /\ txData[n] # NoData
                          THEN Sent(@, txData[n]) ELSE @]
        /\ ctrlCh' = [ctrlCh EXCEPT ![Peer[n]] = announced]
        /\ UNCHANGED <<prevState, calcState, rxOk, hasNew, rxData, hIv, hIf,
                       txOk, txData, hOv, hOf, stage, pendingOf, clientVars>>

-----------------------------------------------------------------------------
\* The bus loses a frame: OnRx is not called when its turn comes.
LoseData(n) ==
    /\ stage[n] = "idle"
    /\ dataCh[n] # <<>>
    /\ dataCh' = [dataCh EXCEPT ![n] = Tail(@)]
    /\ UNCHANGED <<inboundVars, outboundVars, stage, pendingOf, ctrlCh,
                   clientVars>>

LoseCtrl(n) ==
    /\ stage[n] = "idle"
    /\ ctrlCh[n] # <<>>
    /\ ctrlCh' = [ctrlCh EXCEPT ![n] = Tail(@)]
    /\ UNCHANGED <<inboundVars, outboundVars, stage, pendingOf, dataCh,
                   clientVars>>

Handler(n) ==
    \/ FeedRxData(n)
    \/ LoadRxControlData(n)
    \/ SetStateFeedback(n)
    \/ TxOkReturns(n)
    \/ Tick(n)

Next == \E n \in Node :
            \/ \E d \in Data : PutTxData(n, d)
            \/ Handler(n)
            \/ LoseData(n)
            \/ LoseCtrl(n)

Spec == Init /\ [][Next]_vars

\* The main loop calls Tick again and again, whatever handlers run in between
\* (strong: a handler that is running keeps Tick out); a handler that was entered
\* returns; and the bus does not lose every frame that is sent over and over.
Fairness ==
    \A n \in Node :
        /\ SF_vars(Tick(n))
        /\ WF_vars(SetStateFeedback(n))
        /\ WF_vars(TxOkReturns(n))
        /\ SF_vars(FeedRxData(n))
        /\ SF_vars(LoadRxControlData(n))

FairSpec == Spec /\ Fairness

-----------------------------------------------------------------------------
TypeOK ==
    /\ prevState \in [Node -> StateCode]
    /\ calcState \in [Node -> StateCode]
    /\ rxOk \in [Node -> BOOLEAN]
    /\ hasNew \in [Node -> BOOLEAN]
    /\ rxData \in [Node -> Data \cup {NoData}]
    /\ hIv \in [Node -> StateCode]
    /\ hIf \in [Node -> StateCode]
    /\ feedbackUpd \in [Node -> U!Updatable]
    /\ txOk \in [Node -> BOOLEAN]
    /\ txData \in [Node -> Data \cup {NoData}]
    /\ dataUpd \in [Node -> U!Updatable]
    /\ hOv \in [Node -> StateCode]
    /\ validateUpd \in [Node -> U!Updatable]
    /\ hOf \in [Node -> StateCode]
    /\ stage \in [Node -> Stage]
    /\ pendingOf \in [Node -> StateCode]
    /\ dataCh \in [Node -> Seq(Data)]
    /\ ctrlCh \in [Node -> Seq(CtrlFrame)]
    /\ busy \in [Node -> BOOLEAN]
    /\ put \in [Node -> Seq(Data)]
    /\ got \in [Node -> Seq(Data)]
    /\ chain \in [Node -> Seq(StateCode)]

-----------------------------------------------------------------------------
(* What the client sees.                                                   *)

\* The peer of n has fired everything n has put, but for the last message.
LastMissing(n) == put[n] = Append(got[Peer[n]], txData[n])

\* A client that waits for tx_ok (cstream.hpp:222) gets every message through:
\* rx_data has fired exactly the messages put, once each and in order, except
\* that the last may be missing while tx_ok is awaited.
InOrder ==
    \A n \in Node : got[Peer[n]] = put[n] \/ (busy[n] /\ LastMissing(n))

\* Even a client that overwrites what is not confirmed yet (cstream.hpp:162) makes
\* the other end fire only messages that were put, in the order they were put
\* and none twice: messages may be missing, nothing else.
IsSubsequence(s, t) ==
    \E at \in [DOMAIN s -> DOMAIN t] :
        /\ \A i \in DOMAIN s : s[i] = t[at[i]]
        /\ \A i, j \in DOMAIN s : i < j => at[i] < at[j]

OnlyWhatWasPut == \A n \in Node : IsSubsequence(got[Peer[n]], put[n])

\* data_ is retransmitted until the other end has taken it: Reset()
\* (cstream.hpp:149) never reaches a message put after the one it confirms,
\* whatever slot the client puts that message from.
RetransmitsUntilTaken ==
    \A n \in Node : hIf[Peer[n]] # hOv[n] => dataUpd[n].need

\* Reset() tells that the data was updated as it should be
\* (multi_updatable.hpp:45): data_ of a client that waits for tx_ok is not given
\* up before the other end has fired the last message put.
TakenWhenReset ==
    \A n \in Node : put[n] # <<>> /\ ~dataUpd[n].need => got[Peer[n]] = put[n]

\* No payload is taken for another: consecutive codes differ, and the payload
\* before the last one does not reach the code of the last, from either of the
\* two codes before it.  It depends on the payloads and on MixCode only, and a
\* 16-bit checksum cannot promise it for every pair of payloads.
NoCollision ==
    \A n \in Node : \A k \in 1 .. Len(put[n]) :
        /\ chain[n][k + 1] # chain[n][k]
        /\ \A i \in {k - 1, k} \cap DOMAIN put[n],
              j \in {k - 1, k} \cap DOMAIN put[n] :
              Mixed(chain[n][i], put[n][j]) = chain[n][k + 1]
                  => put[n][j] = put[n][k]

\* The same of everything put so far: the codes differ from each other, and no
\* payload but its own reaches a code from any code before it.
NoCollisionEver ==
    \A n \in Node :
        /\ \A i, j \in DOMAIN chain[n] : chain[n][i] = chain[n][j] => i = j
        /\ \A k, j \in DOMAIN put[n] : \A i \in 1 .. k :
              Mixed(chain[n][i], put[n][j]) = chain[n][k + 1] => put[n][j] = put[n][k]

\* Whoever waits for tx_ok is answered (cstream.hpp:150).
Answered == \A n \in Node : busy[n] ~> ~busy[n]

RS == INSTANCE ReliableStream
ImplementsReliableStream == RS!FairSpec
===============================================================================
