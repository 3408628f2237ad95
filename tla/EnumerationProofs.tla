--------------------------- MODULE EnumerationProofs ---------------------------
(***************************************************************************)
(* Proofs about Enumeration, for every set of devices, number of           *)
(* addresses, choice of random bytes, loss and interleaving.               *)
(***************************************************************************)
EXTENDS EnumerationInvariant, TLAPS

\* A random byte is made a tag, and the manager leaves an address.
LEMMA AddressArithmetic ==
    /\ \A byte \in Address : AdvertiseTag(byte) \in Tags
    /\ \A id \in Address : Following(id) \in Address
    /\ \A id \in Address : Following(id) # 0 => Following(id) = id + 1
    /\ Tags \subseteq Address
    /\ {0, 2, RootId, Broadcast} \subseteq Address
<1>1. \A byte \in Address : AdvertiseTag(byte) \in Tags
  BY AddressAssumption DEF Address, AdvertiseTag, Tags
<1>2. ASSUME NEW id \in Address
      PROVE  /\ Following(id) \in Address
             /\ Following(id) # 0 => Following(id) = id + 1
  <2>1. CASE id = 2 * Half - 1
    <3>1. (2 * Half) % (2 * Half) = 0
      BY AddressAssumption
    <3>2. QED
      BY <2>1, <3>1, AddressAssumption DEF Address, Following
  <2>2. CASE id # 2 * Half - 1
    <3>1. id + 1 \in 0 .. 2 * Half - 1
      BY <2>2, AddressAssumption DEF Address
    <3>2. (id + 1) % (2 * Half) = id + 1
      BY <3>1, AddressAssumption
    <3>3. QED
      BY <3>1, <3>2 DEF Address, Following
  <2>3. QED
    BY <2>1, <2>2
<1>3. Tags \subseteq Address /\ {0, 2, RootId, Broadcast} \subseteq Address
  BY AddressAssumption DEF Tags, Address, RootId, Broadcast
<1>4. QED
  BY <1>1, <1>2, <1>3

\* What is sent is a frame.
LEMMA SendType ==
    ASSUME TypeOK, NEW n \in Node, NEW src \in Address, NEW dst \in Address
    PROVE  /\ \A op \in {"ScanUnenumerated", "Advertise"} :
                  Send(n, src, dst, op, NoAddress) \in Frame
           /\ \A id \in Address : Send(n, src, dst, "AssignID", id) \in Frame
BY DEF TypeOK, Send, Frame

LEMMA TypeInit == Init => TypeOK
BY AddressArithmetic, EnvironmentAssumption, NodeAssumption
   DEF Init, TypeOK, State, Await, RootId

LEMMA TypeStep == TypeOK /\ [Next]_vars => TypeOK'
<1> SUFFICES ASSUME TypeOK, [Next]_vars PROVE TypeOK'
  OBVIOUS
<1>1. CASE UNCHANGED vars
  BY <1>1 DEF TypeOK, vars, deviceVars, awaitVars, boundVars
<1>2. ASSUME NEW f \in bus, HandleScan(f) PROVE TypeOK'
  <2>1. PICK heard \in Hearing(f, "NotInitialized") :
        \E byte \in Drawn(heard) :
          /\ tag' = [n \in Node |-> IF n \in heard THEN AdvertiseTag(byte[n])
                                                   ELSE tag[n]]
          /\ bus' = (bus \ {f}) \cup
                 {Send(n, tag'[n], f.src, "Advertise", NoAddress) : n \in heard}
          /\ state' = [n \in Node |-> IF n \in heard THEN "IdWaiting" ELSE state[n]]
          /\ sent' = [n \in Node |-> IF n \in heard THEN sent[n] + 1 ELSE sent[n]]
    BY <1>2 DEF HandleScan
  <2>2. heard \subseteq Node
    BY DEF Hearing
  <2>3. tag' \in [Node -> Address]
    BY <2>1, <2>2, AddressArithmetic DEF Drawn, TypeOK
  <2>4. f \in Frame /\ f.src \in Address
    BY <1>2 DEF TypeOK, Frame
  <2>5. \A n \in heard :
            Send(n, tag'[n], f.src, "Advertise", NoAddress) \in Frame
    BY <2>2, <2>3, <2>4, SendType
  <2>6. bus' \subseteq Frame
    BY <2>1, <2>5 DEF TypeOK
  <2>7. state' \in [Node -> State] /\ sent' \in [Node -> Nat]
    BY <2>1 DEF TypeOK, State
  <2>8. QED
    BY <1>2, <2>3, <2>6, <2>7 DEF HandleScan, TypeOK, awaitVars, boundVars
<1>3. ASSUME NEW f \in bus, HandleAdvertise(f) PROVE TypeOK'
  <2>1. PICK heard \in Hearing(f, "Initialized") :
          /\ bus' = (bus \ {f}) \cup
                 {Send(n, self[n], f.src, "AssignID", nextId[n]) : n \in heard}
          /\ sent' = [n \in Node |-> IF n \in heard THEN sent[n] + 1 ELSE sent[n]]
          /\ found' = [n \in Node |-> IF n \in heard THEN found[n] \cup {nextId[n]}
                                                     ELSE found[n]]
          /\ nextId' = [n \in Node |-> IF n \in heard THEN Following(nextId[n])
                                                      ELSE nextId[n]]
    BY <1>3 DEF HandleAdvertise
  <2>2. heard \subseteq Node
    BY DEF Hearing
  <2>3. f \in Frame /\ f.src \in Address
    BY <1>3 DEF TypeOK, Frame
  <2>4. \A n \in heard : Send(n, self[n], f.src, "AssignID", nextId[n]) \in Frame
    BY <2>2, <2>3, SendType DEF TypeOK
  <2>5. bus' \subseteq Frame
    BY <2>1, <2>4 DEF TypeOK
  <2>6. sent' \in [Node -> Nat] /\ found' \in [Node -> SUBSET Address]
    BY <2>1, <2>2 DEF TypeOK
  <2>7. nextId' \in [Node -> Address]
    BY <2>1, AddressArithmetic DEF TypeOK
  <2>8. QED
    BY <1>3, <2>5, <2>6, <2>7
       DEF HandleAdvertise, TypeOK, deviceVars, awaitVars, boundVars
<1>4. ASSUME NEW f \in bus, HandleAssign(f) PROVE TypeOK'
  <2>1. PICK heard \in Hearing(f, "IdWaiting") :
        /\ self' = [n \in Node |-> IF n \in heard THEN f.id ELSE self[n]]
        /\ state' = [n \in Node |-> IF n \in heard THEN "Initialized" ELSE state[n]]
        /\ await' = [n \in Node |-> IF n \in heard /\ HasWaiter(n)
                                    THEN "scheduled" ELSE await[n]]
        /\ answer' = [n \in Node |-> IF n \in heard /\ HasWaiter(n)
                                     THEN f.id ELSE answer[n]]
    BY <1>4 DEF HandleAssign
  <2>2. f.id \in Address
    BY <1>4 DEF HandleAssign, TypeOK, Frame
  <2>3. QED
    BY <1>4, <2>1, <2>2 DEF HandleAssign, TypeOK, State, Await, boundVars
<1>5. ASSUME NEW n \in Scanner, FindEnumeratedDevices(n) PROVE TypeOK'
  <2>1. n \in Node /\ GetSelfId(n) \in Address
    BY NodeAssumption DEF TypeOK, GetSelfId
  <2>2. Send(n, GetSelfId(n), Broadcast, "ScanUnenumerated", NoAddress) \in Frame
    BY <2>1, SendType, AddressArithmetic
  <2>3. scans' \in [Node -> 0 .. MaxScans]
    BY <1>5, <2>1, EnvironmentAssumption DEF FindEnumeratedDevices, TypeOK
  <2>4. QED
    BY <1>5, <2>1, <2>2, <2>3
       DEF FindEnumeratedDevices, TypeOK, deviceVars, awaitVars
<1>6. ASSUME NEW n \in Node, AwaitEnumerated(n) PROVE TypeOK'
  <2>1. GetSelfId(n) \in Address
    BY DEF TypeOK, GetSelfId
  <2>2. QED
    BY <1>6, <2>1 DEF AwaitEnumerated, TypeOK, Await, deviceVars, boundVars
<1>7. ASSUME NEW n \in Node, Suspend(n) \/ Resumed(n) PROVE TypeOK'
  BY <1>7 DEF Suspend, Resumed, TypeOK, Await, deviceVars, boundVars
<1>8. ASSUME NEW n \in Node, Restart(n) PROVE TypeOK'
  BY <1>8, AddressArithmetic, EnvironmentAssumption
     DEF Restart, TypeOK, State, Await
<1>9. QED
  BY <1>1, <1>2, <1>3, <1>4, <1>5, <1>6, <1>7, <1>8, NodeAssumption DEF Next, Deliver

\* Every variable keeps its type: an address never leaves its 2 * Half values
\* (address.hpp:8), however the bytes are drawn and the managers wrap.
THEOREM TypeCorrect == Spec => []TypeOK
BY TypeInit, TypeStep, PTL DEF Spec
-----------------------------------------------------------------------------
(* Addresses are unique when Root alone scans.                             *)

\* The hypotheses of UniqueIdsCorrect, at one state.
Alone == Scanner = {Root}

LEMMA InvInit == Init => IInv
BY AddressArithmetic, AddressAssumption, NodeAssumption
   DEF Init, IInv, RootKept, Devices, Frames, Fresh, UniqueIds, RootId

\* Who is asked for an address is Root, and nobody else.
LEMMA AdvertiseHeard ==
    ASSUME TypeOK, IInv, NEW f \in bus, f.op = "Advertise",
           NEW heard \in Hearing(f, "Initialized")
    PROVE  heard \subseteq {Root}
<1>1. ASSUME NEW n \in heard, n # Root PROVE FALSE
  <2>1. n \in Node /\ IsToSelf(n, f) /\ state[n] = "Initialized"
    BY <1>1 DEF Hearing
  <2>2. f.dst = 1
    BY DEF IInv, Frames, RootId
  <2>3. Broadcast # 1 /\ tag[n] # 1
    BY <2>1, AddressAssumption DEF IInv, Devices, Broadcast, Tags
  <2>4. self[n] \in Issued
    BY <1>1, <2>1 DEF IInv, Devices
  <2>5. nextId[Root] \in Nat /\ self[n] \in Nat
    BY <2>1, NodeAssumption DEF TypeOK, Address
  <2>6. self[n] # 1
    BY <2>4, <2>5 DEF Issued
  <2>7. QED
    BY <2>1, <2>2, <2>3, <2>6 DEF IsToSelf
<1>2. QED
  BY <1>1

\* An address is taken by at most one device.
LEMMA AssignHeard ==
    ASSUME TypeOK, IInv, NoTagClash, NEW f \in bus, f.op = "AssignID",
           NEW heard \in Hearing(f, "IdWaiting"),
           NEW n \in heard
    PROVE  heard = {n} /\ n \in Node \ {Root}
<1>1. ASSUME NEW m \in heard
      PROVE  m \in Node \ {Root} /\ state[m] = "IdWaiting" /\ tag[m] = f.dst
  <2>1. m \in Node /\ IsToSelf(m, f) /\ state[m] = "IdWaiting"
    BY <1>1 DEF Hearing
  <2>2. m # Root
    BY <2>1 DEF IInv, RootKept
  <2>3. self[m] = 0
    BY <2>1, <2>2 DEF IInv, Devices
  <2>4. f.dst # Broadcast /\ f.dst # 0
    BY AddressAssumption DEF IInv, Frames, Named, Tags
  <2>5. QED
    BY <2>1, <2>2, <2>3, <2>4 DEF IsToSelf
<1>2. QED
  BY <1>1 DEF NoTagClash

LEMMA ScanStep ==
    ASSUME TypeOK, IInv, NoTagClash', NEW f \in bus, HandleScan(f)
    PROVE  IInv'
<1>1. PICK heard \in Hearing(f, "NotInitialized") :
      \E byte \in Drawn(heard) :
        /\ tag' = [n \in Node |-> IF n \in heard THEN AdvertiseTag(byte[n])
                                                 ELSE tag[n]]
        /\ bus' = (bus \ {f}) \cup
               {Send(n, tag'[n], f.src, "Advertise", NoAddress) : n \in heard}
        /\ state' = [n \in Node |-> IF n \in heard THEN "IdWaiting" ELSE state[n]]
  BY DEF HandleScan
<1>2. heard \subseteq Node /\ \A n \in heard : state[n] = "NotInitialized" /\ n # Root
  BY DEF Hearing, IInv, RootKept
<1>3. UNCHANGED <<self, nextId>> /\ f.op = "ScanUnenumerated"
  BY DEF HandleScan
<1>4. \A n \in heard : tag'[n] \in Tags /\ state'[n] = "IdWaiting"
  BY <1>1, <1>2, AddressArithmetic DEF Drawn
<1>5. \A n \in heard : tag'[n] \in Tags \ {Broadcast}
  BY <1>2, <1>4 DEF NoTagClash
<1>6. \A n \in Node \ heard : tag'[n] = tag[n] /\ state'[n] = state[n]
  BY <1>1
<1>7. \A g \in bus' :
          \/ g \in bus
          \/ /\ g.op = "Advertise"
             /\ g.dst = RootId
             /\ g.src \in Tags \ {Broadcast}
  <2>1. f.src = RootId
    BY <1>3 DEF IInv, Frames
  <2>2. ASSUME NEW n \in heard
        PROVE  LET g == Send(n, tag'[n], f.src, "Advertise", NoAddress)
               IN  g.op = "Advertise" /\ g.dst = RootId /\ g.src \in Tags \ {Broadcast}
    BY <1>5, <2>1 DEF Send
  <2>3. \A g \in bus' : g \in bus \/ \E n \in heard :
            g = Send(n, tag'[n], f.src, "Advertise", NoAddress)
    BY <1>1
  <2>4. QED
    BY <2>2, <2>3
<1>8. RootKept'
  BY <1>2, <1>3, <1>6, NodeAssumption DEF IInv, RootKept
<1>9. Devices'
  BY <1>2, <1>3, <1>4, <1>6 DEF IInv, Devices, Issued
<1>10. Frames'
  BY <1>3, <1>7 DEF IInv, Frames, Named, Issued
<1>11. Fresh'
  BY <1>3, <1>7 DEF IInv, Fresh, Named
<1>12. UniqueIds'
  BY <1>3, <1>4, <1>6 DEF IInv, UniqueIds
<1>13. QED
  BY <1>8, <1>9, <1>10, <1>11, <1>12 DEF IInv

LEMMA AdvertiseStep ==
    ASSUME TypeOK, IInv, NotExhausted', NEW f \in bus, HandleAdvertise(f)
    PROVE  IInv'
<1>1. PICK heard \in Hearing(f, "Initialized") :
        /\ bus' = (bus \ {f}) \cup
               {Send(n, self[n], f.src, "AssignID", nextId[n]) : n \in heard}
        /\ nextId' = [n \in Node |-> IF n \in heard THEN Following(nextId[n])
                                                    ELSE nextId[n]]
  BY DEF HandleAdvertise
<1>2. UNCHANGED deviceVars /\ f.op = "Advertise"
  BY DEF HandleAdvertise
<1>3. heard \subseteq {Root}
  BY <1>2, AdvertiseHeard
<1>4. CASE heard = {}
  <2>1. nextId'[Root] = nextId[Root] /\ bus' \subseteq bus
    BY <1>1, <1>4, NodeAssumption
  <2>2. QED
    BY <1>2, <2>1
       DEF IInv, RootKept, Devices, Frames, Fresh, UniqueIds, Issued, deviceVars
<1>5. CASE heard = {Root}
  <2> DEFINE new == Send(Root, self[Root], f.src, "AssignID", nextId[Root])
  <2>1. bus' = (bus \ {f}) \cup {new}
    BY <1>1, <1>5
  <2>2. nextId[Root] \in Nat /\ nextId[Root] >= 2
    BY NodeAssumption DEF TypeOK, Address, IInv, RootKept
  <2>3. nextId'[Root] = nextId[Root] + 1
    BY <1>1, <1>5, NodeAssumption, AddressArithmetic DEF NotExhausted, TypeOK
  <2>4. Issued \subseteq Issued' /\ nextId[Root] \in Issued' \ Issued
    BY <2>2, <2>3 DEF Issued
  <2>5. new.op = "AssignID" /\ new.id = nextId[Root] /\ new.dst = f.src
    BY DEF Send
  <2>6. f.src \in Tags \ {Broadcast}
    BY <1>2 DEF IInv, Frames
  <2>7. RootKept'
    BY <1>2, <2>2, <2>3 DEF IInv, RootKept, deviceVars
  <2>8. Devices'
    BY <1>2, <2>4 DEF IInv, Devices, deviceVars
  <2>9. Frames'
    BY <2>1, <2>4, <2>5, <2>6 DEF IInv, Frames, Named
  <2>10. Fresh'
    <3>1. \A g \in bus : Named(g) => g.id # new.id
      BY <2>4, <2>5 DEF IInv, Frames
    <3>2. \A n \in Node \ {Root} : self[n] # new.id
      <4>1. \A n \in Node \ {Root} : self[n] \in Issued \cup {0}
        BY DEF IInv, Devices
      <4>2. QED
        BY <2>2, <2>4, <2>5, <4>1
    <3>3. QED
      BY <1>2, <2>1, <3>1, <3>2 DEF IInv, Fresh, Named, deviceVars
  <2>11. UniqueIds'
    BY <1>2 DEF IInv, UniqueIds, deviceVars
  <2>12. QED
    BY <2>7, <2>8, <2>9, <2>10, <2>11 DEF IInv
<1>6. QED
  BY <1>3, <1>4, <1>5

LEMMA AssignStep ==
    ASSUME TypeOK, IInv, NoTagClash, NEW f \in bus, HandleAssign(f)
    PROVE  IInv'
<1>1. PICK heard \in Hearing(f, "IdWaiting") :
        /\ self' = [n \in Node |-> IF n \in heard THEN f.id ELSE self[n]]
        /\ state' = [n \in Node |-> IF n \in heard THEN "Initialized" ELSE state[n]]
  BY DEF HandleAssign
<1>2. UNCHANGED <<tag, nextId>> /\ bus' = bus \ {f} /\ f.op = "AssignID"
  BY DEF HandleAssign
<1>3. CASE heard = {}
  <2>1. UNCHANGED <<self, state>>
    BY <1>1, <1>3 DEF TypeOK
  <2>2. QED
    BY <1>2, <2>1
       DEF IInv, RootKept, Devices, Frames, Fresh, UniqueIds, Issued
<1>4. ASSUME NEW n \in heard PROVE IInv'
  <2>1. heard = {n} /\ n \in Node \ {Root}
    BY <1>2, <1>4, AssignHeard
  <2>2. /\ self'[n] = f.id /\ state'[n] = "Initialized"
        /\ \A m \in Node \ {n} : self'[m] = self[m] /\ state'[m] = state[m]
    BY <1>1, <2>1
  <2>3. Named(f) /\ f.id \in Issued
    BY <1>2 DEF IInv, Frames, Named
  <2>4. \A m \in Node \ {Root} : self[m] # f.id
    BY <2>3 DEF IInv, Fresh
  <2>5. RootKept'
    BY <1>2, <2>1, <2>2, NodeAssumption DEF IInv, RootKept
  <2>6. Devices'
    BY <1>2, <2>1, <2>2, <2>3 DEF IInv, Devices, Issued
  <2>7. Frames'
    BY <1>2 DEF IInv, Frames, Issued
  <2>8. Fresh'
    BY <1>2, <2>2, <2>3 DEF IInv, Fresh
  <2>9. UniqueIds'
    <3>1. f.id # self[Root]
      BY <2>3 DEF IInv, RootKept, Issued, RootId
    <3>2. QED
      BY <2>1, <2>2, <2>4, <3>1 DEF IInv, UniqueIds
  <2>10. QED
    BY <2>5, <2>6, <2>7, <2>8, <2>9 DEF IInv
<1>5. QED
  BY <1>3, <1>4

LEMMA OtherSteps ==
    ASSUME TypeOK, IInv, Alone, NEW n \in Node,
           \/ n \in Scanner /\ FindEnumeratedDevices(n)
           \/ AwaitEnumerated(n) \/ Suspend(n) \/ Resumed(n) \/ Restart(n)
    PROVE  IInv'
<1>1. CASE n \in Scanner /\ FindEnumeratedDevices(n)
  <2> DEFINE new == Send(n, GetSelfId(n), Broadcast, "ScanUnenumerated", NoAddress)
  <2>1. n = Root /\ GetSelfId(n) = RootId
    BY <1>1 DEF Alone, IInv, RootKept, GetSelfId
  <2>2. bus' = bus \cup {new} /\ UNCHANGED <<deviceVars, nextId>>
    BY <1>1 DEF FindEnumeratedDevices
  <2>3. new.op = "ScanUnenumerated" /\ new.src = RootId
    BY <2>1 DEF Send
  <2>4. RootKept' /\ Devices' /\ UniqueIds'
    BY <2>2 DEF IInv, RootKept, Devices, UniqueIds, Issued, deviceVars
  <2>5. Frames' /\ Fresh'
    BY <2>2, <2>3 DEF IInv, Frames, Fresh, Named, Issued, deviceVars
  <2>6. QED
    BY <2>4, <2>5 DEF IInv
<1>2. CASE AwaitEnumerated(n) \/ Suspend(n) \/ Resumed(n)
  <2>1. UNCHANGED <<deviceVars, nextId, bus>>
    BY <1>2 DEF AwaitEnumerated, Suspend, Resumed
  <2>2. QED
    BY <2>1 DEF IInv, RootKept, Devices, Frames, Fresh, UniqueIds, Issued,
                deviceVars
<1>3. CASE Restart(n)
  <2>1. n # Root /\ bus' = bus /\ nextId'[Root] = nextId[Root]
    BY <1>3, NodeAssumption DEF Restart, TypeOK
  <2>2. /\ state'[n] = "NotInitialized" /\ self'[n] = 0 /\ tag'[n] = 0
        /\ \A m \in Node \ {n} :
               state'[m] = state[m] /\ self'[m] = self[m] /\ tag'[m] = tag[m]
    BY <1>3 DEF Restart, TypeOK
  <2>3. RootKept' /\ Devices' /\ Frames' /\ UniqueIds'
    BY <2>1, <2>2, NodeAssumption
       DEF IInv, RootKept, Devices, Frames, UniqueIds, Issued
  <2>4. Fresh'
    BY <2>1, <2>2 DEF IInv, Frames, Fresh, Issued
  <2>5. QED
    BY <2>3, <2>4 DEF IInv
<1>4. QED
  BY <1>1, <1>2, <1>3

LEMMA InvStep ==
    Alone /\ TypeOK /\ IInv /\ NoTagClash /\ NoTagClash' /\ NotExhausted'
        /\ [Next]_vars => IInv'
<1> SUFFICES ASSUME Alone, TypeOK, IInv, NoTagClash, NoTagClash', NotExhausted',
                    [Next]_vars
             PROVE  IInv'
  OBVIOUS
<1>1. CASE UNCHANGED vars
  BY <1>1 DEF vars, IInv, RootKept, Devices, Frames, Fresh, UniqueIds, Issued,
              deviceVars
<1>2. ASSUME NEW f \in bus, Deliver(f) PROVE IInv'
  BY <1>2, ScanStep, AdvertiseStep, AssignStep DEF Deliver
<1>3. ASSUME NEW n \in Scanner, FindEnumeratedDevices(n) PROVE IInv'
  BY <1>3, OtherSteps, NodeAssumption
<1>4. ASSUME NEW n \in Node,
             AwaitEnumerated(n) \/ Suspend(n) \/ Resumed(n) \/ Restart(n)
      PROVE  IInv'
  BY <1>4, OtherSteps
<1>5. QED
  BY <1>1, <1>2, <1>3, <1>4, NodeAssumption DEF Next

\* Every address handed out is carried by one frame or held by one device, whatever
\* is lost, delayed or restarted (enumerate_interface.hpp:290-303), provided that
\* Root alone scans, that no two devices wait under one tag or under Broadcast, and
\* that the 8-bit addresses of Root last.
THEOREM IInvCorrect ==
    Scanner = {Root} /\ Spec /\ []NoTagClash /\ []NotExhausted => []IInv
<1>1. Alone /\ Spec /\ []NoTagClash /\ []NotExhausted => []IInv
  <2> SUFFICES ASSUME Alone
               PROVE  Spec /\ []NoTagClash /\ []NotExhausted => []IInv
    OBVIOUS
  <2>1. TypeOK /\ IInv /\ NoTagClash /\ NoTagClash' /\ NotExhausted'
            /\ [Next]_vars => IInv'
    BY InvStep
  <2>2. QED
    BY <2>1, InvInit, TypeCorrect, PTL DEF Spec
<1>2. QED
  BY <1>1 DEF Alone

\* So no two devices that have an address have the same one
\* (docs/interfaces.md:73), under the same conditions.
THEOREM UniqueIdsCorrect ==
    Scanner = {Root} /\ Spec /\ []NoTagClash /\ []NotExhausted => []UniqueIds
<1>1. IInv => UniqueIds
  BY DEF IInv
<1>2. QED
  BY <1>1, IInvCorrect, PTL
-----------------------------------------------------------------------------
(* AwaitEnumerated.                                                        *)

\* Whoever is resumed is resumed with the address the device keeps.
LEMMA ReturnsStep == TypeOK /\ ReturnsOwnId /\ [Next]_vars => ReturnsOwnId'
<1> SUFFICES ASSUME TypeOK, ReturnsOwnId, [Next]_vars PROVE ReturnsOwnId'
  OBVIOUS
<1>1. CASE UNCHANGED vars
  BY <1>1 DEF ReturnsOwnId, vars, deviceVars, awaitVars
<1>2. ASSUME NEW f \in bus, HandleScan(f) PROVE ReturnsOwnId'
  <2>1. PICK heard \in Hearing(f, "NotInitialized") :
          state' = [n \in Node |-> IF n \in heard THEN "IdWaiting" ELSE state[n]]
    BY <1>2 DEF HandleScan
  <2>2. \A n \in heard : state[n] = "NotInitialized"
    BY DEF Hearing
  <2>3. UNCHANGED <<self, await, answer>>
    BY <1>2 DEF HandleScan, awaitVars
  <2>4. QED
    BY <2>1, <2>2, <2>3 DEF ReturnsOwnId
<1>3. ASSUME NEW f \in bus, HandleAdvertise(f) PROVE ReturnsOwnId'
  BY <1>3 DEF HandleAdvertise, deviceVars, awaitVars, ReturnsOwnId
<1>4. ASSUME NEW f \in bus, HandleAssign(f) PROVE ReturnsOwnId'
  <2>1. PICK heard \in Hearing(f, "IdWaiting") :
        /\ self' = [n \in Node |-> IF n \in heard THEN f.id ELSE self[n]]
        /\ state' = [n \in Node |-> IF n \in heard THEN "Initialized" ELSE state[n]]
        /\ await' = [n \in Node |-> IF n \in heard /\ HasWaiter(n)
                                    THEN "scheduled" ELSE await[n]]
        /\ answer' = [n \in Node |-> IF n \in heard /\ HasWaiter(n)
                                     THEN f.id ELSE answer[n]]
    BY <1>4 DEF HandleAssign
  <2>2. \A n \in heard : await[n] \notin {"scheduled", "returned"}
    BY DEF Hearing, ReturnsOwnId
  <2>3. QED
    BY <2>1, <2>2 DEF ReturnsOwnId, HasWaiter
<1>5. ASSUME NEW n \in Scanner, FindEnumeratedDevices(n) PROVE ReturnsOwnId'
  BY <1>5 DEF FindEnumeratedDevices, deviceVars, awaitVars, ReturnsOwnId
<1>6. ASSUME NEW n \in Node, AwaitEnumerated(n) PROVE ReturnsOwnId'
  BY <1>6 DEF AwaitEnumerated, deviceVars, TypeOK, ReturnsOwnId, GetSelfId
<1>7. ASSUME NEW n \in Node, Suspend(n) \/ Resumed(n) PROVE ReturnsOwnId'
  BY <1>7 DEF Suspend, Resumed, deviceVars, TypeOK, ReturnsOwnId
<1>8. ASSUME NEW n \in Node, Restart(n) PROVE ReturnsOwnId'
  BY <1>8 DEF Restart, TypeOK, ReturnsOwnId
<1>9. QED
  BY <1>1, <1>2, <1>3, <1>4, <1>5, <1>6, <1>7, <1>8, NodeAssumption DEF Next, Deliver

\* Whoever was resumed in AwaitEnumerated gets the address the device still has when
\* it runs (enumerate_interface.hpp:306, 414-416), whatever the bus does, whenever a
\* handler interrupts, however tags clash and whoever scans.
THEOREM ReturnsOwnIdCorrect == Spec => []ReturnsOwnId
<1>1. Init => ReturnsOwnId
  BY DEF Init, ReturnsOwnId
<1>2. QED
  BY <1>1, ReturnsStep, TypeCorrect, PTL DEF Spec
-----------------------------------------------------------------------------
(* A bus that loses nothing.                                               *)

Ids ==
    \A n \in Node :
        /\ tag[n] \in {0} \cup Tags
        /\ n # Root => self[n] # RootId /\ (state[n] # "Initialized" => self[n] = 0)

\* Root asks and answers, the others ask for an address under their tags.
Origins ==
    \A f \in bus :
        /\ f.op = "ScanUnenumerated" => f.src = RootId
        /\ f.op = "Advertise" => f.dst = RootId /\ f.src \in Tags /\ f.by # Root
        /\ f.op = "AssignID" => f.src = RootId /\ f.by = Root /\ f.id # RootId

\* Whoever waits has its question or an answer to its tag on the bus.
Pending ==
    \A n \in Node : state[n] = "IdWaiting" =>
        \E f \in bus : \/ f.op = "Advertise" /\ f.by = n /\ f.src = tag[n]
                       \/ f.op = "AssignID" /\ f.dst \in {tag[n], Broadcast}

\* The inductive invariant behind AnswerUnderway.
AInv == RootKept /\ Ids /\ Origins /\ Pending

\* Some device drew Broadcast or the tag of another.
Clash ==
    \E n \in Node \ {Root} :
        \/ tag[n] = Broadcast
        \/ \E m \in Node \ {Root, n} : tag[n] = tag[m] /\ tag[n] # 0

Devs == {n \in Node \ {Root} : state[n] = "Initialized"}

Asked == {f \in bus : f.op \in {"Advertise", "AssignID"}}

Assigned == {f \in bus : f.op = "AssignID"}

\* The tag a frame is about.
About(f) == IF f.op = "Advertise" THEN f.src ELSE f.dst

\* What Root told its handler is held by a device or on its way to one.
Told == found[Root] = {self[n] : n \in Devs} \cup {f.id : f \in Assigned}

\* A frame is about a device that waits, and no other frame is about that device.
OneEach ==
    /\ \A f \in Asked : \E n \in Node \ {Root} :
           state[n] = "IdWaiting" /\ tag[n] = About(f)
    /\ \A f, g \in Asked : About(f) = About(g) => f = g

Tagged == \A n \in Node \ {Root} : tag[n] = 0 <=> state[n] = "NotInitialized"

\* The inductive invariant behind FoundAreDevices.
FInv == Tagged /\ (~Clash => Told /\ OneEach)

LEMMA AInvInit == Init => AInv
BY AddressAssumption, NodeAssumption
   DEF Init, AInv, RootKept, Ids, Origins, Pending, RootId

\* Root hears every question, and nobody else does.
LEMMA RootHears ==
    ASSUME ~Lossy, TypeOK, AInv, NEW f \in bus, f.op = "Advertise",
           NEW heard \in Hearing(f, "Initialized")
    PROVE  heard = {Root}
<1>1. heard = {n \in Node \ {f.by} : IsToSelf(n, f) /\ state[n] = "Initialized"}
  BY DEF Hearing
<1>2. f.dst = 1 /\ f.src \in Tags /\ f.by # Root
  BY DEF AInv, Origins, RootId
<1>3. Root \in heard
  <2>1. self[Root] = 1 /\ state[Root] = "Initialized"
    BY DEF AInv, RootKept, RootId
  <2>2. f.src # 1
    BY <1>2, AddressAssumption DEF Tags
  <2>3. QED
    BY <1>1, <1>2, <2>1, <2>2, NodeAssumption DEF IsToSelf
<1>4. ASSUME NEW n \in heard, n # Root PROVE FALSE
  <2>1. n \in Node /\ IsToSelf(n, f)
    BY <1>1
  <2>2. Broadcast # 1 /\ tag[n] # 1
    BY <2>1, AddressAssumption DEF AInv, Ids, Broadcast, Tags
  <2>3. self[n] # 1
    BY <1>4, <2>1 DEF AInv, Ids, RootId
  <2>4. QED
    BY <1>2, <2>1, <2>2, <2>3 DEF IsToSelf
<1>5. QED
  BY <1>3, <1>4

\* Whoever waits hears every answer to its tag.
LEMMA WaiterHears ==
    ASSUME ~Lossy, TypeOK, AInv, NEW f \in bus, f.op = "AssignID",
           NEW heard \in Hearing(f, "IdWaiting"), NEW n \in Node
    PROVE  n \in heard <=>
               state[n] = "IdWaiting" /\ f.dst \in {tag[n], Broadcast, 0}
<1>1. heard = {m \in Node \ {f.by} : IsToSelf(m, f) /\ state[m] = "IdWaiting"}
  BY DEF Hearing
<1>2. f.src = RootId /\ f.by = Root
  BY DEF AInv, Origins
<1>3. state[Root] # "IdWaiting"
  BY DEF AInv, RootKept
<1>4. n # Root /\ state[n] = "IdWaiting" => self[n] = 0
  BY DEF AInv, Ids
<1>5. QED
  BY <1>1, <1>2, <1>3, <1>4 DEF IsToSelf, RootId

LEMMA AScan ==
    ASSUME ~Lossy, TypeOK, AInv, NEW f \in bus, HandleScan(f)
    PROVE  AInv'
<1>1. PICK heard \in Hearing(f, "NotInitialized") :
      \E byte \in Drawn(heard) :
        /\ tag' = [n \in Node |-> IF n \in heard THEN AdvertiseTag(byte[n])
                                                 ELSE tag[n]]
        /\ bus' = (bus \ {f}) \cup
               {Send(n, tag'[n], f.src, "Advertise", NoAddress) : n \in heard}
        /\ state' = [n \in Node |-> IF n \in heard THEN "IdWaiting" ELSE state[n]]
  BY DEF HandleScan
<1> DEFINE new(n) == Send(n, tag'[n], f.src, "Advertise", NoAddress)
<1>2. heard \subseteq Node /\ \A n \in heard : state[n] = "NotInitialized" /\ n # Root
  BY DEF Hearing, AInv, RootKept
<1>3. UNCHANGED <<self, nextId>> /\ f.op = "ScanUnenumerated"
  BY DEF HandleScan
<1>4. \A n \in heard : tag'[n] \in Tags /\ state'[n] = "IdWaiting"
  BY <1>1, <1>2, AddressArithmetic DEF Drawn
<1>5. \A n \in Node \ heard : tag'[n] = tag[n] /\ state'[n] = state[n]
  BY <1>1
<1>6. f.src = RootId
  BY <1>3 DEF AInv, Origins
<1>7. \A n \in heard : /\ new(n).op = "Advertise" /\ new(n).dst = RootId
                       /\ new(n).src = tag'[n] /\ new(n).by = n /\ new(n) \in bus'
  BY <1>1, <1>6 DEF Send
<1>8. \A g \in bus' : g \in bus \/ \E n \in heard : g = new(n)
  BY <1>1
<1>9. RootKept'
  BY <1>2, <1>3, <1>5, NodeAssumption DEF AInv, RootKept
<1>10. Ids'
  BY <1>2, <1>3, <1>4, <1>5 DEF AInv, Ids
<1>11. Origins'
  <2> HIDE DEF new
  <2>1. ASSUME NEW g \in bus'
        PROVE  \/ g \in bus
               \/ g.op = "Advertise" /\ g.dst = RootId /\ g.src \in Tags /\ g.by # Root
    BY <1>2, <1>4, <1>7, <1>8
  <2>2. QED
    BY <2>1 DEF AInv, Origins
<1>12. Pending'
  <2> HIDE DEF new
  <2>1. ASSUME NEW n \in Node \ heard, state[n] = "IdWaiting"
        PROVE  \E g \in bus' : \/ g.op = "Advertise" /\ g.by = n /\ g.src = tag[n]
                               \/ g.op = "AssignID" /\ g.dst \in {tag[n], Broadcast}
    BY <1>1, <1>3, <2>1 DEF AInv, Pending
  <2>2. ASSUME NEW n \in Node, state'[n] = "IdWaiting"
        PROVE  \E g \in bus' : \/ g.op = "Advertise" /\ g.by = n /\ g.src = tag'[n]
                               \/ g.op = "AssignID" /\ g.dst \in {tag'[n], Broadcast}
    BY <1>5, <1>7, <2>1, <2>2
  <2>3. QED
    BY <2>2 DEF Pending
<1>13. QED
  BY <1>9, <1>10, <1>11, <1>12 DEF AInv

LEMMA AAdvertise ==
    ASSUME ~Lossy, TypeOK, AInv, NotExhausted', NEW f \in bus, HandleAdvertise(f)
    PROVE  AInv'
<1>1. PICK heard \in Hearing(f, "Initialized") :
        /\ bus' = (bus \ {f}) \cup
               {Send(n, self[n], f.src, "AssignID", nextId[n]) : n \in heard}
        /\ nextId' = [n \in Node |-> IF n \in heard THEN Following(nextId[n])
                                                    ELSE nextId[n]]
  BY DEF HandleAdvertise
<1> DEFINE new == Send(Root, self[Root], f.src, "AssignID", nextId[Root])
<1>2. UNCHANGED deviceVars /\ f.op = "Advertise"
  BY DEF HandleAdvertise
<1>3. heard = {Root}
  BY <1>2, RootHears
<1>4. bus' = (bus \ {f}) \cup {new}
  BY <1>1, <1>3
<1>5. nextId[Root] \in Nat /\ nextId[Root] >= 2 /\ self[Root] = RootId
  BY NodeAssumption DEF TypeOK, Address, AInv, RootKept
<1>6. nextId'[Root] = nextId[Root] + 1
  BY <1>1, <1>3, NodeAssumption, AddressArithmetic DEF NotExhausted, TypeOK
<1>7. /\ new.op = "AssignID" /\ new.src = RootId /\ new.by = Root
      /\ new.dst = f.src /\ new.id # RootId
  BY <1>5 DEF Send, RootId
<1> HIDE DEF new
<1>8. RootKept'
  BY <1>2, <1>5, <1>6 DEF AInv, RootKept, deviceVars
<1>9. Ids'
  BY <1>2 DEF AInv, Ids, deviceVars
<1>10. Origins'
  BY <1>4, <1>7 DEF AInv, Origins
<1>11. Pending'
  BY <1>2, <1>4, <1>7 DEF AInv, Pending, deviceVars
<1>12. QED
  BY <1>8, <1>9, <1>10, <1>11 DEF AInv

LEMMA AAssign ==
    ASSUME ~Lossy, TypeOK, AInv, NEW f \in bus, HandleAssign(f)
    PROVE  AInv'
<1>1. PICK heard \in Hearing(f, "IdWaiting") :
        /\ self' = [n \in Node |-> IF n \in heard THEN f.id ELSE self[n]]
        /\ state' = [n \in Node |-> IF n \in heard THEN "Initialized" ELSE state[n]]
  BY DEF HandleAssign
<1>2. UNCHANGED <<tag, nextId>> /\ bus' = bus \ {f} /\ f.op = "AssignID"
  BY DEF HandleAssign
<1>3. f.id # RootId
  BY <1>2 DEF AInv, Origins
<1>4. RootKept'
  BY <1>1, <1>2, NodeAssumption DEF AInv, RootKept, Hearing
<1>5. Ids'
  BY <1>1, <1>2, <1>3 DEF AInv, Ids
<1>6. Origins'
  BY <1>2 DEF AInv, Origins
<1>7. Pending'
  <2>1. ASSUME NEW n \in Node, state'[n] = "IdWaiting"
        PROVE  \E g \in bus' : \/ g.op = "Advertise" /\ g.by = n /\ g.src = tag[n]
                               \/ g.op = "AssignID" /\ g.dst \in {tag[n], Broadcast}
    <3>1. n \notin heard /\ state[n] = "IdWaiting"
      BY <1>1, <2>1
    <3>2. f.dst \notin {tag[n], Broadcast}
      BY <1>2, <3>1, WaiterHears
    <3>3. QED
      BY <1>2, <3>1, <3>2 DEF AInv, Pending
  <2>2. QED
    BY <1>2, <2>1 DEF Pending
<1>8. QED
  BY <1>4, <1>5, <1>6, <1>7 DEF AInv

LEMMA AOther ==
    ASSUME Alone, TypeOK, AInv, NEW n \in Node,
           \/ n \in Scanner /\ FindEnumeratedDevices(n)
           \/ AwaitEnumerated(n) \/ Suspend(n) \/ Resumed(n) \/ Restart(n)
    PROVE  AInv'
<1>1. CASE n \in Scanner /\ FindEnumeratedDevices(n)
  <2> DEFINE new == Send(n, GetSelfId(n), Broadcast, "ScanUnenumerated", NoAddress)
  <2>1. n = Root /\ GetSelfId(n) = RootId
    BY <1>1 DEF Alone, AInv, RootKept, GetSelfId
  <2>2. bus' = bus \cup {new} /\ UNCHANGED <<deviceVars, nextId>>
    BY <1>1 DEF FindEnumeratedDevices
  <2>3. new.op = "ScanUnenumerated" /\ new.src = RootId
    BY <2>1 DEF Send
  <2> HIDE DEF new
  <2>4. RootKept' /\ Ids' /\ Pending'
    BY <2>2 DEF AInv, RootKept, Ids, Pending, deviceVars
  <2>5. Origins'
    BY <2>2, <2>3 DEF AInv, Origins
  <2>6. QED
    BY <2>4, <2>5 DEF AInv
<1>2. CASE AwaitEnumerated(n) \/ Suspend(n) \/ Resumed(n)
  <2>1. UNCHANGED <<deviceVars, nextId, bus>>
    BY <1>2 DEF AwaitEnumerated, Suspend, Resumed
  <2>2. QED
    BY <2>1 DEF AInv, RootKept, Ids, Origins, Pending, deviceVars
<1>3. CASE Restart(n)
  <2>1. n # Root /\ bus' = bus /\ nextId'[Root] = nextId[Root]
    BY <1>3, NodeAssumption DEF Restart, TypeOK
  <2>2. /\ state'[n] = "NotInitialized" /\ self'[n] = 0 /\ tag'[n] = 0
        /\ \A m \in Node \ {n} :
               state'[m] = state[m] /\ self'[m] = self[m] /\ tag'[m] = tag[m]
    BY <1>3 DEF Restart, TypeOK
  <2>3. RootKept' /\ Ids' /\ Origins'
    BY <2>1, <2>2, NodeAssumption DEF AInv, RootKept, Ids, Origins, RootId
  <2>4. Pending'
    BY <2>1, <2>2 DEF AInv, Pending
  <2>5. QED
    BY <2>3, <2>4 DEF AInv
<1>4. QED
  BY <1>1, <1>2, <1>3

LEMMA AInvStep ==
    ~Lossy /\ Alone /\ TypeOK /\ AInv /\ NotExhausted' /\ [Next]_vars => AInv'
<1> SUFFICES ASSUME ~Lossy, Alone, TypeOK, AInv, NotExhausted', [Next]_vars
             PROVE  AInv'
  OBVIOUS
<1>1. CASE UNCHANGED vars
  BY <1>1 DEF vars, AInv, RootKept, Ids, Origins, Pending, deviceVars
<1>2. ASSUME NEW f \in bus, Deliver(f) PROVE AInv'
  BY <1>2, AScan, AAdvertise, AAssign DEF Deliver
<1>3. ASSUME NEW n \in Scanner, FindEnumeratedDevices(n) PROVE AInv'
  BY <1>3, AOther, NodeAssumption
<1>4. ASSUME NEW n \in Node,
             AwaitEnumerated(n) \/ Suspend(n) \/ Resumed(n) \/ Restart(n)
      PROVE  AInv'
  BY <1>4, AOther
<1>5. QED
  BY <1>1, <1>2, <1>3, <1>4, NodeAssumption DEF Next

LEMMA AInvCorrect ==
    ~Lossy /\ Alone /\ Spec /\ []NotExhausted => [](TypeOK /\ AInv)
<1>1. ~Lossy /\ Alone => (Spec /\ []NotExhausted => [](TypeOK /\ AInv))
  <2> SUFFICES ASSUME ~Lossy, Alone
               PROVE  Spec /\ []NotExhausted => [](TypeOK /\ AInv)
    OBVIOUS
  <2>1. TypeOK /\ AInv /\ NotExhausted' /\ [Next]_vars => AInv'
    BY AInvStep
  <2>2. QED
    BY <2>1, AInvInit, TypeCorrect, PTL DEF Spec
<1>2. QED
  BY <1>1

\* On a bus that loses nothing, a device that waits for an address has its question
\* or an answer to it on the way, however tags clash, frames overtake each other and
\* devices restart (enumerate_interface.hpp:290-303), provided that Root alone scans
\* and its 8-bit addresses last.
THEOREM AnswerUnderwayCorrect ==
    ~Lossy /\ Scanner = {Root} /\ Spec /\ []NotExhausted => []AnswerUnderway
<1>1. AInv => AnswerUnderway
  BY DEF AInv, Pending, AnswerUnderway
<1>2. ~Lossy /\ Alone /\ Spec /\ []NotExhausted => []AnswerUnderway
  BY <1>1, AInvCorrect, PTL
<1>3. QED
  BY <1>2 DEF Alone
-----------------------------------------------------------------------------
(* What Root tells its handler, on a bus that loses nothing, when no device *)
(* starts again.                                                           *)

LEMMA FInvInit == Init => FInv
<1> SUFFICES ASSUME Init PROVE FInv
  OBVIOUS
<1>1. bus = {} /\ Devs = {} /\ found[Root] = {}
  BY NodeAssumption DEF Init, Devs
<1>2. Told /\ OneEach
  BY <1>1 DEF Told, OneEach, Asked, Assigned
<1>3. Tagged
  BY DEF Init, Tagged
<1>4. QED
  BY <1>2, <1>3 DEF FInv

LEMMA FScan ==
    ASSUME ~Lossy, TypeOK, AInv, FInv, NEW f \in bus, HandleScan(f)
    PROVE  FInv'
<1>1. PICK heard \in Hearing(f, "NotInitialized") :
      \E byte \in Drawn(heard) :
        /\ tag' = [n \in Node |-> IF n \in heard THEN AdvertiseTag(byte[n])
                                                 ELSE tag[n]]
        /\ bus' = (bus \ {f}) \cup
               {Send(n, tag'[n], f.src, "Advertise", NoAddress) : n \in heard}
        /\ state' = [n \in Node |-> IF n \in heard THEN "IdWaiting" ELSE state[n]]
  BY DEF HandleScan
<1> DEFINE new(n) == Send(n, tag'[n], f.src, "Advertise", NoAddress)
<1>2. heard \subseteq Node \ {Root} /\ \A n \in heard : state[n] = "NotInitialized"
  BY DEF Hearing, AInv, RootKept
<1>3. UNCHANGED <<self, found>> /\ f.op = "ScanUnenumerated"
  BY DEF HandleScan
<1>4. \A n \in heard : tag'[n] \in Tags /\ state'[n] = "IdWaiting" /\ tag[n] = 0
  BY <1>1, <1>2, AddressArithmetic DEF Drawn, FInv, Tagged
<1>5. \A n \in Node \ heard : tag'[n] = tag[n] /\ state'[n] = state[n]
  BY <1>1
<1>6. \A n \in heard : /\ new(n).op = "Advertise" /\ new(n).src = tag'[n]
                       /\ About(new(n)) = tag'[n]
  BY DEF Send, About
<1>7. \A g \in bus' : (g \in bus /\ g # f) \/ \E n \in heard : g = new(n)
  BY <1>1
<1>8. bus \ {f} \subseteq bus'
  BY <1>1
<1> HIDE DEF new
<1>9. 0 \notin Tags
  BY AddressAssumption DEF Tags
<1>10. Tagged'
  BY <1>2, <1>4, <1>5, <1>9 DEF FInv, Tagged
<1>11. ASSUME ~Clash' PROVE Told' /\ OneEach'
  <2>1. \A n, m \in Node \ {Root} : n # m /\ tag'[n] # 0 => tag'[n] # tag'[m]
    BY <1>11 DEF Clash
  <2>2. ~Clash
    BY <1>11, <1>4, <1>5, <1>9, <2>1, AddressAssumption DEF Clash, Broadcast
  <2>3. Told /\ OneEach
    BY <2>2 DEF FInv
  <2>4. Devs' = Devs
    BY <1>2, <1>4, <1>5 DEF Devs
  <2>5. Assigned' = Assigned
    BY <1>3, <1>6, <1>7, <1>8 DEF Assigned
  <2>6. Told'
    BY <1>3, <2>3, <2>4, <2>5 DEF Told
  <2>7. \A g \in Asked' : g \in Asked \/ \E n \in heard : g = new(n)
    BY <1>7 DEF Asked
  <2>8. ASSUME NEW g \in Asked
        PROVE  \E n \in (Node \ {Root}) \ heard :
                   state'[n] = "IdWaiting" /\ tag'[n] = About(g)
    <3>1. PICK n \in Node \ {Root} : state[n] = "IdWaiting" /\ tag[n] = About(g)
      BY <2>3 DEF OneEach
    <3>2. n \notin heard
      BY <1>2, <3>1
    <3>3. QED
      BY <1>5, <3>1, <3>2
  <2>9. ASSUME NEW g \in Asked, NEW n \in heard
        PROVE  About(g) # About(new(n))
    BY <1>2, <1>4, <1>6, <1>9, <2>1, <2>8
  <2>10. ASSUME NEW n \in heard, NEW m \in heard, About(new(n)) = About(new(m))
         PROVE  n = m
    BY <1>2, <1>4, <1>6, <1>9, <2>1, <2>10
  <2>11. \A g \in Asked' : \E n \in Node \ {Root} :
             state'[n] = "IdWaiting" /\ tag'[n] = About(g)
    BY <1>2, <1>4, <1>6, <2>7, <2>8
  <2>12. \A g, h \in Asked' : About(g) = About(h) => g = h
    BY <2>3, <2>7, <2>9, <2>10 DEF OneEach
  <2>13. QED
    BY <2>6, <2>11, <2>12 DEF OneEach, About
<1>12. QED
  BY <1>10, <1>11 DEF FInv

LEMMA FAdvertise ==
    ASSUME ~Lossy, TypeOK, AInv, FInv, NEW f \in bus, HandleAdvertise(f)
    PROVE  FInv'
<1>1. PICK heard \in Hearing(f, "Initialized") :
        /\ bus' = (bus \ {f}) \cup
               {Send(n, self[n], f.src, "AssignID", nextId[n]) : n \in heard}
        /\ found' = [n \in Node |-> IF n \in heard THEN found[n] \cup {nextId[n]}
                                                   ELSE found[n]]
  BY DEF HandleAdvertise
<1> DEFINE new == Send(Root, self[Root], f.src, "AssignID", nextId[Root])
<1>2. UNCHANGED deviceVars /\ f.op = "Advertise"
  BY DEF HandleAdvertise
<1>3. heard = {Root}
  BY <1>2, RootHears
<1>4. bus' = (bus \ {f}) \cup {new} /\ found'[Root] = found[Root] \cup {new.id}
  BY <1>1, <1>3, NodeAssumption DEF Send
<1>5. new.op = "AssignID" /\ new.dst = f.src
  BY DEF Send
<1> HIDE DEF new
<1>6. About(new) = About(f) /\ f \in Asked
  BY <1>2, <1>5 DEF About, Asked
<1>7. Tagged' /\ (Clash' <=> Clash) /\ Devs' = Devs
  BY <1>2 DEF FInv, Tagged, Clash, Devs, deviceVars
<1>8. ASSUME ~Clash PROVE Told' /\ OneEach'
  <2>1. Told /\ OneEach
    BY <1>8 DEF FInv
  <2>2. Assigned' = Assigned \cup {new}
    BY <1>2, <1>4, <1>5 DEF Assigned
  <2>3. {g.id : g \in Assigned'} = {g.id : g \in Assigned} \cup {new.id}
    BY <2>2
  <2>4. {self'[n] : n \in Devs'} = {self[n] : n \in Devs}
    BY <1>2, <1>7 DEF deviceVars
  <2>5. Told'
    BY <1>4, <2>1, <2>3, <2>4 DEF Told
  <2>6. Asked' = (Asked \ {f}) \cup {new}
    BY <1>2, <1>4, <1>5 DEF Asked
  <2>7. \A g \in Asked' : \E n \in Node \ {Root} :
            state[n] = "IdWaiting" /\ tag[n] = About(g)
    BY <1>6, <2>1, <2>6 DEF OneEach
  <2>8. \A g, h \in Asked' : About(g) = About(h) => g = h
    BY <1>6, <2>1, <2>6 DEF OneEach
  <2>9. QED
    BY <1>2, <2>5, <2>7, <2>8 DEF OneEach, About, deviceVars
<1>9. QED
  BY <1>7, <1>8 DEF FInv

LEMMA FAssign ==
    ASSUME ~Lossy, TypeOK, AInv, FInv, NEW f \in bus, HandleAssign(f)
    PROVE  FInv'
<1>1. PICK heard \in Hearing(f, "IdWaiting") :
        /\ self' = [n \in Node |-> IF n \in heard THEN f.id ELSE self[n]]
        /\ state' = [n \in Node |-> IF n \in heard THEN "Initialized" ELSE state[n]]
  BY DEF HandleAssign
<1>2. UNCHANGED <<tag, found>> /\ bus' = bus \ {f} /\ f.op = "AssignID"
  BY DEF HandleAssign
<1>3. heard \subseteq Node /\ \A n \in heard : state[n] = "IdWaiting"
  BY DEF Hearing
<1>4. Tagged'
  BY <1>1, <1>2, <1>3 DEF FInv, Tagged
<1>5. Clash' <=> Clash
  BY <1>2 DEF Clash
<1>6. ASSUME ~Clash PROVE Told' /\ OneEach'
  <2>1. Told /\ OneEach
    BY <1>6 DEF FInv
  <2>2. f \in Asked /\ About(f) = f.dst
    BY <1>2 DEF Asked, About
  <2>3. PICK n \in Node \ {Root} : state[n] = "IdWaiting" /\ tag[n] = f.dst
    BY <2>1, <2>2 DEF OneEach
  <2>4. f.dst # 0 /\ f.dst # Broadcast
    BY <1>6, <2>3 DEF FInv, Tagged, Clash
  <2>5. ASSUME NEW m \in Node
        PROVE  m \in heard <=> state[m] = "IdWaiting" /\ f.dst \in {tag[m], Broadcast, 0}
    BY <1>2, WaiterHears
  <2>6. n \in heard
    BY <2>3, <2>5
  <2>7. ASSUME NEW m \in heard PROVE m = n
    <3>1. m \in Node /\ state[m] = "IdWaiting" /\ tag[m] = f.dst
      BY <1>3, <2>4, <2>5
    <3>2. m # Root
      BY <3>1 DEF AInv, RootKept
    <3>3. QED
      BY <1>6, <2>3, <2>4, <3>1, <3>2 DEF Clash
  <2>8. /\ self'[n] = f.id /\ state'[n] = "Initialized"
        /\ \A m \in Node \ {n} : self'[m] = self[m] /\ state'[m] = state[m]
    BY <1>1, <2>6, <2>7
  <2>9. Devs' = Devs \cup {n} /\ n \notin Devs
    BY <2>3, <2>8 DEF Devs
  <2>10. {self'[m] : m \in Devs'} = {self[m] : m \in Devs} \cup {f.id}
    <3>1. \A m \in Devs : self'[m] = self[m]
      BY <2>8, <2>9 DEF Devs
    <3>2. QED
      BY <2>8, <2>9, <3>1
  <2>11. Assigned = Assigned' \cup {f}
    BY <1>2 DEF Assigned
  <2>12. {g.id : g \in Assigned} = {g.id : g \in Assigned'} \cup {f.id}
    BY <2>11
  <2>13. Told'
    BY <1>2, <2>1, <2>10, <2>12 DEF Told
  <2>14. Asked' = Asked \ {f}
    BY <1>2 DEF Asked
  <2>15. ASSUME NEW g \in Asked'
         PROVE  \E m \in Node \ {Root} : state'[m] = "IdWaiting" /\ tag[m] = About(g)
    <3>1. g \in Asked /\ g # f
      BY <2>14
    <3>2. PICK m \in Node \ {Root} : state[m] = "IdWaiting" /\ tag[m] = About(g)
      BY <2>1, <3>1 DEF OneEach
    <3>3. m # n
      BY <2>1, <2>2, <2>3, <3>1, <3>2 DEF OneEach
    <3>4. QED
      BY <2>8, <3>2, <3>3
  <2>16. \A g, h \in Asked' : About(g) = About(h) => g = h
    BY <2>1, <2>14 DEF OneEach
  <2>17. QED
    BY <1>2, <2>13, <2>15, <2>16 DEF OneEach, About
<1>7. QED
  BY <1>4, <1>5, <1>6 DEF FInv

LEMMA FInvStep ==
    ~Lossy /\ Alone /\ MaxRestarts = 0 /\ TypeOK /\ AInv /\ FInv /\ [Next]_vars
        => FInv'
<1> SUFFICES ASSUME ~Lossy, Alone, MaxRestarts = 0, TypeOK, AInv, FInv, [Next]_vars
             PROVE  FInv'
  OBVIOUS
<1>1. ASSUME UNCHANGED <<deviceVars, found, bus>> PROVE FInv'
  BY <1>1 DEF FInv, Tagged, Clash, Told, OneEach, Asked, Assigned, About, Devs,
              deviceVars
<1>2. ASSUME NEW f \in bus, Deliver(f) PROVE FInv'
  BY <1>2, FScan, FAdvertise, FAssign DEF Deliver
<1>3. ASSUME NEW n \in Scanner, FindEnumeratedDevices(n) PROVE FInv'
  <2> DEFINE new == Send(n, GetSelfId(n), Broadcast, "ScanUnenumerated", NoAddress)
  <2>1. bus' = bus \cup {new} /\ UNCHANGED <<deviceVars, found>>
    BY <1>3 DEF FindEnumeratedDevices
  <2>2. new.op = "ScanUnenumerated"
    BY DEF Send
  <2> HIDE DEF new
  <2>3. Asked' = Asked /\ Assigned' = Assigned
    BY <2>1, <2>2 DEF Asked, Assigned
  <2>4. QED
    BY <2>1, <2>3 DEF FInv, Tagged, Clash, Told, OneEach, About, Devs, deviceVars
<1>4. ASSUME NEW n \in Node, AwaitEnumerated(n) \/ Suspend(n) \/ Resumed(n)
      PROVE  FInv'
  BY <1>1, <1>4 DEF AwaitEnumerated, Suspend, Resumed
<1>5. ASSUME NEW n \in Node PROVE ~Restart(n)
  BY DEF Restart, TypeOK
<1>6. QED
  BY <1>1, <1>2, <1>3, <1>4, <1>5, NodeAssumption DEF Next, vars

\* Once the bus is quiet, what OnDeviceFound was told (enumerate_interface.hpp:300)
\* are the addresses of the devices, neither fewer nor more, provided that Root
\* alone scans, nothing is lost, nobody starts again and the addresses last.
THEOREM FoundAreDevicesCorrect ==
    ~Lossy /\ Scanner = {Root} /\ MaxRestarts = 0 /\ Spec /\ []NotExhausted
        => []FoundAreDevices
<1>1. TypeOK /\ AInv /\ FInv => FoundAreDevices
  <2> SUFFICES ASSUME TypeOK, AInv, FInv, bus = {},
                      \A n \in Devs : tag[n] # Broadcast,
                      \A n, m \in Devs : n # m => tag[n] # tag[m]
               PROVE  found[Root] = {self[n] : n \in Devs}
    BY DEF FoundAreDevices, Devs
  <2>1. \A n \in Node \ {Root} : n \in Devs \/ tag[n] = 0
    BY DEF AInv, Pending, FInv, Tagged, Devs, TypeOK, State
  <2>2. Broadcast # 0
    BY AddressAssumption DEF Broadcast
  <2>3. ~Clash
    BY <2>1, <2>2 DEF Clash
  <2>4. Assigned = {}
    BY DEF Assigned
  <2>5. QED
    BY <2>3, <2>4 DEF FInv, Told
<1>2. ~Lossy /\ Alone /\ MaxRestarts = 0 =>
          (Spec /\ []NotExhausted => []FoundAreDevices)
  <2> SUFFICES ASSUME ~Lossy, Alone, MaxRestarts = 0
               PROVE  Spec /\ []NotExhausted => []FoundAreDevices
    OBVIOUS
  <2>1. TypeOK /\ AInv /\ FInv /\ [Next]_vars => FInv'
    BY FInvStep
  <2>2. Spec /\ []NotExhausted => [](TypeOK /\ AInv)
    BY AInvCorrect
  <2>3. QED
    BY <1>1, <2>1, <2>2, FInvInit, PTL DEF Spec
<1>3. QED
  BY <1>2 DEF Alone
===============================================================================
