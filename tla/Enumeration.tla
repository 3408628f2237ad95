------------------------------ MODULE Enumeration ------------------------------
(***************************************************************************)
(* How the devices of one CAN bus get their addresses                      *)
(* (network/interface/enumerate_interface.hpp, device/device.hpp): a       *)
(* scanner broadcasts kScanUnenumerated, a device without an address       *)
(* answers kAdvertise under a random tag, and whoever has an address and   *)
(* gets the kAdvertise hands out the next one of its DeviceIDManager with  *)
(* kAssignID.  AwaitEnumerated suspends a coroutine until that is done.    *)
(*                                                                         *)
(* CAN is an atomic broadcast: a frame leaves its sender's mailbox and is  *)
(* handled by every node that hears it.  The handlers of one frame touch   *)
(* only their own node and send frames of their own, so one step stands    *)
(* for all of them.  Frames wait in no order: arbitration decides.  No     *)
(* source says which context CANBase calls OnRx in, so a handler may also  *)
(* run between any two steps of a coroutine.                               *)
(***************************************************************************)
EXTENDS Naturals

CONSTANTS
    Node,         \* everything on the bus with an EnumerateInterface
    Root,         \* the node its application makes Address::Root()
    Scanner,      \* nodes whose application calls FindEnumeratedDevices
    Waiter,       \* nodes whose application awaits AwaitEnumerated
    Half,         \* 128: an Address has 2 * Half values
    RandomByte,   \* [Node -> SUBSET Address], what Random::GetByte() may return
    NoAddress,    \* std::nullopt
    Lossy,        \* a node may miss a frame
    MaxScans,     \* bound: calls of FindEnumeratedDevices per scanner
    MaxRestarts   \* bound: restarts of each node but Root

Address   == 0 .. 2 * Half - 1
Broadcast == 2 * Half - 1
RootId    == 1
Tags      == Half .. 2 * Half - 1

ASSUME NodeAssumption ==
    Root \in Node /\ Scanner \subseteq Node /\ Waiter \subseteq Node
ASSUME AddressAssumption ==
    /\ Half \in Nat \ {0, 1}
    /\ RandomByte \in [Node -> SUBSET Address]
    /\ NoAddress \notin Address
ASSUME EnvironmentAssumption ==
    /\ Lossy \in BOOLEAN
    /\ MaxScans \in Nat
    /\ MaxRestarts \in Nat

VARIABLES
    \* Device
    state, self, tag,
    \* EnumerateInterface
    nextId,    \* last_available_device_id_ of its DeviceIDManager
    found,     \* what its handler was told by OnDeviceFound
    \* the coroutine that awaits AwaitEnumerated, and what that returned
    await, answer,
    \* the CAN bus
    bus,       \* frames that wait for the bus
    sent,      \* frames each node has sent, which number them
    \* bounds
    scans, restarts

deviceVars == <<state, self, tag>>
awaitVars  == <<await, answer>>
boundVars  == <<scans, restarts>>
vars == <<deviceVars, nextId, found, awaitVars, bus, sent, boundVars>>

State == {"NotInitialized", "IdWaiting", "Initialized"}

\* by and no say which transmission it is; no node sees them.
Frame ==
    [by : Node, no : Nat, src : Address, dst : Address,
     op : {"ScanUnenumerated", "Advertise"}, id : {NoAddress}]
    \cup
    [by : Node, no : Nat, src : Address, dst : Address,
     op : {"AssignID"}, id : Address]

\* "checked" is between the test of IsInitialized() and the suspension, "scheduled"
\* is in the resume list of the loop, "undefined" has awaited a coroutine that is
\* gone.
Await == {"none", "checked", "parked", "scheduled", "returned", "undefined"}

Init ==
    /\ state = [n \in Node |-> IF n = Root THEN "Initialized" ELSE "NotInitialized"]
    /\ self = [n \in Node |-> IF n = Root THEN RootId ELSE 0]
    /\ tag = [n \in Node |-> 0]
    /\ nextId = [n \in Node |-> 2]
    /\ found = [n \in Node |-> {}]
    /\ await = [n \in Node |-> "none"]
    /\ answer = [n \in Node |-> NoAddress]
    /\ bus = {}
    /\ sent = [n \in Node |-> 0]
    /\ scans = [n \in Node |-> 0]
    /\ restarts = [n \in Node |-> 0]

-----------------------------------------------------------------------------
GetSelfId_Tag(n) == tag[n]

\* Device::GetSelfId
GetSelfId(n) == IF state[n] = "Initialized" THEN self[n] ELSE tag[n]

IsToSelf_Untagged(n, f) ==
    f.src # self[n] /\ f.dst \in {Broadcast, self[n]}

\* Device::IsToSelf.  The tag is never cleared, and a device that has no address
\* yet takes 0 for its own.
IsToSelf(n, f) ==
    /\ f.src # self[n]
    /\ f.dst \in {Broadcast, self[n], tag[n]}

AdvertiseTag_Added(byte) == byte + Half

\* Random::GetByte() | 0x80
AdvertiseTag(byte) == IF byte < Half THEN byte + Half ELSE byte

\* The bytes some nodes draw.
Drawn(nodes) ==
    {byte \in [nodes -> Address] : \A n \in nodes : byte[n] \in RandomByte[n]}

Following_Same(id) == id

\* DeviceIDManager::GetAvailableDeviceID leaves the next 8-bit address.
Following(id) == (id + 1) % (2 * Half)

\* InterfaceCANTx::Send by n, whose GetSelfId() is src by then.
Send(n, src, dst, op, id) ==
    [by |-> n, no |-> sent[n], src |-> src, dst |-> dst, op |-> op, id |-> id]

Hearing_AnyState(f, s) ==
    LET addressed == {n \in Node \ {f.by} : IsToSelf(n, f)}
    IN  IF Lossy THEN SUBSET addressed ELSE {addressed}

\* The nodes that hear frame f and take the branch of HandleRxAsync for the ones
\* in a given state; any of them may miss the frame on a lossy bus.
Hearing(f, s) ==
    LET addressed == {n \in Node \ {f.by} : IsToSelf(n, f) /\ state[n] = s}
    IN  IF Lossy THEN SUBSET addressed ELSE {addressed}

-----------------------------------------------------------------------------
\* FindEnumeratedDevices
FindEnumeratedDevices(n) ==
    /\ scans[n] < MaxScans
    /\ scans' = [scans EXCEPT ![n] = @ + 1]
    /\ bus' = bus \cup
           {Send(n, GetSelfId(n), Broadcast, "ScanUnenumerated", NoAddress)}
    /\ sent' = [sent EXCEPT ![n] = @ + 1]
    /\ UNCHANGED <<deviceVars, nextId, found, awaitVars, restarts>>

\* HandleRxAsync, kScanUnenumerated: the advertisement goes out under the tag.
HandleScan(f) ==
    /\ f.op = "ScanUnenumerated"
    /\ \E heard \in Hearing(f, "NotInitialized") :
       \E byte \in Drawn(heard) :
        /\ tag' = [n \in Node |-> IF n \in heard THEN AdvertiseTag(byte[n])
                                                 ELSE tag[n]]
        /\ bus' = (bus \ {f}) \cup
               {Send(n, tag'[n], f.src, "Advertise", NoAddress) : n \in heard}
        /\ state' = [n \in Node |-> IF n \in heard THEN "IdWaiting" ELSE state[n]]
        /\ sent' = [n \in Node |-> IF n \in heard THEN sent[n] + 1 ELSE sent[n]]
    /\ UNCHANGED <<self, nextId, found, awaitVars, boundVars>>

\* HandleRxAsync, kAdvertise: OnDeviceFound is called as soon as the address is
\* on its way.
HandleAdvertise(f) ==
    /\ f.op = "Advertise"
    /\ \E heard \in Hearing(f, "Initialized") :
        /\ bus' = (bus \ {f}) \cup
               {Send(n, self[n], f.src, "AssignID", nextId[n]) : n \in heard}
        /\ sent' = [n \in Node |-> IF n \in heard THEN sent[n] + 1 ELSE sent[n]]
        /\ found' = [n \in Node |-> IF n \in heard THEN found[n] \cup {nextId[n]}
                                                   ELSE found[n]]
        /\ nextId' = [n \in Node |-> IF n \in heard THEN Following(nextId[n])
                                                    ELSE nextId[n]]
    /\ UNCHANGED <<deviceVars, awaitVars, boundVars>>

HasWaiter_Inverted(n) == await[n] # "parked"

\* LazyResumerAwaiter::await_ready: is there anyone to resume?
HasWaiter(n) == await[n] = "parked"

\* HandleRxAsync, kAssignID: a waiter is resumed if one is parked by now.
HandleAssign(f) ==
    /\ f.op = "AssignID"
    /\ \E heard \in Hearing(f, "IdWaiting") :
        /\ self' = [n \in Node |-> IF n \in heard THEN f.id ELSE self[n]]
        /\ state' = [n \in Node |-> IF n \in heard THEN "Initialized" ELSE state[n]]
        /\ await' = [n \in Node |-> IF n \in heard /\ HasWaiter(n)
                                    THEN "scheduled" ELSE await[n]]
        /\ answer' = [n \in Node |-> IF n \in heard /\ HasWaiter(n)
                                     THEN f.id ELSE answer[n]]
    /\ bus' = bus \ {f}
    /\ UNCHANGED <<tag, nextId, found, sent, boundVars>>

-----------------------------------------------------------------------------
\* AwaitEnumerated up to its co_await.  On a device that has an address it returns
\* at once, and its frame is destroyed (promise.hpp:55) before the caller asks the
\* promise in it (coroutine_awaiter.hpp:25).
AwaitEnumerated(n) ==
    /\ await[n] = "none"
    /\ await' = [await EXCEPT ![n] = IF state[n] = "Initialized" THEN "undefined"
                                                                ELSE "checked"]
    /\ UNCHANGED <<deviceVars, nextId, found, answer, bus, sent, boundVars>>

\* LazyResumerAwaiter::await_ready is false without a waiter: it suspends.
Suspend(n) ==
    /\ await[n] = "checked"
    /\ await' = [await EXCEPT ![n] = "parked"]
    /\ UNCHANGED <<deviceVars, nextId, found, answer, bus, sent, boundVars>>

\* The loop resumes the coroutine, which returns the value it was resumed with.
Resumed(n) ==
    /\ await[n] = "scheduled"
    /\ await' = [await EXCEPT ![n] = "returned"]
    /\ UNCHANGED <<deviceVars, nextId, found, answer, bus, sent, boundVars>>

-----------------------------------------------------------------------------
\* A device starts again: nothing is persistent.  What it has sent may still
\* arrive.
Restart(n) ==
    /\ n # Root
    /\ restarts[n] < MaxRestarts
    /\ restarts' = [restarts EXCEPT ![n] = @ + 1]
    /\ state' = [state EXCEPT ![n] = "NotInitialized"]
    /\ self' = [self EXCEPT ![n] = 0]
    /\ tag' = [tag EXCEPT ![n] = 0]
    /\ nextId' = [nextId EXCEPT ![n] = 2]
    /\ found' = [found EXCEPT ![n] = {}]
    /\ await' = [await EXCEPT ![n] = "none"]
    /\ answer' = [answer EXCEPT ![n] = NoAddress]
    /\ UNCHANGED <<bus, sent, scans>>

Deliver(f) == HandleScan(f) \/ HandleAdvertise(f) \/ HandleAssign(f)

Next ==
    \/ \E f \in bus : Deliver(f)
    \/ \E n \in Scanner : FindEnumeratedDevices(n)
    \/ \E n \in Waiter : AwaitEnumerated(n)
    \/ \E n \in Node :
           \/ Suspend(n)
           \/ Resumed(n)
           \/ Restart(n)

Spec == Init /\ [][Next]_vars

\* The bus carries what waits for it, a coroutine that runs goes on to its next
\* co_await, and the loop resumes what it was given.
Fairness ==
    /\ WF_vars(\E f \in bus : Deliver(f))
    /\ \A n \in Node : WF_vars(Suspend(n)) /\ WF_vars(Resumed(n))

FairSpec == Spec /\ Fairness

-----------------------------------------------------------------------------
TypeOK ==
    /\ state \in [Node -> State]
    /\ self \in [Node -> Address]
    /\ tag \in [Node -> Address]
    /\ nextId \in [Node -> Address]
    /\ found \in [Node -> SUBSET Address]
    /\ await \in [Node -> Await]
    /\ answer \in [Node -> Address \cup {NoAddress}]
    /\ bus \subseteq Frame
    /\ sent \in [Node -> Nat]
    /\ scans \in [Node -> 0 .. MaxScans]
    /\ restarts \in [Node -> 0 .. MaxRestarts]

\* A device ID identifies a device for communication (docs/interfaces.md:73): no
\* two nodes that have an address have the same one (enumerate_interface.hpp:301).
UniqueIds ==
    \A n, m \in Node :
        n # m /\ state[n] = "Initialized" /\ state[m] = "Initialized"
            => self[n] # self[m]

\* No two devices wait for an address under one tag, and none under Broadcast:
\* Random::GetByte() | 0x80 (enumerate_interface.hpp:291) cannot promise either.
NoTagClash ==
    \A n \in Node : state[n] = "IdWaiting" =>
        /\ tag[n] # Broadcast
        /\ \A m \in Node \ {n} : state[m] = "IdWaiting" => tag[m] # tag[n]

\* The DeviceIDManager of Root has not run through the 8-bit addresses
\* (device_id_manager.hpp:18).
NotExhausted == nextId[Root] # 0

\* Whoever was resumed in AwaitEnumerated gets the address the device still has
\* when it runs (enumerate_interface.hpp:306, 414-416), however tags clash.
ReturnsOwnId ==
    \A n \in Node : await[n] \in {"scheduled", "returned"} =>
        state[n] = "Initialized" /\ answer[n] = self[n]

\* A coroutine stays suspended in AwaitEnumerated only as long as the device has
\* no address: Resume may be called "from an ISR context" (lazy_resumer.hpp:8),
\* and nothing but that one call will ever resume it.
NoLostWakeup ==
    \A n \in Node : await[n] = "parked" => state[n] # "Initialized"

\* await_ready tells whether what is awaited was carried out (generic_awaiter.hpp:29),
\* so nobody may ask that of an AwaitEnumerated that is gone.
AwaitsTheLiving == \A n \in Node : await[n] # "undefined"

\* On a bus that loses nothing, the answer to a device that waits for an address
\* is always on its way, even when tags clash (enumerate_interface.hpp:290-303).
AnswerUnderway ==
    \A n \in Node : state[n] = "IdWaiting" =>
        \E f \in bus : \/ f.op = "Advertise" /\ f.by = n
                       \/ f.op = "AssignID" /\ f.dst \in {tag[n], Broadcast}

\* OnDeviceFound (enumerate_interface.hpp:300) is called before the device has
\* its address; once the bus is quiet, it named the devices there are, if no frame
\* was lost, no device started again and each drew a tag of its own.
FoundAreDevices ==
    LET devices == {n \in Node \ {Root} : state[n] = "Initialized"}
    IN  /\ bus = {}
        /\ \A n \in devices : tag[n] # Broadcast
        /\ \A n, m \in devices : n # m => tag[n] # tag[m]
        => found[Root] = {self[n] : n \in devices}

\* One scan gets every device its address, when no frame is lost and no device
\* starts again (enumerate_interface.hpp:436).
Enumerated ==
    (\E f \in bus : f.op = "ScanUnenumerated" /\ f.src = RootId)
        ~> \A n \in Node : state[n] = "Initialized"

\* Whoever is suspended in AwaitEnumerated (enumerate_interface.hpp:414) before the
\* device has its address is resumed with it once there was a scan, when no frame
\* is lost and no device starts again.
Awaited ==
    \A n \in Node :
        await[n] = "parked" /\ state[n] # "Initialized" /\ scans[Root] > 0
            ~> await[n] = "returned"
===============================================================================
