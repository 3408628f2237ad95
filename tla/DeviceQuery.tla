------------------------------- MODULE DeviceQuery -------------------------------
(***************************************************************************)
(* Enumerated devices ask each other what they are                         *)
(* (network/interface/enumerate_interface.hpp): the coroutine QueryDevice  *)
(* asks for the device, for each of its interfaces, and for every string   *)
(* in pieces; FindInterface collects for a while who has an interface.     *)
(*                                                                         *)
(* A reply resumes the coroutine inside the handler, which runs until the  *)
(* next ReceiveAwait, so a handler is one step.  Frames wait in no order,  *)
(* and the bus loses none: nothing repeats a lost request.  The three-way  *)
(* handshake is module Enumeration: the nodes here have their addresses    *)
(* and keep them.                                                          *)
(***************************************************************************)
EXTENDS P2PMessageID, SyncReceive, FiniteSets, Bags

CONSTANTS
    Node,         \* enumerated devices
    Addr,         \* [Node -> 1 .. 254], self_ of each
    Port,         \* the port their EnumerateInterface is at
    Creator,      \* [Node -> strings], SetCreator
    Name,         \* [Node -> strings], SetName
    Initial,      \* [Node -> sets of interfaces] when the queries begin
    Later,        \* bound: <<node, interface>> that AddInterface may add
    Query,        \* calls of Query
    Caller,       \* [Query -> Node]
    Targets,      \* [Query -> sets of nodes], which their callers may ask
    Searching,    \* nodes that call FindInterface, once: a bound
    Wanted,       \* the interface id they look for
    Width,        \* 256: values of a byte of a message
    Chunk,        \* 4: characters of a kStringResponse
    Concurrent    \* a node may have several calls under way

Broadcast == 255

\* A string is a sequence of characters, a character is a byte.
Strings    == Seq(0 .. Width - 1)
Interfaces == [port : 0 .. Width - 1, id : 0 .. Width - 1, name : Strings]

ASSUME NodeAssumption ==
    /\ Addr \in [Node -> 1 .. 254]
    /\ \A m, n \in Node : Addr[m] = Addr[n] => m = n
    /\ Port \in Byte
    /\ Caller \in [Query -> Node]
    /\ \A q \in Query : Targets[q] \subseteq Node \ {Caller[q]}
    /\ Searching \subseteq Node
    /\ Concurrent \in BOOLEAN
ASSUME DataAssumption ==
    /\ Width \in 2 .. 256
    /\ Chunk \in Nat \ {0}
    /\ Creator \in [Node -> Strings]
    /\ Name \in [Node -> Strings]
    /\ Initial \in [Node -> SUBSET Interfaces]
    /\ \A n \in Node : \A i, j \in Initial[n] : i.port = j.port => i = j
    /\ Wanted \in 0 .. Width - 1
    /\ Later \subseteq Node \X Interfaces

VARIABLES
    interfaces,   \* Device::interfaces, without the null ones
    collected_interfaces, collected_strings,
    wait_queue,
    query,        \* the coroutine of each query
    search,       \* the coroutine of each FindInterface
    find_interface_results,
    bus           \* bag of frames

vars == <<interfaces, collected_interfaces, collected_strings, wait_queue,
          query, search, find_interface_results, bus>>

\* A coroutine that has not begun.  known and missed are history variables.
Unasked == [at |-> "idle", dev |-> 0, known |-> {}]
Unsearched == [at |-> "idle", known |-> {}, missed |-> {}, found |-> <<>>]

Init ==
    /\ interfaces = Initial
    /\ collected_interfaces = [n \in Node |-> <<>>]
    /\ collected_strings = [n \in Node |-> <<>>]
    /\ wait_queue = [n \in Node |-> Clear]
    /\ query = [q \in Query |-> Unasked]
    /\ search = [n \in Node |-> Unsearched]
    /\ find_interface_results = [n \in Node |-> <<>>]
    /\ bus = EmptyBag

-----------------------------------------------------------------------------
IsToSelf_Unicast(n, id) == GetDestination(id) = Addr[n]

\* Device::IsToSelf of n; its advertisement tag is out of use.
IsToSelf(n, id) ==
    /\ GetSource(id) # Addr[n]
    /\ GetDestination(id) \in {Broadcast, Addr[n]}

\* What a frame carries: an opcode, and what follows it.
Message(op, args) == [op |-> op, args |-> args]

\* InterfaceCANTx::Send by n: a copy of the frame for every node that
\* RobobusOnCAN and HandleP2PMessage will pass it on in.
Frames(n, dest, data) ==
    LET id == FromParts(Addr[n], dest, Port)
    IN  {[to |-> m, id |-> id, data |-> data] :
            m \in {m \in Node : /\ GetKind(id) = kRawP2P
                                /\ IsToSelf(m, id)
                                /\ GetID(id) = Port}}

Sent(n, dest, data) == SetToBag(Frames(n, dest, data))

-----------------------------------------------------------------------------
(* The one who is asked. *)

Low_Whole(k) == k

\* static_cast<uint8_t>, & 0xFF: what a byte of a message holds.
Low(k) == k % Width

\* CollectingEncoder::Encode: what it has collected afterwards.
Encode(collected, value) ==
    IF value \in Range(collected) THEN collected ELSE Append(collected, value)

EncodeAll(collected, values) ==
    LET first[k \in 0 .. Len(values)] ==
            IF k = 0 THEN collected ELSE Encode(first[k - 1], values[k])
    IN  first[Len(values)]

\* ... and the index it returns.
Index(collected, value) == Low(SelectInSeq(collected, LAMBDA v : v = value) - 1)

Collected_ButLast(collected, index) ==
    IF index + 1 < Len(collected) THEN {collected[index + 1]} ELSE {}

\* CollectingEncoder::operator[]: the value with an index, if there is one.
Collected(collected, index) ==
    IF index < Len(collected) THEN {collected[index + 1]} ELSE {}

\* SendString writes the length in bytes, the lowest first, and 0 in none.
LengthBytes[k \in Nat] ==
    IF k = 0 THEN <<>> ELSE <<Low(k)>> \o LengthBytes[k \div Width]

\* ... and the characters of a chunk, the first of which is chunk 1.
Piece(str, index) ==
    SubSeq(str, (index - 1) * Chunk + 1,
           IF index * Chunk < Len(str) THEN index * Chunk ELSE Len(str))

\* One copy of frame f has been handled, and n answers its sender.
Handled(f) == bus (-) SetToBag({f})
Replied(n, f, data) == bus' = Handled(f) (+) Sent(n, GetSource(f.id), data)

HandleQueryDevice(n, f) ==
    \E order \in SetToSeqs(interfaces[n]) :   \* of the unordered_map
        LET strings == EncodeAll(collected_strings[n], <<Creator[n], Name[n]>>)
        IN  /\ collected_interfaces' =
                   [collected_interfaces EXCEPT ![n] = EncodeAll(@, order)]
            /\ collected_strings' = [collected_strings EXCEPT ![n] = strings]
            /\ Replied(n, f, Message("Device",
                   <<Low(Len(order)), Index(strings, Creator[n]), Index(strings, Name[n])>>))

HandleQueryInterface(n, f) ==
    LET index == f.data.args[1]
        found == Collected(collected_interfaces[n], index)
    IN  /\ UNCHANGED collected_interfaces
        /\ IF found = {}
           THEN bus' = Handled(f) /\ UNCHANGED collected_strings
           ELSE \E intf \in found :
                    LET strings == Encode(collected_strings[n], intf.name)
                    IN  /\ collected_strings' = [collected_strings EXCEPT ![n] = strings]
                        /\ Replied(n, f, Message("Interface",
                               <<index, intf.port, intf.id, Index(strings, intf.name)>>))

HandleQueryString(n, f) ==
    LET id == f.data.args[1]
        index == f.data.args[2]
        found == Collected(collected_strings[n], id)
    IN  /\ UNCHANGED <<collected_interfaces, collected_strings>>
        /\ IF found = {}
           THEN bus' = Handled(f)
           ELSE \E str \in found :
                    Replied(n, f, Message("StringResponse", <<id, index>> \o
                      IF index = 0 THEN LengthBytes[Len(str)] ELSE Piece(str, index)))

\* RobobusNetwork::AddInterface, Device::AddInterface: a port is taken once.
AddInterface(n, intf) ==
    /\ \A i \in interfaces[n] : i.port # intf.port
    /\ interfaces' = [interfaces EXCEPT ![n] = @ \cup {intf}]
    /\ UNCHANGED <<collected_interfaces, collected_strings, wait_queue, query,
                   search, find_interface_results, bus>>

-----------------------------------------------------------------------------
(* The one who asks.  at is the ReceiveAwait a query waits in, "done" after *)
(* co_return and "undefined" where it reads or writes out of bounds.        *)

AskString(co, reads, str) ==
    [co EXCEPT !.at = "Length", !.reads = reads, !.str = str]

NextInterface_ButLast(co) ==
    IF co.index + 1 < co.num
    THEN [co EXCEPT !.at = "Interface"]
    ELSE AskString(co, "creator", co.creator_id)

\* QueryDevice's loop over the interfaces, and what follows it.
NextInterface(co) ==
    IF co.index < co.num
    THEN [co EXCEPT !.at = "Interface"]
    ELSE AskString(co, "creator", co.creator_id)

\* QueryStr returns to QueryInterface or QueryDevice.
StringRead(co) ==
    CASE co.reads = "interface" ->
             NextInterface([co EXCEPT !.index = @ + 1, !.interfaces =
                 Append(@, [port |-> co.port, id |-> co.id, name |-> co.string])])
      [] co.reads = "creator" ->
             AskString([co EXCEPT !.creator = co.string], "name", co.name_id)
      [] co.reads = "name" ->
             [co EXCEPT !.name = co.string, !.at = "done"]

NextChunk(co) ==
    IF co.chunk < (Len(co.string) + Chunk - 1) \div Chunk
    THEN [co EXCEPT !.at = "Chunk"]
    ELSE StringRead(co)

\* The length that bytes from the third of a kStringResponse on spell; the last
\* are the highest.
Length(bytes) ==
    LET highest[k \in 0 .. Len(bytes)] ==
            IF k = 0 THEN 0 ELSE bytes[Len(bytes) - k + 1] + Width * highest[k - 1]
    IN  highest[Len(bytes)]

\* The characters of chunk number co.chunk are put in their place.
Stored(co, chars) ==
    LET at == co.chunk * Chunk
    IN  [k \in 1 .. Len(co.string) |->
            IF k - at \in DOMAIN chars THEN chars[k - at] ELSE co.string[k]]

\* A reply resumes the coroutine, which runs to its next ReceiveAwait.
After(co, args) ==
    LET bytes == SubSeq(args, 3, Len(args))
    IN  CASE co.at = "Device" ->
                 NextInterface([co EXCEPT !.num = args[1], !.creator_id = args[2],
                                          !.name_id = args[3]])
          [] co.at = "Interface" ->
                 AskString([co EXCEPT !.port = args[2], !.id = args[3]],
                           "interface", args[4])
          [] co.at = "Length" ->
                 NextChunk([co EXCEPT !.chunk = 0,
                            !.string = [k \in 1 .. Length(bytes) |-> Low(35)]])
          [] co.at = "Chunk" ->
                 IF co.chunk * Chunk + Len(bytes) > Len(co.string)
                 THEN [co EXCEPT !.at = "undefined"]
                 ELSE NextChunk([co EXCEPT !.chunk = @ + 1,
                                           !.string = Stored(co, bytes)])

Request(co) ==
    CASE co.at = "Device"    -> Message("QueryDevice", <<>>)
      [] co.at = "Interface" -> Message("QueryInterface", <<co.index>>)
      [] co.at = "Length"    -> Message("QueryString", <<co.str, 0>>)
      [] co.at = "Chunk"     -> Message("QueryString", <<co.str, Low(co.chunk + 1)>>)

Awaited(co) ==
    IF co.at \in {"Device", "Interface"} THEN co.at ELSE "StringResponse"

Over(co) == co.at \in {"idle", "done", "undefined"}

\* Coroutine q is at co: it sends its request and calls ReceiveAwait, or ends.
\* Without a free node ReceiveAwait ends at once and its promise is destroyed
\* before co_await asks it (module Coroutines): undefined, not an empty packet.
Proceed(q, co, queue, rest) ==
    LET n == Caller[q]
        starves == ~Over(co) /\ ~HasSlot(queue)
    IN  /\ query' = [query EXCEPT ![q] =
                        IF starves THEN [co EXCEPT !.at = "undefined"] ELSE co]
        /\ wait_queue' = [wait_queue EXCEPT ![n] =
                             IF Over(co) \/ starves THEN queue
                             ELSE ReceiveAwait(queue, q, Awaited(co))]
        /\ bus' = IF Over(co) THEN rest
                  ELSE rest (+) Sent(n, Addr[co.dev], Request(co))

\* The application of n awaits one call before it makes the next.
MayCall(n) ==
    \/ Concurrent
    \/ /\ \A q \in Query : Caller[q] = n => Over(query[q])
       /\ search[n].at # "sleeps"

\* Query, QueryDevice.
StartQuery(q, dev) ==
    /\ query[q].at = "idle"
    /\ dev \in Targets[q]
    /\ MayCall(Caller[q])
    /\ Proceed(q, [at |-> "Device", dev |-> dev, known |-> interfaces[dev],
                   num |-> 0, creator_id |-> 0, name_id |-> 0, index |-> 0,
                   port |-> 0, id |-> 0, reads |-> "none", str |-> 0,
                   string |-> <<>>, chunk |-> 0,
                   interfaces |-> <<>>, creator |-> <<>>, name |-> <<>>],
               wait_queue[Caller[q]], bus)
    /\ UNCHANGED <<interfaces, collected_interfaces, collected_strings, search,
                   find_interface_results>>

-----------------------------------------------------------------------------
(* FindInterface. *)

\* What n should find.
References(n) ==
    UNION {{[dev |-> Addr[m], port |-> i.port] :
               i \in {i \in interfaces[m] : i.id = Wanted}} : m \in Node \ {n}}

FindInterface(n) ==
    /\ search[n].at = "idle"
    /\ MayCall(n)
    /\ search' = [search EXCEPT ![n].at = "sleeps", ![n].known = References(n)]
    /\ find_interface_results' = [find_interface_results EXCEPT ![n] = <<>>]
    /\ bus' = bus (+) Sent(n, Broadcast, Message("FindInterface", <<Wanted>>))
    /\ UNCHANGED <<interfaces, collected_interfaces, collected_strings,
                   wait_queue, query>>

HandleFindInterface(n, f) ==
    /\ bus' = Handled(f) (+) SetToBag(UNION   \* no two interfaces have one port
                  {Frames(n, GetSource(f.id), Message("InterfaceReference", <<i.port>>)) :
                      i \in {i \in interfaces[n] : i.id = f.data.args[1]}})
    /\ UNCHANGED find_interface_results

\* kInterfaceReference, or a reply that nobody waits for, which is dropped.
HandleOther(n, f) ==
    /\ bus' = Handled(f)
    /\ find_interface_results' = [find_interface_results EXCEPT ![n] =
           IF f.data.op = "InterfaceReference"
           THEN Append(@, [dev |-> GetSource(f.id), port |-> f.data.args[1]])
           ELSE @]

\* What n should find and has not heard of: the question or the answer is on the bus.
Late(n) ==
    {ref \in References(n) : \E f \in BagToSet(bus) :
        \/ /\ f.data.op = "FindInterface"
           /\ GetSource(f.id) = Addr[n]
           /\ Addr[f.to] = ref.dev
        \/ /\ f.data.op = "InterfaceReference"
           /\ f.to = n
           /\ GetSource(f.id) = ref.dev
           /\ f.data.args = <<ref.port>>}

\* After 100 ms, whatever is still on the bus.
WakeUp(n) ==
    /\ search[n].at = "sleeps"
    /\ search' = [search EXCEPT ![n].at = "done", ![n].missed = Late(n),
                                ![n].found = find_interface_results[n]]
    /\ find_interface_results' = [find_interface_results EXCEPT ![n] = <<>>]
    /\ UNCHANGED <<interfaces, collected_interfaces, collected_strings,
                   wait_queue, query, bus>>

-----------------------------------------------------------------------------
Requests == {"QueryDevice", "QueryInterface", "QueryString", "FindInterface"}

\* HandleRxMixin resumes the coroutine that waits for the message.
HandleAwaited(n, f) ==
    /\ \E w \in Notified(wait_queue[n], f.data.op) :
          Proceed(w.waiter, After(query[w.waiter], f.data.args),
                  Removed(wait_queue[n], w), Handled(f))
    /\ UNCHANGED <<collected_interfaces, collected_strings, find_interface_results>>

\* Without one it calls HandleRxAsync.
HandleRxAsync(n, f) ==
    LET op == f.data.op
    IN  /\ Notified(wait_queue[n], op) = {}
        /\ \/ /\ \/ op = "QueryDevice" /\ HandleQueryDevice(n, f)
                 \/ op = "QueryInterface" /\ HandleQueryInterface(n, f)
                 \/ op = "QueryString" /\ HandleQueryString(n, f)
              /\ UNCHANGED find_interface_results
           \/ /\ \/ op = "FindInterface" /\ HandleFindInterface(n, f)
                 \/ op \notin Requests /\ HandleOther(n, f)
              /\ UNCHANGED <<collected_interfaces, collected_strings>>
        /\ UNCHANGED <<wait_queue, query>>

Deliver(f) ==
    /\ HandleAwaited(f.to, f) \/ HandleRxAsync(f.to, f)
    /\ UNCHANGED <<interfaces, search>>

Next ==
    \/ \E q \in Query, dev \in Node : StartQuery(q, dev)
    \/ \E n \in Searching : FindInterface(n) \/ WakeUp(n)
    \/ \E l \in Later : AddInterface(l[1], l[2])
    \/ \E f \in BagToSet(bus) : Deliver(f)

\* The bus delivers a frame when there is one (no frame starves, since queries
\* and searches are finite), and the clock goes on.  Nothing makes the
\* application query, search or add.
Fairness ==
    /\ WF_vars(\E f \in BagToSet(bus) : Deliver(f))
    /\ \A n \in Searching : WF_vars(WakeUp(n))

Spec == Init /\ [][Next]_vars /\ Fairness

-----------------------------------------------------------------------------
(* What the bytes of a message can count: the theorems suppose it.          *)

\* Every interface and every string that a node may have one day.
Offered(n) == Initial[n] \cup {l[2] : l \in {l \in Later : l[1] = n}}
Texts(n) == {Creator[n], Name[n]} \cup {i.name : i \in Offered(n)}

\* The chunks of a string are counted in a byte, and number 0 asks for its length.
Short == \A n \in Node : \A s \in Texts(n) : Len(s) <= (Width - 1) * Chunk

\* A device counts its interfaces in a byte, and numbers its strings in one.
Counted ==
    \A n \in Node :
       /\ \E port \in 0 .. Width - 1 : \A i \in Offered(n) : i.port # port
       /\ IsFiniteSet(Texts(n)) /\ Cardinality(Texts(n)) <= Width

-----------------------------------------------------------------------------
(* Properties. *)

\* Every variable stays within its type, the wait queue within its list and
\* what a message carries within a byte.
TypeOK ==
    /\ \A n \in Node :
          /\ interfaces[n] \subseteq Interfaces
          /\ Range(collected_interfaces[n]) \subseteq Interfaces
          /\ collected_strings[n] \in Seq(Strings)
          /\ wait_queue[n] \in Seq(Waits(Query, {"Device", "Interface", "StringResponse"}))
          /\ Len(wait_queue[n]) <= Slots
          /\ search[n].at \in {"idle", "sleeps", "done"}
          /\ find_interface_results[n] \in Seq([dev : Byte, port : 0 .. Width - 1])
    /\ \A q \in Query : query[q].at \in
          {"idle", "Device", "Interface", "Length", "Chunk", "done", "undefined"}
    /\ IsABag(bus)
    /\ \A f \in BagToSet(bus) :
          /\ f.to \in Node /\ f.id \in Nat
          /\ f.data.args \in Strings

\* QueryDevice never awaits what has ended nor writes behind a string: the node
\* of one ReceiveAwait is free before the next, and no length is too short.
NeverUndefined == \A q \in Query : query[q].at # "undefined"

\* While a query waits exactly one frame of it is on the bus, its request or
\* the reply its coroutine waits for, from the device it asks: no other
\* answer can be taken for it, and none is missing.
Underway ==
    \A q \in Query : ~Over(query[q]) =>
        LET n == Caller[q]   co == query[q]
            asked   == Sent(n, Addr[co.dev], Request(co))
            replies == {f \in BagToSet(bus) : f.to = n /\ f.data.op = Awaited(co)}
            between == {f \in BagToSet(bus) :
                           \/ f \in BagToSet(asked)
                           \/ f \in replies /\ GetSource(f.id) = Addr[co.dev]}
        IN  /\ \E f \in between : between = {f} /\ bus[f] = 1
            /\ replies \subseteq between
            /\ wait_queue[n] = <<[opcode |-> Awaited(co), waiter |-> q]>>

\* FindInterface returns every matching interface of every other device once:
\* those that were there when it was called, but for the ones whose answer is not
\* in by the time it wakes up, and perhaps some added since
\* (enumerate_interface.hpp:424-434).
FoundAll ==
    \A n \in Node : search[n].at = "done" =>
        /\ search[n].known \subseteq Range(search[n].found) \cup search[n].missed
        /\ Range(search[n].found) \subseteq References(n)
        /\ IsInjective(search[n].found)

\* What a query returned describes the device it was sent to.
AnswersOfDevice ==
    \A q \in Query : query[q].at = "done" =>
        /\ query[q].creator = Creator[query[q].dev]
        /\ query[q].name = Name[query[q].dev]
        /\ Range(query[q].interfaces) \subseteq interfaces[query[q].dev]

-----------------------------------------------------------------------------
\* The query implements a directory that answers in one step.
Directory == INSTANCE DeviceDirectory WITH
    asked    <- [q \in Query |->
                    IF query[q].at = "idle" THEN {}
                    ELSE {[dev |-> query[q].dev, known |-> query[q].known]}],
    answered <- [q \in Query |->
                    IF query[q].at # "done" THEN {}
                    ELSE {[creator |-> query[q].creator, name |-> query[q].name,
                           interfaces |-> query[q].interfaces]}]

\* Every query is answered with what the device had when it was asked, and
\* perhaps an interface added since, each once and with all of its strings.
ImplementsDirectory == Directory!Spec
===============================================================================
