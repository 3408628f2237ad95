---------------------------- MODULE DeviceQueryProofs ----------------------------
(***************************************************************************)
(* Proofs about DeviceQuery, for every number of nodes, queries and        *)
(* searches, every set of interfaces and strings, and every width of a     *)
(* byte and of a chunk.                                                    *)
(***************************************************************************)
EXTENDS DeviceQuery, SequenceFacts, FiniteSetTheorems

\* What a byte of a message holds.
Digit == 0 .. Width - 1

-----------------------------------------------------------------------------
(* Types. *)

Queries == {"QueryDevice", "QueryInterface", "QueryString"}
Replies == {"Device", "Interface", "StringResponse"}

Refs == [dev : Byte, port : Digit]

\* What each opcode is followed by.
Messages ==
    {d \in [op : Requests \cup Replies \cup {"InterfaceReference"}, args : Strings] :
        /\ d.op \in {"QueryInterface", "FindInterface", "InterfaceReference"} =>
               Len(d.args) = 1
        /\ d.op = "QueryString" => Len(d.args) = 2
        /\ d.op = "Device" => Len(d.args) = 3
        /\ d.op = "Interface" => Len(d.args) = 4
        /\ d.op = "StringResponse" => Len(d.args) >= 2}

\* A frame on its way from one node to another.
Wire ==
    {f \in [to : Node, id : Nat, data : Messages] :
        \E n \in Node \ {f.to} : \E dest \in {Broadcast, Addr[f.to]} :
            f.id = FromParts(Addr[n], dest, Port)}

\* The variables of QueryDevice, QueryInterface and QueryStr.
Coroutines ==
    [at : {"Device", "Interface", "Length", "Chunk", "done", "undefined"},
     dev : Node, known : SUBSET Interfaces,
     num : Digit, creator_id : Digit, name_id : Digit, index : Digit,
     port : Digit, id : Digit, reads : {"none", "interface", "creator", "name"},
     str : Digit, string : Strings, chunk : Nat,
     interfaces : Seq(Interfaces), creator : Strings, name : Strings]

\* Where a coroutine may be in its loops.
Looping(co) ==
    /\ co.at = "Interface" => co.index < co.num
    /\ co.at \in {"Length", "Chunk"} =>
          /\ co.reads # "none"
          /\ co.reads = "interface" => co.index < co.num

\* Whoever waits in a queue is a coroutine of that node in a ReceiveAwait for
\* that opcode, once.
Waiting(n) ==
    /\ \A w \in Range(wait_queue[n]) :
          /\ Caller[w.waiter] = n
          /\ ~Over(query[w.waiter])
          /\ w.opcode = Awaited(query[w.waiter])
    /\ \A i, j \in DOMAIN wait_queue[n] :
          wait_queue[n][i].waiter = wait_queue[n][j].waiter => i = j

DistinctPorts(n) == \A i, j \in interfaces[n] : i.port = j.port => i = j

TypeInv ==
    /\ interfaces \in [Node -> SUBSET Interfaces]
    /\ collected_interfaces \in [Node -> Seq(Interfaces)]
    /\ collected_strings \in [Node -> Seq(Strings)]
    /\ wait_queue \in [Node -> Seq(Waits(Query, Replies))]
    /\ search \in [Node -> [at : {"idle", "sleeps", "done"},
                            known : SUBSET Refs, missed : SUBSET Refs,
                            found : Seq(Refs)]]
    /\ find_interface_results \in [Node -> Seq(Refs)]
    /\ IsABag(bus) /\ DOMAIN bus \subseteq Wire
    /\ DOMAIN query = Query
    /\ \A q \in Query : query[q] # Unasked =>
          query[q] \in Coroutines /\ Looping(query[q])
    /\ \A n \in Node : /\ DistinctPorts(n)
                       /\ Len(wait_queue[n]) <= Slots
                       /\ Waiting(n)

-----------------------------------------------------------------------------
(* One call of a node at a time. *)

\* A frame of a query of n, and those that are on the bus.
TalkOf(n, f) ==
    \/ f.data.op \in Queries /\ GetSource(f.id) = Addr[n]
    \/ f.data.op \in Replies /\ f.to = n
Talk(n) == {f \in DOMAIN bus : TalkOf(n, f)}

\* A frame from node n to node m.
Frame(n, m, data) ==
    [to |-> m, id |-> FromParts(Addr[n], Addr[m], Port), data |-> data]

\* The numbers a coroutine goes by stand for something at the device it asks.
Known(co) ==
    /\ co.num <= Len(collected_interfaces[co.dev])
    /\ co.creator_id < Len(collected_strings[co.dev])
    /\ co.name_id < Len(collected_strings[co.dev])
Numbers(co) ==
    /\ co.at \in {"Interface", "Length", "Chunk"} => Known(co)
    /\ co.at \in {"Length", "Chunk"} => co.str < Len(collected_strings[co.dev])

\* ... and so do those of a reply to it.
NumbersIn(co, args) ==
    /\ co.at = "Device" =>
          /\ args[1] <= Len(collected_interfaces[co.dev])
          /\ args[2] < Len(collected_strings[co.dev])
          /\ args[3] < Len(collected_strings[co.dev])
    /\ co.at = "Interface" => args[4] < Len(collected_strings[co.dev])

\* What is under way of a query that waits: its request or the reply to it.
Exchange(q, f) ==
    LET n == Caller[q]   co == query[q]
    IN  \/ f = Frame(n, co.dev, Request(co))
        \/ /\ f.data.op = Awaited(co)
           /\ f = Frame(co.dev, n, f.data)
           /\ NumbersIn(co, f.data.args)

Quiet(n) ==
    (\A q \in Query : Caller[q] = n => Over(query[q])) =>
        Talk(n) = {} /\ wait_queue[n] = <<>>

Talking(q) ==
    ~Over(query[q]) =>
        /\ query[q].dev # Caller[q]
        /\ wait_queue[Caller[q]] = <<[opcode |-> Awaited(query[q]), waiter |-> q]>>
        /\ \E f \in Talk(Caller[q]) :
              Talk(Caller[q]) = {f} /\ bus[f] = 1 /\ Exchange(q, f)
        /\ Numbers(query[q])
        /\ \A p \in Query : Caller[p] = Caller[q] /\ ~Over(query[p]) => p = q

Conversation ==
    /\ \A n \in Node : Quiet(n)
    /\ \A q \in Query : Talking(q)

-----------------------------------------------------------------------------
(* What is read is what the device has. *)

\* What a device has collected is what it has or had to say, each once.
Encoders(n) ==
    /\ interfaces[n] \subseteq Offered(n)
    /\ IsInjective(collected_interfaces[n])
    /\ Range(collected_interfaces[n]) \subseteq interfaces[n]
    /\ IsInjective(collected_strings[n])
    /\ Range(collected_strings[n]) \subseteq Texts(n)

\* The string with number id at node n.
Text(n, id) == collected_strings[n][id + 1]

\* The interfaces with the first numbers contain those of a set.
Covered(n, num, known) ==
    \A i \in known : \E k \in 1 .. num : collected_interfaces[n][k] = i

\* What the device said of itself is right, and the interfaces that have been
\* read are those with the first numbers.
Lists(co) ==
    /\ Covered(co.dev, co.num, co.known)
    /\ Text(co.dev, co.creator_id) = Creator[co.dev]
    /\ Text(co.dev, co.name_id) = Name[co.dev]
    /\ co.index <= co.num
    /\ Len(co.interfaces) = co.index
    /\ \A k \in 1 .. co.index : co.interfaces[k] = collected_interfaces[co.dev][k]

\* The string that is being read is the one that is needed next.
Reading(co) ==
    LET intf == collected_interfaces[co.dev][co.index + 1]
    IN  /\ co.reads = "interface" =>
              /\ co.port = intf.port /\ co.id = intf.id
              /\ Text(co.dev, co.str) = intf.name
        /\ co.reads = "creator" => co.index = co.num /\ co.str = co.creator_id
        /\ co.reads = "name" =>
              /\ co.index = co.num /\ co.str = co.name_id
              /\ co.creator = Creator[co.dev]

\* A string is as long as a text, and the same up to a chunk.
ReadTo(string, text, chunk) ==
    /\ Len(string) = Len(text)
    /\ \A i \in 1 .. Len(text) : i <= chunk * Chunk => string[i] = text[i]

\* The answer is complete.
Complete(co) ==
    /\ co.creator = Creator[co.dev]
    /\ co.name = Name[co.dev]
    /\ co.known \subseteq Range(co.interfaces)
    /\ Range(co.interfaces) \subseteq interfaces[co.dev]
    /\ IsInjective(co.interfaces)

Faithful(co) ==
    /\ co.known \subseteq interfaces[co.dev]
    /\ co.at = "Device" => co.interfaces = <<>> /\ co.index = 0
    /\ co.at \in {"Interface", "Length", "Chunk"} => Lists(co)
    /\ co.at \in {"Length", "Chunk"} => Reading(co)
    /\ co.at = "Chunk" =>
          /\ ReadTo(co.string, Text(co.dev, co.str), co.chunk)
          /\ co.chunk * Chunk < Len(Text(co.dev, co.str))
    /\ co.at = "done" => Complete(co)

\* A coroutine is right wherever it is, and that is nowhere undefined.
Right(co) == Faithful(co) /\ co.at # "undefined"

\* What a reply to a coroutine says.
Tells(co, args) ==
    LET bytes == SubSeq(args, 3, Len(args))   n == co.dev
    IN  /\ co.at = "Device" =>
              /\ Covered(n, args[1], co.known)
              /\ Text(n, args[2]) = Creator[n] /\ Text(n, args[3]) = Name[n]
        /\ co.at = "Interface" =>
              LET intf == collected_interfaces[n][co.index + 1]
              IN  /\ args[2] = intf.port /\ args[3] = intf.id
                  /\ Text(n, args[4]) = intf.name
        /\ co.at = "Length" => bytes = LengthBytes[Len(Text(n, co.str))]
        /\ co.at = "Chunk" => bytes = Piece(Text(n, co.str), co.chunk + 1)

\* A call is right, and so will be the answer to it that is under way.
Informed(q) ==
    query[q].at # "idle" =>
        /\ Right(query[q])
        /\ ~Over(query[q]) =>
              \A f \in Talk(Caller[q]) : f.to = Caller[q] => Tells(query[q], f.data.args)

Content ==
    /\ \A n \in Node : Encoders(n)
    /\ \A q \in Query : Informed(q)

-----------------------------------------------------------------------------
(* Searching. *)

\* A question of n on its way to m, and an answer to it.
Find(n, m) ==
    [to |-> m, id |-> FromParts(Addr[n], Broadcast, Port),
     data |-> Message("FindInterface", <<Wanted>>)]
Found(n, m, port) == Frame(m, n, Message("InterfaceReference", <<port>>))

Ref(m, port) == [dev |-> Addr[m], port |-> port]

Asks(n, m) == Find(n, m) \in DOMAIN bus

\* A reference is an interface that m has by now, and it is told once.
Collecting(n) ==
    /\ search[n].known \subseteq References(n)
    /\ IsInjective(find_interface_results[n])
    /\ Range(find_interface_results[n]) \subseteq References(n)
    /\ \A m \in Node : \A port \in Digit :
          Ref(m, port) \in Range(find_interface_results[n]) => ~Asks(n, m)
    /\ search[n].at = "sleeps" =>
          \A m \in Node \ {n} : \A port \in Digit :
              Ref(m, port) \in search[n].known =>
                  \/ Asks(n, m)
                  \/ Found(n, m, port) \in DOMAIN bus
                  \/ Ref(m, port) \in Range(find_interface_results[n])

OnTheWay(f) ==
    /\ f.data.op = "FindInterface" =>
          \E n \in Node \ {f.to} : /\ f = Find(n, f.to) /\ bus[f] = 1
                                   /\ search[n].at # "idle"
    /\ f.data.op = "InterfaceReference" =>
          \E m \in Node \ {f.to} : \E port \in Digit :
              /\ f = Found(f.to, m, port) /\ bus[f] = 1
              /\ search[f.to].at # "idle"
              /\ Ref(m, port) \in References(f.to)
              /\ ~Asks(f.to, m)
              /\ Ref(m, port) \notin Range(find_interface_results[f.to])

SearchInv ==
    /\ \A n \in Node : Collecting(n)
    /\ \A f \in DOMAIN bus : OnTheWay(f)
    /\ FoundAll

-----------------------------------------------------------------------------
(* Message ids and frames. *)

\* Division by 256 takes the lower byte off.
LEMMA LowerByte ==
    ASSUME NEW high \in Int, NEW low \in Byte
    PROVE  /\ (256 * high + low) \div 256 = high
           /\ (256 * high + low) % 256 = low
  BY DEF Byte

\* A frame is of the kind, comes from the address, goes to the address and is
\* for the port that FromParts was given: no part spills into another.
THEOREM Unpacked ==
    ASSUME NEW from \in Byte, NEW dest \in Byte, NEW id \in Byte
    PROVE  /\ GetKind(FromParts(from, dest, id)) = kRawP2P
           /\ GetSource(FromParts(from, dest, id)) = from
           /\ GetDestination(FromParts(from, dest, id)) = dest
           /\ GetID(FromParts(from, dest, id)) = id
<1> DEFINE raw == FromParts(from, dest, id)
<1>1. /\ raw \div 16777216 = 1
      /\ raw \div 65536 = 256 + from
      /\ raw \div 256 = 65536 + 256 * from + dest
      /\ raw \in Int
  BY DEF FromParts, Byte, kRawP2P
<1>2. (256 + from) % 256 = from
  BY LowerByte, 256 * 1 + from = 256 + from
<1>3. (65536 + 256 * from + dest) % 256 = dest
  <2>1. 65536 + 256 * from + dest = 256 * (256 + from) + dest
    BY DEF Byte
  <2>2. 256 + from \in Int
    BY DEF Byte
  <2> QED BY <2>1, <2>2, LowerByte
<1>4. raw % 256 = id
  <2>1. raw = 256 * (65536 + 256 * from + dest) + id
    BY DEF FromParts, Byte, kRawP2P
  <2>2. 65536 + 256 * from + dest \in Int
    BY DEF Byte
  <2> QED BY <2>1, <2>2, LowerByte
<1> HIDE DEF raw
<1> QED
  BY <1>1, <1>2, <1>3, <1>4 DEF raw, GetKind, GetSource, GetDestination, GetID, kRawP2P

LEMMA Packed ==
    ASSUME NEW from \in Byte, NEW dest \in Byte, NEW id \in Byte
    PROVE  FromParts(from, dest, id) \in Nat
<1>1. 16777216 * kRawP2P \in Nat /\ 65536 * from \in Nat /\ 256 * dest \in Nat /\ id \in Nat
  BY SMT DEF Byte, kRawP2P
<1>2. QED
  BY <1>1, SMT DEF FromParts

LEMMA Addresses ==
    /\ \A n \in Node : Addr[n] \in Byte /\ Addr[n] # Broadcast
    /\ \A m, n \in Node : Addr[m] = Addr[n] => m = n
    /\ Broadcast \in Byte /\ Port \in Byte
BY NodeAssumption DEF Byte, Broadcast

\* Who sent a frame and who gets it.
LEMMA Sources ==
    ASSUME NEW n \in Node, NEW dest \in Byte
    PROVE  LET id == FromParts(Addr[n], dest, Port)
           IN  /\ GetSource(id) = Addr[n] /\ GetDestination(id) = dest
               /\ GetKind(id) = kRawP2P /\ GetID(id) = Port
               /\ id \in Nat
<1>1. Addr[n] \in Byte /\ Port \in Byte
  BY Addresses
<1>2. FromParts(Addr[n], dest, Port) \in Nat
  BY <1>1, Packed
<1>3. QED
  BY <1>1, <1>2, Unpacked

\* A frame to an address gets to the node that has it, and to no other.
LEMMA OneFrame ==
    ASSUME NEW n \in Node, NEW m \in Node, m # n, NEW data
    PROVE  Frames(n, Addr[m], data) = {Frame(n, m, data)}
<1> DEFINE id == FromParts(Addr[n], Addr[m], Port)
<1>1. Addr[m] \in Byte
  BY Addresses
<1>2. /\ GetSource(id) = Addr[n] /\ GetDestination(id) = Addr[m]
      /\ GetKind(id) = kRawP2P /\ GetID(id) = Port
  BY <1>1, Sources
<1> HIDE DEF id
<1>3. \A k \in Node : IsToSelf(k, id) <=> k = m
  BY <1>2, Addresses DEF IsToSelf
<1>4. {k \in Node : GetKind(id) = kRawP2P /\ IsToSelf(k, id) /\ GetID(id) = Port} = {m}
  BY <1>2, <1>3
<1>5. Frames(n, Addr[m], data) =
          {[to |-> k, id |-> id, data |-> data] :
              k \in {k \in Node : GetKind(id) = kRawP2P /\ IsToSelf(k, id) /\ GetID(id) = Port}}
  BY DEF Frames, id
<1>6. QED
  BY <1>4, <1>5 DEF Frame, id

\* A broadcast gets to every other node.
LEMMA FramesToAll ==
    ASSUME NEW n \in Node, NEW data, NEW f
    PROVE  f \in Frames(n, Broadcast, data) <=>
               \E m \in Node \ {n} :
                   f = [to |-> m, id |-> FromParts(Addr[n], Broadcast, Port), data |-> data]
<1> DEFINE id == FromParts(Addr[n], Broadcast, Port)
<1>2. /\ GetSource(id) = Addr[n] /\ GetDestination(id) = Broadcast
      /\ GetKind(id) = kRawP2P /\ GetID(id) = Port
  BY Addresses, Sources
<1> HIDE DEF id
<1>3. \A k \in Node : IsToSelf(k, id) <=> k # n
  BY <1>2, Addresses DEF IsToSelf
<1>4. {k \in Node : GetKind(id) = kRawP2P /\ IsToSelf(k, id) /\ GetID(id) = Port} = Node \ {n}
  BY <1>2, <1>3
<1>5. Frames(n, Broadcast, data) =
          {[to |-> k, id |-> id, data |-> data] :
              k \in {k \in Node : GetKind(id) = kRawP2P /\ IsToSelf(k, id) /\ GetID(id) = Port}}
  BY DEF Frames, id
<1>6. QED
  BY <1>4, <1>5 DEF id

\* Every frame has one sender, another node than the one it gets to.
LEMMA Senders ==
    ASSUME NEW f \in Wire
    PROVE  \E n \in Node \ {f.to} : GetSource(f.id) = Addr[n]
<1>1. PICK n \in Node \ {f.to}, dest \in {Broadcast, Addr[f.to]} :
          f.id = FromParts(Addr[n], dest, Port)
  BY DEF Wire
<1>2. dest \in Byte
  BY Addresses DEF Wire
<1>3. QED
  BY <1>1, <1>2, Sources

-----------------------------------------------------------------------------
(* The bag of frames. *)

\* B2 is B without one copy of every element of out, and with one more of every
\* element of in.
Moved(B, B2, out, in) ==
    /\ IsABag(B2)
    /\ DOMAIN B2 \subseteq DOMAIN B \cup in
    /\ in \subseteq DOMAIN B2
    /\ \A e \in DOMAIN B \ out : e \in DOMAIN B2
    /\ \A e \in DOMAIN B \ (out \cup in) : B2[e] = B[e]
    /\ \A e \in in \ DOMAIN B : B2[e] = 1
    /\ \A e \in (DOMAIN B \cap out) \ in : B[e] = 1 => e \notin DOMAIN B2

LEMMA MovedIn ==
    ASSUME NEW B, IsABag(B), NEW in
    PROVE  Moved(B, B (+) SetToBag(in), {}, in)
<1> DEFINE B2 == [e \in DOMAIN B \cup in |->
                     (IF e \in DOMAIN B THEN B[e] ELSE 0) + (IF e \in in THEN 1 ELSE 0)]
<1>1. B (+) SetToBag(in) = B2
  BY DEF (+), SetToBag
<1>2. \A e \in DOMAIN B : B[e] \in Nat \ {0}
  BY DEF IsABag
<1>3. /\ DOMAIN B2 = DOMAIN B \cup in
      /\ \A e \in DOMAIN B2 : B2[e] = (IF e \in DOMAIN B THEN B[e] ELSE 0)
                                      + (IF e \in in THEN 1 ELSE 0)
      /\ B2 = [e \in DOMAIN B2 |-> B2[e]]
  OBVIOUS
<1> HIDE DEF B2
<1>4. \A e \in DOMAIN B2 : B2[e] \in Nat /\ B2[e] > 0
  BY <1>2, <1>3
<1>5. IsABag(B2)
  BY <1>3, <1>4 DEF IsABag
<1>6. Moved(B, B2, {}, in)
  <2>1. \A e \in DOMAIN B \ in : B2[e] = B[e]
    BY <1>2, <1>3
  <2>2. \A e \in in \ DOMAIN B : B2[e] = 1
    BY <1>3
  <2>3. QED
    BY <1>3, <1>5, <2>1, <2>2 DEF Moved
<1>7. QED
  BY <1>1, <1>6

LEMMA MovedOut ==
    ASSUME NEW B, IsABag(B), NEW f \in DOMAIN B
    PROVE  Moved(B, B (-) SetToBag({f}), {f}, {})
<1> DEFINE B2 == B (-) SetToBag({f})
<1> DEFINE C == [e \in DOMAIN B |-> IF e \in DOMAIN SetToBag({f})
                                    THEN B[e] - SetToBag({f})[e] ELSE B[e]]
<1>1. \A e \in DOMAIN B : B[e] \in Nat \ {0}
  BY DEF IsABag
<1>2. B2 = [e \in {d \in DOMAIN C : C[d] > 0} |-> C[e]]
  BY DEF (-)
<1>3. DOMAIN C = DOMAIN B /\ \A e \in DOMAIN B : C[e] = IF e = f THEN B[e] - 1 ELSE B[e]
  BY DEF SetToBag
<1> HIDE DEF B2, C
<1>4. /\ \A e : e \in DOMAIN B2 <=> e \in DOMAIN B /\ C[e] > 0
      /\ \A e \in DOMAIN B2 : B2[e] = C[e]
      /\ B2 = [e \in DOMAIN B2 |-> B2[e]]
  BY <1>2, <1>3
<1>5. \A e \in DOMAIN B2 : B2[e] \in Nat /\ B2[e] > 0
  BY <1>1, <1>3, <1>4
<1>6. IsABag(B2)
  BY <1>4, <1>5 DEF IsABag
<1>7. \A e \in DOMAIN B \ {f} : e \in DOMAIN B2 /\ B2[e] = B[e]
  BY <1>1, <1>3, <1>4
<1>8. B[f] = 1 => f \notin DOMAIN B2
  BY <1>3, <1>4
<1>9. QED
  BY <1>4, <1>6, <1>7, <1>8 DEF Moved, B2

\* A frame is handled and answered.
LEMMA MovedOutIn ==
    ASSUME NEW B, IsABag(B), NEW f \in DOMAIN B, NEW in
    PROVE  Moved(B, (B (-) SetToBag({f})) (+) SetToBag(in), {f}, in)
<1> DEFINE B1 == B (-) SetToBag({f})
           B2 == B1 (+) SetToBag(in)
<1>1. Moved(B, B1, {f}, {})
  BY MovedOut
<1> HIDE DEF B1
<1>2. Moved(B1, B2, {}, in)
  BY <1>1, MovedIn DEF Moved
<1> HIDE DEF B2
<1>3. IsABag(B2) /\ DOMAIN B2 \subseteq DOMAIN B \cup in /\ in \subseteq DOMAIN B2
  BY <1>1, <1>2 DEF Moved
<1>4. \A e \in DOMAIN B \ {f} : e \in DOMAIN B1 /\ e \in DOMAIN B2 /\ B1[e] = B[e]
  BY <1>1, <1>2 DEF Moved
<1>5. \A e \in DOMAIN B \ ({f} \cup in) : B2[e] = B[e]
  BY <1>2, <1>4 DEF Moved
<1>6. \A e \in in \ DOMAIN B : B2[e] = 1
  BY <1>1, <1>2 DEF Moved
<1>7. f \notin in /\ B[f] = 1 => f \notin DOMAIN B2
  BY <1>1, <1>2 DEF Moved
<1>8. QED
  BY <1>3, <1>4, <1>5, <1>6, <1>7 DEF Moved, B2, B1

-----------------------------------------------------------------------------
(* What a device collects. *)

LEMMA LowFacts ==
    /\ Width \in Nat /\ Width >= 2 /\ Chunk \in Nat \ {0}
    /\ \A k \in Nat : Low(k) \in Digit /\ Low(k) <= k
    /\ \A k \in Digit : Low(k) = k
<1>1. Width \in 2 .. 256 /\ Chunk \in Nat \ {0}
  BY DataAssumption
<1>2. ASSUME NEW k \in Nat
      PROVE  Low(k) \in Digit /\ Low(k) <= k /\ (k \in Digit => Low(k) = k)
  BY <1>1 DEF Low, Digit
<1>3. QED
  BY <1>1, <1>2 DEF Digit

\* What Encode makes of what was collected.
Encoded(c, d, values) ==
    /\ Extends(c, d)
    /\ Range(d) = Range(c) \cup values
    /\ IsInjective(c) => IsInjective(d)

LEMMA EncodedOne ==
    ASSUME NEW S, NEW c \in Seq(S), NEW value \in S
    PROVE  Encode(c, value) \in Seq(S) /\ Encoded(c, Encode(c, value), {value})
<1>0. Len(c) \in Nat /\ DOMAIN c = 1 .. Len(c)
  BY LenProperties
<1>1. CASE value \in Range(c)
  BY <1>0, <1>1 DEF Encode, Encoded, Extends
<1>2. CASE value \notin Range(c)
  <2>1. Encode(c, value) = Append(c, value)
    BY <1>2 DEF Encode
  <2>2. /\ Append(c, value) \in Seq(S)
        /\ Len(Append(c, value)) = Len(c) + 1
        /\ \A i \in 1 .. Len(c) : Append(c, value)[i] = c[i]
    BY AppendProperties
  <2>3. Extends(c, Append(c, value))
    BY <1>0, <2>2 DEF Extends
  <2>4. Range(Append(c, value)) = Range(c) \cup {value}
    BY <1>0, AppendRange
  <2>5. IsInjective(c) => IsInjective(Append(c, value))
    BY <1>2, AppendFacts
  <2>6. QED
    BY <2>1, <2>2, <2>3, <2>4, <2>5 DEF Encoded
<1>3. QED
  BY <1>1, <1>2

LEMMA EncodedTwice ==
    ASSUME NEW S, NEW c \in Seq(S), NEW d \in Seq(S), NEW e \in Seq(S),
           NEW A, NEW B, Encoded(c, d, A), Encoded(d, e, B)
    PROVE  Encoded(c, e, A \cup B)
<1>1. Len(c) \in Nat /\ Len(d) \in Nat /\ Len(e) \in Nat
  BY LenProperties
<1>2. Len(c) <= Len(d) /\ Len(d) <= Len(e)
  BY DEF Encoded, Extends
<1>3. \A i \in 1 .. Len(c) : i \in 1 .. Len(d)
  BY <1>1, <1>2
<1>4. Extends(c, e)
  BY <1>1, <1>2, <1>3 DEF Encoded, Extends
<1>5. QED
  BY <1>4 DEF Encoded

\* All values are encoded, one after the other.
LEMMA EncodedAll ==
    ASSUME NEW S, NEW c \in Seq(S), NEW values \in Seq(S)
    PROVE  /\ EncodeAll(c, values) \in Seq(S)
           /\ Encoded(c, EncodeAll(c, values), Range(values))
<1> DEFINE n == Len(values)
           Defines(f) == f = [k \in 0 .. n |-> IF k = 0 THEN c ELSE Encode(f[k - 1], values[k])]
           first == CHOOSE f : Defines(f)
           step == [x \in Seq(S) |-> [k \in 1 .. n |-> Encode(x, values[k])]]
<1>1. EncodeAll(c, values) = first[n]
  BY DEF EncodeAll
<1>2. n \in Nat /\ DOMAIN values = 1 .. n /\ \A k \in 1 .. n : values[k] \in S
  BY LenProperties, ElementOfSeq
<1> HIDE DEF n
<1>4. \A x \in Seq(S), k \in 1 .. n : step[x][k] = Encode(x, values[k])
  OBVIOUS
<1>5. PICK f \in [0 .. n -> Seq(S)] :
          f[0] = c /\ \A k \in 1 .. n : f[k] = step[f[k - 1]][k]
  <2> DEFINE Q == Seq(S)
  <2>1. c \in Q
    OBVIOUS
  <2>2. step \in Steps(Q, 1 .. n)
    BY <1>2, EncodedOne DEF Steps
  <2> HIDE DEF step, Q
  <2>3. StepByStep(Q, c, n, step)
    BY <1>2, <2>1, <2>2, RecursionUpTo
  <2>4. QED
    BY <2>3 DEF Q, StepByStep
<1> HIDE DEF step
<1>6. Defines(f)
  <2>1. \A k \in 1 .. n : k - 1 \in 0 .. n
    BY <1>2
  <2>2. \A k \in 0 .. n : k = 0 \/ k \in 1 .. n
    BY <1>2
  <2>3. \A k \in 0 .. n : f[k] = IF k = 0 THEN c ELSE Encode(f[k - 1], values[k])
    BY <1>4, <1>5, <2>1, <2>2
  <2>4. QED
    BY <2>3
<1>7. Defines(first)
  <2> HIDE DEF Defines
  <2>1. QED
    BY <1>6
<1> HIDE DEF first
<1>8. /\ first[0] = c
      /\ \A k \in 1 .. n : first[k] = Encode(first[k - 1], values[k])
  BY <1>2, <1>7
<1> HIDE DEF Defines
<1> DEFINE Values(k) == {values[i] : i \in 1 .. k}
           T == {k \in Nat : k <= n =>
                    first[k] \in Seq(S) /\ Encoded(c, first[k], Values(k))}
<1>9. Nat \subseteq T
  <2>1. 0 \in T
    <3>1. Values(0) = {}
      OBVIOUS
    <3>2. Encoded(c, c, {})
      BY LenProperties DEF Encoded, Extends
    <3> HIDE DEF Values
    <3>3. QED
      BY <1>8, <3>1, <3>2
  <2>2. ASSUME NEW k \in Nat, k \in T PROVE k + 1 \in T
    <3> SUFFICES ASSUME k + 1 <= n
                 PROVE  /\ first[k + 1] \in Seq(S)
                        /\ Encoded(c, first[k + 1], Values(k + 1))
      OBVIOUS
    <3>1. k <= n /\ k + 1 \in 1 .. n /\ (k + 1) - 1 = k
      BY <1>2
    <3>2. first[k] \in Seq(S) /\ Encoded(c, first[k], Values(k))
      BY <2>2, <3>1
    <3>3. first[k + 1] = Encode(first[k], values[k + 1])
      BY <1>8, <3>1
    <3>4. /\ first[k + 1] \in Seq(S)
          /\ Encoded(first[k], first[k + 1], {values[k + 1]})
      BY <1>2, <3>1, <3>2, <3>3, EncodedOne
    <3>5. Values(k + 1) = Values(k) \cup {values[k + 1]}
      <4>1. \A i \in 1 .. k + 1 : i \in 1 .. k \/ i = k + 1
        OBVIOUS
      <4>2. 1 .. k \subseteq 1 .. k + 1 /\ k + 1 \in 1 .. k + 1
        OBVIOUS
      <4>3. QED
        BY <4>1, <4>2
    <3> HIDE DEF Values
    <3>6. first[k] \in Seq(S) /\ first[k + 1] \in Seq(S)
      BY <3>2, <3>4
    <3>7. Encoded(c, first[k + 1], Values(k) \cup {values[k + 1]})
      BY <3>2, <3>4, <3>6, EncodedTwice
    <3>8. QED
      BY <3>5, <3>6, <3>7
  <2> HIDE DEF T
  <2>3. QED
    BY <2>1, <2>2, Induction
<1>10. Values(n) = Range(values)
  BY <1>2 DEF Range
<1> HIDE DEF Values
<1>11. QED
  BY <1>1, <1>2, <1>9, <1>10

\* The number of a value that was collected.
LEMMA Numbered ==
    ASSUME NEW S, NEW c \in Seq(S), NEW value \in Range(c)
    PROVE  /\ Index(c, value) \in Digit
           /\ Index(c, value) < Len(c)
           /\ Len(c) <= Width => c[Index(c, value) + 1] = value
<1> DEFINE I == {i \in 1 .. Len(c) : c[i] = value}
           i == Min(I)
<1>1. Len(c) \in Nat /\ DOMAIN c = 1 .. Len(c)
  BY LenProperties
<1>2. I \subseteq Nat /\ I # {}
  BY <1>1 DEF Range
<1>3. \E x \in I : \A y \in I : x <= y
  <2> HIDE DEF I
  <2>1. QED
    BY <1>2, LeastNat
<1>4. i \in I
  <2> HIDE DEF I
  <2>1. QED
    BY <1>3 DEF Min
<1>5. SelectInSeq(c, LAMBDA v : v = value) = i
  <2>1. SelectInSeq(c, LAMBDA v : v = value) = IF I # {} THEN Min(I) ELSE 0
    BY DEF SelectInSeq
  <2> HIDE DEF I
  <2>2. QED
    BY <1>2, <2>1
<1>6. Index(c, value) = Low(i - 1)
  BY <1>5 DEF Index
<1> HIDE DEF i
<1>7. i \in 1 .. Len(c) /\ c[i] = value /\ i - 1 \in Nat
  BY <1>1, <1>4
<1>8. Index(c, value) \in Digit /\ Index(c, value) <= i - 1
  BY <1>6, <1>7, LowFacts
<1>9. Len(c) <= Width => Index(c, value) = i - 1
  <2>1. Len(c) <= Width => i - 1 \in Digit
    BY <1>1, <1>7, LowFacts DEF Digit
  <2>2. QED
    BY <1>6, <2>1, LowFacts
<1>10. QED
  BY <1>1, <1>7, <1>8, <1>9 DEF Digit

-----------------------------------------------------------------------------
(* The bytes of a length. *)

LEMMA Times ==
    ASSUME NEW w \in Nat, w >= 2, NEW q \in Nat
    PROVE  w * q \in Nat /\ q + q <= w * q
<1>1. w * q = 2 * q + (w - 2) * q
  OBVIOUS
<1>2. (w - 2) * q >= 0 /\ (w - 2) * q \in Int
  OBVIOUS
<1>3. QED
  BY <1>1, <1>2

\* A number is its lowest digit and Width times the rest, which is less.
LEMMA LowestDigit ==
    ASSUME NEW k \in Nat
    PROVE  /\ k \div Width \in Nat
           /\ k = Low(k) + Width * (k \div Width)
           /\ k # 0 => k \div Width < k
<1>1. Width \in Nat /\ Width >= 2
  BY LowFacts
<1> DEFINE q == k \div Width
           r == k % Width
<1>2. q \in Int /\ r \in Nat /\ k = r + Width * q
  BY <1>1
<1>3. q \in Nat
  BY <1>1
<1> HIDE DEF q, r
<1>4. Width * q \in Nat /\ q + q <= Width * q
  BY <1>1, <1>3, Times
<1>5. k # 0 => q < k
  BY <1>2, <1>3, <1>4
<1>6. QED
  BY <1>2, <1>3, <1>5 DEF q, r, Low

LEMMA LengthBytesFacts ==
    /\ LengthBytes[0] = <<>>
    /\ \A k \in Nat \ {0} : LengthBytes[k] = <<Low(k)>> \o LengthBytes[k \div Width]
    /\ \A k \in Nat : LengthBytes[k] \in Seq(Digit)
<1> DEFINE Defines(f) ==
               f = [k \in Nat |-> IF k = 0 THEN <<>> ELSE <<Low(k)>> \o f[k \div Width]]
           Q == Seq(Digit)
           prev == [k \in Nat |-> k \div Width]
           step == [x \in Seq(Digit) |-> [k \in Nat |-> <<Low(k)>> \o x]]
<1>1. LengthBytes = CHOOSE f : Defines(f)
  BY DEF LengthBytes
<1>2. prev \in Earlier
  BY LowestDigit DEF Earlier
<1>3. \A k \in Nat : <<Low(k)>> \in Seq(Digit)
  BY LowFacts
<1>4. step \in Steps(Q, Nat)
  BY <1>3 DEF Steps
<1>5. <<>> \in Q
  OBVIOUS
<1>6. \A x \in Q, k \in Nat : step[x][k] = <<Low(k)>> \o x
  OBVIOUS
<1>7. \A k \in Nat : prev[k] = k \div Width /\ prev[k] \in Nat
  BY LowestDigit
<1> HIDE DEF prev, step, Q
<1>8. PICK f \in [Nat -> Q] :
          f[0] = <<>> /\ \A k \in Nat \ {0} : f[k] = step[f[prev[k]]][k]
  BY <1>2, <1>4, <1>5, Recursion
<1>9. \A k \in Nat \ {0} : f[k] = <<Low(k)>> \o f[k \div Width]
  BY <1>6, <1>7, <1>8
<1>10. Defines(f)
  BY <1>8, <1>9
<1> HIDE DEF Defines
<1>11. Defines(LengthBytes)
  BY <1>1, <1>10
<1>12. /\ LengthBytes[0] = <<>>
       /\ \A k \in Nat \ {0} : LengthBytes[k] = <<Low(k)>> \o LengthBytes[k \div Width]
  BY <1>11 DEF Defines
<1> DEFINE T == {k \in Nat : LengthBytes[k] \notin Seq(Digit)}
<1>13. T = {}
  <2> SUFFICES ASSUME T # {} PROVE FALSE
    OBVIOUS
  <2>1. T \subseteq Nat
    OBVIOUS
  <2> HIDE DEF T
  <2>2. PICK k \in T : \A j \in T : k <= j
    BY <2>1, LeastNat
  <2>3. k \in Nat /\ LengthBytes[k] \notin Seq(Digit)
    BY <2>2 DEF T
  <2>4. k # 0
    <3>1. <<>> \in Seq(Digit)
      OBVIOUS
    <3>2. QED
      BY <1>12, <2>3, <3>1
  <2>5. k \div Width \in Nat /\ k \div Width < k
    BY <2>3, <2>4, LowestDigit
  <2>6. LengthBytes[k \div Width] \in Seq(Digit)
    <3> DEFINE q == k \div Width
    <3>1. q \in Nat /\ q < k
      BY <2>5
    <3> HIDE DEF q
    <3>2. q \notin T
      BY <2>2, <2>3, <3>1
    <3>3. LengthBytes[q] \in Seq(Digit)
      BY <3>1, <3>2 DEF T
    <3>4. QED
      BY <3>3 DEF q
  <2>7. <<Low(k)>> \o LengthBytes[k \div Width] \in Seq(Digit)
    BY <1>3, <2>3, <2>6, ConcatProperties
  <2>8. QED
    BY <1>12, <2>3, <2>4, <2>7
<1>14. QED
  BY <1>12, <1>13

LEMMA Highest ==
    ASSUME NEW bytes \in Seq(Digit)
    PROVE  \E h \in [0 .. Len(bytes) -> Nat] :
               /\ Length(bytes) = h[Len(bytes)]
               /\ h[0] = 0
               /\ \A k \in 1 .. Len(bytes) :
                     h[k] = bytes[Len(bytes) - k + 1] + Width * h[k - 1]
<1> DEFINE n == Len(bytes)
           Defines(f) ==
               f = [k \in 0 .. n |->
                       IF k = 0 THEN 0 ELSE bytes[n - k + 1] + Width * f[k - 1]]
           highest == CHOOSE f : Defines(f)
           step == [x \in Nat |-> [k \in 1 .. n |-> bytes[n - k + 1] + Width * x]]
<1>1. Length(bytes) = highest[n]
  BY DEF Length
<1>2. n \in Nat
  BY LenProperties
<1>3. \A k \in 1 .. n : bytes[k] \in Nat
  <2>1. \A k \in 1 .. n : bytes[k] \in Digit
    BY ElementOfSeq
  <2>2. QED
    BY <2>1, LowFacts DEF Digit
<1> HIDE DEF n
<1>4. \A k \in 1 .. n : n - k + 1 \in 1 .. n /\ k - 1 \in 0 .. n
  BY <1>2
<1>5. \A x \in Nat : Width * x \in Nat
  BY LowFacts, Times
<1>6. step \in Steps(Nat, 1 .. n)
  <2>1. ASSUME NEW x \in Nat, NEW k \in 1 .. n
        PROVE  bytes[n - k + 1] + Width * x \in Nat
    <3>1. bytes[n - k + 1] \in Nat /\ Width * x \in Nat
      BY <1>3, <1>4, <1>5
    <3> DEFINE a == bytes[n - k + 1]
               b == Width * x
    <3>2. a \in Nat /\ b \in Nat
      BY <3>1
    <3> HIDE DEF a, b
    <3>3. a + b \in Nat
      BY <3>2
    <3>4. QED
      BY <3>3 DEF a, b
  <2>2. QED
    BY <2>1 DEF Steps
<1>7. \A x \in Nat, k \in 1 .. n : step[x][k] = bytes[n - k + 1] + Width * x
  OBVIOUS
<1> HIDE DEF step
<1>8. PICK f \in [0 .. n -> Nat] :
          f[0] = 0 /\ \A k \in 1 .. n : f[k] = step[f[k - 1]][k]
  <2> DEFINE N == Nat
             zero == 0
  <2>1. zero \in N
    OBVIOUS
  <2>2. step \in Steps(N, 1 .. n)
    BY <1>6
  <2> HIDE DEF N, zero
  <2>3. StepByStep(N, zero, n, step)
    BY <1>2, <2>1, <2>2, RecursionUpTo
  <2>4. QED
    BY <2>3 DEF N, zero, StepByStep
<1>9. \A k \in 1 .. n : f[k] = bytes[n - k + 1] + Width * f[k - 1]
  BY <1>4, <1>7, <1>8
<1>10. Defines(f)
  <2>1. \A k \in 0 .. n : k = 0 \/ k \in 1 .. n
    BY <1>2
  <2>2. \A k \in 0 .. n :
            f[k] = IF k = 0 THEN 0 ELSE bytes[n - k + 1] + Width * f[k - 1]
    BY <1>8, <1>9, <2>1
  <2>3. QED
    BY <1>8, <2>2
<1>11. Defines(highest)
  <2> HIDE DEF Defines
  <2>1. QED
    BY <1>10
<1> HIDE DEF highest
<1>12. /\ highest[0] = 0
       /\ DOMAIN highest = 0 .. n
       /\ highest = [k \in 0 .. n |-> highest[k]]
       /\ \A k \in 1 .. n : highest[k] = bytes[n - k + 1] + Width * highest[k - 1]
  <2>1. DOMAIN highest = 0 .. n /\ highest = [k \in 0 .. n |-> highest[k]]
    BY <1>11
  <2>2. \A k \in 0 .. n :
            highest[k] = IF k = 0 THEN 0 ELSE bytes[n - k + 1] + Width * highest[k - 1]
    BY <1>11
  <2>3. 0 \in 0 .. n /\ \A k \in 1 .. n : k \in 0 .. n /\ k # 0
    BY <1>2
  <2>4. QED
    BY <2>1, <2>2, <2>3
<1> HIDE DEF Defines
<1> DEFINE T == {k \in Nat : k <= n => highest[k] = f[k]}
<1>13. Nat \subseteq T
  <2>1. 0 \in T
    BY <1>8, <1>12
  <2>2. ASSUME NEW k \in Nat, k \in T PROVE k + 1 \in T
    <3> SUFFICES ASSUME k + 1 <= n PROVE highest[k + 1] = f[k + 1]
      OBVIOUS
    <3>1. k + 1 \in 1 .. n /\ (k + 1) - 1 = k /\ highest[k] = f[k]
      BY <1>2, <2>2
    <3>2. QED
      BY <1>9, <1>12, <3>1
  <2> HIDE DEF T
  <2>3. QED
    BY <2>1, <2>2, Induction
<1>14. highest = f
  <2>1. \A k \in 0 .. n : highest[k] = f[k]
    BY <1>2, <1>13
  <2> HIDE DEF T
  <2>2. QED
    BY <1>8, <1>12, <2>1
<1>15. QED
  BY <1>1, <1>8, <1>9, <1>14 DEF n

LEMMA LengthFacts ==
    /\ \A bytes \in Seq(Digit) : Length(bytes) \in Nat
    /\ Length(<<>>) = 0
<1>1. ASSUME NEW bytes \in Seq(Digit) PROVE Length(bytes) \in Nat
  <2>1. Len(bytes) \in Nat
    BY LenProperties
  <2>2. Len(bytes) \in 0 .. Len(bytes)
    BY <2>1
  <2>3. QED
    BY <2>2, Highest
<1>2. Length(<<>>) = 0
  <2>1. <<>> \in Seq(Digit) /\ Len(<<>>) = 0
    OBVIOUS
  <2> DEFINE e == <<>>
  <2> HIDE DEF e
  <2>2. e \in Seq(Digit) /\ Len(e) = 0
    BY <2>1 DEF e
  <2>3. Length(e) = 0
    BY <2>2, Highest
  <2>4. QED
    BY <2>3 DEF e
<1>3. QED
  BY <1>1, <1>2

\* A byte in front of the others is the lowest of the length.
LEMMA OneMoreByte ==
    ASSUME NEW bytes \in Seq(Digit), NEW d \in Digit
    PROVE  Length(<<d>> \o bytes) = d + Width * Length(bytes)
<1> DEFINE n == Len(bytes)
           more == <<d>> \o bytes
<1>1. n \in Nat
  BY LenProperties
<1>2. more \in Seq(Digit) /\ Len(more) = n + 1 /\ more[1] = d
      /\ \A i \in 1 .. n : more[i + 1] = bytes[i]
  <2>1. <<d>> \in Seq(Digit) /\ Len(<<d>>) = 1 /\ <<d>>[1] = d
    OBVIOUS
  <2> DEFINE one == <<d>>
  <2>2. one \in Seq(Digit) /\ Len(one) = 1 /\ one[1] = d
    BY <2>1
  <2> HIDE DEF one
  <2>3. /\ one \o bytes \in Seq(Digit)
        /\ Len(one \o bytes) = 1 + n
        /\ \A i \in 1 .. 1 + n :
              (one \o bytes)[i] = IF i <= 1 THEN one[i] ELSE bytes[i - 1]
    <3>1. /\ one \o bytes \in Seq(Digit)
          /\ Len(one \o bytes) = Len(one) + Len(bytes)
          /\ \A i \in 1 .. Len(one) + Len(bytes) :
                (one \o bytes)[i] = IF i <= Len(one) THEN one[i] ELSE bytes[i - Len(one)]
      BY <2>2, ConcatProperties
    <3>2. QED
      BY <2>2, <3>1
  <2>4. 1 \in 1 .. 1 + n
        /\ \A i \in 1 .. n : i + 1 \in 1 .. 1 + n /\ ~(i + 1 <= 1) /\ (i + 1) - 1 = i
    BY <1>1
  <2>5. QED
    BY <1>1, <2>2, <2>3, <2>4 DEF one
<1> HIDE DEF n, more
<1>3. PICK h \in [0 .. n -> Nat] :
          /\ Length(bytes) = h[n]
          /\ h[0] = 0
          /\ \A k \in 1 .. n : h[k] = bytes[n - k + 1] + Width * h[k - 1]
  BY Highest DEF n
<1>4. PICK g \in [0 .. n + 1 -> Nat] :
          /\ Length(more) = g[n + 1]
          /\ g[0] = 0
          /\ \A k \in 1 .. n + 1 : g[k] = more[(n + 1) - k + 1] + Width * g[k - 1]
  <2>1. \E f \in [0 .. Len(more) -> Nat] :
               /\ Length(more) = f[Len(more)]
               /\ f[0] = 0
               /\ \A k \in 1 .. Len(more) :
                     f[k] = more[Len(more) - k + 1] + Width * f[k - 1]
    BY <1>2, Highest
  <2>2. QED
    BY <1>2, <2>1
<1> DEFINE T == {k \in Nat : k <= n => g[k] = h[k]}
<1>5. Nat \subseteq T
  <2>1. 0 \in T
    BY <1>3, <1>4
  <2>2. ASSUME NEW k \in Nat, k \in T PROVE k + 1 \in T
    <3> SUFFICES ASSUME k + 1 <= n PROVE g[k + 1] = h[k + 1]
      OBVIOUS
    <3>1. k + 1 \in 1 .. n /\ k + 1 \in 1 .. n + 1 /\ (k + 1) - 1 = k /\ g[k] = h[k]
      BY <1>1, <2>2
    <3>2. /\ n - (k + 1) + 1 \in 1 .. n
          /\ (n + 1) - (k + 1) + 1 = (n - (k + 1) + 1) + 1
      BY <1>1
    <3>3. more[(n + 1) - (k + 1) + 1] = bytes[n - (k + 1) + 1]
      BY <1>2, <3>2
    <3>4. QED
      BY <1>3, <1>4, <3>1, <3>3
  <2> HIDE DEF T
  <2>3. QED
    BY <2>1, <2>2, Induction
<1>6. g[n] = h[n]
  BY <1>1, <1>5
<1>7. /\ n + 1 \in 1 .. n + 1 /\ (n + 1) - 1 = n /\ (n + 1) - (n + 1) + 1 = 1
  BY <1>1
<1>8. QED
  BY <1>2, <1>3, <1>4, <1>6, <1>7 DEF more

\* Whoever reads the bytes of a length gets the length.
THEOREM LengthRead ==
    \A k \in Nat : Length(LengthBytes[k]) = k
<1> DEFINE T == {k \in Nat : Length(LengthBytes[k]) # k}
<1> SUFFICES ASSUME T # {} PROVE FALSE
  OBVIOUS
<1>1. T \subseteq Nat
  OBVIOUS
<1> HIDE DEF T
<1>2. PICK k \in T : \A j \in T : k <= j
  BY <1>1, LeastNat
<1>3. k \in Nat /\ Length(LengthBytes[k]) # k
  BY <1>2 DEF T
<1>4. k # 0
  BY <1>3, LengthBytesFacts, LengthFacts
<1> DEFINE q == k \div Width
<1>5. q \in Nat /\ q < k /\ k = Low(k) + Width * q
  BY <1>3, <1>4, LowestDigit
<1>6. LengthBytes[k] = <<Low(k)>> \o LengthBytes[q]
  BY <1>3, <1>4, LengthBytesFacts
<1> HIDE DEF q
<1>7. q \notin T
  BY <1>2, <1>3, <1>5
<1>8. Length(LengthBytes[q]) = q
  BY <1>5, <1>7 DEF T
<1>9. Low(k) \in Digit /\ LengthBytes[q] \in Seq(Digit)
  BY <1>3, <1>5, LowFacts, LengthBytesFacts
<1>10. QED
  BY <1>3, <1>5, <1>6, <1>8, <1>9, OneMoreByte

-----------------------------------------------------------------------------
(* What messages and coroutines are made of. *)

LEMMA StringsOf == Strings = Seq(Digit)
BY DEF Strings, Digit

\* What nodes tell each other has the length that its opcode promises.
LEMMA MessageTypes ==
    /\ Message("QueryDevice", <<>>) \in Messages
    /\ \A a \in Digit : /\ Message("QueryInterface", <<a>>) \in Messages
                        /\ Message("FindInterface", <<a>>) \in Messages
                        /\ Message("InterfaceReference", <<a>>) \in Messages
    /\ \A a, b \in Digit : Message("QueryString", <<a, b>>) \in Messages
    /\ \A a, b, c \in Digit : Message("Device", <<a, b, c>>) \in Messages
    /\ \A a, b, c, d \in Digit : Message("Interface", <<a, b, c, d>>) \in Messages
    /\ \A a, b \in Digit : \A s \in Strings :
          Message("StringResponse", <<a, b>> \o s) \in Messages
<1> DEFINE Ops == Requests \cup Replies \cup {"InterfaceReference"}
<1>1. /\ Message("QueryDevice", <<>>) \in Messages
      /\ \A a \in Digit : /\ Message("QueryInterface", <<a>>) \in Messages
                          /\ Message("FindInterface", <<a>>) \in Messages
                          /\ Message("InterfaceReference", <<a>>) \in Messages
  BY StringsOf DEF Message, Messages, Requests, Replies
<1>2. \A a, b \in Digit : Message("QueryString", <<a, b>>) \in Messages
  BY StringsOf DEF Message, Messages, Requests, Replies
<1>3. \A a, b, c \in Digit : Message("Device", <<a, b, c>>) \in Messages
  BY StringsOf DEF Message, Messages, Requests, Replies
<1>4. \A a, b, c, d \in Digit : Message("Interface", <<a, b, c, d>>) \in Messages
  BY StringsOf DEF Message, Messages, Requests, Replies
<1>5. ASSUME NEW a \in Digit, NEW b \in Digit, NEW s \in Strings
      PROVE  Message("StringResponse", <<a, b>> \o s) \in Messages
  <2>1. <<a, b>> \in Seq(Digit) /\ Len(<<a, b>>) = 2 /\ s \in Seq(Digit)
    BY StringsOf
  <2> DEFINE two == <<a, b>>
  <2>2. two \in Seq(Digit) /\ Len(two) = 2
    BY <2>1
  <2> HIDE DEF two
  <2>3. two \o s \in Seq(Digit) /\ Len(two \o s) = Len(two) + Len(s)
    BY <2>1, <2>2, ConcatProperties
  <2>4. Len(s) \in Nat
    BY <2>1, LenProperties
  <2>5. two \o s \in Strings /\ Len(two \o s) >= 2
    BY <2>2, <2>3, <2>4, StringsOf
  <2>6. Message("StringResponse", two \o s) \in Messages
    BY <2>5 DEF Message, Messages, Requests, Replies
  <2>7. QED
    BY <2>6 DEF two
<1>6. QED
  BY <1>1, <1>2, <1>3, <1>4, <1>5

\* Whatever a node sends, its frames go between nodes.
LEMMA FramesOnWire ==
    ASSUME NEW n \in Node, NEW dest \in Byte, NEW data \in Messages
    PROVE  Frames(n, dest, data) \subseteq Wire
<1> DEFINE id == FromParts(Addr[n], dest, Port)
<1>1. /\ GetSource(id) = Addr[n] /\ GetDestination(id) = dest /\ id \in Nat
  BY Sources
<1>2. ASSUME NEW f \in Frames(n, dest, data) PROVE f \in Wire
  <2>1. PICK m \in Node : IsToSelf(m, id) /\ f = [to |-> m, id |-> id, data |-> data]
    BY <1>2 DEF Frames
  <2> HIDE DEF id
  <2>2. n \in Node \ {m} /\ dest \in {Broadcast, Addr[m]}
    BY <1>1, <2>1 DEF IsToSelf
  <2>3. f \in [to : Node, id : Nat, data : Messages] /\ f.to = m /\ f.id = id
    BY <1>1, <2>1
  <2>4. QED
    BY <2>2, <2>3 DEF Wire, id
<1>3. QED
  BY <1>2

\* The fields that decide what a coroutine does next.
LEMMA CoroutineFields ==
    ASSUME NEW co \in Coroutines
    PROVE  /\ co.at \in {"Device", "Interface", "Length", "Chunk", "done", "undefined"}
           /\ co.dev \in Node /\ co.num \in Digit /\ co.index \in Digit
           /\ co.index \in Nat /\ co.num \in Nat
           /\ co.creator_id \in Digit /\ co.name_id \in Digit
           /\ co.port \in Digit /\ co.id \in Digit /\ co.str \in Digit
           /\ co.string \in Strings /\ co.interfaces \in Seq(Interfaces)
           /\ co.chunk \in Nat
BY LowFacts DEF Coroutines, Digit

LEMMA RequestTypes ==
    ASSUME NEW co \in Coroutines, ~Over(co)
    PROVE  /\ Request(co) \in Messages
           /\ Request(co).op \in Queries
           /\ Awaited(co) \in Replies
<1>1. co.at \in {"Device", "Interface", "Length", "Chunk"}
  BY CoroutineFields DEF Over
<1>2. co.index \in Digit /\ co.str \in Digit /\ 0 \in Digit /\ Low(co.chunk + 1) \in Digit
  BY CoroutineFields, LowFacts DEF Digit
<1>3. Awaited(co) \in Replies
  BY <1>1 DEF Awaited, Replies
<1>4. CASE co.at = "Device"
  BY <1>3, <1>4, MessageTypes DEF Request, Message, Queries
<1>5. CASE co.at = "Interface"
  BY <1>2, <1>3, <1>5, MessageTypes DEF Request, Message, Queries
<1>6. CASE co.at = "Length"
  BY <1>2, <1>3, <1>6, MessageTypes DEF Request, Message, Queries
<1>7. CASE co.at = "Chunk"
  BY <1>2, <1>3, <1>7, MessageTypes DEF Request, Message, Queries
<1>8. QED
  BY <1>1, <1>4, <1>5, <1>6, <1>7

-----------------------------------------------------------------------------
(* The steps of a coroutine. *)

\* It stays a coroutine and in its loops.
Running(co) == co \in Coroutines /\ Looping(co)

LEMMA AskStringTypes ==
    ASSUME NEW co \in Coroutines, NEW reads \in {"interface", "creator", "name"},
           NEW str \in Digit, reads = "interface" => co.index < co.num
    PROVE  Running(AskString(co, reads, str))
<1> DEFINE d == AskString(co, reads, str)
<1>1. d \in Coroutines /\ d.at = "Length" /\ d.reads = reads /\ d.index = co.index
      /\ d.num = co.num
  BY DEF Coroutines, AskString
<1> HIDE DEF d
<1>2. QED
  BY <1>1 DEF Running, Looping, d

LEMMA NextInterfaceTypes ==
    ASSUME NEW co \in Coroutines
    PROVE  Running(NextInterface(co))
<1>1. CASE co.index < co.num
  <2> DEFINE d == [co EXCEPT !.at = "Interface"]
  <2>1. d \in Coroutines /\ d.at = "Interface" /\ d.index = co.index /\ d.num = co.num
    BY DEF Coroutines
  <2>2. NextInterface(co) = d
    BY <1>1 DEF NextInterface
  <2> HIDE DEF d
  <2>3. QED
    BY <1>1, <2>1, <2>2 DEF Running, Looping
<1>2. CASE ~(co.index < co.num)
  BY <1>2, CoroutineFields, AskStringTypes DEF NextInterface
<1>3. QED
  BY <1>1, <1>2

\* It reads a string.
InString(co) == co.reads # "none" /\ (co.reads = "interface" => co.index < co.num)

LEMMA StringReadTypes ==
    ASSUME NEW co \in Coroutines, InString(co)
    PROVE  Running(StringRead(co))
<1>1. co.reads \in {"interface", "creator", "name"}
  BY DEF InString, Coroutines
<1>2. CASE co.reads = "interface"
  <2> DEFINE intf == [port |-> co.port, id |-> co.id, name |-> co.string]
             d == [co EXCEPT !.index = @ + 1, !.interfaces = Append(@, intf)]
  <2>1. intf \in Interfaces
    BY CoroutineFields DEF Interfaces, Digit
  <2> HIDE DEF intf
  <2>2. co.index + 1 \in Digit
    BY <1>2, CoroutineFields, LowFacts DEF InString, Digit
  <2>3. Append(co.interfaces, intf) \in Seq(Interfaces)
    BY <2>1, CoroutineFields, AppendProperties
  <2>4. d \in Coroutines
    BY <2>2, <2>3 DEF Coroutines
  <2>5. StringRead(co) = NextInterface(d)
    BY <1>2 DEF StringRead, intf
  <2> HIDE DEF d
  <2>6. QED
    BY <2>4, <2>5, NextInterfaceTypes
<1>3. CASE co.reads = "creator"
  <2> DEFINE d == [co EXCEPT !.creator = co.string]
  <2>1. d \in Coroutines /\ co.name_id \in Digit
    BY DEF Coroutines
  <2>2. StringRead(co) = AskString(d, "name", co.name_id)
    BY <1>3 DEF StringRead
  <2> HIDE DEF d
  <2>3. QED
    BY <2>1, <2>2, AskStringTypes
<1>4. CASE co.reads = "name"
  <2> DEFINE d == [co EXCEPT !.name = co.string, !.at = "done"]
  <2>1. d \in Coroutines /\ d.at = "done"
    BY DEF Coroutines
  <2>2. StringRead(co) = d
    BY <1>4 DEF StringRead
  <2> HIDE DEF d
  <2>3. QED
    BY <2>1, <2>2 DEF Running, Looping
<1>5. QED
  BY <1>1, <1>2, <1>3, <1>4

LEMMA NextChunkTypes ==
    ASSUME NEW co \in Coroutines, InString(co)
    PROVE  Running(NextChunk(co))
<1> DEFINE d == [co EXCEPT !.at = "Chunk"]
<1>1. d \in Coroutines /\ d.at = "Chunk" /\ d.index = co.index /\ d.num = co.num
      /\ d.reads = co.reads
  BY DEF Coroutines
<1>2. NextChunk(co) = d \/ NextChunk(co) = StringRead(co)
  BY DEF NextChunk
<1> HIDE DEF d
<1>3. Running(d)
  BY <1>1 DEF Running, Looping, InString
<1>4. QED
  BY <1>2, <1>3, StringReadTypes

\* What follows the two bytes in front.
LEMMA BytesOf ==
    ASSUME NEW args \in Strings
    PROVE  SubSeq(args, 3, Len(args)) \in Seq(Digit)
<1>1. args \in Seq(Digit) /\ Len(args) \in Nat
  BY StringsOf, LenProperties
<1>2. \A i \in 3 .. Len(args) : args[i] \in Digit
  BY <1>1, ElementOfSeq
<1>3. QED
  BY <1>1, <1>2, SubSeqProperties

\* The characters keep their number and stay characters.
LEMMA StoredTypes ==
    ASSUME NEW co \in Coroutines, NEW chars \in Seq(Digit)
    PROVE  Stored(co, chars) \in Strings /\ Len(Stored(co, chars)) = Len(co.string)
<1> DEFINE n == Len(co.string)
           at == co.chunk * Chunk
           char(k) == IF k - at \in DOMAIN chars THEN chars[k - at] ELSE co.string[k]
<1>1. co.string \in Seq(Digit) /\ n \in Nat /\ \A k \in 1 .. n : co.string[k] \in Digit
  BY CoroutineFields, StringsOf, LenProperties, ElementOfSeq
<1>2. \A i \in DOMAIN chars : chars[i] \in Digit
  BY LenProperties, ElementOfSeq
<1>3. Stored(co, chars) = [k \in 1 .. n |-> char(k)]
  BY DEF Stored
<1> HIDE DEF n, at
<1>4. \A k \in 1 .. n : char(k) \in Digit
  BY <1>1, <1>2
<1> HIDE DEF char
<1>5. [k \in 1 .. n |-> char(k)] \in Seq(Digit)
      /\ Len([k \in 1 .. n |-> char(k)]) = n
  BY <1>1, <1>4, IsASeq
<1>6. QED
  BY <1>3, <1>5, StringsOf DEF n

LEMMA AfterTypes ==
    ASSUME NEW co, Running(co), ~Over(co),
           NEW d \in Messages, d.op = Awaited(co)
    PROVE  Running(After(co, d.args))
<1> DEFINE args == d.args
           bytes == SubSeq(args, 3, Len(args))
<1>1. co \in Coroutines /\ co.at \in {"Device", "Interface", "Length", "Chunk"}
      /\ args \in Seq(Digit) /\ bytes \in Seq(Digit)
  BY CoroutineFields, StringsOf, BytesOf DEF Over, Running, Messages
<1>2. CASE co.at = "Device"
  <2>1. Len(args) = 3
    BY <1>2 DEF Messages, Awaited
  <2>2. args[1] \in Digit /\ args[2] \in Digit /\ args[3] \in Digit
    BY <1>1, <2>1, ElementOfSeq
  <2> DEFINE e == [co EXCEPT !.num = args[1], !.creator_id = args[2], !.name_id = args[3]]
  <2>3. After(co, args) = NextInterface(e)
    BY <1>2 DEF After
  <2> HIDE DEF args
  <2>4. e \in Coroutines
    BY <1>1, <2>2 DEF Coroutines
  <2> HIDE DEF e
  <2>5. QED
    BY <2>3, <2>4, NextInterfaceTypes DEF args
<1>3. CASE co.at = "Interface"
  <2>1. Len(args) = 4
    BY <1>3 DEF Messages, Awaited
  <2>2. args[2] \in Digit /\ args[3] \in Digit /\ args[4] \in Digit
    BY <1>1, <2>1, ElementOfSeq
  <2> DEFINE e == [co EXCEPT !.port = args[2], !.id = args[3]]
  <2>3. After(co, args) = AskString(e, "interface", args[4])
    BY <1>3 DEF After
  <2> HIDE DEF args
  <2>4. e \in Coroutines /\ e.index = co.index /\ e.num = co.num
    BY <1>1, <2>2 DEF Coroutines
  <2>5. co.index < co.num
    BY <1>3 DEF Running, Looping
  <2> HIDE DEF e
  <2>6. QED
    BY <2>2, <2>3, <2>4, <2>5, AskStringTypes DEF args
<1>4. ASSUME co.at \in {"Length", "Chunk"} PROVE InString(co)
  BY <1>4 DEF Running, Looping, InString
<1>5. CASE co.at = "Length"
  <2> DEFINE string == [k \in 1 .. Length(bytes) |-> Low(35)]
             e == [co EXCEPT !.chunk = 0, !.string = string]
  <2>1. After(co, args) = NextChunk(e)
    BY <1>5 DEF After
  <2>2. Length(bytes) \in Nat /\ Low(35) \in Digit
    BY <1>1, LengthFacts, LowFacts
  <2>3. string \in Strings
    <3> HIDE DEF bytes
    <3>1. QED
      BY <2>2, IsASeq, StringsOf
  <2> HIDE DEF string
  <2>4. e \in Coroutines /\ InString(e)
    BY <1>1, <1>4, <1>5, <2>3 DEF Coroutines, InString
  <2> HIDE DEF e
  <2>5. QED
    BY <2>1, <2>4, NextChunkTypes DEF args
<1>6. CASE co.at = "Chunk"
  <2>1. CASE co.chunk * Chunk + Len(bytes) > Len(co.string)
    <3> DEFINE e == [co EXCEPT !.at = "undefined"]
    <3>1. After(co, args) = e
      BY <1>6, <2>1 DEF After
    <3>2. e \in Coroutines /\ e.at = "undefined"
      BY <1>1 DEF Coroutines
    <3> HIDE DEF e
    <3>3. QED
      BY <3>1, <3>2 DEF Running, Looping, args
  <2>2. CASE ~(co.chunk * Chunk + Len(bytes) > Len(co.string))
    <3> DEFINE string == Stored(co, bytes)
               next == co.chunk + 1
               e == [co EXCEPT !.chunk = next, !.string = string]
    <3>1. After(co, args) = NextChunk(e)
      BY <1>6, <2>2 DEF After
    <3>2. string \in Strings
      BY <1>1, StoredTypes
    <3>3. next \in Nat
      BY <1>1, CoroutineFields
    <3> HIDE DEF string, next
    <3>4. e \in Coroutines /\ InString(e)
      BY <1>1, <1>4, <1>6, <3>2, <3>3 DEF Coroutines, InString
    <3> HIDE DEF e
    <3>5. QED
      BY <3>1, <3>4, NextChunkTypes DEF args
  <2>3. QED
    BY <2>1, <2>2
<1>7. QED
  BY <1>1, <1>2, <1>3, <1>5, <1>6

-----------------------------------------------------------------------------
(* The wait queue. *)

\* A queue of n in which q does not wait.
QueueWithout(n, q, queue) ==
    /\ queue \in Seq(Waits(Query, Replies))
    /\ Len(queue) <= Slots
    /\ \A i \in DOMAIN queue :
          /\ Caller[queue[i].waiter] = n
          /\ queue[i].waiter # q
          /\ ~Over(query[queue[i].waiter])
          /\ queue[i].opcode = Awaited(query[queue[i].waiter])
    /\ \A i, j \in DOMAIN queue : queue[i].waiter = queue[j].waiter => i = j

\* A coroutine sends its request and waits, or ends, and nobody else is touched.
LEMMA ProceedTypes ==
    ASSUME TypeInv, NEW q \in Query, NEW co, Running(co),
           NEW queue, QueueWithout(Caller[q], q, queue),
           NEW rest, IsABag(rest), DOMAIN rest \subseteq Wire,
           Proceed(q, co, queue, rest)
    PROVE  /\ DOMAIN query' = Query
           /\ \A p \in Query : query'[p] # Unasked => Running(query'[p])
           /\ wait_queue' \in [Node -> Seq(Waits(Query, Replies))]
           /\ IsABag(bus') /\ DOMAIN bus' \subseteq Wire
           /\ \A n \in Node : Len(wait_queue'[n]) <= Slots /\ Waiting(n)'
<1> DEFINE n == Caller[q]
           starves == ~Over(co) /\ ~HasSlot(queue)
           ended == [co EXCEPT !.at = "undefined"]
           next == IF starves THEN ended ELSE co
           wait == [opcode |-> Awaited(co), waiter |-> q]
           list == IF Over(co) \/ starves THEN queue ELSE Append(queue, wait)
<1>1. n \in Node /\ co.dev \in Node /\ Slots \in Nat \ {0}
  BY NodeAssumption, SlotsAssumption, CoroutineFields DEF Running
<1>2. Running(next)
  <2>1. ended \in Coroutines /\ ended.at = "undefined"
    BY DEF Running, Coroutines
  <2> HIDE DEF ended
  <2>2. Running(ended)
    BY <2>1 DEF Running, Looping
  <2>3. QED
    BY <2>2
<1>3. /\ query' = [query EXCEPT ![q] = next]
      /\ wait_queue' = [wait_queue EXCEPT ![n] = list]
  BY DEF Proceed, ReceiveAwait
<1>4. ~Over(co) /\ ~starves => next = co
  OBVIOUS
<1>5. IsABag(bus') /\ DOMAIN bus' \subseteq Wire
  <2>1. CASE Over(co)
    BY <2>1 DEF Proceed
  <2>2. CASE ~Over(co)
    <3> DEFINE in == Frames(n, Addr[co.dev], Request(co))
    <3>1. bus' = rest (+) SetToBag(in)
      BY <2>2 DEF Proceed, Sent
    <3>2. in \subseteq Wire
      BY <1>1, <2>2, RequestTypes, FramesOnWire, Addresses DEF Running
    <3> HIDE DEF in
    <3>3. QED
      BY <3>1, <3>2, MovedIn DEF Moved
  <2>3. QED
    BY <2>1, <2>2
<1>6. /\ queue \in Seq(Waits(Query, Replies)) /\ Len(queue) \in Nat
      /\ DOMAIN queue = 1 .. Len(queue)
  BY LenProperties DEF QueueWithout
<1>7. ASSUME ~Over(co), ~starves
      PROVE  /\ list \in Seq(Waits(Query, Replies))
             /\ Len(list) = Len(queue) + 1 /\ Len(list) <= Slots
             /\ DOMAIN list = 1 .. Len(queue) + 1
             /\ \A i \in 1 .. Len(queue) : list[i] = queue[i]
             /\ list[Len(queue) + 1] = wait
  <2>1. wait \in Waits(Query, Replies)
    BY <1>7, RequestTypes DEF Waits, Running
  <2>2. list = Append(queue, wait)
    BY <1>7
  <2> HIDE DEF list, wait
  <2>3. /\ list \in Seq(Waits(Query, Replies))
        /\ Len(list) = Len(queue) + 1
        /\ \A i \in 1 .. Len(queue) : list[i] = queue[i]
        /\ list[Len(queue) + 1] = wait
    BY <1>6, <2>1, <2>2, AppendProperties
  <2>4. Len(queue) < Slots
    BY <1>7 DEF HasSlot
  <2>5. DOMAIN list = 1 .. Len(list)
    BY <2>3, LenProperties
  <2>6. QED
    BY <1>1, <1>6, <2>3, <2>4, <2>5
<1>8. Over(co) \/ starves => list = queue
  OBVIOUS
<1> HIDE DEF next, list, starves
<1>9. /\ DOMAIN query' = Query /\ query'[q] = next
      /\ \A p \in Query \ {q} : query'[p] = query[p]
  BY <1>3 DEF TypeInv
<1>10. /\ list \in Seq(Waits(Query, Replies)) /\ Len(list) <= Slots
  BY <1>6, <1>7, <1>8 DEF QueueWithout
<1>11. /\ wait_queue' \in [Node -> Seq(Waits(Query, Replies))]
       /\ wait_queue'[n] = list
       /\ \A m \in Node \ {n} : wait_queue'[m] = wait_queue[m]
  <2> DEFINE Q == Seq(Waits(Query, Replies))
  <2>1. wait_queue \in [Node -> Q] /\ list \in Q
    BY <1>10 DEF TypeInv
  <2> HIDE DEF Q
  <2>2. /\ wait_queue' \in [Node -> Q]
        /\ wait_queue'[n] = list
        /\ \A m \in Node \ {n} : wait_queue'[m] = wait_queue[m]
    BY <1>1, <1>3, <2>1
  <2>3. QED
    BY <2>2 DEF Q
<1>12. \A p \in Query : query'[p] # Unasked => Running(query'[p])
  BY <1>2, <1>9 DEF TypeInv, Running
<1>13. ASSUME NEW m \in Node PROVE Len(wait_queue'[m]) <= Slots /\ Waiting(m)'
  <2>1. CASE m = n
    <3> DEFINE Fits(w) == /\ Caller[w.waiter] = n
                          /\ ~Over(query'[w.waiter])
                          /\ w.opcode = Awaited(query'[w.waiter])
    <3>1. \A i \in DOMAIN queue : Fits(queue[i]) /\ queue[i].waiter # q
      <4>1. \A i \in DOMAIN queue : queue[i].waiter \in Query \ {q}
        <5>1. \A i \in DOMAIN queue : queue[i] \in Waits(Query, Replies)
          BY <1>6, ElementOfSeq
        <5>2. QED
          BY <5>1 DEF QueueWithout, Waits
      <4>2. QED
        BY <1>9, <4>1 DEF QueueWithout
    <3>2. CASE Over(co) \/ starves
      <4>1. wait_queue'[m] = queue
        BY <1>8, <1>11, <2>1, <3>2
      <4>2. \A w \in Range(queue) : Fits(w)
        BY <3>1 DEF Range
      <4>3. QED
        BY <2>1, <4>1, <4>2 DEF Waiting, QueueWithout
    <3>3. CASE ~Over(co) /\ ~starves
      <4>1. query'[q] = co /\ wait.waiter = q /\ wait.opcode = Awaited(co)
        BY <1>4, <1>9, <3>3
      <4>2. Fits(wait)
        BY <3>3, <4>1
      <4> HIDE DEF Fits, wait
      <4>3. \A i \in 1 .. Len(queue) + 1 : i \in 1 .. Len(queue) \/ i = Len(queue) + 1
        BY <1>6
      <4>4. \A w \in Range(list) : Fits(w)
        BY <1>6, <1>7, <3>1, <3>3, <4>2, <4>3 DEF Range
      <4>5. \A i, j \in DOMAIN list : list[i].waiter = list[j].waiter => i = j
        BY <1>6, <1>7, <3>1, <3>3, <4>1, <4>3 DEF QueueWithout
      <4>6. QED
        BY <1>10, <1>11, <2>1, <4>4, <4>5 DEF Waiting, Fits
    <3>4. QED
      BY <3>2, <3>3
  <2>2. CASE m # n
    <3>1. wait_queue'[m] = wait_queue[m] /\ Waiting(m) /\ Len(wait_queue[m]) <= Slots
      BY <1>11, <2>2 DEF TypeInv
    <3>2. \A w \in Range(wait_queue[m]) : w.waiter \in Query \ {q}
      <4>1. wait_queue[m] \in Seq(Waits(Query, Replies))
        BY DEF TypeInv
      <4>2. \A w \in Range(wait_queue[m]) : w \in Waits(Query, Replies)
        BY <4>1, LenProperties, ElementOfSeq DEF Range
      <4>3. \A w \in Range(wait_queue[m]) : Caller[w.waiter] = m
        BY <3>1 DEF Waiting
      <4>4. QED
        BY <2>2, <4>2, <4>3 DEF Waits
    <3>3. QED
      BY <1>9, <3>1, <3>2 DEF Waiting
  <2>3. QED
    BY <2>1, <2>2
<1>14. QED
  BY <1>5, <1>9, <1>11, <1>12, <1>13

-----------------------------------------------------------------------------
(* Every step keeps the types. *)

\* No two interfaces have one port, so there are as many as bytes at most.
LEMMA FiniteInterfaces ==
    ASSUME NEW S \in SUBSET Interfaces, \A i, j \in S : i.port = j.port => i = j
    PROVE  IsFiniteSet(S) /\ Cardinality(S) \in Nat
<1> DEFINE port == [i \in S |-> i.port]
<1>1. port \in Injection(S, Digit)
  BY DEF Injection, IsInjective, Interfaces, Digit
<1>2. IsFiniteSet(Digit)
  BY LowFacts, FS_Interval DEF Digit
<1> HIDE DEF port
<1>3. IsFiniteSet(S)
  BY <1>1, <1>2, FS_Injection
<1>4. QED
  BY <1>3, FS_CardinalityType

\* An order of the interfaces lists each of them once.
LEMMA Orders ==
    ASSUME NEW S \in SUBSET Interfaces, \A i, j \in S : i.port = j.port => i = j,
           NEW order \in SetToSeqs(S)
    PROVE  /\ order \in Seq(Interfaces) /\ Len(order) = Cardinality(S)
           /\ Range(order) = S
<1> DEFINE n == Cardinality(S)
<1>1. IsFiniteSet(S) /\ n \in Nat
  BY FiniteInterfaces
<1>2. order \in [1 .. n -> S] /\ \A i, j \in 1 .. n : i # j => order[i] # order[j]
  BY DEF SetToSeqs
<1>3. IsFiniteSet(1 .. n) /\ Cardinality(1 .. n) = n
  BY <1>1, FS_Interval
<1>4. order \in Injection(1 .. n, S)
  BY <1>2 DEF Injection, IsInjective
<1>5. order \in Surjection(1 .. n, S)
  <2> DEFINE I == 1 .. n
  <2>1. IsFiniteSet(I) /\ Cardinality(I) = Cardinality(S) /\ order \in Injection(I, S)
    BY <1>3, <1>4
  <2> HIDE DEF I
  <2>2. order \in Surjection(I, S)
    BY <1>1, <2>1, FS_Injection
  <2>3. QED
    BY <2>2 DEF I
<1> HIDE DEF n
<1>6. Range(order) = S
  BY <1>2, <1>5 DEF Range, Surjection
<1>7. order \in Seq(Interfaces) /\ Len(order) = n
  <2>1. order \in [1 .. n -> Interfaces]
    BY <1>2
  <2>2. order \in Seq(Interfaces)
    BY <1>1, <2>1, SeqDef
  <2>3. DOMAIN order = 1 .. n /\ Len(order) \in Nat /\ DOMAIN order = 1 .. Len(order)
    BY <1>2, <2>2, LenProperties
  <2>4. QED
    BY <1>1, <2>2, <2>3
<1>8. QED
  BY <1>6, <1>7 DEF n

\* A sequence has no more elements than its length.
LEMMA RangeSize ==
    ASSUME NEW S, NEW c \in Seq(S)
    PROVE  /\ IsFiniteSet(Range(c)) /\ Cardinality(Range(c)) \in Nat
           /\ Cardinality(Range(c)) <= Len(c)
           /\ IsInjective(c) => Cardinality(Range(c)) = Len(c)
<1> DEFINE I == 1 .. Len(c)
           R == Range(c)
<1>1. Len(c) \in Nat /\ DOMAIN c = I /\ c \in [I -> S]
  BY LenProperties
<1>2. IsFiniteSet(I) /\ Cardinality(I) = Len(c)
  BY <1>1, FS_Interval
<1>3. c \in [I -> R] /\ \A r \in R : \E i \in I : c[i] = r
  BY <1>1 DEF Range
<1> HIDE DEF I, R
<1>4. c \in Surjection(I, R)
  BY <1>3 DEF Surjection
<1>5. IsInjective(c) => c \in Injection(I, R)
  BY <1>1, <1>3 DEF Injection, IsInjective
<1>6. /\ IsFiniteSet(R) /\ Cardinality(R) <= Cardinality(I)
      /\ Cardinality(R) = Cardinality(I) <=> c \in Injection(I, R)
  BY <1>2, <1>4, FS_Surjection
<1>7. Cardinality(R) \in Nat
  BY <1>6, FS_CardinalityType
<1>8. QED
  BY <1>2, <1>5, <1>6, <1>7 DEF R

LEMMA TypeInit == Init => TypeInv
<1> SUFFICES ASSUME Init PROVE TypeInv
  OBVIOUS
<1>1. /\ \A n \in Node : Initial[n] \in SUBSET Interfaces
      /\ \A n \in Node : \A i, j \in Initial[n] : i.port = j.port => i = j
  BY DataAssumption
<1>2. interfaces \in [Node -> SUBSET Interfaces] /\ \A n \in Node : DistinctPorts(n)
  BY <1>1, DataAssumption DEF Init, DistinctPorts
<1>3. /\ collected_interfaces \in [Node -> Seq(Interfaces)]
      /\ collected_strings \in [Node -> Seq(Strings)]
      /\ wait_queue \in [Node -> Seq(Waits(Query, Replies))]
      /\ find_interface_results \in [Node -> Seq(Refs)]
  BY DEF Init, Clear
<1>4. search \in [Node -> [at : {"idle", "sleeps", "done"},
                           known : SUBSET Refs, missed : SUBSET Refs,
                            found : Seq(Refs)]]
  BY DEF Init, Unsearched
<1>5. IsABag(bus) /\ DOMAIN bus \subseteq Wire
  BY DEF Init, EmptyBag, SetToBag, IsABag
<1>6. DOMAIN query = Query /\ \A q \in Query : query[q] = Unasked
  BY DEF Init
<1>7. \A n \in Node : Len(wait_queue[n]) <= Slots /\ Waiting(n)
  <2>1. \A n \in Node : wait_queue[n] = <<>>
    BY DEF Init, Clear
  <2>2. Len(<<>>) = 0 /\ 0 <= Slots /\ DOMAIN <<>> = {} /\ Range(<<>>) = {}
    BY SlotsAssumption DEF Range
  <2>3. QED
    BY <2>1, <2>2 DEF Waiting
<1>8. QED
  BY <1>2, <1>3, <1>4, <1>5, <1>6, <1>7 DEF TypeInv

\* QueryDevice before its first ReceiveAwait.
Asking(dev) ==
    [at |-> "Device", dev |-> dev, known |-> interfaces[dev],
     num |-> 0, creator_id |-> 0, name_id |-> 0, index |-> 0,
     port |-> 0, id |-> 0, reads |-> "none", str |-> 0,
     string |-> <<>>, chunk |-> 0,
     interfaces |-> <<>>, creator |-> <<>>, name |-> <<>>]

LEMMA Started ==
    ASSUME TypeInv, NEW q \in Query, NEW dev \in Node, StartQuery(q, dev)
    PROVE  /\ query[q].at = "idle" /\ dev \in Node \ {Caller[q]}
           /\ Running(Asking(dev))
           /\ Proceed(q, Asking(dev), wait_queue[Caller[q]], bus)
           /\ UNCHANGED <<interfaces, collected_interfaces, collected_strings, search,
                          find_interface_results>>
<1>1. /\ query[q].at = "idle"
      /\ dev \in Targets[q]
      /\ Proceed(q, Asking(dev), wait_queue[Caller[q]], bus)
      /\ UNCHANGED <<interfaces, collected_interfaces, collected_strings, search,
                     find_interface_results>>
  BY DEF StartQuery, Asking
<1>2. dev # Caller[q]
  BY <1>1, NodeAssumption
<1>3. interfaces[dev] \in SUBSET Interfaces /\ 0 \in Digit
      /\ <<>> \in Strings /\ <<>> \in Seq(Interfaces)
  BY LowFacts DEF TypeInv, Digit, Strings
<1>4. Asking(dev) \in Coroutines /\ Asking(dev).at = "Device"
  BY <1>3 DEF Coroutines, Asking
<1>5. Running(Asking(dev))
  BY <1>4 DEF Running, Looping
<1>6. QED
  BY <1>1, <1>2, <1>5

LEMMA TypeStart ==
    ASSUME TypeInv, NEW q \in Query, NEW dev \in Node, StartQuery(q, dev)
    PROVE  TypeInv'
<1> DEFINE co == Asking(dev)
           n == Caller[q]
<1>1. /\ query[q].at = "idle"
      /\ Proceed(q, co, wait_queue[n], bus)
      /\ UNCHANGED <<interfaces, collected_interfaces, collected_strings, search,
                     find_interface_results>>
  BY Started
<1>2. Running(co)
  BY Started
<1> HIDE DEF co
<1>3. QueueWithout(n, q, wait_queue[n])
  <2>1. /\ n \in Node /\ wait_queue[n] \in Seq(Waits(Query, Replies))
        /\ Len(wait_queue[n]) <= Slots /\ Waiting(n)
    BY NodeAssumption DEF TypeInv
  <2>2. Over(query[q])
    BY <1>1 DEF Over
  <2>3. QED
    BY <2>1, <2>2 DEF QueueWithout, Waiting, Range
<1>4. /\ DOMAIN query' = Query
      /\ \A p \in Query : query'[p] # Unasked => Running(query'[p])
      /\ wait_queue' \in [Node -> Seq(Waits(Query, Replies))]
      /\ IsABag(bus') /\ DOMAIN bus' \subseteq Wire
      /\ \A m \in Node : Len(wait_queue'[m]) <= Slots /\ Waiting(m)'
  <2>1. IsABag(bus) /\ DOMAIN bus \subseteq Wire
    BY DEF TypeInv
  <2>2. QED
    BY <1>1, <1>2, <1>3, <2>1, ProceedTypes
<1>5. QED
  BY <1>1, <1>4 DEF TypeInv, Running, DistinctPorts

\* The notified node is in the queue and has the opcode.
LEMMA NotifiedOnes ==
    ASSUME NEW queue, NEW opcode, NEW w \in Notified(queue, opcode)
    PROVE  w \in Range(queue) /\ w.opcode = opcode
BY DEF Notified, Range

\* Who is resumed is a coroutine that waits for this reply.
LEMMA Resumed ==
    ASSUME TypeInv, NEW f \in DOMAIN bus, NEW w \in Notified(wait_queue[f.to], f.data.op)
    PROVE  LET q == w.waiter   co == query[q]
           IN  /\ w \in Range(wait_queue[f.to]) /\ w \in Waits(Query, Replies)
               /\ q \in Query /\ Caller[q] = f.to
               /\ ~Over(co) /\ Running(co)
               /\ f.data.op = Awaited(co) /\ w.opcode = f.data.op
               /\ f.data.op \in Replies
               /\ Running(After(co, f.data.args))
<1> DEFINE n == f.to
           queue == wait_queue[n]
           q == w.waiter
<1>1. f \in Wire /\ n \in Node /\ f.data \in Messages
  BY DEF TypeInv, Wire
<1>2. queue \in Seq(Waits(Query, Replies)) /\ DOMAIN queue = 1 .. Len(queue)
  BY <1>1, LenProperties DEF TypeInv
<1>3. w \in Range(queue) /\ w.opcode = f.data.op
  BY NotifiedOnes
<1>4. w \in Waits(Query, Replies)
  BY <1>2, <1>3, ElementOfSeq DEF Range
<1>5. q \in Query /\ Caller[q] = n /\ ~Over(query[q]) /\ f.data.op = Awaited(query[q])
  BY <1>1, <1>3, <1>4 DEF TypeInv, Waiting, Waits
<1>6. Running(query[q])
  <2>1. query[q] # Unasked
    BY <1>5 DEF Over, Unasked
  <2>2. QED
    BY <1>5, <2>1 DEF TypeInv, Running
<1>7. Running(After(query[q], f.data.args))
  BY <1>1, <1>5, <1>6, AfterTypes
<1>8. f.data.op \in Replies
  BY <1>5, <1>6, RequestTypes DEF Running
<1>9. QED
  BY <1>3, <1>4, <1>5, <1>6, <1>7, <1>8

\* A reply resumes who waits for it, who waits no more.
LEMMA TypeAwaited ==
    ASSUME TypeInv, NEW f \in DOMAIN bus, HandleAwaited(f.to, f),
           UNCHANGED <<interfaces, search>>
    PROVE  TypeInv'
<1> DEFINE n == f.to
           queue == wait_queue[n]
<1>1. f \in Wire /\ n \in Node /\ f.data \in Messages
  BY DEF TypeInv, Wire
<1>2. PICK w \in Notified(queue, f.data.op) :
          Proceed(w.waiter, After(query[w.waiter], f.data.args), Removed(queue, w),
                  Handled(f))
  BY DEF HandleAwaited
<1> DEFINE q == w.waiter
           rest == Removed(queue, w)
<1>3. /\ queue \in Seq(Waits(Query, Replies)) /\ Len(queue) <= Slots /\ Waiting(n)
      /\ Len(queue) \in Nat /\ DOMAIN queue = 1 .. Len(queue)
  BY <1>1, LenProperties DEF TypeInv
<1>4. /\ w \in Range(queue) /\ q \in Query /\ Caller[q] = n
      /\ Running(After(query[q], f.data.args))
  BY <1>2, Resumed
<1> HIDE DEF queue
<1>5. QueueWithout(Caller[q], q, rest)
  <2>1. PICK m \in 1 .. Len(queue) :
            /\ rest \in Seq(Waits(Query, Replies)) /\ Len(rest) = Len(queue) - 1
            /\ queue[m] = w
            /\ \A i \in 1 .. Len(queue) - 1 : rest[i] = queue[IF i < m THEN i ELSE i + 1]
    BY <1>3, <1>4, RemoveFirstFacts DEF Removed
  <2> DEFINE at(i) == IF i < m THEN i ELSE i + 1
  <2>2. DOMAIN rest = 1 .. Len(queue) - 1
    BY <2>1, LenProperties
  <2>3. \A i \in DOMAIN rest : at(i) \in DOMAIN queue /\ at(i) # m /\ rest[i] = queue[at(i)]
    BY <1>3, <2>1, <2>2
  <2>4. \A i, j \in DOMAIN rest : at(i) = at(j) => i = j
    BY <1>3, <2>2
  <2> HIDE DEF rest, at
  <2>5. \A i \in DOMAIN queue :
            /\ Caller[queue[i].waiter] = n
            /\ ~Over(query[queue[i].waiter])
            /\ queue[i].opcode = Awaited(query[queue[i].waiter])
    BY <1>3 DEF Waiting, Range, queue
  <2>6. \A i, j \in DOMAIN queue : queue[i].waiter = queue[j].waiter => i = j
    BY <1>3 DEF Waiting, queue
  <2>7. \A i \in DOMAIN rest : rest[i].waiter # q
    BY <1>3, <2>1, <2>3, <2>6
  <2>8. \A i, j \in DOMAIN rest : rest[i].waiter = rest[j].waiter => i = j
    BY <2>3, <2>4, <2>6
  <2>9. Len(rest) <= Slots
    BY <1>3, <2>1, SlotsAssumption
  <2>10. QED
    BY <1>4, <2>1, <2>3, <2>5, <2>7, <2>8, <2>9 DEF QueueWithout
<1> HIDE DEF rest
<1>6. IsABag(Handled(f)) /\ DOMAIN Handled(f) \subseteq Wire
  BY MovedOut DEF TypeInv, Moved, Handled
<1>7. /\ DOMAIN query' = Query
      /\ \A p \in Query : query'[p] # Unasked => Running(query'[p])
      /\ wait_queue' \in [Node -> Seq(Waits(Query, Replies))]
      /\ IsABag(bus') /\ DOMAIN bus' \subseteq Wire
      /\ \A m \in Node : Len(wait_queue'[m]) <= Slots /\ Waiting(m)'
  <2>1. Proceed(q, After(query[q], f.data.args), rest, Handled(f))
    BY <1>2 DEF rest, queue
  <2>2. QED
    BY <1>4, <1>5, <1>6, <2>1, ProceedTypes
<1>8. QED
  BY <1>7 DEF TypeInv, Running, DistinctPorts, HandleAwaited

\* A frame is handled, and others are sent.
LEMMA AnswersOnWire ==
    ASSUME TypeInv, NEW f \in DOMAIN bus, NEW in \in SUBSET Wire,
           bus' = Handled(f) (+) SetToBag(in)
    PROVE  IsABag(bus') /\ DOMAIN bus' \subseteq Wire
BY MovedOutIn DEF TypeInv, Moved, Handled

LEMMA HandledOnWire ==
    ASSUME TypeInv, NEW f \in DOMAIN bus, bus' = Handled(f)
    PROVE  IsABag(bus') /\ DOMAIN bus' \subseteq Wire
BY MovedOut DEF TypeInv, Moved, Handled

LEMMA ReplyOnWire ==
    ASSUME TypeInv, NEW f \in DOMAIN bus, NEW data \in Messages
    PROVE  /\ Frames(f.to, GetSource(f.id), data) \subseteq Wire
           /\ Replied(f.to, f, data) => IsABag(bus') /\ DOMAIN bus' \subseteq Wire
<1>1. f \in Wire /\ f.to \in Node
  BY DEF TypeInv, Wire
<1>2. GetSource(f.id) \in Byte
  BY <1>1, Senders, Addresses
<1>3. Frames(f.to, GetSource(f.id), data) \subseteq Wire
  BY <1>1, <1>2, FramesOnWire
<1>4. QED
  BY <1>3, AnswersOnWire DEF Replied, Sent

\* What a question leads to.
LEMMA DeviceTold ==
    ASSUME TypeInv, NEW f \in DOMAIN bus, HandleQueryDevice(f.to, f)
    PROVE  LET n == f.to   c == collected_interfaces'[n]   strings == collected_strings'[n]
           IN  /\ c \in Seq(Interfaces) /\ strings \in Seq(Strings)
               /\ Encoded(collected_interfaces[n], c, interfaces[n])
               /\ Encoded(collected_strings[n], strings, {Creator[n], Name[n]})
               /\ \A m \in Node \ {n} : /\ collected_interfaces'[m] = collected_interfaces[m]
                                        /\ collected_strings'[m] = collected_strings[m]
               /\ collected_interfaces' \in [Node -> Seq(Interfaces)]
               /\ collected_strings' \in [Node -> Seq(Strings)]
               /\ Cardinality(interfaces[n]) \in Nat /\ Cardinality(interfaces[n]) <= Len(c)
               /\ Replied(n, f, Message("Device",
                      <<Low(Cardinality(interfaces[n])), Index(strings, Creator[n]),
                        Index(strings, Name[n])>>))
<1> DEFINE n == f.to
           strings == EncodeAll(collected_strings[n], <<Creator[n], Name[n]>>)
<1>1. n \in Node /\ interfaces[n] \in SUBSET Interfaces /\ DistinctPorts(n)
      /\ collected_interfaces[n] \in Seq(Interfaces) /\ collected_strings[n] \in Seq(Strings)
  BY DEF TypeInv, Wire
<1>2. PICK order \in SetToSeqs(interfaces[n]) :
          /\ collected_interfaces' = [collected_interfaces EXCEPT ![n] = EncodeAll(@, order)]
          /\ collected_strings' = [collected_strings EXCEPT ![n] = strings]
          /\ Replied(n, f, Message("Device",
                 <<Low(Len(order)), Index(strings, Creator[n]), Index(strings, Name[n])>>))
  BY DEF HandleQueryDevice
<1>3. /\ order \in Seq(Interfaces) /\ Len(order) \in Nat
      /\ Len(order) = Cardinality(interfaces[n]) /\ Range(order) = interfaces[n]
      /\ \A i, k \in 1 .. Len(order) : i # k => order[i] # order[k]
  <2>1. order \in Seq(Interfaces) /\ Len(order) = Cardinality(interfaces[n])
        /\ Range(order) = interfaces[n]
    BY <1>1, Orders DEF DistinctPorts
  <2>2. \A i, k \in 1 .. Len(order) : i # k => order[i] # order[k]
    BY <1>2, <2>1 DEF SetToSeqs
  <2>3. QED
    BY <2>1, <2>2, LenProperties
<1> DEFINE c == EncodeAll(collected_interfaces[n], order)
           both == <<Creator[n], Name[n]>>
<1>4. c \in Seq(Interfaces) /\ Encoded(collected_interfaces[n], c, interfaces[n])
  <2> DEFINE b == collected_interfaces[n]
             S == Interfaces
  <2>1. b \in Seq(S) /\ order \in Seq(S)
    BY <1>1, <1>3
  <2> HIDE DEF b, S
  <2>2. EncodeAll(b, order) \in Seq(S) /\ Encoded(b, EncodeAll(b, order), Range(order))
    BY <2>1, EncodedAll
  <2>3. QED
    BY <1>3, <2>2 DEF b, S
<1>5. both \in Seq(Strings) /\ Range(both) = {Creator[n], Name[n]}
  BY <1>1, DataAssumption DEF Range
<1>6. strings \in Seq(Strings)
      /\ Encoded(collected_strings[n], strings, {Creator[n], Name[n]})
  <2> DEFINE b == collected_strings[n]
             S == Strings
  <2>1. b \in Seq(S) /\ both \in Seq(S)
    BY <1>1, <1>5
  <2> HIDE DEF b, both, S
  <2>2. EncodeAll(b, both) \in Seq(S) /\ Encoded(b, EncodeAll(b, both), Range(both))
    BY <2>1, EncodedAll
  <2>3. QED
    BY <1>5, <2>2 DEF both, b, S
<1>7. Len(order) <= Len(c)
  <2>1. interfaces[n] \subseteq Range(c)
    BY <1>4 DEF Encoded
  <2>2. c \in Seq(Interfaces)
    BY <1>4
  <2> HIDE DEF c
  <2>3. IsFiniteSet(Range(c)) /\ Cardinality(Range(c)) \in Nat
        /\ Cardinality(Range(c)) <= Len(c) /\ Len(c) \in Nat
    BY <2>2, RangeSize, LenProperties
  <2>4. Cardinality(interfaces[n]) <= Cardinality(Range(c))
    BY <2>1, <2>3, FS_Subset
  <2>5. QED
    BY <1>3, <2>3, <2>4
<1> HIDE DEF c, strings
<1>8. /\ collected_interfaces' \in [Node -> Seq(Interfaces)]
      /\ collected_strings' \in [Node -> Seq(Strings)]
      /\ collected_interfaces'[n] = c /\ collected_strings'[n] = strings
      /\ \A m \in Node \ {n} : /\ collected_interfaces'[m] = collected_interfaces[m]
                               /\ collected_strings'[m] = collected_strings[m]
  <2>1. collected_interfaces' = [collected_interfaces EXCEPT ![n] = c]
    BY <1>2 DEF c
  <2>2. QED
    BY <1>1, <1>2, <1>4, <1>6, <2>1 DEF TypeInv
<1>9. QED
  BY <1>2, <1>3, <1>4, <1>6, <1>7, <1>8

LEMMA TypeQueryDevice ==
    ASSUME TypeInv, NEW f \in DOMAIN bus, HandleQueryDevice(f.to, f)
    PROVE  /\ collected_interfaces' \in [Node -> Seq(Interfaces)]
           /\ collected_strings' \in [Node -> Seq(Strings)]
           /\ IsABag(bus') /\ DOMAIN bus' \subseteq Wire
<1> DEFINE n == f.to
           strings == collected_strings'[n]
           k == Cardinality(interfaces[n])
           S == Strings
<1>1. /\ strings \in Seq(S)
      /\ Encoded(collected_strings[n], strings, {Creator[n], Name[n]})
      /\ k \in Nat
      /\ Replied(n, f, Message("Device",
             <<Low(k), Index(strings, Creator[n]), Index(strings, Name[n])>>))
      /\ collected_interfaces' \in [Node -> Seq(Interfaces)]
      /\ collected_strings' \in [Node -> Seq(Strings)]
  BY DeviceTold
<1> HIDE DEF strings, k, S
<1>2. Creator[n] \in Range(strings) /\ Name[n] \in Range(strings)
  BY <1>1 DEF Encoded
<1>3. Index(strings, Creator[n]) \in Digit /\ Index(strings, Name[n]) \in Digit
  BY <1>1, <1>2, Numbered
<1>4. IsABag(bus') /\ DOMAIN bus' \subseteq Wire
  BY <1>1, <1>3, LowFacts, MessageTypes, ReplyOnWire
<1>5. QED
  BY <1>1, <1>4

\* A value that is collected under a number is one of them.
LEMMA CollectedTypes ==
    ASSUME NEW S, NEW c \in Seq(S), NEW index \in Digit, NEW x \in Collected(c, index)
    PROVE  x \in S /\ index < Len(c) /\ x = c[index + 1]
<1>1. index < Len(c) /\ x = c[index + 1]
  BY DEF Collected
<1>2. index + 1 \in 1 .. Len(c)
  BY <1>1, LowFacts, LenProperties DEF Digit
<1>3. QED
  BY <1>1, <1>2, ElementOfSeq

\* ... and if there is none, the question is not answered.
LEMMA InterfaceTold ==
    ASSUME TypeInv, NEW f \in DOMAIN bus, f.data.op = "QueryInterface",
           HandleQueryInterface(f.to, f)
    PROVE  LET n == f.to   index == f.data.args[1]   strings == collected_strings'[n]
               intf == collected_interfaces[n][index + 1]
           IN  /\ UNCHANGED collected_interfaces
               /\ index \in Digit
               /\ index >= Len(collected_interfaces[n]) =>
                      bus' = Handled(f) /\ UNCHANGED collected_strings
               /\ index < Len(collected_interfaces[n]) =>
                      /\ intf \in Interfaces /\ strings \in Seq(Strings)
                      /\ Encoded(collected_strings[n], strings, {intf.name})
                      /\ collected_strings' \in [Node -> Seq(Strings)]
                      /\ \A m \in Node \ {n} : collected_strings'[m] = collected_strings[m]
                      /\ Replied(n, f, Message("Interface",
                             <<index, intf.port, intf.id, Index(strings, intf.name)>>))
<1> DEFINE n == f.to
           index == f.data.args[1]
           found == Collected(collected_interfaces[n], index)
           intf == collected_interfaces[n][index + 1]
<1>1. n \in Node /\ collected_interfaces[n] \in Seq(Interfaces)
      /\ collected_strings[n] \in Seq(Strings)
      /\ collected_strings \in [Node -> Seq(Strings)]
  BY DEF TypeInv, Wire
<1>2. index \in Digit
  BY StringsOf, ElementOfSeq DEF TypeInv, Wire, Messages
<1>3. /\ Len(collected_interfaces[n]) \in Nat /\ index \in Nat
      /\ index >= Len(collected_interfaces[n]) <=> ~(index < Len(collected_interfaces[n]))
  <2>1. Len(collected_interfaces[n]) \in Nat
    BY <1>1, LenProperties
  <2>2. index \in Nat
    BY <1>2, LowFacts DEF Digit
  <2> HIDE DEF index, n
  <2>3. QED
    BY <2>1, <2>2
<1>4. CASE index >= Len(collected_interfaces[n])
  <2>1. found = {}
    BY <1>3, <1>4 DEF Collected
  <2>2. bus' = Handled(f) /\ UNCHANGED <<collected_strings, collected_interfaces>>
    BY <2>1 DEF HandleQueryInterface
  <2>3. QED
    BY <1>2, <1>3, <1>4, <2>2
<1>5. CASE index < Len(collected_interfaces[n])
  <2>1. found = {intf}
    BY <1>5 DEF Collected
  <2> DEFINE S == Strings
             c == collected_strings[n]
             strings == Encode(c, intf.name)
  <2>2. /\ collected_strings' = [collected_strings EXCEPT ![n] = strings]
        /\ Replied(n, f, Message("Interface", <<index, intf.port, intf.id,
               Index(strings, intf.name)>>))
        /\ UNCHANGED collected_interfaces
    <3>1. found # {} /\ \A i \in found : i = intf
      BY <2>1
    <3>2. PICK i \in found :
            /\ collected_strings' =
                   [collected_strings EXCEPT ![n] = Encode(collected_strings[n], i.name)]
            /\ Replied(n, f, Message("Interface", <<index, i.port, i.id,
                   Index(Encode(collected_strings[n], i.name), i.name)>>))
      BY <3>1 DEF HandleQueryInterface
    <3>3. QED
      BY <3>1, <3>2 DEF HandleQueryInterface
  <2>3. intf \in Interfaces
    <3>1. index + 1 \in 1 .. Len(collected_interfaces[n])
      BY <1>3, <1>5
    <3>2. QED
      BY <1>1, <3>1, ElementOfSeq
  <2>4. intf.name \in S /\ c \in Seq(S)
    BY <1>1, <2>3 DEF Interfaces
  <2> HIDE DEF S, c
  <2>5. strings \in Seq(S) /\ Encoded(c, strings, {intf.name})
    BY <2>4, EncodedOne
  <2> HIDE DEF strings
  <2>6. /\ collected_strings' \in [Node -> Seq(Strings)]
        /\ collected_strings'[n] = strings
        /\ \A m \in Node \ {n} : collected_strings'[m] = collected_strings[m]
    BY <1>1, <2>2, <2>5 DEF S
  <2> HIDE DEF intf, index, found
  <2>7. QED
    BY <1>2, <1>3, <1>5, <2>2, <2>3, <2>5, <2>6 DEF c, S, intf, index
<1>6. QED
  BY <1>3, <1>4, <1>5

LEMMA TypeQueryInterface ==
    ASSUME TypeInv, NEW f \in DOMAIN bus, f.data.op = "QueryInterface",
           HandleQueryInterface(f.to, f)
    PROVE  /\ collected_interfaces' \in [Node -> Seq(Interfaces)]
           /\ collected_strings' \in [Node -> Seq(Strings)]
           /\ IsABag(bus') /\ DOMAIN bus' \subseteq Wire
<1> DEFINE n == f.to
           index == f.data.args[1]
           strings == collected_strings'[n]
           intf == collected_interfaces[n][index + 1]
           S == Strings
<1>1. /\ UNCHANGED collected_interfaces
      /\ index \in Digit
      /\ index >= Len(collected_interfaces[n]) =>
             bus' = Handled(f) /\ UNCHANGED collected_strings
      /\ index < Len(collected_interfaces[n]) =>
             /\ intf \in Interfaces /\ strings \in Seq(S)
             /\ Encoded(collected_strings[n], strings, {intf.name})
             /\ collected_strings' \in [Node -> Seq(Strings)]
             /\ Replied(n, f, Message("Interface",
                    <<index, intf.port, intf.id, Index(strings, intf.name)>>))
  BY InterfaceTold
<1>2. /\ collected_interfaces \in [Node -> Seq(Interfaces)]
      /\ collected_strings \in [Node -> Seq(Strings)]
      /\ n \in Node
  BY DEF TypeInv, Wire
<1>3. Len(collected_interfaces[n]) \in Nat /\ index \in Nat
  <2>1. collected_interfaces[n] \in Seq(Interfaces) /\ index \in Digit
    BY <1>1, <1>2
  <2> HIDE DEF index
  <2>2. QED
    BY <2>1, LenProperties, LowFacts DEF Digit
<1>4. CASE index >= Len(collected_interfaces[n])
  BY <1>1, <1>2, <1>4, HandledOnWire
<1>5. CASE index < Len(collected_interfaces[n])
  <2> HIDE DEF index, strings, intf, S
  <2>1. intf.port \in Digit /\ intf.id \in Digit
    BY <1>1, <1>5 DEF Interfaces, Digit
  <2>2. strings \in Seq(S) /\ intf.name \in Range(strings)
    BY <1>1, <1>5 DEF Encoded
  <2>3. Index(strings, intf.name) \in Digit
    BY <2>2, Numbered
  <2>4. Message("Interface", <<index, intf.port, intf.id, Index(strings, intf.name)>>)
            \in Messages
    BY <1>1, <2>1, <2>3, MessageTypes
  <2>5. IsABag(bus') /\ DOMAIN bus' \subseteq Wire
    BY <1>1, <1>5, <2>4, ReplyOnWire
  <2>6. QED
    BY <1>1, <1>2, <1>5, <2>5
<1>6. QED
  BY <1>3, <1>4, <1>5

LEMMA PieceTypes ==
    ASSUME NEW str \in Strings, NEW index \in Nat \ {0}
    PROVE  Piece(str, index) \in Strings
<1> DEFINE from == (index - 1) * Chunk + 1
           to == IF index * Chunk < Len(str) THEN index * Chunk ELSE Len(str)
<1>1. str \in Seq(Digit) /\ Len(str) \in Nat /\ Chunk \in Nat /\ index - 1 \in Nat
  BY StringsOf, LenProperties, LowFacts
<1>2. (index - 1) * Chunk \in Nat /\ index * Chunk \in Nat
  BY <1>1
<1>3. from \in Int /\ to \in Int /\ \A i \in from .. to : i \in 1 .. Len(str)
  BY <1>1, <1>2
<1>4. Piece(str, index) = SubSeq(str, from, to)
  BY DEF Piece
<1> HIDE DEF from, to
<1>5. \A i \in from .. to : str[i] \in Digit
  BY <1>1, <1>3, ElementOfSeq
<1>6. QED
  BY <1>3, <1>4, <1>5, SubSeqProperties, StringsOf

LEMMA StringTold ==
    ASSUME TypeInv, NEW f \in DOMAIN bus, f.data.op = "QueryString",
           HandleQueryString(f.to, f)
    PROVE  LET n == f.to   id == f.data.args[1]   index == f.data.args[2]
               str == collected_strings[n][id + 1]
               bytes == IF index = 0 THEN LengthBytes[Len(str)] ELSE Piece(str, index)
           IN  /\ UNCHANGED <<collected_interfaces, collected_strings>>
               /\ id \in Digit /\ index \in Digit
               /\ id >= Len(collected_strings[n]) => bus' = Handled(f)
               /\ id < Len(collected_strings[n]) =>
                      /\ str \in Strings /\ bytes \in Strings
                      /\ Replied(n, f, Message("StringResponse", <<id, index>> \o bytes))
<1> DEFINE n == f.to
           id == f.data.args[1]
           index == f.data.args[2]
           found == Collected(collected_strings[n], id)
           str == collected_strings[n][id + 1]
           bytes == IF index = 0 THEN LengthBytes[Len(str)] ELSE Piece(str, index)
<1>1. n \in Node /\ collected_strings[n] \in Seq(Strings)
  BY DEF TypeInv, Wire
<1>2. id \in Digit /\ index \in Digit
  BY StringsOf, ElementOfSeq DEF TypeInv, Wire, Messages
<1>3. UNCHANGED <<collected_interfaces, collected_strings>>
  BY DEF HandleQueryString
<1>4. /\ Len(collected_strings[n]) \in Nat /\ id \in Nat
      /\ id >= Len(collected_strings[n]) <=> ~(id < Len(collected_strings[n]))
  <2>1. Len(collected_strings[n]) \in Nat
    BY <1>1, LenProperties
  <2>2. id \in Nat
    BY <1>2, LowFacts DEF Digit
  <2> HIDE DEF id, n
  <2>3. QED
    BY <2>1, <2>2
<1>5. CASE id >= Len(collected_strings[n])
  <2>1. found = {}
    BY <1>4, <1>5 DEF Collected
  <2>2. bus' = Handled(f)
    BY <2>1 DEF HandleQueryString
  <2>3. QED
    BY <1>2, <1>3, <1>4, <1>5, <2>2
<1>6. CASE id < Len(collected_strings[n])
  <2>1. found # {} /\ \A s \in found : s = str
    BY <1>6 DEF Collected
  <2>2. PICK s \in found :
            Replied(n, f, Message("StringResponse", <<id, index>> \o
                IF index = 0 THEN LengthBytes[Len(s)] ELSE Piece(s, index)))
    BY <2>1 DEF HandleQueryString
  <2>3. Replied(n, f, Message("StringResponse", <<id, index>> \o bytes))
    BY <2>1, <2>2
  <2>4. str \in Strings
    BY <1>1, <1>2, <2>1, CollectedTypes
  <2> HIDE DEF id, index, str
  <2>5. bytes \in Strings
    <3>1. CASE index = 0
      BY <2>4, <3>1, LengthBytesFacts, StringsOf, LenProperties
    <3>2. CASE index # 0
      BY <1>2, <2>4, <3>2, PieceTypes DEF Digit
    <3>3. QED
      BY <3>1, <3>2
  <2> HIDE DEF bytes
  <2>6. QED
    BY <1>2, <1>3, <1>4, <1>6, <2>3, <2>4, <2>5 DEF id, index, str, bytes
<1>7. QED
  BY <1>4, <1>5, <1>6

LEMMA TypeQueryString ==
    ASSUME TypeInv, NEW f \in DOMAIN bus, f.data.op = "QueryString",
           HandleQueryString(f.to, f)
    PROVE  /\ collected_interfaces' \in [Node -> Seq(Interfaces)]
           /\ collected_strings' \in [Node -> Seq(Strings)]
           /\ IsABag(bus') /\ DOMAIN bus' \subseteq Wire
<1> DEFINE n == f.to
           id == f.data.args[1]
           index == f.data.args[2]
           str == collected_strings[n][id + 1]
           bytes == IF index = 0 THEN LengthBytes[Len(str)] ELSE Piece(str, index)
<1>1. /\ UNCHANGED <<collected_interfaces, collected_strings>>
      /\ id \in Digit /\ index \in Digit
      /\ id >= Len(collected_strings[n]) => bus' = Handled(f)
      /\ id < Len(collected_strings[n]) =>
             /\ bytes \in Strings
             /\ Replied(n, f, Message("StringResponse", <<id, index>> \o bytes))
  BY StringTold
<1>2. /\ collected_interfaces \in [Node -> Seq(Interfaces)]
      /\ collected_strings \in [Node -> Seq(Strings)]
      /\ n \in Node
  BY DEF TypeInv, Wire
<1>3. Len(collected_strings[n]) \in Nat /\ id \in Nat
  <2>1. collected_strings[n] \in Seq(Strings) /\ id \in Digit
    BY <1>1, <1>2
  <2> HIDE DEF id
  <2>2. QED
    BY <2>1, LenProperties, LowFacts DEF Digit
<1> HIDE DEF id, index, bytes
<1>4. CASE id >= Len(collected_strings[n])
  BY <1>1, <1>2, <1>4, HandledOnWire
<1>5. CASE id < Len(collected_strings[n])
  <2>1. Message("StringResponse", <<id, index>> \o bytes) \in Messages
    BY <1>1, <1>5, MessageTypes
  <2>2. QED
    BY <1>1, <1>2, <1>5, <2>1, ReplyOnWire
<1>6. QED
  BY <1>3, <1>4, <1>5

\* A search is answered with one reference for every interface that matches.
LEMMA TypeFindInterface ==
    ASSUME TypeInv, NEW f \in DOMAIN bus, HandleFindInterface(f.to, f)
    PROVE  /\ find_interface_results' \in [Node -> Seq(Refs)]
           /\ IsABag(bus') /\ DOMAIN bus' \subseteq Wire
<1> DEFINE n == f.to
           matching == {i \in interfaces[n] : i.id = f.data.args[1]}
           in == UNION {Frames(n, GetSource(f.id), Message("InterfaceReference", <<i.port>>)) :
                           i \in matching}
<1>1. n \in Node /\ interfaces[n] \in SUBSET Interfaces
  BY DEF TypeInv, Wire
<1>2. \A i \in matching : Message("InterfaceReference", <<i.port>>) \in Messages
  <2>1. \A i \in matching : i.port \in Digit
    BY <1>1 DEF Interfaces, Digit
  <2>2. QED
    BY <2>1, MessageTypes
<1>3. \A i \in matching :
          Frames(n, GetSource(f.id), Message("InterfaceReference", <<i.port>>)) \subseteq Wire
  BY <1>2, ReplyOnWire
<1>4. in \subseteq Wire
  BY <1>3
<1>5. bus' = Handled(f) (+) SetToBag(in) /\ UNCHANGED find_interface_results
  BY DEF HandleFindInterface
<1> HIDE DEF in
<1>6. QED
  BY <1>4, <1>5, AnswersOnWire DEF TypeInv

LEMMA TypeOther ==
    ASSUME TypeInv, NEW f \in DOMAIN bus, HandleOther(f.to, f)
    PROVE  /\ find_interface_results' \in [Node -> Seq(Refs)]
           /\ IsABag(bus') /\ DOMAIN bus' \subseteq Wire
<1> DEFINE n == f.to
           ref == [dev |-> GetSource(f.id), port |-> f.data.args[1]]
<1>1. f \in Wire /\ n \in Node /\ find_interface_results[n] \in Seq(Refs) /\ bus' = Handled(f)
  BY DEF TypeInv, Wire, HandleOther
<1>2. CASE f.data.op = "InterfaceReference"
  <2>1. f.data.args[1] \in Digit
    BY <1>1, <1>2, StringsOf, ElementOfSeq DEF Wire, Messages
  <2>2. GetSource(f.id) \in Byte
    BY <1>1, Senders, Addresses
  <2>3. ref \in Refs
    BY <2>1, <2>2 DEF Refs
  <2>4. find_interface_results' =
            [find_interface_results EXCEPT ![n] = Append(find_interface_results[n], ref)]
    BY <1>2 DEF HandleOther
  <2> HIDE DEF ref
  <2>5. Append(find_interface_results[n], ref) \in Seq(Refs)
    BY <1>1, <2>3, AppendProperties
  <2>6. QED
    BY <1>1, <2>4, <2>5, HandledOnWire DEF TypeInv
<1>3. CASE f.data.op # "InterfaceReference"
  BY <1>1, <1>3, HandledOnWire DEF TypeInv, HandleOther
<1>4. QED
  BY <1>2, <1>3

LEMMA TypeRxAsync ==
    ASSUME TypeInv, NEW f \in DOMAIN bus, HandleRxAsync(f.to, f),
           UNCHANGED <<interfaces, search>>
    PROVE  TypeInv'
<1>1. UNCHANGED <<wait_queue, query>>
  BY DEF HandleRxAsync
<1>2. \/ /\ \/ HandleQueryDevice(f.to, f)
            \/ f.data.op = "QueryInterface" /\ HandleQueryInterface(f.to, f)
            \/ f.data.op = "QueryString" /\ HandleQueryString(f.to, f)
         /\ UNCHANGED find_interface_results
      \/ /\ HandleFindInterface(f.to, f) \/ HandleOther(f.to, f)
         /\ UNCHANGED <<collected_interfaces, collected_strings>>
  BY DEF HandleRxAsync
<1>3. /\ collected_interfaces' \in [Node -> Seq(Interfaces)]
      /\ collected_strings' \in [Node -> Seq(Strings)]
      /\ find_interface_results' \in [Node -> Seq(Refs)]
      /\ IsABag(bus') /\ DOMAIN bus' \subseteq Wire
  <2>1. /\ collected_interfaces \in [Node -> Seq(Interfaces)]
        /\ collected_strings \in [Node -> Seq(Strings)]
        /\ find_interface_results \in [Node -> Seq(Refs)]
    BY DEF TypeInv
  <2>2. CASE HandleQueryDevice(f.to, f) /\ UNCHANGED find_interface_results
    BY <2>1, <2>2, TypeQueryDevice
  <2>3. CASE f.data.op = "QueryInterface" /\ HandleQueryInterface(f.to, f)
             /\ UNCHANGED find_interface_results
    BY <2>1, <2>3, TypeQueryInterface
  <2>4. CASE f.data.op = "QueryString" /\ HandleQueryString(f.to, f)
             /\ UNCHANGED find_interface_results
    BY <2>1, <2>4, TypeQueryString
  <2>5. CASE HandleFindInterface(f.to, f) /\ UNCHANGED <<collected_interfaces, collected_strings>>
    BY <2>1, <2>5, TypeFindInterface
  <2>6. CASE HandleOther(f.to, f) /\ UNCHANGED <<collected_interfaces, collected_strings>>
    BY <2>1, <2>6, TypeOther
  <2>7. QED
    BY <1>2, <2>2, <2>3, <2>4, <2>5, <2>6
<1>4. QED
  BY <1>1, <1>3 DEF TypeInv, DistinctPorts, Waiting

LEMMA ReferenceTypes ==
    ASSUME TypeInv, NEW n \in Node
    PROVE  References(n) \in SUBSET Refs
<1>1. ASSUME NEW m \in Node, NEW i \in interfaces[m]
      PROVE  [dev |-> Addr[m], port |-> i.port] \in Refs
  <2>1. i.port \in Digit /\ Addr[m] \in Byte
    BY <1>1, Addresses DEF TypeInv, Interfaces, Digit
  <2>2. QED
    BY <2>1 DEF Refs
<1>2. QED
  BY <1>1 DEF References

LEMMA TypeFind ==
    ASSUME TypeInv, NEW n \in Node, FindInterface(n)
    PROVE  TypeInv'
<1> DEFINE in == Frames(n, Broadcast, Message("FindInterface", <<Wanted>>))
<1>1. /\ search' = [search EXCEPT ![n].at = "sleeps", ![n].known = References(n)]
      /\ find_interface_results' = [find_interface_results EXCEPT ![n] = <<>>]
      /\ bus' = bus (+) SetToBag(in)
      /\ UNCHANGED <<interfaces, collected_interfaces, collected_strings,
                     wait_queue, query>>
  BY DEF FindInterface, Sent
<1>2. in \subseteq Wire
  <2>1. Wanted \in Digit
    BY DataAssumption DEF Digit
  <2>2. QED
    BY <2>1, MessageTypes, FramesOnWire, Addresses
<1> HIDE DEF in
<1>3. IsABag(bus') /\ DOMAIN bus' \subseteq Wire
  BY <1>1, <1>2, MovedIn DEF TypeInv, Moved
<1> DEFINE Searches == [at : {"idle", "sleeps", "done"}, known : SUBSET Refs,
                        missed : SUBSET Refs, found : Seq(Refs)]
           new == [search[n] EXCEPT !.at = "sleeps", !.known = References(n)]
<1>4. search' \in [Node -> Searches]
  <2>1. search[n] \in Searches
    BY DEF TypeInv
  <2>2. new \in Searches
    BY <2>1, ReferenceTypes
  <2>3. search' = [search EXCEPT ![n] = new]
    BY <1>1
  <2>4. search \in [Node -> Searches]
    BY DEF TypeInv
  <2> HIDE DEF Searches, new
  <2>5. QED
    BY <2>2, <2>3, <2>4
<1>5. find_interface_results' \in [Node -> Seq(Refs)]
  BY <1>1 DEF TypeInv
<1>6. QED
  BY <1>1, <1>3, <1>4, <1>5 DEF TypeInv, DistinctPorts, Waiting

LEMMA TypeWakeUp ==
    ASSUME TypeInv, NEW n \in Node, WakeUp(n)
    PROVE  TypeInv'
<1>1. /\ search' = [search EXCEPT ![n].at = "done", ![n].missed = Late(n),
                                  ![n].found = find_interface_results[n]]
      /\ Late(n) \in SUBSET Refs
      /\ find_interface_results' = [find_interface_results EXCEPT ![n] = <<>>]
      /\ UNCHANGED <<interfaces, collected_interfaces, collected_strings,
                     wait_queue, query, bus>>
  BY ReferenceTypes DEF WakeUp, Late
<1> DEFINE Searches == [at : {"idle", "sleeps", "done"}, known : SUBSET Refs,
                        missed : SUBSET Refs, found : Seq(Refs)]
           new == [search[n] EXCEPT !.at = "done", !.missed = Late(n),
                                    !.found = find_interface_results[n]]
<1>2. search' \in [Node -> Searches]
  <2>1. search[n] \in Searches /\ find_interface_results[n] \in Seq(Refs)
    BY DEF TypeInv
  <2>2. new \in Searches
    BY <1>1, <2>1
  <2>3. search' = [search EXCEPT ![n] = new]
    BY <1>1
  <2>4. search \in [Node -> Searches]
    BY DEF TypeInv
  <2> HIDE DEF Searches, new
  <2>5. QED
    BY <2>2, <2>3, <2>4
<1>3. find_interface_results' \in [Node -> Seq(Refs)]
  BY <1>1 DEF TypeInv
<1>4. QED
  BY <1>1, <1>2, <1>3 DEF TypeInv, DistinctPorts, Waiting

LEMMA TypeAdd ==
    ASSUME TypeInv, NEW l \in Later, AddInterface(l[1], l[2])
    PROVE  TypeInv'
<1>1. l[1] \in Node /\ l[2] \in Interfaces
  BY DataAssumption
<1> DEFINE n == l[1]
           intf == l[2]
<1>2. n \in Node /\ intf \in Interfaces
  BY <1>1
<1>3. /\ \A i \in interfaces[n] : i.port # intf.port
      /\ interfaces' = [interfaces EXCEPT ![n] = @ \cup {intf}]
      /\ UNCHANGED <<collected_interfaces, collected_strings, wait_queue, query,
                     search, find_interface_results, bus>>
  BY DEF AddInterface
<1> HIDE DEF n, intf
<1>4. interfaces' \in [Node -> SUBSET Interfaces]
  BY <1>2, <1>3 DEF TypeInv
<1>5. \A m \in Node : DistinctPorts(m)'
  <2>1. /\ interfaces'[n] = interfaces[n] \cup {intf} /\ DistinctPorts(n)
        /\ \A m \in Node \ {n} : interfaces'[m] = interfaces[m] /\ DistinctPorts(m)
    BY <1>2, <1>3 DEF TypeInv
  <2>2. QED
    BY <1>3, <2>1 DEF DistinctPorts
<1>6. QED
  BY <1>3, <1>4, <1>5 DEF TypeInv, Waiting

LEMMA TypeNext == TypeInv /\ [Next]_vars => TypeInv'
<1> SUFFICES ASSUME TypeInv, [Next]_vars PROVE TypeInv'
  OBVIOUS
<1>1. CASE UNCHANGED vars
  BY <1>1 DEF vars, TypeInv, DistinctPorts, Waiting
<1>2. ASSUME NEW q \in Query, NEW dev \in Node, StartQuery(q, dev) PROVE TypeInv'
  BY <1>2, TypeStart
<1>3. ASSUME NEW n \in Searching, FindInterface(n) PROVE TypeInv'
  BY <1>3, NodeAssumption, TypeFind
<1>4. ASSUME NEW n \in Searching, WakeUp(n) PROVE TypeInv'
  BY <1>4, NodeAssumption, TypeWakeUp
<1>5. ASSUME NEW l \in Later, AddInterface(l[1], l[2]) PROVE TypeInv'
  BY <1>5, TypeAdd
<1>6. ASSUME NEW f \in BagToSet(bus), Deliver(f) PROVE TypeInv'
  BY <1>6, TypeAwaited, TypeRxAsync DEF BagToSet, Deliver
<1>7. QED
  BY <1>1, <1>2, <1>3, <1>4, <1>5, <1>6 DEF Next

\* TypeInv has the whole state; TypeOK is what it says of the parts.
LEMMA TypeImplied == TypeInv => TypeOK
<1> SUFFICES ASSUME TypeInv PROVE TypeOK
  OBVIOUS
<1>1. ASSUME NEW n \in Node
      PROVE  /\ interfaces[n] \subseteq Interfaces
             /\ Range(collected_interfaces[n]) \subseteq Interfaces
             /\ collected_strings[n] \in Seq(Strings)
             /\ wait_queue[n] \in Seq(Waits(Query, {"Device", "Interface", "StringResponse"}))
             /\ Len(wait_queue[n]) <= Slots
             /\ search[n].at \in {"idle", "sleeps", "done"}
             /\ find_interface_results[n] \in Seq([dev : Byte, port : 0 .. Width - 1])
  <2>1. collected_interfaces[n] \in Seq(Interfaces)
    BY <1>1 DEF TypeInv
  <2>2. Range(collected_interfaces[n]) \subseteq Interfaces
    BY <2>1, LenProperties, ElementOfSeq DEF Range
  <2>3. find_interface_results[n] \in Seq([dev : Byte, port : 0 .. Width - 1])
    BY <1>1 DEF TypeInv, Refs, Digit
  <2>4. wait_queue[n] \in Seq(Waits(Query, {"Device", "Interface", "StringResponse"}))
    BY <1>1 DEF TypeInv, Replies
  <2>5. QED
    BY <1>1, <2>2, <2>3, <2>4 DEF TypeInv
<1>2. ASSUME NEW q \in Query
      PROVE  query[q].at \in
                 {"idle", "Device", "Interface", "Length", "Chunk", "done", "undefined"}
  BY <1>2 DEF TypeInv, Unasked, Coroutines
<1>3. ASSUME NEW f \in BagToSet(bus)
      PROVE  f.to \in Node /\ f.id \in Nat /\ f.data.args \in Strings
  BY <1>3 DEF TypeInv, BagToSet, Wire, Messages
<1>4. IsABag(bus)
  BY DEF TypeInv
<1>5. QED
  BY <1>1, <1>2, <1>3, <1>4 DEF TypeOK

LEMMA TypeAlways == Spec => []TypeInv
<1>1. QED
  BY TypeInit, TypeNext, PTL DEF Spec

\* However many calls a node has under way, every variable stays within its
\* type, and the wait queue within its list.
THEOREM TypeCorrect == Spec => []TypeOK
<1>1. QED
  BY TypeAlways, TypeImplied, PTL

-----------------------------------------------------------------------------
(* A search finds everything once. *)

SearchOps == {"FindInterface", "InterfaceReference"}

LEMMA FindFacts ==
    ASSUME NEW n \in Node, NEW m \in Node
    PROVE  /\ Find(n, m).to = m /\ GetSource(Find(n, m).id) = Addr[n]
           /\ Find(n, m).data.op = "FindInterface" /\ Find(n, m).data.args = <<Wanted>>
BY Sources, Addresses DEF Find, Message

LEMMA FoundFacts ==
    ASSUME NEW n \in Node, NEW m \in Node, NEW port
    PROVE  /\ Found(n, m, port).to = n /\ GetSource(Found(n, m, port).id) = Addr[m]
           /\ Found(n, m, port).data.op = "InterfaceReference"
           /\ Found(n, m, port).data.args = <<port>>
<1>1. GetSource(FromParts(Addr[m], Addr[n], Port)) = Addr[m]
  BY Sources, Addresses
<1>2. QED
  BY <1>1 DEF Found, Frame, Message

LEMMA RefFacts ==
    /\ \A m, k \in Node : \A port, other : Ref(m, port) = Ref(k, other) => m = k /\ port = other
    /\ \A n \in Node : \A r : r \in References(n) <=>
          \E m \in Node \ {n} : \E i \in interfaces[m] : i.id = Wanted /\ r = Ref(m, i.port)
<1>1. \A m, k \in Node : \A port, other : Ref(m, port) = Ref(k, other) => m = k /\ port = other
  BY Addresses DEF Ref
<1>2. \A n \in Node : \A r : r \in References(n) <=>
          \E m \in Node \ {n} : \E i \in interfaces[m] : i.id = Wanted /\ r = Ref(m, i.port)
  BY DEF References, Ref
<1>3. QED
  BY <1>1, <1>2

\* A step that has nothing to do with searches.
LEMMA SearchKept ==
    ASSUME TypeInv, SearchInv,
           UNCHANGED <<interfaces, search, find_interface_results>>,
           \A e \in DOMAIN bus \cup DOMAIN bus' : e.data.op \in SearchOps =>
              e \in DOMAIN bus /\ e \in DOMAIN bus' /\ bus'[e] = bus[e]
    PROVE  SearchInv'
<1>1. \A n, m \in Node : Asks(n, m)' <=> Asks(n, m)
  BY FindFacts DEF Asks, SearchOps
<1>2. \A n \in Node : References(n)' = References(n)
  BY DEF References
<1>3. ASSUME NEW n \in Node PROVE Collecting(n)'
  <2>1. Collecting(n)
    BY DEF SearchInv
  <2>2. \A m \in Node, port \in Digit :
            Found(n, m, port) \in DOMAIN bus' <=> Found(n, m, port) \in DOMAIN bus
    BY FoundFacts DEF SearchOps
  <2>3. QED
    BY <1>1, <1>2, <2>1, <2>2 DEF Collecting
<1>4. ASSUME NEW f \in DOMAIN bus', f.data.op \in SearchOps PROVE OnTheWay(f)'
  <2>1. f \in DOMAIN bus /\ bus'[f] = bus[f] /\ f.to \in Node
    BY <1>4 DEF TypeInv, Wire
  <2>2. OnTheWay(f)
    BY <2>1 DEF SearchInv
  <2>3. CASE f.data.op = "FindInterface"
    BY <2>1, <2>2, <2>3 DEF OnTheWay
  <2>4. CASE f.data.op = "InterfaceReference"
    <3>1. PICK m \in Node \ {f.to}, port \in Digit :
              /\ f = Found(f.to, m, port) /\ bus[f] = 1
              /\ search[f.to].at # "idle"
              /\ Ref(m, port) \in References(f.to)
              /\ ~Asks(f.to, m)
              /\ Ref(m, port) \notin Range(find_interface_results[f.to])
      BY <2>2, <2>4 DEF OnTheWay
    <3>2. QED
      BY <1>1, <1>2, <2>1, <2>4, <3>1 DEF OnTheWay
  <2>5. QED
    BY <1>4, <2>3, <2>4 DEF SearchOps
<1>5. FoundAll'
  BY <1>2 DEF SearchInv, FoundAll
<1>6. QED
  BY <1>3, <1>4, <1>5 DEF SearchInv, OnTheWay, SearchOps

LEMMA FramesData ==
    ASSUME NEW n, NEW dest, NEW data, NEW e \in Frames(n, dest, data)
    PROVE  e.data = data
BY DEF Frames

\* What a coroutine adds to the bus.
LEMMA ProceedFrames ==
    ASSUME NEW q \in Query, NEW co, Running(co), NEW queue, NEW rest, IsABag(rest),
           Proceed(q, co, queue, rest)
    PROVE  \E in : /\ Moved(rest, bus', {}, in)
                   /\ IF Over(co) THEN in = {}
                      ELSE in = Frames(Caller[q], Addr[co.dev], Request(co))
                   /\ \A e \in in : e.data.op \in Queries
<1>1. CASE Over(co)
  <2>1. bus' = rest
    BY <1>1 DEF Proceed
  <2>2. Moved(rest, bus', {}, {})
    BY <2>1 DEF Moved
  <2>3. QED
    BY <1>1, <2>2
<1>2. CASE ~Over(co)
  <2> DEFINE in == Frames(Caller[q], Addr[co.dev], Request(co))
  <2>1. bus' = rest (+) SetToBag(in)
    BY <1>2 DEF Proceed, Sent
  <2>2. \A e \in in : e.data.op \in Queries
    BY <1>2, FramesData, RequestTypes DEF Running
  <2>3. Moved(rest, bus', {}, in)
    BY <2>1, MovedIn
  <2>4. QED
    BY <1>2, <2>2, <2>3
<1>3. QED
  BY <1>1, <1>2

\* Queries and their replies are no matter of searches.
LEMMA OtherOps == SearchOps \cap (Queries \cup Replies) = {}
BY DEF SearchOps, Queries, Replies

LEMMA SearchProceed ==
    ASSUME TypeInv, SearchInv, UNCHANGED <<interfaces, search, find_interface_results>>,
           NEW q \in Query, NEW co, Running(co), NEW queue, NEW rest, IsABag(rest),
           \A e \in DOMAIN bus \cup DOMAIN rest : e.data.op \in SearchOps =>
              e \in DOMAIN bus /\ e \in DOMAIN rest /\ rest[e] = bus[e],
           Proceed(q, co, queue, rest)
    PROVE  SearchInv'
<1>1. PICK in : Moved(rest, bus', {}, in) /\ \A e \in in : e.data.op \in Queries
  BY ProceedFrames
<1>2. ASSUME NEW e \in DOMAIN bus \cup DOMAIN bus', e.data.op \in SearchOps
      PROVE  e \in DOMAIN bus /\ e \in DOMAIN bus' /\ bus'[e] = bus[e]
  <2>1. e \notin in
    BY <1>1, <1>2, OtherOps
  <2>2. e \in DOMAIN bus' <=> e \in DOMAIN rest
    BY <1>1, <2>1 DEF Moved
  <2>3. e \in DOMAIN rest => bus'[e] = rest[e]
    BY <1>1, <2>1 DEF Moved
  <2>4. QED
    BY <1>2, <2>2, <2>3
<1>3. QED
  BY <1>2, SearchKept

\* A frame of a query is handled, and answered perhaps.
LEMMA SearchAnswered ==
    ASSUME TypeInv, SearchInv, UNCHANGED <<interfaces, search, find_interface_results>>,
           NEW f \in DOMAIN bus, f.data.op \in Queries \cup Replies,
           \/ bus' = Handled(f)
           \/ \E data : Replied(f.to, f, data) /\ data.op \in Replies
    PROVE  SearchInv'
<1>1. IsABag(bus)
  BY DEF TypeInv
<1>2. PICK in : Moved(bus, bus', {f}, in) /\ \A e \in in : e.data.op \in Replies
  <2>1. CASE bus' = Handled(f)
    BY <1>1, <2>1, MovedOut DEF Handled
  <2>2. ASSUME NEW data, Replied(f.to, f, data), data.op \in Replies
        PROVE  \E in : Moved(bus, bus', {f}, in) /\ \A e \in in : e.data.op \in Replies
    <3> DEFINE in == Frames(f.to, GetSource(f.id), data)
    <3>1. \A e \in in : e.data.op \in Replies
      BY <2>2, FramesData
    <3>2. bus' = Handled(f) (+) SetToBag(in)
      BY <2>2 DEF Replied, Sent
    <3> HIDE DEF in
    <3>3. Moved(bus, bus', {f}, in)
      BY <1>1, <3>2, MovedOutIn DEF Handled
    <3>4. QED
      BY <3>1, <3>3
  <2>3. QED
    BY <2>1, <2>2
<1>3. ASSUME NEW e \in DOMAIN bus \cup DOMAIN bus', e.data.op \in SearchOps
      PROVE  e \in DOMAIN bus /\ e \in DOMAIN bus' /\ bus'[e] = bus[e]
  <2>1. e \notin in /\ e # f
    BY <1>2, <1>3, OtherOps
  <2>2. QED
    BY <1>2, <1>3, <2>1 DEF Moved
<1>4. QED
  BY <1>3, SearchKept

LEMMA SearchAwaited ==
    ASSUME TypeInv, SearchInv, NEW f \in DOMAIN bus, HandleAwaited(f.to, f),
           UNCHANGED <<interfaces, search>>
    PROVE  SearchInv'
<1> DEFINE n == f.to
           queue == wait_queue[n]
<1>1. f \in Wire /\ n \in Node /\ f.data \in Messages /\ IsABag(bus)
  BY DEF TypeInv, Wire
<1>2. PICK w \in Notified(queue, f.data.op) :
          Proceed(w.waiter, After(query[w.waiter], f.data.args), Removed(queue, w),
                  Handled(f))
  BY DEF HandleAwaited
<1>3. /\ w.waiter \in Query
      /\ Running(After(query[w.waiter], f.data.args))
      /\ f.data.op \in Replies
  BY <1>1, <1>2, Resumed
<1>4. Moved(bus, Handled(f), {f}, {})
  BY <1>1, MovedOut DEF Handled
<1>5. ASSUME NEW e \in DOMAIN bus \cup DOMAIN Handled(f), e.data.op \in SearchOps
      PROVE  e \in DOMAIN bus /\ e \in DOMAIN Handled(f) /\ Handled(f)[e] = bus[e]
  <2>1. e # f
    BY <1>3, <1>5, OtherOps
  <2>2. QED
    BY <1>4, <1>5, <2>1 DEF Moved
<1>6. IsABag(Handled(f))
  BY <1>4 DEF Moved
<1>7. UNCHANGED find_interface_results
  BY DEF HandleAwaited
<1>8. QED
  BY <1>2, <1>3, <1>5, <1>6, <1>7, SearchProceed

\* Before a search begins nothing of it is under way, then one question to
\* every other node.
LEMMA SearchFind ==
    ASSUME TypeInv, SearchInv, NEW n \in Node, FindInterface(n)
    PROVE  SearchInv'
<1> DEFINE in == Frames(n, Broadcast, Message("FindInterface", <<Wanted>>))
<1>1. /\ search[n].at = "idle"
      /\ search' = [search EXCEPT ![n].at = "sleeps", ![n].known = References(n)]
      /\ find_interface_results' = [find_interface_results EXCEPT ![n] = <<>>]
      /\ bus' = bus (+) SetToBag(in)
      /\ UNCHANGED interfaces
  BY DEF FindInterface, Sent
<1>2. \A e : e \in in <=> \E m \in Node \ {n} : e = Find(n, m)
  BY FramesToAll DEF Find
<1> HIDE DEF in
<1>3. Moved(bus, bus', {}, in)
  BY <1>1, MovedIn DEF TypeInv
<1>4. /\ search'[n].at = "sleeps" /\ search'[n].known = References(n)
      /\ find_interface_results'[n] = <<>>
      /\ \A k \in Node \ {n} : /\ search'[k] = search[k]
                               /\ find_interface_results'[k] = find_interface_results[k]
  BY <1>1 DEF TypeInv
<1>5. \A k \in Node : References(k)' = References(k)
  BY <1>1 DEF References
<1>6. ASSUME NEW m \in Node PROVE ~Asks(n, m)
  <2> SUFFICES ASSUME Find(n, m) \in DOMAIN bus PROVE FALSE
    BY DEF Asks
  <2>1. OnTheWay(Find(n, m)) /\ Find(n, m).to = m
    BY FindFacts DEF SearchInv
  <2>2. PICK k \in Node \ {m} : Find(n, m) = Find(k, m) /\ search[k].at # "idle"
    BY <2>1, FindFacts DEF OnTheWay
  <2>3. k = n
    BY <2>2, FindFacts, Addresses
  <2>4. QED
    BY <1>1, <2>2, <2>3
<1>7. \A k \in Node \ {n}, m \in Node : Asks(k, m)' <=> Asks(k, m)
  <2>1. \A k \in Node \ {n}, m \in Node : Find(k, m) \notin in
    BY <1>2, FindFacts, Addresses
  <2>2. QED
    BY <1>3, <2>1 DEF Asks, Moved
<1>8. \A m \in Node \ {n} : Asks(n, m)'
  BY <1>2, <1>3 DEF Asks, Moved
<1>9. \A k, m \in Node, port \in Digit :
          Found(k, m, port) \in DOMAIN bus' <=> Found(k, m, port) \in DOMAIN bus
  <2>1. \A k, m \in Node, port \in Digit : Found(k, m, port) \notin in
    BY <1>2, FindFacts, FoundFacts
  <2>2. QED
    BY <1>3, <2>1 DEF Moved
<1>10. ASSUME NEW k \in Node PROVE Collecting(k)'
  <2>1. CASE k = n
    <3>1. Range(<<>>) = {} /\ IsInjective(<<>>)
      BY DEF Range, IsInjective
    <3>2. QED
      BY <1>4, <1>5, <1>8, <2>1, <3>1 DEF Collecting
  <2>2. CASE k # n
    <3>1. Collecting(k)
      BY DEF SearchInv
    <3>2. QED
      BY <1>4, <1>5, <1>7, <1>9, <2>2, <3>1 DEF Collecting
  <2>3. QED
    BY <2>1, <2>2
<1>11. ASSUME NEW f \in DOMAIN bus', f.data.op = "FindInterface"
       PROVE  \E k \in Node \ {f.to} : f = Find(k, f.to) /\ bus'[f] = 1 /\ search'[k].at # "idle"
  <2>1. CASE f \in in
    <3>1. PICK m \in Node \ {n} : f = Find(n, m)
      BY <1>2, <2>1
    <3>2. f \notin DOMAIN bus
      BY <1>6, <3>1 DEF Asks
    <3>3. f.to = m
      BY <3>1, FindFacts
    <3>4. bus'[f] = 1
      BY <1>3, <2>1, <3>2 DEF Moved
    <3>5. QED
      BY <1>4, <3>1, <3>3, <3>4
  <2>2. CASE f \notin in
    <3>1. f \in DOMAIN bus /\ bus'[f] = bus[f]
      BY <1>3, <1>11, <2>2 DEF Moved
    <3>2. PICK k \in Node \ {f.to} : f = Find(k, f.to) /\ bus[f] = 1 /\ search[k].at # "idle"
      BY <1>11, <3>1 DEF SearchInv, OnTheWay
    <3>3. QED
      BY <1>1, <1>4, <3>1, <3>2
  <2>3. QED
    BY <2>1, <2>2
<1>12. ASSUME NEW f \in DOMAIN bus', f.data.op = "InterfaceReference"
       PROVE  OnTheWay(f)'
  <2>1. f \notin in
    BY <1>2, <1>12, FindFacts
  <2>2. f \in DOMAIN bus /\ bus'[f] = bus[f] /\ f.to \in Node
    BY <1>3, <1>12, <2>1 DEF Moved, TypeInv, Wire
  <2>3. PICK m \in Node \ {f.to}, port \in Digit :
            /\ f = Found(f.to, m, port) /\ bus[f] = 1
            /\ search[f.to].at # "idle"
            /\ Ref(m, port) \in References(f.to)
            /\ ~Asks(f.to, m)
            /\ Ref(m, port) \notin Range(find_interface_results[f.to])
    BY <1>12, <2>2 DEF SearchInv, OnTheWay
  <2>4. f.to # n
    BY <1>1, <2>3
  <2>5. QED
    BY <1>4, <1>5, <1>7, <1>12, <2>2, <2>3, <2>4 DEF OnTheWay
<1>13. FoundAll'
  BY <1>4, <1>5 DEF SearchInv, FoundAll
<1>14. \A f \in DOMAIN bus' : OnTheWay(f)'
  BY <1>11, <1>12 DEF OnTheWay
<1>15. QED
  BY <1>10, <1>13, <1>14 DEF SearchInv

\* Who wakes up has all answers but those that are late.
LEMMA SearchWakeUp ==
    ASSUME TypeInv, SearchInv, NEW n \in Node, WakeUp(n)
    PROVE  SearchInv'
<1>1. /\ search[n].at = "sleeps"
      /\ search' = [search EXCEPT ![n].at = "done", ![n].missed = Late(n),
                                  ![n].found = find_interface_results[n]]
      /\ find_interface_results' = [find_interface_results EXCEPT ![n] = <<>>]
      /\ UNCHANGED <<interfaces, bus>>
  BY DEF WakeUp
<1>2. /\ search'[n].at = "done" /\ search'[n].known = search[n].known
      /\ search'[n].missed = Late(n)
      /\ search'[n].found = find_interface_results[n]
      /\ find_interface_results'[n] = <<>>
      /\ \A k \in Node \ {n} : /\ search'[k] = search[k]
                               /\ find_interface_results'[k] = find_interface_results[k]
  BY <1>1 DEF TypeInv
<1>3. \A k \in Node : References(k)' = References(k)
  BY <1>1 DEF References
<1>4. \A k, m \in Node : Asks(k, m)' <=> Asks(k, m)
  BY <1>1 DEF Asks
<1>5. ASSUME NEW m \in Node, NEW port \in Digit, Ref(m, port) \in References(n),
             Asks(n, m) \/ Found(n, m, port) \in DOMAIN bus
      PROVE  Ref(m, port) \in Late(n)
  <2>1. Ref(m, port).dev = Addr[m] /\ Ref(m, port).port = port
    BY DEF Ref
  <2>2. CASE Asks(n, m)
    BY <1>5, <2>1, <2>2, FindFacts DEF Late, BagToSet, Asks
  <2>3. CASE Found(n, m, port) \in DOMAIN bus
    BY <1>5, <2>1, <2>3, FoundFacts DEF Late, BagToSet
  <2>4. QED
    BY <1>5, <2>2, <2>3
<1>6. Collecting(n)
  BY DEF SearchInv
<1>7. search[n].known \subseteq Range(find_interface_results[n]) \cup Late(n)
  <2>1. ASSUME NEW r \in search[n].known
        PROVE  r \in Range(find_interface_results[n]) \cup Late(n)
    <3>1. r \in References(n)
      BY <1>6, <2>1 DEF Collecting
    <3>2. PICK m \in Node \ {n} : \E i \in interfaces[m] : i.id = Wanted /\ r = Ref(m, i.port)
      BY <3>1, RefFacts
    <3>3. PICK i \in interfaces[m] : r = Ref(m, i.port)
      BY <3>2
    <3>4. i.port \in Digit
      BY <3>3 DEF TypeInv, Interfaces, Digit
    <3>5. \/ Asks(n, m) \/ Found(n, m, i.port) \in DOMAIN bus
          \/ r \in Range(find_interface_results[n])
      BY <1>1, <1>6, <2>1, <3>3, <3>4 DEF Collecting
    <3>6. QED
      BY <1>5, <3>1, <3>3, <3>4, <3>5
  <2>2. QED
    BY <2>1
<1>8. FoundAll'
  <2> SUFFICES ASSUME NEW k \in Node, search'[k].at = "done"
               PROVE  /\ search'[k].known \subseteq Range(search'[k].found) \cup search'[k].missed
                      /\ Range(search'[k].found) \subseteq References(k)'
                      /\ IsInjective(search'[k].found)
    BY DEF FoundAll
  <2>1. CASE k = n
    BY <1>2, <1>3, <1>6, <1>7, <2>1 DEF Collecting
  <2>2. CASE k # n
    BY <1>2, <1>3, <2>2 DEF SearchInv, FoundAll
  <2>3. QED
    BY <2>1, <2>2
<1>9. ASSUME NEW k \in Node PROVE Collecting(k)'
  <2>1. CASE k = n
    <3>1. Range(<<>>) = {} /\ IsInjective(<<>>)
      BY DEF Range, IsInjective
    <3>2. QED
      BY <1>2, <1>3, <1>6, <2>1, <3>1 DEF Collecting
  <2>2. CASE k # n
    <3>1. Collecting(k)
      BY DEF SearchInv
    <3>2. QED
      BY <1>1, <1>2, <1>3, <1>4, <2>2, <3>1 DEF Collecting
  <2>3. QED
    BY <2>1, <2>2
<1>10. \A k \in Node : search[k].at # "idle" => search'[k].at # "idle"
  BY <1>2
<1>11. \A k \in Node : Range(find_interface_results'[k]) \subseteq Range(find_interface_results[k])
  <2>1. Range(<<>>) = {}
    BY DEF Range
  <2>2. QED
    BY <1>2, <2>1
<1>12. ASSUME NEW f \in DOMAIN bus' PROVE OnTheWay(f)'
  <2>1. f \in DOMAIN bus /\ bus' = bus /\ f.to \in Node /\ OnTheWay(f)
    BY <1>1, <1>12 DEF SearchInv, TypeInv, Wire
  <2>2. CASE f.data.op = "FindInterface"
    BY <1>10, <2>1, <2>2 DEF OnTheWay
  <2>3. CASE f.data.op = "InterfaceReference"
    <3>1. PICK m \in Node \ {f.to}, port \in Digit :
              /\ f = Found(f.to, m, port) /\ bus[f] = 1
              /\ search[f.to].at # "idle"
              /\ Ref(m, port) \in References(f.to)
              /\ ~Asks(f.to, m)
              /\ Ref(m, port) \notin Range(find_interface_results[f.to])
      BY <2>1, <2>3 DEF OnTheWay
    <3>2. QED
      BY <1>3, <1>4, <1>10, <1>11, <2>1, <2>3, <3>1 DEF OnTheWay
  <2>4. CASE f.data.op \notin SearchOps
    BY <2>4 DEF OnTheWay, SearchOps
  <2>5. QED
    BY <2>2, <2>3, <2>4 DEF SearchOps
<1>13. QED
  BY <1>8, <1>9, <1>12 DEF SearchInv

\* An interface that is added late is one more that may be found.
LEMMA SearchAdd ==
    ASSUME TypeInv, SearchInv, NEW l \in Later, AddInterface(l[1], l[2])
    PROVE  SearchInv'
<1>1. /\ \A m \in Node : interfaces[m] \subseteq interfaces'[m]
      /\ UNCHANGED <<search, find_interface_results, bus>>
  BY DataAssumption DEF AddInterface, TypeInv
<1>2. \A n \in Node : References(n) \subseteq References(n)'
  BY <1>1 DEF References
<1>3. \A n, m \in Node : Asks(n, m)' <=> Asks(n, m)
  BY <1>1 DEF Asks
<1>4. ASSUME NEW n \in Node PROVE Collecting(n)'
  <2>1. Collecting(n)
    BY DEF SearchInv
  <2>2. QED
    BY <1>1, <1>2, <1>3, <2>1 DEF Collecting
<1>5. ASSUME NEW f \in DOMAIN bus' PROVE OnTheWay(f)'
  <2>1. f \in DOMAIN bus /\ f.to \in Node /\ OnTheWay(f)
    BY <1>1, <1>5 DEF SearchInv, TypeInv, Wire
  <2>2. QED
    BY <1>1, <1>2, <1>3, <2>1 DEF OnTheWay
<1>6. FoundAll'
  BY <1>1, <1>2 DEF SearchInv, FoundAll
<1>7. QED
  BY <1>4, <1>5, <1>6 DEF SearchInv

\* Who is asked tells of each interface that matches, and is asked no more.
LEMMA SearchAsked ==
    ASSUME TypeInv, SearchInv, NEW f \in DOMAIN bus, f.data.op = "FindInterface",
           HandleFindInterface(f.to, f), UNCHANGED <<interfaces, search>>
    PROVE  SearchInv'
<1> DEFINE m == f.to
<1>1. PICK n \in Node \ {m} : f = Find(n, m) /\ bus[f] = 1 /\ search[n].at # "idle"
  BY DEF SearchInv, OnTheWay
<1>2. m \in Node /\ GetSource(f.id) = Addr[n] /\ f.data.args[1] = Wanted
  <2>1. m \in Node
    BY DEF TypeInv, Wire
  <2>2. GetSource(f.id) = Addr[n] /\ f.data.args = <<Wanted>>
    BY <1>1, <2>1, FindFacts
  <2>3. QED
    BY <2>1, <2>2
<1> DEFINE matching == {i \in interfaces[m] : i.id = Wanted}
           in == {Found(n, m, i.port) : i \in matching}
<1>3. UNION {Frames(m, GetSource(f.id), Message("InterfaceReference", <<i.port>>)) :
                i \in {i \in interfaces[m] : i.id = f.data.args[1]}} = in
  <2> DEFINE to == GetSource(f.id)
             F(i) == Frames(m, to, Message("InterfaceReference", <<i.port>>))
  <2>1. \A i \in matching : F(i) = {Found(n, m, i.port)}
    BY <1>1, <1>2, OneFrame DEF Found
  <2> HIDE DEF to
  <2>2. UNION {F(i) : i \in matching} = UNION {{Found(n, m, i.port)} : i \in matching}
    BY <2>1
  <2>3. {i \in interfaces[m] : i.id = f.data.args[1]} = matching
    BY <1>2
  <2>4. UNION {{Found(n, m, i.port)} : i \in matching} = in
    OBVIOUS
  <2> HIDE DEF matching
  <2>5. UNION {F(i) : i \in {i \in interfaces[m] : i.id = f.data.args[1]}} = in
    BY <2>2, <2>3, <2>4
  <2>6. QED
    BY <2>5 DEF to
<1>4. bus' = Handled(f) (+) SetToBag(in) /\ UNCHANGED find_interface_results
  BY <1>3 DEF HandleFindInterface
<1>5. \A e : e \in in <=> \E i \in interfaces[m] : i.id = Wanted /\ e = Found(n, m, i.port)
  OBVIOUS
<1> HIDE DEF in, m
<1>6. Moved(bus, bus', {f}, in)
  BY <1>4, MovedOutIn DEF TypeInv, Handled
<1>7. \A e \in in : e.data.op = "InterfaceReference" /\ e.to = n
  BY <1>1, <1>2, <1>5, FoundFacts
<1>8. f \notin in /\ f \notin DOMAIN bus'
  BY <1>1, <1>6, <1>7 DEF Moved
<1>9. \A e \in in : e \notin DOMAIN bus /\ bus'[e] = 1
  <2>1. ASSUME NEW e \in in, e \in DOMAIN bus PROVE FALSE
    <3>1. PICK i \in interfaces[m] : e = Found(n, m, i.port)
      BY <1>5, <2>1
    <3>2. PICK k \in Node \ {n}, port \in Digit : e = Found(n, k, port) /\ ~Asks(n, k)
      BY <1>7, <2>1 DEF SearchInv, OnTheWay
    <3>3. GetSource(e.id) = Addr[m]
      BY <1>1, <1>2, <3>1, FoundFacts
    <3>4. GetSource(e.id) = Addr[k]
      BY <1>1, <3>2, FoundFacts
    <3>5. k = m
      BY <1>2, <3>3, <3>4, Addresses
    <3>6. QED
      BY <1>1, <3>2, <3>5 DEF Asks
  <2>2. QED
    BY <1>6, <2>1 DEF Moved
<1>10. ~Asks(n, m)'
  BY <1>1, <1>8 DEF Asks
<1>11. \A k, j \in Node : k # n \/ j # m => (Asks(k, j)' <=> Asks(k, j))
  <2>1. ASSUME NEW k \in Node, NEW j \in Node, k # n \/ j # m
        PROVE  Find(k, j) # f /\ Find(k, j) \notin in
    BY <1>1, <1>2, <1>7, <2>1, FindFacts, Addresses
  <2>2. QED
    BY <1>6, <2>1 DEF Asks, Moved
<1>12. /\ \A k \in Node : References(k)' = References(k)
       /\ UNCHANGED <<search, find_interface_results>>
  BY <1>4 DEF References
<1>13. \A e \in DOMAIN bus : e # f => e \in DOMAIN bus'
  BY <1>6 DEF Moved
<1>14. ASSUME NEW k \in Node PROVE Collecting(k)'
  <2>1. Collecting(k)
    BY DEF SearchInv
  <2>2. ASSUME NEW j \in Node \ {k}, NEW port \in Digit, search[k].at = "sleeps",
               Ref(j, port) \in search[k].known
        PROVE  \/ Asks(k, j)'
               \/ Found(k, j, port) \in DOMAIN bus'
               \/ Ref(j, port) \in Range(find_interface_results[k])
    <3>1. CASE k = n /\ j = m
      <4>1. Ref(m, port) \in References(n)
        BY <2>1, <2>2, <3>1 DEF Collecting
      <4>2. PICK h \in Node :
                \E i \in interfaces[h] : i.id = Wanted /\ Ref(m, port) = Ref(h, i.port)
        BY <1>1, <4>1, RefFacts
      <4>3. PICK i \in interfaces[h] : i.id = Wanted /\ Ref(m, port) = Ref(h, i.port)
        BY <4>2
      <4>4. h = m /\ i.port = port
        BY <1>2, <4>3, RefFacts
      <4>5. Found(n, m, port) \in in
        BY <1>5, <4>3, <4>4
      <4>6. QED
        BY <1>6, <3>1, <4>5 DEF Moved
    <3>2. CASE k # n \/ j # m
      <4>1. Found(k, j, port) # f
        BY <1>1, <1>2, FindFacts, FoundFacts
      <4>2. QED
        BY <1>11, <1>13, <2>1, <2>2, <3>2, <4>1 DEF Collecting
    <3>3. QED
      BY <3>1, <3>2
  <2>3. \A j \in Node : Asks(k, j)' => Asks(k, j)
    BY <1>2, <1>10, <1>11
  <2>4. QED
    BY <1>12, <2>1, <2>2, <2>3 DEF Collecting
<1>15. ASSUME NEW e \in DOMAIN bus', e.data.op = "InterfaceReference" PROVE OnTheWay(e)'
  <2>1. CASE e \in in
    <3>1. PICK i \in interfaces[m] : i.id = Wanted /\ e = Found(n, m, i.port)
      BY <1>5, <2>1
    <3>2. i.port \in Digit
      BY <1>2, <3>1 DEF TypeInv, Interfaces, Digit
    <3>3. Ref(m, i.port) \in References(n)
      BY <1>1, <1>2, <3>1, RefFacts
    <3>4. Ref(m, i.port) \notin Range(find_interface_results[n])
      BY <1>1, <1>2, <3>2 DEF SearchInv, Collecting, Asks
    <3>5. bus'[e] = 1 /\ e.to = n
      BY <1>7, <1>9, <2>1
    <3>6. m \in Node \ {n}
      BY <1>1, <1>2
    <3>7. QED
      BY <1>1, <1>10, <1>12, <1>15, <3>1, <3>2, <3>3, <3>4, <3>5, <3>6 DEF OnTheWay
  <2>2. CASE e \notin in
    <3>1. e \in DOMAIN bus /\ e # f
      BY <1>6, <1>8, <1>15, <2>2 DEF Moved
    <3>2. bus'[e] = bus[e] /\ e.to \in Node
      BY <1>6, <2>2, <3>1 DEF Moved, TypeInv, Wire
    <3>3. PICK k \in Node \ {e.to}, port \in Digit :
              /\ e = Found(e.to, k, port) /\ bus[e] = 1
              /\ search[e.to].at # "idle"
              /\ Ref(k, port) \in References(e.to)
              /\ ~Asks(e.to, k)
              /\ Ref(k, port) \notin Range(find_interface_results[e.to])
      BY <1>15, <3>1 DEF SearchInv, OnTheWay
    <3>4. ~Asks(e.to, k)'
      BY <1>10, <1>11, <3>2, <3>3
    <3>5. QED
      BY <1>12, <1>15, <3>2, <3>3, <3>4 DEF OnTheWay
  <2>3. QED
    BY <2>1, <2>2
<1>16. ASSUME NEW e \in DOMAIN bus', e.data.op = "FindInterface" PROVE OnTheWay(e)'
  <2>1. e \notin in
    BY <1>7, <1>16
  <2>2. e \in DOMAIN bus /\ e # f
    BY <1>6, <1>8, <1>16, <2>1 DEF Moved
  <2>3. bus'[e] = bus[e] /\ OnTheWay(e)
    BY <1>6, <2>1, <2>2 DEF Moved, SearchInv
  <2>4. QED
    BY <1>12, <1>16, <2>3 DEF OnTheWay
<1>17. FoundAll'
  BY <1>12 DEF SearchInv, FoundAll
<1>18. \A e \in DOMAIN bus' : OnTheWay(e)'
  BY <1>15, <1>16 DEF OnTheWay
<1>19. QED
  BY <1>14, <1>17, <1>18 DEF SearchInv

\* What is told was not told before.
LEMMA SearchFound ==
    ASSUME TypeInv, SearchInv, NEW f \in DOMAIN bus, f.data.op = "InterfaceReference",
           HandleOther(f.to, f), UNCHANGED <<interfaces, search>>
    PROVE  SearchInv'
<1> DEFINE n == f.to
<1>1. PICK m \in Node \ {n}, port \in Digit :
          /\ f = Found(n, m, port) /\ bus[f] = 1
          /\ search[n].at # "idle"
          /\ Ref(m, port) \in References(n)
          /\ ~Asks(n, m)
          /\ Ref(m, port) \notin Range(find_interface_results[n])
  BY DEF SearchInv, OnTheWay
<1>2. n \in Node /\ f.to = n
  BY DEF TypeInv, Wire
<1>3. /\ bus' = Handled(f)
      /\ find_interface_results' =
             [find_interface_results EXCEPT ![n] = Append(find_interface_results[n], Ref(m, port))]
  <2>1. GetSource(f.id) = Addr[m] /\ f.data.args[1] = port
    BY <1>1, <1>2, FoundFacts
  <2>2. QED
    BY <2>1 DEF HandleOther, Ref
<1> HIDE DEF n
<1>4. Moved(bus, bus', {f}, {})
  BY <1>3, MovedOut DEF TypeInv, Handled
<1>5. /\ f \notin DOMAIN bus'
      /\ \A e \in DOMAIN bus \ {f} : e \in DOMAIN bus' /\ bus'[e] = bus[e]
      /\ \A e \in DOMAIN bus' : e \in DOMAIN bus \ {f}
  <2>1. f \notin DOMAIN bus'
    BY <1>1, <1>4 DEF Moved
  <2>2. QED
    BY <1>4, <2>1 DEF Moved
<1>6. \A k, j \in Node : Asks(k, j)' <=> Asks(k, j)
  <2>1. \A k, j \in Node : Find(k, j) # f
    BY FindFacts
  <2>2. QED
    BY <1>5, <2>1 DEF Asks
<1>7. \A k \in Node : References(k)' = References(k)
  BY DEF References
<1> DEFINE s == find_interface_results[n]
           t == find_interface_results'[n]
<1>8. /\ IsInjective(t) /\ Range(t) = Range(s) \cup {Ref(m, port)}
      /\ \A k \in Node \ {n} : find_interface_results'[k] = find_interface_results[k]
  <2>1. s \in Seq(Refs) /\ IsInjective(s) /\ Ref(m, port) \in Refs
    BY <1>1, <1>2, ReferenceTypes DEF TypeInv, SearchInv, Collecting
  <2>2. t = Append(s, Ref(m, port))
        /\ \A k \in Node \ {n} : find_interface_results'[k] = find_interface_results[k]
    BY <1>2, <1>3 DEF TypeInv
  <2> HIDE DEF s, t
  <2>3. Ref(m, port) \notin Range(s)
    BY <1>1 DEF s
  <2>4. QED
    BY <2>1, <2>2, <2>3, AppendFacts
<1>9. ASSUME NEW k \in Node PROVE Collecting(k)'
  <2>1. Collecting(k)
    BY DEF SearchInv
  <2>2. CASE k = n
    <3>1. \A j \in Node, p \in Digit :
              Ref(j, p) \in Range(t) => Ref(j, p) \in Range(s) \/ (j = m /\ p = port)
      BY <1>8, RefFacts
    <3>2. \A j \in Node, p \in Digit : Ref(j, p) \in Range(t) => ~Asks(n, j)
      BY <1>1, <2>1, <2>2, <3>1 DEF Collecting
    <3>3. Range(t) \subseteq References(n)
      BY <1>1, <1>8, <2>1, <2>2 DEF Collecting
    <3>4. ASSUME search[n].at = "sleeps",
                 NEW j \in Node \ {n}, NEW p \in Digit, Ref(j, p) \in search[n].known
          PROVE  Asks(n, j) \/ Found(n, j, p) \in DOMAIN bus' \/ Ref(j, p) \in Range(t)
      <4>1. Asks(n, j) \/ Found(n, j, p) \in DOMAIN bus \/ Ref(j, p) \in Range(s)
        BY <1>1, <2>1, <2>2, <3>4 DEF Collecting
      <4>2. CASE Found(n, j, p) = f
        <5>1. GetSource(f.id) = Addr[j] /\ f.data.args = <<p>>
          BY <1>2, <4>2, FoundFacts
        <5>2. GetSource(f.id) = Addr[m] /\ f.data.args = <<port>>
          BY <1>1, <1>2, FoundFacts
        <5>3. p = port
          BY <5>1, <5>2
        <5>4. j = m
          BY <1>1, <5>1, <5>2, Addresses
        <5>5. QED
          BY <1>8, <5>3, <5>4
      <4>3. CASE Found(n, j, p) # f
        BY <1>5, <1>8, <4>1, <4>3
      <4>4. QED
        BY <4>2, <4>3
    <3> HIDE DEF s
    <3>5. QED
      BY <1>1, <1>6, <1>7, <1>8, <2>1, <2>2, <3>2, <3>3, <3>4 DEF Collecting, t
  <2>3. CASE k # n
    <3>1. \A j \in Node, p \in Digit : Found(k, j, p) # f
      BY <1>2, <2>3, FoundFacts
    <3>2. QED
      BY <1>5, <1>6, <1>7, <1>8, <2>1, <2>3, <3>1 DEF Collecting
  <2>4. QED
    BY <2>2, <2>3
<1>10. ASSUME NEW e \in DOMAIN bus' PROVE OnTheWay(e)'
  <2>1. e \in DOMAIN bus \ {f} /\ bus'[e] = bus[e] /\ e.to \in Node /\ OnTheWay(e)
    BY <1>5, <1>10 DEF SearchInv, TypeInv, Wire
  <2>2. CASE e.data.op = "FindInterface"
    BY <2>1, <2>2 DEF OnTheWay
  <2>3. CASE e.data.op = "InterfaceReference"
    <3>1. PICK k \in Node \ {e.to}, p \in Digit :
              /\ e = Found(e.to, k, p) /\ bus[e] = 1
              /\ search[e.to].at # "idle"
              /\ Ref(k, p) \in References(e.to)
              /\ ~Asks(e.to, k)
              /\ Ref(k, p) \notin Range(find_interface_results[e.to])
      BY <2>1, <2>3 DEF OnTheWay
    <3>2. Ref(k, p) \notin Range(find_interface_results'[e.to])
      <4>1. CASE e.to = n
        <5>1. Ref(k, p) # Ref(m, port)
          <6> SUFFICES ASSUME Ref(k, p) = Ref(m, port) PROVE FALSE
            OBVIOUS
          <6>1. k = m /\ p = port
            BY RefFacts
          <6>2. QED
            BY <1>1, <2>1, <3>1, <4>1, <6>1
        <5>2. QED
          BY <1>8, <3>1, <4>1, <5>1
      <4>2. CASE e.to # n
        BY <1>8, <2>1, <3>1, <4>2
      <4>3. QED
        BY <4>1, <4>2
    <3>3. QED
      BY <1>6, <1>7, <2>1, <2>3, <3>1, <3>2 DEF OnTheWay
  <2>4. CASE e.data.op \notin SearchOps
    BY <2>4 DEF OnTheWay, SearchOps
  <2>5. QED
    BY <2>2, <2>3, <2>4 DEF SearchOps
<1>11. FoundAll'
  BY <1>7 DEF SearchInv, FoundAll
<1>12. QED
  BY <1>9, <1>10, <1>11 DEF SearchInv

LEMMA SearchInit == Init => SearchInv
<1> SUFFICES ASSUME Init PROVE SearchInv
  OBVIOUS
<1>1. DOMAIN bus = {}
  BY DEF Init, EmptyBag, SetToBag
<1>2. ASSUME NEW n \in Node PROVE Collecting(n)
  <2>1. search[n] = Unsearched /\ find_interface_results[n] = <<>>
    BY DEF Init
  <2>2. IsInjective(<<>>) /\ Range(<<>>) = {}
    BY DEF IsInjective, Range
  <2>3. QED
    BY <1>1, <2>1, <2>2 DEF Collecting, Unsearched, Asks
<1>3. FoundAll
  BY DEF Init, FoundAll, Unsearched
<1>4. QED
  BY <1>1, <1>2, <1>3 DEF SearchInv

LEMMA SearchStart ==
    ASSUME TypeInv, SearchInv, NEW q \in Query, NEW dev \in Node, StartQuery(q, dev)
    PROVE  SearchInv'
<1>1. /\ Running(Asking(dev))
      /\ Proceed(q, Asking(dev), wait_queue[Caller[q]], bus)
      /\ UNCHANGED <<interfaces, search, find_interface_results>>
  BY Started
<1>2. IsABag(bus)
  BY DEF TypeInv
<1>3. QED
  BY <1>1, <1>2, SearchProceed

\* What a request is answered with.
LEMMA Answering ==
    ASSUME TypeInv, NEW f \in DOMAIN bus,
           \/ f.data.op = "QueryDevice" /\ HandleQueryDevice(f.to, f)
           \/ f.data.op = "QueryInterface" /\ HandleQueryInterface(f.to, f)
           \/ f.data.op = "QueryString" /\ HandleQueryString(f.to, f)
    PROVE  \/ bus' = Handled(f)
           \/ \E data : Replied(f.to, f, data) /\ data.op \in Replies
<1>1. \A args : /\ Message("Device", args).op \in Replies
                /\ Message("Interface", args).op \in Replies
                /\ Message("StringResponse", args).op \in Replies
  BY DEF Message, Replies
<1>2. CASE f.data.op = "QueryDevice" /\ HandleQueryDevice(f.to, f)
  <2>1. \E args : Replied(f.to, f, Message("Device", args))
    BY <1>2, DeviceTold
  <2>2. QED
    BY <1>1, <2>1
<1>3. f.to \in Node /\ collected_interfaces[f.to] \in Seq(Interfaces)
      /\ collected_strings[f.to] \in Seq(Strings)
  BY DEF TypeInv, Wire
<1>4. \A k \in Digit : /\ k >= Len(collected_interfaces[f.to]) \/ k < Len(collected_interfaces[f.to])
                       /\ k >= Len(collected_strings[f.to]) \/ k < Len(collected_strings[f.to])
  <2>1. Len(collected_interfaces[f.to]) \in Nat /\ Len(collected_strings[f.to]) \in Nat
    BY <1>3, LenProperties
  <2>2. \A k \in Digit : k \in Nat
    BY LowFacts DEF Digit
  <2>3. \A k, m \in Nat : k >= m \/ k < m
    OBVIOUS
  <2>4. QED
    BY <2>1, <2>2, <2>3
<1>5. CASE f.data.op = "QueryInterface" /\ HandleQueryInterface(f.to, f)
  <2> DEFINE index == f.data.args[1]
             c == collected_interfaces[f.to]
  <2>1. /\ index \in Digit
        /\ index >= Len(c) => bus' = Handled(f)
        /\ index < Len(c) => \E args : Replied(f.to, f, Message("Interface", args))
    BY <1>5, InterfaceTold
  <2>2. index >= Len(c) \/ index < Len(c)
    BY <1>4, <2>1
  <2>3. QED
    BY <1>1, <2>1, <2>2
<1>6. CASE f.data.op = "QueryString" /\ HandleQueryString(f.to, f)
  <2> DEFINE id == f.data.args[1]
             c == collected_strings[f.to]
  <2>1. /\ id \in Digit
        /\ id >= Len(c) => bus' = Handled(f)
        /\ id < Len(c) => \E args : Replied(f.to, f, Message("StringResponse", args))
    BY <1>6, StringTold
  <2>2. id >= Len(c) \/ id < Len(c)
    BY <1>4, <2>1
  <2>3. QED
    BY <1>1, <2>1, <2>2
<1>7. QED
  BY <1>2, <1>5, <1>6

LEMMA SearchRxAsync ==
    ASSUME TypeInv, SearchInv, NEW f \in DOMAIN bus, HandleRxAsync(f.to, f),
           UNCHANGED <<interfaces, search>>
    PROVE  SearchInv'
<1>1. f.data \in Messages
  BY DEF TypeInv, Wire
<1>2. \/ /\ \/ f.data.op = "QueryDevice" /\ HandleQueryDevice(f.to, f)
            \/ f.data.op = "QueryInterface" /\ HandleQueryInterface(f.to, f)
            \/ f.data.op = "QueryString" /\ HandleQueryString(f.to, f)
         /\ UNCHANGED find_interface_results
      \/ f.data.op = "FindInterface" /\ HandleFindInterface(f.to, f)
      \/ f.data.op \notin Requests /\ HandleOther(f.to, f)
  BY DEF HandleRxAsync
<1>3. CASE /\ \/ f.data.op = "QueryDevice" /\ HandleQueryDevice(f.to, f)
              \/ f.data.op = "QueryInterface" /\ HandleQueryInterface(f.to, f)
              \/ f.data.op = "QueryString" /\ HandleQueryString(f.to, f)
           /\ UNCHANGED find_interface_results
  <2>1. f.data.op \in Queries
    BY <1>3 DEF Queries
  <2>2. QED
    BY <1>1, <1>3, <2>1, Answering, SearchAnswered
<1>4. CASE f.data.op = "FindInterface" /\ HandleFindInterface(f.to, f)
  BY <1>4, SearchAsked
<1>5. CASE f.data.op \notin Requests /\ HandleOther(f.to, f)
  <2>1. f.data.op \in Replies \cup {"InterfaceReference"}
    BY <1>1, <1>5 DEF Messages
  <2>2. CASE f.data.op = "InterfaceReference"
    BY <1>5, <2>2, SearchFound
  <2>3. CASE f.data.op \in Replies
    <3>1. f.data.op # "InterfaceReference"
      BY <2>3 DEF Replies
    <3>2. find_interface_results \in [Node -> Seq(Refs)]
      BY DEF TypeInv
    <3>3. find_interface_results' =
              [find_interface_results EXCEPT ![f.to] = find_interface_results[f.to]]
      BY <1>5, <3>1 DEF HandleOther
    <3>4. UNCHANGED find_interface_results
      BY <3>2, <3>3
    <3>5. bus' = Handled(f)
      BY <1>5 DEF HandleOther
    <3>6. QED
      BY <2>3, <3>4, <3>5, SearchAnswered
  <2>4. QED
    BY <2>1, <2>2, <2>3
<1>6. QED
  BY <1>2, <1>3, <1>4, <1>5

\* One step per action.
LEMMA SearchNext == TypeInv /\ SearchInv /\ [Next]_vars => SearchInv'
<1> SUFFICES ASSUME TypeInv, SearchInv, [Next]_vars PROVE SearchInv'
  OBVIOUS
<1>1. ASSUME NEW q \in Query, NEW dev \in Node, StartQuery(q, dev) PROVE SearchInv'
  BY <1>1, SearchStart
<1>2. ASSUME NEW n \in Searching, FindInterface(n) PROVE SearchInv'
  BY <1>2, SearchFind, NodeAssumption
<1>3. ASSUME NEW n \in Searching, WakeUp(n) PROVE SearchInv'
  BY <1>3, SearchWakeUp, NodeAssumption
<1>4. ASSUME NEW l \in Later, AddInterface(l[1], l[2]) PROVE SearchInv'
  BY <1>4, SearchAdd
<1>5. ASSUME NEW f \in BagToSet(bus), Deliver(f) PROVE SearchInv'
  <2>1. f \in DOMAIN bus
    BY DEF BagToSet
  <2>2. QED
    BY <1>5, <2>1, SearchAwaited, SearchRxAsync DEF Deliver
<1>6. CASE UNCHANGED vars
  BY <1>6, SearchKept DEF vars
<1>7. QED
  BY <1>1, <1>2, <1>3, <1>4, <1>5, <1>6 DEF Next

LEMMA SearchAlways == Spec => []SearchInv
<1>1. Spec => []TypeInv
  BY TypeAlways
<1>2. QED
  BY <1>1, SearchInit, SearchNext, PTL DEF Spec

\* Whatever else is on the bus, FindInterface returns every interface it looks
\* for that was there when it was called and whose answer is in by then, once,
\* and nothing that is not there.
THEOREM FoundAllCorrect == Spec => []FoundAll
<1>1. SearchInv => FoundAll
  BY DEF SearchInv
<1>2. QED
  BY <1>1, SearchAlways, PTL

-----------------------------------------------------------------------------
(* One request or reply is under way of a call that waits. *)

\* The fields that a query keeps once the device has answered.
Same(co, e) ==
    /\ e.dev = co.dev /\ e.known = co.known
    /\ e.num = co.num /\ e.creator_id = co.creator_id /\ e.name_id = co.name_id

LEMMA AskStringNumbers ==
    ASSUME NEW co \in Coroutines, NEW reads, NEW str, Known(co),
           str < Len(collected_strings[co.dev])
    PROVE  Same(co, AskString(co, reads, str)) /\ Numbers(AskString(co, reads, str))
<1> DEFINE e == AskString(co, reads, str)
<1>1. Same(co, e) /\ e.at = "Length" /\ e.str = str
  BY DEF Coroutines, AskString, Same
<1> HIDE DEF e
<1>2. Known(e) /\ Numbers(e)
  BY <1>1 DEF Same, Known, Numbers
<1>3. QED
  BY <1>1, <1>2 DEF e

LEMMA NextInterfaceNumbers ==
    ASSUME NEW co \in Coroutines, Known(co)
    PROVE  Same(co, NextInterface(co)) /\ Numbers(NextInterface(co))
<1>1. CASE co.index < co.num
  <2> DEFINE e == [co EXCEPT !.at = "Interface"]
  <2>1. Same(co, e) /\ e.at = "Interface" /\ NextInterface(co) = e
    BY <1>1 DEF Coroutines, Same, NextInterface
  <2> HIDE DEF e
  <2>2. Known(e) /\ Numbers(e)
    BY <2>1 DEF Same, Known, Numbers
  <2>3. QED
    BY <2>1, <2>2
<1>2. CASE ~(co.index < co.num)
  BY <1>2, AskStringNumbers DEF NextInterface, Known
<1>3. QED
  BY <1>1, <1>2

LEMMA StringReadNumbers ==
    ASSUME NEW co \in Coroutines, InString(co), Known(co)
    PROVE  Same(co, StringRead(co)) /\ Numbers(StringRead(co))
<1>1. co.reads \in {"interface", "creator", "name"}
  BY DEF InString, Coroutines
<1>2. CASE co.reads = "interface"
  <2> DEFINE intf == [port |-> co.port, id |-> co.id, name |-> co.string]
             d == [co EXCEPT !.index = @ + 1, !.interfaces = Append(@, intf)]
  <2>1. intf \in Interfaces
    BY CoroutineFields DEF Interfaces, Digit
  <2> HIDE DEF intf
  <2>2. co.index + 1 \in Digit
    BY <1>2, CoroutineFields, LowFacts DEF InString, Digit
  <2>3. Append(co.interfaces, intf) \in Seq(Interfaces)
    BY <2>1, CoroutineFields, AppendProperties
  <2>4. d \in Coroutines /\ Same(co, d)
    BY <2>2, <2>3 DEF Coroutines, Same
  <2>5. StringRead(co) = NextInterface(d)
    BY <1>2 DEF StringRead, intf
  <2> HIDE DEF d
  <2>6. Known(d)
    BY <2>4 DEF Same, Known
  <2>7. QED
    BY <2>4, <2>5, <2>6, NextInterfaceNumbers DEF Same
<1>3. CASE co.reads = "creator"
  <2> DEFINE d == [co EXCEPT !.creator = co.string]
  <2>1. d \in Coroutines /\ Same(co, d)
    BY DEF Coroutines, Same
  <2>2. StringRead(co) = AskString(d, "name", co.name_id)
    BY <1>3 DEF StringRead
  <2> HIDE DEF d
  <2>3. Known(d) /\ co.name_id < Len(collected_strings[d.dev])
    BY <2>1 DEF Same, Known
  <2>4. QED
    BY <2>1, <2>2, <2>3, AskStringNumbers DEF Same
<1>4. CASE co.reads = "name"
  <2> DEFINE d == [co EXCEPT !.name = co.string, !.at = "done"]
  <2>1. d.at = "done" /\ Same(co, d)
    BY DEF Coroutines, Same
  <2>2. StringRead(co) = d
    BY <1>4 DEF StringRead
  <2> HIDE DEF d
  <2>3. QED
    BY <2>1, <2>2 DEF Numbers
<1>5. QED
  BY <1>1, <1>2, <1>3, <1>4

LEMMA NextChunkNumbers ==
    ASSUME NEW co \in Coroutines, InString(co), Known(co),
           co.str < Len(collected_strings[co.dev])
    PROVE  Same(co, NextChunk(co)) /\ Numbers(NextChunk(co))
<1> DEFINE d == [co EXCEPT !.at = "Chunk"]
<1>1. Same(co, d) /\ d.at = "Chunk" /\ d.str = co.str
  BY DEF Coroutines, Same
<1>2. NextChunk(co) = d \/ NextChunk(co) = StringRead(co)
  BY DEF NextChunk
<1> HIDE DEF d
<1>3. Numbers(d)
  BY <1>1 DEF Same, Known, Numbers
<1>4. QED
  BY <1>1, <1>2, <1>3, StringReadNumbers

\* The numbers in a reply are those the coroutine goes by next.
LEMMA AfterNumbers ==
    ASSUME NEW co, Running(co), ~Over(co), NEW d \in Messages, d.op = Awaited(co),
           Numbers(co), NumbersIn(co, d.args)
    PROVE  /\ Numbers(After(co, d.args))
           /\ After(co, d.args).dev = co.dev /\ After(co, d.args).known = co.known
<1> DEFINE args == d.args
           bytes == SubSeq(args, 3, Len(args))
<1>1. co \in Coroutines /\ co.at \in {"Device", "Interface", "Length", "Chunk"}
      /\ args \in Seq(Digit) /\ bytes \in Seq(Digit)
  BY CoroutineFields, StringsOf, BytesOf DEF Over, Running, Messages
<1>2. CASE co.at = "Device"
  <2>1. Len(args) = 3
    BY <1>2 DEF Messages, Awaited
  <2>2. args[1] \in Digit /\ args[2] \in Digit /\ args[3] \in Digit
    BY <1>1, <2>1, ElementOfSeq
  <2> DEFINE e == [co EXCEPT !.num = args[1], !.creator_id = args[2], !.name_id = args[3]]
  <2>3. After(co, args) = NextInterface(e)
    BY <1>2 DEF After
  <2>4. e \in Coroutines /\ e.dev = co.dev /\ e.known = co.known
        /\ e.num = args[1] /\ e.creator_id = args[2] /\ e.name_id = args[3]
    <3> HIDE DEF args
    <3>1. QED
      BY <1>1, <2>2 DEF Coroutines
  <2> HIDE DEF e
  <2>5. Known(e)
    BY <1>2, <2>4 DEF NumbersIn, Known
  <2>6. QED
    BY <2>3, <2>4, <2>5, NextInterfaceNumbers DEF Same
<1>3. CASE co.at = "Interface"
  <2>1. Len(args) = 4
    BY <1>3 DEF Messages, Awaited
  <2>2. args[2] \in Digit /\ args[3] \in Digit /\ args[4] \in Digit
    BY <1>1, <2>1, ElementOfSeq
  <2> DEFINE e == [co EXCEPT !.port = args[2], !.id = args[3]]
  <2>3. After(co, args) = AskString(e, "interface", args[4])
    BY <1>3 DEF After
  <2>4. e \in Coroutines /\ Same(co, e)
    <3> HIDE DEF args
    <3>1. QED
      BY <1>1, <2>2 DEF Coroutines, Same
  <2> HIDE DEF e
  <2>5. Known(e) /\ args[4] < Len(collected_strings[e.dev])
    BY <1>3, <2>4 DEF NumbersIn, Numbers, Known, Same
  <2>6. QED
    BY <2>3, <2>4, <2>5, AskStringNumbers DEF Same
<1>4. ASSUME co.at \in {"Length", "Chunk"}
      PROVE  InString(co) /\ Known(co) /\ co.str < Len(collected_strings[co.dev])
  BY <1>4 DEF Running, Looping, InString, Numbers
<1>5. ASSUME NEW e \in Coroutines, co.at \in {"Length", "Chunk"}, Same(co, e),
             e.str = co.str, e.reads = co.reads, e.index = co.index
      PROVE  /\ Numbers(NextChunk(e))
             /\ NextChunk(e).dev = co.dev /\ NextChunk(e).known = co.known
  <2>1. InString(e) /\ Known(e) /\ e.str < Len(collected_strings[e.dev])
    BY <1>4, <1>5 DEF InString, Known, Same
  <2>2. QED
    BY <1>5, <2>1, NextChunkNumbers DEF Same
<1>6. CASE co.at = "Length"
  <2> DEFINE string == [k \in 1 .. Length(bytes) |-> Low(35)]
             e == [co EXCEPT !.chunk = 0, !.string = string]
  <2>1. After(co, args) = NextChunk(e)
    BY <1>6 DEF After
  <2>2. Length(bytes) \in Nat /\ Low(35) \in Digit
    BY <1>1, LengthFacts, LowFacts
  <2>3. string \in Strings
    <3> HIDE DEF bytes
    <3>1. QED
      BY <2>2, IsASeq, StringsOf
  <2> HIDE DEF string
  <2>4. e \in Coroutines /\ Same(co, e) /\ e.str = co.str /\ e.reads = co.reads
        /\ e.index = co.index
    BY <1>1, <2>3 DEF Coroutines, Same
  <2> HIDE DEF e
  <2>5. QED
    BY <1>5, <1>6, <2>1, <2>4
<1>7. CASE co.at = "Chunk"
  <2>1. CASE co.chunk * Chunk + Len(bytes) > Len(co.string)
    <3> DEFINE e == [co EXCEPT !.at = "undefined"]
    <3>1. After(co, args) = e
      BY <1>7, <2>1 DEF After
    <3>2. e.at = "undefined" /\ Same(co, e)
      BY <1>1 DEF Coroutines, Same
    <3> HIDE DEF e
    <3>3. QED
      BY <3>1, <3>2 DEF Numbers, Same
  <2>2. CASE ~(co.chunk * Chunk + Len(bytes) > Len(co.string))
    <3> DEFINE string == Stored(co, bytes)
               next == co.chunk + 1
               e == [co EXCEPT !.chunk = next, !.string = string]
    <3>1. After(co, args) = NextChunk(e)
      BY <1>7, <2>2 DEF After
    <3>2. string \in Strings
      BY <1>1, StoredTypes
    <3>3. next \in Nat
      BY <1>1, CoroutineFields
    <3> HIDE DEF string, next
    <3>4. e \in Coroutines /\ Same(co, e) /\ e.str = co.str /\ e.reads = co.reads
          /\ e.index = co.index
      BY <1>1, <3>2, <3>3 DEF Coroutines, Same
    <3> HIDE DEF e
    <3>5. QED
      BY <1>5, <1>7, <3>1, <3>4
  <2>3. QED
    BY <2>1, <2>2
<1>8. QED
  BY <1>1, <1>2, <1>3, <1>6, <1>7

\* Whose frames the request of a call of n and the reply to it are.
LEMMA TalkFrames ==
    ASSUME NEW n \in Node, NEW m \in Node \ {n}, NEW data, NEW k \in Node
    PROVE  /\ Frame(n, m, data).to = m /\ Frame(n, m, data).data = data
           /\ GetSource(Frame(n, m, data).id) = Addr[n]
           /\ data.op \in Queries => (TalkOf(k, Frame(n, m, data)) <=> k = n)
           /\ data.op \in Replies => (TalkOf(k, Frame(n, m, data)) <=> k = m)
<1>1. Frame(n, m, data).to = m /\ Frame(n, m, data).data = data
  BY DEF Frame
<1>2. GetSource(Frame(n, m, data).id) = Addr[n]
  BY Sources, Addresses DEF Frame
<1>3. Queries \cap Replies = {}
  BY DEF Queries, Replies
<1>4. QED
  BY <1>1, <1>2, <1>3, Addresses DEF TalkOf

\* Only the call q has gone on, to co, and nobody has answered it there.
GoneOn(q, co) ==
    /\ query' = [query EXCEPT ![q] = co]
    /\ \A m \in Node \ {Caller[q]} : Talk(m)' = Talk(m)
    /\ \A e \in Talk(Caller[q])' : e.to # Caller[q]

\* The call q of n is where co is, and n has no other under way.
LEMMA TalkProceeds ==
    ASSUME TypeInv, Conversation,
           NEW q \in Query, NEW co, Running(co), co.dev # Caller[q], Numbers(co),
           \A p \in Query \ {q} : Caller[p] = Caller[q] => Over(query[p]),
           NEW rest, IsABag(rest), DOMAIN rest \subseteq DOMAIN bus,
           \A e \in DOMAIN rest : rest[e] = bus[e] /\ ~TalkOf(Caller[q], e),
           \A m \in Node \ {Caller[q]} : Talk(m) \subseteq DOMAIN rest,
           Proceed(q, co, <<>>, rest),
           UNCHANGED <<collected_interfaces, collected_strings>>
    PROVE  Conversation' /\ GoneOn(q, co)
<1> DEFINE n == Caller[q]
           wait == [opcode |-> Awaited(co), waiter |-> q]
           g == Frame(n, co.dev, Request(co))
<1>1. n \in Node /\ co.dev \in Node
  BY NodeAssumption, CoroutineFields DEF Running
<1>2. HasSlot(<<>>)
  BY SlotsAssumption DEF HasSlot
<1>3. /\ query' = [query EXCEPT ![q] = co]
      /\ wait_queue' = [wait_queue EXCEPT ![n] = IF Over(co) THEN <<>> ELSE <<wait>>]
  <2>1. ReceiveAwait(<<>>, q, Awaited(co)) = <<wait>>
    BY DEF ReceiveAwait
  <2> HIDE DEF wait
  <2>2. QED
    BY <1>2, <2>1 DEF Proceed
<1>4. /\ query'[q] = co /\ \A p \in Query \ {q} : query'[p] = query[p]
      /\ wait_queue'[n] = IF Over(co) THEN <<>> ELSE <<wait>>
      /\ \A m \in Node \ {n} : wait_queue'[m] = wait_queue[m]
  <2> HIDE DEF wait
  <2>1. QED
    BY <1>1, <1>3 DEF TypeInv
<1>5. PICK in : Moved(rest, bus', {}, in) /\ in = IF Over(co) THEN {} ELSE {g}
  <2>1. PICK in : /\ Moved(rest, bus', {}, in)
                  /\ IF Over(co) THEN in = {} ELSE in = Frames(n, Addr[co.dev], Request(co))
    BY ProceedFrames
  <2>2. Frames(n, Addr[co.dev], Request(co)) = {g}
    BY <1>1, OneFrame
  <2> HIDE DEF g
  <2>3. QED
    BY <2>1, <2>2
<1>6. ASSUME ~Over(co), NEW k \in Node PROVE TalkOf(k, g) <=> k = n
  <2> DEFINE data == Request(co)
  <2>1. data.op \in Queries
    BY <1>6, RequestTypes DEF Running
  <2> DEFINE m == co.dev
  <2>2. n \in Node /\ m \in Node \ {n}
    BY <1>1
  <2> HIDE DEF data, m, n
  <2>3. TalkOf(k, Frame(n, m, data)) <=> k = n
    BY <2>1, <2>2, TalkFrames
  <2>4. QED
    BY <2>3 DEF data, m, n
<1> HIDE DEF g
<1>7. \A e : e \in Talk(n)' <=> e \in in
  BY <1>1, <1>5, <1>6 DEF Talk, Moved
<1>8. \A m \in Node \ {n} : Talk(m)' = Talk(m) /\ \A e \in Talk(m) : bus'[e] = bus[e]
  <2> SUFFICES ASSUME NEW m \in Node \ {n}
               PROVE  Talk(m)' = Talk(m) /\ \A e \in Talk(m) : bus'[e] = bus[e]
    OBVIOUS
  <2>1. \A e \in in : ~TalkOf(m, e)
    BY <1>5, <1>6
  <2>2. \A e : TalkOf(m, e) => (e \in DOMAIN bus' <=> e \in DOMAIN rest)
                              /\ (e \in DOMAIN rest => bus'[e] = rest[e])
    BY <1>5, <2>1 DEF Moved
  <2>3. \A e : TalkOf(m, e) => (e \in DOMAIN rest <=> e \in DOMAIN bus)
    BY DEF Talk
  <2>4. QED
    BY <2>2, <2>3 DEF Talk
<1>9. ASSUME NEW m \in Node PROVE Quiet(m)'
  <2>1. Quiet(m)
    BY DEF Conversation
  <2>2. CASE m = n
    <3>1. (\A p \in Query : Caller[p] = n => Over(query'[p])) => Over(co)
      BY <1>4
    <3>2. Over(co) => Talk(n)' = {} /\ wait_queue'[n] = <<>>
      BY <1>4, <1>5, <1>7
    <3>3. QED
      BY <2>2, <3>1, <3>2 DEF Quiet, Over
  <2>3. CASE m # n
    <3>1. (\A p \in Query : Caller[p] = m => Over(query'[p])) <=>
              (\A p \in Query : Caller[p] = m => Over(query[p]))
      BY <1>4, <2>3
    <3>2. QED
      BY <1>4, <1>8, <2>1, <2>3, <3>1 DEF Quiet, Over
  <2>4. QED
    BY <2>2, <2>3
<1>10. ASSUME NEW p \in Query, ~Over(query'[p]), Caller[p] = n
       PROVE  p = q /\ ~Over(co)
  BY <1>4, <1>10
<1>11. ASSUME NEW p \in Query, ~Over(query'[p]) PROVE Talking(p)'
  <2>1. CASE Caller[p] = n
    <3>1. p = q /\ ~Over(co) /\ query'[p] = co
      BY <1>4, <1>10, <1>11, <2>1
    <3>2. Numbers(query[p])'
      BY <3>1 DEF Numbers, Known
    <3>3. in = {g} /\ g \in Talk(n)' /\ Talk(n)' = {g}
      BY <1>5, <1>7, <3>1
    <3>4. bus'[g] = 1
      BY <1>1, <1>5, <1>6, <3>1, <3>3 DEF Moved
    <3>5. Exchange(q, g)'
      BY <3>1 DEF Exchange, g, Frame, Request
    <3>6. wait_queue'[n] = <<[opcode |-> Awaited(query'[p]), waiter |-> p]>>
      BY <1>4, <3>1
    <3>7. \A k \in Query : Caller[k] = n /\ ~Over(query'[k]) => k = q
      BY <1>10
    <3>8. query'[p].dev # n
      BY <3>1
    <3>9. QED
      BY <2>1, <3>1, <3>2, <3>3, <3>4, <3>5, <3>6, <3>7, <3>8 DEF Talking, Over, Awaited
  <2>2. CASE Caller[p] # n
    <3>1. query'[p] = query[p] /\ Caller[p] \in Node \ {n}
      BY <1>4, <2>2, NodeAssumption
    <3>2. Talking(p) /\ ~Over(query[p])
      BY <1>11, <3>1 DEF Conversation
    <3>3. Numbers(query[p])'
      BY <3>1, <3>2 DEF Talking, Numbers, Known
    <3>4. \A e : Exchange(p, e) => Exchange(p, e)'
      BY <3>1 DEF Exchange, Frame, Request, Awaited, NumbersIn
    <3>5. \A k \in Query : Caller[k] = Caller[p] => query'[k] = query[k]
      BY <1>4, <2>2
    <3>6. PICK f \in Talk(Caller[p]) :
              Talk(Caller[p]) = {f} /\ bus[f] = 1 /\ Exchange(p, f)
      BY <3>2 DEF Talking
    <3>7. f \in Talk(Caller[p])' /\ Talk(Caller[p])' = {f} /\ bus'[f] = 1 /\ Exchange(p, f)'
      BY <1>8, <3>1, <3>4, <3>6
    <3>8. wait_queue'[Caller[p]] = <<[opcode |-> Awaited(query'[p]), waiter |-> p]>>
      BY <1>4, <3>1, <3>2 DEF Talking
    <3>9. QED
      BY <3>1, <3>2, <3>3, <3>5, <3>7, <3>8 DEF Talking, Over, Awaited
  <2>3. QED
    BY <2>1, <2>2
<1>12. \A p \in Query : Talking(p)'
  BY <1>11 DEF Talking, Over
<1>13. \A e \in Talk(n)' : e.to # n
  BY <1>5, <1>7 DEF g, Frame
<1>14. QED
  BY <1>3, <1>8, <1>9, <1>12, <1>13 DEF Conversation, GoneOn

\* A step that adds to what was collected and leaves the calls where they are:
\* either it moves none of their frames, or a call has another one under way.
LEMMA TalkKept ==
    ASSUME TypeInv, Conversation, UNCHANGED <<query, wait_queue>>,
           \A m \in Node :
              /\ Len(collected_interfaces[m]) <= Len(collected_interfaces'[m])
              /\ Len(collected_interfaces'[m]) \in Nat
              /\ Len(collected_strings[m]) <= Len(collected_strings'[m])
              /\ Len(collected_strings'[m]) \in Nat,
           \A m \in Node :
              \/ Talk(m)' = Talk(m) /\ \A e \in Talk(m) : bus'[e] = bus[e]
              \/ \E q \in Query : /\ Caller[q] = m /\ ~Over(query[q])
                                  /\ \E g : Talk(m)' = {g} /\ bus'[g] = 1 /\ Exchange(q, g)'
    PROVE  Conversation'
<1>1. \A m \in Node : Len(collected_interfaces[m]) \in Nat /\ Len(collected_strings[m]) \in Nat
  BY LenProperties DEF TypeInv
<1>2. ASSUME NEW m \in Node PROVE Quiet(m)'
  <2>1. Quiet(m)
    BY DEF Conversation
  <2>2. QED
    BY <2>1 DEF Quiet, Over
<1>3. ASSUME NEW p \in Query, ~Over(query[p]) PROVE Talking(p)'
  <2>1. Talking(p) /\ Caller[p] \in Node
    BY <1>3, NodeAssumption DEF Conversation
  <2>2. query[p] \in Coroutines
    BY <1>3 DEF TypeInv, Over, Unasked
  <2>3. /\ query[p].dev \in Node /\ query[p].num \in Nat /\ query[p].creator_id \in Nat
        /\ query[p].name_id \in Nat /\ query[p].str \in Nat
    BY <2>2, CoroutineFields, LowFacts DEF Digit
  <2> DEFINE c == collected_interfaces[query[p].dev]
             d == collected_interfaces'[query[p].dev]
             s == collected_strings[query[p].dev]
             t == collected_strings'[query[p].dev]
  <2>4. /\ Len(c) \in Nat /\ Len(d) \in Nat /\ Len(s) \in Nat /\ Len(t) \in Nat
        /\ Len(c) <= Len(d) /\ Len(s) <= Len(t)
    BY <1>1, <2>3
  <2>5. \A k \in Nat : (k <= Len(c) => k <= Len(d)) /\ (k < Len(s) => k < Len(t))
    <3> HIDE DEF c, d, s, t
    <3>1. QED
      BY <2>4
  <2>6. Known(query[p]) => Known(query[p])'
    BY <2>3, <2>5 DEF Known
  <2>7. Numbers(query[p])'
    BY <1>3, <2>1, <2>3, <2>5, <2>6 DEF Talking, Numbers
  <2>8. \A e \in Talk(Caller[p]) : Exchange(p, e) => Exchange(p, e)'
    <3> SUFFICES ASSUME NEW e \in Talk(Caller[p]), Exchange(p, e) PROVE Exchange(p, e)'
      OBVIOUS
    <3>1. CASE e = Frame(Caller[p], query[p].dev, Request(query[p]))
      BY <3>1 DEF Exchange, Frame, Request
    <3>2. CASE /\ e.data.op = Awaited(query[p])
               /\ e = Frame(query[p].dev, Caller[p], e.data)
               /\ NumbersIn(query[p], e.data.args)
      <4>1. e.data \in Messages
        BY DEF Talk, TypeInv, Wire
      <4>2. e.data.args \in Seq(Digit)
        BY <4>1, StringsOf DEF Messages
      <4>3. \A k \in Digit : k \in Nat
        BY LowFacts DEF Digit
      <4>4. query[p].at = "Device" => /\ e.data.args[1] \in Nat /\ e.data.args[2] \in Nat
                                      /\ e.data.args[3] \in Nat
        <5>1. query[p].at = "Device" => Len(e.data.args) = 3
          BY <3>2, <4>1 DEF Messages, Awaited
        <5>2. QED
          BY <4>2, <4>3, <5>1, ElementOfSeq
      <4>5. query[p].at = "Interface" => e.data.args[4] \in Nat
        <5>1. query[p].at = "Interface" => Len(e.data.args) = 4
          BY <3>2, <4>1 DEF Messages, Awaited
        <5>2. QED
          BY <4>2, <4>3, <5>1, ElementOfSeq
      <4>6. NumbersIn(query[p], e.data.args)'
        BY <2>5, <3>2, <4>4, <4>5 DEF NumbersIn
      <4>7. QED
        BY <3>2, <4>6 DEF Exchange, Frame, Awaited
    <3>3. QED
      BY <3>1, <3>2 DEF Exchange
  <2>9. PICK f \in Talk(Caller[p]) :
            Talk(Caller[p]) = {f} /\ bus[f] = 1 /\ Exchange(p, f)
    BY <1>3, <2>1 DEF Talking
  <2>10. \E g : Talk(Caller[p])' = {g} /\ bus'[g] = 1 /\ Exchange(p, g)'
    <3>1. CASE Talk(Caller[p])' = Talk(Caller[p])
               /\ \A e \in Talk(Caller[p]) : bus'[e] = bus[e]
      BY <2>8, <2>9, <3>1
    <3>2. CASE \E q \in Query :
                  /\ Caller[q] = Caller[p] /\ ~Over(query[q])
                  /\ \E g : Talk(Caller[p])' = {g} /\ bus'[g] = 1 /\ Exchange(q, g)'
      BY <1>3, <2>1, <3>2 DEF Talking
    <3>3. QED
      BY <2>1, <3>1, <3>2
  <2>11. QED
    BY <1>3, <2>1, <2>7, <2>10 DEF Talking, Over, Awaited
<1>4. \A p \in Query : Talking(p)'
  BY <1>3 DEF Talking, Over
<1>5. QED
  BY <1>2, <1>4 DEF Conversation

\* A step that collects nothing and moves no frame of a call.
LEMMA TalkUnmoved ==
    ASSUME TypeInv, Conversation,
           UNCHANGED <<query, wait_queue, collected_interfaces, collected_strings>>,
           \A e \in DOMAIN bus \cup DOMAIN bus' : e.data.op \in Queries \cup Replies =>
              e \in DOMAIN bus /\ e \in DOMAIN bus' /\ bus'[e] = bus[e]
    PROVE  Conversation' /\ \A m \in Node : Talk(m)' = Talk(m)
<1>1. \A m \in Node : Len(collected_interfaces[m]) \in Nat /\ Len(collected_strings[m]) \in Nat
  BY LenProperties DEF TypeInv
<1>2. \A m, e : TalkOf(m, e) => e.data.op \in Queries \cup Replies
  BY DEF TalkOf
<1>3. \A m \in Node : Talk(m)' = Talk(m) /\ \A e \in Talk(m) : bus'[e] = bus[e]
  BY <1>2 DEF Talk
<1>4. QED
  BY <1>1, <1>3, TalkKept

\* A query on the bus is the request of the call that its sender has under way.
LEMMA Asked ==
    ASSUME TypeInv, Conversation, NEW f \in DOMAIN bus, f.data.op \in Queries
    PROVE  \E q \in Query :
              LET n == Caller[q]   co == query[q]
              IN  /\ ~Over(co) /\ Running(co)
                  /\ n \in Node /\ f.to \in Node \ {n} /\ co.dev = f.to
                  /\ GetSource(f.id) = Addr[n]
                  /\ Talk(n) = {f} /\ bus[f] = 1
                  /\ f.data = Request(co) /\ Numbers(co)
<1>1. f \in Wire
  BY DEF TypeInv
<1>2. PICK n \in Node \ {f.to} : GetSource(f.id) = Addr[n]
  BY <1>1, Senders
<1>3. f \in Talk(n)
  BY <1>2 DEF Talk, TalkOf
<1>4. PICK q \in Query : Caller[q] = n /\ ~Over(query[q])
  BY <1>3 DEF Conversation, Quiet
<1> DEFINE co == query[q]
<1>5. Talking(q)
  BY DEF Conversation
<1>6. Talk(n) = {f} /\ bus[f] = 1 /\ Exchange(q, f) /\ Numbers(co) /\ co.dev # n
  BY <1>3, <1>4, <1>5 DEF Talking
<1>7. co # Unasked
  BY <1>4 DEF Over, Unasked
<1>8. Running(co)
  BY <1>7 DEF TypeInv, Running
<1>9. co.dev \in Node /\ Awaited(co) \notin Queries
  BY <1>4, <1>8, RequestTypes, CoroutineFields DEF Running, Queries, Replies
<1>10. f = Frame(n, co.dev, Request(co))
  BY <1>4, <1>6, <1>9 DEF Exchange
<1>11. f.to = co.dev /\ f.data = Request(co)
  BY <1>10 DEF Frame
<1>12. QED
  BY <1>2, <1>4, <1>6, <1>8, <1>9, <1>11

\* Which request a coroutine sends.
LEMMA RequestOf ==
    ASSUME NEW co \in Coroutines, ~Over(co)
    PROVE  /\ Request(co).op = "QueryDevice" => co.at = "Device"
           /\ Request(co).op = "QueryInterface" =>
                 co.at = "Interface" /\ Request(co).args[1] = co.index
           /\ Request(co).op = "QueryString" =>
                 /\ co.at \in {"Length", "Chunk"}
                 /\ Request(co).args[1] = co.str
                 /\ co.at = "Length" => Request(co).args[2] = 0
                 /\ co.at = "Chunk" => Request(co).args[2] = Low(co.chunk + 1)
<1>1. co.at \in {"Device", "Interface", "Length", "Chunk"}
  BY CoroutineFields DEF Over
<1>2. CASE co.at = "Device"
  BY <1>2 DEF Request, Message
<1>3. CASE co.at = "Interface"
  BY <1>3 DEF Request, Message
<1>4. CASE co.at = "Length"
  BY <1>4 DEF Request, Message
<1>5. CASE co.at = "Chunk"
  BY <1>5 DEF Request, Message
<1>6. QED
  BY <1>1, <1>2, <1>3, <1>4, <1>5

\* The reply takes the place of the request.
LEMMA ReplyTalk ==
    ASSUME TypeInv, NEW n \in Node, NEW f \in DOMAIN bus, f.to \in Node \ {n},
           GetSource(f.id) = Addr[n], Talk(n) = {f}, bus[f] = 1, f.data.op \in Queries,
           NEW data, data.op \in Replies, Replied(f.to, f, data)
    PROVE  /\ Talk(n)' = {Frame(f.to, n, data)} /\ bus'[Frame(f.to, n, data)] = 1
           /\ \A k \in Node \ {n} : Talk(k)' = Talk(k) /\ \A e \in Talk(k) : bus'[e] = bus[e]
<1> DEFINE m == f.to
           g == Frame(m, n, data)
           in == {g}
<1>1. n \in Node /\ m \in Node /\ m # n
  OBVIOUS
<1>2. bus' = Handled(f) (+) SetToBag(in)
  <2>1. Frames(m, Addr[n], data) = in
    BY <1>1, OneFrame
  <2> HIDE DEF in
  <2>2. QED
    BY <2>1 DEF Replied, Sent
<1>3. ASSUME NEW k \in Node PROVE TalkOf(k, g) <=> k = n
  <2> HIDE DEF m
  <2>1. m \in Node \ {n}
    BY <1>1
  <2>2. QED
    BY <1>1, <1>3, <2>1, TalkFrames
<1>4. ASSUME NEW k \in Node PROVE TalkOf(k, f) <=> k = n
  <2>1. f.data.op \notin Replies
    BY DEF Queries, Replies
  <2>2. QED
    BY <1>1, <2>1, Addresses DEF TalkOf
<1>5. g.data.op \in Replies
  BY DEF Frame
<1> HIDE DEF g
<1>6. Moved(bus, bus', {f}, in)
  <2> HIDE DEF in
  <2>1. QED
    BY <1>2, MovedOutIn DEF TypeInv, Handled
<1>7. g # f /\ g \notin DOMAIN bus
  <2>1. g # f
    BY <1>5 DEF Queries, Replies
  <2>2. g \in DOMAIN bus => g \in Talk(n)
    BY <1>1, <1>3 DEF Talk
  <2>3. QED
    BY <2>1, <2>2
<1>8. Talk(n)' = {g} /\ bus'[g] = 1
  <2>1. f \notin DOMAIN bus'
    BY <1>6, <1>7 DEF Moved
  <2>2. g \in DOMAIN bus' /\ bus'[g] = 1
    BY <1>6, <1>7 DEF Moved
  <2>3. \A e \in DOMAIN bus' : e \in DOMAIN bus \/ e = g
    BY <1>6 DEF Moved
  <2>4. \A e : e \in Talk(n)' <=> e = g
    BY <1>1, <1>3, <2>1, <2>2, <2>3 DEF Talk
  <2>5. QED
    BY <2>2, <2>4
<1>9. ASSUME NEW k \in Node \ {n}
      PROVE  Talk(k)' = Talk(k) /\ \A e \in Talk(k) : bus'[e] = bus[e]
  <2>1. ~TalkOf(k, g) /\ ~TalkOf(k, f)
    BY <1>3, <1>4
  <2>2. \A e : e # f /\ e # g => (e \in DOMAIN bus' <=> e \in DOMAIN bus)
                                 /\ (e \in DOMAIN bus => bus'[e] = bus[e])
    BY <1>6 DEF Moved
  <2>3. \A e : TalkOf(k, e) => (e \in DOMAIN bus' <=> e \in DOMAIN bus)
                              /\ (e \in DOMAIN bus => bus'[e] = bus[e])
    <3> SUFFICES ASSUME NEW e, TalkOf(k, e)
                 PROVE  /\ e \in DOMAIN bus' <=> e \in DOMAIN bus
                        /\ e \in DOMAIN bus => bus'[e] = bus[e]
      OBVIOUS
    <3>1. e # f /\ e # g
      BY <2>1
    <3>2. QED
      BY <2>2, <3>1
  <2>4. QED
    BY <2>3 DEF Talk
<1>10. QED
  BY <1>8, <1>9 DEF g, m

LEMMA TalkAnswered ==
    ASSUME TypeInv, Conversation, UNCHANGED <<query, wait_queue>>,
           \A m \in Node :
              /\ Len(collected_interfaces[m]) <= Len(collected_interfaces'[m])
              /\ Len(collected_interfaces'[m]) \in Nat
              /\ Len(collected_strings[m]) <= Len(collected_strings'[m])
              /\ Len(collected_strings'[m]) \in Nat,
           NEW q \in Query, ~Over(query[q]), Running(query[q]),
           NEW f \in DOMAIN bus, f.to \in Node \ {Caller[q]}, query[q].dev = f.to,
           GetSource(f.id) = Addr[Caller[q]],
           Talk(Caller[q]) = {f}, bus[f] = 1, f.data.op \in Queries,
           NEW data, data.op = Awaited(query[q]), Replied(f.to, f, data),
           NumbersIn(query[q], data.args)'
    PROVE  Conversation'
<1> DEFINE n == Caller[q]
           m == f.to
           g == Frame(m, n, data)
<1>1. n \in Node /\ data.op \in Replies
  BY NodeAssumption, RequestTypes DEF Running
<1>2. /\ Talk(n)' = {g} /\ bus'[g] = 1
      /\ \A k \in Node \ {n} : Talk(k)' = Talk(k) /\ \A e \in Talk(k) : bus'[e] = bus[e]
  BY <1>1, ReplyTalk
<1>3. Exchange(q, g)'
  <2>1. g.data = data
    BY DEF Frame
  <2>2. g = Frame(query[q].dev, n, g.data)
    BY <2>1
  <2> HIDE DEF g, m
  <2>3. QED
    BY <2>1, <2>2 DEF Exchange, Awaited, Frame
<1> HIDE DEF g
<1>4. \A k \in Node :
          \/ Talk(k)' = Talk(k) /\ \A e \in Talk(k) : bus'[e] = bus[e]
          \/ \E p \in Query : /\ Caller[p] = k /\ ~Over(query[p])
                              /\ \E e : Talk(k)' = {e} /\ bus'[e] = 1 /\ Exchange(p, e)'
  BY <1>2, <1>3
<1>5. QED
  BY <1>4, TalkKept

\* A device knows what its numbers stand for.
LEMMA TalkQueried ==
    ASSUME TypeInv, Conversation, NEW f \in DOMAIN bus, UNCHANGED <<query, wait_queue>>,
           \/ f.data.op = "QueryDevice" /\ HandleQueryDevice(f.to, f)
           \/ f.data.op = "QueryInterface" /\ HandleQueryInterface(f.to, f)
           \/ f.data.op = "QueryString" /\ HandleQueryString(f.to, f)
    PROVE  Conversation'
<1> DEFINE n == f.to
           c == collected_interfaces[n]
           c2 == collected_interfaces'[n]
           s == collected_strings[n]
           s2 == collected_strings'[n]
<1>1. f.data.op \in Queries
  BY DEF Queries
<1>2. PICK q \in Query :
          /\ ~Over(query[q]) /\ Running(query[q])
          /\ Caller[q] \in Node /\ n \in Node \ {Caller[q]} /\ query[q].dev = n
          /\ GetSource(f.id) = Addr[Caller[q]]
          /\ Talk(Caller[q]) = {f} /\ bus[f] = 1
          /\ f.data = Request(query[q]) /\ Numbers(query[q])
  BY <1>1, Asked
<1> DEFINE co == query[q]
<1>3. /\ co \in Coroutines /\ Looping(co)
      /\ co.index \in Nat /\ co.num \in Nat /\ co.str \in Nat
  BY <1>2, CoroutineFields, LowFacts DEF Running, Digit
<1>4. \A m \in Node :
          /\ collected_interfaces[m] \in Seq(Interfaces) /\ collected_strings[m] \in Seq(Strings)
          /\ Len(collected_interfaces[m]) \in Nat /\ Len(collected_strings[m]) \in Nat
  BY LenProperties DEF TypeInv
<1>5. ASSUME \A m \in Node \ {n} : /\ collected_interfaces'[m] = collected_interfaces[m]
                                   /\ collected_strings'[m] = collected_strings[m],
             Len(c) <= Len(c2), Len(c2) \in Nat, Len(s) <= Len(s2), Len(s2) \in Nat,
             NEW data, data.op = Awaited(co), Replied(n, f, data), NumbersIn(co, data.args)'
      PROVE  Conversation'
  <2>1. \A m \in Node :
            /\ Len(collected_interfaces[m]) <= Len(collected_interfaces'[m])
            /\ Len(collected_interfaces'[m]) \in Nat
            /\ Len(collected_strings[m]) <= Len(collected_strings'[m])
            /\ Len(collected_strings'[m]) \in Nat
    BY <1>4, <1>5
  <2>2. QED
    BY <1>1, <1>2, <1>5, <2>1, TalkAnswered
<1>6. CASE f.data.op = "QueryDevice" /\ HandleQueryDevice(n, f)
  <2> DEFINE k == Cardinality(interfaces[n])
             S == Strings
  <2>1. PICK args :
            args = <<Low(k), Index(s2, Creator[n]), Index(s2, Name[n])>>
    OBVIOUS
  <2>2. /\ c2 \in Seq(Interfaces) /\ s2 \in Seq(S)
        /\ Encoded(c, c2, interfaces[n]) /\ Encoded(s, s2, {Creator[n], Name[n]})
        /\ k \in Nat /\ k <= Len(c2)
        /\ \A m \in Node \ {n} : /\ collected_interfaces'[m] = collected_interfaces[m]
                                 /\ collected_strings'[m] = collected_strings[m]
        /\ Replied(n, f, Message("Device", args))
    BY <1>6, <2>1, DeviceTold
  <2>3. co.at = "Device"
    BY <1>2, <1>3, <1>6, RequestOf
  <2>4. Len(c) <= Len(c2) /\ Len(c2) \in Nat /\ Len(s) <= Len(s2) /\ Len(s2) \in Nat
    BY <2>2, LenProperties DEF Encoded, Extends
  <2>5. Low(k) <= Len(c2)
    <3> HIDE DEF k, c2
    <3>1. Low(k) \in Nat /\ Low(k) <= k
      BY <2>2, LowFacts DEF Digit
    <3>2. QED
      BY <2>2, <2>4, <3>1
  <2>6. Index(s2, Creator[n]) < Len(s2) /\ Index(s2, Name[n]) < Len(s2)
    <3>1. Creator[n] \in Range(s2) /\ Name[n] \in Range(s2)
      BY <2>2 DEF Encoded
    <3> HIDE DEF s2, S
    <3>2. QED
      BY <2>2, <3>1, Numbered
  <2>7. args[1] <= Len(c2) /\ args[2] < Len(s2) /\ args[3] < Len(s2)
    BY <2>1, <2>5, <2>6
  <2>8. NumbersIn(co, args)'
    BY <1>2, <2>3, <2>7 DEF NumbersIn
  <2>9. Message("Device", args).op = Awaited(co) /\ Message("Device", args).args = args
    BY <2>3 DEF Awaited, Message
  <2> DEFINE data == Message("Device", args)
  <2>10. data.op = Awaited(co) /\ Replied(n, f, data) /\ NumbersIn(co, data.args)'
    BY <2>2, <2>8, <2>9
  <2> HIDE DEF data
  <2>11. QED
    BY <1>5, <2>2, <2>4, <2>10
<1>7. CASE f.data.op = "QueryInterface" /\ HandleQueryInterface(n, f)
  <2> DEFINE index == f.data.args[1]
             intf == c[index + 1]
             S == Strings
  <2>1. PICK args : args = <<index, intf.port, intf.id, Index(s2, intf.name)>>
    OBVIOUS
  <2>2. co.at = "Interface" /\ index = co.index
    BY <1>2, <1>3, <1>7, RequestOf
  <2>3. index < Len(c)
    <3>1. co.index < co.num /\ co.num <= Len(c)
      BY <1>2, <1>3, <2>2 DEF Looping, Numbers, Known
    <3> HIDE DEF c, index
    <3>2. Len(c) \in Nat
      BY <1>2, <1>4 DEF c
    <3>3. QED
      BY <1>3, <2>2, <3>1, <3>2
  <2>4. /\ UNCHANGED collected_interfaces
        /\ s2 \in Seq(S) /\ Encoded(s, s2, {intf.name})
        /\ \A m \in Node \ {n} : collected_strings'[m] = collected_strings[m]
        /\ Replied(n, f, Message("Interface", args))
    BY <1>7, <2>1, <2>3, InterfaceTold
  <2>5. Len(c) <= Len(c2) /\ Len(c2) \in Nat /\ Len(s) <= Len(s2) /\ Len(s2) \in Nat
    <3>1. c2 = c /\ Len(c) \in Nat
      BY <1>2, <1>4, <2>4
    <3>2. Len(s) <= Len(s2) /\ Len(s2) \in Nat
      BY <2>4, LenProperties DEF Encoded, Extends
    <3> HIDE DEF c, c2
    <3>3. QED
      BY <3>1, <3>2
  <2>6. Index(s2, intf.name) < Len(s2)
    <3>1. intf.name \in Range(s2)
      BY <2>4 DEF Encoded
    <3> HIDE DEF s2, S, intf
    <3>2. QED
      BY <2>4, <3>1, Numbered
  <2>7. args[4] < Len(s2)
    BY <2>1, <2>6
  <2>8. NumbersIn(co, args)'
    BY <1>2, <2>2, <2>7 DEF NumbersIn
  <2>9. Message("Interface", args).op = Awaited(co) /\ Message("Interface", args).args = args
    BY <2>2 DEF Awaited, Message
  <2> DEFINE data == Message("Interface", args)
  <2>10. data.op = Awaited(co) /\ Replied(n, f, data) /\ NumbersIn(co, data.args)'
    BY <2>4, <2>8, <2>9
  <2> HIDE DEF data
  <2>11. QED
    BY <1>5, <2>4, <2>5, <2>10
<1>8. CASE f.data.op = "QueryString" /\ HandleQueryString(n, f)
  <2> DEFINE id == f.data.args[1]
  <2>1. co.at \in {"Length", "Chunk"} /\ id = co.str
    BY <1>2, <1>3, <1>8, RequestOf
  <2>2. id < Len(s)
    BY <1>2, <2>1 DEF Numbers
  <2>3. /\ UNCHANGED <<collected_interfaces, collected_strings>>
        /\ \E args : Replied(n, f, Message("StringResponse", args))
    BY <1>8, <2>2, StringTold
  <2>4. PICK args : Replied(n, f, Message("StringResponse", args))
    BY <2>3
  <2>5. Message("StringResponse", args).op = Awaited(co)
    BY <2>1 DEF Awaited, Message
  <2>6. NumbersIn(co, Message("StringResponse", args).args)'
    BY <2>1 DEF NumbersIn
  <2>7. Len(c) <= Len(c2) /\ Len(c2) \in Nat /\ Len(s) <= Len(s2) /\ Len(s2) \in Nat
    BY <1>2, <1>4, <2>3
  <2>8. QED
    BY <1>5, <2>3, <2>4, <2>5, <2>6, <2>7
<1>9. QED
  BY <1>6, <1>7, <1>8

\* While a call waits for it, a reply is not taken for anything else.
LEMMA Expected ==
    ASSUME TypeInv, Conversation, NEW f \in DOMAIN bus, f.data.op \in Replies
    PROVE  \E q \in Query :
              LET n == f.to   co == query[q]
              IN  /\ Caller[q] = n /\ n \in Node /\ ~Over(co) /\ Running(co)
                  /\ co.dev \in Node \ {n}
                  /\ wait_queue[n] = <<[opcode |-> Awaited(co), waiter |-> q]>>
                  /\ Talk(n) = {f} /\ bus[f] = 1
                  /\ f.data \in Messages /\ f.data.op = Awaited(co)
                  /\ f = Frame(co.dev, n, f.data)
                  /\ Numbers(co) /\ NumbersIn(co, f.data.args)
                  /\ \A p \in Query \ {q} : Caller[p] = n => Over(query[p])
<1> DEFINE n == f.to
<1>1. n \in Node /\ f.data \in Messages
  BY DEF TypeInv, Wire
<1>2. f \in Talk(n)
  BY DEF Talk, TalkOf
<1>3. PICK q \in Query : Caller[q] = n /\ ~Over(query[q])
  BY <1>1, <1>2 DEF Conversation, Quiet
<1> DEFINE co == query[q]
<1>4. Talking(q)
  BY DEF Conversation
<1>5. /\ Talk(n) = {f} /\ bus[f] = 1 /\ Exchange(q, f) /\ Numbers(co) /\ co.dev # n
      /\ wait_queue[n] = <<[opcode |-> Awaited(co), waiter |-> q]>>
      /\ \A p \in Query : Caller[p] = n /\ ~Over(query[p]) => p = q
  BY <1>2, <1>3, <1>4 DEF Talking
<1>6. Running(co)
  BY <1>3 DEF TypeInv, Running, Over, Unasked
<1>7. co.dev \in Node /\ Request(co).op \in Queries
  BY <1>3, <1>6, RequestTypes, CoroutineFields DEF Running
<1>8. f # Frame(n, co.dev, Request(co))
  <2>1. Frame(n, co.dev, Request(co)).data.op \in Queries
    BY <1>7 DEF Frame
  <2>2. QED
    BY <2>1 DEF Queries, Replies
<1>9. f.data.op = Awaited(co) /\ f = Frame(co.dev, n, f.data) /\ NumbersIn(co, f.data.args)
  BY <1>3, <1>5, <1>8 DEF Exchange
<1>10. QED
  BY <1>1, <1>3, <1>5, <1>6, <1>7, <1>9

LEMMA TalkAwaited ==
    ASSUME TypeInv, Conversation, NEW f \in DOMAIN bus, HandleAwaited(f.to, f)
    PROVE  /\ Conversation'
           /\ \E q \in Query :
                 /\ Caller[q] = f.to /\ f \in Talk(f.to)
                 /\ ~Over(query[q]) /\ Running(query[q])
                 /\ f.data \in Messages /\ f.data.op = Awaited(query[q])
                 /\ Numbers(query[q]) /\ NumbersIn(query[q], f.data.args)
                 /\ GoneOn(q, After(query[q], f.data.args))
<1> DEFINE n == f.to
<1>1. PICK w \in Notified(wait_queue[n], f.data.op) :
          Proceed(w.waiter, After(query[w.waiter], f.data.args), Removed(wait_queue[n], w),
                  Handled(f))
  BY DEF HandleAwaited
<1>2. /\ w \in Range(wait_queue[n]) /\ f.data.op \in Replies
      /\ Running(After(query[w.waiter], f.data.args))
  BY <1>1, Resumed
<1>3. PICK q \in Query :
          /\ Caller[q] = n /\ n \in Node /\ ~Over(query[q]) /\ Running(query[q])
          /\ query[q].dev \in Node \ {n}
          /\ wait_queue[n] = <<[opcode |-> Awaited(query[q]), waiter |-> q]>>
          /\ Talk(n) = {f} /\ bus[f] = 1
          /\ f.data \in Messages /\ f.data.op = Awaited(query[q])
          /\ Numbers(query[q]) /\ NumbersIn(query[q], f.data.args)
          /\ \A p \in Query \ {q} : Caller[p] = n => Over(query[p])
  BY <1>2, Expected
<1> DEFINE wait == [opcode |-> Awaited(query[q]), waiter |-> q]
           co == After(query[q], f.data.args)
<1>4. w = wait /\ w.waiter = q
  <2>1. Range(<<wait>>) = {wait}
    <3> HIDE DEF wait
    <3>1. QED
      BY DEF Range
  <2>2. w = wait
    BY <1>2, <1>3, <2>1
  <2>3. QED
    BY <2>2
<1>5. Removed(wait_queue[n], w) = <<>>
  <2> DEFINE W == Waits(Query, Replies)
             queue == wait_queue[n]
  <2>1. queue \in Seq(W) /\ w \in Range(queue) /\ Len(queue) = 1
    BY <1>2, <1>3 DEF TypeInv
  <2> HIDE DEF W, queue
  <2>2. RemoveFirst(queue, w) \in Seq(W) /\ Len(RemoveFirst(queue, w)) = 0
    BY <2>1, RemoveFirstFacts
  <2>3. RemoveFirst(queue, w) = <<>>
    BY <2>2, EmptySeq
  <2>4. QED
    BY <2>3 DEF Removed, queue
<1>6. Proceed(q, co, <<>>, Handled(f))
  BY <1>1, <1>4, <1>5
<1>7. Running(co) /\ Numbers(co) /\ co.dev = query[q].dev
  BY <1>3, <1>2, <1>4, AfterNumbers
<1> HIDE DEF co
<1>8. Moved(bus, Handled(f), {f}, {})
  BY MovedOut DEF TypeInv, Handled
<1>9. /\ IsABag(Handled(f)) /\ DOMAIN Handled(f) \subseteq DOMAIN bus
      /\ f \notin DOMAIN Handled(f)
      /\ \A e \in DOMAIN bus \ {f} : e \in DOMAIN Handled(f) /\ Handled(f)[e] = bus[e]
  BY <1>3, <1>8 DEF Moved
<1>10. \A e \in DOMAIN Handled(f) : Handled(f)[e] = bus[e] /\ ~TalkOf(n, e)
  <2>1. \A e \in DOMAIN bus : TalkOf(n, e) => e = f
    BY <1>3 DEF Talk
  <2>2. QED
    BY <1>9, <2>1
<1>11. ASSUME NEW m \in Node \ {n} PROVE Talk(m) \subseteq DOMAIN Handled(f)
  <2>1. ~TalkOf(m, f)
    BY <1>2 DEF TalkOf, Queries, Replies
  <2>2. QED
    BY <1>9, <2>1 DEF Talk
<1>12. UNCHANGED <<collected_interfaces, collected_strings>>
  BY DEF HandleAwaited
<1> DEFINE rest == Handled(f)
<1> HIDE DEF rest
<1>13. /\ IsABag(rest) /\ DOMAIN rest \subseteq DOMAIN bus
       /\ \A e \in DOMAIN rest : rest[e] = bus[e] /\ ~TalkOf(Caller[q], e)
       /\ \A m \in Node \ {Caller[q]} : Talk(m) \subseteq DOMAIN rest
       /\ Proceed(q, co, <<>>, rest)
  BY <1>3, <1>6, <1>9, <1>10, <1>11 DEF rest
<1>14. co.dev # Caller[q] /\ \A p \in Query \ {q} : Caller[p] = Caller[q] => Over(query[p])
  BY <1>3, <1>7
<1>15. Conversation' /\ GoneOn(q, co)
  BY <1>7, <1>12, <1>13, <1>14, TalkProceeds
<1>16. QED
  BY <1>3, <1>15 DEF co

LEMMA TalkStart ==
    ASSUME TypeInv, Conversation, ~Concurrent,
           NEW q \in Query, NEW dev \in Node, StartQuery(q, dev)
    PROVE  Conversation' /\ GoneOn(q, Asking(dev))
<1> DEFINE n == Caller[q]
<1>1. /\ Running(Asking(dev)) /\ dev \in Node \ {n}
      /\ Proceed(q, Asking(dev), wait_queue[n], bus)
      /\ UNCHANGED <<collected_interfaces, collected_strings>>
  BY Started
<1>2. \A p \in Query : Caller[p] = n => Over(query[p])
  BY DEF StartQuery, MayCall
<1>3. n \in Node /\ Talk(n) = {} /\ wait_queue[n] = <<>>
  BY <1>2, NodeAssumption DEF Conversation, Quiet
<1>4. Numbers(Asking(dev)) /\ Asking(dev).dev = dev
  BY DEF Numbers, Asking
<1>5. IsABag(bus) /\ \A e \in DOMAIN bus : ~TalkOf(n, e)
  BY <1>3 DEF Talk, TypeInv
<1>6. \A m \in Node : Talk(m) \subseteq DOMAIN bus
  BY DEF Talk
<1>7. QED
  BY <1>1, <1>2, <1>3, <1>4, <1>5, <1>6, TalkProceeds

LEMMA TalkFind ==
    ASSUME TypeInv, Conversation, NEW n \in Node, FindInterface(n)
    PROVE  Conversation' /\ \A m \in Node : Talk(m)' = Talk(m)
<1> DEFINE in == Frames(n, Broadcast, Message("FindInterface", <<Wanted>>))
<1>1. /\ bus' = bus (+) SetToBag(in)
      /\ UNCHANGED <<query, wait_queue, collected_interfaces, collected_strings>>
  BY DEF FindInterface, Sent
<1>2. \A e \in in : e.data.op \in SearchOps
  BY FramesData DEF Message, SearchOps
<1> HIDE DEF in
<1>3. Moved(bus, bus', {}, in)
  BY <1>1, MovedIn DEF TypeInv
<1>4. ASSUME NEW e \in DOMAIN bus \cup DOMAIN bus', e.data.op \in Queries \cup Replies
      PROVE  e \in DOMAIN bus /\ e \in DOMAIN bus' /\ bus'[e] = bus[e]
  <2>1. e \notin in
    BY <1>2, <1>4, OtherOps
  <2>2. QED
    BY <1>3, <2>1 DEF Moved
<1>5. QED
  BY <1>1, <1>4, TalkUnmoved

\* Searches are no matter of queries.
LEMMA TalkSearch ==
    ASSUME TypeInv, Conversation, NEW f \in DOMAIN bus, f.data.op \in SearchOps,
           HandleFindInterface(f.to, f) \/ HandleOther(f.to, f),
           UNCHANGED <<query, wait_queue, collected_interfaces, collected_strings>>
    PROVE  Conversation' /\ \A m \in Node : Talk(m)' = Talk(m)
<1> DEFINE in == UNION {Frames(f.to, GetSource(f.id), Message("InterfaceReference", <<i.port>>)) :
                           i \in {i \in interfaces[f.to] : i.id = f.data.args[1]}}
<1>1. bus' = Handled(f) (+) SetToBag(in) \/ bus' = Handled(f)
  BY DEF HandleFindInterface, HandleOther
<1>2. \A e \in in : e.data.op \in SearchOps
  <2>1. ASSUME NEW e \in in PROVE e.data.op = "InterfaceReference"
    <3>1. PICK i : e \in Frames(f.to, GetSource(f.id), Message("InterfaceReference", <<i.port>>))
      BY <2>1
    <3>2. QED
      BY <3>1, FramesData DEF Message
  <2> HIDE DEF in
  <2>2. QED
    BY <2>1 DEF SearchOps
<1> HIDE DEF in
<1>3. Moved(bus, bus', {f}, in) \/ Moved(bus, bus', {f}, {})
  BY <1>1, MovedOutIn, MovedOut DEF TypeInv, Handled
<1>4. ASSUME NEW e \in DOMAIN bus \cup DOMAIN bus', e.data.op \in Queries \cup Replies
      PROVE  e \in DOMAIN bus /\ e \in DOMAIN bus' /\ bus'[e] = bus[e]
  <2>1. e \notin in /\ e # f
    BY <1>2, <1>4, OtherOps
  <2>2. CASE Moved(bus, bus', {f}, in)
    BY <2>1, <2>2 DEF Moved
  <2>3. CASE Moved(bus, bus', {f}, {})
    BY <2>1, <2>3 DEF Moved
  <2>4. QED
    BY <1>3, <2>2, <2>3
<1>5. QED
  BY <1>4, TalkUnmoved

\* A coroutine waits for every reply.
LEMMA ReplyAwaited ==
    ASSUME TypeInv, Conversation, NEW f \in DOMAIN bus, f.data.op \in Replies
    PROVE  Notified(wait_queue[f.to], f.data.op) # {}
<1>1. PICK q \in Query :
          /\ wait_queue[f.to] = <<[opcode |-> Awaited(query[q]), waiter |-> q]>>
          /\ f.data.op = Awaited(query[q])
  BY Expected
<1> DEFINE wait == [opcode |-> f.data.op, waiter |-> q]
<1>2. wait_queue[f.to] = <<wait>> /\ wait.opcode = f.data.op
  BY <1>1
<1> HIDE DEF wait
<1>3. wait \in Notified(<<wait>>, f.data.op)
  BY <1>2 DEF Notified
<1>4. QED
  BY <1>2, <1>3

LEMMA TalkRxAsync ==
    ASSUME TypeInv, Conversation, NEW f \in DOMAIN bus, HandleRxAsync(f.to, f)
    PROVE  Conversation'
<1>1. UNCHANGED <<query, wait_queue>> /\ Notified(wait_queue[f.to], f.data.op) = {}
  BY DEF HandleRxAsync
<1>2. \/ f.data.op = "QueryDevice" /\ HandleQueryDevice(f.to, f)
      \/ f.data.op = "QueryInterface" /\ HandleQueryInterface(f.to, f)
      \/ f.data.op = "QueryString" /\ HandleQueryString(f.to, f)
      \/ /\ \/ f.data.op = "FindInterface" /\ HandleFindInterface(f.to, f)
            \/ f.data.op \notin Requests /\ HandleOther(f.to, f)
         /\ UNCHANGED <<collected_interfaces, collected_strings>>
  BY DEF HandleRxAsync
<1>3. CASE \/ f.data.op = "QueryDevice" /\ HandleQueryDevice(f.to, f)
           \/ f.data.op = "QueryInterface" /\ HandleQueryInterface(f.to, f)
           \/ f.data.op = "QueryString" /\ HandleQueryString(f.to, f)
  BY <1>1, <1>3, TalkQueried
<1>4. CASE /\ \/ f.data.op = "FindInterface" /\ HandleFindInterface(f.to, f)
              \/ f.data.op \notin Requests /\ HandleOther(f.to, f)
           /\ UNCHANGED <<collected_interfaces, collected_strings>>
  <2>1. f.data.op \in Replies \cup SearchOps
    BY <1>4 DEF TypeInv, Wire, Messages, SearchOps
  <2>2. f.data.op \notin Replies
    BY <1>1, ReplyAwaited
  <2>3. QED
    BY <1>1, <1>4, <2>1, <2>2, TalkSearch
<1>5. QED
  BY <1>2, <1>3, <1>4

LEMMA TalkInit == Init => Conversation
<1> SUFFICES ASSUME Init PROVE Conversation
  OBVIOUS
<1>1. DOMAIN bus = {} /\ \A n \in Node : wait_queue[n] = <<>>
  BY DEF Init, EmptyBag, SetToBag, Clear
<1>2. \A n \in Node : Quiet(n)
  BY <1>1 DEF Quiet, Talk
<1>3. \A q \in Query : Over(query[q])
  BY DEF Init, Over, Unasked
<1>4. QED
  BY <1>2, <1>3 DEF Conversation, Talking

LEMMA TalkNext ==
    ASSUME ~Concurrent
    PROVE  TypeInv /\ Conversation /\ [Next]_vars => Conversation'
<1> SUFFICES ASSUME TypeInv, Conversation, [Next]_vars PROVE Conversation'
  OBVIOUS
<1>1. ASSUME NEW q \in Query, NEW dev \in Node, StartQuery(q, dev) PROVE Conversation'
  BY <1>1, TalkStart
<1>2. ASSUME NEW n \in Searching, FindInterface(n) PROVE Conversation'
  BY <1>2, TalkFind, NodeAssumption
<1>3. ASSUME NEW n \in Searching, WakeUp(n) PROVE Conversation'
  BY <1>3, TalkUnmoved DEF WakeUp
<1>4. ASSUME NEW l \in Later, AddInterface(l[1], l[2]) PROVE Conversation'
  BY <1>4, TalkUnmoved DEF AddInterface
<1>5. ASSUME NEW f \in BagToSet(bus), Deliver(f) PROVE Conversation'
  <2>1. f \in DOMAIN bus
    BY DEF BagToSet
  <2>2. QED
    BY <1>5, <2>1, TalkAwaited, TalkRxAsync DEF Deliver
<1>6. CASE UNCHANGED vars
  BY <1>6, TalkUnmoved DEF vars
<1>7. QED
  BY <1>1, <1>2, <1>3, <1>4, <1>5, <1>6 DEF Next

LEMMA TalkAlways ==
    ASSUME ~Concurrent
    PROVE  Spec => []Conversation
<1>1. Spec => []TypeInv
  BY TypeAlways
<1>2. TypeInv /\ Conversation /\ [Next]_vars => Conversation'
  BY TalkNext
<1>3. QED
  BY <1>1, <1>2, TalkInit, PTL DEF Spec

LEMMA TalkImplied == TypeInv /\ Conversation => Underway
<1> SUFFICES ASSUME TypeInv, Conversation, NEW q \in Query, ~Over(query[q])
             PROVE  LET n == Caller[q]   co == query[q]
                        asked   == Sent(n, Addr[co.dev], Request(co))
                        replies == {f \in BagToSet(bus) : f.to = n /\ f.data.op = Awaited(co)}
                        between == {f \in BagToSet(bus) :
                                       \/ f \in BagToSet(asked)
                                       \/ f \in replies /\ GetSource(f.id) = Addr[co.dev]}
                    IN  /\ \E f \in between : between = {f} /\ bus[f] = 1
                        /\ replies \subseteq between
                        /\ wait_queue[n] = <<[opcode |-> Awaited(co), waiter |-> q]>>
  BY DEF Underway
<1> DEFINE n == Caller[q]
           co == query[q]
           asked == Sent(n, Addr[co.dev], Request(co))
           replies == {f \in BagToSet(bus) : f.to = n /\ f.data.op = Awaited(co)}
           between == {f \in BagToSet(bus) :
                          \/ f \in BagToSet(asked)
                          \/ f \in replies /\ GetSource(f.id) = Addr[co.dev]}
<1>1. Talking(q) /\ n \in Node
  BY NodeAssumption DEF Conversation
<1>2. PICK f \in Talk(n) : Talk(n) = {f} /\ bus[f] = 1 /\ Exchange(q, f)
  BY <1>1 DEF Talking
<1>3. Running(co) /\ co.dev \in Node \ {n}
  <2>1. Running(co)
    BY DEF TypeInv, Running, Over, Unasked
  <2>2. QED
    BY <1>1, <2>1, CoroutineFields DEF Talking, Running
<1>4. Request(co).op \in Queries /\ Awaited(co) \in Replies
  BY <1>3, RequestTypes DEF Running
<1> DEFINE g == Frame(n, co.dev, Request(co))
<1>5. BagToSet(asked) = {g}
  <2>1. Frames(n, Addr[co.dev], Request(co)) = {g}
    BY <1>1, <1>3, OneFrame
  <2> HIDE DEF g
  <2>2. asked = SetToBag({g})
    BY <2>1 DEF Sent
  <2>3. QED
    BY <2>2 DEF BagToSet, SetToBag
<1>6. TalkOf(n, g)
  <2> DEFINE data == Request(co)
             m == co.dev
  <2> HIDE DEF data, m, n
  <2>1. TalkOf(n, Frame(n, m, data))
    BY <1>1, <1>3, <1>4, TalkFrames DEF data, m
  <2>2. QED
    BY <2>1 DEF data, m
<1> HIDE DEF asked, g
<1>7. \A e : e \in replies <=> e \in DOMAIN bus /\ e.to = n /\ e.data.op = Awaited(co)
  BY DEF BagToSet
<1>8. \A e \in replies : e = f
  BY <1>2, <1>4, <1>7 DEF Talk, TalkOf
<1>9. f \in DOMAIN bus
  BY DEF Talk
<1>10. f = g \/ (f \in replies /\ GetSource(f.id) = Addr[co.dev])
  <2>1. CASE /\ f.data.op = Awaited(co)
             /\ f = Frame(co.dev, n, f.data)
    <3> DEFINE data == f.data
               m == co.dev
    <3>1. f = Frame(m, n, data) /\ m \in Node /\ n \in Node \ {m}
      BY <1>1, <1>3, <2>1
    <3> HIDE DEF data, m, n
    <3>2. f.to = n /\ GetSource(f.id) = Addr[m]
      BY <1>1, <3>1, TalkFrames
    <3>3. QED
      BY <1>7, <1>9, <2>1, <3>2 DEF m
  <2>2. QED
    BY <1>2, <2>1 DEF Exchange, g
<1> HIDE DEF replies
<1>11. \A e \in between : e = f
  BY <1>2, <1>5, <1>6, <1>8 DEF Talk, BagToSet
<1>12. f \in between
  BY <1>5, <1>9, <1>10 DEF BagToSet
<1>13. replies \subseteq between
  BY <1>8, <1>12
<1>14. between = {f}
  BY <1>11, <1>12
<1> HIDE DEF between
<1>15. wait_queue[n] = <<[opcode |-> Awaited(co), waiter |-> q]>>
  BY <1>1 DEF Talking
<1>16. QED
  BY <1>2, <1>12, <1>13, <1>14, <1>15 DEF asked, replies, between

\* Where a node awaits one call before it makes the next, its coroutine waits
\* for one frame, which is the only one that its node can take for it.
THEOREM UnderwayCorrect ==
    ASSUME ~Concurrent
    PROVE  Spec => []Underway
<1>1. Spec => []TypeInv
  BY TypeAlways
<1>2. Spec => []Conversation
  BY TalkAlways
<1>3. QED
  BY <1>1, <1>2, TalkImplied, PTL

-----------------------------------------------------------------------------
(* The bounds that a byte puts on what is counted. *)

\* A string has a chunk with a number exactly if one of its characters is there.
LEMMA Chunks ==
    ASSUME NEW n \in Nat, NEW k \in Nat
    PROVE  /\ k * Chunk \in Nat /\ (k + 1) * Chunk = k * Chunk + Chunk
           /\ k < (n + Chunk - 1) \div Chunk <=> k * Chunk < n
<1> DEFINE d == (n + Chunk - 1) \div Chunk
           r == (n + Chunk - 1) % Chunk
<1>1. Chunk \in Nat \ {0}
  BY LowFacts
<1>2. d \in Int /\ r \in 0 .. Chunk - 1 /\ n + Chunk - 1 = r + Chunk * d
  BY <1>1
<1>3. d \in Nat
  BY <1>1
<1> HIDE DEF d, r
<1>4. \A x, y \in Nat : Chunk * (x + y) = Chunk * x + Chunk * y /\ Chunk * y \in Nat
  BY <1>1
<1>5. ASSUME k < d PROVE k * Chunk < n
  <2> DEFINE y == d - (k + 1)
  <2>1. y \in Nat /\ (k + 1) + y = d
    BY <1>3, <1>5
  <2>2. Chunk * d = Chunk * (k + 1) + Chunk * y /\ Chunk * y \in Nat
    BY <1>4, <2>1
  <2>3. Chunk * (k + 1) = Chunk * k + Chunk
    BY <1>1
  <2> HIDE DEF y
  <2>4. QED
    BY <1>1, <1>2, <1>3, <2>2, <2>3
<1>6. ASSUME ~(k < d) PROVE ~(k * Chunk < n)
  <2> DEFINE y == k - d
  <2>1. y \in Nat /\ d + y = k
    BY <1>3, <1>6
  <2>2. Chunk * k = Chunk * d + Chunk * y /\ Chunk * y \in Nat
    BY <1>3, <1>4, <2>1
  <2> HIDE DEF y
  <2>3. QED
    BY <1>1, <1>2, <1>3, <2>2
<1>7. k * Chunk \in Nat /\ (k + 1) * Chunk = k * Chunk + Chunk
  BY <1>1
<1>8. QED
  BY <1>5, <1>6, <1>7 DEF d

\* A device has fewer interfaces than a byte has values.
LEMMA FewInterfaces ==
    ASSUME Counted, NEW n \in Node, NEW S \in SUBSET Interfaces,
           \A i, j \in S : i.port = j.port => i = j, S \subseteq Offered(n)
    PROVE  Cardinality(S) \in Digit
<1>1. PICK port \in Digit : \A i \in Offered(n) : i.port # port
  BY DEF Counted, Digit
<1> DEFINE others == Digit \ {port}
           f == [i \in S |-> i.port]
<1>2. f \in Injection(S, others)
  BY <1>1 DEF Injection, IsInjective, Interfaces, Digit
<1>3. IsFiniteSet(Digit) /\ Cardinality(Digit) = Width
  BY LowFacts, FS_Interval DEF Digit
<1>4. IsFiniteSet(others) /\ Cardinality(others) = Width - 1
  BY <1>3, FS_RemoveElement
<1> HIDE DEF f, others
<1>5. IsFiniteSet(S) /\ Cardinality(S) <= Cardinality(others)
  BY <1>2, <1>4, FS_Injection
<1>6. Cardinality(S) \in Nat
  BY <1>5, FS_CardinalityType
<1>7. QED
  BY <1>4, <1>5, <1>6, LowFacts DEF Digit

\* ... and no more strings.
LEMMA FewStrings ==
    ASSUME Counted, NEW n \in Node, NEW s \in Seq(Strings), IsInjective(s),
           Range(s) \subseteq Texts(n)
    PROVE  Len(s) <= Width
<1>1. IsFiniteSet(Texts(n)) /\ Cardinality(Texts(n)) <= Width
  BY DEF Counted
<1>2. Cardinality(Range(s)) = Len(s) /\ Len(s) \in Nat
  BY RangeSize, LenProperties
<1>3. Cardinality(Range(s)) <= Cardinality(Texts(n)) /\ Cardinality(Texts(n)) \in Nat
  BY <1>1, FS_Subset, FS_CardinalityType
<1>4. QED
  BY <1>1, <1>2, <1>3, LowFacts

-----------------------------------------------------------------------------
(* Reading a string piece by piece. *)

\* A piece is the characters from where the pieces before it end.
LEMMA PieceFacts ==
    ASSUME NEW text \in Strings, NEW k \in Nat, k * Chunk < Len(text)
    PROVE  LET p == Piece(text, k + 1)
           IN  /\ p \in Seq(Digit) /\ Len(p) \in Nat
               /\ k * Chunk + Len(p) <= Len(text)
               /\ k * Chunk + Len(p) < Len(text) => Len(p) = Chunk
               /\ \A i \in 1 .. Len(p) : p[i] = text[k * Chunk + i]
<1> DEFINE a == k * Chunk
           to == IF (k + 1) * Chunk < Len(text) THEN (k + 1) * Chunk ELSE Len(text)
           p == Piece(text, k + 1)
<1>1. text \in Seq(Digit) /\ Len(text) \in Nat /\ Chunk \in Nat \ {0}
  BY StringsOf, LenProperties, LowFacts
<1>2. a \in Nat /\ (k + 1) * Chunk = a + Chunk
  BY <1>1, Chunks
<1>3. p = SubSeq(text, a + 1, to)
  <2>1. (k + 1) - 1 = k
    OBVIOUS
  <2>2. QED
    BY <2>1 DEF Piece
<1>4. to \in Nat /\ a < to /\ to <= Len(text) /\ (to < Len(text) => to = a + Chunk)
  BY <1>1, <1>2
<1> HIDE DEF a, to
<1>5. \A i \in a + 1 .. to : text[i] \in Digit
  BY <1>1, <1>2, <1>4, ElementOfSeq
<1>6. /\ p \in Seq(Digit) /\ Len(p) = to - a
      /\ \A i \in 1 .. to - a : p[i] = text[a + i]
  <2>1. /\ SubSeq(text, a + 1, to) \in Seq(Digit)
        /\ Len(SubSeq(text, a + 1, to)) = IF a + 1 <= to THEN to - (a + 1) + 1 ELSE 0
        /\ \A i \in 1 .. to - (a + 1) + 1 :
              SubSeq(text, a + 1, to)[i] = text[(a + 1) + i - 1]
    BY <1>2, <1>4, <1>5, SubSeqProperties
  <2>2. to - (a + 1) + 1 = to - a /\ a + 1 <= to
        /\ \A i \in 1 .. to - a : (a + 1) + i - 1 = a + i
    BY <1>2, <1>4
  <2>3. QED
    BY <1>3, <2>1, <2>2
<1> HIDE DEF p
<1>7. /\ Len(p) \in Nat /\ a + Len(p) <= Len(text)
      /\ a + Len(p) < Len(text) => Len(p) = Chunk
  BY <1>1, <1>2, <1>4, <1>6
<1>8. QED
  BY <1>6, <1>7 DEF p, a

\* The next piece fits, and with it the string has been read one chunk further.
LEMMA OneMorePiece ==
    ASSUME NEW co \in Coroutines, NEW text \in Strings, ReadTo(co.string, text, co.chunk),
           co.chunk * Chunk < Len(text)
    PROVE  LET p == Piece(text, co.chunk + 1)
           IN  /\ ~(co.chunk * Chunk + Len(p) > Len(co.string))
               /\ ReadTo(Stored(co, p), text, co.chunk + 1)
<1> DEFINE k == co.chunk
           a == k * Chunk
           p == Piece(text, k + 1)
           n == Len(text)
<1>1. k \in Nat /\ n \in Nat /\ Chunk \in Nat \ {0}
  BY CoroutineFields, StringsOf, LenProperties, LowFacts
<1>2. a \in Nat /\ (k + 1) * Chunk = a + Chunk
  BY <1>1, Chunks
<1>3. /\ p \in Seq(Digit) /\ Len(p) \in Nat /\ DOMAIN p = 1 .. Len(p)
      /\ a + Len(p) <= n
      /\ a + Len(p) < n => Len(p) = Chunk
      /\ \A i \in 1 .. Len(p) : p[i] = text[a + i]
  <2>1. /\ p \in Seq(Digit) /\ Len(p) \in Nat
        /\ a + Len(p) <= n
        /\ a + Len(p) < n => Len(p) = Chunk
        /\ \A i \in 1 .. Len(p) : p[i] = text[a + i]
    BY <1>1, PieceFacts
  <2> HIDE DEF p
  <2>2. DOMAIN p = 1 .. Len(p)
    BY <2>1, LenProperties
  <2>3. QED
    BY <2>1, <2>2
<1>4. Len(co.string) = n /\ \A i \in 1 .. n : i <= a => co.string[i] = text[i]
  BY DEF ReadTo
<1> HIDE DEF p
<1>5. Len(Stored(co, p)) = n
  BY <1>3, <1>4, StoredTypes
<1>6. \A i \in 1 .. n :
          Stored(co, p)[i] = IF i - a \in DOMAIN p THEN p[i - a] ELSE co.string[i]
  BY <1>4 DEF Stored
<1> DEFINE l == Len(p)
<1>7. l \in Nat /\ a + l <= n /\ (a + l < n => l = Chunk) /\ DOMAIN p = 1 .. l
  BY <1>3
<1> HIDE DEF a, k, n, l
<1>8. ASSUME NEW i \in 1 .. n, i <= a + Chunk PROVE Stored(co, p)[i] = text[i]
  <2>1. CASE i <= a
    <3>1. i - a \notin DOMAIN p
      BY <1>2, <1>7, <2>1
    <3>2. QED
      BY <1>4, <1>6, <2>1, <3>1
  <2>2. CASE ~(i <= a)
    <3>1. i - a \in 1 .. l /\ a + (i - a) = i
      BY <1>1, <1>2, <1>7, <1>8, <2>2
    <3>2. QED
      BY <1>3, <1>6, <1>7, <3>1 DEF l
  <2>3. QED
    BY <2>1, <2>2
<1>9. ~(a + l > n)
  BY <1>1, <1>2, <1>7
<1>10. ReadTo(Stored(co, p), text, k + 1)
  BY <1>2, <1>5, <1>8 DEF ReadTo, n
<1>11. QED
  BY <1>4, <1>9, <1>10 DEF a, k, l, p

\* Once all chunks have been read the string is there.
LEMMA AllRead ==
    ASSUME NEW string \in Strings, NEW text \in Strings, NEW chunk \in Nat,
           ReadTo(string, text, chunk), ~(chunk * Chunk < Len(text))
    PROVE  string = text
<1>1. /\ string \in Seq(Digit) /\ text \in Seq(Digit)
      /\ Len(string) \in Nat /\ Len(text) \in Nat
  BY StringsOf, LenProperties
<1>2. chunk * Chunk \in Nat
  BY Chunks, <1>1
<1>3. \A i \in 1 .. Len(text) : i <= chunk * Chunk
  BY <1>1, <1>2
<1>4. Len(string) = Len(text) /\ \A i \in 1 .. Len(string) : string[i] = text[i]
  BY <1>3 DEF ReadTo
<1>5. QED
  BY <1>1, <1>4, SeqEqual

\* What follows the two bytes in front.
LEMMA BytesBehind ==
    ASSUME NEW a \in Digit, NEW b \in Digit, NEW bytes \in Strings
    PROVE  LET args == <<a, b>> \o bytes IN SubSeq(args, 3, Len(args)) = bytes
<1> DEFINE two == <<a, b>>
           args == two \o bytes
           n == Len(bytes)
           s == SubSeq(args, 3, Len(args))
<1>1. bytes \in Seq(Digit) /\ n \in Nat
  BY StringsOf, LenProperties
<1>2. two \in Seq(Digit) /\ Len(two) = 2
  OBVIOUS
<1> HIDE DEF two
<1>3. /\ args \in Seq(Digit) /\ Len(args) = 2 + n
      /\ \A i \in 1 .. 2 + n : args[i] = IF i <= 2 THEN two[i] ELSE bytes[i - 2]
  <2>1. /\ two \o bytes \in Seq(Digit)
        /\ Len(two \o bytes) = Len(two) + Len(bytes)
        /\ \A i \in 1 .. Len(two) + Len(bytes) :
              (two \o bytes)[i] = IF i <= Len(two) THEN two[i] ELSE bytes[i - Len(two)]
    BY <1>1, <1>2, ConcatProperties
  <2>2. QED
    BY <1>2, <2>1
<1>4. \A i \in 1 .. n : args[2 + i] = bytes[i]
  <2>1. \A i \in 1 .. n : 2 + i \in 1 .. 2 + n /\ ~(2 + i <= 2) /\ (2 + i) - 2 = i
    BY <1>1
  <2> HIDE DEF args, n
  <2>2. QED
    BY <1>3, <2>1
<1> HIDE DEF args
<1>5. \A i \in 3 .. 2 + n : args[i] \in Digit
  BY <1>1, <1>3, ElementOfSeq
<1> HIDE DEF n
<1>6. /\ s \in Seq(Digit) /\ Len(s) = n
      /\ \A i \in 1 .. n : s[i] = bytes[i]
  <2>1. s = SubSeq(args, 3, 2 + n)
    BY <1>3
  <2>2. /\ SubSeq(args, 3, 2 + n) \in Seq(Digit)
        /\ Len(SubSeq(args, 3, 2 + n)) = IF 3 <= 2 + n THEN (2 + n) - 3 + 1 ELSE 0
        /\ \A i \in 1 .. (2 + n) - 3 + 1 : SubSeq(args, 3, 2 + n)[i] = args[3 + i - 1]
    BY <1>1, <1>5, SubSeqProperties
  <2>3. /\ (IF 3 <= 2 + n THEN (2 + n) - 3 + 1 ELSE 0) = n /\ (2 + n) - 3 + 1 = n
        /\ \A i \in 1 .. n : 3 + i - 1 = 2 + i
    BY <1>1
  <2>4. QED
    BY <1>4, <2>1, <2>2, <2>3
<1> HIDE DEF s
<1>7. s = bytes
  BY <1>1, <1>6, SeqEqual DEF n
<1>8. QED
  BY <1>7 DEF s, args, two

-----------------------------------------------------------------------------
(* A coroutine that is told what is right reads what is right. *)

\* What a coroutine knows before it asks for the next string, or for the next
\* interface.
Sound(co) ==
    /\ co \in Coroutines
    /\ co.known \subseteq interfaces[co.dev]
    /\ Lists(co)

LEMMA AskStringRight ==
    ASSUME NEW co, Sound(co), NEW reads, NEW str, Reading(AskString(co, reads, str))
    PROVE  Right(AskString(co, reads, str))
<1> DEFINE e == AskString(co, reads, str)
<1>1. /\ e.at = "Length" /\ Same(co, e)
      /\ e.index = co.index /\ e.interfaces = co.interfaces
  BY DEF Coroutines, AskString, Same, Sound
<1>2. Reading(e)
  OBVIOUS
<1> HIDE DEF e
<1>3. Lists(e) /\ e.known \subseteq interfaces[e.dev]
  BY <1>1 DEF Lists, Sound, Same
<1>4. Right(e)
  BY <1>1, <1>2, <1>3 DEF Right, Faithful
<1>5. QED
  BY <1>4 DEF e

LEMMA NextInterfaceRight ==
    ASSUME NEW co, Sound(co)
    PROVE  Right(NextInterface(co))
<1>1. CASE co.index < co.num
  <2> DEFINE e == [co EXCEPT !.at = "Interface"]
  <2>1. /\ e.at = "Interface" /\ Same(co, e)
        /\ e.index = co.index /\ e.interfaces = co.interfaces
    BY DEF Coroutines, Same, Sound
  <2>2. NextInterface(co) = e
    BY <1>1 DEF NextInterface
  <2> HIDE DEF e
  <2>3. Lists(e) /\ e.known \subseteq interfaces[e.dev]
    BY <2>1 DEF Lists, Sound, Same
  <2>4. QED
    BY <2>1, <2>2, <2>3 DEF Right, Faithful
<1>2. CASE ~(co.index < co.num)
  <2> DEFINE e == AskString(co, "creator", co.creator_id)
  <2>1. co.index = co.num
    BY <1>2, CoroutineFields, LowFacts DEF Sound, Lists, Digit
  <2>2. /\ e.reads = "creator" /\ e.str = co.creator_id /\ Same(co, e)
        /\ e.index = co.index
    BY DEF Coroutines, AskString, Same, Sound
  <2>3. NextInterface(co) = e
    BY <1>2 DEF NextInterface
  <2>4. Reading(e)
    <3> HIDE DEF e
    <3>1. QED
      BY <2>1, <2>2 DEF Reading, Same
  <2>5. Right(AskString(co, "creator", co.creator_id))
    BY <2>4, AskStringRight
  <2>6. QED
    BY <2>3, <2>5
<1>3. QED
  BY <1>1, <1>2

\* The interface that is being read is one of those the device has collected.
LEMMA CollectedOne ==
    ASSUME TypeInv, NEW co \in Coroutines, Known(co), NEW k \in Nat, k < co.num
    PROVE  /\ k + 1 \in 1 .. Len(collected_interfaces[co.dev])
           /\ collected_interfaces[co.dev][k + 1] \in Interfaces
<1>1. co.dev \in Node /\ co.num \in Nat
  BY CoroutineFields, LowFacts DEF Digit
<1>2. collected_interfaces[co.dev] \in Seq(Interfaces)
  BY <1>1 DEF TypeInv
<1>3. Len(collected_interfaces[co.dev]) \in Nat /\ co.num <= Len(collected_interfaces[co.dev])
  BY <1>2, LenProperties DEF Known
<1>4. k + 1 \in 1 .. Len(collected_interfaces[co.dev])
  BY <1>1, <1>3
<1>5. QED
  BY <1>2, <1>4, ElementOfSeq

LEMMA StringReadRight ==
    ASSUME TypeInv, NEW co, Sound(co), InString(co), Reading(co), Known(co),
           Encoders(co.dev), co.string = Text(co.dev, co.str)
    PROVE  Right(StringRead(co))
<1> DEFINE c == collected_interfaces[co.dev]
<1>1. /\ co \in Coroutines /\ co.reads \in {"interface", "creator", "name"}
      /\ co.dev \in Node /\ co.index \in Nat /\ co.num \in Nat
      /\ co.interfaces \in Seq(Interfaces)
  BY CoroutineFields, LowFacts DEF InString, Coroutines, Sound, Digit
<1>2. /\ Len(co.interfaces) = co.index /\ co.index <= co.num
      /\ \A k \in 1 .. co.index : co.interfaces[k] = c[k]
      /\ Covered(co.dev, co.num, co.known)
  BY DEF Sound, Lists
<1>3. CASE co.reads = "interface"
  <2> DEFINE intf == [port |-> co.port, id |-> co.id, name |-> co.string]
             list == Append(co.interfaces, intf)
             next == co.index + 1
             d == [co EXCEPT !.index = @ + 1, !.interfaces = Append(@, intf)]
  <2>1. co.index < co.num
    BY <1>3 DEF InString
  <2>2. next \in 1 .. Len(c) /\ c[next] \in Interfaces
    BY <1>1, <2>1, CollectedOne
  <2>3. intf = c[next]
    <3>1. /\ co.port = c[next].port /\ co.id = c[next].id
          /\ co.string = c[next].name
      BY <1>3 DEF Reading
    <3> DEFINE i == c[next]
    <3>2. i \in Interfaces /\ co.port = i.port /\ co.id = i.id /\ co.string = i.name
      BY <2>2, <3>1
    <3> HIDE DEF i
    <3>3. i = [port |-> co.port, id |-> co.id, name |-> co.string]
      BY <3>2 DEF Interfaces
    <3>4. QED
      BY <3>3 DEF i
  <2>4. intf \in Interfaces
    BY <2>2, <2>3
  <2> HIDE DEF intf
  <2>5. /\ list \in Seq(Interfaces)
        /\ Len(list) = next
        /\ \A k \in 1 .. co.index : list[k] = co.interfaces[k]
        /\ list[next] = intf
    BY <1>1, <1>2, <2>4, AppendProperties
  <2>6. next \in Digit /\ next <= co.num
    <3>1. co.num \in 0 .. Width - 1 /\ Width \in Nat
      BY <1>1, CoroutineFields, LowFacts DEF Digit
    <3>2. QED
      BY <1>1, <2>1, <3>1 DEF Digit
  <2>7. StringRead(co) = NextInterface(d)
    BY <1>3 DEF StringRead, intf
  <2>8. d = [co EXCEPT !.index = next, !.interfaces = list]
    BY <1>1 DEF Coroutines
  <2> HIDE DEF next, list, d
  <2>9. d \in Coroutines /\ Same(co, d) /\ d.index = next /\ d.interfaces = list
    BY <1>1, <2>5, <2>6, <2>8 DEF Coroutines, Same
  <2>10. \A k \in 1 .. next : list[k] = c[k]
    <3>1. \A k \in 1 .. next : k \in 1 .. co.index \/ k = next
      BY <1>1 DEF next
    <3>2. QED
      BY <1>2, <2>3, <2>5, <3>1
  <2>11. Sound(d)
    BY <2>5, <2>6, <2>9, <2>10 DEF Sound, Lists, Same
  <2>12. QED
    BY <2>7, <2>11, NextInterfaceRight
<1>4. CASE co.reads = "creator"
  <2> DEFINE d == [co EXCEPT !.creator = co.string]
             e == AskString(d, "name", co.name_id)
  <2>1. /\ d \in Coroutines /\ Same(co, d) /\ d.creator = co.string
        /\ d.index = co.index /\ d.interfaces = co.interfaces
    BY <1>1, CoroutineFields DEF Coroutines, Same
  <2>2. StringRead(co) = AskString(d, "name", co.name_id)
    BY <1>4 DEF StringRead
  <2> HIDE DEF d
  <2>3. Sound(d)
    BY <2>1 DEF Sound, Lists, Same
  <2>4. d.creator = Creator[d.dev] /\ d.index = d.num
    BY <1>4, <2>1 DEF Reading, Sound, Lists, Same
  <2>5. /\ e.reads = "name" /\ e.str = co.name_id /\ Same(d, e)
        /\ e.index = d.index /\ e.creator = d.creator
    BY <2>1 DEF Coroutines, AskString, Same
  <2>6. Reading(e)
    <3> HIDE DEF e
    <3>1. QED
      BY <2>1, <2>4, <2>5 DEF Reading, Same
  <2>7. Right(AskString(d, "name", co.name_id))
    BY <2>3, <2>6, AskStringRight
  <2>8. QED
    BY <2>2, <2>7
<1>5. CASE co.reads = "name"
  <2> DEFINE d == [co EXCEPT !.name = co.string, !.at = "done"]
  <2>1. /\ d.at = "done" /\ Same(co, d) /\ d.name = co.string
        /\ d.creator = co.creator /\ d.interfaces = co.interfaces
    BY <1>1 DEF Coroutines, Same
  <2>2. StringRead(co) = d
    BY <1>5 DEF StringRead
  <2>3. co.index = co.num /\ co.creator = Creator[co.dev] /\ co.string = Name[co.dev]
    BY <1>5 DEF Reading, Sound, Lists
  <2>4. DOMAIN co.interfaces = 1 .. co.num /\ \A k \in 1 .. co.num : co.interfaces[k] = c[k]
    BY <1>1, <1>2, <2>3, LenProperties
  <2>5. \A k \in 1 .. co.num : k \in DOMAIN c
    <3>1. c \in Seq(Interfaces) /\ co.num <= Len(c)
      BY <1>1 DEF TypeInv, Known
    <3> HIDE DEF c
    <3>2. Len(c) \in Nat /\ DOMAIN c = 1 .. Len(c)
      BY <3>1, LenProperties
    <3>3. QED
      BY <1>1, <3>1, <3>2
  <2>6. co.known \subseteq Range(co.interfaces)
    BY <1>2, <2>4 DEF Covered, Range
  <2>7. Range(co.interfaces) \subseteq interfaces[co.dev]
    BY <2>4, <2>5 DEF Encoders, Range
  <2>8. IsInjective(co.interfaces)
    BY <2>4, <2>5 DEF Encoders, IsInjective
  <2> HIDE DEF d
  <2>9. Complete(d)
    BY <2>1, <2>3, <2>6, <2>7, <2>8 DEF Complete, Same
  <2>10. QED
    BY <2>1, <2>2, <2>9 DEF Right, Faithful, Sound, Same
<1>6. QED
  BY <1>1, <1>3, <1>4, <1>5

\* The string with a number that is in use is one of those the device collected.
LEMMA TextTypes ==
    ASSUME TypeInv, NEW n \in Node, NEW id \in Nat, id < Len(collected_strings[n])
    PROVE  /\ Text(n, id) \in Strings /\ Len(Text(n, id)) \in Nat
           /\ Text(n, id) \in Range(collected_strings[n])
<1>1. collected_strings[n] \in Seq(Strings)
  BY DEF TypeInv
<1>2. Len(collected_strings[n]) \in Nat /\ DOMAIN collected_strings[n] = 1 .. Len(collected_strings[n])
  BY <1>1, LenProperties
<1>3. id + 1 \in 1 .. Len(collected_strings[n])
  BY <1>2
<1>4. Text(n, id) \in Strings
  BY <1>1, <1>3, ElementOfSeq DEF Text
<1>5. Text(n, id) \in Range(collected_strings[n])
  BY <1>2, <1>3 DEF Text, Range
<1>6. QED
  BY <1>4, <1>5, StringsOf, LenProperties

LEMMA NextChunkRight ==
    ASSUME TypeInv, NEW co, Sound(co), InString(co), Reading(co), Known(co),
           Encoders(co.dev), co.str < Len(collected_strings[co.dev]),
           ReadTo(co.string, Text(co.dev, co.str), co.chunk)
    PROVE  Right(NextChunk(co))
<1> DEFINE text == Text(co.dev, co.str)
           n == Len(text)
<1>1. /\ co \in Coroutines /\ co.dev \in Node /\ co.str \in Nat
      /\ co.chunk \in Nat /\ co.string \in Strings
  BY CoroutineFields, LowFacts DEF Sound, Digit
<1>2. text \in Strings /\ n \in Nat /\ Len(co.string) = n
  BY <1>1, TextTypes DEF ReadTo
<1>3. co.chunk < (Len(co.string) + Chunk - 1) \div Chunk <=> co.chunk * Chunk < n
  <2> HIDE DEF n
  <2>1. QED
    BY <1>1, <1>2, Chunks
<1>4. CASE co.chunk * Chunk < n
  <2> DEFINE e == [co EXCEPT !.at = "Chunk"]
  <2>1. /\ e.at = "Chunk" /\ Same(co, e)
        /\ e.index = co.index /\ e.interfaces = co.interfaces
        /\ e.reads = co.reads /\ e.str = co.str /\ e.chunk = co.chunk
        /\ e.string = co.string /\ e.port = co.port /\ e.id = co.id
        /\ e.creator = co.creator
    BY <1>1 DEF Coroutines, Same
  <2>2. NextChunk(co) = e
    BY <1>3, <1>4 DEF NextChunk
  <2> HIDE DEF e
  <2>3. Lists(e) /\ e.known \subseteq interfaces[e.dev]
    BY <2>1 DEF Lists, Sound, Same
  <2>4. Reading(e)
    BY <2>1 DEF Reading, Same
  <2>5. /\ ReadTo(e.string, Text(e.dev, e.str), e.chunk)
        /\ e.chunk * Chunk < Len(Text(e.dev, e.str))
    BY <1>4, <2>1 DEF Same
  <2>6. Right(e)
    BY <2>1, <2>3, <2>4, <2>5 DEF Right, Faithful
  <2>7. QED
    BY <2>2, <2>6
<1>5. CASE ~(co.chunk * Chunk < n)
  <2>1. NextChunk(co) = StringRead(co)
    BY <1>3, <1>5 DEF NextChunk
  <2>2. co.string = text
    BY <1>1, <1>2, <1>5, AllRead
  <2>3. QED
    BY <2>1, <2>2, StringReadRight
<1>6. QED
  BY <1>4, <1>5

LEMMA AfterRight ==
    ASSUME TypeInv, NEW co, Running(co), ~Over(co), NEW d \in Messages,
           d.op = Awaited(co), Numbers(co), NumbersIn(co, d.args),
           Encoders(co.dev), Faithful(co), Tells(co, d.args)
    PROVE  Right(After(co, d.args))
<1> DEFINE args == d.args
           bytes == SubSeq(args, 3, Len(args))
           text == Text(co.dev, co.str)
<1>1. co \in Coroutines /\ co.at \in {"Device", "Interface", "Length", "Chunk"}
      /\ args \in Seq(Digit) /\ bytes \in Seq(Digit)
  BY CoroutineFields, StringsOf, BytesOf DEF Over, Running, Messages
<1>2. CASE co.at = "Device"
  <2>1. Len(args) = 3
    BY <1>2 DEF Messages, Awaited
  <2>2. args[1] \in Digit /\ args[2] \in Digit /\ args[3] \in Digit
    BY <1>1, <2>1, ElementOfSeq
  <2> DEFINE e == [co EXCEPT !.num = args[1], !.creator_id = args[2], !.name_id = args[3]]
  <2>3. After(co, args) = NextInterface(e)
    BY <1>2 DEF After
  <2>4. e \in Coroutines /\ e.dev = co.dev /\ e.known = co.known
        /\ e.num = args[1] /\ e.creator_id = args[2] /\ e.name_id = args[3]
        /\ e.index = co.index /\ e.interfaces = co.interfaces
    <3> HIDE DEF args
    <3>1. QED
      BY <1>1, <2>2 DEF Coroutines
  <2>5. /\ Covered(e.dev, args[1], e.known)
        /\ Text(e.dev, args[2]) = Creator[e.dev] /\ Text(e.dev, args[3]) = Name[e.dev]
    <3> HIDE DEF e
    <3>1. QED
      BY <1>2, <2>4 DEF Tells
  <2>6. co.interfaces = <<>> /\ co.index = 0 /\ e.known \subseteq interfaces[e.dev]
    BY <1>2, <2>4 DEF Faithful
  <2> HIDE DEF e
  <2>7. e.index = 0 /\ e.index <= e.num /\ Len(e.interfaces) = 0 /\ 1 .. e.index = {}
    <3>1. args[1] >= 0
      BY <2>2, LowFacts DEF Digit
    <3>2. QED
      BY <2>4, <2>6, <3>1
  <2>8. Sound(e)
    BY <2>4, <2>5, <2>6, <2>7 DEF Sound, Lists
  <2>9. QED
    BY <2>3, <2>8, NextInterfaceRight
<1>3. ASSUME co.at \in {"Interface", "Length", "Chunk"} PROVE Sound(co) /\ Known(co)
  BY <1>1, <1>3 DEF Sound, Faithful, Numbers
<1>4. CASE co.at = "Interface"
  <2>1. Len(args) = 4
    BY <1>4 DEF Messages, Awaited
  <2>2. args[2] \in Digit /\ args[3] \in Digit /\ args[4] \in Digit
    BY <1>1, <2>1, ElementOfSeq
  <2> DEFINE e == [co EXCEPT !.port = args[2], !.id = args[3]]
             intf == collected_interfaces[co.dev][co.index + 1]
             str == args[4]
             f == AskString(e, "interface", str)
  <2>3. After(co, args) = AskString(e, "interface", str)
    BY <1>4 DEF After
  <2>4. e \in Coroutines /\ Same(co, e) /\ e.index = co.index /\ e.interfaces = co.interfaces
        /\ e.port = args[2] /\ e.id = args[3]
    <3> HIDE DEF args
    <3>1. QED
      BY <1>1, <2>2 DEF Coroutines, Same
  <2>5. args[2] = intf.port /\ args[3] = intf.id /\ Text(co.dev, str) = intf.name
    BY <1>4 DEF Tells
  <2> HIDE DEF e, args, str
  <2>6. Sound(e)
    BY <1>3, <1>4, <2>4 DEF Sound, Lists, Same
  <2>7. /\ f.reads = "interface" /\ f.str = str /\ Same(e, f) /\ f.index = e.index
        /\ f.port = e.port /\ f.id = e.id
    BY <2>4 DEF Coroutines, AskString, Same
  <2>8. Reading(f)
    <3> HIDE DEF f
    <3>1. QED
      BY <2>4, <2>5, <2>7 DEF Reading, Same
  <2>9. Right(AskString(e, "interface", str))
    BY <2>6, <2>8, AskStringRight
  <2>10. QED
    BY <2>3, <2>9 DEF args
<1>5. ASSUME co.at \in {"Length", "Chunk"}
      PROVE  /\ InString(co) /\ Reading(co) /\ co.str < Len(collected_strings[co.dev])
             /\ text \in Strings /\ Len(text) \in Nat
  <2>1. InString(co) /\ Reading(co) /\ co.str < Len(collected_strings[co.dev])
    BY <1>5 DEF Running, Looping, InString, Faithful, Numbers
  <2>2. co.dev \in Node /\ co.str \in Nat
    BY <1>1, CoroutineFields, LowFacts DEF Digit
  <2>3. QED
    BY <2>1, <2>2, TextTypes
<1>6. ASSUME co.at \in {"Length", "Chunk"}, NEW string \in Strings, NEW chunk \in Nat,
             ReadTo(string, text, chunk)
      PROVE  Right(NextChunk([co EXCEPT !.chunk = chunk, !.string = string]))
  <2> DEFINE e == [co EXCEPT !.chunk = chunk, !.string = string]
  <2>1. /\ e \in Coroutines /\ Same(co, e)
        /\ e.index = co.index /\ e.interfaces = co.interfaces
        /\ e.reads = co.reads /\ e.str = co.str /\ e.port = co.port /\ e.id = co.id
        /\ e.creator = co.creator /\ e.chunk = chunk /\ e.string = string
    BY <1>1 DEF Coroutines, Same
  <2> HIDE DEF e
  <2>2. Sound(e) /\ Known(e)
    BY <1>3, <1>6, <2>1 DEF Sound, Lists, Same, Known
  <2>3. InString(e) /\ Reading(e) /\ e.str < Len(collected_strings[e.dev])
        /\ Encoders(e.dev)
    BY <1>5, <1>6, <2>1 DEF InString, Reading, Same
  <2>4. ReadTo(e.string, Text(e.dev, e.str), e.chunk)
    BY <1>6, <2>1 DEF Same
  <2>5. Right(NextChunk(e))
    BY <2>2, <2>3, <2>4, NextChunkRight
  <2>6. QED
    BY <2>5 DEF e
<1>7. CASE co.at = "Length"
  <2> DEFINE string == [k \in 1 .. Length(bytes) |-> Low(35)]
             none == 0
  <2>1. After(co, args) = NextChunk([co EXCEPT !.chunk = none, !.string = string])
    BY <1>7 DEF After
  <2>2. bytes = LengthBytes[Len(text)]
    BY <1>7 DEF Tells
  <2>3. Length(bytes) = Len(text) /\ Len(text) \in Nat /\ Low(35) \in Digit
    BY <1>5, <1>7, <2>2, LengthRead, LowFacts
  <2>4. string \in Seq(Digit) /\ Len(string) = Len(text)
    <3> HIDE DEF bytes, text
    <3>1. QED
      BY <2>3, IsASeq
  <2> HIDE DEF string
  <2>5. none \in Nat /\ none * Chunk = 0
    BY LowFacts
  <2>6. \A i \in 1 .. Len(text) : ~(i <= none * Chunk)
    BY <2>3, <2>5
  <2>7. ReadTo(string, text, none) /\ string \in Strings
    BY <2>4, <2>6, StringsOf DEF ReadTo
  <2> HIDE DEF none
  <2>8. QED
    BY <1>6, <1>7, <2>1, <2>5, <2>7 DEF args
<1>8. CASE co.at = "Chunk"
  <2> DEFINE p == Piece(text, co.chunk + 1)
             string == Stored(co, p)
             next == co.chunk + 1
  <2>1. bytes = p
    BY <1>8 DEF Tells
  <2>2. ReadTo(co.string, text, co.chunk) /\ co.chunk * Chunk < Len(text)
    BY <1>8 DEF Faithful
  <2>3. ~(co.chunk * Chunk + Len(p) > Len(co.string)) /\ ReadTo(string, text, next)
    BY <1>1, <1>5, <1>8, <2>2, OneMorePiece
  <2>4. After(co, args) = NextChunk([co EXCEPT !.chunk = next, !.string = string])
    <3>1. After(co, args) =
              IF co.chunk * Chunk + Len(bytes) > Len(co.string)
              THEN [co EXCEPT !.at = "undefined"]
              ELSE NextChunk([co EXCEPT !.chunk = @ + 1, !.string = Stored(co, bytes)])
      BY <1>8 DEF After
    <3> HIDE DEF p, bytes
    <3>2. QED
      BY <1>1, <2>1, <2>3, <3>1 DEF Coroutines
  <2>5. string \in Strings
    <3>1. p \in Seq(Digit)
      BY <1>1, <2>1
    <3> HIDE DEF p
    <3>2. QED
      BY <1>1, <3>1, StoredTypes
  <2>6. next \in Nat
    BY <1>1, CoroutineFields
  <2> HIDE DEF string, next
  <2>7. QED
    BY <1>6, <1>8, <2>3, <2>4, <2>5, <2>6 DEF args
<1>9. QED
  BY <1>1, <1>2, <1>4, <1>7, <1>8

-----------------------------------------------------------------------------
(* What was right stays right when a device has more to say. *)

\* What was collected has kept its numbers, and no interface is gone.
Grown ==
    \A n \in Node :
       /\ interfaces[n] \subseteq interfaces'[n]
       /\ Extends(collected_interfaces[n], collected_interfaces'[n])
       /\ Extends(collected_strings[n], collected_strings'[n])
       /\ Encoders(n)'

LEMMA TextKept ==
    ASSUME TypeInv, Grown, NEW n \in Node, NEW id \in Nat, id < Len(collected_strings[n])
    PROVE  Text(n, id)' = Text(n, id)
<1>1. collected_strings[n] \in Seq(Strings)
  BY DEF TypeInv
<1>2. id + 1 \in 1 .. Len(collected_strings[n])
  BY <1>1, LenProperties
<1>3. QED
  BY <1>2 DEF Grown, Extends, Text

LEMMA InterfaceKept ==
    ASSUME TypeInv, Grown, NEW co \in Coroutines, Known(co)
    PROVE  \A k \in 1 .. co.num :
              collected_interfaces'[co.dev][k] = collected_interfaces[co.dev][k]
<1> DEFINE c == collected_interfaces[co.dev]
<1>1. co.dev \in Node /\ co.num \in Nat
  BY CoroutineFields, LowFacts DEF Digit
<1>2. c \in Seq(Interfaces) /\ co.num <= Len(c)
  BY <1>1 DEF TypeInv, Known
<1>3. \A k \in 1 .. Len(c) : collected_interfaces'[co.dev][k] = c[k]
  BY <1>1 DEF Grown, Extends
<1> HIDE DEF c
<1>4. Len(c) \in Nat
  BY <1>2, LenProperties
<1>5. \A k \in 1 .. co.num : k \in 1 .. Len(c)
  BY <1>1, <1>2, <1>4
<1>6. QED
  BY <1>3, <1>5 DEF c

LEMMA FaithfulKept ==
    ASSUME TypeInv, Grown, NEW co \in Coroutines, Looping(co), Numbers(co), Faithful(co)
    PROVE  Faithful(co)'
<1> DEFINE n == co.dev
<1>1. /\ n \in Node /\ co.index \in Nat /\ co.num \in Nat /\ co.str \in Nat
      /\ co.creator_id \in Nat /\ co.name_id \in Nat
  BY CoroutineFields, LowFacts DEF Digit
<1>2. interfaces[n] \subseteq interfaces'[n]
  BY <1>1 DEF Grown
<1>3. co.known \subseteq interfaces'[n]
  BY <1>2 DEF Faithful
<1>4. ASSUME co.at \in {"Interface", "Length", "Chunk"} PROVE Lists(co)'
  <2>1. Lists(co) /\ Known(co)
    BY <1>4 DEF Faithful, Numbers
  <2>2. \A k \in 1 .. co.num : collected_interfaces'[n][k] = collected_interfaces[n][k]
    BY <2>1, InterfaceKept
  <2>3. Text(n, co.creator_id)' = Creator[n] /\ Text(n, co.name_id)' = Name[n]
    BY <1>1, <2>1, TextKept DEF Lists, Known
  <2>4. Covered(n, co.num, co.known)'
    BY <2>1, <2>2 DEF Lists, Covered
  <2>5. \A k \in 1 .. co.index : k \in 1 .. co.num
    BY <1>1, <2>1 DEF Lists
  <2>6. QED
    BY <2>1, <2>2, <2>3, <2>4, <2>5 DEF Lists
<1>5. ASSUME co.at \in {"Length", "Chunk"}
      PROVE  Reading(co)' /\ Text(n, co.str)' = Text(n, co.str)
  <2>1. Reading(co) /\ Known(co) /\ co.str < Len(collected_strings[n])
    BY <1>5 DEF Faithful, Numbers
  <2>2. Text(n, co.str)' = Text(n, co.str)
    BY <1>1, <2>1, TextKept
  <2>3. co.reads = "interface" =>
            collected_interfaces'[n][co.index + 1] = collected_interfaces[n][co.index + 1]
    <3>1. co.reads = "interface" => co.index + 1 \in 1 .. co.num
      BY <1>1, <1>5 DEF Looping
    <3>2. QED
      BY <2>1, <3>1, InterfaceKept
  <2>4. QED
    BY <2>1, <2>2, <2>3 DEF Reading
<1>6. ASSUME co.at = "Chunk"
      PROVE  /\ ReadTo(co.string, Text(n, co.str), co.chunk)'
             /\ co.chunk * Chunk < Len(Text(n, co.str))'
  BY <1>5, <1>6 DEF Faithful, ReadTo
<1>7. ASSUME co.at = "done" PROVE Complete(co)'
  BY <1>2, <1>7 DEF Faithful, Complete
<1>8. QED
  BY <1>3, <1>4, <1>5, <1>6, <1>7 DEF Faithful

LEMMA TellsKept ==
    ASSUME TypeInv, Grown, NEW co \in Coroutines, ~Over(co), Looping(co), Numbers(co),
           NEW d \in Messages, d.op = Awaited(co), NumbersIn(co, d.args), Tells(co, d.args)
    PROVE  Tells(co, d.args)'
<1> DEFINE n == co.dev
           args == d.args
<1>1. /\ n \in Node /\ co.index \in Nat /\ co.num \in Nat /\ co.str \in Nat
  BY CoroutineFields, LowFacts DEF Digit
<1>2. args \in Seq(Digit) /\ \A k \in Digit : k \in Nat
  BY StringsOf, LowFacts DEF Messages, Digit
<1>3. ASSUME co.at = "Device" 
      PROVE  /\ Covered(n, args[1], co.known)'
             /\ Text(n, args[2])' = Creator[n] /\ Text(n, args[3])' = Name[n]
  <2>1. Len(args) = 3
    BY <1>3 DEF Messages, Awaited
  <2>2. args[1] \in Nat /\ args[2] \in Nat /\ args[3] \in Nat
    BY <1>2, <2>1, ElementOfSeq
  <2>3. /\ Covered(n, args[1], co.known)
        /\ Text(n, args[2]) = Creator[n] /\ Text(n, args[3]) = Name[n]
    BY <1>3 DEF Tells
  <2> DEFINE c == collected_interfaces[n]
             num == args[1]
  <2>4. /\ c \in Seq(Interfaces) /\ num <= Len(c)
        /\ \A k \in 1 .. Len(c) : collected_interfaces'[n][k] = c[k]
        /\ args[2] < Len(collected_strings[n]) /\ args[3] < Len(collected_strings[n])
    BY <1>1, <1>3 DEF NumbersIn, TypeInv, Grown, Extends
  <2>5. Text(n, args[2])' = Creator[n] /\ Text(n, args[3])' = Name[n]
    <3> DEFINE id == args[2]
               id2 == args[3]
    <3>1. /\ id \in Nat /\ id < Len(collected_strings[n]) /\ Text(n, id) = Creator[n]
          /\ id2 \in Nat /\ id2 < Len(collected_strings[n]) /\ Text(n, id2) = Name[n]
      BY <2>2, <2>3, <2>4
    <3> HIDE DEF id, id2, n
    <3>2. Text(n, id)' = Text(n, id) /\ Text(n, id2)' = Text(n, id2)
      BY <1>1, <3>1, TextKept
    <3>3. QED
      BY <3>1, <3>2 DEF id, id2
  <2>6. \A k \in 1 .. num : k \in 1 .. Len(c)
    <3> HIDE DEF c, num
    <3>1. Len(c) \in Nat
      BY <2>4, LenProperties
    <3>2. num \in Nat
      BY <2>2 DEF num
    <3>3. QED
      BY <2>4, <3>1, <3>2
  <2>7. \A k \in 1 .. num : collected_interfaces'[n][k] = collected_interfaces[n][k]
    BY <2>4, <2>6
  <2> HIDE DEF num
  <2>8. Covered(n, num, co.known)'
    BY <2>3, <2>7 DEF Covered, num
  <2>9. QED
    BY <2>5, <2>8 DEF num
<1>4. ASSUME co.at = "Interface"
      PROVE  LET intf == collected_interfaces'[n][co.index + 1]
             IN  /\ args[2] = intf.port /\ args[3] = intf.id
                 /\ Text(n, args[4])' = intf.name
  <2>1. Len(args) = 4
    BY <1>4 DEF Messages, Awaited
  <2>2. args[4] \in Nat /\ args[4] < Len(collected_strings[n])
    BY <1>2, <1>4, <2>1, ElementOfSeq DEF NumbersIn
  <2> DEFINE id == args[4]
  <2>3. Text(n, id)' = Text(n, id)
    <3>1. id \in Nat /\ id < Len(collected_strings[n])
      BY <2>2
    <3> HIDE DEF id, n
    <3>2. QED
      BY <1>1, <3>1, TextKept
  <2>4. Known(co) /\ co.index + 1 \in 1 .. co.num
    BY <1>1, <1>4 DEF Looping, Numbers
  <2>5. collected_interfaces'[n][co.index + 1] = collected_interfaces[n][co.index + 1]
    BY <2>4, InterfaceKept
  <2> HIDE DEF id
  <2>6. QED
    BY <1>4, <2>3, <2>5 DEF Tells, id
<1>5. ASSUME co.at \in {"Length", "Chunk"} PROVE Text(n, co.str)' = Text(n, co.str)
  BY <1>1, <1>5, TextKept DEF Numbers
<1>6. SubSeq(args, 3, Len(args))' = SubSeq(args, 3, Len(args))
  OBVIOUS
<1> HIDE DEF args, n
<1>7. QED
  BY <1>3, <1>4, <1>5, <1>6 DEF Tells, args, n

-----------------------------------------------------------------------------
(* Every step keeps what is read right. *)

\* A step that leaves the calls where they are, and answers rightly if it does.
LEMMA ContentKept ==
    ASSUME TypeInv, Conversation, Content, Grown, UNCHANGED query,
           \A q \in Query : ~Over(query[q]) =>
              \A f \in Talk(Caller[q])' : f.to = Caller[q] =>
                 f \in Talk(Caller[q]) \/ Tells(query[q], f.data.args)'
    PROVE  Content'
<1>1. ASSUME NEW q \in Query, query[q].at # "idle"
      PROVE  Informed(q)'
  <2> DEFINE n == Caller[q]
  <2>1. PICK co : co = query[q] /\ co = query'[q]
    OBVIOUS
  <2>2. co \in Coroutines /\ Looping(co)
    BY <1>1, <2>1 DEF TypeInv, Unasked
  <2>3. Talking(q) /\ Informed(q) /\ Right(co)
    BY <1>1, <2>1 DEF Conversation, Content, Informed
  <2>4. Numbers(co)
    <3>1. CASE Over(co)
      BY <3>1 DEF Numbers, Over
    <3>2. CASE ~Over(co)
      BY <2>1, <2>3, <3>2 DEF Talking
    <3>3. QED
      BY <3>1, <3>2
  <2>5. Faithful(co)'
    BY <2>2, <2>3, <2>4, FaithfulKept DEF Right
  <2>6. ASSUME ~Over(co), NEW f \in Talk(n)', f.to = n PROVE Tells(co, f.data.args)'
    <3>1. CASE Tells(query[q], f.data.args)'
      BY <2>1, <3>1
    <3>2. CASE f \in Talk(n)
      <4>1. Tells(co, f.data.args)
        BY <1>1, <2>1, <2>3, <2>6, <3>2 DEF Informed
      <4>2. f \in DOMAIN bus
        BY <3>2 DEF Talk
      <4>3. f.data \in Messages
        BY <4>2 DEF TypeInv, Wire
      <4>4. Exchange(q, f) /\ co.dev # n
        BY <2>1, <2>3, <2>6, <3>2 DEF Talking
      <4>5. f # Frame(n, co.dev, Request(co))
        BY <2>6, <4>4 DEF Frame
      <4>6. f.data.op = Awaited(co) /\ NumbersIn(co, f.data.args)
        BY <2>1, <4>4, <4>5 DEF Exchange
      <4>7. PICK d : d = f.data
        OBVIOUS
      <4>8. Tells(co, d.args)'
        BY <2>2, <2>4, <2>6, <4>1, <4>3, <4>6, <4>7, TellsKept
      <4>9. QED
        BY <4>7, <4>8
    <3>3. QED
      BY <2>1, <2>6, <3>1, <3>2
  <2>7. co.at # "undefined"
    BY <2>3 DEF Right
  <2>8. Right(co)'
    BY <2>5, <2>7 DEF Right
  <2>9. QED
    BY <2>1, <2>6, <2>8 DEF Informed, Over
<1>2. \A q \in Query : Informed(q)'
  BY <1>1 DEF Informed
<1>3. QED
  BY <1>2 DEF Content, Grown

\* A step that leaves a call where it is right.
LEMMA ContentProceeds ==
    ASSUME TypeInv, Content, NEW q \in Query, NEW co, Right(co), GoneOn(q, co),
           UNCHANGED <<interfaces, collected_interfaces, collected_strings>>
    PROVE  Content'
<1>1. query'[q] = co /\ \A p \in Query \ {q} : query'[p] = query[p]
  BY DEF GoneOn, TypeInv
<1>2. \A e : Right(e) => Right(e)'
  BY DEF Right, Faithful, Lists, Reading, ReadTo, Text, Covered, Complete
<1>3. \A e, args : Tells(e, args) => Tells(e, args)'
  BY DEF Tells, Covered, Text
<1>4. \A n \in Node : Encoders(n)'
  BY DEF Content, Encoders
<1>5. Informed(q)'
  <2>1. Right(query[q])'
    BY <1>1, <1>2
  <2>2. \A f \in Talk(Caller[q])' : f.to # Caller[q]
    BY DEF GoneOn
  <2>3. QED
    BY <2>1, <2>2 DEF Informed
<1>6. ASSUME NEW p \in Query \ {q} PROVE Informed(p)'
  <2>1. Informed(p) /\ query'[p] = query[p] /\ Caller[p] \in Node
    BY <1>1, NodeAssumption DEF Content
  <2>2. query[p].at # "idle" => Right(query[p])'
    BY <1>2, <2>1 DEF Informed
  <2>3. CASE Caller[p] = Caller[q]
    BY <2>1, <2>2, <2>3 DEF Informed, GoneOn
  <2>4. CASE Caller[p] # Caller[q]
    <3>1. Talk(Caller[p])' = Talk(Caller[p])
      BY <2>1, <2>4 DEF GoneOn
    <3>2. QED
      BY <1>3, <2>1, <2>2, <3>1 DEF Informed, Over
  <2>5. QED
    BY <2>3, <2>4
<1>7. QED
  BY <1>4, <1>5, <1>6 DEF Content

\* A step that neither moves a call or its frames nor makes a device collect.
LEMMA ContentUnmoved ==
    ASSUME TypeInv, Conversation, Content,
           UNCHANGED <<query, collected_interfaces, collected_strings>>,
           \A n \in Node : interfaces[n] \subseteq interfaces'[n]
                           /\ interfaces'[n] \subseteq Offered(n),
           \A n \in Node : Talk(n)' = Talk(n)
    PROVE  Content'
<1>1. Grown
  <2> SUFFICES ASSUME NEW n \in Node
               PROVE  /\ Extends(collected_interfaces[n], collected_interfaces'[n])
                      /\ Extends(collected_strings[n], collected_strings'[n])
                      /\ Encoders(n)'
    BY DEF Grown
  <2>1. Encoders(n) /\ interfaces[n] \subseteq interfaces'[n]
        /\ interfaces'[n] \subseteq Offered(n)
    BY DEF Content
  <2>2. Encoders(n)'
    BY <2>1 DEF Encoders
  <2>3. Len(collected_interfaces[n]) \in Nat /\ Len(collected_strings[n]) \in Nat
    BY LenProperties DEF TypeInv
  <2>4. QED
    BY <2>2, <2>3 DEF Extends
<1>2. \A q \in Query : Talk(Caller[q])' = Talk(Caller[q])
  BY NodeAssumption
<1>3. QED
  BY <1>1, <1>2, ContentKept

\* What is encoded is the device's own, so it stays within what it has or says.
LEMMA EncodersKept ==
    ASSUME TypeInv, Content, NEW n \in Node, UNCHANGED interfaces,
           NEW A, A \subseteq interfaces[n], NEW B, B \subseteq Texts(n),
           Encoded(collected_interfaces[n], collected_interfaces'[n], A),
           Encoded(collected_strings[n], collected_strings'[n], B)
    PROVE  Encoders(n)'
<1>1. Encoders(n)
  BY DEF Content
<1>2. QED
  BY <1>1 DEF Encoders, Encoded

\* What has been collected anew nowhere else is known.
LEMMA GrownAt ==
    ASSUME TypeInv, Content, UNCHANGED interfaces, NEW n \in Node, Encoders(n)',
           Extends(collected_interfaces[n], collected_interfaces'[n]),
           Extends(collected_strings[n], collected_strings'[n]),
           \A m \in Node \ {n} : /\ collected_interfaces'[m] = collected_interfaces[m]
                                 /\ collected_strings'[m] = collected_strings[m]
    PROVE  Grown
<1> SUFFICES ASSUME NEW m \in Node
             PROVE  /\ Extends(collected_interfaces[m], collected_interfaces'[m])
                    /\ Extends(collected_strings[m], collected_strings'[m])
                    /\ Encoders(m)'
  BY DEF Grown
<1>1. CASE m = n
  BY <1>1
<1>2. CASE m # n
  <2>1. /\ collected_interfaces'[m] = collected_interfaces[m]
        /\ collected_strings'[m] = collected_strings[m]
    BY <1>2
  <2>2. Encoders(m)
    BY DEF Content
  <2>3. Encoders(m)'
    BY <2>1, <2>2 DEF Encoders
  <2>4. Len(collected_interfaces[m]) \in Nat /\ Len(collected_strings[m]) \in Nat
    BY LenProperties DEF TypeInv
  <2>5. QED
    BY <2>1, <2>3, <2>4 DEF Extends
<1>3. QED
  BY <1>1, <1>2

LEMMA ContentAnswered ==
    ASSUME TypeInv, Conversation, Content, Grown, UNCHANGED query,
           NEW q \in Query, ~Over(query[q]), Running(query[q]),
           NEW f \in DOMAIN bus, f.to \in Node \ {Caller[q]},
           GetSource(f.id) = Addr[Caller[q]],
           Talk(Caller[q]) = {f}, bus[f] = 1, f.data.op \in Queries,
           NEW data, data.op = Awaited(query[q]), Replied(f.to, f, data),
           Tells(query[q], data.args)'
    PROVE  Content'
<1> DEFINE n == Caller[q]
           g == Frame(f.to, n, data)
<1>1. n \in Node /\ data.op \in Replies
  BY NodeAssumption, RequestTypes DEF Running
<1>2. /\ Talk(n)' = {g}
      /\ \A k \in Node \ {n} : Talk(k)' = Talk(k)
  BY <1>1, ReplyTalk
<1>3. g.data = data
  BY DEF Frame
<1> HIDE DEF g
<1>4. ASSUME NEW p \in Query, ~Over(query[p]), NEW e \in Talk(Caller[p])', e.to = Caller[p]
      PROVE  e \in Talk(Caller[p]) \/ Tells(query[p], e.data.args)'
  <2>1. CASE Caller[p] = n
    <3>1. Talking(q) /\ p = q
      BY <1>4, <2>1 DEF Conversation, Talking
    <3>2. e = g
      BY <1>2, <1>4, <2>1
    <3>3. QED
      BY <1>3, <3>1, <3>2
  <2>2. CASE Caller[p] # n
    BY <1>2, <1>4, <2>2, NodeAssumption
  <2>3. QED
    BY <2>1, <2>2
<1>5. QED
  BY <1>4, ContentKept

\* A device has collected its interfaces, which are as many as it says.
LEMMA AllCollected ==
    ASSUME TypeInv, Content, Counted, NEW n \in Node, NEW c \in Seq(Interfaces),
           Encoded(collected_interfaces[n], c, interfaces[n])
    PROVE  LET num == Low(Cardinality(interfaces[n]))
           IN  \A i \in interfaces[n] : \E k \in 1 .. num : c[k] = i
<1> DEFINE S == interfaces[n]
<1>1. S \in SUBSET Interfaces /\ S \subseteq Offered(n)
      /\ \A i, j \in S : i.port = j.port => i = j
  BY DEF TypeInv, DistinctPorts, Content, Encoders
<1>2. IsInjective(collected_interfaces[n]) /\ Range(collected_interfaces[n]) \subseteq S
  BY DEF Content, Encoders
<1>3. Range(c) = S /\ IsInjective(c)
  BY <1>2 DEF Encoded
<1> HIDE DEF S
<1>4. Cardinality(S) \in Digit
  BY <1>1, FewInterfaces
<1>5. Low(Cardinality(S)) = Cardinality(S)
  BY <1>4, LowFacts
<1>6. Cardinality(Range(c)) = Len(c) /\ DOMAIN c = 1 .. Len(c)
  BY <1>3, RangeSize, LenProperties
<1>7. QED
  BY <1>3, <1>5, <1>6 DEF Range, S

LEMMA ContentQueryDevice ==
    ASSUME Counted, TypeInv, Conversation, Content, NEW f \in DOMAIN bus,
           UNCHANGED <<query, interfaces>>,
           f.data.op = "QueryDevice", HandleQueryDevice(f.to, f)
    PROVE  Content'
<1> DEFINE n == f.to
           c == collected_interfaces[n]
           c2 == collected_interfaces'[n]
           s == collected_strings[n]
           s2 == collected_strings'[n]
           k == Cardinality(interfaces[n])
           S == Strings
<1>1. PICK q \in Query :
          /\ ~Over(query[q]) /\ Running(query[q])
          /\ Caller[q] \in Node /\ n \in Node \ {Caller[q]} /\ query[q].dev = n
          /\ GetSource(f.id) = Addr[Caller[q]]
          /\ Talk(Caller[q]) = {f} /\ bus[f] = 1
          /\ f.data = Request(query[q]) /\ Numbers(query[q])
  BY Asked DEF Queries
<1>2. PICK args : args = <<Low(k), Index(s2, Creator[n]), Index(s2, Name[n])>>
  OBVIOUS
<1>3. /\ c2 \in Seq(Interfaces) /\ s2 \in Seq(S)
      /\ Encoded(c, c2, interfaces[n]) /\ Encoded(s, s2, {Creator[n], Name[n]})
      /\ \A m \in Node \ {n} : /\ collected_interfaces'[m] = collected_interfaces[m]
                               /\ collected_strings'[m] = collected_strings[m]
      /\ Replied(n, f, Message("Device", args))
  BY <1>2, DeviceTold
<1>4. query[q].at = "Device"
  BY <1>1, RequestOf DEF Running
<1>5. {Creator[n], Name[n]} \subseteq Texts(n)
  BY DEF Texts
<1>6. Encoders(n)'
  BY <1>1, <1>3, <1>5, EncodersKept
<1>7. Grown
  BY <1>1, <1>3, <1>6, GrownAt DEF Encoded
<1>8. s2[Index(s2, Creator[n]) + 1] = Creator[n] /\ s2[Index(s2, Name[n]) + 1] = Name[n]
  <2>1. Creator[n] \in Range(s2) /\ Name[n] \in Range(s2)
    BY <1>3 DEF Encoded
  <2>2. IsInjective(s2) /\ Range(s2) \subseteq Texts(n)
    BY <1>6 DEF Encoders
  <2> HIDE DEF s2
  <2>3. Len(s2) <= Width
    BY <1>1, <1>3, <2>2, FewStrings
  <2> HIDE DEF S
  <2>4. QED
    BY <1>3, <2>1, <2>3, Numbered
<1>9. \A i \in interfaces[n] : \E j \in 1 .. Low(k) : c2[j] = i
  BY <1>1, <1>3, AllCollected
<1>10. PICK co : co = query[q]
  OBVIOUS
<1>11. co.at = "Device" /\ co.dev = n /\ co.known \subseteq interfaces[n]
  BY <1>1, <1>4, <1>10 DEF Content, Informed, Right, Faithful
<1>12. Tells(co, args)'
  <2>1. args[1] = Low(k) /\ args[2] = Index(s2, Creator[n]) /\ args[3] = Index(s2, Name[n])
    BY <1>2
  <2> HIDE DEF k
  <2>2. Covered(n, args[1], co.known)'
    BY <1>9, <1>11, <2>1 DEF Covered
  <2>3. Text(n, args[2])' = Creator[n] /\ Text(n, args[3])' = Name[n]
    BY <1>8, <2>1 DEF Text
  <2> HIDE DEF n, s2
  <2>4. QED
    BY <1>11, <2>2, <2>3 DEF Tells
<1>13. Message("Device", args).op = Awaited(query[q]) /\ Message("Device", args).args = args
  BY <1>4 DEF Awaited, Message
<1> DEFINE data == Message("Device", args)
<1>14. data.op = Awaited(query[q]) /\ Replied(n, f, data) /\ Tells(query[q], data.args)'
  BY <1>3, <1>10, <1>12, <1>13
<1>15. f.data.op \in Queries
  BY DEF Queries
<1> HIDE DEF data
<1>16. QED
  BY <1>1, <1>7, <1>14, <1>15, ContentAnswered

LEMMA ContentQueryInterface ==
    ASSUME Counted, TypeInv, Conversation, Content, NEW f \in DOMAIN bus,
           UNCHANGED <<query, interfaces>>,
           f.data.op = "QueryInterface", HandleQueryInterface(f.to, f)
    PROVE  Content'
<1> DEFINE n == f.to
           c == collected_interfaces[n]
           s == collected_strings[n]
           s2 == collected_strings'[n]
           index == f.data.args[1]
           intf == c[index + 1]
           S == Strings
<1>1. PICK q \in Query :
          /\ ~Over(query[q]) /\ Running(query[q])
          /\ Caller[q] \in Node /\ n \in Node \ {Caller[q]} /\ query[q].dev = n
          /\ GetSource(f.id) = Addr[Caller[q]]
          /\ Talk(Caller[q]) = {f} /\ bus[f] = 1
          /\ f.data = Request(query[q]) /\ Numbers(query[q])
  BY Asked DEF Queries
<1>2. PICK args : args = <<index, intf.port, intf.id, Index(s2, intf.name)>>
  OBVIOUS
<1>3. query[q].at = "Interface" /\ index = query[q].index
  BY <1>1, RequestOf DEF Running
<1>4. /\ index + 1 \in 1 .. Len(c) /\ index < Len(c)
  <2> DEFINE k == query[q].index
  <2>1. Known(query[q]) /\ k < query[q].num /\ query[q] \in Coroutines
    BY <1>1, <1>3 DEF Running, Looping, Numbers
  <2>2. k \in Nat
    BY <2>1, CoroutineFields, LowFacts DEF Digit
  <2> HIDE DEF k
  <2>3. k + 1 \in 1 .. Len(collected_interfaces[query[q].dev])
    BY <2>1, <2>2, CollectedOne
  <2>4. collected_interfaces[query[q].dev] \in Seq(Interfaces)
    BY <1>1 DEF TypeInv
  <2>5. Len(collected_interfaces[query[q].dev]) \in Nat
    BY <2>4, LenProperties
  <2>6. k < Len(collected_interfaces[query[q].dev])
    BY <2>2, <2>3, <2>5
  <2>7. QED
    BY <1>1, <1>3, <2>3, <2>6 DEF k
<1>5. /\ UNCHANGED collected_interfaces
      /\ s2 \in Seq(S) /\ Encoded(s, s2, {intf.name})
      /\ \A m \in Node \ {n} : collected_strings'[m] = collected_strings[m]
      /\ Replied(n, f, Message("Interface", args))
  BY <1>2, <1>4, InterfaceTold
<1>6. intf \in interfaces[n] /\ intf.name \in Texts(n)
  <2>1. intf \in Range(c)
    <3>1. c \in Seq(Interfaces)
      BY <1>1 DEF TypeInv
    <3> HIDE DEF c, index
    <3>2. DOMAIN c = 1 .. Len(c)
      BY <3>1, LenProperties
    <3>3. QED
      BY <1>4, <3>2 DEF Range
  <2>2. Range(c) \subseteq interfaces[n] /\ interfaces[n] \subseteq Offered(n)
    BY <1>1 DEF Content, Encoders
  <2>3. QED
    BY <2>1, <2>2 DEF Texts
<1> HIDE DEF index, intf
<1>7. Extends(c, c) /\ Encoded(c, c, {})
  <2>1. c \in Seq(Interfaces)
    BY <1>1 DEF TypeInv
  <2> HIDE DEF c
  <2>2. Len(c) \in Nat
    BY <2>1, LenProperties
  <2>3. QED
    BY <2>2 DEF Encoded, Extends
<1>8. Encoders(n)'
  <2> DEFINE A == {}
             B == {intf.name}
  <2>1. A \subseteq interfaces[n] /\ B \subseteq Texts(n)
    BY <1>6
  <2>2. Encoded(collected_interfaces[n], collected_interfaces'[n], A)
        /\ Encoded(collected_strings[n], collected_strings'[n], B)
    BY <1>5, <1>7
  <2> HIDE DEF A, B, c
  <2>3. QED
    BY <1>1, <2>1, <2>2, EncodersKept
<1>9. Grown
  <2>1. Extends(collected_interfaces[n], collected_interfaces'[n])
        /\ Extends(collected_strings[n], collected_strings'[n])
    BY <1>5, <1>7 DEF Encoded
  <2>2. \A m \in Node \ {n} : /\ collected_interfaces'[m] = collected_interfaces[m]
                              /\ collected_strings'[m] = collected_strings[m]
    BY <1>5
  <2>3. QED
    BY <1>1, <1>8, <2>1, <2>2, GrownAt
<1>10. s2[Index(s2, intf.name) + 1] = intf.name
  <2>1. intf.name \in Range(s2)
    BY <1>5 DEF Encoded
  <2>2. IsInjective(s2) /\ Range(s2) \subseteq Texts(n)
    BY <1>8 DEF Encoders
  <2> HIDE DEF s2
  <2>3. Len(s2) <= Width
    BY <1>1, <1>5, <2>2, FewStrings
  <2> DEFINE name == intf.name
  <2> HIDE DEF S, name
  <2>4. s2[Index(s2, name) + 1] = name
    BY <1>5, <2>1, <2>3, Numbered DEF name
  <2>5. QED
    BY <2>4 DEF name
<1>11. PICK co : co = query[q]
  OBVIOUS
<1>12. Tells(co, args)'
  <2>1. co.at = "Interface" /\ co.dev = n /\ co.index = index
    BY <1>1, <1>3, <1>11
  <2>2. collected_interfaces'[n][co.index + 1] = intf
    BY <1>5, <2>1 DEF intf
  <2>3. args[2] = intf.port /\ args[3] = intf.id /\ args[4] = Index(s2, intf.name)
    BY <1>2
  <2>4. Text(n, args[4])' = intf.name
    BY <1>10, <2>3 DEF Text
  <2> HIDE DEF n, s2
  <2>5. QED
    BY <2>1, <2>2, <2>3, <2>4 DEF Tells
<1>13. Message("Interface", args).op = Awaited(query[q])
       /\ Message("Interface", args).args = args
  BY <1>3 DEF Awaited, Message
<1> DEFINE data == Message("Interface", args)
<1>14. data.op = Awaited(query[q]) /\ Replied(n, f, data) /\ Tells(query[q], data.args)'
  BY <1>5, <1>11, <1>12, <1>13
<1>15. f.data.op \in Queries
  BY DEF Queries
<1> HIDE DEF data
<1>16. QED
  BY <1>1, <1>9, <1>14, <1>15, ContentAnswered

\* The number of a chunk of a short string fits into a byte, and is not 0.
LEMMA ChunkNumber ==
    ASSUME Short, NEW n \in Node, NEW text \in Texts(n), NEW k \in Nat,
           Len(text) \in Nat, k * Chunk < Len(text)
    PROVE  Low(k + 1) = k + 1 /\ k + 1 # 0
<1>1. Len(text) <= (Width - 1) * Chunk
  BY DEF Short
<1>2. Width \in Nat /\ Width >= 2 /\ Chunk \in Nat \ {0} /\ k * Chunk \in Nat
  BY LowFacts, Chunks
<1>3. k * Chunk < (Width - 1) * Chunk
  <2> DEFINE a == k * Chunk
             b == (Width - 1) * Chunk
  <2>1. a \in Nat /\ a < Len(text) /\ Len(text) <= b /\ b \in Int
    BY <1>1, <1>2
  <2> HIDE DEF a, b
  <2>2. a < b
    BY <2>1
  <2>3. QED
    BY <2>2 DEF a, b
<1>4. k < Width - 1
  <2> SUFFICES ASSUME ~(k < Width - 1) PROVE FALSE
    OBVIOUS
  <2> DEFINE y == k - (Width - 1)
  <2>1. y \in Nat /\ k = (Width - 1) + y
    BY <1>2
  <2> HIDE DEF y
  <2>2. ((Width - 1) + y) * Chunk = (Width - 1) * Chunk + y * Chunk /\ y * Chunk \in Nat
    BY <1>2, <2>1
  <2>3. k * Chunk = (Width - 1) * Chunk + y * Chunk
    BY <2>1, <2>2
  <2> DEFINE a == k * Chunk
             b == (Width - 1) * Chunk
             d == y * Chunk
  <2>4. a \in Nat /\ b \in Int /\ d \in Nat /\ a = b + d /\ a < b
    BY <1>2, <1>3, <2>2, <2>3
  <2> HIDE DEF a, b, d
  <2>5. QED
    BY <2>4
<1>5. k + 1 \in Digit
  BY <1>2, <1>4 DEF Digit
<1>6. QED
  BY <1>5, LowFacts

LEMMA ContentQueryString ==
    ASSUME Short, TypeInv, Conversation, Content, NEW f \in DOMAIN bus,
           UNCHANGED <<query, interfaces>>,
           f.data.op = "QueryString", HandleQueryString(f.to, f)
    PROVE  Content'
<1> DEFINE n == f.to
           id == f.data.args[1]
           index == f.data.args[2]
           str == collected_strings[n][id + 1]
           bytes == IF index = 0 THEN LengthBytes[Len(str)] ELSE Piece(str, index)
           data == Message("StringResponse", <<id, index>> \o bytes)
<1>1. PICK q \in Query :
          /\ ~Over(query[q]) /\ Running(query[q])
          /\ Caller[q] \in Node /\ n \in Node \ {Caller[q]} /\ query[q].dev = n
          /\ GetSource(f.id) = Addr[Caller[q]]
          /\ Talk(Caller[q]) = {f} /\ bus[f] = 1
          /\ f.data = Request(query[q]) /\ Numbers(query[q])
  BY Asked DEF Queries
<1>2. PICK co : co = query[q]
  OBVIOUS
<1>3. /\ co \in Coroutines /\ co.at \in {"Length", "Chunk"} /\ id = co.str
      /\ co.at = "Length" => index = 0
      /\ co.at = "Chunk" => index = Low(co.chunk + 1)
      /\ co.dev = n /\ co.str \in Nat /\ co.chunk \in Nat
      /\ Faithful(co)
  <2>1. query[q] \in Coroutines
    BY <1>1 DEF Running
  <2>2. query[q].str \in Nat /\ query[q].chunk \in Nat
    BY <2>1, CoroutineFields, LowFacts DEF Digit
  <2>3. /\ query[q].at \in {"Length", "Chunk"} /\ id = query[q].str
        /\ query[q].at = "Length" => index = 0
        /\ query[q].at = "Chunk" => index = Low(query[q].chunk + 1)
    BY <1>1, <2>1, RequestOf
  <2>4. Faithful(query[q])
    BY <2>3 DEF Content, Informed, Right
  <2>5. QED
    BY <1>1, <1>2, <2>1, <2>2, <2>3, <2>4
<1>4. id < Len(collected_strings[n])
  BY <1>1, <1>2, <1>3 DEF Numbers
<1>5. /\ UNCHANGED <<collected_interfaces, collected_strings>>
      /\ id \in Digit /\ index \in Digit
      /\ str \in Strings /\ bytes \in Strings
      /\ Replied(n, f, data)
  BY <1>4, StringTold
<1>6. str = Text(n, co.str) /\ str \in Texts(n) /\ Len(str) \in Nat
  <2>1. str = Text(n, co.str)
    BY <1>3 DEF Text
  <2>2. Text(n, co.str) \in Range(collected_strings[n]) /\ Len(Text(n, co.str)) \in Nat
    BY <1>1, <1>3, <1>4, TextTypes
  <2>3. QED
    BY <1>1, <2>1, <2>2 DEF Content, Encoders
<1>7. /\ co.at = "Length" => bytes = LengthBytes[Len(str)]
      /\ co.at = "Chunk" => bytes = Piece(str, co.chunk + 1)
  <2>1. co.at = "Chunk" => index = co.chunk + 1 /\ index # 0
    <3> SUFFICES ASSUME co.at = "Chunk" PROVE index = co.chunk + 1 /\ index # 0
      OBVIOUS
    <3>1. co.chunk * Chunk < Len(str)
      BY <1>3, <1>6 DEF Faithful
    <3> HIDE DEF str
    <3>2. Low(co.chunk + 1) = co.chunk + 1 /\ co.chunk + 1 # 0
      BY <1>1, <1>3, <1>6, <3>1, ChunkNumber
    <3>3. QED
      BY <1>3, <3>2
  <2>2. QED
    BY <1>3, <2>1
<1> HIDE DEF id, index, bytes, str
<1>8. PICK args : args = <<id, index>> \o bytes
  OBVIOUS
<1>9. SubSeq(args, 3, Len(args)) = bytes
  BY <1>5, <1>8, BytesBehind
<1>10. Text(n, co.str)' = str
  BY <1>5, <1>6 DEF Text
<1>11. Tells(co, args)'
  <2> HIDE DEF n
  <2>1. QED
    BY <1>3, <1>7, <1>9, <1>10 DEF Tells
<1> DEFINE reply == Message("StringResponse", args)
<1>12. reply.op = Awaited(query[q]) /\ reply.args = args /\ Replied(n, f, reply)
  BY <1>2, <1>3, <1>5, <1>8 DEF Awaited, Message
<1>13. Grown
  <2>1. \A m \in Node : /\ Extends(collected_interfaces[m], collected_interfaces[m])
                        /\ Extends(collected_strings[m], collected_strings[m])
    <3>1. \A m \in Node : Len(collected_interfaces[m]) \in Nat /\ Len(collected_strings[m]) \in Nat
      BY LenProperties DEF TypeInv
    <3>2. QED
      BY <3>1 DEF Extends
  <2>2. \A m \in Node : Encoders(m)'
    BY <1>5 DEF Content, Encoders
  <2>3. QED
    BY <1>5, <2>1, <2>2 DEF Grown
<1>14. Tells(query[q], reply.args)'
  BY <1>2, <1>11, <1>12
<1>15. f.data.op \in Queries
  BY DEF Queries
<1> HIDE DEF reply
<1>16. QED
  BY <1>1, <1>12, <1>13, <1>14, <1>15, ContentAnswered

LEMMA ContentRxAsync ==
    ASSUME Short, Counted, TypeInv, Conversation, Content, NEW f \in DOMAIN bus,
           UNCHANGED interfaces, HandleRxAsync(f.to, f)
    PROVE  Content'
<1>1. UNCHANGED <<query, wait_queue>> /\ Notified(wait_queue[f.to], f.data.op) = {}
  BY DEF HandleRxAsync
<1>2. \/ f.data.op = "QueryDevice" /\ HandleQueryDevice(f.to, f)
      \/ f.data.op = "QueryInterface" /\ HandleQueryInterface(f.to, f)
      \/ f.data.op = "QueryString" /\ HandleQueryString(f.to, f)
      \/ /\ \/ f.data.op = "FindInterface" /\ HandleFindInterface(f.to, f)
            \/ f.data.op \notin Requests /\ HandleOther(f.to, f)
         /\ UNCHANGED <<collected_interfaces, collected_strings>>
  BY DEF HandleRxAsync
<1>3. CASE f.data.op = "QueryDevice" /\ HandleQueryDevice(f.to, f)
  BY <1>1, <1>3, ContentQueryDevice
<1>4. CASE f.data.op = "QueryInterface" /\ HandleQueryInterface(f.to, f)
  BY <1>1, <1>4, ContentQueryInterface
<1>5. CASE f.data.op = "QueryString" /\ HandleQueryString(f.to, f)
  BY <1>1, <1>5, ContentQueryString
<1>6. CASE /\ \/ f.data.op = "FindInterface" /\ HandleFindInterface(f.to, f)
              \/ f.data.op \notin Requests /\ HandleOther(f.to, f)
           /\ UNCHANGED <<collected_interfaces, collected_strings>>
  <2>1. f.data.op \in Replies \cup SearchOps
    BY <1>6 DEF TypeInv, Wire, Messages, SearchOps
  <2>2. f.data.op \notin Replies
    BY <1>1, ReplyAwaited
  <2>3. \A m \in Node : Talk(m)' = Talk(m)
    BY <1>1, <1>6, <2>1, <2>2, TalkSearch
  <2>4. \A m \in Node : interfaces[m] \subseteq interfaces'[m]
                        /\ interfaces'[m] \subseteq Offered(m)
    BY DEF Content, Encoders
  <2>5. QED
    BY <1>1, <1>6, <2>3, <2>4, ContentUnmoved
<1>7. QED
  BY <1>2, <1>3, <1>4, <1>5, <1>6

LEMMA ContentAwaited ==
    ASSUME TypeInv, Conversation, Content, NEW f \in DOMAIN bus,
           UNCHANGED interfaces, HandleAwaited(f.to, f)
    PROVE  Content'
<1>1. PICK q \in Query :
          /\ Caller[q] = f.to /\ f \in Talk(f.to)
          /\ ~Over(query[q]) /\ Running(query[q])
          /\ f.data \in Messages /\ f.data.op = Awaited(query[q])
          /\ Numbers(query[q]) /\ NumbersIn(query[q], f.data.args)
          /\ GoneOn(q, After(query[q], f.data.args))
  BY TalkAwaited
<1>2. PICK co : co = query[q]
  OBVIOUS
<1>3. PICK d : d = f.data
  OBVIOUS
<1>4. Right(co) /\ Tells(co, d.args)
  BY <1>1, <1>2, <1>3 DEF Content, Informed, Over
<1>5. Encoders(co.dev)
  BY <1>1, <1>2, CoroutineFields DEF Content, Running
<1>6. Right(After(co, d.args))
  BY <1>1, <1>2, <1>3, <1>4, <1>5, AfterRight DEF Right
<1>7. UNCHANGED <<collected_interfaces, collected_strings>>
  BY DEF HandleAwaited
<1>8. PICK e : e = After(co, d.args)
  OBVIOUS
<1>9. Right(e) /\ GoneOn(q, e)
  BY <1>1, <1>2, <1>3, <1>6, <1>8
<1>10. QED
  BY <1>7, <1>9, ContentProceeds

LEMMA ContentStart ==
    ASSUME TypeInv, Conversation, Content, ~Concurrent,
           NEW q \in Query, NEW dev \in Node, StartQuery(q, dev)
    PROVE  Content'
<1>1. PICK e : e = Asking(dev)
  OBVIOUS
<1>2. GoneOn(q, e)
  BY <1>1, TalkStart
<1>3. /\ e.at = "Device" /\ e.dev = dev /\ e.known = interfaces[dev]
      /\ e.interfaces = <<>> /\ e.index = 0
  BY <1>1 DEF Asking
<1>4. Right(e)
  BY <1>3 DEF Right, Faithful
<1>5. UNCHANGED <<interfaces, collected_interfaces, collected_strings>>
  BY DEF StartQuery
<1>6. QED
  BY <1>2, <1>4, <1>5, ContentProceeds

LEMMA ContentAdd ==
    ASSUME TypeInv, Conversation, Content, NEW l \in Later, AddInterface(l[1], l[2])
    PROVE  Content'
<1>1. /\ interfaces' = [interfaces EXCEPT ![l[1]] = @ \cup {l[2]}]
      /\ UNCHANGED <<query, wait_queue, collected_interfaces, collected_strings, bus>>
  BY DEF AddInterface
<1>2. ASSUME NEW n \in Node
      PROVE  interfaces[n] \subseteq interfaces'[n] /\ interfaces'[n] \subseteq Offered(n)
  <2>1. interfaces[n] \subseteq Offered(n)
    BY DEF Content, Encoders
  <2>2. interfaces'[n] = IF n = l[1] THEN interfaces[n] \cup {l[2]} ELSE interfaces[n]
    BY <1>1 DEF TypeInv
  <2>3. n = l[1] => l[2] \in Offered(n)
    BY DEF Offered
  <2>4. QED
    BY <2>1, <2>2, <2>3
<1>3. \A m \in Node : Talk(m)' = Talk(m)
  BY <1>1, TalkUnmoved
<1>4. QED
  BY <1>1, <1>2, <1>3, ContentUnmoved

\* A step that says nothing of a query and adds no interface.
LEMMA ContentElsewhere ==
    ASSUME TypeInv, Conversation, Content,
           UNCHANGED <<query, interfaces, collected_interfaces, collected_strings>>,
           \A m \in Node : Talk(m)' = Talk(m)
    PROVE  Content'
<1>1. \A m \in Node : interfaces[m] \subseteq interfaces'[m]
                      /\ interfaces'[m] \subseteq Offered(m)
  BY DEF Content, Encoders
<1>2. QED
  BY <1>1, ContentUnmoved

LEMMA ContentInit == Init => Content
<1> SUFFICES ASSUME Init PROVE Content
  OBVIOUS
<1>1. ASSUME NEW n \in Node PROVE Encoders(n)
  <2>1. /\ interfaces[n] = Initial[n]
        /\ collected_interfaces[n] = <<>> /\ collected_strings[n] = <<>>
    BY DEF Init
  <2>2. IsInjective(<<>>) /\ Range(<<>>) = {}
    BY DEF IsInjective, Range
  <2>3. QED
    BY <2>1, <2>2 DEF Encoders, Offered
<1>2. \A q \in Query : Informed(q)
  BY DEF Init, Informed, Unasked
<1>3. QED
  BY <1>1, <1>2 DEF Content

LEMMA ContentNext ==
    ASSUME ~Concurrent, Short, Counted
    PROVE  TypeInv /\ Conversation /\ Content /\ [Next]_vars => Content'
<1> SUFFICES ASSUME TypeInv, Conversation, Content, [Next]_vars PROVE Content'
  OBVIOUS
<1>1. ASSUME NEW q \in Query, NEW dev \in Node, StartQuery(q, dev) PROVE Content'
  BY <1>1, ContentStart
<1>2. ASSUME NEW n \in Searching, FindInterface(n) PROVE Content'
  <2>1. \A m \in Node : Talk(m)' = Talk(m)
    BY <1>2, TalkFind, NodeAssumption
  <2>2. QED
    BY <1>2, <2>1, ContentElsewhere DEF FindInterface
<1>3. ASSUME NEW n \in Searching, WakeUp(n) PROVE Content'
  <2>1. \A m \in Node : Talk(m)' = Talk(m)
    BY <1>3, TalkUnmoved DEF WakeUp
  <2>2. QED
    BY <1>3, <2>1, ContentElsewhere DEF WakeUp
<1>4. ASSUME NEW l \in Later, AddInterface(l[1], l[2]) PROVE Content'
  BY <1>4, ContentAdd
<1>5. ASSUME NEW f \in BagToSet(bus), Deliver(f) PROVE Content'
  <2>1. f \in DOMAIN bus
    BY DEF BagToSet
  <2>2. QED
    BY <1>5, <2>1, ContentAwaited, ContentRxAsync DEF Deliver
<1>6. CASE UNCHANGED vars
  <2>1. \A m \in Node : Talk(m)' = Talk(m)
    BY <1>6, TalkUnmoved DEF vars
  <2>2. QED
    BY <1>6, <2>1, ContentElsewhere DEF vars
<1>7. QED
  BY <1>1, <1>2, <1>3, <1>4, <1>5, <1>6 DEF Next

LEMMA ContentAlways ==
    ASSUME ~Concurrent, Short, Counted
    PROVE  Spec => []Content
<1>1. Spec => []TypeInv
  BY TypeAlways
<1>2. Spec => []Conversation
  BY TalkAlways
<1>3. TypeInv /\ Conversation /\ Content /\ [Next]_vars => Content'
  BY ContentNext
<1>4. QED
  BY <1>1, <1>2, <1>3, ContentInit, PTL DEF Spec

\* Where a node awaits one call before it makes the next, no call reads or
\* writes out of bounds: every reply it is told is the one it waits for, and
\* every chunk lies within the string it belongs to.
THEOREM NeverUndefinedCorrect ==
    ASSUME ~Concurrent, Short, Counted
    PROVE  Spec => []NeverUndefined
<1>1. Content => NeverUndefined
  <2> SUFFICES ASSUME Content, NEW q \in Query PROVE query[q].at # "undefined"
    BY DEF NeverUndefined
  <2>1. query[q].at # "idle" => query[q].at # "undefined"
    BY DEF Content, Informed, Right
  <2>2. QED
    BY <2>1
<1>2. QED
  BY <1>1, ContentAlways, PTL

\* ... and what it returns describes the device it was sent to: who made it,
\* its name and the interfaces it has.
THEOREM AnswersCorrect ==
    ASSUME ~Concurrent, Short, Counted
    PROVE  Spec => []AnswersOfDevice
<1>1. Content => AnswersOfDevice
  BY DEF Content, Informed, Right, Faithful, Complete, AnswersOfDevice
<1>2. QED
  BY <1>1, ContentAlways, PTL

\* The variables of the directory.
Questions == [q \in Query |->
                 IF query[q].at = "idle" THEN {}
                 ELSE {[dev |-> query[q].dev, known |-> query[q].known]}]
Answers == [q \in Query |->
               IF query[q].at # "done" THEN {}
               ELSE {[creator |-> query[q].creator, name |-> query[q].name,
                      interfaces |-> query[q].interfaces]}]

LEMMA SameSizes == \A S : Directory!Cardinality(S) = Cardinality(S)
  BY DEF Directory!Cardinality, Cardinality

\* A complete answer lists a set of interfaces, each once.
LEMMA Listing ==
    ASSUME NEW S, NEW s \in Seq(S), IsInjective(s)
    PROVE  s \in Directory!SetToSeqs(Range(s))
<1>1. DOMAIN s = 1 .. Len(s) /\ Cardinality(Range(s)) = Len(s) /\ Len(s) \in Nat
  BY RangeSize, LenProperties
<1>2. s \in [1 .. Len(s) -> Range(s)]
  BY <1>1 DEF Range
<1>3. \A i, j \in 1 .. Len(s) : i # j => s[i] # s[j]
  BY <1>1 DEF IsInjective
<1> DEFINE T == Range(s)
<1>4. Directory!Cardinality(T) = Len(s)
  BY <1>1, SameSizes
<1> HIDE DEF T
<1>5. s \in Directory!SetToSeqs(T)
  BY <1>2, <1>3, <1>4 DEF Directory!SetToSeqs, T
<1>6. QED
  BY <1>5 DEF T

LEMMA DirectoryInit == Init => Directory!Init
<1> SUFFICES ASSUME Init PROVE Directory!Init
  OBVIOUS
<1>1. interfaces = Initial /\ \A q \in Query : query[q] = Unasked
  BY DEF Init
<1>2. Questions = [q \in Query |-> {}] /\ Answers = [q \in Query |-> {}]
  BY <1>1 DEF Questions, Answers, Unasked
<1>3. QED
  BY <1>1, <1>2 DEF Directory!Init, Questions, Answers

LEMMA DirectoryAsk ==
    ASSUME TypeInv, NEW q \in Query, NEW dev \in Node, StartQuery(q, dev),
           GoneOn(q, Asking(dev))
    PROVE  Directory!Ask(q, dev)
<1>1. /\ query[q].at = "idle" /\ dev \in Targets[q] /\ UNCHANGED interfaces
      /\ query' = [query EXCEPT ![q] = Asking(dev)]
  BY DEF StartQuery, GoneOn
<1> DEFINE question == [dev |-> dev, known |-> interfaces[dev]]
<1>2. query'[q] = Asking(dev) /\ \A p \in Query \ {q} : query'[p] = query[p]
  BY <1>1 DEF TypeInv
<1>3. /\ query'[q].at = "Device" /\ query'[q].dev = dev
      /\ query'[q].known = interfaces[dev]
  BY <1>2 DEF Asking
<1>4. Questions[q] = {}
  BY <1>1 DEF Questions
<1>5. Questions' = [Questions EXCEPT ![q] = {question}]
  BY <1>2, <1>3 DEF Questions
<1>6. Answers' = Answers
  BY <1>1, <1>2, <1>3 DEF Answers
<1>7. QED
  BY <1>1, <1>4, <1>5, <1>6 DEF Directory!Ask, Questions, Answers

\* The step in which a query ends answers it; no other step does.
LEMMA DirectoryAnswer ==
    ASSUME TypeInv, NEW q \in Query, NEW co, co \in Coroutines, Right(co),
           ~Over(query[q]), co.dev = query[q].dev, co.known = query[q].known,
           GoneOn(q, co), UNCHANGED interfaces
    PROVE  Directory!Answer(q) \/ UNCHANGED Directory!vars
<1>1. query'[q] = co /\ \A p \in Query \ {q} : query'[p] = query[p]
  BY DEF TypeInv, GoneOn
<1>2. query[q].at # "idle" /\ query[q].at # "done"
  BY DEF Over
<1>3. co.at # "idle"
  BY CoroutineFields
<1> DEFINE question == [dev |-> co.dev, known |-> co.known]
           reply == [creator |-> co.creator, name |-> co.name, interfaces |-> co.interfaces]
<1>4. Questions' = Questions
  BY <1>1, <1>2, <1>3 DEF Questions
<1>5. Questions[q] = {question} /\ Answers[q] = {}
  BY <1>2 DEF Questions, Answers
<1>6. CASE co.at # "done"
  <2>1. Answers' = Answers
    BY <1>1, <1>2, <1>6 DEF Answers
  <2>2. QED
    BY <1>4, <2>1 DEF Directory!vars, Questions, Answers
<1>7. CASE co.at = "done"
  <2>1. Complete(co)
    BY <1>7 DEF Right, Faithful
  <2>2. co.interfaces \in Seq(Interfaces) /\ IsInjective(co.interfaces)
    BY <2>1, CoroutineFields DEF Complete
  <2>3. co.interfaces \in Directory!SetToSeqs(Range(co.interfaces))
    BY <2>2, Listing
  <2>4. Answers' = [Answers EXCEPT ![q] = {reply}]
    BY <1>1, <1>7 DEF Answers
  <2>5. reply = [creator |-> Creator[question.dev], name |-> Name[question.dev],
                 interfaces |-> co.interfaces]
    BY <2>1 DEF Complete
  <2>6. question.known \subseteq Range(co.interfaces)
        /\ Range(co.interfaces) \in SUBSET interfaces[question.dev]
    BY <2>1 DEF Complete
  <2> HIDE DEF question, reply
  <2>7. \E asking \in Questions[q] :
        \E held \in SUBSET interfaces[asking.dev] : \E listed \in Directory!SetToSeqs(held) :
           /\ asking.known \subseteq held
           /\ Answers' = [Answers EXCEPT ![q] =
                  {[creator |-> Creator[asking.dev], name |-> Name[asking.dev],
                    interfaces |-> listed]}]
    <3>1. question \in Questions[q]
      BY <1>5
    <3>2. Answers' = [Answers EXCEPT ![q] =
             {[creator |-> Creator[question.dev], name |-> Name[question.dev],
               interfaces |-> co.interfaces]}]
      BY <2>4, <2>5
    <3>3. QED
      BY <2>3, <2>6, <3>1, <3>2
  <2>8. Directory!Answer(q)
    BY <1>4, <1>5, <2>7 DEF Directory!Answer, Questions, Answers
  <2>9. QED
    BY <2>8
<1>8. QED
  BY <1>6, <1>7

LEMMA DirectoryAwaited ==
    ASSUME TypeInv, Conversation, Content, NEW f \in DOMAIN bus,
           UNCHANGED interfaces, HandleAwaited(f.to, f)
    PROVE  (\E q \in Query : Directory!Answer(q)) \/ UNCHANGED Directory!vars
<1>1. PICK q \in Query :
          /\ Caller[q] = f.to /\ f \in Talk(f.to)
          /\ ~Over(query[q]) /\ Running(query[q])
          /\ f.data \in Messages /\ f.data.op = Awaited(query[q])
          /\ Numbers(query[q]) /\ NumbersIn(query[q], f.data.args)
          /\ GoneOn(q, After(query[q], f.data.args))
  BY TalkAwaited
<1>2. PICK co : co = After(query[q], f.data.args)
  OBVIOUS
<1>3. co \in Coroutines /\ co.dev = query[q].dev /\ co.known = query[q].known
  BY <1>1, <1>2, AfterTypes, AfterNumbers DEF Running
<1>4. Right(co)
  <2>1. Encoders(query[q].dev) /\ Right(query[q]) /\ Tells(query[q], f.data.args)
    BY <1>1, CoroutineFields DEF Content, Informed, Running, Over
  <2>2. QED
    BY <1>1, <1>2, <2>1, AfterRight DEF Right
<1>5. QED
  BY <1>1, <1>2, <1>3, <1>4, DirectoryAnswer

LEMMA DirectoryAdd ==
    ASSUME NEW l \in Later, AddInterface(l[1], l[2])
    PROVE  l[1] \in Node /\ Directory!AddInterface(l[1], l[2])
<1>1. l[1] \in Node
  BY DataAssumption
<1>2. QED
  BY <1>1 DEF AddInterface, Directory!AddInterface

LEMMA DirectoryNext ==
    ASSUME ~Concurrent, Short, Counted
    PROVE  TypeInv /\ Conversation /\ Content /\ [Next]_vars => [Directory!Next]_(Directory!vars)
<1> SUFFICES ASSUME TypeInv, Conversation, Content, [Next]_vars
             PROVE  Directory!Next \/ UNCHANGED Directory!vars
  OBVIOUS
<1>1. UNCHANGED <<query, interfaces>> => UNCHANGED Directory!vars
  BY DEF Directory!vars
<1>2. ASSUME NEW q \in Query, NEW dev \in Node, StartQuery(q, dev) PROVE Directory!Next
  BY <1>2, TalkStart, DirectoryAsk DEF Directory!Next
<1>3. ASSUME NEW n \in Searching, FindInterface(n) \/ WakeUp(n)
      PROVE  UNCHANGED Directory!vars
  BY <1>1, <1>3 DEF FindInterface, WakeUp
<1>4. ASSUME NEW l \in Later, AddInterface(l[1], l[2]) PROVE Directory!Next
  BY <1>4, DirectoryAdd DEF Directory!Next
<1>5. ASSUME NEW f \in BagToSet(bus), Deliver(f)
      PROVE  Directory!Next \/ UNCHANGED Directory!vars
  <2>1. f \in DOMAIN bus /\ UNCHANGED interfaces
    BY <1>5 DEF BagToSet, Deliver
  <2>2. CASE HandleAwaited(f.to, f)
    BY <2>1, <2>2, DirectoryAwaited DEF Directory!Next
  <2>3. CASE HandleRxAsync(f.to, f)
    BY <1>1, <2>1, <2>3 DEF HandleRxAsync
  <2>4. QED
    BY <1>5, <2>2, <2>3 DEF Deliver
<1>6. CASE UNCHANGED vars
  BY <1>1, <1>6 DEF vars
<1>7. QED
  BY <1>2, <1>3, <1>4, <1>5, <1>6 DEF Next

\* Every step of a query is a step of the directory or none: a query is asked
\* once, and answered once with what its device is and has, all it had when
\* the query began, each interface once.
THEOREM DirectoryImplemented ==
    ASSUME ~Concurrent, Short, Counted
    PROVE  Spec => Directory!Init /\ [][Directory!Next]_(Directory!vars)
<1>1. Spec => []TypeInv
  BY TypeAlways
<1>2. Spec => []Conversation
  BY TalkAlways
<1>3. Spec => []Content
  BY ContentAlways
<1>4. TypeInv /\ Conversation /\ Content /\ [Next]_vars => [Directory!Next]_(Directory!vars)
  BY DirectoryNext
<1>5. QED
  BY <1>1, <1>2, <1>3, <1>4, DirectoryInit, PTL DEF Spec
===============================================================================
