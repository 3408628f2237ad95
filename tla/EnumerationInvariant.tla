------------------------- MODULE EnumerationInvariant -------------------------
(***************************************************************************)
(* The inductive invariant behind UniqueIds, when Root alone scans: every  *)
(* address handed out is carried by one frame or held by one device.       *)
(***************************************************************************)
EXTENDS Enumeration

Issued == 2 .. nextId[Root] - 1

Named(f) == f.op = "AssignID"

RootKept ==
    /\ state[Root] = "Initialized"
    /\ self[Root] = RootId
    /\ nextId[Root] >= 2

Devices ==
    \A n \in Node :
        /\ tag[n] \in {0} \cup Tags
        /\ n # Root => self[n] \in IF state[n] = "Initialized" THEN Issued ELSE {0}

\* Only Root is asked for an address, and only for a tag of one device.
Frames ==
    \A f \in bus :
        /\ f.op = "ScanUnenumerated" => f.src = RootId
        /\ f.op = "Advertise" => f.dst = RootId /\ f.src \in Tags \ {Broadcast}
        /\ Named(f) => f.dst \in Tags \ {Broadcast} /\ f.id \in Issued

\* An address on its way is on its way once, and nobody has it.
Fresh ==
    /\ \A f, g \in bus : Named(f) /\ Named(g) /\ f # g => f.id # g.id
    /\ \A f \in bus : Named(f) => \A n \in Node \ {Root} : self[n] # f.id

\* Why no two devices get one address (enumerate_interface.hpp:290-303).
IInv == RootKept /\ Devices /\ Frames /\ Fresh /\ UniqueIds
===============================================================================
