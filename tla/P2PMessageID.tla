------------------------------ MODULE P2PMessageID ------------------------------
(***************************************************************************)
(* The 29-bit CAN id of a frame between two interfaces                     *)
(* (network/message_id.hpp, network/p2p_message_id.hpp): 3 bits of kind,   *)
(* then the source, the destination and the port, a byte each.             *)
(***************************************************************************)
EXTENDS Integers

Byte == 0 .. 255

\* MessageKind::kRawP2P; 4 .. 7 are reserved.
kRawP2P == 1

\* P2PMessageID::FromParts: no two of the four parts share a bit.
FromParts(from, dest, id) ==
    16777216 * kRawP2P + 65536 * from + 256 * dest + id

GetKind(raw)        == (raw \div 16777216) % 8
GetSource(raw)      == (raw \div 65536) % 256
GetDestination(raw) == (raw \div 256) % 256
GetID(raw)          == raw % 256
===============================================================================
