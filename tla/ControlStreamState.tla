-------------------------- MODULE ControlStreamState --------------------------
(***************************************************************************)
(* ControlStreamState (network/cstream.hpp): the arithmetic of a state     *)
(* code, scaled from 32 bits to 2 * HalfWidth.  A checksum has HalfWidth   *)
(* bits, as the 16-bit RD16 has half the width of the 32-bit code.         *)
(***************************************************************************)
EXTENDS Naturals, Bitwise

CONSTANT HalfWidth

ASSUME WidthAssumption == HalfWidth \in Nat \ {0}

Half == 2 ^ HalfWidth
StateCodes == 0 .. (Half * Half - 1)

\* MixCode: data_ = (data_ * code + code) ^ (data_ >> 16), wrapping.
Mix(state, code) ==
    ((state * code + code) % (Half * Half)) ^^ (state \div Half)
===============================================================================
