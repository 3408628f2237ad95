---------------------------- MODULE MCControlStream ----------------------------
(***************************************************************************)
(* Instances of ControlStream with the real MixCode at a small width.      *)
(***************************************************************************)
EXTENDS ControlStreamInvariant, ControlStreamState

CONSTANTS a, b,        \* the two ends
          d0, d1, d2   \* payloads

MCPeer == [n \in {a, b} |-> IF n = a THEN b ELSE a]

\* RD16 is external: a few payloads with the checksums that matter.
Checksum == [d \in {d0, d1, d2} |->
                CASE d = d0 -> 0 [] d = d1 -> 5 [] d = d2 -> 9]
MCRD16(d) == Checksum[d]

MixTable == [s \in StateCodes, c \in {0, 5, 9} |-> Mix(s, c)]
MCMixCode(s, c) == MixTable[s, c]

\* Bounds on what each end puts.
OneEach     == [n \in {a, b} |-> 1]
TwoAndOne   == [n \in {a, b} |-> IF n = a THEN 2 ELSE 1]
TwoOneWay   == [n \in {a, b} |-> IF n = a THEN 2 ELSE 0]
ThreeOneWay == [n \in {a, b} |-> IF n = a THEN 3 ELSE 0]
===============================================================================
