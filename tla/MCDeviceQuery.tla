----------------------------- MODULE MCDeviceQuery -----------------------------
(***************************************************************************)
(* Instances of DeviceQuery.  A byte of a message has 4 values and a chunk *)
(* 2 characters: the length of the 4 characters of b's creator takes two   *)
(* bytes.  Some strings are empty, some equal.                             *)
(***************************************************************************)
EXTENDS DeviceQuery

CONSTANTS a, b, c, q1, q2

Addresses == [n \in Node |-> CASE n = a -> 1 [] n = b -> 2 [] n = c -> 254]
Creators  == [n \in Node |-> IF n = b THEN <<1, 2, 3, 1>> ELSE <<3>>]
Names     == [n \in Node |-> IF n = b THEN <<1>> ELSE <<>>]

Motor   == [port |-> 0, id |-> 3, name |-> <<1>>]
Servo   == [port |-> 1, id |-> 3, name |-> <<>>]
Sensor  == [port |-> 2, id |-> 2, name |-> <<3>>]
HasOne  == [n \in Node |-> IF n = c THEN {Sensor} ELSE {Motor}]
AddsOne == {<<b, Servo>>}

TwoCallers == [q \in Query |-> IF q = q1 THEN a ELSE c]
AskOne     == [q \in Query |-> {b}]

OneCaller  == [q \in Query |-> a]
AskTwo     == [q \in Query |-> IF q = q1 THEN {b} ELSE {c}]

\* A byte is wide enough for what these devices have.
ASSUME DataFits == Short /\ Counted
===============================================================================
