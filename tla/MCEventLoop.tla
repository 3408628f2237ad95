------------------------------ MODULE MCEventLoop ------------------------------
(***************************************************************************)
(* Instances of EventLoop: coroutines with a resumer each, or with one.    *)
(***************************************************************************)
EXTENDS EventLoop

CONSTANTS t1, t2, t3, r1, r2

Shared == [t \in Task |-> {r1}]

Own == [t \in Task |-> CASE t = t1 -> {r1} [] t = t2 -> {r2} [] t = t3 -> {}]
===============================================================================
