------------------------------ MODULE MCCoroutines ------------------------------
(***************************************************************************)
(* Instances of Coroutines: main awaits two others, both of them await a   *)
(* fourth one, and anybody may use the ImmediacyAwaiters.                  *)
(***************************************************************************)
EXTENDS Coroutines

CONSTANTS main, left, right, leaf

Diamond == [t \in Task |-> CASE t = main -> {left, right, leaf}
                             [] t \in {left, right} -> {leaf}
                             [] t = leaf -> {}]
===============================================================================
