------------------------------- MODULE SyncReceive -------------------------------
(***************************************************************************)
(* The wait queue of SyncRxMixin (network/interface/interface.hpp): a      *)
(* coroutine waits for the next message with an opcode, whoever sends it.  *)
(* The list behind it is external, robotics::utils::LinkedList<_, 4>.      *)
(***************************************************************************)
EXTENDS Naturals, Sequences, SequencesExt

CONSTANT Slots   \* 4: nodes the list can have in use

ASSUME SlotsAssumption == Slots \in Nat \ {0}

\* WaitQueue and its MessageAwaiter; the waiter stands for the handle.
Waits(Waiter, Opcode) == [opcode : Opcode, waiter : Waiter]

\* SyncRxMixin's constructor clears the list.
Clear == <<>>

\* NewBack() finds a node.
HasSlot(queue) == Len(queue) < Slots

\* ReceiveAwait suspends its caller.
ReceiveAwait(queue, waiter, opcode) ==
    Append(queue, [opcode |-> opcode, waiter |-> waiter])

\* The one node HandleRxMixin notifies of a message, if any: the first with its
\* opcode.
Notified(queue, opcode) ==
    LET at == {i \in DOMAIN queue : queue[i].opcode = opcode}
    IN  {queue[i] : i \in {j \in at : \A k \in at : j <= k}}

Removed_Later(queue, w) == queue

\* HandleRxMixin removes the node before it resumes the coroutine, and
\* ReceiveAwait once more before it returns: what the coroutine awaits next
\* finds the node free.
Removed(queue, w) == RemoveFirst(queue, w)
===============================================================================
