------------------------------- MODULE Coroutines -------------------------------
(***************************************************************************)
(* Coroutines that await each other (coroutine/promise.hpp, coroutine.hpp, *)
(* coroutine_awaiter.hpp) and ImmediacyAwaiters, which run their waiter    *)
(* inside Resume (coroutine/immediacy_awaiter.hpp).                        *)
(*                                                                         *)
(* Whoever calls or resumes a coroutine has it on top of its own frame     *)
(* until it suspends or ends: stack is the C++ stack, its last element     *)
(* runs.  Whatever else a coroutine waits for resumes it from outside, as  *)
(* module EventLoop does: Wake.                                            *)
(***************************************************************************)
EXTENDS Integers, Sequences, SequencesExt

CONSTANTS
    Task,         \* calls of coroutine functions
    NoTask,       \* nullptr
    Awaits,       \* [Task -> SUBSET Task], whom a coroutine may co_await
    Immediate,    \* ImmediacyAwaiters
    MaxResumes    \* bound: calls of Resume

ASSUME TaskAssumption ==
    /\ NoTask \notin Task
    /\ Awaits \in [Task -> SUBSET Task]
    /\ MaxResumes \in Nat

VARIABLES
    task,          \* the state of each coroutine
    is_finished,   \* of its promise
    on_return_callbacks,   \* the waiters they resume
    returned,      \* callbacks that Return() has called
    stack,
    waiter_available, handle, return_value,   \* of each ImmediacyAwaiter
    resumes

promiseVars   == <<is_finished, on_return_callbacks, returned>>
immediateVars == <<waiter_available, handle, return_value, resumes>>
vars == <<task, promiseVars, stack, immediateVars>>

\* "joining" awaits a coroutine, "waiting" an ImmediacyAwaiter, "suspended"
\* something else; "returning" is inside Return(), "done" has no frame any
\* more, and "spins" is in the while (true) of await_resume.
TaskState == {"new", "running", "joining", "waiting", "suspended",
              "returning", "done", "spins"}

Init ==
    /\ task = [t \in Task |-> "new"]
    /\ is_finished = [t \in Task |-> FALSE]
    /\ on_return_callbacks = [t \in Task |-> <<>>]
    /\ returned = [t \in Task |-> 0]
    /\ stack = <<>>
    /\ waiter_available = [r \in Immediate |-> FALSE]
    /\ handle = [r \in Immediate |-> NoTask]
    /\ return_value = [r \in Immediate |-> FALSE]
    /\ resumes = 0

-----------------------------------------------------------------------------
Runs(t) == stack # <<>> /\ Last(stack) = t /\ task[t] = "running"

\* The application or the coroutine on top has the processor.
Idle    == stack = <<>>
MayCall == Idle \/ \E t \in Task : Runs(t)

\* t leaves the processor in a state, and who resumed it goes on.
Suspended(t, state) ==
    /\ task' = [task EXCEPT ![t] = state]
    /\ stack' = Front(stack)

\* handle.resume()
Resumed(t) ==
    /\ task' = [task EXCEPT ![t] = "running"]
    /\ stack' = Append(stack, t)

\* initial_suspend is suspend_never.
Call(t) ==
    /\ MayCall
    /\ task[t] = "new"
    /\ Resumed(t)
    /\ UNCHANGED <<promiseVars, immediateVars>>

await_ready_Never(u) == FALSE

\* While Return() runs the waiters, whoever awaits goes on at once.
await_ready(u) == is_finished[u]

\* co_await of a coroutine that has been called and not ended: once it has, its
\* promise is gone, and to ask await_ready is undefined.
Await(t, u) ==
    /\ Runs(t)
    /\ u \in Awaits[t]
    /\ task[u] \notin {"new", "done"}
    /\ ~await_ready(u)
    /\ on_return_callbacks' = [on_return_callbacks EXCEPT ![u] = Append(@, t)]
    /\ Suspended(t, "joining")
    /\ UNCHANGED <<is_finished, returned, immediateVars>>

\* co_await of anything else, and its end.
Suspend(t) ==
    /\ Runs(t)
    /\ Suspended(t, "suspended")
    /\ UNCHANGED <<promiseVars, immediateVars>>

Wake(t) ==
    /\ Idle
    /\ task[t] = "suspended"
    /\ Resumed(t)
    /\ UNCHANGED <<promiseVars, immediateVars>>

-----------------------------------------------------------------------------
Finished_Later(t) == UNCHANGED is_finished

\* Return() marks the promise before it calls the callbacks.
Finished(t) == is_finished' = [is_finished EXCEPT ![t] = TRUE]

\* co_return: return_value or return_void, up to the loop in Return().
Return(t) ==
    /\ Runs(t)
    /\ Finished(t)
    /\ task' = [task EXCEPT ![t] = "returning"]
    /\ UNCHANGED <<on_return_callbacks, returned, stack, immediateVars>>

Returning(t) == stack # <<>> /\ Last(stack) = t /\ task[t] = "returning"

HasCallbacks_ButLast(t) == returned[t] < Len(on_return_callbacks[t]) - 1

\* Return()'s loop over the callbacks.
HasCallbacks(t) == returned[t] < Len(on_return_callbacks[t])

\* The next callback resumes its waiter, which reads the value in await_resume
\* or waits in vain for it to be there.
Callback(t) ==
    /\ Returning(t)
    /\ HasCallbacks(t)
    /\ returned' = [returned EXCEPT ![t] = @ + 1]
    /\ LET waiter == on_return_callbacks[t][returned[t] + 1]
       IN  /\ task' = [task EXCEPT ![waiter] =
                          IF is_finished[t] THEN "running" ELSE "spins"]
           /\ stack' = Append(stack, waiter)
    /\ UNCHANGED <<is_finished, on_return_callbacks, immediateVars>>

\* final_suspend is suspend_never too: the frame and the promise are gone.
Destroy(t) ==
    /\ Returning(t)
    /\ ~HasCallbacks(t)
    /\ Suspended(t, "done")
    /\ UNCHANGED <<promiseVars, immediateVars>>

-----------------------------------------------------------------------------
\* co_await of an ImmediacyAwaiter without a waiter.  With one await_ready is
\* true, as in LazyResumerAwaiter (module EventLoop): one coroutine at a time.
AwaitImmediate(t, r) ==
    /\ Runs(t)
    /\ ~waiter_available[r]
    /\ waiter_available' = [waiter_available EXCEPT ![r] = TRUE]
    /\ handle' = [handle EXCEPT ![r] = t]
    /\ Suspended(t, "waiting")
    /\ UNCHANGED <<promiseVars, return_value, resumes>>

Cleared_Not(r) == UNCHANGED <<waiter_available, handle>>

Cleared_HandleOnly(r) ==
    /\ handle' = [handle EXCEPT ![r] = NoTask]
    /\ UNCHANGED waiter_available

\* Resume forgets its waiter before it runs it, and the waiter may await again.
Cleared(r) ==
    /\ waiter_available' = [waiter_available EXCEPT ![r] = FALSE]
    /\ handle' = [handle EXCEPT ![r] = NoTask]

\* Resume, by the application or by the coroutine on top, of a waiter.
Resume(r) ==
    /\ MayCall
    /\ waiter_available[r]
    /\ resumes < MaxResumes
    /\ resumes' = resumes + 1
    /\ return_value' = [return_value EXCEPT ![r] = TRUE]
    /\ Cleared(r)
    /\ Resumed(handle[r])
    /\ UNCHANGED promiseVars

-----------------------------------------------------------------------------
\* What the coroutine on top of the stack does.
Step(t) ==
    \/ \E u \in Task : Await(t, u)
    \/ Suspend(t)
    \/ Return(t) \/ Callback(t) \/ Destroy(t)
    \/ \E r \in Immediate : AwaitImmediate(t, r)

Next ==
    \/ \E t \in Task : Call(t) \/ Step(t) \/ Wake(t)
    \/ \E r \in Immediate : Resume(r)

\* Code that has the processor runs on, and the loop wakes whom it should.
Fairness ==
    /\ WF_vars(\E t \in Task : Step(t))
    /\ \A t \in Task : WF_vars(Wake(t))

Spec == Init /\ [][Next]_vars /\ Fairness

-----------------------------------------------------------------------------
(* Properties. *)

\* Every variable keeps its type.
TypeOK ==
    /\ task \in [Task -> TaskState]
    /\ is_finished \in [Task -> BOOLEAN]
    /\ on_return_callbacks \in [Task -> Seq(Task)]
    /\ \A t \in Task : returned[t] \in 0 .. Len(on_return_callbacks[t])
    /\ stack \in Seq(Task)
    /\ waiter_available \in [Immediate -> BOOLEAN]
    /\ handle \in [Immediate -> Task \cup {NoTask}]
    /\ return_value \in [Immediate -> BOOLEAN]
    /\ resumes \in 0 .. MaxResumes

\* A coroutine is on the stack once at most, and exactly while it has been
\* called or resumed and has not suspended since: none is resumed while it runs
\* or after it has ended, however the resumptions nest.
NoReentry ==
    /\ IsInjective(stack)
    /\ \A t \in Task :
          t \in Range(stack) <=> task[t] \in {"running", "returning", "spins"}

\* Whoever suspends is known to one who will resume it: in the callbacks still
\* to be called of a coroutine that has a frame, or in an ImmediacyAwaiter.
NobodyForgotten ==
    \A t \in Task :
        /\ task[t] = "joining" => \E u \in Task :
              /\ task[u] # "done"
              /\ \E i \in returned[u] + 1 .. Len(on_return_callbacks[u]) :
                    on_return_callbacks[u][i] = t
        /\ task[t] = "waiting" => \E r \in Immediate :
              waiter_available[r] /\ handle[r] = t

\* await_resume finds the value there.
NobodySpins == \A t \in Task : task[t] # "spins"

\* Return() iterates over the callbacks while they run: nobody may add one.
CallbacksStable ==
    [][\A t \in Task : task[t] = "returning" =>
           on_return_callbacks'[t] = on_return_callbacks[t]]_vars

\* A coroutine that returns gives way to those who await it, and to nothing
\* after that: all of them have run when it is gone.
Unwinds ==
    \A t \in Task : task[t] = "returning" ~>
        task[t] = "done" /\ returned[t] = Len(on_return_callbacks[t])
===============================================================================
