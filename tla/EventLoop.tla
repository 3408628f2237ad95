------------------------------- MODULE EventLoop -------------------------------
(***************************************************************************)
(* The loop that runs coroutines (runtime/loop.hpp, time_context.hpp), and *)
(* the two ways to be suspended in it: Sleep (runtime/sleep.hpp) and       *)
(* LazyResumerAwaiter (runtime/lazy_resumer.hpp), which an interrupt may   *)
(* resume.                                                                 *)
(*                                                                         *)
(* The main loop is one thread of control, and pc, running and resuming    *)
(* say where it is.  An interrupt runs to its end between two of its       *)
(* steps, so the code of the main loop and of its coroutines is split      *)
(* wherever an interrupt can tell.  The operations of the Queue, which is  *)
(* external, are one step each.                                            *)
(***************************************************************************)
EXTENDS Integers, Sequences, FiniteSets

CONSTANTS
    Task,       \* coroutines that the application starts before Run()
    NoTask,     \* nullptr
    Resumer,    \* LazyResumerAwaiters, each associated with this loop
    Awaits,     \* [Task -> SUBSET Resumer], what a coroutine may co_await
    Capacity,   \* 64, requests the resume list holds
    Delay,      \* durations a coroutine sleeps
    ByTask,     \* resumers whose Resume a coroutine calls
    ByIsr,      \* resumers whose Resume an interrupt calls
    MaxTime     \* bound of the clock

ASSUME TaskAssumption ==
    /\ IsFiniteSet(Task)
    /\ NoTask \notin Task
    /\ Awaits \in [Task -> SUBSET Resumer]
ASSUME TimeAssumption == Delay \subseteq Nat /\ MaxTime \in Nat
ASSUME LoopAssumption == Capacity \in Nat \ {0}
ASSUME ResumerAssumption == ByTask \subseteq Resumer /\ ByIsr \subseteq Resumer

VARIABLES
    \* Loop
    list,       \* resume_list_lifo_, in fact a FIFO
    finished,   \* task_finished_
    \* ProcessResumeList
    left,       \* it_max - i
    popped,     \* ptr, while it is neither in the list nor in handles
    handles,
    \* TimeContext
    now,        \* now_
    clock,      \* Clock::now()
    \* the main loop's flow of control
    pc, running,
    \* LazyResumerAwaiter
    waiter, handle, value,
    resuming,   \* how far a coroutine is in `if (await_ready()) Resume(v)'
    \* coroutines, and what each waits for
    task, wake, awaited,
    \* history: who was in the list when this pass began and has not run since, has
    \* an interrupt resumed anyone since it began, and has a co_await gone on
    \* without a value
    early, interrupted, readNothing

loopVars    == <<list, finished, left, popped, handles, now, clock, pc, early,
               interrupted>>
resumerVars == <<waiter, handle, value, resuming, readNothing>>
taskVars    == <<task, wake, awaited, running>>
vars == <<loopVars, resumerVars, taskVars>>

\* for is the coroutine that is meant, if any, coro the handle that was stored.
Request == [at : Int, for : Task \cup {NoTask}, coro : Task \cup {NoTask}]

TaskState ==
    {"new", "running", "sleeping", "suspending", "waiting", "scheduled", "done"}
Resuming == {"no", "asked", "tested", "pushed", "spins"}
Control ==
    {"app", "top", "size", "scan", "popped", "resume", "stopped", "crashed"}

Init ==
    /\ list = <<>>
    /\ finished = FALSE
    /\ left = 0
    /\ popped = <<>>
    /\ handles = <<>>
    /\ now = 0
    /\ clock = 0
    /\ pc = "app"
    /\ running = NoTask
    /\ waiter = [r \in Resumer |-> FALSE]
    /\ handle = [r \in Resumer |-> NoTask]
    /\ value = [r \in Resumer |-> FALSE]
    /\ resuming = [r \in Resumer |-> "no"]
    /\ task = [t \in Task |-> "new"]
    /\ wake = [t \in Task |-> 0]
    /\ awaited = [t \in Task |-> {}]
    /\ early = {}
    /\ interrupted = FALSE
    /\ readNothing = FALSE

-----------------------------------------------------------------------------
\* RequestResumeAt and ScheduleResumeInstantly print and return when it is full.
Pushed_OneLess(request) ==
    IF Len(list) < Capacity - 1 THEN Append(list, request) ELSE list

Pushed(request) ==
    IF Len(list) < Capacity THEN Append(list, request) ELSE list

\* Everything that will be resumed, wherever it is kept just now.
Pending == list \o popped \o handles

-----------------------------------------------------------------------------
\* The application starts its coroutines, which run up to their first co_await.
Launch(t) ==
    /\ pc = "app"
    /\ running = NoTask
    /\ task[t] = "new"
    /\ running' = t
    /\ task' = [task EXCEPT ![t] = "running"]
    /\ UNCHANGED <<loopVars, resumerVars, wake, awaited>>

Run ==
    /\ pc = "app"
    /\ running = NoTask
    /\ finished' = FALSE
    /\ pc' = "top"
    /\ UNCHANGED <<list, left, popped, handles, now, clock, early, interrupted,
                   resumerVars, taskVars>>

\* time.Tick(), then ProcessResumeList up to Empty().
Top ==
    /\ pc = "top"
    /\ now' = clock
    /\ finished' = (finished \/ list = <<>>)
    /\ interrupted' = FALSE
    /\ pc' = "size"
    /\ UNCHANGED <<list, left, popped, handles, clock, early, resumerVars, taskVars>>

\* it_max, and who is among the first it_max.
Size_OneLess ==
    /\ pc = "size"
    /\ left' = Len(list) - 1
    /\ early' = {list[i].for : i \in DOMAIN list}
    /\ pc' = "scan"
    /\ UNCHANGED <<list, finished, popped, handles, now, clock, interrupted,
                   resumerVars, taskVars>>

Size ==
    /\ pc = "size"
    /\ left' = Len(list)
    /\ early' = {list[i].for : i \in DOMAIN list}
    /\ pc' = "scan"
    /\ UNCHANGED <<list, finished, popped, handles, now, clock, interrupted,
                   resumerVars, taskVars>>

Pop ==
    /\ pc = "scan"
    /\ left > 0
    /\ list # <<>>
    /\ popped' = <<Head(list)>>
    /\ list' = Tail(list)
    /\ left' = left - 1
    /\ pc' = "popped"
    /\ UNCHANGED <<finished, handles, now, clock, early, interrupted, resumerVars,
                   taskVars>>

\* Is the time of this request still to come?
Future_OrNow(request) == request.at >= now

Future(request) == request.at > now

\* Back into the list, or into handles.
Sort ==
    /\ pc = "popped"
    /\ IF Future(popped[1])
       THEN list' = Pushed(popped[1]) /\ UNCHANGED handles
       ELSE handles' = Append(handles, popped[1]) /\ UNCHANGED list
    /\ popped' = <<>>
    /\ pc' = "scan"
    /\ UNCHANGED <<finished, left, now, clock, early, interrupted, resumerVars,
                   taskVars>>

Scanned ==
    /\ pc = "scan"
    /\ left = 0 \/ list = <<>>
    /\ pc' = "resume"
    /\ UNCHANGED <<list, finished, left, popped, handles, now, clock, early,
                   interrupted, resumerVars, taskVars>>

\* handle.resume(); of a null handle there is no coroutine to resume.
Resume ==
    /\ pc = "resume"
    /\ running = NoTask
    /\ handles # <<>>
    /\ handles' = Tail(handles)
    /\ LET request == Head(handles)
       IN  /\ early' = early \ {request.for}
           /\ \/ /\ request.coro = NoTask
                 /\ pc' = "crashed"
                 /\ UNCHANGED <<running, task>>
              \/ /\ request.coro # NoTask
                 /\ running' = request.coro
                 /\ task' = [task EXCEPT ![request.coro] = "running"]
                 /\ UNCHANGED pc
    /\ UNCHANGED <<list, finished, left, popped, now, clock, interrupted,
                   resumerVars, wake, awaited>>

\* The while of Run().
PassDone ==
    /\ pc = "resume"
    /\ running = NoTask
    /\ handles = <<>>
    /\ pc' = IF finished THEN "stopped" ELSE "top"
    /\ UNCHANGED <<list, finished, left, popped, handles, now, clock, early,
                   interrupted, resumerVars, taskVars>>

-----------------------------------------------------------------------------
\* A coroutine runs up to its next call of Resume, its next co_await or its end.
Runs(t) ==
    /\ running = t
    /\ task[t] = "running"
    /\ \A r \in Resumer : resuming[r] = "no"

\* co_await Sleep(loop, d), from the time of the last Tick().
SleepFor(t, d) ==
    /\ Runs(t)
    /\ now + d <= MaxTime
    /\ list' = Pushed([at |-> now + d, for |-> t, coro |-> t])
    /\ wake' = [wake EXCEPT ![t] = now + d]
    /\ task' = [task EXCEPT ![t] = "sleeping"]
    /\ running' = NoTask
    /\ UNCHANGED <<finished, left, popped, handles, now, clock, pc, early,
                   interrupted, resumerVars, awaited>>

\* await_ready() is true when there is a waiter.
await_ready(r) == waiter[r]

\* co_await resumer: await_ready, then the first half of await_suspend.
Await(t, r) ==
    /\ Runs(t)
    /\ r \in Awaits[t]
    /\ \/ /\ await_ready(r)
          /\ readNothing' = (readNothing \/ ~value[r])
          /\ UNCHANGED <<waiter, task, awaited>>
       \/ /\ ~await_ready(r)
          /\ waiter' = [waiter EXCEPT ![r] = TRUE]
          /\ task' = [task EXCEPT ![t] = "suspending"]
          /\ awaited' = [awaited EXCEPT ![t] = {r}]
          /\ UNCHANGED readNothing
    /\ UNCHANGED <<loopVars, handle, value, resuming, wake, running>>

\* The second half of await_suspend.
Suspend(t) ==
    /\ task[t] = "suspending"
    /\ handle' = [r \in Resumer |-> IF r \in awaited[t] THEN t ELSE handle[r]]
    /\ task' = [task EXCEPT ![t] = "waiting"]
    /\ running' = NoTask
    /\ UNCHANGED <<loopVars, waiter, value, resuming, readNothing, wake, awaited>>

Finish(t) ==
    /\ Runs(t)
    /\ task' = [task EXCEPT ![t] = "done"]
    /\ running' = NoTask
    /\ UNCHANGED <<loopVars, resumerVars, wake, awaited>>

-----------------------------------------------------------------------------
\* `if (await_ready()) Resume(v)'.

Waits(t, r) ==
    \/ handle[r] = t
    \/ /\ handle[r] = NoTask
       /\ awaited[t] = {r}
       /\ task[t] \in {"suspending", "waiting"}

\* Whom a Resume is meant for.
Awaiting(r) ==
    LET waiting == {t \in Task : Waits(t, r)}
    IN  IF waiting = {} THEN {NoTask} ELSE waiting

\* The value, then ScheduleResumeInstantly of the handle there is.
Handed(r) ==
    /\ value' = [value EXCEPT ![r] = TRUE]
    /\ \E t \in Awaiting(r) :
          list' = Pushed([at |-> now - 1, for |-> t, coro |-> handle[r]])
    /\ task' = [t \in Task |-> IF t = handle[r] THEN "scheduled" ELSE task[t]]
    /\ UNCHANGED <<finished, left, popped, handles, now, clock, pc, early,
                   readNothing, wake, awaited, running>>

Cleared_Not(r) == UNCHANGED <<waiter, handle>>

\* The end of Resume.
Cleared(r) ==
    /\ waiter' = [waiter EXCEPT ![r] = FALSE]
    /\ handle' = [handle EXCEPT ![r] = NoTask]

\* In a coroutine, step by step: await_ready(), Resume's own test, which spins
\* when the waiter is gone by then, the push, and the end.
Ask(t, r) ==
    /\ Runs(t)
    /\ r \in ByTask
    /\ await_ready(r)
    /\ resuming' = [resuming EXCEPT ![r] = "asked"]
    /\ UNCHANGED <<loopVars, waiter, handle, value, readNothing, taskVars>>

Test(r) ==
    /\ resuming[r] = "asked"
    /\ resuming' = [resuming EXCEPT ![r] = IF waiter[r] THEN "tested" ELSE "spins"]
    /\ UNCHANGED <<loopVars, waiter, handle, value, readNothing, taskVars>>

HandOver(r) ==
    /\ resuming[r] = "tested"
    /\ Handed(r)
    /\ resuming' = [resuming EXCEPT ![r] = "pushed"]
    /\ UNCHANGED <<waiter, handle, interrupted>>

Clear(r) ==
    /\ resuming[r] = "pushed"
    /\ Cleared(r)
    /\ resuming' = [resuming EXCEPT ![r] = "no"]
    /\ UNCHANGED <<loopVars, value, readNothing, taskVars>>

\* In an interrupt, all of it.
Interrupt(r) ==
    /\ pc # "crashed"
    /\ r \in ByIsr
    /\ await_ready(r)
    /\ Handed(r)
    /\ Cleared(r)
    /\ interrupted' = TRUE
    /\ UNCHANGED resuming

-----------------------------------------------------------------------------
ClockTick ==
    /\ clock < MaxTime
    /\ clock' = clock + 1
    /\ UNCHANGED <<list, finished, left, popped, handles, now, pc, early,
                   interrupted, resumerVars, taskVars>>

LoopStep == Run \/ Top \/ Size \/ Pop \/ Sort \/ Scanned \/ Resume \/ PassDone

Coroutine(t) ==
    \/ \E d \in Delay : SleepFor(t, d)
    \/ \E r \in Resumer : Await(t, r)
    \/ \E r \in Resumer : Ask(t, r)
    \/ Suspend(t)
    \/ Finish(t)

InResume(r) == Test(r) \/ HandOver(r) \/ Clear(r)

Next ==
    \/ \E t \in Task : Launch(t) \/ Coroutine(t)
    \/ LoopStep
    \/ \E r \in Resumer : InResume(r) \/ Interrupt(r)
    \/ ClockTick

Spec == Init /\ [][Next]_vars

\* The main loop and the coroutine that runs go on, and so does the time.
Fairness ==
    /\ WF_vars(LoopStep)
    /\ WF_vars((\E t \in Task : Coroutine(t)) \/ \E r \in Resumer : InResume(r))
    /\ WF_vars(ClockTick)

FairSpec == Spec /\ Fairness

-----------------------------------------------------------------------------
TypeOK ==
    /\ list \in Seq(Request)
    /\ finished \in BOOLEAN
    /\ left \in Nat
    /\ popped \in Seq(Request)
    /\ handles \in Seq(Request)
    /\ now \in Nat
    /\ clock \in Nat
    /\ pc \in Control
    /\ running \in Task \cup {NoTask}
    /\ waiter \in [Resumer -> BOOLEAN]
    /\ handle \in [Resumer -> Task \cup {NoTask}]
    /\ value \in [Resumer -> BOOLEAN]
    /\ resuming \in [Resumer -> Resuming]
    /\ task \in [Task -> TaskState]
    /\ wake \in [Task -> Nat]
    /\ awaited \in [Task -> SUBSET Resumer]
    /\ early \subseteq Task \cup {NoTask}
    /\ interrupted \in BOOLEAN
    /\ readNothing \in BOOLEAN

\* Nobody is resumed twice: a coroutine is to be resumed once at most, and only
\* while it is suspended, even if an interrupt comes between the Pop and the Push
\* of the loop (loop.hpp:50, 56) or between the push and the end of Resume
\* (lazy_resumer.hpp:73, 76), for which "Resume from an ISR context" is meant
\* (lazy_resumer.hpp:8).
ResumedOnce ==
    /\ \A i, j \in DOMAIN Pending :
          i # j /\ Pending[i].for # NoTask => Pending[i].for # Pending[j].for
    /\ \A i \in DOMAIN Pending :
          Pending[i].coro # NoTask =>
              /\ Pending[i].coro = Pending[i].for
              /\ task[Pending[i].coro] \in {"sleeping", "scheduled"}

\* Who sleeps or was resumed is in the list or on its way to run: as long as there
\* are no more coroutines than the list has places (loop.hpp:32), no request is
\* dropped (loop.hpp:93, 102), and none by the unchecked Push (loop.hpp:56).
NothingDropped ==
    \A t \in Task : task[t] \in {"sleeping", "scheduled"} =>
        \E i \in DOMAIN Pending : Pending[i].coro = t

\* A pass resumes everyone who was in the list and due when it began, and nobody
\* who asked to sleep longer (loop.hpp:48-68).
OnTime ==
    /\ pc = "top" => \A i \in DOMAIN list : list[i].for \in early => list[i].at > now
    /\ \A i \in DOMAIN handles :
          task[handles[i].for] = "sleeping" => wake[handles[i].for] <= clock

\* Run() returns only when nobody sleeps and nobody was resumed: the pass in which
\* it does found the list empty (loop.hpp:42-44), and nobody has come since but by
\* an interrupt.
StopsIdle ==
    pc = "stopped" /\ ~interrupted =>
        \A t \in Task : task[t] \notin {"sleeping", "scheduled"}

\* Resume may be called "from an ISR context" (lazy_resumer.hpp:8): what it hands
\* to the loop is a coroutine that is suspended.
RealHandle == \A i \in DOMAIN Pending : Pending[i].coro # NoTask

\* await_ready() is true once the awaiter was resumed (generic_awaiter.hpp:29): no
\* co_await goes on at once without the value of a Resume.
YieldsValue == ~readNothing

\* Who sleeps wakes up, and who was resumed runs (lazy_resumer.hpp:13), unless
\* Run() returned in spite of an interrupt, or fell over a null handle.
Woken ==
    \A t \in Task : task[t] \in {"sleeping", "scheduled"} ~>
        \/ task[t] = "running"
        \/ pc = "stopped" /\ interrupted
        \/ pc = "crashed"
===============================================================================
