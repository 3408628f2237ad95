---------------------------- MODULE EventLoopProofs ----------------------------
(***************************************************************************)
(* Proofs about EventLoop, for every set of coroutines and resumers, every *)
(* capacity of the resume list, and every interleaving of interrupts.      *)
(***************************************************************************)
EXTENDS EventLoop, SequenceFacts, FiniteSetTheorems

\* An awaiter belongs to one coroutine.
Exclusive == \A t, u \in Task : t # u => Awaits[t] \cap Awaits[u] = {}

\* Resume is called in interrupts.
Isr == ByIsr # {}

\* Coroutines may share an awaiter only if none of them is interrupted between the
\* two halves of await_suspend, and nothing interrupts a Resume of the same awaiter.
OneAtATime == (Isr => Exclusive) /\ ByTask \cap ByIsr = {}

\* The list has a place for each coroutine.
Fits == Cardinality(Task) <= Capacity

-----------------------------------------------------------------------------
\* Everything that will be resumed, in whatever order.
Requests == Range(list) \cup Range(popped) \cup Range(handles)

\* The request between Pop and Sort.
OnePopped == IF pc = "popped" THEN Len(popped) = 1 ELSE popped = <<>>

\* What is where at each point of the main loop's flow of control.
Flow ==
    /\ pc \in {"app", "top", "size", "stopped"} => handles = <<>>
    /\ running # NoTask => pc \in {"app", "resume"}
    /\ \A t \in Task : running = t <=> task[t] \in {"running", "suspending"}
    /\ now <= clock

\* Each request is in one place, and is the only one of its coroutine.
Stored ==
    /\ IsInjective(list) /\ IsInjective(handles)
    /\ Range(list) \cap Range(popped) = {}
    /\ Range(list) \cap Range(handles) = {}
    /\ Range(popped) \cap Range(handles) = {}
    /\ \A p, q \in Requests : p.for = q.for => p = q

\* What a request is for: the end of a sleep, a value, or nobody, when the
\* interrupt came between the two halves of await_suspend.
Meant(q) ==
    /\ q.for \in Task
    /\ \/ q.coro = q.for /\ task[q.for] = "sleeping" /\ q.at = wake[q.for]
       \/ q.coro = q.for /\ task[q.for] = "scheduled"
       \/ /\ Isr
          /\ q.coro = NoTask
          /\ task[q.for] \in {"suspending", "waiting"}
          /\ \A r \in awaited[q.for] : ~waiter[r]
          /\ q.at <= now

\* Whoever is resumed in this pass may be.
Due == \A q \in Range(handles) : q.at <= now

\* A coroutine that calls Resume is past its tests and has not lost the waiter.
UnderWay ==
    \A r \in Resumer : resuming[r] # "no" =>
        /\ r \in ByTask /\ waiter[r] /\ resuming[r] # "spins"
        /\ running \in Task /\ task[running] = "running"

\* What the coroutine does whose handle a resumer has.
Held(r) == IF resuming[r] = "pushed" THEN "scheduled" ELSE "waiting"

\* The coroutine that a resumer has as its waiter, or will have after the second
\* half of await_suspend.
Owns(t, r) ==
    /\ awaited[t] = {r}
    /\ \/ handle[r] = t /\ task[t] = Held(r)
       \/ handle[r] = NoTask /\ task[t] = "suspending"

Suspended ==
    /\ \A t \in Task : task[t] \in {"suspending", "waiting"} =>
          \E r \in Awaits[t] : awaited[t] = {r}
    /\ \A t \in Task : task[t] = "suspending" => Isr \/ \A r \in awaited[t] : waiter[r]
    /\ \A r \in Resumer : waiter[r] => \E t \in Task : Owns(t, r)
    /\ \A r \in Resumer : handle[r] # NoTask =>
          /\ awaited[handle[r]] = {r}
          /\ task[handle[r]] = Held(r)
          /\ waiter[r] \/ Isr

\* Whoever was in the list when the pass began and has not run has a request, or
\* had one that was dropped; and what is left of it in the list is due later, or
\* this pass comes to it.
Early ==
    /\ early \subseteq Task
    /\ pc = "app" => early = {}
    /\ \A t \in early :
          \/ task[t] \in {"sleeping", "scheduled"}
          \/ \E q \in Requests : q.for = t /\ q.coro = NoTask
    /\ pc \in {"scan", "popped", "resume", "top"} =>
          \A i \in DOMAIN list : list[i].for \in early =>
              \/ list[i].at > now
              \/ pc \in {"scan", "popped"} /\ i <= left

\* The inductive invariant.
IInv ==
    /\ TypeOK
    /\ OnePopped
    /\ Flow
    /\ Stored
    /\ \A q \in Requests : Meant(q)
    /\ Due
    /\ UnderWay
    /\ Suspended
    /\ Early

\* Whoever is to be resumed has a request.
Kept ==
    \A t \in Task : task[t] \in {"sleeping", "scheduled"} =>
        \E q \in Requests : q.coro = t

\* Once the list was empty nobody but an interrupt is left to fill it.
Finished ==
    /\ pc = "stopped" => finished
    /\ pc \in {"app", "top"} => ~finished
    /\ finished /\ ~interrupted =>
          /\ pc \in {"size", "scan", "resume", "stopped"}
          /\ running = NoTask
          /\ Requests = {}

-----------------------------------------------------------------------------
(* Types. *)

\* What a push leaves in the list, full or not.
LEMMA PushedFacts ==
    ASSUME TypeOK, NEW q \in Request
    PROVE  /\ Pushed(q) \in Seq(Request)
           /\ \A i \in DOMAIN Pushed(q) :
                 Pushed(q)[i] = q \/ (i \in DOMAIN list /\ Pushed(q)[i] = list[i])
<1>1. list \in Seq(Request) /\ Len(list) \in Nat /\ DOMAIN list = 1 .. Len(list)
  BY LenProperties DEF TypeOK
<1>2. CASE Len(list) < Capacity
  <2>1. Pushed(q) = Append(list, q)
    BY <1>2 DEF Pushed
  <2>2. /\ Append(list, q) \in Seq(Request)
        /\ Len(Append(list, q)) = Len(list) + 1
        /\ \A i \in 1 .. Len(list) : Append(list, q)[i] = list[i]
        /\ Append(list, q)[Len(list) + 1] = q
    BY <1>1, AppendProperties
  <2>3. DOMAIN Append(list, q) = 1 .. Len(list) + 1
    BY <2>2, LenProperties
  <2>4. \A i \in 1 .. Len(list) + 1 : i \in 1 .. Len(list) \/ i = Len(list) + 1
    BY <1>1
  <2>5. QED
    BY <1>1, <2>1, <2>2, <2>3, <2>4
<1>3. CASE ~(Len(list) < Capacity)
  BY <1>1, <1>3 DEF Pushed
<1>4. QED
  BY <1>2, <1>3

\* The request between Pop and Sort is there, and a first element is a request.
LEMMA RequestType ==
    ASSUME TypeOK, OnePopped
    PROVE  /\ pc = "popped" => popped[1] \in Request /\ Range(popped) = {popped[1]}
           /\ list # <<>> => Head(list) \in Request /\ Tail(list) \in Seq(Request)
           /\ handles # <<>> => Head(handles) \in Request /\ Tail(handles) \in Seq(Request)
           /\ \A q \in Request : q.at \in Int /\ {q.for, q.coro} \subseteq Task \cup {NoTask}
<1>1. ASSUME pc = "popped" PROVE popped[1] \in Request /\ Range(popped) = {popped[1]}
  <2>1. popped \in Seq(Request) /\ Len(popped) = 1
    BY <1>1 DEF TypeOK, OnePopped
  <2>2. DOMAIN popped = 1 .. 1 /\ popped[1] \in Request
    BY <2>1, LenProperties, ElementOfSeq
  <2>3. QED
    BY <2>2 DEF Range
<1>2. list # <<>> => Head(list) \in Request /\ Tail(list) \in Seq(Request)
  BY HeadTailProperties DEF TypeOK
<1>3. handles # <<>> => Head(handles) \in Request /\ Tail(handles) \in Seq(Request)
  BY HeadTailProperties DEF TypeOK
<1>4. QED
  BY <1>1, <1>2, <1>3 DEF Request

LEMMA TypeInit == Init => TypeOK /\ OnePopped
<1>1. <<>> \in Seq(Request)
  BY EmptySeq
<1> SUFFICES ASSUME Init PROVE TypeOK /\ OnePopped
  OBVIOUS
<1>2. /\ waiter \in [Resumer -> BOOLEAN] /\ value \in [Resumer -> BOOLEAN]
      /\ handle \in [Resumer -> Task \cup {NoTask}]
      /\ resuming \in [Resumer -> Resuming]
  BY DEF Init, Resuming
<1>3. /\ task \in [Task -> TaskState] /\ wake \in [Task -> Nat]
      /\ awaited \in [Task -> SUBSET Resumer]
  BY DEF Init, TaskState
<1>4. finished \in BOOLEAN /\ readNothing \in BOOLEAN
  BY DEF Init
<1>5. pc \in Control /\ OnePopped
  BY DEF Init, Control, OnePopped
<1>6. QED
  BY <1>1, <1>2, <1>3, <1>4, <1>5 DEF Init, TypeOK

LEMMA HandedType ==
    ASSUME TypeOK, NEW r \in Resumer, Handed(r)
    PROVE  /\ list' \in Seq(Request) /\ task' \in [Task -> TaskState]
           /\ value' \in [Resumer -> BOOLEAN]
<1>1. PICK t \in Awaiting(r) :
          list' = Pushed([at |-> now - 1, for |-> t, coro |-> handle[r]])
  BY DEF Handed
<1>2. t \in Task \cup {NoTask}
  BY DEF Awaiting
<1>3. [at |-> now - 1, for |-> t, coro |-> handle[r]] \in Request
  BY <1>2 DEF Request, TypeOK
<1>4. list' \in Seq(Request)
  BY <1>1, <1>3, PushedFacts
<1>5. QED
  BY <1>4 DEF Handed, TypeOK, TaskState

LEMMA TypeStep == TypeOK /\ OnePopped /\ [Next]_vars => TypeOK' /\ OnePopped'
<1> SUFFICES ASSUME TypeOK, OnePopped, [Next]_vars PROVE TypeOK' /\ OnePopped'
  OBVIOUS
<1> USE DEF TypeOK, OnePopped, loopVars, resumerVars, taskVars
<1>1. CASE UNCHANGED vars
  BY <1>1 DEF vars
<1>2. ASSUME NEW t \in Task, Launch(t) PROVE TypeOK' /\ OnePopped'
  BY <1>2 DEF Launch, TaskState
<1>3. CASE Run
  BY <1>3 DEF Run, Control
<1>4. CASE Top
  BY <1>4 DEF Top, Control
<1>5. CASE Size
  <2>1. Len(list) \in Nat /\ DOMAIN list = 1 .. Len(list)
    BY LenProperties
  <2>2. \A i \in DOMAIN list : list[i].for \in Task \cup {NoTask}
    <3>1. \A i \in 1 .. Len(list) : list[i] \in Request
      BY ElementOfSeq
    <3>2. QED
      BY <2>1, <3>1 DEF Request
  <2>3. QED
    BY <1>5, <2>1, <2>2 DEF Size, Control
<1>6. CASE Pop
  <2>1. Head(list) \in Request /\ Tail(list) \in Seq(Request)
    BY <1>6, HeadTailProperties DEF Pop
  <2>2. <<Head(list)>> \in Seq(Request) /\ Len(<<Head(list)>>) = 1
    BY <2>1
  <2>3. QED
    BY <1>6, <2>1, <2>2 DEF Pop, Control
<1>7. CASE Sort
  <2>1. popped[1] \in Request
    BY <1>7, RequestType DEF Sort
  <2>2. Pushed(popped[1]) \in Seq(Request) /\ Append(handles, popped[1]) \in Seq(Request)
    BY <2>1, PushedFacts, AppendProperties
  <2>3. <<>> \in Seq(Request)
    BY EmptySeq
  <2>4. QED
    BY <1>7, <2>2, <2>3 DEF Sort, Control
<1>8. CASE Scanned
  BY <1>8 DEF Scanned, Control
<1>9. CASE Resume
  <2>1. Head(handles) \in Request /\ Tail(handles) \in Seq(Request)
    BY <1>9, HeadTailProperties DEF Resume
  <2>2. Head(handles).coro \in Task \cup {NoTask}
    BY <2>1 DEF Request
  <2>3. QED
    BY <1>9, <2>1, <2>2 DEF Resume, Control, TaskState
<1>10. CASE PassDone
  BY <1>10 DEF PassDone, Control
<1>11. ASSUME NEW t \in Task, NEW d \in Delay, SleepFor(t, d)
       PROVE  TypeOK' /\ OnePopped'
  <2>1. now + d \in Nat
    BY TimeAssumption
  <2>2. [at |-> now + d, for |-> t, coro |-> t] \in Request
    BY <2>1 DEF Request
  <2>3. list' \in Seq(Request)
    BY <1>11, <2>2, PushedFacts DEF SleepFor
  <2>4. QED
    BY <1>11, <2>1, <2>3 DEF SleepFor, TaskState
<1>12. ASSUME NEW t \in Task, NEW r \in Resumer, Await(t, r)
       PROVE  TypeOK' /\ OnePopped'
  <2>1. /\ waiter' \in [Resumer -> BOOLEAN] /\ awaited' \in [Task -> SUBSET Resumer]
        /\ task' \in [Task -> TaskState]
    <3>1. CASE UNCHANGED <<waiter, task, awaited>>
      BY <3>1
    <3>2. CASE /\ waiter' = [waiter EXCEPT ![r] = TRUE]
               /\ task' = [task EXCEPT ![t] = "suspending"]
               /\ awaited' = [awaited EXCEPT ![t] = {r}]
      BY <3>2 DEF TaskState
    <3>3. QED
      BY <1>12, <3>1, <3>2 DEF Await
  <2>2. readNothing' \in BOOLEAN
    BY <1>12 DEF Await
  <2>3. QED
    BY <1>12, <2>1, <2>2 DEF Await
<1>13. ASSUME NEW t \in Task, Suspend(t) \/ Finish(t)
       PROVE  TypeOK' /\ OnePopped'
  <2>1. /\ task' \in [Task -> TaskState] /\ running' = NoTask
        /\ UNCHANGED <<list, finished, left, popped, handles, now, clock, pc>>
        /\ UNCHANGED <<waiter, value, resuming, readNothing, wake, awaited, early,
                       interrupted>>
    BY <1>13 DEF Suspend, Finish, TaskState
  <2>2. handle' \in [Resumer -> Task \cup {NoTask}]
    <3>1. CASE Suspend(t)
      BY <3>1 DEF Suspend
    <3>2. CASE Finish(t)
      BY <3>2 DEF Finish
    <3>3. QED
      BY <1>13, <3>1, <3>2
  <2>3. QED
    BY <2>1, <2>2
<1>14. ASSUME NEW r \in Resumer, HandOver(r) \/ Interrupt(r) PROVE TypeOK' /\ OnePopped'
  <2>1. /\ list' \in Seq(Request) /\ task' \in [Task -> TaskState]
        /\ value' \in [Resumer -> BOOLEAN]
    BY <1>14, HandedType DEF HandOver, Interrupt
  <2>2. /\ waiter' \in [Resumer -> BOOLEAN]
        /\ handle' \in [Resumer -> Task \cup {NoTask}]
        /\ resuming' \in [Resumer -> Resuming] /\ interrupted' \in BOOLEAN
    BY <1>14 DEF HandOver, Interrupt, Cleared, Resuming
  <2>3. UNCHANGED <<finished, left, popped, handles, now, clock, pc, early,
                    readNothing, wake, awaited, running>>
    BY <1>14 DEF HandOver, Interrupt, Handed
  <2>4. QED
    BY <2>1, <2>2, <2>3
<1>15. ASSUME NEW r \in Resumer, (\E t \in Task : Ask(t, r)) \/ Test(r) \/ Clear(r)
       PROVE  TypeOK' /\ OnePopped'
  <2>1. /\ waiter' \in [Resumer -> BOOLEAN]
        /\ handle' \in [Resumer -> Task \cup {NoTask}]
    BY <1>15 DEF Ask, Test, Clear, Cleared
  <2>2. resuming' \in [Resumer -> Resuming]
    BY <1>15 DEF Ask, Test, Clear, Resuming
  <2>3. UNCHANGED <<loopVars, value, readNothing, taskVars>>
    BY <1>15 DEF Ask, Test, Clear
  <2>4. QED
    BY <2>1, <2>2, <2>3
<1>16. CASE ClockTick
  BY <1>16 DEF ClockTick
<1>17. QED
  BY <1>1, <1>2, <1>3, <1>4, <1>5, <1>6, <1>7, <1>8, <1>9, <1>10, <1>11, <1>12,
     <1>13, <1>14, <1>15, <1>16 DEF Next, LoopStep, Coroutine, InResume

-----------------------------------------------------------------------------
(* What a step that does not concern them leaves as it is. *)

\* Whoever has not begun, runs or has ended is not to be resumed.
LEMMA Running ==
    ASSUME IInv, NEW t \in Task, task[t] \in {"new", "running", "done"}
    PROVE  t \notin early /\ \A q \in Requests : q.for # t
<1>1. ASSUME NEW q \in Requests PROVE q.for # t
  BY <1>1 DEF IInv, Meant
<1>2. t \notin early
  BY <1>1 DEF IInv, Early
<1>3. QED
  BY <1>1, <1>2

\* Awaiters are as they were when nobody begins or ends to await one.
LEMMA SuspendedKept ==
    ASSUME IInv, NEW t \in Task, task[t] \notin {"suspending", "waiting"},
           task'[t] \notin {"suspending", "waiting"},
           \A u \in Task \ {t} : task'[u] = task[u],
           \A r \in Resumer : resuming[r] = "no",
           UNCHANGED <<waiter, handle, resuming, awaited>>
    PROVE  UnderWay' /\ Suspended'
<1>1. \A u \in Task : task'[u] \in {"suspending", "waiting"} =>
          \E r \in Awaits[u] : awaited'[u] = {r}
  BY DEF IInv, Suspended
<1>2. \A u \in Task : task'[u] = "suspending" =>
          Isr \/ \A r \in awaited'[u] : waiter'[r]
  BY DEF IInv, Suspended
<1>3. ASSUME NEW r \in Resumer, waiter'[r] PROVE \E u \in Task : Owns(u, r)'
  <2>1. PICK u \in Task : Owns(u, r)
    BY <1>3 DEF IInv, Suspended
  <2>2. u # t
    BY <2>1 DEF Owns, Held
  <2>3. QED
    BY <2>1, <2>2 DEF Owns, Held
<1>4. ASSUME NEW r \in Resumer, handle'[r] # NoTask
      PROVE  /\ awaited'[handle'[r]] = {r}
             /\ task'[handle'[r]] = Held(r)'
             /\ waiter'[r] \/ Isr
  BY <1>4 DEF IInv, Suspended, TypeOK, Held
<1>5. UnderWay'
  BY DEF UnderWay
<1>6. QED
  BY <1>1, <1>2, <1>3, <1>4, <1>5 DEF Suspended

LEMMA SuspendedSame ==
    ASSUME IInv, UNCHANGED <<resumerVars, taskVars>>
    PROVE  UnderWay' /\ Suspended'
BY DEF IInv, UnderWay, Suspended, Owns, Held, taskVars, resumerVars

\* Nobody calls Resume but the coroutine that runs.
LEMMA NobodyResumes ==
    ASSUME IInv, running = NoTask \/ (\E t \in Task : task[t] = "suspending")
                    \/ \E t \in Task : Runs(t)
    PROVE  \A r \in Resumer : resuming[r] = "no"
BY TaskAssumption DEF IInv, UnderWay, Flow, Runs

\* A request means what it meant when its coroutine does nothing.
LEMMA MeantKept ==
    ASSUME IInv, NEW t \in Task, NEW q \in Requests, q.for \in Task, q.for # t,
           \A u \in Task \ {t} : /\ task'[u] = task[u]
                                 /\ wake'[u] = wake[u]
                                 /\ awaited'[u] = awaited[u],
           q.coro = NoTask => \A r \in awaited[q.for] : waiter'[r] => waiter[r],
           q.at \in Int, now' \in Nat, now <= now'
    PROVE  Meant(q)'
BY DEF IInv, Meant, TypeOK

\* Every request is of a coroutine.
LEMMA RequestsType ==
    ASSUME IInv
    PROVE  Requests \subseteq Request /\ \A q \in Requests : q.for \in Task /\ q.at \in Int
<1>1. Requests \subseteq Request
  BY RangeOfSeq DEF IInv, TypeOK, Requests
<1>2. QED
  BY <1>1 DEF Request, IInv, Meant

LEMMA StoredKept ==
    ASSUME IInv, UNCHANGED <<list, popped, handles>>
    PROVE  Requests' = Requests /\ Stored'
BY DEF IInv, Stored, Requests

LEMMA EarlyKept ==
    ASSUME IInv, UNCHANGED <<list, popped, handles, pc, early, left, now>>,
           \A u \in early : task[u] \in {"sleeping", "scheduled"} => task'[u] = task[u]
    PROVE  Early'
BY DEF IInv, Early, Requests

-----------------------------------------------------------------------------
(* The list. *)

\* A request of a coroutine that has none may be pushed: it is the only one of
\* its coroutine, or it is dropped.
LEMMA PushedStored ==
    ASSUME IInv, NEW q \in Request, \A p \in Requests : p.for # q.for,
           list' = Pushed(q), UNCHANGED <<popped, handles>>
    PROVE  /\ Stored'
           /\ Requests \subseteq Requests' /\ Requests' \subseteq Requests \cup {q}
           /\ Len(list) < Capacity => q \in Requests'
<1>1. list \in Seq(Request) /\ IsInjective(list) /\ q \notin Range(list)
  BY DEF IInv, TypeOK, Stored, Requests
<1>2. CASE Len(list) < Capacity
  <2>1. IsInjective(list') /\ Range(list') = Range(list) \cup {q}
    BY <1>1, <1>2, AppendFacts DEF Pushed
  <2>2. Requests' = Requests \cup {q} /\ q \notin Requests
    BY <2>1 DEF Requests
  <2>3. Stored'
    <3>1. \A p1, p2 \in Requests' : p1.for = p2.for => p1 = p2
      BY <2>2 DEF IInv, Stored
    <3>2. QED
      BY <2>1, <2>2, <3>1 DEF IInv, Stored, Requests
  <2>4. QED
    BY <2>2, <2>3
<1>3. CASE ~(Len(list) < Capacity)
  <2>1. UNCHANGED list
    BY <1>3 DEF Pushed
  <2>2. QED
    BY <1>3, <2>1, StoredKept
<1>4. QED
  BY <1>2, <1>3

\* Nor does it disturb the pass under way.
LEMMA PushedEarly ==
    ASSUME IInv, NEW q \in Request, q.for \notin early,
           list' = Pushed(q), UNCHANGED <<popped, handles, pc, early, left, now>>,
           Requests \subseteq Requests',
           \A u \in Task \ {q.for} : task'[u] = task[u]
    PROVE  Early'
<1>1. (pc' = "app" => early' = {}) /\ early' \subseteq Task
  BY DEF IInv, Early
<1>2. ASSUME NEW u \in early'
      PROVE  \/ task'[u] \in {"sleeping", "scheduled"}
             \/ \E p \in Requests' : p.for = u /\ p.coro = NoTask
  BY <1>2 DEF IInv, Early, TypeOK
<1>3. ASSUME pc' \in {"scan", "popped", "resume", "top"},
             NEW i \in DOMAIN list', list'[i].for \in early'
      PROVE  list'[i].at > now' \/ (pc' \in {"scan", "popped"} /\ i <= left')
  <2>1. i \in DOMAIN list /\ list'[i] = list[i]
    BY <1>3, PushedFacts DEF IInv
  <2>2. QED
    BY <1>3, <2>1 DEF IInv, Early
<1>4. QED
  BY <1>1, <1>2, <1>3 DEF Early

-----------------------------------------------------------------------------
(* The steps of the loop. *)

LEMMA InitInv == Init => IInv
<1> SUFFICES ASSUME Init PROVE IInv
  OBVIOUS
<1>1. TypeOK /\ OnePopped
  BY TypeInit
<1>2. DOMAIN <<>> = {} /\ Range(<<>>) = {}
  BY EmptySeq, LenProperties DEF Range
<1>3. Requests = {}
  BY <1>2 DEF Init, Requests
<1>4. Flow
  BY TaskAssumption DEF Init, Flow
<1>5. Stored
  BY <1>2, <1>3 DEF Init, Stored, IsInjective
<1>6. UnderWay /\ Suspended
  BY DEF Init, UnderWay, Suspended
<1>7. Due /\ Early
  BY <1>2 DEF Init, Due, Early
<1>8. QED
  BY <1>1, <1>3, <1>4, <1>5, <1>6, <1>7 DEF IInv

\* A coroutine that begins, goes to sleep or ends, whatever is pushed for it.
LEMMA LaunchStep ==
    ASSUME IInv, TypeOK', OnePopped', NEW t \in Task, Launch(t)
    PROVE  IInv'
<1>1. /\ pc = "app" /\ running = NoTask /\ task[t] = "new" /\ running' = t
      /\ task' = [task EXCEPT ![t] = "running"]
      /\ UNCHANGED <<loopVars, resumerVars, wake, awaited>>
  BY DEF Launch
<1>2. \A u \in Task : task'[u] = IF u = t THEN "running" ELSE task[u]
  BY <1>1 DEF IInv, TypeOK
<1>3. Flow'
  BY <1>1, <1>2, TaskAssumption DEF IInv, Flow, loopVars
<1>4. Stored' /\ Requests' = Requests
  BY <1>1, StoredKept DEF loopVars
<1>5. ASSUME NEW q \in Requests' PROVE Meant(q)'
  <2>1. q \in Requests /\ q.for # t /\ q.for \in Task /\ q.at \in Int
    BY <1>1, <1>4, RequestsType, Running DEF IInv
  <2>2. now' \in Nat /\ now <= now'
    BY <1>1 DEF IInv, TypeOK, loopVars
  <2>3. QED
    BY <1>1, <1>2, <2>1, <2>2, MeantKept DEF resumerVars
<1>6. Due'
  BY <1>1 DEF IInv, Due, loopVars
<1>7. UnderWay' /\ Suspended'
  BY <1>1, <1>2, NobodyResumes, SuspendedKept DEF resumerVars
<1>8. Early'
  BY <1>1, <1>2, EarlyKept DEF loopVars
<1>9. QED
  BY <1>3, <1>4, <1>5, <1>6, <1>7, <1>8 DEF IInv

\* The steps that move no request and no coroutine.
LEMMA ControlStep ==
    ASSUME IInv, TypeOK', OnePopped', Run \/ Top \/ Size \/ Scanned \/ PassDone
    PROVE  IInv'
<1>1. UNCHANGED <<list, popped, handles, resumerVars, taskVars>>
  BY DEF Run, Top, Size, Scanned, PassDone
<1>2. Stored' /\ Requests' = Requests
  BY <1>1, StoredKept
<1>3. now' \in {now, clock} /\ clock' = clock /\ now <= clock /\ now \in Nat /\ clock \in Nat
  BY DEF Run, Top, Size, Scanned, PassDone, IInv, TypeOK, Flow
<1>4. Flow'
  <2>1. now' <= clock' /\ \A t \in Task : running' = t <=> task'[t] \in {"running", "suspending"}
    BY <1>1, <1>3 DEF IInv, Flow, taskVars
  <2>2. /\ pc' \in {"app", "top", "size", "stopped"} => handles' = <<>>
        /\ running' # NoTask => pc' \in {"app", "resume"}
    BY DEF Run, Top, Size, Scanned, PassDone, IInv, Flow, taskVars
  <2>3. QED
    BY <2>1, <2>2 DEF Flow
<1>5. ASSUME NEW q \in Requests' PROVE Meant(q)'
  BY <1>1, <1>2, <1>3, RequestsType DEF IInv, Meant, taskVars, resumerVars
<1>6. Due'
  <2>1. Range(handles) \subseteq Requests
    BY DEF Requests
  <2>2. QED
    BY <1>1, <1>3, <2>1, RequestsType DEF IInv, Due
<1>7. UnderWay' /\ Suspended'
  BY <1>1, SuspendedSame
<1>8. Early'
  <2>1. CASE Size
    <3>1. /\ left' = Len(list) /\ pc' = "scan" /\ pc = "size" /\ now' = now
          /\ early' = {list[i].for : i \in DOMAIN list}
      BY <2>1 DEF Size
    <3>2. DOMAIN list = 1 .. Len(list) /\ Len(list) \in Nat
      BY LenProperties DEF IInv, TypeOK
    <3>3. ASSUME NEW u \in early'
          PROVE  \/ task'[u] \in {"sleeping", "scheduled"}
                 \/ \E q \in Requests' : q.for = u /\ q.coro = NoTask
      <4>1. PICK i \in DOMAIN list : u = list[i].for
        BY <3>1, <3>3
      <4>2. list[i] \in Requests
        BY <4>1 DEF Requests, Range
      <4>3. QED
        BY <1>1, <1>2, <4>1, <4>2 DEF IInv, Meant, taskVars
    <3>4. early' \subseteq Task
      <4>1. \A i \in DOMAIN list : list[i] \in Requests
        BY DEF Requests, Range
      <4>2. QED
        BY <3>1, <4>1, RequestsType
    <3>5. QED
      BY <1>1, <3>1, <3>2, <3>3, <3>4 DEF Early
  <2>2. CASE Run \/ Top \/ Scanned \/ PassDone
    <3>1. early' = early /\ pc' # "app"
      BY <2>2 DEF Run, Top, Scanned, PassDone
    <3>2. ASSUME pc' \in {"scan", "popped", "resume", "top"},
                 NEW i \in DOMAIN list', list'[i].for \in early'
          PROVE  list'[i].at > now' \/ (pc' \in {"scan", "popped"} /\ i <= left')
      <4>1. CASE Scanned
        <5>1. DOMAIN list = 1 .. Len(list) /\ Len(list) \in Nat /\ left \in Nat
          BY LenProperties DEF IInv, TypeOK
        <5>2. i \in 1 .. Len(list) /\ left = 0
          BY <1>1, <3>2, <4>1, <5>1, EmptySeq DEF Scanned
        <5>3. ~(i <= left)
          BY <5>1, <5>2
        <5>4. QED
          BY <3>2, <4>1, <5>3 DEF Scanned, IInv, Early
      <4>2. CASE Run
        BY <3>1, <3>2, <4>2 DEF Run, IInv, Early
      <4>3. CASE Top
        BY <3>2, <4>3 DEF Top
      <4>4. CASE PassDone
        BY <3>2, <4>4 DEF PassDone, IInv, Early
      <4>5. QED
        BY <2>2, <4>1, <4>2, <4>3, <4>4
    <3>3. ASSUME NEW u \in early'
          PROVE  \/ task'[u] \in {"sleeping", "scheduled"}
                 \/ \E q \in Requests' : q.for = u /\ q.coro = NoTask
      BY <1>1, <1>2, <3>1, <3>3 DEF IInv, Early, taskVars
    <3>4. early' \subseteq Task
      BY <3>1 DEF IInv, Early
    <3>5. QED
      BY <3>1, <3>2, <3>3, <3>4 DEF Early
  <2>3. QED
    BY <2>1, <2>2
<1>9. QED
  BY <1>2, <1>4, <1>5, <1>6, <1>7, <1>8 DEF IInv

\* Pop takes a request out of the list and has it in its hands.
LEMMA PopStored == ASSUME IInv, Pop PROVE Stored' /\ Requests' = Requests
<1>1. /\ list # <<>> /\ popped = <<>> /\ popped' = <<Head(list)>>
      /\ list' = Tail(list) /\ handles' = handles
  BY DEF Pop, IInv, OnePopped
<1>2. /\ Head(list) \in Range(list) /\ IsInjective(Tail(list))
      /\ Range(Tail(list)) = Range(list) \ {Head(list)}
  BY <1>1, TailFacts DEF IInv, TypeOK, Stored
<1>3. Range(popped) = {} /\ Range(popped') = {Head(list)}
  <2>1. DOMAIN <<>> = {} /\ DOMAIN <<Head(list)>> = {1} /\ <<Head(list)>>[1] = Head(list)
    OBVIOUS
  <2>2. QED
    BY <1>1, <2>1 DEF Range
<1>4. Requests' = Requests
  BY <1>1, <1>2, <1>3 DEF Requests
<1>5. Stored'
  BY <1>1, <1>2, <1>3, <1>4 DEF IInv, Stored, Requests
<1>6. QED
  BY <1>4, <1>5

LEMMA PopStep == ASSUME IInv, TypeOK', OnePopped', Pop PROVE IInv'
<1>1. /\ list # <<>> /\ list' = Tail(list) /\ left > 0 /\ left' = left - 1
      /\ pc = "scan" /\ pc' = "popped"
      /\ UNCHANGED <<finished, handles, now, clock, early, resumerVars, taskVars>>
  BY DEF Pop
<1>2. Stored' /\ Requests' = Requests
  BY PopStored
<1>3. Flow'
  BY <1>1 DEF IInv, Flow, taskVars
<1>4. ASSUME NEW q \in Requests' PROVE Meant(q)'
  BY <1>1, <1>2 DEF IInv, Meant, taskVars, resumerVars
<1>5. Due'
  BY <1>1 DEF IInv, Due
<1>6. UnderWay' /\ Suspended'
  BY <1>1, SuspendedSame
<1>7. Early'
  <2>1. /\ early' \subseteq Task
        /\ \A u \in early' : \/ task'[u] \in {"sleeping", "scheduled"}
                             \/ \E q \in Requests' : q.for = u /\ q.coro = NoTask
    BY <1>1, <1>2 DEF IInv, Early, taskVars
  <2>2. ASSUME NEW i \in DOMAIN list', list'[i].for \in early'
        PROVE  list'[i].at > now' \/ i <= left'
    <3>1. /\ Tail(list) \in Seq(Request) /\ Len(Tail(list)) = Len(list) - 1
          /\ \A j \in 1 .. Len(Tail(list)) : Tail(list)[j] = list[j + 1]
          /\ Len(list) \in Nat /\ DOMAIN list = 1 .. Len(list) /\ left \in Nat
      BY <1>1, HeadTailProperties, LenProperties DEF IInv, TypeOK
    <3>2. i \in 1 .. Len(list) - 1
      BY <1>1, <3>1, LenProperties
    <3>3. i + 1 \in DOMAIN list /\ list'[i] = list[i + 1]
      BY <1>1, <3>1, <3>2
    <3>4. list[i + 1].at > now \/ i + 1 <= left
      BY <1>1, <2>2, <3>3 DEF IInv, Early
    <3>5. QED
      BY <1>1, <3>1, <3>2, <3>3, <3>4
  <2>3. QED
    BY <1>1, <2>1, <2>2 DEF Early
<1>8. QED
  BY <1>2, <1>3, <1>4, <1>5, <1>6, <1>7 DEF IInv

\* Sort puts it back or makes it run; it is dropped only when it is to wait and
\* an interrupt has filled its place.
LEMMA SortStored ==
    ASSUME IInv, Sort
    PROVE  /\ Stored' /\ Requests' \subseteq Requests
           /\ popped[1] \in Request /\ popped[1] \in Requests
           /\ Requests \subseteq Requests' \cup {popped[1]}
           /\ Len(list) < Capacity \/ ~Future(popped[1]) => Requests' = Requests
<1> DEFINE q == popped[1]
<1>1. q \in Request /\ Range(popped) = {q}
  BY RequestType DEF IInv, Sort
<1>2. popped' = <<>> /\ Range(popped') = {}
  BY EmptySeq, LenProperties DEF Sort, Range
<1>3. /\ list \in Seq(Request) /\ IsInjective(list) /\ q \notin Range(list)
      /\ handles \in Seq(Request) /\ IsInjective(handles) /\ q \notin Range(handles)
      /\ q \in Requests
  BY <1>1 DEF IInv, TypeOK, Stored, Requests
<1> HIDE DEF q
<1>4. CASE list' = Append(list, q) /\ handles' = handles
  <2>1. IsInjective(list') /\ Range(list') = Range(list) \cup {q}
    BY <1>1, <1>3, <1>4, AppendFacts
  <2>2. Requests' = Requests
    BY <1>1, <1>2, <1>4, <2>1 DEF Requests
  <2>3. Stored'
    BY <1>1, <1>2, <1>3, <1>4, <2>1, <2>2 DEF IInv, Stored
  <2>4. QED
    BY <1>1, <1>3, <2>2, <2>3 DEF q
<1>5. CASE list' = list /\ handles' = Append(handles, q)
  <2>1. IsInjective(handles') /\ Range(handles') = Range(handles) \cup {q}
    BY <1>1, <1>3, <1>5, AppendFacts
  <2>2. Requests' = Requests
    BY <1>1, <1>2, <1>5, <2>1 DEF Requests
  <2>3. Stored'
    BY <1>1, <1>2, <1>3, <1>5, <2>1, <2>2 DEF IInv, Stored
  <2>4. QED
    BY <1>1, <1>3, <2>2, <2>3 DEF q
<1>6. CASE list' = list /\ handles' = handles /\ Future(q) /\ ~(Len(list) < Capacity)
  <2>1. Requests' \subseteq Requests /\ Requests \subseteq Requests' \cup {q}
    BY <1>1, <1>2, <1>6 DEF Requests
  <2>2. Stored'
    BY <1>1, <1>2, <1>3, <1>6, <2>1 DEF IInv, Stored
  <2>3. QED
    BY <1>1, <1>3, <1>6, <2>1, <2>2 DEF q
<1>7. QED
  BY <1>4, <1>5, <1>6 DEF Sort, Pushed, q

LEMMA SortStep == ASSUME IInv, TypeOK', OnePopped', Sort PROVE IInv'
<1> DEFINE q == popped[1]
<1>1. /\ pc = "popped" /\ pc' = "scan"
      /\ IF Future(q) THEN list' = Pushed(q) /\ UNCHANGED handles
                      ELSE handles' = Append(handles, q) /\ UNCHANGED list
      /\ UNCHANGED <<finished, left, now, clock, early, resumerVars, taskVars>>
  BY DEF Sort
<1>2. /\ Stored' /\ Requests' \subseteq Requests /\ q \in Request /\ q \in Requests
      /\ Requests \subseteq Requests' \cup {q}
      /\ ~Future(q) => Requests' = Requests
  BY SortStored
<1> HIDE DEF q
<1>3. Flow'
  BY <1>1 DEF IInv, Flow, taskVars
<1>4. ASSUME NEW p \in Requests' PROVE Meant(p)'
  BY <1>1, <1>2, <1>4 DEF IInv, Meant, taskVars, resumerVars
<1>5. Due'
  <2>1. CASE Future(q)
    BY <1>1, <2>1 DEF IInv, Due
  <2>2. CASE ~Future(q)
    <3>1. q \notin Range(handles) /\ IsInjective(handles) /\ handles \in Seq(Request)
      <4>1. Range(popped) = {q}
        BY <1>1, RequestType DEF IInv, q
      <4>2. QED
        BY <4>1 DEF IInv, Stored, TypeOK
    <3>2. Range(handles') = Range(handles) \cup {q}
      <4>1. handles' = Append(handles, q)
        BY <1>1, <2>2
      <4>2. QED
        BY <1>2, <3>1, <4>1, AppendFacts
    <3>3. q.at <= now
      BY <1>2, <2>2 DEF Future, Request, IInv, TypeOK
    <3>4. QED
      BY <1>1, <3>2, <3>3 DEF IInv, Due
  <2>3. QED
    BY <2>1, <2>2
<1>6. UnderWay' /\ Suspended'
  BY <1>1, SuspendedSame
<1>7. Early'
  <2>1. ASSUME NEW u \in early', task'[u] \notin {"sleeping", "scheduled"}
        PROVE  \E p \in Requests' : p.for = u /\ p.coro = NoTask
    <3>1. PICK p \in Requests : p.for = u /\ p.coro = NoTask
      BY <1>1, <2>1 DEF IInv, Early, taskVars
    <3>2. p.for \in Task /\ p.at \in Int /\ now \in Nat
      BY RequestsType DEF IInv, TypeOK
    <3>3. p.at <= now
      BY <3>1, <3>2, TaskAssumption DEF IInv, Meant
    <3>4. p = q => ~Future(q)
      BY <3>2, <3>3 DEF Future
    <3>5. QED
      BY <1>2, <3>1, <3>4
  <2>2. ASSUME NEW i \in DOMAIN list', list'[i].for \in early'
        PROVE  list'[i].at > now' \/ i <= left'
    <3>1. (i \in DOMAIN list /\ list'[i] = list[i]) \/ (Future(q) /\ list'[i] = q)
      BY <1>1, <1>2, PushedFacts DEF IInv
    <3>2. QED
      BY <1>1, <2>2, <3>1 DEF IInv, Early, Future
  <2>3. early' \subseteq Task
    BY <1>1 DEF IInv, Early
  <2>4. QED
    BY <1>1, <2>1, <2>2, <2>3 DEF Early
<1>8. QED
  BY <1>2, <1>3, <1>4, <1>5, <1>6, <1>7 DEF IInv

\* Resume takes a request out of handles, and no other is of its coroutine.
LEMMA ResumeStored ==
    ASSUME IInv, Resume
    PROVE  /\ Stored' /\ Head(handles) \in Requests
           /\ Requests' = Requests \ {Head(handles)}
           /\ Range(handles') \subseteq Range(handles)
           /\ \A q \in Requests' : q.for # Head(handles).for
<1>1. /\ handles # <<>> /\ handles' = Tail(handles)
      /\ UNCHANGED <<list, popped>>
  BY DEF Resume
<1>2. /\ Head(handles) \in Range(handles) /\ IsInjective(Tail(handles))
      /\ Range(Tail(handles)) = Range(handles) \ {Head(handles)}
  BY <1>1, TailFacts DEF IInv, TypeOK, Stored
<1>3. Head(handles) \in Requests /\ Requests' = Requests \ {Head(handles)}
  BY <1>1, <1>2 DEF IInv, Stored, Requests
<1>4. Stored'
  BY <1>1, <1>2, <1>3 DEF IInv, Stored
<1>5. \A q \in Requests' : q.for # Head(handles).for
  BY <1>3 DEF IInv, Stored
<1>6. QED
  BY <1>1, <1>2, <1>3, <1>4, <1>5

LEMMA ResumeStep == ASSUME IInv, TypeOK', OnePopped', Resume PROVE IInv'
<1> DEFINE q == Head(handles)
<1>1. /\ pc = "resume" /\ running = NoTask /\ early' = early \ {q.for}
      /\ \/ /\ q.coro = NoTask
            /\ pc' = "crashed"
            /\ UNCHANGED <<running, task>>
         \/ /\ q.coro # NoTask
            /\ running' = q.coro
            /\ task' = [task EXCEPT ![q.coro] = "running"]
            /\ UNCHANGED pc
      /\ UNCHANGED <<list, finished, left, popped, now, clock, resumerVars, wake, awaited>>
  BY DEF Resume
<1>2. /\ Stored' /\ q \in Requests /\ Requests' = Requests \ {q}
      /\ Range(handles') \subseteq Range(handles)
      /\ \A p \in Requests' : p.for # q.for
  BY ResumeStored
<1>3. /\ q.for \in Task
      /\ \A p \in Requests : p.for \in Task /\ p.at \in Int
      /\ now \in Nat
  BY <1>2, RequestsType DEF IInv, TypeOK
<1> HIDE DEF q
<1>4. Due'
  BY <1>1, <1>2 DEF IInv, Due
<1>5. CASE q.coro = NoTask
  <2>1. pc' = "crashed" /\ UNCHANGED <<running, task>>
    BY <1>1, <1>5
  <2>2. Flow'
    BY <1>1, <2>1 DEF IInv, Flow
  <2>3. \A p \in Requests' : Meant(p)'
    BY <1>1, <1>2, <2>1 DEF IInv, Meant, resumerVars
  <2>4. UnderWay' /\ Suspended'
    BY <1>1, <2>1, SuspendedSame DEF taskVars
  <2>5. Early'
    BY <1>1, <1>2, <2>1 DEF IInv, Early
  <2>6. QED
    BY <1>2, <1>4, <2>2, <2>3, <2>4, <2>5 DEF IInv
<1>6. CASE q.coro # NoTask
  <2>1. q.coro = q.for /\ task[q.for] \in {"sleeping", "scheduled"}
    BY <1>2, <1>6 DEF IInv, Meant
  <2>2. /\ running' = q.for /\ pc' = pc
        /\ \A u \in Task : task'[u] = IF u = q.for THEN "running" ELSE task[u]
    BY <1>1, <1>6, <2>1 DEF IInv, TypeOK
  <2>3. Flow'
    BY <1>1, <1>3, <2>2, TaskAssumption DEF IInv, Flow
  <2>4. ASSUME NEW p \in Requests' PROVE Meant(p)'
    BY <1>1, <1>2, <1>3, <2>2, MeantKept DEF resumerVars
  <2>5. UnderWay' /\ Suspended'
    BY <1>1, <1>3, <2>1, <2>2, NobodyResumes, SuspendedKept DEF resumerVars
  <2>6. Early'
    <3>1. ASSUME NEW u \in early'
          PROVE  \/ task'[u] \in {"sleeping", "scheduled"}
                 \/ \E p \in Requests' : p.for = u /\ p.coro = NoTask
      <4>1. u \in early /\ u # q.for /\ u \in Task
        BY <1>1, <3>1 DEF IInv, Early
      <4>2. QED
        BY <1>2, <2>2, <4>1 DEF IInv, Early
    <3>2. QED
      BY <1>1, <2>2, <3>1 DEF IInv, Early
  <2>7. QED
    BY <1>2, <1>4, <2>3, <2>4, <2>5, <2>6 DEF IInv
<1>7. QED
  BY <1>5, <1>6

-----------------------------------------------------------------------------
(* The steps of the coroutines, of interrupts and of time. *)

\* Whoever goes to sleep has no request yet.
LEMMA SleepStored ==
    ASSUME IInv, NEW t \in Task, NEW d \in Delay, SleepFor(t, d)
    PROVE  \E q \in Request :
              /\ q.at = now + d /\ q.for = t /\ q.coro = t
              /\ list' = Pushed(q) /\ UNCHANGED <<popped, handles>>
              /\ \A p \in Requests : p.for # t
<1> DEFINE q == [at |-> now + d, for |-> t, coro |-> t]
<1>1. q \in Request
  BY TimeAssumption DEF Request, IInv, TypeOK
<1>2. list' = Pushed(q) /\ UNCHANGED <<popped, handles>> /\ task[t] = "running"
  BY DEF SleepFor, Runs
<1>3. \A p \in Requests : p.for # t
  BY <1>2, Running
<1>4. WITNESS q \in Request
<1>5. QED
  BY <1>2, <1>3

LEMMA SleepStep ==
    ASSUME IInv, TypeOK', OnePopped', NEW t \in Task, NEW d \in Delay, SleepFor(t, d)
    PROVE  IInv'
<1>0. \A r \in Resumer : resuming[r] = "no"
  BY NobodyResumes DEF SleepFor
<1>1. /\ running = t /\ task[t] = "running" /\ running' = NoTask
      /\ wake' = [wake EXCEPT ![t] = now + d]
      /\ task' = [task EXCEPT ![t] = "sleeping"]
      /\ UNCHANGED <<finished, left, popped, handles, now, clock, pc, early,
                     resumerVars, awaited>>
  BY DEF SleepFor, Runs
<1>2. PICK q \in Request :
          /\ q.at = now + d /\ q.for = t /\ q.coro = t
          /\ list' = Pushed(q) /\ UNCHANGED <<popped, handles>>
          /\ \A p \in Requests : p.for # t
  BY SleepStored
<1>3. Stored' /\ Requests \subseteq Requests' /\ Requests' \subseteq Requests \cup {q}
  BY <1>2, PushedStored
<1>4. /\ \A u \in Task : task'[u] = IF u = t THEN "sleeping" ELSE task[u]
      /\ \A u \in Task : wake'[u] = IF u = t THEN now + d ELSE wake[u]
      /\ now \in Nat
  BY <1>1 DEF IInv, TypeOK
<1>5. Flow'
  BY <1>1, <1>4, TaskAssumption DEF IInv, Flow
<1>6. ASSUME NEW p \in Requests' PROVE Meant(p)'
  <2>1. CASE p = q
    BY <1>2, <1>4, <2>1 DEF Meant
  <2>2. CASE p \in Requests
    <3>1. p.for \in Task /\ p.at \in Int /\ p.for # t
      BY <1>2, <2>2, RequestsType DEF IInv
    <3>2. QED
      BY <1>1, <1>4, <2>2, <3>1, MeantKept DEF resumerVars
  <2>3. QED
    BY <1>3, <2>1, <2>2
<1>7. Due'
  BY <1>1 DEF IInv, Due
<1>8. UnderWay' /\ Suspended'
  BY <1>1, <1>4, <1>0, SuspendedKept DEF resumerVars
<1>9. Early'
  <2>1. t \notin early
    BY <1>1, Running
  <2>2. QED
    BY <1>1, <1>2, <1>3, <1>4, <2>1, PushedEarly
<1>10. QED
  BY <1>3, <1>5, <1>6, <1>7, <1>8, <1>9 DEF IInv

LEMMA FinishStep ==
    ASSUME IInv, TypeOK', OnePopped', NEW t \in Task, Finish(t)
    PROVE  IInv'
<1>0. \A r \in Resumer : resuming[r] = "no"
  BY NobodyResumes DEF Finish
<1>1. /\ running = t /\ task[t] = "running" /\ running' = NoTask
      /\ task' = [task EXCEPT ![t] = "done"]
      /\ UNCHANGED <<loopVars, resumerVars, wake, awaited>>
  BY DEF Finish, Runs
<1>2. \A u \in Task : task'[u] = IF u = t THEN "done" ELSE task[u]
  BY <1>1 DEF IInv, TypeOK
<1>3. Flow'
  BY <1>1, <1>2, TaskAssumption DEF IInv, Flow, loopVars
<1>4. Stored' /\ Requests' = Requests
  BY <1>1, StoredKept DEF loopVars
<1>5. ASSUME NEW q \in Requests' PROVE Meant(q)'
  <2>1. q \in Requests /\ q.for # t /\ q.for \in Task /\ q.at \in Int
    BY <1>1, <1>4, RequestsType, Running DEF IInv
  <2>2. now' \in Nat /\ now <= now'
    BY <1>1 DEF IInv, TypeOK, loopVars
  <2>3. QED
    BY <1>1, <1>2, <2>1, <2>2, MeantKept DEF resumerVars
<1>6. Due'
  BY <1>1 DEF IInv, Due, loopVars
<1>7. UnderWay' /\ Suspended'
  BY <1>1, <1>2, <1>0, SuspendedKept DEF resumerVars
<1>8. Early'
  BY <1>1, <1>2, EarlyKept DEF loopVars
<1>9. QED
  BY <1>3, <1>4, <1>5, <1>6, <1>7, <1>8 DEF IInv

\* The second half of await_suspend: nobody else awaits, as t runs.
LEMMA SuspendStep ==
    ASSUME IInv, TypeOK', OnePopped', NEW t \in Task, Suspend(t)
    PROVE  IInv'
<1>1. /\ task[t] = "suspending" /\ running' = NoTask
      /\ handle' = [r \in Resumer |-> IF r \in awaited[t] THEN t ELSE handle[r]]
      /\ task' = [task EXCEPT ![t] = "waiting"]
      /\ UNCHANGED <<loopVars, waiter, value, resuming, readNothing, wake, awaited>>
      /\ \A r \in Resumer : resuming[r] = "no"
  BY NobodyResumes DEF Suspend
<1>2. PICK r \in Awaits[t] : awaited[t] = {r}
  BY <1>1 DEF IInv, Suspended
<1>3. /\ \A u \in Task : task'[u] = IF u = t THEN "waiting" ELSE task[u]
      /\ \A s \in Resumer : handle'[s] = IF s = r THEN t ELSE handle[s]
  BY <1>1, <1>2 DEF IInv, TypeOK
<1>4. running = t /\ \A u \in Task : task[u] = "suspending" => u = t
  BY <1>1 DEF IInv, Flow
<1>5. Flow'
  BY <1>1, <1>3, <1>4, TaskAssumption DEF IInv, Flow, loopVars
<1>6. Stored' /\ Requests' = Requests
  BY <1>1, StoredKept DEF loopVars
<1>7. ASSUME NEW q \in Requests' PROVE Meant(q)'
  <2>1. q \in Requests /\ q.for \in Task
    BY <1>6, RequestsType DEF IInv
  <2>2. QED
    BY <1>1, <1>3, <2>1 DEF IInv, Meant, loopVars
<1>8. Due'
  BY <1>1 DEF IInv, Due, loopVars
<1>9. UnderWay' /\ Suspended'
  <2>1. \A u \in Task : task'[u] \in {"suspending", "waiting"} =>
            \E s \in Awaits[u] : awaited'[u] = {s}
    BY <1>1, <1>3 DEF IInv, Suspended
  <2>2. \A u \in Task : task'[u] = "suspending" => Isr \/ \A s \in awaited'[u] : waiter'[s]
    BY <1>3, <1>4
  <2>3. ASSUME NEW s \in Resumer, waiter'[s] PROVE \E u \in Task : Owns(u, s)'
    <3>1. PICK u \in Task : Owns(u, s)
      BY <1>1, <2>3 DEF IInv, Suspended
    <3>2. CASE s = r
      <4>1. Owns(t, s)'
        BY <1>1, <1>2, <1>3, <3>2 DEF Owns, Held
      <4>2. QED
        BY <4>1
    <3>3. CASE s # r
      <4>1. u # t
        BY <1>2, <3>1, <3>3 DEF Owns
      <4>2. Owns(u, s)'
        BY <1>1, <1>3, <3>1, <3>3, <4>1 DEF Owns, Held
      <4>3. QED
        BY <4>2
    <3>4. QED
      BY <3>2, <3>3
  <2>4. ASSUME NEW s \in Resumer, handle'[s] # NoTask
        PROVE  /\ awaited'[handle'[s]] = {s}
               /\ task'[handle'[s]] = Held(s)'
               /\ waiter'[s] \/ Isr
    <3>1. CASE s = r
      BY <1>1, <1>2, <1>3, <3>1 DEF IInv, Suspended, Held
    <3>2. CASE s # r
      BY <1>1, <1>3, <2>4, <3>2 DEF IInv, Suspended, TypeOK, Held
    <3>3. QED
      BY <3>1, <3>2
  <2>5. UnderWay'
    BY <1>1 DEF UnderWay
  <2>6. QED
    BY <2>1, <2>2, <2>3, <2>4, <2>5 DEF Suspended
<1>10. Early'
  BY <1>1, <1>3, EarlyKept DEF loopVars
<1>11. QED
  BY <1>5, <1>6, <1>7, <1>8, <1>9, <1>10 DEF IInv

\* A coroutine that awaits a resumer without a waiter finds no handle left in it.
LEMMA AwaitsFresh ==
    ASSUME IInv, OneAtATime, NEW t \in Task, NEW r \in Resumer, r \in Awaits[t],
           task[t] = "running", ~waiter[r], \A s \in Resumer : resuming[s] = "no"
    PROVE  /\ handle[r] = NoTask
           /\ Isr => \A u \in Task : task[u] \in {"suspending", "waiting"} => r \notin awaited[u]
<1>1. ASSUME Isr, NEW u \in Task, task[u] \in {"suspending", "waiting"}, r \in awaited[u]
      PROVE  FALSE
  <2>1. r \in Awaits[u] /\ u # t
    BY <1>1 DEF IInv, Suspended
  <2>2. QED
    BY <1>1, <2>1 DEF OneAtATime, Exclusive
<1>2. ASSUME handle[r] # NoTask PROVE FALSE
  <2>1. /\ Isr /\ handle[r] \in Task
        /\ awaited[handle[r]] = {r} /\ task[handle[r]] = "waiting"
    BY <1>2 DEF IInv, Suspended, TypeOK, Held
  <2>2. QED
    BY <1>1, <2>1
<1>3. QED
  BY <1>1, <1>2

LEMMA AwaitStep ==
    ASSUME IInv, OneAtATime, TypeOK', OnePopped',
           NEW t \in Task, NEW r \in Resumer, Await(t, r)
    PROVE  IInv'
<1>1. /\ running = t /\ task[t] = "running" /\ r \in Awaits[t]
      /\ \/ /\ waiter[r]
            /\ UNCHANGED <<waiter, task, awaited>>
         \/ /\ ~waiter[r]
            /\ waiter' = [waiter EXCEPT ![r] = TRUE]
            /\ task' = [task EXCEPT ![t] = "suspending"]
            /\ awaited' = [awaited EXCEPT ![t] = {r}]
      /\ UNCHANGED <<loopVars, handle, value, resuming, wake, running>>
      /\ \A s \in Resumer : resuming[s] = "no"
  BY DEF Await, Runs, await_ready
<1>2. Stored' /\ Requests' = Requests
  BY <1>1, StoredKept DEF loopVars
<1>3. Due'
  BY <1>1 DEF IInv, Due, loopVars
<1>4. CASE UNCHANGED <<waiter, task, awaited>>
  <2>1. Flow' /\ \A q \in Requests' : Meant(q)'
    BY <1>1, <1>2, <1>4 DEF IInv, Flow, Meant, loopVars
  <2>2. UnderWay' /\ Suspended'
    BY <1>1, <1>4 DEF IInv, UnderWay, Suspended, Owns, Held
  <2>3. Early'
    BY <1>1, <1>4, EarlyKept DEF loopVars
  <2>4. QED
    BY <1>2, <1>3, <2>1, <2>2, <2>3 DEF IInv
<1>5. CASE /\ ~waiter[r]
           /\ waiter' = [waiter EXCEPT ![r] = TRUE]
           /\ task' = [task EXCEPT ![t] = "suspending"]
           /\ awaited' = [awaited EXCEPT ![t] = {r}]
  <2>1. /\ handle[r] = NoTask
        /\ Isr => \A u \in Task : task[u] \in {"suspending", "waiting"} => r \notin awaited[u]
    BY <1>1, <1>5, AwaitsFresh
  <2>2. /\ \A u \in Task : task'[u] = IF u = t THEN "suspending" ELSE task[u]
        /\ \A u \in Task : awaited'[u] = IF u = t THEN {r} ELSE awaited[u]
        /\ \A s \in Resumer : waiter'[s] = IF s = r THEN TRUE ELSE waiter[s]
    BY <1>5 DEF IInv, TypeOK
  <2>3. Flow'
    BY <1>1, <2>2 DEF IInv, Flow, loopVars
  <2>4. ASSUME NEW q \in Requests' PROVE Meant(q)'
    <3>1. q \in Requests /\ q.for # t /\ q.for \in Task /\ q.at \in Int
      BY <1>1, <1>2, RequestsType, Running DEF IInv
    <3>2. awaited[q.for] \subseteq Resumer
      BY <3>1 DEF IInv, TypeOK
    <3>3. q.coro = NoTask => \A s \in awaited[q.for] : waiter'[s] => waiter[s]
      BY <2>1, <2>2, <3>1, <3>2, TaskAssumption DEF IInv, Meant
    <3>4. now' \in Nat /\ now <= now'
      BY <1>1 DEF IInv, TypeOK, loopVars
    <3>5. QED
      BY <1>1, <2>2, <3>1, <3>3, <3>4, MeantKept
  <2>5. UnderWay' /\ Suspended'
    <3>1. \A u \in Task : task'[u] \in {"suspending", "waiting"} =>
              \E s \in Awaits[u] : awaited'[u] = {s}
      BY <1>1, <2>2 DEF IInv, Suspended
    <3>2. ASSUME NEW u \in Task, task'[u] = "suspending", ~Isr, NEW s \in awaited'[u]
          PROVE  waiter'[s]
      <4>1. task[u] # "suspending"
        BY <1>1 DEF IInv, Flow
      <4>2. u = t /\ s = r
        BY <2>2, <3>2, <4>1
      <4>3. QED
        BY <2>2, <4>2
    <3>3. ASSUME NEW s \in Resumer, waiter'[s] PROVE \E u \in Task : Owns(u, s)'
      <4>1. CASE s = r
        <5>1. Owns(t, s)'
          BY <1>1, <2>1, <2>2, <4>1 DEF Owns, Held
        <5>2. QED
          BY <5>1
      <4>2. CASE s # r
        <5>1. PICK u \in Task : Owns(u, s)
          BY <2>2, <3>3, <4>2 DEF IInv, Suspended
        <5>2. u # t
          BY <1>1, <5>1 DEF Owns, Held
        <5>3. Owns(u, s)'
          BY <1>1, <2>2, <5>1, <5>2 DEF Owns, Held
        <5>4. QED
          BY <5>3
      <4>3. QED
        BY <4>1, <4>2
    <3>4. ASSUME NEW s \in Resumer, handle'[s] # NoTask
          PROVE  /\ awaited'[handle'[s]] = {s}
                 /\ task'[handle'[s]] = Held(s)'
                 /\ waiter'[s] \/ Isr
      <4>1. handle[s] \in Task /\ task[handle[s]] = "waiting" /\ handle'[s] = handle[s]
        BY <1>1, <3>4 DEF IInv, Suspended, TypeOK, Held
      <4>2. handle[s] # t /\ s # r
        BY <1>1, <2>1, <4>1, <3>4
      <4>3. QED
        BY <1>1, <2>2, <3>4, <4>1, <4>2 DEF IInv, Suspended, Held
    <3>5. UnderWay'
      BY <1>1 DEF UnderWay
    <3>6. QED
      BY <3>1, <3>2, <3>3, <3>4, <3>5 DEF Suspended
  <2>6. Early'
    <3>1. \A u \in early : task[u] \in {"sleeping", "scheduled"} => task'[u] = task[u]
      BY <1>1, <2>2 DEF IInv, Early
    <3>2. UNCHANGED <<list, popped, handles, pc, early, left, now>>
      BY <1>1 DEF loopVars
    <3>3. QED
      BY <3>1, <3>2, EarlyKept
  <2>7. QED
    BY <1>2, <1>3, <2>3, <2>4, <2>5, <2>6 DEF IInv
<1>6. QED
  BY <1>1, <1>4, <1>5

\* A value is for the coroutine that the resumer has or is about to have as its
\* waiter, and that has no request yet.
LEMMA HandedStored ==
    ASSUME IInv, OneAtATime, NEW r \in Resumer, HandOver(r) \/ Interrupt(r)
    PROVE  \E t \in Task : \E q \in Request :
              /\ awaited[t] = {r}
              /\ \/ handle[r] = t /\ task[t] = "waiting"
                 \/ /\ handle[r] = NoTask /\ task[t] = "suspending"
                    /\ Isr /\ Interrupt(r)
              /\ q.at = now - 1 /\ q.for = t /\ q.coro = handle[r]
              /\ list' = Pushed(q)
              /\ task' = [u \in Task |-> IF u = handle[r] THEN "scheduled" ELSE task[u]]
              /\ \A p \in Requests : p.for # t
              /\ t \notin early
<1>1. /\ waiter[r] /\ Handed(r) /\ Held(r) = "waiting"
      /\ (Isr /\ Interrupt(r)) \/ (running \in Task /\ task[running] = "running")
  <2>1. CASE HandOver(r)
    BY <2>1 DEF HandOver, Held, IInv, UnderWay
  <2>2. CASE Interrupt(r)
    BY <2>2 DEF Interrupt, await_ready, Held, Isr, IInv, UnderWay, OneAtATime
  <2>3. QED
    BY <2>1, <2>2
<1>2. PICK u \in Task : Owns(u, r)
  BY <1>1 DEF IInv, Suspended
<1>3. Waits(u, r)
  BY <1>2 DEF Owns, Waits
<1>4. PICK t \in Task :
          /\ Waits(t, r)
          /\ list' = Pushed([at |-> now - 1, for |-> t, coro |-> handle[r]])
  BY <1>1, <1>3 DEF Handed, Awaiting
<1>5. /\ awaited[t] = {r}
      /\ \/ handle[r] = t /\ task[t] = "waiting"
         \/ handle[r] = NoTask /\ task[t] = "suspending" /\ Isr /\ Interrupt(r)
  <2>1. CASE handle[r] = t
    BY <1>1, <1>2, <2>1, TaskAssumption DEF Owns
  <2>2. CASE handle[r] # t
    <3>1. /\ handle[r] = NoTask /\ awaited[t] = {r}
          /\ task[t] \in {"suspending", "waiting"}
      BY <1>4, <2>2 DEF Waits
    <3>2. task[u] = "suspending" /\ awaited[u] = {r}
      BY <1>2, <3>1, TaskAssumption DEF Owns
    <3>3. Isr /\ Interrupt(r)
      BY <1>1, <3>2 DEF IInv, Flow
    <3>4. r \in Awaits[t] /\ r \in Awaits[u]
      BY <3>1, <3>2 DEF IInv, Suspended
    <3>5. t = u
      BY <3>3, <3>4 DEF OneAtATime, Exclusive
    <3>6. QED
      BY <3>1, <3>2, <3>3, <3>5
  <2>3. QED
    BY <2>1, <2>2
<1>6. \A p \in Requests : p.for # t
  BY <1>1, <1>5 DEF IInv, Meant
<1>7. t \notin early
  BY <1>5, <1>6 DEF IInv, Early
<1> DEFINE q == [at |-> now - 1, for |-> t, coro |-> handle[r]]
<1>8. q \in Request
  BY DEF Request, IInv, TypeOK
<1>9. q.at = now - 1 /\ q.for = t /\ q.coro = handle[r]
  OBVIOUS
<1> HIDE DEF q
<1>10. list' = Pushed(q)
  BY <1>4 DEF q
<1>11. task' = [v \in Task |-> IF v = handle[r] THEN "scheduled" ELSE task[v]]
  BY <1>1 DEF Handed
<1>12. QED
  BY <1>5, <1>6, <1>7, <1>8, <1>9, <1>10, <1>11

LEMMA HandedStep ==
    ASSUME IInv, OneAtATime, TypeOK', OnePopped', NEW r \in Resumer,
           HandOver(r) \/ Interrupt(r)
    PROVE  IInv'
<1>1. /\ waiter[r] /\ resuming[r] \in {"no", "tested"}
      /\ UNCHANGED <<finished, left, popped, handles, now, clock, pc, early,
                     readNothing, wake, awaited, running>>
  BY DEF HandOver, Interrupt, Handed, await_ready, IInv, UnderWay, OneAtATime
<1>2. PICK t \in Task : \E q \in Request :
          /\ awaited[t] = {r}
          /\ \/ handle[r] = t /\ task[t] = "waiting"
             \/ handle[r] = NoTask /\ task[t] = "suspending" /\ Isr /\ Interrupt(r)
          /\ q.at = now - 1 /\ q.for = t /\ q.coro = handle[r]
          /\ list' = Pushed(q)
          /\ task' = [u \in Task |-> IF u = handle[r] THEN "scheduled" ELSE task[u]]
          /\ \A p \in Requests : p.for # t
          /\ t \notin early
  BY HandedStored
<1>3. PICK q \in Request :
          /\ q.at = now - 1 /\ q.for = t /\ q.coro = handle[r]
          /\ list' = Pushed(q)
          /\ \A p \in Requests : p.for # t
  BY <1>2
<1>4. Stored' /\ Requests \subseteq Requests' /\ Requests' \subseteq Requests \cup {q}
  BY <1>1, <1>3, PushedStored
<1>5. /\ awaited[t] = {r} /\ t \notin early
      /\ \/ handle[r] = t /\ task[t] = "waiting" /\ task'[t] = "scheduled"
         \/ /\ handle[r] = NoTask /\ task[t] = "suspending"
            /\ task'[t] = "suspending" /\ Isr /\ Interrupt(r)
  BY <1>2, TaskAssumption
<1>6. \A u \in Task \ {t} : task'[u] = task[u]
  BY <1>2, TaskAssumption
<1>7. \A s \in Resumer \ {r} :
          waiter'[s] = waiter[s] /\ handle'[s] = handle[s] /\ resuming'[s] = resuming[s]
  BY DEF HandOver, Interrupt, Cleared, IInv, TypeOK
<1>8. \/ ~waiter'[r] /\ handle'[r] = NoTask /\ resuming'[r] = "no"
      \/ /\ handle[r] = t /\ resuming[r] = "tested"
         /\ waiter'[r] /\ handle'[r] = t /\ resuming'[r] = "pushed"
  <2>1. CASE Interrupt(r)
    BY <2>1 DEF Interrupt, Cleared, IInv, TypeOK, UnderWay, OneAtATime
  <2>2. CASE HandOver(r) /\ ~Interrupt(r)
    <3>1. handle[r] = t
      BY <1>5, <2>2
    <3>2. /\ resuming[r] = "tested" /\ UNCHANGED <<waiter, handle>>
          /\ resuming' = [resuming EXCEPT ![r] = "pushed"]
      BY <2>2 DEF HandOver
    <3>3. QED
      BY <1>1, <3>1, <3>2 DEF IInv, TypeOK
  <2>3. QED
    BY <2>1, <2>2
<1>9. Flow'
  <2>1. \A u \in Task : running' = u <=> task'[u] \in {"running", "suspending"}
    BY <1>1, <1>5, <1>6 DEF IInv, Flow
  <2>2. QED
    BY <1>1, <2>1 DEF IInv, Flow
<1>10. ASSUME NEW p \in Requests' PROVE Meant(p)'
  <2>1. CASE p = q
    <3>1. CASE handle[r] = t
      BY <1>3, <1>5, <2>1, <3>1, TaskAssumption DEF Meant
    <3>2. CASE handle[r] # t
      <4>1. /\ Isr /\ q.coro = NoTask /\ task'[q.for] \in {"suspending", "waiting"}
            /\ q.for = t
        BY <1>3, <1>5, <3>2
      <4>2. \A s \in awaited'[q.for] : ~waiter'[s]
        BY <1>1, <1>5, <1>8, <3>2, <4>1
      <4>3. q.at <= now'
        BY <1>1, <1>3 DEF IInv, TypeOK
      <4>4. QED
        BY <2>1, <4>1, <4>2, <4>3 DEF Meant
    <3>3. QED
      BY <3>1, <3>2
  <2>2. CASE p \in Requests
    <3>1. p.for \in Task /\ p.at \in Int /\ p.for # t
      BY <1>3, <2>2, RequestsType
    <3>2. \A s \in awaited[p.for] : waiter'[s] => waiter[s]
      BY <1>1, <1>7, <3>1 DEF IInv, TypeOK
    <3>3. now' \in Nat /\ now <= now'
      BY <1>1 DEF IInv, TypeOK
    <3>4. QED
      BY <1>1, <1>6, <2>2, <3>1, <3>2, <3>3, MeantKept
  <2>3. QED
    BY <1>4, <2>1, <2>2
<1>11. Due'
  BY <1>1 DEF IInv, Due
<1>12. UnderWay'
  <2>1. SUFFICES ASSUME NEW s \in Resumer, resuming'[s] # "no"
                 PROVE  /\ s \in ByTask /\ waiter'[s] /\ resuming'[s] # "spins"
                        /\ running' \in Task /\ task'[running'] = "running"
    BY DEF UnderWay
  <2>2. resuming[s] # "no"
    BY <1>7, <1>8, <2>1
  <2>3. /\ s \in ByTask /\ waiter[s] /\ resuming[s] # "spins"
        /\ running \in Task /\ task[running] = "running"
    BY <2>2 DEF IInv, UnderWay
  <2>4. QED
    BY <1>1, <1>5, <1>6, <1>7, <1>8, <2>1, <2>3
<1>13. Suspended'
  <2>1. \A u \in Task : task'[u] \in {"suspending", "waiting"} =>
            \E s \in Awaits[u] : awaited'[u] = {s}
    BY <1>1, <1>5, <1>6 DEF IInv, Suspended
  <2>2. ASSUME NEW u \in Task, task'[u] = "suspending"
        PROVE  Isr \/ \A s \in awaited'[u] : waiter'[s]
    <3>1. CASE HandOver(r)
      <4>1. task[running] = "running" /\ running \in Task
        BY <3>1 DEF HandOver, IInv, UnderWay
      <4>2. task[u] # "suspending"
        BY <4>1 DEF IInv, Flow
      <4>3. QED
        BY <1>5, <1>6, <2>2, <4>2
    <3>2. CASE Interrupt(r)
      BY <3>2 DEF Interrupt, Isr
    <3>3. QED
      BY <3>1, <3>2
  <2>3. ASSUME NEW s \in Resumer, waiter'[s] PROVE \E u \in Task : Owns(u, s)'
    <3>1. CASE s = r
      <4>1. Owns(t, s)'
        BY <1>1, <1>5, <1>8, <2>3, <3>1, TaskAssumption DEF Owns, Held
      <4>2. QED
        BY <4>1
    <3>2. CASE s # r
      <4>1. PICK u \in Task : Owns(u, s)
        BY <1>7, <2>3, <3>2 DEF IInv, Suspended
      <4>2. u # t
        BY <1>5, <3>2, <4>1 DEF Owns
      <4>3. Owns(u, s)'
        BY <1>1, <1>6, <1>7, <3>2, <4>1, <4>2 DEF Owns, Held
      <4>4. QED
        BY <4>3
    <3>3. QED
      BY <3>1, <3>2
  <2>4. ASSUME NEW s \in Resumer, handle'[s] # NoTask
        PROVE  /\ awaited'[handle'[s]] = {s}
               /\ task'[handle'[s]] = Held(s)'
               /\ waiter'[s] \/ Isr
    <3>1. CASE s = r
      BY <1>1, <1>5, <1>8, <2>4, <3>1, TaskAssumption DEF Held
    <3>2. CASE s # r
      <4>1. handle'[s] = handle[s] /\ handle[s] \in Task
        BY <1>7, <2>4, <3>2 DEF IInv, TypeOK
      <4>2. /\ awaited[handle[s]] = {s} /\ task[handle[s]] = Held(s)
            /\ waiter[s] \/ Isr
        BY <2>4, <4>1 DEF IInv, Suspended
      <4>3. handle[s] # t
        BY <1>5, <3>2, <4>2
      <4>4. QED
        BY <1>1, <1>6, <1>7, <3>2, <4>1, <4>2, <4>3 DEF Held
    <3>3. QED
      BY <3>1, <3>2
  <2>5. QED
    BY <2>1, <2>2, <2>3, <2>4 DEF Suspended
<1>14. Early'
  BY <1>1, <1>3, <1>4, <1>5, <1>6, PushedEarly
<1>15. QED
  BY <1>4, <1>9, <1>10, <1>11, <1>12, <1>13, <1>14 DEF IInv

\* The steps of Resume that push nothing.
LEMMA InResumeStep ==
    ASSUME IInv, TypeOK', OnePopped', NEW r \in Resumer,
           (\E t \in Task : Ask(t, r)) \/ Test(r) \/ Clear(r)
    PROVE  IInv'
<1>1. /\ running \in Task /\ task[running] = "running"
      /\ r \in ByTask /\ waiter[r]
      /\ UNCHANGED <<loopVars, value, readNothing, taskVars>>
  BY DEF Ask, Runs, await_ready, Test, Clear, IInv, UnderWay
<1>2. \A s \in Resumer \ {r} :
          waiter'[s] = waiter[s] /\ handle'[s] = handle[s] /\ resuming'[s] = resuming[s]
  BY DEF Ask, Test, Clear, Cleared, IInv, TypeOK
<1>3. \/ /\ UNCHANGED <<waiter, handle>>
         /\ resuming[r] # "pushed" /\ resuming'[r] \in {"asked", "tested"}
      \/ ~waiter'[r] /\ handle'[r] = NoTask /\ resuming'[r] = "no"
  BY <1>1 DEF Ask, Runs, Test, Clear, Cleared, IInv, TypeOK
<1>4. Stored' /\ Requests' = Requests
  BY <1>1, StoredKept DEF loopVars
<1>5. Flow' /\ Due'
  BY <1>1 DEF IInv, Flow, Due, loopVars, taskVars
<1>6. ASSUME NEW q \in Requests' PROVE Meant(q)'
  <2>1. q \in Requests /\ q.for \in Task
    BY <1>4, RequestsType
  <2>2. \A s \in awaited[q.for] : waiter'[s] => waiter[s]
    BY <1>1, <1>2, <2>1 DEF IInv, TypeOK
  <2>3. QED
    BY <1>1, <2>1, <2>2 DEF IInv, Meant, loopVars, taskVars
<1>7. UnderWay'
  BY <1>1, <1>2, <1>3 DEF IInv, UnderWay, taskVars
<1>8. Suspended'
  <2>1. \A u \in Task : task'[u] \in {"suspending", "waiting"} =>
            \E s \in Awaits[u] : awaited'[u] = {s}
    BY <1>1 DEF IInv, Suspended, taskVars
  <2>2. \A u \in Task : task'[u] # "suspending"
    BY <1>1 DEF IInv, Flow, taskVars
  <2>3. ASSUME NEW s \in Resumer, waiter'[s] PROVE \E u \in Task : Owns(u, s)'
    <3>1. PICK u \in Task : Owns(u, s)
      BY <1>1, <1>2, <2>3 DEF IInv, Suspended
    <3>2. Owns(u, s)'
      BY <1>1, <1>2, <1>3, <2>3, <3>1 DEF Owns, Held, taskVars
    <3>3. QED
      BY <3>2
  <2>4. ASSUME NEW s \in Resumer, handle'[s] # NoTask
        PROVE  /\ awaited'[handle'[s]] = {s}
               /\ task'[handle'[s]] = Held(s)'
               /\ waiter'[s] \/ Isr
    <3>1. handle'[s] = handle[s] /\ (s = r => UNCHANGED waiter)
      BY <1>2, <1>3, <2>4
    <3>2. QED
      BY <1>1, <1>2, <1>3, <2>4, <3>1 DEF IInv, Suspended, Held, taskVars
  <2>5. QED
    BY <2>1, <2>2, <2>3, <2>4 DEF Suspended
<1>9. Early'
  BY <1>1, EarlyKept DEF loopVars, taskVars
<1>10. QED
  BY <1>4, <1>5, <1>6, <1>7, <1>8, <1>9 DEF IInv

LEMMA ClockStep ==
    ASSUME IInv, TypeOK', OnePopped', ClockTick \/ UNCHANGED vars
    PROVE  IInv'
<1>1. /\ UNCHANGED <<list, finished, left, popped, handles, now, pc, early,
                     resumerVars, taskVars>>
      /\ clock <= clock' /\ clock' \in Nat
  BY DEF ClockTick, vars, loopVars, IInv, TypeOK
<1>2. Flow'
  BY <1>1 DEF IInv, Flow, taskVars, TypeOK
<1>3. Stored' /\ Requests' = Requests
  BY <1>1, StoredKept
<1>4. (\A q \in Requests' : Meant(q)') /\ Due'
  BY <1>1, <1>3 DEF IInv, Meant, Due, taskVars, resumerVars
<1>5. UnderWay' /\ Suspended'
  BY <1>1, SuspendedSame
<1>6. Early'
  BY <1>1, EarlyKept DEF taskVars
<1>7. QED
  BY <1>2, <1>3, <1>4, <1>5, <1>6 DEF IInv

LEMMA NextInv == OneAtATime /\ IInv /\ [Next]_vars => IInv'
<1> SUFFICES ASSUME OneAtATime, IInv, [Next]_vars PROVE IInv'
  OBVIOUS
<1>1. TypeOK' /\ OnePopped'
  BY TypeStep DEF IInv
<1>2. CASE LoopStep
  BY <1>1, <1>2, ControlStep, PopStep, SortStep, ResumeStep DEF LoopStep
<1>3. ASSUME NEW t \in Task, Launch(t) PROVE IInv'
  BY <1>1, <1>3, LaunchStep
<1>4. ASSUME NEW t \in Task, Coroutine(t) PROVE IInv'
  BY <1>1, <1>4, SleepStep, AwaitStep, SuspendStep, FinishStep,
     InResumeStep DEF Coroutine
<1>5. ASSUME NEW r \in Resumer, InResume(r) \/ Interrupt(r) PROVE IInv'
  BY <1>1, <1>5, HandedStep, InResumeStep DEF InResume
<1>6. CASE ClockTick \/ UNCHANGED vars
  BY <1>1, <1>6, ClockStep
<1>7. QED
  BY <1>2, <1>3, <1>4, <1>5, <1>6 DEF Next

-----------------------------------------------------------------------------
(* Nobody is forgotten. *)

\* If there is a place for each coroutine, there is one for whoever is not in
\* the list.
LEMMA RoomForOne ==
    ASSUME IInv, Fits, NEW t \in Task, \A q \in Range(list) : q.for # t
    PROVE  Len(list) < Capacity
<1>1. /\ list \in Seq(Request) /\ Len(list) \in Nat
      /\ DOMAIN list = 1 .. Len(list)
      /\ \A i \in 1 .. Len(list) : list[i] \in Request
  BY LenProperties, ElementOfSeq DEF IInv, TypeOK
<1>2. \A i \in 1 .. Len(list) : list[i] \in Range(list) /\ list[i] \in Requests
  BY <1>1 DEF Range, Requests
<1>3. /\ IsFiniteSet(Task \ {t}) /\ Cardinality(Task \ {t}) = Cardinality(Task) - 1
      /\ Cardinality(Task) \in Nat
  <2>1. IsFiniteSet(Task)
    BY TaskAssumption
  <2>2. IsFiniteSet(Task \ {t}) /\ Cardinality(Task \ {t}) = Cardinality(Task) - 1
    BY <2>1, FS_RemoveElement
  <2>3. Cardinality(Task) \in Nat
    BY <2>1, FS_CardinalityType
  <2>4. QED
    BY <2>2, <2>3
<1>4. /\ IsFiniteSet(1 .. Len(list)) /\ Cardinality(1 .. Len(list)) = Len(list)
  <2>1. PICK k \in Nat : k = Len(list)
    BY <1>1
  <2>2. /\ IsFiniteSet(1 .. k)
        /\ Cardinality(1 .. k) = IF 1 > k THEN 0 ELSE k - 1 + 1
    BY FS_Interval
  <2>3. Cardinality(1 .. k) = k
    BY <2>2
  <2>4. QED
    BY <2>1, <2>2, <2>3
<1> DEFINE f == [i \in 1 .. Len(list) |-> list[i].for]
<1>5. f \in [1 .. Len(list) -> Task \ {t}]
  BY <1>1, <1>2, RequestsType
<1>6. \A i, j \in 1 .. Len(list) : f[i] = f[j] => i = j
  BY <1>1, <1>2 DEF IInv, Stored, IsInjective
<1> HIDE DEF f
<1>7. ~(Cardinality(Task \ {t}) < Cardinality(1 .. Len(list)))
  BY <1>3, <1>4, <1>5, <1>6, FS_PigeonHole
<1>8. QED
  BY <1>1, <1>3, <1>4, <1>7, LoopAssumption DEF Fits

LEMMA KeptInit == Init => Kept
BY DEF Init, Kept

LEMMA KeptStep == OneAtATime /\ Fits /\ IInv /\ Kept /\ [Next]_vars => Kept'
<1> SUFFICES ASSUME OneAtATime, Fits, IInv, Kept, [Next]_vars,
                    NEW t \in Task, task'[t] \in {"sleeping", "scheduled"}
             PROVE  \E q \in Requests' : q.coro = t
  BY DEF Kept
<1>1. CASE task[t] \in {"sleeping", "scheduled"} /\ Requests \subseteq Requests'
  BY <1>1 DEF Kept
<1>2. ASSUME NEW u \in Task, Launch(u) PROVE \E q \in Requests' : q.coro = t
  <2>1. task[t] \in {"sleeping", "scheduled"} /\ Requests' = Requests
    BY <1>2, StoredKept DEF Launch, loopVars, IInv, TypeOK
  <2>2. QED
    BY <1>1, <2>1
<1>3. CASE Run \/ Top \/ Size \/ Scanned \/ PassDone \/ ClockTick \/ UNCHANGED vars
  <2>1. UNCHANGED <<list, popped, handles, task>>
    BY <1>3 DEF Run, Top, Size, Scanned, PassDone, ClockTick, vars, loopVars, taskVars
  <2>2. QED
    BY <1>1, <2>1, StoredKept
<1>4. CASE Pop
  <2>1. task' = task /\ Requests' = Requests
    BY <1>4, PopStored DEF Pop, taskVars
  <2>2. QED
    BY <1>1, <2>1
<1>5. CASE Sort
  <2>1. popped[1] \in Requests /\ Range(popped) = {popped[1]}
    BY <1>5, SortStored, RequestType DEF Sort, IInv
  <2>2. \A q \in Range(list) : q \in Requests /\ q # popped[1]
    BY <2>1 DEF IInv, Stored, Requests
  <2>3. \A q \in Range(list) : q.for # popped[1].for
    BY <2>1, <2>2 DEF IInv, Stored
  <2>4. popped[1].for \in Task
    BY <2>1, RequestsType DEF IInv
  <2>5. Len(list) < Capacity
    BY <2>3, <2>4, RoomForOne
  <2>6. task' = task /\ Requests' = Requests
    BY <1>5, <2>5, SortStored DEF Sort, taskVars
  <2>7. QED
    BY <1>1, <2>6
<1>6. CASE Resume
  <2> DEFINE h == Head(handles)
  <2>1. /\ h \in Requests /\ Requests' = Requests \ {h}
    BY <1>6, ResumeStored
  <2>2. \/ h.coro = NoTask /\ task' = task
        \/ h.coro # NoTask /\ task' = [task EXCEPT ![h.coro] = "running"]
    BY <1>6 DEF Resume
  <2> HIDE DEF h
  <2>3. h.coro = NoTask \/ h.coro \in Task
    BY <2>1, RequestsType DEF IInv, Request
  <2>4. t # h.coro /\ task[t] \in {"sleeping", "scheduled"}
    BY <2>2, <2>3, TaskAssumption DEF IInv, TypeOK
  <2>5. PICK q \in Requests : q.coro = t
    BY <2>4 DEF Kept
  <2>6. QED
    BY <2>1, <2>4, <2>5
<1>7. ASSUME NEW u \in Task, NEW d \in Delay, SleepFor(u, d)
      PROVE  \E q \in Requests' : q.coro = t
  <2>1. PICK q \in Request :
            /\ q.at = now + d /\ q.for = u /\ q.coro = u
            /\ list' = Pushed(q) /\ UNCHANGED <<popped, handles>>
            /\ \A p \in Requests : p.for # u
    BY <1>7, SleepStored
  <2>2. Len(list) < Capacity
    BY <2>1, RoomForOne DEF Requests
  <2>3. Requests \subseteq Requests' /\ q \in Requests'
    BY <2>1, <2>2, PushedStored
  <2>4. t # u => task[t] \in {"sleeping", "scheduled"}
    BY <1>7 DEF SleepFor, IInv, TypeOK
  <2>5. QED
    BY <1>1, <2>1, <2>3, <2>4
<1>8. ASSUME NEW u \in Task, NEW r \in Resumer, Await(u, r)
      PROVE  \E q \in Requests' : q.coro = t
  <2>1. task[t] \in {"sleeping", "scheduled"} /\ Requests' = Requests
    BY <1>8, StoredKept DEF Await, loopVars, IInv, TypeOK
  <2>2. QED
    BY <1>1, <2>1
<1>9. ASSUME NEW u \in Task, Suspend(u) \/ Finish(u)
      PROVE  \E q \in Requests' : q.coro = t
  <2>1. task[t] \in {"sleeping", "scheduled"} /\ Requests' = Requests
    BY <1>9, StoredKept DEF Suspend, Finish, loopVars, IInv, TypeOK
  <2>2. QED
    BY <1>1, <2>1
<1>10. ASSUME NEW r \in Resumer, HandOver(r) \/ Interrupt(r)
       PROVE  \E q \in Requests' : q.coro = t
  <2>1. PICK u \in Task, q \in Request :
            /\ q.for = u /\ q.coro = handle[r]
            /\ list' = Pushed(q)
            /\ task' = [v \in Task |-> IF v = handle[r] THEN "scheduled" ELSE task[v]]
            /\ \A p \in Requests : p.for # u
    BY <1>10, HandedStored
  <2>2. UNCHANGED <<popped, handles>>
    BY <1>10 DEF HandOver, Interrupt, Handed
  <2>3. Len(list) < Capacity
    BY <2>1, RoomForOne DEF Requests
  <2>4. Requests \subseteq Requests' /\ q \in Requests'
    BY <2>1, <2>2, <2>3, PushedStored
  <2>5. CASE t = handle[r]
    BY <2>1, <2>4, <2>5
  <2>6. CASE t # handle[r]
    <3>1. task[t] \in {"sleeping", "scheduled"}
      BY <2>1, <2>6
    <3>2. QED
      BY <1>1, <2>4, <3>1
  <2>7. QED
    BY <2>5, <2>6
<1>11. ASSUME NEW r \in Resumer, (\E u \in Task : Ask(u, r)) \/ Test(r) \/ Clear(r)
       PROVE  \E q \in Requests' : q.coro = t
  <2>1. UNCHANGED <<list, popped, handles, task>>
    BY <1>11 DEF Ask, Test, Clear, loopVars, taskVars
  <2>2. QED
    BY <1>1, <2>1, StoredKept
<1>12. QED
  BY <1>2, <1>3, <1>4, <1>5, <1>6, <1>7, <1>8, <1>9, <1>10, <1>11
     DEF Next, LoopStep, Coroutine, InResume

-----------------------------------------------------------------------------
(* The end of Run(). *)

LEMMA FinishedInit == Init => Finished
BY DEF Init, Finished

\* Only an interrupt and a coroutine that runs can push anything.
LEMMA FinishedStep == IInv /\ Finished /\ [Next]_vars => Finished'
<1> SUFFICES ASSUME IInv, Finished, [Next]_vars PROVE Finished'
  OBVIOUS
<1>1. \A t \in Task : Runs(t) \/ task[t] = "suspending" => running = t
  BY DEF IInv, Flow, Runs
<1>2. CASE (\E t \in Task : Launch(t)) \/ Run
  BY <1>2 DEF Launch, Run, Finished, loopVars
<1>3. CASE Top
  <2>1. popped = <<>> /\ handles = <<>> /\ running = NoTask
    BY <1>3 DEF Top, IInv, OnePopped, Flow
  <2>2. ~finished
    BY <1>3 DEF Top, Finished
  <2>3. finished' => list = <<>>
    BY <1>3, <2>2 DEF Top
  <2>4. UNCHANGED <<list, popped, handles, running>> /\ pc' = "size"
    BY <1>3 DEF Top, taskVars
  <2>5. finished' => Requests' = {}
    <3>1. Range(<<>>) = {}
      BY EmptySeq, LenProperties DEF Range
    <3>2. QED
      BY <2>1, <2>3, <2>4, <3>1 DEF Requests
  <2>6. QED
    BY <2>1, <2>4, <2>5 DEF Finished
<1>4. CASE Size \/ Scanned \/ PassDone \/ ClockTick \/ UNCHANGED vars
  <2>1. UNCHANGED <<list, popped, handles, finished, running>>
    BY <1>4 DEF Size, Scanned, PassDone, ClockTick, vars, loopVars, taskVars
  <2>2. Requests' = Requests
    BY <2>1, StoredKept
  <2>3. /\ interrupted' = interrupted
        /\ pc' = "stopped" => finished
        /\ pc' \in {"app", "top"} => ~finished
    BY <1>4 DEF Size, Scanned, PassDone, ClockTick, vars, loopVars, Finished
  <2>4. finished /\ ~interrupted => pc' \in {"size", "scan", "resume", "stopped"}
    BY <1>4 DEF Size, Scanned, PassDone, ClockTick, vars, loopVars, Finished
  <2>5. QED
    BY <2>1, <2>2, <2>3, <2>4 DEF Finished
<1>5. CASE Pop
  <2>1. Head(list) \in Requests
    BY <1>5, TailFacts DEF Pop, IInv, TypeOK, Stored, Requests
  <2>2. QED
    BY <1>5, <2>1 DEF Pop, Finished
<1>6. CASE Sort
  BY <1>6 DEF Sort, Finished
<1>7. CASE Resume
  <2>1. Head(handles) \in Requests
    BY <1>7, ResumeStored
  <2>2. QED
    BY <1>7, <2>1 DEF Resume, Finished
<1>8. ASSUME NEW t \in Task, Coroutine(t) PROVE Finished'
  <2>1. running = t /\ t # NoTask
    BY <1>1, <1>8, TaskAssumption DEF Coroutine, SleepFor, Await, Ask, Suspend, Finish
  <2>2. (~finished \/ interrupted) /\ pc # "stopped"
    BY <2>1 DEF Finished, IInv, Flow
  <2>3. UNCHANGED <<finished, interrupted, pc>>
    BY <1>8 DEF Coroutine, SleepFor, Await, Ask, Suspend, Finish, loopVars
  <2>4. QED
    BY <2>2, <2>3 DEF Finished
<1>9. ASSUME NEW r \in Resumer, InResume(r) PROVE Finished'
  <2>1. resuming[r] # "no"
    BY <1>9 DEF InResume, Test, HandOver, Clear
  <2>2. running # NoTask
    BY <2>1, TaskAssumption DEF IInv, UnderWay
  <2>3. (~finished \/ interrupted) /\ pc # "stopped"
    BY <2>2 DEF Finished, IInv, Flow
  <2>4. UNCHANGED <<finished, interrupted, pc>>
    BY <1>9 DEF InResume, Test, HandOver, Clear, Handed, loopVars
  <2>5. QED
    BY <2>3, <2>4 DEF Finished
<1>10. ASSUME NEW r \in Resumer, Interrupt(r) PROVE Finished'
  BY <1>10 DEF Interrupt, Handed, Finished
<1>11. QED
  BY <1>2, <1>3, <1>4, <1>5, <1>6, <1>7, <1>8, <1>9, <1>10 DEF Next, LoopStep

-----------------------------------------------------------------------------
(* Theorems. *)

\* Pending lists the requests, each of them once.
LEMMA PendingRequests ==
    ASSUME IInv
    PROVE  /\ Range(Pending) = Requests
           /\ \A i \in DOMAIN Pending : Pending[i] \in Requests
           /\ IsInjective(Pending)
<1>1. popped \in Seq(Request) /\ IsInjective(popped)
  <2>1. Len(popped) \in {0, 1}
    BY EmptySeq DEF IInv, OnePopped
  <2>2. DOMAIN popped = 1 .. Len(popped)
    BY LenProperties DEF IInv, TypeOK
  <2>3. QED
    BY <2>1, <2>2 DEF IsInjective, IInv, TypeOK
<1> DEFINE first == list \o popped
<1>2. /\ first \in Seq(Request) /\ IsInjective(first)
      /\ Range(first) = Range(list) \cup Range(popped)
  BY <1>1, ConcatFacts DEF IInv, TypeOK, Stored
<1>3. Pending = first \o handles
  BY DEF Pending
<1> HIDE DEF first
<1>4. /\ handles \in Seq(Request) /\ IsInjective(handles)
      /\ Range(first) \cap Range(handles) = {}
  BY <1>2 DEF IInv, TypeOK, Stored
<1>5. /\ IsInjective(first \o handles)
      /\ Range(first \o handles) = Range(first) \cup Range(handles)
  BY <1>2, <1>4, ConcatFacts
<1>6. IsInjective(Pending) /\ Range(Pending) = Requests
  BY <1>2, <1>3, <1>5 DEF Requests
<1>7. QED
  BY <1>6 DEF Range

\* Every variable of the loop keeps its type, and there is a request between Pop
\* and Sort.
THEOREM TypeCorrect == Spec => []TypeOK
<1>1. Init => TypeOK /\ OnePopped
  BY TypeInit
<1>2. TypeOK /\ OnePopped /\ [Next]_vars => TypeOK' /\ OnePopped'
  BY TypeStep
<1>3. QED
  BY <1>1, <1>2, PTL DEF Spec

\* The inductive invariant holds when each awaiter is resumed in coroutines or in
\* interrupts, not in both, and belongs to one coroutine if there are interrupts.
THEOREM IInvCorrect == ASSUME OneAtATime PROVE Spec => []IInv
<1>1. Init => IInv
  BY InitInv
<1>2. IInv /\ [Next]_vars => IInv'
  BY NextInv
<1>3. QED
  BY <1>1, <1>2, PTL DEF Spec

\* Under the same premise nobody is resumed twice, wherever interrupts come and
\* however full the list is.
THEOREM NeverResumedTwice == ASSUME OneAtATime PROVE Spec => []ResumedOnce
<1>1. IInv => ResumedOnce
  <2> SUFFICES ASSUME IInv PROVE ResumedOnce
    OBVIOUS
  <2>1. \A i, j \in DOMAIN Pending :
            i # j /\ Pending[i].for # NoTask => Pending[i].for # Pending[j].for
    BY PendingRequests DEF IInv, Stored, IsInjective
  <2>2. ASSUME NEW i \in DOMAIN Pending, Pending[i].coro # NoTask
        PROVE  /\ Pending[i].coro = Pending[i].for
               /\ task[Pending[i].coro] \in {"sleeping", "scheduled"}
    BY <2>2, PendingRequests DEF IInv, Meant
  <2>3. QED
    BY <2>1, <2>2 DEF ResumedOnce
<1>2. QED
  BY <1>1, IInvCorrect, PTL

\* A pass of the loop runs who was due when it began and nobody who still sleeps.
THEOREM AlwaysOnTime == ASSUME OneAtATime PROVE Spec => []OnTime
<1>1. IInv => OnTime
  <2> SUFFICES ASSUME IInv PROVE OnTime
    OBVIOUS
  <2>1. ASSUME pc = "top", NEW i \in DOMAIN list, list[i].for \in early
        PROVE  list[i].at > now
    BY <2>1 DEF IInv, Early
  <2>2. ASSUME NEW i \in DOMAIN handles, task[handles[i].for] = "sleeping"
        PROVE  wake[handles[i].for] <= clock
    <3>1. handles[i] \in Range(handles) /\ handles[i] \in Requests
      BY <2>2 DEF Range, Requests
    <3>2. handles[i].at <= now /\ handles[i].at = wake[handles[i].for]
      BY <2>2, <3>1 DEF IInv, Due, Meant
    <3>3. now <= clock /\ now \in Nat /\ clock \in Nat /\ handles[i].at \in Int
      BY <3>1, RequestsType DEF IInv, Flow, TypeOK
    <3>4. QED
      BY <3>2, <3>3
  <2>3. QED
    BY <2>1, <2>2 DEF OnTime
<1>2. QED
  BY <1>1, IInvCorrect, PTL

LEMMA KeptCorrect == ASSUME OneAtATime, Fits PROVE Spec => []Kept
<1>1. Init => Kept
  BY KeptInit
<1>2. IInv /\ Kept /\ [Next]_vars => Kept'
  BY KeptStep
<1>3. QED
  BY <1>1, <1>2, IInvCorrect, PTL DEF Spec

\* No request is lost in a list that has a place for each coroutine, not even by
\* the unchecked Push after an interrupt has pushed.
THEOREM NothingLost == ASSUME OneAtATime, Fits PROVE Spec => []NothingDropped
<1>1. IInv /\ Kept => NothingDropped
  <2> SUFFICES ASSUME IInv, Kept, NEW t \in Task, task[t] \in {"sleeping", "scheduled"}
               PROVE  \E i \in DOMAIN Pending : Pending[i].coro = t
    BY DEF NothingDropped
  <2>1. PICK q \in Requests : q.coro = t
    BY DEF Kept
  <2>2. q \in Range(Pending)
    BY <2>1, PendingRequests
  <2>3. QED
    BY <2>1, <2>2 DEF Range
<1>2. QED
  BY <1>1, IInvCorrect, KeptCorrect, PTL

\* Run() returns only when nobody sleeps and nobody was resumed, unless an interrupt
\* came in its last pass.
THEOREM StopsWhenIdle == ASSUME OneAtATime, Fits PROVE Spec => []StopsIdle
<1>1. Init => Finished
  BY FinishedInit
<1>2. IInv /\ Finished /\ [Next]_vars => Finished'
  BY FinishedStep
<1>3. Kept /\ Finished => StopsIdle
  BY DEF Kept, Finished, StopsIdle
<1>4. QED
  BY <1>1, <1>2, <1>3, IInvCorrect, KeptCorrect, PTL DEF Spec
===============================================================================
