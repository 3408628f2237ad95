---------------------------- MODULE CoroutinesProofs ----------------------------
(***************************************************************************)
(* Proofs about Coroutines, for every set of coroutines, of                *)
(* ImmediacyAwaiters, and every graph of who awaits whom.                  *)
(***************************************************************************)
EXTENDS Coroutines, SequenceFacts

\* The callbacks of u that Return() has still to call.
Waiting(u) == returned[u] + 1 .. Len(on_return_callbacks[u])

\* A promise is marked from co_return on.
Marked == \A t \in Task : is_finished[t] <=> task[t] \in {"returning", "done"}

\* Every callback still to be called is of a coroutine that awaits, and of a
\* promise that is there; and no coroutine is in two of them.
Registered ==
    /\ \A u \in Task : \A i \in Waiting(u) :
          /\ task[on_return_callbacks[u][i]] = "joining"
          /\ task[u] \notin {"new", "done"}
    /\ \A u, v \in Task : \A i \in Waiting(u), j \in Waiting(v) :
          on_return_callbacks[u][i] = on_return_callbacks[v][j] => u = v /\ i = j

\* An ImmediacyAwaiter that has a waiter has one that waits for it alone.
Held ==
    /\ \A r \in Immediate : waiter_available[r] =>
          handle[r] \in Task /\ task[handle[r]] = "waiting"
    /\ \A r, s \in Immediate :
          waiter_available[r] /\ waiter_available[s] /\ handle[r] = handle[s] => r = s

\* The inductive invariant.
IInv ==
    /\ TypeOK
    /\ returned \in [Task -> Nat]
    /\ NoReentry
    /\ NobodySpins
    /\ Marked
    /\ Registered
    /\ Held
    /\ NobodyForgotten

-----------------------------------------------------------------------------
(* The stack. *)

\* The coroutine on top leaves the processor, and no other changes its state.
LEMMA SuspendedStack ==
    ASSUME IInv, NEW t \in Task, Runs(t) \/ Returning(t),
           NEW state \in TaskState \ {"running", "returning", "spins"},
           Suspended(t, state)
    PROVE  /\ task' \in [Task -> TaskState]
           /\ \A u \in Task : task'[u] = IF u = t THEN state ELSE task[u]
           /\ stack' \in Seq(Task)
           /\ NoReentry'
           /\ NobodySpins'
<1>1. stack # <<>> /\ Last(stack) = t
  BY DEF Runs, Returning
<1>2. stack \in Seq(Task) /\ IsInjective(stack) /\ task \in [Task -> TaskState]
  BY DEF IInv, TypeOK, NoReentry
<1>3. /\ task' \in [Task -> TaskState]
      /\ \A u \in Task : task'[u] = IF u = t THEN state ELSE task[u]
  BY <1>2 DEF Suspended
<1>4. /\ stack' \in Seq(Task) /\ IsInjective(stack')
      /\ Range(stack') = Range(stack) \ {t}
  BY <1>1, <1>2, FrontFacts DEF Suspended
<1>5. NoReentry'
  BY <1>3, <1>4 DEF IInv, NoReentry
<1>6. NobodySpins'
  BY <1>3 DEF IInv, NobodySpins
<1>7. QED
  BY <1>3, <1>4, <1>5, <1>6

\* A coroutine that was not on the stack comes on top of it.
LEMMA ResumedStack ==
    ASSUME IInv, NEW t \in Task, task[t] \notin {"running", "returning", "spins"},
           Resumed(t)
    PROVE  /\ task' \in [Task -> TaskState]
           /\ \A u \in Task : task'[u] = IF u = t THEN "running" ELSE task[u]
           /\ stack' \in Seq(Task)
           /\ NoReentry'
           /\ NobodySpins'
<1>1. stack \in Seq(Task) /\ IsInjective(stack) /\ task \in [Task -> TaskState]
  BY DEF IInv, TypeOK, NoReentry
<1>2. t \notin Range(stack)
  BY DEF IInv, NoReentry
<1>3. /\ task' \in [Task -> TaskState]
      /\ \A u \in Task : task'[u] = IF u = t THEN "running" ELSE task[u]
  BY <1>1 DEF Resumed, TaskState
<1>4. /\ stack' \in Seq(Task) /\ IsInjective(stack')
      /\ Range(stack') = Range(stack) \cup {t}
  BY <1>1, <1>2, AppendFacts DEF Resumed
<1>5. NoReentry'
  BY <1>3, <1>4 DEF IInv, NoReentry
<1>6. NobodySpins'
  BY <1>3 DEF IInv, NobodySpins
<1>7. QED
  BY <1>3, <1>4, <1>5, <1>6

-----------------------------------------------------------------------------
(* What a step that changes the state of one coroutine leaves as it is. *)

\* Whoever awaits a coroutine is in its callbacks.
Joined(t) ==
    task[t] = "joining" => \E u \in Task :
        task[u] # "done" /\ \E i \in Waiting(u) : on_return_callbacks[u][i] = t

\* Whoever awaits an ImmediacyAwaiter is its waiter.
Awaited(t) ==
    task[t] = "waiting" => \E r \in Immediate : waiter_available[r] /\ handle[r] = t

LEMMA ForgottenParts ==
    NobodyForgotten <=> \A t \in Task : Joined(t) /\ Awaited(t)
BY DEF NobodyForgotten, Joined, Awaited, Waiting

\* The same of the next state.
LEMMA ForgottenPartsNext ==
    NobodyForgotten' <=> \A t \in Task : Joined(t)' /\ Awaited(t)'
BY DEF NobodyForgotten, Joined, Awaited, Waiting

\* A step that leaves the promises alone, and in which nobody begins or ends to
\* await a coroutine.
LEMMA PromisesKept ==
    ASSUME IInv, UNCHANGED promiseVars, NEW t \in Task, task[t] # "joining",
           task'[t] # "joining",
           task'[t] \in {"returning", "done"} <=> task[t] \in {"returning", "done"},
           task'[t] \in {"new", "done"} => Waiting(t) = {},
           \A u \in Task \ {t} : task'[u] = task[u]
    PROVE  Marked' /\ Registered' /\ \A u \in Task : Joined(u)'
<1>1. \A u \in Task : Waiting(u)' = Waiting(u)
  BY DEF promiseVars, Waiting
<1>2. \A u \in Task : \A i \in Waiting(u) : on_return_callbacks[u][i] \in Task
  <2> SUFFICES ASSUME NEW u \in Task, NEW i \in Waiting(u)
               PROVE  on_return_callbacks[u][i] \in Task
    OBVIOUS
  <2>1. on_return_callbacks[u] \in Seq(Task) /\ returned[u] \in Nat
    BY DEF IInv, TypeOK
  <2>2. i \in 1 .. Len(on_return_callbacks[u])
    BY <2>1, LenProperties DEF Waiting
  <2>3. QED
    BY <2>1, <2>2, ElementOfSeq
<1>3. Marked'
  BY DEF IInv, Marked, promiseVars
<1>4. Registered'
  <2>1. ASSUME NEW u \in Task, NEW i \in Waiting(u)
        PROVE  /\ task'[on_return_callbacks[u][i]] = "joining"
               /\ task'[u] \notin {"new", "done"}
    BY <1>2, <2>1 DEF IInv, Registered
  <2>2. QED
    BY <1>1, <2>1 DEF IInv, Registered, promiseVars
<1>5. ASSUME NEW u \in Task PROVE Joined(u)'
  <2> SUFFICES ASSUME task'[u] = "joining"
               PROVE  \E v \in Task : task'[v] # "done" /\
                         \E i \in Waiting(v) : on_return_callbacks[v][i] = u
    BY <1>1 DEF Joined, promiseVars
  <2>1. Joined(u) /\ task[u] = "joining"
    BY ForgottenParts DEF IInv
  <2>2. PICK v \in Task : /\ task[v] # "done"
                          /\ \E i \in Waiting(v) : on_return_callbacks[v][i] = u
    BY <2>1 DEF Joined
  <2>3. QED
    BY <2>2
<1>6. QED
  BY <1>3, <1>4, <1>5

\* A step that leaves the ImmediacyAwaiters alone, and in which nobody begins or
\* ends to await one.
LEMMA AwaitersKept ==
    ASSUME IInv, UNCHANGED immediateVars, NEW t \in Task, task[t] # "waiting",
           task'[t] # "waiting", \A u \in Task \ {t} : task'[u] = task[u]
    PROVE  Held' /\ \A u \in Task : Awaited(u)'
<1>1. Held'
  BY DEF IInv, Held, immediateVars
<1>2. ASSUME NEW u \in Task PROVE Awaited(u)'
  BY ForgottenParts DEF IInv, Awaited, immediateVars
<1>3. QED
  BY <1>1, <1>2

-----------------------------------------------------------------------------
(* The steps. *)

LEMMA InitInv == Init => IInv
<1> SUFFICES ASSUME Init PROVE IInv
  OBVIOUS
<1>1. <<>> \in Seq(Task) /\ Len(<<>>) = 0 /\ DOMAIN <<>> = {}
  BY EmptySeq, LenProperties
<1>2. \A u \in Task : Waiting(u) = {}
  BY <1>1 DEF Init, Waiting
<1>3. TypeOK /\ returned \in [Task -> Nat]
  BY <1>1, TaskAssumption DEF Init, TypeOK, TaskState
<1>4. NoReentry
  BY <1>1 DEF Init, NoReentry, IsInjective, Range
<1>5. NobodySpins /\ Marked /\ Held /\ NobodyForgotten
  BY DEF Init, NobodySpins, Marked, Held, NobodyForgotten
<1>6. Registered
  BY <1>2 DEF Registered
<1>7. QED
  BY <1>3, <1>4, <1>5, <1>6 DEF IInv

LEMMA CallStep == ASSUME IInv, NEW t \in Task, Call(t) PROVE IInv'
<1>1. task[t] = "new" /\ Resumed(t) /\ UNCHANGED <<promiseVars, immediateVars>>
  BY DEF Call
<1>2. /\ task' \in [Task -> TaskState]
      /\ \A u \in Task : task'[u] = IF u = t THEN "running" ELSE task[u]
      /\ stack' \in Seq(Task) /\ NoReentry' /\ NobodySpins'
  BY <1>1, ResumedStack
<1>3. Marked' /\ Registered' /\ \A u \in Task : Joined(u)'
  BY <1>1, <1>2, PromisesKept
<1>4. Held' /\ \A u \in Task : Awaited(u)'
  BY <1>1, <1>2, AwaitersKept
<1>5. TypeOK' /\ (returned \in [Task -> Nat])'
  BY <1>1, <1>2 DEF IInv, TypeOK, promiseVars, immediateVars
<1>6. QED
  BY <1>2, <1>3, <1>4, <1>5, ForgottenPartsNext DEF IInv

LEMMA SuspendStep == ASSUME IInv, NEW t \in Task, Suspend(t) PROVE IInv'
<1>1. /\ Runs(t) /\ Suspended(t, "suspended")
      /\ UNCHANGED <<promiseVars, immediateVars>>
  BY DEF Suspend
<1>2. /\ task' \in [Task -> TaskState]
      /\ \A u \in Task : task'[u] = IF u = t THEN "suspended" ELSE task[u]
      /\ stack' \in Seq(Task) /\ NoReentry' /\ NobodySpins'
  BY <1>1, SuspendedStack DEF TaskState
<1>3. Marked' /\ Registered' /\ \A u \in Task : Joined(u)'
  BY <1>1, <1>2, PromisesKept DEF Runs
<1>4. Held' /\ \A u \in Task : Awaited(u)'
  BY <1>1, <1>2, AwaitersKept DEF Runs
<1>5. TypeOK' /\ (returned \in [Task -> Nat])'
  BY <1>1, <1>2 DEF IInv, TypeOK, promiseVars, immediateVars
<1>6. QED
  BY <1>2, <1>3, <1>4, <1>5, ForgottenPartsNext DEF IInv

LEMMA WakeStep == ASSUME IInv, NEW t \in Task, Wake(t) PROVE IInv'
<1>1. task[t] = "suspended" /\ Resumed(t) /\ UNCHANGED <<promiseVars, immediateVars>>
  BY DEF Wake
<1>2. /\ task' \in [Task -> TaskState]
      /\ \A u \in Task : task'[u] = IF u = t THEN "running" ELSE task[u]
      /\ stack' \in Seq(Task) /\ NoReentry' /\ NobodySpins'
  BY <1>1, ResumedStack
<1>3. Marked' /\ Registered' /\ \A u \in Task : Joined(u)'
  BY <1>1, <1>2, PromisesKept
<1>4. Held' /\ \A u \in Task : Awaited(u)'
  BY <1>1, <1>2, AwaitersKept
<1>5. TypeOK' /\ (returned \in [Task -> Nat])'
  BY <1>1, <1>2 DEF IInv, TypeOK, promiseVars, immediateVars
<1>6. QED
  BY <1>2, <1>3, <1>4, <1>5, ForgottenPartsNext DEF IInv

\* The promise goes with the frame, and no callback is left in it.
LEMMA DestroyStep == ASSUME IInv, NEW t \in Task, Destroy(t) PROVE IInv'
<1>1. /\ Returning(t) /\ Suspended(t, "done") /\ Waiting(t) = {}
      /\ UNCHANGED <<promiseVars, immediateVars>>
  <2>1. returned[t] \in Nat /\ Len(on_return_callbacks[t]) \in Nat
    BY LenProperties DEF IInv, TypeOK
  <2>2. QED
    BY <2>1 DEF Destroy, HasCallbacks, Waiting
<1>2. /\ task' \in [Task -> TaskState]
      /\ \A u \in Task : task'[u] = IF u = t THEN "done" ELSE task[u]
      /\ stack' \in Seq(Task) /\ NoReentry' /\ NobodySpins'
  BY <1>1, SuspendedStack DEF TaskState
<1>3. Marked' /\ Registered' /\ \A u \in Task : Joined(u)'
  BY <1>1, <1>2, PromisesKept DEF Returning
<1>4. Held' /\ \A u \in Task : Awaited(u)'
  BY <1>1, <1>2, AwaitersKept DEF Returning
<1>5. TypeOK' /\ (returned \in [Task -> Nat])'
  BY <1>1, <1>2 DEF IInv, TypeOK, promiseVars, immediateVars
<1>6. QED
  BY <1>2, <1>3, <1>4, <1>5, ForgottenPartsNext DEF IInv

\* co_return marks the promise and nothing else: who awaits it goes on awaiting.
LEMMA ReturnStep == ASSUME IInv, NEW t \in Task, Return(t) PROVE IInv'
<1>1. /\ Runs(t) /\ Finished(t) /\ task' = [task EXCEPT ![t] = "returning"]
      /\ UNCHANGED <<on_return_callbacks, returned, stack, immediateVars>>
  BY DEF Return
<1>2. task \in [Task -> TaskState] /\ task[t] = "running"
  BY <1>1 DEF IInv, TypeOK, Runs
<1>3. /\ task' \in [Task -> TaskState]
      /\ \A u \in Task : task'[u] = IF u = t THEN "returning" ELSE task[u]
  BY <1>1, <1>2 DEF TaskState
<1>4. /\ is_finished' \in [Task -> BOOLEAN]
      /\ \A u \in Task : is_finished'[u] = IF u = t THEN TRUE ELSE is_finished[u]
  BY <1>1 DEF Finished, IInv, TypeOK
<1>5. NoReentry' /\ NobodySpins'
  BY <1>1, <1>2, <1>3 DEF IInv, NoReentry, NobodySpins
<1>6. Marked'
  BY <1>3, <1>4 DEF IInv, Marked
<1>7. \A u \in Task : Waiting(u)' = Waiting(u)
  BY <1>1 DEF Waiting
<1>8. Registered'
  <2>1. ASSUME NEW u \in Task, NEW i \in Waiting(u)
        PROVE  /\ task'[on_return_callbacks[u][i]] = "joining"
               /\ task'[u] \notin {"new", "done"}
    BY <1>1, <1>2, <1>3, <2>1 DEF IInv, Registered
  <2>2. QED
    BY <1>1, <1>7, <2>1 DEF IInv, Registered
<1>9. \A u \in Task : Joined(u)'
  <2> SUFFICES ASSUME NEW u \in Task, task'[u] = "joining"
               PROVE  Joined(u)'
    BY DEF Joined
  <2>1. PICK v \in Task : /\ task[v] # "done"
                          /\ \E i \in Waiting(v) : on_return_callbacks[v][i] = u
    BY <1>3, ForgottenParts DEF IInv, Joined
  <2>2. QED
    BY <1>1, <1>3, <1>7, <2>1 DEF Joined
<1>10. Held' /\ \A u \in Task : Awaited(u)'
  BY <1>1, <1>2, <1>3, AwaitersKept
<1>11. TypeOK' /\ (returned \in [Task -> Nat])'
  BY <1>1, <1>3, <1>4 DEF IInv, TypeOK, immediateVars
<1>12. QED
  BY <1>5, <1>6, <1>8, <1>9, <1>3, <1>10, <1>11, ForgottenPartsNext DEF IInv

\* Whoever awaits is added to the callbacks of a promise that is not marked, and
\* was in nobody's before.
LEMMA AwaitStep ==
    ASSUME IInv, NEW t \in Task, NEW u \in Task, Await(t, u)
    PROVE  IInv'
<1>1. /\ Runs(t) /\ Suspended(t, "joining")
      /\ task[u] \notin {"new", "done"}
      /\ on_return_callbacks' = [on_return_callbacks EXCEPT ![u] = Append(@, t)]
      /\ UNCHANGED <<is_finished, returned, immediateVars>>
  BY DEF Await
<1>2. /\ task' \in [Task -> TaskState]
      /\ \A v \in Task : task'[v] = IF v = t THEN "joining" ELSE task[v]
      /\ stack' \in Seq(Task) /\ NoReentry' /\ NobodySpins'
  BY <1>1, SuspendedStack DEF TaskState
<1> DEFINE n == Len(on_return_callbacks[u]) + 1
<1>3. /\ on_return_callbacks \in [Task -> Seq(Task)] /\ returned \in [Task -> Nat]
      /\ \A v \in Task : returned[v] \in 0 .. Len(on_return_callbacks[v])
      /\ n - 1 \in Nat
  BY LenProperties DEF IInv, TypeOK
<1>4. /\ on_return_callbacks' \in [Task -> Seq(Task)]
      /\ \A v \in Task \ {u} : on_return_callbacks'[v] = on_return_callbacks[v]
      /\ Len(on_return_callbacks'[u]) = n
      /\ \A i \in 1 .. n - 1 : on_return_callbacks'[u][i] = on_return_callbacks[u][i]
      /\ on_return_callbacks'[u][n] = t
  <2>1. on_return_callbacks'[u] = Append(on_return_callbacks[u], t)
    BY <1>1, <1>3
  <2>2. on_return_callbacks[u] \in Seq(Task)
    BY <1>3
  <2>3. QED
    BY <1>1, <1>3, <2>1, <2>2, AppendProperties
<1>5. /\ \A v \in Task \ {u} : Waiting(v)' = Waiting(v)
      /\ Waiting(u)' = Waiting(u) \cup {n}
      /\ Waiting(u) \subseteq 1 .. n - 1
      /\ n \notin Waiting(u)
  BY <1>1, <1>3, <1>4 DEF Waiting
<1> HIDE DEF n
<1>6. ASSUME NEW v \in Task, NEW i \in Waiting(v)'
      PROVE  IF v = u /\ i = n
             THEN on_return_callbacks'[v][i] = t
             ELSE /\ i \in Waiting(v)
                  /\ on_return_callbacks'[v][i] = on_return_callbacks[v][i]
                  /\ task[on_return_callbacks[v][i]] = "joining"
                  /\ on_return_callbacks[v][i] # t
                  /\ on_return_callbacks[v][i] \in Task
  <2>1. CASE v = u /\ i = n
    BY <1>4, <2>1
  <2>2. CASE ~(v = u /\ i = n)
    <3>1. i \in Waiting(v) /\ on_return_callbacks'[v][i] = on_return_callbacks[v][i]
      BY <1>4, <1>5, <2>2
    <3>2. task[on_return_callbacks[v][i]] = "joining"
      BY <3>1 DEF IInv, Registered
    <3>3. i \in 1 .. Len(on_return_callbacks[v])
      BY <3>1, <1>3 DEF Waiting
    <3>4. on_return_callbacks[v][i] \in Task
      BY <3>3, <1>3, ElementOfSeq
    <3>5. QED
      BY <1>1, <2>2, <3>1, <3>2, <3>4 DEF Runs
  <2>3. QED
    BY <2>1, <2>2
<1>7. Registered'
  <2>1. ASSUME NEW v \in Task, NEW i \in Waiting(v)'
        PROVE  /\ task'[on_return_callbacks'[v][i]] = "joining"
               /\ task'[v] \notin {"new", "done"}
    <3>1. CASE v = u /\ i = n
      BY <1>1, <1>2, <1>4, <3>1
    <3>2. CASE ~(v = u /\ i = n)
      BY <1>2, <1>6, <3>2 DEF IInv, Registered
    <3>3. QED
      BY <3>1, <3>2
  <2>2. ASSUME NEW v \in Task, NEW w \in Task,
               NEW i \in Waiting(v)', NEW j \in Waiting(w)',
               on_return_callbacks'[v][i] = on_return_callbacks'[w][j]
        PROVE  v = w /\ i = j
    BY <1>6, <2>2 DEF IInv, Registered
  <2>3. QED
    BY <2>1, <2>2 DEF Registered
<1>8. \A v \in Task : Joined(v)'
  <2> SUFFICES ASSUME NEW v \in Task, task'[v] = "joining"
               PROVE  \E w \in Task : task'[w] # "done" /\
                         \E i \in Waiting(w)' : on_return_callbacks'[w][i] = v
    BY DEF Joined
  <2>1. CASE v = t
    BY <1>1, <1>2, <1>4, <1>5, <2>1
  <2>2. CASE v # t
    <3>1. PICK w \in Task : /\ task[w] # "done"
                            /\ \E i \in Waiting(w) : on_return_callbacks[w][i] = v
      BY <1>2, <2>2, ForgottenParts DEF IInv, Joined
    <3>2. PICK i \in Waiting(w) : on_return_callbacks[w][i] = v
      BY <3>1
    <3>3. i \in Waiting(w)' /\ on_return_callbacks'[w][i] = v
      BY <1>4, <1>5, <3>2
    <3>4. task'[w] # "done"
      BY <1>2, <3>1
    <3>5. QED
      BY <3>3, <3>4
  <2>3. QED
    BY <2>1, <2>2
<1>9. Marked'
  BY <1>1, <1>2 DEF IInv, Marked, Runs
<1>10. Held' /\ \A v \in Task : Awaited(v)'
  BY <1>1, <1>2, AwaitersKept DEF Runs
<1>11. \A v \in Task : returned'[v] \in 0 .. Len(on_return_callbacks'[v])
  BY <1>1, <1>3, <1>4 DEF n
<1>12. TypeOK' /\ (returned \in [Task -> Nat])'
  BY <1>1, <1>2, <1>4, <1>11 DEF IInv, TypeOK, immediateVars
<1>13. QED
  BY <1>2, <1>7, <1>8, <1>9, <1>10, <1>12, ForgottenPartsNext DEF IInv

\* A callback resumes one who awaits the promise, finds it marked, and is in no
\* callback that is still to be called.
LEMMA CallbackStep == ASSUME IInv, NEW t \in Task, Callback(t) PROVE IInv'
<1> DEFINE n == returned[t] + 1
           waiter == on_return_callbacks[t][n]
<1>1. /\ Returning(t) /\ HasCallbacks(t)
      /\ returned' = [returned EXCEPT ![t] = @ + 1]
      /\ task' = [task EXCEPT ![waiter] =
                     IF is_finished[t] THEN "running" ELSE "spins"]
      /\ stack' = Append(stack, waiter)
      /\ UNCHANGED <<is_finished, on_return_callbacks, immediateVars>>
  BY DEF Callback
<1>2. /\ on_return_callbacks \in [Task -> Seq(Task)] /\ returned \in [Task -> Nat]
      /\ Len(on_return_callbacks[t]) \in Nat
  BY LenProperties DEF IInv, TypeOK
<1>3. n \in Waiting(t) /\ n \in 1 .. Len(on_return_callbacks[t])
  BY <1>1, <1>2 DEF HasCallbacks, Waiting
<1>4. waiter \in Task /\ task[waiter] = "joining"
  BY <1>2, <1>3, ElementOfSeq DEF IInv, Registered
<1>5. /\ \A u \in Task \ {t} : Waiting(u)' = Waiting(u)
      /\ Waiting(t)' = Waiting(t) \ {n}
      /\ returned' \in [Task -> Nat]
      /\ \A u \in Task : returned'[u] \in 0 .. Len(on_return_callbacks'[u])
  <2>1. /\ returned' \in [Task -> Nat] /\ returned'[t] = n
        /\ \A u \in Task \ {t} : returned'[u] = returned[u]
        /\ \A u \in Task : Len(on_return_callbacks'[u]) = Len(on_return_callbacks[u])
    BY <1>1, <1>2
  <2>2. \A u \in Task \ {t} : Waiting(u)' = Waiting(u)
    BY <2>1 DEF Waiting
  <2>3. Waiting(t)' = Waiting(t) \ {n}
    <3>1. PICK k \in Nat : k = Len(on_return_callbacks[t])
      BY <1>2
    <3>2. Waiting(t) = n .. k /\ Waiting(t)' = n + 1 .. k
      BY <2>1, <3>1 DEF Waiting
    <3>3. n \in Nat
      BY <1>2
    <3> HIDE DEF n
    <3>4. n + 1 .. k = (n .. k) \ {n}
      BY <3>3
    <3>5. QED
      BY <3>2, <3>4
  <2>4. \A u \in Task : returned'[u] \in 0 .. Len(on_return_callbacks'[u])
    <3>1. n \in 0 .. Len(on_return_callbacks[t])
      BY <1>2, <1>3
    <3>2. \A u \in Task : returned[u] \in 0 .. Len(on_return_callbacks[u])
      BY DEF IInv, TypeOK
    <3> HIDE DEF n
    <3>3. QED
      BY <2>1, <3>1, <3>2
  <2>5. QED
    BY <2>1, <2>2, <2>3, <2>4
<1> HIDE DEF n, waiter
<1>6. Resumed(waiter)
  BY <1>1 DEF Resumed, IInv, Marked, Returning
<1>7. /\ task' \in [Task -> TaskState]
      /\ \A u \in Task : task'[u] = IF u = waiter THEN "running" ELSE task[u]
      /\ stack' \in Seq(Task) /\ NoReentry' /\ NobodySpins'
  BY <1>4, <1>6, ResumedStack
<1>8. Marked'
  BY <1>1, <1>4, <1>7 DEF IInv, Marked
<1>9. Registered'
  <2>1. ASSUME NEW u \in Task, NEW i \in Waiting(u)'
        PROVE  /\ i \in Waiting(u)
               /\ task'[on_return_callbacks[u][i]] = "joining"
               /\ task'[u] \notin {"new", "done"}
    <3>1. i \in Waiting(u) /\ ~(u = t /\ i = n)
      BY <1>5
    <3>2. on_return_callbacks[u][i] # waiter
      <4>1. \A j \in Waiting(t) :
                on_return_callbacks[u][i] = on_return_callbacks[t][j] => u = t /\ i = j
        BY <3>1 DEF IInv, Registered
      <4>2. QED
        BY <1>3, <3>1, <4>1 DEF waiter
    <3>3. i \in 1 .. Len(on_return_callbacks[u])
      BY <1>2, <3>1 DEF Waiting
    <3>4. on_return_callbacks[u][i] \in Task
      BY <1>2, <3>3, ElementOfSeq
    <3>5. QED
      BY <1>7, <3>1, <3>2, <3>4 DEF IInv, Registered
  <2>2. QED
    BY <1>1, <2>1 DEF IInv, Registered
<1>10. \A u \in Task : Joined(u)'
  <2> SUFFICES ASSUME NEW u \in Task, task'[u] = "joining"
               PROVE  \E v \in Task : task'[v] # "done" /\
                         \E i \in Waiting(v)' : on_return_callbacks'[v][i] = u
    BY DEF Joined
  <2>1. u # waiter /\ task[u] = "joining"
    BY <1>7
  <2>2. PICK v \in Task : /\ task[v] # "done"
                          /\ \E i \in Waiting(v) : on_return_callbacks[v][i] = u
    BY <2>1, ForgottenParts DEF IInv, Joined
  <2>3. PICK i \in Waiting(v) : on_return_callbacks[v][i] = u
    BY <2>2
  <2>4. ~(v = t /\ i = n)
    BY <2>1, <2>3 DEF waiter
  <2>5. i \in Waiting(v)' /\ on_return_callbacks'[v][i] = u /\ task'[v] # "done"
    BY <1>1, <1>5, <1>7, <2>2, <2>3, <2>4
  <2>6. QED
    BY <2>5
<1>11. Held' /\ \A u \in Task : Awaited(u)'
  BY <1>1, <1>4, <1>7, AwaitersKept
<1>12. TypeOK'
  BY <1>1, <1>5, <1>7 DEF IInv, TypeOK, immediateVars
<1>13. QED
  BY <1>5, <1>7, <1>8, <1>9, <1>10, <1>11, <1>12, ForgottenPartsNext DEF IInv

\* An ImmediacyAwaiter without a waiter gets one that awaits no other.
LEMMA AwaitImmediateStep ==
    ASSUME IInv, NEW t \in Task, NEW r \in Immediate, AwaitImmediate(t, r)
    PROVE  IInv'
<1>1. /\ Runs(t) /\ ~waiter_available[r] /\ Suspended(t, "waiting")
      /\ waiter_available' = [waiter_available EXCEPT ![r] = TRUE]
      /\ handle' = [handle EXCEPT ![r] = t]
      /\ UNCHANGED <<promiseVars, return_value, resumes>>
  BY DEF AwaitImmediate
<1>2. /\ task' \in [Task -> TaskState]
      /\ \A u \in Task : task'[u] = IF u = t THEN "waiting" ELSE task[u]
      /\ stack' \in Seq(Task) /\ NoReentry' /\ NobodySpins'
  BY <1>1, SuspendedStack DEF TaskState
<1>3. Marked' /\ Registered' /\ \A u \in Task : Joined(u)'
  BY <1>1, <1>2, PromisesKept DEF Runs
<1>4. /\ waiter_available' \in [Immediate -> BOOLEAN]
      /\ handle' \in [Immediate -> Task \cup {NoTask}]
      /\ waiter_available'[r] /\ handle'[r] = t
      /\ \A s \in Immediate \ {r} : /\ waiter_available'[s] = waiter_available[s]
                                    /\ handle'[s] = handle[s]
  BY <1>1 DEF IInv, TypeOK
<1>5. \A s \in Immediate : waiter_available[s] =>
          handle[s] \in Task /\ task[handle[s]] = "waiting" /\ handle[s] # t
  BY <1>1 DEF IInv, Held, Runs
<1>6. Held'
  BY <1>2, <1>4, <1>5 DEF IInv, Held
<1>7. ASSUME NEW u \in Task PROVE Awaited(u)'
  <2>1. CASE u = t
    BY <1>4, <2>1 DEF Awaited
  <2>2. CASE u # t
    <3>1. task'[u] = "waiting" => \E s \in Immediate : waiter_available[s] /\ handle[s] = u
      BY <1>2, <2>2, ForgottenParts DEF IInv, Awaited
    <3>2. \A s \in Immediate : waiter_available[s] => s \in Immediate \ {r}
      BY <1>1
    <3>3. QED
      BY <1>4, <3>1, <3>2 DEF Awaited
  <2>3. QED
    BY <2>1, <2>2
<1>8. TypeOK' /\ (returned \in [Task -> Nat])'
  BY <1>1, <1>2, <1>4 DEF IInv, TypeOK, promiseVars
<1>9. QED
  BY <1>2, <1>3, <1>6, <1>7, <1>8, ForgottenPartsNext DEF IInv

\* Resume runs the waiter and leaves neither it nor its handle behind.
LEMMA ResumeStep == ASSUME IInv, NEW r \in Immediate, Resume(r) PROVE IInv'
<1> DEFINE t == handle[r]
<1>1. /\ waiter_available[r] /\ resumes < MaxResumes /\ resumes' = resumes + 1
      /\ return_value' = [return_value EXCEPT ![r] = TRUE]
      /\ Cleared(r) /\ Resumed(t) /\ UNCHANGED promiseVars
  BY DEF Resume
<1>2. t \in Task /\ task[t] = "waiting"
  BY <1>1 DEF IInv, Held
<1>3. \A s \in Immediate : waiter_available[s] /\ s # r => handle[s] # t
  BY <1>1 DEF IInv, Held
<1> HIDE DEF t
<1>4. /\ task' \in [Task -> TaskState]
      /\ \A u \in Task : task'[u] = IF u = t THEN "running" ELSE task[u]
      /\ stack' \in Seq(Task) /\ NoReentry' /\ NobodySpins'
  BY <1>1, <1>2, ResumedStack
<1>5. Marked' /\ Registered' /\ \A u \in Task : Joined(u)'
  BY <1>1, <1>2, <1>4, PromisesKept
<1>6. /\ waiter_available' \in [Immediate -> BOOLEAN]
      /\ handle' \in [Immediate -> Task \cup {NoTask}]
      /\ ~waiter_available'[r]
      /\ \A s \in Immediate \ {r} : /\ waiter_available'[s] = waiter_available[s]
                                    /\ handle'[s] = handle[s]
  BY <1>1 DEF IInv, TypeOK, Cleared
<1>7. Held'
  BY <1>3, <1>4, <1>6 DEF IInv, Held
<1>8. ASSUME NEW u \in Task PROVE Awaited(u)'
  <2>1. CASE u = t
    BY <1>4, <2>1 DEF Awaited
  <2>2. CASE u # t
    <3>1. task'[u] = "waiting" => \E s \in Immediate : waiter_available[s] /\ handle[s] = u
      BY <1>4, <2>2, ForgottenParts DEF IInv, Awaited
    <3>2. handle[r] # u
      BY <2>2 DEF t
    <3>3. QED
      BY <1>6, <3>1, <3>2 DEF Awaited
  <2>3. QED
    BY <2>1, <2>2
<1>9. return_value' \in [Immediate -> BOOLEAN] /\ resumes' \in 0 .. MaxResumes
  BY <1>1, TaskAssumption DEF IInv, TypeOK
<1>10. TypeOK' /\ (returned \in [Task -> Nat])'
  BY <1>1, <1>4, <1>6, <1>9 DEF IInv, TypeOK, promiseVars
<1>11. QED
  BY <1>4, <1>5, <1>7, <1>8, <1>10, ForgottenPartsNext DEF IInv

LEMMA Stutter == IInv /\ UNCHANGED vars => IInv'
BY DEF vars, promiseVars, immediateVars, IInv, TypeOK, NoReentry, NobodySpins,
       Marked, Registered, Held, NobodyForgotten, Waiting

LEMMA NextInv == IInv /\ [Next]_vars => IInv'
<1> SUFFICES ASSUME IInv, [Next]_vars PROVE IInv'
  OBVIOUS
<1>1. CASE UNCHANGED vars
  BY <1>1, Stutter
<1>2. ASSUME NEW t \in Task, Call(t) \/ Wake(t) PROVE IInv'
  BY <1>2, CallStep, WakeStep
<1>3. ASSUME NEW t \in Task, Step(t) PROVE IInv'
  BY <1>3, AwaitStep, SuspendStep, ReturnStep, CallbackStep, DestroyStep,
     AwaitImmediateStep DEF Step
<1>4. ASSUME NEW r \in Immediate, Resume(r) PROVE IInv'
  BY <1>4, ResumeStep
<1>5. QED
  BY <1>1, <1>2, <1>3, <1>4 DEF Next

-----------------------------------------------------------------------------
\* The inductive invariant holds: every coroutine that awaits is in one callback
\* or one ImmediacyAwaiter that will resume it, and every coroutine that is
\* there to be resumed awaits.
THEOREM IInvCorrect == Spec => []IInv
<1>1. Init => IInv
  BY InitInv
<1>2. IInv /\ [Next]_vars => IInv'
  BY NextInv
<1>3. QED
  BY <1>1, <1>2, PTL DEF Spec

\* Every variable of the coroutines keeps its type; Return() calls no callback
\* that is not there.
THEOREM TypeCorrect == Spec => []TypeOK
<1>1. IInv => TypeOK
  BY DEF IInv
<1>2. QED
  BY <1>1, IInvCorrect, PTL

\* However calls, callbacks and Resume nest on the C++ stack, no coroutine is
\* resumed while it runs or after its frame is gone.
THEOREM NeverReentered == Spec => []NoReentry
<1>1. IInv => NoReentry
  BY DEF IInv
<1>2. QED
  BY <1>1, IInvCorrect, PTL

\* No coroutine suspends without somebody who is to resume it: its handle is
\* in the callbacks of a promise that is there or in an ImmediacyAwaiter.
THEOREM NeverForgotten == Spec => []NobodyForgotten
<1>1. IInv => NobodyForgotten
  BY DEF IInv
<1>2. QED
  BY <1>1, IInvCorrect, PTL

\* A coroutine that Return() resumes finds the value in await_resume.
THEOREM NeverSpins == Spec => []NobodySpins
<1>1. IInv => NobodySpins
  BY DEF IInv
<1>2. QED
  BY <1>1, IInvCorrect, PTL

\* Nobody adds a callback to the vector that Return() iterates over, as whoever
\* could asks await_ready first.
THEOREM CallbacksKept == Spec => CallbacksStable
<1>1. ASSUME IInv, [Next]_vars, NEW t \in Task, task[t] = "returning"
      PROVE  on_return_callbacks'[t] = on_return_callbacks[t]
  <2>1. CASE \E s, u \in Task : Await(s, u)
    <3>1. PICK s \in Task, u \in Task : Await(s, u)
      BY <2>1
    <3>2. t # u
      BY <1>1, <3>1 DEF Await, await_ready, IInv, Marked
    <3>3. QED
      BY <3>1, <3>2 DEF Await, IInv, TypeOK
  <2>2. CASE ~ \E s, u \in Task : Await(s, u)
    <3>1. UNCHANGED on_return_callbacks
      BY <1>1, <2>2 DEF Next, Step, Call, Wake, Suspend, Return, Callback, Destroy,
         AwaitImmediate, Resume, vars, promiseVars
    <3>2. QED
      BY <3>1
  <2>3. QED
    BY <2>1, <2>2
<1>2. IInv /\ [Next]_vars =>
        [\A t \in Task : task[t] = "returning" =>
            on_return_callbacks'[t] = on_return_callbacks[t]]_vars
  BY <1>1
<1>3. QED
  BY <1>2, IInvCorrect, PTL DEF Spec, CallbacksStable
===============================================================================
