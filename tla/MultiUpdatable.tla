---------------------------- MODULE MultiUpdatable ----------------------------
(***************************************************************************)
(* robobus::internal::MultiUpdatable<T>: a value that is announced again   *)
(* and again until Reset().  Only the retransmission clock is kept here;   *)
(* the value itself belongs to the component that owns the updatable.      *)
(*                                                                         *)
(* The float timer is counted in Tick() calls: kTimeout_s / delta_time_s   *)
(* of them, rounded up, make one TimeoutTicks.                             *)
(***************************************************************************)
EXTENDS Naturals

CONSTANT TimeoutTicks   \* kTimeout_s, in calls of Tick(); at least 1

Updatable == [need : BOOLEAN, timer : 0 .. TimeoutTicks]

\* A fresh object announces nothing until its first Update().
Quiet == [need |-> FALSE, timer |-> TimeoutTicks]

\* Update() itself fires the value at once; the next Tick() fires it again,
\* because the timer is left at 0 and not at kTimeout_s.
Update == [need |-> TRUE, timer |-> 0]

Reset(u) == [u EXCEPT !.need = FALSE]

Expires_Exactly(u) == u.need /\ u.timer = 1

\* Does this Tick() fire the value?
Expires(u) == u.need /\ u.timer <= 1

Tick_FiresOnce(u) == IF Expires(u) THEN Reset(u) ELSE u

Tick(u) ==
    CASE Expires(u)                -> [u EXCEPT !.timer = TimeoutTicks]
      [] u.need /\ ~Expires(u)     -> [u EXCEPT !.timer = @ - 1]
      [] ~u.need                   -> u
===============================================================================
