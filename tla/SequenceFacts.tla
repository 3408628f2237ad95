------------------------------ MODULE SequenceFacts ------------------------------
(***************************************************************************)
(* What the stacks and queues of the models hold when something is put on  *)
(* them or taken off, for sequences that hold everything once at most.     *)
(* Then induction, and recursion, on sets instead of predicates.           *)
(***************************************************************************)
EXTENDS Integers, Sequences, SequencesExt, SequenceTheorems,
        FiniteSetTheorems, WellFoundedInduction, TLAPS

\* What is left in front of the last element.
LEMMA FrontElements ==
    ASSUME NEW S, NEW s \in Seq(S), s # <<>>
    PROVE  /\ Len(s) \in Nat \ {0}
           /\ Front(s) \in Seq(S)
           /\ Len(Front(s)) = Len(s) - 1
           /\ \A i \in 1 .. Len(s) - 1 : Front(s)[i] = s[i]
           /\ Last(s) = s[Len(s)] /\ Last(s) \in S
<1>1. Len(s) \in Nat \ {0} /\ DOMAIN s = 1 .. Len(s)
  BY EmptySeq, LenProperties
<1>2. /\ Front(s) \in Seq(S)
      /\ Len(Front(s)) = Len(s) - 1
      /\ \A i \in 1 .. Len(s) - 1 : Front(s)[i] = s[i]
  <2>1. \A i \in 1 .. Len(s) - 1 : s[i] \in S
    BY <1>1, ElementOfSeq
  <2>2. QED
    BY <1>1, <2>1, SubSeqProperties DEF Front
<1>3. Last(s) = s[Len(s)] /\ Last(s) \in S
  BY <1>1, ElementOfSeq DEF Last
<1>4. QED
  BY <1>1, <1>2, <1>3

\* A stack without what is on top of it.
LEMMA FrontFacts ==
    ASSUME NEW S, NEW s \in Seq(S), s # <<>>, IsInjective(s)
    PROVE  /\ Last(s) \in Range(s)
           /\ Front(s) \in Seq(S)
           /\ IsInjective(Front(s))
           /\ Range(Front(s)) = Range(s) \ {Last(s)}
<1>1. Len(s) \in Nat \ {0} /\ DOMAIN s = 1 .. Len(s)
  BY EmptySeq, LenProperties
<1>2. /\ Front(s) \in Seq(S)
      /\ Len(Front(s)) = Len(s) - 1
      /\ \A i \in 1 .. Len(s) - 1 : Front(s)[i] = s[i]
  BY FrontElements
<1>3. DOMAIN Front(s) = 1 .. Len(s) - 1
  BY <1>2, LenProperties
<1>4. IsInjective(Front(s))
  BY <1>1, <1>2, <1>3 DEF IsInjective
<1>5. Last(s) \in Range(s)
  BY <1>1 DEF Last, Range
<1>6. ASSUME NEW x
      PROVE  x \in Range(Front(s)) <=> x \in Range(s) \ {Last(s)}
  <2>1. ASSUME x \in Range(Front(s)) PROVE x \in Range(s) \ {Last(s)}
    <3>1. PICK i \in 1 .. Len(s) - 1 : x = Front(s)[i]
      BY <1>3, <2>1 DEF Range
    <3> DEFINE n == Len(s)
    <3>2. i \in 1 .. n /\ n \in 1 .. n /\ i # n
      <4>1. n \in Nat \ {0} /\ i \in 1 .. n - 1
        BY <1>1
      <4> HIDE DEF n
      <4>2. QED
        BY <4>1
    <3>3. x = s[i] /\ i \in DOMAIN s /\ Len(s) \in DOMAIN s
      BY <1>1, <1>2, <3>1, <3>2
    <3>4. QED
      BY <3>2, <3>3 DEF Range, Last, IsInjective
  <2>2. ASSUME x \in Range(s), x # Last(s) PROVE x \in Range(Front(s))
    <3>1. PICK i \in 1 .. Len(s) : x = s[i]
      BY <1>1, <2>2 DEF Range
    <3>2. i \in 1 .. Len(s) - 1
      BY <1>1, <2>2, <3>1 DEF Last
    <3>3. QED
      BY <1>2, <1>3, <3>1, <3>2 DEF Range
  <2>3. QED
    BY <2>1, <2>2
<1>7. QED
  BY <1>2, <1>4, <1>5, <1>6

\* A stack or a queue with something new put at its end.
LEMMA AppendFacts ==
    ASSUME NEW S, NEW s \in Seq(S), IsInjective(s), NEW e \in S, e \notin Range(s)
    PROVE  /\ Append(s, e) \in Seq(S)
           /\ IsInjective(Append(s, e))
           /\ Range(Append(s, e)) = Range(s) \cup {e}
<1>1. Len(s) \in Nat /\ DOMAIN s = 1 .. Len(s)
  BY LenProperties
<1>2. /\ Append(s, e) \in Seq(S)
      /\ Len(Append(s, e)) = Len(s) + 1
      /\ \A i \in 1 .. Len(s) : Append(s, e)[i] = s[i]
      /\ Append(s, e)[Len(s) + 1] = e
  BY AppendProperties
<1>3. DOMAIN Append(s, e) = 1 .. Len(s) + 1
  BY <1>2, LenProperties
<1>4. \A i \in 1 .. Len(s) : s[i] # e
  BY <1>1 DEF Range
<1>5. IsInjective(Append(s, e))
  <2> SUFFICES ASSUME NEW i \in 1 .. Len(s) + 1, NEW j \in 1 .. Len(s) + 1,
                      Append(s, e)[i] = Append(s, e)[j]
               PROVE  i = j
    BY <1>3 DEF IsInjective
  <2>1. CASE i \in 1 .. Len(s) /\ j \in 1 .. Len(s)
    BY <1>1, <1>2, <2>1 DEF IsInjective
  <2>2. CASE i = Len(s) + 1 \/ j = Len(s) + 1
    BY <1>1, <1>2, <1>4, <2>2
  <2>3. QED
    BY <1>1, <2>1, <2>2
<1>6. ASSUME NEW x
      PROVE  x \in Range(Append(s, e)) <=> x \in Range(s) \cup {e}
  <2>1. x \in Range(s) <=> \E i \in 1 .. Len(s) : x = s[i]
    BY <1>1 DEF Range
  <2>2. x \in Range(Append(s, e)) <=>
            \E i \in 1 .. Len(s) + 1 : x = Append(s, e)[i]
    BY <1>3 DEF Range
  <2>3. \A i \in 1 .. Len(s) + 1 : i \in 1 .. Len(s) \/ i = Len(s) + 1
    BY <1>1
  <2>4. 1 .. Len(s) \subseteq 1 .. Len(s) + 1 /\ Len(s) + 1 \in 1 .. Len(s) + 1
    BY <1>1
  <2>5. QED
    BY <1>2, <2>1, <2>2, <2>3, <2>4
<1>7. QED
  BY <1>2, <1>5, <1>6

\* What is in a list with something more at its end.
LEMMA AppendRange ==
    ASSUME NEW S, NEW s \in Seq(S), NEW e \in S
    PROVE  Range(Append(s, e)) = Range(s) \cup {e}
<1>1. Append(s, e) = s \o <<e>> /\ <<e>> \in Seq(S)
  BY AppendIsConcat
<1>2. Range(<<e>>) = {e}
  BY DEF Range
<1> DEFINE one == <<e>>
<1>3. one \in Seq(S)
  BY <1>1
<1> HIDE DEF one
<1>4. Range(s \o one) = Range(s) \cup Range(one)
  BY <1>3, RangeConcatenation
<1>5. QED
  BY <1>1, <1>2, <1>4 DEF one

\* A queue without its first element.
LEMMA TailFacts ==
    ASSUME NEW S, NEW s \in Seq(S), s # <<>>, IsInjective(s)
    PROVE  /\ Head(s) \in Range(s)
           /\ Tail(s) \in Seq(S)
           /\ IsInjective(Tail(s))
           /\ Range(Tail(s)) = Range(s) \ {Head(s)}
<1>1. Len(s) \in Nat \ {0} /\ DOMAIN s = 1 .. Len(s) /\ Head(s) = s[1]
  BY EmptySeq, LenProperties
<1>2. /\ Tail(s) \in Seq(S)
      /\ Len(Tail(s)) = Len(s) - 1
      /\ \A i \in 1 .. Len(s) - 1 : Tail(s)[i] = s[i + 1]
  BY HeadTailProperties
<1>3. DOMAIN Tail(s) = 1 .. Len(s) - 1
  BY <1>2, LenProperties
<1>4. /\ 1 \in 1 .. Len(s)
      /\ \A i \in 1 .. Len(s) - 1 : i + 1 \in 1 .. Len(s) /\ i + 1 # 1
      /\ \A i \in 1 .. Len(s) : i # 1 => i - 1 \in 1 .. Len(s) - 1
      /\ \A i \in 1 .. Len(s) : (i - 1) + 1 = i
  BY <1>1
<1>5. IsInjective(Tail(s))
  <2> SUFFICES ASSUME NEW i \in 1 .. Len(s) - 1, NEW j \in 1 .. Len(s) - 1,
                      Tail(s)[i] = Tail(s)[j]
               PROVE  i = j
    BY <1>3 DEF IsInjective
  <2>1. i + 1 = j + 1
    BY <1>1, <1>2, <1>4 DEF IsInjective
  <2>2. QED
    BY <2>1
<1>6. Head(s) \in Range(s)
  BY <1>1, <1>4 DEF Range
<1>7. ASSUME NEW x
      PROVE  x \in Range(Tail(s)) <=> x \in Range(s) \ {Head(s)}
  <2>1. ASSUME x \in Range(Tail(s)) PROVE x \in Range(s) \ {Head(s)}
    <3>1. PICK i \in 1 .. Len(s) - 1 : x = Tail(s)[i]
      BY <1>3, <2>1 DEF Range
    <3>2. x = s[i + 1] /\ i + 1 \in DOMAIN s /\ 1 \in DOMAIN s /\ i + 1 # 1
      BY <1>1, <1>2, <1>4, <3>1
    <3>3. x \in Range(s)
      BY <3>2 DEF Range
    <3>4. x # s[1]
      BY <3>2 DEF IsInjective
    <3>5. QED
      BY <1>1, <3>3, <3>4
  <2>2. ASSUME x \in Range(s), x # Head(s) PROVE x \in Range(Tail(s))
    <3>1. PICK i \in 1 .. Len(s) : x = s[i]
      BY <1>1, <2>2 DEF Range
    <3>2. i - 1 \in 1 .. Len(s) - 1 /\ (i - 1) + 1 = i
      BY <1>1, <1>4, <2>2, <3>1
    <3>3. x = Tail(s)[i - 1]
      BY <1>2, <3>1, <3>2
    <3>4. QED
      BY <1>3, <3>2, <3>3 DEF Range
  <2>3. QED
    BY <2>1, <2>2
<1>8. QED
  BY <1>2, <1>5, <1>6, <1>7

\* Two queues that hold nothing in common, one behind the other.
LEMMA ConcatFacts ==
    ASSUME NEW S, NEW s \in Seq(S), NEW u \in Seq(S),
           IsInjective(s), IsInjective(u), Range(s) \cap Range(u) = {}
    PROVE  /\ s \o u \in Seq(S)
           /\ IsInjective(s \o u)
           /\ Range(s \o u) = Range(s) \cup Range(u)
<1> DEFINE m == Len(s)
           n == Len(u)
<1>1. m \in Nat /\ n \in Nat /\ DOMAIN s = 1 .. m /\ DOMAIN u = 1 .. n
  BY LenProperties
<1>2. /\ s \o u \in Seq(S)
      /\ DOMAIN (s \o u) = 1 .. m + n
      /\ \A i \in 1 .. m + n : (s \o u)[i] = IF i <= m THEN s[i] ELSE u[i - m]
  BY ConcatProperties, LenProperties
<1> HIDE DEF m, n
<1>3. \A i \in 1 .. m + n : IF i <= m THEN i \in 1 .. m ELSE i - m \in 1 .. n
  BY <1>1
<1>4. ASSUME NEW i \in 1 .. m + n, NEW j \in 1 .. m + n,
             (s \o u)[i] = (s \o u)[j]
      PROVE  i = j
  <2>1. CASE i <= m /\ j <= m
    BY <1>1, <1>2, <1>3, <1>4, <2>1 DEF IsInjective
  <2>2. CASE ~(i <= m) /\ ~(j <= m)
    <3>1. u[i - m] = u[j - m] /\ i - m \in 1 .. n /\ j - m \in 1 .. n
      BY <1>2, <1>3, <1>4, <2>2
    <3>2. i - m = j - m
      BY <1>1, <3>1 DEF IsInjective
    <3>3. QED
      BY <1>1, <3>2
  <2>3. CASE i <= m /\ ~(j <= m)
    <3>1. (s \o u)[i] = s[i] /\ i \in 1 .. m /\ (s \o u)[j] = u[j - m] /\ j - m \in 1 .. n
      BY <1>2, <1>3, <2>3
    <3>2. s[i] \in Range(s) /\ u[j - m] \in Range(u)
      BY <1>1, <3>1 DEF Range
    <3>3. QED
      BY <1>4, <3>1, <3>2
  <2>4. CASE ~(i <= m) /\ j <= m
    <3>1. (s \o u)[j] = s[j] /\ j \in 1 .. m /\ (s \o u)[i] = u[i - m] /\ i - m \in 1 .. n
      BY <1>2, <1>3, <2>4
    <3>2. s[j] \in Range(s) /\ u[i - m] \in Range(u)
      BY <1>1, <3>1 DEF Range
    <3>3. QED
      BY <1>4, <3>1, <3>2
  <2>5. QED
    BY <2>1, <2>2, <2>3, <2>4
<1>5. IsInjective(s \o u)
  BY <1>2, <1>4 DEF IsInjective
<1>6. QED
  BY <1>2, <1>5, RangeConcatenation
-----------------------------------------------------------------------------
(* Induction, on sets instead of predicates.                               *)

LEMMA LeastNat ==
    ASSUME NEW T, T \subseteq Nat, T # {}
    PROVE  \E x \in T : \A y \in T : x <= y
<1> DEFINE R == StrictSubsetOrdering(Nat)
           F == FiniteSubsetsOf(Nat)
           Up(n) == 0 .. n
           I == {Up(x) : x \in T}
<1>1. IsWellFoundedOn(R, F)
  BY FS_StrictSubsetOrderingWellFounded
<1>2. I \subseteq F /\ I # {}
  <2>1. \A x \in T : Up(x) \in F
    <3>1. TAKE x \in T
    <3>2. x \in Nat
      OBVIOUS
    <3>3. IsFiniteSet(Up(x)) /\ Up(x) \subseteq Nat
      BY <3>2, FS_Interval
    <3>4. QED
      BY <3>3 DEF FiniteSubsetsOf
  <2>2. QED
    BY <2>1
<1>3. \A A, B \in I : <<A, B>> \in R <=> A \subseteq B /\ A # B
  <2>1. I \subseteq SUBSET Nat
    OBVIOUS
  <2> HIDE DEF I
  <2>2. QED
    BY <2>1 DEF StrictSubsetOrdering
<1>4. PICK A \in I : \A B \in I : ~ (<<B, A>> \in R)
  <2> HIDE DEF R, F, I
  <2>1. QED
    BY <1>1, <1>2, WFMin
<1>5. \A B \in I : ~ (B \subseteq A /\ B # A)
  <2> HIDE DEF R, I
  <2>1. QED
    BY <1>3, <1>4
<1>6. PICK x \in T : A = Up(x)
  OBVIOUS
<1>7. ASSUME NEW y \in T, y < x PROVE FALSE
  <2>1. Up(y) \in I /\ Up(y) \subseteq Up(x) /\ x \in Up(x) /\ x \notin Up(y)
    BY <1>7
  <2> HIDE DEF Up, I
  <2>2. QED
    BY <1>5, <1>6, <2>1
<1>8. QED
  BY <1>7

LEMMA Induction ==
    ASSUME NEW T, 0 \in T, \A n \in Nat : n \in T => n + 1 \in T
    PROVE  Nat \subseteq T
<1> SUFFICES ASSUME Nat \ T # {} PROVE FALSE
  OBVIOUS
<1>1. PICK x \in Nat \ T : \A y \in Nat \ T : x <= y
  <2>1. Nat \ T \subseteq Nat
    OBVIOUS
  <2>2. QED
    BY <2>1, LeastNat
<1>2. x # 0 /\ x - 1 \in Nat /\ x - 1 \in T
  BY <1>1
<1>3. QED
  BY <1>1, <1>2

\* A step that is taken again and again.
Iterates(f, init, step) ==
    f[0] = init /\ \A n \in Nat : f[n + 1] = step[f[n]]

LEMMA Iterated ==
    ASSUME NEW S, NEW init \in S, NEW step \in [S -> S]
    PROVE  \E f \in [Nat -> S] : Iterates(f, init, step)
<1> DEFINE Run(n, f) == /\ f \in [0 .. n -> S]
                        /\ f[0] = init
                        /\ \A i \in 0 .. n - 1 : f[i + 1] = step[f[i]]
           T == {n \in Nat : \E f : Run(n, f)}
<1>1. Nat \subseteq T
  <2>1. 0 \in T
    <3>1. Run(0, [i \in 0 .. 0 |-> init])
      OBVIOUS
    <3>2. QED
      BY <3>1
  <2>2. ASSUME NEW n \in Nat, n \in T PROVE n + 1 \in T
    <3>1. PICK f : Run(n, f)
      BY <2>2
    <3> DEFINE g == [i \in 0 .. n + 1 |-> IF i = n + 1 THEN step[f[n]] ELSE f[i]]
    <3>2. f[n] \in S
      BY <3>1
    <3>3. \A i \in 0 .. n : g[i] = f[i] /\ f[i] \in S
      BY <3>1
    <3>4. g[n + 1] = step[f[n]] /\ step[f[n]] \in S
      BY <3>2
    <3>5. g \in [0 .. n + 1 -> S]
      <4>1. ASSUME NEW i \in 0 .. n + 1
            PROVE  (IF i = n + 1 THEN step[f[n]] ELSE f[i]) \in S
        BY <3>3, <3>4
      <4>2. QED
        BY <4>1
    <3> HIDE DEF g
    <3>6. \A i \in 0 .. n : g[i + 1] = step[g[i]]
      <4>1. TAKE i \in 0 .. n
      <4>2. CASE i = n
        BY <3>3, <3>4, <4>2
      <4>3. CASE i # n
        <5>1. i \in 0 .. n - 1 /\ i + 1 \in 0 .. n
          BY <4>3
        <5>2. QED
          BY <3>1, <3>3, <5>1
      <4>4. QED
        BY <4>2, <4>3
    <3>7. Run(n + 1, g)
      BY <3>1, <3>3, <3>5, <3>6
    <3>8. QED
      BY <3>7
  <2> HIDE DEF T
  <2>3. QED
    BY <2>1, <2>2, Induction
<1>2. ASSUME NEW n \in Nat, NEW f, Run(n, f), NEW m \in Nat, NEW g, Run(m, g)
      PROVE  \A i \in Nat : i <= n /\ i <= m => f[i] = g[i]
  <2> DEFINE U == {i \in Nat : i <= n /\ i <= m => f[i] = g[i]}
  <2>1. 0 \in U
    BY <1>2
  <2>2. ASSUME NEW i \in Nat, i \in U PROVE i + 1 \in U
    <3> SUFFICES ASSUME i + 1 <= n, i + 1 <= m PROVE f[i + 1] = g[i + 1]
      OBVIOUS
    <3>1. i \in 0 .. n - 1 /\ i \in 0 .. m - 1
      OBVIOUS
    <3>2. f[i + 1] = step[f[i]] /\ g[i + 1] = step[g[i]]
      BY <1>2, <3>1
    <3>3. f[i] = g[i]
      BY <2>2, <3>1
    <3>4. QED
      BY <3>2, <3>3
  <2>3. Nat \subseteq U
    <3> HIDE DEF U
    <3>1. QED
      BY <2>1, <2>2, Induction
  <2>4. QED
    BY <2>3
<1> DEFINE run == [n \in Nat |-> CHOOSE f : Run(n, f)]
           all == [n \in Nat |-> run[n][n]]
<1>3. \A n \in Nat : Run(n, run[n])
  <2>1. TAKE n \in Nat
  <2>2. \E f : Run(n, f)
    BY <1>1
  <2> HIDE DEF Run
  <2>3. QED
    BY <2>2
<1> HIDE DEF run
<1>4. all \in [Nat -> S]
  BY <1>3
<1>5. all[0] = init
  BY <1>3
<1>6. ASSUME NEW n \in Nat PROVE all[n + 1] = step[all[n]]
  <2>1. run[n + 1][n + 1] = step[run[n + 1][n]]
    <3>1. Run(n + 1, run[n + 1]) /\ n \in 0 .. (n + 1) - 1
      BY <1>3
    <3>2. QED
      BY <3>1
  <2>2. run[n + 1][n] = run[n][n]
    <3>1. n + 1 \in Nat /\ n <= n + 1 /\ n <= n
      OBVIOUS
    <3> HIDE DEF Run
    <3>2. QED
      BY <1>2, <1>3, <3>1
  <2>3. QED
    BY <2>1, <2>2
<1>7. QED
  BY <1>4, <1>5, <1>6 DEF Iterates

LEMMA ButLast ==
    ASSUME NEW n \in Nat, NEW k \in 1 .. n + 1, k # n + 1
    PROVE  k \in 1 .. n /\ k \in Nat \ {0}
OBVIOUS

\* Steps from value to value, each with a number.
Steps(S, K) == [S -> [K -> S]]

\* ... and the number of an earlier one.
Earlier == {prev \in [Nat -> Nat] : \A k \in Nat \ {0} : prev[k] < k}

\* A function that is defined on 0 and from an earlier value everywhere else.
LEMMA Recursion ==
    ASSUME NEW S, NEW init \in S, NEW prev \in Earlier,
           NEW step \in Steps(S, Nat)
    PROVE  \E f \in [Nat -> S] :
               f[0] = init /\ \A k \in Nat \ {0} : f[k] = step[f[prev[k]]][k]
<1> DEFINE Run(n, f) == /\ f \in [0 .. n -> S]
                        /\ f[0] = init
                        /\ \A k \in 1 .. n : f[k] = step[f[prev[k]]][k]
           T == {n \in Nat : \E f : Run(n, f)}
<1>0. \A x \in S, k \in Nat : step[x][k] \in S
  BY DEF Steps
<1>p. prev \in [Nat -> Nat] /\ \A k \in Nat \ {0} : prev[k] < k
  BY DEF Earlier
<1>1. Nat \subseteq T
  <2>1. 0 \in T
    <3>1. Run(0, [i \in 0 .. 0 |-> init])
      OBVIOUS
    <3>2. QED
      BY <3>1
  <2>2. ASSUME NEW n \in Nat, n \in T PROVE n + 1 \in T
    <3>1. PICK f : Run(n, f)
      BY <2>2
    <3>2. prev[n + 1] \in 0 .. n
      <4>1. n + 1 \in Nat \ {0} /\ prev[n + 1] \in Nat /\ prev[n + 1] < n + 1
        BY <1>p
      <4>2. QED
        BY <4>1
    <3> DEFINE x == step[f[prev[n + 1]]][n + 1]
    <3>3. x \in S
      BY <1>0, <3>1, <3>2
    <3> HIDE DEF x
    <3> DEFINE g == [i \in 0 .. n + 1 |-> IF i = n + 1 THEN x ELSE f[i]]
    <3>4. \A i \in 0 .. n : g[i] = f[i] /\ f[i] \in S
      BY <3>1
    <3>5. g[n + 1] = x
      OBVIOUS
    <3>6. g \in [0 .. n + 1 -> S]
      <4>1. ASSUME NEW i \in 0 .. n + 1 PROVE (IF i = n + 1 THEN x ELSE f[i]) \in S
        <5>1. CASE i = n + 1
          BY <3>3, <5>1
        <5>2. CASE i # n + 1
          <6>1. i \in 0 .. n
            BY <5>2
          <6>2. QED
            BY <3>4, <5>2, <6>1
        <5>3. QED
          BY <5>1, <5>2
      <4>2. QED
        BY <4>1
    <3> HIDE DEF g
    <3>7. ASSUME NEW k \in 1 .. n + 1 PROVE g[k] = step[g[prev[k]]][k]
      <4>1. CASE k = n + 1
        BY <3>2, <3>4, <3>5, <4>1 DEF x
      <4>2. CASE k # n + 1
        <5>1. k \in 1 .. n /\ k \in Nat \ {0} /\ prev[k] \in Nat /\ prev[k] < k
          <6>1. k \in 1 .. n /\ k \in Nat \ {0}
            BY <4>2, ButLast
          <6>2. QED
            BY <1>p, <6>1
        <5>2. prev[k] \in 0 .. n /\ k \in 0 .. n
          BY <5>1
        <5>3. g[k] = f[k] /\ g[prev[k]] = f[prev[k]]
          BY <3>4, <5>2
        <5>4. QED
          BY <3>1, <5>1, <5>3
      <4>3. QED
        BY <4>1, <4>2
    <3>8. Run(n + 1, g)
      BY <3>1, <3>4, <3>6, <3>7
    <3>9. QED
      BY <3>8
  <2> HIDE DEF T
  <2>3. QED
    BY <2>1, <2>2, Induction
<1>2. ASSUME NEW n \in Nat, NEW f, Run(n, f), NEW m \in Nat, NEW g, Run(m, g),
             NEW i \in Nat, i <= n, i <= m
      PROVE  f[i] = g[i]
  <2> DEFINE U == {k \in Nat : k <= n /\ k <= m /\ f[k] # g[k]}
  <2> SUFFICES ASSUME U # {} PROVE FALSE
    BY <1>2
  <2>1. PICK k \in U : \A j \in U : k <= j
    <3>1. U \subseteq Nat
      OBVIOUS
    <3> HIDE DEF U
    <3>2. QED
      BY <3>1, LeastNat
  <2>2. k \in 1 .. n /\ k \in 1 .. m /\ k \in Nat \ {0}
    <3>1. k \in Nat /\ k <= n /\ k <= m /\ f[k] # g[k]
      OBVIOUS
    <3>2. f[0] = g[0]
      BY <1>2
    <3>3. k # 0
      BY <3>1, <3>2
    <3>4. QED
      BY <3>1, <3>3
  <2>3. prev[k] \in Nat /\ prev[k] < k /\ prev[k] <= n /\ prev[k] <= m
    <3>1. prev[k] \in Nat /\ prev[k] < k
      BY <1>p, <2>2
    <3>2. QED
      BY <2>2, <3>1
  <2>4. prev[k] \notin U
    BY <2>1, <2>2, <2>3
  <2>5. f[prev[k]] = g[prev[k]]
    BY <2>3, <2>4
  <2>6. f[k] = g[k]
    BY <1>2, <2>2, <2>5
  <2>7. QED
    BY <2>6
<1> DEFINE run == [n \in Nat |-> CHOOSE f : Run(n, f)]
           all == [n \in Nat |-> run[n][n]]
<1>3. \A n \in Nat : Run(n, run[n])
  <2>1. TAKE n \in Nat
  <2>2. \E f : Run(n, f)
    BY <1>1
  <2> HIDE DEF Run
  <2>3. QED
    BY <2>2
<1> HIDE DEF run
<1>4. all \in [Nat -> S]
  BY <1>3
<1>5. all[0] = init
  BY <1>3
<1>6. ASSUME NEW k \in Nat \ {0} PROVE all[k] = step[all[prev[k]]][k]
  <2>1. prev[k] \in Nat /\ prev[k] < k
    BY <1>p
  <2>2. run[k][k] = step[run[k][prev[k]]][k]
    <3>1. Run(k, run[k]) /\ k \in 1 .. k
      BY <1>3
    <3>2. QED
      BY <3>1
  <2>3. run[k][prev[k]] = run[prev[k]][prev[k]]
    <3>1. prev[k] <= k /\ prev[k] <= prev[k]
      BY <2>1
    <3>2. Run(k, run[k]) /\ Run(prev[k], run[prev[k]])
      BY <1>3, <2>1
    <3> HIDE DEF Run
    <3>3. QED
      BY <1>2, <2>1, <3>1, <3>2
  <2>4. QED
    BY <2>1, <2>2, <2>3
<1>7. QED
  BY <1>4, <1>5, <1>6

\* ... and one that is defined up to n only, each value from the one before.
StepByStep(S, init, n, step) ==
    \E f \in [0 .. n -> S] :
        f[0] = init /\ \A k \in 1 .. n : f[k] = step[f[k - 1]][k]

LEMMA RecursionUpTo ==
    ASSUME NEW S, NEW init \in S, NEW n \in Nat,
           NEW step \in Steps(S, 1 .. n)
    PROVE  StepByStep(S, init, n, step)
<1> DEFINE prev == [k \in Nat |-> IF k = 0 THEN 0 ELSE k - 1]
           more == [x \in S |-> [k \in Nat |-> IF k \in 1 .. n THEN step[x][k] ELSE x]]
<1>1. prev \in [Nat -> Nat] /\ \A k \in Nat \ {0} : prev[k] = k - 1 /\ prev[k] < k
  OBVIOUS
<1>2. more \in Steps(S, Nat)
  <2>1. \A x \in S, k \in 1 .. n : step[x][k] \in S
    BY DEF Steps
  <2>2. QED
    BY <2>1 DEF Steps
<1>3. \A x \in S, k \in 1 .. n : more[x][k] = step[x][k]
  OBVIOUS
<1> HIDE DEF prev, more
<1>4. PICK f \in [Nat -> S] :
          f[0] = init /\ \A k \in Nat \ {0} : f[k] = more[f[prev[k]]][k]
  <2>1. prev \in Earlier
    BY <1>1 DEF Earlier
  <2>2. QED
    BY <1>2, <2>1, Recursion, SMTT(20)
<1> DEFINE g == [k \in 0 .. n |-> f[k]]
<1>5. g \in [0 .. n -> S] /\ g[0] = init
  BY <1>4
<1>6. ASSUME NEW k \in 1 .. n PROVE g[k] = step[g[k - 1]][k]
  <2>1. k \in Nat \ {0} /\ k \in 0 .. n /\ k - 1 \in 0 .. n /\ k - 1 \in Nat
    OBVIOUS
  <2>2. f[k] = more[f[k - 1]][k] /\ f[k - 1] \in S
    BY <1>1, <1>4, <2>1
  <2>3. QED
    BY <1>3, <2>1, <2>2
<1>7. QED
  BY <1>5, <1>6 DEF StepByStep

-----------------------------------------------------------------------------
\* A list that another one begins with.
Extends(c, d) == Len(c) <= Len(d) /\ \A i \in 1 .. Len(c) : d[i] = c[i]

\* What is left of a sequence without its i-th element.
LEMMA RemoveAtFacts ==
    ASSUME NEW S, NEW s \in Seq(S), NEW i \in 1 .. Len(s)
    PROVE  /\ RemoveAt(s, i) \in Seq(S)
           /\ Len(RemoveAt(s, i)) = Len(s) - 1
           /\ \A j \in 1 .. Len(s) - 1 :
                 RemoveAt(s, i)[j] = IF j < i THEN s[j] ELSE s[j + 1]
<1> DEFINE n == Len(s)
           l == SubSeq(s, 1, i - 1)
           r == SubSeq(s, i + 1, n)
<1>1. n \in Nat /\ i \in Nat \ {0} /\ i <= n /\ \A j \in 1 .. n : s[j] \in S
  BY ElementOfSeq
<1> HIDE DEF n
<1>2. l \in Seq(S) /\ Len(l) = i - 1 /\ \A j \in 1 .. i - 1 : l[j] = s[j]
  BY <1>1 DEF n
<1>3. r \in Seq(S) /\ Len(r) = n - i /\ \A j \in 1 .. n - i : r[j] = s[i + j]
  BY <1>1 DEF n
<1> HIDE DEF l, r
<1>4. /\ l \o r \in Seq(S) /\ Len(l \o r) = (i - 1) + (n - i)
      /\ \A j \in 1 .. (i - 1) + (n - i) :
            (l \o r)[j] = IF j <= i - 1 THEN l[j] ELSE r[j - (i - 1)]
  <2>1. /\ l \o r \in Seq(S) /\ Len(l \o r) = Len(l) + Len(r)
        /\ \A j \in 1 .. Len(l) + Len(r) :
              (l \o r)[j] = IF j <= Len(l) THEN l[j] ELSE r[j - Len(l)]
    BY <1>2, <1>3, ConcatProperties
  <2>2. QED
    BY <1>2, <1>3, <2>1
<1>5. (i - 1) + (n - i) = n - 1
  BY <1>1
<1>6. ASSUME NEW j \in 1 .. n - 1
      PROVE  (l \o r)[j] = IF j < i THEN s[j] ELSE s[j + 1]
  <2>1. CASE j < i
    <3>1. j \in 1 .. i - 1 /\ j <= i - 1
      BY <1>1, <2>1
    <3>2. QED
      BY <1>2, <1>4, <1>5, <2>1, <3>1
  <2>2. CASE ~(j < i)
    <3>1. j - (i - 1) \in 1 .. n - i /\ i + (j - (i - 1)) = j + 1 /\ ~(j <= i - 1)
      BY <1>1, <2>2
    <3>2. r[j - (i - 1)] = s[j + 1]
      BY <1>3, <3>1
    <3>3. QED
      BY <1>4, <1>5, <2>2, <3>1, <3>2
  <2>3. QED
    BY <2>1, <2>2
<1>7. RemoveAt(s, i) = l \o r
  BY DEF RemoveAt, l, r, n
<1>8. QED
  BY <1>4, <1>5, <1>6, <1>7 DEF n

\* A queue without the first of some element.
LEMMA RemoveFirstFacts ==
    ASSUME NEW S, NEW s \in Seq(S), NEW e \in Range(s)
    PROVE  /\ RemoveFirst(s, e) \in Seq(S)
           /\ Len(RemoveFirst(s, e)) = Len(s) - 1
           /\ \E m \in 1 .. Len(s) :
                 /\ s[m] = e
                 /\ \A i \in 1 .. Len(s) - 1 :
                       RemoveFirst(s, e)[i] = s[IF i < m THEN i ELSE i + 1]
<1> DEFINE n == Len(s)
           I == {i \in 1 .. n : s[i] = e}
           m == Min(I)
           u == SubSeq(s, 1, m - 1)
           v == SubSeq(s, m + 1, n)
<1>1. n \in Nat /\ DOMAIN s = 1 .. n
  BY LenProperties
<1>2. I \subseteq Nat /\ I # {}
  BY <1>1 DEF Range
<1>3. m \in I
  <2>1. \E x \in I : \A y \in I : x <= y
    <3> HIDE DEF I
    <3>1. QED
      BY <1>2, LeastNat
  <2> HIDE DEF I
  <2>2. QED
    BY <2>1 DEF Min
<1>4. RemoveFirst(s, e) = u \o v
  <2>1. \E i \in 1 .. n : s[i] = e
    BY <1>2
  <2>2. SelectInSeq(s, LAMBDA x : x = e) = IF I # {} THEN Min(I) ELSE 0
    BY DEF SelectInSeq
  <2>3. SelectInSeq(s, LAMBDA x : x = e) = m
    <3> HIDE DEF I
    <3>1. QED
      BY <1>2, <2>2
  <2> HIDE DEF m, I
  <2>4. QED
    BY <2>1, <2>3 DEF RemoveFirst, RemoveAt
<1>5. m \in 1 .. n /\ s[m] = e
  BY <1>3
<1> HIDE DEF m, I
<1>6. /\ u \in Seq(S) /\ Len(u) = m - 1
      /\ \A i \in 1 .. m - 1 : u[i] = s[i]
  <2>1. \A i \in 1 .. m - 1 : s[i] \in S
    BY <1>1, <1>5, ElementOfSeq
  <2>2. 1 \in 1 .. n + 1 /\ m - 1 \in 1 - 1 .. n /\ m - 1 \in Nat
    BY <1>1, <1>5
  <2>3. QED
    BY <1>1, <1>5, <2>1, <2>2, SubSeqProperties
<1>7. /\ v \in Seq(S) /\ Len(v) = n - m
      /\ \A i \in 1 .. n - m : v[i] = s[m + i]
  <2> DEFINE k == m + 1
  <2>1. k \in Int /\ n \in Int /\ \A i \in k .. n : s[i] \in S
    BY <1>1, <1>5, ElementOfSeq
  <2>2. k = m + 1
    OBVIOUS
  <2> HIDE DEF k
  <2>3. /\ SubSeq(s, k, n) \in Seq(S)
        /\ Len(SubSeq(s, k, n)) = IF k <= n THEN n - k + 1 ELSE 0
        /\ \A i \in 1 .. n - k + 1 : SubSeq(s, k, n)[i] = s[k + i - 1]
    BY <2>1, SubSeqProperties
  <2>4. n - k + 1 = n - m /\ (IF k <= n THEN n - k + 1 ELSE 0) = n - m
        /\ \A i \in 1 .. n - m : k + i - 1 = m + i
    <3>1. n \in Nat /\ m \in Nat /\ m <= n
      BY <1>1, <1>5
    <3>2. QED
      BY <2>2, <3>1
  <2>5. QED
    BY <2>2, <2>3, <2>4
<1> HIDE DEF u, v, n
<1>8. /\ u \o v \in Seq(S) /\ Len(u \o v) = Len(u) + Len(v)
      /\ \A i \in 1 .. Len(u) + Len(v) :
            (u \o v)[i] = IF i <= Len(u) THEN u[i] ELSE v[i - Len(u)]
  BY <1>6, <1>7, ConcatProperties
<1>9. ASSUME NEW i \in 1 .. n - 1
      PROVE  (u \o v)[i] = s[IF i < m THEN i ELSE i + 1]
  <2>0. (u \o v)[i] = IF i <= m - 1 THEN u[i] ELSE v[i - (m - 1)]
    BY <1>1, <1>5, <1>6, <1>7, <1>8
  <2>1. CASE i < m
    <3>1. i \in 1 .. m - 1 /\ i <= m - 1
      BY <1>1, <1>5, <2>1
    <3>2. QED
      BY <1>6, <2>0, <2>1, <3>1
  <2>2. CASE ~(i < m)
    <3>1. i - (m - 1) \in 1 .. n - m /\ ~(i <= m - 1) /\ m + (i - (m - 1)) = i + 1
      BY <1>1, <1>5, <2>2
    <3>2. QED
      BY <1>7, <2>0, <2>2, <3>1
  <2>3. QED
    BY <2>1, <2>2
<1>10. Len(u \o v) = n - 1
  BY <1>1, <1>5, <1>6, <1>7, <1>8
<1>11. QED
  BY <1>4, <1>5, <1>8, <1>9, <1>10 DEF n
===============================================================================
