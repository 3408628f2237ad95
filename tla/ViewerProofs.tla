------------------------------ MODULE ViewerProofs ------------------------------
(***************************************************************************)
(* Proofs about Viewer, for every set of entries, every capacity of the    *)
(* ring, every size of the buffer and whatever keys the user types.        *)
(***************************************************************************)
EXTENDS Viewer, SequenceFacts

Chars == Seq(Char)
Link  == Entry \cup {Null}

-----------------------------------------------------------------------------
(* The list of entries.                                                    *)

\* The links lead through the entries of s.
Linked(s) ==
    /\ s \in Seq(Entry)
    /\ IsInjective(s)
    /\ head = IF s = <<>> THEN Null ELSE s[1]
    /\ \A i \in 1 .. Len(s) :
          next[s[i]] = IF i = Len(s) THEN Null ELSE s[i + 1]

\* The iterator is well defined whatever the links are.
LEMMA EntriesFromStep ==
    ASSUME next \in [Entry -> Link], NEW e \in Link, NEW n \in Nat
    PROVE  EntriesFrom[n][e] = IF e = Null \/ n = 0 THEN <<>>
                               ELSE <<e>> \o EntriesFrom[n - 1][next[e]]
<1> DEFINE S == [Link -> Seq(Entry)]
           init == [x \in Link |-> <<>>]
           onward(h) == [x \in Link |-> IF x = Null THEN <<>> ELSE <<x>> \o h[next[x]]]
           step == [h \in S |-> onward(h)]
           G(g) == [k \in Nat |->
                       [x \in Entry \cup {Null} |->
                           IF x = Null \/ k = 0 THEN <<>>
                           ELSE <<x>> \o g[k - 1][next[x]]]]
<1>1. init \in S
  OBVIOUS
<1>2. step \in [S -> S]
  <2>1. ASSUME NEW h \in S, NEW x \in Link, x # Null
        PROVE  <<x>> \o h[next[x]] \in Seq(Entry)
    <3>1. x \in Entry /\ next[x] \in Link
      BY <2>1 DEF Link
    <3>2. h[next[x]] \in Seq(Entry) /\ <<x>> \in Seq(Entry)
      BY <3>1
    <3>3. QED
      BY <3>2, ConcatProperties
  <2>2. ASSUME NEW h \in S PROVE onward(h) \in S
    <3>1. ASSUME NEW x \in Link
          PROVE  (IF x = Null THEN <<>> ELSE <<x>> \o h[next[x]]) \in Seq(Entry)
      <4>1. <<>> \in Seq(Entry)
        OBVIOUS
      <4>2. QED
        BY <2>1, <4>1
    <3>2. QED
      BY <3>1
  <2> HIDE DEF onward, S
  <2>3. QED
    BY <2>2
<1>3. PICK f \in [Nat -> S] : f[0] = init /\ \A k \in Nat : f[k + 1] = step[f[k]]
  <2>1. \E f \in [Nat -> S] : Iterates(f, init, step)
    <3> HIDE DEF S, init, step
    <3>1. QED
      BY <1>1, <1>2, Iterated
  <2>2. QED
    BY <2>1 DEF Iterates
<1>4. f = G(f)
  <2>1. ASSUME NEW k \in Nat
        PROVE  f[k] = [x \in Link |-> IF x = Null \/ k = 0 THEN <<>>
                                      ELSE <<x>> \o f[k - 1][next[x]]]
    <3>1. CASE k = 0
      BY <1>3, <3>1
    <3>2. CASE k # 0
      <4>1. k - 1 \in Nat /\ (k - 1) + 1 = k
        BY <3>2
      <4>2. f[k] = step[f[k - 1]] /\ f[k - 1] \in S
        <5> HIDE DEF S, step
        <5>1. QED
          BY <1>3, <4>1
      <4>3. f[k] = onward(f[k - 1])
        <5> HIDE DEF S, onward
        <5>1. QED
          BY <4>2
      <4>4. QED
        BY <3>2, <4>3
    <3>3. QED
      BY <3>1, <3>2
  <2>2. QED
    BY <2>1 DEF Link
<1>5. EntriesFrom = G(EntriesFrom)
  <2>1. EntriesFrom = CHOOSE g : g = G(g)
    BY DEF EntriesFrom
  <2> HIDE DEF G
  <2>2. QED
    BY <1>4, <2>1
<1>6. G(EntriesFrom)[n] = [x \in Link |-> IF x = Null \/ n = 0 THEN <<>>
                                    ELSE <<x>> \o EntriesFrom[n - 1][next[x]]]
  BY DEF Link
<1>7. QED
  <2> HIDE DEF G
  <2>1. EntriesFrom[n] = G(EntriesFrom)[n]
    BY <1>5
  <2>2. QED
    BY <1>6, <2>1

\* What is linked is what is shown: no entry twice, so they are not too many.
LEMMA EntriesShown ==
    ASSUME next \in [Entry -> Link], NEW s, Linked(s)
    PROVE  Entries = s
<1> DEFINE m == Len(s)
           at(k) == IF k = 0 THEN Null ELSE s[m - k + 1]
           T == {k \in Nat : k <= m => \A n \in Nat : n >= k =>
                    EntriesFrom[n][at(k)] = SubSeq(s, m - k + 1, m)}
<1>1. m \in Nat /\ DOMAIN s = 1 .. m /\ s \in Seq(Entry) /\ \A i \in 1 .. m : s[i] \in Entry
  BY DEF Linked
<1>2. 0 \in T
  <2>1. SubSeq(s, m - 0 + 1, m) = <<>>
    BY <1>1, SubSeqEmpty
  <2>2. \A n \in Nat : EntriesFrom[n][Null] = <<>>
    BY EntriesFromStep DEF Link
  <2>3. QED
    BY <2>1, <2>2
<1>3. ASSUME NEW k \in Nat, k \in T PROVE k + 1 \in T
  <2> SUFFICES ASSUME k + 1 <= m, NEW n \in Nat, n >= k + 1
               PROVE  EntriesFrom[n][at(k + 1)] = SubSeq(s, m - (k + 1) + 1, m)
    OBVIOUS
  <2> DEFINE i == m - k
  <2>1. i \in 1 .. m /\ m - (k + 1) + 1 = i /\ m - k + 1 = i + 1 /\ i \in Nat
    BY <1>1
  <2>2. at(k + 1) = s[i] /\ s[i] \in Entry
    BY <1>1, <2>1
  <2>3. next[s[i]] = at(k)
    <3>1. next[s[i]] = IF i = m THEN Null ELSE s[i + 1]
      <4>1. \A j \in 1 .. m : next[s[j]] = IF j = m THEN Null ELSE s[j + 1]
        BY DEF Linked
      <4> HIDE DEF i, m
      <4>2. QED
        BY <2>1, <4>1
    <3>2. (i = m <=> k = 0) /\ i + 1 = m - k + 1
      <4>1. m \in Nat
        BY <1>1
      <4> HIDE DEF m
      <4>2. QED
        BY <4>1
    <3> HIDE DEF m
    <3>3. QED
      BY <3>1, <3>2
  <2>4. n - 1 \in Nat /\ n - 1 >= k /\ n # 0 /\ k <= m
    OBVIOUS
  <2>5. EntriesFrom[n - 1][at(k)] = SubSeq(s, i + 1, m)
    BY <1>3, <2>1, <2>4
  <2>6. s[i] # Null /\ s[i] \in Link
    BY <2>2, ViewerAssumption DEF Link
  <2>7. EntriesFrom[n][s[i]] = <<s[i]>> \o SubSeq(s, i + 1, m)
    <3> DEFINE e == s[i]
    <3>1. e \in Link /\ e # Null
      BY <2>6
    <3>2. next[e] = at(k) /\ EntriesFrom[n - 1][at(k)] = SubSeq(s, i + 1, m)
      BY <2>3, <2>5
    <3>3. EntriesFrom[n][e] = <<e>> \o EntriesFrom[n - 1][next[e]]
      <4> HIDE DEF e
      <4>1. QED
        BY <2>4, <3>1, EntriesFromStep
    <3>4. QED
      BY <3>2, <3>3
  <2>8. SubSeq(s, i, m) = <<s[i]>> \o SubSeq(s, i + 1, m)
    <3> HIDE DEF i, m
    <3>1. i \in 1 .. m /\ m \in 1 .. m + 1 /\ m = Len(s) /\ m \in Nat
      BY <1>1, <2>1 DEF m
    <3>2. QED
      BY <1>1, <3>1, SubSeqRecursiveFirst
  <2>9. QED
    BY <2>1, <2>2, <2>7, <2>8
<1>4. m \in T
  <2> HIDE DEF T
  <2>1. QED
    BY <1>1, <1>2, <1>3, Induction
<1>5. m <= Cardinality(Entry) /\ Cardinality(Entry) \in Nat
  <2>1. s \in [1 .. m -> Entry] /\ IsInjective(s)
    BY <1>1, LenProperties DEF Linked
  <2>2. s \in Injection(1 .. m, Entry)
    BY <2>1 DEF Injection
  <2>3. /\ Cardinality(1 .. m) <= Cardinality(Entry)
        /\ Cardinality(1 .. m) = m
        /\ Cardinality(Entry) \in Nat
    <3> HIDE DEF m
    <3>1. QED
      BY <1>1, <2>2, ViewerAssumption, FS_Injection, FS_Interval, FS_CardinalityType
  <2>4. QED
    BY <2>3
<1>6. at(m) = head /\ SubSeq(s, m - m + 1, m) = s
  <2>1. m - m + 1 = 1 /\ (m = 0 <=> s = <<>>)
    BY <1>1, EmptySeq
  <2>2. SubSeq(s, 1, m) = s
    BY <1>1, SubSeqFull
  <2>3. QED
    BY <2>1, <2>2 DEF Linked
<1>7. Cardinality(Entry) + 1 \in Nat /\ Cardinality(Entry) + 1 >= m
  BY <1>1, <1>5
<1>8. QED
  BY <1>1, <1>4, <1>6, <1>7 DEF Entries
ShownAsLinked == next \in [Entry -> Link] => \A s : Linked(s) => Entries = s

LEMMA EntriesAlways == ShownAsLinked
BY EntriesShown DEF ShownAsLinked

\* The same of the list behind a step.
LEMMA EntriesNext ==
    ASSUME next' \in [Entry -> Link], NEW s, Linked(s)'
    PROVE  Entries' = s
<1>1. ShownAsLinked'
  BY EntriesAlways, PTL
<1>2. QED
  BY <1>1 DEF ShownAsLinked, Link

\* What Linked says that the steps of the list use.
LEMMA LinkedFacts ==
    ASSUME NEW s, Linked(s)
    PROVE  /\ s \in Seq(Entry) /\ Len(s) \in Nat /\ DOMAIN s = 1 .. Len(s)
           /\ \A i \in 1 .. Len(s) : s[i] \in Entry /\ s[i] # Null
           /\ \A i, j \in 1 .. Len(s) : s[i] = s[j] => i = j
           /\ head = Null <=> s = <<>>
           /\ s = <<>> <=> Len(s) = 0
           /\ head \in Link
<1>1. s \in Seq(Entry) /\ Len(s) \in Nat /\ DOMAIN s = 1 .. Len(s)
  BY LenProperties DEF Linked
<1>2. \A i \in 1 .. Len(s) : s[i] \in Entry /\ s[i] # Null
  BY <1>1, ElementOfSeq, ViewerAssumption
<1>3. \A i, j \in 1 .. Len(s) : s[i] = s[j] => i = j
  BY <1>1 DEF Linked, IsInjective
<1>4. s = <<>> <=> Len(s) = 0
  BY <1>1, EmptySeq
<1>5. (head = Null <=> s = <<>>) /\ head \in Link
  <2>1. CASE s = <<>>
    BY <2>1 DEF Linked, Link
  <2>2. CASE s # <<>>
    <3>1. 1 \in 1 .. Len(s)
      BY <1>1, <1>4, <2>2
    <3>2. head = s[1]
      BY <2>2 DEF Linked
    <3>3. QED
      BY <1>2, <2>2, <3>1, <3>2 DEF Link
  <2>3. QED
    BY <2>1, <2>2
<1>6. QED
  BY <1>1, <1>2, <1>3, <1>4, <1>5

\* tail_ is at the last of the entries of s, and not at one that was copied.
Whole(s) == s = <<>> \/ text[s[Len(s)]] = s[Len(s)]

\* Objects that were not removed hold their own text; those of s say what was
\* added, everything once and as long as the list is whole all of it.
Named(s) ==
    /\ \A e \in Entry : used[e] # "removed" => text[e] = e
    /\ \A e \in Entry : used[e] = "new" =>
          next[e] = Null /\ e # tail /\ \A i \in 1 .. Len(s) : s[i] # e
    /\ \A i \in 1 .. Len(s) : used[text[s[i]]] = "added"
    /\ \A i, j \in 1 .. Len(s) : text[s[i]] = text[s[j]] => i = j
    /\ s # <<>> => tail \in Entry
    /\ \A i \in 1 .. Len(s) : tail = s[i] <=> i = Len(s) /\ Whole(s)
    /\ Whole(s) => \A e \in Entry : used[e] = "added" =>
                      \E i \in 1 .. Len(s) : text[s[i]] = e

ListType ==
    /\ next \in [Entry -> Link] /\ tail \in Link
    /\ text \in [Entry -> Entry] /\ used \in [Entry -> {"new", "added", "removed"}]

\* The same lists, by the index.
LEMMA NamedFacts ==
    ASSUME ListType, NEW s, Linked(s), Named(s)
    PROVE  /\ s \in Seq(Entry) /\ Len(s) \in Nat /\ DOMAIN s = 1 .. Len(s)
           /\ \A i \in 1 .. Len(s) : /\ s[i] \in Entry /\ s[i] # Null
                                     /\ text[s[i]] \in Entry
           /\ \A i, j \in 1 .. Len(s) : s[i] = s[j] => i = j
           /\ s = <<>> <=> Len(s) = 0
           /\ Range(s) = {s[i] : i \in 1 .. Len(s)}
           /\ Len(s) # 0 => Len(s) \in 1 .. Len(s) /\ 1 \in 1 .. Len(s)
<1>1. /\ s \in Seq(Entry) /\ Len(s) \in Nat /\ DOMAIN s = 1 .. Len(s)
      /\ \A i \in 1 .. Len(s) : s[i] \in Entry /\ s[i] # Null
      /\ \A i, j \in 1 .. Len(s) : s[i] = s[j] => i = j
      /\ s = <<>> <=> Len(s) = 0
  BY LinkedFacts
<1>2. \A i \in 1 .. Len(s) : text[s[i]] \in Entry
  BY <1>1 DEF ListType
<1>3. Range(s) = {s[i] : i \in 1 .. Len(s)}
  BY <1>1 DEF Range
<1>4. Len(s) # 0 => Len(s) \in 1 .. Len(s) /\ 1 \in 1 .. Len(s)
  BY <1>1
<1>5. QED
  BY <1>1, <1>2, <1>3, <1>4

\* The objects whose text is another's, and what they say.
Elsewhere == {text[e] : e \in {o \in Range(Entries) : text[o] # o}}

LEMMA MovedTexts ==
    ASSUME ListType, NEW s, Linked(s), Named(s)
    PROVE  \A i \in 1 .. Len(s) :
              text[s[i]] \in {text[e] : e \in {o \in Range(s) : text[o] # o}}
                 <=> text[s[i]] # s[i]
<1>1. /\ Range(s) = {s[i] : i \in 1 .. Len(s)}
      /\ \A i, j \in 1 .. Len(s) : text[s[i]] = text[s[j]] => i = j
  BY NamedFacts DEF Named
<1>2. QED
  BY <1>1

\* AddEntry to an empty list.
LEMMA FirstAdded ==
    ASSUME ListType, NEW s, Linked(s), Named(s), s = <<>>, NEW e \in Entry, AddEntry(e)
    PROVE  ListType' /\ Linked(<<e>>)' /\ Named(<<e>>)'
<1> DEFINE t == <<e>>
<1>1. /\ head' = e /\ tail' = e /\ next' = next /\ text' = text
      /\ used' = [used EXCEPT ![e] = "added"] /\ used[e] = "new"
  <2>1. head = Null
    BY LinkedFacts
  <2>2. QED
    BY <2>1 DEF AddEntry, NewTail
<1>2. ListType'
  BY <1>1 DEF ListType, Link
<1>3. /\ next[e] = Null /\ text[e] = e
      /\ \A x \in Entry : used[x] # "added" /\ (used[x] = "new" => next[x] = Null)
      /\ \A x \in Entry : used[x] # "removed" => text[x] = x
  <2>1. Len(s) = 0
    OBVIOUS
  <2>2. \A x \in Entry : used[x] # "added"
    BY <2>1 DEF Named, Whole
  <2>3. QED
    BY <1>1, <2>2 DEF Named
<1>4. t \in Seq(Entry) /\ Len(t) = 1 /\ t[1] = e /\ t # <<>> /\ 1 .. Len(t) = {1}
  OBVIOUS
<1>5. IsInjective(t)
  BY <1>4 DEF IsInjective
<1> HIDE DEF t
<1>6. Linked(t)'
  BY <1>1, <1>3, <1>4, <1>5 DEF Linked
<1>7. /\ \A x \in Entry : used'[x] = IF x = e THEN "added" ELSE used[x]
      /\ text' = text
  BY <1>1 DEF ListType
<1>8. Named(t)'
  BY <1>1, <1>3, <1>4, <1>7 DEF Named, Whole
<1>9. QED
  BY <1>2, <1>6, <1>8 DEF t

\* AddEntry to a list that is whole links the entry behind the last one.
LEMMA EntryAdded ==
    ASSUME ListType, NEW s, Linked(s), Named(s), s # <<>>, Whole(s),
           NEW e \in Entry, AddEntry(e)
    PROVE  ListType' /\ Linked(Append(s, e))' /\ Named(Append(s, e))'
<1> DEFINE n == Len(s)
           t == Append(s, e)
<1>1. /\ s \in Seq(Entry) /\ n \in Nat /\ DOMAIN s = 1 .. n
      /\ \A i \in 1 .. n : s[i] \in Entry /\ s[i] # Null /\ text[s[i]] \in Entry
      /\ \A i, j \in 1 .. n : s[i] = s[j] => i = j
      /\ n \in 1 .. n /\ 1 \in 1 .. n
  BY NamedFacts
<1>2. /\ head' = head /\ tail' = e /\ next' = [next EXCEPT ![tail] = e]
      /\ used' = [used EXCEPT ![e] = "added"] /\ text' = text /\ used[e] = "new"
  <2>1. head # Null
    BY LinkedFacts
  <2>2. QED
    BY <2>1 DEF AddEntry, NewTail
<1>3. /\ next[e] = Null /\ text[e] = e /\ \A i \in 1 .. n : s[i] # e
      /\ tail = s[n]
  BY <1>1, <1>2 DEF Named
<1>4. /\ t \in Seq(Entry) /\ Len(t) = n + 1 /\ t # <<>>
      /\ \A i \in 1 .. n : t[i] = s[i]
      /\ t[n + 1] = e
  BY <1>1, AppendProperties
<1>5. IsInjective(t)
  <2>1. s \in Seq(Entry) /\ IsInjective(s) /\ e \notin Range(s)
    BY <1>1, <1>3 DEF Linked, Range
  <2>2. QED
    BY <2>1, AppendFacts
<1>6. ListType'
  BY <1>2 DEF ListType, Link
<1>7. /\ \A x \in Entry : used'[x] = IF x = e THEN "added" ELSE used[x]
      /\ \A x \in Entry : next'[x] = IF x = s[n] THEN e ELSE next[x]
  BY <1>2, <1>3 DEF ListType
<1>8. head' = t[1]
  BY <1>1, <1>2, <1>4 DEF Linked
<1> HIDE DEF t, n
<1>9. ASSUME NEW i \in 1 .. n + 1
      PROVE  \/ i = n + 1 /\ t[i] = e
             \/ i \in 1 .. n /\ t[i] = s[i] /\ i # n + 1
  BY <1>1, <1>4
<1>10. ASSUME NEW i \in 1 .. n + 1
       PROVE  next'[t[i]] = IF i = n + 1 THEN Null ELSE t[i + 1]
  <2>1. CASE i = n + 1
    BY <1>1, <1>3, <1>4, <1>7, <2>1
  <2>2. CASE i = n
    BY <1>1, <1>4, <1>7, <2>2
  <2>3. CASE i # n /\ i # n + 1
    <3>1. i \in 1 .. n /\ i + 1 \in 1 .. n /\ i # n
      BY <1>1, <2>3
    <3>2. next[s[i]] = s[i + 1] /\ s[i] # s[n]
      BY <1>1, <3>1 DEF Linked, n
    <3>3. QED
      BY <1>1, <1>4, <1>7, <3>1, <3>2
  <2>4. QED
    BY <2>1, <2>2, <2>3
<1>11. Linked(t)'
  BY <1>4, <1>5, <1>8, <1>10 DEF Linked
<1>12. Named(t)'
  <2>1. /\ \A x \in Entry : used[x] # "removed" => text[x] = x
        /\ \A i \in 1 .. n : used[text[s[i]]] = "added"
        /\ \A i, j \in 1 .. n : text[s[i]] = text[s[j]] => i = j
        /\ \A x \in Entry : used[x] = "added" => \E i \in 1 .. n : text[s[i]] = x
        /\ \A x \in Entry : used[x] = "new" =>
              next[x] = Null /\ \A i \in 1 .. n : s[i] # x
    BY DEF Named, n
  <2>2. \A x \in Entry : used'[x] # "removed" => text'[x] = x
    BY <1>2, <1>3, <1>7, <2>1
  <2>3. ASSUME NEW x \in Entry, used'[x] = "new"
        PROVE  next'[x] = Null /\ x # tail' /\ \A i \in 1 .. n + 1 : t[i] # x
    <3>1. x # e /\ used[x] = "new"
      BY <1>7, <2>3
    <3>2. next[x] = Null /\ \A i \in 1 .. n : s[i] # x
      BY <2>1, <3>1
    <3>3. QED
      BY <1>1, <1>2, <1>7, <1>9, <3>1, <3>2
  <2>4. ASSUME NEW i \in 1 .. n + 1 PROVE used'[text'[t[i]]] = "added"
    BY <1>1, <1>2, <1>3, <1>7, <1>9, <2>1
  <2>5. ASSUME NEW i \in 1 .. n + 1, NEW j \in 1 .. n + 1, text'[t[i]] = text'[t[j]]
        PROVE  i = j
    <3>1. \A k \in 1 .. n : text[s[k]] # e
      BY <1>2, <2>1
    <3>2. QED
      BY <1>2, <1>3, <1>9, <2>1, <2>5, <3>1
  <2>6. tail' \in Entry
    BY <1>2
  <2>7. Whole(t)'
    BY <1>2, <1>3, <1>4 DEF Whole
  <2>8. ASSUME NEW i \in 1 .. n + 1 PROVE tail' = t[i] <=> i = n + 1
    BY <1>2, <1>3, <1>9
  <2>9. ASSUME NEW x \in Entry, used'[x] = "added"
        PROVE  \E i \in 1 .. n + 1 : text'[t[i]] = x
    <3>1. CASE x = e
      BY <1>1, <1>2, <1>3, <1>4, <3>1
    <3>2. CASE x # e
      <4>1. PICK i \in 1 .. n : text[s[i]] = x
        BY <1>7, <2>1, <2>9, <3>2
      <4>2. QED
        BY <1>1, <1>2, <1>4, <4>1
    <3>3. QED
      BY <3>1, <3>2
  <2>10. QED
    BY <1>4, <2>2, <2>3, <2>4, <2>5, <2>6, <2>7, <2>8, <2>9 DEF Named
<1>13. QED
  BY <1>6, <1>11, <1>12 DEF t

\* And to one that is not whole behind an object that is not on the list.
LEMMA EntryLost ==
    ASSUME ListType, NEW s, Linked(s), Named(s), ~Whole(s), NEW e \in Entry, AddEntry(e)
    PROVE  ListType' /\ Linked(s)' /\ Named(s)'
<1> DEFINE n == Len(s)
<1>1. /\ s # <<>> /\ n \in Nat /\ n \in 1 .. n
      /\ \A i \in 1 .. n : s[i] \in Entry
  BY NamedFacts DEF Whole
<1>2. /\ head' = head /\ tail' = e /\ next' = [next EXCEPT ![tail] = e]
      /\ used' = [used EXCEPT ![e] = "added"] /\ text' = text /\ used[e] = "new"
  <2>1. head # Null
    BY <1>1, LinkedFacts
  <2>2. QED
    BY <2>1 DEF AddEntry, NewTail
<1>3. /\ text[e] = e /\ \A i \in 1 .. n : s[i] # e
      /\ tail \in Entry /\ \A i \in 1 .. n : s[i] # tail
  BY <1>1, <1>2 DEF Named
<1>4. ListType'
  BY <1>2 DEF ListType, Link
<1>5. /\ \A x \in Entry : used'[x] = IF x = e THEN "added" ELSE used[x]
      /\ \A x \in Entry : next'[x] = IF x = tail THEN e ELSE next[x]
  BY <1>2 DEF ListType
<1>6. Linked(s)'
  <2>1. ASSUME NEW i \in 1 .. n PROVE next'[s[i]] = next[s[i]]
    BY <1>1, <1>3, <1>5
  <2>2. QED
    BY <1>2, <2>1 DEF Linked
<1>7. Named(s)'
  <2>1. \A x \in Entry : used'[x] # "removed" => text'[x] = x
    BY <1>2, <1>3, <1>5 DEF Named
  <2>2. ASSUME NEW x \in Entry, used'[x] = "new"
        PROVE  next'[x] = Null /\ x # tail' /\ \A i \in 1 .. n : s[i] # x
    BY <1>2, <1>5, <2>2 DEF Named
  <2>3. ASSUME NEW i \in 1 .. n PROVE used'[text'[s[i]]] = "added"
    <3>1. text[s[i]] \in Entry /\ used[text[s[i]]] = "added"
      BY NamedFacts DEF Named
    <3>2. QED
      BY <1>2, <1>5, <3>1
  <2>4. \A i, j \in 1 .. n : text'[s[i]] = text'[s[j]] => i = j
    BY <1>2 DEF Named
  <2>5. tail' \in Entry /\ \A i \in 1 .. n : tail' # s[i]
    BY <1>2, <1>3
  <2>6. ~Whole(s)'
    BY <1>1, <1>2 DEF Whole
  <2>7. QED
    BY <2>1, <2>2, <2>3, <2>4, <2>5, <2>6 DEF Named
<1>8. QED
  BY <1>4, <1>6, <1>7

\* RemoveEntry of the first one leaves the others linked.
LEMMA HeadRemoved ==
    ASSUME ListType, NEW s, Linked(s), Named(s),
           NEW e \in Entry, used[e] = "added", RemoveHead(e),
           used' = [used EXCEPT ![e] = "removed"]
    PROVE  /\ s # <<>> /\ s[1] = e /\ text[e] = e
           /\ ListType' /\ Linked(RemoveAt(s, 1))' /\ Named(RemoveAt(s, 1))'
<1> DEFINE n == Len(s)
           t == RemoveAt(s, 1)
<1>1. /\ s # <<>> /\ s[1] = e
      /\ s \in Seq(Entry) /\ n \in Nat \ {0} /\ DOMAIN s = 1 .. n
      /\ \A i \in 1 .. n : s[i] \in Entry /\ text[s[i]] \in Entry
      /\ \A i, j \in 1 .. n : s[i] = s[j] => i = j
      /\ n \in 1 .. n /\ 1 \in 1 .. n
  <2>1. head # Null
    BY ViewerAssumption DEF RemoveHead
  <2>2. s # <<>> /\ s[1] = e
    BY <2>1 DEF Linked, RemoveHead
  <2>3. QED
    BY <2>2, NamedFacts
<1>2. /\ t \in Seq(Entry) /\ Len(t) = n - 1 /\ (t = <<>> <=> n = 1)
      /\ \A i \in 1 .. n - 1 : t[i] = s[i + 1] /\ i + 1 \in 1 .. n
  <2>1. /\ t \in Seq(Entry) /\ Len(t) = n - 1
        /\ \A i \in 1 .. n - 1 : t[i] = IF i < 1 THEN s[i] ELSE s[i + 1]
    <3>1. s \in Seq(Entry) /\ 1 \in 1 .. Len(s)
      BY <1>1
    <3>2. QED
      BY <3>1, RemoveAtFacts
  <2> HIDE DEF t, n
  <2>2. t = <<>> <=> n = 1
    BY <1>1, <2>1, EmptySeq
  <2>3. QED
    BY <1>1, <2>1, <2>2
<1>3. /\ head' = next[e] /\ tail' = tail /\ next' = next /\ text' = text
      /\ used' = [used EXCEPT ![e] = "removed"]
      /\ \A i \in 1 .. n : next[s[i]] = IF i = n THEN Null ELSE s[i + 1]
  BY DEF RemoveHead, Linked
<1>4. ListType'
  BY <1>3 DEF ListType
<1>5. text[e] = e /\ \A x \in Entry : used'[x] = IF x = e THEN "removed" ELSE used[x]
  BY <1>3 DEF ListType, Named
<1> HIDE DEF n, t
<1>6. Linked(t)'
  <2>1. IsInjective(t)
    <3> SUFFICES ASSUME NEW i \in 1 .. n - 1, NEW j \in 1 .. n - 1, t[i] = t[j]
                 PROVE  i = j
      BY <1>2 DEF IsInjective
    <3>1. i + 1 \in 1 .. n /\ j + 1 \in 1 .. n /\ s[i + 1] = s[j + 1]
      BY <1>2
    <3>2. QED
      BY <1>1, <3>1
  <2>2. head' = IF t = <<>> THEN Null ELSE t[1]
    <3>1. n # 1 => 1 \in 1 .. n - 1
      BY <1>1
    <3>2. QED
      BY <1>1, <1>2, <1>3, <3>1
  <2>3. ASSUME NEW i \in 1 .. n - 1
        PROVE  next'[t[i]] = IF i = n - 1 THEN Null ELSE t[i + 1]
    <3>1. i + 1 \in 1 .. n /\ (i = n - 1 <=> i + 1 = n) /\ (i # n - 1 => i + 1 \in 1 .. n - 1)
      BY <1>1
    <3>2. QED
      BY <1>2, <1>3, <3>1
  <2>4. QED
    BY <1>2, <2>1, <2>2, <2>3 DEF Linked
<1>7. Named(t)'
  <2>1. /\ \A x \in Entry : used[x] # "removed" => text[x] = x
        /\ \A x \in Entry : used[x] = "new" =>
              next[x] = Null /\ x # tail /\ \A i \in 1 .. n : s[i] # x
        /\ \A i \in 1 .. n : used[text[s[i]]] = "added"
        /\ \A i, j \in 1 .. n : text[s[i]] = text[s[j]] => i = j
        /\ tail \in Entry
        /\ \A i \in 1 .. n : tail = s[i] <=> i = n /\ Whole(s)
        /\ Whole(s) => \A x \in Entry : used[x] = "added" =>
                          \E i \in 1 .. n : text[s[i]] = x
    BY <1>1 DEF Named, n
  <2>2. \A x \in Entry : used'[x] # "removed" => text'[x] = x
    BY <1>3, <1>5, <2>1
  <2>3. ASSUME NEW x \in Entry, used'[x] = "new"
        PROVE  next'[x] = Null /\ x # tail' /\ \A i \in 1 .. n - 1 : t[i] # x
    <3>1. used[x] = "new"
      BY <1>5, <2>3
    <3>2. QED
      BY <1>2, <1>3, <2>1, <3>1
  <2>4. ASSUME NEW i \in 1 .. n - 1 PROVE used'[text'[t[i]]] = "added"
    <3>1. i + 1 \in 1 .. n /\ i + 1 # 1 /\ t[i] = s[i + 1]
      BY <1>2
    <3>2. text[s[i + 1]] # e
      BY <1>1, <1>5, <2>1, <3>1
    <3>3. QED
      BY <1>1, <1>3, <1>5, <2>1, <3>1, <3>2
  <2>5. ASSUME NEW i \in 1 .. n - 1, NEW j \in 1 .. n - 1, text'[t[i]] = text'[t[j]]
        PROVE  i = j
    <3>1. i + 1 = j + 1
      BY <1>2, <1>3, <2>1, <2>5
    <3>2. QED
      BY <3>1
  <2>6. Whole(t)' <=> Whole(s)
    <3>1. CASE n = 1
      BY <1>1, <1>2, <1>5, <3>1 DEF Whole, n
    <3>2. CASE n # 1
      <4>1. n - 1 \in 1 .. n - 1 /\ (n - 1) + 1 = n
        BY <1>1, <3>2
      <4>2. t # <<>> /\ t[Len(t)] = s[n]
        BY <1>2, <3>2, <4>1
      <4>3. QED
        BY <1>1, <1>3, <4>2 DEF Whole, n
    <3>3. QED
      BY <3>1, <3>2
  <2>7. ASSUME NEW i \in 1 .. n - 1 PROVE tail' = t[i] <=> i = n - 1 /\ Whole(t)'
    <3>1. i + 1 \in 1 .. n /\ t[i] = s[i + 1] /\ (i = n - 1 <=> i + 1 = n)
      BY <1>1, <1>2
    <3>2. QED
      BY <1>3, <2>1, <2>6, <3>1
  <2>8. ASSUME Whole(t)', NEW x \in Entry, used'[x] = "added"
        PROVE  \E i \in 1 .. n - 1 : text'[t[i]] = x
    <3>1. x # e /\ used[x] = "added"
      BY <1>5, <2>8
    <3>2. PICK i \in 1 .. n : text[s[i]] = x
      BY <2>1, <2>6, <2>8, <3>1
    <3>3. i # 1
      BY <1>1, <1>5, <3>1, <3>2
    <3>4. i - 1 \in 1 .. n - 1 /\ (i - 1) + 1 = i
      BY <1>1, <3>2, <3>3
    <3>5. t[i - 1] = s[i]
      BY <1>2, <3>4
    <3>6. QED
      BY <1>3, <3>2, <3>4, <3>5
  <2>9. QED
    BY <1>2, <1>3, <2>1, <2>2, <2>3, <2>4, <2>5, <2>7, <2>8 DEF Named
<1>8. QED
  BY <1>1, <1>4, <1>5, <1>6, <1>7 DEF t

\* RemoveEntry of one in the middle drops the object behind it and keeps its text.
LEMMA EntryOverwritten ==
    ASSUME ListType, NEW s, Linked(s), Named(s),
           NEW e \in Entry, used[e] = "added", Overwrite(e),
           used' = [used EXCEPT ![e] = "removed"]
    PROVE  \E k \in 2 .. Len(s) - 1 :
              /\ s[k] = e /\ text[e] = e
              /\ ListType' /\ Linked(RemoveAt(s, k + 1))' /\ Named(RemoveAt(s, k + 1))'
              /\ text' = [text EXCEPT ![e] = text[s[k + 1]]]
<1> DEFINE n == Len(s)
<1>1. /\ s \in Seq(Entry) /\ n \in Nat /\ DOMAIN s = 1 .. n
      /\ \A i \in 1 .. n : s[i] \in Entry /\ text[s[i]] \in Entry /\ s[i] # Null
      /\ \A i, j \in 1 .. n : s[i] = s[j] => i = j
      /\ Range(s) = {s[i] : i \in 1 .. n}
      /\ Entries = s
  BY NamedFacts, EntriesShown DEF ListType
<1>2. /\ \A i \in 1 .. n : next[s[i]] = IF i = n THEN Null ELSE s[i + 1]
      /\ head = IF s = <<>> THEN Null ELSE s[1]
  BY DEF Linked
<1>3. PICK k \in 1 .. n : s[k] = e
  BY <1>1 DEF Overwrite
<1>4. k # 1 /\ k # n
  <2>1. s # <<>>
    BY <1>1, <1>3
  <2>2. QED
    BY <1>2, <1>3, <2>1 DEF Overwrite
<1>5. k \in 2 .. n - 1 /\ k + 1 \in 1 .. n /\ n - 1 \in Nat /\ s # <<>>
  <2>1. n # 0 => s # <<>>
    OBVIOUS
  <2>2. n \in Nat
    BY <1>1
  <2> HIDE DEF n
  <2>3. QED
    BY <1>3, <1>4, <2>1, <2>2
<1> DEFINE t == RemoveAt(s, k + 1)
           f == s[k + 1]
<1>6. /\ head' = head /\ tail' = tail
      /\ next' = [next EXCEPT ![e] = next[f]]
      /\ text' = [text EXCEPT ![e] = text[f]]
      /\ used' = [used EXCEPT ![e] = "removed"]
      /\ f \in Entry /\ f # e /\ text[e] = e
  <2>1. next[e] = f /\ f \in Entry /\ f # e
    <3>1. k # k + 1 /\ k + 1 \in 1 .. n /\ k \in 1 .. n
      BY <1>3, <1>5
    <3> HIDE DEF n
    <3>2. f \in Entry /\ s[k] # f
      BY <1>1, <3>1
    <3>3. next[s[k]] = f
      BY <1>2, <1>4, <3>1
    <3>4. QED
      BY <1>3, <3>2, <3>3
  <2>2. text[e] = e
    BY DEF Named
  <2>3. QED
    BY <2>1, <2>2 DEF Overwrite
<1>7. ListType'
  BY <1>6 DEF ListType
<1>8. /\ \A x \in Entry : used'[x] = IF x = e THEN "removed" ELSE used[x]
      /\ \A x \in Entry : next'[x] = IF x = e THEN next[f] ELSE next[x]
      /\ \A x \in Entry : text'[x] = IF x = e THEN text[f] ELSE text[x]
  BY <1>6 DEF ListType
<1>9. /\ t \in Seq(Entry) /\ Len(t) = n - 1
      /\ \A i \in 1 .. n - 1 : t[i] = IF i < k + 1 THEN s[i] ELSE s[i + 1]
  BY <1>1, <1>5, RemoveAtFacts
<1> HIDE DEF t, n, f
<1> DEFINE old(i) == IF i < k + 1 THEN i ELSE i + 1
           named(i) == IF i < k THEN i ELSE i + 1
<1>10. \A i \in 1 .. n - 1 : /\ old(i) \in 1 .. n /\ old(i) # k + 1 /\ t[i] = s[old(i)]
                             /\ named(i) \in 1 .. n /\ named(i) # k
                             /\ (old(i) = k <=> i = k)
                             /\ (i # k => named(i) = old(i))
                             /\ named(k) = k + 1
  BY <1>1, <1>5, <1>9
<1>11. \A i, j \in 1 .. n - 1 : (old(i) = old(j) => i = j) /\ (named(i) = named(j) => i = j)
  BY <1>1, <1>5
<1>12. t # <<>>
  BY <1>5, <1>9
<1>13. ASSUME NEW i \in 1 .. n - 1
       PROVE  t[i] \in Entry /\ text'[t[i]] = text[s[named(i)]]
  <2>1. old(i) \in 1 .. n /\ t[i] = s[old(i)] /\ t[i] \in Entry
    BY <1>1, <1>10
  <2>2. CASE i = k
    <3>1. t[i] = e /\ named(i) = k + 1
      BY <1>3, <1>10, <2>1, <2>2
    <3>2. QED
      BY <1>8, <2>1, <3>1 DEF f
  <2>3. CASE i # k
    <3>1. named(i) = old(i) /\ old(i) # k
      BY <1>10, <2>3
    <3>2. s[old(i)] # e
      BY <1>1, <1>3, <2>1, <3>1
    <3> HIDE DEF old, named
    <3>3. QED
      BY <1>8, <2>1, <3>1, <3>2
  <2>4. QED
    BY <2>2, <2>3
<1>14. Linked(t)'
  <2>1. IsInjective(t)
    <3>1. DOMAIN t = 1 .. n - 1
      BY <1>9, LenProperties
    <3> HIDE DEF old
    <3>2. QED
      BY <1>1, <1>10, <1>11, <3>1 DEF IsInjective
  <2>2. head' = t[1]
    <3>1. 1 \in 1 .. n - 1 /\ 1 < k + 1
      BY <1>5
    <3>2. QED
      BY <1>2, <1>5, <1>6, <1>9, <3>1
  <2>3. ASSUME NEW i \in 1 .. n - 1
        PROVE  next'[t[i]] = IF i = n - 1 THEN Null ELSE t[i + 1]
    <3>1. next'[t[i]] = IF i = k THEN next[f] ELSE next[s[old(i)]]
      <4>1. t[i] \in Entry /\ t[i] = s[old(i)] /\ old(i) \in 1 .. n /\ (old(i) = k <=> i = k)
        BY <1>10, <1>13
      <4>2. t[i] = e <=> i = k
        <5> HIDE DEF old
        <5>1. QED
          BY <1>1, <1>3, <4>1
      <4>3. QED
        BY <1>8, <4>1, <4>2
    <3>2. CASE i = k
      <4>1. next[f] = IF k + 1 = n THEN Null ELSE s[k + 2]
        BY <1>2, <1>5 DEF f
      <4>2. k + 1 # n => k + 1 \in 1 .. n - 1 /\ ~(k + 1 < k + 1) /\ (k + 1) + 1 = k + 2
        BY <1>1, <1>5
      <4>3. k = n - 1 <=> k + 1 = n
        BY <1>1, <1>5
      <4>4. QED
        BY <1>9, <3>1, <3>2, <4>1, <4>2, <4>3
    <3>3. CASE i # k
      <4>1. next[s[old(i)]] = IF old(i) = n THEN Null ELSE s[old(i) + 1]
        BY <1>2, <1>10
      <4>2. old(i) = n <=> i = n - 1
        BY <1>1, <1>5, <3>3
      <4>3. i # n - 1 => i + 1 \in 1 .. n - 1 /\ old(i + 1) = old(i) + 1
        BY <1>1, <1>5, <3>3
      <4>4. i # n - 1 => t[i + 1] = s[old(i) + 1]
        BY <1>10, <4>3
      <4> HIDE DEF old
      <4>5. QED
        BY <3>1, <3>3, <4>1, <4>2, <4>4
    <3>4. QED
      BY <3>2, <3>3
  <2>4. QED
    BY <1>9, <1>12, <2>1, <2>2, <2>3 DEF Linked
<1>15. Named(t)'
  <2>1. /\ \A x \in Entry : used[x] # "removed" => text[x] = x
        /\ \A x \in Entry : used[x] = "new" =>
              next[x] = Null /\ x # tail /\ \A i \in 1 .. n : s[i] # x
        /\ \A i \in 1 .. n : used[text[s[i]]] = "added"
        /\ \A i, j \in 1 .. n : text[s[i]] = text[s[j]] => i = j
        /\ tail \in Entry
        /\ \A i \in 1 .. n : tail = s[i] <=> i = n /\ Whole(s)
        /\ Whole(s) => \A x \in Entry : used[x] = "added" =>
                          \E i \in 1 .. n : text[s[i]] = x
    BY <1>5 DEF Named, n
  <2>2. \A x \in Entry : used'[x] # "removed" => text'[x] = x
    BY <1>8, <2>1
  <2> HIDE DEF old, named
  <2>3. ASSUME NEW x \in Entry, used'[x] = "new"
        PROVE  next'[x] = Null /\ x # tail' /\ \A i \in 1 .. n - 1 : t[i] # x
    <3>1. used[x] = "new" /\ x # e
      BY <1>8, <2>3
    <3>2. QED
      BY <1>6, <1>8, <1>10, <2>1, <3>1
  <2>4. ASSUME NEW i \in 1 .. n - 1 PROVE used'[text'[t[i]]] = "added"
    <3>1. named(i) \in 1 .. n /\ named(i) # k
      BY <1>10
    <3>2. text[s[named(i)]] # text[s[k]]
      BY <2>1, <3>1
    <3>3. text[s[named(i)]] \in Entry /\ text[s[named(i)]] # e
      BY <1>1, <1>3, <1>6, <3>1, <3>2
    <3>4. QED
      BY <1>8, <1>13, <2>1, <3>1, <3>3
  <2>5. ASSUME NEW i \in 1 .. n - 1, NEW j \in 1 .. n - 1, text'[t[i]] = text'[t[j]]
        PROVE  i = j
    <3>1. text[s[named(i)]] = text[s[named(j)]]
      BY <1>13, <2>5
    <3>2. named(i) = named(j)
      BY <1>10, <2>1, <3>1
    <3>3. QED
      BY <1>11, <3>2
  <2>6. n - 1 \in 1 .. n - 1 /\ n \in 1 .. n /\ k + 1 # n => n - 1 # k
    BY <1>1, <1>5
  <2>7. CASE k + 1 = n
    <3>1. n - 1 = k /\ k \in 1 .. n - 1
      BY <1>1, <1>5, <2>7
    <3>2. t[n - 1] = e /\ text'[e] = text[f]
      <4>1. k < k + 1
        BY <1>5
      <4>2. QED
        BY <1>3, <1>8, <1>9, <3>1, <4>1
    <3>3. text[f] # e
      <4>1. text[s[k + 1]] # text[s[k]]
        <5>1. k + 1 # k
          BY <1>5
        <5>2. QED
          BY <1>3, <1>5, <2>1, <5>1
      <4>2. QED
        BY <1>3, <1>6, <4>1 DEF f
    <3>4. ~Whole(t)'
      BY <1>9, <1>12, <3>2, <3>3 DEF Whole
    <3>5. ASSUME NEW i \in 1 .. n - 1 PROVE tail' # t[i]
      <4>1. old(i) \in 1 .. n /\ old(i) # n /\ t[i] = s[old(i)]
        BY <1>10, <2>7
      <4>2. QED
        BY <1>6, <2>1, <4>1
    <3>6. QED
      BY <1>6, <1>9, <2>1, <2>2, <2>3, <2>4, <2>5, <3>4, <3>5 DEF Named
  <2>8. CASE k + 1 # n
    <3>1. n - 1 \in 1 .. n - 1 /\ n - 1 # k /\ old(n - 1) = n
      BY <1>1, <1>5, <2>8 DEF old
    <3>2. t[n - 1] = s[n] /\ text'[t[n - 1]] = text[s[n]]
      BY <1>10, <1>13, <3>1
    <3>3. Whole(t)' <=> Whole(s)
      BY <1>5, <1>9, <1>12, <3>2 DEF Whole, n
    <3>4. ASSUME NEW i \in 1 .. n - 1 PROVE tail' = t[i] <=> i = n - 1 /\ Whole(t)'
      <4>1. old(i) \in 1 .. n /\ t[i] = s[old(i)] /\ (old(i) = n <=> i = n - 1)
        BY <1>10, <1>11, <3>1
      <4>2. QED
        BY <1>6, <2>1, <3>3, <4>1
    <3>5. ASSUME Whole(t)', NEW x \in Entry, used'[x] = "added"
          PROVE  \E i \in 1 .. n - 1 : text'[t[i]] = x
      <4>1. x # e /\ used[x] = "added"
        BY <1>8, <3>5
      <4>2. PICK j \in 1 .. n : text[s[j]] = x
        BY <2>1, <3>3, <3>5, <4>1
      <4>3. j # k
        BY <1>3, <1>6, <4>1, <4>2
      <4>4. PICK i \in 1 .. n - 1 : named(i) = j
        <5> DEFINE i == IF j < k THEN j ELSE j - 1
        <5>1. i \in 1 .. n - 1 /\ named(i) = j
          BY <1>1, <1>5, <4>2, <4>3 DEF named
        <5>2. QED
          BY <5>1
      <4>5. QED
        BY <1>13, <4>2, <4>4
    <3>6. QED
      BY <1>6, <1>9, <2>1, <2>2, <2>3, <2>4, <2>5, <3>4, <3>5 DEF Named
  <2>9. QED
    BY <2>7, <2>8
<1>16. QED
  BY <1>3, <1>5, <1>6, <1>7, <1>14, <1>15 DEF t, n, f

-----------------------------------------------------------------------------
(* The ring of log lines.                                                  *)

LEMMA Around ==
    ASSUME NEW c \in Nat \ {0}, NEW x \in Int, -c <= x, x < 2 * c
    PROVE  x % c = IF x < 0 THEN x + c ELSE IF x < c THEN x ELSE x - c
OBVIOUS

\* The pointer is one line behind the head.
Rotated(ring) ==
    /\ ring \in Logs
    /\ ring.pointer = IF ring.head = 0 THEN LastSlot ELSE ring.head - 1

\* An index brought back into the ring, and where the i-th line shown is.
Wrapped(x) == IF x < Capacity THEN x ELSE x - Capacity

Slot(ring, i) == Wrapped(ring.head + i - 1)

\* All lines but the one at the pointer are shown.
LEMMA LinesShown ==
    ASSUME NEW ring, Rotated(ring)
    PROVE  /\ Lines(ring) = [i \in 1 .. LastSlot |-> ring.lines[Slot(ring, i)]]
           /\ \A i \in 1 .. LastSlot : Slot(ring, i) \in 0 .. LastSlot \ {ring.pointer}
           /\ Lines(ring) \in Seq(Line) /\ Len(Lines(ring)) = LastSlot
<1> DEFINE h == ring.head
           p == ring.pointer
<1>1. /\ h \in 0 .. LastSlot /\ p \in 0 .. LastSlot
      /\ ring.lines \in [0 .. LastSlot -> Line]
      /\ p = IF h = 0 THEN LastSlot ELSE h - 1
      /\ Capacity \in Nat \ {0, 1} /\ LastSlot = Capacity - 1
  BY LogAssumption DEF Rotated, Logs, LastSlot
<1>2. (p - h) % Capacity = LastSlot
  <2>1. /\ p - h \in Int /\ -Capacity <= p - h /\ p - h < 2 * Capacity
        /\ Capacity \in Nat \ {0}
    BY <1>1
  <2>2. (p - h) % Capacity = IF p - h < 0 THEN p - h + Capacity
                             ELSE IF p - h < Capacity THEN p - h ELSE p - h - Capacity
    <3> HIDE DEF p, h
    <3>1. QED
      BY <2>1, Around
  <2>3. QED
    BY <1>1, <2>2
<1>3. ASSUME NEW i \in 1 .. LastSlot
      PROVE  /\ (h + i - 1) % Capacity = Slot(ring, i)
             /\ Slot(ring, i) \in 0 .. LastSlot \ {p}
             /\ ring.lines[Slot(ring, i)] \in Line
  <2>1. h + i - 1 \in 0 .. 2 * Capacity - 1
    BY <1>1
  <2>2. Slot(ring, i) = IF h + i - 1 < Capacity THEN h + i - 1 ELSE h + i - 1 - Capacity
    <3>1. Slot(ring, i) = Wrapped(h + i - 1)
      BY DEF Slot
    <3> HIDE DEF h
    <3>2. QED
      BY <1>1, <2>1, <3>1 DEF Wrapped
  <2>3. Slot(ring, i) \in 0 .. LastSlot \ {p}
    <3> HIDE DEF h, p
    <3>1. CASE h + i - 1 < Capacity
      <4>1. Slot(ring, i) = h + i - 1
        BY <2>2, <3>1
      <4>2. h + i - 1 \in 0 .. LastSlot /\ h + i - 1 # p
        BY <1>1, <2>1, <3>1
      <4>3. QED
        BY <4>1, <4>2
    <3>2. CASE ~(h + i - 1 < Capacity)
      <4>1. Slot(ring, i) = h + i - 1 - Capacity
        BY <2>2, <3>2
      <4>2. h + i - 1 - Capacity \in 0 .. LastSlot /\ h + i - 1 - Capacity # p
        BY <1>1, <2>1, <3>2
      <4>3. QED
        BY <4>1, <4>2
    <3>3. QED
      BY <3>1, <3>2
  <2>4. (h + i - 1) % Capacity = Slot(ring, i)
    <3> HIDE DEF h
    <3>1. h + i - 1 \in Int /\ 0 <= h + i - 1 /\ h + i - 1 < 2 * Capacity
          /\ -Capacity <= h + i - 1 /\ Capacity \in Nat \ {0}
      BY <1>1, <2>1
    <3>2. PICK x \in Int : x = h + i - 1
      BY <3>1
    <3>3. 0 <= x /\ x < 2 * Capacity /\ -Capacity <= x
      BY <3>1, <3>2
    <3>4. x % Capacity = IF x < 0 THEN x + Capacity
                         ELSE IF x < Capacity THEN x ELSE x - Capacity
      BY <3>1, <3>2, <3>3, Around
    <3>5. x % Capacity = IF x < Capacity THEN x ELSE x - Capacity
      BY <3>1, <3>2, <3>3, <3>4
    <3>6. Slot(ring, i) = IF x < Capacity THEN x ELSE x - Capacity
      BY <1>1, <2>2, <3>2
    <3>7. QED
      BY <3>2, <3>5, <3>6, Zenon
  <2>5. QED
    BY <1>1, <2>3, <2>4
<1>4. Lines(ring) = [i \in 1 .. LastSlot |-> ring.lines[Slot(ring, i)]]
  <2>1. Lines(ring) = [i \in 1 .. (p - h) % Capacity |->
                          ring.lines[(h + i - 1) % Capacity]]
    BY DEF Lines
  <2>2. Lines(ring) = [i \in 1 .. LastSlot |-> ring.lines[(h + i - 1) % Capacity]]
    BY <1>2, <2>1
  <2> DEFINE shown(i) == ring.lines[(h + i - 1) % Capacity]
             there(i) == ring.lines[Slot(ring, i)]
  <2>3. \A i \in 1 .. LastSlot : shown(i) = there(i)
    BY <1>3
  <2>4. Lines(ring) = [i \in 1 .. LastSlot |-> shown(i)]
    BY <2>2
  <2> HIDE DEF shown, there
  <2>5. Lines(ring) = [i \in 1 .. LastSlot |-> there(i)]
    BY <2>3, <2>4
  <2>6. QED
    BY <2>5, Zenon DEF there
<1>5. Lines(ring) \in Seq(Line) /\ Len(Lines(ring)) = LastSlot
  <2> DEFINE there(i) == ring.lines[Slot(ring, i)]
             s == [i \in 1 .. LastSlot |-> there(i)]
  <2>1. \A i \in 1 .. LastSlot : there(i) \in Line
    BY <1>3
  <2>2. Lines(ring) = s
    BY <1>4
  <2>3. LastSlot \in Nat
    BY <1>1
  <2> HIDE DEF there
  <2>4. s \in [1 .. LastSlot -> Line]
    BY <2>1
  <2> HIDE DEF s
  <2>5. s \in Seq(Line) /\ Len(s) = LastSlot
    BY <2>3, <2>4
  <2>6. QED
    BY <2>2, <2>5
<1>6. \A i \in 1 .. LastSlot : Slot(ring, i) \in 0 .. LastSlot \ {ring.pointer}
  BY <1>3
<1>7. QED
  BY <1>4, <1>5, <1>6

\* A line that is added pushes out the first one.
LEMMA LineAdded ==
    ASSUME NEW ring, Rotated(ring), NEW line \in Line
    PROVE  /\ Rotated(AddLine(ring, line))
           /\ Lines(AddLine(ring, line)) = Tail(Append(Lines(ring), line))
<1> DEFINE new == AddLine(ring, line)
           s == Lines(ring)
           t == Lines(new)
           u == Tail(Append(s, line))
<1>1. /\ ring.head \in 0 .. LastSlot /\ ring.pointer \in 0 .. LastSlot
      /\ ring.lines \in [0 .. LastSlot -> Line]
      /\ ring.pointer = IF ring.head = 0 THEN LastSlot ELSE ring.head - 1
      /\ Capacity \in Nat \ {0, 1} /\ LastSlot = Capacity - 1
  BY LogAssumption DEF Rotated, Logs, LastSlot
<1>2. /\ new.head = IF ring.head = LastSlot THEN 0 ELSE ring.head + 1
      /\ new.pointer = ring.head
      /\ new.lines = [ring.lines EXCEPT ![ring.pointer] = line]
      /\ new = [lines |-> new.lines, head |-> new.head, pointer |-> new.pointer]
  BY <1>1 DEF AddLine, Incremented
<1>3. Rotated(new)
  <2>1. new.lines \in [0 .. LastSlot -> Line]
    BY <1>1, <1>2
  <2>2. new.head \in 0 .. LastSlot /\ new.pointer \in 0 .. LastSlot
    BY <1>1, <1>2
  <2>3. new.pointer = IF new.head = 0 THEN LastSlot ELSE new.head - 1
    BY <1>1, <1>2
  <2> HIDE DEF new
  <2>4. new \in Logs
    BY <1>2, <2>1, <2>2 DEF Logs
  <2>5. QED
    BY <2>3, <2>4 DEF Rotated
<1>4. /\ s \in Seq(Line) /\ Len(s) = LastSlot
      /\ t \in Seq(Line) /\ Len(t) = LastSlot
      /\ \A i \in 1 .. LastSlot : /\ s[i] = ring.lines[Slot(ring, i)]
                                  /\ t[i] = new.lines[Slot(new, i)]
                                  /\ Slot(ring, i) \in 0 .. LastSlot \ {ring.pointer}
  <2> HIDE DEF new
  <2>1. QED
    BY <1>3, LinesShown
<1>5. /\ u \in Seq(Line) /\ Len(u) = LastSlot
      /\ \A i \in 1 .. LastSlot : u[i] = IF i = LastSlot THEN line ELSE s[i + 1]
  <2> HIDE DEF s
  <2>1. LastSlot \in Nat \ {0}
    BY <1>1
  <2>2. QED
    BY <1>4, <2>1
<1>6. ASSUME NEW i \in 1 .. LastSlot
      PROVE  t[i] = u[i]
  <2>1. CASE i = LastSlot
    <3>1. Slot(new, i) = ring.pointer
      BY <1>1, <1>2, <2>1 DEF Slot, Wrapped
    <3>2. QED
      BY <1>1, <1>2, <1>4, <1>5, <2>1, <3>1
  <2>2. CASE i # LastSlot
    <3>1. i + 1 \in 1 .. LastSlot
      BY <1>1, <2>2
    <3>2. Slot(new, i) = Slot(ring, i + 1)
      <4>1. CASE ring.head = LastSlot
        <5>1. new.head = 0
          BY <1>2, <4>1
        <5> HIDE DEF new
        <5>2. QED
          BY <1>1, <2>2, <4>1, <5>1 DEF Slot, Wrapped
      <4>2. CASE ring.head # LastSlot
        <5>1. new.head = ring.head + 1
          BY <1>2, <4>2
        <5> HIDE DEF new
        <5>2. new.head + i - 1 = ring.head + (i + 1) - 1
          BY <1>1, <5>1
        <5>3. QED
          BY <5>2 DEF Slot
      <4>3. QED
        BY <4>1, <4>2
    <3>3. Slot(ring, i + 1) \in 0 .. LastSlot /\ Slot(ring, i + 1) # ring.pointer
      BY <1>4, <3>1
    <3>4. new.lines[Slot(ring, i + 1)] = ring.lines[Slot(ring, i + 1)]
      BY <1>1, <1>2, <3>3
    <3> HIDE DEF new, s, t, u
    <3>5. QED
      BY <1>4, <1>5, <2>2, <3>1, <3>2, <3>4
  <2>3. QED
    BY <2>1, <2>2
<1>7. t = u
  <2> HIDE DEF t, u
  <2>1. QED
    BY <1>4, <1>5, <1>6, SeqEqual
<1>8. QED
  BY <1>3, <1>7

-----------------------------------------------------------------------------
(* The line being typed.                                                   *)

\* The buffer holds what was typed as far as the line goes.
Good(in) ==
    /\ in \in Inputs
    /\ in.cursor_pos <= in.length
    /\ \A i \in 0 .. in.length - 1 : in.buf[i] \in Char

\* The line consists of b before the cursor and a from the cursor on.
Shows(in, b, a) ==
    /\ in \in Inputs
    /\ b \in Chars /\ a \in Chars
    /\ Len(b) = in.cursor_pos /\ Len(b) + Len(a) = in.length
    /\ \A i \in 1 .. Len(b) : b[i] = in.buf[i - 1]
    /\ \A i \in 1 .. Len(a) : a[i] = in.buf[Len(b) + i - 1]

\* What is shown of a good line.
LEMMA LineShown ==
    ASSUME NEW in, Good(in)
    PROVE  /\ Shows(in, BeforeCursor(in), FromCursor(in))
           /\ GetBuffer(in) \in Chars /\ Len(GetBuffer(in)) = in.length
           /\ GetBuffer(in) = BeforeCursor(in) \o FromCursor(in)
<1> DEFINE n == in.length
           c == in.cursor_pos
           g == GetBuffer(in)
<1>1. n \in Nat /\ c \in Nat /\ c <= n
  BY EditorAssumption DEF Good, Inputs
<1>2. /\ g \in Chars /\ Len(g) = n
      /\ \A i \in 1 .. n : g[i] = in.buf[i - 1] /\ g[i] \in Char
  <2>1. \A i \in 1 .. n : in.buf[i - 1] \in Char
    BY <1>1 DEF Good
  <2> DEFINE at(i) == in.buf[i - 1]
  <2>2. g = [i \in 1 .. n |-> at(i)]
    BY DEF GetBuffer
  <2>3. \A i \in 1 .. n : at(i) \in Char
    BY <2>1
  <2> HIDE DEF at, g, n
  <2>4. g \in [1 .. n -> Char] /\ \A i \in 1 .. n : g[i] = at(i)
    BY <2>2, <2>3
  <2>5. g \in Chars /\ Len(g) = n
    BY <1>1, <2>4 DEF Chars
  <2>6. QED
    BY <2>3, <2>4, <2>5 DEF at
<1>3. /\ BeforeCursor(in) = SubSeq(g, 1, c)
      /\ FromCursor(in) = SubSeq(g, c + 1, n)
  BY DEF BeforeCursor, FromCursor
<1> HIDE DEF g, n, c
<1>4. /\ SubSeq(g, 1, c) \in Chars /\ Len(SubSeq(g, 1, c)) = c
      /\ \A i \in 1 .. c : SubSeq(g, 1, c)[i] = g[i]
  BY <1>1, <1>2, SubSeqProperties DEF Chars
<1>5. /\ SubSeq(g, c + 1, n) \in Chars /\ Len(SubSeq(g, c + 1, n)) = n - c
      /\ \A i \in 1 .. n - c : SubSeq(g, c + 1, n)[i] = g[c + i]
  BY <1>1, <1>2, SubSeqProperties DEF Chars
<1>6. SubSeq(g, 1, c) \o SubSeq(g, c + 1, n) = g
  <2>1. g = SubSeq(g, 1, n)
    BY <1>2, SubSeqFull DEF Chars
  <2>2. SubSeq(g, 1, c) \o SubSeq(g, c + 1, n) = SubSeq(g, 1, n)
    BY <1>1, <1>2, ConcatAdjacentSubSeq DEF Chars
  <2>3. QED
    BY <2>1, <2>2
<1>7. in \in Inputs /\ in.cursor_pos = c /\ in.length = n
  BY DEF Good, n, c
<1> DEFINE b == SubSeq(g, 1, c)
           a == SubSeq(g, c + 1, n)
<1>8. Shows(in, b, a)
  <2>1. Len(b) = c /\ Len(a) = n - c /\ b \in Chars /\ a \in Chars
    BY <1>4, <1>5
  <2>2. \A i \in 1 .. c : b[i] = in.buf[i - 1]
    BY <1>1, <1>2, <1>4
  <2>3. \A i \in 1 .. n - c : c + i \in 1 .. n /\ a[i] = in.buf[(c + i) - 1]
    BY <1>1, <1>2, <1>5
  <2> HIDE DEF b, a
  <2>4. \A i \in 1 .. n - c : a[i] = in.buf[c + i - 1]
    BY <1>1, <2>3
  <2>5. QED
    BY <1>1, <1>7, <2>1, <2>2, <2>4 DEF Shows
<1>9. b = BeforeCursor(in) /\ a = FromCursor(in) /\ b \o a = g
  BY <1>3, <1>6
<1>10. g = GetBuffer(in)
  BY DEF g
<1> HIDE DEF b, a
<1>11. QED
  BY <1>2, <1>7, <1>8, <1>9, <1>10

\* The two halves tell what is in the buffer.
LEMMA ShownOnly ==
    ASSUME NEW in, NEW b, NEW a, Shows(in, b, a)
    PROVE  Good(in) /\ BeforeCursor(in) = b /\ FromCursor(in) = a
<1>1. /\ b \in Chars /\ a \in Chars /\ in \in Inputs
      /\ Len(b) \in Nat /\ Len(a) \in Nat
      /\ in.cursor_pos = Len(b) /\ in.length = Len(b) + Len(a)
      /\ \A i \in 1 .. Len(b) : b[i] = in.buf[i - 1] /\ b[i] \in Char
      /\ \A i \in 1 .. Len(a) : a[i] = in.buf[Len(b) + i - 1] /\ a[i] \in Char
  BY DEF Shows, Chars
<1>2. Good(in)
  <2>1. ASSUME NEW i \in 0 .. Len(b) + Len(a) - 1
        PROVE  in.buf[i] \in Char
    <3>1. CASE i < Len(b)
      <4>1. i + 1 \in 1 .. Len(b) /\ (i + 1) - 1 = i
        BY <1>1, <3>1
      <4>2. QED
        BY <1>1, <4>1
    <3>2. CASE i >= Len(b)
      <4>1. /\ i - Len(b) + 1 \in 1 .. Len(a)
            /\ Len(b) + (i - Len(b) + 1) - 1 = i
        BY <1>1, <3>2
      <4>2. QED
        BY <1>1, <4>1
    <3>3. QED
      BY <1>1, <3>1, <3>2
  <2>2. QED
    BY <1>1, <2>1 DEF Good
<1>3. Shows(in, BeforeCursor(in), FromCursor(in))
  BY <1>2, LineShown
<1> DEFINE before == BeforeCursor(in)
           after == FromCursor(in)
<1>4. /\ before \in Chars /\ after \in Chars
      /\ Len(before) = Len(b) /\ Len(after) = Len(a)
      /\ \A i \in 1 .. Len(b) : before[i] = b[i]
      /\ \A i \in 1 .. Len(a) : after[i] = a[i]
  <2> HIDE DEF before, after
  <2>1. Shows(in, before, after)
    BY <1>3 DEF before, after
  <2>2. Len(before) \in Nat /\ Len(after) \in Nat
    BY <2>1 DEF Shows, Chars
  <2>3. QED
    BY <1>1, <2>1, <2>2 DEF Shows
<1>5. before = b /\ after = a
  <2> HIDE DEF before, after
  <2>1. QED
    BY <1>1, <1>4, SeqEqual DEF Chars
<1>6. QED
  BY <1>2, <1>5

\* Every change of the two halves is one of the line: it is empty again.
LEMMA Emptied ==
    ASSUME NEW in, NEW b, NEW a, Shows(in, b, a)
    PROVE  Shows([in EXCEPT !.length = 0, !.cursor_pos = 0], <<>>, <<>>)
<1>1. <<>> \in Chars /\ Len(<<>>) = 0
  BY DEF Chars
<1>2. 0 \in 0 .. Size /\ in \in Inputs
  BY EditorAssumption DEF Shows
<1>3. [in EXCEPT !.length = 0, !.cursor_pos = 0] \in Inputs
  BY <1>2 DEF Inputs
<1>4. QED
  BY <1>1, <1>2, <1>3 DEF Shows, Inputs

\* An escape sequence leaves the line alone.
LEMMA Unmoved ==
    ASSUME NEW in, NEW b, NEW a, Shows(in, b, a),
           NEW s \in {"Normal", "Escape", "EscapeBracket"}
    PROVE  Shows([in EXCEPT !.state = s], b, a)
<1>1. [in EXCEPT !.state = s] \in Inputs
  BY DEF Shows, Inputs
<1>2. QED
  BY <1>1 DEF Shows, Inputs

\* What the keys need of the two halves: their elements, their lengths, and the
\* buffer as a function.
LEMMA HalvesFacts ==
    ASSUME NEW in, NEW b, NEW a, Shows(in, b, a)
    PROVE  /\ b \in Seq(Char) /\ a \in Seq(Char)
           /\ Len(b) \in Nat /\ Len(a) \in Nat
           /\ in.cursor_pos = Len(b) /\ in.length = Len(b) + Len(a)
           /\ Len(b) + Len(a) <= Size /\ Size \in Nat
           /\ in.buf \in [0 .. Size - 1 -> Char \cup {Nul}]
           /\ \A i \in 1 .. Len(b) : b[i] = in.buf[i - 1]
           /\ \A i \in 1 .. Len(a) : a[i] = in.buf[Len(b) + i - 1]
<1>1. /\ in \in Inputs /\ b \in Seq(Char) /\ a \in Seq(Char)
      /\ in.cursor_pos = Len(b) /\ in.length = Len(b) + Len(a)
      /\ \A i \in 1 .. Len(b) : b[i] = in.buf[i - 1]
      /\ \A i \in 1 .. Len(a) : a[i] = in.buf[Len(b) + i - 1]
  BY DEF Shows, Chars
<1>2. /\ in.length \in 0 .. Size
      /\ in.buf \in [0 .. Size - 1 -> Char \cup {Nul}]
  BY <1>1 DEF Inputs
<1>3. Size \in Nat
  BY EditorAssumption
<1>4. Len(b) \in Nat /\ Len(a) \in Nat
  BY <1>1
<1>5. Len(b) + Len(a) <= Size
  BY <1>1, <1>2, <1>3
<1>6. QED
  BY <1>1, <1>2, <1>3, <1>4, <1>5

\* Characters taken out of the buffer leave one in the range of its type.
LEMMA ShiftedBuf ==
    ASSUME NEW in, NEW b, NEW a, Shows(in, b, a), NEW from \in Nat,
           from < Len(b) + Len(a)
    PROVE  /\ ShiftedLeft(in, from) \in [0 .. Size - 1 -> Char \cup {Nul}]
           /\ \A i \in 0 .. Len(b) + Len(a) - 2 :
                 ShiftedLeft(in, from)[i] = IF i < from THEN in.buf[i] ELSE in.buf[i + 1]
<1> DEFINE n == Len(b) + Len(a)
           moved(i) == IF i \in from .. n - 2 THEN in.buf[i + 1] ELSE in.buf[i]
<1>1. /\ n \in Nat /\ n <= Size /\ Size \in Nat /\ in.length = n
      /\ in.buf \in [0 .. Size - 1 -> Char \cup {Nul}]
  BY HalvesFacts
<1>2. ShiftedLeft(in, from) = [i \in 0 .. Size - 1 |-> moved(i)]
  BY <1>1 DEF ShiftedLeft
<1>3. \A i \in 0 .. Size - 1 : moved(i) \in Char \cup {Nul}
  <2> SUFFICES ASSUME NEW i \in 0 .. Size - 1 PROVE moved(i) \in Char \cup {Nul}
    OBVIOUS
  <2> HIDE DEF n
  <2>1. CASE i \in from .. n - 2
    <3>1. i + 1 \in 0 .. Size - 1
      BY <1>1, <2>1
    <3>2. QED
      BY <1>1, <2>1, <3>1
  <2>2. CASE i \notin from .. n - 2
    BY <1>1, <2>2
  <2>3. QED
    BY <2>1, <2>2
<1>4. \A i \in 0 .. n - 2 :
         i \in 0 .. Size - 1 /\ moved(i) = IF i < from THEN in.buf[i] ELSE in.buf[i + 1]
  <2> HIDE DEF n
  <2>1. QED
    BY <1>1
<1> HIDE DEF n, moved
<1>5. /\ ShiftedLeft(in, from) \in [0 .. Size - 1 -> Char \cup {Nul}]
      /\ \A i \in 0 .. n - 2 :
            ShiftedLeft(in, from)[i] = IF i < from THEN in.buf[i] ELSE in.buf[i + 1]
  BY <1>2, <1>3, <1>4
<1>6. QED
  BY <1>5 DEF n

\* Backspace takes the last character before the cursor.
LEMMA ErasedLeft ==
    ASSUME NEW in, NEW b, NEW a, Shows(in, b, a), b # <<>>
    PROVE  Shows([in EXCEPT !.buf = ShiftedLeft(in, in.cursor_pos - 1),
                            !.length = @ - 1, !.cursor_pos = @ - 1],
                 Front(b), a)
<1> DEFINE buf == ShiftedLeft(in, in.cursor_pos - 1)
           new == [in EXCEPT !.buf = buf, !.length = @ - 1, !.cursor_pos = @ - 1]
           k == Len(b)
           m == Len(a)
<1>1. /\ b \in Seq(Char) /\ a \in Seq(Char) /\ in \in Inputs
      /\ k \in Nat \ {0} /\ m \in Nat /\ k + m <= Size /\ Size \in Nat
      /\ in.cursor_pos = k /\ in.length = k + m
      /\ \A i \in 1 .. k : b[i] = in.buf[i - 1]
      /\ \A i \in 1 .. m : a[i] = in.buf[k + i - 1]
  <2>1. b # <<>> /\ in \in Inputs
    BY DEF Shows
  <2>2. b \in Seq(Char)
    BY HalvesFacts
  <2>3. Len(b) \in Nat \ {0}
    BY <2>1, <2>2, EmptySeq
  <2>4. QED
    BY <2>1, <2>3, HalvesFacts
<1>2. /\ buf \in [0 .. Size - 1 -> Char \cup {Nul}]
      /\ \A i \in 0 .. k + m - 2 :
            buf[i] = IF i < k - 1 THEN in.buf[i] ELSE in.buf[i + 1]
  <2>1. k - 1 \in Nat /\ k - 1 < k + m
    BY <1>1
  <2>2. QED
    BY <1>1, <2>1, ShiftedBuf
<1>3. /\ Front(b) \in Seq(Char) /\ Len(Front(b)) = k - 1
      /\ \A i \in 1 .. k - 1 : Front(b)[i] = b[i]
  BY <1>1, FrontElements
<1>4. /\ new \in Inputs /\ new.buf = buf
      /\ new.length = k + m - 1 /\ new.cursor_pos = k - 1
  <2> DEFINE l == in.length - 1
             c == in.cursor_pos - 1
  <2>1. new = [in EXCEPT !.buf = buf, !.length = l, !.cursor_pos = c]
    BY <1>1 DEF Inputs
  <2>2. c \in 0 .. Size /\ l \in 0 .. Size /\ c = k - 1 /\ l = k + m - 1
    BY <1>1
  <2> HIDE DEF buf, new, l, c
  <2>3. new \in Inputs /\ new.buf = buf /\ new.length = l /\ new.cursor_pos = c
    <3>1. in \in Inputs /\ buf \in [0 .. Size - 1 -> Char \cup {Nul}]
      BY <1>1, <1>2
    <3>2. QED
      BY <2>1, <2>2, <3>1 DEF Inputs
  <2>4. QED
    BY <2>2, <2>3
<1> HIDE DEF buf, new, k, m
<1>5. \A i \in 1 .. k - 1 : Front(b)[i] = buf[i - 1]
  <2> SUFFICES ASSUME NEW i \in 1 .. k - 1 PROVE Front(b)[i] = buf[i - 1]
    OBVIOUS
  <2>1. i \in 1 .. k /\ i - 1 \in 0 .. k + m - 2 /\ i - 1 < k - 1
    BY <1>1
  <2>2. QED
    BY <1>1, <1>2, <1>3, <2>1
<1>6. \A i \in 1 .. m : a[i] = buf[(k - 1) + i - 1]
  <2> SUFFICES ASSUME NEW i \in 1 .. m PROVE a[i] = buf[(k - 1) + i - 1]
    OBVIOUS
  <2>1. /\ (k - 1) + i - 1 \in 0 .. k + m - 2 /\ ~((k - 1) + i - 1 < k - 1)
        /\ ((k - 1) + i - 1) + 1 = k + i - 1
    BY <1>1
  <2>2. QED
    BY <1>1, <1>2, <2>1
<1>7. Shows(new, Front(b), a)
  BY <1>1, <1>3, <1>4, <1>5, <1>6 DEF Shows, Chars, m
<1>8. QED
  BY <1>7 DEF new, buf

\* Delete takes the first one from the cursor on.
LEMMA ErasedRight ==
    ASSUME NEW in, NEW b, NEW a, Shows(in, b, a), a # <<>>
    PROVE  Shows([in EXCEPT !.buf = ShiftedLeft(in, in.cursor_pos), !.length = @ - 1],
                 b, Tail(a))
<1> DEFINE buf == ShiftedLeft(in, in.cursor_pos)
           new == [in EXCEPT !.buf = buf, !.length = @ - 1]
           k == Len(b)
           m == Len(a)
<1>1. /\ b \in Seq(Char) /\ a \in Seq(Char) /\ in \in Inputs
      /\ k \in Nat /\ m \in Nat \ {0} /\ k + m <= Size /\ Size \in Nat
      /\ in.cursor_pos = k /\ in.length = k + m
      /\ \A i \in 1 .. k : b[i] = in.buf[i - 1]
      /\ \A i \in 1 .. m : a[i] = in.buf[k + i - 1]
  <2>1. a # <<>> /\ in \in Inputs
    BY DEF Shows
  <2>2. a \in Seq(Char)
    BY HalvesFacts
  <2>3. Len(a) \in Nat \ {0}
    BY <2>1, <2>2, EmptySeq
  <2>4. QED
    BY <2>1, <2>3, HalvesFacts
<1>2. /\ buf \in [0 .. Size - 1 -> Char \cup {Nul}]
      /\ \A i \in 0 .. k + m - 2 :
            buf[i] = IF i < k THEN in.buf[i] ELSE in.buf[i + 1]
  <2>1. k \in Nat /\ k < k + m
    BY <1>1
  <2>2. QED
    BY <1>1, <2>1, ShiftedBuf
<1>3. /\ Tail(a) \in Seq(Char) /\ Len(Tail(a)) = m - 1
      /\ \A i \in 1 .. m - 1 : Tail(a)[i] = a[i + 1]
  BY <1>1, HeadTailProperties
<1>4. /\ new \in Inputs /\ new.buf = buf
      /\ new.length = k + m - 1 /\ new.cursor_pos = k
  <2> DEFINE l == in.length - 1
  <2>1. new = [in EXCEPT !.buf = buf, !.length = l]
    BY <1>1 DEF Inputs
  <2>2. l \in 0 .. Size /\ l = k + m - 1
    BY <1>1
  <2> HIDE DEF buf, new, l
  <2>3. new \in Inputs /\ new.buf = buf /\ new.length = l
        /\ new.cursor_pos = in.cursor_pos
    <3>1. in \in Inputs /\ buf \in [0 .. Size - 1 -> Char \cup {Nul}]
      BY <1>1, <1>2
    <3>2. QED
      BY <2>1, <2>2, <3>1 DEF Inputs
  <2>4. QED
    BY <1>1, <2>2, <2>3
<1> HIDE DEF buf, new, k, m
<1>5. \A i \in 1 .. k : b[i] = buf[i - 1]
  <2> SUFFICES ASSUME NEW i \in 1 .. k PROVE b[i] = buf[i - 1]
    OBVIOUS
  <2>1. i - 1 \in 0 .. k + m - 2 /\ i - 1 < k
    BY <1>1
  <2>2. QED
    BY <1>1, <1>2, <2>1
<1>6. \A i \in 1 .. m - 1 : Tail(a)[i] = buf[k + i - 1]
  <2> SUFFICES ASSUME NEW i \in 1 .. m - 1 PROVE Tail(a)[i] = buf[k + i - 1]
    OBVIOUS
  <2>1. /\ k + i - 1 \in 0 .. k + m - 2 /\ ~(k + i - 1 < k)
        /\ i + 1 \in 1 .. m /\ (k + i - 1) + 1 = k + (i + 1) - 1
    BY <1>1
  <2>2. Tail(a)[i] = in.buf[k + (i + 1) - 1]
    BY <1>1, <1>3, <2>1
  <2>3. buf[k + i - 1] = in.buf[(k + i - 1) + 1]
    BY <1>2, <2>1
  <2>4. QED
    BY <2>1, <2>2, <2>3
<1>7. Shows(new, b, Tail(a))
  <2>1. k + (m - 1) = k + m - 1
    BY <1>1
  <2>2. QED
    BY <1>1, <1>3, <1>4, <1>5, <1>6, <2>1 DEF Shows, Chars, k
<1>8. QED
  BY <1>7 DEF new, buf

\* A character that is typed goes before the cursor.
LEMMA Typed ==
    ASSUME NEW in, NEW b, NEW a, Shows(in, b, a), NEW ch \in Char, in.length < Size
    PROVE  Shows([in EXCEPT !.buf = Inserted(in, ch),
                            !.length = @ + 1, !.cursor_pos = @ + 1],
                 Append(b, ch), a)
<1> DEFINE buf == Inserted(in, ch)
           new == [in EXCEPT !.buf = buf, !.length = @ + 1, !.cursor_pos = @ + 1]
           k == Len(b)
           m == Len(a)
<1>1. /\ b \in Seq(Char) /\ a \in Seq(Char) /\ in \in Inputs
      /\ k \in Nat /\ m \in Nat /\ k + m < Size /\ Size \in Nat
      /\ in.cursor_pos = k /\ in.length = k + m
      /\ in.buf \in [0 .. Size - 1 -> Char \cup {Nul}]
      /\ \A i \in 1 .. k : b[i] = in.buf[i - 1]
      /\ \A i \in 1 .. m : a[i] = in.buf[k + i - 1]
  <2>1. in \in Inputs /\ in.length < Size
    BY DEF Shows
  <2>2. QED
    BY <2>1, HalvesFacts
<1>2. /\ buf \in [0 .. Size - 1 -> Char \cup {Nul}]
      /\ \A i \in 0 .. k + m :
            buf[i] = IF i < k THEN in.buf[i] ELSE IF i = k THEN ch ELSE in.buf[i - 1]
  <2> DEFINE moved(i) == IF i \in k + 1 .. k + m THEN in.buf[i - 1]
                         ELSE IF i = k THEN ch ELSE in.buf[i]
  <2>1. buf = [i \in 0 .. Size - 1 |-> moved(i)]
    <3>1. buf = [i \in 0 .. Size - 1 |->
                    CASE i \in k + 1 .. k + m -> in.buf[i - 1]
                      [] i = k -> ch
                      [] OTHER -> in.buf[i]]
      BY <1>1 DEF Inserted
    <3>2. ASSUME NEW i \in 0 .. Size - 1
          PROVE  moved(i) = CASE i \in k + 1 .. k + m -> in.buf[i - 1]
                              [] i = k -> ch
                              [] OTHER -> in.buf[i]
      <4> HIDE DEF k, m
      <4>1. QED
        BY <1>1
    <3> HIDE DEF moved, buf
    <3>3. QED
      BY <3>1, <3>2
  <2>2. \A i \in 0 .. Size - 1 : moved(i) \in Char \cup {Nul}
    <3> SUFFICES ASSUME NEW i \in 0 .. Size - 1 PROVE moved(i) \in Char \cup {Nul}
      OBVIOUS
    <3> HIDE DEF k, m
    <3>1. CASE i \in k + 1 .. k + m
      <4>1. i - 1 \in 0 .. Size - 1
        BY <1>1, <3>1
      <4>2. QED
        BY <1>1, <3>1, <4>1
    <3>2. CASE i \notin k + 1 .. k + m
      BY <1>1, <3>2
    <3>3. QED
      BY <3>1, <3>2
  <2>3. \A i \in 0 .. k + m :
           /\ i \in 0 .. Size - 1
           /\ moved(i) = IF i < k THEN in.buf[i] ELSE IF i = k THEN ch ELSE in.buf[i - 1]
    <3> HIDE DEF k, m
    <3>1. QED
      BY <1>1
  <2> HIDE DEF moved, buf, k, m
  <2>4. QED
    BY <2>1, <2>2, <2>3
<1>3. /\ Append(b, ch) \in Seq(Char) /\ Len(Append(b, ch)) = k + 1
      /\ \A i \in 1 .. k : Append(b, ch)[i] = b[i]
      /\ Append(b, ch)[k + 1] = ch
  BY <1>1, AppendProperties
<1>4. /\ new \in Inputs /\ new.buf = buf
      /\ new.length = k + m + 1 /\ new.cursor_pos = k + 1
  <2> DEFINE l == in.length + 1
             c == in.cursor_pos + 1
  <2>1. new = [in EXCEPT !.buf = buf, !.length = l, !.cursor_pos = c]
    BY <1>1 DEF Inputs
  <2>2. c \in 0 .. Size /\ l \in 0 .. Size /\ c = k + 1 /\ l = k + m + 1
    BY <1>1
  <2> HIDE DEF buf, new, l, c
  <2>3. new \in Inputs /\ new.buf = buf /\ new.length = l /\ new.cursor_pos = c
    <3>1. in \in Inputs /\ buf \in [0 .. Size - 1 -> Char \cup {Nul}]
      BY <1>1, <1>2
    <3>2. QED
      BY <2>1, <2>2, <3>1 DEF Inputs
  <2>4. QED
    BY <2>2, <2>3
<1> HIDE DEF buf, new, k, m
<1>5. \A i \in 1 .. k + 1 : Append(b, ch)[i] = buf[i - 1]
  <2> SUFFICES ASSUME NEW i \in 1 .. k + 1 PROVE Append(b, ch)[i] = buf[i - 1]
    OBVIOUS
  <2>1. CASE i = k + 1
    <3>1. k \in 0 .. k + m /\ i - 1 = k
      BY <1>1, <2>1
    <3>2. QED
      BY <1>1, <1>2, <1>3, <2>1, <3>1
  <2>2. CASE i # k + 1
    <3>1. i \in 1 .. k /\ i - 1 \in 0 .. k + m /\ i - 1 < k
      BY <1>1, <2>2
    <3>2. QED
      BY <1>1, <1>2, <1>3, <3>1
  <2>3. QED
    BY <2>1, <2>2
<1>6. \A i \in 1 .. m : a[i] = buf[(k + 1) + i - 1]
  <2> SUFFICES ASSUME NEW i \in 1 .. m PROVE a[i] = buf[(k + 1) + i - 1]
    OBVIOUS
  <2>1. /\ (k + 1) + i - 1 \in 0 .. k + m /\ ~((k + 1) + i - 1 < k)
        /\ (k + 1) + i - 1 # k /\ ((k + 1) + i - 1) - 1 = k + i - 1
    BY <1>1
  <2>2. QED
    BY <1>1, <1>2, <2>1
<1>7. Shows(new, Append(b, ch), a)
  <2>1. (k + 1) + m = k + m + 1
    BY <1>1
  <2>2. QED
    BY <1>1, <1>3, <1>4, <1>5, <1>6, <2>1 DEF Shows, Chars, m
<1>8. QED
  BY <1>7 DEF new, buf

\* An arrow key moves one character from one half to the other.
LEMMA WentLeft ==
    ASSUME NEW in, NEW b, NEW a, Shows(in, b, a), b # <<>>
    PROVE  Shows([in EXCEPT !.cursor_pos = in.cursor_pos - 1, !.state = "Normal"],
                 Front(b), <<Last(b)>> \o a)
<1> DEFINE c == in.cursor_pos - 1
           new == [in EXCEPT !.cursor_pos = c, !.state = "Normal"]
           k == Len(b)
           m == Len(a)
           f == Front(b)
           r == <<Last(b)>> \o a
<1>1. /\ b \in Seq(Char) /\ a \in Seq(Char) /\ in \in Inputs /\ b # <<>>
      /\ k \in Nat /\ m \in Nat /\ k + m <= Size /\ Size \in Nat
      /\ in.cursor_pos = k /\ in.length = k + m
      /\ \A i \in 1 .. k : b[i] = in.buf[i - 1]
      /\ \A i \in 1 .. m : a[i] = in.buf[k + i - 1]
  <2>1. in \in Inputs /\ b # <<>>
    BY DEF Shows
  <2>2. QED
    BY <2>1, HalvesFacts
<1>2. /\ f \in Seq(Char) /\ Len(f) = k - 1 /\ k \in Nat \ {0}
      /\ \A i \in 1 .. k - 1 : f[i] = b[i]
      /\ Last(b) = b[k] /\ Last(b) \in Char
  BY <1>1, FrontElements
<1>3. /\ r \in Seq(Char) /\ Len(r) = m + 1
      /\ r[1] = b[k] /\ \A i \in 2 .. m + 1 : r[i] = a[i - 1]
  <2> DEFINE s == <<Last(b)>>
  <2>1. s \in Seq(Char) /\ Len(s) = 1 /\ s[1] = b[k]
    BY <1>2
  <2>2. /\ s \o a \in Seq(Char) /\ Len(s \o a) = Len(s) + m
        /\ \A i \in 1 .. Len(s) + m :
              (s \o a)[i] = IF i <= Len(s) THEN s[i] ELSE a[i - Len(s)]
    <3>1. a \in Seq(Char)
      BY <1>1
    <3> HIDE DEF s
    <3>2. QED
      BY <2>1, <3>1, ConcatProperties
  <2> HIDE DEF s, m, k
  <2>3. r = s \o a
    BY DEF s
  <2> HIDE DEF r
  <2>4. /\ r \in Seq(Char) /\ Len(r) = m + 1
        /\ \A i \in 1 .. m + 1 : r[i] = IF i <= 1 THEN s[i] ELSE a[i - 1]
    <3>1. Len(s) = 1 /\ m \in Nat /\ 1 + m = m + 1
      BY <1>1, <2>1
    <3>2. QED
      BY <2>2, <2>3, <3>1
  <2>5. 1 \in 1 .. m + 1 /\ \A i \in 2 .. m + 1 : i \in 1 .. m + 1 /\ ~(i <= 1)
    BY <1>1
  <2>6. QED
    BY <2>1, <2>4, <2>5
<1>4. /\ new \in Inputs /\ new.buf = in.buf
      /\ new.length = k + m /\ new.cursor_pos = k - 1
  <2>1. c \in 0 .. Size /\ c = k - 1
    BY <1>1, <1>2
  <2> HIDE DEF c
  <2>2. new \in Inputs /\ new.buf = in.buf /\ new.length = in.length /\ new.cursor_pos = c
    <3>1. in \in Inputs
      BY <1>1
    <3>2. QED
      BY <2>1, <3>1 DEF Inputs
  <2> HIDE DEF new
  <2>3. QED
    BY <1>1, <2>1, <2>2
<1> HIDE DEF new, c, k, m, f, r
<1>5. \A i \in 1 .. k - 1 : f[i] = in.buf[i - 1]
  <2> SUFFICES ASSUME NEW i \in 1 .. k - 1 PROVE f[i] = in.buf[i - 1]
    OBVIOUS
  <2>1. i \in 1 .. k
    BY <1>1
  <2>2. QED
    BY <1>1, <1>2, <2>1
<1>6. \A i \in 1 .. m + 1 : r[i] = in.buf[(k - 1) + i - 1]
  <2> SUFFICES ASSUME NEW i \in 1 .. m + 1 PROVE r[i] = in.buf[(k - 1) + i - 1]
    OBVIOUS
  <2>1. CASE i = 1
    <3>1. k \in 1 .. k /\ (k - 1) + i - 1 = k - 1
      BY <1>1, <1>2, <2>1
    <3>2. QED
      BY <1>1, <1>3, <2>1, <3>1
  <2>2. CASE i # 1
    <3>1. i \in 2 .. m + 1 /\ i - 1 \in 1 .. m /\ (k - 1) + i - 1 = k + (i - 1) - 1
      BY <1>1, <2>2
    <3>2. QED
      BY <1>1, <1>3, <3>1
  <2>3. QED
    BY <2>1, <2>2
<1>7. Shows(new, f, r)
  <2>1. (k - 1) + (m + 1) = k + m
    BY <1>1
  <2>2. QED
    BY <1>2, <1>3, <1>4, <1>5, <1>6, <2>1 DEF Shows, Chars
<1>8. QED
  BY <1>7 DEF new, c, f, r

LEMMA WentRight ==
    ASSUME NEW in, NEW b, NEW a, Shows(in, b, a), a # <<>>
    PROVE  Shows([in EXCEPT !.cursor_pos = in.cursor_pos + 1, !.state = "Normal"],
                 Append(b, Head(a)), Tail(a))
<1> DEFINE c == in.cursor_pos + 1
           new == [in EXCEPT !.cursor_pos = c, !.state = "Normal"]
           k == Len(b)
           m == Len(a)
           f == Append(b, Head(a))
           r == Tail(a)
<1>1. /\ b \in Seq(Char) /\ a \in Seq(Char) /\ in \in Inputs /\ a # <<>>
      /\ k \in Nat /\ m \in Nat /\ k + m <= Size /\ Size \in Nat
      /\ in.cursor_pos = k /\ in.length = k + m
      /\ \A i \in 1 .. k : b[i] = in.buf[i - 1]
      /\ \A i \in 1 .. m : a[i] = in.buf[k + i - 1]
  <2>1. in \in Inputs /\ a # <<>>
    BY DEF Shows
  <2>2. /\ b \in Seq(Char) /\ a \in Seq(Char)
        /\ k \in Nat /\ m \in Nat /\ k + m <= Size /\ Size \in Nat
        /\ in.cursor_pos = k /\ in.length = k + m
    BY HalvesFacts
  <2>3. /\ \A i \in 1 .. k : b[i] = in.buf[i - 1]
        /\ \A i \in 1 .. m : a[i] = in.buf[k + i - 1]
    BY HalvesFacts
  <2>4. QED
    BY <2>1, <2>2, <2>3
<1>2. /\ r \in Seq(Char) /\ Len(r) = m - 1 /\ m \in Nat \ {0}
      /\ \A i \in 1 .. m - 1 : r[i] = a[i + 1]
  BY <1>1, HeadTailProperties, EmptySeq
<1>3. /\ f \in Seq(Char) /\ Len(f) = k + 1
      /\ \A i \in 1 .. k : f[i] = b[i]
      /\ f[k + 1] = a[1]
  <2>1. Head(a) \in Char /\ Head(a) = a[1]
    BY <1>1, HeadTailProperties
  <2>2. QED
    BY <1>1, <2>1, AppendProperties
<1>4. /\ new \in Inputs /\ new.buf = in.buf
      /\ new.length = k + m /\ new.cursor_pos = k + 1
  <2>1. c \in 0 .. Size /\ c = k + 1
    BY <1>1, <1>2
  <2> HIDE DEF c
  <2>2. new \in Inputs /\ new.buf = in.buf /\ new.length = in.length /\ new.cursor_pos = c
    <3>1. in \in Inputs
      BY <1>1
    <3>2. QED
      BY <2>1, <3>1 DEF Inputs
  <2> HIDE DEF new
  <2>3. QED
    BY <1>1, <2>1, <2>2
<1> HIDE DEF new, c, k, m, f, r
<1>5. \A i \in 1 .. k + 1 : f[i] = in.buf[i - 1]
  <2> SUFFICES ASSUME NEW i \in 1 .. k + 1 PROVE f[i] = in.buf[i - 1]
    OBVIOUS
  <2>1. CASE i = k + 1
    <3>1. 1 \in 1 .. m /\ i - 1 = k + 1 - 1
      BY <1>1, <1>2, <2>1
    <3>2. QED
      BY <1>1, <1>3, <2>1, <3>1
  <2>2. CASE i # k + 1
    BY <1>1, <1>3, <2>2
  <2>3. QED
    BY <2>1, <2>2
<1>6. \A i \in 1 .. m - 1 : r[i] = in.buf[(k + 1) + i - 1]
  <2> SUFFICES ASSUME NEW i \in 1 .. m - 1 PROVE r[i] = in.buf[(k + 1) + i - 1]
    OBVIOUS
  <2>1. i + 1 \in 1 .. m /\ (k + 1) + i - 1 = k + (i + 1) - 1
    BY <1>1
  <2>2. QED
    BY <1>1, <1>2, <2>1
<1>7. Shows(new, f, r)
  <2>1. (k + 1) + (m - 1) = k + m
    BY <1>1
  <2>2. QED
    BY <1>2, <1>3, <1>4, <1>5, <1>6, <2>1 DEF Shows, Chars
<1>8. QED
  BY <1>7 DEF new, c, f, r

-----------------------------------------------------------------------------
(* The keys.                                                               *)

Pending(in) ==
    CASE in.state = "Normal" -> <<>>
      [] in.state = "Escape" -> <<Esc>>
      [] in.state = "EscapeBracket" -> <<Esc, "[">>

\* What a key does to the two halves, the escape sequence and the command: a
\* step of the console, or nothing.
KeyStep(ch, b, a, p, c, b2, a2, p2, c2) ==
    \/ /\ p = <<>> /\ p2 = <<>> /\ ch # "esc"
       /\ \/ /\ ch = "enter" /\ b \o a # <<>>
             /\ c2 = b \o a /\ b2 = <<>> /\ a2 = <<>>
          \/ /\ ch = "backspace" /\ b # <<>>
             /\ b2 = Front(b) /\ a2 = a /\ c2 = c
          \/ /\ ch = "~" /\ a # <<>>
             /\ b2 = b /\ a2 = Tail(a) /\ c2 = c
          \/ /\ ch \notin {"enter", "backspace", "~"}
             /\ b2 = Append(b, ch) /\ a2 = a /\ c2 = c
    \/ /\ <<p, ch>> \in {<<<<>>, "esc">>, <<<<"esc">>, "[">>}
       /\ p2 = Append(p, ch)
       /\ b2 = b /\ a2 = a /\ c2 = c
    \/ /\ p = <<"esc">> /\ ch # "[" /\ p2 = <<>>
       /\ b2 = b /\ a2 = a /\ c2 = c
    \/ /\ Len(p) = 2 /\ p2 = <<>> /\ c2 = c
       /\ \/ ch = "D" /\ b # <<>> /\ b2 = Front(b) /\ a2 = <<Last(b)>> \o a
          \/ ch = "C" /\ a # <<>> /\ b2 = Append(b, Head(a)) /\ a2 = Tail(a)
          \/ /\ ~(ch = "D" /\ b # <<>>) /\ ~(ch = "C" /\ a # <<>>)
             /\ b2 = b /\ a2 = a
    \/ b2 = b /\ a2 = a /\ p2 = p /\ c2 = c

\* A key changes the line as one of the lemmas above says.
LEMMA KeyTyped ==
    ASSUME NEW in, NEW b, NEW a, Shows(in, b, a), NEW ch \in Char, HasRoom(in, ch),
           NEW c \in Seq(Char), NEW c2, c2 = IF Submits(in, ch) THEN b \o a ELSE c
    PROVE  \E b2, a2 : /\ Shows(HandleInput(in, ch), b2, a2)
                       /\ KeyStep(ch, b, a, Pending(in), c, b2, a2,
                                  Pending(HandleInput(in, ch)), c2)
<1> DEFINE new == HandleInput(in, ch)
           k == Len(b)
           m == Len(a)
           Goal(b2, a2) == /\ Shows(new, b2, a2)
                           /\ KeyStep(ch, b, a, Pending(in), c, b2, a2, Pending(new), c2)
<1>1. /\ in \in Inputs /\ in.state \in {"Normal", "Escape", "EscapeBracket"}
      /\ b \in Seq(Char) /\ a \in Seq(Char)
      /\ k \in Nat /\ m \in Nat
      /\ in.cursor_pos = k /\ in.length = k + m /\ k + m <= Size /\ Size \in Nat
  <2>1. in \in Inputs /\ in.state \in {"Normal", "Escape", "EscapeBracket"}
    BY DEF Shows, Inputs
  <2>2. QED
    BY <2>1, HalvesFacts
<1>2. (b = <<>> <=> k = 0) /\ (a = <<>> <=> m = 0) /\ (b \o a = <<>> <=> k + m = 0)
  <2>1. (b = <<>> <=> k = 0) /\ (a = <<>> <=> m = 0)
    BY <1>1, EmptySeq
  <2>2. b \o a = <<>> <=> b = <<>> /\ a = <<>>
    BY <1>1, ConcatEqualIffEmpty
  <2>3. QED
    BY <1>1, <2>1, <2>2
<1>3. CASE in.state = "Normal" /\ ch = Enter
  <2>1. new.state = "Normal" /\ Shows(new, <<>>, <<>>)
    <3> DEFINE e == [in EXCEPT !.length = 0, !.cursor_pos = 0]
    <3>1. new = e
      BY <1>3 DEF HandleInput, HandleNormalInput, Enter, Esc, Backspace, Delete
    <3>2. e.state = "Normal"
      BY <1>1, <1>3 DEF Inputs
    <3>3. Shows(e, <<>>, <<>>)
      BY Emptied
    <3> HIDE DEF new, e
    <3>4. QED
      BY <3>1, <3>2, <3>3
  <2>3. Pending(in) = <<>> /\ Pending(new) = <<>>
    BY <1>3, <2>1 DEF Pending
  <2>4. CASE in.length > 0
    <3>1. c2 = b \o a /\ b \o a # <<>>
      BY <1>1, <1>2, <1>3, <2>4 DEF Submits
    <3>2. Goal(<<>>, <<>>)
      BY <1>3, <2>1, <2>3, <3>1 DEF KeyStep, Enter
    <3>3. QED
      BY <3>2
  <2>5. CASE ~(in.length > 0)
    <3>1. c2 = c
      BY <2>5 DEF Submits
    <3>2. b = <<>> /\ a = <<>>
      BY <1>1, <1>2, <2>5
    <3>3. Goal(<<>>, <<>>)
      BY <2>1, <2>3, <3>1, <3>2 DEF KeyStep
    <3>4. QED
      BY <3>3
  <2>6. QED
    BY <2>4, <2>5
<1>4. CASE ~(in.state = "Normal" /\ ch = Enter)
  <2>1. c2 = c
    BY <1>4 DEF Submits
  <2>2. CASE in.state = "Normal" /\ ch = Esc
    <3>1. new.state = "Escape" /\ Shows(new, b, a)
      <4> DEFINE e == [in EXCEPT !.state = "Escape"]
      <4>1. new = e
        BY <2>2 DEF HandleInput, HandleNormalInput, Enter, Esc, Backspace, Delete
      <4>2. e.state = "Escape"
        BY <1>1, <2>2 DEF Inputs
      <4>3. Shows(e, b, a)
        BY Unmoved
      <4> HIDE DEF new, e
      <4>4. QED
        BY <4>1, <4>2, <4>3
    <3>3. Pending(in) = <<>> /\ Pending(new) = <<"esc">>
      BY <2>2, <3>1 DEF Pending, Esc
    <3>4. Append(<<>>, "esc") = <<"esc">> /\ ch = "esc"
      BY <2>2 DEF Esc
    <3>5. Goal(b, a)
      BY <2>1, <3>1, <3>3, <3>4 DEF KeyStep
    <3>6. QED
      BY <3>5
  <2>3. CASE in.state = "Normal" /\ ch = Backspace
    <3>1. Pending(in) = <<>>
      BY <2>3 DEF Pending
    <3>2. CASE in.cursor_pos > 0
      <4>1. b # <<>>
        BY <1>1, <1>2, <3>2
      <4>2. new.state = "Normal" /\ Shows(new, Front(b), a)
        <5> DEFINE e == [in EXCEPT !.buf = ShiftedLeft(in, in.cursor_pos - 1),
                              !.length = @ - 1, !.cursor_pos = @ - 1]
        <5>1. new = e
          BY <2>3, <3>2 DEF HandleInput, HandleNormalInput, Enter, Esc, Backspace, Delete
        <5>2. e.state = "Normal"
          BY <1>1, <2>3, <3>2 DEF Inputs
        <5>3. Shows(e, Front(b), a)
          BY <4>1, ErasedLeft
        <5> HIDE DEF new, e
        <5>4. QED
          BY <5>1, <5>2, <5>3
      <4>3. Pending(new) = <<>> /\ ch = "backspace"
        BY <2>3, <4>2 DEF Pending, Backspace
      <4>4. Goal(Front(b), a)
        BY <2>1, <3>1, <4>1, <4>2, <4>3 DEF KeyStep
      <4>5. QED
        BY <4>4
    <3>3. CASE ~(in.cursor_pos > 0)
      <4>1. new = in
        BY <1>1, <2>3, <3>3 DEF HandleInput, HandleNormalInput, Enter, Esc, Backspace, Delete
      <4>2. Goal(b, a)
        BY <2>1, <4>1 DEF KeyStep
      <4>3. QED
        BY <4>2
    <3>4. QED
      BY <3>2, <3>3
  <2>4. CASE in.state = "Normal" /\ ch = Delete
    <3>1. Pending(in) = <<>>
      BY <2>4 DEF Pending
    <3>2. CASE in.cursor_pos # in.length
      <4>1. a # <<>>
        BY <1>1, <1>2, <3>2
      <4>2. new.state = "Normal" /\ Shows(new, b, Tail(a))
        <5> DEFINE e == [in EXCEPT !.buf = ShiftedLeft(in, in.cursor_pos), !.length = @ - 1]
        <5>1. new = e
          BY <1>1, <2>4, <3>2 DEF HandleInput, HandleNormalInput, Enter, Esc, Backspace, Delete
        <5>2. e.state = "Normal"
          BY <1>1, <2>4, <3>2 DEF Inputs
        <5>3. Shows(e, b, Tail(a))
          BY <4>1, ErasedRight
        <5> HIDE DEF new, e
        <5>4. QED
          BY <5>1, <5>2, <5>3
      <4>3. Pending(new) = <<>> /\ ch = "~"
        BY <2>4, <4>2 DEF Pending, Delete
      <4>4. Goal(b, Tail(a))
        BY <2>1, <3>1, <4>1, <4>2, <4>3 DEF KeyStep
      <4>5. QED
        BY <4>4
    <3>3. CASE in.cursor_pos = in.length
      <4>1. new = in
        BY <1>1, <2>4, <3>3 DEF HandleInput, HandleNormalInput, Enter, Esc, Backspace, Delete
      <4>2. Goal(b, a)
        BY <2>1, <4>1 DEF KeyStep
      <4>3. QED
        BY <4>2
    <3>4. QED
      BY <3>2, <3>3
  <2>5. CASE in.state = "Normal" /\ ch \notin {Enter, Esc, Backspace, Delete}
    <3>1. in.length < Size
      BY <2>5 DEF HasRoom
    <3>2. new.state = "Normal" /\ Shows(new, Append(b, ch), a)
      <4> DEFINE e == [in EXCEPT !.buf = Inserted(in, ch),
                            !.length = @ + 1, !.cursor_pos = @ + 1]
      <4>1. new = e
        BY <2>5 DEF HandleInput, HandleNormalInput
      <4>2. e.state = "Normal"
        BY <1>1, <2>5 DEF Inputs
      <4>3. Shows(e, Append(b, ch), a)
        BY <3>1, Typed
      <4> HIDE DEF new, e
      <4>4. QED
        BY <4>1, <4>2, <4>3
    <3>4. /\ Pending(in) = <<>> /\ Pending(new) = <<>>
          /\ ch # "esc" /\ ch \notin {"enter", "backspace", "~"}
      BY <2>5, <3>2 DEF Pending, Enter, Esc, Backspace, Delete
    <3>5. Goal(Append(b, ch), a)
      BY <2>1, <3>2, <3>4 DEF KeyStep
    <3>6. QED
      BY <3>5
  <2>6. CASE in.state = "Escape"
    <3>1. Pending(in) = <<"esc">>
      BY <2>6 DEF Pending, Esc
    <3>2. CASE ch = "["
      <4>1. new.state = "EscapeBracket" /\ Shows(new, b, a)
        <5> DEFINE e == [in EXCEPT !.state = "EscapeBracket"]
        <5>1. new = e
          BY <2>6, <3>2 DEF HandleInput, HandleEscapeInput
        <5>2. e.state = "EscapeBracket"
          BY <1>1, <2>6, <3>2 DEF Inputs
        <5>3. Shows(e, b, a)
          BY Unmoved
        <5> HIDE DEF new, e
        <5>4. QED
          BY <5>1, <5>2, <5>3
      <4>3. Pending(new) = Append(<<"esc">>, "[")
        BY <4>1 DEF Pending, Esc
      <4>4. Goal(b, a)
        BY <2>1, <3>1, <3>2, <4>1, <4>3 DEF KeyStep
      <4>5. QED
        BY <4>4
    <3>3. CASE ch # "["
      <4>1. new.state = "Normal" /\ Shows(new, b, a)
        <5> DEFINE e == [in EXCEPT !.state = "Normal"]
        <5>1. new = e
          BY <2>6, <3>3 DEF HandleInput, HandleEscapeInput
        <5>2. e.state = "Normal"
          BY <1>1, <2>6, <3>3 DEF Inputs
        <5>3. Shows(e, b, a)
          BY Unmoved
        <5> HIDE DEF new, e
        <5>4. QED
          BY <5>1, <5>2, <5>3
      <4>3. Pending(new) = <<>>
        BY <4>1 DEF Pending
      <4>4. Goal(b, a)
        BY <2>1, <3>1, <3>3, <4>1, <4>3 DEF KeyStep
      <4>5. QED
        BY <4>4
    <3>4. QED
      BY <3>2, <3>3
  <2>7. CASE in.state = "EscapeBracket"
    <3>1. Len(Pending(in)) = 2
      BY <2>7 DEF Pending, Esc
    <3> DEFINE e(at) == [in EXCEPT !.cursor_pos = at, !.state = "Normal"]
    <3>2. new = e(Moved(in, ch)) /\ \A at : e(at).state = "Normal"
      <4>1. new = e(Moved(in, ch))
        BY <2>7 DEF HandleInput, HandleEscapeBracketInput
      <4>2. QED
        BY <1>1, <4>1 DEF Inputs
    <3>3. Pending(new) = <<>>
      <4> HIDE DEF new, e
      <4>1. QED
        BY <3>2 DEF Pending
    <3>4. CASE ch = "D" /\ b # <<>>
      <4>1. Moved(in, ch) = in.cursor_pos - 1
        BY <1>1, <1>2, <3>4 DEF Moved
      <4>2. Shows(new, Front(b), <<Last(b)>> \o a)
        <5>1. Shows(e(in.cursor_pos - 1), Front(b), <<Last(b)>> \o a)
          BY <3>4, WentLeft
        <5> HIDE DEF new, e
        <5>2. QED
          BY <3>2, <4>1, <5>1
      <4>3. Goal(Front(b), <<Last(b)>> \o a)
        BY <2>1, <3>1, <3>3, <3>4, <4>2 DEF KeyStep
      <4>4. QED
        BY <4>3
    <3>5. CASE ch = "C" /\ a # <<>>
      <4>1. Moved(in, ch) = in.cursor_pos + 1
        BY <1>1, <1>2, <3>5 DEF Moved
      <4>2. Shows(new, Append(b, Head(a)), Tail(a))
        <5>1. Shows(e(in.cursor_pos + 1), Append(b, Head(a)), Tail(a))
          BY <3>5, WentRight
        <5> HIDE DEF new, e
        <5>2. QED
          BY <3>2, <4>1, <5>1
      <4>3. Goal(Append(b, Head(a)), Tail(a))
        BY <2>1, <3>1, <3>3, <3>5, <4>2 DEF KeyStep
      <4>4. QED
        BY <4>3
    <3>6. CASE ~(ch = "D" /\ b # <<>>) /\ ~(ch = "C" /\ a # <<>>)
      <4>1. Moved(in, ch) = in.cursor_pos
        BY <1>1, <1>2, <3>6 DEF Moved
      <4>2. e(in.cursor_pos) = [in EXCEPT !.state = "Normal"]
        BY <1>1 DEF Inputs
      <4>3. Shows(new, b, a)
        <5>1. Shows([in EXCEPT !.state = "Normal"], b, a)
          BY Unmoved
        <5> HIDE DEF new, e
        <5>2. QED
          BY <3>2, <4>1, <4>2, <5>1
      <4>4. Goal(b, a)
        BY <2>1, <3>1, <3>3, <3>6, <4>3 DEF KeyStep
      <4>5. QED
        BY <4>4
    <3>7. QED
      BY <3>4, <3>5, <3>6
  <2>8. QED
    BY <1>1, <1>4, <2>2, <2>3, <2>4, <2>5, <2>6, <2>7
<1>5. QED
  BY <1>3, <1>4

-----------------------------------------------------------------------------
(* The monitor.                                                            *)

\* The links lead through what is shown, once each, and tail_ is behind it, the
\* pointer of the ring is behind its head, the cursor is within what was typed.
IInv ==
    /\ ListType
    /\ Linked(Entries)
    /\ undefined \in BOOLEAN /\ (~undefined => Named(Entries))
    /\ Rotated(log) /\ logged \in 0 .. MaxLines
    /\ Good(input) /\ command \in Chars /\ garbage \subseteq {"log", "command"}

\* Every step of the monitor is a step of the console or none, and keeps IInv.
Follows == IInv' /\ [Screen!Next]_(Screen!vars)

\* The list, the ring and the line start as the console's do.
LEMMA Initially == Init => IInv /\ Screen!Init
<1> SUFFICES ASSUME Init PROVE IInv /\ Screen!Init
  OBVIOUS
<1>1. /\ ListType /\ logged \in 0 .. MaxLines
      /\ undefined = FALSE /\ garbage = {} /\ head = Null /\ tail = Null
  BY ViewerAssumption DEF Init, ListType, Link
<1>2. Linked(<<>>) /\ Named(<<>>)
  <2>1. Len(<<>>) = 0 /\ 1 .. 0 = {}
    OBVIOUS
  <2>2. Linked(<<>>)
    BY <1>1 DEF Linked, IsInjective
  <2>3. Named(<<>>)
    BY <1>1, <2>1, ViewerAssumption DEF Init, Named
  <2>4. QED
    BY <2>2, <2>3
<1>3. Entries = <<>> /\ Texts = <<>> /\ Elsewhere = {}
  <2>1. Entries = <<>>
    BY <1>1, <1>2, EntriesShown DEF ListType
  <2>2. DOMAIN <<>> = {} /\ Range(<<>>) = {}
    BY DEF Range
  <2>3. QED
    BY <2>1, <2>2 DEF Texts, Elsewhere
<1>4. Rotated(log) /\ Lines(log) = [i \in 1 .. Capacity - 1 |-> NoLog]
  <2>1. /\ log.head = 0 /\ log.pointer = LastSlot
        /\ log.lines = [i \in 0 .. LastSlot |-> NoLog]
        /\ log = [lines |-> log.lines, head |-> 0, pointer |-> LastSlot]
    BY DEF Init, NewLog
  <2>2. LastSlot \in Nat /\ LastSlot = Capacity - 1 /\ NoLog \in Line
    BY LogAssumption DEF LastSlot
  <2>3. Rotated(log)
    BY <2>1, <2>2 DEF Rotated, Logs
  <2>4. /\ Lines(log) = [i \in 1 .. LastSlot |-> log.lines[Slot(log, i)]]
        /\ \A i \in 1 .. LastSlot : Slot(log, i) \in 0 .. LastSlot
    BY <2>3, LinesShown
  <2> DEFINE there(i) == log.lines[Slot(log, i)]
  <2>5. \A i \in 1 .. LastSlot : there(i) = NoLog
    BY <2>1, <2>4
  <2>6. Lines(log) = [i \in 1 .. LastSlot |-> there(i)]
    BY <2>4
  <2> HIDE DEF there
  <2>7. Lines(log) = [i \in 1 .. LastSlot |-> NoLog]
    BY <2>5, <2>6
  <2>8. QED
    BY <2>2, <2>3, <2>7
<1>5. Good(input) /\ BeforeCursor(input) = <<>> /\ FromCursor(input) = <<>>
  <2>1. Shows(input, <<>>, <<>>)
    <3>1. input \in Inputs /\ input.cursor_pos = 0 /\ input.length = 0
      <4>1. Size \in Nat
        BY EditorAssumption
      <4>2. QED
        BY <4>1 DEF Init, NewInput, Inputs
    <3>2. QED
      BY <3>1 DEF Shows, Chars
  <2>2. QED
    BY <2>1, ShownOnly
<1>6. Pending(input) = <<>> /\ command = <<>> /\ command \in Chars
  BY DEF Init, NewInput, Pending, Chars
<1>7. IInv
  BY <1>1, <1>2, <1>4, <1>5, <1>6, <1>3 DEF IInv
<1>8. Screen!Init
  BY <1>1, <1>4, <1>5, <1>6, <1>3 DEF Screen!Init, Pending, Elsewhere
<1>9. QED
  BY <1>7, <1>8

\* What the console shows of a list that is s.
LEMMA TextsShown ==
    ASSUME ListType, NEW s, Linked(s)
    PROVE  /\ Entries = s
           /\ Texts = [i \in 1 .. Len(s) |-> text[s[i]]]
           /\ Texts \in Seq(Entry) /\ Len(Texts) = Len(s)
           /\ Elsewhere = {text[e] : e \in {o \in Range(s) : text[o] # o}}
<1>1. Entries = s
  BY EntriesShown DEF ListType
<1>2. DOMAIN s = 1 .. Len(s) /\ Len(s) \in Nat /\ \A i \in 1 .. Len(s) : text[s[i]] \in Entry
  BY LinkedFacts DEF ListType
<1>3. Texts = [i \in 1 .. Len(s) |-> text[s[i]]]
  BY <1>1, <1>2 DEF Texts
<1>4. QED
  BY <1>1, <1>2, <1>3 DEF Elsewhere

\* The same of the list behind a step.
LEMMA TextsNext ==
    ASSUME ListType', NEW s, Linked(s)'
    PROVE  /\ Entries' = s
           /\ Texts' = [i \in 1 .. Len(s) |-> text'[s[i]]]
           /\ Texts' \in Seq(Entry) /\ Len(Texts') = Len(s)
           /\ Elsewhere' = {text'[e] : e \in {o \in Range(s) : text'[o] # o}}
<1>1. Entries' = s
  BY EntriesNext DEF ListType, Link
<1>2. s \in Seq(Entry)
  BY DEF Linked
<1>3. DOMAIN s = 1 .. Len(s) /\ Len(s) \in Nat /\ \A i \in 1 .. Len(s) : text'[s[i]] \in Entry
  BY <1>2, LenProperties, ElementOfSeq DEF ListType
<1>4. Texts' = [i \in 1 .. Len(s) |-> text'[s[i]]]
  BY <1>1, <1>3 DEF Texts
<1>5. QED
  BY <1>1, <1>3, <1>4 DEF Elsewhere

\* Whoever is elsewhere is behind tail_, or is not the last.
LEMMA LastElsewhere ==
    ASSUME ListType, NEW s, Linked(s), Named(s), s # <<>>
    PROVE  /\ Texts # <<>> /\ Len(Texts) = Len(s)
           /\ Texts[Len(Texts)] \in Elsewhere <=> ~Whole(s)
<1>1. /\ Len(s) \in 1 .. Len(s) /\ Len(s) \in Nat
      /\ Texts = [i \in 1 .. Len(s) |-> text[s[i]]] /\ Len(Texts) = Len(s)
      /\ Elsewhere = {text[e] : e \in {o \in Range(s) : text[o] # o}}
  BY NamedFacts, TextsShown
<1>2. Texts[Len(Texts)] = text[s[Len(s)]]
  BY <1>1
<1>3. text[s[Len(s)]] \in Elsewhere <=> text[s[Len(s)]] # s[Len(s)]
  BY <1>1, MovedTexts
<1>4. Texts # <<>>
  BY <1>1
<1>5. QED
  BY <1>1, <1>2, <1>3, <1>4 DEF Whole

\* AddEntry shows the entry behind the others, or nothing new.
LEMMA Adds ==
    ASSUME IInv, ~undefined, NEW e \in Entry, AddEntry(e)
    PROVE  /\ ListType' /\ Linked(Entries)' /\ Named(Entries)'
           /\ Texts' = IF Texts # <<>> /\ Texts[Len(Texts)] \in Elsewhere
                       THEN Texts ELSE Append(Texts, e)
           /\ Elsewhere' = Elsewhere
<1>1. PICK s : s = Entries
  OBVIOUS
<1>2. ListType /\ Linked(s) /\ Named(s)
  BY <1>1 DEF IInv
<1>3. /\ s \in Seq(Entry) /\ Len(s) \in Nat /\ (s = <<>> <=> Len(s) = 0)
      /\ \A i \in 1 .. Len(s) : s[i] \in Entry
      /\ Texts = [i \in 1 .. Len(s) |-> text[s[i]]]
      /\ Texts \in Seq(Entry) /\ Len(Texts) = Len(s)
      /\ Elsewhere = {text[x] : x \in {o \in Range(s) : text[o] # o}}
  BY <1>2, NamedFacts, TextsShown
<1>4. text' = text /\ text[e] = e
  BY <1>2 DEF AddEntry, Named
<1>5. CASE s = <<>>
  <2>1. PICK t : t = <<e>>
    OBVIOUS
  <2>2. ListType' /\ Linked(t)' /\ Named(t)'
    BY <1>2, <1>5, <2>1, FirstAdded
  <2>3. /\ Entries' = t
        /\ Texts' = [i \in 1 .. Len(t) |-> text'[t[i]]]
        /\ Elsewhere' = {text'[x] : x \in {o \in Range(t) : text'[o] # o}}
    BY <2>2, TextsNext
  <2>4. Len(t) = 1 /\ t[1] = e /\ Range(t) = {e}
    BY <2>1 DEF Range
  <2>5. Range(s) = {} /\ Texts = <<>>
    BY <1>3, <1>5 DEF Range
  <2>6. Texts' = Append(Texts, e)
    <3>1. Append(<<>>, e) = <<e>> /\ <<e>> = [i \in 1 .. 1 |-> e]
      OBVIOUS
    <3>2. Texts' = [i \in 1 .. 1 |-> e]
      BY <1>4, <2>3, <2>4
    <3>3. QED
      BY <2>5, <3>1, <3>2
  <2>7. Elsewhere' = {} /\ Elsewhere = {}
    BY <1>3, <1>4, <2>3, <2>4, <2>5
  <2>8. QED
    BY <2>2, <2>3, <2>5, <2>6, <2>7
<1>6. CASE s # <<>> /\ Whole(s)
  <2>1. PICK t : t = Append(s, e)
    OBVIOUS
  <2>2. ListType' /\ Linked(t)' /\ Named(t)'
    BY <1>2, <1>6, <2>1, EntryAdded
  <2>3. /\ Entries' = t
        /\ Texts' = [i \in 1 .. Len(t) |-> text'[t[i]]]
        /\ Texts' \in Seq(Entry) /\ Len(Texts') = Len(t)
        /\ Elsewhere' = {text'[x] : x \in {o \in Range(t) : text'[o] # o}}
    BY <2>2, TextsNext
  <2>4. /\ Len(t) = Len(s) + 1 /\ t[Len(s) + 1] = e
        /\ \A i \in 1 .. Len(s) : t[i] = s[i]
        /\ Range(t) = Range(s) \cup {e}
    BY <1>3, <2>1, AppendProperties, AppendRange
  <2>5. Texts' = Append(Texts, e)
    <3>1. /\ Append(Texts, e) \in Seq(Entry) /\ Len(Append(Texts, e)) = Len(s) + 1
          /\ \A i \in 1 .. Len(s) : Append(Texts, e)[i] = Texts[i]
          /\ Append(Texts, e)[Len(s) + 1] = e
      BY <1>3, AppendProperties
    <3>2. ASSUME NEW i \in 1 .. Len(s) + 1 PROVE Texts'[i] = Append(Texts, e)[i]
      <4>1. CASE i = Len(s) + 1
        BY <1>4, <2>3, <2>4, <3>1, <4>1
      <4>2. CASE i # Len(s) + 1
        <5>1. i \in 1 .. Len(s)
          BY <1>3, <4>2
        <5>2. QED
          BY <1>3, <1>4, <2>3, <2>4, <3>1, <5>1
      <4>3. QED
        BY <4>1, <4>2
    <3>3. QED
      BY <2>3, <2>4, <3>1, <3>2, SeqEqual
  <2>6. Elsewhere' = Elsewhere
    BY <1>3, <1>4, <2>3, <2>4
  <2>7. Texts # <<>> /\ Texts[Len(Texts)] \notin Elsewhere
    BY <1>2, <1>6, LastElsewhere
  <2>8. QED
    BY <2>2, <2>3, <2>5, <2>6, <2>7
<1>7. CASE ~Whole(s)
  <2>1. s # <<>>
    BY <1>7 DEF Whole
  <2>2. ListType' /\ Linked(s)' /\ Named(s)'
    BY <1>2, <1>7, EntryLost
  <2>3. /\ Entries' = s
        /\ Texts' = [i \in 1 .. Len(s) |-> text'[s[i]]]
        /\ Elsewhere' = {text'[x] : x \in {o \in Range(s) : text'[o] # o}}
    BY <2>2, TextsNext
  <2>4. Texts' = Texts /\ Elsewhere' = Elsewhere
    BY <1>3, <1>4, <2>3
  <2>5. Texts # <<>> /\ Texts[Len(Texts)] \in Elsewhere
    BY <1>2, <1>7, <2>1, LastElsewhere
  <2>6. QED
    BY <2>2, <2>3, <2>4, <2>5
<1>8. QED
  BY <1>5, <1>6, <1>7 DEF Whole

\* RemoveEntry of the first entry, or of one in the middle, takes its text off the
\* screen.
LEMMA Removes ==
    ASSUME IInv, ~undefined, NEW e \in Entry, used[e] = "added",
           RemoveHead(e) \/ Overwrite(e), used' = [used EXCEPT ![e] = "removed"]
    PROVE  \E k \in 1 .. Len(Texts) :
              /\ ListType' /\ Linked(Entries)' /\ Named(Entries)'
              /\ Texts[k] = e /\ e \notin Elsewhere /\ (k = 1 \/ k # Len(Texts))
              /\ Texts' = RemoveAt(Texts, k)
              /\ Elsewhere' = Elsewhere \cup IF k = 1 THEN {} ELSE {Texts[k + 1]}
<1>1. PICK s : s = Entries
  OBVIOUS
<1> DEFINE n == Len(s)
<1>2. ListType /\ Linked(s) /\ Named(s)
  BY <1>1 DEF IInv
<1>3. /\ s \in Seq(Entry) /\ n \in Nat /\ Range(s) = {s[i] : i \in 1 .. n}
      /\ \A i \in 1 .. n : s[i] \in Entry /\ text[s[i]] \in Entry
      /\ \A i, j \in 1 .. n : s[i] = s[j] => i = j
      /\ Texts = [i \in 1 .. n |-> text[s[i]]]
      /\ Texts \in Seq(Entry) /\ Len(Texts) = n
      /\ Elsewhere = {text[x] : x \in {o \in Range(s) : text[o] # o}}
      /\ \A i \in 1 .. n : text[s[i]] \in Elsewhere <=> text[s[i]] # s[i]
  BY <1>2, NamedFacts, TextsShown, MovedTexts
<1> HIDE DEF n
<1>4. CASE RemoveHead(e)
  <2>1. PICK t : t = RemoveAt(s, 1)
    OBVIOUS
  <2>2. /\ s # <<>> /\ s[1] = e /\ text[e] = e
        /\ ListType' /\ Linked(t)' /\ Named(t)'
    BY <1>2, <1>4, <2>1, HeadRemoved
  <2>3. /\ Entries' = t
        /\ Texts' = [i \in 1 .. Len(t) |-> text'[t[i]]]
        /\ Texts' \in Seq(Entry) /\ Len(Texts') = Len(t)
        /\ Elsewhere' = {text'[x] : x \in {o \in Range(t) : text'[o] # o}}
    BY <2>2, TextsNext
  <2>4. 1 \in 1 .. n /\ text' = text
    <3>1. (s = <<>> <=> Len(s) = 0) /\ (Len(s) # 0 => 1 \in 1 .. Len(s))
      BY <1>2, NamedFacts
    <3>2. 1 \in 1 .. n
      BY <2>2, <3>1 DEF n
    <3>3. QED
      BY <1>4, <3>2 DEF RemoveHead
  <2>5. /\ t \in Seq(Entry) /\ Len(t) = n - 1
        /\ \A i \in 1 .. n - 1 : t[i] = s[i + 1] /\ i + 1 \in 1 .. n
    <3>1. /\ t \in Seq(Entry) /\ Len(t) = n - 1
          /\ \A i \in 1 .. n - 1 : t[i] = IF i < 1 THEN s[i] ELSE s[i + 1]
      <4>1. s \in Seq(Entry) /\ 1 \in 1 .. Len(s)
        BY <1>3, <2>4 DEF n
      <4>2. QED
        BY <2>1, <4>1, RemoveAtFacts DEF n
    <3>2. \A i \in 1 .. n - 1 : ~(i < 1) /\ i + 1 \in 1 .. n
      BY <1>3
    <3>3. QED
      BY <3>1, <3>2
  <2>6. Texts' = RemoveAt(Texts, 1)
    <3>1. /\ RemoveAt(Texts, 1) \in Seq(Entry) /\ Len(RemoveAt(Texts, 1)) = n - 1
          /\ \A i \in 1 .. n - 1 :
                RemoveAt(Texts, 1)[i] = IF i < 1 THEN Texts[i] ELSE Texts[i + 1]
      <4>1. Texts \in Seq(Entry) /\ 1 \in 1 .. Len(Texts) /\ Len(Texts) = n
        BY <1>3, <2>4
      <4>2. QED
        BY <4>1, RemoveAtFacts
    <3>2. ASSUME NEW i \in 1 .. n - 1 PROVE Texts'[i] = RemoveAt(Texts, 1)[i]
      <4>1. i + 1 \in 1 .. n /\ ~(i < 1) /\ t[i] = s[i + 1]
        BY <2>5
      <4>2. Texts'[i] = text[s[i + 1]]
        <5>1. i \in 1 .. Len(t)
          BY <2>5
        <5>2. Texts'[i] = text'[t[i]]
          BY <2>3, <5>1
        <5>3. QED
          BY <2>4, <4>1, <5>2
      <4>3. Texts[i + 1] = text[s[i + 1]]
        BY <1>3, <4>1
      <4>4. QED
        BY <3>1, <4>1, <4>2, <4>3
    <3>3. QED
      BY <2>3, <2>5, <3>1, <3>2, SeqEqual
  <2>7. Elsewhere' = Elsewhere
    <3>1. Range(t) = Range(s) \ {e}
      <4>1. Range(t) = {t[i] : i \in 1 .. n - 1}
        BY <2>5, LenProperties DEF Range
      <4>2. ASSUME NEW i \in 1 .. n, i # 1 PROVE i - 1 \in 1 .. n - 1 /\ (i - 1) + 1 = i
        BY <1>3, <4>2
      <4>3. ASSUME NEW i \in 1 .. n, i # 1 PROVE s[i] \in Range(t)
        BY <2>5, <4>1, <4>2, <4>3
      <4>4. ASSUME NEW i \in 1 .. n - 1 PROVE t[i] \in Range(s) /\ t[i] # e
        <5>1. i + 1 \in 1 .. n /\ i + 1 # 1 /\ t[i] = s[i + 1]
          BY <2>5
        <5>2. QED
          BY <1>3, <2>2, <2>4, <5>1
      <4>5. Range(t) \subseteq Range(s) \ {e}
        BY <4>1, <4>4
      <4>6. Range(s) \ {e} \subseteq Range(t)
        <5>1. Range(s) = {s[i] : i \in 1 .. n}
          BY <1>3
        <5>2. ASSUME NEW i \in 1 .. n, s[i] # e PROVE s[i] \in Range(t)
          BY <2>2, <4>3, <5>2
        <5>3. QED
          BY <5>1, <5>2
      <4>7. QED
        BY <4>5, <4>6
    <3>2. QED
      BY <1>3, <2>2, <2>3, <2>4, <3>1
  <2>8. Texts[1] = e /\ e \notin Elsewhere
    BY <1>3, <2>2, <2>4
  <2>9. QED
    BY <1>3, <2>2, <2>3, <2>4, <2>6, <2>7, <2>8
<1>5. CASE Overwrite(e)
  <2>1. PICK k \in 2 .. n - 1 :
            /\ s[k] = e /\ text[e] = e
            /\ ListType' /\ Linked(RemoveAt(s, k + 1))' /\ Named(RemoveAt(s, k + 1))'
            /\ text' = [text EXCEPT ![e] = text[s[k + 1]]]
    BY <1>2, <1>5, EntryOverwritten DEF n
  <2>2. PICK t : t = RemoveAt(s, k + 1)
    OBVIOUS
  <2>3. ListType' /\ Linked(t)' /\ Named(t)'
    BY <2>1, <2>2
  <2>4. /\ Entries' = t
        /\ Texts' = [i \in 1 .. Len(t) |-> text'[t[i]]]
        /\ Texts' \in Seq(Entry) /\ Len(Texts') = Len(t)
        /\ Elsewhere' = {text'[x] : x \in {o \in Range(t) : text'[o] # o}}
    BY <2>3, TextsNext
  <2>5. k \in 1 .. n /\ k + 1 \in 1 .. n /\ k # n /\ k # 1 /\ k \in Nat
    BY <1>3
  <2>6. /\ t \in Seq(Entry) /\ Len(t) = n - 1
        /\ \A i \in 1 .. n - 1 : t[i] = IF i < k + 1 THEN s[i] ELSE s[i + 1]
    <3>1. s \in Seq(Entry) /\ k + 1 \in 1 .. Len(s)
      BY <1>3, <2>5 DEF n
    <3>2. QED
      BY <2>2, <3>1, RemoveAtFacts DEF n
  <2>7. \A x \in Entry : text'[x] = IF x = e THEN text[s[k + 1]] ELSE text[x]
    BY <1>2, <2>1 DEF ListType
  <2>8. ASSUME NEW i \in 1 .. n - 1
        PROVE  text'[t[i]] = IF i < k THEN text[s[i]] ELSE text[s[i + 1]]
    <3>1. i \in 1 .. n /\ i + 1 \in 1 .. n
      BY <1>3
    <3>2. CASE i < k
      <4>1. i < k + 1 /\ i # k
        BY <2>5, <3>2
      <4>2. t[i] = s[i] /\ s[i] # e
        BY <1>3, <2>1, <2>5, <2>6, <3>1, <4>1
      <4>3. QED
        BY <1>3, <2>7, <3>1, <3>2, <4>2
    <3>3. CASE i = k
      <4>1. i < k + 1 /\ ~(i < k)
        BY <2>5, <3>3
      <4>2. t[i] = e
        BY <2>1, <2>6, <3>3, <4>1
      <4>3. QED
        BY <1>3, <2>1, <2>5, <2>7, <3>3, <4>1, <4>2
    <3>4. CASE i > k
      <4>1. ~(i < k + 1) /\ i + 1 # k /\ ~(i < k)
        BY <2>5, <3>4
      <4>2. t[i] = s[i + 1] /\ s[i + 1] # e
        BY <1>3, <2>1, <2>5, <2>6, <3>1, <4>1
      <4>3. QED
        BY <1>3, <2>7, <3>1, <4>1, <4>2
    <3>5. QED
      BY <2>5, <3>2, <3>3, <3>4
  <2>9. Texts' = RemoveAt(Texts, k)
    <3>1. /\ RemoveAt(Texts, k) \in Seq(Entry) /\ Len(RemoveAt(Texts, k)) = n - 1
          /\ \A i \in 1 .. n - 1 :
                RemoveAt(Texts, k)[i] = IF i < k THEN Texts[i] ELSE Texts[i + 1]
      <4>1. Texts \in Seq(Entry) /\ k \in 1 .. Len(Texts) /\ Len(Texts) = n
        BY <1>3, <2>5
      <4>2. QED
        BY <4>1, RemoveAtFacts
    <3>2. ASSUME NEW i \in 1 .. n - 1 PROVE Texts'[i] = RemoveAt(Texts, k)[i]
      <4>1. i \in 1 .. n /\ i + 1 \in 1 .. n /\ i \in 1 .. Len(t)
        BY <1>3, <2>6
      <4>2. Texts'[i] = IF i < k THEN text[s[i]] ELSE text[s[i + 1]]
        BY <2>4, <2>8, <4>1
      <4>3. Texts[i] = text[s[i]] /\ Texts[i + 1] = text[s[i + 1]]
        BY <1>3, <4>1
      <4>4. QED
        BY <3>1, <4>2, <4>3
    <3>3. QED
      BY <2>4, <2>6, <3>1, <3>2, SeqEqual
  <2>10. Texts[k] = e /\ e \notin Elsewhere /\ Texts[k + 1] = text[s[k + 1]]
    BY <1>3, <2>1, <2>5
  <2>11. Elsewhere' = Elsewhere \cup {text[s[k + 1]]}
    <3>1. Range(t) = Range(s) \ {s[k + 1]}
      <4>1. Range(t) = {t[i] : i \in 1 .. n - 1}
        BY <2>6, LenProperties DEF Range
      <4>2. ASSUME NEW i \in 1 .. n - 1 PROVE t[i] \in Range(s) /\ t[i] # s[k + 1]
        <5>1. i \in 1 .. n /\ i + 1 \in 1 .. n
          BY <1>3
        <5>2. \/ i < k + 1 /\ t[i] = s[i] /\ i # k + 1
              \/ t[i] = s[i + 1] /\ i + 1 # k + 1
          BY <2>5, <2>6
        <5>3. QED
          BY <1>3, <2>5, <5>1, <5>2
      <4>3. ASSUME NEW i \in 1 .. n, i # k + 1 PROVE s[i] \in Range(t)
        <5>1. CASE i < k + 1
          <6>1. i \in 1 .. n - 1
            BY <1>3, <2>5, <5>1
          <6>2. t[i] = s[i]
            BY <2>6, <5>1, <6>1
          <6>3. QED
            BY <4>1, <6>1, <6>2
        <5>2. CASE ~(i < k + 1)
          <6>1. i - 1 \in 1 .. n - 1 /\ (i - 1) + 1 = i /\ ~(i - 1 < k + 1)
            BY <1>3, <2>5, <4>3, <5>2
          <6>2. t[i - 1] = s[i]
            BY <2>6, <6>1
          <6>3. QED
            BY <4>1, <6>1, <6>2
        <5>3. QED
          BY <5>1, <5>2
      <4>4. Range(t) \subseteq Range(s) \ {s[k + 1]}
        BY <4>1, <4>2
      <4>5. Range(s) \ {s[k + 1]} \subseteq Range(t)
        <5>1. Range(s) = {s[i] : i \in 1 .. n}
          BY <1>3
        <5>2. ASSUME NEW i \in 1 .. n, s[i] # s[k + 1] PROVE s[i] \in Range(t)
          BY <4>3, <5>2
        <5>3. QED
          BY <5>1, <5>2
      <4>6. QED
        BY <4>4, <4>5
    <3>2. e \in Range(t) /\ text'[e] = text[s[k + 1]] /\ text[s[k + 1]] # e
      <4>1. e \in Range(t)
        <5>1. s[k] # s[k + 1]
          BY <1>3, <2>5
        <5>2. QED
          BY <1>3, <2>1, <2>5, <3>1, <5>1
      <4>2. text[s[k + 1]] # text[s[k]]
        <5>1. k + 1 # k
          BY <2>5
        <5>2. \A i, j \in 1 .. n : text[s[i]] = text[s[j]] => i = j
          BY <1>2 DEF Named, n
        <5>3. QED
          BY <2>5, <5>1, <5>2
      <4>3. QED
        BY <1>3, <2>1, <2>5, <2>7, <4>1, <4>2
    <3>3. Range(s) \subseteq Entry /\ Range(t) \subseteq Entry
      BY <1>3, <3>1
    <3>4. ASSUME NEW x \in Elsewhere' PROVE x \in Elsewhere \cup {text[s[k + 1]]}
      <4>1. PICK o \in Range(t) : text'[o] # o /\ x = text'[o]
        BY <2>4
      <4>2. CASE o = e
        BY <3>2, <4>1, <4>2
      <4>3. CASE o # e
        <5>1. text'[o] = text[o] /\ o \in Range(s)
          BY <2>7, <3>1, <3>3, <4>1, <4>3
        <5>2. QED
          BY <1>3, <4>1, <5>1
      <4>4. QED
        BY <4>2, <4>3
    <3>5. ASSUME NEW x \in Elsewhere, x # text[s[k + 1]] PROVE x \in Elsewhere'
      <4>1. PICK o \in Range(s) : text[o] # o /\ x = text[o]
        BY <1>3
      <4>2. o # s[k + 1] /\ o # e
        BY <2>1, <3>5, <4>1
      <4>3. o \in Range(t) /\ text'[o] = text[o]
        BY <2>7, <3>1, <3>3, <4>1, <4>2
      <4>4. QED
        BY <2>4, <4>1, <4>3
    <3>6. text[s[k + 1]] \in Elsewhere'
      BY <2>4, <3>2
    <3>7. QED
      BY <3>4, <3>5, <3>6
  <2>12. QED
    BY <1>3, <2>3, <2>4, <2>5, <2>9, <2>10, <2>11
<1>6. QED
  BY <1>4, <1>5

\* RemoveEntry of any other is of one the console cannot remove.
LEMMA Strays ==
    ASSUME IInv, ~undefined, NEW e \in Entry, used[e] = "added", Stray(e),
           NEW k \in 1 .. Len(Texts), Texts[k] = e
    PROVE  Texts[k] \in Elsewhere \/ (k # 1 /\ k = Len(Texts))
<1>1. PICK s : s = Entries
  OBVIOUS
<1>2. ListType /\ Linked(s) /\ Named(s)
  BY <1>1 DEF IInv
<1>3. /\ Texts = [i \in 1 .. Len(s) |-> text[s[i]]] /\ Len(Texts) = Len(s)
      /\ \A i \in 1 .. Len(s) : /\ text[s[i]] \in Elsewhere <=> text[s[i]] # s[i]
                                /\ s[i] \in Range(s) /\ s[i] # Null
      /\ Len(s) \in Nat
  BY <1>2, NamedFacts, TextsShown, MovedTexts
<1>4. CASE s[k] # e
  BY <1>3, <1>4
<1>5. CASE s[k] = e
  <2>1. k # 1
    <3>1. s # <<>>
      BY <1>3
    <3>2. head = s[1]
      BY <1>2, <3>1 DEF Linked
    <3>3. QED
      BY <1>5, <3>2 DEF Stray
  <2>2. k = Len(s)
    <3>1. next[s[k]] = Null
      BY <1>1, <1>3, <1>5 DEF Stray
    <3>2. k # Len(s) => k + 1 \in 1 .. Len(s) /\ next[s[k]] = s[k + 1]
      <4>1. k \in 1 .. Len(s) /\ (k # Len(s) => k + 1 \in 1 .. Len(s))
        <5>1. Len(Texts) = Len(s) /\ Len(s) \in Nat
          BY <1>3
        <5>2. QED
          BY <5>1
      <4>2. next[s[k]] = IF k = Len(s) THEN Null ELSE s[k + 1]
        BY <1>2, <4>1 DEF Linked
      <4>3. QED
        BY <4>1, <4>2
    <3>3. QED
      BY <1>3, <3>1, <3>2
  <2>3. QED
    BY <1>3, <2>1, <2>2
<1>6. QED
  BY <1>4, <1>5

\* The list is the same where its links and its texts are.
LEMMA ListKept ==
    ASSUME IInv, UNCHANGED <<head, tail, next, text>>, used' \in [Entry -> {"new", "added", "removed"}]
    PROVE  /\ ListType' /\ Linked(Entries)'
           /\ Entries' = Entries /\ Texts' = Texts /\ Elsewhere' = Elsewhere
           /\ UNCHANGED <<used, undefined>> => (~undefined => Named(Entries))'
<1>1. PICK s : s = Entries
  OBVIOUS
<1>2. Linked(s) /\ ListType
  BY <1>1 DEF IInv
<1>3. ListType'
  BY <1>2 DEF ListType, Link
<1>4. Linked(s)'
  BY <1>2 DEF Linked
<1>5. Entries' = s
  BY <1>3, <1>4, TextsNext
<1>6. Texts' = Texts /\ Elsewhere' = Elsewhere
  BY <1>1, <1>5 DEF Texts, Elsewhere
<1>7. ASSUME UNCHANGED <<used, undefined>>, ~undefined'
      PROVE  Named(s)'
  <2>1. Named(s)
    BY <1>1, <1>7 DEF IInv
  <2>2. QED
    BY <1>7, <2>1 DEF Named, Whole
<1>8. QED
  BY <1>1, <1>3, <1>4, <1>5, <1>6, <1>7

\* AddEntry and RemoveEntry.
LEMMA ListStep ==
    ASSUME IInv, ~undefined, \E e \in Entry : AddEntry(e) \/ RemoveEntry(e)
    PROVE  Follows
<1>1. /\ UNCHANGED <<log, logged, input, command, garbage>>
      /\ undefined \in BOOLEAN
  BY DEF AddEntry, RemoveEntry, shell, IInv
<1>2. /\ Lines(log)' = Lines(log) /\ BeforeCursor(input)' = BeforeCursor(input)
      /\ FromCursor(input)' = FromCursor(input) /\ Pending(input)' = Pending(input)
  BY <1>1
<1>3. /\ Rotated(log)' /\ (logged \in 0 .. MaxLines)'
      /\ Good(input)' /\ (command \in Chars)' /\ (garbage \subseteq {"log", "command"})'
  BY <1>1 DEF IInv
<1>4. ASSUME NEW e \in Entry, AddEntry(e)
      PROVE  Follows
  <2>1. /\ ListType' /\ Linked(Entries)' /\ Named(Entries)'
        /\ Texts' = IF Texts # <<>> /\ Texts[Len(Texts)] \in Elsewhere
                    THEN Texts ELSE Append(Texts, e)
        /\ Elsewhere' = Elsewhere
    BY <1>4, Adds
  <2>2. undefined' = undefined
    BY <1>4 DEF AddEntry
  <2>3. IInv'
    BY <1>1, <1>3, <2>1, <2>2 DEF IInv
  <2>4. Screen!AddEntry(e)
    BY <1>1, <1>2, <2>1, <2>2
       DEF Screen!AddEntry, Screen!Last, Screen!lineVars, Pending, Elsewhere
  <2>5. QED
    BY <2>3, <2>4 DEF Follows, Screen!Next
<1>5. ASSUME NEW e \in Entry, RemoveEntry(e), RemoveHead(e) \/ Overwrite(e)
      PROVE  Follows
  <2>1. PICK k \in 1 .. Len(Texts) :
            /\ ListType' /\ Linked(Entries)' /\ Named(Entries)'
            /\ Texts[k] = e /\ e \notin Elsewhere /\ (k = 1 \/ k # Len(Texts))
            /\ Texts' = RemoveAt(Texts, k)
            /\ Elsewhere' = Elsewhere \cup IF k = 1 THEN {} ELSE {Texts[k + 1]}
    BY <1>5, Removes DEF RemoveEntry
  <2>2. undefined' = undefined
    BY <1>5 DEF RemoveHead, Overwrite
  <2>3. IInv'
    BY <1>1, <1>3, <2>1, <2>2 DEF IInv
  <2>4. Screen!RemoveEntry(k)
    BY <1>1, <1>2, <2>1, <2>2
       DEF Screen!RemoveEntry, Screen!Removable, Screen!RemoveAt, RemoveAt,
           Screen!lineVars, Pending, Elsewhere
  <2>5. k \in DOMAIN Texts
    <3>1. Texts \in Seq(Entry)
      BY TextsShown DEF IInv
    <3>2. QED
      BY <3>1, LenProperties
  <2>6. QED
    BY <2>3, <2>4, <2>5 DEF Follows, Screen!Next
<1>6. ASSUME NEW e \in Entry, RemoveEntry(e), Stray(e)
      PROVE  Follows
  <2>1. used[e] = "added" /\ used' = [used EXCEPT ![e] = "removed"] /\ undefined' = TRUE
        /\ UNCHANGED <<head, tail, next, text>>
    BY <1>6 DEF RemoveEntry, Stray
  <2>2. used' \in [Entry -> {"new", "added", "removed"}]
    BY <2>1 DEF IInv, ListType
  <2>3. /\ ListType' /\ Linked(Entries)' /\ Texts' = Texts /\ Elsewhere' = Elsewhere
    BY <2>1, <2>2, ListKept
  <2>4. IInv'
    BY <1>1, <1>3, <2>1, <2>3 DEF IInv
  <2>5. Screen!RemoveOther(e)
    <3>1. DOMAIN Texts = 1 .. Len(Texts)
      <4>1. Texts \in Seq(Entry)
        BY TextsShown DEF IInv
      <4>2. QED
        BY <4>1, LenProperties
    <3>2. ASSUME NEW i \in DOMAIN Texts, Texts[i] = e
          PROVE  Texts[i] \in Elsewhere \/ (i # 1 /\ i = Len(Texts))
      <4>1. i \in 1 .. Len(Texts)
        BY <3>1
      <4>2. QED
        BY <1>6, <2>1, <3>2, <4>1, Strays
    <3>3. QED
      BY <1>1, <1>2, <2>1, <2>3, <3>2
         DEF Screen!RemoveOther, Screen!Removable, Screen!lineVars, Pending, Elsewhere
  <2>6. QED
    BY <2>4, <2>5 DEF Follows, Screen!Next
<1>7. QED
  BY <1>4, <1>5, <1>6 DEF RemoveEntry

\* Log is AddLine of the next number.
LEMMA LogStep ==
    ASSUME IInv, Log, ~undefined
    PROVE  Follows
<1>1. /\ ListType' /\ Linked(Entries)' /\ Texts' = Texts /\ Elsewhere' = Elsewhere
      /\ (~undefined => Named(Entries))'
  BY ListKept DEF Log, list, IInv, ListType
<1>2. UNCHANGED <<input, command, garbage, undefined>>
  BY DEF Log, shell
<1>3. /\ BeforeCursor(input)' = BeforeCursor(input)
      /\ FromCursor(input)' = FromCursor(input) /\ Pending(input)' = Pending(input)
  BY <1>2
<1>4. PICK line : line = logged + 1
  OBVIOUS
<1>5. line \in Line /\ log' = AddLine(log, line) /\ logged' \in 0 .. MaxLines
  BY <1>4, ViewerAssumption DEF Log, IInv
<1>6. Rotated(log') /\ Lines(log') = Tail(Append(Lines(log), line))
  BY <1>5, LineAdded DEF IInv
<1>7. IInv'
  BY <1>1, <1>2, <1>5, <1>6 DEF IInv
<1>8. Screen!AddLine(line)
  BY <1>1, <1>2, <1>3, <1>6 DEF Screen!AddLine, Screen!lineVars, Pending, Elsewhere
<1>9. QED
  BY <1>2, <1>5, <1>7, <1>8 DEF Follows, Screen!Next

\* A frame handles a key as the console does.
LEMMA KeyStepped ==
    ASSUME IInv, NEW ch \in Keys[input.state], Type(ch)
    PROVE  /\ ch \in Char /\ Good(input') /\ command' \in Chars
           /\ Screen!Key(ch) \/ UNCHANGED Screen!lineVars
<1>1. /\ HasRoom(input, ch)
      /\ input' = HandleInput(input, ch)
      /\ command' = IF Submits(input, ch) THEN GetBuffer(input) ELSE command
  BY DEF Type
<1>2. ch \in Char
  BY <1>1, ViewerAssumption DEF IInv, Good, Inputs
<1> DEFINE b == BeforeCursor(input)
           a == FromCursor(input)
           p == Pending(input)
<1>3. /\ Shows(input, b, a)
      /\ GetBuffer(input) = b \o a /\ GetBuffer(input) \in Chars
  BY LineShown DEF IInv
<1>4. PICK b2, a2 : /\ Shows(input', b2, a2)
                    /\ KeyStep(ch, b, a, p, command, b2, a2, Pending(input'), command')
  <2>1. command' = IF Submits(input, ch) THEN b \o a ELSE command
    BY <1>1, <1>3
  <2>2. command \in Seq(Char)
    BY DEF IInv, Chars
  <2> HIDE DEF b, a
  <2>3. QED
    BY <1>1, <1>2, <1>3, <2>1, <2>2, KeyTyped DEF p
<1>5. Good(input') /\ BeforeCursor(input') = b2 /\ FromCursor(input') = a2
  BY <1>4, ShownOnly
<1>6. command' \in Chars
  BY <1>1, <1>3 DEF IInv
<1>7. Screen!Key(ch) \/ UNCHANGED Screen!lineVars
  <2> DEFINE p2 == Pending(input')
             pending == CASE input.state = "Normal" -> <<>>
                          [] input.state = "Escape" -> <<Esc>>
                          [] input.state = "EscapeBracket" -> <<Esc, "[">>
  <2>1. KeyStep(ch, b, a, p, command, b2, a2, p2, command')
    BY <1>4
  <2>2. /\ BeforeCursor(input) = b /\ FromCursor(input) = a /\ pending = p
        /\ BeforeCursor(input)' = b2 /\ FromCursor(input)' = a2 /\ pending' = p2
    BY <1>5 DEF Pending
  <2> HIDE DEF b, a, p, p2
  <2>3. CASE p = <<>> /\ p2 = <<>> /\ ch # "esc" /\ ch = "enter" /\ b \o a # <<>>
             /\ command' = b \o a /\ b2 = <<>> /\ a2 = <<>>
    <3>1. Screen!Edit(ch)
      BY <2>2, <2>3 DEF Screen!Edit, Screen!Submit
    <3>2. QED
      BY <2>2, <2>3, <3>1 DEF Screen!Key
  <2>4. CASE p = <<>> /\ p2 = <<>> /\ ch # "esc" /\ ch = "backspace" /\ b # <<>>
             /\ b2 = Front(b) /\ a2 = a /\ command' = command
    <3>1. Screen!Edit(ch)
      BY <2>2, <2>4 DEF Screen!Edit, Screen!EraseLeft, Front, Screen!Front
    <3>2. QED
      BY <2>2, <2>4, <3>1 DEF Screen!Key
  <2>5. CASE p = <<>> /\ p2 = <<>> /\ ch # "esc" /\ ch = "~" /\ a # <<>>
             /\ b2 = b /\ a2 = Tail(a) /\ command' = command
    <3>1. Screen!Edit(ch)
      BY <2>2, <2>5 DEF Screen!Edit, Screen!EraseRight
    <3>2. QED
      BY <2>2, <2>5, <3>1 DEF Screen!Key
  <2>6. CASE p = <<>> /\ p2 = <<>> /\ ch # "esc" /\ ch \notin {"enter", "backspace", "~"}
             /\ b2 = Append(b, ch) /\ a2 = a /\ command' = command
    <3>1. Screen!Edit(ch)
      BY <2>2, <2>6 DEF Screen!Edit, Screen!Insert
    <3>2. QED
      BY <2>2, <2>6, <3>1 DEF Screen!Key
  <2>7. CASE /\ <<p, ch>> \in {<<<<>>, "esc">>, <<<<"esc">>, "[">>}
             /\ p2 = Append(p, ch) /\ b2 = b /\ a2 = a /\ command' = command
    BY <2>2, <2>7 DEF Screen!Key
  <2>8. CASE p = <<"esc">> /\ ch # "[" /\ p2 = <<>>
             /\ b2 = b /\ a2 = a /\ command' = command
    BY <2>2, <2>8 DEF Screen!Key
  <2>9. CASE /\ Len(p) = 2 /\ p2 = <<>> /\ command' = command
             /\ \/ ch = "D" /\ b # <<>> /\ b2 = Front(b) /\ a2 = <<Last(b)>> \o a
                \/ ch = "C" /\ a # <<>> /\ b2 = Append(b, Head(a)) /\ a2 = Tail(a)
                \/ /\ ~(ch = "D" /\ b # <<>>) /\ ~(ch = "C" /\ a # <<>>)
                   /\ b2 = b /\ a2 = a
    <3>1. Screen!Arrow(ch)
      BY <2>2, <2>9 DEF Screen!Arrow, Front, Screen!Front, Last, Screen!Last
    <3>2. QED
      BY <2>2, <2>9, <3>1 DEF Screen!Key
  <2>10. CASE b2 = b /\ a2 = a /\ p2 = p /\ command' = command
    BY <2>2, <2>10 DEF Screen!lineVars
  <2>11. QED
    BY <2>1, <2>3, <2>4, <2>5, <2>6, <2>7, <2>8, <2>9, <2>10 DEF KeyStep
<1>8. QED
  BY <1>2, <1>5, <1>6, <1>7

LEMMA FrameStep ==
    ASSUME IInv, Frame, ~undefined
    PROVE  Follows
<1>1. /\ ListType' /\ Linked(Entries)' /\ Texts' = Texts /\ Elsewhere' = Elsewhere
      /\ (~undefined => Named(Entries))'
  BY ListKept DEF Frame, list, IInv, ListType
<1>2. UNCHANGED <<log, logged, undefined>> /\ Lines(log)' = Lines(log)
  BY DEF Frame
<1>3. garbage' \subseteq {"log", "command"} /\ ("command" \in garbage' => Len(command) = Size)
  BY DEF Frame, Stale
<1>4. /\ Good(input') /\ command' \in Chars
      /\ (\E ch \in Char : Screen!Key(ch)) \/ UNCHANGED Screen!lineVars
  <2>1. CASE \E ch \in Keys[input.state] : Type(ch)
    BY <2>1, KeyStepped
  <2>2. CASE UNCHANGED <<input, command>>
    <3>1. /\ BeforeCursor(input)' = BeforeCursor(input)
          /\ FromCursor(input)' = FromCursor(input) /\ Pending(input)' = Pending(input)
      BY <2>2
    <3>2. UNCHANGED Screen!lineVars
      BY <2>2, <3>1 DEF Screen!lineVars, Pending
    <3>3. QED
      BY <2>2, <3>2 DEF IInv
  <2>3. QED
    BY <2>1, <2>2 DEF Frame
<1>5. IInv'
  BY <1>1, <1>2, <1>3, <1>4 DEF IInv
<1>6. Screen!Frame
  BY <1>1, <1>2, <1>3, <1>4 DEF Screen!Frame, Elsewhere
<1>7. QED
  BY <1>5, <1>6 DEF Follows, Screen!Next

LEMMA Stutter ==
    ASSUME IInv, UNCHANGED vars
    PROVE  Follows
<1>1. /\ UNCHANGED <<head, tail, next, text, used>>
      /\ UNCHANGED <<log, logged, input, command, garbage, undefined>>
  BY DEF vars, list, shell
<1>2. /\ ListType' /\ Linked(Entries)' /\ Texts' = Texts /\ Elsewhere' = Elsewhere
      /\ (~undefined => Named(Entries))'
  BY <1>1, ListKept DEF IInv, ListType
<1>3. IInv'
  BY <1>1, <1>2 DEF IInv
<1>4. UNCHANGED Screen!vars
  BY <1>1, <1>2 DEF Screen!vars, Screen!lineVars, Elsewhere
<1>5. QED
  BY <1>3, <1>4 DEF Follows

LEMMA Inductive == IInv /\ [Next]_vars => Follows
BY ListStep, LogStep, FrameStep, Stutter DEF Next

\* The invariant of the monitor: what is linked from head_ says what was added, and
\* tail_ is behind it, the log pointer follows its head, the line is what was typed.
THEOREM IInvCorrect == Spec => []IInv
<1>1. Init => IInv
  BY Initially
<1>2. IInv /\ [Next]_vars => IInv'
  BY Inductive DEF Follows
<1>3. QED
  BY <1>1, <1>2, PTL DEF Spec

\* Every variable keeps its type, and no key takes the cursor out of the line.
THEOREM TypeCorrect == Spec => []TypeOK
<1>1. IInv => TypeOK
  <2> SUFFICES ASSUME IInv PROVE TypeOK
    OBVIOUS
  <2>1. head \in Link
    BY LinkedFacts DEF IInv
  <2>2. QED
    BY <2>1 DEF IInv, ListType, TypeOK, Rotated, Good, Link, Chars
<1>2. QED
  BY <1>1, IInvCorrect, PTL

\* No entry that was removed stays on the screen, and none that was added is missing
\* unless AddEntry links behind the object of an entry that was copied.
THEOREM AddedAreShownCorrect == Spec => []AddedAreShown
<1>1. IInv => AddedAreShown
  <2> SUFFICES ASSUME IInv, ~undefined
               PROVE  /\ Range(Texts) \subseteq {e \in Entry : used[e] = "added"}
                      /\ Cut \/ {e \in Entry : used[e] = "added"} \subseteq Range(Texts)
    BY DEF AddedAreShown
  <2>1. PICK s : s = Entries
    OBVIOUS
  <2>2. ListType /\ Linked(s) /\ Named(s)
    BY <2>1 DEF IInv
  <2>3. /\ Texts = [i \in 1 .. Len(s) |-> text[s[i]]]
        /\ \A i \in 1 .. Len(s) : text[s[i]] \in Entry
        /\ Range(s) = {s[i] : i \in 1 .. Len(s)}
    BY <2>2, NamedFacts, TextsShown
  <2>4. Range(Texts) = {text[s[i]] : i \in 1 .. Len(s)}
    BY <2>3 DEF Range
  <2>5. Range(Texts) \subseteq {e \in Entry : used[e] = "added"}
    BY <2>2, <2>3, <2>4 DEF Named
  <2>6. CASE Whole(s)
    BY <2>2, <2>4, <2>5, <2>6 DEF Named
  <2>7. CASE ~Whole(s)
    <3>1. head # Null
      BY <2>2, <2>7, LinkedFacts DEF Whole
    <3>2. tail \notin Range(s)
      BY <2>2, <2>3, <2>7 DEF Named
    <3>3. QED
      BY <2>1, <2>5, <3>1, <3>2 DEF Cut
  <2>8. QED
    BY <2>6, <2>7
<1>2. QED
  BY <1>1, IInvCorrect, PTL

\* The screen is the console a user can expect: every step of the list, the ring and
\* the line editor is one of Console, or shows nothing new.
THEOREM ConsoleImplemented == Spec => ImplementsConsole
<1>1. Init => Screen!Init
  BY Initially
<1>2. IInv /\ [Next]_vars => [Screen!Next]_(Screen!vars)
  BY Inductive DEF Follows
<1>3. QED
  BY <1>1, <1>2, IInvCorrect, PTL DEF Spec, ImplementsConsole, Screen!Spec
===============================================================================
