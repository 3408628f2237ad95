------------------------ MODULE ControlStreamFreeProofs ------------------------
(***************************************************************************)
(* Proofs about ControlStream when the client may put a message before the *)
(* last one is confirmed, for every pair of ends, payload set, checksum,   *)
(* MixCode, timeout and channel capacity.                                  *)
(***************************************************************************)
EXTENDS ControlStreamProofs

\* Code x was taken no later than code y.
Before(c, x, y) == \E i, j \in DOMAIN c : i <= j /\ c[i] = x /\ c[j] = y

\* From the code front on, the codes of queue q only go forward.
Climbs(c, q, front) ==
    \A i \in DOMAIN q : /\ Before(c, front, q[i])
                        /\ \A j \in DOMAIN q : i < j => Before(c, q[i], q[j])

Below(c, q, top) == \A i \in DOMAIN q : Before(c, q[i], top)

Among(d, s) == \E j \in DOMAIN s : s[j] = d

\* g is a subsequence of p, of messages whose codes came no later than top.
Embedded(c, p, g, top) ==
    \E at \in [DOMAIN g -> DOMAIN p] :
        /\ \A i \in DOMAIN g : g[i] = p[at[i]] /\ Before(c, c[at[i] + 1], top)
        /\ \A i, j \in DOMAIN g : i < j => at[i] < at[j]

Histories(n) ==
    /\ Len(chain[n]) = Len(put[n]) + 1
    /\ hOv[n] = chain[n][Len(chain[n])]

Codes(n) ==
    /\ Climbs(chain[n], Hovs(ctrlCh[Peer[n]]), hIv[Peer[n]])
    /\ Before(chain[n], hIv[Peer[n]], hOv[n])

\* No feedback is ahead of what the peer has taken, nor that of what it validates.
Acks(n) ==
    /\ Before(chain[n], hIf[Peer[n]], hIv[Peer[n]])
    /\ Below(chain[n], Hifs(ctrlCh[n]), hIf[Peer[n]])
    /\ Loading(n) => Before(chain[n], pendingOf[n], hIf[Peer[n]])

Payloads(n) ==
    /\ \A i \in DOMAIN dataCh[Peer[n]] : Among(dataCh[Peer[n]][i], put[n])
    /\ txData[n] # NoData => Among(txData[n], put[n])

\* A code the peer of n computes from: older than the one it validates, but for
\* the code of no message.
From(n, code) ==
    LET m == Peer[n]
    IN  Before(chain[n], code, hIv[m]) /\ (code = hIv[m] => hIf[m] = hIv[m])

Computed(n) ==
    LET m == Peer[n]
    IN  /\ From(n, prevState[m])
        /\ hasNew[m] => /\ Among(rxData[m], put[n])
                        /\ \E p \in StateCode : /\ From(n, p)
                                                /\ calcState[m] = Mixed(p, rxData[m])

Resent(n) == hIf[Peer[n]] # hOv[n] => dataUpd[n].need

Fires(n) == Embedded(chain[n], put[n], got[Peer[n]], hIf[Peer[n]])

\* The inductive invariant behind OnlyWhatWasPut, and RetransmitsUntilTaken for
\* every client.
FreeDirection(n) ==
    /\ Histories(n)
    /\ Codes(n)
    /\ Acks(n)
    /\ Payloads(n)
    /\ Computed(n)
    /\ Resent(n)
    /\ Fires(n)

FreeInv == \A n \in Node : FreeDirection(n)
-----------------------------------------------------------------------------
(* Codes in the order they were taken.                                     *)

Distinct(c) == \A i, j \in DOMAIN c : c[i] = c[j] => i = j

LEMMA BeforeOrders ==
    ASSUME NEW S, NEW c \in Seq(S), Distinct(c), NEW x, NEW y
    PROVE  /\ Before(c, x, y) => Before(c, x, x) /\ Before(c, y, y)
           /\ Before(c, x, y) /\ Before(c, y, x) => x = y
           /\ \A z : Before(c, x, y) /\ Before(c, y, z) => Before(c, x, z)
           /\ Before(c, x, x) => Before(c, x, c[Len(c)])
           /\ Before(c, c[Len(c)], y) => y = c[Len(c)]
<1>1. DOMAIN c = 1 .. Len(c) /\ Len(c) \in Nat
  OBVIOUS
<1>2. Before(c, x, y) => Before(c, x, x) /\ Before(c, y, y)
  BY <1>1 DEF Before
<1>3. Before(c, x, y) /\ Before(c, y, x) => x = y
  <2> SUFFICES ASSUME Before(c, x, y), Before(c, y, x) PROVE x = y
    OBVIOUS
  <2>1. PICK i, j \in DOMAIN c : i <= j /\ c[i] = x /\ c[j] = y
    BY DEF Before
  <2>2. PICK k, l \in DOMAIN c : k <= l /\ c[k] = y /\ c[l] = x
    BY DEF Before
  <2>3. i = l /\ j = k
    BY <2>1, <2>2 DEF Distinct
  <2>4. i = j
    BY <1>1, <2>1, <2>2, <2>3
  <2>5. QED
    BY <2>1, <2>4
<1>4. ASSUME NEW z, Before(c, x, y), Before(c, y, z) PROVE Before(c, x, z)
  <2>1. PICK i, j \in DOMAIN c : i <= j /\ c[i] = x /\ c[j] = y
    BY <1>4 DEF Before
  <2>2. PICK k, l \in DOMAIN c : k <= l /\ c[k] = y /\ c[l] = z
    BY <1>4 DEF Before
  <2>3. j = k
    BY <2>1, <2>2 DEF Distinct
  <2>4. i <= l
    BY <1>1, <2>1, <2>2, <2>3
  <2>5. QED
    BY <2>1, <2>2, <2>4 DEF Before
<1>5. ASSUME Before(c, x, x) PROVE Before(c, x, c[Len(c)])
  <2>1. PICK i \in DOMAIN c : c[i] = x
    BY <1>5 DEF Before
  <2>2. i <= Len(c) /\ Len(c) \in DOMAIN c
    BY <1>1, <2>1
  <2>3. QED
    BY <2>1, <2>2 DEF Before
<1>6. ASSUME Before(c, c[Len(c)], y) PROVE y = c[Len(c)]
  <2>1. PICK i, j \in DOMAIN c : i <= j /\ c[i] = c[Len(c)] /\ c[j] = y
    BY <1>6 DEF Before
  <2>2. Len(c) \in DOMAIN c
    BY <1>1, <2>1
  <2>3. i = Len(c)
    BY <2>1, <2>2 DEF Distinct
  <2>4. j = Len(c)
    BY <1>1, <2>1, <2>3
  <2>5. QED
    BY <2>1, <2>4
<1>7. QED
  BY <1>2, <1>3, <1>4, <1>5, <1>6

LEMMA BeforeAppend ==
    ASSUME NEW S, NEW c \in Seq(S), NEW new \in S, NEW x, NEW y, Before(c, x, y)
    PROVE  Before(Append(c, new), x, y)
<1>1. /\ DOMAIN c \subseteq DOMAIN Append(c, new)
      /\ \A i \in DOMAIN c : Append(c, new)[i] = c[i]
  OBVIOUS
<1>2. QED
  BY <1>1 DEF Before

\* A queue that climbs may lose its first frame, give it to the receiver, or get a
\* frame that is not behind it.
LEMMA ClimbsOn ==
    ASSUME NEW c, NEW q \in Seq(StateCode), NEW front, Climbs(c, q, front)
    PROVE  /\ \A f \in StateCode :
                  /\ Before(c, front, f)
                  /\ \A i \in DOMAIN q : Before(c, q[i], f)
                  => Climbs(c, Sent(q, f), front)
           /\ q # <<>> => /\ Climbs(c, Tail(q), front)
                          /\ Climbs(c, Tail(q), Head(q))
                          /\ Before(c, front, Head(q))
<1>1. ASSUME NEW f \in StateCode, Before(c, front, f),
             \A i \in DOMAIN q : Before(c, q[i], f)
      PROVE  Climbs(c, Sent(q, f), front)
  <2>1. CASE Len(q) < QueueCap
    <3>1. /\ Sent(q, f) = Append(q, f)
          /\ DOMAIN Append(q, f) = 1 .. Len(q) + 1
          /\ DOMAIN q = 1 .. Len(q)
          /\ \A i \in 1 .. Len(q) : Append(q, f)[i] = q[i]
          /\ Append(q, f)[Len(q) + 1] = f
      BY <2>1 DEF Sent
    <3>2. \A i \in 1 .. Len(q) + 1 : i \in 1 .. Len(q) \/ i = Len(q) + 1
      OBVIOUS
    <3>3. \A i, j \in 1 .. Len(q) + 1 : i < j => i \in 1 .. Len(q)
      OBVIOUS
    <3>4. QED
      BY <1>1, <3>1, <3>2, <3>3 DEF Climbs
  <2>2. CASE ~(Len(q) < QueueCap)
    BY <2>2 DEF Sent
  <2>3. QED
    BY <2>1, <2>2
<1>2. ASSUME q # <<>>
      PROVE  /\ Climbs(c, Tail(q), front)
             /\ Climbs(c, Tail(q), Head(q))
             /\ Before(c, front, Head(q))
  <2>1. /\ DOMAIN Tail(q) = 1 .. Len(q) - 1
        /\ DOMAIN q = 1 .. Len(q)
        /\ \A i \in 1 .. Len(q) - 1 :
              Tail(q)[i] = q[i + 1] /\ i + 1 \in 1 .. Len(q) /\ 1 < i + 1
        /\ \A i, j \in 1 .. Len(q) - 1 : i < j => i + 1 < j + 1
        /\ 1 \in 1 .. Len(q)
        /\ Head(q) = q[1]
    BY <1>2
  <2>2. QED
    BY <2>1 DEF Climbs
<1>3. QED
  BY <1>1, <1>2

LEMMA BelowOn ==
    ASSUME NEW c, NEW q \in Seq(StateCode), NEW top, Below(c, q, top)
    PROVE  /\ \A f \in StateCode : Before(c, f, top) => Below(c, Sent(q, f), top)
           /\ q # <<>> => Below(c, Tail(q), top) /\ Before(c, Head(q), top)
<1>1. ASSUME NEW f \in StateCode, Before(c, f, top)
      PROVE  Below(c, Sent(q, f), top)
  <2>1. \A i \in DOMAIN Append(q, f) :
            Append(q, f)[i] = f \/ (i \in DOMAIN q /\ Append(q, f)[i] = q[i])
    <3>1. /\ DOMAIN Append(q, f) = 1 .. Len(q) + 1
          /\ DOMAIN q = 1 .. Len(q)
          /\ \A i \in 1 .. Len(q) : Append(q, f)[i] = q[i]
          /\ Append(q, f)[Len(q) + 1] = f
          /\ \A i \in 1 .. Len(q) + 1 : i \in 1 .. Len(q) \/ i = Len(q) + 1
      OBVIOUS
    <3>2. QED
      BY <3>1
  <2>2. Sent(q, f) \in {q, Append(q, f)}
    BY DEF Sent
  <2>3. QED
    BY <1>1, <2>1, <2>2 DEF Below
<1>2. ASSUME q # <<>>
      PROVE  Below(c, Tail(q), top) /\ Before(c, Head(q), top)
  <2>1. /\ DOMAIN Tail(q) = 1 .. Len(q) - 1
        /\ \A i \in 1 .. Len(q) - 1 : Tail(q)[i] = q[i + 1] /\ i + 1 \in DOMAIN q
        /\ 1 \in DOMAIN q /\ Head(q) = q[1]
    BY <1>2
  <2>2. QED
    BY <2>1 DEF Below
<1>3. QED
  BY <1>1, <1>2

\* The message whose code the receiver has computed is one that was put after
\* everything it has fired.
LEMMA Embeds ==
    ASSUME NEW c \in Seq(StateCode), NEW p \in Seq(Data), NEW g \in Seq(Data),
           Len(c) = Len(p) + 1, Distinct(c),
           \A k, j \in DOMAIN p : \A i \in 1 .. k :
               Mixed(c[i], p[j]) = c[k + 1] => p[j] = p[k],
           NEW old, NEW code, NEW from, NEW d \in Data,
           Embedded(c, p, g, old),
           Before(c, old, code), old # code,
           Before(c, from, code), from # code,
           Among(d, p), Mixed(from, d) = code
    PROVE  Embedded(c, p, Append(g, d), code)
<1>1. /\ DOMAIN c = 1 .. Len(p) + 1 /\ DOMAIN p = 1 .. Len(p) /\ Len(p) \in Nat
      /\ DOMAIN g = 1 .. Len(g) /\ Len(g) \in Nat
      /\ DOMAIN Append(g, d) = 1 .. Len(g) + 1
      /\ \A i \in 1 .. Len(g) : Append(g, d)[i] = g[i]
      /\ Append(g, d)[Len(g) + 1] = d
      /\ \A i \in 1 .. Len(g) + 1 : i \in 1 .. Len(g) \/ i = Len(g) + 1
  OBVIOUS
<1>2. PICK o, v \in DOMAIN c : o <= v /\ c[o] = old /\ c[v] = code
  BY DEF Before
<1>3. PICK i, w \in DOMAIN c : i <= w /\ c[i] = from /\ c[w] = code
  BY DEF Before
<1>4. w = v /\ o # v /\ i # v
  BY <1>2, <1>3 DEF Distinct
<1>5. PICK k \in DOMAIN p : v = k + 1 /\ o <= k /\ i \in 1 .. k
  <2>1. v \in 2 .. Len(p) + 1
    BY <1>1, <1>2, <1>4
  <2>2. v - 1 \in DOMAIN p /\ o <= v - 1 /\ i \in 1 .. v - 1 /\ v = (v - 1) + 1
    BY <1>1, <1>2, <1>3, <1>4, <2>1
  <2>3. QED
    BY <2>2
<1>6. d = p[k]
  <2>1. PICK j \in DOMAIN p : p[j] = d
    BY DEF Among
  <2>2. Mixed(c[i], p[j]) = c[k + 1]
    BY <1>2, <1>3, <1>5, <2>1
  <2>3. QED
    BY <1>5, <2>1, <2>2
<1>7. PICK at \in [DOMAIN g -> DOMAIN p] :
        /\ \A x \in DOMAIN g : g[x] = p[at[x]] /\ Before(c, c[at[x] + 1], old)
        /\ \A x, y \in DOMAIN g : x < y => at[x] < at[y]
  BY DEF Embedded
<1>8. ASSUME NEW x \in DOMAIN g
      PROVE  at[x] < k /\ Before(c, c[at[x] + 1], code)
  <2>1. at[x] \in DOMAIN p /\ at[x] + 1 \in DOMAIN c
    BY <1>1, <1>7
  <2>2. PICK y, z \in DOMAIN c : y <= z /\ c[y] = c[at[x] + 1] /\ c[z] = old
    BY <1>7 DEF Before
  <2>3. y = at[x] + 1 /\ z = o
    BY <1>2, <2>1, <2>2 DEF Distinct
  <2>4. at[x] < k
    BY <1>1, <1>5, <2>1, <2>2, <2>3
  <2>5. at[x] + 1 <= v
    BY <1>1, <1>5, <2>1, <2>4
  <2>6. QED
    BY <1>2, <2>1, <2>4, <2>5 DEF Before
<1> DEFINE next == [x \in DOMAIN Append(g, d) |-> IF x \in DOMAIN g THEN at[x] ELSE k]
<1>9. next \in [DOMAIN Append(g, d) -> DOMAIN p]
  BY <1>7
<1>10. Before(c, c[k + 1], code)
  BY <1>1, <1>2, <1>5 DEF Before
<1>11. \A x \in DOMAIN g : next[x] = at[x] /\ Append(g, d)[x] = g[x]
  BY <1>1
<1>12. next[Len(g) + 1] = k
  BY <1>1
<1>13. \A x, y \in DOMAIN Append(g, d) :
           x < y => x \in DOMAIN g /\ (y \in DOMAIN g \/ y = Len(g) + 1)
  BY <1>1
<1> HIDE DEF next
<1>14. \A x \in DOMAIN Append(g, d) :
           Append(g, d)[x] = p[next[x]] /\ Before(c, c[next[x] + 1], code)
  BY <1>1, <1>6, <1>7, <1>8, <1>10, <1>11, <1>12
<1>15. \A x, y \in DOMAIN Append(g, d) : x < y => next[x] < next[y]
  BY <1>7, <1>8, <1>11, <1>12, <1>13
<1>16. QED
  BY <1>9, <1>14, <1>15 DEF Embedded

LEMMA EmbedsOn ==
    ASSUME NEW c \in Seq(StateCode), NEW p \in Seq(Data), Len(c) = Len(p) + 1,
           NEW g, NEW top, Embedded(c, p, g, top),
           NEW code \in StateCode, NEW d \in Data
    PROVE  Embedded(Append(c, code), Append(p, d), g, top)
<1>1. PICK at \in [DOMAIN g -> DOMAIN p] :
        /\ \A x \in DOMAIN g : g[x] = p[at[x]] /\ Before(c, c[at[x] + 1], top)
        /\ \A x, y \in DOMAIN g : x < y => at[x] < at[y]
  BY DEF Embedded
<1>2. /\ DOMAIN p \subseteq DOMAIN Append(p, d)
      /\ \A i \in DOMAIN p : /\ Append(p, d)[i] = p[i]
                             /\ i + 1 \in DOMAIN c
                             /\ Append(c, code)[i + 1] = c[i + 1]
  OBVIOUS
<1>3. at \in [DOMAIN g -> DOMAIN Append(p, d)]
  BY <1>1, <1>2
<1>4. \A x \in DOMAIN g :
          /\ g[x] = Append(p, d)[at[x]]
          /\ Before(Append(c, code), Append(c, code)[at[x] + 1], top)
  BY <1>1, <1>2, BeforeAppend
<1>5. QED
  BY <1>1, <1>3, <1>4 DEF Embedded
-----------------------------------------------------------------------------
(* The invariant is preserved.                                             *)

\* Each part of the invariant only depends on a few variables.
LEMMA FreeFrame ==
    ASSUME NEW n \in Node, PutSame(n), FreeDirection(n)
    PROVE  LET m == Peer[n]
           IN  /\ Histories(n)'
               /\ UNCHANGED <<ctrlCh[m], hIv[m]>> => Codes(n)'
               /\ UNCHANGED <<ctrlCh[n], stage[n], pendingOf[n], hIf[m], hIv[m]>>
                  => Acks(n)'
               /\ UNCHANGED dataCh[m] => Payloads(n)'
               /\ UNCHANGED <<prevState[m], hIv[m], hasNew[m], rxData[m],
                              calcState[m], hIf[m]>> => Computed(n)'
               /\ UNCHANGED <<hIf[m], dataUpd[n].need>> => Resent(n)'
               /\ UNCHANGED <<hIf[m], got[m]>> => Fires(n)'
<1> DEFINE m == Peer[n]
<1>1. Histories(n)'
  BY DEF PutSame, FreeDirection, Histories
<1>2. UNCHANGED <<ctrlCh[m], hIv[m]>> => Codes(n)'
  BY DEF PutSame, FreeDirection, Codes
<1>3. UNCHANGED <<ctrlCh[n], stage[n], pendingOf[n], hIf[m], hIv[m]>> => Acks(n)'
  BY DEF PutSame, FreeDirection, Acks, Loading
<1>4. UNCHANGED dataCh[m] => Payloads(n)'
  BY DEF PutSame, FreeDirection, Payloads
<1>5. UNCHANGED <<prevState[m], hIv[m], hasNew[m], rxData[m], calcState[m], hIf[m]>>
          => Computed(n)'
  BY DEF PutSame, FreeDirection, Computed, From
<1>6. UNCHANGED <<hIf[m], dataUpd[n].need>> => Resent(n)'
  BY DEF PutSame, FreeDirection, Resent
<1>7. UNCHANGED <<hIf[m], got[m]>> => Fires(n)'
  BY DEF PutSame, FreeDirection, Fires
<1>8. QED
  BY <1>1, <1>2, <1>3, <1>4, <1>5, <1>6, <1>7

\* What is announced is not behind what is on the way: the code of the sender is
\* the last it took, the feedback of the receiver the last it fired.
LEMMA FreeAnnounced ==
    ASSUME TypeInv, NoCollisionEver, NEW n \in Node, PutSame(n), FreeDirection(n),
           NEW f \in CtrlFrame
    PROVE  LET m == Peer[n]
           IN  /\ /\ f.hov = hOv[n]
                  /\ hIv'[m] = hIv[m]
                  /\ ctrlCh'[m] \in {ctrlCh[m], Sent(ctrlCh[m], f),
                                     Sent(Sent(ctrlCh[m], f), f)}
                  => Codes(n)'
               /\ /\ f.hif = hIf'[m]
                  /\ Before(chain[n], hIf[m], hIf'[m])
                  /\ Before(chain[n], hIf'[m], hIv'[m])
                  /\ ctrlCh'[n] \in {ctrlCh[n], Sent(ctrlCh[n], f),
                                     Sent(Sent(ctrlCh[n], f), f)}
                  /\ UNCHANGED <<stage[n], pendingOf[n]>>
                  => Acks(n)'
<1> DEFINE m == Peer[n]
           c == chain[n]
<1>1. /\ ctrlCh[n] \in Seq(CtrlFrame) /\ ctrlCh[m] \in Seq(CtrlFrame)
      /\ Sent(ctrlCh[n], f) \in Seq(CtrlFrame) /\ Sent(ctrlCh[m], f) \in Seq(CtrlFrame)
      /\ c \in Seq(StateCode) /\ m \in Node
      /\ f.hov \in StateCode /\ f.hif \in StateCode
  BY NodeAssumption, SentType DEF TypeInv, TypeOK, CtrlFrame
<1>2. Distinct(c)
  BY DEF NoCollisionEver, Distinct
<1>3. c' = c /\ hOv'[n] = hOv[n]
  BY DEF PutSame
<1>4. ASSUME f.hov = hOv[n], hIv'[m] = hIv[m],
             ctrlCh'[m] \in {ctrlCh[m], Sent(ctrlCh[m], f), Sent(Sent(ctrlCh[m], f), f)}
      PROVE  Codes(n)'
  <2> DEFINE q == Hovs(ctrlCh[m])
             top == f.hov
             front == hIv[m]
  <2>1. /\ q \in Seq(StateCode)
        /\ Hovs(Sent(ctrlCh[m], f)) = Sent(q, top)
        /\ Hovs(Sent(Sent(ctrlCh[m], f), f)) = Sent(Sent(q, top), top)
    BY <1>1, Projections
  <2>2. Climbs(c, q, front) /\ Before(c, front, top) /\ top = c[Len(c)]
    BY <1>4 DEF FreeDirection, Codes, Histories
  <2>3. Hovs(ctrlCh'[m]) \in {q, Sent(q, top), Sent(Sent(q, top), top)}
    BY <1>4, <2>1
  <2>4. Codes(n)' <=> Climbs(c, Hovs(ctrlCh'[m]), front) /\ Before(c, front, top)
    BY <1>3, <1>4 DEF Codes
  <2>5. Sent(q, top) \in Seq(StateCode)
    BY <1>1, <2>1, SentType
  <2>6. ASSUME NEW r \in Seq(StateCode), Climbs(c, r, front)
        PROVE  Climbs(c, Sent(r, top), front)
    <3> HIDE DEF c, q, top, front
    <3>1. \A i \in DOMAIN r : Before(c, r[i], r[i])
      BY <1>1, <1>2, <2>6, BeforeOrders DEF Climbs
    <3>2. \A i \in DOMAIN r : Before(c, r[i], top)
      BY <1>1, <1>2, <2>2, <3>1, BeforeOrders
    <3>3. top \in StateCode
      BY <1>1 DEF top
    <3>4. QED
      BY <2>2, <2>6, <3>2, <3>3, ClimbsOn
  <2> HIDE DEF c, q, top, front
  <2>7. QED
    BY <2>1, <2>2, <2>3, <2>4, <2>5, <2>6
<1>5. ASSUME f.hif = hIf'[m], Before(c, hIf[m], hIf'[m]), Before(c, hIf'[m], hIv'[m]),
             ctrlCh'[n] \in {ctrlCh[n], Sent(ctrlCh[n], f), Sent(Sent(ctrlCh[n], f), f)},
             UNCHANGED <<stage[n], pendingOf[n]>>
      PROVE  Acks(n)'
  <2> DEFINE q == Hifs(ctrlCh[n])
             top == f.hif
             old == hIf[m]
  <2>1. /\ q \in Seq(StateCode)
        /\ Hifs(Sent(ctrlCh[n], f)) = Sent(q, top)
        /\ Hifs(Sent(Sent(ctrlCh[n], f), f)) = Sent(Sent(q, top), top)
    BY <1>1, Projections
  <2>2. /\ Below(c, q, old) /\ Before(c, old, top)
        /\ Loading(n) => Before(c, pendingOf[n], old)
    BY <1>5 DEF FreeDirection, Acks
  <2>3. Hifs(ctrlCh'[n]) \in {q, Sent(q, top), Sent(Sent(q, top), top)}
    BY <1>5, <2>1
  <2>4. /\ Below(c, q, top)
        /\ Loading(n) => Before(c, pendingOf[n], top)
        /\ Before(c, top, top)
    <3> HIDE DEF c, q, top, old
    <3>1. QED
      BY <1>1, <1>2, <2>2, BeforeOrders DEF Below
  <2>5. Below(c, Sent(q, top), top) /\ Below(c, Sent(Sent(q, top), top), top)
    <3>1. top \in StateCode /\ Sent(q, top) \in Seq(StateCode)
      BY <1>1, <2>1, SentType
    <3> HIDE DEF c, q, top, old
    <3>2. QED
      BY <2>1, <2>4, <3>1, BelowOn
  <2>6. Acks(n)' <=> /\ Before(c, top, hIv'[m])
                     /\ Below(c, Hifs(ctrlCh'[n]), top)
                     /\ Loading(n) => Before(c, pendingOf[n], top)
    BY <1>3, <1>5 DEF Acks, Loading
  <2>7. Before(c, top, hIv'[m])
    BY <1>5
  <2> HIDE DEF c, q, top, old
  <2>8. QED
    BY <2>3, <2>4, <2>5, <2>6, <2>7
<1>6. QED
  BY <1>4, <1>5

LEMMA FreeInit == Init => FreeInv
<1> SUFFICES ASSUME Init, NEW n \in Node PROVE FreeDirection(n)
  BY DEF FreeInv
<1> DEFINE m == Peer[n]
<1>1. m \in Node
  BY NodeAssumption
<1>2. /\ chain[n] = <<0>> /\ put[n] = <<>> /\ got[m] = <<>> /\ dataCh[m] = <<>>
      /\ hOv[n] = 0 /\ hIv[m] = 0 /\ hIf[m] = 0 /\ prevState[m] = 0
      /\ hasNew[m] = FALSE /\ txData[n] = NoData /\ ~Loading(n)
  BY <1>1 DEF Init, Inbound_Init, Outbound_Init, Loading
<1>3. Hovs(ctrlCh[m]) = <<>> /\ Hifs(ctrlCh[n]) = <<>>
  BY <1>1 DEF Init, Inbound_Init, Outbound_Init, Hovs, Hifs
<1>4. Before(chain[n], 0, 0)
  BY <1>2 DEF Before
<1>5. Histories(n) /\ Payloads(n) /\ Resent(n)
  BY <1>2 DEF Histories, Payloads, Resent
<1>6. Codes(n) /\ Acks(n)
  BY <1>2, <1>3, <1>4 DEF Codes, Acks, Climbs, Below
<1>7. Computed(n)
  BY <1>2, <1>4 DEF Computed, From
<1>8. Fires(n)
  <2>1. DOMAIN got[m] = {}
    BY <1>2
  <2> DEFINE at == [i \in DOMAIN got[m] |-> i]
  <2>2. at \in [DOMAIN got[m] -> DOMAIN put[n]]
    BY <2>1
  <2>3. QED
    BY <2>1, <2>2 DEF Fires, Embedded
<1>9. QED
  BY <1>5, <1>6, <1>7, <1>8 DEF FreeDirection

LEMMA FreeTick ==
    ASSUME TypeInv, NoCollisionEver, FreeInv, NEW x \in Node, Tick(x), NEW n \in Node
    PROVE  FreeDirection(n)'
<1> DEFINE m == Peer[n]
           f == Control(hOv[x], hIf[x])
           y == Peer[x]
<1>1. FreeDirection(n) /\ PutSame(n)
  BY DEF FreeInv, Tick, PutSame, clientVars
<1>2. /\ UNCHANGED <<hIv, hIf, stage, pendingOf, rxData, got, prevState, hasNew,
                     calcState, put>>
      /\ dataUpd'[n].need = dataUpd[n].need
  <2>1. UNCHANGED <<hIv, hIf, stage, pendingOf, rxData, got, prevState, hasNew,
                    calcState, put>>
    BY DEF Tick, clientVars
  <2>2. U!Tick(dataUpd[n]).need = dataUpd[n].need
    BY DEF U!Tick, U!Expires, TypeInv, TypeOK, U!Updatable
  <2>3. dataUpd'[n] \in {dataUpd[n], U!Tick(dataUpd[n])}
    BY DEF Tick, TypeInv, TypeOK
  <2>4. QED
    BY <2>1, <2>2, <2>3
<1>3. Histories(n)' /\ Computed(n)' /\ Resent(n)' /\ Fires(n)'
  BY <1>1, <1>2, FreeFrame
<1>4. f \in CtrlFrame /\ f.hov = hOv[x] /\ f.hif = hIf[x]
  BY ControlType DEF TypeInv, TypeOK, Control
<1>5. Payloads(n)'
  <2>1. CASE dataCh'[m] = dataCh[m]
    BY <1>1, <2>1, FreeFrame
  <2>2. CASE dataCh'[m] = Sent(dataCh[m], txData[n]) /\ txData[n] # NoData
    <3>1. dataCh[m] \in Seq(Data) /\ txData[n] \in Data
      BY <2>2, NodeAssumption DEF TypeInv, TypeOK
    <3>2. Among(txData[n], put[n])
      BY <1>1, <2>2 DEF FreeDirection, Payloads
    <3>3. \A i \in DOMAIN dataCh'[m] :
              \/ dataCh'[m][i] = txData[n]
              \/ i \in DOMAIN dataCh[m] /\ dataCh'[m][i] = dataCh[m][i]
      BY <2>2, <3>1 DEF Sent
    <3>4. QED
      BY <1>1, <3>2, <3>3 DEF FreeDirection, Payloads, PutSame
  <2>3. QED
    BY <2>1, <2>2, NodeAssumption DEF Tick, TypeInv, TypeOK
<1>6. /\ \A z \in Node : z # y => ctrlCh'[z] = ctrlCh[z]
      /\ ctrlCh'[y] \in {ctrlCh[y], Sent(ctrlCh[y], f), Sent(Sent(ctrlCh[y], f), f)}
  BY NodeAssumption DEF Tick, TypeInv, TypeOK
<1> HIDE DEF f
<1>7. Codes(n)'
  <2>1. CASE x = n
    BY <1>1, <1>2, <1>4, <1>6, <2>1, FreeAnnounced
  <2>2. CASE x # n
    <3>1. m # y /\ m \in Node
      BY <2>2, NodeAssumption
    <3>2. QED
      BY <1>1, <1>2, <1>6, <3>1, FreeFrame
  <2>3. QED
    BY <2>1, <2>2
<1>8. Acks(n)'
  <2>1. CASE x = m
    <3>1. y = n /\ f.hif = hIf'[m]
      BY <1>2, <1>4, <2>1, NodeAssumption
    <3>2. Distinct(chain[n]) /\ chain[n] \in Seq(StateCode)
      BY DEF NoCollisionEver, Distinct, TypeInv, TypeOK
    <3>3. Before(chain[n], hIf[m], hIv[m])
      BY <1>1 DEF FreeDirection, Acks
    <3>4. Before(chain[n], hIf[m], hIf[m])
      BY <3>2, <3>3, BeforeOrders
    <3>5. QED
      BY <1>1, <1>2, <1>4, <1>6, <3>1, <3>3, <3>4, FreeAnnounced
  <2>2. CASE x # m
    <3>1. n # y
      BY <2>2, NodeAssumption
    <3>2. QED
      BY <1>1, <1>2, <1>6, <3>1, FreeFrame
  <2>3. QED
    BY <2>1, <2>2
<1>9. QED
  BY <1>3, <1>5, <1>7, <1>8 DEF FreeDirection

LEMMA FreeTxOkReturns ==
    ASSUME TypeInv, FreeInv, NEW x \in Node, TxOkReturns(x), NEW n \in Node
    PROVE  FreeDirection(n)'
<1>1. FreeDirection(n) /\ PutSame(n)
  BY DEF FreeInv, TxOkReturns, PutSame, clientVars
<1>2. UNCHANGED <<inboundVars, dataUpd, pendingOf, dataCh, ctrlCh, clientVars>>
  BY DEF TxOkReturns
<1>3. /\ Histories(n)' /\ Codes(n)' /\ Payloads(n)' /\ Computed(n)' /\ Resent(n)'
      /\ Fires(n)'
  BY <1>1, <1>2, FreeFrame DEF inboundVars, clientVars
<1>4. Loading(n)' <=> Loading(n)
  BY DEF TxOkReturns, Loading, TypeInv, TypeOK
<1>5. Acks(n)'
  BY <1>1, <1>2, <1>4 DEF Acks, FreeDirection, PutSame, inboundVars
<1>6. QED
  BY <1>3, <1>5 DEF FreeDirection

\* data_ is reset only when the feedback is the last code, which nothing the peer
\* takes later can be.
LEMMA FreeSetStateFeedback ==
    ASSUME TypeInv, NoCollisionEver, FreeInv, NEW x \in Node, SetStateFeedback(x),
           NEW n \in Node
    PROVE  FreeDirection(n)'
<1> DEFINE m == Peer[n]
<1>1. FreeDirection(n) /\ PutSame(n)
  BY DEF FreeInv, SetStateFeedback, PutSame
<1>2. UNCHANGED <<inboundVars, dataCh, ctrlCh, put, got>>
  BY DEF SetStateFeedback
<1>3. Histories(n)' /\ Codes(n)' /\ Payloads(n)' /\ Computed(n)' /\ Fires(n)'
  BY <1>1, <1>2, FreeFrame DEF inboundVars
<1>4. CASE x # n
  <2>1. UNCHANGED <<stage[n], pendingOf[n], dataUpd[n]>>
    BY <1>4 DEF SetStateFeedback, TypeInv, TypeOK
  <2>2. QED
    BY <1>1, <1>2, <1>3, <2>1, FreeFrame DEF inboundVars, FreeDirection
<1>5. CASE x = n
  <2>1. /\ Loading(n) /\ ~Loading(n)'
        /\ hOv[n] # pendingOf[n] => dataUpd'[n] = dataUpd[n]
    BY <1>5 DEF SetStateFeedback, Loading, TypeInv, TypeOK
  <2>2. Acks(n)'
    BY <1>1, <1>2, <2>1 DEF Acks, FreeDirection, PutSame, inboundVars
  <2>3. ASSUME hOv[n] = pendingOf[n] PROVE hIf[m] = hOv[n]
    <3>1. Distinct(chain[n]) /\ chain[n] \in Seq(StateCode)
      BY DEF NoCollisionEver, Distinct, TypeInv, TypeOK
    <3>2. /\ Before(chain[n], hOv[n], hIf[m])
          /\ hOv[n] = chain[n][Len(chain[n])]
      BY <1>1, <2>1, <2>3 DEF FreeDirection, Acks, Histories
    <3>3. QED
      BY <3>1, <3>2, BeforeOrders
  <2>4. Resent(n)'
    BY <1>1, <1>2, <2>1, <2>3 DEF Resent, FreeDirection, PutSame, inboundVars
  <2>5. QED
    BY <1>3, <2>2, <2>4 DEF FreeDirection
<1>6. QED
  BY <1>4, <1>5

LEMMA FreeLoseData ==
    ASSUME TypeInv, FreeInv, NEW x \in Node, LoseData(x), NEW n \in Node
    PROVE  FreeDirection(n)'
<1> DEFINE m == Peer[n]
<1>1. FreeDirection(n) /\ PutSame(n)
  BY DEF FreeInv, LoseData, PutSame, outboundVars, clientVars
<1>2. UNCHANGED <<inboundVars, outboundVars, stage, pendingOf, ctrlCh, clientVars>>
  BY DEF LoseData
<1>3. /\ Histories(n)' /\ Codes(n)' /\ Acks(n)' /\ Computed(n)' /\ Resent(n)'
      /\ Fires(n)'
  BY <1>1, <1>2, FreeFrame DEF inboundVars, outboundVars, clientVars
<1>4. Payloads(n)'
  <2>1. dataCh[m] \in Seq(Data)
    BY NodeAssumption DEF TypeInv, TypeOK
  <2>2. \/ dataCh'[m] = dataCh[m]
        \/ dataCh[m] # <<>> /\ dataCh'[m] = Tail(dataCh[m])
    <3>1. /\ dataCh[x] # <<>> /\ dataCh' = [dataCh EXCEPT ![x] = Tail(@)]
          /\ DOMAIN dataCh = Node
      BY DEF LoseData, TypeInv, TypeOK
    <3>2. QED
      BY <3>1
  <2>3. \A i \in DOMAIN dataCh'[m] : \E j \in DOMAIN dataCh[m] :
            dataCh'[m][i] = dataCh[m][j]
    <3>1. dataCh[m] # <<>> => \A i \in DOMAIN Tail(dataCh[m]) :
              i + 1 \in DOMAIN dataCh[m] /\ Tail(dataCh[m])[i] = dataCh[m][i + 1]
      BY <2>1
    <3>2. QED
      BY <2>2, <3>1
  <2>4. QED
    BY <1>1, <1>2, <2>3 DEF Payloads, FreeDirection, outboundVars, clientVars
<1>5. QED
  BY <1>3, <1>4 DEF FreeDirection

LEMMA FreeLoseCtrl ==
    ASSUME TypeInv, FreeInv, NEW x \in Node, LoseCtrl(x), NEW n \in Node
    PROVE  FreeDirection(n)'
<1> DEFINE m == Peer[n]
<1>1. FreeDirection(n) /\ PutSame(n)
  BY DEF FreeInv, LoseCtrl, PutSame, outboundVars, clientVars
<1>2. UNCHANGED <<inboundVars, outboundVars, stage, pendingOf, dataCh, clientVars>>
  BY DEF LoseCtrl
<1>3. Histories(n)' /\ Payloads(n)' /\ Computed(n)' /\ Resent(n)' /\ Fires(n)'
  BY <1>1, <1>2, FreeFrame DEF inboundVars, outboundVars, clientVars
<1>4. \A z \in Node : /\ ctrlCh[z] \in Seq(CtrlFrame)
                      /\ \/ ctrlCh'[z] = ctrlCh[z]
                         \/ ctrlCh[z] # <<>> /\ ctrlCh'[z] = Tail(ctrlCh[z])
  BY DEF LoseCtrl, TypeInv, TypeOK
<1>5. m \in Node
  BY NodeAssumption
<1>6. Codes(n)'
  <2> DEFINE q == Hovs(ctrlCh[m])
  <2>1. q \in Seq(StateCode)
    BY <1>4, <1>5, Projections
  <2>2. \/ Hovs(ctrlCh'[m]) = q
        \/ q # <<>> /\ Hovs(ctrlCh'[m]) = Tail(q)
    BY <1>4, <1>5, Projections
  <2>3. Climbs(chain[n], q, hIv[m])
    BY <1>1 DEF FreeDirection, Codes
  <2>4. Climbs(chain[n], Hovs(ctrlCh'[m]), hIv[m])
    <3> HIDE DEF q
    <3>1. QED
      BY <2>1, <2>2, <2>3, ClimbsOn
  <2>5. QED
    BY <1>1, <1>2, <2>4 DEF Codes, FreeDirection, inboundVars, outboundVars, clientVars
<1>7. Acks(n)'
  <2> DEFINE q == Hifs(ctrlCh[n])
  <2>1. q \in Seq(StateCode)
    BY <1>4, Projections
  <2>2. \/ Hifs(ctrlCh'[n]) = q
        \/ q # <<>> /\ Hifs(ctrlCh'[n]) = Tail(q)
    BY <1>4, Projections
  <2>3. Below(chain[n], q, hIf[m])
    BY <1>1 DEF FreeDirection, Acks
  <2>4. Below(chain[n], Hifs(ctrlCh'[n]), hIf[m])
    <3> HIDE DEF q
    <3>1. QED
      BY <2>1, <2>2, <2>3, BelowOn
  <2>5. QED
    BY <1>1, <1>2, <2>4
       DEF Acks, FreeDirection, Loading, inboundVars, outboundVars, clientVars
<1>8. QED
  BY <1>3, <1>6, <1>7 DEF FreeDirection

\* A new message: its code comes after all the others.
LEMMA FreePutTxData ==
    ASSUME TypeInv, NoCollisionEver, NoCollisionEver', FreeInv,
           NEW x \in Node, NEW d \in Data, PutTxData(x, d), NEW n \in Node
    PROVE  FreeDirection(n)'
<1> DEFINE m == Peer[n]
           code == Mixed(hOv[x], d)
           f == Control(code, hIf[x])
<1>1. FreeDirection(n)
  BY DEF FreeInv
<1>2. UNCHANGED <<inboundVars, stage, pendingOf, got>>
  BY DEF PutTxData
<1>3. f \in CtrlFrame /\ f.hov = code /\ f.hif = hIf[x] /\ code \in StateCode
  BY ControlType, MixAssumption DEF TypeInv, TypeOK, Control
<1>4. /\ \A z \in Node : z # Peer[x] => ctrlCh'[z] = ctrlCh[z] /\ dataCh'[z] = dataCh[z]
      /\ ctrlCh'[Peer[x]] = Sent(ctrlCh[Peer[x]], f)
      /\ dataCh'[Peer[x]] = Sent(dataCh[Peer[x]], d)
  BY NodeAssumption DEF PutTxData, TypeInv, TypeOK
<1>5. m \in Node /\ m # n /\ Peer[m] = n
  BY NodeAssumption
<1>6. Distinct(chain[n]) /\ chain[n] \in Seq(StateCode) /\ put[n] \in Seq(Data)
  BY DEF NoCollisionEver, Distinct, TypeInv, TypeOK
<1> HIDE DEF f, code
<1>7. CASE x # n
  <2>1. PutSame(n)
    BY <1>7 DEF PutTxData, PutSame, TypeInv, TypeOK
  <2>2. dataUpd'[n] = dataUpd[n]
    BY <1>7 DEF PutTxData, TypeInv, TypeOK
  <2>3. ctrlCh'[m] = ctrlCh[m] /\ dataCh'[m] = dataCh[m]
    BY <1>4, <1>5, <1>7, NodeAssumption
  <2>4. /\ Histories(n)' /\ Codes(n)' /\ Payloads(n)' /\ Computed(n)' /\ Resent(n)'
        /\ Fires(n)'
    BY <1>1, <1>2, <2>1, <2>2, <2>3, FreeFrame DEF inboundVars
  <2>5. Acks(n)'
    <3>1. CASE x = m
      <4>1. ctrlCh'[n] = Sent(ctrlCh[n], f) /\ f.hif = hIf'[m] /\ hIf'[m] = hIf[m]
        BY <1>2, <1>3, <1>4, <1>5, <3>1 DEF inboundVars
      <4>2. Before(chain[n], hIf[m], hIv[m]) /\ hIv'[m] = hIv[m]
        BY <1>1, <1>2 DEF FreeDirection, Acks, inboundVars
      <4>3. Before(chain[n], hIf[m], hIf[m])
        BY <1>6, <4>2, BeforeOrders
      <4>4. QED
        BY <1>1, <1>2, <1>3, <2>1, <4>1, <4>2, <4>3, FreeAnnounced
    <3>2. CASE x # m
      <4>1. ctrlCh'[n] = ctrlCh[n]
        BY <1>4, <1>5, <3>2, NodeAssumption
      <4>2. QED
        BY <1>1, <1>2, <2>1, <4>1, FreeFrame DEF inboundVars
    <3>3. QED
      BY <3>1, <3>2
  <2>6. QED
    BY <2>4, <2>5 DEF FreeDirection
<1>8. CASE x = n
  <2> DEFINE c == chain[n]
             p == put[n]
  <2>1. /\ put'[n] = Append(p, d)
        /\ chain'[n] = Append(c, code)
        /\ hOv'[n] = code
        /\ txData'[n] = d
        /\ dataUpd'[n].need
    BY <1>8 DEF PutTxData, TypeInv, TypeOK, U!Update, code
  <2>2. ctrlCh'[n] = ctrlCh[n] /\ ctrlCh'[m] = Sent(ctrlCh[m], f)
        /\ dataCh'[m] = Sent(dataCh[m], d)
    BY <1>4, <1>5, <1>8
  <2>3. Len(c) = Len(p) + 1
    BY <1>1 DEF FreeDirection, Histories
  <2>4. Histories(n)'
    <3> HIDE DEF c, p
    <3>1. c \in Seq(StateCode) /\ p \in Seq(Data)
      BY <1>6 DEF c, p
    <3>2. /\ Len(Append(c, code)) = Len(Append(p, d)) + 1
          /\ code = Append(c, code)[Len(Append(c, code))]
      BY <1>3, <2>3, <3>1
    <3>3. QED
      BY <2>1, <3>2 DEF Histories
  <2>5. Distinct(chain'[n]) /\ chain'[n] \in Seq(StateCode)
    BY <1>3, <1>6, <2>1 DEF NoCollisionEver, Distinct
  <2>6. \A y, z : Before(c, y, z) => Before(chain'[n], y, z)
    BY <1>3, <1>6, <2>1, BeforeAppend
  <2>7. /\ hIf'[m] = hIf[m] /\ hIv'[m] = hIv[m] /\ got'[m] = got[m]
        /\ prevState'[m] = prevState[m] /\ hasNew'[m] = hasNew[m]
        /\ rxData'[m] = rxData[m] /\ calcState'[m] = calcState[m]
        /\ (Loading(n)' <=> Loading(n)) /\ pendingOf'[n] = pendingOf[n]
    BY <1>2 DEF inboundVars, Loading
  <2>8. Codes(n)'
    <3> DEFINE q == Hovs(ctrlCh[m])
               front == hIv[m]
               new == chain'[n]
    <3>1. Climbs(c, q, front) /\ Before(c, front, hOv[n])
      BY <1>1 DEF FreeDirection, Codes
    <3>2. Climbs(new, q, front) /\ Before(new, front, front)
      <4>1. Before(c, front, front)
        BY <1>6, <3>1, BeforeOrders
      <4>2. QED
        BY <2>6, <3>1, <4>1 DEF Climbs
    <3>3. code = new[Len(new)]
      BY <2>1, <2>4 DEF Histories
    <3>4. Before(new, front, code)
      BY <2>5, <3>2, <3>3, BeforeOrders
    <3>5. \A i \in DOMAIN q : Before(new, q[i], code)
      <4> HIDE DEF q, front, new
      <4>1. new \in Seq(StateCode) /\ Distinct(new)
        BY <2>5 DEF new
      <4>2. \A i \in DOMAIN q : Before(new, q[i], q[i])
        BY <3>2, <4>1, BeforeOrders DEF Climbs
      <4>3. QED
        BY <3>3, <4>1, <4>2, BeforeOrders
    <3>6. q \in Seq(StateCode) /\ Hovs(ctrlCh'[m]) = Sent(q, code)
      BY <1>3, <1>5, <2>2, Projections DEF TypeInv, TypeOK
    <3>7. Climbs(new, Sent(q, code), front)
      <4> HIDE DEF q, front, new
      <4>1. QED
        BY <1>3, <3>2, <3>4, <3>5, <3>6, ClimbsOn
    <3>8. QED
      BY <2>1, <2>7, <3>4, <3>6, <3>7 DEF Codes
  <2>9. Acks(n)'
    BY <1>1, <2>2, <2>6, <2>7 DEF Acks, Below, FreeDirection
  <2>10. Payloads(n)'
    <3>1. /\ Among(d, Append(p, d))
          /\ \A e : Among(e, p) => Among(e, Append(p, d))
      <4>1. /\ \A i \in DOMAIN p : i \in DOMAIN Append(p, d) /\ Append(p, d)[i] = p[i]
            /\ Len(p) + 1 \in DOMAIN Append(p, d) /\ Append(p, d)[Len(p) + 1] = d
        BY <1>6
      <4>2. QED
        BY <4>1 DEF Among
    <3>2. dataCh[m] \in Seq(Data)
      BY <1>5 DEF TypeInv, TypeOK
    <3>3. \A i \in DOMAIN dataCh'[m] :
              \/ dataCh'[m][i] = d
              \/ i \in DOMAIN dataCh[m] /\ dataCh'[m][i] = dataCh[m][i]
      BY <2>2, <3>2 DEF Sent
    <3>4. QED
      BY <1>1, <2>1, <3>1, <3>3 DEF Payloads, FreeDirection
  <2>11. Computed(n)'
    <3>1. \A e : Among(e, p) => Among(e, put'[n])
      <4>1. \A i \in DOMAIN p : i \in DOMAIN Append(p, d) /\ Append(p, d)[i] = p[i]
        BY <1>6
      <4>2. QED
        BY <2>1, <4>1 DEF Among
    <3>2. \A y : From(n, y) => From(n, y)'
      BY <2>6, <2>7 DEF From
    <3>3. From(n, prevState[m]) /\ (hasNew[m] =>
              /\ Among(rxData[m], p)
              /\ \E y \in StateCode : From(n, y) /\ calcState[m] = Mixed(y, rxData[m]))
      BY <1>1 DEF FreeDirection, Computed
    <3>4. From(n, prevState[m])'
      BY <2>6, <2>7, <3>3 DEF From
    <3>5. QED
      BY <2>7, <3>1, <3>2, <3>3, <3>4 DEF Computed
  <2>12. Resent(n)'
    BY <2>1 DEF Resent
  <2>13. Fires(n)'
    <3>1. Embedded(c, p, got[m], hIf[m])
      BY <1>1 DEF FreeDirection, Fires
    <3>2. Embedded(Append(c, code), Append(p, d), got[m], hIf[m])
      BY <1>3, <1>6, <2>3, <3>1, EmbedsOn
    <3>3. QED
      BY <2>1, <2>7, <3>2 DEF Fires
  <2>14. QED
    BY <2>4, <2>8, <2>9, <2>10, <2>11, <2>12, <2>13 DEF FreeDirection
<1>9. QED
  BY <1>7, <1>8

\* CheckIntegrity of the peer accepts: what it fires is the message of the code it
\* validates, which is newer than all it has fired.
LEMMA FreeFires ==
    ASSUME TypeInv, NoCollisionEver, FreeInv, NEW n \in Node, PutSame(n),
           NEW d \in Data, Among(d, put[n]),
           NEW from, NEW code,
           Before(chain[n], hIf[Peer[n]], code), hIf[Peer[n]] # code,
           Before(chain[n], from, code), from # code,
           Mixed(from, d) = code,
           got'[Peer[n]] = Append(got[Peer[n]], d), hIf'[Peer[n]] = code
    PROVE  Fires(n)'
<1> DEFINE c == chain[n]
           p == put[n]
           g == got[Peer[n]]
           old == hIf[Peer[n]]
<1>1. c \in Seq(StateCode) /\ p \in Seq(Data) /\ g \in Seq(Data)
  BY NodeAssumption DEF TypeInv, TypeOK
<1>2. Len(c) = Len(p) + 1 /\ Embedded(c, p, g, old)
  BY DEF FreeInv, FreeDirection, Histories, Fires
<1>3. /\ Distinct(c)
      /\ \A k, j \in DOMAIN p : \A i \in 1 .. k :
             Mixed(c[i], p[j]) = c[k + 1] => p[j] = p[k]
  BY DEF NoCollisionEver, Distinct
<1>4. Among(d, p) /\ Before(c, old, code) /\ old # code /\ Before(c, from, code)
  OBVIOUS
<1>5. Embedded(c, p, Append(g, d), code)
  <2> HIDE DEF c, p, g, old
  <2>1. QED
    BY <1>1, <1>2, <1>3, <1>4, Embeds
<1>6. QED
  BY <1>5 DEF Fires, PutSame
\* What the peer fires or leaves has been put; a code it computes is mixed from one
\* it validated before.
LEMMA FreeFeedRxData ==
    ASSUME TypeInv, NoCollisionEver, FreeInv, NEW x \in Node, FeedRxData(x),
           NEW n \in Node
    PROVE  FreeDirection(n)'
<1> DEFINE m == Peer[n]
           d == Head(dataCh[x])
           calc == Mixed(prevState[x], d)
           f == Control(hOv[x], hIf'[x])
<1>1. FreeDirection(n) /\ PutSame(n)
  BY DEF FreeInv, FeedRxData, PutSame, outboundVars
<1>2. UNCHANGED <<prevState, hIv, outboundVars, stage, pendingOf, busy, put, chain>>
  BY Fed
<1>3. dataCh[x] # <<>> /\ d \in Data /\ m \in Node /\ m # n /\ Peer[m] = n
  BY Fed, NodeAssumption
<1>4. /\ rxData'[x] = d
      /\ calcState'[x] = calc
      /\ dataCh'[x] = Tail(dataCh[x])
      /\ \A z \in Node \ {x} : UNCHANGED <<rxData[z], calcState[z], dataCh[z]>>
  BY Fed
<1>5. /\ \A z \in Node \ {x} : UNCHANGED <<hIf[z], got[z], hasNew[z]>>
      /\ \A z \in Node \ {Peer[x]} : ctrlCh'[z] = ctrlCh[z]
      /\ ctrlCh'[Peer[x]] \in {ctrlCh[Peer[x]], Sent(ctrlCh[Peer[x]], f)}
      /\ \/ /\ UNCHANGED <<hIf[x], got[x]>>
            /\ hasNew'[x] = TRUE
            /\ ctrlCh'[Peer[x]] = ctrlCh[Peer[x]]
         \/ /\ hIf[x] # calc /\ hIv[x] = calc
            /\ hIf'[x] = calc
            /\ got'[x] = Append(got[x], d)
            /\ hasNew'[x] = FALSE
            /\ ctrlCh'[Peer[x]] = Sent(ctrlCh[Peer[x]], f)
  BY Fed
<1>6. f \in CtrlFrame /\ f.hov = hOv[x] /\ f.hif = hIf'[x]
  BY Fed
<1>7. Distinct(chain[n]) /\ chain[n] \in Seq(StateCode)
  BY DEF NoCollisionEver, Distinct, TypeInv, TypeOK
<1> HIDE DEF d, calc, f
<1>8. CASE x # m
  <2>1. UNCHANGED <<rxData[m], calcState[m], dataCh[m], hIf[m], got[m], hasNew[m]>>
    BY <1>3, <1>4, <1>5, <1>8
  <2>2. ctrlCh'[n] = ctrlCh[n]
    BY <1>3, <1>5, <1>8, NodeAssumption
  <2>3. /\ Histories(n)' /\ Acks(n)' /\ Payloads(n)' /\ Computed(n)' /\ Resent(n)'
        /\ Fires(n)'
    BY <1>1, <1>2, <2>1, <2>2, FreeFrame DEF outboundVars
  <2>4. Codes(n)'
    <3>1. CASE x = n
      BY <1>1, <1>2, <1>5, <1>6, <3>1, FreeAnnounced
    <3>2. CASE x # n
      <4>1. ctrlCh'[m] = ctrlCh[m]
        BY <1>3, <1>5, <3>2, NodeAssumption
      <4>2. QED
        BY <1>1, <1>2, <4>1, FreeFrame
    <3>3. QED
      BY <3>1, <3>2
  <2>5. QED
    BY <2>3, <2>4 DEF FreeDirection
<1>9. CASE x = m
  <2>1. Among(d, put[n])
    <3>1. 1 \in DOMAIN dataCh[m] /\ d = dataCh[m][1]
      BY <1>3, <1>9 DEF d, TypeInv, TypeOK
    <3>2. QED
      BY <1>1, <3>1 DEF FreeDirection, Payloads
  <2>2. Histories(n)' /\ Codes(n)'
    <3>1. ctrlCh'[m] = ctrlCh[m]
      BY <1>3, <1>5, <1>9
    <3>2. QED
      BY <1>1, <1>2, <3>1, FreeFrame
  <2>3. Payloads(n)'
    <3>1. dataCh[m] \in Seq(Data)
      BY <1>3 DEF TypeInv, TypeOK
    <3>2. \A i \in DOMAIN Tail(dataCh[m]) :
              i + 1 \in DOMAIN dataCh[m] /\ Tail(dataCh[m])[i] = dataCh[m][i + 1]
      BY <1>3, <1>9, <3>1
    <3>3. QED
      BY <1>1, <1>4, <1>9, <3>2 DEF Payloads, FreeDirection, PutSame
  <2>4. /\ Before(chain[n], hIf[m], hIv[m])
        /\ Before(chain[n], hIf[m], hIf[m]) /\ Before(chain[n], hIv[m], hIv[m])
    <3>1. Before(chain[n], hIf[m], hIv[m])
      BY <1>1 DEF FreeDirection, Acks
    <3>2. QED
      BY <1>7, <3>1, BeforeOrders
  <2>5. From(n, prevState[m]) /\ prevState[m] \in StateCode
    BY <1>1, <1>3 DEF FreeDirection, Computed, TypeInv, TypeOK
  <2>6. /\ prevState'[m] = prevState[m] /\ hIv'[m] = hIv[m]
        /\ put'[n] = put[n] /\ chain'[n] = chain[n] /\ hOv'[n] = hOv[n]
        /\ UNCHANGED <<stage[n], pendingOf[n], dataUpd[n]>>
    BY <1>2 DEF outboundVars
  <2>7. hIf'[m] = hIf[m] \/ hIf'[m] = hIv[m]
    BY <1>5, <1>9
  <2>8. Acks(n)'
    BY <1>1, <1>3, <1>5, <1>6, <1>9, <2>4, <2>6, <2>7, FreeAnnounced
  <2>9. Computed(n)'
    <3>1. \A p : From(n, p) => From(n, p)'
      BY <2>6, <2>7 DEF From
    <3>2. From(n, prevState[m])'
      BY <2>5, <2>6, <2>7 DEF From
    <3>3. calcState'[m] = Mixed(prevState[m], rxData'[m]) /\ rxData'[m] = d
      BY <1>4, <1>9 DEF calc
    <3>4. QED
      BY <2>1, <2>5, <2>6, <3>1, <3>2, <3>3 DEF Computed
  <2>10. Resent(n)'
    <3>1. ASSUME hIf[m] = hOv[n] PROVE hIv[m] = hOv[n]
      <4>1. Before(chain[n], hOv[n], hIv[m]) /\ hOv[n] = chain[n][Len(chain[n])]
        BY <1>1, <2>4, <3>1 DEF FreeDirection, Histories
      <4>2. QED
        BY <1>7, <4>1, BeforeOrders
    <3>2. QED
      BY <1>1, <2>6, <2>7, <3>1 DEF Resent, FreeDirection
  <2>11. Fires(n)'
    <3>1. CASE UNCHANGED <<hIf[m], got[m]>>
      BY <1>1, <3>1, FreeFrame
    <3>2. CASE /\ hIf[m] # calc /\ hIv[m] = calc
               /\ hIf'[m] = calc
               /\ got'[m] = Append(got[m], d)
      <4>1. /\ Before(chain[n], prevState[m], calc) /\ prevState[m] # calc
            /\ Mixed(prevState[m], d) = calc
        BY <1>9, <2>5, <3>2 DEF From, calc
      <4>2. QED
        BY <1>1, <1>3, <2>1, <2>4, <3>2, <4>1, FreeFires
    <3>3. QED
      BY <1>5, <1>9, <3>1, <3>2
  <2>12. QED
    BY <2>2, <2>3, <2>8, <2>9, <2>10, <2>11 DEF FreeDirection
<1>10. QED
  BY <1>8, <1>9

\* A control frame moves the receiver forward only, and makes it fire only the
\* message of the code it moves to.
LEMMA FreeLoadRxControlData ==
    ASSUME TypeInv, NoCollisionEver, FreeInv, NEW x \in Node, LoadRxControlData(x),
           NEW n \in Node
    PROVE  FreeDirection(n)'
<1> DEFINE m == Peer[n]
           frame == Head(ctrlCh[x])
           f == Control(hOv[x], hIf'[x])
<1>1. /\ ctrlCh[x] # <<>> /\ frame \in CtrlFrame
      /\ UNCHANGED <<calcState, rxData, outboundVars, dataCh, busy, put, chain>>
      /\ \A z \in Node \ {x} :
            UNCHANGED <<hIf[z], got[z], hasNew[z], hIv[z], prevState[z],
                        stage[z], pendingOf[z]>>
      /\ ~Loading(x) /\ Loading(x)' /\ pendingOf'[x] = frame.hif
      /\ hIv'[x] = frame.hov
      /\ prevState'[x] = IF frame.hov = hIv[x] THEN prevState[x] ELSE hIv[x]
      /\ ctrlCh'[x] = Tail(ctrlCh[x])
      /\ \A z \in Node \ {x, Peer[x]} : ctrlCh'[z] = ctrlCh[z]
  BY Loaded
<1>2. \/ /\ UNCHANGED <<hIf[x], got[x], hasNew[x]>>
         /\ ctrlCh'[Peer[x]] = ctrlCh[Peer[x]]
      \/ /\ hasNew[x] /\ hIf[x] # calcState[x]
         /\ frame.hov = calcState[x] /\ frame.hov # hIv[x]
         /\ hIf'[x] = calcState[x]
         /\ got'[x] = Append(got[x], rxData[x])
         /\ hasNew'[x] = FALSE
         /\ ctrlCh'[Peer[x]] = Sent(ctrlCh[Peer[x]], f)
  BY Loaded
<1>3. FreeDirection(n) /\ PutSame(n)
  BY <1>1 DEF FreeInv, PutSame, outboundVars
<1>4. f \in CtrlFrame /\ f.hov = hOv[x] /\ f.hif = hIf'[x]
  <2>1. hIf'[x] \in StateCode
    BY <1>2 DEF TypeInv, TypeOK
  <2>2. QED
    BY <2>1, ControlType DEF TypeInv, TypeOK, Control
<1>5. /\ m \in Node /\ m # n /\ Peer[m] = n
      /\ \A z \in Node : z # n /\ z # m => Peer[z] # n /\ Peer[z] # m
  BY NodeAssumption
<1>6. /\ Hovs(ctrlCh[x]) \in Seq(StateCode) /\ Hovs(ctrlCh[x]) # <<>>
      /\ Hifs(ctrlCh[x]) \in Seq(StateCode) /\ Hifs(ctrlCh[x]) # <<>>
      /\ Hovs(ctrlCh'[x]) = Tail(Hovs(ctrlCh[x])) /\ frame.hov = Head(Hovs(ctrlCh[x]))
      /\ Hifs(ctrlCh'[x]) = Tail(Hifs(ctrlCh[x])) /\ frame.hif = Head(Hifs(ctrlCh[x]))
  BY <1>1, Projections DEF TypeInv, TypeOK
<1>7. Distinct(chain[n]) /\ chain[n] \in Seq(StateCode)
  BY DEF NoCollisionEver, Distinct, TypeInv, TypeOK
<1> HIDE DEF frame, f
<1>8. Histories(n)' /\ Payloads(n)'
  BY <1>1, <1>3, FreeFrame
<1>9. CASE x # n /\ x # m
  <2>1. /\ UNCHANGED <<hIf[m], got[m], hasNew[m], hIv[m], prevState[m]>>
        /\ UNCHANGED <<stage[n], pendingOf[n], ctrlCh[n], ctrlCh[m]>>
    BY <1>1, <1>5, <1>9
  <2>2. QED
    BY <1>1, <1>3, <1>8, <2>1, FreeFrame DEF FreeDirection, outboundVars
<1>10. CASE x = n
  <2>1. UNCHANGED <<hIf[m], got[m], hasNew[m], hIv[m], prevState[m]>>
    BY <1>1, <1>5, <1>10
  <2>2. Computed(n)' /\ Resent(n)' /\ Fires(n)'
    BY <1>1, <1>3, <2>1, FreeFrame DEF outboundVars
  <2>3. Codes(n)'
    BY <1>2, <1>3, <1>4, <1>10, <2>1, FreeAnnounced
  <2>4. Acks(n)'
    <3> DEFINE q == Hifs(ctrlCh[n])
               c == chain[n]
    <3>1. /\ q \in Seq(StateCode) /\ q # <<>>
          /\ Hifs(ctrlCh'[n]) = Tail(q)
          /\ pendingOf'[n] = Head(q)
      BY <1>1, <1>6, <1>10
    <3>2. Below(c, q, hIf[m])
      BY <1>3 DEF FreeDirection, Acks
    <3>3. Below(c, Tail(q), hIf[m]) /\ Before(c, Head(q), hIf[m])
      <4> HIDE DEF q
      <4>1. QED
        BY <3>1, <3>2, BelowOn
    <3>4. QED
      BY <1>3, <2>1, <3>1, <3>3 DEF Acks, FreeDirection, PutSame
  <2>5. QED
    BY <1>8, <2>2, <2>3, <2>4 DEF FreeDirection
<1>11. CASE x = m
  <2> DEFINE c == chain[n]
             v == frame.hov
  <2>1. /\ UNCHANGED <<stage[n], pendingOf[n], dataUpd[n], hOv[n], put[n], chain[n]>>
        /\ rxData'[m] = rxData[m] /\ calcState'[m] = calcState[m] /\ hIv'[m] = v
    BY <1>1, <1>5, <1>11 DEF outboundVars
  <2>2. /\ Climbs(c, Hovs(ctrlCh'[m]), v)
        /\ Before(c, hIv[m], v)
    <3> DEFINE q == Hovs(ctrlCh[m])
    <3>1. /\ q \in Seq(StateCode) /\ q # <<>>
          /\ Hovs(ctrlCh'[m]) = Tail(q)
          /\ v = Head(q)
      BY <1>6, <1>11
    <3>2. Climbs(c, q, hIv[m])
      BY <1>3 DEF FreeDirection, Codes
    <3> HIDE DEF q, c, v
    <3>3. QED
      BY <3>1, <3>2, ClimbsOn
  <2>3. /\ Before(c, hIf[m], hIv[m])
        /\ From(n, prevState[m])
        /\ hasNew[m] => /\ Among(rxData[m], put[n])
                        /\ \E p \in StateCode : /\ From(n, p)
                                                /\ calcState[m] = Mixed(p, rxData[m])
        /\ hOv[n] = c[Len(c)]
    BY <1>3 DEF FreeDirection, Acks, Computed, Histories
  <2>4. /\ Before(c, v, v) /\ Before(c, v, hOv[n])
        /\ Before(c, hIf[m], v) /\ Before(c, hIf[m], hIf[m])
        /\ hIf[m] = hOv[n] => v = hOv[n]
    <3>1. c \in Seq(StateCode) /\ Distinct(c)
      BY <1>7
    <3> HIDE DEF c, v
    <3>2. Before(c, v, v) /\ Before(c, hIf[m], hIf[m])
      BY <2>2, <2>3, <3>1, BeforeOrders
    <3>3. Before(c, v, hOv[n]) /\ Before(c, hIf[m], v)
      BY <2>2, <2>3, <3>1, <3>2, BeforeOrders
    <3>4. hIf[m] = hOv[n] => v = hOv[n]
      BY <2>3, <3>1, <3>3, BeforeOrders
    <3>5. QED
      BY <3>2, <3>3, <3>4
  <2>5. Codes(n)'
    BY <2>1, <2>2, <2>4 DEF Codes
  <2>6. hIf'[m] = hIf[m] \/ (hIf'[m] = v /\ v # hIv[m])
    BY <1>2, <1>11
  <2>7. Acks(n)'
    <3>1. ctrlCh'[n] \in {ctrlCh[n], Sent(ctrlCh[n], f)}
      BY <1>2, <1>5, <1>11
    <3>2. Before(c, hIf[m], hIf'[m]) /\ Before(c, hIf'[m], hIv'[m])
      BY <2>1, <2>4, <2>6
    <3>3. QED
      BY <1>3, <1>4, <1>11, <2>1, <3>1, <3>2, FreeAnnounced
  <2>8. ASSUME NEW p, From(n, p), v # hIv[m]
        PROVE  Before(c, p, v) /\ p # v
    <3>1. Before(c, p, hIv[m])
      BY <2>8 DEF From
    <3>2. c \in Seq(StateCode) /\ Distinct(c)
      BY <1>7
    <3> HIDE DEF c, v
    <3>3. QED
      BY <2>2, <2>8, <3>1, <3>2, BeforeOrders
  <2>9. CASE v = hIv[m]
    <3>1. UNCHANGED <<hIf[m], got[m], hasNew[m], prevState[m], hIv[m]>>
      BY <1>1, <1>2, <1>11, <2>1, <2>9
    <3>2. QED
      BY <1>1, <1>3, <1>8, <2>1, <2>5, <2>7, <3>1, FreeFrame DEF FreeDirection
  <2>10. CASE v # hIv[m]
    <3>1. prevState'[m] = hIv[m]
      BY <1>1, <1>11, <2>10
    <3>2. \A p : From(n, p) => From(n, p)'
      BY <2>1, <2>8, <2>10 DEF From
    <3>3. From(n, prevState[m])'
      BY <2>1, <2>2, <2>10, <3>1 DEF From
    <3>4. CASE UNCHANGED <<hIf[m], got[m], hasNew[m]>>
      <4>1. Computed(n)'
        BY <2>1, <2>3, <3>2, <3>3, <3>4 DEF Computed
      <4>2. Resent(n)' /\ Fires(n)'
        BY <1>3, <2>1, <3>4, FreeFrame
      <4>3. QED
        BY <1>8, <2>5, <2>7, <4>1, <4>2 DEF FreeDirection
    <3>5. CASE /\ hasNew[m] /\ hIf[m] # calcState[m]
               /\ v = calcState[m]
               /\ hIf'[m] = calcState[m]
               /\ got'[m] = Append(got[m], rxData[m])
               /\ hasNew'[m] = FALSE
      <4>1. Computed(n)'
        BY <3>3, <3>5 DEF Computed
      <4>2. Resent(n)'
        BY <1>3, <2>1, <2>4, <3>5 DEF Resent, FreeDirection
      <4>3. Fires(n)'
        <5>1. PICK p \in StateCode : From(n, p) /\ calcState[m] = Mixed(p, rxData[m])
          BY <2>3, <3>5
        <5>2. rxData[m] \in Data
          BY <1>5, <3>5 DEF TypeInv, HasData
        <5>3. Before(c, p, v) /\ p # v
          BY <2>8, <2>10, <5>1
        <5>4. QED
          BY <1>3, <2>3, <2>4, <3>5, <5>1, <5>2, <5>3, FreeFires
      <4>4. QED
        BY <1>8, <2>5, <2>7, <4>1, <4>2, <4>3 DEF FreeDirection
    <3>6. QED
      BY <1>2, <1>11, <3>4, <3>5
  <2>11. QED
    BY <2>9, <2>10
<1>12. QED
  BY <1>9, <1>10, <1>11

LEMMA FreeStep ==
    TypeInv /\ FreeInv /\ NoCollisionEver /\ NoCollisionEver' /\ [Next]_vars => FreeInv'
<1> SUFFICES ASSUME TypeInv, FreeInv, NoCollisionEver, NoCollisionEver', [Next]_vars,
                    NEW n \in Node
             PROVE  FreeDirection(n)'
  BY DEF FreeInv
<1>1. CASE UNCHANGED vars
  <2>1. FreeDirection(n) /\ PutSame(n)
    BY <1>1 DEF FreeInv, PutSame, vars, outboundVars, clientVars
  <2>2. QED
    BY <1>1, <2>1, FreeFrame
       DEF vars, inboundVars, outboundVars, clientVars, FreeDirection
<1>2. CASE Next
  <2>1. ASSUME NEW x \in Node, NEW d \in Data, PutTxData(x, d) PROVE FreeDirection(n)'
    BY <2>1, FreePutTxData
  <2>2. ASSUME NEW x \in Node, FeedRxData(x) PROVE FreeDirection(n)'
    BY <2>2, FreeFeedRxData
  <2>3. ASSUME NEW x \in Node, LoadRxControlData(x) PROVE FreeDirection(n)'
    BY <2>3, FreeLoadRxControlData
  <2>4. ASSUME NEW x \in Node, SetStateFeedback(x) PROVE FreeDirection(n)'
    BY <2>4, FreeSetStateFeedback
  <2>5. ASSUME NEW x \in Node, TxOkReturns(x) PROVE FreeDirection(n)'
    BY <2>5, FreeTxOkReturns
  <2>6. ASSUME NEW x \in Node, Tick(x) PROVE FreeDirection(n)'
    BY <2>6, FreeTick
  <2>7. ASSUME NEW x \in Node, LoseData(x) PROVE FreeDirection(n)'
    BY <2>7, FreeLoseData
  <2>8. ASSUME NEW x \in Node, LoseCtrl(x) PROVE FreeDirection(n)'
    BY <2>8, FreeLoseCtrl
  <2>9. QED
    BY <1>2, <2>1, <2>2, <2>3, <2>4, <2>5, <2>6, <2>7, <2>8 DEF Next, Handler
<1>3. QED
  BY <1>1, <1>2
-----------------------------------------------------------------------------
\* Whatever the client does, each end moves through the codes of the other in the
\* order they were taken, and fires messages in the order of their codes.
THEOREM FreeInvCorrect == Spec /\ []NoCollisionEver => []FreeInv
BY TypeInit, TypeStep, FreeInit, FreeStep, PTL DEF Spec

\* A client that overwrites what is not confirmed loses messages at most: the other
\* end fires a subsequence of what was put.
THEOREM OnlyPutFires == Spec /\ []NoCollisionEver => []OnlyWhatWasPut
<1>1. FreeInv => OnlyWhatWasPut
  BY DEF FreeInv, FreeDirection, Fires, Embedded, OnlyWhatWasPut, IsSubsequence
<1>2. QED
  BY <1>1, FreeInvCorrect, PTL

\* For that client too, the last message is retransmitted until it is taken.
THEOREM AlwaysRetransmits == Spec /\ []NoCollisionEver => []RetransmitsUntilTaken
<1>1. FreeInv => RetransmitsUntilTaken
  BY DEF FreeInv, FreeDirection, Resent, RetransmitsUntilTaken
<1>2. QED
  BY <1>1, FreeInvCorrect, PTL
===============================================================================
