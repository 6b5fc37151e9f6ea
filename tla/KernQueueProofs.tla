-------------------------- MODULE KernQueueProofs --------------------------
(*************************************************************************)
(* KernQueue's properties for any elements, any heads of the three kinds *)
(* and any operations on them: heads that come and go, circles, each     *)
(* operation, the stores of queue_enter, the safe iterations.            *)
(*************************************************************************)
EXTENDS KernQueueRings

USE ZenonT(8), SMTT(12)

----------------------------------------------------------------------------
\* Heads brought into use, out of use, and moved.

LEMMA GoodDrop ==
  ASSUME NEW m, NEW c, NEW R, Good(m, c, R), NEW q \in Heads, c[q] = <<>>
  PROVE  Good(m, c, R \ {q})
BY DEF Good

LEMMA SameContent ==
  ASSUME NEW c \in [Heads -> Seq(Elements)], NEW q \in Heads
  PROVE  [c EXCEPT ![q] = c[q]] = c
OBVIOUS

LEMMA GoodInit ==
  ASSUME NEW m, NEW c, NEW R, Good(m, c, R), NEW q \in Queues, c[q] = <<>>
  PROVE  Good(InitQueue(m, q), c, R \cup {q})
<1> DEFINE k == InitQueue(m, q)
<1>1. q \in Heads /\ q \in Nodes BY Kinds DEF Heads
<1>2. m \in Memory /\ Own(c, q, c[q]) /\ c \in [Heads -> Seq(Elements)] BY <1>1, GoodAt
<1>3. k \in Memory /\ k.next = [m.next EXCEPT ![q] = q] /\ k.prev = [m.prev EXCEPT ![q] = q]
  <2>1. k = m ++ Next_(q, q) ++ Prev_(q, q) BY DEF InitQueue
  <2> HIDE DEF k
  <2> QED BY <1>1, <1>2, <2>1, TwoStores
<1> HIDE DEF k
<1>4. k.next[q] = q /\ k.prev[q] = q BY <1>1, <1>2, <1>3, Read
<1>5. Len(c[q]) = 0 /\ c[q] \in Seq(Elements) BY <1>1, <1>2
<1>6. Linked(k, q, c[q])
  <2>1. \A i \in 0 .. Len(c[q]) : /\ k.next[At(q, c[q], i)] = At(q, c[q], i + 1)
                                  /\ k.prev[At(q, c[q], i + 1)] = At(q, c[q], i)
    BY <1>4, <1>5 DEF At
  <2> QED BY <1>5, <2>1, QueueLinks
<1>7. \A n \in Nodes : (k.next[n] # m.next[n] \/ k.prev[n] # m.prev[n]) => Mine(q, c[q], n) \/ Mine(q, c[q], n)
  BY <1>2, <1>3, Read DEF Mine
<1>8. Good(k, [c EXCEPT ![q] = c[q]], R \cup {q}) BY <1>1, <1>2, <1>3, <1>6, <1>7, ChangedOne
<1> QED BY <1>1, <1>2, <1>8, SameContent DEF k

LEMMA GoodCircleInit ==
  ASSUME NEW m, NEW c, NEW R, Good(m, c, R), NEW q \in Circles, c[q] = <<>>
  PROVE  Good(m ++ Next_(q, Null), c, R \cup {q})
<1> DEFINE k == m ++ Next_(q, Null)
<1>1. q \in Heads /\ q \in Nodes BY Kinds DEF Heads
<1>2. m \in Memory /\ Own(c, q, c[q]) /\ c \in [Heads -> Seq(Elements)] BY <1>1, GoodAt
<1>3. k \in Memory /\ k.next = [m.next EXCEPT ![q] = Null] /\ k.prev = m.prev BY <1>1, <1>2, PutNext
<1> HIDE DEF k
<1>5. Len(c[q]) = 0 /\ c[q] \in Seq(Elements) BY <1>1, <1>2
<1>6. Linked(k, q, c[q])
  <2>1. Ring(k, c[q]) BY <1>5 DEF Ring, Forward, Backward
  <2>2. k.next[q] = Null BY <1>1, <1>2, <1>3, Read
  <2> QED BY <1>5, <2>1, <2>2, RingOfCircle
<1>7. \A n \in Nodes : (k.next[n] # m.next[n] \/ k.prev[n] # m.prev[n]) => Mine(q, c[q], n) \/ Mine(q, c[q], n)
  BY <1>2, <1>3, Read DEF Mine
<1>8. Good(k, [c EXCEPT ![q] = c[q]], R \cup {q}) BY <1>1, <1>2, <1>3, <1>6, <1>7, ChangedOne
<1> QED BY <1>1, <1>2, <1>8, SameContent DEF k

\* The links k are those of m with new in the place of old.
Moved(m, k, old, new) ==
  /\ k \in Memory /\ k.next[new] = m.next[old] /\ k.prev[new] = m.prev[old]
  /\ k.next[m.prev[old]] = new /\ k.prev[m.next[old]] = new
  /\ \A n \in Nodes : /\ n # new /\ n # m.prev[old] => k.next[n] = m.next[n]
                      /\ n # new /\ n # m.next[old] => k.prev[n] = m.prev[n]

LEMMA LinkedMoved ==
  ASSUME NEW m, NEW k, NEW old \in Queues, NEW new \in Queues, NEW s \in Seq(Elements), Len(s) # 0,
         Apart(s), Linked(m, old, s), Moved(m, k, old, new)
  PROVE  Linked(k, new, s) /\ m.next[old] = s[1] /\ m.prev[old] = s[Len(s)]
<1> DEFINE n == Len(s)
<1>1. /\ n \in Nat /\ n # 0 /\ new \in Nodes /\ old \in Nodes
      /\ \A i \in 1 .. n : s[i] \in Nodes /\ s[i] # new
      /\ \A i, j \in 1 .. n : s[i] = s[j] => i = j
  BY Lengths, Kinds DEF Apart
<1>2. \A i \in 0 .. n : m.next[At(old, s, i)] = At(old, s, i + 1) /\ m.prev[At(old, s, i + 1)] = At(old, s, i)
  BY QueueLinks, Zenon
<1>3. m.next[old] = s[1] /\ m.prev[old] = s[n] BY <1>1, <1>2 DEF At
<1>4. ASSUME NEW i \in 1 .. n - 1 PROVE m.next[s[i]] = s[i + 1] /\ m.prev[s[i + 1]] = s[i]
  <2>1. i \in 0 .. n /\ i \in 1 .. n /\ i + 1 \in 1 .. n BY <1>1
  <2> QED BY <1>2, <2>1 DEF At
<1>5. k.next[new] = s[1] /\ k.prev[s[1]] = new /\ k.next[s[n]] = new /\ k.prev[new] = s[n] BY <1>3 DEF Moved
<1>6. ASSUME NEW i \in 1 .. n - 1 PROVE k.next[s[i]] = s[i + 1] /\ k.prev[s[i + 1]] = s[i]
  <2>1. /\ s[i] \in Nodes /\ s[i] # new /\ s[i] # s[n]
        /\ s[i + 1] \in Nodes /\ s[i + 1] # new /\ s[i + 1] # s[1]
    <3>1. i \in 1 .. n /\ i + 1 \in 1 .. n /\ i # n /\ i + 1 # 1 /\ n \in 1 .. n /\ 1 \in 1 .. n BY <1>1
    <3> QED BY <1>1, <3>1
  <2> QED BY <1>3, <1>4, <2>1 DEF Moved
<1>7. ASSUME NEW i \in 0 .. n
      PROVE  k.next[At(new, s, i)] = At(new, s, i + 1) /\ k.prev[At(new, s, i + 1)] = At(new, s, i)
  <2>1. CASE i = 0 BY <1>1, <1>5, <2>1 DEF At
  <2>2. CASE i = n BY <1>1, <1>5, <2>2 DEF At
  <2>3. CASE i # 0 /\ i # n
    <3>1. i \in 1 .. n - 1 /\ i \in 1 .. n /\ i + 1 \in 1 .. n BY <1>1, <2>3
    <3> QED BY <1>6, <3>1 DEF At
  <2> QED BY <2>1, <2>2, <2>3
<1> QED BY <1>3, <1>7, QueueLinks

LEMMA GoodMoved ==
  ASSUME NEW m, NEW c, NEW R, Good(m, c, R), NEW old \in R, old \in Queues, NEW new \in Queues, old # new,
         Len(c[old]) # 0, c[new] = <<>>, NEW k, Moved(m, k, old, new)
  PROVE  Good(k, [c EXCEPT ![new] = c[old], ![old] = <<>>], (R \ {old}) \cup {new})
<1> DEFINE s == c[old]
           d == [c EXCEPT ![new] = s, ![old] = <<>>]
           b == [c EXCEPT ![old] = <<>>]
           S == (R \ {old}) \cup {new}
           Q == {old, new}
<1>1. old \in Heads /\ new \in Heads BY DEF Heads
<1>2. /\ s \in Seq(Elements) /\ Apart(s) /\ Own(c, old, s) /\ Len(s) \in Nat /\ Linked(m, old, s)
      /\ c \in [Heads -> Seq(Elements)] /\ Spread(c) /\ R \subseteq Heads
  BY <1>1, GoodAt
<1>3. Linked(k, new, s) /\ m.next[old] = s[1] /\ m.prev[old] = s[Len(s)] BY <1>2, LinkedMoved
<1>4. /\ d \in [Heads -> Seq(Elements)] /\ d[new] = s /\ d[old] = <<>>
      /\ \A r \in Heads : r # old /\ r # new => d[r] = c[r]
  BY <1>1, <1>2
<1>5. Spread(d)
  <2>1. Own(c, old, <<>>) BY DEF Own, Apart
  <2>2. b \in [Heads -> Seq(Elements)] /\ Spread(b) BY <1>1, <1>2, <2>1, SpreadChange
  <2>3. Own(b, new, s)
    <3>1. b[old] = <<>> /\ \A r \in Heads : r # old => b[r] = c[r] BY <1>1, <1>2
    <3>2. \A e : Off(e, <<>>) BY DEF Off
    <3>3. \A r \in Heads : r # old => \A i \in 1 .. Len(s) : Off(s[i], c[r]) BY <1>2 DEF Own
    <3> HIDE DEF b, s
    <3>4. \A r \in Heads : \A i \in 1 .. Len(s) : Off(s[i], b[r]) BY <3>1, <3>2, <3>3
    <3> QED BY <1>2, <3>4 DEF Own
  <2>4. Spread([b EXCEPT ![new] = s]) BY <1>1, <2>2, <2>3, SpreadChange
  <2>5. [b EXCEPT ![new] = s] = d BY <1>1, <1>2
  <2> QED BY <2>4, <2>5
<1> HIDE DEF d
<1>6. S \in SUBSET Heads /\ Q \in SUBSET Heads /\ k \in Memory BY <1>1, <1>2 DEF Moved
<1>7. Settles(k, c, d, R, S, Q) BY <1>3, <1>4 DEF Settles
<1>8. Touches(m, k, c, d, Q)
  <2>1. Mine(old, s, s[1]) /\ Mine(old, s, s[Len(s)]) /\ Mine(new, d[new], new) BY <1>2 DEF Mine, Off
  <2>2. ASSUME NEW n \in Nodes, k.next[n] # m.next[n] \/ k.prev[n] # m.prev[n]
        PROVE  n = new \/ n = s[1] \/ n = s[Len(s)]
    BY <1>3, <2>2 DEF Moved
  <2> QED BY <2>1, <2>2 DEF Touches
<1> HIDE DEF S, Q
<1>9. Good(k, d, S) BY <1>4, <1>5, <1>6, <1>7, <1>8, Changed, Zenon
<1> QED BY <1>9 DEF d, S

LEMMA MovedBy ==
  ASSUME NEW m, NEW c, NEW R, Good(m, c, R), NEW old \in R, old \in Queues, NEW new \in Queues, old # new,
         Len(c[old]) # 0
  PROVE  LET n == m.next[old]  p == m.prev[old] IN
         /\ Moved(m, NewHead(m, old, new), old, new)
         /\ Moved(m, m ++ Next_(p, new) ++ Prev_(n, new) ++ Next_(new, n) ++ Prev_(new, p), old, new)
<1> DEFINE n == m.next[old]
           p == m.prev[old]
           l == m ++ Next_(p, new) ++ Prev_(n, new) ++ Next_(new, n) ++ Prev_(new, p)
<1>1. old \in Heads /\ new \in Heads /\ new \in Nodes /\ old \in Nodes BY Kinds DEF Heads
<1>2. /\ m \in Memory /\ Len(c[old]) \in Nat /\ Linked(m, old, c[old]) /\ c[old] \in Seq(Elements)
      /\ \A i \in 1 .. Len(c[old]) : c[old][i] \in Elements
  BY <1>1, GoodAt
<1>3. n \in Elements /\ p \in Elements
  <2>1. \A i \in 0 .. Len(c[old]) : /\ m.next[At(old, c[old], i)] = At(old, c[old], i + 1)
                                    /\ m.prev[At(old, c[old], i + 1)] = At(old, c[old], i)
    BY <1>2, QueueLinks, Zenon
  <2>2. 0 \in 0 .. Len(c[old]) /\ Len(c[old]) \in 0 .. Len(c[old]) BY <1>2
  <2>3. n = At(old, c[old], 1) BY <1>2, <2>1, <2>2 DEF At
  <2>4. p = At(old, c[old], Len(c[old])) BY <1>2, <2>1, <2>2 DEF At
  <2> QED BY <1>2, <2>3, <2>4 DEF At
<1>4. n \in Nodes /\ p \in Nodes /\ n # new /\ p # new BY <1>1, <1>3, Kinds
<1> HIDE DEF n, p, l
<1>5. n \in Nodes \cup {Null} /\ p \in Nodes \cup {Null} /\ new \in Nodes \cup {Null} BY <1>1, <1>4
<1>6. NewHead(m, old, new) = m ++ Next_(new, n) ++ Prev_(new, p) ++ Prev_(n, new) ++ Next_(p, new)
  BY DEF NewHead, n, p
<1>7. Stored(m, NewHead(m, old, new), new, n, p, new, new, p, n, new)
  <2>1. Stored(m, m ++ Next_(new, n) ++ Prev_(new, p) ++ Prev_(n, new) ++ Next_(p, new), new, n, p, new, new, p, n, new)
    BY <1>1, <1>2, <1>4, <1>5, FourStores
  <2> QED BY <1>6, <2>1, Zenon
<1>8. Stored(m, l, p, new, new, n, n, new, new, p) BY <1>1, <1>2, <1>4, <1>5, FourStores DEF l
<1>9. ASSUME NEW k, Stored(m, k, new, n, p, new, new, p, n, new) \/ Stored(m, k, p, new, new, n, n, new, new, p)
      PROVE  Moved(m, k, old, new)
  BY <1>1, <1>2, <1>4, <1>9, Read, ZenonT(20) DEF Stored, Moved, n, p
<1>10. Moved(m, NewHead(m, old, new), old, new) /\ Moved(m, l, old, new) BY <1>7, <1>8, <1>9
<1> QED BY <1>10 DEF n, p, l

----------------------------------------------------------------------------
\* The operations of circles.

LEMMA CircleIs ==
  ASSUME NEW m, NEW c, NEW R, Good(m, c, R), NEW q \in R, q \in Circles
  PROVE  LET s == c[q]  n == Len(s) IN
         /\ m \in Memory /\ q \in Heads /\ q \in Nodes /\ c \in [Heads -> Seq(Elements)]
         /\ s \in Seq(Elements) /\ Apart(s) /\ Own(c, q, s) /\ n \in Nat /\ Linked(m, q, s) /\ Ring(m, s)
         /\ \A i \in 1 .. n : s[i] \in Elements /\ s[i] \in Nodes /\ s[i] # q /\ s[i] # Null
         /\ n = 0 => CircleFirst(m, q) = Null /\ CircleLast(m, q) = Null
         /\ n # 0 => CircleFirst(m, q) = s[1] /\ CircleLast(m, q) = s[n]
<1> DEFINE s == c[q]
           n == Len(s)
<1>1. q \in Heads /\ q \in Nodes BY Kinds DEF Heads
<1>2. /\ m \in Memory /\ s \in Seq(Elements) /\ Apart(s) /\ Own(c, q, s) /\ n \in Nat /\ Linked(m, q, s)
      /\ c \in [Heads -> Seq(Elements)]
      /\ \A i \in 1 .. n : s[i] \in Elements
  BY <1>1, GoodAt
<1>3. Ring(m, s) /\ m.next[q] = IF n = 0 THEN Null ELSE s[1] BY <1>2, RingOfCircle
<1>4. \A i \in 1 .. n : s[i] \in Elements /\ s[i] \in Nodes /\ s[i] # q /\ s[i] # Null BY <1>1, <1>2, Kinds
<1>5. n = 0 => CircleFirst(m, q) = Null /\ CircleLast(m, q) = Null BY <1>3 DEF CircleFirst, CircleLast
<1>6. ASSUME n # 0 PROVE CircleFirst(m, q) = s[1] /\ CircleLast(m, q) = s[n]
  <2>1. n > 0 /\ s[1] # Null BY <1>2, <1>4, <1>6
  <2>2. m.prev[s[1]] = s[n] BY <1>2, <2>1, CircleTurnedBackward
  <2> QED BY <1>3, <1>6, <2>1, <2>2 DEF CircleFirst, CircleLast
<1> QED BY <1>1, <1>2, <1>3, <1>4, <1>5, <1>6

LEMMA GoodCircleTail ==
  ASSUME NEW m, NEW c, NEW R, Good(m, c, R), NEW q \in R, q \in Circles, NEW e \in Elements, Free(c, e)
  PROVE  Good(CircleEnqueueTail(m, q, e), [c EXCEPT ![q] = Insert(c[q], Len(c[q]) + 1, e)], R)
<1> DEFINE s == c[q]
           n == Len(s)
           t == Insert(s, n + 1, e)
           k == CircleEnqueueTail(m, q, e)
<1>1. /\ m \in Memory /\ q \in Heads /\ q \in Nodes /\ s \in Seq(Elements) /\ Apart(s) /\ Own(c, q, s)
      /\ n \in Nat /\ Linked(m, q, s)
      /\ \A i \in 1 .. n : s[i] \in Elements /\ s[i] \in Nodes /\ s[i] # q /\ s[i] # Null
      /\ n = 0 => CircleFirst(m, q) = Null /\ CircleLast(m, q) = Null
      /\ n # 0 => CircleFirst(m, q) = s[1] /\ CircleLast(m, q) = s[n]
  BY CircleIs
<1>2. e \in Nodes /\ e # q /\ Off(e, s) BY <1>1, Kinds DEF Free
<1>3. n + 1 \in 1 .. Len(c[q]) + 1 BY <1>1
<1>4. Own(c, q, t) /\ ~Off(e, t) BY <1>1, <1>3, OwnInsert
<1> HIDE DEF t
<1>5. ASSUME n = 0
      PROVE  /\ k \in Memory /\ Linked(k, q, t)
             /\ \A i \in Nodes : (k.next[i] # m.next[i] \/ k.prev[i] # m.prev[i]) => Mine(q, s, i) \/ Mine(q, t, i)
  <2> DEFINE g == m ++ Prev_(e, e) ++ Next_(e, e)
  <2>1. k = g ++ Next_(q, e) BY <1>1, <1>5 DEF CircleEnqueueTail
  <2>2. g \in Memory /\ g.next = [m.next EXCEPT ![e] = e] /\ g.prev = [m.prev EXCEPT ![e] = e]
    BY <1>1, <1>2, TwoStores
  <2> HIDE DEF k, g
  <2>3. k \in Memory /\ k.prev = g.prev /\ k.next = [g.next EXCEPT ![q] = e] BY <1>1, <1>2, <2>1, <2>2, PutNext
  <2>4. k.next[q] = e /\ k.next[e] = e /\ k.prev[e] = e BY <1>1, <1>2, <2>2, <2>3, Read
  <2>5. Linked(k, q, t) BY <1>1, <1>5, <2>4, CircleAlone DEF t
  <2>6. \A i \in Nodes : (k.next[i] # m.next[i] \/ k.prev[i] # m.prev[i]) => i = q \/ i = e
    BY <1>1, <1>2, <2>2, <2>3, Read
  <2> QED BY <1>4, <2>3, <2>5, <2>6 DEF Mine
<1>6. ASSUME n # 0
      PROVE  /\ k \in Memory /\ Linked(k, q, t)
             /\ \A i \in Nodes : (k.next[i] # m.next[i] \/ k.prev[i] # m.prev[i]) => Mine(q, s, i) \/ Mine(q, t, i)
  <2> DEFINE x == s[n]
             y == s[1]
  <2>1. 1 \in 1 .. n /\ n \in 1 .. n /\ n > 0 BY <1>1, <1>6
  <2>2. x \in Nodes /\ y \in Nodes /\ y # Null /\ e # x /\ e # y BY <1>1, <1>2, <2>1 DEF Off
  <2>3. k = m ++ Next_(e, y) ++ Prev_(e, x) ++ Next_(x, e) ++ Prev_(y, e)
    BY <1>1, <1>6, <2>2 DEF CircleEnqueueTail
  <2>4. Mine(q, s, x) /\ Mine(q, s, y) BY <2>1 DEF Mine, Off
  <2> HIDE DEF k, x, y
  <2>5. x \in Nodes \cup {Null} /\ y \in Nodes \cup {Null} /\ e \in Nodes \cup {Null} BY <1>2, <2>2
  <2>6. Stored(m, k, e, y, x, e, e, x, y, e) BY <1>1, <1>2, <2>2, <2>3, <2>5, FourStores
  <2>7. Between(m, k, x, e, y) BY <1>1, <1>2, <2>2, <2>6, StoredBetween
  <2>8. Linked(k, q, t) BY <1>1, <1>2, <2>1, <2>7, CircleAppend DEF x, y, t
  <2> QED BY <1>4, <2>4, <2>7, <2>8 DEF Between, Mine
<1>7. R = R \cup {q} OBVIOUS
<1> HIDE DEF k
<1>8. Good(k, [c EXCEPT ![q] = t], R) BY <1>1, <1>4, <1>5, <1>6, <1>7, ChangedOne
<1> QED BY <1>8 DEF k, t

\* To the head: as a tail, which the head then leads to.
LEMMA GoodCircleHead ==
  ASSUME NEW m, NEW c, NEW R, Good(m, c, R), NEW q \in R, q \in Circles, NEW e \in Elements, Free(c, e)
  PROVE  Good(CircleEnqueueTail(m, q, e) ++ Next_(q, e), [c EXCEPT ![q] = Insert(c[q], 1, e)], R)
<1> DEFINE s == c[q]
           n == Len(s)
           d == [c EXCEPT ![q] = Insert(s, n + 1, e)]
           v == Insert(s, 1, e)
           k == CircleEnqueueTail(m, q, e)
           l == k ++ Next_(q, e)
<1>1. /\ q \in Heads /\ q \in Nodes /\ s \in Seq(Elements) /\ Own(c, q, s) /\ n \in Nat /\ e \in Nodes
      /\ c \in [Heads -> Seq(Elements)]
  BY CircleIs, Kinds
<1>2. Good(k, d, R) BY GoodCircleTail
<1>3. 1 \in 1 .. Len(c[q]) + 1 /\ n + 1 \in 1 .. Len(c[q]) + 1 BY <1>1
<1>4. Own(c, q, v) /\ Own(c, q, Insert(s, n + 1, e)) BY <1>1, <1>3, OwnInsert
<1>5. d[q] = Insert(s, n + 1, e) /\ \A r \in Heads : r # q => d[r] = c[r] BY <1>1
<1>6. [d EXCEPT ![q] = v] = [c EXCEPT ![q] = v] BY <1>1
<1> HIDE DEF d, k, v
<1>7. Own(d, q, v) BY <1>4, <1>5 DEF Own
<1>8. k \in Memory /\ Linked(k, q, d[q]) BY <1>1, <1>2, GoodAt
<1>9. Linked(l, q, v) BY <1>1, <1>5, <1>8, CirclePrepend DEF v
<1>10. l \in Memory /\ l.prev = k.prev /\ l.next = [k.next EXCEPT ![q] = e] BY <1>1, <1>8, PutNext
<1> HIDE DEF l
<1>11. \A i \in Nodes : (l.next[i] # k.next[i] \/ l.prev[i] # k.prev[i]) => Mine(q, d[q], i) \/ Mine(q, v, i)
  BY <1>8, <1>10, Read DEF Mine
<1>12. R = R \cup {q} OBVIOUS
<1>13. Good(l, [d EXCEPT ![q] = v], R) BY <1>1, <1>2, <1>7, <1>9, <1>10, <1>11, <1>12, ChangedOne
<1> QED BY <1>6, <1>13 DEF k, l, v

LEMMA GoodCircleDelete ==
  ASSUME NEW m, NEW c, NEW R, Good(m, c, R), NEW q \in R, q \in Circles, NEW i \in 1 .. Len(c[q])
  PROVE  Good(CircleDequeue(m, q, c[q][i]), Removed(c, q, i), R) /\ Free(Removed(c, q, i), c[q][i])
<1> DEFINE s == c[q]
           n == Len(s)
           e == s[i]
           t == Delete(s, i)
           k == CircleDequeue(m, q, e)
           y == s[Up(i, n)]
<1>1. /\ m \in Memory /\ q \in Heads /\ q \in Nodes /\ s \in Seq(Elements) /\ Apart(s) /\ Own(c, q, s)
      /\ n \in Nat /\ Linked(m, q, s) /\ Ring(m, s) /\ c \in [Heads -> Seq(Elements)]
      /\ \A h \in 1 .. n : s[h] \in Elements /\ s[h] \in Nodes /\ s[h] # q /\ s[h] # Null
      /\ n # 0 => CircleFirst(m, q) = s[1] /\ CircleLast(m, q) = s[n]
  BY CircleIs
<1>2. n \in Nat /\ n >= 1 /\ n \in Nat \ {0} /\ i \in 1 .. n /\ 1 \in 1 .. n BY <1>1
<1>3. Own(c, q, t) /\ Off(e, t) BY <1>1, OwnDelete
<1>4. Up(i, n) \in 1 .. n BY <1>2, UpDown
<1>5. PICK j \in 1 .. n : Up(j, n) = i BY <1>2, UpDown
<1> DEFINE x == s[j]
           out == m ++ Next_(x, y) ++ Prev_(y, x)
<1>6. m.next[e] = y /\ m.prev[e] = x
  <2>1. m.next[s[i]] = s[Up(i, n)] /\ m.prev[s[Up(j, n)]] = s[j] BY <1>1, <1>2 DEF Ring, Forward, Backward
  <2> QED BY <1>5, <2>1
<1>7. e \in Nodes /\ x \in Nodes /\ y \in Nodes /\ CircleFirst(m, q) = s[1] BY <1>1, <1>2, <1>4, <1>5
<1>8. \A a, b \in 1 .. n : s[a] = s[b] => a = b BY <1>1 DEF Apart
<1>9. Mine(q, s, x) /\ Mine(q, s, y) /\ Mine(q, s, e) BY <1>2, <1>4, <1>5 DEF Mine, Off
<1>10. k = IF y = e THEN m ++ Next_(q, Null) ELSE IF s[1] = e THEN out ++ Next_(q, y) ELSE out
  BY <1>6, <1>7 DEF CircleDequeue
<1>11. (y = e <=> n = 1) /\ (s[1] = e <=> i = 1)
  <2>1. Up(i, n) = i <=> n = 1
    <3> HIDE DEF n
    <3> QED BY <1>2 DEF Up
  <2>2. y = e <=> Up(i, n) = i BY <1>2, <1>4, <1>8
  <2>3. s[1] = e <=> i = 1 BY <1>2, <1>8
  <2> QED BY <2>1, <2>2, <2>3
<1> HIDE DEF k
<1>12. ASSUME n = 1
       PROVE  /\ k \in Memory /\ Linked(k, q, t)
              /\ \A h \in Nodes : (k.next[h] # m.next[h] \/ k.prev[h] # m.prev[h]) => Mine(q, s, h) \/ Mine(q, t, h)
  <2>1. k = m ++ Next_(q, Null) BY <1>10, <1>11, <1>12
  <2>2. t \in Seq(Elements) /\ Len(t) = 0
    <3>1. t \in Seq(Elements) /\ Len(t) = n - 1 BY <1>1, DeleteIs, Zenon
    <3> QED BY <1>12, <3>1
  <2>3. k \in Memory /\ k.prev = m.prev /\ k.next = [m.next EXCEPT ![q] = Null] BY <1>1, <2>1, PutNext
  <2>4. k.next[q] = Null /\ \A h \in Nodes : h # q => k.next[h] = m.next[h] BY <1>1, <2>3, Read
  <2> HIDE DEF t
  <2>5. Ring(k, t) BY <2>2 DEF Ring, Forward, Backward
  <2>6. Linked(k, q, t) BY <2>2, <2>4, <2>5, RingOfCircle
  <2> QED BY <2>3, <2>4, <2>6 DEF Mine
<1>13. ASSUME n # 1
       PROVE  /\ k \in Memory /\ Linked(k, q, t)
              /\ \A h \in Nodes : (k.next[h] # m.next[h] \/ k.prev[h] # m.prev[h]) => Mine(q, s, h) \/ Mine(q, t, h)
  <2>1. n >= 2
    <3> HIDE DEF n
    <3> QED BY <1>2, <1>13
  <2>2. Bypass(m, out, x, e, y) BY <1>1, <1>7, StoredBypass
  <2>3. /\ Ring(out, t) /\ (i # 1 => Linked(out, q, t))
        /\ i = 1 => t[1] = y
    <3>1. i \in 1 .. Len(s) /\ j \in 1 .. Len(s) /\ Up(j, Len(s)) = i /\ Len(s) >= 2 BY <1>5, <2>1
    <3>2. s \in Seq(Elements) /\ Apart(s) /\ Linked(m, q, s) BY <1>1
    <3> HIDE DEF s, out
    <3> QED BY <2>2, <3>1, <3>2, CircleDelete
  <2>4. t \in Seq(Elements) /\ Len(t) > 0 BY <1>1, <2>1, DeleteIs
  <2> HIDE DEF t, out, x, y, e
  <2>5. out \in Memory /\ \A h \in Nodes : (out.next[h] # m.next[h] \/ out.prev[h] # m.prev[h]) => Mine(q, s, h)
    BY <1>9, <2>2 DEF Bypass
  <2>6. CASE i = 1
    <3>1. k = out ++ Next_(q, y) /\ t[1] = y BY <1>10, <1>11, <1>13, <2>3, <2>6
    <3>2. Linked(out ++ Next_(q, t[1]), q, t) BY <2>3, <2>4, <2>5, CircleHead
    <3>3. k \in Memory /\ k.prev = out.prev /\ k.next = [out.next EXCEPT ![q] = y] BY <1>1, <1>7, <2>5, <3>1, PutNext
    <3>4. \A h \in Nodes : h # q => k.next[h] = out.next[h] BY <2>5, <3>3, Read
    <3> QED BY <2>5, <3>1, <3>2, <3>3, <3>4 DEF Mine
  <2>7. CASE i # 1
    <3>1. k = out BY <1>10, <1>11, <1>13, <2>7
    <3> QED BY <2>3, <2>5, <2>7, <3>1
  <2> QED BY <2>6, <2>7
<1>14. R = R \cup {q} OBVIOUS
<1>15. Free([c EXCEPT ![q] = t], e)
  <2>1. \A r \in Heads : r # q => Off(e, c[r]) BY <1>1, <1>2 DEF Own
  <2> HIDE DEF e, t
  <2> QED BY <1>1, <1>3, <2>1 DEF Free
<1> HIDE DEF t
<1>16. Good(k, [c EXCEPT ![q] = t], R) BY <1>1, <1>3, <1>12, <1>13, <1>14, ChangedOne
<1> QED BY <1>15, <1>16 DEF k, t, Removed

LEMMA GoodCircleTurned ==
  ASSUME NEW m, NEW c, NEW R, Good(m, c, R), NEW q \in R, q \in Circles, Len(c[q]) # 0
  PROVE  LET n == Len(c[q]) IN
         /\ Good(m ++ Next_(q, m.next[CircleFirst(m, q)]), [c EXCEPT ![q] = Rotated(c[q], 1)], R)
         /\ Good(m ++ Next_(q, CircleLast(m, q)), [c EXCEPT ![q] = Rotated(c[q], n - 1)], R)
<1> DEFINE s == c[q]
           n == Len(s)
<1>1. /\ m \in Memory /\ q \in Heads /\ q \in Nodes /\ s \in Seq(Elements) /\ Own(c, q, s)
      /\ n \in Nat /\ Linked(m, q, s)
      /\ \A h \in 1 .. n : s[h] \in Nodes
      /\ CircleFirst(m, q) = s[1] /\ CircleLast(m, q) = s[n]
  BY CircleIs
<1>2. n > 0 /\ 1 \in 0 .. n /\ n - 1 \in 0 .. n /\ 1 \in 1 .. n /\ n \in 1 .. n BY <1>1
<1>3. ASSUME NEW v \in Nodes \cup {Null}, NEW t, Own(c, q, t), Linked(m ++ Next_(q, v), q, t)
      PROVE  Good(m ++ Next_(q, v), [c EXCEPT ![q] = t], R)
  <2> DEFINE k == m ++ Next_(q, v)
  <2>1. k \in Memory /\ k.prev = m.prev /\ k.next = [m.next EXCEPT ![q] = v] BY <1>1, PutNext
  <2>2. Linked(k, q, t) BY <1>3
  <2> HIDE DEF k
  <2>3. \A h \in Nodes : (k.next[h] # m.next[h] \/ k.prev[h] # m.prev[h]) => Mine(q, c[q], h) \/ Mine(q, t, h)
    BY <1>1, <2>1, Read DEF Mine
  <2>4. R = R \cup {q} OBVIOUS
  <2>5. Good(k, [c EXCEPT ![q] = t], R) BY <1>1, <1>3, <2>1, <2>2, <2>3, <2>4, ChangedOne
  <2> QED BY <2>5 DEF k
<1>4. Good(m ++ Next_(q, m.next[s[1]]), [c EXCEPT ![q] = Rotated(s, 1)], R)
  <2>1. m.next[s[1]] \in Nodes \cup {Null} BY <1>1, <1>2, Read
  <2>2. Linked(m ++ Next_(q, m.next[s[1]]), q, Rotated(s, 1)) BY <1>1, <1>2, CircleTurnedForward
  <2>3. Own(c, q, Rotated(s, 1)) BY <1>1, <1>2, OwnRotated
  <2> QED BY <1>3, <2>1, <2>2, <2>3
<1>5. Good(m ++ Next_(q, s[n]), [c EXCEPT ![q] = Rotated(s, n - 1)], R)
  <2>1. s[n] \in Nodes \cup {Null} BY <1>1, <1>2
  <2>2. Linked(m ++ Next_(q, s[n]), q, Rotated(s, n - 1)) BY <1>1, <1>2, CircleTurnedBackward
  <2>3. Own(c, q, Rotated(s, n - 1)) BY <1>1, <1>2, OwnRotated
  <2> QED BY <1>3, <2>1, <2>2, <2>3
<1> QED BY <1>1, <1>4, <1>5

----------------------------------------------------------------------------
\* One lemma for each operation: a good state, and what the operation leaves.

State == Good(mem, content, ready)

LEMMA Entered ==
  ASSUME State, NEW q \in Heads, NEW e \in Elements, MayEnter(e, q)
  PROVE  q \in ready /\ Free(content, e)
<1>1. \A r \in Heads : DOMAIN content[r] = 1 .. Len(content[r])
  <2>1. \A r \in Heads : content[r] \in Seq(Elements) BY DEF State, Good
  <2> QED BY <2>1, Lengths
<1> QED BY <1>1 DEF MayEnter, Usable, Free, Off, On

LEMMA Placed ==
  ASSUME State, NEW q \in Heads, NEW e, On(e, q)
  PROVE  /\ Place(q, e) \in 1 .. Len(content[q]) /\ content[q][Place(q, e)] = e
         /\ e \in Elements /\ q \in ready
<1>1. content[q] \in Seq(Elements) BY DEF State, Good
<1>2. DOMAIN content[q] = 1 .. Len(content[q]) /\ \A i \in 1 .. Len(content[q]) : content[q][i] \in Elements
  BY <1>1, Lengths
<1>3. Place(q, e) \in 1 .. Len(content[q]) /\ content[q][Place(q, e)] = e BY <1>2, Zenon DEF On, Place
<1>4. q \in ready
  <2>1. q \notin ready => content[q] = <<>> BY DEF State, Good
  <2>2. content[q] # <<>> BY <1>3
  <2> QED BY <2>1, <2>2
<1> QED BY <1>2, <1>3, <1>4

LEMMA Leaving ==
  ASSUME NEW m, NEW c, Leaves(m, c), UNCHANGED ready, Good(m, c, ready)
  PROVE  State'
BY DEF Leaves, State

LEMMA Method1Enters ==
  ASSUME State, NEW q \in LinkQueues, NEW e \in Elements,
         enqueue_head(q, e) \/ enqueue_tail(q, e) \/ \E f \in Elements : insque(q, e, f)
  PROVE  State'
<1>1. q \in Queues /\ q \in Heads BY DEF Queues, Heads
<1>2. MayEnter(e, q) BY DEF enqueue_head, enqueue_tail, insque
<1>3. q \in ready /\ Free(content, e) BY <1>1, <1>2, Entered
<1>4. /\ Good(InsQue(mem, e, q), [content EXCEPT ![q] = Insert(content[q], 1, e)], ready)
      /\ Good(EnqueueTail(mem, q, e), [content EXCEPT ![q] = Insert(content[q], Len(content[q]) + 1, e)], ready)
  BY <1>1, <1>3, InsertedAtEnds DEF State
<1>5. CASE enqueue_head(q, e) BY <1>4, <1>5, Leaving, Zenon DEF enqueue_head, Do
<1>6. CASE enqueue_tail(q, e) BY <1>4, <1>6, Leaving, Zenon DEF enqueue_tail, Do
<1>7. CASE \E f \in Elements : insque(q, e, f)
  <2>1. PICK f \in Elements : insque(q, e, f) BY <1>7
  <2> DEFINE i == Place(q, f) + 1
  <2>2. Place(q, f) \in 1 .. Len(content[q]) /\ content[q][Place(q, f)] = f BY <1>1, <2>1, Placed DEF insque
  <2>3. Len(content[q]) \in Nat BY <1>1, GoodAt DEF State
  <2>4. i \in 1 .. Len(content[q]) + 1 /\ i - 1 = Place(q, f) BY <2>2, <2>3
  <2>5. At(q, content[q], i - 1) = f BY <2>2, <2>4 DEF At
  <2>6. Good(InsQue(mem, e, At(q, content[q], i - 1)), [content EXCEPT ![q] = Insert(content[q], i, e)], ready)
    BY <1>1, <1>3, <2>4, InsertedBy DEF State
  <2>7. Good(InsQue(mem, e, f), [content EXCEPT ![q] = Insert(content[q], i, e)], ready) BY <2>5, <2>6
  <2> QED BY <2>1, <2>7, Leaving, Zenon DEF insque, Do
<1> QED BY <1>5, <1>6, <1>7

LEMMA Method2Enters ==
  ASSUME State, NEW q \in ChainQueues, NEW e \in Elements,
         \/ queue_enter_first(q, e)
         \/ \E cur \in Elements \cup {q} : queue_insert_before(q, e, cur) \/ queue_insert_after(q, e, cur)
  PROVE  State'
<1> DEFINE n == Len(content[q])
<1>1. q \in Queues /\ q \in Heads BY DEF Queues, Heads
<1>2. MayEnter(e, q) BY DEF queue_enter_first, queue_insert_before, queue_insert_after
<1>3. q \in ready /\ Free(content, e) BY <1>1, <1>2, Entered
<1>4. /\ Good(InsertAfter(mem, e, q), [content EXCEPT ![q] = Insert(content[q], 1, e)], ready)
      /\ Good(mem ++ Prev_(mem.next[q], e) ++ Next_(e, mem.next[q]) ++ Prev_(e, q) ++ Next_(q, e),
              [content EXCEPT ![q] = Insert(content[q], 1, e)], ready)
      /\ Good(InsertBefore(mem, e, q), [content EXCEPT ![q] = Insert(content[q], n + 1, e)], ready)
  BY <1>1, <1>3, InsertedAtEnds DEF State
<1>5. CASE queue_enter_first(q, e) BY <1>4, <1>5, Leaving, Zenon DEF queue_enter_first, Do
<1>6. ASSUME NEW cur \in Elements \cup {q}, queue_insert_before(q, e, cur) \/ queue_insert_after(q, e, cur)
      PROVE  State'
  <2>1. CASE cur = q
    <3>1. \/ Do(q, InsertBefore(mem, e, q), Insert(content[q], n + 1, e))
          \/ Do(q, InsertAfter(mem, e, q), Insert(content[q], 1, e))
      BY <1>6, <2>1 DEF queue_insert_before, queue_insert_after
    <3> QED BY <1>4, <3>1, Leaving, Zenon DEF Do
  <2>2. CASE cur # q
    <3> DEFINE i == Place(q, cur)
    <3>1. On(cur, q) BY <1>6, <2>2 DEF queue_insert_before, queue_insert_after
    <3>2. i \in 1 .. n /\ content[q][i] = cur BY <1>1, <3>1, Placed
    <3>3. n \in Nat BY <1>1, GoodAt DEF State
    <3> HIDE DEF i
    <3>4. i \in 1 .. n + 1 /\ i + 1 \in 1 .. n + 1 /\ (i + 1) - 1 = i /\ At(q, content[q], i) = cur
      BY <3>2, <3>3 DEF At
    <3>5. Good(InsertBefore(mem, e, At(q, content[q], i)), [content EXCEPT ![q] = Insert(content[q], i, e)], ready)
      BY <1>1, <1>3, <3>4, InsertedBy DEF State
    <3>6. Good(InsertAfter(mem, e, At(q, content[q], (i + 1) - 1)),
               [content EXCEPT ![q] = Insert(content[q], i + 1, e)], ready)
      BY <1>1, <1>3, <3>4, InsertedBy DEF State
    <3>7. /\ Good(InsertBefore(mem, e, cur), [content EXCEPT ![q] = Insert(content[q], i, e)], ready)
          /\ Good(InsertAfter(mem, e, cur), [content EXCEPT ![q] = Insert(content[q], i + 1, e)], ready)
      BY <3>4, <3>5, <3>6
    <3>8. \/ Do(q, InsertBefore(mem, e, cur), Insert(content[q], i, e))
          \/ Do(q, InsertAfter(mem, e, cur), Insert(content[q], i + 1, e))
      BY <1>6, <2>2 DEF queue_insert_before, queue_insert_after, i
    <3> QED BY <3>7, <3>8, Leaving, Zenon DEF Do
  <2> QED BY <2>1, <2>2
<1> QED BY <1>5, <1>6

LEMMA EndsLeave ==
  ASSUME State, NEW q \in Queues,
         dequeue_head(q) \/ dequeue_tail(q) \/ queue_remove_first(q) \/ queue_remove_last(q)
  PROVE  State'
<1> DEFINE n == Len(content[q])
<1>1. q \in Heads /\ q \in ready
  BY DEF Heads, dequeue_head, dequeue_tail, queue_remove_first, queue_remove_last, Usable
<1>2. n # 0
  <2>1. content[q] \in Seq(Elements) BY <1>1, GoodAt DEF State
  <2>2. (mem.next[q] = q <=> n = 0) /\ (mem.prev[q] = q <=> n = 0) BY <1>1, EmptyQueue DEF State
  <2>3. mem.next[q] # q \/ mem.prev[q] # q \/ content[q] # <<>>
    BY DEF dequeue_head, dequeue_tail, queue_remove_first, queue_remove_last
  <2> QED BY <2>1, <2>2, <2>3
<1>3. /\ Good(DequeueHead(mem, q), Removed(content, q, 1), ready)
      /\ Good(Forget(DequeueHead(mem, q), mem.next[q]), Removed(content, q, 1), ready)
      /\ Good(DequeueTail(mem, q), Removed(content, q, n), ready)
      /\ Good(Forget(DequeueTail(mem, q), mem.prev[q]), Removed(content, q, n), ready)
  BY <1>1, <1>2, DeletedAtEnds DEF State
<1>4. CASE dequeue_head(q) BY <1>3, <1>4, Leaving, Zenon DEF dequeue_head, Do, Removed
<1>5. CASE dequeue_tail(q) BY <1>3, <1>5, Leaving, Zenon DEF dequeue_tail, Do, Removed
<1>6. CASE queue_remove_first(q) BY <1>3, <1>6, Leaving, Zenon DEF queue_remove_first, Do, Removed
<1>7. CASE queue_remove_last(q) BY <1>3, <1>7, Leaving, Zenon DEF queue_remove_last, Do, Removed
<1> QED BY <1>4, <1>5, <1>6, <1>7

LEMMA ElementLeaves ==
  ASSUME State, NEW q \in Queues, NEW e, remqueue(q, e) \/ queue_remove(q, e)
  PROVE  State'
<1> DEFINE i == Place(q, e)
<1>1. q \in Heads BY DEF Heads
<1>2. On(e, q) BY DEF remqueue, queue_remove, MayLeave
<1>3. i \in 1 .. Len(content[q]) /\ content[q][i] = e /\ q \in ready BY <1>1, <1>2, Placed
<1>4. Without(q, e) = Delete(content[q], i) BY DEF Without
<1> HIDE DEF i
<1>5. LET f == content[q][i] IN /\ Good(RemQue(mem, f), Removed(content, q, i), ready)
                                /\ Good(Forget(RemQue(mem, f), f), Removed(content, q, i), ready)
  BY <1>3, DeletedBy DEF State
<1>6. /\ Good(RemQue(mem, e), [content EXCEPT ![q] = Without(q, e)], ready)
      /\ Good(Forget(RemQue(mem, e), e), [content EXCEPT ![q] = Without(q, e)], ready)
  BY <1>3, <1>4, <1>5 DEF Removed
<1>7. CASE remqueue(q, e) BY <1>6, <1>7, Leaving, Zenon DEF remqueue, Do
<1>8. CASE queue_remove(q, e) BY <1>6, <1>8, Leaving, Zenon DEF queue_remove, Do
<1> QED BY <1>7, <1>8

\* Off one queue and on another, or on the same.
LEMMA ElementMoves ==
  ASSUME State, NEW q \in LinkQueues, NEW e \in Elements, NEW to \in LinkQueues,
         re_queue_head(q, e, to) \/ re_queue_tail(q, e, to)
  PROVE  State'
<1> DEFINE i == Place(q, e)
           d == [content EXCEPT ![q] = Without(q, e)]
           m == RemQue(mem, e)
<1>1. q \in Heads /\ q \in Queues /\ to \in Heads /\ to \in Queues BY DEF Heads, Queues
<1>2. On(e, q) /\ to \in ready BY DEF re_queue_head, re_queue_tail, MayLeave
<1>3. i \in 1 .. Len(content[q]) /\ content[q][i] = e /\ q \in ready BY <1>1, <1>2, Placed
<1>4. d = Removed(content, q, i) BY DEF Without, Removed
<1> HIDE DEF i
<1>5. LET f == content[q][i] IN Good(RemQue(mem, f), Removed(content, q, i), ready) /\ Free(Removed(content, q, i), f)
  BY <1>1, <1>3, DeletedBy DEF State
<1>6. Good(m, d, ready) /\ Free(d, e) BY <1>3, <1>4, <1>5
<1> HIDE DEF d, m
<1>7. /\ Good(InsQue(m, e, to), [d EXCEPT ![to] = Insert(d[to], 1, e)], ready)
      /\ Good(EnqueueTail(m, to, e), [d EXCEPT ![to] = Insert(d[to], Len(d[to]) + 1, e)], ready)
  BY <1>1, <1>2, <1>6, InsertedAtEnds
<1>8. CASE re_queue_head(q, e, to)
  <2>1. Leaves(InsQue(m, e, to), [d EXCEPT ![to] = Insert(d[to], 1, e)]) /\ UNCHANGED ready
    BY <1>8 DEF re_queue_head, d, m
  <2> QED BY <1>7, <2>1, Leaving, Zenon
<1>9. CASE re_queue_tail(q, e, to)
  <2>1. Leaves(EnqueueTail(m, to, e), [d EXCEPT ![to] = Insert(d[to], Len(d[to]) + 1, e)]) /\ UNCHANGED ready
    BY <1>9 DEF re_queue_tail, d, m
  <2> QED BY <1>7, <2>1, Leaving, Zenon
<1> QED BY <1>8, <1>9

LEMMA HeadMoves ==
  ASSUME State, NEW old \in Queues, NEW new \in Queues,
         movqueue(old, new) \/ queue_new_head(old, new) \/ queue_assign(new, old)
  PROVE  State'
<1> DEFINE n == mem.next[old]
           p == mem.prev[old]
           l == mem ++ Next_(p, new) ++ Prev_(n, new) ++ Next_(new, n) ++ Prev_(new, p)
           k == NewHead(mem, old, new)
           c == [content EXCEPT ![new] = content[old], ![old] = <<>>]
           S == (ready \ {old}) \cup {new}
<1>1. old \in Heads /\ new \in Heads BY DEF Heads
<1>2. old \in ready /\ old # new /\ content[new] = <<>>
  BY DEF movqueue, queue_new_head, queue_assign, Usable
<1>3. /\ content \in [Heads -> Seq(Elements)] /\ content[old] \in Seq(Elements) /\ ready \subseteq Heads
      /\ Len(content[old]) \in Nat
  BY <1>1, GoodAt DEF State
<1>4. Rebased(old, new) = c BY DEF Rebased
<1>5. mem.next[old] = old <=> Len(content[old]) = 0 BY <1>2, EmptyQueue DEF State
<1>6. ASSUME Len(content[old]) # 0
      PROVE  Good(k, c, S) /\ Good(l, c, S) /\ Good(InitQueue(k, old), c, ready \cup {new})
  <2>1. Moved(mem, k, old, new) /\ Moved(mem, l, old, new) BY <1>2, <1>6, MovedBy DEF State
  <2> HIDE DEF k, l
  <2>2. Good(k, c, S) /\ Good(l, c, S) BY <1>2, <1>6, <2>1, GoodMoved DEF State
  <2>3. c[old] = <<>> /\ S \cup {old} = ready \cup {new} BY <1>1, <1>2, <1>3
  <2> HIDE DEF c, S
  <2>4. Good(InitQueue(k, old), c, S \cup {old}) BY <2>2, <2>3, GoodInit
  <2> QED BY <2>2, <2>3, <2>4
<1>7. ASSUME Len(content[old]) = 0
      PROVE  Good(InitQueue(mem, new), c, ready \cup {new}) /\ Good(InitQueue(mem, new), c, S)
  <2>1. content[old] = <<>> BY <1>3, <1>7
  <2>2. c = content BY <1>1, <1>2, <1>3, <2>1
  <2>3. Good(InitQueue(mem, new), content, ready \cup {new}) BY <1>2, GoodInit DEF State
  <2>4. Good(InitQueue(mem, new), content, (ready \cup {new}) \ {old}) BY <1>1, <2>1, <2>3, GoodDrop
  <2>5. (ready \cup {new}) \ {old} = S BY <1>2
  <2> HIDE DEF c, S
  <2> QED BY <2>2, <2>3, <2>4, <2>5
<1> HIDE DEF k, l, c, S
<1>8. CASE movqueue(old, new)
  <2>1. /\ ready' = ready \cup {new} /\ content' = c
        /\ mem' = IF mem.next[old] = old THEN InitQueue(mem, new) ELSE InitQueue(k, old)
    BY <1>4, <1>8 DEF movqueue, Leaves, k
  <2> QED BY <1>5, <1>6, <1>7, <2>1 DEF State
<1>9. CASE queue_new_head(old, new)
  <2>1. ready' = S /\ content' = c /\ mem' = IF mem.next[old] = old THEN InitQueue(mem, new) ELSE k
    BY <1>4, <1>9 DEF queue_new_head, Leaves, k, S
  <2> QED BY <1>5, <1>6, <1>7, <2>1 DEF State
<1>10. CASE queue_assign(new, old)
  <2>1. ready' = S /\ content' = c /\ mem' = l /\ content[old] # <<>>
    BY <1>4, <1>10 DEF queue_assign, Leaves, l, S
  <2>2. Len(content[old]) # 0 BY <1>3, <2>1
  <2> QED BY <1>6, <2>1, <2>2 DEF State
<1> QED BY <1>8, <1>9, <1>10

LEMMA HeadInits ==
  ASSUME State, NEW q \in Heads, (q \in Queues /\ queue_init(q)) \/ (q \in Circles /\ circle_queue_init(q))
  PROVE  State'
<1>1. q \notin ready /\ content' = content /\ ready' = ready \cup {q} BY DEF queue_init, circle_queue_init, Leaves
<1>2. content[q] = <<>> BY <1>1 DEF State, Good
<1>3. CASE q \in Queues /\ queue_init(q)
  <2>1. mem' = InitQueue(mem, q) BY <1>3 DEF queue_init, Leaves
  <2>2. Good(InitQueue(mem, q), content, ready \cup {q}) BY <1>2, <1>3, GoodInit DEF State
  <2> QED BY <1>1, <2>1, <2>2 DEF State
<1>4. CASE q \in Circles /\ circle_queue_init(q)
  <2>1. mem' = mem ++ Next_(q, Null) BY <1>4 DEF circle_queue_init, Leaves
  <2>2. Good(mem ++ Next_(q, Null), content, ready \cup {q}) BY <1>2, <1>4, GoodCircleInit DEF State
  <2> QED BY <1>1, <2>1, <2>2 DEF State
<1> QED BY <1>3, <1>4

LEMMA CircleEnters ==
  ASSUME State, NEW c \in Circles, NEW e \in Elements, circle_enqueue_tail(c, e) \/ circle_enqueue_head(c, e)
  PROVE  State'
<1>1. c \in Heads BY DEF Heads
<1>2. MayEnter(e, c) BY DEF circle_enqueue_tail, circle_enqueue_head
<1>3. c \in ready /\ Free(content, e) BY <1>1, <1>2, Entered
<1>4. CASE circle_enqueue_tail(c, e)
  <2>1. Good(CircleEnqueueTail(mem, c, e), [content EXCEPT ![c] = Insert(content[c], Len(content[c]) + 1, e)], ready)
    BY <1>3, GoodCircleTail DEF State
  <2> QED BY <1>4, <2>1, Leaving, Zenon DEF circle_enqueue_tail, Do
<1>5. CASE circle_enqueue_head(c, e)
  <2>1. Good(CircleEnqueueTail(mem, c, e) ++ Next_(c, e), [content EXCEPT ![c] = Insert(content[c], 1, e)], ready)
    BY <1>3, GoodCircleHead DEF State
  <2> QED BY <1>5, <2>1, Leaving, Zenon DEF circle_enqueue_head, Do
<1> QED BY <1>4, <1>5

LEMMA CircleLeaves ==
  ASSUME State, NEW c \in Circles, NEW e, circle_dequeue(c, e)
  PROVE  State'
<1> DEFINE i == Place(c, e)
<1>1. c \in Heads BY DEF Heads
<1>2. On(e, c) BY DEF circle_dequeue, MayLeave
<1>3. i \in 1 .. Len(content[c]) /\ content[c][i] = e /\ c \in ready BY <1>1, <1>2, Placed
<1>4. Without(c, e) = Delete(content[c], i) BY DEF Without
<1> HIDE DEF i
<1>5. Good(CircleDequeue(mem, c, content[c][i]), Removed(content, c, i), ready) BY <1>3, GoodCircleDelete DEF State
<1>6. Good(CircleDequeue(mem, c, e), [content EXCEPT ![c] = Without(c, e)], ready)
  BY <1>3, <1>4, <1>5 DEF Removed
<1> QED BY <1>6, Leaving, Zenon DEF circle_dequeue, Do

LEMMA CircleTurns ==
  ASSUME State, NEW c \in Circles, circle_queue_rotate_head_forward(c) \/ circle_queue_rotate_head_backward(c)
  PROVE  State'
<1>1. c \in ready BY DEF circle_queue_rotate_head_forward, circle_queue_rotate_head_backward, Usable
<1>2. Len(content[c]) = 0 => CircleFirst(mem, c) = Null /\ CircleLast(mem, c) = Null BY <1>1, CircleIs DEF State
<1>3. Len(content[c]) # 0
  BY <1>2 DEF circle_queue_rotate_head_forward, circle_queue_rotate_head_backward
<1>4. /\ Good(mem ++ Next_(c, mem.next[CircleFirst(mem, c)]), [content EXCEPT ![c] = Rotated(content[c], 1)], ready)
      /\ Good(mem ++ Next_(c, CircleLast(mem, c)),
              [content EXCEPT ![c] = Rotated(content[c], Len(content[c]) - 1)], ready)
  BY <1>1, <1>3, GoodCircleTurned DEF State
<1>5. CASE circle_queue_rotate_head_forward(c)
  BY <1>4, <1>5, Leaving, Zenon DEF circle_queue_rotate_head_forward, Do
<1>6. CASE circle_queue_rotate_head_backward(c)
  BY <1>4, <1>6, Leaving, Zenon DEF circle_queue_rotate_head_backward, Do
<1> QED BY <1>5, <1>6

----------------------------------------------------------------------------
\* queue_enter, store by store: the links m, between those the queue had, g,
\* and those it will have, while the stores P are to be made.

Partly(g, m, q, e, p, P) ==
  /\ m \in Memory
  /\ P.before \subseteq {Prev_(e, p), Next_(e, q)} /\ P.after \subseteq {Next_(p, e), Prev_(q, e)}
  /\ P.before # {} => P.after = {Next_(p, e), Prev_(q, e)}
  /\ \A n \in Nodes : /\ n # p /\ n # e => m.next[n] = g.next[n]
                      /\ n # q /\ n # e => m.prev[n] = g.prev[n]
  /\ Next_(p, e) \in P.after => m.next[p] = q
  /\ Next_(p, e) \notin P.after => m.next[p] = e
  /\ Prev_(q, e) \in P.after => m.prev[q] = p
  /\ Prev_(q, e) \notin P.after => m.prev[q] = e
  /\ Next_(e, q) \notin P.before => m.next[e] = q
  /\ Prev_(e, p) \notin P.before => m.prev[e] = p

LEMMA Distinct ==
  /\ \A a, b, c, d : Next_(a, b) # Prev_(c, d)
  /\ \A a, b, c, d : (Next_(a, b) = Next_(c, d) => a = c /\ b = d) /\ (Prev_(a, b) = Prev_(c, d) => a = c /\ b = d)
<1>1. ASSUME NEW a, NEW b, NEW c, NEW d PROVE Next_(a, b) # Prev_(c, d)
  <2>1. Next_(a, b).field = "next" /\ Prev_(c, d).field = "prev" BY DEF Next_, Prev_
  <2> QED BY <2>1
<1>2. ASSUME NEW a, NEW b, NEW c, NEW d
      PROVE  (Next_(a, b) = Next_(c, d) => a = c /\ b = d) /\ (Prev_(a, b) = Prev_(c, d) => a = c /\ b = d)
  <2>1. Next_(a, b).node = a /\ Next_(a, b).val = b /\ Next_(c, d).node = c /\ Next_(c, d).val = d BY DEF Next_
  <2>2. Prev_(a, b).node = a /\ Prev_(a, b).val = b /\ Prev_(c, d).node = c /\ Prev_(c, d).val = d BY DEF Prev_
  <2> QED BY <2>1, <2>2
<1> QED BY <1>1, <1>2

LEMMA PartlyStep ==
  ASSUME NEW g, NEW m, NEW q \in Nodes, NEW e \in Nodes, NEW p \in Nodes, e # p, e # q, NEW P,
         Partly(g, m, q, e, p, P), NEW s, s \in P.before \/ (P.before = {} /\ s \in P.after)
  PROVE  Partly(g, m ++ s, q, e, p, [before |-> P.before \ {s}, after |-> P.after \ {s}])
<1> DEFINE k == m ++ s
           O == [before |-> P.before \ {s}, after |-> P.after \ {s}]
           Np == Next_(p, e)
           Pq == Prev_(q, e)
           Ne == Next_(e, q)
           Pe == Prev_(e, p)
<1>1. O.before = P.before \ {s} /\ O.after = P.after \ {s} OBVIOUS
<1>2. /\ m \in Memory /\ P.before \subseteq {Pe, Ne} /\ P.after \subseteq {Np, Pq}
      /\ P.before # {} => P.after = {Np, Pq}
  BY DEF Partly
<1>3. Np # Pq /\ Np # Ne /\ Np # Pe /\ Pq # Ne /\ Pq # Pe /\ Ne # Pe BY Distinct
<1>4. /\ \A n \in Nodes : /\ n # p /\ n # e => m.next[n] = g.next[n]
                          /\ n # q /\ n # e => m.prev[n] = g.prev[n]
      /\ Np \in P.after => m.next[p] = q
      /\ Np \notin P.after => m.next[p] = e
      /\ Pq \in P.after => m.prev[q] = p
      /\ Pq \notin P.after => m.prev[q] = e
      /\ Ne \notin P.before => m.next[e] = q
      /\ Pe \notin P.before => m.prev[e] = p
  BY DEF Partly
<1>5. SUFFICES /\ k \in Memory
               /\ O.before \subseteq {Pe, Ne} /\ O.after \subseteq {Np, Pq}
               /\ O.before # {} => O.after = {Np, Pq}
               /\ \A n \in Nodes : /\ n # p /\ n # e => k.next[n] = g.next[n]
                                   /\ n # q /\ n # e => k.prev[n] = g.prev[n]
               /\ Np \in O.after => k.next[p] = q
               /\ Np \notin O.after => k.next[p] = e
               /\ Pq \in O.after => k.prev[q] = p
               /\ Pq \notin O.after => k.prev[q] = e
               /\ Ne \notin O.before => k.next[e] = q
               /\ Pe \notin O.before => k.prev[e] = p
  BY DEF Partly
<1> HIDE DEF k, O
<1>6. CASE s = Ne
  <2>1. k \in Memory /\ k.prev = m.prev /\ k.next = [m.next EXCEPT ![e] = q] BY <1>2, <1>6, PutNext DEF k
  <2>2. k.next[e] = q /\ \A n \in Nodes : n # e => k.next[n] = m.next[n] BY <1>2, <2>1, Read
  <2>3. s \in P.before /\ O.after = P.after /\ O.before \subseteq {Pe, Ne} BY <1>1, <1>2, <1>3, <1>6
  <2>4. Pe \in O.before <=> Pe \in P.before BY <1>1, <1>3, <1>6
  <2> HIDE DEF Np, Pq, Ne, Pe
  <2> QED BY <1>1, <1>2, <1>4, <2>1, <2>2, <2>3, <2>4
<1>7. CASE s = Pe
  <2>1. k \in Memory /\ k.next = m.next /\ k.prev = [m.prev EXCEPT ![e] = p] BY <1>2, <1>7, PutPrev DEF k
  <2>2. k.prev[e] = p /\ \A n \in Nodes : n # e => k.prev[n] = m.prev[n] BY <1>2, <2>1, Read
  <2>3. s \in P.before /\ O.after = P.after /\ O.before \subseteq {Pe, Ne} BY <1>1, <1>2, <1>3, <1>7
  <2>4. Ne \in O.before <=> Ne \in P.before BY <1>1, <1>3, <1>7
  <2> HIDE DEF Np, Pq, Ne, Pe
  <2> QED BY <1>1, <1>2, <1>4, <2>1, <2>2, <2>3, <2>4
<1>8. CASE s = Np
  <2>1. k \in Memory /\ k.prev = m.prev /\ k.next = [m.next EXCEPT ![p] = e] BY <1>2, <1>8, PutNext DEF k
  <2>2. k.next[p] = e /\ \A n \in Nodes : n # p => k.next[n] = m.next[n] BY <1>2, <2>1, Read
  <2>3. P.before = {} /\ O.before = {} /\ Np \notin O.after /\ O.after \subseteq {Np, Pq} BY <1>1, <1>2, <1>3, <1>8
  <2>4. Pq \in O.after <=> Pq \in P.after BY <1>1, <1>3, <1>8
  <2> HIDE DEF Np, Pq, Ne, Pe
  <2> QED BY <1>4, <2>1, <2>2, <2>3, <2>4
<1>9. CASE s = Pq
  <2>1. k \in Memory /\ k.next = m.next /\ k.prev = [m.prev EXCEPT ![q] = e] BY <1>2, <1>9, PutPrev DEF k
  <2>2. k.prev[q] = e /\ \A n \in Nodes : n # q => k.prev[n] = m.prev[n] BY <1>2, <2>1, Read
  <2>3. P.before = {} /\ O.before = {} /\ Pq \notin O.after /\ O.after \subseteq {Np, Pq} BY <1>1, <1>2, <1>3, <1>9
  <2>4. Np \in O.after <=> Np \in P.after BY <1>1, <1>3, <1>9
  <2> HIDE DEF Np, Pq, Ne, Pe
  <2> QED BY <1>4, <2>1, <2>2, <2>3, <2>4
<1>10. s \in {Pe, Ne, Np, Pq} BY <1>2
<1> QED BY <1>6, <1>7, <1>8, <1>9, <1>10

\* The element e is being entered at the end of q, which held the rest of it.
Entering(q, e, c, g, R, d, m, P) ==
  /\ Good(g, c, R) /\ Free(c, e)
  /\ d = [c EXCEPT ![q] = Insert(c[q], Len(c[q]) + 1, e)]
  /\ Partly(g, m, q, e, At(q, c[q], Len(c[q])), P)

LinkInv ==
  /\ pending \in [before : SUBSET Store, after : SUBSET Store]
  /\ pending = NoStores => State
  /\ pending # NoStores =>
       /\ Idle
       /\ \E q \in ready \cap ChainQueues, e \in Elements, c \in [Heads -> Seq(Elements)], g \in Memory :
            Entering(q, e, c, g, ready, content, mem, pending)

\* Where it is being entered.
LEMMA EnteringAt ==
  ASSUME NEW q \in ready, q \in ChainQueues, NEW e \in Elements, NEW c, NEW g, Good(g, c, ready), Free(c, e)
  PROVE  LET p == At(q, c[q], Len(c[q])) IN
         /\ g \in Memory /\ q \in Queues /\ q \in Heads /\ q \in Nodes /\ e \in Nodes /\ p \in Nodes /\ e # p /\ e # q
         /\ g.next[p] = q /\ g.prev[q] = p /\ Len(c[q]) \in Nat /\ Len(c[q]) + 1 \in 1 .. Len(c[q]) + 1
         /\ At(q, c[q], (Len(c[q]) + 1) - 1) = p /\ At(q, c[q], Len(c[q]) + 1) = q
<1> DEFINE n == Len(c[q])
           p == At(q, c[q], n)
           i == n + 1
<1>1. q \in Queues /\ q \in Heads /\ q \in Nodes BY Kinds DEF Queues, Heads
<1>2. n \in Nat BY <1>1, GoodAt
<1>3. i \in 1 .. n + 1 /\ i - 1 = n /\ At(q, c[q], i) = q BY <1>2 DEF At
<1> HIDE DEF i
<1>4. Joined(g, c, At(q, c[q], i - 1), At(q, c[q], i)) BY <1>1, <1>3, Gap
<1>5. g \in Memory /\ p \in Nodes /\ g.next[p] = q /\ g.prev[q] = p /\ e \in Nodes /\ e # p /\ e # q
  BY <1>3, <1>4 DEF Joined
<1> QED BY <1>1, <1>2, <1>3, <1>5 DEF i

LEMMA EnterBegins ==
  ASSUME LinkInv, NEW q \in ChainQueues, NEW e \in Elements, queue_enter(q, e)
  PROVE  LinkInv'
<1> DEFINE n == Len(content[q])
           p == At(q, content[q], n)
           P == QueueEnter(mem, q, e)
<1>1. q \in Heads BY DEF Queues, Heads
<1>2. /\ MayEnter(e, q) /\ pending = NoStores /\ pending' = P /\ mem' = mem /\ ready' = ready /\ it' = it
      /\ content' = [content EXCEPT ![q] = Insert(content[q], n + 1, e)]
  BY DEF queue_enter
<1>3. State /\ Idle BY <1>2 DEF LinkInv, MayEnter, Usable
<1>4. q \in ready /\ Free(content, e) BY <1>1, <1>2, <1>3, Entered
<1>5. /\ mem \in Memory /\ q \in Nodes /\ e \in Nodes /\ p \in Nodes /\ e # p /\ e # q
      /\ mem.next[p] = q /\ mem.prev[q] = p
  BY <1>3, <1>4, EnteringAt DEF State
<1>6. P = [before |-> {Prev_(e, p), Next_(e, q)}, after |-> {Next_(p, e), Prev_(q, e)}]
  BY <1>5 DEF QueueEnter
<1> HIDE DEF P
<1>7. P.before = {Prev_(e, p), Next_(e, q)} /\ P.after = {Next_(p, e), Prev_(q, e)} BY <1>6
<1>8. P \in [before : SUBSET Store, after : SUBSET Store]
  <2> HIDE DEF p
  <2>1. {Prev_(e, p), Next_(e, q), Next_(p, e), Prev_(q, e)} \subseteq Store BY <1>5 DEF Store, Next_, Prev_
  <2> QED BY <1>6, <2>1
<1>9. P # NoStores BY <1>7 DEF NoStores
<1>10. Partly(mem, mem, q, e, p, P)
  <2> HIDE DEF p
  <2> QED BY <1>5, <1>7 DEF Partly
<1>11. Idle' BY <1>2, <1>3 DEF Idle
<1>12. Entering(q, e, content, mem, ready', content', mem', pending')
  BY <1>2, <1>3, <1>4, <1>10 DEF Entering, State
<1>13. content \in [Heads -> Seq(Elements)] /\ q \in ready' \cap ChainQueues BY <1>2, <1>3, <1>4 DEF State, Good
<1> QED BY <1>2, <1>5, <1>8, <1>9, <1>11, <1>12, <1>13 DEF LinkInv

LEMMA EnterStores ==
  ASSUME LinkInv, NEW s \in pending.before \cup pending.after, queue_enter_store(s)
  PROVE  LinkInv'
<1> DEFINE P == [before |-> pending.before \ {s}, after |-> pending.after \ {s}]
<1>1. /\ s \in pending.before \/ (pending.before = {} /\ s \in pending.after)
      /\ mem' = mem ++ s /\ pending' = P /\ ready' = ready /\ it' = it /\ content' = content
  BY DEF queue_enter_store
<1>2. pending # NoStores BY DEF NoStores
<1>3. PICK q \in ready \cap ChainQueues, e \in Elements, c \in [Heads -> Seq(Elements)], g \in Memory :
        Entering(q, e, c, g, ready, content, mem, pending)
  BY <1>2 DEF LinkInv
<1> DEFINE p == At(q, c[q], Len(c[q]))
<1>4. /\ Good(g, c, ready) /\ Free(c, e) /\ Partly(g, mem, q, e, p, pending)
      /\ content = [c EXCEPT ![q] = Insert(c[q], Len(c[q]) + 1, e)]
  BY <1>3 DEF Entering
<1>5. /\ q \in Queues /\ q \in Heads /\ q \in Nodes /\ e \in Nodes /\ p \in Nodes /\ e # p /\ e # q
      /\ Len(c[q]) \in Nat /\ Len(c[q]) + 1 \in 1 .. Len(c[q]) + 1
      /\ At(q, c[q], (Len(c[q]) + 1) - 1) = p /\ At(q, c[q], Len(c[q]) + 1) = q
  BY <1>4, EnteringAt
<1>6. Partly(g, mem ++ s, q, e, p, P) BY <1>1, <1>4, <1>5, PartlyStep
<1>7. P \in [before : SUBSET Store, after : SUBSET Store]
  <2>1. pending.before \subseteq Store /\ pending.after \subseteq Store BY DEF LinkInv
  <2> QED BY <2>1
<1>8. Idle' BY <1>1, <1>2 DEF LinkInv, Idle
<1> HIDE DEF P
<1>9. CASE P = NoStores
  <2>1. P.before = {} /\ P.after = {} BY <1>9 DEF NoStores
  <2>2. Between(g, mem ++ s, p, e, q)
    <3> HIDE DEF p
    <3> QED BY <1>6, <2>1 DEF Partly, Between
  <2>3. Between(g, mem ++ s, At(q, c[q], (Len(c[q]) + 1) - 1), e, At(q, c[q], Len(c[q]) + 1)) BY <1>5, <2>2
  <2>4. Good(mem ++ s, [c EXCEPT ![q] = Insert(c[q], Len(c[q]) + 1, e)], ready)
    BY <1>4, <1>5, <2>3, GoodInsert
  <2>5. State' BY <1>1, <1>4, <2>4 DEF State
  <2> QED BY <1>1, <1>7, <1>9, <2>5 DEF LinkInv
<1>10. CASE P # NoStores
  <2>1. Entering(q, e, c, g, ready', content', mem', pending') BY <1>1, <1>4, <1>6 DEF Entering
  <2>2. q \in ready' \cap ChainQueues BY <1>1
  <2> QED BY <1>1, <1>7, <1>8, <1>10, <2>1, <2>2 DEF LinkInv
<1> QED BY <1>9, <1>10

\* Half way, the element is not there yet, or already reached and leading on.
LEMMA HalfWay ==
  ASSUME LinkInv
  PROVE  StackshotWalksWholeQueue
<1> SUFFICES ASSUME pending # NoStores, NEW r \in ready \cap ChainQueues, content[r] # <<>>
             PROVE  Forward(mem, Turn(r, Delete(content[r], Len(content[r])))) \/ Forward(mem, Turn(r, content[r]))
  BY DEF StackshotWalksWholeQueue
<1>1. PICK q \in ready \cap ChainQueues, e \in Elements, c \in [Heads -> Seq(Elements)], g \in Memory :
        Entering(q, e, c, g, ready, content, mem, pending)
  BY DEF LinkInv
<1> DEFINE p == At(q, c[q], Len(c[q]))
           d == [c EXCEPT ![q] = Insert(c[q], Len(c[q]) + 1, e)]
<1>2. Good(g, c, ready) /\ Free(c, e) /\ Partly(g, mem, q, e, p, pending) /\ content = d BY <1>1 DEF Entering
<1>3. /\ q \in Queues /\ q \in Heads /\ q \in Nodes /\ e \in Nodes /\ p \in Nodes /\ e # p /\ e # q
      /\ g.next[p] = q
      /\ Len(c[q]) \in Nat /\ Len(c[q]) + 1 \in 1 .. Len(c[q]) + 1
      /\ At(q, c[q], (Len(c[q]) + 1) - 1) = p /\ At(q, c[q], Len(c[q]) + 1) = q
  BY <1>2, EnteringAt
<1>4. r \in Heads /\ r \in Queues /\ r \in ready BY DEF Heads, Queues
<1>5. c[r] \in Seq(Elements) /\ Linked(g, r, c[r]) BY <1>2, <1>4, GoodAt
<1>6. \A m, t : Ring(m, t) => Forward(m, t) BY DEF Ring
<1>7. CASE Next_(p, e) \in pending.after
  <2>1. \A n \in Nodes : n # e => mem.next[n] = g.next[n]
    <3> HIDE DEF p
    <3> QED BY <1>2, <1>3, <1>7 DEF Partly
  <2>2. Turn(r, c[r]) \in Seq(Nodes) /\ Off(e, Turn(r, c[r])) /\ Ring(g, Turn(r, c[r]))
    <3>1. Apart(c[r]) /\ Off(e, c[r]) BY <1>2, <1>4, GoodAt DEF Free
    <3> QED BY <1>4, <1>5, <3>1, TurnIs, ApartTurn, RingOfQueue
  <2>3. Forward(mem, Turn(r, c[r]))
    <3> DEFINE t == Turn(r, c[r])
    <3>1. \A i \in 1 .. Len(t) : t[i] \in Nodes /\ t[i] # e BY <2>2, Lengths DEF Off
    <3>2. \A i \in 1 .. Len(t) : g.next[t[i]] = t[Up(i, Len(t))] BY <2>2 DEF Ring, Forward
    <3> QED BY <2>1, <3>1, <3>2 DEF Forward
  <2>4. c[r] = content[r] \/ c[r] = Delete(content[r], Len(content[r]))
    <3>1. CASE r = q
      <4>1. content[r] = Insert(c[r], Len(c[r]) + 1, e) BY <1>2, <1>3, <3>1
      <4> QED BY <1>5, <4>1, DeleteInsert
    <3>2. CASE r # q BY <1>2, <1>4, <3>2
    <3> QED BY <3>1, <3>2
  <2> QED BY <2>3, <2>4
<1>8. CASE Next_(p, e) \notin pending.after
  <2> DEFINE k == [next |-> mem.next, prev |-> [[g.prev EXCEPT ![e] = p] EXCEPT ![q] = e]]
  <2>1. mem.next[p] = e /\ mem.next[e] = q /\ \A n \in Nodes : n # p /\ n # e => mem.next[n] = g.next[n]
    <3>1. Next_(e, q) \notin pending.before BY <1>2, <1>8 DEF Partly
    <3> HIDE DEF p
    <3> QED BY <1>2, <1>8, <3>1 DEF Partly
  <2>2. Between(g, k, p, e, q)
    <3> HIDE DEF p
    <3>1. mem.next \in [Nodes -> Nodes \cup {Null}] /\ g.prev \in [Nodes -> Nodes \cup {Null}]
      BY <1>2, Read DEF Partly
    <3>2. k \in Memory BY <1>3, <3>1 DEF Memory
    <3> QED BY <1>3, <2>1, <3>1, <3>2 DEF Between
  <2> HIDE DEF k
  <2>3. Between(g, k, At(q, c[q], (Len(c[q]) + 1) - 1), e, At(q, c[q], Len(c[q]) + 1)) BY <1>3, <2>2
  <2>4. Good(k, d, ready) BY <1>2, <1>3, <2>3, GoodInsert
  <2>5. Linked(k, r, content[r]) BY <1>2, <1>4, <2>4, GoodAt
  <2>6. Forward(k, Turn(r, content[r])) BY <2>5 DEF Linked
  <2>7. k.next = mem.next BY DEF k
  <2> QED BY <2>6, <2>7 DEF Forward
<1> QED BY <1>7, <1>8

----------------------------------------------------------------------------
\* The safe iterations.

Stop(q, f, i) == IF i \in 1 .. Len(f) THEN f[i] ELSE EndOf(q)

\* The iteration w has met a part of what was on its head, is at the next
\* element or at the end, knows the one behind it, and finds on the queue, s,
\* what it has still to meet.
Walks(w, s) ==
  LET f == w.from  j == Len(w.seen)  n == Len(w.from)  d == Len(w.from) - Len(s) IN
  /\ w \in [on : Heads, at : Nodes \cup {Null}, ne : Nodes \cup {Null}, seen : Seq(Elements), from : Seq(Elements)]
  /\ Apart(f) /\ j <= n /\ \A i \in 1 .. j : w.seen[i] = f[i]
  /\ w.at = Stop(w.on, f, j + 1) /\ (j < n => w.ne = Stop(w.on, f, j + 2))
  /\ \A i \in j + 2 .. n : i - d \in 1 .. Len(s) /\ s[i - d] = f[i]
  /\ \A i \in 1 .. Len(s) : s[i] = w.at => i = j + 1 - d

WalkInv ==
  it # NoIteration =>
    /\ pending = NoStores /\ it.on \in ready \cap (LinkQueues \cup Circles)
    /\ Walks(it, content[it.on])

LEMMA EndIs ==
  ASSUME NEW q \in Heads
  PROVE  EndOf(q) \in Nodes \cup {Null} /\ EndOf(q) \notin Elements
BY Kinds DEF EndOf

LEMMA StopIs ==
  ASSUME NEW q \in Heads, NEW f \in Seq(Elements), NEW i \in Int
  PROVE  /\ Stop(q, f, i) \in Nodes \cup {Null}
         /\ Stop(q, f, i) = EndOf(q) <=> i \notin 1 .. Len(f)
<1>1. \A j \in 1 .. Len(f) : f[j] \in Elements /\ f[j] \in Nodes BY Lengths, Kinds
<1> QED BY <1>1, EndIs DEF Stop

LEMMA NextStop ==
  ASSUME State, NEW q \in ready, NEW i \in 1 .. Len(content[q])
  PROVE  NextOf(q, content[q][i]) = Stop(q, content[q], i + 1)
<1> DEFINE s == content[q]
           n == Len(s)
<1>1. q \in Heads BY DEF State, Good
<1>2. CASE q \in Queues
  <2>1. q \notin Circles BY <1>1, <1>2, Kinds
  <2>2. mem.next[s[i]] = At(q, s, i + 1) BY <1>2, Around DEF State
  <2> QED BY <2>1, <2>2 DEF NextOf, Stop, EndOf, At
<1>3. CASE q \in Circles
  <2>1. /\ n \in Nat /\ Ring(mem, s) /\ Apart(s) /\ s[i] # Null
        /\ n # 0 => CircleFirst(mem, q) = s[1]
    BY <1>3, CircleIs DEF State
  <2>2. n # 0 /\ 1 \in 1 .. n /\ i \in 1 .. n /\ Up(i, n) \in 1 .. n BY <2>1 DEF Up
  <2>3. mem.next[s[i]] = s[Up(i, n)] BY <2>1 DEF Ring, Forward
  <2>4. s[Up(i, n)] = s[1] <=> Up(i, n) = 1 BY <2>1, <2>2 DEF Apart
  <2>5. NextOf(q, s[i]) = IF Up(i, n) = 1 THEN Null ELSE s[Up(i, n)]
    BY <1>3, <2>1, <2>2, <2>3, <2>4 DEF NextOf, CircleNext
  <2>6. EndOf(q) = Null BY <1>3 DEF EndOf
  <2>7. CASE i = n BY <2>1, <2>2, <2>5, <2>6, <2>7 DEF Up, Stop
  <2>8. CASE i # n
    <3>1. Up(i, n) = i + 1 /\ i + 1 # 1 /\ i + 1 \in 1 .. n BY <2>1, <2>2, <2>8 DEF Up
    <3> QED BY <2>5, <3>1 DEF Stop
  <2> QED BY <2>7, <2>8
<1> QED BY <1>1, <1>2, <1>3 DEF Heads

LEMMA WalkBegins ==
  ASSUME LinkInv, NEW q \in LinkQueues \cup Circles, foreach_safe_begin(q)
  PROVE  WalkInv'
<1> DEFINE s == content[q]
           n == Len(s)
           w == [on |-> q, at |-> mem.next[q], ne |-> NextOf(q, mem.next[q]), seen |-> <<>>, from |-> s]
<1>1. /\ q \in ready /\ pending = NoStores /\ it' = w
      /\ pending' = pending /\ ready' = ready /\ content' = content
  BY DEF foreach_safe_begin, Usable
<1>2. State /\ q \in Heads BY <1>1 DEF LinkInv, Heads, Queues
<1>3. /\ s \in Seq(Elements) /\ Apart(s) /\ n \in Nat /\ mem \in Memory
      /\ \A i \in 1 .. n : s[i] \in Elements /\ s[i] \in Nodes
  BY <1>2, GoodAt, Kinds DEF State
<1>4. mem.next[q] = Stop(q, s, 1)
  <2>1. CASE q \in Queues
    <3>1. Linked(mem, q, s) BY <1>1, <1>2, GoodAt DEF State
    <3>2. mem.next[At(q, s, 0)] = At(q, s, 0 + 1)
      <4>1. 0 \in 0 .. Len(s) BY <1>3
      <4> QED BY <1>3, <2>1, <3>1, <4>1, QueueLinks
    <3>3. q \notin Circles BY <1>2, <2>1, Kinds
    <3> QED BY <1>3, <3>2, <3>3 DEF At, Stop, EndOf
  <2>2. CASE q \in Circles
    <3>1. mem.next[q] = IF n = 0 THEN Null ELSE s[1] BY <1>1, <1>2, <2>2, CircleIs DEF State, CircleFirst
    <3> QED BY <1>3, <2>2, <3>1 DEF Stop, EndOf
  <2> QED BY <1>2, <2>1, <2>2 DEF Heads
<1>5. n > 0 => NextOf(q, mem.next[q]) = Stop(q, s, 2)
  <2>1. ASSUME n > 0 PROVE NextOf(q, mem.next[q]) = Stop(q, s, 2)
    <3>1. 1 \in 1 .. n /\ mem.next[q] = s[1] /\ 1 + 1 = 2 BY <1>3, <1>4, <2>1 DEF Stop
    <3>2. \A i \in 1 .. n : NextOf(q, s[i]) = Stop(q, s, i + 1) BY <1>1, <1>2, NextStop
    <3>3. NextOf(q, s[1]) = Stop(q, s, 1 + 1) BY <3>1, <3>2, Zenon
    <3> QED BY <3>1, <3>3, Zenon
  <2> QED BY <2>1
<1>6. mem.next[q] \in Nodes \cup {Null} /\ NextOf(q, mem.next[q]) \in Nodes \cup {Null}
  <2>1. mem.next[q] \in Nodes \cup {Null} BY <1>2, <1>3, <1>4, StopIs
  <2>2. CASE n > 0
    <3>1. 2 \in Int OBVIOUS
    <3>2. Stop(q, s, 2) \in Nodes \cup {Null} BY <1>2, <1>3, <3>1, StopIs
    <3> QED BY <1>5, <2>1, <2>2, <3>2
  <2>3. CASE ~(n > 0)
    <3>1. mem.next[q] = EndOf(q) BY <1>3, <1>4, <2>3 DEF Stop
    <3>2. q \in Nodes BY <1>2, Kinds
    <3>3. CASE q \in Circles BY <3>1, <3>3 DEF NextOf, EndOf
    <3>4. CASE q \notin Circles
      <4>1. NextOf(q, mem.next[q]) = mem.next[q] BY <3>1, <3>4, Zenon DEF NextOf, EndOf
      <4> QED BY <2>1, <4>1
    <3> QED BY <2>1, <3>3, <3>4
  <2> QED BY <2>1, <2>2, <2>3
<1>7. /\ w.on = q /\ w.at = mem.next[q] /\ w.ne = NextOf(q, mem.next[q]) /\ w.seen = <<>> /\ w.from = s
      /\ w \in [on : Heads, at : Nodes \cup {Null}, ne : Nodes \cup {Null}, seen : Seq(Elements), from : Seq(Elements)]
  BY <1>2, <1>3, <1>6
<1> HIDE DEF w
<1>8. Walks(w, s)
  <2>1. Len(w.seen) = 0 /\ n - n = 0 BY <1>3, <1>7
  <2>2. \A i \in 2 .. n : i - 0 \in 1 .. n /\ s[i - 0] = s[i] BY <1>3
  <2>3. \A i \in 1 .. n : s[i] = w.at => i = 1
    <3>1. CASE n = 0 BY <3>1
    <3>2. CASE n # 0
      <4>1. 1 \in 1 .. n /\ w.at = s[1] BY <1>3, <1>4, <1>7, <3>2 DEF Stop
      <4> QED BY <1>3, <4>1 DEF Apart
    <3> QED BY <3>1, <3>2
  <2> QED BY <1>3, <1>4, <1>5, <1>7, <2>1, <2>2, <2>3 DEF Walks
<1> QED BY <1>1, <1>7, <1>8 DEF WalkInv

LEMMA WalkGoesOn ==
  ASSUME LinkInv, WalkInv, NEW q \in LinkQueues \cup Circles, foreach_safe_next(q)
  PROVE  WalkInv'
<1> DEFINE s == content[q]
           f == it.from
           j == Len(it.seen)
           n == Len(f)
           d == n - Len(s)
           w == [it EXCEPT !.at = it.ne, !.ne = NextOf(q, it.ne), !.seen = Append(it.seen, it.at)]
<1>1. /\ it.on = q /\ pending = NoStores /\ it.at # EndOf(q) /\ it' = w
      /\ pending' = pending /\ ready' = ready /\ content' = content
  BY DEF foreach_safe_next
<1>2. q \in Heads /\ State BY <1>1 DEF LinkInv, Heads, Queues
<1>3. it # NoIteration
  <2>1. q # Null BY <1>2, Kinds
  <2> QED BY <1>1, <2>1 DEF NoIteration
<1>4. q \in ready /\ Walks(it, s) BY <1>1, <1>3 DEF WalkInv
<1>5. /\ s \in Seq(Elements) /\ Apart(s) /\ Len(s) \in Nat /\ mem \in Memory
      /\ \A i \in 1 .. Len(s) : s[i] \in Elements
  BY <1>2, GoodAt DEF State
<1>6. /\ it \in [on : Heads, at : Nodes \cup {Null}, ne : Nodes \cup {Null}, seen : Seq(Elements), from : Seq(Elements)]
      /\ Apart(f) /\ j <= n /\ \A i \in 1 .. j : it.seen[i] = f[i]
      /\ it.at = Stop(q, f, j + 1) /\ (j < n => it.ne = Stop(q, f, j + 2))
      /\ \A i \in j + 2 .. n : i - d \in 1 .. Len(s) /\ s[i - d] = f[i]
  BY <1>1, <1>4 DEF Walks
<1>7. /\ it.seen \in Seq(Elements) /\ f \in Seq(Elements) /\ j \in Nat /\ n \in Nat /\ d \in Int
      /\ \A i \in 1 .. n : f[i] \in Elements
  <2>1. it.seen \in Seq(Elements) /\ f \in Seq(Elements) BY <1>6
  <2> QED BY <1>5, <2>1, Lengths
<1>8. j + 1 \in 1 .. n /\ j < n /\ it.at = f[j + 1]
  <2>1. j + 1 \in Int BY <1>7
  <2>2. j + 1 \in 1 .. n BY <1>1, <1>2, <1>6, <1>7, <2>1, StopIs
  <2> QED BY <1>6, <1>7, <2>2 DEF Stop
<1>9. it.ne = Stop(q, f, j + 2) BY <1>6, <1>8
<1>10. j + 2 <= n => NextOf(q, it.ne) = Stop(q, f, j + 3)
  <2> SUFFICES ASSUME j + 2 <= n PROVE NextOf(q, it.ne) = Stop(q, f, j + 3) OBVIOUS
  <2> DEFINE k == (j + 2) - d
  <2>1. j + 2 \in 1 .. n /\ j + 2 \in j + 2 .. n BY <1>7
  <2>2. it.ne = f[j + 2] /\ k \in 1 .. Len(s) /\ s[k] = f[j + 2] BY <1>6, <1>9, <2>1 DEF Stop
  <2>3. \A i \in 1 .. Len(s) : NextOf(q, s[i]) = Stop(q, s, i + 1) BY <1>2, <1>4, NextStop
  <2>4. NextOf(q, it.ne) = Stop(q, s, k + 1) BY <2>2, <2>3
  <2>5. k + 1 = (j + 3) - d /\ k \in Int
    <3> HIDE DEF j, d
    <3> QED BY <1>7
  <2>6. CASE j + 3 <= n
    <3>1. j + 3 \in j + 2 .. n /\ j + 3 \in 1 .. n BY <1>7, <2>6
    <3>2. (j + 3) - d \in 1 .. Len(s) /\ s[(j + 3) - d] = f[j + 3] BY <1>6, <3>1
    <3> QED BY <2>4, <2>5, <3>1, <3>2 DEF Stop
  <2>7. CASE ~(j + 3 <= n)
    <3>1. k + 1 \notin 1 .. Len(s) /\ j + 3 \notin 1 .. n
      <4> DEFINE h == Len(s)
      <4>1. d = n - h /\ h \in Nat BY <1>5
      <4> HIDE DEF j, n, d, h
      <4>2. k + 1 \notin 1 .. h /\ j + 3 \notin 1 .. n BY <1>7, <2>1, <2>7, <4>1
      <4> QED BY <4>2 DEF h
    <3> QED BY <2>4, <3>1 DEF Stop
  <2> QED BY <2>6, <2>7
<1>11. NextOf(q, it.ne) \in Nodes \cup {Null} /\ it.ne \in Nodes \cup {Null}
  <2>1. it.ne \in Nodes \cup {Null} BY <1>6
  <2>2. CASE j + 2 <= n
    <3>1. j + 3 \in Int BY <1>7
    <3> QED BY <1>2, <1>7, <1>10, <2>1, <2>2, <3>1, StopIs
  <2>3. CASE ~(j + 2 <= n)
    <3>1. it.ne = EndOf(q) BY <1>7, <1>9, <2>3 DEF Stop
    <3>2. q \in Nodes BY <1>2, Kinds
    <3>3. CASE q \in Circles BY <2>1, <3>1, <3>3 DEF NextOf, EndOf
    <3>4. CASE q \notin Circles
      <4>1. NextOf(q, it.ne) = mem.next[q] BY <3>1, <3>4, Zenon DEF NextOf, EndOf
      <4> QED BY <1>5, <2>1, <3>2, <4>1, Read
    <3> QED BY <3>3, <3>4
  <2> QED BY <2>2, <2>3
<1>12. /\ Append(it.seen, it.at) \in Seq(Elements) /\ Len(Append(it.seen, it.at)) = j + 1
       /\ \A i \in 1 .. j + 1 : Append(it.seen, it.at)[i] = f[i]
  <2>1. it.at \in Elements BY <1>7, <1>8
  <2>2. /\ Append(it.seen, it.at) \in Seq(Elements) /\ Len(Append(it.seen, it.at)) = j + 1
        /\ Append(it.seen, it.at)[j + 1] = it.at
        /\ \A i \in 1 .. j : Append(it.seen, it.at)[i] = it.seen[i]
    BY <1>7, <2>1
  <2> QED BY <1>6, <1>7, <1>8, <2>2
<1>13. /\ w \in [on : Heads, at : Nodes \cup {Null}, ne : Nodes \cup {Null}, seen : Seq(Elements), from : Seq(Elements)]
       /\ w.on = q /\ w.at = it.ne /\ w.ne = NextOf(q, it.ne) /\ w.seen = Append(it.seen, it.at) /\ w.from = f
  BY <1>1, <1>6, <1>11, <1>12
<1>14. \A i \in 1 .. Len(s) : s[i] = it.ne => i = (j + 2) - d
  <2>1. CASE j + 2 <= n
    <3>1. j + 2 \in j + 2 .. n /\ j + 2 \in 1 .. n BY <1>7, <2>1
    <3>2. (j + 2) - d \in 1 .. Len(s) /\ s[(j + 2) - d] = f[j + 2] /\ it.ne = f[j + 2]
      BY <1>6, <1>9, <3>1 DEF Stop
    <3> QED BY <1>5, <3>2 DEF Apart
  <2>2. CASE ~(j + 2 <= n)
    <3>1. it.ne = EndOf(q) BY <1>7, <1>9, <2>2 DEF Stop
    <3> QED BY <1>2, <1>5, <3>1, EndIs
  <2> QED BY <2>1, <2>2
<1> HIDE DEF w
<1>15. Walks(w, s)
  <2>1. Len(w.seen) = j + 1 /\ \A i \in 1 .. j + 1 : w.seen[i] = f[i] BY <1>12, <1>13
  <2>2. (j + 1) + 1 = j + 2 /\ (j + 1) + 2 = j + 3 /\ j + 1 <= n /\ (j + 1 < n => j + 2 <= n) BY <1>7, <1>8
  <2>3. w.at = Stop(w.on, f, (j + 1) + 1) BY <1>9, <1>13, <2>2
  <2>4. j + 1 < n => w.ne = Stop(w.on, f, (j + 1) + 2) BY <1>10, <1>13, <2>2
  <2>5. \A i \in (j + 1) + 2 .. n : i - d \in 1 .. Len(s) /\ s[i - d] = f[i] BY <1>6, <1>7
  <2>6. \A i \in 1 .. Len(s) : s[i] = w.at => i = (j + 1) + 1 - d
    <3> HIDE DEF j, d
    <3> QED BY <1>7, <1>13, <1>14
  <2>7. w.from = f /\ Len(w.from) = n /\ Len(w.seen) = j + 1 BY <1>13, <2>1
  <2>8. Apart(w.from) /\ Len(w.seen) <= Len(w.from) /\ \A i \in 1 .. Len(w.seen) : w.seen[i] = w.from[i]
    BY <1>6, <2>1, <2>2, <2>7
  <2>9. /\ w.at = Stop(w.on, w.from, Len(w.seen) + 1)
        /\ Len(w.seen) < Len(w.from) => w.ne = Stop(w.on, w.from, Len(w.seen) + 2)
    BY <2>3, <2>4, <2>7
  <2>10. /\ \A i \in Len(w.seen) + 2 .. Len(w.from) :
              i - (Len(w.from) - Len(s)) \in 1 .. Len(s) /\ s[i - (Len(w.from) - Len(s))] = w.from[i]
         /\ \A i \in 1 .. Len(s) : s[i] = w.at => i = Len(w.seen) + 1 - (Len(w.from) - Len(s))
    BY <2>5, <2>6, <2>7
  <2> QED BY <1>13, <2>8, <2>9, <2>10 DEF Walks
<1> QED BY <1>1, <1>4, <1>13, <1>15 DEF WalkInv

LEMMA WalksDelete ==
  ASSUME NEW w, NEW s \in Seq(Elements), Apart(s), Walks(w, s), NEW k \in 1 .. Len(s), s[k] = w.at
  PROVE  Walks(w, Delete(s, k))
<1> DEFINE t == Delete(s, k)
           f == w.from
           j == Len(w.seen)
           n == Len(f)
           h == Len(s)
           d == n - h
<1>1. /\ t \in Seq(Elements) /\ Len(t) = h - 1
      /\ \A i \in k .. h - 1 : t[i] = s[i + 1]
  BY DeleteIs
<1>2. /\ \A i \in j + 2 .. n : i - d \in 1 .. h /\ s[i - d] = f[i]
      /\ k = j + 1 - d /\ w.seen \in Seq(Elements) /\ f \in Seq(Elements)
  BY DEF Walks
<1>3. h \in Nat /\ n \in Nat /\ j \in Nat /\ d = n - h /\ k \in 1 .. h BY <1>2, Lengths
<1>4. Off(w.at, t) BY ApartDelete
<1>5. Len(t) = h - 1 /\ n - Len(t) = d + 1
  <2> HIDE DEF t, n, d
  <2> QED BY <1>1, <1>3
<1> HIDE DEF t
<1>6. ASSUME NEW i \in j + 2 .. n PROVE i - (n - Len(t)) \in 1 .. Len(t) /\ t[i - (n - Len(t))] = f[i]
  <2> DEFINE l == i - (d + 1)
  <2>1. l \in k .. h - 1 /\ l + 1 = i - d
    <3> HIDE DEF j, n, d, h
    <3> QED BY <1>2, <1>3
  <2>2. t[l] = f[i]
    <3>1. i - d \in 1 .. h /\ s[i - d] = f[i] BY <1>2
    <3>2. t[l] = s[l + 1] BY <1>1, <2>1
    <3> QED BY <2>1, <3>1, <3>2
  <2>3. l \in 1 .. Len(t)
    <3> HIDE DEF h, l
    <3> QED BY <1>3, <1>5, <2>1
  <2> QED BY <1>5, <2>2, <2>3
<1>7. \A i \in 1 .. Len(t) : t[i] # w.at BY <1>4 DEF Off
<1>8. Walks(w, t) BY <1>6, <1>7 DEF Walks
<1> QED BY <1>8 DEF t

\* The current element leaves what is iterated over.
Loses ==
  \E q \in LinkQueues \cup Circles : \E e :
    /\ it.on = q /\ it.at = e /\ On(e, q) /\ content'[q] = Without(q, e) /\ ready' = ready

LEMMA WalkLoses ==
  ASSUME State, WalkInv, Loses, pending = NoStores, pending' = pending, it' = it
  PROVE  WalkInv'
<1>7. PICK q \in LinkQueues \cup Circles : \E e :
        it.on = q /\ it.at = e /\ On(e, q) /\ content'[q] = Without(q, e) /\ ready' = ready
  BY DEF Loses
<1>1. PICK e : it.on = q /\ it.at = e /\ On(e, q) /\ content'[q] = Without(q, e) /\ ready' = ready
  BY <1>7
<1> DEFINE k == Place(q, e)
<1>2. q \in Heads BY DEF Heads, Queues
<1>3. k \in 1 .. Len(content[q]) /\ content[q][k] = e BY <1>1, <1>2, Placed
<1>4. content'[q] = Delete(content[q], k) BY <1>1 DEF Without
<1>5. content[q] \in Seq(Elements) /\ Apart(content[q]) BY <1>2, GoodAt DEF State
<1> HIDE DEF k
<1>6. ASSUME it # NoIteration
      PROVE  it.on' \in ready' \cap (LinkQueues \cup Circles) /\ Walks(it', content'[q]) /\ it.on' = q
  <2>1. q \in ready /\ Walks(it, content[q]) BY <1>1, <1>6 DEF WalkInv
  <2>2. Walks(it, Delete(content[q], k)) BY <1>1, <1>3, <1>5, <2>1, WalksDelete
  <2> QED BY <1>1, <1>4, <2>1, <2>2
<1> QED BY <1>6 DEF WalkInv

\* The steps, by what they do to the invariants.
Op == pending = NoStores /\ pending' = pending /\ it' = it /\ State' /\ (Idle \/ Loses)

LEMMA LinkStep ==
  ASSUME LinkInv, WalkInv, Op
  PROVE  LinkInv' /\ WalkInv'
<1>1. State BY DEF LinkInv, Op
<1>2. pending' = NoStores /\ NoStores \in [before : SUBSET Store, after : SUBSET Store] BY DEF Op, NoStores
<1>3. LinkInv' BY <1>2 DEF LinkInv, Op
<1>4. CASE Loses
  <2>1. pending = NoStores /\ pending' = pending /\ it' = it BY DEF Op
  <2>2. WalkInv' BY ONLY <1>1, <1>4, <2>1, WalkInv, WalkLoses
  <2> QED BY <1>3, <2>2
<1>5. CASE Idle
  <2>1. it' = NoIteration BY <1>5 DEF Op, Idle
  <2> QED BY <1>3, <2>1 DEF WalkInv
<1> QED BY <1>3, <1>4, <1>5 DEF Op

LEMMA Moves ==
  ASSUME NEW m, NEW c, Leaves(m, c), State', Idle \/ Loses
  PROVE  Op
BY DEF Leaves, Op

\* An element leaves while the others may be iterated over.
LEMMA MayLose ==
  ASSUME WalkInv, NEW q \in Heads, NEW e, MayLeave(e, q), content'[q] = Without(q, e), ready' = ready
  PROVE  Idle \/ Loses
<1>1. CASE Idle BY <1>1
<1>2. CASE ~Idle
  <2>1. it.on = q /\ it.at = e /\ On(e, q) BY <1>2 DEF MayLeave
  <2>2. it # NoIteration BY <1>2 DEF Idle
  <2>3. it.on \in LinkQueues \cup Circles BY <2>2 DEF WalkInv
  <2> QED BY <2>1, <2>3 DEF Loses
<1> QED BY <1>1, <1>2

LEMMA IsOp ==
  ASSUME LinkInv, WalkInv, State',
         \/ \E q \in Heads : \E m, s : Usable(q) /\ Do(q, m, s)
         \/ \E m, c : Idle /\ Leaves(m, c)
         \/ \E q \in Heads : \E e, m, c : MayLeave(e, q) /\ Leaves(m, c) /\ c[q] = Without(q, e) /\ ready' = ready
  PROVE  Op
<1>1. ASSUME NEW q \in Heads, NEW m, NEW s, Usable(q), Do(q, m, s) PROVE Op
  <2>1. Idle BY <1>1 DEF Usable
  <2> QED BY <1>1, <2>1, Moves DEF Do
<1>2. ASSUME NEW m, NEW c, Idle, Leaves(m, c) PROVE Op BY <1>2, Moves
<1>3. ASSUME NEW q \in Heads, NEW e, NEW m, NEW c, MayLeave(e, q), Leaves(m, c), c[q] = Without(q, e), ready' = ready
      PROVE  Op
  <2>1. content'[q] = Without(q, e) BY <1>3 DEF Leaves
  <2>2. Idle \/ Loses BY <1>3, <2>1, MayLose
  <2> QED BY <1>3, <2>2, Moves
<1> QED BY <1>1, <1>2, <1>3

LEMMA Method1Step ==
  ASSUME LinkInv, WalkInv, NEW q \in LinkQueues, NEW e \in Elements, Method1(q, e)
  PROVE  Op
<1>1. q \in Queues /\ q \in Heads BY DEF Queues, Heads
<1>2. CASE enqueue_head(q, e) \/ enqueue_tail(q, e) \/ \E f \in Elements : insque(q, e, f)
  <2>1. \E m, s : Usable(q) /\ Do(q, m, s) BY <1>2 DEF enqueue_head, enqueue_tail, insque, MayEnter
  <2>2. State BY <2>1 DEF Do, Leaves, LinkInv
  <2>3. State' BY <1>2, <2>2, Method1Enters
  <2> QED BY <1>1, <2>1, <2>3, IsOp
<1>3. CASE remqueue(q, e)
  <2> DEFINE c == [content EXCEPT ![q] = Without(q, e)]
  <2>1. MayLeave(e, q) /\ Leaves(RemQue(mem, e), c) /\ ready' = ready BY <1>3 DEF remqueue, Do
  <2>2. State BY <2>1 DEF Leaves, LinkInv
  <2>3. State' BY <1>1, <1>3, <2>2, ElementLeaves
  <2>4. c[q] = Without(q, e) BY <1>1, <2>2 DEF State, Good
  <2> HIDE DEF c
  <2> QED BY <1>1, <2>1, <2>3, <2>4, IsOp
<1>4. ASSUME NEW to \in LinkQueues, re_queue_head(q, e, to) \/ re_queue_tail(q, e, to) PROVE Op
  <2>1. MayLeave(e, q) /\ ready' = ready /\ to # it.on /\ pending = NoStores /\ pending' = pending /\ it' = it
    BY <1>4 DEF re_queue_head, re_queue_tail, Leaves
  <2>2. State BY <2>1 DEF LinkInv
  <2>3. State' BY <1>4, <2>2, ElementMoves
  <2>4. CASE Idle BY <2>1, <2>3, <2>4 DEF Op
  <2>5. CASE ~Idle
    <3>1. it.on = q BY <2>1, <2>5 DEF MayLeave
    <3>2. content \in [Heads -> Seq(Elements)] BY <2>2 DEF State, Good
    <3>3. content'[q] = Without(q, e)
      <4>1. \E x : content' = [[content EXCEPT ![q] = Without(q, e)] EXCEPT ![to] = x]
        BY <1>4 DEF re_queue_head, re_queue_tail, Leaves
      <4> QED BY <1>1, <2>1, <3>1, <3>2, <4>1
    <3>4. Idle \/ Loses BY <1>1, <2>1, <3>3, MayLose
    <3> QED BY <2>1, <2>3, <3>4 DEF Op
  <2> QED BY <2>4, <2>5
<1> QED BY <1>2, <1>3, <1>4 DEF Method1

LEMMA LinkQueueStep ==
  ASSUME LinkInv, WalkInv, NEW q \in LinkQueues,
         dequeue_head(q) \/ dequeue_tail(q) \/ \E r \in LinkQueues : movqueue(q, r)
  PROVE  Op
<1>1. q \in Queues /\ q \in Heads BY DEF Queues, Heads
<1>2. CASE dequeue_head(q) \/ dequeue_tail(q)
  <2>1. \E m, s : Usable(q) /\ Do(q, m, s) BY <1>2 DEF dequeue_head, dequeue_tail
  <2>2. State BY <2>1 DEF Do, Leaves, LinkInv
  <2>3. State' BY <1>1, <1>2, <2>2, EndsLeave
  <2> QED BY <1>1, <2>1, <2>3, IsOp
<1>3. ASSUME NEW r \in LinkQueues, movqueue(q, r) PROVE Op
  <2>1. \E m, c : Idle /\ Leaves(m, c) BY <1>3 DEF movqueue, Usable
  <2>2. State BY <2>1 DEF Leaves, LinkInv
  <2>3. r \in Queues BY DEF Queues
  <2>4. State' BY <1>1, <1>3, <2>2, <2>3, HeadMoves
  <2> QED BY <2>1, <2>4, IsOp
<1> QED BY <1>2, <1>3

LEMMA Method2Step ==
  ASSUME LinkInv, WalkInv, NEW q \in ChainQueues, NEW e \in Elements, Method2(q, e)
  PROVE  Op \/ queue_enter(q, e)
<1>1. q \in Queues /\ q \in Heads BY DEF Queues, Heads
<1>2. CASE \/ queue_enter_first(q, e)
           \/ \E cur \in Elements \cup {q} : queue_insert_before(q, e, cur) \/ queue_insert_after(q, e, cur)
  <2>1. \E m, s : Usable(q) /\ Do(q, m, s)
    BY <1>2 DEF queue_enter_first, queue_insert_before, queue_insert_after, MayEnter
  <2>2. State BY <2>1 DEF Do, Leaves, LinkInv
  <2>3. State' BY <1>2, <2>2, Method2Enters
  <2> QED BY <1>1, <2>1, <2>3, IsOp
<1>3. CASE queue_remove(q, e)
  <2> DEFINE c == [content EXCEPT ![q] = Without(q, e)]
  <2>1. MayLeave(e, q) /\ Leaves(Forget(RemQue(mem, e), e), c) /\ ready' = ready BY <1>3 DEF queue_remove, Do
  <2>2. State BY <2>1 DEF Leaves, LinkInv
  <2>3. State' BY <1>1, <1>3, <2>2, ElementLeaves
  <2>4. c[q] = Without(q, e) BY <1>1, <2>2 DEF State, Good
  <2> HIDE DEF c
  <2> QED BY <1>1, <2>1, <2>3, <2>4, IsOp
<1> QED BY <1>2, <1>3 DEF Method2

LEMMA ChainQueueStep ==
  ASSUME LinkInv, WalkInv, NEW q \in ChainQueues,
         \/ queue_remove_first(q) \/ queue_remove_last(q)
         \/ \E r \in ChainQueues : queue_new_head(q, r) \/ queue_assign(r, q)
  PROVE  Op
<1>1. q \in Queues /\ q \in Heads BY DEF Queues, Heads
<1>2. CASE queue_remove_first(q) \/ queue_remove_last(q)
  <2>1. \E m, s : Usable(q) /\ Do(q, m, s) BY <1>2 DEF queue_remove_first, queue_remove_last
  <2>2. State BY <2>1 DEF Do, Leaves, LinkInv
  <2>3. State' BY <1>1, <1>2, <2>2, EndsLeave
  <2> QED BY <1>1, <2>1, <2>3, IsOp
<1>3. ASSUME NEW r \in ChainQueues, queue_new_head(q, r) \/ queue_assign(r, q) PROVE Op
  <2>1. \E m, c : Idle /\ Leaves(m, c) BY <1>3 DEF queue_new_head, queue_assign, Usable
  <2>2. State BY <2>1 DEF Leaves, LinkInv
  <2>3. r \in Queues BY DEF Queues
  <2>4. State' BY <1>1, <1>3, <2>2, <2>3, HeadMoves
  <2> QED BY <2>1, <2>4, IsOp
<1> QED BY <1>2, <1>3

LEMMA InitStep ==
  ASSUME LinkInv, WalkInv, NEW q \in Heads,
         (q \in Queues /\ queue_init(q)) \/ (q \in Circles /\ circle_queue_init(q))
  PROVE  Op
<1>1. \E m, c : Idle /\ Leaves(m, c) BY DEF queue_init, circle_queue_init
<1>2. State BY <1>1 DEF Leaves, LinkInv
<1>3. State' BY <1>2, HeadInits
<1> QED BY <1>1, <1>3, IsOp

LEMMA CircleOut ==
  ASSUME LinkInv, WalkInv, NEW c \in Circles, NEW e, circle_dequeue(c, e)
  PROVE  Op
<1> DEFINE k == [content EXCEPT ![c] = Without(c, e)]
<1>1. c \in Heads BY DEF Heads
<1>2. MayLeave(e, c) /\ Leaves(CircleDequeue(mem, c, e), k) /\ ready' = ready BY DEF circle_dequeue, Do
<1>3. State BY <1>2 DEF Leaves, LinkInv
<1>4. State' BY <1>3, CircleLeaves
<1>5. k[c] = Without(c, e) BY <1>1, <1>3 DEF State, Good
<1> HIDE DEF k
<1> QED BY <1>1, <1>2, <1>4, <1>5, IsOp

LEMMA CircleStep ==
  ASSUME LinkInv, WalkInv, NEW c \in Circles,
         \/ \E e \in Elements : Circle(c, e)
         \/ circle_queue_init(c) \/ circle_dequeue_head(c) \/ circle_dequeue_tail(c)
         \/ circle_queue_rotate_head_forward(c) \/ circle_queue_rotate_head_backward(c)
  PROVE  Op
<1>1. c \in Heads BY DEF Heads
<1>2. ASSUME NEW e \in Elements, circle_enqueue_tail(c, e) \/ circle_enqueue_head(c, e) PROVE Op
  <2>1. \E m, s : Usable(c) /\ Do(c, m, s) BY <1>2 DEF circle_enqueue_tail, circle_enqueue_head, MayEnter
  <2>2. State BY <2>1 DEF Do, Leaves, LinkInv
  <2>3. State' BY <1>2, <2>2, CircleEnters
  <2> QED BY <1>1, <2>1, <2>3, IsOp
<1>3. ASSUME NEW e \in Elements, circle_dequeue(c, e) PROVE Op BY <1>3, CircleOut
<1>4. CASE circle_queue_init(c) BY <1>1, <1>4, InitStep
<1>5. CASE circle_dequeue_head(c) \/ circle_dequeue_tail(c)
  BY <1>5, CircleOut DEF circle_dequeue_head, circle_dequeue_tail
<1>6. CASE circle_queue_rotate_head_forward(c) \/ circle_queue_rotate_head_backward(c)
  <2>1. \E m, s : Usable(c) /\ Do(c, m, s)
    BY <1>6 DEF circle_queue_rotate_head_forward, circle_queue_rotate_head_backward
  <2>2. State BY <2>1 DEF Do, Leaves, LinkInv
  <2>3. State' BY <1>6, <2>2, CircleTurns
  <2> QED BY <1>1, <2>1, <2>3, IsOp
<1> QED BY <1>2, <1>3, <1>4, <1>5, <1>6 DEF Circle

LEMMA IterationStep ==
  ASSUME LinkInv, WalkInv, NEW q \in LinkQueues \cup Circles,
         foreach_safe_begin(q) \/ foreach_safe_next(q) \/ foreach_safe_end(q)
  PROVE  LinkInv' /\ WalkInv'
<1>1. /\ pending = NoStores /\ mem' = mem /\ pending' = pending /\ ready' = ready /\ content' = content
  BY DEF foreach_safe_begin, foreach_safe_next, foreach_safe_end
<1>2. State BY <1>1 DEF LinkInv
<1>3. State' BY <1>1, <1>2 DEF State
<1>4. LinkInv' BY <1>1, <1>3 DEF LinkInv
<1>5. CASE foreach_safe_begin(q) BY <1>4, <1>5, WalkBegins
<1>6. CASE foreach_safe_next(q) BY <1>4, <1>6, WalkGoesOn
<1>7. CASE foreach_safe_end(q)
  <2>1. it' = NoIteration BY <1>7 DEF foreach_safe_end
  <2> QED BY <1>4, <2>1 DEF WalkInv
<1> QED BY <1>5, <1>6, <1>7

LEMMA EnterStep ==
  ASSUME LinkInv, WalkInv,
         \/ \E q \in ChainQueues, e \in Elements : queue_enter(q, e)
         \/ \E s \in pending.before \cup pending.after : queue_enter_store(s)
  PROVE  LinkInv' /\ WalkInv'
<1>1. LinkInv' BY EnterBegins, EnterStores
<1>2. it' = it /\ Idle
  <2>1. CASE \E q \in ChainQueues, e \in Elements : queue_enter(q, e)
    BY <2>1 DEF queue_enter, MayEnter, Usable
  <2>2. CASE \E s \in pending.before \cup pending.after : queue_enter_store(s)
    <3>1. pending # NoStores BY <2>2 DEF NoStores
    <3> QED BY <2>2, <3>1 DEF queue_enter_store, LinkInv
  <2> QED BY <2>1, <2>2
<1>3. WalkInv' BY <1>2 DEF WalkInv, Idle
<1> QED BY <1>1, <1>3

\* What every reachable state satisfies, and what the three properties follow from.
QueueInv == LinkInv /\ WalkInv

LEMMA QueueStep ==
  ASSUME QueueInv, [Next]_vars
  PROVE  QueueInv'
<1> USE DEF QueueInv
<1>1. CASE UNCHANGED vars
  BY <1>1 DEF vars, LinkInv, WalkInv, State, Idle
<1>2. ASSUME NEW q \in LinkQueues, NEW e \in Elements, Method1(q, e) PROVE QueueInv'
  BY <1>2, Method1Step, LinkStep
<1>3. ASSUME NEW q \in LinkQueues,
             dequeue_head(q) \/ dequeue_tail(q) \/ \E r \in LinkQueues : movqueue(q, r)
      PROVE  QueueInv'
  BY <1>3, LinkQueueStep, LinkStep
<1>4. ASSUME NEW q \in ChainQueues, NEW e \in Elements, Method2(q, e) PROVE QueueInv'
  BY <1>4, Method2Step, EnterStep, LinkStep
<1>5. ASSUME NEW q \in ChainQueues,
             \/ queue_remove_first(q) \/ queue_remove_last(q)
             \/ \E r \in ChainQueues : queue_new_head(q, r) \/ queue_assign(r, q)
      PROVE  QueueInv'
  BY <1>5, ChainQueueStep, LinkStep
<1>6. ASSUME NEW q \in Queues, queue_init(q) PROVE QueueInv'
  <2>1. q \in Heads BY DEF Heads
  <2> QED BY <1>6, <2>1, InitStep, LinkStep
<1>7. ASSUME NEW c \in Circles,
             \/ \E e \in Elements : Circle(c, e)
             \/ circle_queue_init(c) \/ circle_dequeue_head(c) \/ circle_dequeue_tail(c)
             \/ circle_queue_rotate_head_forward(c) \/ circle_queue_rotate_head_backward(c)
      PROVE  QueueInv'
  BY <1>7, CircleStep, LinkStep
<1>8. ASSUME NEW q \in LinkQueues \cup Circles,
             foreach_safe_begin(q) \/ foreach_safe_next(q) \/ foreach_safe_end(q)
      PROVE  QueueInv'
  BY <1>8, IterationStep
<1>9. ASSUME NEW s \in pending.before \cup pending.after, queue_enter_store(s) PROVE QueueInv'
  BY <1>9, EnterStep
<1> HIDE DEF QueueInv
<1> QED BY <1>1, <1>2, <1>3, <1>4, <1>5, <1>6, <1>7, <1>8, <1>9 DEF Next

LEMMA QueueInit ==
  ASSUME Init
  PROVE  QueueInv
<1>1. mem \in Memory BY DEF Init, Memory
<1>2. \A q \in Heads : content[q] = <<>> BY DEF Init
<1>3. content \in [Heads -> Seq(Elements)]
  <2>1. <<>> \in Seq(Elements) OBVIOUS
  <2> QED BY <2>1 DEF Init
<1>4. Spread(content)
  <2>1. \A q \in Heads : Len(content[q]) = 0 BY <1>2
  <2> QED BY <2>1 DEF Spread
<1>5. State BY <1>1, <1>2, <1>3, <1>4 DEF Init, State, Good
<1>6. NoStores \in [before : SUBSET Store, after : SUBSET Store] BY DEF NoStores
<1> QED BY <1>5, <1>6 DEF Init, QueueInv, LinkInv, WalkInv

\* A head that is ready has links, in the middle of queue_enter too.
LEMMA HeadsLinked ==
  ASSUME NEW m, NEW c, NEW R, Good(m, c, R), NEW q \in R \cap Queues
  PROVE  m.next[q] \in Nodes /\ m.prev[q] \in Nodes
<1> DEFINE s == c[q]
           n == Len(s)
<1>1. q \in Heads /\ q \notin Circles BY Kinds DEF Heads
<1>2. s \in Seq(Elements) /\ Linked(m, q, s) /\ n \in Nat BY <1>1, GoodAt
<1>3. q \in Queues /\ At(q, s, 0) = q /\ At(q, s, n + 1) = q
  <2> HIDE DEF s
  <2> QED BY <1>2 DEF At
<1>4. \A i \in 0 .. n : m.next[At(q, s, i)] = At(q, s, i + 1) /\ m.prev[At(q, s, i + 1)] = At(q, s, i)
  BY <1>2, <1>3, QueueLinks
<1>5. m.next[q] = At(q, s, 1) /\ m.prev[q] = At(q, s, n)
  <2>1. 0 \in 0 .. n /\ n \in 0 .. n /\ 0 + 1 = 1
    <3> HIDE DEF n
    <3> QED BY <1>2
  <2>2. m.next[At(q, s, 0)] = At(q, s, 0 + 1) BY <1>4, <2>1
  <2>3. m.prev[At(q, s, n + 1)] = At(q, s, n) BY <1>4, <2>1
  <2> QED BY <1>3, <2>1, <2>2, <2>3
<1>6. At(q, s, 1) \in Nodes /\ At(q, s, n) \in Nodes
  <2>1. n \in Int BY <1>2
  <2> QED BY <1>2, <1>3, <2>1, AtIs
<1> QED BY <1>5, <1>6

LEMMA QueueTyped ==
  ASSUME QueueInv
  PROVE  TypeOK
<1> DEFINE Held == /\ mem \in Memory /\ ready \subseteq Heads /\ content \in [Heads -> Seq(Elements)]
                   /\ \A q \in ready \cap Queues : mem.next[q] # Null /\ mem.prev[q] # Null
<1>1. ASSUME pending = NoStores PROVE Held
  <2>1. State BY <1>1 DEF QueueInv, LinkInv
  <2>2. \A q \in ready \cap Queues : mem.next[q] # Null /\ mem.prev[q] # Null
    BY <2>1, HeadsLinked, Kinds DEF State
  <2>3. mem \in Memory /\ ready \subseteq Heads /\ content \in [Heads -> Seq(Elements)]
    BY <2>1 DEF State, Good
  <2>4. Held BY <2>2, <2>3
  <2> QED BY <2>4
<1>2. ASSUME pending # NoStores PROVE Held
  <2>1. PICK q \in ready \cap ChainQueues, e \in Elements, c \in [Heads -> Seq(Elements)], g \in Memory :
          Entering(q, e, c, g, ready, content, mem, pending)
    BY <1>2 DEF QueueInv, LinkInv
  <2> DEFINE p == At(q, c[q], Len(c[q]))
  <2>2. Good(g, c, ready) /\ Free(c, e) /\ Partly(g, mem, q, e, p, pending) BY <2>1 DEF Entering
  <2>3. /\ q \in Queues /\ q \in Heads /\ q \in Nodes /\ e \in Nodes /\ p \in Nodes BY <2>2, EnteringAt
  <2>4. mem \in Memory /\ ready \subseteq Heads BY <2>2 DEF Good, Partly
  <2>5. content \in [Heads -> Seq(Elements)]
    <3>1. c[q] \in Seq(Elements) /\ Len(c[q]) + 1 \in 1 .. Len(c[q]) + 1 BY <2>3, Lengths
    <3>2. Insert(c[q], Len(c[q]) + 1, e) \in Seq(Elements) BY <3>1, InsertIs
    <3> QED BY <2>1, <3>2 DEF Entering
  <2> HIDE DEF p
  <2>6. ASSUME NEW r \in ready \cap Queues PROVE mem.next[r] # Null /\ mem.prev[r] # Null
    <3>1. g.next[r] \in Nodes /\ g.prev[r] \in Nodes BY <2>2, HeadsLinked
    <3>2. r \in Nodes /\ r # e BY Kinds DEF Nodes, Heads
    <3>3. mem.next[r] \in Nodes BY <2>2, <2>3, <3>1, <3>2 DEF Partly
    <3>4. mem.prev[r] \in Nodes BY <2>2, <2>3, <3>1, <3>2 DEF Partly
    <3> QED BY <3>3, <3>4, Kinds
  <2>7. Held BY <2>4, <2>5, <2>6
  <2> QED BY <2>7
<1>3. it.on \in ready \cup {Null} /\ {it.at, it.ne} \subseteq Nodes \cup {Null}
  <2>1. CASE it = NoIteration BY <2>1 DEF NoIteration
  <2>2. CASE it # NoIteration BY <2>2 DEF QueueInv, WalkInv, Walks
  <2> QED BY <2>1, <2>2
<1>4. Held
  <2> HIDE DEF Held
  <2> QED BY <1>1, <1>2
<1> QED BY <1>3, <1>4 DEF TypeOK, QueueInv, LinkInv

LEMMA WalkMeets ==
  ASSUME WalkInv
  PROVE  SafeIterationMeetsAll
<1> SUFFICES ASSUME it # NoIteration
             PROVE  /\ Len(it.seen) <= Len(it.from) /\ \A i \in 1 .. Len(it.seen) : it.seen[i] = it.from[i]
                    /\ it.at = EndOf(it.on) => it.seen = it.from
  BY DEF SafeIterationMeetsAll
<1> DEFINE j == Len(it.seen)
           n == Len(it.from)
<1>1. /\ it.on \in Heads /\ it.seen \in Seq(Elements) /\ it.from \in Seq(Elements)
      /\ j <= n /\ \A i \in 1 .. j : it.seen[i] = it.from[i]
      /\ it.at = Stop(it.on, it.from, j + 1)
  BY DEF WalkInv, Walks
<1>2. j \in Nat /\ n \in Nat BY <1>1, Lengths
<1>3. ASSUME it.at = EndOf(it.on) PROVE it.seen = it.from
  <2>1. j + 1 \in Int BY <1>2
  <2>2. j + 1 \notin 1 .. n BY <1>1, <1>3, <2>1, StopIs
  <2>3. j = n
    <3> HIDE DEF j, n
    <3> QED BY <1>1, <1>2, <2>2
  <2> QED BY <1>1, <2>3, SameSequence
<1> QED BY <1>1, <1>3

LEMMA QueueCorrect == Spec => []QueueInv
<1>1. Init => QueueInv BY QueueInit
<1>2. QueueInv /\ [Next]_vars => QueueInv' BY QueueStep
<1> QED BY <1>1, <1>2, PTL DEF Spec

\* For every set of elements and of heads of the three kinds: after any sequence
\* of the operations of queue.h and circle_queue.h, a walk of every initialised
\* queue meets, in both directions, what the operations say it holds.
THEOREM LinksAlwaysMatch == Spec => []LinksMatchContents
<1>1. QueueInv => LinksMatchContents
  <2> SUFFICES ASSUME QueueInv PROVE LinksMatchContents OBVIOUS
  <2>1. TypeOK BY QueueTyped
  <2>2. ASSUME pending = NoStores PROVE \A q \in ready : Linked(mem, q, content[q])
    BY <2>2 DEF QueueInv, LinkInv, State, Good
  <2> QED BY <2>1, <2>2 DEF LinksMatchContents
<1> QED BY <1>1, QueueCorrect, PTL

\* Between any two stores of queue_enter, in any order the compiler may give
\* them around its barrier, the debugger's forward walk of the queue finds it
\* with or without the new element (queue.h:656-663).
THEOREM StackshotNeverTrips == Spec => []StackshotWalksWholeQueue
<1>1. QueueInv => StackshotWalksWholeQueue BY HalfWay DEF QueueInv
<1> QED BY <1>1, QueueCorrect, PTL

\* A qe_foreach_safe or cqe_foreach_safe whose body takes the current element
\* off, or moves it to another queue, meets every element once and in order,
\* however long the queue.
THEOREM SafeIterationIsComplete == Spec => []SafeIterationMeetsAll
<1>1. QueueInv => SafeIterationMeetsAll BY WalkMeets DEF QueueInv
<1> QED BY <1>1, QueueCorrect, PTL
=============================================================================
