--------------------------- MODULE KernQueueRings ---------------------------
(*************************************************************************)
(* Rings of nodes, what is spliced in and out of them, and the           *)
(* operations of KernQueue's linked queues, which are such splices, for  *)
(* any elements and any heads of the three kinds.                        *)
(*************************************************************************)
EXTENDS KernQueue, TLAPS

USE ZenonT(8), SMTT(12)

\* Rings.
Ring(m, t) == Forward(m, t) /\ Backward(m, t)
Apart(t) == \A i, j \in 1 .. Len(t) : t[i] = t[j] => i = j
Off(e, t) == \A i \in 1 .. Len(t) : t[i] # e

\* The links k are those of m with e linked in between x and y ...
Between(m, k, x, e, y) ==
  /\ k \in Memory /\ k.next[x] = e /\ k.next[e] = y /\ k.prev[y] = e /\ k.prev[e] = x
  /\ \A n \in Nodes : /\ n # x /\ n # e => k.next[n] = m.next[n]
                      /\ n # y /\ n # e => k.prev[n] = m.prev[n]

\* ... or with x and y linked past e, whose own links are of no interest.
Bypass(m, k, x, e, y) ==
  /\ k \in Memory /\ k.next[x] = y /\ k.prev[y] = x
  /\ \A n \in Nodes : /\ n # x /\ n # e => k.next[n] = m.next[n]
                      /\ n # y /\ n # e => k.prev[n] = m.prev[n]

\* The sequence u is t with e after its k-th member, or without that member.
Grown(t, u, k, e) ==
  /\ Len(u) = Len(t) + 1 /\ u[k + 1] = e
  /\ \A i \in 1 .. k : u[i] = t[i]
  /\ \A i \in k + 1 .. Len(t) : u[i + 1] = t[i]
Shrunk(t, u, k) ==
  /\ Len(u) = Len(t) - 1
  /\ \A i \in 1 .. k - 1 : u[i] = t[i]
  /\ \A i \in k .. Len(t) - 1 : u[i] = t[i + 1]

LEMMA Lengths ==
  ASSUME NEW G, NEW s \in Seq(G)
  PROVE  Len(s) \in Nat /\ DOMAIN s = 1 .. Len(s) /\ \A i \in 1 .. Len(s) : s[i] \in G
OBVIOUS

\* Around a ring and back.
LEMMA UpDown ==
  ASSUME NEW n \in Nat \ {0}
  PROVE  /\ \A i \in 1 .. n : Up(i, n) \in 1 .. n
         /\ \A i, j \in 1 .. n : Up(i, n) = Up(j, n) => i = j
         /\ \A i \in 1 .. n : \E j \in 1 .. n : Up(j, n) = i
<1>1. \A i \in 1 .. n : Up(i, n) \in 1 .. n BY DEF Up
<1>2. \A i, j \in 1 .. n : Up(i, n) = Up(j, n) => i = j BY DEF Up
<1>3. ASSUME NEW i \in 1 .. n PROVE \E j \in 1 .. n : Up(j, n) = i
  <2>1. CASE i = 1
    <3>1. n \in 1 .. n /\ Up(n, n) = 1 BY DEF Up
    <3> QED BY <2>1, <3>1
  <2>2. CASE i # 1
    <3>1. i - 1 \in 1 .. n /\ Up(i - 1, n) = i BY <2>2 DEF Up
    <3> QED BY <3>1
  <2> QED BY <2>1, <2>2
<1> QED BY <1>1, <1>2, <1>3

\* The ring with e after its k-th node.
LEMMA RingInsert ==
  ASSUME NEW m, NEW m2, NEW t \in Seq(Nodes), Apart(t), Ring(m, t), NEW e \in Nodes, Off(e, t),
         NEW k \in 1 .. Len(t), Between(m, m2, t[k], e, t[Up(k, Len(t))]),
         NEW u, Grown(t, u, k, e)
  PROVE  Ring(m2, u)
<1> DEFINE n == Len(t)
<1>1. n \in Nat \ {0} /\ k \in 1 .. n /\ \A i \in 1 .. n : t[i] \in Nodes BY Lengths
<1>2. /\ Len(u) = n + 1 /\ u[k + 1] = e
      /\ \A i \in 1 .. k : u[i] = t[i]
      /\ \A i \in k + 1 .. n : u[i + 1] = t[i]
  BY DEF Grown
<1>3. /\ \A i \in 1 .. n : m.next[t[i]] = t[Up(i, n)] /\ m.prev[t[Up(i, n)]] = t[i]
  BY DEF Ring, Forward, Backward
<1>4. /\ m2.next[t[k]] = e /\ m2.next[e] = t[Up(k, n)] /\ m2.prev[t[Up(k, n)]] = e /\ m2.prev[e] = t[k]
      /\ \A i \in 1 .. n : i # k => m2.next[t[i]] = m.next[t[i]]
      /\ \A i \in 1 .. n : i # Up(k, n) => m2.prev[t[i]] = m.prev[t[i]]
  BY <1>1, UpDown DEF Between, Apart, Off
<1> HIDE DEF n
<1>5. \A i \in 1 .. n : i # k => m2.next[t[i]] = t[Up(i, n)] /\ m2.prev[t[Up(i, n)]] = t[i]
  <2> SUFFICES ASSUME NEW i \in 1 .. n, i # k
               PROVE  m2.next[t[i]] = t[Up(i, n)] /\ m2.prev[t[Up(i, n)]] = t[i]
    OBVIOUS
  <2>1. Up(i, n) \in 1 .. n /\ Up(i, n) # Up(k, n) BY <1>1, UpDown
  <2> QED BY <1>3, <1>4, <2>1
<1>6. ASSUME NEW i \in 1 .. n + 1
      PROVE  m2.next[u[i]] = u[Up(i, n + 1)] /\ m2.prev[u[Up(i, n + 1)]] = u[i]
  <2>1. CASE i < k
    <3>1. Up(i, n + 1) = i + 1 /\ Up(i, n) = i + 1 /\ i \in 1 .. n /\ u[i] = t[i] /\ u[i + 1] = t[i + 1]
      BY <1>1, <1>2, <2>1 DEF Up
    <3> QED BY <1>5, <2>1, <3>1
  <2>2. CASE i = k
    <3>1. Up(i, n + 1) = k + 1 /\ u[i] = t[k] /\ u[k + 1] = e BY <1>1, <1>2, <2>2 DEF Up
    <3> QED BY <1>4, <3>1
  <2>3. CASE i = k + 1
    <3>1. u[i] = e /\ u[Up(i, n + 1)] = t[Up(k, n)] BY <1>1, <1>2, <2>3 DEF Up
    <3> QED BY <1>4, <3>1
  <2>4. CASE i > k + 1
    <3>1. i - 1 \in 1 .. n /\ i - 1 # k /\ i - 1 \in k + 1 .. n /\ (i - 1) + 1 = i BY <1>1, <2>4
    <3>2. \A l \in k + 1 .. n : u[l + 1] = t[l] BY <1>2
    <3>3. u[i] = t[i - 1] BY <3>1, <3>2
    <3>4. u[Up(i, n + 1)] = t[Up(i - 1, n)]
      <4>1. CASE i = n + 1
        <5>1. Up(i, n + 1) = 1 /\ Up(i - 1, n) = 1 /\ u[1] = t[1] BY <1>1, <1>2, <4>1 DEF Up
        <5> QED BY <5>1
      <4>2. CASE i # n + 1
        <5>1. Up(i, n + 1) = i + 1 /\ Up(i - 1, n) = i /\ i \in k + 1 .. n BY <1>1, <2>4, <4>2 DEF Up
        <5> QED BY <3>2, <5>1
      <4> QED BY <4>1, <4>2
    <3> QED BY <1>5, <3>1, <3>3, <3>4
  <2> QED BY <1>1, <2>1, <2>2, <2>3, <2>4
<1> QED BY <1>2, <1>6 DEF Ring, Forward, Backward

\* The ring without its k-th node.
LEMMA RingDelete ==
  ASSUME NEW m, NEW m2, NEW t \in Seq(Nodes), Apart(t), Ring(m, t), Len(t) >= 2,
         NEW k \in 1 .. Len(t), NEW j \in 1 .. Len(t), Up(j, Len(t)) = k,
         Bypass(m, m2, t[j], t[k], t[Up(k, Len(t))]),
         NEW u, Shrunk(t, u, k)
  PROVE  Ring(m2, u)
<1> DEFINE n == Len(t)
           l == Up(k, n)
<1>1. n \in Nat /\ n >= 2 /\ k \in 1 .. n /\ j \in 1 .. n /\ \A i \in 1 .. n : t[i] \in Nodes BY Lengths
<1>2. /\ Len(u) = n - 1
      /\ \A i \in 1 .. k - 1 : u[i] = t[i]
      /\ \A i \in k .. n - 1 : u[i] = t[i + 1]
  BY DEF Shrunk
<1>3. \A i \in 1 .. n : m.next[t[i]] = t[Up(i, n)] /\ m.prev[t[Up(i, n)]] = t[i]
  BY DEF Ring, Forward, Backward
<1>4. l \in 1 .. n /\ l # k /\ j # k BY <1>1 DEF Up
<1>5. /\ m2.next[t[j]] = t[l] /\ m2.prev[t[l]] = t[j]
      /\ \A i \in 1 .. n : i # j /\ i # k => m2.next[t[i]] = m.next[t[i]]
      /\ \A i \in 1 .. n : i # l /\ i # k => m2.prev[t[i]] = m.prev[t[i]]
  BY <1>1, <1>4 DEF Bypass, Apart
<1>6. Up(j, n) = k /\ l = Up(k, n) OBVIOUS
<1> HIDE DEF n, l
<1>7. ASSUME NEW i \in 1 .. n, i # j, i # k
      PROVE  m2.next[t[i]] = t[Up(i, n)] /\ m2.prev[t[Up(i, n)]] = t[i]
  <2>1. n \in Nat \ {0} BY <1>1
  <2>2. /\ Up(i, n) \in 1 .. n
        /\ Up(i, n) = Up(j, n) => i = j
        /\ Up(i, n) = Up(k, n) => i = k
    BY <1>1, <2>1, UpDown
  <2>3. Up(i, n) \in 1 .. n /\ Up(i, n) # k /\ Up(i, n) # l BY <1>6, <1>7, <2>2
  <2> QED BY <1>3, <1>5, <1>7, <2>3
<1>8. ASSUME NEW i \in 1 .. n - 1
      PROVE  m2.next[u[i]] = u[Up(i, n - 1)] /\ m2.prev[u[Up(i, n - 1)]] = u[i]
  <2> DEFINE o == IF i < k THEN i ELSE i + 1
  <2>1. o \in 1 .. n /\ o # k /\ u[i] = t[o] BY <1>1, <1>2
  <2>2. CASE o = j
    <3>1. u[Up(i, n - 1)] = t[l] BY <1>1, <1>2, <1>6, <2>2 DEF Up
    <3> QED BY <1>5, <2>1, <2>2, <3>1
  <2>3. CASE o # j
    <3>1. u[Up(i, n - 1)] = t[Up(o, n)] BY <1>1, <1>2, <1>6, <2>3 DEF Up
    <3> HIDE DEF o
    <3> QED BY <1>7, <2>1, <2>3, <3>1
  <2> QED BY <2>2, <2>3
<1> QED BY <1>2, <1>8 DEF Ring, Forward, Backward

\* A ring may begin with any of its nodes.
LEMMA RingTurned ==
  ASSUME NEW m, NEW t, NEW u, Len(t) \in Nat, Len(u) = Len(t),
         \A i \in 1 .. Len(t) : u[i] = t[Up(i, Len(t))]
  PROVE  Ring(m, t) <=> Ring(m, u)
<1> DEFINE n == Len(t)
<1>1. n \in Nat /\ Len(u) = n OBVIOUS
<1>2. CASE n = 0 BY <1>2 DEF Ring, Forward, Backward
<1>3. CASE n # 0
  <2> HIDE DEF n
  <2>1. n \in Nat \ {0} BY <1>1, <1>3
  <2>2. \A i \in 1 .. n : Up(i, n) \in 1 .. n BY <2>1, UpDown
  <2>3. \A i \in 1 .. n : u[i] = t[Up(i, n)] /\ u[Up(i, n)] = t[Up(Up(i, n), n)] BY <2>2 DEF n
  <2>4. ASSUME Ring(m, t) PROVE Ring(m, u)
    <3>1. \A i \in 1 .. n : m.next[t[i]] = t[Up(i, n)] /\ m.prev[t[Up(i, n)]] = t[i]
      BY <2>4 DEF Ring, Forward, Backward, n
    <3>2. \A i \in 1 .. n : m.next[u[i]] = u[Up(i, n)] /\ m.prev[u[Up(i, n)]] = u[i]
      BY <2>2, <2>3, <3>1
    <3> QED BY <1>1, <3>2 DEF Ring, Forward, Backward
  <2>5. ASSUME Ring(m, u) PROVE Ring(m, t)
    <3>1. \A i \in 1 .. n : m.next[u[i]] = u[Up(i, n)] /\ m.prev[u[Up(i, n)]] = u[i]
      BY <1>1, <2>5 DEF Ring, Forward, Backward
    <3>2. ASSUME NEW i \in 1 .. n PROVE m.next[t[i]] = t[Up(i, n)] /\ m.prev[t[Up(i, n)]] = t[i]
      <4>1. PICK j \in 1 .. n : Up(j, n) = i BY <2>1, UpDown
      <4>2. u[j] = t[i] /\ u[Up(j, n)] = t[Up(i, n)] BY <2>3, <4>1
      <4> QED BY <3>1, <4>1, <4>2
    <3> QED BY <3>2 DEF Ring, Forward, Backward, n
  <2> QED BY <2>4, <2>5
<1> QED BY <1>2, <1>3
----------------------------------------------------------------------------
\* Contents with an element more or less, or turned.

LEMMA InsertIs ==
  ASSUME NEW s \in Seq(Elements), NEW e \in Elements, NEW i \in 1 .. Len(s) + 1
  PROVE  /\ Insert(s, i, e) \in Seq(Elements) /\ Len(Insert(s, i, e)) = Len(s) + 1
         /\ \A j \in 1 .. i - 1 : Insert(s, i, e)[j] = s[j]
         /\ Insert(s, i, e)[i] = e
         /\ \A j \in i .. Len(s) : Insert(s, i, e)[j + 1] = s[j]
<1>1. Len(s) \in Nat /\ \A j \in 1 .. Len(s) : s[j] \in Elements BY Lengths
<1>2. Len(s) + 1 \in Nat BY <1>1
<1>3. ASSUME NEW j \in 1 .. Len(s) + 1
      PROVE  (IF j < i THEN s[j] ELSE IF j = i THEN e ELSE s[j - 1]) \in Elements
  BY <1>1
<1>4. Insert(s, i, e) \in Seq(Elements) /\ Len(Insert(s, i, e)) = Len(s) + 1 BY <1>2, <1>3 DEF Insert
<1>5. \A j \in 1 .. i - 1 : Insert(s, i, e)[j] = s[j] BY <1>1 DEF Insert
<1>6. Insert(s, i, e)[i] = e BY <1>1 DEF Insert
<1>7. ASSUME NEW j \in i .. Len(s) PROVE Insert(s, i, e)[j + 1] = s[j]
  <2>1. j + 1 \in 1 .. Len(s) + 1 /\ ~(j + 1 < i) /\ j + 1 # i /\ (j + 1) - 1 = j BY <1>1
  <2> QED BY <2>1 DEF Insert
<1> QED BY <1>4, <1>5, <1>6, <1>7

LEMMA DeleteIs ==
  ASSUME NEW s \in Seq(Elements), NEW i \in 1 .. Len(s)
  PROVE  /\ Delete(s, i) \in Seq(Elements) /\ Len(Delete(s, i)) = Len(s) - 1
         /\ \A j \in 1 .. i - 1 : Delete(s, i)[j] = s[j]
         /\ \A j \in i .. Len(s) - 1 : Delete(s, i)[j] = s[j + 1]
<1>1. Len(s) \in Nat /\ \A j \in 1 .. Len(s) : s[j] \in Elements BY Lengths
<1>2. Len(s) - 1 \in Nat BY <1>1
<1>3. ASSUME NEW j \in 1 .. Len(s) - 1 PROVE (IF j < i THEN s[j] ELSE s[j + 1]) \in Elements
  BY <1>1
<1>4. Delete(s, i) \in Seq(Elements) /\ Len(Delete(s, i)) = Len(s) - 1 BY <1>2, <1>3 DEF Delete
<1> QED BY <1>1, <1>4 DEF Delete

LEMMA RotatedIs ==
  ASSUME NEW s \in Seq(Elements), NEW k \in 0 .. Len(s)
  PROVE  /\ Rotated(s, k) \in Seq(Elements) /\ Len(Rotated(s, k)) = Len(s)
         /\ \A j \in 1 .. Len(s) - k : Rotated(s, k)[j] = s[j + k]
         /\ \A j \in Len(s) - k + 1 .. Len(s) : Rotated(s, k)[j] = s[j + k - Len(s)]
<1>1. Len(s) \in Nat /\ \A j \in 1 .. Len(s) : s[j] \in Elements BY Lengths
<1>3. ASSUME NEW j \in 1 .. Len(s)
      PROVE  (IF j + k > Len(s) THEN s[j + k - Len(s)] ELSE s[j + k]) \in Elements
  BY <1>1
<1>4. Rotated(s, k) \in Seq(Elements) /\ Len(Rotated(s, k)) = Len(s) BY <1>1, <1>3 DEF Rotated
<1> QED BY <1>1, <1>4 DEF Rotated

LEMMA SameSequence ==
  ASSUME NEW G, NEW s \in Seq(G), NEW t \in Seq(G), Len(s) = Len(t),
         \A i \in 1 .. Len(s) : s[i] = t[i]
  PROVE  s = t
BY Lengths

LEMMA DeleteInsert ==
  ASSUME NEW s \in Seq(Elements), NEW e \in Elements
  PROVE  LET t == Insert(s, Len(s) + 1, e) IN Delete(t, Len(t)) = s
<1> DEFINE t == Insert(s, Len(s) + 1, e)
<1>1. Len(s) \in Nat BY Lengths
<1>2. Len(s) + 1 \in 1 .. Len(s) + 1 BY <1>1
<1>3. t \in Seq(Elements) /\ Len(t) = Len(s) + 1 /\ \A j \in 1 .. Len(s) : t[j] = s[j]
  BY <1>1, <1>2, InsertIs
<1> HIDE DEF t
<1>4. Len(t) \in 1 .. Len(t) BY <1>1, <1>3
<1>5. /\ Delete(t, Len(t)) \in Seq(Elements) /\ Len(Delete(t, Len(t))) = Len(t) - 1
      /\ \A j \in 1 .. Len(t) - 1 : Delete(t, Len(t))[j] = t[j]
  BY <1>3, <1>4, DeleteIs
<1>6. Len(Delete(t, Len(t))) = Len(s) /\ \A j \in 1 .. Len(s) : Delete(t, Len(t))[j] = s[j]
  BY <1>1, <1>3, <1>5
<1>7. Delete(t, Len(t)) = s BY <1>5, <1>6, SameSequence
<1> QED BY <1>7 DEF t

LEMMA ApartInsert ==
  ASSUME NEW s \in Seq(Elements), NEW e \in Elements, NEW i \in 1 .. Len(s) + 1, Apart(s), Off(e, s)
  PROVE  Apart(Insert(s, i, e))
<1> DEFINE t == Insert(s, i, e)
<1>1. Len(s) \in Nat /\ \A j, k \in 1 .. Len(s) : s[j] = s[k] => j = k BY Lengths DEF Apart
<1>2. \A j \in 1 .. Len(s) : s[j] # e BY DEF Off
<1>3. Len(t) = Len(s) + 1 BY InsertIs
<1>4. \A j \in 1 .. Len(s) + 1 : t[j] = IF j < i THEN s[j] ELSE IF j = i THEN e ELSE s[j - 1] BY DEF Insert
<1> HIDE DEF t
<1>5. ASSUME NEW j \in 1 .. Len(s) + 1, NEW k \in 1 .. Len(s) + 1, t[j] = t[k] PROVE j = k
  <2>1. CASE j = i BY <1>1, <1>2, <1>4, <1>5, <2>1
  <2>2. CASE k = i BY <1>1, <1>2, <1>4, <1>5, <2>2
  <2>3. CASE j # i /\ k # i BY <1>1, <1>4, <1>5, <2>3
  <2> QED BY <2>1, <2>2, <2>3
<1>6. Apart(t) BY <1>3, <1>5 DEF Apart
<1> QED BY <1>6 DEF t

LEMMA ApartDelete ==
  ASSUME NEW s \in Seq(Elements), NEW i \in 1 .. Len(s), Apart(s)
  PROVE  Apart(Delete(s, i)) /\ Off(s[i], Delete(s, i))
<1>1. Len(s) \in Nat /\ \A j, k \in 1 .. Len(s) : s[j] = s[k] => j = k BY Lengths DEF Apart
<1>2. Len(Delete(s, i)) = Len(s) - 1 BY DeleteIs
<1>3. \A j \in 1 .. Len(s) - 1 : Delete(s, i)[j] = IF j < i THEN s[j] ELSE s[j + 1] BY DEF Delete
<1>4. Off(s[i], Delete(s, i)) BY <1>1, <1>2, <1>3 DEF Off
<1>5. Apart(Delete(s, i)) BY <1>1, <1>2, <1>3 DEF Apart
<1> QED BY <1>4, <1>5

LEMMA ApartRotated ==
  ASSUME NEW s \in Seq(Elements), NEW k \in 0 .. Len(s), Apart(s)
  PROVE  Apart(Rotated(s, k))
<1>1. Len(s) \in Nat /\ \A i, j \in 1 .. Len(s) : s[i] = s[j] => i = j BY Lengths DEF Apart
<1>2. Len(Rotated(s, k)) = Len(s) BY RotatedIs
<1>3. \A j \in 1 .. Len(s) : Rotated(s, k)[j] = IF j + k > Len(s) THEN s[j + k - Len(s)] ELSE s[j + k]
  BY DEF Rotated
<1>4. ASSUME NEW i \in 1 .. Len(s), NEW j \in 1 .. Len(s), Rotated(s, k)[i] = Rotated(s, k)[j] PROVE i = j
  <2> DEFINE p(h) == IF h + k > Len(s) THEN h + k - Len(s) ELSE h + k
  <2>1. p(i) \in 1 .. Len(s) /\ p(j) \in 1 .. Len(s) BY <1>1
  <2>2. Rotated(s, k)[i] = s[p(i)] /\ Rotated(s, k)[j] = s[p(j)] BY <1>3
  <2>3. p(i) = p(j) BY <1>1, <1>4, <2>1, <2>2
  <2> QED BY <1>1, <2>3
<1> QED BY <1>2, <1>4 DEF Apart
----------------------------------------------------------------------------
\* A queue of either method is a ring of its head and its elements.

At(q, s, i) == IF i \in 1 .. Len(s) THEN s[i] ELSE q

LEMMA Kinds ==
  /\ \A q \in Heads : q \in Nodes /\ q \notin Elements /\ (q \in Queues <=> q \notin Circles)
  /\ \A e \in Elements : e \in Nodes /\ e \notin Heads
  /\ Null \notin Nodes /\ Queues \subseteq Heads /\ Circles \subseteq Heads
BY KernQueueAssumption DEF Nodes, Heads

LEMMA TurnIs ==
  ASSUME NEW q \in Queues, NEW s \in Seq(Elements)
  PROVE  /\ Turn(q, s) \in Seq(Nodes) /\ Len(Turn(q, s)) = Len(s) + 1
         /\ \A i \in 1 .. Len(s) + 1 : Turn(q, s)[i] = At(q, s, i - 1)
         /\ \A i \in 1 .. Len(s) + 1 : Turn(q, s)[Up(i, Len(s) + 1)] = At(q, s, i)
<1>1. q \in Nodes /\ q \notin Circles /\ s \in Seq(Nodes) /\ Len(s) \in Nat BY Kinds, Lengths
<1>2. Turn(q, s) = <<q>> \o s BY <1>1 DEF Turn
<1>3. <<q>> \o s \in Seq(Nodes) /\ Len(<<q>> \o s) = Len(s) + 1 BY <1>1
<1>4. (<<q>> \o s)[1] = q /\ \A i \in 1 .. Len(s) : (<<q>> \o s)[i + 1] = s[i] BY <1>1
<1>5. ASSUME NEW i \in 1 .. Len(s) + 1 PROVE (<<q>> \o s)[i] = At(q, s, i - 1)
  <2>1. CASE i = 1 BY <1>1, <1>4, <2>1 DEF At
  <2>2. CASE i # 1
    <3>1. i - 1 \in 1 .. Len(s) /\ (i - 1) + 1 = i BY <1>1, <2>2
    <3> QED BY <1>4, <3>1 DEF At
  <2> QED BY <2>1, <2>2
<1>6. ASSUME NEW i \in 1 .. Len(s) + 1 PROVE (<<q>> \o s)[Up(i, Len(s) + 1)] = At(q, s, i)
  <2>1. CASE i = Len(s) + 1 BY <1>1, <1>4, <2>1 DEF At, Up
  <2>2. CASE i # Len(s) + 1 BY <1>1, <1>4, <2>2 DEF At, Up
  <2> QED BY <2>1, <2>2
<1> QED BY <1>2, <1>3, <1>5, <1>6

LEMMA ApartTurn ==
  ASSUME NEW q \in Queues, NEW s \in Seq(Elements), Apart(s)
  PROVE  /\ Apart(Turn(q, s))
         /\ \A e \in Elements : Off(e, s) => Off(e, Turn(q, s))
<1>1. /\ Len(s) \in Nat /\ q \notin Elements
      /\ \A i \in 1 .. Len(s) : s[i] \in Elements
      /\ \A i, j \in 1 .. Len(s) : s[i] = s[j] => i = j
  BY Lengths, Kinds DEF Apart
<1>2. Len(Turn(q, s)) = Len(s) + 1 /\ \A i \in 1 .. Len(s) + 1 : Turn(q, s)[i] = At(q, s, i - 1) BY TurnIs
<1>3. Apart(Turn(q, s)) BY <1>1, <1>2 DEF Apart, At
<1>4. \A e \in Elements : Off(e, s) => Off(e, Turn(q, s)) BY <1>1, <1>2 DEF Off, At
<1> QED BY <1>3, <1>4

LEMMA RingOfQueue ==
  ASSUME NEW m, NEW q \in Queues, NEW s
  PROVE  Linked(m, q, s) <=> Ring(m, Turn(q, s))
<1>1. q \notin Circles BY Kinds
<1> QED BY <1>1 DEF Linked, Ring

LEMMA QueueLinks ==
  ASSUME NEW m, NEW q \in Queues, NEW s \in Seq(Elements)
  PROVE  Linked(m, q, s) <=> \A i \in 0 .. Len(s) : /\ m.next[At(q, s, i)] = At(q, s, i + 1)
                                                     /\ m.prev[At(q, s, i + 1)] = At(q, s, i)
<1> DEFINE n == Len(s) + 1
           t == Turn(q, s)
<1>1. Len(s) \in Nat BY Lengths
<1>2. Len(t) = n /\ \A i \in 1 .. n : t[i] = At(q, s, i - 1) /\ t[Up(i, n)] = At(q, s, i) BY TurnIs
<1>3. Linked(m, q, s) <=> \A i \in 1 .. n : m.next[t[i]] = t[Up(i, n)] /\ m.prev[t[Up(i, n)]] = t[i]
  <2> HIDE DEF t, n
  <2>1. Linked(m, q, s) <=> Forward(m, t) /\ Backward(m, t) BY RingOfQueue DEF Ring, t
  <2>2. Forward(m, t) <=> \A i \in 1 .. n : m.next[t[i]] = t[Up(i, n)] BY <1>2 DEF Forward
  <2>3. Backward(m, t) <=> \A i \in 1 .. n : m.prev[t[Up(i, n)]] = t[i] BY <1>2 DEF Backward
  <2> QED BY <2>1, <2>2, <2>3
<1> HIDE DEF t
<1>4. Linked(m, q, s) <=> \A i \in 1 .. n : /\ m.next[At(q, s, i - 1)] = At(q, s, i)
                                            /\ m.prev[At(q, s, i)] = At(q, s, i - 1)
  BY <1>2, <1>3
<1>5. ASSUME NEW i \in 0 .. Len(s) PROVE i + 1 \in 1 .. n /\ (i + 1) - 1 = i BY <1>1
<1>6. ASSUME NEW i \in 1 .. n PROVE i - 1 \in 0 .. Len(s) /\ (i - 1) + 1 = i BY <1>1
<1> HIDE DEF n
<1>7. ASSUME Linked(m, q, s), NEW i \in 0 .. Len(s)
      PROVE  m.next[At(q, s, i)] = At(q, s, i + 1) /\ m.prev[At(q, s, i + 1)] = At(q, s, i)
  BY <1>4, <1>5, <1>7
<1>8. ASSUME \A i \in 0 .. Len(s) : /\ m.next[At(q, s, i)] = At(q, s, i + 1)
                                     /\ m.prev[At(q, s, i + 1)] = At(q, s, i)
      PROVE  Linked(m, q, s)
  <2>1. ASSUME NEW i \in 1 .. n
        PROVE  m.next[At(q, s, i - 1)] = At(q, s, i) /\ m.prev[At(q, s, i)] = At(q, s, i - 1)
    BY <1>6, <1>8
  <2> QED BY <1>4, <2>1
<1> QED BY <1>7, <1>8

LEMMA AtIs ==
  ASSUME NEW q \in Queues, NEW s \in Seq(Elements), NEW i \in Int
  PROVE  At(q, s, i) \in Nodes /\ (At(q, s, i) = q \/ \E j \in 1 .. Len(s) : At(q, s, i) = s[j])
BY Kinds, Lengths DEF At

LEMMA QueueInsert ==
  ASSUME NEW m, NEW m2, NEW q \in Queues, NEW s \in Seq(Elements), Apart(s), Linked(m, q, s),
         NEW e \in Elements, Off(e, s), NEW i \in 1 .. Len(s) + 1,
         Between(m, m2, At(q, s, i - 1), e, At(q, s, i))
  PROVE  Linked(m2, q, Insert(s, i, e))
<1> DEFINE t == Turn(q, s)
           s2 == Insert(s, i, e)
           u == Turn(q, s2)
           n == Len(s) + 1
<1>1. Len(s) \in Nat BY Lengths
<1>2. /\ t \in Seq(Nodes) /\ Len(t) = n
      /\ \A k \in 1 .. n : t[k] = At(q, s, k - 1) /\ t[Up(k, n)] = At(q, s, k)
  BY TurnIs
<1>3. s2 \in Seq(Elements) /\ Len(s2) = n BY InsertIs
<1>4. Len(u) = n + 1 /\ \A k \in 1 .. n + 1 : u[k] = At(q, s2, k - 1) BY <1>3, TurnIs
<1>5. Apart(t) /\ Off(e, t) /\ e \in Nodes BY ApartTurn, Kinds
<1>6. Ring(m, t) BY RingOfQueue
<1>7. /\ \A k \in 1 .. i : u[k] = t[k]
      /\ u[i + 1] = e
      /\ \A k \in i + 1 .. n : u[k + 1] = t[k]
  <2>1. /\ \A k \in 1 .. i - 1 : s2[k] = s[k]
        /\ s2[i] = e
        /\ \A k \in i .. Len(s) : s2[k + 1] = s[k]
    BY InsertIs
  <2> HIDE DEF s2, t, u
  <2>2. ASSUME NEW k \in 1 .. i PROVE u[k] = t[k]
    <3>1. CASE k = 1 BY <1>1, <1>2, <1>3, <1>4, <3>1 DEF At
    <3>2. CASE k # 1
      <4>1. k - 1 \in 1 .. i - 1 /\ k - 1 \in 1 .. Len(s) /\ k - 1 \in 1 .. Len(s2) /\ k \in 1 .. n /\ k \in 1 .. n + 1
        BY <1>1, <1>3, <3>2
      <4> QED BY <1>2, <1>4, <2>1, <4>1 DEF At
    <3> QED BY <3>1, <3>2
  <2>3. u[i + 1] = e
    <3>1. i + 1 \in 1 .. n + 1 /\ (i + 1) - 1 = i /\ i \in 1 .. Len(s2) BY <1>1, <1>3
    <3> QED BY <1>4, <2>1, <3>1 DEF At
  <2>4. ASSUME NEW k \in i + 1 .. n PROVE u[k + 1] = t[k]
    <3>1. /\ k - 1 \in i .. Len(s) /\ (k - 1) + 1 = k /\ (k + 1) - 1 = k /\ k + 1 \in 1 .. n + 1 /\ k \in 1 .. n
          /\ k - 1 \in 1 .. Len(s) /\ k \in 1 .. Len(s2)
      BY <1>1, <1>3
    <3>2. u[k + 1] = s2[k] BY <1>4, <3>1 DEF At
    <3>3. t[k] = s[k - 1] BY <1>2, <3>1 DEF At
    <3>4. s2[k] = s[k - 1] BY <2>1, <3>1
    <3> QED BY <3>2, <3>3, <3>4
  <2> QED BY <2>2, <2>3, <2>4
<1>8. i \in 1 .. Len(t) /\ Between(m, m2, t[i], e, t[Up(i, Len(t))]) BY <1>2
<1>9. Grown(t, u, i, e) BY <1>2, <1>4, <1>7 DEF Grown
<1> HIDE DEF t, u
<1>10. Ring(m2, u) BY <1>2, <1>5, <1>6, <1>8, <1>9, RingInsert, Zenon
<1> QED BY <1>3, <1>10, RingOfQueue DEF u

LEMMA QueueDelete ==
  ASSUME NEW m, NEW m2, NEW q \in Queues, NEW s \in Seq(Elements), Apart(s), Linked(m, q, s),
         NEW i \in 1 .. Len(s), Bypass(m, m2, At(q, s, i - 1), s[i], At(q, s, i + 1))
  PROVE  Linked(m2, q, Delete(s, i))
<1> DEFINE t == Turn(q, s)
           s2 == Delete(s, i)
           u == Turn(q, s2)
           n == Len(s) + 1
<1>1. Len(s) \in Nat BY Lengths
<1>2. /\ t \in Seq(Nodes) /\ Len(t) = n
      /\ \A k \in 1 .. n : t[k] = At(q, s, k - 1) /\ t[Up(k, n)] = At(q, s, k)
  BY TurnIs
<1>3. s2 \in Seq(Elements) /\ Len(s2) = Len(s) - 1 BY DeleteIs
<1>4. Len(u) = Len(s2) + 1 /\ \A k \in 1 .. Len(s2) + 1 : u[k] = At(q, s2, k - 1) BY <1>3, TurnIs
<1>5. Apart(t) BY ApartTurn
<1>6. Ring(m, t) BY RingOfQueue
<1>7. \A k \in 1 .. i : u[k] = t[k]
  <2>1. \A k \in 1 .. i - 1 : s2[k] = s[k] BY DeleteIs
  <2> HIDE DEF s2, t, u
  <2>2. ASSUME NEW k \in 1 .. i PROVE u[k] = t[k]
    <3>1. CASE k = 1 BY <1>1, <1>2, <1>3, <1>4, <3>1 DEF At
    <3>2. CASE k # 1
      <4>1. /\ k - 1 \in 1 .. i - 1 /\ k - 1 \in 1 .. Len(s) /\ k - 1 \in 1 .. Len(s2)
            /\ k \in 1 .. n /\ k \in 1 .. Len(s2) + 1
        BY <1>1, <1>3, <3>2
      <4> QED BY <1>2, <1>4, <2>1, <4>1 DEF At
    <3> QED BY <3>1, <3>2
  <2> QED BY <2>2
<1>8. \A k \in i + 1 .. n - 1 : u[k] = t[k + 1]
  <2>1. \A k \in i .. Len(s) - 1 : s2[k] = s[k + 1] BY DeleteIs
  <2> HIDE DEF s2, t, u
  <2>2. ASSUME NEW k \in i + 1 .. n - 1 PROVE u[k] = t[k + 1]
    <3>1. /\ k - 1 \in i .. Len(s) - 1 /\ (k - 1) + 1 = k /\ (k + 1) - 1 = k /\ k + 1 \in 1 .. n
          /\ k \in 1 .. Len(s2) + 1 /\ k \in 1 .. Len(s) /\ k - 1 \in 1 .. Len(s2)
      BY <1>1, <1>3
    <3> QED BY <1>2, <1>4, <2>1, <3>1 DEF At
  <2> QED BY <2>2
<1>9. /\ i + 1 \in 1 .. n /\ i \in 1 .. n /\ Up(i, n) = i + 1 /\ n >= 2
      /\ t[i] = At(q, s, i - 1) /\ t[i + 1] = s[i] /\ t[Up(i + 1, n)] = At(q, s, i + 1)
  <2>1. i + 1 \in 1 .. n /\ i \in 1 .. n /\ Up(i, n) = i + 1 /\ n >= 2 /\ (i + 1) - 1 = i BY <1>1 DEF Up
  <2> QED BY <1>2, <2>1 DEF At
<1>10. Len(u) = n - 1 /\ (i + 1) - 1 = i BY <1>1, <1>3, <1>4
<1>11. Shrunk(t, u, i + 1) BY <1>2, <1>7, <1>8, <1>10 DEF Shrunk
<1>12. /\ Len(t) >= 2 /\ i + 1 \in 1 .. Len(t) /\ i \in 1 .. Len(t) /\ Up(i, Len(t)) = i + 1
       /\ Bypass(m, m2, t[i], t[i + 1], t[Up(i + 1, Len(t))])
  BY <1>2, <1>9
<1> HIDE DEF t, u
<1>13. Ring(m2, u) BY <1>2, <1>5, <1>6, <1>11, <1>12, RingDelete, Zenon
<1> QED BY <1>3, <1>13, RingOfQueue DEF u

----------------------------------------------------------------------------
\* One store.

LEMMA PutNext ==
  ASSUME NEW m \in Memory, NEW n \in Nodes, NEW v \in Nodes \cup {Null}
  PROVE  /\ m ++ Next_(n, v) \in Memory /\ (m ++ Next_(n, v)).prev = m.prev
         /\ (m ++ Next_(n, v)).next = [m.next EXCEPT ![n] = v]
BY DEF ++, Next_, Memory

LEMMA PutPrev ==
  ASSUME NEW m \in Memory, NEW n \in Nodes, NEW v \in Nodes \cup {Null}
  PROVE  /\ m ++ Prev_(n, v) \in Memory /\ (m ++ Prev_(n, v)).next = m.next
         /\ (m ++ Prev_(n, v)).prev = [m.prev EXCEPT ![n] = v]
BY DEF ++, Prev_, Memory

LEMMA Read ==
  ASSUME NEW m \in Memory
  PROVE  /\ m.next \in [Nodes -> Nodes \cup {Null}] /\ m.prev \in [Nodes -> Nodes \cup {Null}]
         /\ \A n \in Nodes : m.next[n] \in Nodes \cup {Null} /\ m.prev[n] \in Nodes \cup {Null}
BY DEF Memory

----------------------------------------------------------------------------
\* A circle is a ring of its elements, and its head leads into it.

LEMMA RingSame ==
  ASSUME NEW m, NEW m2, NEW t, Len(t) \in Nat, Ring(m, t),
         \A i \in 1 .. Len(t) : m2.next[t[i]] = m.next[t[i]] /\ m2.prev[t[i]] = m.prev[t[i]]
  PROVE  Ring(m2, t)
<1>1. \A i \in 1 .. Len(t) : Up(i, Len(t)) \in 1 .. Len(t) BY DEF Up
<1> QED BY <1>1 DEF Ring, Forward, Backward

LEMMA EmptyIs ==
  ASSUME NEW s \in Seq(Elements)
  PROVE  s = <<>> <=> Len(s) = 0
OBVIOUS

LEMMA RingOfCircle ==
  ASSUME NEW m, NEW c \in Circles, NEW s \in Seq(Elements)
  PROVE  Linked(m, c, s) <=> Ring(m, s) /\ m.next[c] = IF Len(s) = 0 THEN Null ELSE s[1]
BY EmptyIs DEF Linked, Ring, Turn, CircleFirst

LEMMA ElementsAreNodes ==
  ASSUME NEW s \in Seq(Elements)
  PROVE  s \in Seq(Nodes)
BY Kinds

LEMMA CircleHead ==
  ASSUME NEW m \in Memory, NEW c \in Circles, NEW s \in Seq(Elements), Len(s) > 0, Ring(m, s)
  PROVE  Linked(m ++ Next_(c, s[1]), c, s)
<1> DEFINE m2 == m ++ Next_(c, s[1])
<1>1. Len(s) \in Nat /\ \A i \in 1 .. Len(s) : s[i] \in Elements BY Lengths
<1>2. /\ c \in Nodes /\ \A i \in 1 .. Len(s) : s[i] \in Nodes /\ s[i] # c
  BY <1>1, Kinds
<1>3. s[1] \in Nodes BY <1>1, <1>2
<1>4. m2.prev = m.prev /\ m2.next = [m.next EXCEPT ![c] = s[1]] BY <1>2, <1>3, PutNext
<1>5. m2.next[c] = s[1] /\ \A n \in Nodes : n # c => m2.next[n] = m.next[n] BY <1>2, <1>4, Read
<1> HIDE DEF m2
<1>6. Ring(m2, s) BY <1>1, <1>2, <1>4, <1>5, RingSame
<1>7. Linked(m2, c, s) BY <1>5, <1>6, RingOfCircle
<1> QED BY <1>7 DEF m2

LEMMA CircleAppend ==
  ASSUME NEW m, NEW m2, NEW c \in Circles, NEW s \in Seq(Elements), Apart(s), Linked(m, c, s), Len(s) > 0,
         NEW e \in Elements, Off(e, s), Between(m, m2, s[Len(s)], e, s[1])
  PROVE  Linked(m2, c, Insert(s, Len(s) + 1, e))
<1> DEFINE n == Len(s)
           u == Insert(s, n + 1, e)
<1>1. n \in Nat /\ n > 0 /\ \A i \in 1 .. n : s[i] \in Elements BY Lengths
<1>2. n + 1 \in 1 .. n + 1 /\ n \in 1 .. n /\ Up(n, n) = 1 /\ 1 \in 1 .. n BY <1>1 DEF Up
<1>3. u \in Seq(Elements) /\ Len(u) = n + 1 /\ u[n + 1] = e /\ \A i \in 1 .. n : u[i] = s[i]
  BY <1>1, <1>2, InsertIs
<1>4. Grown(s, u, n, e) BY <1>1, <1>3 DEF Grown
<1>5. Ring(m, s) /\ m.next[c] = s[1] BY <1>1, RingOfCircle
<1>6. s \in Seq(Nodes) /\ e \in Nodes /\ c \in Nodes /\ c # e /\ c # s[n]
  BY <1>1, <1>2, Kinds, ElementsAreNodes
<1>7. Between(m, m2, s[n], e, s[Up(n, n)]) BY <1>2
<1>8. m2.next[c] = m.next[c] BY <1>6 DEF Between
<1> HIDE DEF u
<1>9. Ring(m2, u) BY <1>2, <1>4, <1>5, <1>6, <1>7, RingInsert, Zenon
<1>10. u[1] = s[1] /\ Len(u) # 0 BY <1>1, <1>2, <1>3
<1>11. Linked(m2, c, u) BY <1>3, <1>5, <1>8, <1>9, <1>10, RingOfCircle
<1> QED BY <1>11 DEF u

LEMMA CirclePrepend ==
  ASSUME NEW m \in Memory, NEW c \in Circles, NEW s \in Seq(Elements), NEW e \in Elements,
         Linked(m, c, Insert(s, Len(s) + 1, e))
  PROVE  Linked(m ++ Next_(c, e), c, Insert(s, 1, e))
<1> DEFINE n == Len(s)
           u == Insert(s, n + 1, e)
           v == Insert(s, 1, e)
<1>1. n \in Nat /\ n + 1 \in 1 .. n + 1 /\ 1 \in 1 .. n + 1 BY Lengths
<1>2. u \in Seq(Elements) /\ Len(u) = n + 1 /\ u[n + 1] = e /\ \A i \in 1 .. n : u[i] = s[i]
  BY <1>1, InsertIs
<1>3. v \in Seq(Elements) /\ Len(v) = n + 1 /\ v[1] = e /\ \A i \in 1 .. n : v[i + 1] = s[i]
  BY <1>1, InsertIs
<1>4. Ring(m, u) BY <1>2, RingOfCircle
<1> HIDE DEF u, v
<1>5. \A i \in 1 .. Len(v) : u[i] = v[Up(i, Len(v))] BY <1>1, <1>2, <1>3 DEF Up
<1>6. Ring(m, v) BY <1>1, <1>2, <1>3, <1>4, <1>5, RingTurned
<1>7. Linked(m ++ Next_(c, v[1]), c, v) BY <1>1, <1>3, <1>6, CircleHead
<1> QED BY <1>3, <1>7 DEF v

LEMMA CircleAlone ==
  ASSUME NEW m, NEW c \in Circles, NEW s \in Seq(Elements), Len(s) = 0, NEW e \in Elements,
         m.next[c] = e, m.next[e] = e, m.prev[e] = e
  PROVE  Linked(m, c, Insert(s, Len(s) + 1, e))
<1> DEFINE u == Insert(s, 1, e)
<1>1. u \in Seq(Elements) /\ Len(u) = 1 /\ u[1] = e
  <2>1. 1 \in 1 .. Len(s) + 1 OBVIOUS
  <2>2. u \in Seq(Elements) /\ Len(u) = Len(s) + 1 /\ u[1] = e BY <2>1, InsertIs, Zenon
  <2> QED BY <2>2
<1> HIDE DEF u
<1>2. Ring(m, u) BY <1>1 DEF Ring, Forward, Backward, Up
<1>3. Linked(m, c, u) BY <1>1, <1>2, RingOfCircle
<1>4. Len(s) + 1 = 1 OBVIOUS
<1>5. Insert(s, Len(s) + 1, e) = u BY <1>4, Zenon DEF u
<1> QED BY <1>3, <1>5

LEMMA CircleDelete ==
  ASSUME NEW m, NEW m2, NEW c \in Circles, NEW s \in Seq(Elements), Apart(s), Linked(m, c, s), Len(s) >= 2,
         NEW i \in 1 .. Len(s), NEW j \in 1 .. Len(s), Up(j, Len(s)) = i,
         Bypass(m, m2, s[j], s[i], s[Up(i, Len(s))])
  PROVE  /\ Ring(m2, Delete(s, i)) /\ (i # 1 => Linked(m2, c, Delete(s, i)))
         /\ i = 1 => Delete(s, i)[1] = s[Up(i, Len(s))]
<1> DEFINE n == Len(s)
           u == Delete(s, i)
<1>1. n \in Nat /\ n >= 2 /\ \A k \in 1 .. n : s[k] \in Elements BY Lengths
<1>2. /\ u \in Seq(Elements) /\ Len(u) = n - 1
      /\ \A k \in 1 .. i - 1 : u[k] = s[k]
      /\ \A k \in i .. n - 1 : u[k] = s[k + 1]
  BY <1>1, DeleteIs
<1>3. Shrunk(s, u, i) BY <1>2 DEF Shrunk
<1>4. Ring(m, s) /\ m.next[c] = s[1] BY <1>1, RingOfCircle
<1>5. s \in Seq(Nodes) BY ElementsAreNodes
<1> HIDE DEF u
<1>6. Ring(m2, u) BY <1>3, <1>4, <1>5, RingDelete, Zenon
<1>7. c \in Nodes /\ \A k \in 1 .. n : c # s[k] BY <1>1, Kinds
<1>8. m2.next[c] = s[1] BY <1>4, <1>7 DEF Bypass
<1>9. ASSUME i # 1 PROVE Linked(m2, c, u)
  <2>1. u[1] = s[1] /\ Len(u) # 0 BY <1>1, <1>2, <1>9
  <2> QED BY <1>2, <1>6, <1>8, <2>1, RingOfCircle
<1>10. ASSUME i = 1 PROVE u[1] = s[Up(i, n)] BY <1>1, <1>2, <1>10 DEF Up
<1> QED BY <1>6, <1>9, <1>10 DEF u

LEMMA CircleTurnedForward ==
  ASSUME NEW m \in Memory, NEW c \in Circles, NEW s \in Seq(Elements), Linked(m, c, s), Len(s) > 0
  PROVE  Linked(m ++ Next_(c, m.next[s[1]]), c, Rotated(s, 1))
<1> DEFINE n == Len(s)
           v == Rotated(s, 1)
<1>1. n \in Nat /\ n > 0 /\ 1 \in 0 .. n BY Lengths
<1>2. /\ v \in Seq(Elements) /\ Len(v) = n
      /\ \A j \in 1 .. n - 1 : v[j] = s[j + 1]
      /\ \A j \in n - 1 + 1 .. n : v[j] = s[j + 1 - n]
  BY <1>1, RotatedIs
<1> HIDE DEF v
<1>3. v[n] = s[1]
  <2>1. n \in n - 1 + 1 .. n /\ n + 1 - n = 1 BY <1>1
  <2> QED BY <1>2, <2>1
<1>4. \A i \in 1 .. n : v[i] = s[Up(i, n)] BY <1>1, <1>2, <1>3 DEF Up
<1>5. Ring(m, s) BY RingOfCircle
<1>6. Ring(m, v) BY <1>1, <1>2, <1>4, <1>5, RingTurned
<1>7. m.next[s[1]] = v[1] BY <1>1, <1>4, <1>5 DEF Ring, Forward
<1>8. Linked(m ++ Next_(c, v[1]), c, v) BY <1>1, <1>2, <1>6, CircleHead
<1> QED BY <1>7, <1>8 DEF v

LEMMA CircleTurnedBackward ==
  ASSUME NEW m \in Memory, NEW c \in Circles, NEW s \in Seq(Elements), Linked(m, c, s), Len(s) > 0
  PROVE  /\ m.prev[s[1]] = s[Len(s)]
         /\ Linked(m ++ Next_(c, s[Len(s)]), c, Rotated(s, Len(s) - 1))
<1> DEFINE n == Len(s)
           v == Rotated(s, n - 1)
<1>1. n \in Nat /\ n > 0 /\ n - 1 \in 0 .. n BY Lengths
<1>2. /\ v \in Seq(Elements) /\ Len(v) = n
      /\ \A j \in 1 .. n - (n - 1) : v[j] = s[j + (n - 1)]
      /\ \A j \in n - (n - 1) + 1 .. n : v[j] = s[j + (n - 1) - n]
  BY <1>1, RotatedIs
<1> HIDE DEF v
<1>3. v[1] = s[n] BY <1>1, <1>2
<1>4. ASSUME NEW i \in 1 .. n PROVE s[i] = v[Up(i, n)]
  <2>1. CASE i = n BY <1>1, <1>3, <2>1 DEF Up
  <2>2. CASE i # n
    <3>1. i + 1 \in n - (n - 1) + 1 .. n /\ (i + 1) + (n - 1) - n = i /\ Up(i, n) = i + 1 BY <1>1, <2>2 DEF Up
    <3> QED BY <1>2, <3>1
  <2> QED BY <2>1, <2>2
<1>5. Ring(m, s) BY RingOfCircle
<1>6. Ring(m, v) BY <1>1, <1>2, <1>4, <1>5, RingTurned
<1>7. m.prev[s[1]] = s[n]
  <2>1. n \in 1 .. n /\ Up(n, n) = 1 BY <1>1 DEF Up
  <2> QED BY <1>5, <2>1 DEF Ring, Backward
<1>8. Linked(m ++ Next_(c, v[1]), c, v) BY <1>1, <1>2, <1>6, CircleHead
<1> QED BY <1>3, <1>7, <1>8 DEF v

----------------------------------------------------------------------------
\* All queues together: every element at one place of one head, every head in
\* use linked, the others empty.

Spread(c) ==
  \A q, r \in Heads : \A i \in 1 .. Len(c[q]), j \in 1 .. Len(c[r]) : c[q][i] = c[r][j] => q = r /\ i = j

Good(m, c, R) ==
  /\ m \in Memory /\ R \subseteq Heads /\ c \in [Heads -> Seq(Elements)] /\ Spread(c)
  /\ \A q \in Heads \ R : c[q] = <<>>
  /\ \A q \in R : Linked(m, q, c[q])

\* What is on q before or after an operation, q included.
Mine(q, s, n) == n = q \/ ~Off(n, s)

\* Of the contents c, those of q become s, without an element of another head.
Own(c, q, s) ==
  s \in Seq(Elements) /\ Apart(s) /\ \A r \in Heads : r # q => \A i \in 1 .. Len(s) : Off(s[i], c[r])

LEMMA SpreadApart ==
  ASSUME NEW c \in [Heads -> Seq(Elements)]
  PROVE  Spread(c) <=> \A q \in Heads : Own(c, q, c[q])
<1>1. \A q \in Heads : c[q] \in Seq(Elements) OBVIOUS
<1>2. ASSUME Spread(c), NEW q \in Heads PROVE Own(c, q, c[q])
  <2>1. Apart(c[q]) BY <1>2 DEF Spread, Apart
  <2>2. ASSUME NEW r \in Heads, r # q, NEW i \in 1 .. Len(c[q]) PROVE Off(c[q][i], c[r])
    BY <1>2, <2>2 DEF Spread, Off
  <2> QED BY <1>1, <2>1, <2>2 DEF Own
<1>3. ASSUME \A q \in Heads : Own(c, q, c[q]) PROVE Spread(c)
  <2> SUFFICES ASSUME NEW q \in Heads, NEW r \in Heads, NEW i \in 1 .. Len(c[q]), NEW j \in 1 .. Len(c[r]),
                      c[q][i] = c[r][j]
               PROVE  q = r /\ i = j
    BY DEF Spread
  <2>1. CASE q = r BY <1>3, <2>1 DEF Own, Apart
  <2>2. CASE q # r BY <1>3, <2>2 DEF Own, Off
  <2> QED BY <2>1, <2>2
<1> QED BY <1>2, <1>3

LEMMA SpreadChange ==
  ASSUME NEW c \in [Heads -> Seq(Elements)], Spread(c), NEW q \in Heads, NEW s, Own(c, q, s)
  PROVE  [c EXCEPT ![q] = s] \in [Heads -> Seq(Elements)] /\ Spread([c EXCEPT ![q] = s])
<1> DEFINE d == [c EXCEPT ![q] = s]
<1>1. s \in Seq(Elements) BY DEF Own
<1>2. d \in [Heads -> Seq(Elements)] /\ d[q] = s /\ \A r \in Heads : r # q => d[r] = c[r] BY <1>1
<1> HIDE DEF d
<1>3. \A r \in Heads : Own(c, r, c[r]) BY SpreadApart
<1>4. ASSUME NEW r \in Heads PROVE Own(d, r, d[r])
  <2>1. CASE r = q BY <1>2, <2>1 DEF Own
  <2>2. CASE r # q
    <3>1. Own(c, r, c[r]) /\ d[r] = c[r] BY <1>2, <1>3, <2>2
    <3>2. \A i \in 1 .. Len(c[r]) : Off(c[r][i], s)
      <4>1. \A i \in 1 .. Len(s) : \A j \in 1 .. Len(c[r]) : c[r][j] # s[i] BY <2>2 DEF Own, Off
      <4> QED BY <4>1 DEF Off
    <3>3. ASSUME NEW p \in Heads, p # r, NEW i \in 1 .. Len(c[r]) PROVE Off(c[r][i], d[p])
      <4>1. CASE p = q BY <1>2, <3>2, <4>1
      <4>2. CASE p # q
        <5>1. d[p] = c[p] BY <1>2, <4>2
        <5> QED BY <3>1, <3>3, <5>1 DEF Own
      <4> QED BY <4>1, <4>2
    <3> QED BY <3>1, <3>3 DEF Own
  <2> QED BY <2>1, <2>2
<1>5. Spread(d) BY <1>2, <1>4, SpreadApart
<1> QED BY <1>2, <1>5 DEF d

LEMMA LinkedSame ==
  ASSUME NEW m, NEW m2, NEW q \in Heads, NEW s \in Seq(Elements), Linked(m, q, s),
         \A n \in Nodes : Mine(q, s, n) => m2.next[n] = m.next[n] /\ m2.prev[n] = m.prev[n]
  PROVE  Linked(m2, q, s)
<1>1. Len(s) \in Nat /\ q \in Nodes /\ \A i \in 1 .. Len(s) : s[i] \in Nodes BY Lengths, Kinds
<1>2. /\ m2.next[q] = m.next[q] /\ m2.prev[q] = m.prev[q]
      /\ \A i \in 1 .. Len(s) : m2.next[s[i]] = m.next[s[i]] /\ m2.prev[s[i]] = m.prev[s[i]]
  BY <1>1 DEF Mine, Off
<1>3. CASE q \in Queues
  <2>1. \A i \in Int : m2.next[At(q, s, i)] = m.next[At(q, s, i)] /\ m2.prev[At(q, s, i)] = m.prev[At(q, s, i)]
    BY <1>2 DEF At
  <2>2. \A i \in 0 .. Len(s) : m.next[At(q, s, i)] = At(q, s, i + 1) /\ m.prev[At(q, s, i + 1)] = At(q, s, i)
    BY <1>3, QueueLinks
  <2>3. \A i \in 0 .. Len(s) : m2.next[At(q, s, i)] = At(q, s, i + 1) /\ m2.prev[At(q, s, i + 1)] = At(q, s, i)
    BY <2>1, <2>2
  <2> QED BY <1>3, <2>3, QueueLinks
<1>4. CASE q \in Circles
  <2>1. Ring(m, s) /\ m.next[q] = IF Len(s) = 0 THEN Null ELSE s[1] BY <1>4, RingOfCircle
  <2>2. Ring(m2, s) BY <1>1, <1>2, <2>1, RingSame
  <2> QED BY <1>2, <1>4, <2>1, <2>2, RingOfCircle
<1> QED BY <1>3, <1>4 DEF Heads

\* The operations change the links of what is on the heads Q only.
Touches(m, m2, c, d, Q) ==
  \A n \in Nodes : (m2.next[n] # m.next[n] \/ m2.prev[n] # m.prev[n])
                     => \E q \in Q : Mine(q, c[q], n) \/ Mine(q, d[q], n)

\* They leave those linked, or empty and out of use, and the others as they are.
Settles(m2, c, d, R, S, Q) ==
  /\ \A q \in Q : (q \in S => Linked(m2, q, d[q])) /\ (q \notin S => d[q] = <<>>)
  /\ \A r \in Heads \ Q : d[r] = c[r] /\ (r \in S <=> r \in R)

LEMMA Changed ==
  ASSUME NEW m, NEW c, NEW R, Good(m, c, R), NEW m2 \in Memory, NEW d \in [Heads -> Seq(Elements)],
         NEW S \in SUBSET Heads, NEW Q \in SUBSET Heads, Spread(d),
         Settles(m2, c, d, R, S, Q), Touches(m, m2, c, d, Q)
  PROVE  Good(m2, d, S)
<1> USE DEF Settles, Touches
<1>1. c \in [Heads -> Seq(Elements)] /\ Spread(c) /\ \A r \in R : Linked(m, r, c[r]) BY DEF Good
<1>2. ASSUME NEW r \in S PROVE Linked(m2, r, d[r])
  <2>1. CASE r \in Q BY <2>1
  <2>2. CASE r \notin Q
    <3>1. r \in Heads /\ d[r] = c[r] /\ r \in R /\ d[r] \in Seq(Elements) /\ Linked(m, r, d[r]) BY <1>1, <2>2
    <3>2. ASSUME NEW n \in Nodes, Mine(r, d[r], n), NEW q \in Q PROVE ~Mine(q, c[q], n) /\ ~Mine(q, d[q], n)
      <4>1. q \in Heads /\ q # r /\ \A i \in 1 .. Len(d[r]) : d[r][i] # q BY <2>2, <3>1, Kinds, Lengths
      <4>2. \A i \in 1 .. Len(c[q]) : c[q][i] # r BY <1>1, <3>1, <4>1, Kinds, Lengths
      <4>3. \A i \in 1 .. Len(d[q]) : d[q][i] # r BY <3>1, <4>1, Kinds, Lengths
      <4>4. \A i \in 1 .. Len(d[r]), j \in 1 .. Len(c[q]) : d[r][i] # c[q][j] BY <1>1, <3>1, <4>1 DEF Spread
      <4>5. \A i \in 1 .. Len(d[r]), j \in 1 .. Len(d[q]) : d[r][i] # d[q][j] BY <3>1, <4>1 DEF Spread
      <4> QED BY <3>2, <4>1, <4>2, <4>3, <4>4, <4>5 DEF Mine, Off
    <3>3. \A n \in Nodes : Mine(r, d[r], n) => m2.next[n] = m.next[n] /\ m2.prev[n] = m.prev[n] BY <3>2
    <3> QED BY <3>1, <3>3, LinkedSame
  <2> QED BY <2>1, <2>2
<1>3. ASSUME NEW r \in Heads \ S PROVE d[r] = <<>>
  <2>1. CASE r \in Q BY <1>3, <2>1
  <2>2. CASE r \notin Q BY <1>3, <2>2 DEF Good
  <2> QED BY <2>1, <2>2
<1> QED BY <1>2, <1>3 DEF Good

LEMMA GoodAt ==
  ASSUME NEW m, NEW c, NEW R, Good(m, c, R), NEW q \in Heads
  PROVE  /\ m \in Memory /\ R \subseteq Heads /\ c \in [Heads -> Seq(Elements)] /\ Spread(c)
         /\ c[q] \in Seq(Elements) /\ Apart(c[q]) /\ Own(c, q, c[q]) /\ Len(c[q]) \in Nat
         /\ \A i \in 1 .. Len(c[q]) : c[q][i] \in Elements
         /\ q \in R => Linked(m, q, c[q])
<1>1. m \in Memory /\ R \subseteq Heads /\ c \in [Heads -> Seq(Elements)] /\ Spread(c) BY DEF Good
<1>2. c[q] \in Seq(Elements) BY <1>1
<1>3. Own(c, q, c[q]) BY <1>1, SpreadApart
<1>4. Len(c[q]) \in Nat /\ \A i \in 1 .. Len(c[q]) : c[q][i] \in Elements BY <1>2, Lengths
<1> QED BY <1>1, <1>2, <1>3, <1>4 DEF Own, Good

\* An operation on one head, which it may bring into use.
LEMMA ChangedOne ==
  ASSUME NEW m, NEW c, NEW R, Good(m, c, R), NEW m2 \in Memory, NEW q \in Heads, NEW s, Own(c, q, s),
         Linked(m2, q, s), NEW S, S = R \cup {q},
         \A n \in Nodes : (m2.next[n] # m.next[n] \/ m2.prev[n] # m.prev[n])
                            => Mine(q, c[q], n) \/ Mine(q, s, n)
  PROVE  Good(m2, [c EXCEPT ![q] = s], S)
<1> DEFINE d == [c EXCEPT ![q] = s]
<1>1. c \in [Heads -> Seq(Elements)] /\ Spread(c) /\ R \subseteq Heads BY GoodAt
<1>2. d \in [Heads -> Seq(Elements)] /\ Spread(d) BY <1>1, SpreadChange
<1>3. d[q] = s /\ \A r \in Heads : r # q => d[r] = c[r] BY <1>1
<1> HIDE DEF d
<1> DEFINE Q == {q}
<1>4. S \in SUBSET Heads /\ Q \in SUBSET Heads BY <1>1
<1>5. Settles(m2, c, d, R, S, Q) BY <1>3 DEF Settles
<1>6. Touches(m, m2, c, d, Q) BY <1>3 DEF Touches
<1> HIDE DEF Q
<1>7. Good(m2, d, S) BY <1>2, <1>4, <1>5, <1>6, Changed, Zenon
<1> QED BY <1>7 DEF d

\* An element that is on no head.
Free(c, e) == \A r \in Heads : Off(e, c[r])

LEMMA OwnInsert ==
  ASSUME NEW c, NEW q \in Heads, Own(c, q, c[q]), NEW e \in Elements, Free(c, e),
         NEW i \in 1 .. Len(c[q]) + 1
  PROVE  Own(c, q, Insert(c[q], i, e)) /\ ~Off(e, Insert(c[q], i, e))
<1> DEFINE s == c[q]
           t == Insert(s, i, e)
<1>1. s \in Seq(Elements) /\ Apart(s) /\ Off(e, s) /\ Len(s) \in Nat BY Lengths DEF Own, Free
<1>2. t \in Seq(Elements) /\ Len(t) = Len(s) + 1 /\ t[i] = e BY <1>1, InsertIs
<1>3. Apart(t) BY <1>1, ApartInsert
<1>4. \A j \in 1 .. Len(s) + 1 : t[j] = IF j < i THEN s[j] ELSE IF j = i THEN e ELSE s[j - 1] BY DEF Insert
<1> HIDE DEF t
<1>5. ASSUME NEW j \in 1 .. Len(t) PROVE t[j] = e \/ \E k \in 1 .. Len(s) : t[j] = s[k]
  <2>1. CASE j < i BY <1>1, <1>2, <1>4, <2>1
  <2>2. CASE j > i
    <3>1. j - 1 \in 1 .. Len(s) /\ t[j] = s[j - 1] BY <1>1, <1>2, <1>4, <2>2
    <3> QED BY <3>1
  <2>3. CASE j = i BY <1>2, <2>3
  <2> QED BY <1>1, <2>1, <2>2, <2>3
<1>6. \A r \in Heads : r # q => \A k \in 1 .. Len(s) : Off(s[k], c[r]) BY DEF Own
<1>7. \A r \in Heads : r # q => \A j \in 1 .. Len(t) : Off(t[j], c[r]) BY <1>5, <1>6 DEF Free
<1>8. i \in 1 .. Len(t) BY <1>1, <1>2
<1>9. Own(c, q, t) BY <1>2, <1>3, <1>7 DEF Own
<1>10. ~Off(e, t) BY <1>2, <1>8 DEF Off
<1> QED BY <1>9, <1>10 DEF t

LEMMA OwnDelete ==
  ASSUME NEW c, NEW q \in Heads, Own(c, q, c[q]), NEW i \in 1 .. Len(c[q])
  PROVE  Own(c, q, Delete(c[q], i)) /\ Off(c[q][i], Delete(c[q], i))
<1> DEFINE s == c[q]
           t == Delete(s, i)
<1>1. s \in Seq(Elements) /\ Apart(s) /\ Len(s) \in Nat BY Lengths DEF Own
<1>2. t \in Seq(Elements) /\ Len(t) = Len(s) - 1 BY <1>1, DeleteIs
<1>3. Apart(t) /\ Off(s[i], t) BY <1>1, ApartDelete
<1>4. \A j \in 1 .. Len(s) - 1 : t[j] = IF j < i THEN s[j] ELSE s[j + 1] BY DEF Delete
<1> HIDE DEF t
<1>5. ASSUME NEW j \in 1 .. Len(t) PROVE \E k \in 1 .. Len(s) : t[j] = s[k]
  <2>1. j \in 1 .. Len(s) /\ j + 1 \in 1 .. Len(s) /\ (t[j] = s[j] \/ t[j] = s[j + 1]) BY <1>1, <1>2, <1>4
  <2> QED BY <2>1
<1>6. \A r \in Heads : r # q => \A k \in 1 .. Len(s) : Off(s[k], c[r]) BY DEF Own
<1>7. \A r \in Heads : r # q => \A j \in 1 .. Len(t) : Off(t[j], c[r]) BY <1>5, <1>6
<1>8. Own(c, q, t) BY <1>2, <1>3, <1>7 DEF Own
<1> QED BY <1>3, <1>8 DEF t

LEMMA OwnRotated ==
  ASSUME NEW c, NEW q \in Heads, Own(c, q, c[q]), NEW k \in 0 .. Len(c[q])
  PROVE  Own(c, q, Rotated(c[q], k))
<1> DEFINE s == c[q]
           t == Rotated(s, k)
<1>1. s \in Seq(Elements) /\ Apart(s) /\ Len(s) \in Nat BY Lengths DEF Own
<1>2. t \in Seq(Elements) /\ Len(t) = Len(s) BY <1>1, RotatedIs
<1>3. Apart(t) BY <1>1, ApartRotated
<1>4. \A j \in 1 .. Len(s) : t[j] = IF j + k > Len(s) THEN s[j + k - Len(s)] ELSE s[j + k] BY DEF Rotated
<1> HIDE DEF t
<1>5. ASSUME NEW j \in 1 .. Len(t) PROVE \E h \in 1 .. Len(s) : t[j] = s[h]
  <2>1. j \in 1 .. Len(s) BY <1>2
  <2>2. CASE j + k > Len(s)
    <3>1. j + k - Len(s) \in 1 .. Len(s) BY <1>1, <2>1, <2>2
    <3>2. t[j] = s[j + k - Len(s)] BY <1>4, <2>1, <2>2
    <3> QED BY <3>1, <3>2
  <2>3. CASE ~(j + k > Len(s))
    <3>1. j + k \in 1 .. Len(s) BY <1>1, <2>1, <2>3
    <3>2. t[j] = s[j + k] BY <1>4, <2>1, <2>3
    <3> QED BY <3>1, <3>2
  <2> QED BY <2>2, <2>3
<1>6. \A r \in Heads : r # q => \A h \in 1 .. Len(s) : Off(s[h], c[r]) BY DEF Own
<1>7. \A r \in Heads : r # q => \A j \in 1 .. Len(t) : Off(t[j], c[r]) BY <1>5, <1>6
<1>8. Own(c, q, t) BY <1>2, <1>3, <1>7 DEF Own
<1> QED BY <1>8 DEF t

LEMMA GoodInsert ==
  ASSUME NEW m, NEW c, NEW R, Good(m, c, R), NEW q \in R, q \in Queues, NEW e \in Elements, Free(c, e),
         NEW i \in 1 .. Len(c[q]) + 1, NEW m2, Between(m, m2, At(q, c[q], i - 1), e, At(q, c[q], i))
  PROVE  Good(m2, [c EXCEPT ![q] = Insert(c[q], i, e)], R)
<1> DEFINE s == c[q]
           t == Insert(s, i, e)
<1>1. q \in Heads BY DEF Heads
<1>2. s \in Seq(Elements) /\ Apart(s) /\ Own(c, q, s) /\ Len(s) \in Nat /\ Linked(m, q, s) BY <1>1, GoodAt
<1>3. Off(e, s) BY <1>1 DEF Free
<1>4. Own(c, q, t) /\ ~Off(e, t) BY <1>1, <1>2, OwnInsert
<1>5. Linked(m2, q, t) BY <1>2, <1>3, QueueInsert
<1>6. m2 \in Memory BY DEF Between
<1>7. \A j \in Int : Mine(q, s, At(q, s, j)) BY <1>2, AtIs DEF Mine, Off
<1>8. i \in Int /\ i - 1 \in Int BY <1>2
<1> HIDE DEF t
<1>9. \A n \in Nodes : (m2.next[n] # m.next[n] \/ m2.prev[n] # m.prev[n]) => Mine(q, s, n) \/ Mine(q, t, n)
  BY <1>4, <1>7, <1>8 DEF Between, Mine
<1>10. R = R \cup {q} OBVIOUS
<1>11. Good(m2, [c EXCEPT ![q] = t], R) BY <1>1, <1>4, <1>5, <1>6, <1>9, <1>10, ChangedOne, Zenon
<1> QED BY <1>11 DEF t

LEMMA GoodDelete ==
  ASSUME NEW m, NEW c, NEW R, Good(m, c, R), NEW q \in R, q \in Queues, NEW i \in 1 .. Len(c[q]),
         NEW m2, Bypass(m, m2, At(q, c[q], i - 1), c[q][i], At(q, c[q], i + 1))
  PROVE  /\ Good(m2, [c EXCEPT ![q] = Delete(c[q], i)], R)
         /\ Free([c EXCEPT ![q] = Delete(c[q], i)], c[q][i])
<1> DEFINE s == c[q]
           t == Delete(s, i)
<1>1. q \in Heads BY DEF Heads
<1>2. /\ s \in Seq(Elements) /\ Apart(s) /\ Own(c, q, s) /\ Len(s) \in Nat /\ Linked(m, q, s)
      /\ c \in [Heads -> Seq(Elements)]
  BY <1>1, GoodAt
<1>4. Own(c, q, t) /\ Off(s[i], t) BY <1>1, <1>2, OwnDelete
<1>5. Linked(m2, q, t) BY <1>2, QueueDelete
<1>6. m2 \in Memory BY DEF Bypass
<1>7. \A j \in Int : Mine(q, s, At(q, s, j)) BY <1>2, AtIs DEF Mine, Off
<1>8. i + 1 \in Int /\ i - 1 \in Int /\ Mine(q, s, s[i]) BY <1>2 DEF Mine, Off
<1> HIDE DEF t
<1>9. \A n \in Nodes : (m2.next[n] # m.next[n] \/ m2.prev[n] # m.prev[n]) => Mine(q, s, n) \/ Mine(q, t, n)
  BY <1>7, <1>8 DEF Bypass
<1>10. R = R \cup {q} OBVIOUS
<1>11. Good(m2, [c EXCEPT ![q] = t], R) BY <1>1, <1>4, <1>5, <1>6, <1>9, <1>10, ChangedOne, Zenon
<1>12. Free([c EXCEPT ![q] = t], s[i])
  <2>1. \A r \in Heads : r # q => Off(s[i], c[r]) BY <1>2 DEF Own
  <2> QED BY <1>1, <1>2, <1>4, <2>1 DEF Free
<1> QED BY <1>11, <1>12 DEF t

----------------------------------------------------------------------------
\* The stores of the operations, in whichever order they make them.

Stored(m, k, a, v, b, w, c, x, d, y) ==
  /\ k \in Memory
  /\ k.next = [[m.next EXCEPT ![a] = v] EXCEPT ![b] = w]
  /\ k.prev = [[m.prev EXCEPT ![c] = x] EXCEPT ![d] = y]

LEMMA FourStores ==
  ASSUME NEW m \in Memory, NEW a \in Nodes, NEW b \in Nodes, NEW c \in Nodes, NEW d \in Nodes,
         NEW v \in Nodes \cup {Null}, NEW w \in Nodes \cup {Null},
         NEW x \in Nodes \cup {Null}, NEW y \in Nodes \cup {Null}
  PROVE  /\ Stored(m, m ++ Next_(a, v) ++ Prev_(c, x) ++ Prev_(d, y) ++ Next_(b, w), a, v, b, w, c, x, d, y)
         /\ Stored(m, m ++ Next_(a, v) ++ Prev_(c, x) ++ Next_(b, w) ++ Prev_(d, y), a, v, b, w, c, x, d, y)
         /\ Stored(m, m ++ Prev_(c, x) ++ Next_(a, v) ++ Prev_(d, y) ++ Next_(b, w), a, v, b, w, c, x, d, y)
<1> DEFINE k == m ++ Next_(a, v) ++ Prev_(c, x)
           l == m ++ Prev_(c, x) ++ Next_(a, v)
<1>1. k \in Memory /\ k.next = [m.next EXCEPT ![a] = v] /\ k.prev = [m.prev EXCEPT ![c] = x]
  <2> DEFINE g == m ++ Next_(a, v)
  <2>1. g \in Memory /\ g.next = [m.next EXCEPT ![a] = v] /\ g.prev = m.prev BY PutNext
  <2> HIDE DEF g
  <2>2. LET h == g ++ Prev_(c, x) IN h \in Memory /\ h.next = g.next /\ h.prev = [g.prev EXCEPT ![c] = x]
    BY <2>1, PutPrev
  <2> QED BY <2>1, <2>2 DEF g
<1>2. l \in Memory /\ l.next = [m.next EXCEPT ![a] = v] /\ l.prev = [m.prev EXCEPT ![c] = x]
  <2> DEFINE g == m ++ Prev_(c, x)
  <2>1. g \in Memory /\ g.prev = [m.prev EXCEPT ![c] = x] /\ g.next = m.next BY PutPrev
  <2> HIDE DEF g
  <2>2. LET h == g ++ Next_(a, v) IN h \in Memory /\ h.prev = g.prev /\ h.next = [g.next EXCEPT ![a] = v]
    BY <2>1, PutNext
  <2> QED BY <2>1, <2>2 DEF g
<1> HIDE DEF k, l
<1>3. ASSUME NEW g \in Memory, g.next = [m.next EXCEPT ![a] = v], g.prev = [m.prev EXCEPT ![c] = x]
      PROVE  /\ Stored(m, g ++ Prev_(d, y) ++ Next_(b, w), a, v, b, w, c, x, d, y)
             /\ Stored(m, g ++ Next_(b, w) ++ Prev_(d, y), a, v, b, w, c, x, d, y)
  <2>1. Stored(m, g ++ Prev_(d, y) ++ Next_(b, w), a, v, b, w, c, x, d, y)
    <3> DEFINE h == g ++ Prev_(d, y)
    <3>1. h \in Memory /\ h.prev = [g.prev EXCEPT ![d] = y] /\ h.next = g.next BY PutPrev
    <3> HIDE DEF h
    <3>2. LET j == h ++ Next_(b, w) IN j \in Memory /\ j.prev = h.prev /\ j.next = [h.next EXCEPT ![b] = w]
      BY <3>1, PutNext
    <3> QED BY <1>3, <3>1, <3>2 DEF Stored, h
  <2>2. Stored(m, g ++ Next_(b, w) ++ Prev_(d, y), a, v, b, w, c, x, d, y)
    <3> DEFINE h == g ++ Next_(b, w)
    <3>1. h \in Memory /\ h.next = [g.next EXCEPT ![b] = w] /\ h.prev = g.prev BY PutNext
    <3> HIDE DEF h
    <3>2. LET j == h ++ Prev_(d, y) IN j \in Memory /\ j.next = h.next /\ j.prev = [h.prev EXCEPT ![d] = y]
      BY <3>1, PutPrev
    <3> QED BY <1>3, <3>1, <3>2 DEF Stored, h
  <2> QED BY <2>1, <2>2
<1>4. /\ Stored(m, k ++ Prev_(d, y) ++ Next_(b, w), a, v, b, w, c, x, d, y)
      /\ Stored(m, k ++ Next_(b, w) ++ Prev_(d, y), a, v, b, w, c, x, d, y)
  BY <1>1, <1>3
<1>5. Stored(m, l ++ Prev_(d, y) ++ Next_(b, w), a, v, b, w, c, x, d, y) BY <1>2, <1>3
<1> QED BY <1>4, <1>5 DEF k, l

LEMMA TwoStores ==
  ASSUME NEW m \in Memory, NEW a \in Nodes, NEW c \in Nodes,
         NEW v \in Nodes \cup {Null}, NEW x \in Nodes \cup {Null}, NEW k,
         k = m ++ Next_(a, v) ++ Prev_(c, x) \/ k = m ++ Prev_(c, x) ++ Next_(a, v)
  PROVE  k \in Memory /\ k.next = [m.next EXCEPT ![a] = v] /\ k.prev = [m.prev EXCEPT ![c] = x]
<1>1. CASE k = m ++ Next_(a, v) ++ Prev_(c, x)
  <2> DEFINE g == m ++ Next_(a, v)
  <2>1. g \in Memory /\ g.next = [m.next EXCEPT ![a] = v] /\ g.prev = m.prev BY PutNext
  <2>2. k = g ++ Prev_(c, x) BY <1>1
  <2> HIDE DEF g
  <2>3. k \in Memory /\ k.next = g.next /\ k.prev = [g.prev EXCEPT ![c] = x] BY <2>1, <2>2, PutPrev
  <2> QED BY <2>1, <2>3
<1>2. CASE k = m ++ Prev_(c, x) ++ Next_(a, v)
  <2> DEFINE g == m ++ Prev_(c, x)
  <2>1. g \in Memory /\ g.prev = [m.prev EXCEPT ![c] = x] /\ g.next = m.next BY PutPrev
  <2>2. k = g ++ Next_(a, v) BY <1>2
  <2> HIDE DEF g
  <2>3. k \in Memory /\ k.prev = g.prev /\ k.next = [g.next EXCEPT ![a] = v] BY <2>1, <2>2, PutNext
  <2> QED BY <2>1, <2>3
<1> QED BY <1>1, <1>2

LEMMA StoredBetween ==
  ASSUME NEW m \in Memory, NEW k, NEW x \in Nodes, NEW e \in Nodes, NEW y \in Nodes, e # x, e # y,
         \/ Stored(m, k, e, y, x, e, e, x, y, e)
         \/ Stored(m, k, e, y, x, e, y, e, e, x)
  PROVE  Between(m, k, x, e, y)
BY Read, ZenonT(20) DEF Stored, Between

LEMMA StoredBypass ==
  ASSUME NEW m \in Memory, NEW k, NEW x \in Nodes, NEW e \in Nodes, NEW y \in Nodes,
         k = m ++ Next_(x, y) ++ Prev_(y, x) \/ k = m ++ Prev_(y, x) ++ Next_(x, y)
  PROVE  Bypass(m, k, x, e, y)
<1>1. k \in Memory /\ k.next = [m.next EXCEPT ![x] = y] /\ k.prev = [m.prev EXCEPT ![y] = x] BY TwoStores
<1> QED BY <1>1, Read DEF Bypass

LEMMA ForgetBypass ==
  ASSUME NEW m \in Memory, NEW k, NEW x \in Nodes, NEW e \in Nodes, NEW y \in Nodes, e # x, e # y,
         Bypass(m, k, x, e, y)
  PROVE  Bypass(m, Forget(k, e), x, e, y)
<1> DEFINE g == Forget(k, e)
<1>1. k \in Memory BY DEF Bypass
<1>2. g = k ++ Next_(e, Null) ++ Prev_(e, Null) BY DEF Forget
<1>3. g \in Memory /\ g.next = [k.next EXCEPT ![e] = Null] /\ g.prev = [k.prev EXCEPT ![e] = Null]
  <2> DEFINE h == k ++ Next_(e, Null)
  <2>1. h \in Memory /\ h.next = [k.next EXCEPT ![e] = Null] /\ h.prev = k.prev BY <1>1, PutNext
  <2>2. g = h ++ Prev_(e, Null) BY <1>2
  <2> HIDE DEF g, h
  <2>3. g \in Memory /\ g.next = h.next /\ g.prev = [h.prev EXCEPT ![e] = Null] BY <2>1, <2>2, PutPrev
  <2> QED BY <2>1, <2>3
<1> HIDE DEF g
<1>4. Bypass(m, g, x, e, y) BY <1>1, <1>3, Read DEF Bypass
<1> QED BY <1>4 DEF g

----------------------------------------------------------------------------
\* The operations of both methods, at any place of a queue.

\* The gap before the i-th element, or behind the last.
Joined(m, c, x, y) ==
  /\ m \in Memory /\ x \in Nodes /\ y \in Nodes /\ m.next[x] = y /\ m.prev[y] = x
  /\ \A e \in Elements : Free(c, e) => e \in Nodes /\ e # x /\ e # y

LEMMA Gap ==
  ASSUME NEW m, NEW c, NEW R, Good(m, c, R), NEW q \in R, q \in Queues, NEW i \in 1 .. Len(c[q]) + 1
  PROVE  Joined(m, c, At(q, c[q], i - 1), At(q, c[q], i))
<1> DEFINE s == c[q]
           x == At(q, s, i - 1)
           y == At(q, s, i)
<1>1. q \in Heads BY DEF Heads
<1>2. s \in Seq(Elements) /\ Linked(m, q, s) /\ m \in Memory /\ Len(s) \in Nat BY <1>1, GoodAt
<1>3. i \in Int /\ i - 1 \in Int /\ i - 1 \in 0 .. Len(s) /\ (i - 1) + 1 = i BY <1>2
<1>4. m.next[x] = y /\ m.prev[y] = x
  <2>1. \A j \in 0 .. Len(s) : m.next[At(q, s, j)] = At(q, s, j + 1) /\ m.prev[At(q, s, j + 1)] = At(q, s, j)
    BY <1>2, QueueLinks, Zenon
  <2>2. m.next[x] = At(q, s, (i - 1) + 1) /\ m.prev[At(q, s, (i - 1) + 1)] = x BY <1>3, <2>1, Zenon
  <2> QED BY <1>3, <2>2, Zenon
<1>5. /\ x \in Nodes /\ (x = q \/ \E j \in 1 .. Len(s) : x = s[j])
      /\ y \in Nodes /\ (y = q \/ \E j \in 1 .. Len(s) : y = s[j])
  BY <1>2, <1>3, AtIs
<1> HIDE DEF x, y
<1>6. ASSUME NEW e \in Elements, Free(c, e) PROVE e \in Nodes /\ e # x /\ e # y
  <2>1. e \in Nodes /\ e # q BY <1>1, Kinds
  <2>2. \A j \in 1 .. Len(s) : s[j] # e BY <1>1, <1>6 DEF Free, Off
  <2> QED BY <1>5, <2>1, <2>2
<1>7. Joined(m, c, x, y) BY <1>2, <1>4, <1>5, <1>6 DEF Joined
<1> QED BY <1>7 DEF x, y

\* Of all the ways to link an element in, each makes one of the two chains of stores.
LEMMA Inserted ==
  ASSUME NEW m, NEW c, NEW R, Good(m, c, R), NEW q \in R, q \in Queues, NEW i \in 1 .. Len(c[q]) + 1,
         NEW e \in Elements, Free(c, e)
  PROVE  LET x == At(q, c[q], i - 1)
             y == At(q, c[q], i)
             d == [c EXCEPT ![q] = Insert(c[q], i, e)]
         IN  /\ Good(m ++ Next_(e, y) ++ Prev_(e, x) ++ Prev_(y, e) ++ Next_(x, e), d, R)
             /\ Good(m ++ Next_(e, y) ++ Prev_(e, x) ++ Next_(x, e) ++ Prev_(y, e), d, R)
             /\ Good(m ++ Prev_(e, x) ++ Next_(e, y) ++ Prev_(y, e) ++ Next_(x, e), d, R)
             /\ Good(m ++ Prev_(y, e) ++ Next_(e, y) ++ Prev_(e, x) ++ Next_(x, e), d, R)
<1> DEFINE x == At(q, c[q], i - 1)
           y == At(q, c[q], i)
           d == [c EXCEPT ![q] = Insert(c[q], i, e)]
<1>1. m \in Memory /\ x \in Nodes /\ y \in Nodes /\ e \in Nodes /\ e # x /\ e # y
  <2>1. Joined(m, c, x, y) BY Gap
  <2> QED BY <2>1 DEF Joined
<1>2. ASSUME NEW k, Between(m, k, x, e, y) PROVE Good(k, d, R) BY <1>2, GoodInsert
<1> HIDE DEF x, y, d
<1>3. x \in Nodes \cup {Null} /\ y \in Nodes \cup {Null} /\ e \in Nodes \cup {Null} BY <1>1
<1>4. /\ Stored(m, m ++ Next_(e, y) ++ Prev_(e, x) ++ Prev_(y, e) ++ Next_(x, e), e, y, x, e, e, x, y, e)
      /\ Stored(m, m ++ Next_(e, y) ++ Prev_(e, x) ++ Next_(x, e) ++ Prev_(y, e), e, y, x, e, e, x, y, e)
      /\ Stored(m, m ++ Prev_(e, x) ++ Next_(e, y) ++ Prev_(y, e) ++ Next_(x, e), e, y, x, e, e, x, y, e)
  BY <1>1, <1>3, FourStores, Zenon
<1>5. Stored(m, m ++ Prev_(y, e) ++ Next_(e, y) ++ Prev_(e, x) ++ Next_(x, e), e, y, x, e, y, e, e, x)
  BY <1>1, <1>3, FourStores, Zenon
<1>6. /\ Between(m, m ++ Next_(e, y) ++ Prev_(e, x) ++ Prev_(y, e) ++ Next_(x, e), x, e, y)
      /\ Between(m, m ++ Next_(e, y) ++ Prev_(e, x) ++ Next_(x, e) ++ Prev_(y, e), x, e, y)
      /\ Between(m, m ++ Prev_(e, x) ++ Next_(e, y) ++ Prev_(y, e) ++ Next_(x, e), x, e, y)
      /\ Between(m, m ++ Prev_(y, e) ++ Next_(e, y) ++ Prev_(e, x) ++ Next_(x, e), x, e, y)
  BY <1>1, <1>4, <1>5, StoredBetween, Zenon
<1>7. /\ Good(m ++ Next_(e, y) ++ Prev_(e, x) ++ Prev_(y, e) ++ Next_(x, e), d, R)
      /\ Good(m ++ Next_(e, y) ++ Prev_(e, x) ++ Next_(x, e) ++ Prev_(y, e), d, R)
      /\ Good(m ++ Prev_(e, x) ++ Next_(e, y) ++ Prev_(y, e) ++ Next_(x, e), d, R)
      /\ Good(m ++ Prev_(y, e) ++ Next_(e, y) ++ Prev_(e, x) ++ Next_(x, e), d, R)
  BY <1>2, <1>6, Zenon
<1> QED BY <1>7, Zenon DEF x, y, d

LEMMA InsertedBy ==
  ASSUME NEW m, NEW c, NEW R, Good(m, c, R), NEW q \in R, q \in Queues, NEW i \in 1 .. Len(c[q]) + 1,
         NEW e \in Elements, Free(c, e)
  PROVE  LET d == [c EXCEPT ![q] = Insert(c[q], i, e)] IN
         /\ Good(InsQue(m, e, At(q, c[q], i - 1)), d, R)
         /\ Good(InsertAfter(m, e, At(q, c[q], i - 1)), d, R)
         /\ Good(InsertBefore(m, e, At(q, c[q], i)), d, R)
<1> DEFINE x == At(q, c[q], i - 1)
           y == At(q, c[q], i)
           d == [c EXCEPT ![q] = Insert(c[q], i, e)]
<1>1. m.next[x] = y /\ m.prev[y] = x
  <2>1. Joined(m, c, x, y) BY Gap
  <2> QED BY <2>1 DEF Joined
<1>2. /\ Good(m ++ Next_(e, y) ++ Prev_(e, x) ++ Prev_(y, e) ++ Next_(x, e), d, R)
      /\ Good(m ++ Next_(e, y) ++ Prev_(e, x) ++ Next_(x, e) ++ Prev_(y, e), d, R)
      /\ Good(m ++ Prev_(e, x) ++ Next_(e, y) ++ Prev_(y, e) ++ Next_(x, e), d, R)
  BY Inserted, Zenon
<1> HIDE DEF x, y, d
<1>3. Good(InsQue(m, e, x), d, R) BY <1>1, <1>2, Zenon DEF InsQue
<1>4. Good(InsertAfter(m, e, x), d, R) BY <1>1, <1>2, Zenon DEF InsertAfter
<1>5. Good(InsertBefore(m, e, y), d, R) BY <1>1, <1>2, Zenon DEF InsertBefore
<1> QED BY <1>3, <1>4, <1>5, Zenon DEF x, y, d

\* At the ends, where the head is the neighbour.
LEMMA InsertedAtEnds ==
  ASSUME NEW m, NEW c, NEW R, Good(m, c, R), NEW q \in R, q \in Queues, NEW e \in Elements, Free(c, e)
  PROVE  LET n == Len(c[q]) IN
         /\ Good(InsQue(m, e, q), [c EXCEPT ![q] = Insert(c[q], 1, e)], R)
         /\ Good(InsertAfter(m, e, q), [c EXCEPT ![q] = Insert(c[q], 1, e)], R)
         /\ Good(m ++ Prev_(m.next[q], e) ++ Next_(e, m.next[q]) ++ Prev_(e, q) ++ Next_(q, e),
                 [c EXCEPT ![q] = Insert(c[q], 1, e)], R)
         /\ Good(InsertBefore(m, e, q), [c EXCEPT ![q] = Insert(c[q], n + 1, e)], R)
         /\ Good(EnqueueTail(m, q, e), [c EXCEPT ![q] = Insert(c[q], n + 1, e)], R)
<1> DEFINE n == Len(c[q])
           y == At(q, c[q], 1)
           z == At(q, c[q], n)
           d == [c EXCEPT ![q] = Insert(c[q], 1, e)]
           b == [c EXCEPT ![q] = Insert(c[q], n + 1, e)]
<1>1. n \in Nat
  <2>1. q \in Heads BY DEF Heads
  <2> QED BY <2>1, GoodAt
<1>2. 1 \in 1 .. n + 1 /\ n + 1 \in 1 .. n + 1 /\ 1 - 1 = 0 /\ (n + 1) - 1 = n BY <1>1
<1>3. At(q, c[q], 0) = q /\ At(q, c[q], n + 1) = q BY <1>1 DEF At
<1>4. m.next[q] = y
  <2>1. Joined(m, c, At(q, c[q], 1 - 1), At(q, c[q], 1)) BY <1>2, Gap
  <2> QED BY <1>2, <1>3, <2>1 DEF Joined
<1>5. m.prev[q] = z
  <2>1. Joined(m, c, At(q, c[q], (n + 1) - 1), At(q, c[q], n + 1)) BY <1>2, Gap
  <2> QED BY <1>2, <1>3, <2>1 DEF Joined
<1>6. Good(InsQue(m, e, q), d, R) /\ Good(InsertAfter(m, e, q), d, R)
  <2>1. Good(InsQue(m, e, At(q, c[q], 1 - 1)), d, R) /\ Good(InsertAfter(m, e, At(q, c[q], 1 - 1)), d, R)
    BY <1>2, InsertedBy, Zenon
  <2> QED BY <1>2, <1>3, <2>1
<1>7. Good(m ++ Prev_(m.next[q], e) ++ Next_(e, m.next[q]) ++ Prev_(e, q) ++ Next_(q, e), d, R)
  <2> DEFINE x == At(q, c[q], 1 - 1)
  <2>1. Good(m ++ Prev_(y, e) ++ Next_(e, y) ++ Prev_(e, x) ++ Next_(x, e), d, R)
    BY <1>2, Inserted, Zenon
  <2>2. x = q BY <1>2, <1>3
  <2> HIDE DEF x, y, d
  <2> QED BY <1>4, <2>1, <2>2
<1>8. Good(InsertBefore(m, e, q), b, R)
  <2>1. Good(InsertBefore(m, e, At(q, c[q], n + 1)), b, R) BY <1>2, InsertedBy, Zenon
  <2> QED BY <1>3, <2>1
<1>9. Good(EnqueueTail(m, q, e), b, R)
  <2> DEFINE x == At(q, c[q], (n + 1) - 1)
             w == At(q, c[q], n + 1)
  <2>1. Good(m ++ Next_(e, w) ++ Prev_(e, x) ++ Next_(x, e) ++ Prev_(w, e), b, R)
    BY <1>2, Inserted, Zenon
  <2>2. x = z /\ w = q BY <1>2, <1>3
  <2> HIDE DEF x, w, z, b
  <2> QED BY <1>5, <2>1, <2>2 DEF EnqueueTail
<1> QED BY <1>6, <1>7, <1>8, <1>9, Zenon

\* The i-th element and its neighbours.
LEMMA Around ==
  ASSUME NEW m, NEW c, NEW R, Good(m, c, R), NEW q \in R, q \in Queues, NEW i \in 1 .. Len(c[q])
  PROVE  LET x == At(q, c[q], i - 1)  y == At(q, c[q], i + 1)  e == c[q][i] IN
         /\ m \in Memory /\ x \in Nodes /\ y \in Nodes /\ e \in Nodes /\ e # x /\ e # y
         /\ m.next[x] = e /\ m.next[e] = y /\ m.prev[e] = x /\ m.prev[y] = e
<1> DEFINE s == c[q]
           x == At(q, s, i - 1)
           y == At(q, s, i + 1)
           e == s[i]
<1>1. q \in Heads BY DEF Heads
<1>2. /\ s \in Seq(Elements) /\ Linked(m, q, s) /\ m \in Memory /\ Len(s) \in Nat /\ Apart(s)
      /\ \A j \in 1 .. Len(s) : s[j] \in Elements
  BY <1>1, GoodAt
<1>3. At(q, s, i) = e /\ i \in Int /\ i \in 1 .. Len(s) + 1 /\ i + 1 \in 1 .. Len(s) + 1 /\ (i + 1) - 1 = i
  BY <1>2 DEF At
<1>4. x \in Nodes /\ m.next[x] = At(q, s, i) /\ m.prev[At(q, s, i)] = x /\ m \in Memory
  <2>1. Joined(m, c, x, At(q, s, i)) BY <1>3, Gap
  <2> QED BY <2>1 DEF Joined
<1>5. Joined(m, c, At(q, s, (i + 1) - 1), y) BY <1>3, Gap
<1>6. e \in Nodes /\ m.next[e] = y /\ m.prev[y] = e /\ y \in Nodes BY <1>3, <1>5 DEF Joined
<1>7. e # q /\ \A j \in 1 .. Len(s) : j # i => s[j] # e BY <1>1, <1>2, Kinds DEF Apart
<1>8. e # x /\ e # y
  <2>1. i - 1 # i /\ i + 1 # i BY <1>3
  <2> QED BY <1>7, <2>1 DEF At
<1>9. m.next[x] = e /\ m.prev[e] = x BY <1>3, <1>4
<1> QED BY <1>4, <1>6, <1>8, <1>9, Zenon

\* Past the i-th element, which then is on no head.
Removed(c, q, i) == [c EXCEPT ![q] = Delete(c[q], i)]

LEMMA Deleted ==
  ASSUME NEW m, NEW c, NEW R, Good(m, c, R), NEW q \in R, q \in Queues, NEW i \in 1 .. Len(c[q]),
         NEW k, k \in {m ++ Next_(At(q, c[q], i - 1), At(q, c[q], i + 1)) ++ Prev_(At(q, c[q], i + 1), At(q, c[q], i - 1)),
                       m ++ Prev_(At(q, c[q], i + 1), At(q, c[q], i - 1)) ++ Next_(At(q, c[q], i - 1), At(q, c[q], i + 1))}
  PROVE  /\ Good(k, Removed(c, q, i), R) /\ Good(Forget(k, c[q][i]), Removed(c, q, i), R)
         /\ Free(Removed(c, q, i), c[q][i])
<1> DEFINE x == At(q, c[q], i - 1)
           y == At(q, c[q], i + 1)
           e == c[q][i]
           d == Removed(c, q, i)
<1>1. m \in Memory /\ x \in Nodes /\ y \in Nodes /\ e \in Nodes /\ e # x /\ e # y BY Around
<1>2. ASSUME NEW l, Bypass(m, l, x, e, y) PROVE Good(l, d, R) /\ Free(d, e) BY <1>2, GoodDelete DEF Removed
<1>3. k = m ++ Next_(x, y) ++ Prev_(y, x) \/ k = m ++ Prev_(y, x) ++ Next_(x, y) OBVIOUS
<1> HIDE DEF x, y, e, d
<1>4. Bypass(m, k, x, e, y) BY <1>1, <1>3, StoredBypass, Zenon
<1>5. Bypass(m, Forget(k, e), x, e, y) BY <1>1, <1>4, ForgetBypass, Zenon
<1>6. Good(k, d, R) /\ Good(Forget(k, e), d, R) /\ Free(d, e) BY <1>2, <1>4, <1>5, Zenon
<1> QED BY <1>6, Zenon DEF e, d

LEMMA DeletedBy ==
  ASSUME NEW m, NEW c, NEW R, Good(m, c, R), NEW q \in R, q \in Queues, NEW i \in 1 .. Len(c[q])
  PROVE  LET e == c[q][i] IN
         /\ Good(RemQue(m, e), Removed(c, q, i), R) /\ Free(Removed(c, q, i), e)
         /\ Good(Forget(RemQue(m, e), e), Removed(c, q, i), R)
<1> DEFINE x == At(q, c[q], i - 1)
           y == At(q, c[q], i + 1)
           e == c[q][i]
           k == m ++ Prev_(y, x) ++ Next_(x, y)
<1>1. m.next[e] = y /\ m.prev[e] = x BY Around
<1>2. Good(k, Removed(c, q, i), R) /\ Good(Forget(k, e), Removed(c, q, i), R) /\ Free(Removed(c, q, i), e)
  BY Deleted
<1> HIDE DEF x, y, e
<1>3. RemQue(m, e) = k BY <1>1, Zenon DEF RemQue
<1> QED BY <1>2, <1>3, Zenon DEF e

LEMMA EmptyQueue ==
  ASSUME NEW m, NEW c, NEW R, Good(m, c, R), NEW q \in R, q \in Queues
  PROVE  (m.next[q] = q <=> Len(c[q]) = 0) /\ (m.prev[q] = q <=> Len(c[q]) = 0)
<1> DEFINE n == Len(c[q])
<1>1. q \in Heads BY DEF Heads
<1>2. n \in Nat /\ \A j \in 1 .. n : c[q][j] \in Elements BY <1>1, GoodAt
<1>3. 1 \in 1 .. n + 1 /\ n + 1 \in 1 .. n + 1 /\ 1 - 1 = 0 /\ (n + 1) - 1 = n BY <1>2
<1>4. At(q, c[q], 0) = q /\ At(q, c[q], n + 1) = q BY <1>2 DEF At
<1>5. m.next[q] = At(q, c[q], 1)
  <2>1. Joined(m, c, At(q, c[q], 1 - 1), At(q, c[q], 1)) BY <1>3, Gap
  <2> QED BY <1>3, <1>4, <2>1 DEF Joined
<1>6. m.prev[q] = At(q, c[q], n)
  <2>1. Joined(m, c, At(q, c[q], (n + 1) - 1), At(q, c[q], n + 1)) BY <1>3, Gap
  <2> QED BY <1>3, <1>4, <2>1 DEF Joined
<1>7. \A j \in 1 .. n : c[q][j] # q BY <1>1, <1>2, Kinds
<1> QED BY <1>2, <1>5, <1>6, <1>7 DEF At

LEMMA DeletedAtEnds ==
  ASSUME NEW m, NEW c, NEW R, Good(m, c, R), NEW q \in R, q \in Queues, Len(c[q]) # 0
  PROVE  LET n == Len(c[q]) IN
         /\ Good(DequeueHead(m, q), Removed(c, q, 1), R)
         /\ Good(Forget(DequeueHead(m, q), m.next[q]), Removed(c, q, 1), R)
         /\ Good(DequeueTail(m, q), Removed(c, q, n), R)
         /\ Good(Forget(DequeueTail(m, q), m.prev[q]), Removed(c, q, n), R)
<1> DEFINE s == c[q]
           n == Len(s)
<1>1. n \in Nat
  <2>1. q \in Heads BY DEF Heads
  <2> QED BY <2>1, GoodAt
<1>2. 1 \in 1 .. n /\ n \in 1 .. n /\ 1 - 1 = 0 BY <1>1
<1>3. At(q, s, 0) = q /\ At(q, s, n + 1) = q BY <1>1 DEF At
<1>4. ASSUME NEW i \in 1 .. n
      PROVE  /\ m.next[At(q, s, i - 1)] = s[i] /\ m.next[s[i]] = At(q, s, i + 1)
             /\ m.prev[At(q, s, i + 1)] = s[i] /\ m.prev[s[i]] = At(q, s, i - 1)
  BY Around
<1>5. /\ Good(DequeueHead(m, q), Removed(c, q, 1), R)
      /\ Good(Forget(DequeueHead(m, q), m.next[q]), Removed(c, q, 1), R)
  <2> DEFINE x == At(q, s, 1 - 1)
             y == At(q, s, 1 + 1)
             e == s[1]
             k == m ++ Prev_(y, x) ++ Next_(x, y)
  <2>1. m.next[x] = e /\ m.next[e] = y BY <1>2, <1>4, ZenonT(30)
  <2>2. x = q BY <1>2, <1>3
  <2>3. Good(k, Removed(c, q, 1), R) /\ Good(Forget(k, e), Removed(c, q, 1), R) BY <1>2, Deleted, ZenonT(30)
  <2> HIDE DEF x, y, e
  <2>4. m.next[q] = e /\ DequeueHead(m, q) = k BY <2>1, <2>2, Zenon DEF DequeueHead
  <2> QED BY <2>3, <2>4, Zenon
<1>6. /\ Good(DequeueTail(m, q), Removed(c, q, n), R)
      /\ Good(Forget(DequeueTail(m, q), m.prev[q]), Removed(c, q, n), R)
  <2> DEFINE x == At(q, s, n - 1)
             y == At(q, s, n + 1)
             e == s[n]
             k == m ++ Next_(x, y) ++ Prev_(y, x)
  <2>1. m.prev[y] = e /\ m.prev[e] = x BY <1>2, <1>4, ZenonT(30)
  <2>2. y = q BY <1>3
  <2>3. Good(k, Removed(c, q, n), R) /\ Good(Forget(k, e), Removed(c, q, n), R) BY <1>2, Deleted, ZenonT(30)
  <2> HIDE DEF x, y, e
  <2>4. m.prev[q] = e /\ DequeueTail(m, q) = k BY <2>1, <2>2, Zenon DEF DequeueTail
  <2> QED BY <2>3, <2>4, Zenon
<1> QED BY <1>5, <1>6, Zenon
=============================================================================
