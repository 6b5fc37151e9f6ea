------------------------ MODULE SharedObjectThreads -------------------------
(*************************************************************************)
(* The inductive invariant of the shared and weak pointers: the shape of *)
(* the lists of instructions that are under way, what each thread relies *)
(* on, and how a step of one thread leaves all that in order.            *)
(*************************************************************************)
EXTENDS SharedObject, TLAPS

USE ZenonT(8), SMTT(12)

\* What the counts rest on: the cardinalities of finite sets.  SharedObjectProofs
\* proves it from the library.
Counting ==
  /\ IsFiniteSet({}) /\ Cardinality({}) = 0
  /\ \A S : IsFiniteSet(S) => Cardinality(S) \in Nat /\ (Cardinality(S) = 0 <=> S = {})
  /\ \A S : IsFiniteSet(S) => (Cardinality(S) = 1 <=> \E x : S = {x})
  /\ \A S : \A T \in SUBSET S : IsFiniteSet(S) => IsFiniteSet(T) /\ Cardinality(T) <= Cardinality(S)
  /\ \A S, x : IsFiniteSet(S) =>
       /\ IsFiniteSet(S \cup {x})
       /\ Cardinality(S \cup {x}) = IF x \in S THEN Cardinality(S) ELSE Cardinality(S) + 1
  /\ \A S, x : IsFiniteSet(S) =>
       /\ IsFiniteSet(S \ {x})
       /\ Cardinality(S \ {x}) = IF x \in S THEN Cardinality(S) - 1 ELSE Cardinality(S)

LEMMA SizeIsNat ==
  ASSUME Counting, NEW S, IsFiniteSet(S)
  PROVE  Cardinality(S) \in Nat
BY Zenon DEF Counting

LEMMA SizeOfNone ==
  ASSUME Counting
  PROVE  Cardinality({}) = 0 /\ \A S : IsFiniteSet(S) => (Cardinality(S) = 0 <=> S = {})
BY Zenon DEF Counting

LEMMA SizeOne ==
  ASSUME Counting, NEW S, IsFiniteSet(S)
  PROVE  Cardinality(S) = 1 <=> \E x : S = {x}
BY Zenon DEF Counting

LEMMA SizeOfSubset ==
  ASSUME Counting, NEW S, NEW T \in SUBSET S, IsFiniteSet(S)
  PROVE  IsFiniteSet(T) /\ Cardinality(T) <= Cardinality(S)
BY Zenon DEF Counting

LEMMA SizeMore ==
  ASSUME Counting, NEW S, NEW x, IsFiniteSet(S)
  PROVE  /\ IsFiniteSet(S \cup {x})
         /\ Cardinality(S \cup {x}) = IF x \in S THEN Cardinality(S) ELSE Cardinality(S) + 1
BY Zenon DEF Counting

LEMMA SizeLess ==
  ASSUME Counting, NEW S, NEW x, IsFiniteSet(S)
  PROVE  /\ IsFiniteSet(S \ {x})
         /\ Cardinality(S \ {x}) = IF x \in S THEN Cardinality(S) - 1 ELSE Cardinality(S)
BY Zenon DEF Counting

\* The instructions, by what they may be about.
Names == {"release", "retain", "zero", "release_weak", "retain_weak", "free", "setme",
          "take", "lock", "unlock"}
All == Pointers \cup Weaks
Instruction == [do : Names, p : All \cup {Null}, from : All \cup {Null}, held : Objects \cup {Null}]

Fits(c) ==
  \/ c.do \in {"release", "retain"} /\ c.p \in Pointers /\ c.from = Null
  \/ c.do = "zero" /\ c.p \in All /\ c.from = Null
  \/ c.do \in {"release_weak", "retain_weak"} /\ c.p \in Weaks /\ c.from = Null
  \/ c.do = "free" /\ c.p \in Objects /\ c.from = Null
  \/ c.do = "setme" /\ c.p \in Pointers /\ c.from \in Pointers
  \/ c.do = "setme" /\ c.p \in Weaks /\ c.from \in All
  \/ c.do = "take" /\ c.p \in Pointers /\ c.from \in Pointers
  \/ c.do = "take" /\ c.p \in Weaks /\ c.from \in Weaks
  \/ c.do = "lock" /\ c.p \in Pointers /\ c.from \in Weaks
  \/ c.do = "unlock" /\ c.p = Null /\ c.from = Null

\* What stands around the i-th instruction: a store is followed by its retain, a
\* release by the store that overwrites the pointer; the last instruction of a
\* call by the unlock alone; an object is freed right after its member is zeroed.
Placed(s, i) ==
  /\ s[i].do = "unlock" => i = Len(s)
  /\ s[i].do = "setme" => /\ i < Len(s) /\ s[i + 1].p = s[i].p
                          /\ s[i + 1].do = IF s[i].p \in Weaks THEN "retain_weak" ELSE "retain"
  /\ s[i].do \in {"release", "release_weak"} =>
       i < Len(s) /\ s[i + 1].p = s[i].p /\ s[i + 1].do \in {"setme", "take", "zero"}
  /\ s[i].do \in {"retain", "retain_weak", "take", "lock"} =>
       \A j \in i + 1 .. Len(s) : s[j].do = "unlock"
  /\ s[i].do = "lock" => i = 1
  /\ s[i].do \in {"retain", "retain_weak"} /\ i > 1 => s[i - 1].do = "setme"
  /\ s[i].do = "free" => /\ \A j \in i + 1 .. Len(s) : s[j].p # s[i].p
                         /\ i > 1 => s[i - 1].do = "zero" /\ s[i - 1].p = s[i].p

Shape(s) == \A i \in 1 .. Len(s) : Fits(s[i]) /\ Placed(s, i)

\* What a thread may touch while its call is under way: its own pointers; under the
\* lock, the global and weak ones and the members of objects that a pointer holds
\* which the call leaves alone; and the members of the objects it is destroying.
Mentions(t, v) == \E i \in 1 .. Len(code[t]) : code[t][i].p = v
HasLock(t) == \E i \in 1 .. Len(code[t]) : code[t][i].do = "unlock"
Frees(t, o) == \E i \in 1 .. Len(code[t]) : code[t][i].do = "free" /\ code[t][i].p = o
Anchors(t) == {a \in Locals[t] \cup Globals : ~Mentions(t, a)}
Anchored(t, v) == v \in Objects /\ \E a \in Anchors(t) : fControl[a] = v
Access(t, v) ==
  \/ v \in Locals[t]
  \/ HasLock(t) /\ v \in Globals \cup Weaks
  \/ v \in Objects /\ Frees(t, v)
  \/ HasLock(t) /\ Anchored(t, v)
Source(t, v) == ~Mentions(t, v) /\ Access(t, v)

\* The same, for a thread that may begin a call.
MayTouch(t, v) ==
  \/ v \in Locals[t]
  \/ LockFree(t) /\ v \in Globals \cup Weaks
  \/ v \in Objects /\ Frees(t, v)
  \/ LockFree(t) /\ Anchored(t, v)

Reaches(t, c) ==
  /\ c.do # "unlock" => Access(t, c.p)
  /\ c.from # Null => Source(t, c.from) /\ fControl[c.from] = c.held
Begun(t, c) ==
  /\ c.do \in {"free", "lock"} => fControl[c.p] = Null
  /\ c.do \in {"retain", "retain_weak"} /\ fControl[c.p] # Null =>
       \E q \in All : /\ Source(t, q) /\ fControl[q] = fControl[c.p]
                      /\ c.do = "retain" => q \in Pointers
ThreadInv(t) ==
  /\ Shape(code[t])
  /\ \A i \in 1 .. Len(code[t]) : Reaches(t, code[t][i])
  /\ Len(code[t]) >= 1 => Begun(t, code[t][1])

Types ==
  /\ fControl \in [All -> Objects \cup {Null}]
  /\ state \in [Objects -> {"none", "live", "dying", "dead"}]
  /\ fUseCount \in [Objects -> Nat] /\ fWeakCount \in [Objects -> Nat]
  /\ code \in [Threads -> Seq(Instruction)]

ObjectInv ==
  \A o \in Objects :
    /\ state[o] = "dying" <=> \E t \in Threads : Frees(t, o)
    /\ state[o] \in {"none", "dead"} => fControl[o] = Null
    /\ state[o] = "none" <=> fWeakCount[o] = 0
FreeOnce ==
  \A t, u \in Threads : \A i \in 1 .. Len(code[t]), j \in 1 .. Len(code[u]) :
    code[t][i].do = "free" /\ code[u][j].do = "free" /\ code[t][i].p = code[u][j].p
      => t = u /\ i = j
LockOnce == \A t, u \in Threads : HasLock(t) /\ HasLock(u) => t = u

Inv ==
  /\ Types /\ ObjectInv /\ FreeOnce /\ LockOnce
  /\ \A t \in Threads : ThreadInv(t)
  /\ UseCountsExact /\ BlockOutlivesWeaks

-----------------------------------------------------------------------------
\* A thread's list after its first instruction, and after the last release of an
\* object has put the object's destruction in front.
Popped(s, r) ==
  /\ Len(s) \in Nat /\ Len(s) >= 1 /\ Len(r) = Len(s) - 1
  /\ \A i \in 1 .. Len(r) : r[i] = s[i + 1]
Pushed(s, r, o) ==
  /\ Len(s) \in Nat /\ Len(s) >= 1 /\ Len(r) = Len(s) + 2
  /\ r[1] = Instr("release", o) /\ r[2] = Instr("zero", o) /\ r[3] = Instr("free", o)
  /\ \A i \in 4 .. Len(r) : r[i] = s[i - 2]

LEMMA PopIs ==
  ASSUME NEW I, NEW s \in Seq(I), s # <<>>
  PROVE  /\ <<>> \o Tail(s) \in Seq(I) /\ Popped(s, <<>> \o Tail(s)) /\ Head(s) = s[1]
         /\ s[1] \in I
<1>1. Len(s) \in Nat /\ Len(s) >= 1 OBVIOUS
<1>2. Tail(s) \in Seq(I) /\ Len(Tail(s)) = Len(s) - 1 /\ \A i \in 1 .. Len(s) - 1 : Tail(s)[i] = s[i + 1]
  BY <1>1
<1>3. <<>> \o Tail(s) = Tail(s) BY <1>2
<1>4. Head(s) = s[1] /\ s[1] \in I BY <1>1
<1> QED BY <1>1, <1>2, <1>3, <1>4 DEF Popped

LEMMA PushIs ==
  ASSUME NEW I, NEW s \in Seq(I), s # <<>>, NEW o,
         Instr("release", o) \in I, Instr("zero", o) \in I, Instr("free", o) \in I
  PROVE  LET r == <<Instr("release", o), Instr("zero", o), Instr("free", o)>> \o Tail(s)
         IN  r \in Seq(I) /\ Pushed(s, r, o)
<1> DEFINE x == Instr("release", o)
           y == Instr("zero", o)
           z == Instr("free", o)
           h == <<x, y, z>>
           b == Tail(s)
<1>1. Len(s) \in Nat /\ Len(s) >= 1 OBVIOUS
<1>2. b \in Seq(I) /\ Len(b) = Len(s) - 1 /\ \A i \in 1 .. Len(s) - 1 : b[i] = s[i + 1]
  BY <1>1
<1> HIDE DEF x, y, z, b
<1>3. h \in Seq(I) /\ Len(h) = 3 /\ h[1] = x /\ h[2] = y /\ h[3] = z BY DEF x, y, z
<1> HIDE DEF h
<1>4. /\ h \o b \in Seq(I) /\ Len(h \o b) = Len(h) + Len(b)
      /\ \A i \in 1 .. Len(h) : (h \o b)[i] = h[i]
      /\ \A i \in 1 .. Len(b) : (h \o b)[Len(h) + i] = b[i]
  <2>1. h \in Seq(I) /\ b \in Seq(I) BY <1>2, <1>3
  <2>2. h \o b \in Seq(I) /\ Len(h \o b) = Len(h) + Len(b) BY <2>1
  <2>3. \A i \in 1 .. Len(h) : (h \o b)[i] = h[i] BY <2>1
  <2>4. \A i \in 1 .. Len(b) : (h \o b)[Len(h) + i] = b[i] BY <2>1
  <2> QED BY <2>2, <2>3, <2>4, Zenon
<1> DEFINE r == h \o b
<1>5. r \in Seq(I) /\ Len(r) = Len(s) + 2 BY <1>1, <1>2, <1>3, <1>4
<1>6. r[1] = x /\ r[2] = y /\ r[3] = z
  <2>1. 1 \in 1 .. Len(h) /\ 2 \in 1 .. Len(h) /\ 3 \in 1 .. Len(h) BY <1>3
  <2> QED BY <2>1, <1>3, <1>4, Zenon
<1>7. ASSUME NEW i \in 4 .. Len(r) PROVE r[i] = s[i - 2]
  <2>1. i - 3 \in 1 .. Len(b) /\ Len(h) + (i - 3) = i /\ i - 3 + 1 = i - 2 /\ i - 3 \in 1 .. Len(s) - 1
    BY <1>1, <1>2, <1>3, <1>5
  <2>2. r[Len(h) + (i - 3)] = b[i - 3] BY <2>1, <1>4, Zenon
  <2>3. b[i - 3] = s[i - 3 + 1] BY <2>1, <1>2, Zenon
  <2> QED BY <2>1, <2>2, <2>3, Zenon
<1> HIDE DEF r
<1>8. r \in Seq(I) /\ Pushed(s, r, o) BY <1>1, <1>5, <1>6, <1>7 DEF Pushed, x, y, z
<1> QED BY <1>8, Zenon DEF r, h, b, x, y, z

\* The shape of a list stays when its first instruction is done.
LEMMA ShapePopped ==
  ASSUME NEW s, NEW r, Shape(s), Popped(s, r)
  PROVE  Shape(r)
<1> SUFFICES ASSUME NEW i \in 1 .. Len(r) PROVE Fits(r[i]) /\ Placed(r, i)
  BY DEF Shape
<1>1. Len(s) \in Nat /\ Len(r) = Len(s) - 1 /\ i \in Nat BY DEF Popped
<1>2. i + 1 \in 1 .. Len(s) /\ r[i] = s[i + 1] BY <1>1 DEF Popped
<1>3. Fits(s[i + 1]) /\ Placed(s, i + 1) BY <1>2 DEF Shape
<1>4. i < Len(r) => r[i + 1] = s[i + 1 + 1] BY <1>1 DEF Popped
<1>5. \A j \in i + 1 .. Len(r) : j + 1 \in i + 1 + 1 .. Len(s) /\ r[j] = s[j + 1]
  BY <1>1 DEF Popped
<1>6. i > 1 => r[i - 1] = s[i + 1 - 1] BY <1>1 DEF Popped
<1>7. i < Len(r) <=> i + 1 < Len(s) BY <1>1
<1> DEFINE c == s[i + 1]
<1>8. r[i].do = "unlock" => i = Len(r) BY <1>1, <1>2, <1>3 DEF Placed
<1>9. r[i].do = "setme" => /\ i < Len(r) /\ r[i + 1].p = r[i].p
                           /\ r[i + 1].do = IF r[i].p \in Weaks THEN "retain_weak" ELSE "retain"
  BY <1>2, <1>3, <1>4, <1>7 DEF Placed
<1>10. r[i].do \in {"release", "release_weak"} =>
         i < Len(r) /\ r[i + 1].p = r[i].p /\ r[i + 1].do \in {"setme", "take", "zero"}
  BY <1>2, <1>3, <1>4, <1>7 DEF Placed
<1>11. r[i].do \in {"retain", "retain_weak", "take", "lock"} =>
         \A j \in i + 1 .. Len(r) : r[j].do = "unlock"
  BY <1>2, <1>3, <1>5 DEF Placed
<1>12. r[i].do # "lock" BY <1>1, <1>2, <1>3 DEF Placed
<1>13. i + 1 > 1 BY <1>1
<1>14. r[i].do \in {"retain", "retain_weak"} /\ i > 1 => r[i - 1].do = "setme"
  BY <1>2, <1>3, <1>6, <1>13 DEF Placed
<1>15. r[i].do = "free" => /\ \A j \in i + 1 .. Len(r) : r[j].p # r[i].p
                           /\ i > 1 => r[i - 1].do = "zero" /\ r[i - 1].p = r[i].p
  BY <1>2, <1>3, <1>5, <1>6, <1>13 DEF Placed
<1>16. Placed(r, i) BY <1>8, <1>9, <1>10, <1>11, <1>12, <1>14, <1>15 DEF Placed
<1> QED BY <1>2, <1>3, <1>16

\* And when an object's destruction comes in its place.
LEMMA ShapePushed ==
  ASSUME NEW s, NEW r, NEW o \in Objects, Shape(s), Pushed(s, r, o), s[1].do = "release",
         \A i \in 1 .. Len(s) : s[i].p # o
  PROVE  Shape(r)
<1>1. /\ Len(s) \in Nat /\ Len(s) >= 1 /\ Len(r) = Len(s) + 2 BY DEF Pushed
<1>2. /\ r[1].do = "release" /\ r[2].do = "zero" /\ r[3].do = "free"
      /\ r[1].p = o /\ r[2].p = o /\ r[3].p = o
      /\ r[1].from = Null /\ r[2].from = Null /\ r[3].from = Null
  BY DEF Pushed, Instr
<1>3. \A i \in 4 .. Len(r) : r[i] = s[i - 2] BY DEF Pushed
<1>4. o \in Pointers BY DEF Pointers
<1>5. ASSUME NEW i \in 1 .. 3 PROVE Fits(r[i]) /\ Placed(r, i)
  <2>1. Fits(r[i]) BY <1>2, <1>4, i = 1 \/ i = 2 \/ i = 3 DEF Fits, All
  <2>2. \A j \in 4 .. Len(r) : r[j].p # o
    <3> SUFFICES ASSUME NEW j \in 4 .. Len(r) PROVE r[j].p # o OBVIOUS
    <3>1. j - 2 \in 1 .. Len(s) BY <1>1
    <3> QED BY <1>3, <3>1
  <2>3. Placed(r, 1)
    <3>1. 1 < Len(r) /\ 1 + 1 = 2 BY <1>1
    <3> QED BY <1>2, <3>1 DEF Placed
  <2>4. Placed(r, 2) BY <1>2 DEF Placed
  <2>5. Placed(r, 3)
    <3>1. 3 + 1 .. Len(r) = 4 .. Len(r) /\ 3 - 1 = 2 OBVIOUS
    <3> QED BY <1>2, <2>2, <3>1 DEF Placed
  <2> QED BY <2>1, <2>3, <2>4, <2>5
<1>6. ASSUME NEW i \in 4 .. Len(r) PROVE Fits(r[i]) /\ Placed(r, i)
  <2> DEFINE k == i - 2
  <2>1. k \in 1 .. Len(s) /\ k > 1 /\ r[i] = s[k] /\ k \in Nat /\ i = k + 2 BY <1>1, <1>3
  <2>2. Fits(s[k]) /\ Placed(s, k) /\ Placed(s, 1) BY <1>1, <2>1 DEF Shape
  <2> HIDE DEF k
  <2>3. k < Len(s) => r[i + 1] = s[k + 1] BY <1>1, <1>3, <2>1
  <2>4. \A j \in i + 1 .. Len(r) : j - 2 \in k + 1 .. Len(s) /\ r[j] = s[j - 2]
    BY <1>1, <1>3, <2>1
  <2>5. k > 2 => r[i - 1] = s[k - 1] BY <1>1, <1>3, <2>1
  <2>6. i < Len(r) <=> k < Len(s) BY <1>1, <2>1
  <2>7. s[2].do \in {"setme", "take", "zero"} BY <2>2 DEF Placed
  <2>8. k = 2 => s[k].do \notin {"retain", "retain_weak", "free", "lock"} BY <2>7
  <2>9. k # 2 => k > 2 BY <2>1
  <2>10. r[i].do = "unlock" => i = Len(r) BY <1>1, <2>1, <2>2 DEF Placed
  <2>11. r[i].do = "setme" => /\ i < Len(r) /\ r[i + 1].p = r[i].p
                              /\ r[i + 1].do = IF r[i].p \in Weaks THEN "retain_weak" ELSE "retain"
    BY <2>1, <2>2, <2>3, <2>6 DEF Placed
  <2>12. r[i].do \in {"release", "release_weak"} =>
           i < Len(r) /\ r[i + 1].p = r[i].p /\ r[i + 1].do \in {"setme", "take", "zero"}
    BY <2>1, <2>2, <2>3, <2>6 DEF Placed
  <2>13. r[i].do \in {"retain", "retain_weak", "take", "lock"} =>
           \A j \in i + 1 .. Len(r) : r[j].do = "unlock"
    BY <2>1, <2>2, <2>4 DEF Placed
  <2>14. r[i].do # "lock" BY <2>1, <2>2 DEF Placed
  <2>15. r[i].do \in {"retain", "retain_weak"} => r[i - 1].do = "setme"
    BY <2>1, <2>2, <2>5, <2>8, <2>9 DEF Placed
  <2>16. r[i].do = "free" => /\ \A j \in i + 1 .. Len(r) : r[j].p # r[i].p
                             /\ r[i - 1].do = "zero" /\ r[i - 1].p = r[i].p
    <3> SUFFICES ASSUME r[i].do = "free"
                 PROVE  /\ \A j \in i + 1 .. Len(r) : r[j].p # r[i].p
                        /\ r[i - 1].do = "zero" /\ r[i - 1].p = r[i].p
      OBVIOUS
    <3>1. Placed(s, k) /\ r[i] = s[k] BY <2>1, <2>2
    <3>2. /\ \A j \in k + 1 .. Len(s) : s[j].p # s[k].p
          /\ k > 1 => s[k - 1].do = "zero" /\ s[k - 1].p = s[k].p
      BY <3>1, Zenon DEF Placed
    <3> QED BY <2>1, <2>4, <2>5, <2>8, <2>9, <3>1, <3>2, ZenonT(20)
  <2>17. Placed(r, i) BY <2>10, <2>11, <2>12, <2>13, <2>14, <2>15, <2>16 DEF Placed
  <2> QED BY <2>1, <2>2, <2>17
<1>7. \A i \in 1 .. Len(r) : i \in 1 .. 3 \/ i \in 4 .. Len(r) BY <1>1
<1> QED BY <1>5, <1>6, <1>7 DEF Shape

-----------------------------------------------------------------------------
\* Whether a list shows that the pointer v holds no count: the first instruction
\* on v, its object's destruction aside, is to store to it or to take the count.
NotYet == {"setme", "take", "zero", "retain", "retain_weak"}
Pending(s, v) ==
  \E i \in 1 .. Len(s) : /\ s[i].p = v /\ s[i].do \in NotYet
                         /\ \A j \in 1 .. i - 1 : s[j].p = v => s[j].do = "free"

\* Holds, read off the lists.
LEMMA HoldsIs ==
  ASSUME Types, NEW v
  PROVE  Holds(v) <=> Points(v) /\ \A t \in Threads : ~Pending(code[t], v)
<1>1. \A t \in Threads : DOMAIN code[t] = 1 .. Len(code[t]) BY DEF Types
<1> QED BY <1>1 DEF Holds, Before, Pending, NotYet

LEMMA HoldsWillBe ==
  ASSUME Types', NEW v
  PROVE  Holds(v)' <=> fControl'[v] # Null /\ \A t \in Threads : ~Pending(code'[t], v)
<1>1. \A t \in Threads : DOMAIN code'[t] = 1 .. Len(code'[t]) BY DEF Types
<1> QED BY <1>1 DEF Holds, Before, Pending, NotYet, Points

\* A pointer that is not mentioned has its count.
LEMMA UnmentionedNotPending ==
  ASSUME NEW s, NEW v, \A i \in 1 .. Len(s) : s[i].p # v
  PROVE  ~Pending(s, v)
BY DEF Pending

\* Only the first instruction decides about the pointer it is on.
LEMMA PendingFirst ==
  ASSUME NEW s, Len(s) \in Nat, Len(s) >= 1, s[1].do # "free"
  PROVE  Pending(s, s[1].p) <=> s[1].do \in NotYet
<1>1. s[1].do \in NotYet => Pending(s, s[1].p)
  <2>1. 1 \in 1 .. Len(s) /\ 1 .. 1 - 1 = {} OBVIOUS
  <2> QED BY <2>1 DEF Pending
<1>2. Pending(s, s[1].p) => s[1].do \in NotYet
  <2> SUFFICES ASSUME NEW i \in 1 .. Len(s), s[i].p = s[1].p, s[i].do \in NotYet,
                      \A j \in 1 .. i - 1 : s[j].p = s[1].p => s[j].do = "free"
               PROVE  s[1].do \in NotYet
    BY DEF Pending
  <2>1. i # 1 => 1 \in 1 .. i - 1 OBVIOUS
  <2> QED BY <2>1
<1> QED BY <1>1, <1>2

\* The other pointers are not concerned when it is done.
LEMMA PendingPopped ==
  ASSUME NEW s, NEW r, Popped(s, r), NEW v, s[1].p # v
  PROVE  Pending(r, v) <=> Pending(s, v)
<1>1. Len(s) \in Nat /\ Len(s) >= 1 /\ Len(r) = Len(s) - 1 BY DEF Popped
<1>2. \A i \in 1 .. Len(r) : i + 1 \in 1 .. Len(s) /\ r[i] = s[i + 1] BY <1>1 DEF Popped
<1>3. ASSUME Pending(r, v) PROVE Pending(s, v)
  <2> PICK i \in 1 .. Len(r) : /\ r[i].p = v /\ r[i].do \in NotYet
                               /\ \A j \in 1 .. i - 1 : r[j].p = v => r[j].do = "free"
    BY <1>3 DEF Pending
  <2>1. i + 1 \in 1 .. Len(s) /\ s[i + 1].p = v /\ s[i + 1].do \in NotYet BY <1>2
  <2>2. ASSUME NEW j \in 1 .. i + 1 - 1, s[j].p = v PROVE s[j].do = "free"
    <3>1. j # 1 BY <2>2
    <3>2. j - 1 \in 1 .. i - 1 /\ j - 1 \in 1 .. Len(r) /\ j - 1 + 1 = j BY <1>1, <3>1
    <3>3. r[j - 1] = s[j] BY <1>2, <3>2
    <3> QED BY <2>2, <3>2, <3>3
  <2> QED BY <2>1, <2>2 DEF Pending
<1>4. ASSUME Pending(s, v) PROVE Pending(r, v)
  <2> PICK i \in 1 .. Len(s) : /\ s[i].p = v /\ s[i].do \in NotYet
                               /\ \A j \in 1 .. i - 1 : s[j].p = v => s[j].do = "free"
    BY <1>4 DEF Pending
  <2>1. i # 1 OBVIOUS
  <2>2. i - 1 \in 1 .. Len(r) /\ i - 1 + 1 = i BY <1>1, <2>1
  <2>3. r[i - 1] = s[i] BY <1>2, <2>2
  <2>4. ASSUME NEW j \in 1 .. i - 1 - 1, r[j].p = v PROVE r[j].do = "free"
    <3>1. j + 1 \in 1 .. i - 1 /\ j \in 1 .. Len(r) BY <1>1
    <3> QED BY <1>2, <2>4, <3>1
  <2> QED BY <2>2, <2>3, <2>4 DEF Pending
<1> QED BY <1>3, <1>4

\* Nor when an object's destruction comes in its place; the object's member keeps
\* its count until that begins.
LEMMA PendingPushed ==
  ASSUME NEW s, NEW r, NEW o, Pushed(s, r, o), NEW v, s[1].p # v
  PROVE  /\ v # o => (Pending(r, v) <=> Pending(s, v))
         /\ ~Pending(r, o)
<1>1. /\ Len(s) \in Nat /\ Len(s) >= 1 /\ Len(r) = Len(s) + 2 BY DEF Pushed
<1>2. /\ r[1].do = "release" /\ r[1].p = o /\ r[2].p = o /\ r[3].p = o
  BY DEF Pushed, Instr
<1>3. \A i \in 4 .. Len(r) : i - 2 \in 1 .. Len(s) /\ r[i] = s[i - 2] BY <1>1 DEF Pushed
<1>4. ~Pending(r, o) BY <1>1, <1>2, PendingFirst DEF NotYet
<1>5. ASSUME Pending(r, v), v # o PROVE Pending(s, v)
  <2> PICK i \in 1 .. Len(r) : /\ r[i].p = v /\ r[i].do \in NotYet
                               /\ \A j \in 1 .. i - 1 : r[j].p = v => r[j].do = "free"
    BY <1>5 DEF Pending
  <2>1. i \in 4 .. Len(r) BY <1>1, <1>2, <1>5
  <2>2. i - 2 \in 1 .. Len(s) /\ s[i - 2].p = v /\ s[i - 2].do \in NotYet BY <1>3, <2>1
  <2>3. ASSUME NEW j \in 1 .. i - 2 - 1, s[j].p = v PROVE s[j].do = "free"
    <3>1. j # 1 BY <2>3
    <3>2. j + 2 \in 4 .. Len(r) /\ j + 2 \in 1 .. i - 1 /\ j + 2 - 2 = j BY <1>1, <2>1, <3>1
    <3>3. r[j + 2] = s[j] BY <1>3, <3>2
    <3> QED BY <2>3, <3>2, <3>3
  <2> QED BY <2>2, <2>3 DEF Pending
<1>6. ASSUME Pending(s, v), v # o PROVE Pending(r, v)
  <2> PICK i \in 1 .. Len(s) : /\ s[i].p = v /\ s[i].do \in NotYet
                               /\ \A j \in 1 .. i - 1 : s[j].p = v => s[j].do = "free"
    BY <1>6 DEF Pending
  <2>1. i # 1 OBVIOUS
  <2>2. i + 2 \in 4 .. Len(r) /\ i + 2 \in 1 .. Len(r) /\ i + 2 - 2 = i BY <1>1, <2>1
  <2>3. r[i + 2] = s[i] BY <1>3, <2>2
  <2>4. ASSUME NEW j \in 1 .. i + 2 - 1, r[j].p = v PROVE r[j].do = "free"
    <3>1. j \in 4 .. Len(r) BY <1>1, <1>2, <1>6, <2>2, <2>4
    <3>2. j - 2 \in 1 .. i - 1 BY <2>2, <3>1
    <3> QED BY <1>3, <2>4, <3>1, <3>2
  <2> QED BY <2>2, <2>3, <2>4 DEF Pending
<1> QED BY <1>4, <1>5, <1>6

-----------------------------------------------------------------------------
\* The kinds of pointers.
LEMMA Kinds ==
  ASSUME NEW t \in Threads
  PROVE  /\ Locals[t] \subseteq Pointers /\ Globals \subseteq Pointers /\ Objects \subseteq Pointers
         /\ Pointers \subseteq All /\ Weaks \subseteq All /\ Null \notin All
         /\ Pointers \cap Weaks = {} /\ Globals \cap Objects = {}
         /\ Locals[t] \cap Globals = {} /\ Locals[t] \cap Objects = {}
         /\ \A u \in Threads : u # t => Locals[t] \cap Locals[u] = {}
<1>1. Locals[t] \subseteq Shared BY DEF Shared
<1>2. Locals[t] \subseteq Pointers /\ Globals \subseteq Pointers /\ Objects \subseteq Pointers
  <2>1. Globals \subseteq Shared BY DEF Shared
  <2> QED BY <1>1, <2>1 DEF Pointers
<1>3. Pointers \subseteq All /\ Weaks \subseteq All /\ Null \notin All
  BY SharedObjectAssumption DEF All
<1>4. /\ Pointers \cap Weaks = {} /\ Globals \cap Objects = {}
      /\ \A u \in Threads : u # t => Locals[t] \cap Locals[u] = {}
  BY SharedObjectAssumption
<1>5. Locals[t] \cap (Globals \cup Objects) = {} BY SharedObjectAssumption
<1>6. Locals[t] \cap Globals = {} /\ Locals[t] \cap Objects = {} BY <1>5
<1> QED BY <1>2, <1>3, <1>4, <1>6

LEMMA LockFreeIs ==
  ASSUME Types, NEW t \in Threads
  PROVE  LockFree(t) <=> \A u \in Threads : u # t => ~HasLock(u)
<1>1. \A u \in Threads : DOMAIN code[u] = 1 .. Len(code[u]) BY DEF Types
<1> QED BY <1>1 DEF LockFree, HasLock

\* Who mentions a pointer may touch it.
LEMMA MentionedAccess ==
  ASSUME Inv, NEW t \in Threads, NEW v \in All, Mentions(t, v)
  PROVE  Access(t, v)
<1>1. PICK i \in 1 .. Len(code[t]) : code[t][i].p = v BY DEF Mentions
<1>2. Fits(code[t][i]) /\ Reaches(t, code[t][i]) BY DEF Inv, ThreadInv, Shape
<1>3. code[t][i].do # "unlock" BY <1>1, <1>2, Kinds DEF Fits
<1> QED BY <1>1, <1>2, <1>3 DEF Reaches

LEMMA AccessMayTouch ==
  ASSUME Inv, NEW t \in Threads, NEW v, Access(t, v)
  PROVE  MayTouch(t, v)
<1>1. HasLock(t) => LockFree(t) BY LockFreeIs DEF Inv, LockOnce
<1> QED BY <1>1 DEF Access, MayTouch

\* A count that is held keeps the object alive.
LEMMA HeldIsLive ==
  ASSUME Counting, Inv, NEW v \in Pointers, Holds(v)
  PROVE  /\ fControl[v] \in Objects /\ v \in Owners(fControl[v])
         /\ state[fControl[v]] = "live" /\ fUseCount[fControl[v]] > 0
<1>1. fControl[v] \in Objects BY DEF Inv, Types, All, Holds, Points
<1> DEFINE o == fControl[v]
           S == Owners(o)
<1>2. v \in S BY DEF Owners
<1>3. S \subseteq Pointers /\ IsFiniteSet(Pointers) BY SharedObjectAssumption DEF Owners
<1> HIDE DEF S
<1>4. IsFiniteSet(S) BY <1>3, SizeOfSubset
<1>5. Cardinality(S) # 0 /\ Cardinality(S) \in Nat
  BY <1>2, <1>4, SizeOfNone, SizeIsNat
<1>6. fUseCount[o] = Cardinality(S) /\ (state[o] = "live" <=> fUseCount[o] > 0)
  BY <1>1 DEF Inv, UseCountsExact, S
<1> QED BY <1>1, <1>2, <1>5, <1>6 DEF S

\* A pointer that a call leaves alone, and nobody else may touch, has its count.
LEMMA AnchorHolds ==
  ASSUME Inv, NEW t \in Threads, NEW a \in Anchors(t), fControl[a] # Null,
         a \in Locals[t] \/ LockFree(t)
  PROVE  a \in Pointers /\ Holds(a)
<1>1. a \in Locals[t] \cup Globals /\ ~Mentions(t, a) BY DEF Anchors
<1>2. a \in Pointers /\ a \in All BY <1>1, Kinds
<1>3. ASSUME NEW u \in Threads PROVE ~Mentions(u, a)
  <2>1. CASE u = t BY <1>1, <2>1
  <2>2. CASE u # t
    <3> SUFFICES ASSUME Mentions(u, a) PROVE FALSE OBVIOUS
    <3>1. Access(u, a) BY <1>2, MentionedAccess
    <3>2. (a \notin Locals[u] /\ a \notin Objects) \/ a \in Globals
      BY <1>1, <1>2, <2>2, Kinds
    <3>3. a \in Globals => a \notin Objects /\ a \notin Locals[u] /\ a \notin Locals[t] /\ LockFree(t)
      BY Kinds
    <3>4. LockFree(t) => ~HasLock(u) BY <2>2, LockFreeIs DEF Inv
    <3>5. a \notin Locals[u] /\ a \notin Objects BY <3>2, <3>3
    <3>6. HasLock(u) /\ a \in Globals \cup Weaks BY <3>1, <3>5 DEF Access, Anchored
    <3>7. a \in Globals BY <3>6, <1>2, Kinds
    <3> QED BY <3>3, <3>4, <3>6, <3>7
  <2> QED BY <2>1, <2>2
<1>4. \A u \in Threads : ~Pending(code[u], a) BY <1>3, UnmentionedNotPending DEF Mentions
<1> QED BY <1>2, <1>4, HoldsIs DEF Inv, Points

\* Hence an object that a caller reaches through such a pointer is alive.
LEMMA AnchoredLive ==
  ASSUME Counting, Inv, NEW t \in Threads, NEW v, Anchored(t, v), LockFree(t)
  PROVE  v \in Objects /\ state[v] = "live" /\ \A u \in Threads : ~Frees(u, v)
<1>1. PICK a \in Anchors(t) : fControl[a] = v BY DEF Anchored
<1>2. v \in Objects /\ v # Null BY SharedObjectAssumption DEF Anchored, Pointers
<1>3. a \in Pointers /\ Holds(a) BY <1>1, <1>2, AnchorHolds
<1>4. state[v] = "live" BY <1>1, <1>3, HeldIsLive
<1> QED BY <1>2, <1>4 DEF Inv, ObjectInv

\* No two threads may touch the same pointer.
LEMMA Exclusive ==
  ASSUME Counting, Inv, NEW t \in Threads, NEW u \in Threads, t # u, NEW v, Access(u, v)
  PROVE  ~MayTouch(t, v)
<1>1. HasLock(u) => ~LockFree(t) BY LockFreeIs DEF Inv
<1>2. HasLock(u) => LockFree(u) BY LockFreeIs DEF Inv, LockOnce
<1>3. ~(Frees(u, v) /\ Frees(t, v)) BY DEF Inv, FreeOnce, Frees
<1>4. LockFree(t) /\ Anchored(t, v) => ~Frees(u, v) BY AnchoredLive
<1>5. HasLock(u) /\ Anchored(u, v) => ~Frees(t, v) BY <1>2, AnchoredLive
<1>6. Anchored(t, v) \/ Anchored(u, v) => v \in Objects BY DEF Anchored
<1>7. CASE v \in Locals[u]
  <2>1. v \notin Locals[t] /\ v \notin Globals /\ v \notin Weaks /\ v \notin Objects BY <1>7, Kinds
  <2> QED BY <1>6, <2>1 DEF MayTouch
<1>8. CASE v \notin Locals[u] /\ HasLock(u) /\ v \in Globals \cup Weaks
  <2>1. v \notin Locals[t] /\ v \notin Objects BY <1>8, Kinds
  <2> QED BY <1>1, <1>8, <2>1 DEF MayTouch
<1>9. CASE v \in Objects /\ (Frees(u, v) \/ (HasLock(u) /\ Anchored(u, v)))
  <2>1. v \notin Locals[t] /\ v \notin Globals /\ v \notin Weaks BY <1>9, Kinds
  <2>2. ~(v \in Objects /\ Frees(t, v)) BY <1>3, <1>5, <1>9
  <2>3. ~(LockFree(t) /\ Anchored(t, v)) BY <1>1, <1>4, <1>9
  <2> QED BY <2>1, <2>2, <2>3 DEF MayTouch
<1>10. \/ v \in Locals[u]
       \/ HasLock(u) /\ v \in Globals \cup Weaks
       \/ v \in Objects /\ Frees(u, v)
       \/ HasLock(u) /\ Anchored(u, v)
  BY DEF Access
<1> QED BY <1>6, <1>7, <1>8, <1>9, <1>10

\* So nobody else's list mentions a pointer that a thread may touch.
LEMMA OthersSilent ==
  ASSUME Counting, Inv, NEW t \in Threads, NEW u \in Threads, t # u, NEW v \in All, MayTouch(t, v)
  PROVE  ~Mentions(u, v) /\ ~Pending(code[u], v)
<1>1. ~Mentions(u, v) BY MentionedAccess, Exclusive
<1> QED BY <1>1, UnmentionedNotPending DEF Mentions

-----------------------------------------------------------------------------
\* A step of one thread leaves what the others rely on.
LEMMA OthersKept ==
  ASSUME Counting, Inv, NEW t \in Threads, \A u \in Threads : u # t => code'[u] = code[u],
         \A v \in All : fControl'[v] = fControl[v] \/ MayTouch(t, v),
         NEW u \in Threads, u # t
  PROVE  ThreadInv(u)'
<1>1. \A v \in All : Access(u, v) => fControl'[v] = fControl[v] BY Exclusive
<1>2. code'[u] = code[u] OBVIOUS
<1>3. \A v : (Mentions(u, v)' <=> Mentions(u, v)) /\ (Frees(u, v)' <=> Frees(u, v))
  BY <1>2 DEF Mentions, Frees
<1>4. HasLock(u)' <=> HasLock(u) BY <1>2 DEF HasLock
<1>5. \A a : a \in Anchors(u)' <=> a \in Anchors(u) BY <1>3 DEF Anchors
<1>6. HasLock(u) => \A a \in Anchors(u) : fControl'[a] = fControl[a]
  <2> SUFFICES ASSUME HasLock(u), NEW a \in Anchors(u) PROVE fControl'[a] = fControl[a] OBVIOUS
  <2>1. Access(u, a) /\ a \in Locals[u] \cup Globals BY DEF Access, Anchors
  <2>2. a \in All BY <2>1, Kinds
  <2> QED BY <1>1, <2>1, <2>2
<1>7. \A v : HasLock(u) /\ Anchored(u, v) => Anchored(u, v)' BY <1>5, <1>6 DEF Anchored
<1>8. \A v : Access(u, v) => Access(u, v)' BY <1>3, <1>4, <1>7 DEF Access
<1>9. \A v : Source(u, v) => Source(u, v)' BY <1>3, <1>8 DEF Source
<1>10. ThreadInv(u) /\ Shape(code[u]) BY DEF Inv, ThreadInv
<1>11. ASSUME NEW i \in 1 .. Len(code[u]), NEW c, c = code[u][i] PROVE Reaches(u, c)'
  <2>1. Reaches(u, c) /\ Fits(c) BY <1>10, <1>11 DEF ThreadInv, Shape
  <2>2. c.from # Null => c.from \in All BY <2>1, Kinds DEF Fits
  <2>3. c.from # Null => Access(u, c.from) BY <2>1 DEF Reaches, Source
  <2>4. c.do # "unlock" => Access(u, c.p)' BY <1>8, <2>1 DEF Reaches
  <2>5. c.from # Null => Source(u, c.from)' /\ fControl'[c.from] = c.held
    BY <1>1, <1>9, <2>1, <2>2, <2>3 DEF Reaches
  <2> QED BY <2>4, <2>5 DEF Reaches
<1>12. ASSUME Len(code[u]) >= 1, NEW c, c = code[u][1] PROVE Begun(u, c)'
  <2>0. Len(code[u]) \in Nat BY DEF Inv, Types
  <2>1. Reaches(u, c) /\ Fits(c) /\ Begun(u, c) BY <1>10, <1>12, <2>0 DEF ThreadInv, Shape
  <2>2. c.do # "unlock" => c.p \in All BY <2>1, Kinds DEF Fits
  <2>3. c.do # "unlock" => fControl'[c.p] = fControl[c.p] BY <1>1, <2>1, <2>2 DEF Reaches
  <2>5. \A q \in All : Source(u, q) => Source(u, q)' /\ fControl'[q] = fControl[q]
    BY <1>1, <1>9 DEF Source
  <2>6. c.do \in {"free", "lock"} => fControl'[c.p] = Null BY <2>1, <2>3 DEF Begun
  <2>7. c.do \in {"retain", "retain_weak"} /\ fControl'[c.p] # Null =>
          \E q \in All : /\ Source(u, q)' /\ fControl'[q] = fControl'[c.p]
                         /\ c.do = "retain" => q \in Pointers
    BY <2>1, <2>3, <2>5 DEF Begun
  <2> QED BY <2>6, <2>7 DEF Begun
<1>13. \A i \in 1 .. Len(code'[u]) : Reaches(u, code[u][i])' BY <1>2, <1>11
<1>14. Len(code'[u]) >= 1 => Begun(u, code[u][1])' BY <1>2, <1>12
<1> QED BY <1>2, <1>10, <1>13, <1>14 DEF ThreadInv

\* A thread whose call is over but for the unlock relies on nothing.
LEMMA OverThread ==
  ASSUME NEW t \in Threads, Shape(code[t])', \A i \in 1 .. Len(code'[t]) : code'[t][i].do = "unlock"
  PROVE  ThreadInv(t)'
<1>1. ASSUME NEW i \in 1 .. Len(code'[t]) PROVE Reaches(t, code[t][i])'
  <2>1. Fits(code'[t][i]) BY DEF Shape
  <2>2. code'[t][i].from = Null BY <2>1 DEF Fits
  <2> QED BY <2>2 DEF Reaches
<1>2. Len(code'[t]) >= 1 => Begun(t, code[t][1])'
  <2>1. 1 \in 1 .. Len(code'[t]) => code'[t][1].do = "unlock" OBVIOUS
  <2> QED BY <2>1 DEF Begun
<1> QED BY <1>1, <1>2 DEF ThreadInv

\* What a thread relies on while its call goes on after a store or a release.
LEMMA PoppedThread ==
  ASSUME Inv, NEW t \in Threads, NEW s, s = code[t], Popped(s, code'[t]),
         NEW c, c = s[1], c.do \in {"setme", "zero", "release", "release_weak", "free"},
         \A v \in All : v # c.p => fControl'[v] = fControl[v],
         c.do = "zero" => fControl'[c.p] = Null,
         c.do = "setme" => fControl'[c.p] = fControl[c.from]
  PROVE  ThreadInv(t)'
<1> DEFINE r == code'[t]
<1>1. ThreadInv(t) /\ Shape(s) BY DEF Inv, ThreadInv
<1>2. Shape(r) BY <1>1, ShapePopped
<1>3. Len(s) \in Nat /\ Len(s) >= 1 /\ Len(r) = Len(s) - 1 BY DEF Popped
<1>4. \A i \in 1 .. Len(r) : i + 1 \in 1 .. Len(s) /\ r[i] = s[i + 1] BY <1>3 DEF Popped
<1>5. \A j \in 1 .. Len(s) : j # 1 => j - 1 \in 1 .. Len(r) /\ r[j - 1] = s[j]
  <2> SUFFICES ASSUME NEW j \in 1 .. Len(s), j # 1 PROVE j - 1 \in 1 .. Len(r) /\ r[j - 1] = s[j]
    OBVIOUS
  <2>1. j - 1 \in 1 .. Len(r) /\ j - 1 + 1 = j BY <1>3
  <2> QED BY <1>4, <2>1
<1>6. Fits(c) /\ Placed(s, 1) /\ Reaches(t, c) BY <1>1, <1>3 DEF Shape, ThreadInv
<1> HIDE DEF r
<1>7. \A v : ~Mentions(t, v) => ~Mentions(t, v)' /\ v # c.p
  BY <1>3, <1>4 DEF Mentions, r
<1>8. HasLock(t) => HasLock(t)' BY <1>5 DEF HasLock, r
<1>9. ASSUME NEW a \in Anchors(t) PROVE a \in Anchors(t)' /\ fControl'[a] = fControl[a]
  <2>1. a \in Locals[t] \cup Globals /\ ~Mentions(t, a) BY DEF Anchors
  <2>2. a \in All BY <2>1, Kinds
  <2> QED BY <1>7, <2>1, <2>2 DEF Anchors
<1>10. \A v : Anchored(t, v) => Anchored(t, v)' BY <1>9 DEF Anchored
<1>11. \A v : Frees(t, v) => Frees(t, v)' \/ (c.do = "free" /\ c.p = v) BY <1>5 DEF Frees, r
<1>12. \A v : Access(t, v) => Access(t, v)' \/ (c.do = "free" /\ c.p = v)
  BY <1>8, <1>10, <1>11 DEF Access
<1>13. \A v : Source(t, v) => Source(t, v)' BY <1>7, <1>12 DEF Source
<1>14. \A v \in All : Source(t, v) => fControl'[v] = fControl[v] BY <1>7 DEF Source
<1>15. ASSUME NEW i \in 1 .. Len(r), NEW d, d = r[i] PROVE Reaches(t, d)'
  <2>1. i + 1 \in 1 .. Len(s) /\ d = s[i + 1] BY <1>4, <1>15
  <2>2. Fits(d) /\ Reaches(t, d) BY <1>1, <2>1 DEF ThreadInv, Shape
  <2>3. c.do = "free" => d.p # c.p
    <3>1. i + 1 \in 1 + 1 .. Len(s) BY <2>1
    <3> QED BY <1>6, <2>1, <3>1 DEF Placed
  <2>4. d.do # "unlock" => Access(t, d.p)' BY <1>12, <2>2, <2>3 DEF Reaches
  <2>5. d.from # Null => d.from \in All BY <2>2, Kinds DEF Fits
  <2>6. d.from # Null => Source(t, d.from)' /\ fControl'[d.from] = d.held
    BY <1>13, <1>14, <2>2, <2>5 DEF Reaches
  <2> QED BY <2>4, <2>6 DEF Reaches
<1>16. ASSUME Len(r) >= 1, NEW d, d = r[1] PROVE Begun(t, d)'
  <2>1. 2 \in 1 .. Len(s) /\ d = s[2] BY <1>3, <1>4, <1>16
  <2>2. Fits(d) /\ Placed(s, 2) BY <1>1, <2>1 DEF Shape
  <2>3. d.do = "free" => c.do = "zero" /\ c.p = d.p BY <2>1, <2>2 DEF Placed
  <2>4. d.do # "lock" BY <2>1, <2>2 DEF Placed
  <2>5. d.do \in {"retain", "retain_weak"} => c.do = "setme" BY <2>1, <2>2 DEF Placed
  <2>6. c.do = "setme" => /\ d.p = c.p /\ c.from \in All
                          /\ Source(t, c.from) /\ (d.do = "retain" => c.from \in Pointers)
    <3> SUFFICES ASSUME c.do = "setme"
                 PROVE  /\ d.p = c.p /\ c.from \in All
                        /\ Source(t, c.from) /\ (d.do = "retain" => c.from \in Pointers)
      OBVIOUS
    <3>1. d.p = c.p /\ d.do = IF c.p \in Weaks THEN "retain_weak" ELSE "retain"
      BY <1>6, <2>1 DEF Placed
    <3>2. c.from \in All /\ (c.p \notin Weaks => c.from \in Pointers) /\ c.from # Null
      BY <1>6, Kinds DEF Fits
    <3> QED BY <1>6, <3>1, <3>2 DEF Reaches
  <2>7. d.do \in {"free", "lock"} => fControl'[d.p] = Null BY <2>3, <2>4
  <2>8. d.do \in {"retain", "retain_weak"} =>
          \E q \in All : /\ Source(t, q)' /\ fControl'[q] = fControl'[d.p]
                         /\ d.do = "retain" => q \in Pointers
    BY <1>13, <1>14, <2>5, <2>6
  <2> QED BY <2>7, <2>8 DEF Begun
<1>17. \A i \in 1 .. Len(code'[t]) : Reaches(t, code[t][i])' BY <1>15 DEF r
<1>18. Len(code'[t]) >= 1 => Begun(t, code[t][1])' BY <1>16 DEF r
<1> QED BY <1>2, <1>17, <1>18 DEF ThreadInv, r

\* The last release of an object finds nobody who may touch the object's member.
LEMMA LastUnreached ==
  ASSUME Counting, Inv, NEW t \in Threads, NEW p \in Pointers, Mentions(t, p), Holds(p),
         fUseCount[fControl[p]] = 1, NEW u \in Threads
  PROVE  ~Access(u, fControl[p]) /\ ~Frees(u, fControl[p]) /\ ~Mentions(u, fControl[p])
<1> DEFINE o == fControl[p]
<1>1. /\ o \in Objects /\ p \in Owners(o) /\ state[o] = "live" BY HeldIsLive
<1>2. o \in All /\ o # Null /\ o \notin Locals[u] /\ o \notin Globals /\ o \notin Weaks
  BY <1>1, Kinds
<1>3. ~Frees(u, o) BY <1>1 DEF Inv, ObjectInv
<1>4. ASSUME HasLock(u), Anchored(u, o) PROVE FALSE
  <2>1. PICK a \in Anchors(u) : fControl[a] = o BY <1>4 DEF Anchored
  <2>2. LockFree(u) BY <1>4, LockFreeIs DEF Inv, LockOnce
  <2>3. a \in Pointers /\ Holds(a) BY <1>2, <2>1, <2>2, AnchorHolds
  <2>4. a \in Owners(o) BY <2>1, <2>3 DEF Owners
  <2>5. Owners(o) \subseteq Pointers /\ Cardinality(Owners(o)) = 1
    BY <1>1 DEF Owners, Inv, UseCountsExact
  <2>6. IsFiniteSet(Owners(o)) BY <2>5, SharedObjectAssumption, SizeOfSubset
  <2>7. a = p
    <3>1. PICK x : Owners(o) = {x} BY <2>5, <2>6, SizeOne, ZenonT(20)
    <3> QED BY <1>1, <2>4, <3>1
  <2>8. Access(u, a) /\ ~Mentions(u, a) BY <1>4 DEF Access, Anchors
  <2>9. p \in All BY Kinds
  <2>10. MayTouch(t, p) BY <2>9, MentionedAccess, AccessMayTouch
  <2> QED BY <2>7, <2>8, <2>10, Exclusive
<1>5. ~Access(u, o) BY <1>2, <1>3, <1>4 DEF Access
<1> QED BY <1>2, <1>3, <1>5, MentionedAccess

\* What a thread relies on when it begins to destroy an object.
LEMMA PushedThread ==
  ASSUME Inv, NEW t \in Threads, NEW s, s = code[t], NEW o, o \in Objects, Pushed(s, code'[t], o),
         s[1].do = "release", ~Access(t, o), ~Mentions(t, o), UNCHANGED fControl
  PROVE  ThreadInv(t)'
<1> DEFINE r == code'[t]
<1>1. ThreadInv(t) /\ Shape(s) BY DEF Inv, ThreadInv
<1>2. Shape(r) BY <1>1, ShapePushed DEF Mentions
<1>3. /\ Len(s) \in Nat /\ Len(s) >= 1 /\ Len(r) = Len(s) + 2
      /\ r[1] = Instr("release", o) /\ r[2] = Instr("zero", o) /\ r[3] = Instr("free", o)
  BY DEF Pushed
<1>4. \A i \in 4 .. Len(r) : i - 2 \in 1 .. Len(s) /\ r[i] = s[i - 2] BY <1>3 DEF Pushed
<1>5. \A j \in 1 .. Len(s) : j # 1 => j + 2 \in 1 .. Len(r) /\ r[j + 2] = s[j]
  <2> SUFFICES ASSUME NEW j \in 1 .. Len(s), j # 1 PROVE j + 2 \in 1 .. Len(r) /\ r[j + 2] = s[j]
    OBVIOUS
  <2>1. j + 2 \in 1 .. Len(r) /\ j + 2 \in 4 .. Len(r) /\ j + 2 - 2 = j BY <1>3
  <2> QED BY <1>4, <2>1
<1>6. /\ r[1].do = "release" /\ r[2].do = "zero" /\ r[3].do = "free"
      /\ r[1].p = o /\ r[2].p = o /\ r[3].p = o
      /\ r[1].from = Null /\ r[2].from = Null /\ r[3].from = Null
  BY <1>3 DEF Instr
<1> HIDE DEF r
<1>7. \A i \in 1 .. Len(r) : i = 1 \/ i = 2 \/ i = 3 \/ i \in 4 .. Len(r) BY <1>3
<1>8. \A v : v # o /\ ~Mentions(t, v) => ~Mentions(t, v)'
  <2> SUFFICES ASSUME NEW v, v # o, ~Mentions(t, v), NEW i \in 1 .. Len(r), r[i].p = v PROVE FALSE
    BY ZenonT(20) DEF Mentions, r
  <2>1. i \in 4 .. Len(r) BY <1>6, <1>7
  <2> QED BY <1>4, <2>1 DEF Mentions
<1>9. HasLock(t) => HasLock(t)' BY <1>5 DEF HasLock, r
<1>10. \A v : Frees(t, v) => Frees(t, v)' BY <1>5 DEF Frees, r
<1>11. Frees(t, o)'
  <2>1. 3 \in 1 .. Len(r) BY <1>3
  <2> QED BY <1>6, <2>1 DEF Frees, r
<1>12. ASSUME NEW a \in Anchors(t) PROVE a \in Anchors(t)'
  <2>1. a \in Locals[t] \cup Globals /\ ~Mentions(t, a) /\ a # o BY Kinds DEF Anchors
  <2> QED BY <1>8, <2>1 DEF Anchors
<1>13. \A v : Anchored(t, v) => Anchored(t, v)' BY <1>12 DEF Anchored
<1>14. \A v : Access(t, v) => Access(t, v)' BY <1>9, <1>10, <1>13 DEF Access
<1>15. \A v : Source(t, v) => Source(t, v)' BY <1>8, <1>14 DEF Source
<1>16. ASSUME NEW i \in 1 .. Len(r), NEW d, d = r[i] PROVE Reaches(t, d)'
  <2>1. CASE i \in 4 .. Len(r)
    <3>1. i - 2 \in 1 .. Len(s) /\ d = s[i - 2] BY <1>4, <1>16, <2>1
    <3>2. Reaches(t, d) BY <1>1, <3>1 DEF ThreadInv
    <3> QED BY <1>14, <1>15, <3>2 DEF Reaches
  <2>2. CASE i \notin 4 .. Len(r)
    <3>1. d.p = o /\ d.from = Null BY <1>6, <1>7, <1>16, <2>2
    <3>2. Access(t, o)' BY <1>11 DEF Access
    <3> QED BY <3>1, <3>2 DEF Reaches
  <2> QED BY <2>1, <2>2
<1>17. \A i \in 1 .. Len(code'[t]) : Reaches(t, code[t][i])' BY <1>16 DEF r
<1>18. Begun(t, code[t][1])' BY <1>6 DEF Begun, r
<1> QED BY <1>2, <1>17, <1>18 DEF ThreadInv, r

-----------------------------------------------------------------------------
\* What a call hands to its thread: instructions on p, sources q, and the unlock
\* when one of them needs the lock.
Handed(t, r, p, q, n) ==
  /\ n \in 1 .. 3 /\ Len(r) \in {n, n + 1}
  /\ \A i \in 1 .. n : /\ r[i].p = p /\ r[i].do \notin {"unlock", "free"}
                       /\ r[i].from # Null => r[i].from = q /\ r[i].held = fControl[q] /\ q # p
  /\ Len(r) = n + 1 => r[n + 1].do = "unlock" /\ r[n + 1].p = Null /\ r[n + 1].from = Null
  /\ Len(r) = n => p \notin Guarded /\ \A i \in 1 .. n : r[i].from \notin Guarded
  /\ Len(r) = n + 1 => {p, q} \cap Guarded # {}
  /\ r[1].do \notin {"retain", "retain_weak"}
  /\ r[1].do \in {"setme", "take", "lock"} => fControl[p] = Null

LEMMA CalledThread ==
  ASSUME Inv, ~SourceMayDie, NEW t \in Threads, NEW p \in All, NEW q \in All, MayCall(t, p, q),
         NEW n, Handed(t, code'[t], p, q, n), Shape(code[t])', UNCHANGED fControl
  PROVE  ThreadInv(t)' /\ (HasLock(t)' => LockFree(t))
<1> DEFINE r == code'[t]
<1>1. n \in Nat /\ Len(r) \in Nat /\ n >= 1 /\ n <= Len(r) BY DEF Handed
<1>2. \A i \in 1 .. Len(r) : i \in 1 .. n \/ (i = n + 1 /\ Len(r) = n + 1) BY <1>1 DEF Handed
<1>3. p # Null /\ q # Null BY Kinds
<1> HIDE DEF r
<1>4. \A i \in 1 .. Len(r) : r[i].p \in {p, Null} BY <1>2 DEF Handed, r
<1>5. \A v : v # p /\ v # Null => ~Mentions(t, v)' BY <1>4 DEF Mentions, r
<1>6. HasLock(t)' <=> Len(r) = n + 1
  <2>1. Len(r) = n + 1 => n + 1 \in 1 .. Len(r) /\ r[n + 1].do = "unlock" BY <1>1 DEF Handed, r
  <2>2. \A i \in 1 .. Len(r) : r[i].do = "unlock" => Len(r) = n + 1 BY <1>2 DEF Handed, r
  <2> QED BY <2>1, <2>2 DEF HasLock, r
<1>7. ASSUME NEW v, v \in Guarded => HasLock(t)', Reach(t, v, (Locals[t] \cup Globals) \ {p})
      PROVE  Access(t, v)'
  <2>1. CASE v \in Locals[t] BY <2>1 DEF Access
  <2>2. CASE v \in Globals \cup Weaks BY <1>7, <2>2 DEF Access, Guarded
  <2>3. CASE v \in Objects /\ \E a \in (Locals[t] \cup Globals) \ {p} : fControl[a] = v
    <3>1. PICK a \in (Locals[t] \cup Globals) \ {p} : fControl[a] = v BY <2>3
    <3>2. a # Null BY Kinds
    <3>3. a \in Anchors(t)' BY <1>5, <3>1, <3>2 DEF Anchors
    <3>4. Anchored(t, v)' BY <2>3, <3>1, <3>3 DEF Anchored
    <3> QED BY <1>7, <2>3, <3>4 DEF Access, Guarded
  <2> QED BY <1>7, <2>1, <2>2, <2>3 DEF Reach
<1>8. Reach(t, p, (Locals[t] \cup Globals) \ {p}) /\ Reach(t, q, (Locals[t] \cup Globals) \ {p})
  BY DEF MayCall
<1>9. p \in Guarded => HasLock(t)' BY <1>6, Len(r) \in {n, n + 1} DEF Handed, r
<1>10. Access(t, p)' BY <1>7, <1>8, <1>9
<1>11. ASSUME NEW i \in 1 .. Len(r), NEW c, c = r[i] PROVE Reaches(t, c)'
  <2>1. CASE i \in 1 .. n
    <3>1. c.p = p /\ (c.from # Null => c.from = q /\ c.held = fControl[q] /\ q # p)
      BY <1>11, <2>1 DEF Handed, r
    <3>2. c.from # Null => Source(t, q)'
      <4> SUFFICES ASSUME c.from # Null PROVE Source(t, q)' OBVIOUS
      <4>1. q \in Guarded => HasLock(t)'
        BY <1>6, <1>11, <2>1, <3>1, Len(r) \in {n, n + 1} DEF Handed, r
      <4>2. Access(t, q)' BY <1>7, <1>8, <4>1
      <4> QED BY <1>3, <1>5, <3>1, <4>2 DEF Source
    <3> QED BY <1>10, <3>1, <3>2 DEF Reaches
  <2>2. CASE i \notin 1 .. n
    <3>1. c.do = "unlock" /\ c.from = Null BY <1>2, <1>11, <2>2 DEF Handed, r
    <3> QED BY <3>1 DEF Reaches
  <2> QED BY <2>1, <2>2
<1>12. ASSUME NEW c, c = r[1] PROVE Begun(t, c)'
  <2>1. 1 \in 1 .. n BY <1>1
  <2>2. c.do \notin {"free", "retain", "retain_weak"} /\ c.p = p BY <1>12, <2>1 DEF Handed, r
  <2>3. c.do = "lock" => fControl'[p] = Null BY <1>12 DEF Handed, r
  <2> QED BY <2>2, <2>3 DEF Begun
<1>13. HasLock(t)' => LockFree(t)
  BY <1>6 DEF MayCall, Handed, r
<1>14. \A i \in 1 .. Len(code'[t]) : Reaches(t, code[t][i])' BY <1>11 DEF r
<1>15. Begun(t, code[t][1])' BY <1>12 DEF r
<1> QED BY <1>13, <1>14, <1>15 DEF ThreadInv

\* The list that Call makes of the instructions it is given.
LEMMA CallIs ==
  ASSUME Types, NEW t \in Threads, NEW I \in Seq(Instruction), Call(t, I)
  PROVE  LET n == Len(I)
             r == code'[t]
         IN  /\ code' \in [Threads -> Seq(Instruction)]
             /\ \A u \in Threads : u # t => code'[u] = code[u]
             /\ \A i \in 1 .. n : r[i] = I[i]
             /\ Len(r) \in {n, n + 1}
             /\ Len(r) = n + 1 => /\ r[n + 1].do = "unlock" /\ r[n + 1].p = Null /\ r[n + 1].from = Null
                                  /\ \E i \in 1 .. n : {I[i].p, I[i].from} \cap Guarded # {}
             /\ Len(r) = n => \A i \in 1 .. n : I[i].p \notin Guarded /\ I[i].from \notin Guarded
<1> DEFINE n == Len(I)
           z == Instr("unlock", Null)
           need == \E i \in DOMAIN I : {I[i].p, I[i].from} \cap Guarded # {}
           e == IF need THEN <<z>> ELSE <<>>
           r == code'[t]
<1>1. n \in Nat /\ DOMAIN I = 1 .. n OBVIOUS
<1>2. z \in Instruction /\ z.do = "unlock" /\ z.p = Null /\ z.from = Null
  BY DEF Instr, Instruction, Names
<1>3. code' = [code EXCEPT ![t] = I \o e] BY DEF Call
<1>4. r = I \o e /\ \A u \in Threads : u # t => code'[u] = code[u] BY <1>3 DEF Types
<1> HIDE DEF z
<1>5. <<z>> \in Seq(Instruction) /\ <<>> \in Seq(Instruction) /\ Len(<<z>>) = 1 /\ <<z>>[1] = z
  BY <1>2
<1>6. e \in Seq(Instruction) BY <1>5
<1> HIDE DEF e
<1>7. I \o e \in Seq(Instruction) /\ Len(I \o e) = n + Len(e) BY <1>6
<1>8. \A i \in 1 .. n : (I \o e)[i] = I[i] BY <1>6
<1>9. code' \in [Threads -> Seq(Instruction)] BY <1>3, <1>7 DEF Types
<1> HIDE DEF n
<1>10. CASE need
  <2>1. e = <<z>> BY <1>10 DEF e
  <2>2. Len(e) = 1 /\ e[1] = z BY <1>5, <2>1
  <2>3. (I \o e)[Len(I) + 1] = e[1]
    <3>1. \A i \in 1 .. Len(e) : (I \o e)[Len(I) + i] = e[i] BY <1>6
    <3>2. 1 \in 1 .. Len(e) BY <2>2
    <3> QED BY <3>1, <3>2, Zenon
  <2>4. Len(r) = n + 1 /\ r[n + 1] = z BY <1>4, <1>7, <2>2, <2>3 DEF n
  <2>5. n # n + 1 /\ \E i \in 1 .. n : {I[i].p, I[i].from} \cap Guarded # {} BY <1>1, <1>10
  <2>6. \A i \in 1 .. n : r[i] = I[i] BY <1>4, <1>8, ZenonT(20)
  <2> HIDE DEF r, need
  <2> QED BY <1>2, <1>4, <1>9, <2>4, <2>5, <2>6 DEF n, r
<1>11. CASE ~need
  <2>1. e = <<>> /\ Len(<<>>) = 0 BY <1>11 DEF e
  <2>2. Len(r) = n BY <1>1, <1>4, <1>7, <2>1
  <2>3. \A i \in 1 .. n : I[i].p \notin Guarded /\ I[i].from \notin Guarded BY <1>1, <1>11
  <2>4. n # n + 1 BY <1>1
  <2>5. \A i \in 1 .. n : r[i] = I[i] BY <1>4, <1>8, ZenonT(20)
  <2> HIDE DEF r, need
  <2> QED BY <1>4, <1>9, <2>2, <2>3, <2>4, <2>5 DEF n, r
<1> QED BY <1>10, <1>11

\* The lists of the calls have the shape.
Pattern(r, p, n) ==
  LET retain == IF p \in Weaks THEN "retain_weak" ELSE "retain" IN
  \/ n = 1 /\ r[1].do \in {"take", "lock"}
  \/ n = 2 /\ r[1].do = "setme" /\ r[2].do = retain
  \/ n = 2 /\ r[1].do \in {"release", "release_weak"} /\ r[2].do \in {"zero", "take"}
  \/ n = 3 /\ r[1].do \in {"release", "release_weak"} /\ r[2].do = "setme" /\ r[3].do = retain

LEMMA ShapeCalled ==
  ASSUME NEW r, NEW p \in All, NEW n \in 1 .. 3, Len(r) \in {n, n + 1}, Pattern(r, p, n),
         \A i \in 1 .. n : Fits(r[i]) /\ r[i].p = p,
         Len(r) = n + 1 => r[n + 1].do = "unlock" /\ r[n + 1].p = Null /\ r[n + 1].from = Null
  PROVE  Shape(r)
<1>1. \A i \in 1 .. Len(r) : i \in 1 .. n \/ (i = n + 1 /\ Len(r) = n + 1) OBVIOUS
<1>2. \A i \in 1 .. Len(r) : Fits(r[i]) BY <1>1 DEF Fits
<1>3. Len(r) = n + 1 => Placed(r, n + 1) BY DEF Placed
<1>4. CASE n = 1 /\ r[1].do \in {"take", "lock"}
  <2>1. Placed(r, 1)
    <3>1. \A j \in 1 + 1 .. Len(r) : r[j].do = "unlock" BY <1>4
    <3> QED BY <1>4, <3>1 DEF Placed
  <2> QED BY <1>1, <1>2, <1>3, <1>4, <2>1 DEF Shape
<1> DEFINE retain == IF p \in Weaks THEN "retain_weak" ELSE "retain"
<1>5. CASE n = 2 /\ r[1].do = "setme" /\ r[2].do = retain
  <2>1. r[1].p = p /\ r[2].p = p BY <1>5
  <2>2. Placed(r, 1) BY <1>5, <2>1 DEF Placed
  <2>3. Placed(r, 2)
    <3>1. \A j \in 2 + 1 .. Len(r) : r[j].do = "unlock" BY <1>5
    <3>2. 2 - 1 = 1 OBVIOUS
    <3> QED BY <1>5, <3>1, <3>2 DEF Placed
  <2> QED BY <1>1, <1>2, <1>3, <1>5, <2>2, <2>3 DEF Shape
<1>6. CASE n = 2 /\ r[1].do \in {"release", "release_weak"} /\ r[2].do \in {"zero", "take"}
  <2>1. r[1].p = p /\ r[2].p = p BY <1>6
  <2>2. Placed(r, 1) BY <1>6, <2>1 DEF Placed
  <2>3. Placed(r, 2)
    <3>1. \A j \in 2 + 1 .. Len(r) : r[j].do = "unlock" BY <1>6
    <3> QED BY <1>6, <3>1 DEF Placed
  <2> QED BY <1>1, <1>2, <1>3, <1>6, <2>2, <2>3 DEF Shape
<1>7. CASE n = 3 /\ r[1].do \in {"release", "release_weak"} /\ r[2].do = "setme" /\ r[3].do = retain
  <2>1. r[1].p = p /\ r[2].p = p /\ r[3].p = p BY <1>7
  <2>2. Placed(r, 1) BY <1>7, <2>1 DEF Placed
  <2>3. Placed(r, 2) BY <1>7, <2>1 DEF Placed
  <2>4. Placed(r, 3)
    <3>1. \A j \in 3 + 1 .. Len(r) : r[j].do = "unlock" BY <1>7
    <3>2. 3 - 1 = 2 OBVIOUS
    <3> QED BY <1>7, <3>1, <3>2 DEF Placed
  <2> QED BY <1>1, <1>2, <1>3, <1>7, <2>2, <2>3, <2>4 DEF Shape
<1> QED BY <1>4, <1>5, <1>6, <1>7 DEF Pattern

-----------------------------------------------------------------------------
\* Counting, when one element or two may change.
One(b) == IF b THEN 1 ELSE 0

LEMMA CardOne ==
  ASSUME Counting, NEW S, NEW T, NEW x, IsFiniteSet(S), \A v : v # x => (v \in T <=> v \in S)
  PROVE  /\ IsFiniteSet(T) /\ Cardinality(S) \in Nat /\ Cardinality(T) \in Nat
         /\ Cardinality(T) = Cardinality(S) - One(x \in S) + One(x \in T)
         /\ x \in S => Cardinality(S) >= 1
<1> DEFINE R == S \ {x}
<1>1. /\ IsFiniteSet(R) /\ Cardinality(S) \in Nat
      /\ Cardinality(R) = IF x \in S THEN Cardinality(S) - 1 ELSE Cardinality(S)
  BY SizeLess, SizeIsNat
<1>2. Cardinality(R) \in Nat /\ x \notin R BY <1>1, SizeIsNat
<1>3. T = IF x \in T THEN R \cup {x} ELSE R OBVIOUS
<1> HIDE DEF R
<1>4. IsFiniteSet(R \cup {x}) /\ Cardinality(R \cup {x}) = Cardinality(R) + 1
  BY <1>1, <1>2, SizeMore
<1>5. /\ IsFiniteSet(T) /\ Cardinality(T) = Cardinality(R) + One(x \in T)
  <2>1. CASE x \in T
    <3>1. T = R \cup {x} BY <1>3, <2>1
    <3> QED BY <1>4, <2>1, <3>1 DEF One
  <2>2. CASE x \notin T
    <3>1. T = R BY <1>3, <2>2
    <3> QED BY <1>1, <1>2, <2>2, <3>1 DEF One
  <2> QED BY <2>1, <2>2
<1>6. One(x \in T) \in Nat /\ One(x \in S) \in Nat BY DEF One
<1>7. x \in S => Cardinality(S) >= 1 BY <1>1, <1>2
<1>8. Cardinality(T) = Cardinality(S) - One(x \in S) + One(x \in T) BY <1>1, <1>2, <1>5, <1>6 DEF One
<1> QED BY <1>1, <1>2, <1>5, <1>6, <1>7, <1>8

LEMMA CardTwo ==
  ASSUME Counting, NEW S, NEW T, NEW x, NEW y, x # y, IsFiniteSet(S),
         \A v : v # x /\ v # y => (v \in T <=> v \in S)
  PROVE  /\ IsFiniteSet(T) /\ Cardinality(S) \in Nat /\ Cardinality(T) \in Nat
         /\ Cardinality(T) = Cardinality(S) - One(x \in S) - One(y \in S) + One(x \in T) + One(y \in T)
<1> DEFINE M == IF x \in T THEN S \cup {x} ELSE S \ {x}
<1>1. \A v : v # x => (v \in M <=> v \in S) OBVIOUS
<1>2. (x \in M <=> x \in T) /\ (y \in M <=> y \in S) OBVIOUS
<1>3. \A v : v # y => (v \in T <=> v \in M) OBVIOUS
<1> HIDE DEF M
<1>4. /\ IsFiniteSet(M) /\ Cardinality(S) \in Nat /\ Cardinality(M) \in Nat
      /\ Cardinality(M) = Cardinality(S) - One(x \in S) + One(x \in M)
  BY <1>1, CardOne
<1>5. /\ IsFiniteSet(T) /\ Cardinality(T) \in Nat
      /\ Cardinality(T) = Cardinality(M) - One(y \in M) + One(y \in T)
  BY <1>3, <1>4, CardOne
<1>6. One(x \in M) = One(x \in T) /\ One(y \in M) = One(y \in S) BY <1>2 DEF One
<1>7. /\ One(x \in S) \in Nat /\ One(y \in S) \in Nat /\ One(x \in T) \in Nat /\ One(y \in T) \in Nat
  BY DEF One
<1> QED BY <1>4, <1>5, <1>6, <1>7

\* The owners and the watchers are finite sets.
LEMMA FiniteHolders ==
  ASSUME Counting, NEW o
  PROVE  /\ IsFiniteSet(Owners(o)) /\ IsFiniteSet(Watchers(o))
         /\ Cardinality(Owners(o)) \in Nat /\ Cardinality(Watchers(o)) \in Nat
<1>1. Owners(o) \subseteq Pointers /\ Watchers(o) \subseteq Weaks BY DEF Owners, Watchers
<1>2. IsFiniteSet(Owners(o)) /\ IsFiniteSet(Watchers(o))
  BY <1>1, SharedObjectAssumption, SizeOfSubset, ZenonT(20)
<1> QED BY <1>2, SizeIsNat

\* What a step of t does to the counts that pointers hold.
LEMMA HoldsKept ==
  ASSUME Types, Types', NEW t \in Threads, \A u \in Threads : u # t => code'[u] = code[u],
         NEW v, fControl'[v] = fControl[v], Pending(code'[t], v) <=> Pending(code[t], v)
  PROVE  Holds(v)' <=> Holds(v)
<1>1. Holds(v) <=> Points(v) /\ \A u \in Threads : ~Pending(code[u], v) BY HoldsIs
<1>2. Holds(v)' <=> fControl'[v] # Null /\ \A u \in Threads : ~Pending(code'[u], v) BY HoldsWillBe
<1>3. Points(v) <=> fControl'[v] # Null BY DEF Points
<1>4. \A u \in Threads : Pending(code'[u], v) <=> Pending(code[u], v) OBVIOUS
<1> QED BY <1>1, <1>2, <1>3, <1>4

LEMMA HoldsMine ==
  ASSUME Counting, Inv, NEW t \in Threads, NEW v \in All, MayTouch(t, v)
  PROVE  /\ Holds(v) <=> Points(v) /\ ~Pending(code[t], v)
         /\ Types' /\ (\A u \in Threads : u # t => code'[u] = code[u]) =>
              (Holds(v)' <=> fControl'[v] # Null /\ ~Pending(code'[t], v))
<1>1. \A u \in Threads : u # t => ~Pending(code[u], v) BY OthersSilent
<1>2. Holds(v) <=> Points(v) /\ \A u \in Threads : ~Pending(code[u], v) BY HoldsIs DEF Inv
<1>3. Types' => (Holds(v)' <=> fControl'[v] # Null /\ \A u \in Threads : ~Pending(code'[u], v))
  BY HoldsWillBe
<1> QED BY <1>1, <1>2, <1>3

-----------------------------------------------------------------------------
\* All threads, when the one that takes a step is in order.
LEMMA ThreadsKept ==
  ASSUME Counting, Inv, NEW t \in Threads, \A u \in Threads : u # t => code'[u] = code[u],
         \A v \in All : fControl'[v] = fControl[v] \/ MayTouch(t, v),
         ThreadInv(t)', HasLock(t)' => LockFree(t)
  PROVE  (\A u \in Threads : ThreadInv(u)') /\ LockOnce'
<1>1. \A u \in Threads : ThreadInv(u)' BY OthersKept
<1>2. \A u \in Threads : u # t => (HasLock(u)' <=> HasLock(u)) BY DEF HasLock
<1>3. HasLock(t)' => \A u \in Threads : u # t => ~HasLock(u) BY LockFreeIs DEF Inv
<1>4. LockOnce' BY <1>2, <1>3 DEF Inv, LockOnce
<1> QED BY <1>1, <1>4

LEMMA KeepsLock ==
  ASSUME Inv, NEW t \in Threads, HasLock(t)
  PROVE  LockFree(t)
BY LockFreeIs DEF Inv, LockOnce

\* The objects being destroyed, when an instruction is done ...
LEMMA FreesPopped ==
  ASSUME Inv, NEW t \in Threads, \A u \in Threads : u # t => code'[u] = code[u],
         NEW s, s = code[t], Popped(s, code'[t])
  PROVE  /\ FreeOnce' /\ (HasLock(t)' => HasLock(t))
         /\ \A u \in Threads : \A o :
              Frees(u, o)' <=> Frees(u, o) /\ ~(s[1].do = "free" /\ s[1].p = o)
<1> DEFINE r == code'[t]
<1>1. Len(s) \in Nat /\ Len(s) >= 1 /\ Len(r) = Len(s) - 1 BY DEF Popped
<1>2. \A i \in 1 .. Len(r) : i + 1 \in 1 .. Len(s) /\ r[i] = s[i + 1] BY <1>1 DEF Popped
<1>3. \A j \in 1 .. Len(s) : j # 1 => j - 1 \in 1 .. Len(r) /\ r[j - 1] = s[j]
  <2> SUFFICES ASSUME NEW j \in 1 .. Len(s), j # 1 PROVE j - 1 \in 1 .. Len(r) /\ r[j - 1] = s[j]
    OBVIOUS
  <2>1. j - 1 \in 1 .. Len(r) /\ j - 1 + 1 = j BY <1>1
  <2> QED BY <1>2, <2>1
<1>4. FreeOnce /\ 1 \in 1 .. Len(s) BY <1>1 DEF Inv
<1> HIDE DEF r
<1>5. HasLock(t)' => HasLock(t) BY <1>2 DEF HasLock, r
<1>6. ASSUME NEW o, s[1].do = "free", s[1].p = o, NEW u \in Threads PROVE ~Frees(u, o)'
  <2>1. CASE u = t
    <3> SUFFICES ASSUME NEW i \in 1 .. Len(r), r[i].do = "free", r[i].p = o PROVE FALSE
      BY <2>1 DEF Frees, r
    <3>1. i + 1 \in 1 .. Len(s) /\ s[i + 1].do = "free" /\ s[i + 1].p = o BY <1>2
    <3>2. i + 1 = 1 BY <1>4, <1>6, <3>1 DEF FreeOnce
    <3> QED BY <3>2
  <2>2. CASE u # t BY <1>4, <1>6, <2>2 DEF Frees, FreeOnce
  <2> QED BY <2>1, <2>2
<1>7. \A u \in Threads : \A o : Frees(u, o)' => Frees(u, o)
  <2> SUFFICES ASSUME NEW u \in Threads, NEW o, Frees(u, o)' PROVE Frees(u, o) OBVIOUS
  <2>1. PICK i \in 1 .. Len(code'[u]) : code'[u][i].do = "free" /\ code'[u][i].p = o BY DEF Frees
  <2>2. CASE u = t
    <3>1. i + 1 \in 1 .. Len(s) /\ s[i + 1].do = "free" /\ s[i + 1].p = o BY <1>2, <2>1, <2>2 DEF r
    <3> QED BY <2>2, <3>1 DEF Frees
  <2>3. CASE u # t BY <2>1, <2>3 DEF Frees
  <2> QED BY <2>2, <2>3
<1>8. \A u \in Threads : \A o : Frees(u, o) => Frees(u, o)' \/ (s[1].do = "free" /\ s[1].p = o)
  BY <1>3 DEF Frees, r
<1>9. FreeOnce'
  <2> SUFFICES ASSUME NEW x \in Threads, NEW y \in Threads,
                      NEW i \in 1 .. Len(code'[x]), NEW j \in 1 .. Len(code'[y]),
                      code'[x][i].do = "free", code'[y][j].do = "free", code'[x][i].p = code'[y][j].p
               PROVE  x = y /\ i = j
    BY DEF FreeOnce
  <2>1. PICK k \in 1 .. Len(code[x]) : /\ code[x][k] = code'[x][i]
                                       /\ k = IF x = t THEN i + 1 ELSE i
    BY <1>2 DEF r
  <2>2. PICK m \in 1 .. Len(code[y]) : /\ code[y][m] = code'[y][j]
                                       /\ m = IF y = t THEN j + 1 ELSE j
    BY <1>2 DEF r
  <2>3. code[x][k].do = "free" /\ code[y][m].do = "free" /\ code[x][k].p = code[y][m].p
    BY <2>1, <2>2
  <2>4. x = y /\ k = m BY <1>4, <2>3 DEF FreeOnce
  <2> QED BY <2>1, <2>2, <2>4
<1> QED BY <1>5, <1>6, <1>7, <1>8, <1>9

\* ... and when a destruction begins.
LEMMA FreesPushed ==
  ASSUME Inv, NEW t \in Threads, \A u \in Threads : u # t => code'[u] = code[u],
         NEW s, s = code[t], NEW o, Pushed(s, code'[t], o), s[1].do = "release",
         \A u \in Threads : ~Frees(u, o)
  PROVE  /\ FreeOnce' /\ (HasLock(t)' => HasLock(t))
         /\ \A u \in Threads : \A x : Frees(u, x)' <=> Frees(u, x) \/ (u = t /\ x = o)
<1> DEFINE r == code'[t]
<1>1. /\ Len(s) \in Nat /\ Len(s) >= 1 /\ Len(r) = Len(s) + 2 BY DEF Pushed
<1>2. \A i \in 4 .. Len(r) : i - 2 \in 1 .. Len(s) /\ r[i] = s[i - 2] BY <1>1 DEF Pushed
<1>3. \A j \in 1 .. Len(s) : j # 1 => j + 2 \in 1 .. Len(r) /\ r[j + 2] = s[j]
  <2> SUFFICES ASSUME NEW j \in 1 .. Len(s), j # 1 PROVE j + 2 \in 1 .. Len(r) /\ r[j + 2] = s[j]
    OBVIOUS
  <2>1. j + 2 \in 1 .. Len(r) /\ j + 2 \in 4 .. Len(r) /\ j + 2 - 2 = j BY <1>1
  <2> QED BY <1>2, <2>1
<1>4. /\ r[1].do = "release" /\ r[2].do = "zero" /\ r[3].do = "free" /\ r[3].p = o
      /\ 3 \in 1 .. Len(r)
  BY <1>1 DEF Pushed, Instr
<1>5. \A i \in 1 .. Len(r) : i = 1 \/ i = 2 \/ i = 3 \/ i \in 4 .. Len(r) BY <1>1
<1> HIDE DEF r
<1>6. HasLock(t)' => HasLock(t)
  <2> SUFFICES ASSUME NEW i \in 1 .. Len(r), r[i].do = "unlock" PROVE HasLock(t)
    BY DEF HasLock, r
  <2>1. i \in 4 .. Len(r) BY <1>4, <1>5
  <2> QED BY <1>2, <2>1 DEF HasLock
<1>7. \A i \in 1 .. Len(r) : r[i].do = "free" => i = 3 \/ i \in 4 .. Len(r) BY <1>4, <1>5
<1>8. \A u \in Threads : \A x : Frees(u, x)' => Frees(u, x) \/ (u = t /\ x = o)
  <2> SUFFICES ASSUME NEW x, NEW i \in 1 .. Len(r), r[i].do = "free", r[i].p = x, x # o
               PROVE  Frees(t, x)
    BY DEF Frees, r
  <2>1. i \in 4 .. Len(r) BY <1>4, <1>7
  <2> QED BY <1>2, <2>1 DEF Frees
<1>9. \A u \in Threads : \A x : Frees(u, x) \/ (u = t /\ x = o) => Frees(u, x)' BY <1>3, <1>4 DEF Frees, r
<1>10. FreeOnce'
  <2> SUFFICES ASSUME NEW x \in Threads, NEW y \in Threads,
                      NEW i \in 1 .. Len(code'[x]), NEW j \in 1 .. Len(code'[y]),
                      code'[x][i].do = "free", code'[y][j].do = "free", code'[x][i].p = code'[y][j].p
               PROVE  x = y /\ i = j
    BY DEF FreeOnce
  <2> DEFINE New(z, k) == z = t /\ k = 3
  <2>1. ~New(x, i) => \E k \in 1 .. Len(code[x]) :
            code[x][k] = code'[x][i] /\ k = IF x = t THEN i - 2 ELSE i
    BY <1>2, <1>7 DEF r
  <2>2. ~New(y, j) => \E k \in 1 .. Len(code[y]) :
            code[y][k] = code'[y][j] /\ k = IF y = t THEN j - 2 ELSE j
    BY <1>2, <1>7 DEF r
  <2>3. ~New(x, i) => code'[x][i].p # o BY <2>1 DEF Frees
  <2>4. ~New(y, j) => code'[y][j].p # o BY <2>2 DEF Frees
  <2>5. New(x, i) <=> New(y, j) BY <1>4, <2>3, <2>4 DEF r
  <2>6. ASSUME ~New(x, i) PROVE x = y /\ i = j
    <3>1. PICK k \in 1 .. Len(code[x]) : code[x][k] = code'[x][i] /\ k = IF x = t THEN i - 2 ELSE i
      BY <2>1, <2>6
    <3>2. PICK m \in 1 .. Len(code[y]) : code[y][m] = code'[y][j] /\ m = IF y = t THEN j - 2 ELSE j
      BY <2>2, <2>5, <2>6
    <3>3. code[x][k].do = "free" /\ code[y][m].do = "free" /\ code[x][k].p = code[y][m].p
      BY <3>1, <3>2
    <3>4. x = y /\ k = m BY <3>3 DEF Inv, FreeOnce
    <3> QED BY <3>1, <3>2, <3>4
  <2> QED BY <2>5, <2>6
<1> QED BY <1>6, <1>8, <1>9, <1>10

-----------------------------------------------------------------------------
\* The instruction at the head of a thread's list, and the list after it.
Doing(t, c) ==
  /\ c = code[t][1] /\ Fits(c) /\ Reaches(t, c) /\ Begun(t, c) /\ Placed(code[t], 1)
  /\ Len(code[t]) \in Nat /\ Len(code[t]) >= 1 /\ Mentions(t, c.p)
  /\ c.do # "unlock" => c.p \in All /\ MayTouch(t, c.p)
  /\ c.from # Null => /\ c.from \in All /\ MayTouch(t, c.from) /\ c.from # c.p
                      /\ ~Pending(code[t], c.from)
  /\ c.do \notin {"free", "unlock"} => (Pending(code[t], c.p) <=> c.do \in NotYet)

LEMMA HeadDoing ==
  ASSUME Inv, NEW t \in Threads, code[t] # <<>>, NEW c, c = Head(code[t])
  PROVE  Doing(t, c)
<1> DEFINE s == code[t]
<1>1. s \in Seq(Instruction) BY DEF Inv, Types
<1>2. c = s[1] /\ Len(s) \in Nat /\ Len(s) >= 1 BY <1>1, PopIs DEF Popped
<1>3. 1 \in 1 .. Len(s) BY <1>2
<1>4. Fits(c) /\ Reaches(t, c) /\ Begun(t, c) /\ Placed(s, 1)
  BY <1>2, <1>3 DEF Inv, ThreadInv, Shape
<1>5. c.do # "unlock" => c.p \in All /\ MayTouch(t, c.p)
  BY <1>4, AccessMayTouch, Kinds DEF Reaches, Fits
<1>6. Mentions(t, c.p) BY <1>2, <1>3 DEF Mentions
<1>7. c.from # Null => /\ c.from \in All /\ MayTouch(t, c.from) /\ c.from # c.p
                       /\ ~Pending(s, c.from)
  <2> SUFFICES ASSUME c.from # Null
               PROVE  /\ c.from \in All /\ MayTouch(t, c.from) /\ c.from # c.p
                      /\ ~Pending(s, c.from)
    OBVIOUS
  <2>1. c.from \in All BY <1>4, Kinds DEF Fits
  <2>2. ~Mentions(t, c.from) /\ Access(t, c.from) BY <1>4 DEF Reaches, Source
  <2>3. ~Pending(s, c.from) BY <2>2, UnmentionedNotPending DEF Mentions
  <2> QED BY <1>6, <2>1, <2>2, <2>3, AccessMayTouch
<1>8. c.do # "free" => (Pending(s, c.p) <=> c.do \in NotYet) BY <1>2, PendingFirst
<1> QED BY <1>2, <1>4, <1>5, <1>6, <1>7, <1>8, ZenonT(20) DEF Doing

Gone(t, c) ==
  /\ code' \in [Threads -> Seq(Instruction)] /\ Shape(code'[t])
  /\ \A u \in Threads : u # t => code'[u] = code[u]
  /\ Popped(code[t], code'[t])
  /\ \A v : v # c.p => (Pending(code'[t], v) <=> Pending(code[t], v))
  /\ c.do \in {"setme", "release", "release_weak"} => Pending(code'[t], c.p)
  /\ c.do \in {"retain", "retain_weak", "take", "lock", "unlock"} =>
       /\ \A i \in 1 .. Len(code'[t]) : code'[t][i].do = "unlock"
       /\ c.p # Null => ~Pending(code'[t], c.p)

LEMMA HeadGone ==
  ASSUME Inv, NEW t \in Threads, code[t] # <<>>, NEW c, c = Head(code[t]), Done(t, <<>>)
  PROVE  Gone(t, c)
<1> DEFINE s == code[t]
           r == code'[t]
<1>1. s \in Seq(Instruction) BY DEF Inv, Types
<1>2. r = <<>> \o Tail(s) /\ \A u \in Threads : u # t => code'[u] = code[u]
  BY DEF Done, Inv, Types
<1>3. r \in Seq(Instruction) /\ Popped(s, r) BY <1>1, <1>2, PopIs
<1>4. code' \in [Threads -> Seq(Instruction)] BY <1>2, <1>3 DEF Done, Inv, Types
<1>5. Doing(t, c) /\ c = s[1] BY HeadDoing DEF Doing
<1> HIDE DEF r
<1>6. Shape(s) /\ Shape(r) BY <1>3, ShapePopped DEF Inv, ThreadInv
<1>7. Len(s) \in Nat /\ Len(r) = Len(s) - 1 /\ \A i \in 1 .. Len(r) : r[i] = s[i + 1]
  BY <1>3 DEF Popped
<1>8. \A v : v # c.p => (Pending(r, v) <=> Pending(s, v)) BY <1>3, <1>5, PendingPopped
<1>9. ASSUME c.do \in {"setme", "release", "release_weak"} PROVE Pending(r, c.p)
  <2>1. /\ 1 < Len(s) /\ s[2].p = c.p
        /\ s[2].do \in {"retain", "retain_weak", "setme", "take", "zero"}
    <3>1. s[1] = c /\ Placed(s, 1) BY <1>5, Zenon DEF Doing
    <3>2. CASE c.do = "setme"
      <4>1. /\ 1 < Len(s) /\ s[1 + 1].p = s[1].p
            /\ s[1 + 1].do = IF s[1].p \in Weaks THEN "retain_weak" ELSE "retain"
        BY <3>1, <3>2, Zenon DEF Placed
      <4> QED BY <3>1, <4>1
    <3>3. CASE c.do \in {"release", "release_weak"}
      <4>1. 1 < Len(s) /\ s[1 + 1].p = s[1].p /\ s[1 + 1].do \in {"setme", "take", "zero"}
        BY <3>1, <3>3, Zenon DEF Placed
      <4> QED BY <3>1, <4>1
    <3> QED BY <1>9, <3>2, <3>3
  <2>2. r[1] = s[2] /\ Len(r) \in Nat /\ Len(r) >= 1 BY <1>7, <2>1
  <2> QED BY <2>1, <2>2, PendingFirst DEF NotYet
<1>10. ASSUME c.do \in {"retain", "retain_weak", "take", "lock", "unlock"}
       PROVE  /\ \A i \in 1 .. Len(r) : r[i].do = "unlock"
              /\ c.p # Null => ~Pending(r, c.p)
  <2>1. \A i \in 1 .. Len(r) : r[i].do = "unlock"
    <3>1. CASE c.do = "unlock"
      <4>1. Len(s) = 1 BY <1>5, <3>1, ZenonT(20) DEF Doing, Placed
      <4> QED BY <1>7, <4>1
    <3>2. CASE c.do # "unlock"
      <4> SUFFICES ASSUME NEW i \in 1 .. Len(r) PROVE r[i].do = "unlock" OBVIOUS
      <4>1. i + 1 \in 1 + 1 .. Len(s) /\ r[i] = s[i + 1] BY <1>7
      <4> QED BY <1>5, <1>10, <3>2, <4>1, ZenonT(20) DEF Doing, Placed
    <3> QED BY <3>1, <3>2
  <2>2. ~Pending(r, c.p) BY <2>1 DEF Pending, NotYet
  <2> QED BY <2>1, <2>2
<1> QED BY <1>2, <1>3, <1>4, <1>6, <1>8, <1>9, <1>10 DEF Gone, r

\* An object whose member a thread may touch has not been destroyed.
LEMMA TouchedObject ==
  ASSUME Counting, Inv, NEW t \in Threads, NEW o \in Objects, MayTouch(t, o)
  PROVE  state[o] \in {"live", "dying"}
<1>1. o \notin Locals[t] /\ o \notin Globals /\ o \notin Weaks BY Kinds
<1>2. CASE Frees(t, o) BY <1>2 DEF Inv, ObjectInv
<1>3. CASE LockFree(t) /\ Anchored(t, o) BY <1>3, AnchoredLive
<1> QED BY <1>1, <1>2, <1>3 DEF MayTouch

LEMMA ObjectsKept ==
  ASSUME Counting, Inv, NEW t \in Threads, \A v \in All : fControl'[v] = fControl[v] \/ MayTouch(t, v),
         \A u \in Threads : \A o : Frees(u, o)' <=> Frees(u, o), UNCHANGED <<state, fWeakCount>>
  PROVE  ObjectInv'
<1> SUFFICES ASSUME NEW o \in Objects
             PROVE  /\ state[o] = "dying" <=> \E u \in Threads : Frees(u, o)
                    /\ state[o] \in {"none", "dead"} => fControl'[o] = Null
                    /\ state[o] = "none" <=> fWeakCount[o] = 0
  BY DEF ObjectInv
<1>1. o \in All BY DEF All, Pointers
<1>2. state[o] \in {"none", "dead"} => ~MayTouch(t, o) BY TouchedObject
<1> QED BY <1>1, <1>2 DEF Inv, ObjectInv

LEMMA CountsKept ==
  ASSUME Inv, UNCHANGED <<state, fUseCount, fWeakCount>>,
         \A v \in All : (Holds(v)' <=> Holds(v)) /\ (Holds(v) => fControl'[v] = fControl[v])
  PROVE  UseCountsExact' /\ BlockOutlivesWeaks'
<1>1. \A o : Owners(o)' = Owners(o) BY DEF Owners, All
<1>2. \A o : Watchers(o)' = Watchers(o) BY DEF Watchers, All
<1>3. UseCountsExact' BY <1>1 DEF Inv, UseCountsExact
<1>4. BlockOutlivesWeaks' BY <1>2 DEF Inv, BlockOutlivesWeaks
<1> QED BY <1>3, <1>4
=============================================================================
