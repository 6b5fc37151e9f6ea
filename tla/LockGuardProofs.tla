-------------------------- MODULE LockGuardProofs --------------------------
(*************************************************************************)
(* LockGuard's properties for any number of processors, any locks of any *)
(* types in any order, and any number of guards: type correctness and    *)
(* what each action does to a context's guards; who has interrupts       *)
(* disabled and where it is kept that they are to be enabled again; how  *)
(* often a lock is held.                                                 *)
(*************************************************************************)
EXTENDS LockGuard, Functions, TLAPS

USE ZenonT(8), SMTT(12)

\* What the proofs need of the types; the bound on the guards is not part of it.
Types ==
  /\ interrupts \in [Cpus -> BOOLEAN] /\ inHandler \in [Cpus -> BOOLEAN]
  /\ owner \in [Locks -> Contexts \cup {NoOne}] /\ depth \in [Locks -> Int]
  /\ guards \in [Contexts -> Seq(Guard)]
  /\ pc \in [Contexts -> {"run", "lock", "restore"}]
  /\ want \in [Contexts -> Locks \cup {NoLock}] /\ state \in [Contexts -> BOOLEAN]
  /\ \A x \in Contexts : pc[x] = "lock" => want[x] \in Locks

\* A lock that its owner o holds d times: what each context holds of it, by h.
HeldBy(h, o, d) ==
  /\ o = NoOne => d = 0
  /\ o # NoOne => d > 0
  /\ \A x \in Contexts : h[x] = IF o = x THEN d ELSE 0

LEMMA ContextsAreOwners == \A x \in Contexts : x # NoOne
BY LockGuardAssumption DEF Contexts

\* One hold more.
LEMMA HeldMore ==
  ASSUME NEW h, NEW k, NEW o, NEW d \in Int, NEW x \in Contexts, HeldBy(h, o, d), o \in {NoOne, x},
         k[x] = h[x] + 1, \A y \in Contexts \ {x} : k[y] = h[y]
  PROVE  HeldBy(k, x, d + 1)
<1>1. d >= 0 /\ h[x] = d BY DEF HeldBy
<1>2. \A y \in Contexts \ {x} : h[y] = 0 BY ContextsAreOwners DEF HeldBy
<1> QED BY <1>1, <1>2, ContextsAreOwners DEF HeldBy

\* One hold less: it was the owner's.
LEMMA HeldLess ==
  ASSUME NEW h, NEW k, NEW o, NEW d \in Int, NEW x \in Contexts, HeldBy(h, o, d),
         k[x] \in Nat, h[x] = k[x] + 1, \A y \in Contexts \ {x} : k[y] = h[y]
  PROVE  o = x /\ HeldBy(k, IF d = 1 THEN NoOne ELSE x, d - 1)
<1>1. o = x /\ d = k[x] + 1 BY DEF HeldBy
<1>2. \A y \in Contexts \ {x} : k[y] = 0 BY <1>1 DEF HeldBy
<1> QED BY <1>1, <1>2, ContextsAreOwners DEF HeldBy

\* None more or less.
LEMMA HeldSame ==
  ASSUME NEW h, NEW k, NEW o, NEW d, HeldBy(h, o, d), \A y \in Contexts : k[y] = h[y]
  PROVE  HeldBy(k, o, d)
BY DEF HeldBy

\* What a sequence is.
LEMMA Lengths ==
  ASSUME NEW G, NEW s \in Seq(G)
  PROVE  /\ Len(s) \in Nat /\ DOMAIN s = 1 .. Len(s) /\ \A i \in 1 .. Len(s) : s[i] \in G
         /\ s # <<>> => Len(s) # 0
OBVIOUS

\* Part of a sequence of guards.
LEMMA PartOf ==
  ASSUME NEW G, NEW s \in Seq(G), NEW m \in 1 .. Len(s) + 1, NEW n \in 0 .. Len(s), m <= n + 1
  PROVE  /\ SubSeq(s, m, n) \in Seq(G) /\ Len(SubSeq(s, m, n)) = n - m + 1
         /\ \A i \in 1 .. n - m + 1 : SubSeq(s, m, n)[i] = s[m + i - 1]
<1>1. Len(s) \in Nat /\ m \in Int /\ n \in Int BY Lengths
<1>2. \A i \in m .. n : s[i] \in G
  <2>1. \A i \in 1 .. Len(s) : s[i] \in G BY Lengths
  <2>2. \A i \in m .. n : i \in 1 .. Len(s) BY <1>1
  <2> QED BY <2>1, <2>2
<1>3. SubSeq(s, m, n) \in Seq(G) BY <1>1, <1>2
<1>4. Len(SubSeq(s, m, n)) = n - m + 1 BY <1>1
<1>5. \A i \in 1 .. n - m + 1 : SubSeq(s, m, n)[i] = s[m + i - 1] BY <1>1, <1>2
<1> QED BY <1>3, <1>4, <1>5

\* A sequence of guards without its last one.
LEMMA FrontGuards ==
  ASSUME NEW G, NEW s \in Seq(G), s # <<>>
  PROVE  /\ Front(s) \in Seq(G) /\ Len(Front(s)) = Len(s) - 1
         /\ \A i \in 1 .. Len(s) - 1 : Front(s)[i] = s[i]
         /\ Len(s) \in Nat \ {0} /\ Last(s) = s[Len(s)] /\ Last(s) \in G
<1>1. Len(s) \in Nat \ {0} BY Lengths
<1> DEFINE n == Len(s) - 1
           f == SubSeq(s, 1, n)
<1>2. 1 \in 1 .. Len(s) + 1 /\ n \in 0 .. Len(s) /\ 1 <= n + 1 BY <1>1
<1>3. /\ f \in Seq(G) /\ Len(f) = n - 1 + 1
      /\ \A i \in 1 .. n - 1 + 1 : f[i] = s[1 + i - 1]
  BY <1>2, PartOf, ZenonT(30)
<1> HIDE DEF f
<1>4. Len(f) = n /\ \A i \in 1 .. n : f[i] = s[i] BY <1>1, <1>3
<1>5. Last(s) = s[Len(s)] /\ Last(s) \in G BY <1>1 DEF Last
<1> QED BY <1>1, <1>3, <1>4, <1>5, Zenon DEF Front, f

\* The guards after one of them has been destroyed out of turn.
LEMMA RemovedGuard ==
  ASSUME NEW G, NEW s \in Seq(G), NEW i \in DOMAIN s
  PROVE  /\ RemoveAt(s, i) \in Seq(G) /\ Len(RemoveAt(s, i)) = Len(s) - 1
         /\ \A j \in 1 .. i - 1 : RemoveAt(s, i)[j] = s[j]
         /\ \A j \in i .. Len(s) - 1 : RemoveAt(s, i)[j] = s[j + 1]
<1> DEFINE a == SubSeq(s, 1, i - 1)
           b == SubSeq(s, i + 1, Len(s))
<1>1. Len(s) \in Nat /\ i \in 1 .. Len(s) BY Lengths
<1>2. /\ a \in Seq(G) /\ Len(a) = i - 1 /\ \A j \in 1 .. i - 1 : a[j] = s[j]
  BY <1>1, PartOf
<1>3. /\ b \in Seq(G) /\ Len(b) = Len(s) - i
      /\ \A j \in 1 .. Len(s) - i : b[j] = s[i + j]
  <2>1. /\ b \in Seq(G) /\ Len(b) = Len(s) - (i + 1) + 1
        /\ \A j \in 1 .. Len(s) - (i + 1) + 1 : b[j] = s[i + 1 + j - 1]
    BY <1>1, PartOf
  <2> HIDE DEF b
  <2> QED BY <1>1, <2>1
<1>4. RemoveAt(s, i) = a \o b BY DEF RemoveAt
<1> HIDE DEF a, b
<1>5. /\ RemoveAt(s, i) \in Seq(G) /\ Len(RemoveAt(s, i)) = Len(a) + Len(b)
      /\ \A j \in 1 .. Len(a) : RemoveAt(s, i)[j] = a[j]
      /\ \A j \in 1 .. Len(b) : RemoveAt(s, i)[Len(a) + j] = b[j]
  <2>1. /\ a \o b \in Seq(G) /\ Len(a \o b) = Len(a) + Len(b)
        /\ \A j \in 1 .. Len(a) : (a \o b)[j] = a[j]
        /\ \A j \in 1 .. Len(b) : (a \o b)[Len(a) + j] = b[j]
    <3>1. a \in Seq(G) /\ b \in Seq(G) BY <1>2, <1>3
    <3>2. a \o b \in Seq(G) /\ Len(a \o b) = Len(a) + Len(b) BY <3>1
    <3>3. \A j \in 1 .. Len(a) : (a \o b)[j] = a[j] BY <3>1
    <3>4. \A j \in 1 .. Len(b) : (a \o b)[Len(a) + j] = b[j] BY <3>1
    <3> QED BY <3>2, <3>3, <3>4, Zenon
  <2> QED BY <1>4, <2>1, Zenon
<1>6. ASSUME NEW j \in i .. Len(s) - 1 PROVE RemoveAt(s, i)[j] = s[j + 1]
  <2> DEFINE k == j - i + 1
  <2>1. k \in 1 .. Len(s) - i /\ j = i - 1 + k BY <1>1
  <2> HIDE DEF k
  <2>2. k \in 1 .. Len(b) /\ Len(a) = i - 1 BY <1>2, <1>3, <2>1
  <2>3. RemoveAt(s, i)[Len(a) + k] = b[k] BY <1>5, <2>2, Zenon
  <2>4. b[k] = s[i + k] BY <1>3, <2>1
  <2>5. Len(a) + k = j /\ i + k = j + 1 BY <1>1, <2>1, <2>2, SMTT(30)
  <2> QED BY <2>3, <2>4, <2>5, Zenon
<1>7. Len(RemoveAt(s, i)) = Len(s) - 1 BY <1>1, <1>2, <1>3, <1>5
<1>8. \A j \in 1 .. i - 1 : RemoveAt(s, i)[j] = s[j] BY <1>2, <1>5, ZenonT(30)
<1> QED BY <1>5, <1>6, <1>7, <1>8, ZenonT(30)

\* A context is a processor with one of its two levels.
LEMMA ContextParts ==
  ASSUME NEW x \in Contexts
  PROVE  x[1] \in Cpus /\ x[2] \in {"thread", "handler"} /\ x = <<x[1], x[2]>>
BY DEF Contexts

\* The moved-from guard keeps its place, and the new one comes after it.
LEMMA MoveGuards ==
  ASSUME NEW s \in Seq(Guard), s # <<>>
  PROVE  LET r == Front(s) \o Moved(Last(s)) IN
         /\ r \in Seq(Guard) /\ Len(r) = Len(s) + 1
         /\ \A i \in 1 .. Len(s) - 1 : r[i] = s[i]
         /\ r[Len(s)] = [s[Len(s)] EXCEPT !.fLock = NoLock]
         /\ r[Len(s) + 1] = [fLock |-> s[Len(s)].fLock, fMostlyUnusedInterruptState |-> FALSE]
<1> DEFINE a == [Last(s) EXCEPT !.fLock = NoLock]
           b == [fLock |-> Last(s).fLock, fMostlyUnusedInterruptState |-> FALSE]
           f == Front(s)
           t == <<a, b>>
<1>1. Last(s) \in Guard /\ Last(s) = s[Len(s)] BY FrontGuards
<1>2. a \in Guard /\ b \in Guard BY <1>1 DEF Guard
<1>3. Front(s) \o Moved(Last(s)) = f \o t BY DEF Moved
<1> HIDE DEF a, b
<1>4. t \in Seq(Guard) /\ Len(t) = 2 /\ t[1] = a /\ t[2] = b BY <1>2
<1>5. /\ f \in Seq(Guard) /\ Len(f) = Len(s) - 1 /\ \A i \in 1 .. Len(s) - 1 : f[i] = s[i]
      /\ Len(s) \in Nat \ {0}
  BY FrontGuards
<1> HIDE DEF f, t
<1>6. /\ f \o t \in Seq(Guard) /\ Len(f \o t) = Len(f) + Len(t)
      /\ \A j \in 1 .. Len(f) : (f \o t)[j] = f[j]
      /\ \A j \in 1 .. Len(t) : (f \o t)[Len(f) + j] = t[j]
  <2>1. f \in Seq(Guard) /\ t \in Seq(Guard) BY <1>4, <1>5
  <2>2. f \o t \in Seq(Guard) /\ Len(f \o t) = Len(f) + Len(t) BY <2>1
  <2>3. \A j \in 1 .. Len(f) : (f \o t)[j] = f[j] BY <2>1
  <2>4. \A j \in 1 .. Len(t) : (f \o t)[Len(f) + j] = t[j] BY <2>1
  <2> QED BY <2>2, <2>3, <2>4, Zenon
<1> DEFINE r == f \o t
<1> HIDE DEF r
<1>7. /\ r \in Seq(Guard) /\ Len(r) = Len(f) + Len(t)
      /\ \A j \in 1 .. Len(f) : r[j] = f[j]
      /\ \A j \in 1 .. Len(t) : r[Len(f) + j] = t[j]
  BY <1>6 DEF r
<1>8. r[Len(f) + 1] = t[1] /\ r[Len(f) + 2] = t[2] BY <1>4, <1>7
<1>9. Len(f) + 1 = Len(s) /\ Len(f) + 2 = Len(s) + 1 BY <1>5
<1>10. /\ r \in Seq(Guard) /\ Len(r) = Len(s) + 1
       /\ \A i \in 1 .. Len(s) - 1 : r[i] = s[i]
       /\ r[Len(s)] = a /\ r[Len(s) + 1] = b
  BY <1>4, <1>5, <1>7, <1>8, <1>9
<1> QED BY <1>1, <1>3, <1>10, Zenon DEF r, a, b

\* The guards of a context after each action that changes them.
LEMMA GuardsTyped ==
  ASSUME NEW s \in Seq(Guard)
  PROVE  /\ \A g \in Guard : Append(s, g) \in Seq(Guard)
         /\ s # <<>> => Front(s) \in Seq(Guard) /\ Last(s) \in Guard
         /\ s # <<>> => Front(s) \o Moved(Last(s)) \in Seq(Guard)
         /\ \A i \in DOMAIN s : RemoveAt(s, i) \in Seq(Guard)
<1>1. \A g \in Guard : Append(s, g) \in Seq(Guard) OBVIOUS
<1>2. s # <<>> => Front(s) \in Seq(Guard) /\ Last(s) \in Guard BY FrontGuards
<1>3. s # <<>> => Front(s) \o Moved(Last(s)) \in Seq(Guard) BY MoveGuards, ZenonT(30)
<1>4. \A i \in DOMAIN s : RemoveAt(s, i) \in Seq(Guard) BY RemovedGuard
<1> QED BY <1>1, <1>2, <1>3, <1>4

\* Every variable stays within its type.
LEMMA TypesInductive == Types /\ [Next]_vars => Types'
<1> SUFFICES ASSUME Types, [Next]_vars PROVE Types'
  OBVIOUS
<1> USE DEF Types
<1>1. ASSUME NEW x \in Contexts, NEW l \in Locks, LockInterrupt(x, l) PROVE Types'
  BY <1>1, ContextParts DEF LockInterrupt, Begin
<1>2. ASSUME NEW x \in Contexts, NEW l \in Locks, LockPlain(x, l) PROVE Types'
  BY <1>2 DEF LockPlain, Begin
<1>3. ASSUME NEW x \in Contexts, Locked(x) PROVE Types'
  <2>1. want[x] \in Locks /\ Constructed(x) \in Guard BY <1>3 DEF Locked, Constructed, Guard
  <2>2. Append(guards[x], Constructed(x)) \in Seq(Guard) BY <2>1, GuardsTyped
  <2> QED BY <1>3, <2>1, <2>2 DEF Locked
<1>4. ASSUME NEW x \in Contexts, Move(x) PROVE Types'
  <2>1. Front(guards[x]) \o Moved(Last(guards[x])) \in Seq(Guard) BY <1>4, GuardsTyped DEF Move
  <2> QED BY <1>4, <2>1 DEF Move
<1>5. ASSUME NEW x \in Contexts, UnlockPlain(x) PROVE Types'
  <2>1. Front(guards[x]) \in Seq(Guard) /\ Last(guards[x]) \in Guard
    BY <1>5, GuardsTyped DEF UnlockPlain
  <2>2. Last(guards[x]).fLock \in Locks BY <1>5, <2>1 DEF UnlockPlain, Live, Guard
  <2> QED BY <1>5, <2>1, <2>2 DEF UnlockPlain, Release
<1>6. ASSUME NEW x \in Contexts, UnlockInterrupt(x) PROVE Types'
  <2>1. Front(guards[x]) \in Seq(Guard) /\ Last(guards[x]) \in Guard
    BY <1>6, GuardsTyped DEF UnlockInterrupt
  <2>2. Last(guards[x]).fLock \in Locks /\ Last(guards[x]).fMostlyUnusedInterruptState \in BOOLEAN
    BY <1>6, <2>1 DEF UnlockInterrupt, Live, Guard
  <2> QED BY <1>6, <2>1, <2>2 DEF UnlockInterrupt, Release
<1>7. ASSUME NEW x \in Contexts, EnableInterrupt(x) PROVE Types'
  BY <1>7, ContextParts DEF EnableInterrupt
<1>8. ASSUME NEW x \in Contexts, NEW i \in Int, DestroyMoved(x, i) PROVE Types'
  <2>1. RemoveAt(guards[x], i) \in Seq(Guard) BY <1>8, GuardsTyped DEF DestroyMoved
  <2> QED BY <1>8, <2>1 DEF DestroyMoved
<1>9. ASSUME NEW k \in Cpus, Interrupt(k) \/ HandlerReturns(k) PROVE Types'
  BY <1>9, ZenonT(30) DEF Interrupt, HandlerReturns
<1>10. CASE UNCHANGED vars BY <1>10 DEF vars
<1> QED BY <1>1, <1>2, <1>3, <1>4, <1>5, <1>6, <1>7, <1>8, <1>9, <1>10 DEF Next, Construct, Destroy

----------------------------------------------------------------------------
\* A guard's claim on the interrupts: it holds a lock that keeps them out, and
\* it has saved that they were enabled.
Spin(l) == Kinds[l] = "IOSimpleLockInterrupt"
SpinGuard(g) == Live(g) /\ Spin(g.fLock)
Saved(g) == g.fMostlyUnusedInterruptState
HoldsSpin(s) == \E i \in 1 .. Len(s) : SpinGuard(s[i])
Masks(s) == \E i \in 1 .. Len(s) : SpinGuard(s[i]) /\ Saved(s[i])
NothingSaved(s) == \A i \in 1 .. Len(s) : ~Saved(s[i])

\* Only the outermost of nested spin guards found the interrupts enabled.
Nested(s) == \A i, j \in 1 .. Len(s) : i < j /\ SpinGuard(s[i]) => ~Saved(s[j])

\* What the constructor's guard adds to the claims of a context.
LEMMA ClaimsAppend ==
  ASSUME NEW s \in Seq(Guard), NEW g \in Guard
  PROVE  /\ HoldsSpin(Append(s, g)) => HoldsSpin(s) \/ SpinGuard(g)
         /\ Masks(s) \/ (SpinGuard(g) /\ Saved(g)) => Masks(Append(s, g))
         /\ NothingSaved(s) /\ ~Saved(g) => NothingSaved(Append(s, g))
         /\ Nested(s) /\ (Saved(g) => ~HoldsSpin(s)) => Nested(Append(s, g))
<1> DEFINE r == Append(s, g)
<1>1. /\ Len(s) \in Nat /\ Len(r) = Len(s) + 1 /\ r[Len(s) + 1] = g
      /\ \A i \in 1 .. Len(s) : r[i] = s[i]
  OBVIOUS
<1> HIDE DEF r
<1>2. HoldsSpin(r) => HoldsSpin(s) \/ SpinGuard(g) BY <1>1 DEF HoldsSpin
<1>3. Masks(s) \/ (SpinGuard(g) /\ Saved(g)) => Masks(r) BY <1>1 DEF Masks
<1>4. NothingSaved(s) /\ ~Saved(g) => NothingSaved(r) BY <1>1 DEF NothingSaved
<1>5. Nested(s) /\ (Saved(g) => ~HoldsSpin(s)) => Nested(r) BY <1>1 DEF Nested, HoldsSpin
<1> QED BY <1>2, <1>3, <1>4, <1>5 DEF r

\* What is left of them when the last guard is destroyed.
LEMMA ClaimsFront ==
  ASSUME NEW s \in Seq(Guard), s # <<>>
  PROVE  /\ HoldsSpin(Front(s)) => HoldsSpin(s)
         /\ SpinGuard(Last(s)) => HoldsSpin(s)
         /\ Masks(s) => Masks(Front(s)) \/ (SpinGuard(Last(s)) /\ Saved(Last(s)))
         /\ NothingSaved(s) => NothingSaved(Front(s)) /\ ~Saved(Last(s))
         /\ Nested(s) => Nested(Front(s)) /\ (Saved(Last(s)) => ~HoldsSpin(Front(s)))
<1> DEFINE r == Front(s)
<1>1. /\ Len(s) \in Nat \ {0} /\ Len(r) = Len(s) - 1 /\ Last(s) = s[Len(s)]
      /\ \A i \in 1 .. Len(s) - 1 : r[i] = s[i]
  BY FrontGuards
<1> HIDE DEF r
<1>2. (HoldsSpin(r) => HoldsSpin(s)) /\ (SpinGuard(Last(s)) => HoldsSpin(s)) BY <1>1 DEF HoldsSpin
<1>3. Masks(s) => Masks(r) \/ (SpinGuard(Last(s)) /\ Saved(Last(s))) BY <1>1 DEF Masks
<1>4. NothingSaved(s) => NothingSaved(r) /\ ~Saved(Last(s)) BY <1>1 DEF NothingSaved
<1>5. Nested(s) => Nested(r) /\ (Saved(Last(s)) => ~HoldsSpin(r)) BY <1>1 DEF Nested, HoldsSpin
<1> QED BY <1>2, <1>3, <1>4, <1>5 DEF r

\* What a move leaves of them: the new guard has nothing saved.
LEMMA ClaimsMove ==
  ASSUME NEW s \in Seq(Guard), s # <<>>, Live(Last(s)), NEW r, r = Front(s) \o Moved(Last(s))
  PROVE  /\ HoldsSpin(r) => HoldsSpin(s)
         /\ Masks(s) /\ ~SpinGuard(Last(s)) => Masks(r)
         /\ NothingSaved(s) => NothingSaved(r)
         /\ Nested(s) => Nested(r)
<1> DEFINE n == Len(s)
<1>1. /\ n \in Nat \ {0} /\ Last(s) = s[n] /\ s[n] \in Guard BY FrontGuards
<1>2. /\ Len(r) = n + 1 /\ \A i \in 1 .. n - 1 : r[i] = s[i]
      /\ r[n] = [s[n] EXCEPT !.fLock = NoLock]
      /\ r[n + 1] = [fLock |-> s[n].fLock, fMostlyUnusedInterruptState |-> FALSE]
  BY MoveGuards
<1>3. /\ ~SpinGuard(r[n]) /\ (Saved(r[n]) <=> Saved(s[n]))
      /\ ~Saved(r[n + 1]) /\ (SpinGuard(r[n + 1]) <=> SpinGuard(s[n]))
  BY <1>1, <1>2 DEF SpinGuard, Saved, Live, Guard
<1>4. /\ Len(r) = n + 1 /\ \A i \in 1 .. n - 1 : r[i] = s[i] BY <1>2
<1> HIDE DEF n
<1>5. n = Len(s) BY DEF n
<1>a. /\ n \in 1 .. n /\ n \in 1 .. n + 1 /\ n + 1 \in 1 .. n + 1
      /\ \A i \in 1 .. n : i = n \/ i \in 1 .. n - 1
      /\ \A i \in 1 .. n - 1 : i \in 1 .. n /\ i \in 1 .. n + 1
      /\ \A i \in 1 .. n + 1 : i = n + 1 \/ i = n \/ i \in 1 .. n - 1
  BY <1>1
<1>6. HoldsSpin(r) => HoldsSpin(s) BY <1>a, <1>1, <1>3, <1>4, <1>5, Zenon DEF HoldsSpin
<1>7. Masks(s) /\ ~SpinGuard(Last(s)) => Masks(r) BY <1>a, <1>1, <1>3, <1>4, <1>5, Zenon DEF Masks
<1>8. NothingSaved(s) => NothingSaved(r) BY <1>a, <1>1, <1>3, <1>4, <1>5, Zenon DEF NothingSaved
<1>9. ASSUME Nested(s), NEW i \in 1 .. n + 1, NEW j \in 1 .. n + 1, i < j, SpinGuard(r[i])
      PROVE  ~Saved(r[j])
  <2>1. CASE j = n + 1 BY <1>3, <2>1, ZenonT(30)
  <2>2. CASE j = n
    <3>1. i \in 1 .. n /\ j \in 1 .. n /\ r[i] = s[i] BY <1>1, <1>4, <1>9, <2>2
    <3>2. ~Saved(s[j]) BY <1>5, <1>9, <3>1 DEF Nested
    <3> QED BY <1>3, <2>2, <3>2, ZenonT(30)
  <2>3. CASE j < n
    <3>1. i \in 1 .. n /\ j \in 1 .. n /\ r[i] = s[i] /\ r[j] = s[j] BY <1>1, <1>4, <1>9, <2>3
    <3>2. ~Saved(s[j]) BY <1>5, <1>9, <3>1 DEF Nested
    <3> QED BY <3>1, <3>2, Zenon
  <2>4. j = n + 1 \/ j = n \/ j < n BY <1>1
  <2> QED BY <2>1, <2>2, <2>3, <2>4, Zenon
<1> QED BY <1>4, <1>6, <1>7, <1>8, <1>9 DEF Nested

\* A moved-from guard had none.
LEMMA ClaimsRemove ==
  ASSUME NEW s \in Seq(Guard), NEW i \in DOMAIN s, ~Live(s[i]), NEW r, r = RemoveAt(s, i)
  PROVE  /\ HoldsSpin(r) => HoldsSpin(s)
         /\ Masks(s) => Masks(r)
         /\ NothingSaved(s) => NothingSaved(r)
         /\ Nested(s) => Nested(r)
<1>1. /\ Len(s) \in Nat /\ i \in 1 .. Len(s) /\ Len(r) = Len(s) - 1
      /\ \A j \in 1 .. i - 1 : r[j] = s[j]
      /\ \A j \in i .. Len(s) - 1 : r[j] = s[j + 1]
  BY RemovedGuard, Lengths
<1>2. ~SpinGuard(s[i]) BY DEF SpinGuard
<1> DEFINE from(j) == IF j < i THEN j ELSE j + 1
<1>3. ASSUME NEW j \in 1 .. Len(r) PROVE from(j) \in 1 .. Len(s) /\ r[j] = s[from(j)]
  <2>1. CASE j < i BY <1>1, <2>1
  <2>2. CASE j >= i
    <3>1. j \in i .. Len(s) - 1 BY <1>1, <2>2
    <3> QED BY <1>1, <2>2, <3>1
  <2> QED BY <1>1, <2>1, <2>2
<1>4. \A j, m \in 1 .. Len(r) : j < m => from(j) < from(m) BY <1>1
<1> HIDE DEF from
<1>5. HoldsSpin(r) => HoldsSpin(s) BY <1>3 DEF HoldsSpin
<1>6. ASSUME Masks(s) PROVE Masks(r)
  <2>1. PICK j \in 1 .. Len(s) : SpinGuard(s[j]) /\ Saved(s[j]) BY <1>6 DEF Masks
  <2>2. CASE j < i BY <1>1, <2>1, <2>2 DEF Masks
  <2>3. CASE j > i
    <3>1. j - 1 \in i .. Len(s) - 1 /\ j - 1 \in 1 .. Len(r) BY <1>1, <2>3
    <3>2. r[j - 1] = s[j] BY <1>1, <3>1
    <3> QED BY <2>1, <3>1, <3>2 DEF Masks
  <2> QED BY <1>1, <1>2, <2>1, <2>2, <2>3
<1>7. NothingSaved(s) => NothingSaved(r) BY <1>3 DEF NothingSaved
<1>8. Nested(s) => Nested(r) BY <1>3, <1>4, SMTT(30) DEF Nested
<1> QED BY <1>5, <1>6, <1>7, <1>8

\* Per context: an interrupt state on its way into or out of a guard is that of
\* the outermost one, whoever holds or waits for a spin lock has interrupts
\* disabled, and a handler waits for nothing else.
ContextInv(x) ==
  /\ Nested(guards[x])
  /\ pc[x] # "run" /\ state[x] => ~HoldsSpin(guards[x])
  /\ HoldsSpin(guards[x]) \/ (pc[x] = "lock" /\ Spin(want[x])) => ~interrupts[x[1]]
  /\ pc[x] = "lock" /\ x[2] = "handler" => Spin(want[x])

\* Per processor: a handler runs with interrupts disabled, which is all it ever
\* saves, above a thread that has no claim on them; and it leaves nothing.
CpuInv(k) ==
  /\ ~state[<<k, "handler">>]
  /\ inHandler[k] =>
       /\ ~interrupts[k] /\ NothingSaved(guards[<<k, "handler">>])
       /\ ~HoldsSpin(guards[<<k, "thread">>])
       /\ ~(pc[<<k, "thread">>] = "lock" /\ Spin(want[<<k, "thread">>]))
  /\ ~inHandler[k] => guards[<<k, "handler">>] = <<>> /\ pc[<<k, "handler">>] = "run"

SpinInv == (\A x \in Contexts : ContextInv(x)) /\ (\A k \in Cpus : CpuInv(k))

\* Where guards of interrupt-disabling locks are not moved, a thread with
\* interrupts disabled has somewhere saved that they are to come back.
ThreadRestores(x) ==
  /\ ~inHandler[x[1]] /\ ~interrupts[x[1]] => (pc[x] # "run" /\ state[x]) \/ Masks(guards[x])
  /\ pc[x] = "restore" /\ ~state[x] => Masks(guards[x])
  /\ pc[x] = "lock" /\ state[x] => Spin(want[x])

RestoreInv == \A x \in Contexts : x[2] = "thread" => ThreadRestores(x)

\* What one context's step leaves alone: the other contexts, as long as no
\* interrupts are enabled for one that keeps them out.
LEMMA OthersKeep ==
  ASSUME Types, NEW x \in Contexts, NEW y \in Contexts, x # y, ContextInv(y),
         guards'[y] = guards[y], pc'[y] = pc[y], want'[y] = want[y], state'[y] = state[y],
         interrupts'[y[1]] = interrupts[y[1]] \/ ~interrupts'[y[1]]
  PROVE  ContextInv(y)'
BY ContextParts DEF ContextInv, Types

\* The same for the processors on which it does not run.
LEMMA OtherCpusKeep ==
  ASSUME Types, NEW k \in Cpus, CpuInv(k),
         inHandler'[k] = inHandler[k], interrupts'[k] = interrupts[k],
         \A c \in {"thread", "handler"} :
           LET y == <<k, c>> IN
           guards'[y] = guards[y] /\ pc'[y] = pc[y] /\ want'[y] = want[y] /\ state'[y] = state[y]
  PROVE  CpuInv(k)'
BY DEF CpuInv

\* On its own processor it is the running context that steps.
LEMMA OwnCpuKeeps ==
  ASSUME Types, NEW x \in Contexts, Running(x), CpuInv(x[1]),
         inHandler'[x[1]] = inHandler[x[1]],
         x[2] = "handler" => ~interrupts'[x[1]] /\ ~state'[x] /\ NothingSaved(guards'[x]),
         \A y \in Contexts \ {x} :
           guards'[y] = guards[y] /\ pc'[y] = pc[y] /\ want'[y] = want[y] /\ state'[y] = state[y]
  PROVE  CpuInv(x[1])'
<1> DEFINE k == x[1]
<1>1. k \in Cpus /\ (x = <<k, "thread">> \/ x = <<k, "handler">>) BY ContextParts
<1>2. CASE x = <<k, "thread">>
  <2>1. ~inHandler[k] BY <1>2 DEF Running
  <2>2. <<k, "handler">> \in Contexts \ {x} BY <1>1, <1>2 DEF Contexts
  <2> QED BY <2>1, <2>2, <1>1 DEF CpuInv
<1>3. CASE x = <<k, "handler">>
  <2>1. inHandler[k] BY <1>3 DEF Running
  <2>2. <<k, "thread">> \in Contexts \ {x} BY <1>1, <1>3 DEF Contexts
  <2> QED BY <1>3, <2>1, <2>2, <1>1 DEF CpuInv
<1> QED BY <1>1, <1>2, <1>3

\* What is left to show of an action of the context x.
LEMMA ContextStep ==
  ASSUME Types, SpinInv, NEW x \in Contexts, Running(x), inHandler' = inHandler,
         ContextInv(x)',
         \A k \in Cpus \ {x[1]} : interrupts'[k] = interrupts[k],
         x[2] = "handler" => ~interrupts'[x[1]] /\ ~state'[x] /\ NothingSaved(guards'[x]),
         \A y \in Contexts \ {x} :
           guards'[y] = guards[y] /\ pc'[y] = pc[y] /\ want'[y] = want[y] /\ state'[y] = state[y]
  PROVE  SpinInv'
<1>1. x[1] \in Cpus BY ContextParts
<1>2. ASSUME NEW y \in Contexts PROVE ContextInv(y)'
  <2>1. CASE y = x BY <2>1
  <2>2. CASE y # x /\ ~interrupts'[y[1]]
    BY <2>2, OthersKeep DEF SpinInv
  <2>3. CASE y # x /\ y[1] # x[1]
    <3>1. y[1] \in Cpus \ {x[1]} BY <2>3, ContextParts
    <3> QED BY <2>3, <3>1, OthersKeep DEF SpinInv
  <2>4. CASE y # x /\ y[1] = x[1] /\ interrupts'[y[1]]
    <3>1. x[2] = "thread" /\ y = <<x[1], "handler">> BY <2>4, ContextParts
    <3>2. ~inHandler[x[1]] BY <3>1 DEF Running
    <3>3. guards[y] = <<>> /\ pc[y] = "run" BY <1>1, <3>1, <3>2, ZenonT(30) DEF SpinInv, CpuInv
    <3>4. guards'[y] = <<>> /\ pc'[y] = "run" BY <2>4, <3>3
    <3> QED BY <3>4 DEF ContextInv, HoldsSpin, Nested
  <2> QED BY <2>1, <2>2, <2>3, <2>4
<1>3. CpuInv(x[1])' BY <1>1, OwnCpuKeeps DEF SpinInv
<1>4. ASSUME NEW k \in Cpus, k # x[1] PROVE CpuInv(k)'
  <2>1. \A c \in {"thread", "handler"} : <<k, c>> \in Contexts \ {x} BY <1>4 DEF Contexts
  <2> QED BY <1>4, <2>1, OtherCpusKeep DEF SpinInv
<1> QED BY <1>2, <1>3, <1>4 DEF SpinInv

\* No step lets an interrupt in on a processor that keeps them out.
LEMMA SpinInductive == Types /\ SpinInv /\ [Next]_vars => SpinInv'
<1> SUFFICES ASSUME Types, SpinInv, [Next]_vars PROVE SpinInv'
  OBVIOUS
<1>0. \A x \in Contexts : x[1] \in Cpus /\ ContextInv(x) /\ CpuInv(x[1])
  BY ContextParts DEF SpinInv
<1>H. ASSUME NEW x \in Contexts, Running(x), x[2] = "handler"
      PROVE  ~interrupts[x[1]] /\ ~state[x] /\ NothingSaved(guards[x])
  <2>1. x = <<x[1], "handler">> BY <1>H, ContextParts
  <2> QED BY <1>0, <1>H, <2>1, ZenonT(30) DEF Running, CpuInv
<1>1. ASSUME NEW x \in Contexts, NEW l \in Locks, LockInterrupt(x, l) PROVE SpinInv'
  <2>1. /\ Running(x) /\ inHandler' = inHandler /\ guards' = guards /\ pc[x] = "run"
        /\ pc'[x] = "lock" /\ want'[x] = l /\ state'[x] = interrupts[x[1]] /\ ~interrupts'[x[1]]
        /\ Spin(l)
    BY <1>0, <1>1 DEF LockInterrupt, Begin, Types, Spin
  <2>2. ContextInv(x)' BY <1>0, <2>1 DEF ContextInv
  <2> QED BY <1>0, <1>H, <1>1, <2>1, <2>2, ContextStep, ZenonT(30) DEF LockInterrupt, Begin, Types
<1>2. ASSUME NEW x \in Contexts, NEW l \in Locks, LockPlain(x, l) PROVE SpinInv'
  <2>1. /\ Running(x) /\ inHandler' = inHandler /\ guards' = guards /\ pc[x] = "run"
        /\ pc'[x] = "lock" /\ want'[x] = l /\ ~state'[x] /\ interrupts' = interrupts
        /\ ~Spin(l) /\ x[2] # "handler"
    BY <1>0, <1>2 DEF LockPlain, Begin, MayLock, Types, Spin
  <2>2. ContextInv(x)' BY <1>0, <2>1 DEF ContextInv
  <2> QED BY <1>0, <1>2, <2>1, <2>2, ContextStep, ZenonT(30) DEF LockPlain, Begin, Types
<1>3. ASSUME NEW x \in Contexts, Locked(x) PROVE SpinInv'
  <2> DEFINE g == Constructed(x)
  <2>1. /\ Running(x) /\ inHandler' = inHandler /\ interrupts' = interrupts
        /\ pc[x] = "lock" /\ pc'[x] = "run" /\ ~state'[x] /\ guards'[x] = Append(guards[x], g)
    BY <1>3 DEF Locked, Types
  <2>2. g \in Guard /\ guards[x] \in Seq(Guard) /\ (Saved(g) <=> state[x])
        /\ (SpinGuard(g) => Spin(want[x]))
    BY <2>1, ZenonT(30) DEF Types, Constructed, Guard, Saved, SpinGuard
  <2> HIDE DEF g
  <2>3. ContextInv(x)' BY <1>0, <2>1, <2>2, ClaimsAppend DEF ContextInv
  <2>4. x[2] = "handler" => NothingSaved(guards'[x]) BY <1>H, <2>1, <2>2, ClaimsAppend
  <2> QED BY <1>0, <1>H, <1>3, <2>1, <2>3, <2>4, ContextStep, ZenonT(30) DEF Locked, Types
<1>4. ASSUME NEW x \in Contexts, Move(x) PROVE SpinInv'
  <2>1. /\ Running(x) /\ pc[x] = "run" /\ pc' = pc /\ guards[x] # <<>> /\ Live(Last(guards[x]))
        /\ guards'[x] = Front(guards[x]) \o Moved(Last(guards[x])) /\ guards[x] \in Seq(Guard)
    BY <1>4 DEF Move, Types
  <2>2. /\ HoldsSpin(guards'[x]) => HoldsSpin(guards[x])
        /\ NothingSaved(guards[x]) => NothingSaved(guards'[x])
        /\ Nested(guards[x]) => Nested(guards'[x])
    BY <2>1, ClaimsMove, ZenonT(30)
  <2>3. ContextInv(x)' BY <1>0, <1>4, <2>1, <2>2 DEF ContextInv, Move
  <2> QED BY <1>0, <1>H, <1>4, <2>1, <2>2, <2>3, ContextStep DEF Move, Types
<1>5. ASSUME NEW x \in Contexts, UnlockPlain(x) PROVE SpinInv'
  <2>1. /\ Running(x) /\ pc[x] = "run" /\ pc' = pc /\ guards[x] # <<>>
        /\ guards'[x] = Front(guards[x]) /\ guards[x] \in Seq(Guard)
    BY <1>5 DEF UnlockPlain, Types
  <2>2. ContextInv(x)' BY <1>0, <1>5, <2>1, ClaimsFront, SMTT(30) DEF ContextInv, UnlockPlain
  <2> QED BY <1>0, <1>H, <1>5, <2>1, <2>2, ClaimsFront, ContextStep DEF UnlockPlain, Types
<1>6. ASSUME NEW x \in Contexts, UnlockInterrupt(x) PROVE SpinInv'
  <2>1. /\ Running(x) /\ pc[x] = "run" /\ pc'[x] = "restore" /\ guards[x] # <<>>
        /\ guards'[x] = Front(guards[x]) /\ guards[x] \in Seq(Guard)
        /\ state'[x] = Saved(Last(guards[x]))
    BY <1>6 DEF UnlockInterrupt, Types, Saved
  <2>2. ContextInv(x)' BY <1>0, <1>6, <2>1, ClaimsFront DEF ContextInv, UnlockInterrupt
  <2> QED BY <1>0, <1>H, <1>6, <2>1, <2>2, ClaimsFront, ContextStep DEF UnlockInterrupt, Types
<1>7. ASSUME NEW x \in Contexts, EnableInterrupt(x) PROVE SpinInv'
  <2>1. /\ Running(x) /\ pc[x] = "restore" /\ pc'[x] = "run" /\ guards' = guards
        /\ interrupts'[x[1]] = state[x] /\ ~state'[x]
    BY <1>0, <1>7 DEF EnableInterrupt, Types
  <2>2. ContextInv(x)' BY <1>0, <1>7, <2>1 DEF ContextInv, EnableInterrupt
  <2> QED BY <1>0, <1>H, <1>7, <2>1, <2>2, ContextStep, ZenonT(30) DEF EnableInterrupt, Types
<1>8. ASSUME NEW x \in Contexts, NEW i \in Int, DestroyMoved(x, i) PROVE SpinInv'
  <2>1. /\ Running(x) /\ pc[x] = "run" /\ pc' = pc /\ i \in DOMAIN guards[x] /\ ~Live(guards[x][i])
        /\ guards'[x] = RemoveAt(guards[x], i) /\ guards[x] \in Seq(Guard)
    BY <1>8 DEF DestroyMoved, Types
  <2>2. /\ HoldsSpin(guards'[x]) => HoldsSpin(guards[x])
        /\ NothingSaved(guards[x]) => NothingSaved(guards'[x])
        /\ Nested(guards[x]) => Nested(guards'[x])
    BY <2>1, ClaimsRemove
  <2>3. ContextInv(x)' BY <1>0, <1>8, <2>1, <2>2 DEF ContextInv, DestroyMoved
  <2> QED BY <1>0, <1>H, <1>8, <2>1, <2>2, <2>3, ContextStep DEF DestroyMoved, Types
<1>9. ASSUME NEW k \in Cpus, Interrupt(k) PROVE SpinInv'
  <2>1. /\ interrupts[k] /\ ~inHandler[k] /\ inHandler'[k] /\ ~interrupts'[k]
        /\ UNCHANGED <<guards, pc, want, state>>
        /\ \A c \in Cpus \ {k} : interrupts'[c] = interrupts[c] /\ inHandler'[c] = inHandler[c]
    BY <1>9 DEF Interrupt, Types
  <2>2. ASSUME NEW y \in Contexts PROVE ContextInv(y)'
    BY <1>0, <2>1 DEF ContextInv
  <2>3. <<k, "thread">> \in Contexts /\ <<k, "handler">> \in Contexts BY DEF Contexts
  <2>4. CpuInv(k)'
    <3>1. guards[<<k, "handler">>] = <<>> /\ pc[<<k, "handler">>] = "run"
      BY <2>1, ZenonT(30) DEF SpinInv, CpuInv
    <3>2. NothingSaved(guards[<<k, "handler">>]) BY <3>1 DEF NothingSaved
    <3>3. ~HoldsSpin(guards[<<k, "thread">>])
          /\ ~(pc[<<k, "thread">>] = "lock" /\ Spin(want[<<k, "thread">>]))
      BY <1>0, <2>1, <2>3 DEF ContextInv
    <3> QED BY <2>1, <3>1, <3>2, <3>3 DEF SpinInv, CpuInv
  <2>5. ASSUME NEW c \in Cpus, c # k PROVE CpuInv(c)'
    BY <2>1, <2>5, OtherCpusKeep DEF SpinInv
  <2> QED BY <2>2, <2>4, <2>5 DEF SpinInv
<1>10. ASSUME NEW k \in Cpus, HandlerReturns(k) PROVE SpinInv'
  <2> DEFINE t == <<k, "thread">>
             h == <<k, "handler">>
  <2>1. /\ inHandler[k] /\ ~inHandler'[k] /\ interrupts'[k] /\ pc[h] = "run" /\ guards[h] = <<>>
        /\ UNCHANGED <<guards, pc, want, state>>
        /\ \A c \in Cpus \ {k} : interrupts'[c] = interrupts[c] /\ inHandler'[c] = inHandler[c]
    BY <1>10 DEF HandlerReturns, Types
  <2>2. ~HoldsSpin(guards[t]) /\ ~(pc[t] = "lock" /\ Spin(want[t])) BY <2>1 DEF SpinInv, CpuInv
  <2>3. ~HoldsSpin(guards[h]) BY <2>1 DEF HoldsSpin
  <2>4. ASSUME NEW y \in Contexts PROVE ContextInv(y)'
    <3>1. CASE y[1] # k
      <4>1. y[1] \in Cpus \ {k} BY <1>0, <3>1
      <4> QED BY <1>0, <2>1, <4>1 DEF ContextInv
    <3>2. CASE y = t BY <1>0, <2>1, <2>2, <3>2 DEF ContextInv
    <3>3. CASE y = h BY <1>0, <2>1, <2>3, <3>3 DEF ContextInv
    <3> QED BY <3>1, <3>2, <3>3, ContextParts
  <2>5. CpuInv(k)' BY <2>1, ZenonT(30) DEF SpinInv, CpuInv
  <2>6. ASSUME NEW c \in Cpus, c # k PROVE CpuInv(c)'
    BY <2>1, <2>6, OtherCpusKeep DEF SpinInv
  <2> QED BY <2>4, <2>5, <2>6 DEF SpinInv
<1>11. CASE UNCHANGED vars BY <1>11 DEF vars, SpinInv, ContextInv, CpuInv
<1> QED
  BY <1>1, <1>2, <1>3, <1>4, <1>5, <1>6, <1>7, <1>8, <1>9, <1>10, <1>11 DEF Next, Construct, Destroy

\* What is left to show of an action of the context x: a handler's actions do
\* not concern a thread.
LEMMA RestoreStep ==
  ASSUME Types, RestoreInv, NEW x \in Contexts, Running(x), inHandler' = inHandler,
         x[2] = "thread" => ThreadRestores(x)',
         \A k \in Cpus \ {x[1]} : interrupts'[k] = interrupts[k],
         \A y \in Contexts \ {x} :
           guards'[y] = guards[y] /\ pc'[y] = pc[y] /\ want'[y] = want[y] /\ state'[y] = state[y]
  PROVE  RestoreInv'
<1> SUFFICES ASSUME NEW y \in Contexts, y[2] = "thread" PROVE ThreadRestores(y)'
  BY DEF RestoreInv
<1>1. CASE y = x BY <1>1
<1>2. CASE y # x /\ y[1] = x[1]
  <2>1. x[2] = "handler" BY <1>2, ContextParts
  <2>2. inHandler[y[1]] BY <1>2, <2>1 DEF Running
  <2> QED BY <1>2, <2>2 DEF RestoreInv, ThreadRestores
<1>3. CASE y # x /\ y[1] # x[1]
  <2>1. y[1] \in Cpus \ {x[1]} BY <1>3, ContextParts
  <2> QED BY <1>3, <2>1 DEF RestoreInv, ThreadRestores
<1> QED BY <1>1, <1>2, <1>3

\* ... and of one that only takes guards that mask no interrupts.
LEMMA RestoreSame ==
  ASSUME Types, RestoreInv, NEW x \in Contexts, Running(x),
         UNCHANGED <<inHandler, interrupts, pc, want, state>>,
         Masks(guards[x]) => Masks(guards'[x]),
         \A y \in Contexts \ {x} : guards'[y] = guards[y]
  PROVE  RestoreInv'
<1>1. x[2] = "thread" => ThreadRestores(x) BY DEF RestoreInv
<1>2. x[2] = "thread" => ThreadRestores(x)' BY <1>1, Zenon DEF ThreadRestores
<1> QED BY <1>2, RestoreStep, Zenon

\* No step loses the interrupt state to be restored, unless it moves it.
LEMMA RestoreInductive ==
  ASSUME "IOSimpleLockInterrupt" \notin Movable
  PROVE  Types /\ SpinInv /\ RestoreInv /\ [Next]_vars => RestoreInv'
<1> SUFFICES ASSUME Types, SpinInv, RestoreInv, [Next]_vars PROVE RestoreInv'
  OBVIOUS
<1>0. \A x \in Contexts : /\ x[1] \in Cpus /\ ContextInv(x) /\ guards[x] \in Seq(Guard)
                          /\ x[2] = "thread" => ThreadRestores(x)
                          /\ Running(x) /\ x[2] = "thread" => ~inHandler[x[1]]
  BY ContextParts DEF SpinInv, RestoreInv, Types, Running
<1>1. ASSUME NEW x \in Contexts, NEW l \in Locks, LockInterrupt(x, l) PROVE RestoreInv'
  <2>1. /\ Running(x) /\ inHandler' = inHandler /\ guards' = guards /\ pc[x] = "run"
        /\ pc'[x] = "lock" /\ want'[x] = l /\ state'[x] = interrupts[x[1]] /\ Spin(l)
    BY <1>0, <1>1 DEF LockInterrupt, Begin, Types, Spin
  <2>2. x[2] = "thread" => ThreadRestores(x)' BY <1>0, <2>1 DEF ThreadRestores
  <2> QED BY <1>0, <1>1, <2>1, <2>2, RestoreStep, ZenonT(30) DEF LockInterrupt, Begin, Types
<1>2. ASSUME NEW x \in Contexts, NEW l \in Locks, LockPlain(x, l) PROVE RestoreInv'
  <2>1. /\ Running(x) /\ inHandler' = inHandler /\ guards' = guards /\ pc[x] = "run"
        /\ pc'[x] = "lock" /\ ~state'[x] /\ interrupts' = interrupts
    BY <1>0, <1>2 DEF LockPlain, Begin, Types
  <2>2. x[2] = "thread" => ThreadRestores(x)' BY <1>0, <2>1 DEF ThreadRestores
  <2> QED BY <1>0, <1>2, <2>1, <2>2, RestoreStep, ZenonT(30) DEF LockPlain, Begin, Types
<1>3. ASSUME NEW x \in Contexts, Locked(x) PROVE RestoreInv'
  <2> DEFINE g == Constructed(x)
  <2>1. /\ Running(x) /\ inHandler' = inHandler /\ interrupts' = interrupts
        /\ pc[x] = "lock" /\ pc'[x] = "run" /\ guards'[x] = Append(guards[x], g)
    BY <1>3 DEF Locked, Types
  <2>2. g \in Guard /\ (Saved(g) <=> state[x]) /\ (SpinGuard(g) <=> Spin(want[x]))
    BY <2>1, LockGuardAssumption DEF Types, Constructed, Guard, Saved, SpinGuard, Live
  <2> HIDE DEF g
  <2>3. x[2] = "thread" => ThreadRestores(x)' BY <1>0, <2>1, <2>2, ClaimsAppend, SMTT(30) DEF ThreadRestores
  <2> QED BY <1>0, <1>3, <2>1, <2>3, RestoreStep, ZenonT(30) DEF Locked, Types
<1>4. ASSUME NEW x \in Contexts, Move(x) PROVE RestoreInv'
  <2>1. /\ Running(x) /\ pc[x] = "run" /\ pc' = pc /\ guards[x] # <<>> /\ Live(Last(guards[x]))
        /\ guards'[x] = Front(guards[x]) \o Moved(Last(guards[x]))
        /\ ~SpinGuard(Last(guards[x]))
    BY <1>4 DEF Move, Types, SpinGuard, Spin
  <2>2. Masks(guards[x]) => Masks(guards'[x]) BY <1>0, <2>1, ClaimsMove, ZenonT(30)
  <2>3. UNCHANGED <<inHandler, interrupts, pc, want, state>> BY <1>4, Zenon DEF Move
  <2>4. \A y \in Contexts \ {x} : guards'[y] = guards[y] BY <1>4 DEF Move, Types
  <2> QED BY <2>1, <2>2, <2>3, <2>4, RestoreSame, Zenon
<1>5. ASSUME NEW x \in Contexts, UnlockPlain(x) PROVE RestoreInv'
  <2>1. /\ Running(x) /\ pc[x] = "run" /\ pc' = pc /\ guards[x] # <<>>
        /\ guards'[x] = Front(guards[x]) /\ ~SpinGuard(Last(guards[x]))
    BY <1>5 DEF UnlockPlain, Types, SpinGuard, Spin
  <2>2. Masks(guards[x]) => Masks(guards'[x]) BY <1>0, <2>1, ClaimsFront, Zenon
  <2>3. UNCHANGED <<inHandler, interrupts, pc, want, state>> BY <1>5, Zenon DEF UnlockPlain
  <2>4. \A y \in Contexts \ {x} : guards'[y] = guards[y] BY <1>5 DEF UnlockPlain, Types
  <2> QED BY <2>1, <2>2, <2>3, <2>4, RestoreSame, Zenon
<1>6. ASSUME NEW x \in Contexts, UnlockInterrupt(x) PROVE RestoreInv'
  <2>1. /\ Running(x) /\ pc[x] = "run" /\ pc'[x] = "restore" /\ guards[x] # <<>>
        /\ guards'[x] = Front(guards[x]) /\ SpinGuard(Last(guards[x]))
        /\ state'[x] = Saved(Last(guards[x])) /\ inHandler' = inHandler /\ interrupts' = interrupts
    BY <1>6, SMTT(30) DEF UnlockInterrupt, Types, Saved, SpinGuard, Spin
  <2>2. /\ HoldsSpin(guards[x])
        /\ Masks(guards[x]) => Masks(guards'[x]) \/ state'[x]
    BY <1>0, <2>1, ClaimsFront, ZenonT(30)
  <2>3. x[2] = "thread" => ThreadRestores(x)'
    BY <1>0, <2>1, <2>2 DEF ThreadRestores, ContextInv
  <2>4. /\ inHandler' = inHandler /\ interrupts' = interrupts
        /\ \A y \in Contexts \ {x} :
             guards'[y] = guards[y] /\ pc'[y] = pc[y] /\ want'[y] = want[y] /\ state'[y] = state[y]
    BY <1>6 DEF UnlockInterrupt, Types
  <2> QED BY <2>1, <2>3, <2>4, RestoreStep
<1>7. ASSUME NEW x \in Contexts, EnableInterrupt(x) PROVE RestoreInv'
  <2>1. /\ Running(x) /\ pc[x] = "restore" /\ pc'[x] = "run" /\ guards' = guards
        /\ interrupts'[x[1]] = state[x]
    BY <1>0, <1>7 DEF EnableInterrupt, Types
  <2>2. x[2] = "thread" => ThreadRestores(x)' BY <1>0, <1>7, <2>1 DEF ThreadRestores
  <2> QED BY <1>0, <1>7, <2>1, <2>2, RestoreStep, ZenonT(30) DEF EnableInterrupt, Types
<1>8. ASSUME NEW x \in Contexts, NEW i \in Int, DestroyMoved(x, i) PROVE RestoreInv'
  <2>1. /\ Running(x) /\ pc[x] = "run" /\ pc' = pc /\ i \in DOMAIN guards[x] /\ ~Live(guards[x][i])
        /\ guards'[x] = RemoveAt(guards[x], i)
    BY <1>8 DEF DestroyMoved, Types
  <2>2. Masks(guards[x]) => Masks(guards'[x]) BY <1>0, <2>1, ClaimsRemove, Zenon
  <2>3. UNCHANGED <<inHandler, interrupts, pc, want, state>> BY <1>8, Zenon DEF DestroyMoved
  <2>4. \A y \in Contexts \ {x} : guards'[y] = guards[y] BY <1>8 DEF DestroyMoved, Types
  <2> QED BY <2>1, <2>2, <2>3, <2>4, RestoreSame, Zenon
<1>9. ASSUME NEW k \in Cpus, Interrupt(k) \/ HandlerReturns(k) PROVE RestoreInv'
  <2>1. /\ inHandler'[k] \/ interrupts'[k]
        /\ UNCHANGED <<guards, pc, want, state>>
        /\ \A c \in Cpus \ {k} : interrupts'[c] = interrupts[c] /\ inHandler'[c] = inHandler[c]
    BY <1>9 DEF Interrupt, HandlerReturns, Types
  <2> QED BY <1>0, <2>1 DEF RestoreInv, ThreadRestores
<1>10. CASE UNCHANGED vars BY <1>10 DEF vars, RestoreInv, ThreadRestores
<1> QED BY <1>1, <1>2, <1>3, <1>4, <1>5, <1>6, <1>7, <1>8, <1>9, <1>10 DEF Next, Construct, Destroy

\* The guards of a context stay within their bound: one more is constructed only
\* where there is room for it.
RoomInv ==
  \A x \in Contexts : /\ Len(guards[x]) <= MaxGuards
                      /\ pc[x] = "lock" => Len(guards[x]) < MaxGuards

LEMMA RoomInductive == Types /\ RoomInv /\ [Next]_vars => RoomInv'
<1> SUFFICES ASSUME Types, RoomInv, [Next]_vars PROVE RoomInv'
  OBVIOUS
<1>0. /\ MaxGuards \in Nat
      /\ \A x \in Contexts : /\ Len(guards[x]) \in Nat /\ guards[x] \in Seq(Guard)
                             /\ Len(guards[x]) <= MaxGuards
                             /\ pc[x] = "lock" => Len(guards[x]) < MaxGuards
  BY LockGuardAssumption, Lengths DEF Types, RoomInv
<1>1. ASSUME NEW x \in Contexts, \A y \in Contexts \ {x} : guards'[y] = guards[y] /\ pc'[y] = pc[y],
             /\ Len(guards'[x]) <= MaxGuards /\ (pc'[x] = "lock" => Len(guards'[x]) < MaxGuards)
      PROVE  RoomInv'
  BY <1>0, <1>1 DEF RoomInv
<1>2. ASSUME NEW x \in Contexts, NEW l \in Locks, LockInterrupt(x, l) \/ LockPlain(x, l) PROVE RoomInv'
  <2>1. /\ \A y \in Contexts \ {x} : guards'[y] = guards[y] /\ pc'[y] = pc[y]
        /\ guards'[x] = guards[x] /\ Len(guards[x]) < MaxGuards
    BY <1>2 DEF LockInterrupt, LockPlain, Begin, Types
  <2> QED BY <1>0, <1>1, <2>1
<1>3. ASSUME NEW x \in Contexts, Locked(x) PROVE RoomInv'
  <2>1. /\ \A y \in Contexts \ {x} : guards'[y] = guards[y] /\ pc'[y] = pc[y]
        /\ guards'[x] = Append(guards[x], Constructed(x)) /\ pc'[x] = "run" /\ pc[x] = "lock"
    BY <1>3 DEF Locked, Types
  <2>2. Len(guards'[x]) = Len(guards[x]) + 1 BY <1>0, <2>1
  <2> QED BY <1>0, <1>1, <2>1, <2>2
<1>4. ASSUME NEW x \in Contexts, Move(x) PROVE RoomInv'
  <2>1. /\ \A y \in Contexts \ {x} : guards'[y] = guards[y] /\ pc'[y] = pc[y]
        /\ guards'[x] = Front(guards[x]) \o Moved(Last(guards[x])) /\ pc'[x] = "run"
        /\ guards[x] # <<>> /\ Len(guards[x]) < MaxGuards
    BY <1>4 DEF Move, Types
  <2>2. Len(guards'[x]) = Len(guards[x]) + 1 BY <1>0, <2>1, MoveGuards, Zenon
  <2> QED BY <1>0, <1>1, <2>1, <2>2
<1>5. ASSUME NEW x \in Contexts, UnlockPlain(x) \/ UnlockInterrupt(x) PROVE RoomInv'
  <2>1. /\ \A y \in Contexts \ {x} : guards'[y] = guards[y] /\ pc'[y] = pc[y]
        /\ guards'[x] = Front(guards[x]) /\ pc'[x] \in {"run", "restore"} /\ guards[x] # <<>>
    BY <1>5 DEF UnlockPlain, UnlockInterrupt, Types
  <2>2. Len(guards'[x]) = Len(guards[x]) - 1 BY <1>0, <2>1, FrontGuards
  <2> QED BY <1>0, <1>1, <2>1, <2>2
<1>6. ASSUME NEW x \in Contexts, NEW i \in Int, DestroyMoved(x, i) PROVE RoomInv'
  <2>1. /\ \A y \in Contexts \ {x} : guards'[y] = guards[y] /\ pc'[y] = pc[y]
        /\ guards'[x] = RemoveAt(guards[x], i) /\ pc'[x] = "run" /\ i \in DOMAIN guards[x]
    BY <1>6 DEF DestroyMoved, Types
  <2>2. Len(guards'[x]) = Len(guards[x]) - 1 BY <1>0, <2>1, RemovedGuard
  <2> QED BY <1>0, <1>1, <2>1, <2>2
<1>7. ASSUME NEW x \in Contexts, EnableInterrupt(x) PROVE RoomInv'
  <2>1. /\ \A y \in Contexts \ {x} : guards'[y] = guards[y] /\ pc'[y] = pc[y]
        /\ guards'[x] = guards[x] /\ pc'[x] = "run"
    BY <1>7 DEF EnableInterrupt, Types
  <2> QED BY <1>0, <1>1, <2>1
<1>8. ASSUME UNCHANGED <<guards, pc>> PROVE RoomInv' BY <1>8 DEF RoomInv
<1>9. ASSUME NEW k \in Cpus, Interrupt(k) \/ HandlerReturns(k) PROVE RoomInv'
  BY <1>8, <1>9 DEF Interrupt, HandlerReturns
<1>10. CASE UNCHANGED vars BY <1>8, <1>10 DEF vars
<1> QED BY <1>2, <1>3, <1>4, <1>5, <1>6, <1>7, <1>9, <1>10 DEF Next, Construct, Destroy

----------------------------------------------------------------------------
\* How many guards of a sequence hold the lock l.
Holding(s, l) == {i \in 1 .. Len(s) : s[i].fLock = l}
Holds(s, l) == Cardinality(Holding(s, l))

\* What the counts of holds rest on: the cardinalities of finite sets.  It is
\* proved below, from the library.
Counting ==
  /\ \A S : IsFiniteSet(S) => Cardinality(S) \in Nat
  /\ \A n \in Int : IsFiniteSet(1 .. n)
  /\ \A S : \A T \in SUBSET S : IsFiniteSet(S) => IsFiniteSet(T)
  /\ \A S, x : IsFiniteSet(S) /\ x \notin S => Cardinality(S \cup {x}) = Cardinality(S) + 1
  /\ \A S, T : IsFiniteSet(S) /\ ExistsBijection(S, T) => Cardinality(T) = Cardinality(S)

LEMMA SizeMore ==
  ASSUME Counting, NEW S, NEW x, IsFiniteSet(S), x \notin S
  PROVE  Cardinality(S \cup {x}) = Cardinality(S) + 1
BY Zenon DEF Counting

LEMMA HoldingFinite ==
  ASSUME Counting, NEW s \in Seq(Guard), NEW l
  PROVE  IsFiniteSet(Holding(s, l)) /\ Holds(s, l) \in Nat
<1>1. Len(s) \in Int BY Lengths
<1>2. Holding(s, l) \subseteq 1 .. Len(s) BY DEF Holding
<1>3. IsFiniteSet(1 .. Len(s)) BY <1>1, Zenon DEF Counting
<1>4. IsFiniteSet(Holding(s, l)) BY <1>2, <1>3, Zenon DEF Counting
<1> QED BY <1>4, Zenon DEF Counting, Holds

LEMMA HoldsAppend ==
  ASSUME Counting, NEW s \in Seq(Guard), NEW g \in Guard, NEW l
  PROVE  Holds(Append(s, g), l) = Holds(s, l) + (IF g.fLock = l THEN 1 ELSE 0)
<1> DEFINE r == Append(s, g)
<1>1. /\ Len(s) \in Nat /\ Len(r) = Len(s) + 1 /\ r[Len(s) + 1] = g
      /\ \A i \in 1 .. Len(s) : r[i] = s[i]
  OBVIOUS
<1> HIDE DEF r
<1>2. IsFiniteSet(Holding(s, l)) /\ Holds(s, l) \in Nat BY HoldingFinite
<1>3. CASE g.fLock = l
  <2>1. Holding(r, l) = Holding(s, l) \cup {Len(s) + 1} BY <1>1, <1>3 DEF Holding
  <2>2. Len(s) + 1 \notin Holding(s, l) BY <1>1 DEF Holding
  <2> QED BY <1>2, <1>3, <2>1, <2>2, SizeMore, ZenonT(30) DEF Holds, r
<1>4. CASE g.fLock # l
  <2>1. Holding(r, l) = Holding(s, l) BY <1>1, <1>4 DEF Holding
  <2> QED BY <1>2, <1>4, <2>1 DEF Holds, r
<1> QED BY <1>3, <1>4

LEMMA HoldsFront ==
  ASSUME Counting, NEW s \in Seq(Guard), s # <<>>, NEW l
  PROVE  Holds(s, l) = Holds(Front(s), l) + (IF Last(s).fLock = l THEN 1 ELSE 0)
<1> DEFINE r == Front(s)
<1>1. /\ Len(s) \in Nat \ {0} /\ Len(r) = Len(s) - 1 /\ Last(s) = s[Len(s)]
      /\ \A i \in 1 .. Len(s) - 1 : r[i] = s[i]
  BY FrontGuards
<1>2. IsFiniteSet(Holding(r, l)) /\ Holds(r, l) \in Nat BY FrontGuards, HoldingFinite
<1> HIDE DEF r
<1>3. CASE Last(s).fLock = l
  <2>1. Holding(s, l) = Holding(r, l) \cup {Len(s)} BY <1>1, <1>3 DEF Holding
  <2>2. Len(s) \notin Holding(r, l) BY <1>1 DEF Holding
  <2> QED BY <1>2, <1>3, <2>1, <2>2, SizeMore, ZenonT(30) DEF Holds, r
<1>4. CASE Last(s).fLock # l
  <2>1. Holding(s, l) = Holding(r, l) BY <1>1, <1>4 DEF Holding
  <2> QED BY <1>2, <1>4, <2>1 DEF Holds, r
<1> QED BY <1>3, <1>4

\* A move is the end of one guard's hold and the beginning of another's.
LEMMA HoldsMove ==
  ASSUME Counting, NEW s \in Seq(Guard), s # <<>>, NEW l \in Locks
  PROVE  Holds(Front(s) \o Moved(Last(s)), l) = Holds(s, l)
<1> DEFINE r == Front(s) \o Moved(Last(s))
           f == Front(s)
           n == Len(s)
<1>1. /\ n \in Nat \ {0} /\ Last(s) = s[n] /\ s[n] \in Guard /\ f \in Seq(Guard)
      /\ Len(f) = n - 1 /\ \A i \in 1 .. n - 1 : f[i] = s[i]
  BY FrontGuards
<1>2. /\ Len(r) = n + 1 /\ \A i \in 1 .. n - 1 : r[i] = s[i]
      /\ r[n] = [s[n] EXCEPT !.fLock = NoLock]
      /\ r[n + 1] = [fLock |-> s[n].fLock, fMostlyUnusedInterruptState |-> FALSE]
  BY MoveGuards
<1>3. r[n].fLock # l /\ r[n + 1].fLock = s[n].fLock BY <1>1, <1>2, LockGuardAssumption DEF Guard
<1>4. Holds(s, l) = Holds(f, l) + (IF s[n].fLock = l THEN 1 ELSE 0) BY <1>1, HoldsFront
<1>5. IsFiniteSet(Holding(f, l)) /\ Holds(f, l) \in Nat BY <1>1, HoldingFinite
<1>6. Len(r) = n + 1 /\ \A i \in 1 .. n - 1 : r[i] = f[i] BY <1>1, <1>2
<1> HIDE DEF r, f, n
<1>7. CASE s[n].fLock = l
  <2>1. Holding(r, l) = Holding(f, l) \cup {n + 1} BY <1>1, <1>3, <1>6, <1>7 DEF Holding
  <2>2. n + 1 \notin Holding(f, l) BY <1>1 DEF Holding
  <2> QED BY <1>4, <1>5, <1>7, <2>1, <2>2, SizeMore, ZenonT(30) DEF Holds, r
<1>8. CASE s[n].fLock # l
  <2>1. Holding(r, l) = Holding(f, l) BY <1>1, <1>3, <1>6, <1>8 DEF Holding
  <2> QED BY <1>4, <1>5, <1>8, <2>1 DEF Holds, r
<1> QED BY <1>7, <1>8

LEMMA HoldsRemove ==
  ASSUME Counting, NEW s \in Seq(Guard), NEW i \in DOMAIN s, ~Live(s[i]), NEW l \in Locks
  PROVE  Holds(RemoveAt(s, i), l) = Holds(s, l)
<1> DEFINE r == RemoveAt(s, i)
           from == [j \in Holding(r, l) |-> IF j < i THEN j ELSE j + 1]
<1>1. /\ Len(s) \in Nat /\ i \in 1 .. Len(s) /\ Len(r) = Len(s) - 1
      /\ \A j \in 1 .. i - 1 : r[j] = s[j]
      /\ \A j \in i .. Len(s) - 1 : r[j] = s[j + 1]
      /\ r \in Seq(Guard)
  BY RemovedGuard, Lengths
<1>2. s[i].fLock # l BY LockGuardAssumption DEF Live
<1> HIDE DEF r
<1>3. ASSUME NEW j \in Holding(r, l) PROVE from[j] \in Holding(s, l)
  <2>1. CASE j < i BY <1>1, <1>3, <2>1 DEF Holding
  <2>2. CASE j >= i
    <3>1. j \in i .. Len(s) - 1 BY <1>1, <1>3, <2>2 DEF Holding
    <3> QED BY <1>1, <1>3, <2>2, <3>1 DEF Holding
  <2> QED BY <1>1, <1>3, <2>1, <2>2 DEF Holding
<1>4. \A j, m \in Holding(r, l) : from[j] = from[m] => j = m BY <1>1 DEF Holding
<1>5. ASSUME NEW j \in Holding(s, l) PROVE \E m \in Holding(r, l) : from[m] = j
  <2>1. j \in 1 .. Len(s) /\ s[j].fLock = l /\ j # i BY <1>2 DEF Holding
  <2>2. CASE j < i
    <3>1. j \in 1 .. i - 1 /\ j \in 1 .. Len(r) BY <1>1, <2>1, <2>2
    <3>2. r[j] = s[j] BY <1>1, <3>1
    <3>3. j \in Holding(r, l) BY <2>1, <3>1, <3>2 DEF Holding
    <3> QED BY <2>2, <3>3
  <2>3. CASE j > i
    <3>1. j - 1 \in i .. Len(s) - 1 /\ j - 1 \in 1 .. Len(r) BY <1>1, <2>1, <2>3
    <3>2. r[j - 1] = s[j] BY <1>1, <2>1, <3>1
    <3>3. j - 1 \in Holding(r, l) BY <2>1, <3>1, <3>2 DEF Holding
    <3>4. from[j - 1] = j BY <1>1, <2>1, <2>3, <3>3
    <3> QED BY <3>3, <3>4
  <2> QED BY <1>1, <2>1, <2>2, <2>3
<1>6. from \in [Holding(r, l) -> Holding(s, l)] BY <1>3
<1> HIDE DEF from
<1>7. from \in Bijection(Holding(r, l), Holding(s, l))
  BY <1>4, <1>5, <1>6 DEF Bijection, Injection, Surjection, IsInjective
<1>8. ExistsBijection(Holding(r, l), Holding(s, l)) BY <1>7 DEF ExistsBijection
<1>9. IsFiniteSet(Holding(r, l)) BY <1>1, HoldingFinite
<1> QED BY <1>8, <1>9, Zenon DEF Counting, Holds, r

\* A lock is held by the guards of its owner, as often as it was taken.
HeldOf(gs, l) == [x \in Contexts |-> Holds(gs[x], l)]
OwnInv == \A l \in Locks : HeldBy(HeldOf(guards, l), owner[l], depth[l])

LEMMA HeldOfContext == \A gs, l : \A x \in Contexts : HeldOf(gs, l)[x] = Holds(gs[x], l)
BY DEF HeldOf

\* A step that adds to the holds of no context.
LEMMA OwnSame ==
  ASSUME OwnInv, NEW l \in Locks, owner'[l] = owner[l], depth'[l] = depth[l],
         \A y \in Contexts : Holds(guards'[y], l) = Holds(guards[y], l)
  PROVE  HeldBy(HeldOf(guards', l), owner'[l], depth'[l])
<1>1. HeldBy(HeldOf(guards, l), owner[l], depth[l]) BY DEF OwnInv
<1>2. \A y \in Contexts : HeldOf(guards', l)[y] = HeldOf(guards, l)[y] BY HeldOfContext, Zenon
<1>3. HeldBy(HeldOf(guards', l), owner[l], depth[l]) BY <1>1, <1>2, HeldSame, Zenon
<1> QED BY <1>3, Zenon

\* Every hold stays with one guard.
LEMMA OwnLocked ==
  ASSUME Counting, Types, OwnInv, NEW x \in Contexts, Locked(x), NEW l \in Locks
  PROVE  HeldBy(HeldOf(guards', l), owner'[l], depth'[l])
<1>1. /\ want[x] \in Locks /\ Constructed(x) \in Guard /\ Constructed(x).fLock = want[x]
      /\ guards[x] \in Seq(Guard)
  BY SMT, Zenon DEF Locked, Types, Constructed, Guard
<1>2. /\ guards'[x] = Append(guards[x], Constructed(x))
      /\ \A y \in Contexts \ {x} : guards'[y] = guards[y]
  BY DEF Locked, Types
<1>3. \A y \in Contexts \ {x} : Holds(guards'[y], l) = Holds(guards[y], l) BY <1>2, Zenon
<1>4. Holds(guards'[x], l) = Holds(guards[x], l) + (IF want[x] = l THEN 1 ELSE 0)
  <2>1. Holds(Append(guards[x], Constructed(x)), l)
          = Holds(guards[x], l) + (IF Constructed(x).fLock = l THEN 1 ELSE 0)
    BY <1>1, HoldsAppend, Zenon
  <2> QED BY <1>1, <1>2, <2>1, Zenon
<1>5. CASE want[x] = l
  <2>1. owner[l] \in {NoOne, x} /\ owner'[l] = x /\ depth'[l] = depth[l] + 1 /\ depth[l] \in Int
    BY <1>5 DEF Locked, Free, Types
  <2>2. Holds(guards'[x], l) = Holds(guards[x], l) + 1 BY <1>4, <1>5, Zenon
  <2>3. /\ HeldOf(guards', l)[x] = HeldOf(guards, l)[x] + 1
        /\ \A y \in Contexts \ {x} : HeldOf(guards', l)[y] = HeldOf(guards, l)[y]
    <3>1. HeldOf(guards', l)[x] = Holds(guards'[x], l) BY HeldOfContext, Zenon
    <3>2. HeldOf(guards, l)[x] = Holds(guards[x], l) BY HeldOfContext, Zenon
    <3>3. HeldOf(guards', l)[x] = HeldOf(guards, l)[x] + 1 BY <2>2, <3>1, <3>2, Zenon
    <3>4. \A y \in Contexts \ {x} : HeldOf(guards', l)[y] = HeldOf(guards, l)[y]
      BY <1>3 DEF HeldOf
    <3> QED BY <3>3, <3>4, Zenon
  <2>4. HeldBy(HeldOf(guards, l), owner[l], depth[l]) BY DEF OwnInv
  <2>5. HeldBy(HeldOf(guards', l), x, depth[l] + 1) BY <2>1, <2>3, <2>4, HeldMore, Zenon
  <2> QED BY <2>1, <2>5, Zenon
<1>6. CASE want[x] # l
  <2>1. owner'[l] = owner[l] /\ depth'[l] = depth[l] BY <1>1, <1>6 DEF Locked, Types
  <2>2. Holds(guards[x], l) \in Nat BY <1>1, HoldingFinite, Zenon
  <2>3. Holds(guards[x], l) + 0 = Holds(guards[x], l) BY <2>2
  <2>4. Holds(guards'[x], l) = Holds(guards[x], l) BY <1>4, <1>6, <2>3, Zenon
  <2> QED BY <1>3, <2>1, <2>4, OwnSame, Zenon
<1> QED BY <1>5, <1>6, Zenon

LEMMA OwnReleased ==
  ASSUME Counting, Types, OwnInv, NEW x \in Contexts, guards[x] # <<>>, Live(Last(guards[x])),
         Release(Last(guards[x]).fLock), guards' = [guards EXCEPT ![x] = Front(@)], NEW l \in Locks
  PROVE  HeldBy(HeldOf(guards', l), owner'[l], depth'[l])
<1> DEFINE m == Last(guards[x]).fLock
<1>1. guards[x] \in Seq(Guard) BY DEF Types
<1>2. Last(guards[x]) \in Guard /\ Front(guards[x]) \in Seq(Guard) BY <1>1, FrontGuards
<1>3. m \in Locks BY <1>2 DEF Live, Guard
<1>4. guards'[x] = Front(guards[x]) /\ \A y \in Contexts \ {x} : guards'[y] = guards[y]
  BY DEF Types
<1>5. \A y \in Contexts \ {x} : Holds(guards'[y], l) = Holds(guards[y], l) BY <1>4, Zenon
<1>6. Holds(guards[x], l) = Holds(guards'[x], l) + (IF m = l THEN 1 ELSE 0)
  BY <1>1, <1>4, HoldsFront, Zenon
<1>7. Holds(guards'[x], l) \in Nat BY <1>2, <1>4, HoldingFinite, Zenon
<1>8. CASE m = l
  <2>1. Holds(guards[x], l) = Holds(guards'[x], l) + 1 BY <1>6, <1>8, Zenon
  <2>2. /\ HeldOf(guards, l)[x] = HeldOf(guards', l)[x] + 1 /\ HeldOf(guards', l)[x] \in Nat
        /\ \A y \in Contexts \ {x} : HeldOf(guards', l)[y] = HeldOf(guards, l)[y]
    <3>1. HeldOf(guards', l)[x] = Holds(guards'[x], l) BY HeldOfContext, Zenon
    <3>2. HeldOf(guards, l)[x] = Holds(guards[x], l) BY HeldOfContext, Zenon
    <3>3. HeldOf(guards, l)[x] = HeldOf(guards', l)[x] + 1 BY <2>1, <3>1, <3>2, Zenon
    <3>4. HeldOf(guards', l)[x] \in Nat BY <1>7, <3>1, Zenon
    <3>5. \A y \in Contexts \ {x} : HeldOf(guards', l)[y] = HeldOf(guards, l)[y]
      BY <1>5 DEF HeldOf
    <3> QED BY <3>3, <3>4, <3>5, Zenon
  <2>3. HeldBy(HeldOf(guards, l), owner[l], depth[l]) /\ depth[l] \in Int BY DEF OwnInv, Types
  <2>4. owner[l] = x /\ HeldBy(HeldOf(guards', l), IF depth[l] = 1 THEN NoOne ELSE x, depth[l] - 1)
    BY <2>2, <2>3, HeldLess, Zenon
  <2>5. depth'[l] = depth[l] - 1 /\ owner'[l] = IF depth[l] = 1 THEN NoOne ELSE owner[l]
    BY <1>8 DEF Release, Types
  <2> QED BY <2>4, <2>5, Zenon
<1>9. CASE m # l
  <2>1. owner'[l] = owner[l] /\ depth'[l] = depth[l] BY <1>3, <1>9 DEF Release, Types
  <2>2. Holds(guards'[x], l) + 0 = Holds(guards'[x], l) BY <1>7
  <2>3. Holds(guards'[x], l) = Holds(guards[x], l) BY <1>6, <1>9, <2>2, Zenon
  <2> QED BY <1>5, <2>1, <2>3, OwnSame, Zenon
<1> QED BY <1>8, <1>9, Zenon

LEMMA OwnInductive ==
  ASSUME Counting
  PROVE  Types /\ OwnInv /\ [Next]_vars => OwnInv'
<1> SUFFICES ASSUME Types, OwnInv, [Next]_vars, NEW l \in Locks
             PROVE  HeldBy(HeldOf(guards', l), owner'[l], depth'[l])
  BY DEF OwnInv
<1> DEFINE Goal == HeldBy(HeldOf(guards', l), owner'[l], depth'[l])
<1> HIDE DEF Goal
<1>1. ASSUME UNCHANGED <<owner, depth, guards>> PROVE Goal
  BY <1>1, OwnSame, Zenon DEF Goal
<1>2. ASSUME NEW x \in Contexts, UNCHANGED <<owner, depth>>,
             Holds(guards'[x], l) = Holds(guards[x], l),
             \A y \in Contexts \ {x} : guards'[y] = guards[y]
      PROVE  Goal
  <2>1. \A y \in Contexts : Holds(guards'[y], l) = Holds(guards[y], l) BY <1>2, Zenon
  <2> QED BY <1>2, <2>1, OwnSame, Zenon DEF Goal
<1>3. ASSUME NEW x \in Contexts, Locked(x) PROVE Goal BY <1>3, OwnLocked, Zenon DEF Goal
<1>4. ASSUME NEW x \in Contexts, UnlockPlain(x) \/ UnlockInterrupt(x) PROVE Goal
  <2>1. /\ guards[x] # <<>> /\ Live(Last(guards[x])) /\ Release(Last(guards[x]).fLock)
        /\ guards' = [guards EXCEPT ![x] = Front(@)]
    BY <1>4 DEF UnlockPlain, UnlockInterrupt
  <2> QED BY <2>1, OwnReleased, Zenon DEF Goal
<1>5. ASSUME NEW x \in Contexts, Move(x) PROVE Goal
  <2>1. guards[x] \in Seq(Guard) /\ guards[x] # <<>> BY <1>5 DEF Move, Types
  <2>2. /\ guards'[x] = Front(guards[x]) \o Moved(Last(guards[x])) /\ UNCHANGED <<owner, depth>>
        /\ \A y \in Contexts \ {x} : guards'[y] = guards[y]
    BY <1>5 DEF Move, Types
  <2>3. Holds(guards'[x], l) = Holds(guards[x], l) BY <2>1, <2>2, HoldsMove, Zenon
  <2> QED BY <1>2, <2>2, <2>3, Zenon
<1>6. ASSUME NEW x \in Contexts, NEW i \in Int, DestroyMoved(x, i) PROVE Goal
  <2>1. guards[x] \in Seq(Guard) /\ i \in DOMAIN guards[x] /\ ~Live(guards[x][i])
    BY <1>6 DEF DestroyMoved, Types
  <2>2. /\ guards'[x] = RemoveAt(guards[x], i) /\ UNCHANGED <<owner, depth>>
        /\ \A y \in Contexts \ {x} : guards'[y] = guards[y]
    BY <1>6 DEF DestroyMoved, Types
  <2>3. Holds(guards'[x], l) = Holds(guards[x], l) BY <2>1, <2>2, HoldsRemove, Zenon
  <2> QED BY <1>2, <2>2, <2>3, Zenon
<1>8. ASSUME NEW x \in Contexts, NEW m \in Locks, LockInterrupt(x, m) \/ LockPlain(x, m)
      PROVE  Goal
  BY <1>1, <1>8, Zenon DEF LockInterrupt, LockPlain, Begin
<1>9. ASSUME NEW x \in Contexts, EnableInterrupt(x) PROVE Goal
  BY <1>1, <1>9, Zenon DEF EnableInterrupt
<1>10. ASSUME NEW k \in Cpus, Interrupt(k) \/ HandlerReturns(k) PROVE Goal
  BY <1>1, <1>10, Zenon DEF Interrupt, HandlerReturns
<1>11. ASSUME UNCHANGED vars PROVE Goal BY <1>1, <1>11, Zenon DEF vars
<1>12. ASSUME NEW x \in Contexts, Construct(x) PROVE Goal BY <1>3, <1>8, <1>12, Zenon DEF Construct
<1>13. ASSUME NEW x \in Contexts, Destroy(x) PROVE Goal BY <1>4, <1>6, <1>9, <1>13 DEF Destroy
<1>14. Goal BY <1>5, <1>10, <1>11, <1>12, <1>13, Zenon DEF Next
<1> QED BY <1>14 DEF Goal

LockInv == Types /\ SpinInv /\ OwnInv

\* The library's theorems on finite sets say what was assumed of them.
INSTANCE FiniteSetTheorems

LEMMA CountingHolds == Counting
<1>1. \A S : IsFiniteSet(S) => Cardinality(S) \in Nat BY FS_CardinalityType
<1>2. \A n \in Int : IsFiniteSet(1 .. n) BY FS_Interval, 1 \in Int
<1>3. \A S : \A T \in SUBSET S : IsFiniteSet(S) => IsFiniteSet(T) BY FS_Subset
<1>4. \A S, x : IsFiniteSet(S) /\ x \notin S => Cardinality(S \cup {x}) = Cardinality(S) + 1
  BY FS_AddElement
<1>5. \A S, T : IsFiniteSet(S) /\ ExistsBijection(S, T) => Cardinality(T) = Cardinality(S)
  BY FS_Bijection
<1> QED BY <1>1, <1>2, <1>3, <1>4, <1>5 DEF Counting

LEMMA LockInvInitially == Init => LockInv
<1> SUFFICES ASSUME Init PROVE LockInv
  OBVIOUS
<1>1. Types BY DEF Init, Types
<1>2. \A x \in Contexts : guards[x] = <<>> /\ pc[x] = "run" /\ ~state[x] BY DEF Init
<1>3. \A k \in Cpus : <<k, "handler">> \in Contexts /\ ~inHandler[k] BY DEF Init, Contexts
<1>4. ~HoldsSpin(<<>>) /\ Nested(<<>>) BY DEF HoldsSpin, Nested
<1>5. SpinInv BY <1>2, <1>3, <1>4 DEF SpinInv, ContextInv, CpuInv
<1>6. \A l : Holds(<<>>, l) = 0
  <2>1. \A l : Holding(<<>>, l) = {} BY DEF Holding
  <2> QED BY <2>1, FS_EmptySet DEF Holds
<1>7. OwnInv
  <2>1. \A l \in Locks : owner[l] = NoOne /\ depth[l] = 0 BY DEF Init
  <2>2. \A x \in Contexts : x # NoOne BY LockGuardAssumption DEF Contexts
  <2>3. \A l : \A x \in Contexts : HeldOf(guards, l)[x] = 0
    BY <1>2, <1>6 DEF HeldOf
  <2> QED BY <2>1, <2>2, <2>3, Zenon DEF OwnInv, HeldBy
<1> QED BY <1>1, <1>5, <1>7 DEF LockInv

\* The strengthened invariant of the scoped locks holds in every reachable state.
THEOREM LockInvariant == Spec => []LockInv
<1>1. LockInv /\ [Next]_vars => LockInv'
  BY TypesInductive, SpinInductive, OwnInductive, CountingHolds DEF LockInv
<1>2. QED BY LockInvInitially, <1>1, PTL DEF Spec

\* With any number of processors, locks and guards, and whatever is moved, every
\* hold of a lock belongs to exactly one guard.
THEOREM HoldsBelongToGuards == Spec => []OneGuardPerHold
<1>1. LockInv => OneGuardPerHold
  <2> SUFFICES ASSUME LockInv, NEW l \in Locks
               PROVE  LET held == {x \in Contexts : \E i \in Guarded(x) : guards[x][i].fLock = l} IN
                      /\ held = (IF owner[l] = NoOne THEN {} ELSE {owner[l]})
                      /\ \A x \in held :
                           Cardinality({i \in Guarded(x) : guards[x][i].fLock = l}) = depth[l]
    BY DEF OneGuardPerHold
  <2>1. ASSUME NEW x \in Contexts
        PROVE  {i \in Guarded(x) : guards[x][i].fLock = l} = Holding(guards[x], l)
    <3>1. DOMAIN guards[x] = 1 .. Len(guards[x]) BY Lengths DEF LockInv, Types
    <3>2. l # NoLock BY LockGuardAssumption
    <3> QED BY <3>1, <3>2 DEF Guarded, Live, Holding
  <2>2. \A x \in Contexts : /\ IsFiniteSet(Holding(guards[x], l)) /\ x # NoOne
                            /\ Holds(guards[x], l) = IF owner[l] = x THEN depth[l] ELSE 0
    <3>1. \A x \in Contexts : guards[x] \in Seq(Guard) BY DEF LockInv, Types
    <3>2. HeldBy(HeldOf(guards, l), owner[l], depth[l]) BY DEF LockInv, OwnInv
    <3>3. \A x \in Contexts : IsFiniteSet(Holding(guards[x], l))
      BY <3>1, HoldingFinite, CountingHolds, Zenon
    <3> QED BY <3>2, <3>3, ContextsAreOwners, HeldOfContext, Zenon DEF HeldBy
  <2>3. \A x \in Contexts : Holding(guards[x], l) = {} <=> Holds(guards[x], l) = 0
    BY <2>2, FS_EmptySet DEF Holds
  <2>4. owner[l] \in Contexts \cup {NoOne} /\ (owner[l] # NoOne => depth[l] > 0) /\ depth[l] \in Int
    BY DEF LockInv, Types, OwnInv, HeldBy
  <2>5. \A x \in Contexts : (\E i \in Guarded(x) : guards[x][i].fLock = l) <=> owner[l] = x
    <3>1. \A x \in Contexts :
            (\E i \in Guarded(x) : guards[x][i].fLock = l) <=> Holding(guards[x], l) # {}
      BY <2>1
    <3>2. owner[l] # NoOne => depth[l] # 0 BY <2>4
    <3> QED BY <2>2, <2>3, <3>1, <3>2, Zenon
  <2>6. \A x \in Contexts : owner[l] = x =>
           Cardinality({i \in Guarded(x) : guards[x][i].fLock = l}) = depth[l]
    BY <2>1, <2>2, Zenon DEF Holds
  <2> QED BY <2>2, <2>4, <2>5, <2>6, ZenonT(30)
<1>2. QED BY <1>1, LockInvariant, PTL

\* With any number of processors, locks and guards, a handler never waits for
\* the thread it interrupted.
THEOREM HandlersDoNotDeadlock == Spec => []HandlerNeverWaitsForItsThread
<1>1. LockInv => HandlerNeverWaitsForItsThread
  <2> SUFFICES ASSUME LockInv, NEW k \in Cpus, inHandler[k], pc[<<k, "handler">>] = "lock",
                      owner[want[<<k, "handler">>]] = <<k, "thread">>
               PROVE  FALSE
    BY DEF HandlerNeverWaitsForItsThread
  <2> DEFINE t == <<k, "thread">>
             h == <<k, "handler">>
             l == want[h]
  <2>1. t \in Contexts /\ h \in Contexts /\ t # NoOne BY LockGuardAssumption DEF Contexts
  <2>2. l \in Locks /\ Spin(l) /\ guards[t] \in Seq(Guard)
    BY <2>1 DEF LockInv, Types, SpinInv, ContextInv
  <2>3. ~HoldsSpin(guards[t]) BY DEF LockInv, SpinInv, CpuInv
  <2>4. Holding(guards[t], l) = {}
    <3>1. l # NoLock BY <2>2, LockGuardAssumption
    <3> QED BY <2>2, <2>3, <3>1, ZenonT(30) DEF Holding, HoldsSpin, SpinGuard, Live
  <2>5. Holds(guards[t], l) = 0 BY <2>4, FS_EmptySet DEF Holds
  <2>6. owner[l] = t OBVIOUS
  <2> HIDE DEF t, l
  <2>7. Holds(guards[t], l) = depth[l] /\ depth[l] > 0
    <3>1. HeldBy(HeldOf(guards, l), owner[l], depth[l]) BY <2>2, Zenon DEF LockInv, OwnInv
    <3>2. HeldOf(guards, l)[t] = depth[l] /\ depth[l] > 0 BY <2>1, <2>6, <3>1, Zenon DEF HeldBy
    <3> QED BY <2>1, <3>2, HeldOfContext, Zenon
  <2> QED BY <2>5, <2>7
<1>2. QED BY <1>1, LockInvariant, PTL

\* With any number of processors, locks and guards, and guards of the other
\* three types moved at will, a thread without guards has its interrupts back.
\* The assumption is needed: the move constructor drops the saved state.
THEOREM InterruptsComeBack ==
  ASSUME "IOSimpleLockInterrupt" \notin Movable
  PROVE  Spec => []InterruptsRestored
<1>1. Init => RestoreInv BY ContextParts DEF Init, RestoreInv, ThreadRestores
<1>2. LockInv /\ RestoreInv /\ [Next]_vars => RestoreInv' BY RestoreInductive DEF LockInv
<1>3. LockInv /\ RestoreInv => InterruptsRestored
  <2> SUFFICES ASSUME LockInv, RestoreInv, NEW k \in Cpus, ~inHandler[k],
                      pc[<<k, "thread">>] = "run", Guarded(<<k, "thread">>) = {}
               PROVE  interrupts[k]
    BY DEF InterruptsRestored
  <2> DEFINE t == <<k, "thread">>
  <2>1. t \in Contexts /\ t[1] = k /\ t[2] = "thread" BY DEF Contexts
  <2>2. ~Masks(guards[t])
    <3>1. DOMAIN guards[t] = 1 .. Len(guards[t]) BY <2>1, Lengths DEF LockInv, Types
    <3> QED BY <3>1 DEF Masks, Guarded, SpinGuard
  <2> QED BY <2>1, <2>2 DEF RestoreInv, ThreadRestores
<1>4. QED BY <1>1, <1>2, <1>3, LockInvariant, PTL DEF Spec

\* Every variable stays within its type: no context has more guards than the bound
\* lets it construct, and no recursive lock is held more often than its owner has
\* guards, however guards are moved and destroyed.
THEOREM TypeCorrect == Spec => []TypeOK
<1>1. Init => RoomInv
  <2> SUFFICES ASSUME Init, NEW x \in Contexts PROVE Len(guards[x]) = 0 /\ pc[x] = "run"
    BY LockGuardAssumption DEF RoomInv
  <2>1. guards[x] = <<>> /\ pc[x] = "run" BY DEF Init
  <2> QED BY <2>1
<1>2. LockInv /\ RoomInv /\ [Next]_vars => RoomInv' BY RoomInductive DEF LockInv
<1>3. LockInv /\ RoomInv => TypeOK
  <2> SUFFICES ASSUME LockInv, RoomInv, NEW l \in Locks PROVE depth[l] \in 0 .. MaxGuards
    <3>1. ASSUME LockInv, RoomInv, \A l \in Locks : depth[l] \in 0 .. MaxGuards
          PROVE  depth \in [Locks -> 0 .. MaxGuards]
      BY <3>1 DEF LockInv, Types
    <3> QED BY <3>1 DEF TypeOK, LockInv, Types, RoomInv
  <2>1. depth[l] \in Int /\ MaxGuards \in Nat /\ owner[l] \in Contexts \cup {NoOne}
    BY LockGuardAssumption DEF LockInv, Types
  <2>2. CASE owner[l] = NoOne BY <2>1, <2>2 DEF LockInv, OwnInv, HeldBy
  <2>3. CASE owner[l] # NoOne
    <3> DEFINE s == guards[owner[l]]
    <3>1. s \in Seq(Guard) /\ Len(s) \in Nat /\ Len(s) <= MaxGuards
      BY <2>1, <2>3, Lengths DEF LockInv, Types, RoomInv
    <3>2. Holds(s, l) = depth[l]
      <4>1. HeldBy(HeldOf(guards, l), owner[l], depth[l]) BY Zenon DEF LockInv, OwnInv
      <4>2. owner[l] \in Contexts BY <2>1, <2>3, Zenon
      <4>3. HeldOf(guards, l)[owner[l]] = depth[l] BY <4>1, <4>2, Zenon DEF HeldBy
      <4> QED BY <4>2, <4>3, HeldOfContext, Zenon
    <3> HIDE DEF s
    <3>3. IsFiniteSet(1 .. Len(s)) /\ Cardinality(1 .. Len(s)) = Len(s)
      <4>1. 1 \in Int /\ Len(s) \in Int BY <3>1
      <4>2. /\ IsFiniteSet(1 .. Len(s))
            /\ Cardinality(1 .. Len(s)) = IF 1 > Len(s) THEN 0 ELSE Len(s) - 1 + 1
        BY <4>1, FS_Interval
      <4> QED BY <3>1, <4>2
    <3>4. Holding(s, l) \subseteq 1 .. Len(s) BY DEF Holding
    <3>5. Cardinality(Holding(s, l)) <= Cardinality(1 .. Len(s)) BY <3>3, <3>4, FS_Subset
    <3>6. Holds(s, l) \in Nat BY <3>1, CountingHolds, HoldingFinite
    <3> QED BY <2>1, <3>1, <3>2, <3>3, <3>5, <3>6 DEF Holds
  <2> QED BY <2>2, <2>3
<1>4. QED BY <1>1, <1>2, <1>3, LockInvariant, PTL DEF Spec
============================================================================
