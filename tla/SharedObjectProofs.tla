------------------------- MODULE SharedObjectProofs -------------------------
(*************************************************************************)
(* The counts of shared and weak pointers are exact for any number of    *)
(* threads, objects and pointers, when what holds the source of an       *)
(* assignment is not its target alone: every instruction of an           *)
(* assignment, a lock or a destruction preserves the invariant, and so   *)
(* does every call that begins one.                                      *)
(*************************************************************************)
EXTENDS SharedObjectThreads

USE ZenonT(8), SMTT(12)

\* The steps.  A store to a pointer that holds no count changes no count.
LEMMA StoreStep ==
  ASSUME Counting, Inv, NEW t \in Threads, code[t] # <<>>, NEW c, c = Head(code[t]),
         \/ c.do = "setme" /\ impl_setme(t, c.p, c.from)
         \/ c.do = "zero" /\ impl_zero(t, c.p)
  PROVE  Inv'
<1>1. Doing(t, c) BY HeadDoing
<1>2. Gone(t, c) BY HeadGone DEF impl_setme, impl_zero
<1>3. c.p \in All /\ MayTouch(t, c.p) /\ (c.do = "setme" => c.from \in All)
  BY <1>1, Kinds DEF Doing, Fits
<1>4. /\ \A v \in All : v # c.p => fControl'[v] = fControl[v]
      /\ c.do = "zero" => fControl'[c.p] = Null
      /\ c.do = "setme" => fControl'[c.p] = fControl[c.from]
      /\ UNCHANGED <<state, fUseCount, fWeakCount>>
  BY <1>3 DEF impl_setme, impl_zero, Inv, Types
<1>5. fControl' \in [All -> Objects \cup {Null}] BY <1>3 DEF impl_setme, impl_zero, Inv, Types
<1>6. Types' BY <1>2, <1>4, <1>5 DEF Gone, Inv, Types
<1>7. ThreadInv(t)' BY <1>1, <1>2, <1>4, PoppedThread DEF Doing, Gone
<1>8. /\ FreeOnce' /\ (HasLock(t)' => HasLock(t))
      /\ \A u \in Threads : \A o : Frees(u, o)' <=> Frees(u, o)
  BY <1>1, <1>2, FreesPopped DEF Doing, Gone
<1>9. (\A u \in Threads : ThreadInv(u)') /\ LockOnce'
  BY <1>2, <1>3, <1>4, <1>7, <1>8, ThreadsKept, KeepsLock DEF Gone
<1>10. ObjectInv' BY <1>3, <1>4, <1>8, ObjectsKept
<1>11. ~Holds(c.p) BY <1>1, <1>3, HoldsMine DEF Doing, NotYet
<1>12. ~Holds(c.p)'
  <2>1. Holds(c.p)' <=> fControl'[c.p] # Null /\ ~Pending(code'[t], c.p)
    BY <1>2, <1>3, <1>6, HoldsMine DEF Gone
  <2> QED BY <1>2, <1>4, <2>1 DEF Gone
<1>13. \A v \in All : v # c.p => (Holds(v)' <=> Holds(v))
  BY <1>2, <1>4, <1>6, HoldsKept DEF Gone, Inv
<1>14. UseCountsExact' /\ BlockOutlivesWeaks' BY <1>4, <1>11, <1>12, <1>13, CountsKept
<1> QED BY <1>6, <1>8, <1>9, <1>10, <1>14 DEF Inv

LEMMA UnlockStep ==
  ASSUME Counting, Inv, NEW t \in Threads, code[t] # <<>>, NEW c, c = Head(code[t]),
         c.do = "unlock", unlock(t)
  PROVE  Inv'
<1>1. Doing(t, c) /\ c.p = Null BY HeadDoing DEF Doing, Fits
<1>2. Gone(t, c) BY HeadGone DEF unlock
<1>3. UNCHANGED <<fControl, state, fUseCount, fWeakCount>> BY DEF unlock
<1>4. Types' BY <1>2, <1>3 DEF Gone, Inv, Types
<1>5. ThreadInv(t)' BY <1>2, OverThread DEF Gone
<1>6. /\ FreeOnce' /\ (HasLock(t)' => HasLock(t))
      /\ \A u \in Threads : \A o : Frees(u, o)' <=> Frees(u, o)
  BY <1>1, <1>2, FreesPopped DEF Doing, Gone
<1>7. (\A u \in Threads : ThreadInv(u)') /\ LockOnce'
  BY <1>2, <1>3, <1>5, <1>6, ThreadsKept, KeepsLock DEF Gone
<1>8. ObjectInv' BY <1>3, <1>6, ObjectsKept
<1>9. \A v \in All : Holds(v)' <=> Holds(v)
  <2>1. \A v \in All : v # c.p BY <1>1, Kinds
  <2> QED BY <1>2, <1>3, <1>4, <2>1, HoldsKept DEF Gone, Inv
<1>10. UseCountsExact' /\ BlockOutlivesWeaks' BY <1>3, <1>9, CountsKept
<1> QED BY <1>4, <1>6, <1>7, <1>8, <1>10 DEF Inv

\* Moving a pointer moves its count.
LEMMA TakeStep ==
  ASSUME Counting, Inv, NEW t \in Threads, code[t] # <<>>, NEW c, c = Head(code[t]),
         c.do = "take", take(t, c.p, c.from)
  PROVE  Inv'
<1> DEFINE p == c.p
           q == c.from
<1>1. Doing(t, c) BY HeadDoing
<1>2. Gone(t, c) BY HeadGone DEF take
<1>3. /\ p \in All /\ q \in All /\ p # q /\ MayTouch(t, p) /\ MayTouch(t, q) /\ p # Null
      /\ (p \in Pointers /\ q \in Pointers) \/ (p \in Weaks /\ q \in Weaks)
  BY <1>1, Kinds DEF Doing, Fits
<1> HIDE DEF p, q
<1>4. /\ \A v \in All : v # p /\ v # q => fControl'[v] = fControl[v]
      /\ fControl'[p] = fControl[q] /\ fControl'[q] = Null
      /\ UNCHANGED <<state, fUseCount, fWeakCount>>
      /\ fControl' \in [All -> Objects \cup {Null}]
  BY <1>3, ZenonT(20) DEF take, Inv, Types, p, q
<1>5. Types' BY <1>2, <1>4 DEF Gone, Inv, Types
<1>6. ThreadInv(t)' BY <1>2, OverThread DEF Gone
<1>7. /\ FreeOnce' /\ (HasLock(t)' => HasLock(t))
      /\ \A u \in Threads : \A o : Frees(u, o)' <=> Frees(u, o)
  BY <1>1, <1>2, FreesPopped DEF Doing, Gone
<1>8. (\A u \in Threads : ThreadInv(u)') /\ LockOnce'
  BY <1>2, <1>3, <1>4, <1>6, <1>7, ThreadsKept, KeepsLock DEF Gone
<1>9. ObjectInv' BY <1>3, <1>4, <1>7, ObjectsKept
<1>10. /\ ~Holds(p) /\ (Holds(q) <=> fControl[q] # Null)
  <2>1. Pending(code[t], p) BY <1>1 DEF Doing, NotYet, p
  <2>2. ~Pending(code[t], q) BY <1>1, <1>3, Kinds DEF Doing, q
  <2>3. Holds(p) <=> Points(p) /\ ~Pending(code[t], p) BY <1>3, HoldsMine
  <2>4. Holds(q) <=> Points(q) /\ ~Pending(code[t], q) BY <1>3, HoldsMine
  <2> QED BY <2>1, <2>2, <2>3, <2>4 DEF Points
<1>11. ~Holds(q)' /\ (Holds(p)' <=> fControl[q] # Null)
  <2>1. ~Pending(code'[t], p) BY <1>2, <1>3 DEF Gone, p
  <2>2. Holds(p)' <=> fControl'[p] # Null /\ ~Pending(code'[t], p)
    BY <1>2, <1>3, <1>5, HoldsMine DEF Gone
  <2>3. Holds(q)' <=> fControl'[q] # Null /\ ~Pending(code'[t], q)
    BY <1>2, <1>3, <1>5, HoldsMine DEF Gone
  <2> QED BY <1>4, <2>1, <2>2, <2>3
<1>12. \A v \in All : v # p /\ v # q => (Holds(v)' <=> Holds(v))
  BY <1>2, <1>4, <1>5, HoldsKept DEF Gone, Inv, p
<1>13. ASSUME NEW o \in Objects
       PROVE  /\ Cardinality(Owners(o))' = Cardinality(Owners(o))
              /\ Cardinality(Watchers(o))' = Cardinality(Watchers(o))
  <2>1. o # Null /\ Pointers \subseteq All /\ Weaks \subseteq All /\ Pointers \cap Weaks = {} BY Kinds
  <2>2. IsFiniteSet(Owners(o)) /\ IsFiniteSet(Watchers(o)) BY FiniteHolders
  <2>3. \A v : v # p /\ v # q => /\ v \in Owners(o)' <=> v \in Owners(o)
                                 /\ v \in Watchers(o)' <=> v \in Watchers(o)
    BY <1>4, <1>12, <2>1 DEF Owners, Watchers
  <2>4. /\ p \notin Owners(o) /\ p \notin Watchers(o) /\ q \notin Owners(o)' /\ q \notin Watchers(o)'
        /\ p \in Owners(o)' <=> q \in Owners(o)
        /\ p \in Watchers(o)' <=> q \in Watchers(o)
    BY <1>3, <1>4, <1>10, <1>11, <2>1 DEF Owners, Watchers
  <2>5. /\ Cardinality(Owners(o)) \in Nat /\ Cardinality(Watchers(o)) \in Nat
        /\ Cardinality(Owners(o)') = Cardinality(Owners(o)) - One(p \in Owners(o)) - One(q \in Owners(o))
                                       + One(p \in Owners(o)') + One(q \in Owners(o)')
        /\ Cardinality(Watchers(o)') = Cardinality(Watchers(o)) - One(p \in Watchers(o))
             - One(q \in Watchers(o)) + One(p \in Watchers(o)') + One(q \in Watchers(o)')
    BY <1>3, <2>2, <2>3, CardTwo
  <2> QED BY <2>4, <2>5 DEF One
<1>14. UseCountsExact' BY <1>4, <1>13 DEF Inv, UseCountsExact
<1>15. BlockOutlivesWeaks' BY <1>4, <1>13 DEF Inv, BlockOutlivesWeaks
<1> QED BY <1>5, <1>7, <1>8, <1>9, <1>14, <1>15 DEF Inv

\* The counts, when the count of one pointer may change.
LEMMA OneChanged ==
  ASSUME Counting, NEW p \in All,
         \A v \in All : v # p => (Holds(v)' <=> Holds(v)) /\ fControl'[v] = fControl[v],
         NEW o \in Objects
  PROVE  /\ Cardinality(Owners(o)) \in Nat /\ Cardinality(Watchers(o)) \in Nat
         /\ Cardinality(Owners(o))' = Cardinality(Owners(o)) - One(p \in Owners(o)) + One(p \in Owners(o)')
         /\ Cardinality(Watchers(o))' =
              Cardinality(Watchers(o)) - One(p \in Watchers(o)) + One(p \in Watchers(o)')
         /\ p \in Owners(o) => Cardinality(Owners(o)) >= 1
         /\ p \in Watchers(o) => Cardinality(Watchers(o)) >= 1
<1>1. IsFiniteSet(Owners(o)) /\ IsFiniteSet(Watchers(o)) BY FiniteHolders
<1>2. \A v : v # p => /\ v \in Owners(o)' <=> v \in Owners(o)
                      /\ v \in Watchers(o)' <=> v \in Watchers(o)
  BY DEF Owners, Watchers, All
<1> DEFINE A == Owners(o)
           B == Owners(o)'
           C == Watchers(o)
           D == Watchers(o)'
<1>3. /\ IsFiniteSet(A) /\ IsFiniteSet(C) /\ \A v : v # p => (v \in B <=> v \in A)
      /\ \A v : v # p => (v \in D <=> v \in C)
  BY <1>1, <1>2
<1> HIDE DEF A, B, C, D
<1>4. /\ Cardinality(A) \in Nat /\ Cardinality(B) = Cardinality(A) - One(p \in A) + One(p \in B)
      /\ p \in A => Cardinality(A) >= 1
  BY <1>3, CardOne
<1>5. /\ Cardinality(C) \in Nat /\ Cardinality(D) = Cardinality(C) - One(p \in C) + One(p \in D)
      /\ p \in C => Cardinality(C) >= 1
  BY <1>3, CardOne
<1> QED BY <1>4, <1>5 DEF A, B, C, D

\* The source of an assignment has its count.
LEMMA SourceHolds ==
  ASSUME Counting, Inv, NEW t \in Threads, NEW q \in All, Source(t, q), fControl[q] # Null
  PROVE  Holds(q)
<1>1. ~Pending(code[t], q) BY UnmentionedNotPending DEF Source, Mentions
<1>2. MayTouch(t, q) BY AccessMayTouch DEF Source
<1> QED BY <1>1, <1>2, HoldsMine DEF Points

LEMMA WatchedBlock ==
  ASSUME Counting, Inv, NEW q \in All, Holds(q)
  PROVE  fControl[q] \in Objects /\ state[fControl[q]] # "none" /\ fWeakCount[fControl[q]] > 0
<1> DEFINE o == fControl[q]
<1>1. o \in Objects BY DEF Inv, Types, Holds, Points
<1>2. CASE q \in Pointers
  <2>1. state[o] = "live" BY <1>2, HeldIsLive
  <2> QED BY <1>1, <2>1 DEF Inv, ObjectInv, Types
<1>3. CASE q \in Weaks
  <2>1. q \in Watchers(o) BY <1>3 DEF Watchers
  <2>2. IsFiniteSet(Watchers(o)) BY FiniteHolders
  <2>3. Cardinality(Watchers(o)) \in Nat /\ Cardinality(Watchers(o)) # 0
    BY <2>1, <2>2, SizeOfNone, SizeIsNat
  <2>4. fWeakCount[o] = Cardinality(Watchers(o)) + (IF state[o] \in {"live", "dying"} THEN 1 ELSE 0)
    BY <1>1 DEF Inv, BlockOutlivesWeaks
  <2>5. fWeakCount[o] > 0 BY <2>3, <2>4
  <2> QED BY <1>1, <2>5 DEF Inv, ObjectInv, Types
<1> QED BY <1>2, <1>3 DEF All

\* What the last instruction of a call leaves as it is.
LEMMA LastKeeps ==
  ASSUME Counting, Inv, NEW t \in Threads, code[t] # <<>>, NEW c, c = Head(code[t]), Doing(t, c), Gone(t, c),
         c.do \in {"retain", "retain_weak", "lock"}, Types',
         \A v \in All : v # c.p => fControl'[v] = fControl[v]
  PROVE  /\ c.p \in All /\ (\A u \in Threads : ThreadInv(u)') /\ LockOnce' /\ FreeOnce'
         /\ \A u \in Threads : \A o : Frees(u, o)' <=> Frees(u, o)
         /\ Holds(c.p) <=> c.do = "lock" /\ Points(c.p)
         /\ Holds(c.p)' <=> fControl'[c.p] # Null
         /\ \A v \in All : v # c.p => (Holds(v)' <=> Holds(v))
<1>1. c.p \in All /\ MayTouch(t, c.p) /\ c.p # Null BY Kinds DEF Doing
<1>2. ThreadInv(t)' BY OverThread DEF Gone
<1>3. /\ FreeOnce' /\ (HasLock(t)' => HasLock(t))
      /\ \A u \in Threads : \A o : Frees(u, o)' <=> Frees(u, o)
  <2>1. c = code[t][1] /\ Popped(code[t], code'[t]) /\ \A u \in Threads : u # t => code'[u] = code[u]
    BY Zenon DEF Doing, Gone
  <2> QED BY <2>1, FreesPopped
<1>4. (\A u \in Threads : ThreadInv(u)') /\ LockOnce'
  BY <1>1, <1>2, <1>3, ThreadsKept, KeepsLock DEF Gone
<1>5. Holds(c.p) <=> Points(c.p) /\ ~Pending(code[t], c.p) BY <1>1, HoldsMine
<1>6. Pending(code[t], c.p) <=> c.do # "lock" BY DEF Doing, NotYet
<1>7. Holds(c.p)' <=> fControl'[c.p] # Null /\ ~Pending(code'[t], c.p)
  BY <1>1, HoldsMine DEF Gone
<1>8. ~Pending(code'[t], c.p) BY <1>1 DEF Gone
<1>9. \A v \in All : v # c.p => (Holds(v)' <=> Holds(v)) BY HoldsKept DEF Gone, Inv
<1> QED BY <1>1, <1>3, <1>4, <1>5, <1>6, <1>7, <1>8, <1>9

\* A retain finds the object alive, because the source still holds it.
LEMMA RetainStep ==
  ASSUME Counting, Inv, NEW t \in Threads, code[t] # <<>>, NEW c, c = Head(code[t]),
         c.do = "retain", impl_saferetain(t, c.p)
  PROVE  Inv'
<1> DEFINE p == c.p
           x == fControl[p]
<1>1. Doing(t, c) BY HeadDoing
<1>2. Gone(t, c) BY HeadGone DEF impl_saferetain
<1>3. p \in Pointers /\ p \in All /\ p \notin Weaks BY <1>1, Kinds DEF Doing, Fits
<1>4. UNCHANGED <<fControl, state, fWeakCount>> BY DEF impl_saferetain
<1>5. ASSUME x # Null
      PROVE  /\ x \in Objects /\ state[x] = "live" /\ fUseCount[x] \in Nat /\ fUseCount[x] > 0
             /\ fUseCount' = [fUseCount EXCEPT ![x] = @ + 1]
  <2>1. PICK q \in All : Source(t, q) /\ fControl[q] = x /\ q \in Pointers
    BY <1>1, <1>5 DEF Doing, Begun
  <2>2. Holds(q) BY <1>5, <2>1, SourceHolds
  <2>3. x \in Objects /\ state[x] = "live" /\ fUseCount[x] > 0 BY <2>1, <2>2, HeldIsLive
  <2>4. fUseCount' = [fUseCount EXCEPT ![x] = @ + 1]
    BY <1>5, <2>3 DEF impl_saferetain, Points, retain_shared, Inv, Types
  <2> QED BY <2>3, <2>4 DEF Inv, Types
<1>6. x = Null => fUseCount' = fUseCount BY DEF impl_saferetain, Points
<1>7. Types' BY <1>2, <1>4, <1>5, <1>6 DEF Gone, Inv, Types
<1>8. /\ (\A u \in Threads : ThreadInv(u)') /\ LockOnce' /\ FreeOnce'
      /\ \A u \in Threads : \A o : Frees(u, o)' <=> Frees(u, o)
      /\ ~Holds(p) /\ (Holds(p)' <=> x # Null)
      /\ \A v \in All : v # p => (Holds(v)' <=> Holds(v))
  BY <1>1, <1>2, <1>4, <1>7, LastKeeps
<1>9. ObjectInv' BY <1>4, <1>8, ObjectsKept
<1>10. ASSUME NEW o \in Objects
       PROVE  /\ fUseCount'[o] = Cardinality(Owners(o))' /\ (state[o] = "live" <=> fUseCount'[o] > 0)
              /\ Cardinality(Watchers(o))' = Cardinality(Watchers(o))
  <2>0. o # Null BY Kinds
  <2>1. /\ Cardinality(Owners(o)) \in Nat /\ Cardinality(Watchers(o)) \in Nat
        /\ Cardinality(Owners(o))' = Cardinality(Owners(o)) - One(p \in Owners(o)) + One(p \in Owners(o)')
        /\ Cardinality(Watchers(o))' =
              Cardinality(Watchers(o)) - One(p \in Watchers(o)) + One(p \in Watchers(o)')
    BY <1>3, <1>4, <1>8, OneChanged
  <2>2. /\ p \notin Owners(o) /\ p \notin Watchers(o) /\ p \notin Watchers(o)'
        /\ p \in Owners(o)' <=> x = o
    BY <1>3, <1>4, <1>8, <2>0 DEF Owners, Watchers
  <2>3. fUseCount'[o] = fUseCount[o] + One(x = o) /\ fUseCount[o] \in Nat
    BY <1>5, <1>6, <2>0 DEF One, Inv, Types
  <2>4. fUseCount[o] = Cardinality(Owners(o)) /\ (state[o] = "live" <=> fUseCount[o] > 0)
    BY DEF Inv, UseCountsExact
  <2>5. x = o => state[o] = "live" BY <1>5, <2>0
  <2> HIDE DEF x
  <2> QED BY <2>1, <2>2, <2>3, <2>4, <2>5 DEF One
<1>11. UseCountsExact' BY <1>4, <1>10 DEF UseCountsExact
<1>12. BlockOutlivesWeaks' BY <1>4, <1>10 DEF Inv, BlockOutlivesWeaks
<1> QED BY <1>7, <1>8, <1>9, <1>11, <1>12 DEF Inv

\* And a block is still there when a weak pointer takes its count.
LEMMA RetainWeakStep ==
  ASSUME Counting, Inv, NEW t \in Threads, code[t] # <<>>, NEW c, c = Head(code[t]),
         c.do = "retain_weak", weak_saferetain(t, c.p)
  PROVE  Inv'
<1> DEFINE p == c.p
           x == fControl[p]
<1>1. Doing(t, c) BY HeadDoing
<1>2. Gone(t, c) BY HeadGone DEF weak_saferetain
<1>3. p \in Weaks /\ p \in All /\ p \notin Pointers BY <1>1, Kinds DEF Doing, Fits
<1>4. UNCHANGED <<fControl, state, fUseCount>> BY DEF weak_saferetain
<1>5. ASSUME x # Null
      PROVE  /\ x \in Objects /\ state[x] # "none" /\ fWeakCount[x] \in Nat /\ fWeakCount[x] > 0
             /\ fWeakCount' = [fWeakCount EXCEPT ![x] = @ + 1]
  <2>1. PICK q \in All : Source(t, q) /\ fControl[q] = x BY <1>1, <1>5 DEF Doing, Begun
  <2>2. Holds(q) BY <1>5, <2>1, SourceHolds
  <2>3. x \in Objects /\ state[x] # "none" /\ fWeakCount[x] > 0 BY <2>1, <2>2, WatchedBlock
  <2>4. fWeakCount' = [fWeakCount EXCEPT ![x] = @ + 1] BY <1>5 DEF weak_saferetain, Points
  <2> QED BY <2>3, <2>4 DEF Inv, Types
<1>6. x = Null => fWeakCount' = fWeakCount BY DEF weak_saferetain, Points
<1>7. Types'
  <2>1. fWeakCount' \in [Objects -> Nat] BY <1>5, <1>6 DEF Inv, Types
  <2> QED BY <1>2, <1>4, <2>1 DEF Gone, Inv, Types
<1>8. /\ (\A u \in Threads : ThreadInv(u)') /\ LockOnce' /\ FreeOnce'
      /\ \A u \in Threads : \A o : Frees(u, o)' <=> Frees(u, o)
      /\ ~Holds(p) /\ (Holds(p)' <=> x # Null)
      /\ \A v \in All : v # p => (Holds(v)' <=> Holds(v))
  BY <1>1, <1>2, <1>4, <1>7, LastKeeps
<1>9. \A o \in Objects : /\ fWeakCount'[o] = fWeakCount[o] + One(x = o)
                         /\ fWeakCount[o] \in Nat /\ o # Null
                         /\ x = o => fWeakCount[o] > 0
  BY <1>5, <1>6, Kinds DEF One, Inv, Types
<1>10. ObjectInv'
  <2>1. \A o \in Objects : fWeakCount'[o] = 0 <=> fWeakCount[o] = 0
    <3> SUFFICES ASSUME NEW o \in Objects PROVE fWeakCount'[o] = 0 <=> fWeakCount[o] = 0 OBVIOUS
    <3> HIDE DEF x
    <3>1. /\ fWeakCount'[o] = fWeakCount[o] + One(x = o)
          /\ fWeakCount[o] \in Nat /\ (x = o => fWeakCount[o] > 0)
      BY <1>9
    <3>2. One(x = o) \in Nat /\ (x # o => One(x = o) = 0) BY DEF One
    <3> QED BY <3>1, <3>2
  <2> QED BY <1>4, <1>8, <2>1 DEF Inv, ObjectInv
<1>11. ASSUME NEW o \in Objects
       PROVE  /\ fWeakCount'[o] = Cardinality(Watchers(o))' + (IF state[o] \in {"live", "dying"} THEN 1 ELSE 0)
              /\ Cardinality(Owners(o))' = Cardinality(Owners(o))
  <2>1. /\ Cardinality(Owners(o)) \in Nat /\ Cardinality(Watchers(o)) \in Nat
        /\ Cardinality(Owners(o))' = Cardinality(Owners(o)) - One(p \in Owners(o)) + One(p \in Owners(o)')
        /\ Cardinality(Watchers(o))' =
              Cardinality(Watchers(o)) - One(p \in Watchers(o)) + One(p \in Watchers(o)')
    BY <1>3, <1>4, <1>8, OneChanged
  <2>2. /\ p \notin Watchers(o) /\ p \notin Owners(o) /\ p \notin Owners(o)'
        /\ p \in Watchers(o)' <=> x = o
    BY <1>3, <1>4, <1>8, <1>9 DEF Owners, Watchers
  <2>3. fWeakCount[o] = Cardinality(Watchers(o)) + (IF state[o] \in {"live", "dying"} THEN 1 ELSE 0)
    BY DEF Inv, BlockOutlivesWeaks
  <2> HIDE DEF x
  <2> QED BY <1>9, <2>1, <2>2, <2>3 DEF One
<1>12. UseCountsExact' BY <1>4, <1>11 DEF Inv, UseCountsExact
<1>13. BlockOutlivesWeaks' BY <1>4, <1>11 DEF BlockOutlivesWeaks
<1> QED BY <1>7, <1>8, <1>10, <1>12, <1>13 DEF Inv

\* A lock takes a count only while there is one.
LEMMA LockStep ==
  ASSUME Counting, Inv, NEW t \in Threads, code[t] # <<>>, NEW c, c = Head(code[t]),
         c.do = "lock", lock_step(t, c.p, c.from)
  PROVE  Inv'
<1> DEFINE p == c.p
           x == fControl[c.from]
           got == x # Null /\ fUseCount[x] > 0
<1>1. Doing(t, c) BY HeadDoing
<1>2. Gone(t, c) BY HeadGone DEF lock_step
<1>3. /\ p \in Pointers /\ p \in All /\ p \notin Weaks /\ c.from \in All /\ fControl[p] = Null
      /\ MayTouch(t, p)
  BY <1>1, Kinds DEF Doing, Fits, Begun
<1>4. x \in Objects \cup {Null} BY <1>3 DEF Inv, Types
<1>5. /\ UNCHANGED <<state, fWeakCount>>
      /\ fControl' = [fControl EXCEPT ![p] = IF got THEN x ELSE Null]
      /\ fUseCount' = IF got THEN retain_shared(x) ELSE fUseCount
  BY DEF lock_step, Points
<1> HIDE DEF x
<1>6. got => fUseCount' = [fUseCount EXCEPT ![x] = @ + 1]
  BY <1>4, <1>5 DEF retain_shared, Inv, Types
<1>7. /\ \A v \in All : v # p => fControl'[v] = fControl[v]
      /\ (got => fControl'[p] = x) /\ (~got => fControl'[p] = Null)
      /\ fControl' \in [All -> Objects \cup {Null}]
  BY <1>3, <1>4, <1>5 DEF Inv, Types
<1>8. (got => x \in Objects /\ x # Null) /\ fUseCount \in [Objects -> Nat] BY <1>4 DEF Inv, Types
<1>8a. ~got => fUseCount' = fUseCount BY <1>5
<1> HIDE DEF got, p
<1>8b. fUseCount' \in [Objects -> Nat] BY <1>6, <1>8, <1>8a
<1>9. Types' BY <1>2, <1>5, <1>7, <1>8b DEF Gone, Inv, Types
<1>10. /\ (\A u \in Threads : ThreadInv(u)') /\ LockOnce' /\ FreeOnce'
       /\ \A u \in Threads : \A o : Frees(u, o)' <=> Frees(u, o)
       /\ ~Holds(p) /\ (Holds(p)' <=> fControl'[p] # Null)
       /\ \A v \in All : v # p => (Holds(v)' <=> Holds(v))
  BY <1>1, <1>2, <1>3, <1>7, <1>9, LastKeeps DEF Points, p
<1>11. ObjectInv' BY <1>3, <1>5, <1>7, <1>10, ObjectsKept
<1>12. ASSUME NEW o \in Objects
       PROVE  /\ fUseCount'[o] = Cardinality(Owners(o))' /\ (state[o] = "live" <=> fUseCount'[o] > 0)
              /\ Cardinality(Watchers(o))' = Cardinality(Watchers(o))
  <2>1. /\ Cardinality(Owners(o)) \in Nat /\ Cardinality(Watchers(o)) \in Nat
        /\ Cardinality(Owners(o))' = Cardinality(Owners(o)) - One(p \in Owners(o)) + One(p \in Owners(o)')
        /\ Cardinality(Watchers(o))' =
              Cardinality(Watchers(o)) - One(p \in Watchers(o)) + One(p \in Watchers(o)')
    BY <1>3, <1>7, <1>10, OneChanged
  <2>2. o # Null BY Kinds
  <2>3. /\ p \notin Owners(o) /\ p \notin Watchers(o) /\ p \notin Watchers(o)'
        /\ p \in Owners(o)' <=> got /\ x = o
    BY <1>3, <1>7, <1>8, <1>10, <2>2 DEF Owners, Watchers
  <2>4. fUseCount'[o] = fUseCount[o] + One(got /\ x = o) /\ fUseCount[o] \in Nat
    <3>1. CASE got BY <1>6, <1>8, <3>1 DEF One
    <3>2. CASE ~got BY <1>8, <1>8a, <3>2 DEF One
    <3> QED BY <3>1, <3>2
  <2>5. fUseCount[o] = Cardinality(Owners(o)) /\ (state[o] = "live" <=> fUseCount[o] > 0)
    BY DEF Inv, UseCountsExact
  <2>6. got /\ x = o => fUseCount[o] > 0 BY DEF got
  <2> QED BY <2>1, <2>3, <2>4, <2>5, <2>6 DEF One
<1>13. UseCountsExact' BY <1>5, <1>12 DEF UseCountsExact
<1>14. BlockOutlivesWeaks' BY <1>5, <1>12 DEF Inv, BlockOutlivesWeaks
<1> QED BY <1>9, <1>10, <1>11, <1>13, <1>14 DEF Inv

\* What an instruction that stores nothing leaves as it is, while the call goes on.
LEMMA GoesOn ==
  ASSUME Counting, Inv, NEW t \in Threads, code[t] # <<>>, NEW c, c = Head(code[t]), Doing(t, c), Gone(t, c),
         c.do \in {"release", "release_weak", "free"}, Types', UNCHANGED fControl
  PROVE  /\ c.p \in All /\ (\A u \in Threads : ThreadInv(u)') /\ LockOnce' /\ FreeOnce'
         /\ \A u \in Threads : \A o :
              Frees(u, o)' <=> Frees(u, o) /\ ~(c.do = "free" /\ c.p = o)
         /\ c.do # "free" => ~Holds(c.p)' /\ (Holds(c.p) <=> fControl[c.p] # Null)
         /\ c.do = "free" => ~Holds(c.p)' /\ ~Holds(c.p)
         /\ \A v \in All : v # c.p => (Holds(v)' <=> Holds(v))
<1>1. c.p \in All /\ MayTouch(t, c.p) /\ c.p # Null BY Kinds DEF Doing
<1>2. ThreadInv(t)' BY PoppedThread DEF Doing, Gone
<1>3. /\ FreeOnce' /\ (HasLock(t)' => HasLock(t))
      /\ \A u \in Threads : \A o :
           Frees(u, o)' <=> Frees(u, o) /\ ~(c.do = "free" /\ c.p = o)
  <2>1. c = code[t][1] /\ Popped(code[t], code'[t]) /\ \A u \in Threads : u # t => code'[u] = code[u]
    BY Zenon DEF Doing, Gone
  <2> QED BY <2>1, FreesPopped
<1>4. (\A u \in Threads : ThreadInv(u)') /\ LockOnce'
  BY <1>2, <1>3, ThreadsKept, KeepsLock DEF Gone
<1>5. Holds(c.p) <=> Points(c.p) /\ ~Pending(code[t], c.p) BY <1>1, HoldsMine
<1>6. Holds(c.p)' <=> fControl'[c.p] # Null /\ ~Pending(code'[t], c.p)
  BY <1>1, HoldsMine DEF Gone
<1>7. c.do # "free" => ~Pending(code[t], c.p) /\ Pending(code'[t], c.p) BY DEF Doing, Gone, NotYet
<1>8. c.do = "free" => fControl[c.p] = Null BY DEF Doing, Begun
<1>9. \A v \in All : v # c.p => (Holds(v)' <=> Holds(v)) BY HoldsKept DEF Gone, Inv
<1>10. c.do # "free" => ~Holds(c.p)' /\ (Holds(c.p) <=> fControl[c.p] # Null)
  BY <1>5, <1>6, <1>7 DEF Points
<1>11. c.do = "free" => ~Holds(c.p)' /\ ~Holds(c.p) BY <1>5, <1>6, <1>8 DEF Points
<1> QED BY <1>1, <1>3, <1>4, <1>9, <1>10, <1>11

\* A release that is not the last one.
LEMMA ReleaseStep ==
  ASSUME Counting, Inv, NEW t \in Threads, code[t] # <<>>, NEW c, c = Head(code[t]),
         c.do = "release", impl_saferelease(t, c.p),
         ~(fControl[c.p] # Null /\ fUseCount[fControl[c.p]] = 1)
  PROVE  Inv'
<1> DEFINE p == c.p
           x == fControl[p]
<1>1. Doing(t, c) BY HeadDoing
<1>2. /\ Done(t, <<>>) /\ UNCHANGED <<fControl, state, fWeakCount>>
      /\ x # Null => fUseCount' = [fUseCount EXCEPT ![x] = @ - 1]
      /\ x = Null => fUseCount' = fUseCount
  BY ZenonT(20) DEF impl_saferelease, Points
<1>3. Gone(t, c) BY <1>2, HeadGone
<1>4. p \in Pointers /\ p \in All /\ p \notin Weaks BY <1>1, Kinds DEF Doing, Fits
<1>5. x # Null => Holds(p)
  <2>1. ~Pending(code[t], p) /\ MayTouch(t, p) BY <1>1 DEF Doing, NotYet
  <2> QED BY <1>4, <2>1, HoldsMine DEF Points
<1>6. x # Null => x \in Objects /\ state[x] = "live" /\ fUseCount[x] \in Nat /\ fUseCount[x] > 1
  <2>1. x # Null => x \in Objects /\ state[x] = "live" /\ fUseCount[x] > 0 BY <1>4, <1>5, HeldIsLive
  <2> QED BY <2>1 DEF Inv, Types
<1>7. fUseCount' \in [Objects -> Nat]
  <2>1. fUseCount \in [Objects -> Nat] BY DEF Inv, Types
  <2>2. CASE x = Null BY <1>2, <2>1, <2>2
  <2>3. CASE x # Null
    <3>1. fUseCount[x] - 1 \in Nat BY <1>6, <2>3
    <3> HIDE DEF x
    <3> QED BY <1>2, <2>1, <2>3, <3>1
  <2> QED BY <2>2, <2>3
<1>8. Types' BY <1>2, <1>3, <1>7 DEF Gone, Inv, Types
<1>9. /\ (\A u \in Threads : ThreadInv(u)') /\ LockOnce' /\ FreeOnce'
      /\ \A u \in Threads : \A o : Frees(u, o)' <=> Frees(u, o)
      /\ ~Holds(p)' /\ (Holds(p) <=> x # Null)
      /\ \A v \in All : v # p => (Holds(v)' <=> Holds(v))
  BY <1>1, <1>2, <1>3, <1>8, GoesOn
<1>10. ObjectInv' BY <1>2, <1>9, ObjectsKept
<1>11. ASSUME NEW o \in Objects
       PROVE  /\ fUseCount'[o] = Cardinality(Owners(o))' /\ (state[o] = "live" <=> fUseCount'[o] > 0)
              /\ Cardinality(Watchers(o))' = Cardinality(Watchers(o))
  <2>1. /\ Cardinality(Owners(o)) \in Nat /\ Cardinality(Watchers(o)) \in Nat
        /\ Cardinality(Owners(o))' = Cardinality(Owners(o)) - One(p \in Owners(o)) + One(p \in Owners(o)')
        /\ Cardinality(Watchers(o))' =
              Cardinality(Watchers(o)) - One(p \in Watchers(o)) + One(p \in Watchers(o)')
    BY <1>2, <1>4, <1>9, OneChanged
  <2>2. o # Null BY Kinds
  <2>3. /\ p \notin Owners(o)' /\ p \notin Watchers(o) /\ p \notin Watchers(o)'
        /\ p \in Owners(o) <=> x = o
    BY <1>2, <1>4, <1>9, <2>2, ZenonT(20) DEF Owners, Watchers
  <2>4. fUseCount'[o] = fUseCount[o] - One(x = o) /\ fUseCount[o] \in Nat
    <3>1. CASE x # Null BY <1>2, <1>6, <3>1 DEF One, Inv, Types
    <3>2. CASE x = Null BY <1>2, <2>2, <3>2 DEF One, Inv, Types
    <3> QED BY <3>1, <3>2
  <2>5. fUseCount[o] = Cardinality(Owners(o)) /\ (state[o] = "live" <=> fUseCount[o] > 0)
    BY DEF Inv, UseCountsExact
  <2>6. x = o => fUseCount[o] > 1 BY <1>6, <2>2
  <2> HIDE DEF x
  <2> QED BY <2>1, <2>3, <2>4, <2>5, <2>6 DEF One
<1>12. UseCountsExact' BY <1>2, <1>11 DEF UseCountsExact
<1>13. BlockOutlivesWeaks' BY <1>2, <1>11 DEF Inv, BlockOutlivesWeaks
<1> QED BY <1>8, <1>9, <1>10, <1>12, <1>13 DEF Inv

\* The block is given up: by the last weak pointer or by the destruction.
LEMMA ReleaseWeakStep ==
  ASSUME Counting, Inv, NEW t \in Threads, code[t] # <<>>, NEW c, c = Head(code[t]),
         c.do = "release_weak", weak_saferelease(t, c.p)
  PROVE  Inv'
<1> DEFINE p == c.p
           x == fControl[p]
<1>1. Doing(t, c) BY HeadDoing
<1>2. Gone(t, c) /\ UNCHANGED <<fControl, fUseCount>> BY HeadGone DEF weak_saferelease
<1>3. p \in Weaks /\ p \in All /\ p \notin Pointers BY <1>1, Kinds DEF Doing, Fits
<1>4. x # Null => Holds(p)
  <2>1. ~Pending(code[t], p) /\ MayTouch(t, p) BY <1>1 DEF Doing, NotYet
  <2> QED BY <1>3, <2>1, HoldsMine DEF Points
<1>5. x # Null => x \in Objects /\ state[x] # "none" /\ fWeakCount[x] \in Nat /\ fWeakCount[x] > 0
  <2>1. x # Null => x \in Objects /\ state[x] # "none" /\ fWeakCount[x] > 0 BY <1>3, <1>4, WatchedBlock
  <2> QED BY <2>1 DEF Inv, Types
<1>6. ASSUME x # Null, fWeakCount[x] = 1 PROVE state[x] = "dead"
  <2>1. p \in Watchers(x) BY <1>3, <1>4, <1>6 DEF Watchers
  <2>2. IsFiniteSet(Watchers(x)) BY FiniteHolders
  <2>3. Cardinality(Watchers(x)) \in Nat /\ Cardinality(Watchers(x)) # 0
    BY <2>1, <2>2, SizeOfNone, SizeIsNat
  <2>4. fWeakCount[x] = Cardinality(Watchers(x)) + (IF state[x] \in {"live", "dying"} THEN 1 ELSE 0)
    BY <1>5, <1>6 DEF Inv, BlockOutlivesWeaks
  <2>5. state[x] \notin {"live", "dying"} BY <1>6, <2>3, <2>4
  <2>6. state[x] \in {"none", "live", "dying", "dead"} BY <1>5, <1>6 DEF Inv, Types
  <2> QED BY <1>5, <1>6, <2>5, <2>6
<1>7. /\ x # Null => fWeakCount' = [fWeakCount EXCEPT ![x] = @ - 1]
      /\ x = Null => fWeakCount' = fWeakCount
      /\ x # Null /\ fWeakCount[x] = 1 => state' = [state EXCEPT ![x] = "none"]
      /\ ~(x # Null /\ fWeakCount[x] = 1) => state' = state
  BY DEF weak_saferelease, release_weak, Points
<1>8. fWeakCount' \in [Objects -> Nat] BY <1>5, <1>7 DEF Inv, Types
<1>9. state' \in [Objects -> {"none", "live", "dying", "dead"}] BY <1>7, ZenonT(20) DEF Inv, Types
<1>10. Types' BY <1>2, <1>8, <1>9 DEF Gone, Inv, Types
<1>11. /\ (\A u \in Threads : ThreadInv(u)') /\ LockOnce' /\ FreeOnce'
       /\ \A u \in Threads : \A o : Frees(u, o)' <=> Frees(u, o)
       /\ ~Holds(p)' /\ (Holds(p) <=> x # Null)
       /\ \A v \in All : v # p => (Holds(v)' <=> Holds(v))
  BY <1>1, <1>2, <1>10, GoesOn
<1>12. \A o \in Objects : /\ o # Null /\ fWeakCount[o] \in Nat
                          /\ fWeakCount'[o] = fWeakCount[o] - One(x = o)
                          /\ x = o => fWeakCount[o] > 0
                          /\ x = o /\ fWeakCount[o] = 1 => state[o] = "dead" /\ state'[o] = "none"
                          /\ ~(x = o /\ fWeakCount[o] = 1) => state'[o] = state[o]
  <2> SUFFICES ASSUME NEW o \in Objects
               PROVE  /\ o # Null /\ fWeakCount[o] \in Nat
                      /\ fWeakCount'[o] = fWeakCount[o] - One(x = o)
                      /\ x = o => fWeakCount[o] > 0
                      /\ x = o /\ fWeakCount[o] = 1 => state[o] = "dead" /\ state'[o] = "none"
                      /\ ~(x = o /\ fWeakCount[o] = 1) => state'[o] = state[o]
    OBVIOUS
  <2>1. o # Null /\ fWeakCount[o] \in Nat BY Kinds DEF Inv, Types
  <2>2. fWeakCount'[o] = fWeakCount[o] - One(x = o) BY <1>5, <1>7, <2>1 DEF One, Inv, Types
  <2>3. x = o => fWeakCount[o] > 0 BY <1>5, <2>1
  <2>4. x = o /\ fWeakCount[o] = 1 => state[o] = "dead" /\ state'[o] = "none"
    BY <1>6, <1>7, <2>1 DEF Inv, Types
  <2>5. ~(x = o /\ fWeakCount[o] = 1) => state'[o] = state[o] BY <1>7, <2>1 DEF Inv, Types
  <2> QED BY <2>1, <2>2, <2>3, <2>4, <2>5
<1> HIDE DEF x
<1>13. ObjectInv'
  <2> SUFFICES ASSUME NEW o \in Objects
               PROVE  /\ state'[o] = "dying" <=> \E u \in Threads : Frees(u, o)
                      /\ state'[o] \in {"none", "dead"} => fControl[o] = Null
                      /\ state'[o] = "none" <=> fWeakCount'[o] = 0
    BY <1>2, <1>11 DEF ObjectInv
  <2>1. /\ state[o] = "dying" <=> \E u \in Threads : Frees(u, o)
        /\ state[o] \in {"none", "dead"} => fControl[o] = Null
        /\ state[o] = "none" <=> fWeakCount[o] = 0
    BY DEF Inv, ObjectInv
  <2>2. CASE x = o /\ fWeakCount[o] = 1 BY <1>12, <2>1, <2>2 DEF One
  <2>3. CASE ~(x = o /\ fWeakCount[o] = 1)
    <3>1. state'[o] = state[o] BY <1>12, <2>3
    <3>2. fWeakCount'[o] = 0 <=> fWeakCount[o] = 0 BY <1>12, <2>3 DEF One
    <3> QED BY <2>1, <3>1, <3>2
  <2> QED BY <2>2, <2>3
<1>14. ASSUME NEW o \in Objects
       PROVE  /\ fWeakCount'[o] = Cardinality(Watchers(o))' + (IF state'[o] \in {"live", "dying"} THEN 1 ELSE 0)
              /\ Cardinality(Owners(o))' = Cardinality(Owners(o))
              /\ state'[o] = "live" <=> state[o] = "live"
  <2>1. /\ Cardinality(Owners(o)) \in Nat /\ Cardinality(Watchers(o)) \in Nat
        /\ Cardinality(Owners(o))' = Cardinality(Owners(o)) - One(p \in Owners(o)) + One(p \in Owners(o)')
        /\ Cardinality(Watchers(o))' =
              Cardinality(Watchers(o)) - One(p \in Watchers(o)) + One(p \in Watchers(o)')
    BY <1>2, <1>3, <1>11, OneChanged, ZenonT(20)
  <2>2. /\ p \notin Watchers(o)' /\ p \notin Owners(o) /\ p \notin Owners(o)'
        /\ p \in Watchers(o) <=> x = o
    BY <1>2, <1>3, <1>11, <1>12, ZenonT(20) DEF Owners, Watchers, x
  <2>3. fWeakCount[o] = Cardinality(Watchers(o)) + (IF state[o] \in {"live", "dying"} THEN 1 ELSE 0)
    BY DEF Inv, BlockOutlivesWeaks
  <2>4. state'[o] \in {"live", "dying"} <=> state[o] \in {"live", "dying"} BY <1>12
  <2>5. state'[o] = "live" <=> state[o] = "live" BY <1>12
  <2>6. fWeakCount'[o] = fWeakCount[o] - One(x = o) BY <1>12
  <2>7. One(p \in Watchers(o)) = One(x = o) /\ One(p \in Watchers(o)') = 0
        /\ One(p \in Owners(o)) = 0 /\ One(p \in Owners(o)') = 0
    BY <2>2 DEF One
  <2>8. One(x = o) \in Nat BY DEF One
  <2> QED BY <2>1, <2>3, <2>4, <2>5, <2>6, <2>7, <2>8
<1>15. UseCountsExact' BY <1>2, <1>14 DEF Inv, UseCountsExact
<1>16. BlockOutlivesWeaks' BY <1>14 DEF BlockOutlivesWeaks
<1> QED BY <1>10, <1>11, <1>13, <1>15, <1>16 DEF Inv

\* The destruction of an object is over.
LEMMA FreeStep ==
  ASSUME Counting, Inv, NEW t \in Threads, code[t] # <<>>, NEW c, c = Head(code[t]), c.do = "free", free(t, c.p)
  PROVE  Inv'
<1> DEFINE x == c.p
<1>1. Doing(t, c) BY HeadDoing
<1>2. Gone(t, c) /\ UNCHANGED <<fControl, fUseCount>> BY HeadGone DEF free
<1>3. x \in Objects /\ x \in Pointers /\ x \in All BY <1>1, Kinds, ZenonT(20) DEF Doing, Fits
<1>4. /\ fWeakCount' = [fWeakCount EXCEPT ![x] = @ - 1]
      /\ state' = [state EXCEPT ![x] = IF fWeakCount[x] = 1 THEN "none" ELSE "dead"]
  BY DEF free, release_weak
<1>5. state[x] = "dying" /\ fControl[x] = Null
  <2>1. Frees(t, x)
    <3>1. c = code[t][1] /\ Len(code[t]) \in Nat /\ Len(code[t]) >= 1 BY <1>1, Zenon DEF Doing
    <3>2. 1 \in 1 .. Len(code[t]) BY <3>1
    <3> QED BY <3>1, <3>2, Zenon DEF Frees
  <2> QED BY <1>1, <1>3, <2>1, ZenonT(20) DEF Doing, Begun, Inv, ObjectInv
<1>6. fWeakCount[x] = Cardinality(Watchers(x)) + 1 /\ Cardinality(Watchers(x)) \in Nat
  <2>1. Cardinality(Watchers(x)) \in Nat BY FiniteHolders, SizeIsNat
  <2> QED BY <1>3, <1>5, <2>1 DEF Inv, BlockOutlivesWeaks
<1>7. fWeakCount' \in [Objects -> Nat]
  <2>1. fWeakCount \in [Objects -> Nat] BY DEF Inv, Types
  <2>2. fWeakCount[x] - 1 \in Nat BY <1>6
  <2> HIDE DEF x
  <2> QED BY <1>4, <2>1, <2>2, ZenonT(20)
<1>8. state' \in [Objects -> {"none", "live", "dying", "dead"}] BY <1>4, ZenonT(20) DEF Inv, Types
<1>9. Types' BY <1>2, <1>7, <1>8 DEF Gone, Inv, Types
<1>10. /\ (\A u \in Threads : ThreadInv(u)') /\ LockOnce' /\ FreeOnce'
       /\ \A u \in Threads : \A o : Frees(u, o)' <=> Frees(u, o) /\ x # o
       /\ ~Holds(x)' /\ ~Holds(x)
       /\ \A v \in All : v # x => (Holds(v)' <=> Holds(v))
  BY <1>1, <1>2, <1>9, GoesOn
<1>11. \A o \in Objects : Owners(o)' = Owners(o) /\ Watchers(o)' = Watchers(o)
  BY <1>2, <1>10, Kinds DEF Owners, Watchers
<1>12. \A o \in Objects : /\ o # x => fWeakCount'[o] = fWeakCount[o] /\ state'[o] = state[o]
                          /\ o = x => /\ fWeakCount'[o] = fWeakCount[o] - 1
                                      /\ state'[o] = IF fWeakCount[o] = 1 THEN "none" ELSE "dead"
  BY <1>3, <1>4 DEF Inv, Types
<1> HIDE DEF x
<1>13. ObjectInv'
  <2> SUFFICES ASSUME NEW o \in Objects
               PROVE  /\ state'[o] = "dying" <=> \E u \in Threads : Frees(u, o)'
                      /\ state'[o] \in {"none", "dead"} => fControl[o] = Null
                      /\ state'[o] = "none" <=> fWeakCount'[o] = 0
    BY <1>2 DEF ObjectInv
  <2>1. /\ state[o] = "dying" <=> \E u \in Threads : Frees(u, o)
        /\ state[o] \in {"none", "dead"} => fControl[o] = Null
        /\ state[o] = "none" <=> fWeakCount[o] = 0
    BY DEF Inv, ObjectInv
  <2>2. CASE o = x
    <3>1. \A u \in Threads : ~Frees(u, o)' BY <1>10, <2>2
    <3>2. state'[o] # "dying" /\ (state'[o] = "none" <=> fWeakCount'[o] = 0) BY <1>6, <1>12, <2>2
    <3> QED BY <1>5, <2>2, <3>1, <3>2
  <2>3. CASE o # x
    <3>1. \A u \in Threads : Frees(u, o)' <=> Frees(u, o) BY <1>10, <2>3
    <3> QED BY <1>12, <2>1, <2>3, <3>1
  <2> QED BY <2>2, <2>3
<1>14. UseCountsExact'
  <2> SUFFICES ASSUME NEW o \in Objects
               PROVE  /\ fUseCount[o] = Cardinality(Owners(o)) /\ (state'[o] = "live" <=> fUseCount[o] > 0)
    BY <1>2, <1>11 DEF UseCountsExact
  <2>1. fUseCount[o] = Cardinality(Owners(o)) /\ (state[o] = "live" <=> fUseCount[o] > 0)
    BY DEF Inv, UseCountsExact
  <2> QED BY <1>5, <1>12, <2>1
<1>15. BlockOutlivesWeaks'
  <2> SUFFICES ASSUME NEW o \in Objects
               PROVE  fWeakCount'[o] = Cardinality(Watchers(o)) + (IF state'[o] \in {"live", "dying"} THEN 1 ELSE 0)
    BY <1>11 DEF BlockOutlivesWeaks
  <2>1. fWeakCount[o] = Cardinality(Watchers(o)) + (IF state[o] \in {"live", "dying"} THEN 1 ELSE 0)
    BY DEF Inv, BlockOutlivesWeaks
  <2>2. CASE o = x BY <1>6, <1>12, <2>2
  <2>3. CASE o # x BY <1>12, <2>1, <2>3
  <2> QED BY <2>2, <2>3
<1> QED BY <1>9, <1>10, <1>13, <1>14, <1>15 DEF Inv

-----------------------------------------------------------------------------
\* One instruction of a call about p, which may take its source from q.
Given(c, p, q) ==
  /\ Fits(c) /\ c.p = p
  /\ c.from # Null => c.from = q /\ c.held = fControl[q] /\ q # p
Retains(p) == IF p \in Weaks THEN "retain_weak" ELSE "retain"

\* The calls.  A call that begins changes no count: what it lists is on the pointer
\* it is about, which is empty when the call does not start with a release.
Listed(I, p, q) ==
  /\ Len(I) \in 1 .. 3 /\ Pattern(I, p, Len(I))
  /\ \A i \in 1 .. Len(I) : Given(I[i], p, q)
  /\ I[1].do \in {"setme", "take", "lock"} => fControl[p] = Null

LEMMA ListedOne ==
  ASSUME NEW a, NEW p, NEW q, Given(a, p, q), a.do \in {"take", "lock"}, fControl[p] = Null
  PROVE  Listed(<<a>>, p, q)
<1> DEFINE I == <<a>>
<1>1. Len(I) = 1 /\ I[1] = a OBVIOUS
<1> HIDE DEF I
<1>2. Len(I) \in 1 .. 3 /\ Pattern(I, p, Len(I)) BY <1>1 DEF Pattern
<1>3. \A i \in 1 .. Len(I) : I[i] = a BY <1>1
<1>4. Listed(I, p, q) BY <1>1, <1>2, <1>3, Zenon DEF Listed
<1> QED BY <1>4, Zenon DEF I

LEMMA ListedTwo ==
  ASSUME NEW a, NEW b, NEW p, NEW q, Given(a, p, q), Given(b, p, q),
         \/ a.do = "setme" /\ b.do = Retains(p) /\ fControl[p] = Null
         \/ a.do \in {"release", "release_weak"} /\ b.do \in {"zero", "take"}
  PROVE  Listed(<<a, b>>, p, q)
<1> DEFINE I == <<a, b>>
<1>1. Len(I) = 2 /\ I[1] = a /\ I[2] = b OBVIOUS
<1> HIDE DEF I
<1>2. Len(I) \in 1 .. 3 /\ Pattern(I, p, Len(I)) BY <1>1 DEF Pattern, Retains
<1>3. \A i \in 1 .. Len(I) : I[i] = a \/ I[i] = b BY <1>1
<1>4. I[1].do \in {"setme", "take", "lock"} => fControl[p] = Null BY <1>1
<1>5. \A i \in 1 .. Len(I) : Given(I[i], p, q) BY <1>3, Zenon
<1>6. Listed(I, p, q) BY <1>2, <1>4, <1>5, Zenon DEF Listed
<1> QED BY <1>6, Zenon DEF I

LEMMA ListedThree ==
  ASSUME NEW a, NEW b, NEW c, NEW p, NEW q, Given(a, p, q), Given(b, p, q), Given(c, p, q),
         a.do \in {"release", "release_weak"}, b.do = "setme", c.do = Retains(p)
  PROVE  Listed(<<a, b, c>>, p, q)
<1> DEFINE I == <<a, b, c>>
<1>1. Len(I) = 3 /\ I[1] = a /\ I[2] = b /\ I[3] = c OBVIOUS
<1> HIDE DEF I
<1>2. Len(I) \in 1 .. 3 /\ Pattern(I, p, Len(I)) BY <1>1 DEF Pattern, Retains
<1>3. \A i \in 1 .. Len(I) : I[i] = a \/ I[i] = b \/ I[i] = c BY <1>1
<1>4. I[1].do \in {"setme", "take", "lock"} => fControl[p] = Null BY <1>1
<1>5. \A i \in 1 .. Len(I) : Given(I[i], p, q) BY <1>3, Zenon
<1>6. Listed(I, p, q) BY <1>2, <1>4, <1>5, Zenon DEF Listed
<1> QED BY <1>6, Zenon DEF I

\* The last release of an object: its destruction comes before the rest of the call.
LEMMA LastReleaseStep ==
  ASSUME Counting, Inv, NEW t \in Threads, code[t] # <<>>, NEW c, c = Head(code[t]),
         c.do = "release", impl_saferelease(t, c.p),
         fControl[c.p] # Null, fUseCount[fControl[c.p]] = 1
  PROVE  Inv'
<1> DEFINE p == c.p
           x == fControl[p]
           r == code'[t]
<1>1. Doing(t, c) BY HeadDoing
<1>2. /\ Done(t, <<Instr("release", x), Instr("zero", x), Instr("free", x)>>)
      /\ UNCHANGED <<fControl, fWeakCount>> /\ fUseCount' = [fUseCount EXCEPT ![x] = @ - 1]
      /\ state' = [state EXCEPT ![x] = "dying"]
  BY DEF impl_saferelease, Points
<1>3. p \in Pointers /\ p \in All /\ p \notin Weaks BY <1>1, Kinds DEF Doing, Fits
<1>4. Holds(p)
  <2>1. ~Pending(code[t], p) /\ MayTouch(t, p) BY <1>1 DEF Doing, NotYet
  <2> QED BY <1>3, <2>1, HoldsMine DEF Points
<1>5. x \in Objects /\ state[x] = "live" /\ x \in All /\ x \in Pointers /\ x # Null
  <2>1. x \in Objects /\ state[x] = "live" BY <1>3, <1>4, HeldIsLive
  <2> QED BY <2>1, Kinds
<1>6. /\ code' \in [Threads -> Seq(Instruction)] /\ Pushed(code[t], r, x)
      /\ \A u \in Threads : u # t => code'[u] = code[u]
  <2>1. code \in [Threads -> Seq(Instruction)] BY DEF Inv, Types
  <2>2. /\ Instr("release", x) \in Instruction /\ Instr("zero", x) \in Instruction
        /\ Instr("free", x) \in Instruction
    BY <1>5 DEF Instr, Instruction, Names
  <2> DEFINE n == <<Instr("release", x), Instr("zero", x), Instr("free", x)>> \o Tail(code[t])
  <2>3. n \in Seq(Instruction) /\ Pushed(code[t], n, x) BY <2>1, <2>2, PushIs
  <2>4. code' = [code EXCEPT ![t] = n] BY <1>2 DEF Done
  <2> HIDE DEF n, x
  <2>5. r = n /\ code' \in [Threads -> Seq(Instruction)] /\ \A u \in Threads : u # t => code'[u] = code[u]
    BY <2>1, <2>3, <2>4
  <2> QED BY <2>3, <2>5
<1>7. \A u \in Threads : ~Access(u, x) /\ ~Frees(u, x) /\ ~Mentions(u, x)
  BY <1>1, <1>3, <1>4, LastUnreached DEF Doing
<1>8. ThreadInv(t)'
  BY <1>1, <1>2, <1>5, <1>6, <1>7, PushedThread, ZenonT(20) DEF Doing
<1>9. /\ FreeOnce' /\ (HasLock(t)' => HasLock(t))
      /\ \A u \in Threads : \A o : Frees(u, o)' <=> Frees(u, o) \/ (u = t /\ o = x)
  <2> SUFFICES ASSUME NEW k, k = x
               PROVE  /\ FreeOnce' /\ (HasLock(t)' => HasLock(t))
                      /\ \A u \in Threads : \A o : Frees(u, o)' <=> Frees(u, o) \/ (u = t /\ o = k)
    BY ZenonT(20)
  <2> HIDE DEF x
  <2>1. Pushed(code[t], code'[t], k) /\ \A u \in Threads : ~Frees(u, k) BY <1>6, <1>7
  <2>2. code[t][1].do = "release" BY <1>1 DEF Doing
  <2> QED BY <1>6, <2>1, <2>2, FreesPushed, ZenonT(20)
<1>10. (\A u \in Threads : ThreadInv(u)') /\ LockOnce'
  BY <1>2, <1>6, <1>8, <1>9, ThreadsKept, KeepsLock, ZenonT(20)
<1>11. Types'
  <2>1. fUseCount' \in [Objects -> Nat]
    <3>1. fUseCount \in [Objects -> Nat] /\ fUseCount[x] - 1 \in Nat BY DEF Inv, Types
    <3> HIDE DEF x
    <3> QED BY <1>2, <3>1, ZenonT(20)
  <2>2. state' \in [Objects -> {"none", "live", "dying", "dead"}]
    BY <1>2, ZenonT(20) DEF Inv, Types
  <2> QED BY <1>2, <1>6, <2>1, <2>2 DEF Inv, Types
<1>12. p # x BY <1>1, <1>7 DEF Doing
<1>13. /\ Pending(r, p) /\ ~Pending(r, x) /\ ~Pending(code[t], x)
       /\ \A v : v # p /\ v # x => (Pending(r, v) <=> Pending(code[t], v))
  <2> DEFINE s == code[t]
  <2>1. /\ s[1] = c /\ Len(s) \in Nat /\ 1 < Len(s) /\ s[2].p = p /\ s[2].do \in {"setme", "take", "zero"}
    <3>1. s[1] = c /\ Len(s) \in Nat /\ Placed(s, 1) BY <1>1 DEF Doing
    <3>2. 1 < Len(s) /\ s[1 + 1].p = p /\ s[1 + 1].do \in {"setme", "take", "zero"}
      BY <3>1 DEF Placed
    <3> QED BY <3>1, <3>2
  <2> HIDE DEF s, x, r
  <2>2. /\ Len(r) = Len(s) + 2 /\ r[1] = Instr("release", x) /\ r[2] = Instr("zero", x)
        /\ r[3] = Instr("free", x) /\ \A i \in 4 .. Len(r) : r[i] = s[i - 2]
    BY <1>6 DEF Pushed, s
  <2>3. 4 \in 4 .. Len(r) /\ 4 - 2 = 2 /\ 4 \in 1 .. Len(r) BY <2>1, <2>2
  <2>4. r[4] = s[2] BY <2>2, <2>3, ZenonT(20)
  <2>12. \A do, v : Instr(do, v).p = v BY DEF Instr
  <2>13. r[1].p = x BY <2>2, <2>12
  <2>14. r[2].p = x BY <2>2, <2>12
  <2>15. r[3].p = x BY <2>2, <2>12
  <2>5. r[1].p = x /\ r[2].p = x /\ r[3].p = x BY <2>13, <2>14, <2>15
  <2>6. \A j \in 1 .. 4 - 1 : r[j].p # p
    <3> SUFFICES ASSUME NEW j \in 1 .. 4 - 1 PROVE r[j].p # p OBVIOUS
    <3>1. j = 1 \/ j = 2 \/ j = 3 OBVIOUS
    <3> QED BY <1>12, <2>5, <3>1
  <2>7. Pending(r, p) BY <2>1, <2>3, <2>4, <2>6 DEF Pending, NotYet
  <2>8. Pushed(s, r, x) BY <1>6 DEF s
  <2>9. \A v : v # p => (v # x => (Pending(r, v) <=> Pending(s, v))) /\ ~Pending(r, x)
    BY <2>1, <2>8, PendingPushed
  <2>10. ~Pending(r, x) BY <1>12, <2>9, ZenonT(20)
  <2>11. ~Pending(s, x) BY <1>7 DEF Pending, Mentions, s
  <2> QED BY <2>7, <2>9, <2>10, <2>11 DEF s
<1>14. ~Holds(p)'
  <2>1. MayTouch(t, p) BY <1>1, ZenonT(20) DEF Doing
  <2> QED BY <1>3, <1>6, <1>11, <1>13, <2>1, HoldsMine, ZenonT(20)
<1>15. \A v \in All : v # p => (Holds(v)' <=> Holds(v))
  <2>1. \A v \in All : v # p => (Pending(r, v) <=> Pending(code[t], v)) BY <1>13
  <2> QED BY <1>2, <1>6, <1>11, <2>1, HoldsKept, ZenonT(20) DEF Inv
<1>16. ASSUME NEW o \in Objects
       PROVE  /\ Cardinality(Owners(o))' = Cardinality(Owners(o)) - One(x = o)
              /\ Cardinality(Watchers(o))' = Cardinality(Watchers(o))
              /\ Cardinality(Owners(o)) \in Nat
  <2>1. /\ Cardinality(Owners(o)) \in Nat /\ Cardinality(Watchers(o)) \in Nat
        /\ Cardinality(Owners(o))' = Cardinality(Owners(o)) - One(p \in Owners(o)) + One(p \in Owners(o)')
        /\ Cardinality(Watchers(o))' =
              Cardinality(Watchers(o)) - One(p \in Watchers(o)) + One(p \in Watchers(o)')
    BY <1>2, <1>3, <1>15, OneChanged, ZenonT(20)
  <2>2. /\ p \notin Owners(o)' /\ p \notin Watchers(o) /\ p \notin Watchers(o)'
        /\ p \in Owners(o) <=> x = o
    BY <1>2, <1>3, <1>4, <1>14, ZenonT(20) DEF Owners, Watchers
  <2> HIDE DEF x
  <2>3. One(p \in Owners(o)) = One(x = o) /\ One(p \in Watchers(o)') = 0
        /\ One(p \in Watchers(o)) = 0 /\ One(p \in Owners(o)') = 0
    BY <2>2 DEF One
  <2>4. One(x = o) \in Nat BY DEF One
  <2>5. /\ Cardinality(Owners(o))' = Cardinality(Owners(o)) - One(x = o) + 0
        /\ Cardinality(Watchers(o))' = Cardinality(Watchers(o)) - 0 + 0
    BY <2>1, <2>3, Zenon
  <2>6. Cardinality(Owners(o))' = Cardinality(Owners(o)) - One(x = o) BY <2>1, <2>4, <2>5
  <2>7. Cardinality(Watchers(o))' = Cardinality(Watchers(o)) BY <2>1, <2>5
  <2> QED BY <2>1, <2>6, <2>7, ZenonT(20)
<1>17. \A o \in Objects : /\ o # x => fUseCount'[o] = fUseCount[o] /\ state'[o] = state[o]
                          /\ o = x => fUseCount'[o] = 0 /\ state'[o] = "dying" /\ fUseCount[o] = 1
  <2>1. /\ fUseCount \in [Objects -> Nat] /\ state \in [Objects -> {"none", "live", "dying", "dead"}]
    BY DEF Inv, Types
  <2> SUFFICES ASSUME NEW k, k = x
               PROVE  \A o \in Objects :
                        /\ o # k => fUseCount'[o] = fUseCount[o] /\ state'[o] = state[o]
                        /\ o = k => fUseCount'[o] = 0 /\ state'[o] = "dying" /\ fUseCount[o] = 1
    OBVIOUS
  <2>2. /\ fUseCount' = [fUseCount EXCEPT ![k] = @ - 1] /\ state' = [state EXCEPT ![k] = "dying"]
        /\ fUseCount[k] = 1
    BY <1>2, <1>5, ZenonT(20)
  <2> HIDE DEF x
  <2> TAKE o \in Objects
  <2>3. o # k => fUseCount'[o] = fUseCount[o] /\ state'[o] = state[o] BY <2>1, <2>2
  <2>4. o = k => fUseCount'[o] = 0 /\ state'[o] = "dying" /\ fUseCount[o] = 1 BY <2>1, <2>2
  <2> QED BY <2>3, <2>4, ZenonT(20)
<1> HIDE DEF x
<1>18. ObjectInv'
  <2> SUFFICES ASSUME NEW o \in Objects
               PROVE  /\ state'[o] = "dying" <=> \E u \in Threads : Frees(u, o)'
                      /\ state'[o] \in {"none", "dead"} => fControl[o] = Null
                      /\ state'[o] = "none" <=> fWeakCount[o] = 0
    BY <1>2, ZenonT(20) DEF ObjectInv
  <2>1. /\ state[o] = "dying" <=> \E u \in Threads : Frees(u, o)
        /\ state[o] \in {"none", "dead"} => fControl[o] = Null
        /\ state[o] = "none" <=> fWeakCount[o] = 0
    BY ZenonT(20) DEF Inv, ObjectInv
  <2>2. CASE o = x
    <3>1. Frees(t, o)' BY <1>9, <2>2
    <3>2. fWeakCount[o] # 0 BY <1>5, <2>1, <2>2
    <3> QED BY <1>17, <2>2, <3>1, <3>2
  <2>3. CASE o # x
    <3>1. \A u \in Threads : Frees(u, o)' <=> Frees(u, o) BY <1>9, <2>3
    <3> QED BY <1>17, <2>1, <2>3, <3>1
  <2> QED BY <2>2, <2>3
<1>19. UseCountsExact'
  <2> SUFFICES ASSUME NEW o \in Objects
               PROVE  /\ fUseCount'[o] = Cardinality(Owners(o)) - One(x = o)
                      /\ state'[o] = "live" <=> fUseCount'[o] > 0
    BY <1>16 DEF UseCountsExact
  <2>1. fUseCount[o] = Cardinality(Owners(o)) /\ (state[o] = "live" <=> fUseCount[o] > 0)
    BY DEF Inv, UseCountsExact
  <2>2. CASE o = x BY <1>16, <1>17, <2>1, <2>2 DEF One
  <2>3. CASE o # x BY <1>16, <1>17, <2>1, <2>3 DEF One
  <2> QED BY <2>2, <2>3
<1>20. BlockOutlivesWeaks'
  <2> SUFFICES ASSUME NEW o \in Objects
               PROVE  fWeakCount[o] = Cardinality(Watchers(o)) + (IF state'[o] \in {"live", "dying"} THEN 1 ELSE 0)
    BY <1>2, <1>16 DEF BlockOutlivesWeaks
  <2>1. fWeakCount[o] = Cardinality(Watchers(o)) + (IF state[o] \in {"live", "dying"} THEN 1 ELSE 0)
    BY DEF Inv, BlockOutlivesWeaks
  <2>2. state'[o] \in {"live", "dying"} <=> state[o] \in {"live", "dying"} BY <1>5, <1>17
  <2> QED BY <2>1, <2>2
<1> QED BY <1>9, <1>10, <1>11, <1>18, <1>19, <1>20 DEF Inv

LEMMA CalledInv ==
  ASSUME Counting, Inv, ~SourceMayDie, NEW t \in Threads, NEW p \in All, NEW q \in All, MayCall(t, p, q),
         NEW I, I \in Seq(Instruction), Listed(I, p, q), Call(t, I)
  PROVE  Inv'
<1> DEFINE r == code'[t]
           n == Len(I)
<1>1. /\ n \in 1 .. 3 /\ n \in Nat /\ 1 \in 1 .. n
      /\ \A i \in 1 .. n : /\ Fits(I[i]) /\ I[i].p = p
                           /\ I[i].from # Null => I[i].from = q /\ I[i].held = fControl[q] /\ q # p
      /\ I[1].do \in {"setme", "take", "lock"} => fControl[p] = Null
      /\ Pattern(I, p, n)
  BY DEF Listed, Given
<1>2. p \in All /\ p # Null /\ q # Null /\ Null \notin Guarded
  BY Kinds, SharedObjectAssumption DEF Guarded, All, Pointers, Shared
<1>3. /\ code' \in [Threads -> Seq(Instruction)]
      /\ \A u \in Threads : u # t => code'[u] = code[u]
      /\ \A i \in 1 .. n : r[i] = I[i]
      /\ Len(r) \in {n, n + 1}
      /\ Len(r) = n + 1 => /\ r[n + 1].do = "unlock" /\ r[n + 1].p = Null /\ r[n + 1].from = Null
                           /\ \E i \in 1 .. n : {I[i].p, I[i].from} \cap Guarded # {}
      /\ Len(r) = n => \A i \in 1 .. n : I[i].p \notin Guarded /\ I[i].from \notin Guarded
  BY CallIs DEF Inv
<1>4. UNCHANGED <<fControl, state, fUseCount, fWeakCount>> BY DEF Call
<1> HIDE DEF r, n
<1>5. Pattern(r, p, n)
  <2>1. r[1] = I[1] BY <1>1, <1>3
  <2>2. n >= 2 => r[2] = I[2] BY <1>1, <1>3
  <2>3. n >= 3 => r[3] = I[3] BY <1>1, <1>3
  <2> QED BY <1>1, <2>1, <2>2, <2>3 DEF Pattern
<1>6. /\ \A i \in 1 .. n : r[i].do \notin {"unlock", "free"}
      /\ r[1].do \in {"setme", "take", "lock", "release", "release_weak"}
  <2>1. \A i \in 1 .. n : i = 1 \/ (i = 2 /\ n >= 2) \/ (i = 3 /\ n >= 3) BY <1>1
  <2>2. r[1].do \in {"setme", "take", "lock", "release", "release_weak"} BY <1>5 DEF Pattern
  <2>3. n >= 2 => r[2].do \notin {"unlock", "free"} BY <1>5 DEF Pattern
  <2>4. n >= 3 => r[3].do \notin {"unlock", "free"} BY <1>5 DEF Pattern
  <2> QED BY <2>1, <2>2, <2>3, <2>4
<1>7. Shape(r) BY <1>1, <1>3, <1>5, ShapeCalled
<1>8. Handed(t, r, p, q, n)
  <2>1. Len(r) = n + 1 => {p, q} \cap Guarded # {} BY <1>1, <1>2, <1>3
  <2>2. Len(r) = n => p \notin Guarded /\ \A i \in 1 .. n : r[i].from \notin Guarded BY <1>1, <1>3
  <2>3. \A i \in 1 .. n : /\ r[i].p = p /\ r[i].do \notin {"unlock", "free"}
                          /\ r[i].from # Null => r[i].from = q /\ r[i].held = fControl[q] /\ q # p
    BY <1>1, <1>3, <1>6
  <2>4. r[1].do \notin {"retain", "retain_weak"} BY <1>6
  <2>5. r[1].do \in {"setme", "take", "lock"} => fControl[p] = Null BY <1>1, <1>3
  <2>6. Len(r) = n + 1 => r[n + 1].do = "unlock" /\ r[n + 1].p = Null /\ r[n + 1].from = Null BY <1>3
  <2>7. n \in 1 .. 3 /\ Len(r) \in {n, n + 1} BY <1>1, <1>3
  <2> QED BY <2>1, <2>2, <2>3, <2>4, <2>5, <2>6, <2>7 DEF Handed
<1>9. ThreadInv(t)' /\ (HasLock(t)' => LockFree(t))
  BY <1>4, <1>7, <1>8, CalledThread DEF r
<1>10. (\A u \in Threads : ThreadInv(u)') /\ LockOnce' BY <1>3, <1>4, <1>9, ThreadsKept
<1>11. Types' BY <1>3, <1>4 DEF Inv, Types
<1>12. /\ code[t] = <<>> /\ Len(code[t]) = 0 /\ \A i : i \notin 1 .. Len(code[t]) BY DEF MayCall
<1>13. /\ \A i \in 1 .. Len(r) : r[i].do # "free" /\ r[i].p \in {p, Null} /\ Len(r) \in Nat
       /\ 1 \in 1 .. Len(r) /\ r[1].p = p
  <2>1. \A i \in 1 .. Len(r) : i \in 1 .. n \/ (i = n + 1 /\ Len(r) = n + 1) BY <1>1, <1>3
  <2>2. Len(r) \in Nat /\ 1 \in 1 .. Len(r) BY <1>1, <1>3
  <2> QED BY <2>1, <2>2, <1>1, <1>3, <1>6
<1>14. \A u \in Threads : \A o : Frees(u, o)' <=> Frees(u, o)
  <2>1. \A o : ~Frees(t, o) /\ ~Frees(t, o)' BY <1>12, <1>13 DEF Frees, r
  <2>2. \A u \in Threads : u # t => \A o : Frees(u, o)' <=> Frees(u, o) BY <1>3 DEF Frees
  <2> QED BY <2>1, <2>2
<1>15. FreeOnce'
  <2> SUFFICES ASSUME NEW u \in Threads, NEW v \in Threads,
                      NEW i \in 1 .. Len(code'[u]), NEW j \in 1 .. Len(code'[v]),
                      code'[u][i].do = "free", code'[v][j].do = "free", code'[u][i].p = code'[v][j].p
               PROVE  u = v /\ i = j
    BY DEF FreeOnce
  <2>1. u # t /\ v # t BY <1>13 DEF r
  <2>2. code'[u] = code[u] /\ code'[v] = code[v] BY <1>3, <2>1
  <2> QED BY <2>2 DEF Inv, FreeOnce
<1>16. \A v \in All : Holds(v)' <=> Holds(v)
  <2> SUFFICES ASSUME NEW v \in All PROVE Holds(v)' <=> Holds(v) OBVIOUS
  <2>1. ~Pending(code[t], v) BY <1>12 DEF Pending
  <2>2. CASE v # p
    <3>1. v # Null BY Kinds
    <3>2. ~Pending(r, v) BY <1>13, <2>2, <3>1 DEF Pending
    <3> QED BY <1>3, <1>4, <1>11, <2>1, <3>2, HoldsKept DEF Inv, r
  <2>3. CASE v = p /\ r[1].do \in {"lock", "release", "release_weak"}
    <3>1. ~Pending(r, v) BY <1>13, <2>3, PendingFirst DEF NotYet
    <3> QED BY <1>3, <1>4, <1>11, <2>1, <3>1, HoldsKept DEF Inv, r
  <2>4. CASE v = p /\ r[1].do \in {"setme", "take"}
    <3>1. fControl[v] = Null BY <1>1, <1>3, <2>4
    <3> QED BY <1>4, <3>1 DEF Holds, Points
  <2> QED BY <1>6, <2>2, <2>3, <2>4
<1>17. UseCountsExact' /\ BlockOutlivesWeaks' BY <1>4, <1>16, CountsKept
<1>18. ObjectInv' BY <1>4, <1>14, ObjectsKept
<1> QED BY <1>10, <1>11, <1>15, <1>17, <1>18 DEF Inv

LEMMA CallStep ==
  ASSUME Counting, Inv, ~SourceMayDie, NEW t \in Threads,
         \/ \E p \in Pointers :
              \/ destruct(t, p)
              \/ \E q \in Pointers : \/ copy_construct(t, p, q) \/ copy_assign(t, p, q)
                                     \/ move_construct(t, p, q) \/ move_assign(t, p, q)
         \/ \E w \in Weaks :
              \/ weak_destruct(t, w)
              \/ \E q \in Pointers \cup Weaks : weak_assign(t, w, q)
              \/ \E q \in Weaks : weak_move_assign(t, w, q)
              \/ \E p \in Pointers : lock(t, p, w)
  PROVE  Inv'
<1>1. Null \notin All /\ All = Pointers \cup Weaks /\ Pointers \cap Weaks = {}
  BY Kinds DEF All
<1>2. \A d \in Names, p \in All : /\ Instr(d, p) \in Instruction /\ Instr(d, p).do = d
                                 /\ Instr(d, p).p = p /\ Instr(d, p).from = Null
  BY DEF Instr, Instruction
<1>3. \A d \in Names, p \in All, q \in All :
        /\ From(d, p, q) \in Instruction /\ From(d, p, q).do = d /\ From(d, p, q).p = p
        /\ From(d, p, q).from = q /\ From(d, p, q).held = fControl[q]
  BY DEF From, Instruction, Inv, Types
<1>4. ASSUME NEW p \in All, NEW q \in All, MayCall(t, p, q), NEW a \in Instruction, NEW b \in Instruction,
             NEW c \in Instruction,
             NEW I, I \in {<<a>>, <<a, b>>, <<a, b, c>>}, Call(t, I), Listed(I, p, q)
      PROVE  Inv'
  <2>1. <<a>> \in Seq(Instruction) /\ <<a, b>> \in Seq(Instruction) OBVIOUS
  <2>2. <<a, b, c>> \in Seq(Instruction) OBVIOUS
  <2>3. I \in Seq(Instruction)
    <3> DEFINE x == <<a>>
               y == <<a, b>>
               z == <<a, b, c>>
               S == Seq(Instruction)
    <3>1. I \in {x, y, z} /\ x \in S /\ y \in S /\ z \in S BY <1>4, <2>1, <2>2
    <3> HIDE DEF x, y, z, S
    <3>2. I \in S BY <3>1
    <3> QED BY <3>2 DEF S
  <2> QED BY <1>4, <2>3, CalledInv
<1>5. ASSUME NEW p \in Pointers, destruct(t, p) PROVE Inv'
  <2> SUFFICES ASSUME NEW a, a = Instr("release", p), NEW b, b = Instr("zero", p) PROVE Inv'
    OBVIOUS
  <2>1. p \in All /\ p \notin Weaks BY <1>1
  <2>2. a \in Instruction /\ b \in Instruction BY <1>2, <2>1 DEF Names
  <2>3. a.do = "release" /\ b.do = "zero" /\ a.p = p /\ b.p = p /\ a.from = Null /\ b.from = Null
    BY <1>2, <2>1 DEF Names
  <2>5. Given(a, p, p) BY <2>1, <2>3 DEF Given, Fits
  <2>6. Given(b, p, p) BY <2>1, <2>3 DEF Given, Fits
  <2>4. Listed(<<a, b>>, p, p) BY <2>3, <2>5, <2>6, ListedTwo, Zenon
  <2> QED BY <1>4, <1>5, <2>1, <2>2, <2>4 DEF destruct
<1>6. ASSUME NEW p \in Pointers, NEW q \in Pointers, copy_construct(t, p, q) PROVE Inv'
  <2> SUFFICES ASSUME NEW a, a = From("setme", p, q), NEW b, b = Instr("retain", p) PROVE Inv'
    OBVIOUS
  <2>1. p \in All /\ q \in All /\ p \notin Weaks /\ p # q /\ fControl[p] = Null
    BY <1>1, <1>6 DEF copy_construct
  <2>2. a \in Instruction /\ b \in Instruction BY <1>2, <1>3, <2>1 DEF Names
  <2>3. /\ a.do = "setme" /\ b.do = "retain" /\ a.p = p /\ b.p = p /\ a.from = q /\ b.from = Null
        /\ a.held = fControl[q]
    BY <1>2, <1>3, <2>1 DEF Names
  <2>5. Given(a, p, q) BY <2>1, <2>3 DEF Given, Fits
  <2>6. Given(b, p, q) BY <2>1, <2>3 DEF Given, Fits
  <2>4. Listed(<<a, b>>, p, q) BY <2>1, <2>3, <2>5, <2>6, ListedTwo, Zenon DEF Retains
  <2> QED BY <1>4, <1>6, <2>1, <2>2, <2>4 DEF copy_construct
<1>7. ASSUME NEW p \in Pointers, NEW q \in Pointers, copy_assign(t, p, q) PROVE Inv'
  <2> SUFFICES ASSUME NEW a, a = Instr("release", p), NEW b, b = From("setme", p, q),
                      NEW c, c = Instr("retain", p)
               PROVE  Inv'
    OBVIOUS
  <2>1. p \in All /\ q \in All /\ p \notin Weaks /\ p # q BY <1>1, <1>7 DEF copy_assign
  <2>2. a \in Instruction /\ b \in Instruction /\ c \in Instruction BY <1>2, <1>3, <2>1 DEF Names
  <2>3. /\ a.do = "release" /\ a.p = p /\ a.from = Null /\ b.do = "setme" /\ b.p = p /\ b.from = q
        /\ b.held = fControl[q] /\ c.do = "retain" /\ c.p = p /\ c.from = Null
    BY <1>2, <1>3, <2>1 DEF Names
  <2>5. Given(a, p, q) BY <2>1, <2>3 DEF Given, Fits
  <2>6. Given(b, p, q) BY <2>1, <2>3 DEF Given, Fits
  <2>7. Given(c, p, q) BY <2>1, <2>3 DEF Given, Fits
  <2>4. Listed(<<a, b, c>>, p, q) BY <2>1, <2>3, <2>5, <2>6, <2>7, ListedThree, Zenon DEF Retains
  <2> QED BY <1>4, <1>7, <2>1, <2>2, <2>4 DEF copy_assign
<1>8. ASSUME NEW p \in Pointers, NEW q \in Pointers, move_construct(t, p, q) PROVE Inv'
  <2> SUFFICES ASSUME NEW a, a = From("take", p, q) PROVE Inv'
    OBVIOUS
  <2>1. p \in All /\ q \in All /\ p # q /\ fControl[p] = Null BY <1>1, <1>8 DEF move_construct
  <2>2. a \in Instruction BY <1>3, <2>1 DEF Names
  <2>3. a.do = "take" /\ a.p = p /\ a.from = q /\ a.held = fControl[q] BY <1>3, <2>1 DEF Names
  <2>5. Given(a, p, q) BY <2>1, <2>3 DEF Given, Fits
  <2>4. Listed(<<a>>, p, q) BY <2>1, <2>3, <2>5, ListedOne, Zenon
  <2> QED BY <1>4, <1>8, <2>1, <2>2, <2>4 DEF move_construct
<1>9. ASSUME NEW p \in Pointers, NEW q \in Pointers, move_assign(t, p, q) PROVE Inv'
  <2> SUFFICES ASSUME NEW a, a = Instr("release", p), NEW b, b = From("take", p, q) PROVE Inv'
    OBVIOUS
  <2>1. p \in All /\ q \in All /\ p # q BY <1>1, <1>9 DEF move_assign
  <2>2. a \in Instruction /\ b \in Instruction BY <1>2, <1>3, <2>1 DEF Names
  <2>3. /\ a.do = "release" /\ a.p = p /\ a.from = Null
        /\ b.do = "take" /\ b.p = p /\ b.from = q /\ b.held = fControl[q]
    BY <1>2, <1>3, <2>1 DEF Names
  <2>5. Given(a, p, q) BY <2>1, <2>3 DEF Given, Fits
  <2>6. Given(b, p, q) BY <2>1, <2>3 DEF Given, Fits
  <2>4. Listed(<<a, b>>, p, q) BY <2>1, <2>3, <2>5, <2>6, ListedTwo, Zenon DEF Retains
  <2> QED BY <1>4, <1>9, <2>1, <2>2, <2>4 DEF move_assign
<1>10. ASSUME NEW p \in Weaks, weak_destruct(t, p) PROVE Inv'
  <2> SUFFICES ASSUME NEW a, a = Instr("release_weak", p), NEW b, b = Instr("zero", p) PROVE Inv'
    OBVIOUS
  <2>1. p \in All BY <1>1
  <2>2. a \in Instruction /\ b \in Instruction BY <1>2, <2>1 DEF Names
  <2>3. a.do = "release_weak" /\ b.do = "zero" /\ a.p = p /\ b.p = p /\ a.from = Null /\ b.from = Null
    BY <1>2, <2>1 DEF Names
  <2>5. Given(a, p, p) BY <2>1, <2>3 DEF Given, Fits
  <2>6. Given(b, p, p) BY <2>1, <2>3 DEF Given, Fits
  <2>4. Listed(<<a, b>>, p, p) BY <2>3, <2>5, <2>6, ListedTwo, Zenon
  <2> QED BY <1>4, <1>10, <2>1, <2>2, <2>4 DEF weak_destruct
<1>11. ASSUME NEW p \in Weaks, NEW q \in Pointers \cup Weaks, weak_assign(t, p, q) PROVE Inv'
  <2> SUFFICES ASSUME NEW a, a = Instr("release_weak", p), NEW b, b = From("setme", p, q),
                      NEW c, c = Instr("retain_weak", p)
               PROVE  Inv'
    OBVIOUS
  <2>1. p \in All /\ q \in All /\ p # q BY <1>1, <1>11 DEF weak_assign
  <2>2. a \in Instruction /\ b \in Instruction /\ c \in Instruction BY <1>2, <1>3, <2>1 DEF Names
  <2>3. /\ a.do = "release_weak" /\ a.p = p /\ a.from = Null /\ b.do = "setme" /\ b.p = p /\ b.from = q
        /\ b.held = fControl[q] /\ c.do = "retain_weak" /\ c.p = p /\ c.from = Null
    BY <1>2, <1>3, <2>1 DEF Names
  <2>5. Given(a, p, q) BY <2>1, <2>3 DEF Given, Fits
  <2>6. Given(b, p, q) BY <2>1, <2>3 DEF Given, Fits
  <2>7. Given(c, p, q) BY <2>1, <2>3 DEF Given, Fits
  <2>4. Listed(<<a, b, c>>, p, q) BY <2>1, <2>3, <2>5, <2>6, <2>7, ListedThree, Zenon DEF Retains
  <2> QED BY <1>4, <1>11, <2>1, <2>2, <2>4 DEF weak_assign
<1>12. ASSUME NEW p \in Weaks, NEW q \in Weaks, weak_move_assign(t, p, q) PROVE Inv'
  <2> SUFFICES ASSUME NEW a, a = Instr("release_weak", p), NEW b, b = From("take", p, q) PROVE Inv'
    OBVIOUS
  <2>1. p \in All /\ q \in All /\ p # q BY <1>1, <1>12 DEF weak_move_assign
  <2>2. a \in Instruction /\ b \in Instruction BY <1>2, <1>3, <2>1 DEF Names
  <2>3. /\ a.do = "release_weak" /\ a.p = p /\ a.from = Null
        /\ b.do = "take" /\ b.p = p /\ b.from = q /\ b.held = fControl[q]
    BY <1>2, <1>3, <2>1 DEF Names
  <2>5. Given(a, p, q) BY <2>1, <2>3 DEF Given, Fits
  <2>6. Given(b, p, q) BY <2>1, <2>3 DEF Given, Fits
  <2>4. Listed(<<a, b>>, p, q) BY <2>1, <2>3, <2>5, <2>6, ListedTwo, Zenon DEF Retains
  <2> QED BY <1>4, <1>12, <2>1, <2>2, <2>4 DEF weak_move_assign
<1>13. ASSUME NEW p \in Pointers, NEW w \in Weaks, lock(t, p, w) PROVE Inv'
  <2> SUFFICES ASSUME NEW a, a = From("lock", p, w) PROVE Inv'
    OBVIOUS
  <2>1. p \in All /\ w \in All /\ p # w /\ fControl[p] = Null BY <1>1, <1>13 DEF lock
  <2>2. a \in Instruction BY <1>3, <2>1 DEF Names
  <2>3. a.do = "lock" /\ a.p = p /\ a.from = w /\ a.held = fControl[w] BY <1>3, <2>1 DEF Names
  <2>5. Given(a, p, w) BY <2>1, <2>3 DEF Given, Fits
  <2>4. Listed(<<a>>, p, w) BY <2>1, <2>3, <2>5, ListedOne, Zenon
  <2> QED BY <1>4, <1>13, <2>1, <2>2, <2>4 DEF lock
<1> QED BY <1>5, <1>6, <1>7, <1>8, <1>9, <1>10, <1>11, <1>12, <1>13

\* The two calls that are one step.
LEMMA MayCallTouch ==
  ASSUME Inv, NEW t \in Threads, NEW p \in All, NEW q \in All, MayCall(t, p, q)
  PROVE  /\ MayTouch(t, p) /\ MayTouch(t, q)
         /\ \A v : ~Mentions(t, v) /\ ~Pending(code[t], v) /\ ~Frees(t, v)
         /\ code[t] = <<>> /\ ~HasLock(t)
<1>1. code[t] = <<>> /\ \A i : i \notin 1 .. Len(code[t]) BY DEF MayCall
<1>2. /\ \A v : ~Mentions(t, v) /\ ~Pending(code[t], v) /\ ~Frees(t, v)
      /\ ~HasLock(t)
  BY <1>1 DEF Mentions, Pending, Frees, HasLock
<1>3. ASSUME NEW v, NEW S, S \subseteq Locals[t] \cup Globals, Reach(t, v, S), v \in Guarded => LockFree(t)
      PROVE  MayTouch(t, v)
  <2>1. \A a \in S : a \in Anchors(t) BY <1>2, <1>3 DEF Anchors
  <2>2. CASE v \in Locals[t] BY <2>2 DEF MayTouch
  <2>3. CASE v \in Globals \cup Weaks BY <1>3, <2>3 DEF MayTouch, Guarded
  <2>4. CASE v \in Objects /\ \E a \in S : fControl[a] = v
    <3>1. Anchored(t, v) BY <2>1, <2>4 DEF Anchored
    <3> QED BY <1>3, <2>4, <3>1 DEF MayTouch, Guarded
  <2> QED BY <1>3, <2>2, <2>3, <2>4 DEF Reach
<1> DEFINE own == Locals[t] \cup Globals
           S == IF SourceMayDie THEN own ELSE own \ {p}
<1>4. Reach(t, p, own \ {p}) /\ Reach(t, q, S) BY DEF MayCall
<1>5. (p \in Guarded => LockFree(t)) /\ (q \in Guarded => LockFree(t)) BY DEF MayCall
<1>6. own \ {p} \subseteq own /\ S \subseteq own OBVIOUS
<1> HIDE DEF S
<1>7. MayTouch(t, q) BY <1>3, <1>4, <1>5, <1>6
<1>8. MayTouch(t, p) BY <1>3, <1>4, <1>5, <1>6
<1> QED BY <1>1, <1>2, <1>7, <1>8

LEMMA IdleThreads ==
  ASSUME Counting, Inv, NEW t \in Threads, code[t] = <<>>, UNCHANGED code,
         \A v \in All : fControl'[v] = fControl[v] \/ MayTouch(t, v)
  PROVE  /\ (\A u \in Threads : ThreadInv(u)') /\ LockOnce' /\ FreeOnce'
         /\ \A u \in Threads : \A o : Frees(u, o)' <=> Frees(u, o)
<1>1. code'[t] = <<>> /\ \A i : i \notin 1 .. Len(code'[t]) OBVIOUS
<1>2. Shape(code[t])' /\ ~HasLock(t)' BY <1>1 DEF Shape, HasLock
<1>3. ThreadInv(t)' BY <1>1, <1>2, OverThread
<1>4. (\A u \in Threads : ThreadInv(u)') /\ LockOnce' BY <1>2, <1>3, ThreadsKept
<1>5. FreeOnce' BY DEF Inv, FreeOnce
<1>6. \A u \in Threads : \A o : Frees(u, o)' <=> Frees(u, o) BY DEF Frees
<1> QED BY <1>4, <1>5, <1>6

LEMMA ConstructStep ==
  ASSUME Counting, Inv, NEW t \in Threads, NEW p \in Pointers, construct(t, p)
  PROVE  Inv'
<1>1. PICK x \in Objects :
        /\ state[x] = "none" /\ state' = [state EXCEPT ![x] = "live"]
        /\ fControl' = [fControl EXCEPT ![p] = x, ![x] = Null]
        /\ fUseCount' = [fUseCount EXCEPT ![x] = 1]
        /\ fWeakCount' = [fWeakCount EXCEPT ![x] = 1]
  BY DEF construct
<1>2. UNCHANGED code /\ fControl[p] = Null BY DEF construct
<1>3. p \in All /\ x \in All /\ x \in Pointers /\ p \notin Weaks /\ x # Null /\ x \notin Weaks BY Kinds
<1>4. MayTouch(t, p) /\ ~Pending(code[t], p) /\ code[t] = <<>> BY <1>3, MayCallTouch DEF construct
<1>5. p # x
  <2>1. MayTouch(t, x) => state[x] \in {"live", "dying"} BY TouchedObject
  <2> QED BY <1>1, <1>4, <2>1
<1>6. fControl[x] = Null /\ fWeakCount[x] = 0 BY <1>1 DEF Inv, ObjectInv
<1>7. /\ fControl'[p] = x /\ \A v \in All : v # p => fControl'[v] = fControl[v]
      /\ fControl' \in [All -> Objects \cup {Null}]
  BY <1>1, <1>3, <1>5, <1>6 DEF Inv, Types
<1>8. /\ \A o \in Objects : o # x => /\ state'[o] = state[o] /\ fUseCount'[o] = fUseCount[o]
                                     /\ fWeakCount'[o] = fWeakCount[o]
      /\ state'[x] = "live" /\ fUseCount'[x] = 1 /\ fWeakCount'[x] = 1
      /\ state' \in [Objects -> {"none", "live", "dying", "dead"}]
      /\ fUseCount' \in [Objects -> Nat] /\ fWeakCount' \in [Objects -> Nat]
  BY <1>1 DEF Inv, Types
<1>9. Types' BY <1>2, <1>7, <1>8 DEF Inv, Types
<1>10. /\ (\A u \in Threads : ThreadInv(u)') /\ LockOnce' /\ FreeOnce'
       /\ \A u \in Threads : \A o : Frees(u, o)' <=> Frees(u, o)
  <2>1. \A v \in All : fControl'[v] = fControl[v] \/ MayTouch(t, v) BY <1>4, <1>7
  <2> QED BY <1>2, <1>4, <2>1, IdleThreads
<1>11. Holds(p)'
  <2>1. fControl'[p] # Null /\ ~Pending(code'[t], p) BY <1>2, <1>3, <1>4, <1>7
  <2>2. \A u \in Threads : u # t => code'[u] = code[u] BY <1>2
  <2> QED BY <1>3, <1>4, <1>9, <2>1, <2>2, HoldsMine
<1>12. \A v \in All : v # p => (Holds(v)' <=> Holds(v))
  <2> SUFFICES ASSUME NEW v \in All, v # p PROVE Holds(v)' <=> Holds(v) OBVIOUS
  <2>1. \A u \in Threads : code'[u] = code[u] BY <1>2
  <2> QED BY <1>7, <1>9, <2>1, HoldsKept DEF Inv
<1>13. ASSUME NEW o \in Objects
       PROVE  /\ Cardinality(Owners(o))' = Cardinality(Owners(o)) + One(o = x)
              /\ Cardinality(Watchers(o))' = Cardinality(Watchers(o))
              /\ Cardinality(Owners(o)) \in Nat /\ Cardinality(Watchers(o)) \in Nat
  <2>1. /\ Cardinality(Owners(o)) \in Nat /\ Cardinality(Watchers(o)) \in Nat
        /\ Cardinality(Owners(o))' = Cardinality(Owners(o)) - One(p \in Owners(o)) + One(p \in Owners(o)')
        /\ Cardinality(Watchers(o))' =
              Cardinality(Watchers(o)) - One(p \in Watchers(o)) + One(p \in Watchers(o)')
    BY <1>3, <1>7, <1>12, OneChanged
  <2>2. o # Null BY Kinds
  <2>3. /\ p \notin Owners(o) /\ p \notin Watchers(o) /\ p \notin Watchers(o)'
        /\ p \in Owners(o)' <=> o = x
    BY <1>2, <1>3, <1>7, <1>11, <2>2 DEF Owners, Watchers
  <2> QED BY <2>1, <2>3 DEF One
<1>14. ObjectInv'
  <2> SUFFICES ASSUME NEW o \in Objects
               PROVE  /\ state'[o] = "dying" <=> \E u \in Threads : Frees(u, o)
                      /\ state'[o] \in {"none", "dead"} => fControl'[o] = Null
                      /\ state'[o] = "none" <=> fWeakCount'[o] = 0
    BY <1>10 DEF ObjectInv
  <2>1. /\ state[o] = "dying" <=> \E u \in Threads : Frees(u, o)
        /\ state[o] \in {"none", "dead"} => fControl[o] = Null
        /\ state[o] = "none" <=> fWeakCount[o] = 0
    BY DEF Inv, ObjectInv
  <2>2. CASE o = x BY <1>1, <1>8, <2>1, <2>2
  <2>3. CASE o # x
    <3>1. o = p => state[o] \in {"live", "dying"} BY <1>4, TouchedObject
    <3>2. o \in All BY Kinds
    <3> QED BY <1>7, <1>8, <2>1, <2>3, <3>1, <3>2
  <2> QED BY <2>2, <2>3
<1>15. UseCountsExact'
  <2> SUFFICES ASSUME NEW o \in Objects
               PROVE  /\ fUseCount'[o] = Cardinality(Owners(o)) + One(o = x)
                      /\ state'[o] = "live" <=> fUseCount'[o] > 0
    BY <1>13 DEF UseCountsExact
  <2>1. fUseCount[o] = Cardinality(Owners(o)) /\ (state[o] = "live" <=> fUseCount[o] > 0)
    BY DEF Inv, UseCountsExact
  <2>2. CASE o = x BY <1>1, <1>8, <1>13, <2>1, <2>2 DEF One
  <2>3. CASE o # x BY <1>8, <1>13, <2>1, <2>3 DEF One
  <2> QED BY <2>2, <2>3
<1>16. BlockOutlivesWeaks'
  <2> SUFFICES ASSUME NEW o \in Objects
               PROVE  fWeakCount'[o] = Cardinality(Watchers(o)) + (IF state'[o] \in {"live", "dying"} THEN 1 ELSE 0)
    BY <1>13 DEF BlockOutlivesWeaks
  <2>1. fWeakCount[o] = Cardinality(Watchers(o)) + (IF state[o] \in {"live", "dying"} THEN 1 ELSE 0)
    BY DEF Inv, BlockOutlivesWeaks
  <2>2. CASE o = x BY <1>1, <1>6, <1>8, <1>13, <2>1, <2>2
  <2>3. CASE o # x BY <1>8, <2>1, <2>3
  <2> QED BY <2>2, <2>3
<1> QED BY <1>9, <1>10, <1>14, <1>15, <1>16 DEF Inv

LEMMA SwapStep ==
  ASSUME Counting, Inv, NEW t \in Threads, NEW p, NEW q, swap(t, p, q),
         (p \in Pointers /\ q \in Pointers) \/ (p \in Weaks /\ q \in Weaks)
  PROVE  Inv'
<1>1. p \in All /\ q \in All /\ p # q /\ MayCall(t, p, q) BY Kinds DEF swap
<1>2. /\ MayTouch(t, p) /\ MayTouch(t, q) /\ code[t] = <<>>
      /\ ~Pending(code[t], p) /\ ~Pending(code[t], q)
  BY <1>1, MayCallTouch
<1>3. UNCHANGED <<state, fUseCount, fWeakCount, code>> BY DEF swap
<1>4. /\ fControl'[p] = fControl[q] /\ fControl'[q] = fControl[p]
      /\ \A v \in All : v # p /\ v # q => fControl'[v] = fControl[v]
      /\ fControl' \in [All -> Objects \cup {Null}]
  BY <1>1 DEF swap, Inv, Types
<1>5. Types' BY <1>3, <1>4 DEF Inv, Types
<1>6. \A v \in All : fControl'[v] = fControl[v] \/ MayTouch(t, v) BY <1>2, <1>4
<1>7. /\ (\A u \in Threads : ThreadInv(u)') /\ LockOnce' /\ FreeOnce'
      /\ \A u \in Threads : \A o : Frees(u, o)' <=> Frees(u, o)
  BY <1>2, <1>3, <1>6, IdleThreads
<1>8. ObjectInv' BY <1>3, <1>6, <1>7, ObjectsKept
<1>9. \A u \in Threads : code'[u] = code[u] BY <1>3
<1>10. /\ Holds(p) <=> fControl[p] # Null
       /\ Holds(q) <=> fControl[q] # Null
       /\ Holds(p)' <=> fControl[q] # Null
       /\ Holds(q)' <=> fControl[p] # Null
  BY <1>1, <1>2, <1>4, <1>5, <1>9, HoldsMine DEF Points
<1>11. \A v \in All : v # p /\ v # q => (Holds(v)' <=> Holds(v))
  <2> SUFFICES ASSUME NEW v \in All, v # p, v # q PROVE Holds(v)' <=> Holds(v) OBVIOUS
  <2> QED BY <1>4, <1>5, <1>9, HoldsKept DEF Inv
<1>12. ASSUME NEW o \in Objects
       PROVE  /\ Cardinality(Owners(o))' = Cardinality(Owners(o))
              /\ Cardinality(Watchers(o))' = Cardinality(Watchers(o))
  <2>1. IsFiniteSet(Owners(o)) /\ IsFiniteSet(Watchers(o)) BY FiniteHolders
  <2>2. p \notin Weaks \/ p \notin Pointers BY Kinds
  <2>3. o # Null BY Kinds
  <2> DEFINE A == Owners(o)
             B == Owners(o)'
             C == Watchers(o)
             D == Watchers(o)'
  <2>4. \A v : v # p /\ v # q => (v \in B <=> v \in A) /\ (v \in D <=> v \in C)
    BY <1>4, <1>11 DEF Owners, Watchers, All
  <2>5. (p \in B <=> q \in A) /\ (q \in B <=> p \in A)
    <3>1. p \in Pointers <=> q \in Pointers BY SharedObjectAssumption
    <3> QED BY <1>4, <1>10, <2>3, <3>1 DEF Owners
  <2>6. (p \in D <=> q \in C) /\ (q \in D <=> p \in C)
    <3>1. p \in Weaks <=> q \in Weaks BY SharedObjectAssumption
    <3> QED BY <1>4, <1>10, <2>3, <3>1 DEF Watchers
  <2> HIDE DEF A, B, C, D
  <2>7. /\ Cardinality(A) \in Nat
        /\ Cardinality(B) = Cardinality(A) - One(p \in A) - One(q \in A) + One(p \in B) + One(q \in B)
    BY <1>1, <2>1, <2>4, CardTwo DEF A
  <2>8. /\ Cardinality(C) \in Nat
        /\ Cardinality(D) = Cardinality(C) - One(p \in C) - One(q \in C) + One(p \in D) + One(q \in D)
    BY <1>1, <2>1, <2>4, CardTwo DEF C
  <2>9. Cardinality(B) = Cardinality(A) BY <2>5, <2>7 DEF One
  <2>10. Cardinality(D) = Cardinality(C) BY <2>6, <2>8 DEF One
  <2>11. Cardinality(Owners(o)') = Cardinality(Owners(o)) BY <2>9 DEF A, B
  <2>12. Cardinality(Watchers(o)') = Cardinality(Watchers(o)) BY <2>10 DEF C, D
  <2> QED BY <2>11, <2>12
<1>13. UseCountsExact' BY <1>3, <1>12 DEF Inv, UseCountsExact
<1>14. BlockOutlivesWeaks' BY <1>3, <1>12 DEF Inv, BlockOutlivesWeaks
<1> QED BY <1>5, <1>7, <1>8, <1>13, <1>14 DEF Inv

-----------------------------------------------------------------------------
\* The inductive invariant.
LEMMA InitInv ==
  ASSUME Counting, Init
  PROVE  Inv
<1>1. Types
  <2>1. <<>> \in Seq(Instruction) OBVIOUS
  <2> QED BY <2>1 DEF Init, Types, All
<1>2. \A t \in Threads : code[t] = <<>> BY DEF Init
<1>3. \A t \in Threads : \A i : i \notin 1 .. Len(code[t]) BY <1>2
<1>4. \A t \in Threads : ~HasLock(t) /\ \A o : ~Frees(t, o) BY <1>3 DEF HasLock, Frees
<1>5. \A t \in Threads : ThreadInv(t)
  <2> SUFFICES ASSUME NEW t \in Threads PROVE ThreadInv(t) OBVIOUS
  <2>1. Len(code[t]) = 0 BY <1>2
  <2> QED BY <1>3, <2>1 DEF ThreadInv, Shape
<1>6. LockOnce /\ FreeOnce BY <1>3, <1>4 DEF LockOnce, FreeOnce
<1>7. \A v \in All : ~Holds(v) BY DEF Init, All, Holds, Points
<1>8. \A o : Owners(o) = {} /\ Watchers(o) = {} BY <1>7 DEF Owners, Watchers, All
<1>9. Cardinality({}) = 0 BY SizeOfNone
<1>10. \A o \in Objects : /\ fUseCount[o] = 0 /\ fWeakCount[o] = 0 /\ state[o] = "none"
                          /\ Cardinality(Owners(o)) = 0 /\ Cardinality(Watchers(o)) = 0
  <2> SUFFICES ASSUME NEW o \in Objects
               PROVE  /\ fUseCount[o] = 0 /\ fWeakCount[o] = 0 /\ state[o] = "none"
                      /\ Cardinality(Owners(o)) = 0 /\ Cardinality(Watchers(o)) = 0
    OBVIOUS
  <2>1. Owners(o) = {} /\ Watchers(o) = {} BY <1>8
  <2>2. Cardinality(Owners(o)) = 0 /\ Cardinality(Watchers(o)) = 0 BY <1>9, <2>1, Zenon
  <2> QED BY <2>2 DEF Init
<1>11. UseCountsExact /\ BlockOutlivesWeaks BY <1>10 DEF UseCountsExact, BlockOutlivesWeaks
<1>12. ObjectInv
  <2>1. \A o \in Objects : state[o] = "none" /\ fWeakCount[o] = 0 /\ fControl[o] = Null
    BY DEF Init, Pointers
  <2> QED BY <1>4, <2>1 DEF ObjectInv
<1> QED BY <1>1, <1>5, <1>6, <1>11, <1>12 DEF Inv

LEMMA InstructionStep ==
  ASSUME Counting, Inv, NEW t \in Threads, Step(t)
  PROVE  Inv'
<1>1. code[t] # <<>> BY DEF Step
<1> SUFFICES ASSUME NEW c, c = Head(code[t]) PROVE Inv'
  OBVIOUS
<1>2. \/ (c.do = "setme" /\ impl_setme(t, c.p, c.from)) \/ (c.do = "zero" /\ impl_zero(t, c.p))
      \/ c.do = "take" /\ take(t, c.p, c.from)
      \/ c.do = "retain" /\ impl_saferetain(t, c.p)
      \/ c.do = "release" /\ impl_saferelease(t, c.p)
      \/ c.do = "free" /\ free(t, c.p)
      \/ c.do = "retain_weak" /\ weak_saferetain(t, c.p)
      \/ c.do = "release_weak" /\ weak_saferelease(t, c.p)
      \/ c.do = "lock" /\ lock_step(t, c.p, c.from)
      \/ c.do = "unlock" /\ unlock(t)
  BY DEF Step
<1>3. CASE (c.do = "setme" /\ impl_setme(t, c.p, c.from)) \/ (c.do = "zero" /\ impl_zero(t, c.p))
  BY <1>1, <1>3, StoreStep
<1>4. CASE c.do = "take" /\ take(t, c.p, c.from) BY <1>1, <1>4, TakeStep
<1>5. CASE c.do = "retain" /\ impl_saferetain(t, c.p) BY <1>1, <1>5, RetainStep
<1>6. CASE c.do = "release" /\ impl_saferelease(t, c.p) BY <1>1, <1>6, ReleaseStep, LastReleaseStep
<1>7. CASE c.do = "free" /\ free(t, c.p) BY <1>1, <1>7, FreeStep
<1>8. CASE c.do = "retain_weak" /\ weak_saferetain(t, c.p) BY <1>1, <1>8, RetainWeakStep
<1>9. CASE c.do = "release_weak" /\ weak_saferelease(t, c.p) BY <1>1, <1>9, ReleaseWeakStep
<1>10. CASE c.do = "lock" /\ lock_step(t, c.p, c.from) BY <1>1, <1>10, LockStep
<1>11. CASE c.do = "unlock" /\ unlock(t) BY <1>1, <1>11, UnlockStep
<1> QED BY <1>2, <1>3, <1>4, <1>5, <1>6, <1>7, <1>8, <1>9, <1>10, <1>11

LEMMA NextInv ==
  ASSUME Counting, Inv, ~SourceMayDie, Next
  PROVE  Inv'
<1>1. PICK t \in Threads :
    \/ Step(t)
    \/ \E p \in Pointers :
         \/ construct(t, p) \/ destruct(t, p)
         \/ \E q \in Pointers : \/ copy_construct(t, p, q) \/ copy_assign(t, p, q)
                                \/ move_construct(t, p, q) \/ move_assign(t, p, q) \/ swap(t, p, q)
    \/ \E w \in Weaks :
         \/ weak_destruct(t, w)
         \/ \E q \in Pointers \cup Weaks : weak_assign(t, w, q)
         \/ \E q \in Weaks : weak_move_assign(t, w, q) \/ weak_swap(t, w, q)
         \/ \E p \in Pointers : lock(t, p, w)
  BY DEF Next
<1>2. CASE Step(t) BY <1>2, InstructionStep
<1>3. CASE \E p \in Pointers : construct(t, p) BY <1>3, ConstructStep
<1>4. CASE \E p, q \in Pointers : swap(t, p, q) BY <1>4, SwapStep
<1>5. CASE \E p, q \in Weaks : weak_swap(t, p, q) BY <1>5, SwapStep DEF weak_swap
<1>6. CASE \/ \E p \in Pointers :
                \/ destruct(t, p)
                \/ \E q \in Pointers : \/ copy_construct(t, p, q) \/ copy_assign(t, p, q)
                                       \/ move_construct(t, p, q) \/ move_assign(t, p, q)
           \/ \E w \in Weaks :
                \/ weak_destruct(t, w)
                \/ \E q \in Pointers \cup Weaks : weak_assign(t, w, q)
                \/ \E q \in Weaks : weak_move_assign(t, w, q)
                \/ \E p \in Pointers : lock(t, p, w)
  BY <1>6, CallStep
<1> QED BY <1>1, <1>2, <1>3, <1>4, <1>5, <1>6

LEMMA StutterInv ==
  ASSUME Inv, UNCHANGED vars
  PROVE  Inv'
<1>1. UNCHANGED <<fControl, state, fUseCount, fWeakCount, code>> BY DEF vars
<1>2. \A v : Holds(v)' <=> Holds(v) BY <1>1 DEF Holds, Points, Before
<1>3. \A o : Owners(o)' = Owners(o) /\ Watchers(o)' = Watchers(o) BY <1>1, <1>2 DEF Owners, Watchers
<1>4. UseCountsExact' /\ BlockOutlivesWeaks'
  BY <1>1, <1>3 DEF Inv, UseCountsExact, BlockOutlivesWeaks
<1>5. Types' BY <1>1 DEF Inv, Types
<1>6. \A u \in Threads : \A o : Frees(u, o)' <=> Frees(u, o) BY <1>1 DEF Frees
<1>7. ObjectInv' BY <1>1, <1>6 DEF Inv, ObjectInv
<1>8. \A u \in Threads : (HasLock(u)' <=> HasLock(u)) /\ \A v : Mentions(u, v)' <=> Mentions(u, v)
  BY <1>1 DEF HasLock, Mentions
<1>9. LockOnce' /\ FreeOnce'
  <2>1. LockOnce' BY <1>1, <1>8 DEF Inv, LockOnce
  <2>2. FreeOnce'
    <3>1. code' = code BY <1>1
    <3>2. FreeOnce BY DEF Inv
    <3> QED BY <3>1, <3>2, ZenonT(20) DEF FreeOnce
  <2> QED BY <2>1, <2>2
<1>10. \A u \in Threads : \A v : Access(u, v)' <=> Access(u, v)
  <2>1. \A u \in Threads : Anchors(u)' = Anchors(u) BY <1>8 DEF Anchors
  <2>2. \A u \in Threads : \A v : Anchored(u, v)' <=> Anchored(u, v) BY <1>1, <2>1 DEF Anchored
  <2> QED BY <1>6, <1>8, <2>2 DEF Access
<1>11. \A u \in Threads : \A v : Source(u, v)' <=> Source(u, v) BY <1>8, <1>10 DEF Source
<1>12. ASSUME NEW u \in Threads PROVE ThreadInv(u)'
  <2>1. ThreadInv(u) BY DEF Inv
  <2>2. Shape(code[u])' BY <1>1, <2>1 DEF ThreadInv
  <2>3. ASSUME NEW i \in 1 .. Len(code'[u]) PROVE Reaches(u, code[u][i])'
    <3>1. i \in 1 .. Len(code[u]) /\ code'[u][i] = code[u][i] BY <1>1
    <3>2. Reaches(u, code[u][i]) BY <2>1, <3>1 DEF ThreadInv
    <3> QED BY <1>1, <1>10, <1>11, <3>1, <3>2 DEF Reaches
  <2>4. Len(code'[u]) >= 1 => Begun(u, code[u][1])'
    BY <1>1, <1>11, <2>1 DEF ThreadInv, Begun
  <2> QED BY <2>2, <2>3, <2>4 DEF ThreadInv
<1> QED BY <1>4, <1>5, <1>7, <1>9, <1>12 DEF Inv

LEMMA InvSource ==
  ASSUME Counting, Inv
  PROVE  SourceSurvives
<1> SUFFICES ASSUME NEW t \in Threads, NEW i \in DOMAIN code[t], NEW c, c = code[t][i], c.from # Null
             PROVE  /\ fControl[c.from] = c.held
                    /\ c.held # Null =>
                         state[c.held] \in {"live"} \cup (IF c.from \in Weaks THEN {"dying", "dead"} ELSE {})
  BY DEF SourceSurvives
<1> DEFINE q == c.from
           o == c.held
<1>1. i \in 1 .. Len(code[t]) BY DEF Inv, Types
<1>2. Fits(c) /\ Reaches(t, c) BY <1>1 DEF Inv, ThreadInv, Shape
<1>3. q \in All BY <1>2, Kinds DEF Fits
<1>4. Source(t, q) /\ fControl[q] = o BY <1>2 DEF Reaches
<1>5. ASSUME o # Null, q \in Pointers PROVE state[o] = "live"
  BY <1>3, <1>4, <1>5, SourceHolds, HeldIsLive
<1>6. ASSUME o # Null, q \in Weaks PROVE state[o] \in {"live", "dying", "dead"}
  <2>1. o \in Objects /\ state[o] # "none" BY <1>3, <1>4, <1>6, SourceHolds, WatchedBlock
  <2> QED BY <2>1 DEF Inv, Types
<1> QED BY <1>3, <1>4, <1>5, <1>6 DEF All

LEMMA SpecInv ==
  ASSUME Counting, ~SourceMayDie
  PROVE  Spec => []Inv
<1>1. Init => Inv BY InitInv
<1>2. Inv /\ [Next]_vars => Inv' BY NextInv, StutterInv
<1> QED BY <1>1, <1>2, PTL DEF Spec

\* The library's theorems on finite sets say what was assumed of them.
INSTANCE FiniteSetTheorems

LEMMA CountingHolds == Counting
<1>1. /\ IsFiniteSet({}) /\ Cardinality({}) = 0
      /\ \A S : IsFiniteSet(S) => Cardinality(S) \in Nat /\ (Cardinality(S) = 0 <=> S = {})
  BY FS_EmptySet, FS_CardinalityType
<1>2. \A S : IsFiniteSet(S) => (Cardinality(S) = 1 <=> \E x : S = {x}) BY FS_Singleton
<1>3. \A S : \A T \in SUBSET S : IsFiniteSet(S) => IsFiniteSet(T) /\ Cardinality(T) <= Cardinality(S)
  BY FS_Subset
<1>4. \A S, x : IsFiniteSet(S) =>
        /\ IsFiniteSet(S \cup {x})
        /\ Cardinality(S \cup {x}) = IF x \in S THEN Cardinality(S) ELSE Cardinality(S) + 1
  BY FS_AddElement
<1>5. \A S, x : IsFiniteSet(S) =>
        /\ IsFiniteSet(S \ {x})
        /\ Cardinality(S \ {x}) = IF x \in S THEN Cardinality(S) - 1 ELSE Cardinality(S)
  BY FS_RemoveElement
<1> QED BY <1>1, <1>2, <1>3, <1>4, <1>5 DEF Counting

\* Every use count is the number of shared pointers that hold one, and an object
\* lives exactly while its count is not zero: for any number of threads, objects
\* and pointers, and any interleaving of the instructions of assignments, moves,
\* swaps, locks and nested destructions (osmemory:202-244).
THEOREM UseCounts ==
  ASSUME ~SourceMayDie
  PROVE  Spec => []UseCountsExact
<1>1. Inv => UseCountsExact BY DEF Inv
<1> QED BY <1>1, CountingHolds, SpecInv, PTL

\* The control block is there exactly while an object that is not destroyed or a
\* weak pointer counts on it (osmemory:417-437, 516-523).
THEOREM BlockOutlives ==
  ASSUME ~SourceMayDie
  PROVE  Spec => []BlockOutlivesWeaks
<1>1. Inv => BlockOutlivesWeaks BY DEF Inv
<1> QED BY <1>1, CountingHolds, SpecInv, PTL

\* It is enough for an assignment that its caller has the source by more than
\* the target: then the release that begins it does not destroy what the source
\* holds.  Without that it may, see SourceSurvives (osmemory:258-267, 301-309).
THEOREM SourceSafe ==
  ASSUME ~SourceMayDie
  PROVE  Spec => []SourceSurvives
<1>1. Inv => SourceSurvives BY InvSource, CountingHolds
<1> QED BY <1>1, CountingHolds, SpecInv, PTL
=============================================================================
