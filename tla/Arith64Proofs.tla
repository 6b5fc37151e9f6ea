--------------------------- MODULE Arith64Proofs ----------------------------
(*************************************************************************)
(* The double-word arithmetic of libkmod, for every width of a word that *)
(* Arith64 admits, the code's included: the division routines divide,    *)
(* the shifts shift and the absolute value is one, for all arguments and *)
(* all counts.                                                           *)
(*************************************************************************)
EXTENDS Divmod64, WordSweep, TLAPS

USE ZenonT(8), SMTT(12)

\* Powers of two, as a symbol the provers do not look into.
Pow(n) == 2^n

LEMMA Widths == H \in Nat /\ W \in Nat /\ W = 2 * H /\ H >= 2
BY Arith64Assumption DEF W

LEMMA PowIs ==
  ASSUME NEW n \in 0 .. W
  PROVE  Pow(n) \in Nat \ {0}
<1>1. n \in 0 .. W /\ 0 \in 0 .. W /\ n + 0 <= W BY Widths
<1> QED BY <1>1, PowersAssumption, Zenon DEF Pow

LEMMA PowSmall == Pow(0) = 1 /\ Pow(1) = 2
BY DEF Pow

LEMMA PowSum ==
  ASSUME NEW m \in 0 .. W, NEW n \in 0 .. W, m + n <= W
  PROVE  Pow(m + n) = Pow(m) * Pow(n)
BY PowersAssumption, Zenon DEF Pow

LEMMA PowSplit ==
  ASSUME NEW m \in 0 .. W, NEW n \in 0 .. m
  PROVE  Pow(m) = Pow(n) * Pow(m - n) /\ Pow(m - n) \in Nat \ {0} /\ Pow(n) \in Nat \ {0}
<1>1. n \in 0 .. W /\ m - n \in 0 .. W /\ n + (m - n) = m /\ n + (m - n) <= W BY Widths
<1>2. Pow(n + (m - n)) = Pow(n) * Pow(m - n) BY <1>1, PowSum
<1> QED BY <1>1, <1>2, PowIs

LEMMA PowMono ==
  ASSUME NEW m \in 0 .. W, NEW n \in 0 .. m
  PROVE  Pow(n) <= Pow(m)
<1>1. Pow(m) = Pow(n) * Pow(m - n) /\ Pow(m - n) \in Nat \ {0} /\ Pow(n) \in Nat \ {0} BY PowSplit
<1>2. \A i, k \in Nat \ {0} : i <= i * k OBVIOUS
<1> QED BY <1>1, <1>2

LEMMA PowNext ==
  ASSUME NEW n \in 1 .. W
  PROVE  Pow(n) = 2 * Pow(n - 1) /\ Pow(n - 1) \in Nat \ {0}
<1>1. n \in 0 .. W /\ 1 \in 0 .. n BY Widths
<1> QED BY <1>1, PowSplit, PowSmall

-----------------------------------------------------------------------------
\* Quotients and remainders.
LEMMA DivIs ==
  ASSUME NEW n \in Int, NEW k \in Nat \ {0}
  PROVE  /\ n \div k \in Int /\ n % k \in Nat /\ n % k < k
         /\ n = (n \div k) * k + (n % k)
         /\ n >= 0 => n \div k >= 0
<1>1. n \div k \in Int /\ n % k \in 0 .. k - 1 OBVIOUS
<1>2. n >= 0 => n \div k >= 0 OBVIOUS
<1>3. n % k = n - k * (n \div k) OBVIOUS
<1> DEFINE d == n \div k
           m == n % k
<1>4. d \in Int /\ m \in 0 .. k - 1 /\ m = n - k * d /\ (n >= 0 => d >= 0) BY <1>1, <1>2, <1>3
<1> HIDE DEF d, m
<1>5. d \in Int /\ m \in Nat /\ m < k /\ n = d * k + m /\ (n >= 0 => d >= 0) BY <1>4
<1> QED BY <1>5 DEF d, m

LEMMA DivUnique ==
  ASSUME NEW q \in Int, NEW k \in Nat \ {0}, NEW r \in Nat, r < k, NEW n \in Int, n = q * k + r
  PROVE  n \div k = q /\ n % k = r
<1>1. n \div k = q OBVIOUS
<1>2. n % k = r OBVIOUS
<1> QED BY <1>1, <1>2

LEMMA Cancel ==
  ASSUME NEW i \in Int, NEW j \in Int, NEW k \in Nat \ {0}
  PROVE  /\ i * k < j * k => i < j
         /\ i < j => i * k < j * k
         /\ i <= j => i * k <= j * k
<1>1. i < j => i * k < j * k OBVIOUS
<1>2. i <= j => i * k <= j * k OBVIOUS
<1>3. i >= j => i * k >= j * k OBVIOUS
<1>4. i * k \in Int /\ j * k \in Int OBVIOUS
<1> QED BY <1>1, <1>2, <1>3, <1>4

\* A word shifted left loses its high bits, and the low ones stay what they are.
LEMMA ShiftedUp ==
  ASSUME NEW n \in Nat, NEW p \in Nat \ {0}, NEW s \in Nat \ {0}
  PROVE  (n * s) % (p * s) = (n % p) * s
<1> DEFINE d == n \div p
           m == n % p
<1>1. d \in Int /\ m \in Nat /\ m < p /\ n = d * p + m BY DivIs
<1> HIDE DEF d, m
<1>2. n * s = d * (p * s) + m * s BY <1>1
<1>3. m * s < p * s BY <1>1, Cancel
<1>4. m * s \in Nat /\ p * s \in Nat \ {0} /\ n * s \in Int BY <1>1
<1>5. (n * s) % (p * s) = m * s
  <2> DEFINE k == p * s
             r == m * s
             j == n * s
  <2>1. d \in Int /\ k \in Nat \ {0} /\ r \in Nat /\ r < k /\ j \in Int /\ j = d * k + r
    BY <1>1, <1>2, <1>3, <1>4
  <2> HIDE DEF k, r, j
  <2>2. j % k = r BY <2>1, DivUnique
  <2> QED BY <2>2 DEF k, r, j
<1> QED BY <1>5 DEF m

\* One more bit of the numerator.
LEMMA NextBit ==
  ASSUME NEW n \in Nat, NEW h \in Nat \ {0}
  PROVE  LET t == (n % (2 * h)) \div h IN
         /\ t \in {0, 1} /\ n % (2 * h) = t * h + (n % h)
         /\ n \div h = 2 * (n \div (2 * h)) + t
<1>0. SUFFICES ASSUME NEW k \in Nat \ {0}, k = 2 * h
               PROVE  /\ (n % k) \div h \in {0, 1}
                      /\ n % k = ((n % k) \div h) * h + (n % h)
                      /\ n \div h = 2 * (n \div k) + ((n % k) \div h)
  OBVIOUS
<1> DEFINE d == n \div k
           m == n % k
           t == m \div h
           u == m % h
<1>1. d \in Int /\ m \in Nat /\ m < 2 * h /\ n = d * (2 * h) + m
  <2>1. d \in Int /\ m \in Nat /\ m < k /\ n = d * k + m BY DivIs
  <2> QED BY <1>0, <2>1
<1> HIDE DEF d, m
<1>2. t \in Int /\ t >= 0 /\ u \in Nat /\ u < h /\ m = t * h + u BY <1>1, DivIs
<1> HIDE DEF t, u
<1>3. t * h < 2 * h BY <1>1, <1>2
<1>4. t < 2 BY <1>2, <1>3, Cancel
<1>5. n = (2 * d + t) * h + u BY <1>1, <1>2
<1>6. n \div h = 2 * d + t /\ n % h = u
  <2> DEFINE j == 2 * d + t
  <2>1. j \in Int /\ n \in Int /\ n = j * h + u BY <1>1, <1>2, <1>5
  <2> HIDE DEF j
  <2>2. n \div h = j /\ n % h = u BY <1>2, <2>1, DivUnique
  <2> QED BY <2>2 DEF j
<1>7. t \in {0, 1} BY <1>2, <1>4
<1> QED BY <1>2, <1>6, <1>7 DEF d, m, t

\* The numerator's top bit, and what is left when it is shifted out: v and h are the
\* weights of the lowest and the highest bit of the part that is still there.
Parts(a0, t, h, u, v, q) ==
  /\ t \in {0, 1} /\ h \in Nat \ {0} /\ u \in Nat /\ u < h /\ v \in Nat \ {0}
  /\ q \in Nat /\ q < v /\ a0 \in Int /\ a0 = (t * h + u) * v + q

Shifted(a0, t, h, u, v, q) ==
  /\ a0 \div (h * v) = t
  /\ (2 * a0) % (2 * (h * v)) = u * (2 * v) + 2 * q

LEMMA TopBit ==
  ASSUME NEW a0, NEW t, NEW h, NEW u, NEW v, NEW q, Parts(a0, t, h, u, v, q)
  PROVE  Shifted(a0, t, h, u, v, q)
<1>0. /\ t \in {0, 1} /\ h \in Nat \ {0} /\ u \in Nat /\ u < h /\ v \in Nat \ {0}
      /\ q \in Nat /\ q < v /\ a0 \in Int /\ a0 = (t * h + u) * v + q
  BY DEF Parts
<1> DEFINE low == u * v + q
           k == h * v
<1>1. k \in Nat \ {0} /\ low \in Nat BY <1>0
<1>2. low < k
  <2>1. u + 1 <= h BY <1>0
  <2>2. (u + 1) * v <= h * v BY <1>0, <2>1, Cancel
  <2> QED BY <1>0, <2>2
<1>3. a0 = t * k + low BY <1>0
<1>4. u * (2 * v) + 2 * q = 2 * low BY <1>0
<1> HIDE DEF low, k
<1>5. a0 \div k = t
  <2>1. t \in Int /\ a0 \in Int BY <1>0
  <2> QED BY <1>1, <1>2, <1>3, <2>1, DivUnique
<1>6. 2 * a0 = t * (2 * k) + 2 * low /\ 2 * low \in Nat /\ 2 * low < 2 * k /\ 2 * k \in Nat \ {0} /\ 2 * a0 \in Int
  <2>1. CASE t = 0 BY <1>0, <1>1, <1>2, <1>3, <2>1
  <2>2. CASE t = 1 BY <1>0, <1>1, <1>2, <1>3, <2>2
  <2> QED BY <1>0, <2>1, <2>2
<1>7. (2 * a0) % (2 * k) = 2 * low
  <2>1. t \in Int BY <1>0
  <2>2. SUFFICES ASSUME NEW z \in Int, z = 2 * a0, NEW l \in Nat \ {0}, l = 2 * k,
                        NEW e \in Nat, e = 2 * low, e < l, z = t * l + e
                 PROVE  z % l = e
    BY <1>6
  <2> QED BY <2>1, <2>2, DivUnique
<1> QED BY <1>4, <1>5, <1>7 DEF k, Shifted

-----------------------------------------------------------------------------
\* What a line of __clzdi2 has reached: acc.a is a0 with its top acc.n bits, all clear,
\* shifted out, and one of its top s bits is set.
Normalised(a0, acc, s) ==
  /\ acc \in [a : Nat, n : Nat] /\ acc.n + s <= W
  /\ acc.a = a0 * Pow(acc.n)
  /\ Pow(W - s) <= acc.a /\ acc.a < Pow(W)

LEMMA WordPow == /\ Word = 0 .. Pow(W) - 1 /\ Pow(W) \in Nat \ {0}
                 /\ Pow(W - 1) \in Nat \ {0} /\ Pow(W) = 2 * Pow(W - 1)
<1>1. W \in 1 .. W /\ W \in 0 .. W BY Widths
<1>2. Pow(W) \in Nat \ {0} BY <1>1, PowIs
<1>3. Pow(W - 1) \in Nat \ {0} /\ Pow(W) = 2 * Pow(W - 1) BY <1>1, PowNext
<1>4. Word = 0 .. Pow(W) - 1 BY DEF Word, Pow
<1> QED BY <1>2, <1>3, <1>4

\* Each line of the count halves the bits that may still be clear.
LEMMA ClzLineIs ==
  ASSUME NEW a0 \in Nat, NEW acc, NEW s \in Nat \ {0}, 2 * s <= W, Normalised(a0, acc, 2 * s)
  PROVE  Normalised(a0, ClzLine(W, acc, s), s)
<1>1. acc \in [a : Nat, n : Nat] /\ acc.n + 2 * s <= W /\ acc.a = a0 * Pow(acc.n)
      /\ Pow(W - 2 * s) <= acc.a /\ acc.a < Pow(W)
  BY DEF Normalised
<1>2. acc.a \in Nat /\ acc.n \in Nat BY <1>1
<1>3. W \in 0 .. W /\ s \in 0 .. W /\ W - s \in 0 .. W /\ W - 2 * s \in 0 .. W /\ s < W /\ s \in 0 .. W - s
      /\ (W - s) - s = W - 2 * s /\ acc.n \in 0 .. W /\ acc.n + s \in 0 .. W /\ acc.n + s <= W
  BY <1>1, <1>2, Widths
<1>4. Pow(W) = Pow(s) * Pow(W - s) /\ Pow(s) \in Nat \ {0} /\ Pow(W - s) \in Nat \ {0} BY <1>3, PowSplit
<1>5. Pow(W - s) = Pow(s) * Pow(W - 2 * s) /\ Pow(W - 2 * s) \in Nat \ {0} BY <1>3, PowSplit
<1>6. Pow(acc.n + s) = Pow(acc.n) * Pow(s) /\ Pow(acc.n) \in Nat \ {0} BY <1>3, PowSum, PowIs
<1>7. CASE acc.a < Pow(W - s)
  <2> DEFINE m == acc.a * Pow(s)
  <2>1. m \in Nat /\ m < Pow(W)
    <3>1. acc.a * Pow(s) < Pow(W - s) * Pow(s) BY <1>2, <1>4, <1>7, Cancel
    <3> QED BY <1>2, <1>4, <3>1
  <2>2. Pow(W - s) <= m
    <3>1. Pow(W - 2 * s) * Pow(s) <= acc.a * Pow(s) BY <1>1, <1>2, <1>4, <1>5, Cancel
    <3> QED BY <1>4, <1>5, <3>1
  <2>3. m = a0 * Pow(acc.n + s) BY <1>1, <1>4, <1>6
  <2>4. Shl(acc.a, s, W) = m
    <3>1. Shl(acc.a, s, W) = m % Pow(W) BY DEF Shl, Pow
    <3> HIDE DEF m
    <3>2. m \in Int /\ m = 0 * Pow(W) + m /\ Pow(W) \in Nat \ {0} BY <2>1, WordPow
    <3>3. m % Pow(W) = m BY <2>1, <3>2, DivUnique
    <3> QED BY <3>1, <3>3
  <2> HIDE DEF m
  <2>5. ClzLine(W, acc, s) = [a |-> m, n |-> acc.n + s]
    <3>1. ClzLine(W, acc, s) = [a |-> Shl(acc.a, s, W), n |-> acc.n + s]
      BY <1>3, <1>7 DEF ClzLine, Pow
    <3> QED BY <2>4, <3>1
  <2> QED BY <1>1, <1>2, <2>1, <2>2, <2>3, <2>5 DEF Normalised
<1>8. CASE ~(acc.a < Pow(W - s))
  <2>1. ClzLine(W, acc, s) = acc BY <1>8 DEF ClzLine, Pow
  <2>2. acc.n + s <= W /\ Pow(W - s) <= acc.a BY <1>1, <1>2, <1>4, <1>8, Widths
  <2> QED BY <1>1, <2>1, <2>2 DEF Normalised
<1> QED BY <1>7, <1>8

\* A line whose step is the width of the word or more is not there.
LEMMA ClzLineAbsent ==
  ASSUME NEW acc, NEW s \in Nat, ~(s < W)
  PROVE  ClzLine(W, acc, s) = acc
BY DEF ClzLine

\* __clzdi2 counts the leading zeros of every word but zero: as many bits as it says can
\* be shifted out, and not one more.
LEMMA ClzIs ==
  ASSUME NEW a0 \in Word, a0 # 0
  PROVE  /\ __clzdi2(a0) \in 0 .. W - 1
         /\ Pow(W - 1) <= a0 * Pow(__clzdi2(a0)) /\ a0 * Pow(__clzdi2(a0)) < Pow(W)
<1> DEFINE l0 == [a |-> a0, n |-> 0]
           l32 == ClzLine(W, l0, 32)
           l16 == ClzLine(W, l32, 16)
           l8 == ClzLine(W, l16, 8)
           l4 == ClzLine(W, l8, 4)
           l2 == ClzLine(W, l4, 2)
<1>1. a0 \in Nat /\ 1 <= a0 /\ a0 < Pow(W) BY WordPow
<1>2. __clzdi2(a0) = l2.n + (IF l2.a < Pow(W - 1) THEN 1 ELSE 0) BY DEF __clzdi2, Clz, Pow
<1>3. Normalised(a0, l0, W)
  <2>1. l0 \in [a : Nat, n : Nat] /\ l0.a = a0 /\ l0.n = 0 BY <1>1
  <2>2. W - W = 0 /\ 0 + W <= W BY Widths
  <2>3. a0 = a0 * Pow(0) BY <1>1, PowSmall
  <2> HIDE DEF l0
  <2> QED BY <1>1, <2>1, <2>2, <2>3, PowSmall DEF Normalised
<1> HIDE DEF l0
<1>4. \/ W = 4 \/ W = 8 \/ W = 16 \/ W = 32 \/ W = 64 BY Arith64Assumption DEF W
<1>5. IF W = 64 THEN Normalised(a0, l32, 32) ELSE Normalised(a0, l32, W)
  <2>1. CASE W = 64
    <3>1. Normalised(a0, l0, 2 * 32) BY <1>3, <2>1
    <3> QED BY <1>1, <2>1, <3>1, ClzLineIs
  <2>2. CASE W # 64
    <3>1. ~(32 < W) BY <1>4, <2>2
    <3>2. l32 = l0 BY <3>1, ClzLineAbsent
    <3> QED BY <1>3, <2>2, <3>2
  <2> QED BY <2>1, <2>2
<1> HIDE DEF l32
<1>6. IF W >= 32 THEN Normalised(a0, l16, 16) ELSE Normalised(a0, l16, W)
  <2>1. CASE W >= 32
    <3>1. Normalised(a0, l32, 2 * 16) BY <1>4, <1>5, <2>1
    <3>2. 2 * 16 <= W BY <2>1
    <3> QED BY <1>1, <2>1, <3>1, <3>2, ClzLineIs
  <2>2. CASE ~(W >= 32)
    <3>1. ~(16 < W) /\ W # 64 BY <1>4, <2>2
    <3>2. l16 = l32 BY <3>1, ClzLineAbsent
    <3> QED BY <1>5, <2>2, <3>1, <3>2
  <2> QED BY <2>1, <2>2
<1> HIDE DEF l16
<1>7. IF W >= 16 THEN Normalised(a0, l8, 8) ELSE Normalised(a0, l8, W)
  <2>1. CASE W >= 16
    <3>1. Normalised(a0, l16, 2 * 8) BY <1>4, <1>6, <2>1
    <3>2. 2 * 8 <= W BY <2>1
    <3> QED BY <1>1, <2>1, <3>1, <3>2, ClzLineIs
  <2>2. CASE ~(W >= 16)
    <3>1. ~(8 < W) /\ ~(W >= 32) BY <1>4, <2>2
    <3>2. l8 = l16 BY <3>1, ClzLineAbsent
    <3> QED BY <1>6, <2>2, <3>1, <3>2
  <2> QED BY <2>1, <2>2
<1> HIDE DEF l8
<1>8. Normalised(a0, l4, 4)
  <2>1. CASE W >= 8
    <3>1. Normalised(a0, l8, 2 * 4) BY <1>4, <1>7, <2>1
    <3>2. 2 * 4 <= W BY <2>1
    <3> QED BY <1>1, <3>1, <3>2, ClzLineIs
  <2>2. CASE ~(W >= 8)
    <3>1. ~(4 < W) /\ ~(W >= 16) /\ W = 4 BY <1>4, <2>2
    <3>2. l4 = l8 BY <3>1, ClzLineAbsent
    <3> QED BY <1>7, <3>1, <3>2
  <2> QED BY <2>1, <2>2
<1> HIDE DEF l4
<1>9. Normalised(a0, l2, 2)
  <2>1. Normalised(a0, l4, 2 * 2) /\ 2 * 2 <= W BY <1>4, <1>8
  <2> QED BY <1>1, <2>1, ClzLineIs
<1> HIDE DEF l2
<1>10. l2.n \in Nat /\ l2.a \in Nat /\ l2.n + 2 <= W /\ l2.a = a0 * Pow(l2.n)
       /\ Pow(W - 2) <= l2.a /\ l2.a < Pow(W)
  BY <1>9 DEF Normalised
<1>11. CASE l2.a < Pow(W - 1)
  <2>1. __clzdi2(a0) = l2.n + 1 BY <1>2, <1>11
  <2>2. l2.n + 1 \in 1 .. W /\ (l2.n + 1) - 1 = l2.n /\ l2.n + 1 \in 0 .. W - 1
        /\ W - 1 \in 1 .. W /\ (W - 1) - 1 = W - 2
    BY <1>10, Widths
  <2>3. Pow(l2.n + 1) = 2 * Pow(l2.n) /\ Pow(l2.n) \in Nat \ {0} BY <2>2, PowNext
  <2>4. Pow(W - 1) = 2 * Pow(W - 2) /\ Pow(W - 2) \in Nat \ {0} BY <2>2, PowNext
  <2>5. a0 * Pow(l2.n + 1) = 2 * l2.a BY <1>1, <1>10, <2>3
  <2>6. Pow(W - 1) <= 2 * l2.a /\ 2 * l2.a < Pow(W) BY <1>10, <1>11, <2>4, WordPow
  <2> QED BY <2>1, <2>2, <2>5, <2>6
<1>12. CASE ~(l2.a < Pow(W - 1))
  <2>1. __clzdi2(a0) = l2.n BY <1>2, <1>10, <1>12
  <2>2. l2.n \in 0 .. W - 1 BY <1>10, Widths
  <2>3. Pow(W - 1) <= l2.a BY <1>10, <1>12, WordPow
  <2> QED BY <1>10, <2>1, <2>2, <2>3
<1> QED BY <1>11, <1>12

\* The bounds a count of leading zeros puts on the word.
LEMMA ClzBounds ==
  ASSUME NEW a0 \in Word, a0 # 0, NEW z, z = __clzdi2(a0)
  PROVE  /\ z \in 0 .. W - 1
         /\ Pow((W - 1) - z) <= a0 /\ a0 < Pow(W - z)
<1>1. z \in 0 .. W - 1 /\ Pow(W - 1) <= a0 * Pow(z) /\ a0 * Pow(z) < Pow(W) BY ClzIs
<1>2. a0 \in Nat BY WordPow
<1>3. W \in 0 .. W /\ W - 1 \in 0 .. W /\ z \in 0 .. W BY <1>1, Widths
<1>4. Pow(W) = Pow(z) * Pow(W - z) /\ Pow(W - z) \in Nat \ {0} /\ Pow(z) \in Nat \ {0} BY <1>3, PowSplit
<1>5. Pow(W - 1) = Pow(z) * Pow((W - 1) - z) /\ Pow((W - 1) - z) \in Nat \ {0} BY <1>1, <1>3, PowSplit
<1>6. a0 < Pow(W - z)
  <2>1. a0 * Pow(z) < Pow(W - z) * Pow(z) BY <1>1, <1>2, <1>4
  <2> QED BY <1>2, <1>4, <2>1, Cancel
<1>7. Pow((W - 1) - z) <= a0
  <2>1. SUFFICES ASSUME a0 < Pow((W - 1) - z) PROVE FALSE BY <1>2, <1>5
  <2>2. a0 * Pow(z) < Pow((W - 1) - z) * Pow(z) BY <1>2, <1>4, <1>5, <2>1, Cancel
  <2> QED BY <1>1, <1>2, <1>4, <1>5, <2>2
<1> QED BY <1>1, <1>6, <1>7

\* The long division makes at least one pass and at most W - 1, so that no shift of it is
\* by the word's width; it skips only passes that could not have subtracted the divisor.
LEMMA PassesIs ==
  ASSUME NEW n \in Word, b \in Word, 2 <= b, b <= n, NEW p, p = PassesNeeded(n)
  PROVE  /\ p \in 1 .. W - 1
         /\ n < b * Pow(p)
         /\ b > Pow(W - 1) => p = 1
<1> DEFINE i == __clzdi2(b)
           j == __clzdi2(n)
<1>1. b \in Nat /\ n \in Nat /\ b # 0 /\ n # 0 BY WordPow
<1>2. i \in 0 .. W - 1 /\ Pow((W - 1) - i) <= b /\ b < Pow(W - i) BY <1>1, ClzBounds
<1>3. j \in 0 .. W - 1 /\ Pow((W - 1) - j) <= n /\ n < Pow(W - j) BY <1>1, ClzBounds
<1>4. p = i - j + 1 BY DEF PassesNeeded
<1> HIDE DEF i, j
<1>5. W \in Nat /\ W >= 4 BY Widths
<1>6. j <= i
  <2>1. SUFFICES ASSUME j > i PROVE FALSE BY <1>2, <1>3, <1>5
  <2>2. (W - 1) - i \in 0 .. W /\ W - j \in 0 .. (W - 1) - i BY <1>2, <1>3, <1>5, <2>1
  <2>3. Pow(W - j) <= Pow((W - 1) - i) BY <2>2, PowMono
  <2>4. W - j \in 0 .. W BY <1>3, <1>5
  <2>5. Pow((W - 1) - i) \in Nat /\ Pow(W - j) \in Nat BY <2>2, <2>4, PowIs
  <2> QED BY <1>1, <1>2, <1>3, <2>3, <2>5
<1>7. i # W - 1
  <2>1. SUFFICES ASSUME i = W - 1 PROVE FALSE OBVIOUS
  <2>2. W - i = 1 BY <1>5, <2>1
  <2> QED BY <1>1, <1>2, <2>2, PowSmall
<1>8. p \in 1 .. W - 1 BY <1>2, <1>3, <1>4, <1>5, <1>6, <1>7
<1>9. n < b * Pow(p)
  <2>1. W - j \in 0 .. W /\ p \in 0 .. W - j /\ (W - j) - p = (W - 1) - i
    BY <1>2, <1>3, <1>4, <1>5, <1>8
  <2>2. Pow(W - j) = Pow(p) * Pow((W - 1) - i) /\ Pow((W - 1) - i) \in Nat \ {0} /\ Pow(p) \in Nat \ {0}
    BY <2>1, PowSplit
  <2>3. Pow((W - 1) - i) * Pow(p) <= b * Pow(p) BY <1>1, <1>2, <2>2, Cancel
  <2>4. b * Pow(p) \in Nat /\ Pow(p) * Pow((W - 1) - i) = Pow((W - 1) - i) * Pow(p) BY <1>1, <2>2
  <2> QED BY <1>1, <1>3, <2>2, <2>3, <2>4
<1>10. ASSUME b > Pow(W - 1) PROVE p = 1
  <2>1. i = 0
    <3>1. SUFFICES ASSUME i > 0 PROVE FALSE BY <1>2, <1>5
    <3>2. W - 1 \in 0 .. W /\ W - i \in 0 .. W - 1 /\ W - i \in 0 .. W BY <1>2, <1>5, <3>1
    <3>3. Pow(W - i) <= Pow(W - 1) BY <3>2, PowMono
    <3>4. Pow(W - i) \in Nat BY <3>2, PowIs
    <3> QED BY <1>1, <1>2, <1>10, <3>3, <3>4, WordPow
  <2> QED BY <1>3, <1>4, <1>5, <1>6, <2>1
<1> QED BY <1>8, <1>9, <1>10

-----------------------------------------------------------------------------
Num == Magnitude(Dividend)
Passes == PassesNeeded(Num)

\* Long division under way, bits passes before its end: a holds the numerator bits not yet
\* consumed above the quotient bits found, q, of which wrap has the last.
Dividing(q) ==
  /\ q < Pow(Passes - bits)
  /\ a = (Num % Pow(bits)) * Pow(W - bits) + q
  /\ Num \div Pow(bits) = (2 * q + (wrap % 2)) * b + rem

LoopInv ==
  /\ 2 <= b /\ b <= Num /\ bits \in 0 .. Passes /\ rem < b
  /\ \E q \in Word : Dividing(q)

DivInv ==
  /\ TypeOK
  /\ pc # "idle" => b = Magnitude(Divisor)
  /\ pc \in {"entry", "narrow", "setup"} => a = Num
  /\ pc \in {"narrow", "setup"} => b <= a
  /\ pc = "setup" => 2 <= b
  /\ pc = "loop" => LoopInv
  /\ pc = "return" => b # 0 /\ ret = Num \div b /\ (f \in Remainders => c = Num % b)
  /\ pc = "done" => b # 0 /\ ret = Correct
  /\ pc = "trap" => b = 0

-----------------------------------------------------------------------------
\* One pass over the numbers n and d, with i bits to go: m is the remainder so far, 2 * q + w
\* the quotient so far, a0 the numerator, and r, q1 and a1 what the pass makes of them.
PassFrom(n, d, p, i, q, w, m, a0, r, q1, a1) ==
  /\ m < d /\ d <= n /\ q < Pow(p - i)
  /\ a0 = (n % Pow(i)) * Pow(W - i) + q /\ n \div Pow(i) = (2 * q + w) * d + m
  /\ d > Pow(W - 1) => p = 1
  /\ r = 2 * m + Shr(a0, W - 1) /\ q1 = 2 * q + w /\ a1 = Shl(a0, 1, W) + w

PassTo(n, d, p, i, r, q1, a1) ==
  /\ r \in Word /\ r < 2 * d
  /\ q1 \in Word /\ q1 < Pow(p - (i - 1))
  /\ a1 \in Word /\ a1 = (n % Pow(i - 1)) * Pow(W - (i - 1)) + q1
  /\ n \div Pow(i - 1) = (2 * q1) * d + r
  /\ r < d => d <= Pow(W - 1)

LEMMA PassArith ==
  ASSUME NEW n \in Word, NEW d \in Word, NEW p \in 1 .. W - 1, NEW i \in 1 .. p,
         NEW q \in Word, NEW w \in {0, 1}, NEW m \in Word, NEW a0 \in Word,
         NEW r, NEW q1, NEW a1, PassFrom(n, d, p, i, q, w, m, a0, r, q1, a1)
  PROVE  PassTo(n, d, p, i, r, q1, a1)
<1>30. m < d /\ d <= n /\ q < Pow(p - i) /\ (d > Pow(W - 1) => p = 1) BY DEF PassFrom
<1>31. a0 = (n % Pow(i)) * Pow(W - i) + q BY DEF PassFrom
<1>32. n \div Pow(i) = (2 * q + w) * d + m BY DEF PassFrom
<1>33. r = 2 * m + Shr(a0, W - 1) /\ q1 = 2 * q + w /\ a1 = Shl(a0, 1, W) + w BY DEF PassFrom
<1> DEFINE h == Pow(i - 1)
           v == Pow(W - i)
           u == n % h
           t == (n % (2 * h)) \div h
           g == Pow(p - i)
           e == n \div h
<1>1. /\ i \in 1 .. W /\ i \in 0 .. W /\ W - i \in 0 .. W /\ i - 1 \in 0 .. W /\ i - 1 \in 0 .. W - 1
      /\ p - i \in 0 .. W /\ p - i \in 0 .. W - i /\ (p - i) + 1 \in 1 .. W /\ ((p - i) + 1) - 1 = p - i
      /\ p - (i - 1) = (p - i) + 1 /\ W - (i - 1) \in 1 .. W /\ (W - (i - 1)) - 1 = W - i
      /\ W - 1 \in 0 .. W /\ (W - 1) - (i - 1) = W - i
  BY Widths
<1>2. Pow(i) = 2 * h /\ h \in Nat \ {0} BY <1>1, PowNext
<1>3. v \in Nat \ {0} /\ Pow(W - (i - 1)) = 2 * v BY <1>1, PowNext
<1>4. Pow(W - 1) = h * v /\ Pow(W) = 2 * (h * v)
  <2>1. Pow(W - 1) = Pow(i - 1) * Pow((W - 1) - (i - 1)) BY <1>1, PowSplit
  <2> QED BY <1>1, <2>1, WordPow
<1>5. g \in Nat \ {0} /\ g <= v /\ Pow(p - (i - 1)) = 2 * g
  <2>1. g \in Nat \ {0} BY <1>1, PowIs
  <2>2. g <= v BY <1>1, PowMono
  <2>3. Pow((p - i) + 1) = 2 * Pow(((p - i) + 1) - 1) BY <1>1, PowNext
  <2> QED BY <1>1, <2>1, <2>2, <2>3
<1>6. n \in Nat /\ d \in Nat /\ q \in Nat /\ m \in Nat /\ a0 \in Nat /\ n < Pow(W) BY WordPow
<1>7. /\ t \in {0, 1} /\ n % (2 * h) = t * h + u /\ e = 2 * (n \div (2 * h)) + t BY <1>2, <1>6, NextBit
<1> HIDE DEF h, v, g
<1>8. u \in Nat /\ u < h /\ e \in Nat /\ n = e * h + u
  <2>1. n \in Int /\ n >= 0 BY <1>6
  <2>2. e \in Int /\ u \in Nat /\ u < h /\ n = e * h + u /\ e >= 0 BY <1>2, <2>1, DivIs
  <2> QED BY <2>2
<1>9. a0 = (t * h + u) * v + q /\ e = 2 * (q1 * d + m) + t
  BY <1>2, <1>7, <1>31, <1>32, <1>33 DEF v
<1> HIDE DEF u, t, e
<1>10. Shr(a0, W - 1) = t /\ Shl(a0, 1, W) = u * (2 * v) + 2 * q
  <2>1. q < v BY <1>3, <1>5, <1>6, <1>30 DEF g
  <2>2. a0 \in Int BY <1>6
  <2>3. Shifted(a0, t, h, u, v, q)
    <3>1. Parts(a0, t, h, u, v, q)
      BY <1>2, <1>3, <1>6, <1>7, <1>8, <1>9, <2>1, <2>2 DEF Parts
    <3> QED BY <3>1, TopBit, Zenon
  <2>4. Shr(a0, W - 1) = a0 \div Pow(W - 1) BY DEF Shr, Pow
  <2>5. Shl(a0, 1, W) = (a0 * Pow(1)) % Pow(W) BY DEF Shl, Pow
  <2>6. a0 * Pow(1) = 2 * a0 BY <1>6, PowSmall
  <2> QED BY <1>4, <2>3, <2>4, <2>5, <2>6 DEF Shifted
<1>11. r = 2 * m + t /\ r \in Nat /\ r < 2 * d BY <1>6, <1>7, <1>10, <1>30, <1>33
<1>12. q1 \in Nat /\ q1 < 2 * g /\ a1 = u * (2 * v) + q1 /\ a1 \in Nat
  <2>1. q + 1 <= g BY <1>5, <1>6, <1>30 DEF g
  <2>2. a1 = u * (2 * v) + 2 * q + w /\ q1 = 2 * q + w BY <1>10, <1>33
  <2>3. u * (2 * v) \in Nat BY <1>3, <1>8
  <2> QED BY <1>3, <1>5, <1>6, <2>1, <2>2, <2>3
<1>13. e = (2 * q1) * d + r
  <2>1. SUFFICES ASSUME NEW z \in Nat, z = q1 * d PROVE e = (2 * q1) * d + r BY <1>6, <1>12
  <2>2. (2 * q1) * d = 2 * z BY <1>6, <1>12, <2>1
  <2> QED BY <1>6, <1>7, <1>9, <1>11, <2>1, <2>2
<1>14. q1 <= a1 BY <1>3, <1>8, <1>12
<1>15. a1 < Pow(W)
  <2>1. u + 1 <= h /\ 2 * v \in Nat \ {0} /\ u + 1 \in Int BY <1>2, <1>3, <1>8
  <2>2. (u + 1) * (2 * v) <= h * (2 * v) BY <1>2, <2>1, Cancel
  <2>3. h * (2 * v) = Pow(W) BY <1>2, <1>3, <1>4
  <2>4. (u + 1) * (2 * v) = u * (2 * v) + 2 * v BY <1>3, <1>8
  <2>5. SUFFICES ASSUME NEW z \in Nat, z = u * (2 * v) PROVE a1 < Pow(W) BY <1>3, <1>8
  <2>6. z + 2 * v <= Pow(W) /\ a1 = z + q1 BY <1>12, <2>2, <2>3, <2>4, <2>5
  <2>7. q1 < 2 * v BY <1>3, <1>5, <1>12
  <2>8. q1 \in Nat /\ 2 * v \in Nat /\ Pow(W) \in Nat BY <1>3, <1>12, WordPow
  <2> QED BY <2>6, <2>7, <2>8
<1>16. e <= n
  <2>1. e <= e * h BY <1>2, <1>8
  <2>2. e * h \in Nat BY <1>2, <1>8
  <2> QED BY <1>6, <1>8, <2>1, <2>2
<1>17. r <= e
  <2>1. (2 * q1) * d \in Nat BY <1>6, <1>12
  <2> QED BY <1>8, <1>11, <1>13, <2>1
<1>18. r \in Word /\ q1 \in Word /\ a1 \in Word
  <2>1. r \in Word
    <3>0. r \in Nat /\ e \in Nat /\ n \in Nat /\ Pow(W) \in Nat /\ n < Pow(W) BY <1>6, <1>8, <1>11, WordPow
    <3>1. r < Pow(W) BY <1>16, <1>17, <3>0
    <3> QED BY <1>11, <3>1, WordPow
  <2>2. \A k \in Nat : k < Pow(W) => k \in Word BY WordPow
  <2>3. a1 \in Nat /\ q1 \in Nat BY <1>12
  <2>4. q1 < Pow(W) BY <1>14, <1>15, <2>3, WordPow
  <2> QED BY <1>15, <2>1, <2>2, <2>3, <2>4
<1>19. ASSUME r < d, d > Pow(W - 1) PROVE FALSE
  <2>1. p = 1 /\ i = 1 BY <1>19, <1>30, Widths
  <2>2. h = 1 /\ g = 1 BY <2>1, PowSmall DEF h, g
  <2>3. q = 0 /\ q1 = w BY <1>6, <1>30, <1>33, <2>2 DEF g
  <2>4. e = n
    <3>1. u = 0 BY <1>8, <2>2
    <3> QED BY <1>6, <1>8, <2>2, <3>1
  <2>5. CASE w = 0
    <3>1. n = r BY <1>6, <1>11, <1>13, <2>3, <2>4, <2>5
    <3> QED BY <1>6, <1>19, <1>30, <3>1
  <2>6. CASE w = 1
    <3>1. n = 2 * d + r BY <1>6, <1>11, <1>13, <2>3, <2>4, <2>6
    <3>2. n \in Nat /\ d \in Nat /\ r \in Nat /\ n < Pow(W) BY <1>6, <1>11
    <3>3. Pow(W) = 2 * Pow(W - 1) /\ Pow(W - 1) \in Nat BY WordPow
    <3> QED BY <1>19, <3>1, <3>2, <3>3
  <2> QED BY <2>5, <2>6
<1>20. r < d => d <= Pow(W - 1) BY <1>6, <1>19, WordPow
<1>21. a1 = (n % Pow(i - 1)) * Pow(W - (i - 1)) + q1 BY <1>3, <1>12 DEF h, u
<1>22. n \div Pow(i - 1) = (2 * q1) * d + r BY <1>13 DEF h, e
<1>23. q1 < Pow(p - (i - 1)) BY <1>5, <1>12
<1>24. r < 2 * d BY <1>11
<1> QED BY <1>18, <1>20, <1>21, <1>22, <1>23, <1>24 DEF PassTo

-----------------------------------------------------------------------------
\* What a number's residue is when the number is a word, or a word below zero.
LEMMA UnsignedIs ==
  ASSUME NEW i \in Int
  PROVE  /\ i \in Word => Unsigned(i) = i
         /\ i < 0 /\ i >= -Pow(W) => Unsigned(i) = Pow(W) + i
         /\ Unsigned(i) \in Word
<1> DEFINE k == Pow(W)
<1>1. Unsigned(i) = i % k BY DEF Unsigned, Pow
<1>2. k \in Nat \ {0} /\ Word = 0 .. k - 1 BY WordPow
<1> HIDE DEF k
<1>3. ASSUME i \in Word PROVE i % k = i
  <2>1. i \in Nat /\ i < k /\ i = 0 * k + i BY <1>2, <1>3
  <2> QED BY <1>2, <2>1, DivUnique
<1>4. ASSUME i < 0, i >= -k PROVE i % k = k + i
  <2>1. k + i \in Nat /\ k + i < k BY <1>2, <1>4
  <2>2. SUFFICES ASSUME NEW r \in Nat, r = k + i, r < k PROVE i % k = r
    BY <2>1
  <2> DEFINE d == i \div k
             m == i % k
  <2>3. d \in Int /\ m \in Nat /\ m < k /\ i = d * k + m BY <1>2, DivIs
  <2> HIDE DEF d, m
  <2>4. (d + 1) * k = r - m BY <1>2, <2>2, <2>3
  <2>5. d + 1 >= 1 => (d + 1) * k >= k BY <1>2, <2>3
  <2>6. d + 1 <= -1 => (d + 1) * k <= -k BY <1>2, <2>3
  <2>7. d + 1 = 0 BY <1>2, <2>2, <2>3, <2>4, <2>5, <2>6
  <2>8. m = r BY <1>2, <2>2, <2>3, <2>4, <2>7
  <2> QED BY <2>8 DEF m
<1>5. i % k \in Word BY <1>2, DivIs
<1> QED BY <1>1, <1>3, <1>4, <1>5 DEF k

LEMMA NegativeIs ==
  ASSUME NEW m \in Word
  PROVE  IsNegative(m) <=> m >= Pow(W - 1)
BY DEF IsNegative, Pow

\* AllOnes is a word, negative, odd and not zero.
LEMMA AllOnesIs == AllOnes \in Word /\ IsNegative(AllOnes) /\ AllOnes % 2 = 1 /\ AllOnes # 0
<1>1. AllOnes = Pow(W) - 1 BY DEF AllOnes, Pow
<1>2. AllOnes \in Word /\ AllOnes >= Pow(W - 1) /\ AllOnes # 0 BY <1>1, WordPow
<1>3. AllOnes % 2 = 1
  <2>1. SUFFICES ASSUME NEW k \in Int, NEW j \in Int, j = 2 * k + 1 PROVE j % 2 = 1
    <3>1. Pow(W - 1) - 1 \in Int /\ AllOnes = 2 * (Pow(W - 1) - 1) + 1 /\ AllOnes \in Int BY <1>1, WordPow
    <3> QED BY <3>1
  <2> QED BY <2>1
<1> QED BY <1>2, <1>3, NegativeIs

\* Negating a word is taking the residue of the negative number.
LEMMA NegIs ==
  ASSUME NEW q \in Word, NEW s \in Word
  PROVE  /\ IsNegative(s) => arith64_neg(q, s) = Unsigned(0 - q)
         /\ ~IsNegative(s) => arith64_neg(q, s) = Unsigned(q)
         /\ arith64_neg(q, s) \in Word
<1>1. q \in Nat /\ q < Pow(W) /\ Pow(W) \in Nat BY WordPow
<1>2. ASSUME IsNegative(s) PROVE arith64_neg(q, s) = Unsigned(0 - q)
  <2>1. arith64_neg(q, s) = Unsigned((Pow(W) - 1 - q) + 1) BY <1>2 DEF arith64_neg, Pow
  <2>2. (Pow(W) - 1 - q) + 1 = Pow(W) - q BY <1>1
  <2>3. CASE q = 0
    <3>1. Unsigned(Pow(W) - q) = 0
      <4>1. Unsigned(Pow(W) - q) = (Pow(W) - q) % Pow(W) BY DEF Unsigned, Pow
      <4>2. Pow(W) - q = Pow(W) BY <1>1, <2>3
      <4>3. SUFFICES ASSUME NEW k \in Nat \ {0}, k = Pow(W) PROVE k % k = 0 BY <4>1, <4>2, WordPow
      <4>4. k = 1 * k + 0 /\ 0 < k OBVIOUS
      <4> QED BY <4>4, DivUnique
    <3>2. 0 - q = 0 BY <1>1, <2>3
    <3>3. 0 \in Word BY WordPow
    <3> QED BY <2>1, <2>2, <3>1, <3>2, <3>3, UnsignedIs
  <2>4. CASE q # 0
    <3>1. Pow(W) - q \in Word /\ Pow(W) - q \in Int BY <1>1, <2>4, WordPow
    <3>2. 0 - q \in Int /\ 0 - q < 0 /\ 0 - q >= -Pow(W) /\ Pow(W) + (0 - q) = Pow(W) - q BY <1>1, <2>4
    <3>3. Unsigned(Pow(W) - q) = Pow(W) - q BY <3>1, UnsignedIs
    <3>4. Unsigned(0 - q) = Pow(W) + (0 - q) BY <3>2, UnsignedIs
    <3> QED BY <2>1, <2>2, <3>2, <3>3, <3>4
  <2> QED BY <2>3, <2>4
<1>3. ASSUME ~IsNegative(s) PROVE arith64_neg(q, s) = Unsigned(q)
  <2>1. arith64_neg(q, s) = q BY <1>3 DEF arith64_neg
  <2> QED BY <1>1, <2>1, UnsignedIs
<1>4. 0 - q \in Int /\ q \in Int BY <1>1
<1> QED BY <1>2, <1>3, <1>4, UnsignedIs

\* The magnitude of a word read as a signed number is a word, and arith64_abs finds it.
LEMMA AbsIs ==
  ASSUME NEW m \in Word
  PROVE  /\ arith64_abs(m) = Magnitude(Signed(m)) /\ arith64_abs(m) \in Word
         /\ Signed(m) \in Int /\ (Signed(m) < 0 <=> IsNegative(m))
         /\ Magnitude(m) = m /\ m \in Int /\ ~(m < 0)
<1>1. m \in Nat /\ m < Pow(W) /\ Pow(W) \in Nat BY WordPow
<1>2. ASSUME IsNegative(m) PROVE Signed(m) = m - Pow(W) /\ arith64_abs(m) = Pow(W) - m
  <2>1. m # 0 BY <1>1, <1>2, NegativeIs, WordPow
  <2>2. arith64_abs(m) = Unsigned(0 - m) BY <1>2, NegIs DEF arith64_abs
  <2>3. 0 - m \in Int /\ 0 - m < 0 /\ 0 - m >= -Pow(W) /\ Pow(W) + (0 - m) = Pow(W) - m BY <1>1, <2>1
  <2>4. Unsigned(0 - m) = Pow(W) + (0 - m) BY <2>3, UnsignedIs
  <2>5. Signed(m) = m - Pow(W) BY <1>2 DEF Signed, Pow
  <2> QED BY <2>2, <2>3, <2>4, <2>5
<1>3. ASSUME ~IsNegative(m) PROVE Signed(m) = m /\ arith64_abs(m) = m
  BY <1>3 DEF Signed, arith64_abs, arith64_neg
<1>4. arith64_abs(m) \in Word BY NegIs DEF arith64_abs
<1> QED BY <1>1, <1>2, <1>3, <1>4 DEF Magnitude

-----------------------------------------------------------------------------
\* The sign test of the loop is the comparison it stands for.  It needs both sides: a
\* remainder short of twice the divisor, and a divisor in the lower half of the words
\* whenever the remainder is below it.
LEMMA MaskIs ==
  ASSUME b \in Word, NEW r \in Word, r < 2 * b, r < b => b <= Pow(W - 1)
  PROVE  WrapMask(r) = IF r < b THEN 0 ELSE AllOnes
<1> DEFINE i == b - r - 1
<1>1. b \in Nat /\ r \in Nat /\ b < Pow(W) /\ r < Pow(W) /\ Pow(W) = 2 * Pow(W - 1) /\ Pow(W - 1) \in Nat
  BY WordPow
<1>2. i \in Int BY <1>1
<1>3. CASE r < b
  <2>1. i \in Word /\ i < Pow(W - 1) BY <1>1, <1>3, WordPow
  <2>2. Unsigned(i) = i /\ ~IsNegative(i) BY <1>1, <1>2, <2>1, UnsignedIs, NegativeIs
  <2> QED BY <1>3, <2>2 DEF WrapMask
<1>4. CASE ~(r < b)
  <2>1. i < 0 /\ i >= -Pow(W) /\ Pow(W) + i >= Pow(W - 1) BY <1>1, <1>4
  <2> HIDE DEF i
  <2>2. Unsigned(i) = Pow(W) + i /\ Unsigned(i) \in Word BY <1>2, <2>1, UnsignedIs
  <2>3. IsNegative(Unsigned(i)) BY <2>1, <2>2, NegativeIs
  <2> QED BY <1>4, <2>3 DEF WrapMask, i
<1> QED BY <1>3, <1>4

LEMMA Magnitudes ==
  ASSUME TypeOK
  PROVE  Num \in Word /\ Magnitude(Divisor) \in Word /\ Dividend \in Int /\ Divisor \in Int
<1>1. x \in Word /\ y \in Word BY DEF TypeOK
<1> QED BY <1>1, AbsIs DEF Num, Dividend, Divisor

\* Nothing but a call changes what is being divided.
LEMMA SameNum ==
  ASSUME UNCHANGED args
  PROVE  /\ Num' = Num /\ Passes' = Passes /\ Correct' = Correct
         /\ Magnitude(Divisor)' = Magnitude(Divisor)
BY DEF args, Num, Passes, Dividend, Divisor, Magnitude, PassesNeeded, Correct, Sign

LEMMA InitInv == Init => DivInv
<1> SUFFICES ASSUME Init PROVE DivInv OBVIOUS
<1>1. 0 \in Word /\ 0 \in -1 .. W - 1 BY WordPow, Widths
<1>2. "__udivdi3" \in Routines BY DEF Routines
<1> QED BY <1>1, <1>2 DEF Init, DivInv, TypeOK

LEMMA CallStep ==
  ASSUME DivInv, NEW g \in Routines, NEW m \in Args, NEW n \in Args, Call(g, m, n)
  PROVE  DivInv'
<1>1. m \in Word /\ n \in Word BY ArgsAssumption
<1>2. a' \in Word /\ b' \in Word BY <1>1, AbsIs DEF Call
<1>3. a' = Num' BY <1>1, AbsIs DEF Call, Num, Dividend, Magnitude
<1>4. b' = Magnitude(Divisor)' BY <1>1, AbsIs DEF Call, Divisor, Magnitude
<1>5. TypeOK' BY <1>1, <1>2 DEF Call, DivInv, TypeOK
<1> QED BY <1>3, <1>4, <1>5 DEF Call, DivInv

\* What an answer has to be.
LEMMA AnswerStep ==
  ASSUME DivInv, pc # "idle", NEW q, NEW r, Answer(q, r), UNCHANGED args,
         b # 0, q = Num \div b, r = Num % b, a' \in Word, rem' \in Word, wrap' \in {0, AllOnes},
         bits' \in -1 .. W - 1
  PROVE  DivInv'
<1>1. Num' = Num /\ Magnitude(Divisor)' = Magnitude(Divisor) /\ b' = b /\ f' = f
  BY SameNum DEF args
<1>2. Num \in Word /\ b \in Word BY Magnitudes DEF DivInv, TypeOK
<1>3. q \in Word /\ r \in Word
  <2>1. Num \in Nat /\ b \in Nat \ {0} /\ Num \in Int /\ Num >= 0 BY <1>2, WordPow
  <2>2. q \in Int /\ r \in Nat /\ r < b /\ q >= 0 /\ Num = q * b + r BY <2>1, DivIs
  <2>3. q <= q * b /\ q * b \in Nat BY <2>1, <2>2
  <2>4. q <= Num BY <2>1, <2>2, <2>3
  <2> QED BY <1>2, <2>1, <2>2, <2>4, WordPow
<1>4. TypeOK' BY <1>3 DEF DivInv, TypeOK, Answer, args
<1> QED BY <1>1, <1>4 DEF DivInv, Answer

LEMMA EntrySteps ==
  ASSUME DivInv, EntrySmall \/ Entry
  PROVE  DivInv'
<1>1. pc = "entry" /\ a = Num /\ a \in Word /\ b \in Word BY DEF DivInv, EntrySmall, Entry, TypeOK
<1>2. a \in Nat /\ b \in Nat BY <1>1, WordPow
<1>3. CASE EntrySmall
  <2>1. b > a /\ UNCHANGED <<args, a, locals>> BY <1>3 DEF EntrySmall
  <2>2. b \in Nat \ {0} /\ a < b /\ a = 0 * b + a BY <1>2, <2>1
  <2>3. a \div b = 0 /\ a % b = a BY <1>2, <2>2, DivUnique
  <2>4. /\ Answer(0, a) /\ pc # "idle" /\ UNCHANGED args /\ b # 0 /\ 0 = Num \div b /\ a = Num % b
    BY <1>1, <1>3, <2>1, <2>2, <2>3 DEF EntrySmall
  <2>5. a' \in Word /\ rem' \in Word /\ wrap' \in {0, AllOnes} /\ bits' \in -1 .. W - 1
    BY <2>1 DEF DivInv, TypeOK, locals
  <2> QED BY <2>4, <2>5, AnswerStep
<1>4. CASE Entry
  <2>1. UNCHANGED <<args, a, locals, c, ret>> /\ ~(b > a) BY <1>4 DEF Entry
  <2>2. pc' = IF arith64_hi(b) = 0 THEN "narrow" ELSE "setup" BY <1>4 DEF Entry
  <2>3. TypeOK' BY <2>1, <2>2 DEF DivInv, TypeOK, args, locals
  <2>4. arith64_hi(b) # 0 => 2 <= b
    <3>1. SUFFICES ASSUME b < 2 PROVE arith64_hi(b) = 0 BY <1>2
    <3>2. H \in 2 .. W /\ H \in 0 .. W /\ 1 \in 0 .. H BY Widths
    <3>3. Pow(H) \in Nat \ {0} /\ Pow(1) <= Pow(H) BY <3>2, PowIs, PowMono
    <3>4. b < Pow(H) /\ b = 0 * Pow(H) + b BY <1>2, <3>1, <3>3, PowSmall
    <3>5. b \div Pow(H) = 0 BY <1>2, <3>3, <3>4, DivUnique
    <3> QED BY <3>5 DEF arith64_hi, Pow
  <2>5. Num' = Num /\ Magnitude(Divisor)' = Magnitude(Divisor) /\ b' = b /\ a' = a
    BY <2>1, SameNum DEF args
  <2>6. b <= a BY <1>2, <2>1
  <2> QED BY <1>1, <2>2, <2>3, <2>4, <2>5, <2>6 DEF DivInv
<1> QED BY <1>3, <1>4

LEMMA NarrowSteps ==
  ASSUME DivInv, NarrowByZero \/ NarrowByOne \/ NarrowBoth \/ NarrowOn
  PROVE  DivInv'
<1>1. /\ pc = "narrow" /\ a = Num /\ a \in Word /\ b \in Word /\ b <= a
      /\ UNCHANGED <<args, a, locals>>
  BY DEF DivInv, NarrowByZero, NarrowByOne, NarrowBoth, NarrowOn, TypeOK
<1>2. a \in Nat /\ b \in Nat BY <1>1, WordPow
<1>3. Num' = Num /\ Magnitude(Divisor)' = Magnitude(Divisor) /\ b' = b /\ a' = a
  BY <1>1, SameNum DEF args
<1>4. a' \in Word /\ rem' \in Word /\ wrap' \in {0, AllOnes} /\ bits' \in -1 .. W - 1
  BY <1>1 DEF DivInv, TypeOK, locals
<1>5. CASE NarrowByZero
  <2>1. b = 0 /\ pc' = "trap" /\ UNCHANGED <<c, ret>> BY <1>5 DEF NarrowByZero
  <2>2. TypeOK' BY <1>1, <2>1 DEF DivInv, TypeOK, args, locals
  <2> QED BY <1>1, <1>3, <2>1, <2>2 DEF DivInv
<1>6. CASE NarrowByOne
  <2>1. b = 1 /\ Answer(a, 0) BY <1>6 DEF NarrowByOne, ByOne
  <2>2. a = a * 1 + 0 BY <1>2
  <2>3. a \div 1 = a /\ a % 1 = 0 BY <1>2
  <2> QED BY <1>1, <1>4, <2>1, <2>3, AnswerStep
<1>7. CASE NarrowBoth
  <2>1. /\ b # 0 /\ arith64_hi(a) = 0
        /\ Answer(arith64_lo(a) \div arith64_lo(b), arith64_lo(a) % arith64_lo(b))
    BY <1>7 DEF NarrowBoth
  <2>2. arith64_lo(a) = a /\ arith64_lo(b) = b
    <3>1. H \in 0 .. W BY Widths
    <3>2. Pow(H) \in Nat \ {0} BY <3>1, PowIs
    <3>3. a \div Pow(H) = 0 BY <2>1 DEF arith64_hi, Pow
    <3>4. a % Pow(H) = a /\ a < Pow(H) BY <1>2, <3>2, <3>3, DivIs
    <3>5. b < Pow(H) /\ b = 0 * Pow(H) + b BY <1>1, <1>2, <3>2, <3>4
    <3>6. b % Pow(H) = b BY <1>2, <3>2, <3>5, DivUnique
    <3> QED BY <3>4, <3>6 DEF arith64_lo, Pow
  <2> QED BY <1>1, <1>4, <2>1, <2>2, AnswerStep
<1>8. CASE NarrowOn
  <2>1. b # 0 /\ b # 1 /\ pc' = "setup" /\ UNCHANGED <<c, ret>> BY <1>8 DEF NarrowOn, ByOne
  <2>2. TypeOK' BY <1>1, <2>1 DEF DivInv, TypeOK, args, locals
  <2>3. 2 <= b BY <1>2, <2>1
  <2> QED BY <1>1, <1>3, <2>1, <2>2, <2>3 DEF DivInv
<1> QED BY <1>5, <1>6, <1>7, <1>8

LEMMA SetupStep ==
  ASSUME DivInv, Setup
  PROVE  DivInv'
<1>1. /\ pc = "setup" /\ pc' = "loop" /\ UNCHANGED <<args, c, ret>> /\ wrap' = 0
      /\ a = Num /\ a \in Word /\ b \in Word /\ b <= a /\ 2 <= b
  BY DEF DivInv, Setup, TypeOK
<1>2. Num' = Num /\ Magnitude(Divisor)' = Magnitude(Divisor) /\ b' = b /\ Passes' = Passes
  BY <1>1, SameNum DEF args
<1>3. SUFFICES ASSUME NEW p, p = Passes, NEW n, n = Num PROVE DivInv' OBVIOUS
<1>4. p \in 1 .. W - 1 /\ n < b * Pow(p) BY <1>1, <1>3, PassesIs DEF Passes
<1>5. n \in Nat /\ b \in Nat BY <1>1, <1>3, WordPow
<1>6. p \in 0 .. W /\ W - p \in 0 .. W /\ W \in 0 .. W /\ p - p = 0 /\ p \in 0 .. p /\ p \in -1 .. W - 1
  BY <1>4, Widths
<1>7. Pow(W) = Pow(p) * Pow(W - p) /\ Pow(p) \in Nat \ {0} /\ Pow(W - p) \in Nat \ {0} BY <1>6, PowSplit
<1>8. bits' = p /\ rem' = n \div Pow(p) /\ a' = (n * Pow(W - p)) % Pow(W)
  BY <1>1, <1>3 DEF Setup, Passes, Shl, Shr, Pow
<1>9. a' = (n % Pow(p)) * Pow(W - p) + 0
  <2>1. a' = (n % Pow(p)) * Pow(W - p) BY <1>5, <1>7, <1>8, ShiftedUp
  <2>2. (n % Pow(p)) * Pow(W - p) \in Nat
    <3>1. n % Pow(p) \in Nat BY <1>5, <1>7, DivIs
    <3> QED BY <1>7, <3>1
  <2> QED BY <2>1, <2>2
<1>10. rem' \in Nat /\ rem' < b
  <2> DEFINE d == n \div Pow(p)
             m == n % Pow(p)
  <2>1. n \in Int /\ n >= 0 BY <1>5
  <2>2. d \in Int /\ d >= 0 /\ m \in Nat /\ n = d * Pow(p) + m BY <1>7, <2>1, DivIs
  <2> HIDE DEF d, m
  <2>3. d * Pow(p) < b * Pow(p)
    <3>1. d * Pow(p) \in Int /\ b * Pow(p) \in Int BY <1>5, <1>7, <2>2
    <3> QED BY <1>4, <1>5, <2>2, <3>1
  <2>4. d < b
    <3>1. d \in Int /\ b \in Int /\ Pow(p) \in Nat \ {0} BY <1>5, <1>7, <2>2
    <3> QED BY <2>3, <3>1, Cancel, Zenon
  <2> QED BY <1>8, <2>2, <2>4 DEF d
<1>11. a' \in Word /\ rem' \in Word
  <2>1. a' \in Word
    <3>1. n * Pow(W - p) \in Int BY <1>5, <1>7
    <3>2. a' = Unsigned(n * Pow(W - p)) BY <1>8 DEF Unsigned, Pow
    <3> QED BY <3>1, <3>2, UnsignedIs
  <2> QED BY <1>1, <1>5, <1>10, <2>1, WordPow
<1>12. TypeOK' BY <1>1, <1>6, <1>8, <1>11 DEF DivInv, TypeOK, args
<1>13. Dividing(0)'
  <2>1. \A j, k \in Nat : 0 * j + k = k OBVIOUS
  <2>2. 0 % 2 = 0 /\ 2 * 0 + 0 = 0 OBVIOUS
  <2>3. (2 * 0 + (0 % 2)) * b + rem' = rem' BY <1>5, <1>10, <2>1, <2>2, Zenon
  <2>4. 0 < Pow(0) BY PowSmall
  <2> QED BY <1>1, <1>2, <1>3, <1>6, <1>8, <1>9, <2>3, <2>4 DEF Dividing
<1>14. 0 \in Word BY WordPow
<1>15. LoopInv' BY <1>1, <1>2, <1>3, <1>6, <1>8, <1>10, <1>13, <1>14 DEF LoopInv
<1> QED BY <1>1, <1>2, <1>12, <1>15 DEF DivInv

\* What the loop invariant says, in constants.
LEMMA LoopFacts ==
  ASSUME DivInv, pc = "loop"
  PROVE  /\ Num \in Word /\ b \in Word /\ Passes \in 1 .. W - 1 /\ bits \in 0 .. Passes
         /\ a \in Word /\ rem \in Word /\ rem < b /\ 2 <= b /\ b <= Num
         /\ b > Pow(W - 1) => Passes = 1
         /\ wrap % 2 \in {0, 1}
         /\ \E q \in Word : Dividing(q)
<1>1. Num \in Word BY Magnitudes DEF DivInv
<1>2. b \in Word /\ a \in Word /\ rem \in Word /\ wrap \in {0, AllOnes} BY DEF DivInv, TypeOK
<1>3. LoopInv BY DEF DivInv
<1>4. Passes \in 1 .. W - 1 /\ (b > Pow(W - 1) => Passes = 1)
  BY <1>1, <1>2, <1>3, PassesIs DEF Passes, LoopInv
<1>5. wrap % 2 \in {0, 1} BY <1>2, AllOnesIs
<1> QED BY <1>1, <1>2, <1>3, <1>4, <1>5 DEF LoopInv

LEMMA LoopEndsStep ==
  ASSUME DivInv, LoopEnds
  PROVE  DivInv'
<1>1. /\ pc = "loop" /\ ~(bits > 0) /\ bits' = bits - 1
      /\ Answer(Shl(a, 1, W) + (wrap % 2), rem) /\ UNCHANGED <<args, a, rem, wrap>>
  BY DEF LoopEnds
<1>2. PICK q \in Word : Dividing(q) BY <1>1, LoopFacts
<1>3. SUFFICES ASSUME NEW w, w = wrap % 2, NEW n, n = Num PROVE DivInv' OBVIOUS
<1>4. /\ n \in Nat /\ b \in Nat \ {0} /\ q \in Nat /\ w \in {0, 1} /\ rem \in Nat /\ rem < b
      /\ n < Pow(W) /\ Pow(W) \in Nat \ {0}
  BY <1>1, <1>3, LoopFacts, WordPow
<1>5. bits = 0 BY <1>1, LoopFacts, Widths
<1>6. a = q /\ n = (2 * q + w) * b + rem
  <2>1. n % 1 = 0 /\ n \div 1 = n BY <1>4
  <2>2. Pow(bits) = 1 /\ Pow(W - bits) = Pow(W) BY <1>5, PowSmall, Widths
  <2>3. a = 0 * Pow(W) + q /\ n = (2 * q + w) * b + rem BY <1>2, <1>3, <2>1, <2>2 DEF Dividing
  <2> QED BY <1>4, <2>3
<1>7. 2 * q + w \in Int /\ n \in Int BY <1>4
<1>8. n \div b = 2 * q + w /\ n % b = rem
  <2>1. SUFFICES ASSUME NEW j \in Int, j = 2 * q + w PROVE n \div b = j /\ n % b = rem BY <1>7
  <2>2. n = j * b + rem BY <1>6, <2>1
  <2>3. n \in Int /\ b \in Nat \ {0} /\ rem \in Nat /\ rem < b BY <1>4
  <2> QED BY <2>2, <2>3, DivUnique
<1>9. Shl(a, 1, W) = 2 * q
  <2>1. Shl(a, 1, W) = (a * Pow(1)) % Pow(W) BY DEF Shl, Pow
  <2>2. a * Pow(1) = 2 * q BY <1>4, <1>6, PowSmall
  <2>3. 2 * q < Pow(W)
    <3>1. SUFFICES ASSUME NEW j \in Nat, j = 2 * q + w PROVE 2 * q < Pow(W) BY <1>4
    <3>2. j <= j * b /\ j * b \in Nat BY <1>4
    <3>3. n = j * b + rem BY <1>6, <3>1
    <3> QED BY <1>4, <3>1, <3>2, <3>3
  <2>4. 2 * q \in Word /\ 2 * q \in Int BY <1>4, <2>3, WordPow
  <2>5. Unsigned(2 * q) = 2 * q BY <2>4, UnsignedIs
  <2> QED BY <2>1, <2>2, <2>5 DEF Unsigned, Pow
<1>10. a' \in Word /\ rem' \in Word /\ wrap' \in {0, AllOnes} /\ bits' \in -1 .. W - 1
  BY <1>1, <1>5, Widths DEF DivInv, TypeOK
<1>11. Answer(2 * q + w, rem) /\ b # 0 /\ UNCHANGED args BY <1>1, <1>3, <1>4, <1>9
<1> QED BY <1>1, <1>3, <1>8, <1>10, <1>11, AnswerStep

LEMMA PassStep ==
  ASSUME DivInv, Pass
  PROVE  DivInv'
<1>1. /\ pc = "loop" /\ bits > 0 /\ bits' = bits - 1 /\ UNCHANGED <<args, c, ret, pc>> BY DEF Pass
<1>2. PICK q \in Word : Dividing(q) BY <1>1, LoopFacts
<1>3. SUFFICES ASSUME NEW w, w = wrap % 2, NEW n, n = Num, NEW p, p = Passes, NEW i, i = bits,
                      NEW d, d = b, NEW m, m = rem, NEW a0, a0 = a,
                      NEW r, r = 2 * m + Shr(a0, W - 1),
                      NEW q1, q1 = 2 * q + w, NEW a1, a1 = Shl(a0, 1, W) + w
               PROVE  DivInv'
  OBVIOUS
<1>4. /\ n \in Word /\ d \in Word /\ p \in 1 .. W - 1 /\ q \in Word /\ w \in {0, 1} /\ m \in Word
      /\ a0 \in Word /\ 2 <= d
  BY <1>1, <1>3, LoopFacts
<1>5. i \in 1 .. p BY <1>1, <1>3, LoopFacts, Widths
<1>6. /\ m < d /\ d <= n /\ q < Pow(p - i)
      /\ a0 = (n % Pow(i)) * Pow(W - i) + q /\ n \div Pow(i) = (2 * q + w) * d + m
      /\ d > Pow(W - 1) => p = 1
      /\ r = 2 * m + Shr(a0, W - 1) /\ q1 = 2 * q + w /\ a1 = Shl(a0, 1, W) + w
  BY <1>1, <1>2, <1>3, LoopFacts DEF Dividing
<1>7. /\ r \in Word /\ r < 2 * d /\ q1 \in Word /\ q1 < Pow(p - (i - 1))
      /\ a1 \in Word /\ a1 = (n % Pow(i - 1)) * Pow(W - (i - 1)) + q1
      /\ n \div Pow(i - 1) = (2 * q1) * d + r
      /\ r < d => d <= Pow(W - 1)
  <2>1. PassFrom(n, d, p, i, q, w, m, a0, r, q1, a1) BY <1>6 DEF PassFrom
  <2>2. PassTo(n, d, p, i, r, q1, a1) BY <1>4, <1>5, <2>1, PassArith, Zenon
  <2> QED BY <2>2 DEF PassTo
<1>8. n \in Nat /\ d \in Nat /\ r \in Nat /\ q1 \in Nat BY <1>4, <1>7, WordPow
<1>9. Unsigned(2 * rem + Shr(a, W - 1)) = r BY <1>3, <1>7, <1>8, UnsignedIs
<1>10. WrapMask(r) = IF r < d THEN 0 ELSE AllOnes BY <1>3, <1>4, <1>7, MaskIs
<1>11. /\ a' = a1 /\ wrap' = WrapMask(r)
       /\ rem' = IF wrap' = 0 THEN r ELSE Unsigned(r - d)
  BY <1>3, <1>9 DEF Pass
<1>12. Num' = Num /\ Magnitude(Divisor)' = Magnitude(Divisor) /\ b' = b /\ Passes' = Passes
  BY <1>1, SameNum DEF args
<1>13. /\ wrap' \in {0, AllOnes} /\ rem' \in Word /\ rem' < d
       /\ n \div Pow(i - 1) = (2 * q1 + (wrap' % 2)) * d + rem'
  <2>1. CASE r < d
    <3>1. wrap' = 0 /\ rem' = r BY <1>10, <1>11, <2>1
    <3>2. 0 % 2 = 0 OBVIOUS
    <3>3. 2 * q1 + 0 = 2 * q1 BY <1>8
    <3> QED BY <1>7, <2>1, <3>1, <3>2, <3>3
  <2>2. CASE ~(r < d)
    <3>1. wrap' = AllOnes /\ wrap' # 0 /\ wrap' % 2 = 1 BY <1>10, <1>11, <2>2, AllOnesIs
    <3>2. r - d \in Nat /\ r - d < d /\ r - d < Pow(W) BY <1>7, <1>8, <2>2, WordPow
    <3>3. r - d \in Word BY <3>2, WordPow
    <3>4. rem' = r - d BY <1>11, <3>1, <3>2, <3>3, UnsignedIs
    <3>5. (2 * q1 + 1) * d + (r - d) = (2 * q1) * d + r BY <1>8
    <3> QED BY <1>7, <3>1, <3>2, <3>3, <3>4, <3>5
  <2> QED BY <2>1, <2>2
<1>14. i - 1 \in 0 .. p /\ i - 1 \in -1 .. W - 1 BY <1>4, <1>5, Widths
<1>15. TypeOK' BY <1>1, <1>3, <1>7, <1>11, <1>13, <1>14 DEF DivInv, TypeOK, args
<1>16. Dividing(q1)' BY <1>1, <1>3, <1>7, <1>11, <1>12, <1>13 DEF Dividing
<1>17. LoopInv' BY <1>1, <1>3, <1>4, <1>6, <1>7, <1>12, <1>13, <1>14, <1>16 DEF LoopInv
<1> QED BY <1>1, <1>12, <1>15, <1>17 DEF DivInv

\* The calling routine gives the magnitudes their signs.
LEMMA ReturnStep ==
  ASSUME DivInv, Return
  PROVE  DivInv'
<1>1. /\ pc = "return" /\ pc' = "done" /\ ret' = Returned /\ UNCHANGED <<args, a, locals, c>>
      /\ b # 0 /\ ret = Num \div b /\ (f \in Remainders => c = Num % b) /\ b = Magnitude(Divisor)
  BY DEF DivInv, Return
<1>2. /\ Num' = Num /\ Magnitude(Divisor)' = Magnitude(Divisor) /\ b' = b /\ Correct' = Correct
  BY <1>1, SameNum DEF args
<1>3. f \in Routines /\ x \in Word /\ y \in Word /\ ret \in Word /\ c \in Word BY DEF DivInv, TypeOK
<1>4. ret \in Nat /\ c \in Nat /\ ret \in Int /\ c \in Int BY <1>3, WordPow
<1>5. /\ Unsigned(ret) = ret /\ Unsigned(c) = c BY <1>3, <1>4, UnsignedIs
<1>6. 0 \in Word /\ ~IsNegative(0) BY WordPow, NegativeIs
<1>7. /\ 1 * ret = ret /\ 1 * c = c /\ (-1) * ret = 0 - ret /\ (-1) * c = 0 - c
      /\ 1 * 1 = 1 /\ 1 * (-1) = -1 /\ (-1) * 1 = -1 /\ (-1) * (-1) = 1
  BY <1>4
<1>8. ret' = Correct /\ ret' \in Word
  <2>1. CASE f = "__udivdi3"
    <3>1. Dividend = x /\ Divisor = y /\ Sign(Dividend) = 1 /\ Sign(Divisor) = 1
      BY <1>3, <2>1, AbsIs DEF Dividend, Divisor, Signeds, Sign
    <3>2. Correct = Unsigned(1 * 1 * ret) BY <1>1, <2>1, <3>1 DEF Correct, Remainders, Num
    <3>3. Returned = ret BY <2>1 DEF Returned
    <3> QED BY <1>1, <1>3, <1>5, <1>7, <3>2, <3>3
  <2>2. CASE f = "__umoddi3"
    <3>1. Dividend = x /\ Sign(Dividend) = 1 BY <1>3, <2>2, AbsIs DEF Dividend, Signeds, Sign
    <3>2. Correct = Unsigned(1 * c) BY <1>1, <2>2, <3>1 DEF Correct, Remainders, Num
    <3>3. Returned = c BY <2>2 DEF Returned
    <3> QED BY <1>1, <1>3, <1>5, <1>7, <3>2, <3>3
  <2>3. CASE f = "__divdi3"
    <3>1. /\ Sign(Dividend) = IF IsNegative(x) THEN -1 ELSE 1
          /\ Sign(Divisor) = IF IsNegative(y) THEN -1 ELSE 1
      BY <1>3, <2>3, AbsIs DEF Dividend, Divisor, Signeds, Sign
    <3>2. Correct = Unsigned(Sign(Dividend) * Sign(Divisor) * ret) BY <1>1, <2>3 DEF Correct, Remainders, Num
    <3>3. Returned = arith64_neg(ret, SignOfXor(x, y)) BY <2>3 DEF Returned
    <3>4. CASE IsNegative(x) # IsNegative(y)
      <4>1. SignOfXor(x, y) = AllOnes BY <3>4 DEF SignOfXor
      <4>2. Returned = Unsigned(0 - ret) /\ Returned \in Word BY <1>3, <3>3, <4>1, AllOnesIs, NegIs
      <4>3. Sign(Dividend) * Sign(Divisor) = -1
        <5>1. CASE IsNegative(x) BY <1>7, <3>1, <3>4, <5>1, Zenon
        <5>2. CASE ~IsNegative(x)
          <6>1. IsNegative(y) BY <3>4, <5>2, SMT DEF IsNegative
          <6> QED BY <1>7, <3>1, <5>2, <6>1, Zenon
        <5> QED BY <5>1, <5>2
      <4> QED BY <1>1, <1>7, <3>2, <4>2, <4>3
    <3>5. CASE ~(IsNegative(x) # IsNegative(y))
      <4>1. SignOfXor(x, y) = 0 BY <3>5 DEF SignOfXor
      <4>2. Returned = Unsigned(ret) /\ Returned \in Word BY <1>3, <1>6, <3>3, <4>1, NegIs
      <4>3. Sign(Dividend) * Sign(Divisor) = 1 BY <1>7, <3>1, <3>5 DEF IsNegative
      <4> QED BY <1>1, <1>7, <3>2, <4>2, <4>3
    <3> QED BY <3>4, <3>5
  <2>4. CASE f = "__moddi3"
    <3>1. Sign(Dividend) = IF IsNegative(x) THEN -1 ELSE 1
      BY <1>3, <2>4, AbsIs DEF Dividend, Signeds, Sign
    <3>2. Correct = Unsigned(Sign(Dividend) * c) BY <1>1, <2>4 DEF Correct, Remainders, Num
    <3>3. Returned = arith64_neg(c, x) BY <2>4 DEF Returned
    <3> QED BY <1>1, <1>3, <1>7, <3>1, <3>2, <3>3, NegIs
  <2> QED BY <1>3, <2>1, <2>2, <2>3, <2>4 DEF Routines
<1>9. TypeOK' BY <1>1, <1>8 DEF DivInv, TypeOK, args, locals
<1> QED BY <1>1, <1>2, <1>8, <1>9 DEF DivInv

\* The invariant is inductive.
LEMMA NextInv == DivInv /\ [Next]_vars => DivInv'
<1> SUFFICES ASSUME DivInv, [Next]_vars PROVE DivInv' OBVIOUS
<1>1. CASE UNCHANGED vars
  <2>1. Num' = Num /\ Passes' = Passes /\ Correct' = Correct /\ Magnitude(Divisor)' = Magnitude(Divisor)
    BY <1>1, SameNum DEF vars, args
  <2>2. TypeOK' BY <1>1 DEF vars, DivInv, TypeOK
  <2>3. \A q : Dividing(q)' = Dividing(q) BY <1>1, <2>1 DEF vars, Dividing
  <2>4. LoopInv => LoopInv' BY <1>1, <2>1, <2>3 DEF vars, LoopInv
  <2> QED BY <1>1, <2>1, <2>2, <2>4 DEF vars, DivInv
<1>2. CASE Next
  BY <1>2, CallStep, EntrySteps, NarrowSteps, SetupStep, PassStep, LoopEndsStep, ReturnStep DEF Next, Divide
<1> QED BY <1>1, <1>2

LEMMA SpecInv == Spec => []DivInv
<1>1. Init => DivInv BY InitInv
<1>2. DivInv /\ [Next]_vars => DivInv' BY NextInv
<1> QED BY <1>1, <1>2, PTL DEF Spec

-----------------------------------------------------------------------------
\* Every division that returns is the C division of its arguments, with the quotient cut
\* off toward zero and the remainder signed like the dividend, and exactly the divisions
\* by zero raise the exception (i386_builtins.c:148-198, 226-271).
THEOREM DivisionIsCorrect == Spec => []DivisionCorrect
<1>1. DivInv => DivisionCorrect
  <2> SUFFICES ASSUME DivInv PROVE DivisionCorrect OBVIOUS
  <2>1. Divisor \in Int BY Magnitudes DEF DivInv
  <2>2. Divisor # 0 <=> Magnitude(Divisor) # 0 BY <2>1 DEF Magnitude
  <2> QED BY <2>2 DEF DivInv, DivisionCorrect
<1> QED BY <1>1, SpecInv, PTL

\* In every pass of the long division the quotient bits found so far and the remainder
\* account for the numerator bits consumed, and those not yet consumed are at the high end
\* of the numerator (i386_builtins.c:178-190).
THEOREM LongDivisionHolds == Spec => []LongDivision
<1>1. DivInv => LongDivision
  <2> SUFFICES ASSUME DivInv, pc = "loop" PROVE LongDivision BY DEF LongDivision
  <2>1. PICK q \in Word : Dividing(q) BY LoopFacts
  <2>2. SUFFICES ASSUME NEW n, n = Num, NEW p, p = Passes, NEW i, i = bits,
                        NEW g \in Nat \ {0}, g = Pow(p - i), NEW k \in Nat \ {0}, k = Pow(W - p),
                        NEW v \in Nat \ {0}, v = Pow(W - i), v = g * k
                 PROVE  LongDivision
    <3>1. Passes - bits \in 0 .. W - bits /\ W - bits \in 0 .. W /\ (W - bits) - (Passes - bits) = W - Passes
      BY LoopFacts, Widths
    <3>2. /\ Pow(W - bits) = Pow(Passes - bits) * Pow((W - bits) - (Passes - bits))
          /\ Pow((W - bits) - (Passes - bits)) \in Nat \ {0} /\ Pow(Passes - bits) \in Nat \ {0}
      BY <3>1, PowSplit
    <3>3. Pow(W - bits) \in Nat \ {0} BY <3>1, PowIs
    <3> QED BY <3>1, <3>2, <3>3
  <2>3. n \in Nat /\ q \in Nat /\ a \in Nat /\ i \in 0 .. W
    <3>1. n \in Word /\ a \in Word /\ p \in 1 .. W - 1 /\ i \in 0 .. p BY <2>2, LoopFacts
    <3> QED BY <3>1, WordPow, Widths
  <2>4. PICK l \in Nat : l = n % Pow(i) BY <2>3, PowIs, DivIs
  <2>5. q < g /\ a = l * v + q /\ n \div Pow(i) = (2 * q + (wrap % 2)) * b + rem
    BY <2>1, <2>2, <2>4 DEF Dividing
  <2>6. a \div v = l
    <3>1. g <= v BY <2>2
    <3>2. q < v BY <2>3, <2>5, <3>1
    <3>3. l \in Int /\ v \in Nat \ {0} /\ q \in Nat /\ a \in Int /\ a = l * v + q BY <2>3, <2>5
    <3> QED BY <3>2, <3>3, DivUnique, Zenon
  <2>7. a % g = q
    <3>1. SUFFICES ASSUME NEW j \in Int, j = l * k PROVE a % g = q BY <2>4
    <3>2. a = j * g + q BY <2>2, <2>3, <2>5, <3>1
    <3>3. g \in Nat \ {0} /\ q \in Nat /\ q < g /\ a \in Int BY <2>3, <2>5
    <3>4. a % g = q BY <3>2, <3>3, DivUnique
    <3> QED BY <3>4
  <2>8. rem < b BY LoopFacts
  <2> QED BY <2>2, <2>4, <2>5, <2>6, <2>7, <2>8 DEF LongDivision, Num, Passes, Pow
<1> QED BY <1>1, SpecInv, PTL

\* The long division shifts by at least one and by less than the width of a word: the shifts
\* of i386_builtins.c:179-180 are ones C defines.
THEOREM ShiftsAreDefined == Spec => []ShiftsDefined
<1>1. DivInv => ShiftsDefined
  <2> SUFFICES ASSUME DivInv, pc = "setup" PROVE PassesNeeded(a) \in 1 .. W - 1 BY DEF ShiftsDefined
  <2>1. a \in Word /\ b \in Word /\ b <= a /\ 2 <= b BY DEF DivInv, TypeOK
  <2> QED BY <2>1, PassesIs
<1> QED BY <1>1, SpecInv, PTL

\* Every variable of a division in progress has a value of its type: no pass leaves a
\* remainder, a numerator or a count outside its range.
THEOREM DivmodTypes == Spec => []TypeOK
<1>1. DivInv => TypeOK BY DEF DivInv
<1> QED BY <1>1, SpecInv, PTL

-----------------------------------------------------------------------------
\* The shifts.  A word is hi * h + lo; the count is a power p of two, and r is what p lacks
\* of a half h.
Halves(hi, lo, h) == hi \in Int /\ lo \in Nat /\ h \in Nat \ {0} /\ lo < h
Powers(p, r, h) == p \in Nat \ {0} /\ r \in Nat \ {0} /\ h = p * r

\* A sum of a high and a low part, in a base of two factors.
LEMMA TwoDigits ==
  ASSUME NEW i \in Nat, NEW j \in Nat, NEW p \in Nat \ {0}, NEW r \in Nat \ {0}, i < p, j < r
  PROVE  i * r + j \in Nat /\ i * r + j < p * r
<1>1. i + 1 <= p /\ i + 1 \in Int BY SMT
<1>2. (i + 1) * r <= p * r BY <1>1, Cancel
<1>3. (i + 1) * r = i * r + r BY SMT
<1>4. i * r \in Nat /\ p * r \in Nat BY SMT
<1> QED BY <1>2, <1>3, <1>4

LEMMA Quotient ==
  ASSUME NEW n \in Nat, NEW p \in Nat \ {0}, NEW r \in Nat \ {0}, n < p * r
  PROVE  n \div r \in Nat /\ n \div r < p
<1> DEFINE d == n \div r
<1>1. d \in Int /\ d >= 0 /\ n % r \in Nat /\ n = d * r + (n % r) BY DivIs
<1> HIDE DEF d
<1>2. d * r <= n BY <1>1
<1>3. d * r \in Int /\ p * r \in Int BY <1>1
<1>4. d * r < p * r BY <1>2, <1>3
<1>5. d < p BY <1>1, <1>4, Cancel
<1> QED BY <1>1, <1>5 DEF d

Divided(n, q, k, r) == n \in Int /\ q \in Int /\ k \in Nat \ {0} /\ r \in Nat /\ r < k /\ n = q * k + r

LEMMA DividedIs ==
  ASSUME NEW n, NEW q, NEW k, NEW r, Divided(n, q, k, r)
  PROVE  n \div k = q /\ n % k = r
BY DivUnique DEF Divided

LEMMA Grouping ==
  ASSUME NEW i \in Int, NEW j \in Int, NEW k \in Int
  PROVE  i * (j * k) = (i * j) * k
BY SMT

LEMMA RightNear ==
  ASSUME NEW hi, NEW lo, NEW p, NEW r, NEW h, Halves(hi, lo, h), Powers(p, r, h)
  PROVE  /\ (hi * h + lo) \div p = (hi \div p) * h + ((hi % p) * r + (lo \div p))
         /\ (hi % p) * r + (lo \div p) \in Nat /\ (hi % p) * r + (lo \div p) < h
<1> DEFINE u == hi \div p
           v == hi % p
           s == lo \div p
           t == lo % p
           n == hi * h + lo
           q == u * h + (v * r + s)
<1> p \in Nat \ {0} /\ r \in Nat \ {0} /\ h = p * r BY DEF Powers
<1>1. hi \in Int /\ lo \in Nat /\ h \in Nat \ {0} /\ lo < h BY DEF Halves
<1>2. u \in Int /\ v \in Nat /\ v < p /\ hi = u * p + v BY <1>1, DivIs
<1>3. t \in Nat /\ t < p /\ lo = s * p + t BY <1>1, DivIs
<1>4. s \in Nat /\ s < r
  <2>1. h = r * p BY SMT
  <2> QED BY <1>1, <2>1, Quotient
<1> HIDE DEF u, v, s, t
<1>5. v * r + s \in Nat /\ v * r + s < h BY <1>2, <1>4, TwoDigits
<1>6. n \in Int /\ q \in Int BY <1>1, <1>2, <1>4
<1>7. n = q * p + t
  <2>1. hi * h = (u * p + v) * h /\ v * h = (v * r) * p BY <1>1, <1>2
  <2>2. (u * p + v) * h = (u * h) * p + v * h BY <1>1, <1>2
  <2> QED BY <1>1, <1>2, <1>3, <1>4, <2>1, <2>2
<1> HIDE DEF n, q
<1>8. n \div p = q BY <1>3, <1>6, <1>7, DivUnique
<1> QED BY <1>5, <1>8 DEF n, q, u, v, s

LEMMA RightFar ==
  ASSUME NEW hi, NEW lo, NEW h, Halves(hi, lo, h), NEW p \in Nat \ {0}
  PROVE  (hi * h + lo) \div (p * h) = hi \div p
<1> DEFINE u == hi \div p
           v == hi % p
           n == hi * h + lo
           k == p * h
           m == v * h + lo
<1>1. hi \in Int /\ lo \in Nat /\ h \in Nat \ {0} /\ lo < h BY DEF Halves
<1>2. u \in Int /\ v \in Nat /\ v < p /\ hi = u * p + v BY <1>1, DivIs
<1> HIDE DEF u, v
<1>3. m \in Nat /\ m < k BY <1>1, <1>2, TwoDigits
<1>4. n \in Int /\ k \in Nat \ {0} BY <1>1
<1>5. n = u * k + m
  <2>1. hi * h = (u * p + v) * h /\ (u * p + v) * h = u * (p * h) + v * h BY <1>1, <1>2
  <2> QED BY <1>1, <1>2, <2>1
<1> HIDE DEF n, k, m
<1>6. n \div k = u BY <1>2, <1>3, <1>4, <1>5, DivUnique
<1> QED BY <1>6 DEF n, k, u

LEMMA LeftNear ==
  ASSUME NEW hi \in Nat, NEW lo, NEW p, NEW r, NEW h, Halves(hi, lo, h), Powers(p, r, h)
  PROVE  ((hi * h + lo) * p) % (h * h) = ((lo \div r) + ((hi * p) % h)) * h + ((lo * p) % h)
<1> DEFINE u == lo \div r
           v == lo % r
           s == hi \div r
           t == hi % r
           i == t * p + u
           j == v * p
           n == (hi * h + lo) * p
           k == h * h
           m == i * h + j
<1> p \in Nat \ {0} /\ r \in Nat \ {0} /\ h = p * r BY DEF Powers
<1>1. lo \in Nat /\ h \in Nat \ {0} /\ lo < h /\ h = r * p BY DEF Halves
<1>2. u \in Nat /\ u < p BY <1>1, Quotient
<1>3. v \in Nat /\ v < r /\ lo = u * r + v BY <1>1, DivIs
<1>4. s \in Int /\ t \in Nat /\ t < r /\ hi = s * r + t BY DivIs
<1>5. (hi * p) % (r * p) = t * p /\ (lo * p) % (r * p) = v * p BY <1>1, ShiftedUp
<1> HIDE DEF u, v, s, t
<1>6. i \in Nat /\ i < h BY <1>1, <1>2, <1>4, TwoDigits
<1>7. j \in Nat /\ j < h
  <2>1. v * p < r * p BY <1>3, Cancel
  <2> QED BY <1>1, <1>3, <2>1
<1>8. n = s * k + m
  <2>1. hi * h = s * (r * h) + t * h /\ lo = u * r + v BY <1>1, <1>3, <1>4
  <2>2. (s * (r * h)) * p = s * (h * h) BY <1>1, <1>4
  <2>3. (t * h) * p = (t * p) * h /\ (u * r) * p = u * h BY <1>1, <1>2, <1>4
  <2>4. n = (s * (r * h)) * p + (t * h) * p + (u * r) * p + v * p BY <1>1, <1>2, <1>3, <1>4, <2>1
  <2>5. (t * p + u) * h = (t * p) * h + u * h BY <1>1, <1>2, <1>4
  <2> QED BY <1>1, <1>2, <1>3, <1>4, <2>2, <2>3, <2>4, <2>5
<1>9. n \in Int /\ k \in Nat \ {0} BY <1>1
<1> HIDE DEF i, j
<1>10. m \in Nat /\ m < k BY <1>1, <1>6, <1>7, TwoDigits
<1> HIDE DEF n, k, m
<1>11. n % k = m
  <2>1. Divided(n, s, k, m) BY <1>4, <1>8, <1>9, <1>10 DEF Divided
  <2> QED BY <2>1, DividedIs
<1>12. m = (u + ((hi * p) % h)) * h + ((lo * p) % h)
  <2>1. m = (t * p + u) * h + v * p /\ (hi * p) % h = t * p /\ (lo * p) % h = v * p BY <1>1, <1>5 DEF m, i, j
  <2>2. t * p + u = u + t * p BY <1>2, <1>4
  <2> HIDE DEF m
  <2> QED BY <2>1, <2>2
<1> QED BY <1>11, <1>12 DEF n, k, u

LEMMA LeftFar ==
  ASSUME NEW hi \in Nat, NEW lo, NEW h, Halves(hi, lo, h), NEW p \in Nat \ {0}
  PROVE  ((hi * h + lo) * (p * h)) % (h * h) = ((lo * p) % h) * h
<1> DEFINE j == (lo * p) \div h
           k == (lo * p) % h
           n == (hi * h + lo) * p
           q == hi * p + j
<1>1. lo \in Nat /\ h \in Nat \ {0} BY DEF Halves
<1>2. lo * p \in Int /\ n \in Nat /\ n \in Int BY <1>1
<1>3. j \in Int /\ lo * p = j * h + k BY <1>1, <1>2, DivIs
<1>8. k \in Nat /\ k < h BY <1>1, <1>2, DivIs
<1> HIDE DEF j, k
<1>4. q \in Int /\ n = q * h + k
  <2>1. n = (hi * p) * h + lo * p BY <1>1
  <2>2. (hi * p + j) * h = (hi * p) * h + j * h BY <1>1, <1>3, <1>8
  <2> QED BY <1>1, <1>3, <1>8, <2>1, <2>2
<1>5. (hi * h + lo) * (p * h) = n * h
  <2>1. hi * h + lo \in Int BY <1>1
  <2> DEFINE m == hi * h + lo
  <2> HIDE DEF m
  <2>2. m \in Int BY <2>1 DEF m
  <2>3. m * (p * h) = (m * p) * h BY <1>1, <2>2, Grouping
  <2> QED BY <2>3 DEF m
<1> HIDE DEF n, q
<1>6. n % h = k
  <2>1. Divided(n, q, h, k) BY <1>1, <1>2, <1>4, <1>8 DEF Divided
  <2> QED BY <2>1, DividedIs
<1>7. (n * h) % (h * h) = k * h BY <1>1, <1>2, <1>6, ShiftedUp
<1> QED BY <1>5, <1>7 DEF k

\* A word is its halves, and half a half is the weight of a half's sign.
LEMMA HalvesAre ==
  ASSUME NEW w \in Word
  PROVE  /\ Halves(arith64_hi(w), arith64_lo(w), Pow(H)) /\ arith64_hi(w) \in Nat /\ arith64_hi(w) < Pow(H)
         /\ w = arith64_hi(w) * Pow(H) + arith64_lo(w)
<1> DEFINE h == Pow(H)
<1>1. H \in 0 .. W /\ W - H = H BY Widths
<1>2. Pow(W) = h * h /\ h \in Nat \ {0}
  <2>1. W \in 0 .. W /\ H \in 0 .. W BY Widths
  <2> QED BY <1>1, <2>1, PowSplit
<1>3. w \in Nat /\ w < h * h BY <1>2, WordPow
<1>4. arith64_hi(w) = w \div h /\ arith64_lo(w) = w % h BY Zenon DEF arith64_hi, arith64_lo, Pow
<1> HIDE DEF h
<1>5. w \div h \in Nat /\ w \div h < h BY <1>2, <1>3, Quotient
<1>6. w % h \in Nat /\ w % h < h /\ w = (w \div h) * h + (w % h) BY <1>2, <1>3, DivIs
<1> QED BY <1>2, <1>4, <1>5, <1>6 DEF Halves, h

LEMMA HalfPow ==
  /\ Pow(H) \in Nat \ {0} /\ Pow(H - 1) \in Nat \ {0} /\ Pow(H) = 2 * Pow(H - 1)
  /\ Pow(W) = Pow(H) * Pow(H) /\ Pow(W - 1) = Pow(H - 1) * Pow(H)
<1>1. H \in 0 .. W /\ W - H = H /\ W \in 0 .. W /\ H \in 1 .. W BY Widths
<1>2. Pow(W) = Pow(H) * Pow(H) /\ Pow(H) \in Nat \ {0} BY <1>1, PowSplit
<1>3. Pow(H) = 2 * Pow(H - 1) /\ Pow(H - 1) \in Nat \ {0} BY <1>1, PowNext
<1>4. W - 1 \in 0 .. W /\ H - 1 \in 0 .. W - 1 /\ (W - 1) - (H - 1) = H BY Widths
<1>5. Pow(W - 1) = Pow(H - 1) * Pow(H) BY <1>4, PowSplit
<1> QED BY <1>2, <1>3, <1>5

LEMMA CountIs ==
  ASSUME NEW n \in Int
  PROVE  n % W \in 0 .. W - 1
<1>1. W \in Nat \ {0} BY Widths
<1>2. n % W \in Nat /\ n % W < W BY <1>1, DivIs
<1> QED BY <1>1, <1>2

\* A count of a half or more moves by a half and the rest; a smaller one leaves the rest of a
\* half.
LEMMA CountPow ==
  ASSUME NEW d \in 0 .. W - 1
  PROVE  /\ d >= H => Pow(d) = Pow(d - H) * Pow(H) /\ Pow(d - H) \in Nat \ {0}
         /\ d < H => Powers(Pow(d), Pow(H - d), Pow(H))
<1>1. CASE d >= H
  <2>1. d \in 0 .. W /\ d - H \in 0 .. d /\ d - (d - H) = H BY <1>1, Widths
  <2>2. Pow(d) = Pow(d - H) * Pow(d - (d - H)) /\ Pow(d - H) \in Nat \ {0} BY <2>1, PowSplit
  <2>3. ~(d < H) BY <1>1, Widths
  <2> QED BY <2>1, <2>2, <2>3
<1>2. CASE d < H
  <2>1. H \in 0 .. W /\ d \in 0 .. H /\ ~(d >= H) BY <1>2, Widths
  <2> QED BY <2>1, PowSplit DEF Powers
<1> QED BY <1>1, <1>2, Widths

\* __ashldi3 shifts left.
LEMMA LeftIs ==
  ASSUME NEW w \in Word, NEW n \in Int
  PROVE  __ashldi3(w, n) = Unsigned(w * 2^(n % W))
<1> DEFINE d == n % W
           hi == arith64_hi(w)
           lo == arith64_lo(w)
           h == Pow(H)
<1>1. d \in 0 .. W - 1 BY CountIs
<1>2. Halves(hi, lo, h) /\ hi \in Nat /\ w = hi * h + lo BY HalvesAre
<1>3. Unsigned(w * 2^(n % W)) = (w * Pow(d)) % (h * h)
  <2>1. Unsigned(w * 2^(n % W)) = (w * Pow(d)) % Pow(W) BY Zenon DEF Unsigned, Pow
  <2> QED BY <2>1, HalfPow
<1>4. CASE d >= H
  <2> DEFINE p == Pow(d - H)
  <2>1. Pow(d) = p * h /\ p \in Nat \ {0} BY <1>1, <1>4, CountPow
  <2>2. __ashldi3(w, n) = ((lo * p) % h) * h + 0
    BY <1>4, Zenon DEF __ashldi3, Shl, arith64_word, Pow
  <2> HIDE DEF d, hi, lo, h, p
  <2>3. ((hi * h + lo) * (p * h)) % (h * h) = ((lo * p) % h) * h BY <1>2, <2>1, LeftFar
  <2>4. ((lo * p) % h) * h + 0 = ((lo * p) % h) * h
    <3>1. lo * p \in Int /\ h \in Nat \ {0} BY <1>2, <2>1 DEF Halves
    <3>2. (lo * p) % h \in Nat BY <3>1, DivIs
    <3> QED BY <3>1, <3>2
  <2> QED BY <1>2, <1>3, <2>1, <2>2, <2>3, <2>4
<1>5. CASE d < H /\ d # 0
  <2> DEFINE p == Pow(d)
             r == Pow(H - d)
  <2>1. Powers(p, r, h) BY <1>1, <1>5, CountPow
  <2>2. ~(d >= H) BY <1>1, <1>5, Widths
  <2>3. __ashldi3(w, n) = ((lo \div r) + ((hi * p) % h)) * h + ((lo * p) % h)
    BY <1>5, <2>2, Zenon DEF __ashldi3, Shl, Shr, arith64_word, Pow
  <2> HIDE DEF d, hi, lo, h, p, r
  <2>4. ((hi * h + lo) * p) % (h * h) = ((lo \div r) + ((hi * p) % h)) * h + ((lo * p) % h)
    BY <1>2, <2>1, LeftNear
  <2> QED BY <1>2, <1>3, <2>3, <2>4 DEF p
<1>6. CASE d = 0
  <2>1. __ashldi3(w, n) = w
    <3>1. ~(d >= H) BY <1>6, Widths
    <3> QED BY <1>6, <3>1, Zenon DEF __ashldi3
  <2>2. w * Pow(d) = w BY <1>6, PowSmall, WordPow
  <2>3. w % Pow(W) = w
    <3>1. w \in Int /\ Unsigned(w) = w BY WordPow, UnsignedIs
    <3> QED BY <3>1 DEF Unsigned, Pow
  <2> QED BY <1>3, <2>1, <2>2, <2>3, HalfPow
<1> QED BY <1>1, <1>4, <1>5, <1>6, Widths

\* __lshrdi3 shifts right.
LEMMA RightIs ==
  ASSUME NEW w \in Word, NEW n \in Int
  PROVE  __lshrdi3(w, n) = w \div 2^(n % W)
<1> DEFINE d == n % W
           hi == arith64_hi(w)
           lo == arith64_lo(w)
           h == Pow(H)
<1>1. d \in 0 .. W - 1 BY CountIs
<1>2. Halves(hi, lo, h) /\ hi \in Nat /\ w = hi * h + lo BY HalvesAre
<1>3. w \div 2^(n % W) = w \div Pow(d) BY Zenon DEF Pow
<1>4. CASE d >= H
  <2> DEFINE p == Pow(d - H)
  <2>1. Pow(d) = p * h /\ p \in Nat \ {0} BY <1>1, <1>4, CountPow
  <2>2. __lshrdi3(w, n) = 0 * h + (hi \div p)
    BY <1>4, Zenon DEF __lshrdi3, Shr, arith64_word, Pow
  <2> HIDE DEF d, hi, lo, h, p
  <2>3. (hi * h + lo) \div (p * h) = hi \div p BY <1>2, <2>1, RightFar
  <2>4. 0 * h + (hi \div p) = hi \div p
    <3>1. hi \div p \in Int /\ h \in Int BY <1>2, <2>1, DivIs DEF Halves
    <3> QED BY <3>1
  <2> QED BY <1>2, <1>3, <2>1, <2>2, <2>3, <2>4
<1>5. CASE d < H /\ d # 0
  <2> DEFINE p == Pow(d)
             r == Pow(H - d)
  <2>1. Powers(p, r, h) BY <1>1, <1>5, CountPow
  <2>2. ~(d >= H) BY <1>1, <1>5, Widths
  <2>3. __lshrdi3(w, n) = (hi \div p) * h + (((hi * r) % h) + (lo \div p))
    BY <1>5, <2>2, Zenon DEF __lshrdi3, Shl, Shr, arith64_word, Pow
  <2> HIDE DEF d, hi, lo, h, p, r
  <2>4. (hi * r) % h = (hi % p) * r
    <3>1. hi \in Nat /\ p \in Nat \ {0} /\ r \in Nat \ {0} BY <1>2, <2>1 DEF Powers
    <3>2. h = p * r BY <2>1 DEF Powers
    <3> HIDE DEF hi, h, p, r
    <3>3. (hi * r) % (p * r) = (hi % p) * r BY <3>1, ShiftedUp, Zenon
    <3> QED BY <3>2, <3>3, Zenon
  <2>5. (hi * h + lo) \div p = (hi \div p) * h + ((hi % p) * r + (lo \div p)) BY <1>2, <2>1, RightNear
  <2> QED BY <1>2, <1>3, <2>1, <2>3, <2>4, <2>5 DEF p
<1>6. CASE d = 0
  <2>1. __lshrdi3(w, n) = w
    <3>1. ~(d >= H) BY <1>6, Widths
    <3> QED BY <1>6, <3>1, Zenon DEF __lshrdi3
  <2>2. w \div 1 = w BY WordPow
  <2> QED BY <1>3, <1>6, <2>1, <2>2, PowSmall
<1> QED BY <1>1, <1>4, <1>5, <1>6, Widths

\* A half read in two's complement, and what divides and joins such halves.
SignedHalf(i) == IF i >= Pow(H - 1) THEN i - Pow(H) ELSE i
InSignedHalf(i) == i \in Int /\ -Pow(H - 1) <= i /\ i < Pow(H - 1)

\* The remainder by a half is the half that reads so.
LEMMA SignedRemainder ==
  ASSUME NEW i, InSignedHalf(i)
  PROVE  /\ i >= 0 => i % Pow(H) = i
         /\ i < 0 => i % Pow(H) = i + Pow(H)
<1> DEFINE h == Pow(H)
           g == Pow(H - 1)
<1>1. i \in Int /\ -g <= i /\ i < g /\ h \in Nat \ {0} /\ g \in Nat \ {0} /\ h = 2 * g BY HalfPow DEF InSignedHalf
<1> HIDE DEF h, g
<1>2. CASE i >= 0
  <2>1. Divided(i, 0, h, i) BY <1>1, <1>2 DEF Divided
  <2>2. i % h = i BY <2>1, DividedIs
  <2> QED BY <1>1, <1>2, <2>2 DEF h
<1>3. CASE i < 0
  <2>1. Divided(i, -1, h, i + h) BY <1>1, <1>3 DEF Divided
  <2>2. i % h = i + h BY <2>1, DividedIs
  <2> QED BY <1>1, <1>3, <2>2 DEF h
<1> QED BY <1>1, <1>2, <1>3

LEMMA SignedHalfIs ==
  ASSUME NEW i \in Nat, i < Pow(H)
  PROVE  InSignedHalf(SignedHalf(i)) /\ SignedHalf(i) % Pow(H) = i
<1> DEFINE h == Pow(H)
           g == Pow(H - 1)
           s == SignedHalf(i)
<1>1. h \in Nat \ {0} /\ g \in Nat \ {0} /\ h = 2 * g BY HalfPow
<1>2. s = IF i >= g THEN i - h ELSE i BY Zenon DEF SignedHalf
<1>3. i < h OBVIOUS
<1>4. s \in Int /\ -g <= s /\ s < g /\ (s < 0 => i = s + h) /\ (s >= 0 => i = s)
  <2> HIDE DEF h, g, s
  <2> QED BY <1>1, <1>2, <1>3
<1>5. InSignedHalf(s) BY <1>4 DEF InSignedHalf
<1> HIDE DEF s
<1>6. (s >= 0 => s % h = s) /\ (s < 0 => s % h = s + h) BY <1>5, SignedRemainder
<1>7. s % h = i BY <1>4, <1>6
<1> QED BY <1>5, <1>7 DEF s

\* Two halves joined read as the high one's weight and the low one's.
LEMMA SignedJoin ==
  ASSUME NEW u, InSignedHalf(u), NEW l \in Nat, l < Pow(H)
  PROVE  Signed(arith64_word(u % Pow(H), l)) = u * Pow(H) + l
<1> DEFINE h == Pow(H)
           g == Pow(H - 1)
           t == u % h
           m == t * h + l
<1>1. u \in Int /\ -g <= u /\ u < g BY DEF InSignedHalf
<1>2. h \in Nat \ {0} /\ g \in Nat \ {0} /\ h = 2 * g /\ Pow(W) = h * h /\ Pow(W - 1) = g * h BY HalfPow
<1>3. (u >= 0 => t = u) /\ (u < 0 => t = u + h) BY SignedRemainder
<1>4. Signed(arith64_word(t, l)) = IF m >= Pow(W - 1) THEN m - Pow(W) ELSE m
  BY Zenon DEF Signed, IsNegative, arith64_word, Pow
<1>5. l < h OBVIOUS
<1> HIDE DEF h, g, t
<1>6. CASE u >= 0
  <2>1. t \in Nat /\ t < g /\ t = u BY <1>1, <1>2, <1>3, <1>6
  <2>2. m \in Nat /\ m < g * h BY <1>2, <1>5, <2>1, TwoDigits
  <2>3. g * h \in Int BY <1>2
  <2>4. ~(m >= Pow(W - 1)) BY <1>2, <2>2, <2>3
  <2> QED BY <1>4, <2>1, <2>4 DEF h, t
<1>7. CASE u < 0
  <2>1. t \in Nat /\ g <= t /\ t = u + h BY <1>1, <1>2, <1>3, <1>7
  <2>2. g * h <= t * h BY <1>2, <2>1, Cancel
  <2>3. g * h \in Int /\ t * h \in Int BY <1>2, <2>1
  <2>4. m >= g * h BY <2>2, <2>3
  <2>5. m - h * h = u * h + l
    <3>1. t * h = u * h + h * h BY <1>1, <1>2, <2>1
    <3>2. u * h \in Int /\ h * h \in Int BY <1>1, <1>2
    <3> QED BY <3>1, <3>2
  <2> QED BY <1>2, <1>4, <2>4, <2>5 DEF h, t
<1> QED BY <1>1, <1>6, <1>7

\* A quotient of a signed half is one, with its sign.
LEMMA SignedQuotient ==
  ASSUME NEW s, InSignedHalf(s), NEW p \in Nat \ {0}
  PROVE  InSignedHalf(s \div p) /\ (s < 0 <=> s \div p < 0)
<1> DEFINE g == Pow(H - 1)
           u == s \div p
           v == s % p
<1>1. s \in Int /\ -g <= s /\ s < g /\ g \in Nat \ {0} BY HalfPow DEF InSignedHalf
<1>2. u \in Int /\ v \in Nat /\ v < p /\ s = u * p + v BY <1>1, DivIs
<1> HIDE DEF g, u, v
<1>3. u * p \in Int BY <1>2
<1>4. CASE s >= 0
  <2>1. u >= 0 BY <1>1, <1>4, DivIs DEF u
  <2>2. u * 1 <= u * p
    <3>1. u \in Nat BY <1>2, <2>1
    <3> QED BY <3>1
  <2>3. u < g BY <1>1, <1>2, <1>3, <2>2
  <2> QED BY <1>1, <1>2, <1>4, <2>1, <2>3 DEF InSignedHalf, g, u
<1>5. CASE s < 0
  <2>1. u * p < 0 * p BY <1>1, <1>2, <1>3, <1>5
  <2>2. u < 0 BY <1>2, <2>1, Cancel
  <2>3. -g <= u
    <3>1. SUFFICES ASSUME u + 1 <= -g PROVE FALSE BY <1>1, <1>2
    <3>2. u + 1 \in Int /\ -g \in Int BY <1>1, <1>2
    <3>3. (u + 1) * p <= (-g) * p BY <3>1, <3>2, Cancel
    <3>4. (u + 1) * p = u * p + p BY <1>2
    <3>5. (-g) * p <= -g
      <4>1. g * 1 <= g * p BY <1>1
      <4>2. (-g) * p = -(g * p) /\ g * p \in Int BY <1>1
      <4> QED BY <1>1, <4>1, <4>2
    <3>6. (-g) * p \in Int BY <1>1
    <3> QED BY <1>1, <1>2, <1>3, <3>3, <3>4, <3>5, <3>6
  <2> QED BY <1>1, <1>2, <1>5, <2>2, <2>3 DEF InSignedHalf, g, u
<1> QED BY <1>1, <1>4, <1>5

LEMMA SarIs ==
  ASSUME NEW i, NEW n
  PROVE  SarHalf(i, n) = (SignedHalf(i) \div Pow(n)) % Pow(H)
<1>1. CASE i >= Pow(H - 1) BY <1>1, Zenon DEF SarHalf, SignedHalf, Pow
<1>2. CASE ~(i >= Pow(H - 1)) BY <1>2, Zenon DEF SarHalf, SignedHalf, Pow
<1> QED BY <1>1, <1>2

\* A half and its signed reading differ in bits a smaller count does not shift out.
LEMMA SameLowBits ==
  ASSUME NEW i \in Nat, NEW p, NEW r, Powers(p, r, Pow(H))
  PROVE  SignedHalf(i) % p = i % p
<1> DEFINE h == Pow(H)
           u == i \div p
           v == i % p
<1>1. p \in Nat \ {0} /\ r \in Nat \ {0} /\ h = p * r BY DEF Powers
<1>2. u \in Int /\ v \in Nat /\ v < p /\ i = u * p + v BY <1>1, DivIs
<1>3. SignedHalf(i) \in {i, i - h} BY DEF SignedHalf
<1> HIDE DEF h, u, v
<1>4. i - h = (u - r) * p + v
  <2>1. (u - r) * p = u * p - r * p /\ r * p = p * r BY <1>1, <1>2
  <2> QED BY <1>1, <1>2, <2>1
<1>5. Divided(i - h, u - r, p, v) BY <1>1, <1>2, <1>4 DEF Divided
<1>6. (i - h) % p = v BY <1>5, DividedIs
<1> QED BY <1>3, <1>6 DEF v

\* __ashrdi3 shifts right and keeps the sign.
LEMMA SignedRightIs ==
  ASSUME NEW w \in Word, NEW n \in Int
  PROVE  Signed(__ashrdi3(w, n)) = Signed(w) \div 2^(n % W)
<1> DEFINE d == n % W
           hi == arith64_hi(w)
           lo == arith64_lo(w)
           h == Pow(H)
           s == SignedHalf(hi)
<1>1. d \in 0 .. W - 1 BY CountIs
<1>2. Halves(hi, lo, h) /\ hi \in Nat /\ hi < h /\ w = hi * h + lo BY HalvesAre
<1>3. InSignedHalf(s) /\ s % h = hi BY <1>2, SignedHalfIs
<1>4. lo \in Nat /\ lo < h /\ h \in Nat \ {0} /\ s \in Int BY <1>2, <1>3 DEF Halves, InSignedHalf
<1>5. Halves(s, lo, h) BY <1>4 DEF Halves
<1>6. Signed(w) = s * h + lo
  <2>1. Signed(arith64_word(s % h, lo)) = s * h + lo BY <1>3, <1>4, SignedJoin
  <2>2. arith64_word(s % h, lo) = w BY <1>2, <1>3, Zenon DEF arith64_word, Pow
  <2> QED BY <2>1, <2>2
<1>7. Signed(w) \div 2^(n % W) = (s * h + lo) \div Pow(d) BY <1>6, Zenon DEF Pow
<1>8. CASE d >= H
  <2> DEFINE p == Pow(d - H)
             g == Pow(H - 1)
             e == s \div p
  <2>1. Pow(d) = p * h /\ p \in Nat \ {0} BY <1>1, <1>8, CountPow
  <2>2. __ashrdi3(w, n) = arith64_word(SarHalf(hi, H - 1), SarHalf(hi, d - H))
    BY <1>8, Zenon DEF __ashrdi3
  <2>3. SarHalf(hi, H - 1) = (s \div g) % h /\ SarHalf(hi, d - H) = e % h BY SarIs
  <2>4. InSignedHalf(e) /\ (s < 0 <=> e < 0) BY <1>3, <2>1, SignedQuotient
  <2>5. (s * h + lo) \div (p * h) = e BY <1>5, <2>1, RightFar
  <2>6. -g <= s /\ s < g /\ g \in Nat \ {0} /\ h = 2 * g BY <1>3, HalfPow DEF InSignedHalf
  <2>7. e \in Int /\ -g <= e /\ e < g BY <2>4 DEF InSignedHalf
  <2>8. (e >= 0 => e % h = e) /\ (e < 0 => e % h = e + h) BY <2>4, SignedRemainder
  <2>9. Signed(arith64_word((s \div g) % h, e % h)) = e
    <3>1. CASE s >= 0
      <4> HIDE DEF s, h, g, e
      <4>1. Divided(s, 0, g, s) BY <1>4, <2>6, <3>1 DEF Divided
      <4>2. s \div g = 0 BY <4>1, DividedIs
      <4>3. e \in Nat /\ e < h /\ e % h = e BY <1>4, <2>4, <2>6, <2>7, <2>8, <3>1
      <4>4. InSignedHalf(0) BY <2>6 DEF InSignedHalf, g
      <4>5. Signed(arith64_word(0 % h, e)) = 0 * h + e BY <4>3, <4>4, SignedJoin DEF h
      <4>6. 0 * h + e = e BY <1>4, <2>7
      <4> QED BY <4>2, <4>3, <4>5, <4>6
    <3>2. CASE s < 0
      <4> HIDE DEF s, h, g, e
      <4>1. Divided(s, -1, g, s + g) BY <1>4, <2>6, <3>2 DEF Divided
      <4>2. s \div g = -1 BY <4>1, DividedIs
      <4>3. e + h \in Nat /\ e + h < h /\ e % h = e + h BY <1>4, <2>4, <2>6, <2>7, <2>8, <3>2
      <4>4. InSignedHalf(-1) BY <2>6 DEF InSignedHalf, g
      <4>5. Signed(arith64_word((-1) % h, e + h)) = (-1) * h + (e + h) BY <4>3, <4>4, SignedJoin DEF h
      <4>6. (-1) * h + (e + h) = e BY <1>4, <2>7
      <4> QED BY <4>2, <4>3, <4>5, <4>6
    <3> QED BY <1>4, <3>1, <3>2
  <2> QED BY <1>7, <2>1, <2>2, <2>3, <2>5, <2>9
<1>9. CASE d < H /\ d # 0
  <2> DEFINE p == Pow(d)
             r == Pow(H - d)
             l == (s % p) * r + (lo \div p)
  <2>1. Powers(p, r, h) BY <1>1, <1>9, CountPow
  <2>2. ~(d >= H) BY <1>1, <1>9, Widths
  <2>3. __ashrdi3(w, n) = arith64_word(SarHalf(hi, d), ((hi * r) % h) + (lo \div p))
    BY <1>9, <2>2, Zenon DEF __ashrdi3, Shl, Shr, Pow
  <2>4. SarHalf(hi, d) = (s \div p) % h BY SarIs
  <2>5. (hi * r) % h = (hi % p) * r
    <3>1. hi \in Nat /\ p \in Nat \ {0} /\ r \in Nat \ {0} BY <1>2, <2>1 DEF Powers
    <3>2. h = p * r BY <2>1 DEF Powers
    <3> HIDE DEF hi, h, p, r
    <3>3. (hi * r) % (p * r) = (hi % p) * r BY <3>1, ShiftedUp, Zenon
    <3> QED BY <3>2, <3>3, Zenon
  <2>6. s % p = hi % p
    <3>1. hi \in Nat BY <1>2
    <3> HIDE DEF p, r, hi
    <3> QED BY <2>1, <3>1, SameLowBits, Zenon
  <2>7. InSignedHalf(s \div p) BY <1>3, <2>1, SignedQuotient DEF Powers
  <2>8. (s * h + lo) \div p = (s \div p) * h + l /\ l \in Nat /\ l < h BY <1>5, <2>1, RightNear
  <2>9. __ashrdi3(w, n) = arith64_word((s \div p) % h, l) BY <2>3, <2>4, <2>5, <2>6
  <2>10. Signed(arith64_word((s \div p) % h, l)) = (s \div p) * h + l BY <2>7, <2>8, SignedJoin
  <2> QED BY <1>7, <2>8, <2>9, <2>10
<1>10. CASE d = 0
  <2>1. __ashrdi3(w, n) = w
    <3>1. ~(d >= H) BY <1>10, Widths
    <3> QED BY <1>10, <3>1, Zenon DEF __ashrdi3
  <2>2. s * h + lo \in Int BY <1>4
  <2>3. (s * h + lo) \div 1 = s * h + lo
    <3> HIDE DEF s, h, lo
    <3> QED BY <2>2
  <2> QED BY <1>6, <1>7, <1>10, <2>1, <2>3, PowSmall
<1> QED BY <1>1, <1>8, <1>9, <1>10, Widths

\* The sweep visits words only.
IsWord == word \in Word

LEMMA SweepStays == Sweep => []IsWord
<1>1. FirstWord => IsWord BY WordPow DEF FirstWord, IsWord
<1>2. IsWord /\ [NextWord]_word => IsWord'
  <2> SUFFICES ASSUME IsWord, [NextWord]_word PROVE IsWord' OBVIOUS
  <2>1. CASE NextWord
    <3>1. PICK bit \in {0, 1} : word' = (2 * word + bit) % 2^W BY <2>1 DEF NextWord
    <3>2. 2 * word + bit \in Int BY WordPow DEF IsWord
    <3>3. Unsigned(2 * word + bit) \in Word BY <3>2, UnsignedIs
    <3> QED BY <3>1, <3>3 DEF Unsigned, IsWord
  <2> QED BY <2>1 DEF IsWord
<1> QED BY <1>1, <1>2, PTL DEF Sweep

\* The double-word shifts __ashldi3, __lshrdi3 and __ashrdi3 are the arithmetic ones, for
\* every width, every word and every int count (i386_builtins.c:64-100, 207-224).
THEOREM ShiftsAlwaysAgree == Sweep => []ShiftsAgree
<1>1. IsWord => ShiftsAgree
  <2> SUFFICES ASSUME IsWord PROVE ShiftsAgree OBVIOUS
  <2> word \in Word BY DEF IsWord
  <2>1. Counts \subseteq Int BY CountAssumption DEF Counts
  <2> QED BY <2>1, LeftIs, RightIs, SignedRightIs DEF ShiftsAgree
<1> QED BY <1>1, SweepStays, PTL

\* __absvdi2 is the absolute value, for every width and every word; the smallest number, which has
\* none, stays as it is (i386_builtins.c:58-62).
THEOREM AbsAlwaysAgrees == Sweep => []AbsAgrees
<1>1. IsWord => AbsAgrees
  <2> SUFFICES ASSUME IsWord PROVE AbsAgrees OBVIOUS
  <2> word \in Word BY DEF IsWord
  <2> DEFINE i == Signed(word)
             g == Pow(W - 1)
  <2>1. __absvdi2(word) = Magnitude(i) /\ i \in Int /\ (i < 0 <=> IsNegative(word))
    BY AbsIs DEF __absvdi2
  <2>2. i = IF word >= g THEN word - Pow(W) ELSE word BY Zenon DEF Signed, IsNegative, Pow
  <2>3. Signed(__absvdi2(word)) = IF __absvdi2(word) >= g THEN __absvdi2(word) - Pow(W) ELSE __absvdi2(word)
    BY Zenon DEF Signed, IsNegative, Pow
  <2>4. Magnitude(i) = IF i < 0 THEN -i ELSE i BY Zenon DEF Magnitude
  <2>5. word \in Int /\ 0 <= word /\ word < Pow(W) /\ Pow(W) = 2 * g /\ g \in Nat \ {0} BY WordPow
  <2> HIDE DEF i, g
  <2>6. Signed(__absvdi2(word)) = IF i = -g THEN i ELSE IF i < 0 THEN -i ELSE i
    BY <2>1, <2>2, <2>3, <2>4, <2>5
  <2> QED BY <2>6, Zenon DEF AbsAgrees, i, g, Pow
<1> QED BY <1>1, SweepStays, PTL
=============================================================================
