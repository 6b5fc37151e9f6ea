---------------------------- MODULE Arith64Sweep ----------------------------
(*************************************************************************)
(* Sweeps every word through the routines of Arith64, of Counts64, of    *)
(* Numeric and, as bitmaps, the shorter ones through those of Bits, and  *)
(* compares each result with what the routine is documented to return.   *)
(* The reference definitions speak of numbers and of sets of bit         *)
(* positions; the code speaks of halves, masks and shifts.  From the     *)
(* first word the divisions of Divmod64, which take many steps, are      *)
(* called as well.                                                       *)
(*************************************************************************)
EXTENDS WordSweep, Divmod64, Counts64, Numeric, Bits

CONSTANT MapWords      \* the bound on the words of a bitmap

ASSUME SweepAssumption == MapWords \in Nat /\ MapWords * B <= 2 * H

Start == FirstWord /\ Init
Step ==
  \/ pc = "idle" /\ NextWord /\ UNCHANGED vars
  \/ FirstWord /\ Next /\ UNCHANGED word

\* The processor goes on with a division that was called.
Library == Start /\ [][Step]_<<word, vars>> /\ WF_<<word, vars>>(Step)

Ones(i, width) == {p \in 0 .. width - 1 : Bit(i, p) = 1}

\* The bisecting bit searches find the first one from either end, for a whole
\* word and for its halves (i386_builtins.c:102-103 and 125-126: "number of
\* leading 0-bits", "number of trailing 0-bits"; 200-201 for __ffsdi2).  The
\* result for zero is undefined there, except that __ffsdi2 returns zero.
SearchesAgree ==
  LET hi == arith64_hi(word)  lo == arith64_lo(word) IN
  /\ word # 0 => /\ __clzdi2(word) = W - 1 - Max(Ones(word, W))
                 /\ __ctzdi2(word) = Min(Ones(word, W))
  /\ hi # 0 => __clzsi2(hi) = H - 1 - Max(Ones(hi, H))
  /\ lo # 0 => __ctzsi2(lo) = Min(Ones(lo, H))
  /\ __ffsdi2(word) = (IF word = 0 THEN 0 ELSE Min(Ones(word, W)) + 1)

\* The sums kept in ever wider groups of bits never overflow into their
\* neighbours: the total is the number of ones (i386_builtins.c:234-257).
PopcountsAgree ==
  /\ __popcountdi2(word) = Cardinality(Ones(word, W))
  /\ __popcountsi2(arith64_lo(word)) = Cardinality(Ones(arith64_lo(word), H))

\* Every bit function of a single word, also where a mask is of the whole width
\* or of nothing: fields, rotation by any count that is not a multiple of the
\* width, the first one from either end beyond a position (bits.h:43-63, 83-129:
\* "the most significant '1' bit that is less significant than previous_bit, or
\* -1 if no such bit exists"; 137-152).  Rotation by a multiple of the width
\* rests on an undefined shift, and only its ones are known to be kept.
\* bit_clear_if_set and bit_set_if_clear return whether there was something to
\* change (65-81); what they change is lost, so nothing is said of the word.
BitsAgree ==
  LET n == word % 2^B
      bitmap == Ones(n, B)
  IN
  /\ \A k \in 0 .. MaxCount :
       IF k % B = 0 THEN \A r \in bit_ror64(bitmap, k) \cup bit_rol64(bitmap, k) : bitmap \subseteq r
       ELSE /\ bit_ror64(bitmap, k) = {{(i - k) % B : i \in bitmap}}
            /\ bit_rol64(bitmap, k) = {{(i + k) % B : i \in bitmap}}
  /\ \A hi \in AllBits : \A lo \in 0 .. hi :
       bits_between(bitmap, hi, lo) = Ones((n \div 2^lo) % 2^(hi - lo + 1), B)
  /\ \A p \in AllBits : /\ bit_clear_if_set(bitmap, p).ret <=> bit_clear(bitmap, p) # bitmap
                        /\ bit_set_if_clear(bitmap, p).ret <=> bit_set(bitmap, p) # bitmap
  /\ \A p \in AllBits : bit_next(bitmap, p) = Max({-1} \cup {i \in bitmap : i < p})
  /\ \A p \in AllBits \cup {-1} :
       lsb_next(bitmap, p) = (IF \E i \in bitmap : i > p THEN Min({i \in bitmap : i > p}) ELSE -1)
  /\ n # 0 => /\ 2^bit_floor(bitmap) <= n /\ n < 2^(bit_floor(bitmap) + 1)
              /\ LET up == bit_ceiling(n, Ones(n - 1, B)) IN n <= 2^up /\ (up > 0 => 2^(up - 1) < n)

\* The searches in a bitmap of several words find the next one across word
\* boundaries, from a position at a boundary and at both ends.  They look at
\* all bits of the words nbits takes up, also at those beyond nbits, which
\* bitmap_full sets (bits.h:177-326).
BitmapsAgree ==
  word < 2^(MapWords * B) =>
    LET ones == Ones(word, MapWords * B)
        map == [i \in 0 .. MapWords - 1 |-> {j \in AllBits : i * B + j \in ones}]
        Least(S) == IF S = {} THEN -1 ELSE Min(S)
        Covered(nbits) == {i \in ones : i < B * BITMAP_LEN(nbits)}
    IN
    /\ \A nbits \in 1 .. MapWords * B :
         /\ bitmap_first(map, nbits) = Max({-1} \cup Covered(nbits))
         /\ bitmap_lsb_first(map, nbits) = Least(Covered(nbits))
         /\ bitmap_and_not_mask_first(bitmap_full(MapWords * B), map, nbits) =
              Max({-1} \cup ((0 .. B * BITMAP_LEN(nbits) - 1) \ ones))
         /\ \A prev \in -1 .. nbits - 2 :
              bitmap_lsb_next(map, nbits, prev) = Least({i \in Covered(nbits) : i > prev})
    /\ \A prev \in 0 .. MapWords * B : bitmap_next(map, prev) = Max({-1} \cup {i \in ones : i < prev})
    /\ \A n \in 0 .. MapWords * B - 1 :
         LET put == bitmap_set(map, n)  off == bitmap_clear(map, n) IN
         \A m \in 0 .. MapWords * B - 1 :
           /\ bitmap_test(put, m) = (m = n \/ m \in ones)
           /\ bitmap_test(off, m) = (m # n /\ m \in ones)

\* The functions of bits.h on words and on bitmaps return what their comments
\* say, except that two do not change the word they are given and that C leaves
\* rotation by nothing undefined, both as said above.  The atomic operations,
\* bit_count and the allocation are left out (bits.h:43-152, 177-326).
BitOperationsAgree == BitsAgree /\ BitmapsAgree

\* Double words: the product of any two words is exact, with both middle terms
\* carried into the high word (arithmetic_128.h:74-81), and sums, differences,
\* steps and shifts of two double words are those of the numbers, whatever the
\* low words carry or borrow (BigNum128.h:38-131).  Not everything is what its
\* name says: the postfix ++ and -- return the number after the step (43, 52),
\* operator> is true when the number on its right is the greater one (35), and
\* operator< whenever operator> is not, also for equal numbers (36).
DoubleWordsAgree ==
  LET Number(n) == arith64_word(n.hi, n.lo)
      Double(i) == [hi |-> arith64_hi(i), lo |-> arith64_lo(i)]
      n == Double(word)
      prod == mul64x64(n.hi, n.lo)
      Others == {0, 1, 2^H - 1, 2^H, 2^(W - 1), 2^W - 1, arith64_word(n.lo, n.hi), Unsigned(-word)}
  IN
  /\ arith64_word(prod.high, prod.low) = n.hi * n.lo
  /\ multi_overflow(n.hi, n.lo) = (n.hi * n.lo) \div 2^H
  /\ \A i \in Others : /\ Number(Plus(n, Double(i))) = Unsigned(word + i)
                       /\ Number(Minus(n, Double(i))) = Unsigned(word - i)
                       /\ Equal(n, Double(i)) <=> word = i
                       /\ Greater(n, Double(i)) <=> word < i
                       /\ Less(n, Double(i)) <=> word >= i
  /\ Number(PostIncrement(n).this) = Unsigned(word + 1) /\ PostIncrement(n).ret = PostIncrement(n).this
  /\ Number(PostDecrement(n).this) = Unsigned(word - 1) /\ PostDecrement(n).ret = PostDecrement(n).this
  /\ \A k \in {0, 1, H - 1, H, W} : /\ Number(ShiftLeft(n, k)) = (word % 2^(W - k)) * 2^k
                                    /\ Number(ShiftRight(n, k)) = word \div 2^k

\* Addresses with every minute and second a CDMSF can hold and frames up to its
\* limit, also those beyond 59 seconds or 74 frames, become block numbers, and
\* back the address of the same frame, of whose minutes 8 bits are left.  Block
\* numbers of the first 150 frames wrap; clipped ones never do, and are exact for
\* normalised addresses (IOCDTypes.h:130-162).  Normalised time values stay
\* normalised and exact ("Assume that time values are normalized",
\* time_value.h:74).
ConversionsAgree ==
  LET Address(p) == [minute |-> (p \div 4500) % 256, second |-> (p \div 75) % 60, frame |-> p % 75]
      Micros(t) == t.seconds * TIME_MICROS_MAX + t.microseconds
      Normalised(t) == t.microseconds \in 0 .. TIME_MICROS_MAX - 1
      time == [seconds |-> word \div TIME_MICROS_MAX, microseconds |-> word % TIME_MICROS_MAX]
  IN
  /\ \A frame \in {0, 1, 37, 73, 74, 75, 149, 150, 255} :
       LET msf == [minute |-> (word \div 256) % 256, second |-> word % 256, frame |-> frame]
           p == (msf.minute * 60 + msf.second) * 75 + frame
           clipped == CDConvertMSFToClippedLBA(msf)
       IN  /\ CDConvertLBAToMSF(CDConvertMSFToLBA(msf)) = Address(p)
           /\ clipped <= p
           /\ msf.second < 60 /\ frame < 75 => clipped = Max({0, p - 150})
  /\ \A m \in 0 .. TIME_MICROS_MAX - 1 :
       LET more == [seconds |-> word % 3, microseconds |-> m] IN
       /\ Normalised(time_value_add_usec(time, m)) /\ Normalised(time_value_add(time, more))
       /\ Micros(time_value_add_usec(time, m)) = word + m
       /\ Micros(time_value_add(time, more)) = word + Micros(more)

\* The numeric helpers are exact at every carry, borrow and wrap, with the
\* comparisons and postfix results of U128 as said above
\* (arithmetic_128.h:49-100, BigNum128.h:35-131, IOCDTypes.h:134-162,
\* time_value.h:79-94).
NumericHelpersAgree == DoubleWordsAgree /\ ConversionsAgree
=============================================================================
