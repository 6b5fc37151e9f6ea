------------------------------ MODULE Arith64 ------------------------------
(*************************************************************************)
(* The integer routines libkmod supplies to 32-bit kernel extensions,    *)
(* src/Library/kmod/i386_builtins.c, except those that count from the    *)
(* low end (Counts64) and the divisions (Divmod64).  A word has two      *)
(* halves of H bits; the code has H = 32.  Words are the unsigned        *)
(* numbers 0 .. 2^W - 1, and Signed gives the two's complement reading.  *)
(* A mask of the code is a set of bit positions.  Signed overflow, which *)
(* C leaves undefined, wraps, as it does in the instructions every build *)
(* of the library consists of.                                           *)
(*************************************************************************)
EXTENDS Integers

CONSTANT H            \* bits of a half: a power of two

ASSUME Arith64Assumption == H \in {2, 4, 8, 16, 32}

W == 2 * H

\* The laws of exponents, as far as words go.
ASSUME PowersAssumption ==
  \A m, n \in 0 .. W : m + n <= W => 2^m \in Nat \ {0} /\ 2^(m + n) = 2^m * 2^n

Half == 0 .. 2^H - 1
Word == 0 .. 2^W - 1
IsNegative(x) == x >= 2^(W - 1)
Signed(x) == IF IsNegative(x) THEN x - 2^W ELSE x
Unsigned(i) == i % 2^W

\* arith64_word: a union of the word and its two halves.
arith64_hi(n) == n \div 2^H
arith64_lo(n) == n % 2^H
arith64_word(hi, lo) == hi * 2^H + lo

\* C shifts of a half and, further down, of a word of the given width.
Shl(x, n, width) == (x * 2^n) % 2^width
Shr(x, n) == x \div 2^n
SarHalf(x, n) == (IF x >= 2^(H - 1) THEN (x - 2^H) \div 2^n ELSE x \div 2^n) % 2^H

arith64_neg_InvertOnly(a, b) == IF IsNegative(b) THEN 2^W - 1 - a ELSE a

\* Invert, by the exclusive or with minus one, and increment.
arith64_neg(a, b) == IF IsNegative(b) THEN Unsigned((2^W - 1 - a) + 1) ELSE a
arith64_abs(a) == arith64_neg(a, a)
__absvdi2(a) == arith64_abs(a)

\* The bits moved from one half into the other do not overlap the bits that are
\* there, so the bitwise or is a sum.
__ashldi3_NoCarry(a, n) ==        \* the bits leaving the low half are lost
  LET b == n % W  hi == arith64_hi(a)  lo == arith64_lo(a) IN
  IF b >= H THEN arith64_word(Shl(lo, b - H, H), 0)
  ELSE arith64_word(Shl(hi, b, H), Shl(lo, b, H))

__ashldi3(a, n) ==
  LET b == n % W  hi == arith64_hi(a)  lo == arith64_lo(a) IN
  IF b >= H THEN arith64_word(Shl(lo, b - H, H), 0)
  ELSE IF b # 0 THEN arith64_word(Shr(lo, H - b) + Shl(hi, b, H), Shl(lo, b, H))
  ELSE a

__ashrdi3(a, n) ==
  LET b == n % W  hi == arith64_hi(a)  lo == arith64_lo(a) IN
  IF b >= H THEN arith64_word(SarHalf(hi, H - 1), SarHalf(hi, b - H))
  ELSE IF b # 0 THEN arith64_word(SarHalf(hi, b), Shl(hi, H - b, H) + Shr(lo, b))
  ELSE a

__lshrdi3(a, n) ==
  LET b == n % W  hi == arith64_hi(a)  lo == arith64_lo(a) IN
  IF b >= H THEN arith64_word(0, Shr(hi, b - H))
  ELSE IF b # 0 THEN arith64_word(Shr(hi, b), Shl(hi, H - b, H) + Shr(lo, b))
  ELSE a

ClzLine_ShiftAlways(width, acc, step) ==
  IF step >= width THEN acc
  ELSE [a |-> Shl(acc.a, step, width),
        n |-> acc.n + (IF acc.a < 2^(width - step) THEN step ELSE 0)]

\* One line of __clzsi2 or __clzdi2: when the top `step` bits are clear they
\* are counted and shifted out.  The routine for a width has the lines of the
\* steps below it.
ClzLine(width, acc, step) ==
  IF step < width /\ acc.a < 2^(width - step)
    THEN [a |-> Shl(acc.a, step, width), n |-> acc.n + step]
    ELSE acc

Clz(width, a) ==
  LET l32 == ClzLine(width, [a |-> a, n |-> 0], 32)
      l16 == ClzLine(width, l32, 16)
      l8 == ClzLine(width, l16, 8)
      l4 == ClzLine(width, l8, 4)
      l2 == ClzLine(width, l4, 2)
  IN  l2.n + (IF l2.a < 2^(width - 1) THEN 1 ELSE 0)

__clzsi2(a) == Clz(H, a)
__clzdi2(a) == Clz(W, a)
=============================================================================
