------------------------------ MODULE Numeric ------------------------------
(*************************************************************************)
(* The numeric helpers of the headers: double-word sums, products and    *)
(* shifts (src/Headers/kern/arithmetic_128.h for 32-bit builds,          *)
(* src/Headers/IOKit/audio/BigNum128.h), CD addresses                    *)
(* (src/Headers/IOKit/storage/IOCDTypes.h) and time values               *)
(* (src/Headers/mach/time_value.h).  Words have H bits here, where the   *)
(* code has 64.                                                          *)
(*************************************************************************)
EXTENDS Arith64

CONSTANTS
  LBABits,           \* the width of UInt32, as far as it is kept
  TIME_MICROS_MAX    \* the microseconds of a second

ASSUME NumericAssumption == LBABits \in 21 .. 32 /\ TIME_MICROS_MAX \in Nat \ {0}

Wraps(n) == n % 2^H

----------------------------------------------------------------------------
\* uint128_data_t, and its product of two words.

add128_128_NoCarry(acc, add) ==    \* Mutant: the carry is lost
  [high |-> Wraps(acc.high + add.high), low |-> Wraps(acc.low + add.low)]

add128_128(acc, add) ==
  LET high == Wraps(acc.high + add.high)
      low == Wraps(acc.low + add.low)
  IN  [high |-> IF low < add.low THEN Wraps(high + 1) ELSE high, low |-> low]

mul64x64(x, y) ==
  LET part == 2^(H \div 2)
      x1 == x \div part  x2 == x % part
      y1 == y \div part  y2 == y % part
      Middle(p) == [high |-> p \div part, low |-> Wraps(p * part)]
  IN  add128_128(add128_128([high |-> x1 * y1, low |-> x2 * y2], Middle(x1 * y2)), Middle(x2 * y1))

multi_overflow(a, b) == mul64x64(a, b).high

----------------------------------------------------------------------------
\* class U128.

\* operator==, operator> and operator<, of this on the left and A on the right.
Equal(this, A) == A.hi = this.hi /\ A.lo = this.lo
Greater(this, A) == A.hi > this.hi \/ (A.hi = this.hi /\ A.lo > this.lo)
Less(this, A) == ~(A.hi > this.hi \/ (A.hi = this.hi /\ A.lo > this.lo))

\* The postfix ++ and --: what this becomes, which is also what they return.
PostIncrement(this) ==
  LET lo == Wraps(this.lo + 1)
      stepped == [lo |-> lo, hi |-> IF lo = 0 THEN Wraps(this.hi + 1) ELSE this.hi]
  IN  [this |-> stepped, ret |-> stepped]
PostDecrement(this) ==
  LET stepped == [lo |-> Wraps(this.lo - 1), hi |-> IF this.lo = 0 THEN Wraps(this.hi - 1) ELSE this.hi]
  IN  [this |-> stepped, ret |-> stepped]

\* operator+ and operator+=.
Plus(n, A) ==
  LET lo == Wraps(A.lo + n.lo)
      hi == Wraps(A.hi + n.hi)
  IN  [lo |-> lo, hi |-> IF lo < A.lo \/ lo < n.lo THEN Wraps(hi + 1) ELSE hi]

Minus(A, n) ==
  LET lo == Wraps(A.lo - n.lo)
      hi == Wraps(A.hi - n.hi)
  IN  [lo |-> lo, hi |-> IF lo > A.lo THEN Wraps(hi - 1) ELSE hi]

RECURSIVE ShiftLeft(_, _)
ShiftLeft(n, count) ==
  IF count = 0 THEN n
  ELSE ShiftLeft([hi |-> Wraps(2 * n.hi) + (IF n.lo >= 2^(H - 1) THEN 1 ELSE 0),
                  lo |-> Wraps(2 * n.lo)], count - 1)

RECURSIVE ShiftRight(_, _)
ShiftRight(n, count) ==
  IF count = 0 THEN n
  ELSE ShiftRight([lo |-> n.lo \div 2 + (IF n.hi % 2 = 1 THEN 2^(H - 1) ELSE 0),
                   hi |-> n.hi \div 2], count - 1)

----------------------------------------------------------------------------
\* CD addresses: a minute is a UInt8, and so are a second and a frame.

CDConvertMSFToLBA(msf) == ((msf.minute * 60 + msf.second) * 75 + msf.frame - 150) % 2^LBABits

CDConvertMSFToClippedLBA(msf) ==
  IF msf.minute = 0 /\ msf.second <= 1 THEN 0 ELSE CDConvertMSFToLBA(msf)

CDConvertLBAToMSF(lba) ==
  LET n == (lba + 150) % 2^LBABits
  IN  [minute |-> (n \div (75 * 60)) % 256, second |-> (n % (75 * 60)) \div 75, frame |-> n % 75]

----------------------------------------------------------------------------
time_value_add_usec(val, micros) ==
  LET sum == val.microseconds + micros IN
  IF sum >= TIME_MICROS_MAX
  THEN [microseconds |-> sum - TIME_MICROS_MAX, seconds |-> val.seconds + 1]
  ELSE [val EXCEPT !.microseconds = sum]

time_value_add(result, addend) ==
  LET sum == result.microseconds + addend.microseconds
      seconds == result.seconds + addend.seconds
  IN
  IF sum >= TIME_MICROS_MAX
  THEN [microseconds |-> sum - TIME_MICROS_MAX, seconds |-> seconds + 1]
  ELSE [microseconds |-> sum, seconds |-> seconds]
=============================================================================
