----------------------------- MODULE Divmod64 -----------------------------
(*************************************************************************)
(* The division routines of src/Library/kmod/i386_builtins.c.            *)
(* __udivdi3, __umoddi3, __divdi3 and __moddi3 all call __divmoddi4,     *)
(* whose long division loop is one action per pass.                      *)
(*************************************************************************)
EXTENDS Arith64

CONSTANT Args           \* the words the routines are called with

ASSUME ArgsAssumption == Args \subseteq Word

VARIABLES
  pc,                   \* where the call is
  f, x, y,              \* the routine called and its arguments
  b,                    \* the divisor __divmoddi4 was given
  a, rem, wrap, bits,   \* its numerator and its locals
  c,                    \* the remainder it stores, if asked for
  ret                   \* what the routine returns

vars == <<pc, f, x, y, b, a, rem, wrap, bits, c, ret>>
args == <<f, x, y, b>>
locals == <<rem, wrap, bits>>

Routines == {"__udivdi3", "__umoddi3", "__divdi3", "__moddi3"}
Signeds == {"__divdi3", "__moddi3"}
Remainders == {"__umoddi3", "__moddi3"}     \* these pass a pointer for c
AllOnes == 2^W - 1

TypeOK ==
  /\ pc \in {"idle", "entry", "narrow", "setup", "loop", "return", "done", "trap"}
  /\ f \in Routines /\ {x, y, a, b, rem, c, ret} \subseteq Word
  /\ wrap \in {0, AllOnes} /\ bits \in -1 .. W - 1

Init ==
  /\ pc = "idle" /\ f = "__udivdi3"
  /\ x = 0 /\ y = 0 /\ a = 0 /\ b = 0
  /\ rem = 0 /\ wrap = 0 /\ bits = 0 /\ c = 0 /\ ret = 0

\* A caller of one of the four routines.  The signed ones divide magnitudes.
Call(g, m, n) ==
  /\ pc = "idle" /\ pc' = "entry"
  /\ f' = g /\ x' = m /\ y' = n
  /\ a' = (IF g \in Signeds THEN arith64_abs(m) ELSE m)
  /\ b' = (IF g \in Signeds THEN arith64_abs(n) ELSE n)
  /\ UNCHANGED <<rem, wrap, bits, c, ret>>

\* __divmoddi4 hands back quotient q and, if asked, remainder r; the calling
\* routine is left to fix the sign.
Answer(q, r) ==
  /\ ret' = q /\ c' = (IF f \in Remainders THEN r ELSE c)
  /\ pc' = "return"

\* The divisor exceeds the numerator.
EntrySmall ==
  /\ pc = "entry" /\ b > a
  /\ Answer(0, a)
  /\ UNCHANGED <<args, a, locals>>

Entry ==
  /\ pc = "entry" /\ ~(b > a)
  /\ pc' = (IF arith64_hi(b) = 0 THEN "narrow" ELSE "setup")
  /\ UNCHANGED <<args, a, locals, c, ret>>

\* The divisor fits a half.  Division by zero raises the processor's exception.
NarrowByZero ==
  /\ pc = "narrow" /\ b = 0
  /\ pc' = "trap"
  /\ UNCHANGED <<args, a, locals, c, ret>>

ByOne_Never == FALSE
ByOne == b = 1

NarrowByOne ==
  /\ pc = "narrow" /\ b # 0 /\ ByOne
  /\ Answer(a, 0)
  /\ UNCHANGED <<args, a, locals>>

\* Both fit a half: the processor divides.
NarrowBoth ==
  /\ pc = "narrow" /\ b # 0 /\ ~ByOne /\ arith64_hi(a) = 0
  /\ Answer(arith64_lo(a) \div arith64_lo(b), arith64_lo(a) % arith64_lo(b))
  /\ UNCHANGED <<args, a, locals>>

NarrowOn ==
  /\ pc = "narrow" /\ b # 0 /\ ~ByOne /\ arith64_hi(a) # 0
  /\ pc' = "setup"
  /\ UNCHANGED <<args, a, locals, c, ret>>

\* Long division starts at the first numerator bit that can make a difference.
PassesNeeded(n) == __clzdi2(b) - __clzdi2(n) + 1

Setup ==
  /\ pc = "setup" /\ pc' = "loop"
  /\ bits' = PassesNeeded(a)
  /\ rem' = Shr(a, bits')
  /\ a' = Shl(a, W - bits', W)
  /\ wrap' = 0
  /\ UNCHANGED <<args, c, ret>>

WrapMask_Logical(r) == IF IsNegative(Unsigned(b - r - 1)) THEN 1 ELSE 0

\* b > r ? 0 : all ones, from the sign of the wrapped difference.
WrapMask(r) == IF IsNegative(Unsigned(b - r - 1)) THEN AllOnes ELSE 0

Pass_NoCount ==            \* the pass is not counted
  /\ pc = "loop" /\ bits > 0
  /\ LET r == Unsigned(2 * rem + Shr(a, W - 1)) IN
     /\ a' = Shl(a, 1, W) + (wrap % 2)
     /\ wrap' = WrapMask(r)
     /\ rem' = (IF wrap' = 0 THEN r ELSE Unsigned(r - b))
  /\ UNCHANGED <<args, c, ret, pc, bits>>

Pass_LoseWrap ==           \* the quotient bit is not shifted in
  /\ pc = "loop" /\ bits > 0
  /\ bits' = bits - 1
  /\ LET r == Unsigned(2 * rem + Shr(a, W - 1)) IN
     /\ a' = Shl(a, 1, W)
     /\ wrap' = WrapMask(r)
     /\ rem' = (IF wrap' = 0 THEN r ELSE Unsigned(r - b))
  /\ UNCHANGED <<args, c, ret, pc>>

\* One pass of the loop: a numerator bit goes into the remainder, the previous
\* quotient bit into the numerator.
Pass ==
  /\ pc = "loop" /\ bits > 0
  /\ bits' = bits - 1
  /\ LET r == Unsigned(2 * rem + Shr(a, W - 1)) IN
     /\ a' = Shl(a, 1, W) + (wrap % 2)
     /\ wrap' = WrapMask(r)
     /\ rem' = (IF wrap' = 0 THEN r ELSE Unsigned(r - b))
  /\ UNCHANGED <<args, c, ret, pc>>

LoopEnds ==
  /\ pc = "loop" /\ ~(bits > 0)
  /\ bits' = bits - 1
  /\ Answer(Shl(a, 1, W) + (wrap % 2), rem)
  /\ UNCHANGED <<args, a, rem, wrap>>

\* Some word with the sign of m ^ n.
SignOfXor(m, n) == IF IsNegative(m) # IsNegative(n) THEN AllOnes ELSE 0

Returned_DividendSign ==   \* the quotient takes the dividend's sign
  CASE f = "__udivdi3" -> ret
    [] f = "__umoddi3" -> c
    [] f = "__divdi3"  -> arith64_neg(ret, x)
    [] f = "__moddi3"  -> arith64_neg(c, x)

\* The calling routine: quotients take the sign of the exclusive or of the
\* arguments, remainders that of the numerator.
Returned ==
  CASE f = "__udivdi3" -> ret
    [] f = "__umoddi3" -> c
    [] f = "__divdi3"  -> arith64_neg(ret, SignOfXor(x, y))
    [] f = "__moddi3"  -> arith64_neg(c, x)

Return ==
  /\ pc = "return" /\ pc' = "done"
  /\ ret' = Returned
  /\ UNCHANGED <<args, a, locals, c>>

Divide ==
  \/ EntrySmall \/ Entry
  \/ NarrowByZero \/ NarrowByOne \/ NarrowBoth \/ NarrowOn
  \/ Setup \/ Pass \/ LoopEnds \/ Return

Next == Divide \/ \E g \in Routines, m, n \in Args : Call(g, m, n)

Spec == Init /\ [][Next]_vars

----------------------------------------------------------------------------
Magnitude(i) == IF i < 0 THEN -i ELSE i
Sign(i) == IF i < 0 THEN -1 ELSE 1
Dividend == IF f \in Signeds THEN Signed(x) ELSE x
Divisor == IF f \in Signeds THEN Signed(y) ELSE y

\* What C's / and % mean: the quotient is cut off toward zero and the remainder
\* has the sign of the dividend.  Only the smallest number over -1 overflows.
Correct ==
  LET q == Magnitude(Dividend) \div Magnitude(Divisor)
      r == Magnitude(Dividend) % Magnitude(Divisor)
  IN  IF f \in Remainders THEN Unsigned(Sign(Dividend) * r)
      ELSE Unsigned(Sign(Dividend) * Sign(Divisor) * q)

\* Every division that returns is the C division of its arguments, and exactly
\* the divisions by zero raise the exception (i386_builtins.c:148-198, 226-271).
DivisionCorrect ==
  /\ pc = "done" => Divisor # 0 /\ ret = Correct
  /\ pc = "trap" => Divisor = 0

\* The loop invariant: the quotient bits found so far, in the low end of a and
\* in wrap, and rem account for the numerator bits consumed, and the bits not
\* yet consumed are at the high end of a (i386_builtins.c:178-190).
LongDivision ==
  LET n == Magnitude(Dividend)
      quotient == 2 * (a % 2^(PassesNeeded(n) - bits)) + (wrap % 2)
  IN  pc = "loop" =>
        /\ n \div 2^bits = quotient * b + rem
        /\ rem < b
        /\ n % 2^bits = a \div 2^(W - bits)

\* The shift counts of lines 179-180 are ones C defines: at least one pass is
\* needed, and fewer than the width.
ShiftsDefined == pc = "setup" => PassesNeeded(a) \in 1 .. W - 1

\* Every call ends: it returns or raises the exception (i386_builtins.c:182).
Terminates == pc = "entry" ~> pc \in {"done", "trap"}
=============================================================================
