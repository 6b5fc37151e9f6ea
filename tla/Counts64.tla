----------------------------- MODULE Counts64 -----------------------------
(*************************************************************************)
(* The routines of src/Library/kmod/i386_builtins.c that count trailing  *)
(* zeros and ones.                                                       *)
(*************************************************************************)
EXTENDS Arith64, FiniteSetsExt, SequencesExt

\* The steps of the counting routines: width/2, width/4, ..., 2.  The code
\* writes them out, one line each.
Log2(width) == CHOOSE k \in 1 .. 6 : width = 2^k
HalvingSteps(width) == [i \in 1 .. Log2(width) - 1 |-> width \div 2^i]

\* One line of __ctzsi2 or __ctzdi2: as a line of Clz, from the other end.
CtzLine(acc, step) ==
  IF acc.a % 2^step = 0 THEN [a |-> Shr(acc.a, step), n |-> acc.n + step] ELSE acc

Ctz(width, a) ==
  LET end == FoldLeft(CtzLine, [a |-> a, n |-> 0], HalvingSteps(width))
  IN  end.n + (IF end.a % 2 = 0 THEN 1 ELSE 0)

__ctzsi2(a) == Ctz(H, a)
__ctzdi2(a) == Ctz(W, a)

__ffsdi2(a) == IF a # 0 THEN __ctzdi2(a) + 1 ELSE 0

Bit(a, i) == (a \div 2^i) % 2

AndMask_TooWide(a, run, width) ==      \* the mask of the next longer runs
  MapThenSumSet(LAMBDA i : Bit(a, i) * 2^i, {i \in 0 .. width - 1 : (i \div (2 * run)) % 2 = 0})

\* a & mask, for the mask whose low `run` bits of every 2 * run are set:
\* 0x5555..., 0x3333... and 0x0F0F...
AndMask(a, run, width) ==
  MapThenSumSet(LAMBDA i : Bit(a, i) * 2^i, {i \in 0 .. width - 1 : (i \div run) % 2 = 0})

\* The sums of 8-bit groups are folded onto the low byte by halves.
FoldBytes(a, width) ==
  FoldLeft(LAMBDA x, step : (x + Shr(x, step)) % 2^width, a,
           SelectSeq(HalvingSteps(width), LAMBDA n : n > 8))

Popcount(width, a0) ==
  LET a1 == a0 - AndMask(Shr(a0, 1), 1, width)
      a2 == AndMask(Shr(a1, 2), 2, width) + AndMask(a1, 2, width)
      a3 == AndMask((a2 + Shr(a2, 4)) % 2^width, 4, width)
      a4 == FoldBytes(a3, width)
  IN  (a4 + Shr(a4, 8)) % (2 * width)

__popcountsi2(a) == Popcount(H, a)
__popcountdi2(a) == Popcount(W, a)
=============================================================================
