----------------------------- MODULE WordSweep ------------------------------
(*************************************************************************)
(* Every word, built from its highest bit down, and what the shifts and  *)
(* the absolute value of Arith64 are documented to return for it.        *)
(*************************************************************************)
EXTENDS Arith64

CONSTANT MaxCount    \* the bound on the shift counts, which are any int

ASSUME CountAssumption == MaxCount \in Nat

Counts == -MaxCount .. MaxCount

VARIABLE word

FirstWord == word = 0
NextWord == \E bit \in {0, 1} : word' = (2 * word + bit) % 2^W
Sweep == FirstWord /\ [][NextWord]_word

\* The double-word shifts move the whole word, also across the halves and for
\* every int count, of which the low bits count (i386_builtins.c:64-100,
\* 207-224: "the result of shifting a left by b bits" and so on).
ShiftsAgree ==
  \A n \in Counts :
    /\ __ashldi3(word, n) = Unsigned(word * 2^(n % W))
    /\ __lshrdi3(word, n) = word \div 2^(n % W)
    /\ Signed(__ashrdi3(word, n)) = Signed(word) \div 2^(n % W)

\* The absolute value, of which i386_builtins.c:58 says "Note LLINT_MIN cannot
\* be negated": the smallest number is its own absolute value.
AbsAgrees ==
  LET i == Signed(word) IN
  Signed(__absvdi2(word)) = (IF i = -(2^(W - 1)) THEN i ELSE IF i < 0 THEN -i ELSE i)
=============================================================================
