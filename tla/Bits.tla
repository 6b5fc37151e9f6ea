-------------------------------- MODULE Bits --------------------------------
(*************************************************************************)
(* The bit and bitmap functions of src/Headers/kern/bits.h.  A word is   *)
(* the set of the positions of its ones, below B, which is 64 in the     *)
(* code; a bitmap is a function from word indices.  Loops that look for  *)
(* the first word with a one, from either end, are a Max or a Min.       *)
(*************************************************************************)
EXTENDS Integers, FiniteSetsExt

CONSTANT B            \* bits of a word: a power of two

ASSUME BitsAssumption == B \in {2, 4, 8, 16, 32, 64}

AllBits == 0 .. B - 1
mask(width) == IF width >= B THEN AllBits ELSE 0 .. width - 1
extract(x, shift, width) == {i - shift : i \in x} \cap mask(width)
bits_between(x, hi, lo) == extract(x, lo, hi - lo + 1)

bit_set(x, b) == x \cup {b}
bit_clear(x, b) == x \ {b}
bit_test(x, b) == b \in x

\* What the shifts of a word may give: by the full width C leaves them
\* undefined, and any word may come out.
ShiftsLeft(x, n) == IF n = B THEN SUBSET AllBits ELSE {{i + n : i \in x} \cap AllBits}
ShiftsRight(x, n) == IF n = B THEN SUBSET AllBits ELSE {{i - n : i \in x} \cap AllBits}

bit_ror64(x, k) ==
  LET n == k % B IN {s \cup t : s \in ShiftsRight(x, n), t \in ShiftsLeft(x, B - n)}
bit_rol64(x, k) ==
  LET n == k % B IN {s \cup t : s \in ShiftsLeft(x, n), t \in ShiftsRight(x, B - n)}

\* What is returned, and the caller's word afterwards: the word is passed by
\* value, and bit_clear and bit_set change the routine's own copy.
bit_clear_if_set(x, b) == [ret |-> bit_test(x, b), bitmap |-> x]
bit_set_if_clear(x, b) == [ret |-> ~bit_test(x, b), bitmap |-> x]

\* __builtin_clzll and __builtin_ffsll.
bit_first(x) == IF x = {} THEN -1 ELSE Max(x)
lsb_first(x) == IF x = {} THEN -1 ELSE Min(x)

__bit_next(x, previous_bit) ==
  bit_first(x \cap (IF previous_bit # 0 THEN mask(previous_bit) ELSE AllBits))
bit_next(x, previous_bit) == IF previous_bit = 0 THEN -1 ELSE __bit_next(x, previous_bit)

lsb_next_Again(x, previous_bit) ==      \* Mutant: the previous bit is not masked
  lsb_first(x \ mask(previous_bit))
lsb_next(x, previous_bit) == lsb_first(x \ mask(previous_bit + 1))

bit_floor(x) == bit_first(x)

\* Of n, whose predecessor's ones are those of x.
bit_ceiling(n, x) == IF n = 0 THEN -1 ELSE bit_first(x) + 1

BITMAP_LEN(n) == (n + B - 1) \div B
bitmap_bit(n) == n % B
bitmap_index(n) == n \div B

bitmap_full(nbits) == [i \in 0 .. BITMAP_LEN(nbits) - 1 |-> AllBits]
bitmap_set(map, n) == [map EXCEPT ![bitmap_index(n)] = bit_set(@, bitmap_bit(n))]
bitmap_clear(map, n) == [map EXCEPT ![bitmap_index(n)] = bit_clear(@, bitmap_bit(n))]
bitmap_test(map, n) == bit_test(map[bitmap_index(n)], bitmap_bit(n))

FromTop(map, words) ==
  LET full == {i \in words : map[i] # {}}
  IN  IF full = {} THEN -1 ELSE Max(full) * B + bit_first(map[Max(full)])
FromBottom(map, words) ==
  LET full == {i \in words : map[i] # {}}
  IN  IF full = {} THEN -1 ELSE Min(full) * B + lsb_first(map[Min(full)])

bitmap_first(map, nbits) == FromTop(map, 0 .. bitmap_index(nbits - 1))
bitmap_and_not_mask_first(map, not, nbits) ==
  FromTop([i \in DOMAIN map |-> map[i] \ not[i]], 0 .. bitmap_index(nbits - 1))
bitmap_lsb_first(map, nbits) == FromBottom(map, 0 .. bitmap_index(nbits - 1))

bitmap_next(map, prev) ==
  LET i == bitmap_index(prev - 1)
      res == __bit_next(map[i], bitmap_bit(prev))
  IN  IF prev = 0 THEN -1 ELSE IF res >= 0 THEN res + i * B ELSE FromTop(map, 0 .. i - 1)

\* prev is unsigned; all ones wraps to the search for the first bit.
bitmap_lsb_next(map, nbits, prev) ==
  LET i == bitmap_index(prev + 1)
      res == lsb_next(map[i], bitmap_bit(prev + 1) - 1)
  IN  IF prev + 1 >= nbits THEN -1
      ELSE IF res >= 0 THEN res + i * B
      ELSE FromBottom(map, i + 1 .. bitmap_index(nbits - 1))
=============================================================================
