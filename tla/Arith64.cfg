\* 16-bit words, the widest that can all be visited.  The folds of lines 241, 253
\* and 254 join bytes 16 and 32 bits apart and have nothing to do at this width.
\* Divisions are of words around the powers of two and the limits of the halves, the
\* words and the signs, and of some in between.  A call of a division ends with its
\* return or its exception.
CONSTANTS
  H = 8
  MaxCount = 17
  B = 4
  MapWords = 3
  LBABits = 24
  TIME_MICROS_MAX = 10
  Args = {0, 1, 2, 3, 5, 15, 16, 127, 128, 255, 256, 257, 1000, 4096, 21845, 32767, 32768, 32769,
          65279, 65280, 65281, 65533, 65534, 65535}
SPECIFICATION Library
CHECK_DEADLOCK FALSE
INVARIANTS
  ShiftsAgree
  SearchesAgree
  PopcountsAgree
  AbsAgrees
  BitOperationsAgree
  NumericHelpersAgree
  TypeOK
  DivisionCorrect
  LongDivision
  ShiftsDefined
PROPERTY
  Terminates
