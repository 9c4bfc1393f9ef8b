------------------------------ MODULE Ant32Arith ------------------------------
(***************************************************************************)
(* Arithmetic on the words of the Ant-32: the C operators its processor    *)
(* uses on the host's two's complement integers, and the routines of       *)
(* Lib32/arith32.c, which return a second word, the high one.              *)
(* A word has two half words of two bytes; a byte takes ByteSize values.   *)
(***************************************************************************)
EXTENDS Integers, FiniteSetsExt

CONSTANTS
  ByteBits,   \* BITS_PER_BYTE, 8 in the code
  ByteSize    \* the number of values of a byte

ASSUME ByteAssumption ==
  /\ ByteBits \in Nat
  /\ ByteSize \in Nat
  /\ ByteSize = 2 ^ ByteBits
  /\ ByteSize > 0 /\ ByteSize % 2 = 0

WordBits  == 4 * ByteBits
HwordSize == ByteSize * ByteSize
WordSize  == HwordSize * HwordSize
MinInt    == -(WordSize \div 2)
MaxInt    == -(MinInt + 1)
Word      == MinInt .. MaxInt
Octet      == 0 .. ByteSize - 1

(* What the bytes of a word count for, the least significant one first.    *)
Weight == <<1, ByteSize, HwordSize, ByteSize * HwordSize>>

(* An integer cut to a field of n values: unsigned, and sign extended.     *)
Lower(x, n)  == x % n
Signed(x, n) == LET u == x % n IN IF u >= n \div 2 THEN u - n ELSE u
Truncate(x)  == Signed(x, WordSize)

(* What a sum or a difference of two words leaves in a word.               *)
Wrap(x) == IF x > MaxInt THEN x - WordSize ELSE IF x < MinInt THEN x + WordSize ELSE x

(* A word as the set of its bits.                                          *)
Bits(x)     == {i \in 0 .. WordBits - 1 : (x \div 2 ^ i) % 2 = 1}
FromBits(s) == Truncate(MapThenSumSet(LAMBDA i : 2 ^ i, s))

Abs(x) == IF x < 0 THEN -x ELSE x

(* C divides towards zero.                                                 *)
Quot(a, b) == (Abs(a) \div Abs(b)) * (IF (a < 0) = (b < 0) THEN 1 ELSE -1)
Rem(a, b)  == a - b * Quot(a, b)
-----------------------------------------------------------------------------
(* arith32.c                                                               *)

Pair(lo, hi) == [lo |-> lo, hi |-> hi]

(* What the high word of a sum or a difference is, by the sign of a and of *)
(* the low word, when the signs of the operands let it overflow.           *)
Overflow(a, lo, may) ==
  IF ~may \/ (a >= 0) = (lo >= 0) THEN 0 ELSE IF a >= 0 THEN 1 ELSE -1

Add32x32(a, b) ==
  LET lo == Wrap(a + b) IN Pair(lo, Overflow(a, lo, (a >= 0) = (b >= 0)))

\* Seeded fault: the rule of the addition is used for the difference.
Sub32x32AsSum(a, b) ==
  LET lo == Wrap(a - b) IN Pair(lo, Overflow(a, lo, (a >= 0) = (b >= 0)))

Sub32x32(a, b) ==
  LET lo == Wrap(a - b) IN Pair(lo, Overflow(a, lo, (a >= 0) # (b >= 0)))

(* A double word b0, b1 is added to one of value p; hi gets what the low   *)
(* words overflow by as signed words.                                      *)
Add64x64(p, b0, b1) ==
  LET low == Add32x32(p.lo, b0) IN Pair(low.lo, Truncate(p.hi + b1 + low.hi))

GetLo16(x) == x % HwordSize
GetHi16(x) == (x \div HwordSize) % HwordSize

(* Four digits of half a word each, the carries propagated up.             *)
Carried(t) ==
  LET t2 == t[2] + GetHi16(t[1])
      t3 == t[3] + GetHi16(t2)
  IN  <<GetLo16(t[1]), GetLo16(t2), GetLo16(t3), GetLo16(t[4] + GetHi16(t3))>>

(* The product of two words that are not negative, digit by digit.         *)
Digits(a, b) ==
  LET half(x, i) == IF i = 0 THEN GetLo16(x) ELSE GetHi16(x)
      p(i, j)    == half(a, i) * half(b, j)
  IN  Carried(<<GetLo16(p(0, 0)),
                GetHi16(p(0, 0)) + GetLo16(p(0, 1)) + GetLo16(p(1, 0)),
                GetHi16(p(0, 1)) + GetHi16(p(1, 0)) + GetLo16(p(1, 1)),
                GetHi16(p(1, 1))>>)

Negated(t) ==
  Carried([i \in 1 .. 4 |-> GetLo16(-1 - t[i]) + (IF i = 1 THEN 1 ELSE 0)])

(* The smallest word has no absolute value: its neighbour is multiplied,   *)
(* and the difference, `residual', added as a word whose high word is 0.   *)
Mul32x32(a, b) ==
  LET aa == IF a = MinInt THEN a + 1 ELSE a
      bb == IF b = MinInt /\ a # MinInt THEN b + 1 ELSE b
      residual == IF a = MinInt THEN -b ELSE IF b = MinInt THEN -a ELSE 0
      d  == Digits(Abs(aa), Abs(bb))
      t  == IF (aa < 0) = (bb < 0) THEN d ELSE Negated(d)
      p  == Pair(Truncate(t[1] + HwordSize * t[2]), Truncate(t[3] + HwordSize * t[4]))
  IN  IF a = 0 \/ b = 0 THEN Pair(0, 0)
      ELSE IF a = MinInt /\ b = MinInt THEN Pair(0, WordSize \div 4)
      ELSE IF residual # 0 THEN Add64x64(p, residual, 0) ELSE p
=============================================================================
