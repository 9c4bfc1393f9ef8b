--------------------------- MODULE Ant32RegsProofs ---------------------------
(***************************************************************************)
(* Registers hold words; they are safe from programs that may not use them *)
(* and from instructions that raise an exception; memory is big-endian;    *)
(* sums, differences and products are exact: for every register file, word *)
(* size and instruction.                                                   *)
(***************************************************************************)
EXTENDS Ant32RegsProps, AntFolds, TLAPS

-----------------------------------------------------------------------------
(* The words.                                                              *)

LEMMA WordHalves ==
  /\ WordSize \in Int /\ WordSize > 0 /\ WordSize \div 2 \in Int
  /\ WordSize = 2 * (WordSize \div 2)
  <1>1. PICK k \in Nat : ByteSize = 2 * k /\ k > 0
    <2>1. ByteSize \div 2 \in Nat /\ ByteSize = 2 * (ByteSize \div 2)
      BY ByteAssumption
    <2> QED
      BY <2>1, ByteAssumption
  <1>2. PICK h \in Nat : h = ByteSize * ByteSize
    BY ByteAssumption
  <1>3. HwordSize = h /\ h = 2 * (k * ByteSize) /\ h > 0
    <2>1. ByteSize * ByteSize = 2 * (k * ByteSize)
      BY <1>1
    <2>2. \A i, j \in Nat : i > 0 /\ j > 0 => i * j > 0
      OBVIOUS
    <2> QED
      BY <1>1, <1>2, <2>1, <2>2, ByteAssumption DEF HwordSize
  <1>4. PICK m \in Nat : m = k * ByteSize * h
    BY <1>1, <1>2, ByteAssumption
  <1>5. WordSize = 2 * m /\ WordSize > 0
    <2>1. WordSize = h * h
      BY <1>3 DEF WordSize
    <2>2. h * h = 2 * (k * ByteSize * h)
      BY <1>1, <1>2, <1>3, ByteAssumption
    <2>3. h * h > 0
      BY <1>2, <1>3
    <2> QED
      BY <1>4, <2>1, <2>2, <2>3
  <1> QED
    BY <1>5

LEMMA WordBounds ==
  /\ WordSize \in Int /\ WordSize > 0
  /\ MinInt \in Int /\ MaxInt = -MinInt - 1 /\ WordSize = -(2 * MinInt)
  BY WordHalves DEF MinInt, MaxInt

(* A word and its overflow are the whole sum, and the whole difference.    *)
THEOREM AddExact ==
  \A a, b \in Word : LET p == Add32x32(a, b) IN
    p.lo \in Word /\ p.hi \in {-1, 0, 1} /\ p.lo + WordSize * p.hi = a + b
  <1> SUFFICES ASSUME NEW a \in Word, NEW b \in Word
               PROVE  LET p == Add32x32(a, b) IN
                      p.lo \in Word /\ p.hi \in {-1, 0, 1} /\ p.lo + WordSize * p.hi = a + b
    OBVIOUS
  <1>1. a \in Int /\ b \in Int /\ MinInt <= a /\ a <= MaxInt /\ MinInt <= b /\ b <= MaxInt
    BY WordBounds DEF Word
  <1>2. CASE a + b > MaxInt
    BY <1>1, <1>2, WordBounds DEF Add32x32, Pair, Wrap, Overflow, Word
  <1>3. CASE a + b < MinInt
    BY <1>1, <1>3, WordBounds DEF Add32x32, Pair, Wrap, Overflow, Word
  <1>4. CASE ~(a + b > MaxInt) /\ ~(a + b < MinInt)
    BY <1>1, <1>4, WordBounds DEF Add32x32, Pair, Wrap, Overflow, Word
  <1> QED
    BY <1>2, <1>3, <1>4

(* The same of the difference, whose overflow has a rule of its own.       *)
THEOREM SubExact ==
  \A a, b \in Word : LET p == Sub32x32(a, b) IN
    p.lo \in Word /\ p.hi \in {-1, 0, 1} /\ p.lo + WordSize * p.hi = a - b
  <1> SUFFICES ASSUME NEW a \in Word, NEW b \in Word
               PROVE  LET p == Sub32x32(a, b) IN
                      p.lo \in Word /\ p.hi \in {-1, 0, 1} /\ p.lo + WordSize * p.hi = a - b
    OBVIOUS
  <1>1. a \in Int /\ b \in Int /\ MinInt <= a /\ a <= MaxInt /\ MinInt <= b /\ b <= MaxInt
    BY WordBounds DEF Word
  <1>2. CASE a - b > MaxInt
    BY <1>1, <1>2, WordBounds DEF Sub32x32, Pair, Wrap, Overflow, Word
  <1>3. CASE a - b < MinInt
    BY <1>1, <1>3, WordBounds DEF Sub32x32, Pair, Wrap, Overflow, Word
  <1>4. CASE ~(a - b > MaxInt) /\ ~(a - b < MinInt)
    BY <1>1, <1>4, WordBounds DEF Sub32x32, Pair, Wrap, Overflow, Word
  <1> QED
    BY <1>2, <1>3, <1>4

LEMMA ByteFacts ==
  /\ ByteSize \in Nat /\ ByteSize >= 2 /\ ByteSize = 2 * (ByteSize \div 2)
  /\ HwordSize \in Nat /\ HwordSize >= ByteSize /\ HwordSize = 2 * (HwordSize \div 2)
  /\ WordSize \in Nat /\ WordSize >= HwordSize /\ WordSize = HwordSize * HwordSize
  <1>1. ByteSize \in Nat /\ ByteSize >= 2 /\ ByteSize = 2 * (ByteSize \div 2)
    BY ByteAssumption
  <1>2. \A m, n \in Nat : m >= 2 /\ n >= 2 => m * n \in Nat /\ m * n >= n
    <2> SUFFICES ASSUME NEW m \in Nat, NEW n \in Nat, m >= 2, n >= 2
                 PROVE  m * n \in Nat /\ m * n >= n
      OBVIOUS
    <2>1. m * n = n + (m - 1) * n
      OBVIOUS
    <2>2. (m - 1) * n >= 0
      OBVIOUS
    <2> QED
      BY <2>1, <2>2
  <1>3. HwordSize \in Nat /\ HwordSize >= ByteSize
    BY <1>1, <1>2 DEF HwordSize
  <1>4. PICK k \in Nat : ByteSize = 2 * k
    BY <1>1
  <1>5. HwordSize = 2 * (k * ByteSize) /\ k * ByteSize \in Nat
    BY <1>1, <1>4 DEF HwordSize
  <1>6. HwordSize = 2 * (HwordSize \div 2)
    <2>1. \A h, j \in Nat : h = 2 * j => h = 2 * (h \div 2)
      OBVIOUS
    <2> QED
      BY <1>3, <1>5, <2>1
  <1>7. WordSize \in Nat /\ WordSize >= HwordSize
    BY <1>1, <1>2, <1>3 DEF WordSize
  <1> QED
    BY <1>1, <1>3, <1>6, <1>7 DEF WordSize

(* What is left of an integer in a field.                                  *)
LEMMA LowerField ==
  \A x \in Int : \A n \in Nat : n > 0 => Lower(x, n) \in 0 .. n - 1
  BY DEF Lower

LEMMA SignedField ==
  \A x \in Int : \A n \in Nat : n > 0 /\ n = 2 * (n \div 2) =>
    /\ Signed(x, n) \in Int
    /\ -(n \div 2) <= Signed(x, n) /\ Signed(x, n) < n \div 2
  <1> SUFFICES ASSUME NEW x \in Int, NEW n \in Nat, n > 0, n = 2 * (n \div 2)
               PROVE  /\ Signed(x, n) \in Int
                      /\ -(n \div 2) <= Signed(x, n) /\ Signed(x, n) < n \div 2
    OBVIOUS
  <1>1. x % n \in 0 .. n - 1 /\ n \div 2 \in Nat
    OBVIOUS
  <1> QED
    BY <1>1 DEF Signed

LEMMA Between == \A x \in Int : x \in Word <=> MinInt <= x /\ x <= MaxInt
  BY WordBounds DEF Word

LEMMA TruncateWord == \A x \in Int : Truncate(x) \in Word
  <1> TAKE x \in Int
  <1>1. /\ Signed(x, WordSize) \in Int
        /\ -(WordSize \div 2) <= Signed(x, WordSize) /\ Signed(x, WordSize) < WordSize \div 2
    BY WordHalves, ByteFacts, SignedField
  <1>2. MinInt = -(WordSize \div 2) /\ MaxInt = WordSize \div 2 - 1
    BY WordHalves DEF MinInt, MaxInt
  <1> QED
    BY <1>1, <1>2, Between, WordHalves DEF Truncate

LEMMA SignedWord ==
  \A x \in Int : Signed(x, ByteSize) \in Word /\ Signed(x, HwordSize) \in Word
  <1> TAKE x \in Int
  <1>1. MinInt = -(WordSize \div 2) /\ MaxInt = WordSize \div 2 - 1
    BY WordHalves DEF MinInt, MaxInt
  <1>2. HwordSize \div 2 <= WordSize \div 2 /\ ByteSize \div 2 <= WordSize \div 2
    BY WordHalves, ByteFacts
  <1>3. /\ Signed(x, HwordSize) \in Int
        /\ -(HwordSize \div 2) <= Signed(x, HwordSize) /\ Signed(x, HwordSize) < HwordSize \div 2
    BY ByteFacts, SignedField
  <1>4. /\ Signed(x, ByteSize) \in Int
        /\ -(ByteSize \div 2) <= Signed(x, ByteSize) /\ Signed(x, ByteSize) < ByteSize \div 2
    BY ByteFacts, SignedField
  <1>5. HwordSize \div 2 \in Int /\ ByteSize \div 2 \in Int /\ WordSize \div 2 \in Int
    BY ByteFacts
  <1> QED
    BY <1>1, <1>2, <1>3, <1>4, <1>5, Between

LEMMA WrapWord ==
  /\ \A a, b \in Word : Wrap(a + b) \in Word /\ Wrap(a - b) \in Word
  /\ \A a \in Word : Wrap(a + 1) \in Word
  <1>1. ASSUME NEW x \in Int, 2 * MinInt <= x, x <= 2 * MaxInt + 1 PROVE Wrap(x) \in Word
    <2>1. CASE x > MaxInt
      BY <1>1, <2>1, WordBounds DEF Wrap, Word
    <2>2. CASE x < MinInt
      BY <1>1, <2>2, WordBounds DEF Wrap, Word
    <2>3. CASE MinInt <= x /\ x <= MaxInt
      BY <1>1, <2>3, WordBounds DEF Wrap, Word
    <2> QED
      BY <1>1, <2>1, <2>2, <2>3, WordBounds
  <1>2. MinInt <= -1 /\ MaxInt >= 0
    BY WordBounds
  <1>3. ASSUME NEW a \in Word, NEW b \in Word
        PROVE  Wrap(a + b) \in Word /\ Wrap(a - b) \in Word /\ Wrap(a + 1) \in Word
    <2>1. a \in Int /\ b \in Int /\ MinInt <= a /\ a <= MaxInt /\ MinInt <= b /\ b <= MaxInt
      BY WordBounds DEF Word
    <2>2. /\ a + b \in Int /\ 2 * MinInt <= a + b /\ a + b <= 2 * MaxInt + 1
          /\ a - b \in Int /\ 2 * MinInt <= a - b /\ a - b <= 2 * MaxInt + 1
          /\ a + 1 \in Int /\ 2 * MinInt <= a + 1 /\ a + 1 <= 2 * MaxInt + 1
      BY <1>2, <2>1, WordBounds
    <2> QED
      BY <1>1, <2>2
  <1> QED
    BY <1>3

(* A word from its bits.                                                   *)
LEMMA FromBitsWord == \A s \in SUBSET (0 .. WordBits - 1) : FromBits(s) \in Word
  <1> TAKE s \in SUBSET (0 .. WordBits - 1)
  <1> DEFINE w == [i \in s |-> 2 ^ i]
  <1>1. IsFiniteSet(s)
    <2>1. WordBits - 1 \in Int
      BY ByteAssumption DEF WordBits
    <2>2. IsFiniteSet(0 .. WordBits - 1)
      BY <2>1, FS_Interval
    <2> QED
      BY <2>2, FS_Subset
  <1>2. w \in [s -> Int]
    <2>1. \A i \in s : 2 ^ i \in Int
      <3> TAKE i \in s
      <3>1. i \in Nat
        BY ByteAssumption DEF WordBits
      <3> QED
        BY <3>1
    <2> QED
      BY <2>1
  <1> DEFINE g == CHOOSE g : Sums(s, w, g)
  <1>3. Sums(s, w, g)
    BY <1>1, <1>2, SumExists
  <1>4. g[s] \in Int
    <2> HIDE DEF g, w
    <2> QED
      BY <1>1, <1>2, <1>3, SumIsInt
  <1>5. FromBits(s) = Truncate(g[s])
    BY DEF FromBits, MapThenSumSet, MapThenFoldSet, Sums
  <1> HIDE DEF g, w
  <1> QED
    BY <1>4, <1>5, TruncateWord

LEMMA BitsSet == \A x : Bits(x) \in SUBSET (0 .. WordBits - 1)
  BY DEF Bits

(* Quotients.                                                              *)
LEMMA DivMod ==
  \A x \in Int : \A y \in Nat : y > 0 =>
    /\ x \div y \in Int /\ x % y \in Int
    /\ x = y * (x \div y) + (x % y) /\ 0 <= x % y /\ x % y < y
  <1> SUFFICES ASSUME NEW x \in Int, NEW y \in Nat, y > 0
               PROVE  /\ x \div y \in Int /\ x % y \in Int
                      /\ x = y * (x \div y) + (x % y) /\ 0 <= x % y /\ x % y < y
    OBVIOUS
  <1>1. x \div y \in Int /\ x % y \in 0 .. y - 1
    OBVIOUS
  <1>2. x = y * (x \div y) + (x % y)
    OBVIOUS
  <1> QED
    BY <1>1, <1>2

LEMMA DivIs ==
  \A x, q, r \in Int : \A y \in Nat :
    y > 0 /\ x = y * q + r /\ 0 <= r /\ r < y => x \div y = q /\ x % y = r
  OBVIOUS

LEMMA DivBetween ==
  \A x \in Int : \A y \in Nat : y > 0 =>
    /\ x >= 0 => x \div y \in 0 .. x
    /\ x < 0 => x \div y \in x .. -1
  <1> SUFFICES ASSUME NEW x \in Int, NEW y \in Nat, y > 0
               PROVE  /\ x >= 0 => x \div y \in 0 .. x
                      /\ x < 0 => x \div y \in x .. -1
    OBVIOUS
  <1> DEFINE q == x \div y
             r == x % y
  <1>1. q \in Int /\ r \in Int /\ x = y * q + r /\ 0 <= r /\ r < y
    BY DivMod
  <1> HIDE DEF q, r
  <1>2. ASSUME x >= 0 PROVE 0 <= q /\ q <= x
    <2>1. ~(q < 0)
      <3> SUFFICES ASSUME q < 0 PROVE FALSE
        OBVIOUS
      <3>1. q + 1 <= 0
        BY <1>1
      <3>2. y * (q + 1) <= 0
        BY <1>1, <3>1
      <3>3. y * q + y = y * (q + 1)
        BY <1>1
      <3> QED
        BY <1>1, <1>2, <3>2, <3>3
    <2>2. q <= y * q
      BY <1>1, <2>1
    <2> QED
      BY <1>1, <2>1, <2>2
  <1>3. ASSUME x < 0 PROVE x <= q /\ q <= -1
    <2>1. ~(q >= 0)
      <3> SUFFICES ASSUME q >= 0 PROVE FALSE
        OBVIOUS
      <3>1. y * q >= 0
        BY <1>1
      <3> QED
        BY <1>1, <1>3, <3>1
    <2>2. (y - 1) * (q + 1) <= 0
      <3>1. y - 1 \in Nat /\ q + 1 <= 0 /\ q + 1 \in Int
        BY <1>1, <2>1
      <3>2. \A m \in Nat : \A n \in Int : n <= 0 => m * n <= 0
        OBVIOUS
      <3> QED
        BY <3>1, <3>2
    <2>3. (y - 1) * (q + 1) = y * q + y - q - 1
      BY <1>1
    <2> QED
      BY <1>1, <2>1, <2>2, <2>3
  <1> QED
    BY <1>1, <1>2, <1>3 DEF q

LEMMA PowerOfTwo == \A k \in Nat : 2 ^ k \in Nat /\ 2 ^ k > 0
  <1> TAKE k \in Nat
  <1>1. IsFiniteSet(1 .. k) /\ Cardinality(1 .. k) = k
    BY FS_Interval
  <1>2. IsFiniteSet(SUBSET (1 .. k)) /\ Cardinality(SUBSET (1 .. k)) = 2 ^ k
    BY <1>1, FS_SUBSET
  <1>3. Cardinality(SUBSET (1 .. k)) \in Nat
    BY <1>2, FS_CardinalityType
  <1>4. SUBSET (1 .. k) # {}
    OBVIOUS
  <1>5. Cardinality(SUBSET (1 .. k)) # 0
    BY <1>2, <1>4, FS_EmptySet
  <1> QED
    BY <1>2, <1>3, <1>5

LEMMA ShiftNat == \A b \in Word : Shift(b) \in Nat
  <1> TAKE b \in Word
  <1>1. ByteBits # 0
    <2> SUFFICES ASSUME ByteBits = 0 PROVE FALSE
      OBVIOUS
    <2>1. 2 ^ ByteBits = 1
      OBVIOUS
    <2> QED
      BY <2>1, ByteFacts, ByteAssumption
  <1>2. WordBits \in Nat /\ WordBits > 0
    BY <1>1, ByteAssumption DEF WordBits
  <1>3. b \in Int
    BY WordBounds DEF Word
  <1> QED
    BY <1>2, <1>3 DEF Shift

LEMMA WordInt == \A a \in Word : a \in Int /\ MinInt <= a /\ a <= MaxInt
  BY WordBounds DEF Word

(* Whole quotients of words, by their absolute values.                     *)
LEMMA AbsQuotient ==
  ASSUME NEW a \in Word, NEW b \in Word, b # 0
  PROVE  LET q == Abs(a) \div Abs(b)
             r == Abs(a) % Abs(b)
         IN  /\ q \in Nat /\ r \in Nat /\ Abs(a) = Abs(b) * q + r /\ r < Abs(b)
             /\ q <= Abs(a)
             /\ Abs(b) # 1 /\ a # 0 => q < Abs(a)
  <1> DEFINE x == Abs(a)
             y == Abs(b)
             q == x \div y
             r == x % y
  <1>1. x \in Nat /\ y \in Nat /\ y > 0 /\ (a # 0 => x > 0)
    BY WordInt DEF Abs
  <1> HIDE DEF x, y
  <1>2. q \in Int /\ r \in Nat /\ x = y * q + r /\ r < y
    BY <1>1, DivMod
  <1>3. q \in Nat /\ q <= x
    BY <1>1, DivBetween
  <1> HIDE DEF q, r
  <1>4. ASSUME y # 1, a # 0 PROVE q < x
    <2>1. (y - 2) * q >= 0
      <3>1. y - 2 \in Nat
        BY <1>1, <1>4
      <3> QED
        BY <1>3, <3>1
    <2>2. (y - 2) * q = y * q - 2 * q
      BY <1>1, <1>3
    <2> QED
      BY <1>1, <1>2, <1>3, <1>4, <2>1, <2>2
  <1> QED
    BY <1>2, <1>3, <1>4 DEF q, r, x, y

LEMMA QuotWord ==
  ASSUME NEW a \in Word, NEW b \in Word, b # 0, ~(a = MinInt /\ b = -1)
  PROVE  Quot(a, b) \in Word
  <1> DEFINE q == Abs(a) \div Abs(b)
  <1>1. a \in Int /\ b \in Int /\ MinInt <= a /\ a <= MaxInt
    BY WordInt
  <1>2. q \in Nat /\ q <= Abs(a) /\ (Abs(b) # 1 /\ a # 0 => q < Abs(a))
    BY AbsQuotient
  <1>3. Quot(a, b) = q \/ Quot(a, b) = -q
    BY <1>1, <1>2 DEF Quot
  <1>4. (a < 0) # (b < 0) => Quot(a, b) = -q
    BY <1>1, <1>2 DEF Quot
  <1> HIDE DEF q
  <1>5. Abs(a) <= -MinInt /\ (Abs(a) = -MinInt => a = MinInt)
    BY <1>1, WordBounds DEF Abs
  <1>6. -MinInt = MaxInt + 1 /\ MinInt < 0
    BY WordBounds
  <1>7. CASE q = -MinInt
    <2>1. Abs(a) = -MinInt /\ a = MinInt
      BY <1>1, <1>2, <1>5, <1>7, WordBounds DEF Abs
    <2>2. Abs(b) = 1
      BY <1>2, <1>6, <1>7, <2>1
    <2>3. b = 1
      BY <1>1, <2>1, <2>2 DEF Abs
    <2>4. Quot(a, b) = -q
      BY <1>4, <1>6, <2>1, <2>3
    <2> QED
      BY <1>6, <1>7, <2>4, WordBounds, Between
  <1>8. CASE q # -MinInt
    <2>1. q <= MaxInt
      BY <1>1, <1>2, <1>5, <1>6, <1>8, WordBounds DEF Abs
    <2> QED
      BY <1>2, <1>3, <1>6, <2>1, WordBounds, Between
  <1> QED
    BY <1>7, <1>8

LEMMA RemWord ==
  ASSUME NEW a \in Word, NEW b \in Word, b # 0
  PROVE  Rem(a, b) \in Word
  <1> DEFINE q == Abs(a) \div Abs(b)
             r == Abs(a) % Abs(b)
  <1>1. a \in Int /\ b \in Int /\ MinInt <= b /\ b <= MaxInt
    BY WordInt
  <1>2. q \in Nat /\ r \in Nat /\ Abs(a) = Abs(b) * q + r /\ r < Abs(b)
    BY AbsQuotient
  <1>3. Quot(a, b) = q * (IF (a < 0) = (b < 0) THEN 1 ELSE -1)
    BY DEF Quot
  <1> HIDE DEF q, r
  <1>4. b * Quot(a, b) = IF a < 0 THEN -(Abs(b) * q) ELSE Abs(b) * q
    <2>1. CASE (a < 0) = (b < 0)
      <3>1. Quot(a, b) = q
        BY <1>2, <1>3, <2>1
      <3> QED
        BY <1>1, <1>2, <2>1, <3>1 DEF Abs
    <2>2. CASE (a < 0) # (b < 0)
      <3>1. Quot(a, b) = -q
        BY <1>2, <1>3, <2>2
      <3>2. b * (-q) = -(b * q)
        BY <1>1, <1>2
      <3> QED
        BY <1>1, <1>2, <2>2, <3>1, <3>2 DEF Abs
    <2> QED
      BY <2>1, <2>2
  <1>5. Rem(a, b) = r \/ Rem(a, b) = -r
    <2>1. PICK m \in Int : m = Abs(b) * q
      BY <1>1, <1>2 DEF Abs
    <2> QED
      BY <1>1, <1>2, <1>4, <2>1 DEF Rem, Abs
  <1>6. r <= MaxInt /\ MinInt <= -r
    BY <1>1, <1>2, WordBounds DEF Abs
  <1> QED
    BY <1>2, <1>5, <1>6, Between, WordBounds

LEMMA ResultWord ==
  ASSUME NEW op \in Arith, NEW a \in Word, NEW b \in Word,
         ~(op \in {"DIV", "MOD"} /\ b = 0), ~(op = "MOD" /\ a = MinInt /\ b = -1)
  PROVE  Result(op, a, b) \in Word
  <1>1. a \in Int /\ b \in Int /\ MinInt <= a /\ a <= MaxInt
    BY WordInt
  <1>2. MinInt < -1 /\ MaxInt >= 1
    BY WordBounds, ByteFacts
  <1>3. 2 ^ Shift(b) \in Nat /\ 2 ^ Shift(b) > 0
    BY ShiftNat, PowerOfTwo
  <1> DEFINE p == 2 ^ Shift(b)
  <1>4. CASE op = "ADD" \/ op = "SUB"
    BY <1>4, WrapWord DEF Result
  <1>5. CASE op = "MUL"
    BY <1>1, <1>5, TruncateWord DEF Result
  <1>6. CASE op = "DIV"
    <2>1. 0 \in Word
      BY <1>2, WordBounds, Between
    <2>2. CASE a = MinInt /\ b = -1
      BY <1>6, <2>1, <2>2 DEF Result
    <2>3. CASE ~(a = MinInt /\ b = -1)
      BY <1>6, <2>3, QuotWord DEF Result
    <2> QED
      BY <2>2, <2>3
  <1>7. CASE op = "MOD"
    BY <1>7, RemWord DEF Result
  <1>8. CASE op \in {"OR", "NOR", "XOR", "AND"}
    <2>1. /\ FromBits(Bits(a) \cup Bits(b)) \in Word
          /\ FromBits((Bits(a) \cup Bits(b)) \ (Bits(a) \cap Bits(b))) \in Word
          /\ FromBits(Bits(a) \cap Bits(b)) \in Word
      BY BitsSet, FromBitsWord
    <2>2. \A w \in Word : -1 - w \in Word
      BY WordInt, WordBounds, Between
    <2> QED
      BY <1>8, <2>1, <2>2 DEF Result
  <1>9. CASE op = "SHR"
    <2>1. /\ a >= 0 => a \div p \in 0 .. a
          /\ a < 0 => a \div p \in a .. -1
      BY <1>1, <1>3, DivBetween
    <2>2. Result(op, a, b) = a \div p
      BY <1>9 DEF Result
    <2> HIDE DEF p
    <2> QED
      BY <1>1, <1>2, <2>1, <2>2, WordBounds, Between
  <1>10. CASE op = "SHRU"
    <2>1. Lower(a, WordSize) \in Int
      BY <1>1, WordBounds DEF Lower
    <2>2. Lower(a, WordSize) \div p \in Int
      BY <1>3, <2>1, DivMod
    <2> QED
      BY <1>10, <2>2, TruncateWord DEF Result
  <1>11. CASE op = "SHL"
    <2>1. a * p \in Int
      BY <1>1, <1>3
    <2> QED
      BY <1>11, <2>1, TruncateWord DEF Result
  <1> QED
    BY <1>4, <1>5, <1>6, <1>7, <1>8, <1>9, <1>10, <1>11 DEF Arith

-----------------------------------------------------------------------------
(* Registers hold words and memory bytes.                                  *)

Files    == [RegNum -> Word]
Bytes    == [0 .. 3 -> Octet]
Accesses == {"READ", "WRITE", "EXEC", "NONE"}

(* The step of an instruction, but for the number of instructions.         *)
Typed ==
  /\ cpu' \in Control /\ reg' \in Files /\ reg'[ZeroReg] = 0
  /\ mem' \in Bytes /\ rc' \in Fault \cup Status \cup {"HOST_TRAP"}

LEMMA Kinds ==
  /\ ZeroReg \in RegNum \ (CycleReg \cup ExcReg) /\ ZeroReg \notin SupReg
  /\ SupReg \subseteq RegNum \ (CycleReg \cup ExcReg)
  /\ {CpuCycles, SupCycles, ReadCount, WriteCount} \subseteq CycleReg
  /\ {E0, E1, E2, E3} \subseteq ExcReg
  /\ CycleReg \subseteq RegNum /\ ExcReg \subseteq RegNum /\ CycleReg \cap ExcReg = {}
  BY RegsAssumption
  DEF ZeroReg, RegNum, UserReg, CycleReg, SupReg, ExcReg,
      CpuCycles, SupCycles, ReadCount, WriteCount, E0, E1, E2, E3

(* The exceptions by name.                                                 *)
LEMMA Faults ==
  /\ Fault = {"BUS_ERR", "ILL_INS", "PRIV_INS", "TRAP", "DIV0", "ALIGN", "PRIV_SEG", "REG_VIOL",
              "TLB_MISS", "TLB_PROT", "TLB_MULTI", "TLB_INV", "TIMER"}
  /\ Refusal \subseteq Fault
  /\ \A s \in Status : s \notin Fault
  /\ "OK" \in Status /\ "HOST_TRAP" \notin Fault
  BY DEF Fault, ExcCode, Refusal, Status

LEMMA Numbers ==
  /\ \A exc \in Fault : ExcCode[exc] \in Int
  /\ \A access \in Accesses : AccessBits[access] \in Int
  BY DEF Fault, ExcCode, Accesses, AccessBits

LEMMA SmallWords == 0 \in Word /\ 1 \in Word /\ -1 \in Word /\ \A b : Flag(b) \in Word
  BY WordBounds, ByteFacts, Between DEF Flag

LEMMA ControlKept ==
  RegsTypeOK => /\ cpu \in Control /\ Onward \in Control /\ ExcThrow \in Control
                /\ cpu.pc \in Word /\ Su \in {0, 1} /\ Su \in Int
                /\ \A x \in Word : [cpu EXCEPT !.pc = x] \in Control
  <1> SUFFICES ASSUME RegsTypeOK
               PROVE  /\ cpu \in Control /\ Onward \in Control /\ ExcThrow \in Control
                      /\ cpu.pc \in Word /\ Su \in {0, 1} /\ Su \in Int
                      /\ \A x \in Word : [cpu EXCEPT !.pc = x] \in Control
    OBVIOUS
  <1>1. cpu \in Control
    BY DEF RegsTypeOK
  <1>2. cpu.pc \in Word /\ cpu.eh \in Word
    BY <1>1 DEF Control
  <1>3. Truncate(cpu.pc + 4) \in Word
    BY <1>2, WordInt, TruncateWord
  <1>4. Onward \in Control /\ \A x \in Word : [cpu EXCEPT !.pc = x] \in Control
    BY <1>1, <1>3 DEF Control, Onward
  <1>5. ExcThrow \in Control
    BY <1>1, <1>2 DEF Control, ExcThrow, Mode
  <1> QED
    BY <1>1, <1>2, <1>4, <1>5 DEF Su, Flag

(* What the processor writes into the registers are words.                 *)
LEMMA LatchedFile == RegsTypeOK => \A g \in Files : \A v \in Word : Latched(g, v) \in Files
  BY DEF Latched, Files

LEMMA CatchFile ==
  RegsTypeOK => \A g \in Files : \A access \in Accesses : \A exc \in Fault :
                  ExcCatch(g, access, exc) \in Files
  <1> SUFFICES ASSUME RegsTypeOK, NEW g \in Files, NEW access \in Accesses, NEW exc \in Fault
               PROVE  ExcCatch(g, access, exc) \in Files
    OBVIOUS
  <1>1. Su + 2 * AccessBits[access] + 16 * ExcCode[exc] \in Int
    BY ControlKept, Numbers
  <1>2. Truncate(Su + 2 * AccessBits[access] + 16 * ExcCode[exc]) \in Word
    BY <1>1, TruncateWord
  <1> QED
    BY <1>2 DEF ExcCatch, Files

LEMMA UpdateFile == RegsTypeOK => \A g \in Files : ExcUpdate(g) \in Files
  BY ControlKept, SmallWords DEF ExcUpdate, Files, Su

LEMMA StartedFile == RegsTypeOK => Started \in Files
  <1> SUFFICES ASSUME RegsTypeOK PROVE Started \in Files
    OBVIOUS
  <1> DEFINE u == ExcUpdate([reg EXCEPT ![ZeroReg] = 0])
  <1>1. [reg EXCEPT ![ZeroReg] = 0] \in Files
    BY SmallWords DEF RegsTypeOK, Files
  <1>2. u \in Files
    BY <1>1, UpdateFile
  <1>3. Started = [u EXCEPT ![CpuCycles] = Wrap(@ + 1),
                            ![SupCycles] = IF cpu.mode = "SUPER" THEN Wrap(@ + 1) ELSE @]
    BY DEF Started
  <1> HIDE DEF u
  <1>4. \A r \in RegNum : u[r] \in Word /\ Wrap(u[r] + 1) \in Word
    BY <1>2, WrapWord DEF Files
  <1>5. Started = [r \in RegNum |-> Started[r]]
    BY <1>2, <1>3 DEF Files
  <1>6. \A r \in RegNum : Started[r] \in {u[r], Wrap(u[r] + 1)}
    BY <1>2, <1>3, Kinds DEF Files, CpuCycles, SupCycles
  <1> QED
    BY <1>4, <1>5, <1>6 DEF Files

LEMMA TickedFile == RegsTypeOK => Ticked \in Files
  BY StartedFile, LatchedFile, ControlKept DEF Ticked

LEMMA CountedFile == \A g \in Files : \A r \in CycleReg : Counted(g, r) \in Files
  <1> TAKE g \in Files
  <1> TAKE r \in CycleReg
  <1>1. g[r] \in Word /\ Wrap(g[r] + 1) \in Word
    BY Kinds, WrapWord DEF Files
  <1> QED
    BY <1>1 DEF Counted, Files

LEMMA SetFile ==
  \A g \in Files : \A r : \A v \in Word : SetDesReg(g, r, v) \in Files
  BY DEF SetDesReg, Files

LEMMA SourceRegister == \A r : DesValid(r) \/ SrcValid(r) => r \in RegNum
  BY RegsAssumption
  DEF DesValid, SrcValid, RegNum, UserReg, CycleReg, SupReg, ExcReg

(* What an instruction may use holds a word.                               *)
LEMMA Operands ==
  ASSUME RegsTypeOK, NEW des, NEW src, Permitted(des, src)
  PROVE  \A r \in des \cup src : Ticked[r] \in Word
  BY TickedFile, SourceRegister DEF Permitted, Files

(* The ways an instruction ends.                                           *)
LEMMA CompleteTyped ==
  ASSUME NEW g \in Files, NEW c \in Control, NEW status \in Fault \cup Status,
         Complete(g, status, c), mem' \in Bytes
  PROVE  Typed
  <1>1. reg' = [g EXCEPT ![ZeroReg] = 0] /\ rc' = status /\ cpu' = c
    BY DEF Complete
  <1>2. reg' \in Files /\ reg'[ZeroReg] = 0
    BY <1>1, Kinds, SmallWords DEF Files
  <1> QED
    BY <1>1, <1>2 DEF Typed

LEMMA ThrowTyped ==
  ASSUME RegsTypeOK, NEW g \in Files, NEW exc \in Fault, Throw(g, exc)
  PROVE  Typed
  <1>1. mem' \in Bytes /\ Complete(g, exc, ExcThrow)
    BY DEF Throw, RegsTypeOK, Bytes
  <1> QED
    BY <1>1, CompleteTyped, ControlKept

LEMMA FailTyped ==
  ASSUME RegsTypeOK, NEW g \in Files, NEW access \in Accesses, NEW exc \in Fault,
         Fail(g, access, exc)
  PROVE  Typed
  BY CatchFile, ThrowTyped DEF Fail

LEMMA RaiseTyped ==
  ASSUME RegsTypeOK, NEW g \in Files, NEW exc \in Fault, Raise(g, exc)
  PROVE  Typed
  BY FailTyped DEF Raise, Accesses

LEMMA GotoTyped ==
  ASSUME RegsTypeOK, NEW g \in Files, NEW c \in Control, Goto(g, c)
  PROVE  Typed
  <1>1. mem' \in Bytes /\ Complete(g, "OK", c)
    BY DEF Goto, RegsTypeOK, Bytes
  <1> QED
    BY <1>1, CompleteTyped, Faults

LEMMA LeaveTyped ==
  ASSUME RegsTypeOK, NEW g \in Files, Leave(g)
  PROVE  Typed
  BY ControlKept, GotoTyped DEF Leave

LEMMA TickedTyped ==
  RegsTypeOK => /\ \A exc \in Fault : Raise(Ticked, exc) => Typed
                /\ Leave(Ticked) => Typed
                /\ \A c \in Control : Goto(Ticked, c) => Typed
                /\ \A r : \A v \in Word : Give(r, v) => Typed
  <1> SUFFICES ASSUME RegsTypeOK
               PROVE  /\ \A exc \in Fault : Raise(Ticked, exc) => Typed
                      /\ Leave(Ticked) => Typed
                      /\ \A c \in Control : Goto(Ticked, c) => Typed
                      /\ \A r : \A v \in Word : Give(r, v) => Typed
    OBVIOUS
  <1>1. Ticked \in Files
    BY TickedFile
  <1>2. \A r : \A v \in Word : SetDesReg(Ticked, r, v) \in Files
    BY <1>1, SetFile
  <1>3. \A exc \in Fault : Raise(Ticked, exc) => Typed
    BY <1>1, RaiseTyped
  <1>4. Leave(Ticked) => Typed
    BY <1>1, LeaveTyped
  <1>5. \A c \in Control : Goto(Ticked, c) => Typed
    BY <1>1, GotoTyped
  <1>6. \A r : \A v \in Word : Give(r, v) => Typed
    BY <1>2, LeaveTyped DEF Give
  <1> QED
    BY <1>3, <1>4, <1>5, <1>6

LEMMA HostTrapTyped == RegsTypeOK /\ HostTrap => Typed
  <1> SUFFICES ASSUME RegsTypeOK, HostTrap PROVE Typed
    OBVIOUS
  <1>1. Ticked[ZeroReg] = 0
    BY Kinds DEF Ticked, Started, Latched, ExcUpdate, RegsTypeOK
  <1> QED
    BY <1>1, TickedFile DEF HostTrap, Typed, RegsTypeOK, Bytes
-----------------------------------------------------------------------------
(* One lemma for each handler.                                             *)

LEMMA ComputeTyped ==
  ASSUME RegsTypeOK, NEW op, NEW known \in SUBSET Arith, NEW des,
         NEW a, NEW b, op \in known => a \in Word /\ b \in Word,
         Compute(op, known, des, a, b)
  PROVE  Typed
  <1>1. CASE \E exc \in Fault : Raise(Ticked, exc)
    BY <1>1, TickedTyped
  <1>2. CASE HostTrap
    BY <1>2, HostTrapTyped
  <1>3. CASE /\ op \in known
             /\ ~(op \in {"DIV", "MOD"} /\ b = 0)
             /\ ~(op = "MOD" /\ a = MinInt /\ b = -1)
             /\ Give(des, Result(op, a, b))
    <2>1. Result(op, a, b) \in Word
      BY <1>3, ResultWord
    <2> QED
      BY <1>3, <2>1, TickedTyped
  <1> QED
    BY <1>1, <1>2, <1>3, Faults DEF Compute

LEMMA ArithTyped == RegsTypeOK /\ (AntArith \/ AntArithI) => Typed
  <1> SUFFICES ASSUME RegsTypeOK, AntArith \/ AntArithI PROVE Typed
    OBVIOUS
  <1>0. ArithI \in SUBSET Arith /\ Arith \in SUBSET Arith
    BY DEF Arith, ArithI
  <1>1. CASE Raise(Ticked, "REG_VIOL")
    BY <1>1, TickedTyped, Faults
  <1>2. ASSUME NEW op, NEW f, Permitted({f[1]}, {f[2], f[3]}),
               Compute(op, Arith, f[1], Ticked[f[2]], Ticked[f[3]])
        PROVE  Typed
    <2>1. Ticked[f[2]] \in Word /\ Ticked[f[3]] \in Word
      BY <1>2, Operands
    <2> QED
      BY <1>0, <1>2, <2>1, ComputeTyped
  <1>3. ASSUME NEW op, NEW f, NEW imm \in Imm8, Permitted({f[1]}, {f[2]}),
               Compute(op, ArithI, f[1], Ticked[f[2]], imm)
        PROVE  Typed
    <2>1. Ticked[f[2]] \in Word /\ imm \in Word
      BY <1>3, Operands, RegsAssumption
    <2> QED
      BY <1>0, <1>3, <2>1, ComputeTyped
  <1> QED
    BY <1>1, <1>2, <1>3 DEF AntArith, AntArithI

(* Results of two words.                                                   *)
Pairs == {p \in [lo : Int, hi : Int] : p.lo \in Word /\ p.hi \in Word}

LEMMA HalvesInt == \A x \in Int : GetLo16(x) \in Int /\ GetHi16(x) \in Int
  <1> TAKE x \in Int
  <1>1. x \div HwordSize \in Int
    BY ByteFacts, DivMod
  <1> QED
    BY <1>1, ByteFacts DEF GetLo16, GetHi16

LEMMA CarriedInt ==
  ASSUME NEW t, t[1] \in Int, t[2] \in Int, t[3] \in Int, t[4] \in Int
  PROVE  LET c == Carried(t) IN
         c[1] \in Int /\ c[2] \in Int /\ c[3] \in Int /\ c[4] \in Int
  BY HalvesInt DEF Carried

LEMMA MulWords ==
  ASSUME NEW a \in Word, NEW b \in Word
  PROVE  LET p == Mul32x32(a, b) IN p.lo \in Word /\ p.hi \in Word
  <1> DEFINE aa == IF a = MinInt THEN a + 1 ELSE a
             bb == IF b = MinInt /\ a # MinInt THEN b + 1 ELSE b
             residual == IF a = MinInt THEN -b ELSE IF b = MinInt THEN -a ELSE 0
             d == Digits(Abs(aa), Abs(bb))
             n == Negated(d)
             t == IF (aa < 0) = (bb < 0) THEN d ELSE n
             p == Pair(Truncate(t[1] + HwordSize * t[2]), Truncate(t[3] + HwordSize * t[4]))
  <1>1. a \in Int /\ b \in Int /\ HwordSize \in Int
    BY WordInt, ByteFacts
  <1>2. Abs(aa) \in Int /\ Abs(bb) \in Int
    BY <1>1 DEF Abs
  <1>3. d[1] \in Int /\ d[2] \in Int /\ d[3] \in Int /\ d[4] \in Int
    <2> HIDE DEF aa, bb
    <2> DEFINE x == Abs(aa)
               y == Abs(bb)
               p00 == GetLo16(x) * GetLo16(y)
               p01 == GetLo16(x) * GetHi16(y)
               p10 == GetHi16(x) * GetLo16(y)
               p11 == GetHi16(x) * GetHi16(y)
               s == <<GetLo16(p00), GetHi16(p00) + GetLo16(p01) + GetLo16(p10),
                      GetHi16(p01) + GetHi16(p10) + GetLo16(p11), GetHi16(p11)>>
    <2>1. p00 \in Int /\ p01 \in Int /\ p10 \in Int /\ p11 \in Int
      BY <1>2, HalvesInt
    <2>2. d = Carried(s)
      BY DEF Digits
    <2> HIDE DEF p00, p01, p10, p11
    <2>3. s[1] \in Int /\ s[2] \in Int /\ s[3] \in Int /\ s[4] \in Int
      BY <2>1, HalvesInt
    <2> HIDE DEF s, d
    <2> QED
      BY <2>2, <2>3, CarriedInt
  <1> HIDE DEF d
  <1>4. n[1] \in Int /\ n[2] \in Int /\ n[3] \in Int /\ n[4] \in Int
    <2> DEFINE s == [i \in 1 .. 4 |-> GetLo16(-1 - d[i]) + (IF i = 1 THEN 1 ELSE 0)]
    <2>1. s[1] \in Int /\ s[2] \in Int /\ s[3] \in Int /\ s[4] \in Int
      BY <1>3, HalvesInt
    <2>2. n = Carried(s)
      BY DEF Negated
    <2> HIDE DEF s, n
    <2> QED
      BY <2>1, <2>2, CarriedInt
  <1> HIDE DEF n
  <1>5. t[1] \in Int /\ t[2] \in Int /\ t[3] \in Int /\ t[4] \in Int
    BY <1>3, <1>4
  <1> HIDE DEF t
  <1>6. p.lo \in Word /\ p.hi \in Word
    BY <1>1, <1>5, TruncateWord DEF Pair
  <1> HIDE DEF p
  <1>7. WordSize \div 4 \in Word
    BY WordBounds, ByteFacts, Between
  <1>8. ASSUME NEW x \in Word
        PROVE  Add64x64(p, x, 0).lo \in Word /\ Add64x64(p, x, 0).hi \in Word
    <2> DEFINE low == Add32x32(p.lo, x)
    <2>1. low.lo \in Word /\ low.hi \in {-1, 0, 1}
      BY <1>6, <1>8, AddExact
    <2>2. p.hi + 0 + low.hi \in Int
      BY <1>6, <2>1, WordInt
    <2> HIDE DEF low
    <2>3. Add64x64(p, x, 0) = Pair(low.lo, Truncate(p.hi + 0 + low.hi))
      BY DEF Add64x64, low
    <2> QED
      BY <2>1, <2>2, <2>3, TruncateWord DEF Pair
  <1>9. residual # 0 /\ ~(a = MinInt /\ b = MinInt) => residual \in Word
    BY <1>1, WordInt, WordBounds, Between
  <1> HIDE DEF residual
  <1>10. Mul32x32(a, b) =
           IF a = 0 \/ b = 0 THEN Pair(0, 0)
           ELSE IF a = MinInt /\ b = MinInt THEN Pair(0, WordSize \div 4)
           ELSE IF residual # 0 THEN Add64x64(p, residual, 0) ELSE p
    BY DEF Mul32x32, p, t, n, d, residual
  <1> QED
    BY <1>6, <1>7, <1>8, <1>9, <1>10, SmallWords DEF Pair

LEMMA WideWords ==
  ASSUME NEW op \in Wide, NEW a \in Word, NEW b \in Word
  PROVE  WideResult(op, a, b).lo \in Word /\ WideResult(op, a, b).hi \in Word
  <1>1. CASE op = "ADDO"
    BY <1>1, AddExact, SmallWords DEF WideResult
  <1>2. CASE op = "SUBO"
    BY <1>2, SubExact, SmallWords DEF WideResult
  <1>3. CASE op = "MULO"
    BY <1>3, MulWords DEF WideResult
  <1> QED
    BY <1>1, <1>2, <1>3 DEF Wide

LEMMA PairTyped ==
  ASSUME RegsTypeOK, NEW r, NEW p, p.lo \in Word, p.hi \in Word, GivePair(r, p)
  PROVE  Typed
  <1>1. SetDesReg(SetDesReg(Ticked, r, p.lo), r + 1, p.hi) \in Files
    BY TickedFile, SetFile
  <1> QED
    BY <1>1, LeaveTyped DEF GivePair

LEMMA DenialsKnown ==
  ASSUME NEW op, NEW des, NEW src
  PROVE  /\ Denials(op, des, src) \subseteq Fault
         /\ Denials(op, des, src) = {} => Permitted({des, des + 1}, src) /\ op \in Wide
  BY Faults DEF Denials

LEMMA WideTyped == RegsTypeOK /\ (AntAritho \/ AntArithio) => Typed
  <1> SUFFICES ASSUME RegsTypeOK PROVE AntAritho \/ AntArithio => Typed
    OBVIOUS
  <1>1. ASSUME NEW op, NEW des, NEW src, NEW exc \in Denials(op, des, src), Raise(Ticked, exc)
        PROVE  Typed
    BY <1>1, DenialsKnown, TickedTyped
  <1>2. ASSUME NEW op, NEW f, Denials(op, f[1], {f[2], f[3]}) = {},
               GivePair(f[1], WideResult(op, Ticked[f[2]], Ticked[f[3]]))
        PROVE  Typed
    <2>1. Permitted({f[1], f[1] + 1}, {f[2], f[3]}) /\ op \in Wide
      BY <1>2, DenialsKnown
    <2>2. Ticked[f[2]] \in Word /\ Ticked[f[3]] \in Word
      BY <2>1, Operands
    <2> QED
      BY <1>2, <2>1, <2>2, WideWords, PairTyped
  <1>3. ASSUME NEW op, NEW f, NEW imm \in Imm8, Denials(op, f[1], {f[2]}) = {},
               GivePair(f[1], WideResult(op, Ticked[f[2]], imm))
        PROVE  Typed
    <2>1. Permitted({f[1], f[1] + 1}, {f[2]}) /\ op \in Wide
      BY <1>3, DenialsKnown
    <2>2. Ticked[f[2]] \in Word /\ imm \in Word
      BY <2>1, Operands, RegsAssumption
    <2> QED
      BY <1>3, <2>1, <2>2, WideWords, PairTyped
  <1>4. AntAritho => Typed
    BY <1>1, <1>2 DEF AntAritho
  <1>5. AntArithio => Typed
    BY <1>1, <1>3 DEF AntArithio
  <1> QED
    BY <1>4, <1>5

LEMMA LcTyped == RegsTypeOK /\ AntLc => Typed
  <1> SUFFICES ASSUME RegsTypeOK, NEW op, NEW f, NEW imm \in Imm16,
                      \/ Raise(Ticked, "REG_VIOL") \/ Raise(Ticked, "ILL_INS")
                      \/ /\ Permitted({f[1]}, {})
                         /\ \/ Give(f[1], Signed(imm, HwordSize))
                            \/ Give(f[1], Truncate(Lower(Ticked[f[1]], HwordSize) + imm * HwordSize))
               PROVE  Typed
    BY DEF AntLc
  <1>1. imm \in Int /\ HwordSize \in Int
    BY RegsAssumption, WordInt, ByteFacts
  <1>2. Signed(imm, HwordSize) \in Word
    BY <1>1, SignedWord
  <1>3. CASE Permitted({f[1]}, {})
    <2>1. Ticked[f[1]] \in Word
      BY <1>3, Operands
    <2>2. Lower(Ticked[f[1]], HwordSize) \in Int
      BY <2>1, WordInt, ByteFacts, LowerField
    <2>3. Lower(Ticked[f[1]], HwordSize) + imm * HwordSize \in Int
      BY <1>1, <2>2
    <2> QED
      BY <1>2, <2>3, TruncateWord, TickedTyped, Faults
  <1> QED
    BY <1>3, TickedTyped, Faults

LEMMA PlainTyped ==
  RegsTypeOK /\ (AntCompare \/ AntInput \/ AntCout \/ AntTrap \/ AntSrand) => Typed
  <1>1. RegsTypeOK /\ (AntTrap \/ AntSrand \/ AntCout) => Typed
    BY TickedTyped, Faults DEF AntTrap, AntSrand, AntCout
  <1>2. RegsTypeOK /\ AntCompare => Typed
    BY TickedTyped, SmallWords, Faults DEF AntCompare
  <1>3. RegsTypeOK /\ AntInput => Typed
    BY TickedTyped, RegsAssumption, Faults DEF AntInput
  <1> QED
    BY <1>1, <1>2, <1>3

LEMMA BranchTyped == RegsTypeOK /\ AntBranch => Typed
  <1> SUFFICES ASSUME RegsTypeOK, AntBranch PROVE Typed
    OBVIOUS
  <1>0. \A op, src : \A target \in Word : Branched(op, src, target) \in Control
    BY ControlKept DEF Branched
  <1>1. CASE Raise(Ticked, "REG_VIOL")
    BY <1>1, TickedTyped, Faults
  <1>2. ASSUME NEW op, NEW f, NEW base, base \in {cpu.pc, 0}, Permitted({f[1]}, {f[2], f[3]}),
               Goto(SetDesReg(Ticked, f[1], cpu.pc), Branched(op, f[2], Wrap(base + Ticked[f[3]])))
        PROVE  Typed
    <2>1. base \in Word /\ Ticked[f[3]] \in Word
      BY <1>2, Operands, ControlKept, SmallWords
    <2>2. Wrap(base + Ticked[f[3]]) \in Word
      BY <2>1, WrapWord
    <2>3. SetDesReg(Ticked, f[1], cpu.pc) \in Files
      BY TickedFile, SetFile, ControlKept
    <2> QED
      BY <1>0, <1>2, <2>2, <2>3, GotoTyped
  <1>3. ASSUME NEW op, NEW f, NEW offset \in Imm16,
               Goto(Ticked, Branched(op, f[1], Truncate(cpu.pc + 4 * offset)))
        PROVE  Typed
    <2>1. cpu.pc + 4 * offset \in Int
      BY RegsAssumption, ControlKept, WordInt
    <2>2. Truncate(cpu.pc + 4 * offset) \in Word
      BY <2>1, TruncateWord
    <2> QED
      BY <1>0, <1>3, <2>2, TickedTyped
  <1> QED
    BY <1>1, <1>2, <1>3 DEF AntBranch

(* The bytes of a word.                                                    *)
LEMMA Weights ==
  \A i \in 1 .. 4 : Weight[i] \in Nat /\ Weight[i] > 0
  <1>1. ByteSize * HwordSize \in Nat /\ ByteSize * HwordSize > 0
    <2>1. \A m, n \in Nat : m > 0 /\ n > 0 => m * n > 0
      OBVIOUS
    <2> QED
      BY <2>1, ByteFacts
  <1> QED
    BY <1>1, ByteFacts DEF Weight

LEMMA LowerByte == \A x \in Int : Lower(x, ByteSize) \in Octet
  BY ByteFacts DEF Lower, Octet

LEMMA HostBytesTyped == \A v \in Word : HostBytes(v) \in Bytes
  <1> TAKE v \in Word
  <1>1. ASSUME NEW i \in 0 .. 3 PROVE Lower(v \div Weight[i + 1], ByteSize) \in Octet
    <2>1. v \div Weight[i + 1] \in Int
      <3>1. i + 1 \in 1 .. 4
        OBVIOUS
      <3> QED
        BY <3>1, Weights, WordInt, DivMod
    <2> QED
      BY <2>1, LowerByte
  <1> QED
    BY <1>1 DEF HostBytes, Bytes

LEMMA ByteInt == \A b \in Octet : b \in Int /\ 0 <= b /\ b < ByteSize
  BY ByteFacts DEF Octet

LEMMA MemWordTyped == \A m \in Bytes : MemWord(m) \in Word
  <1> TAKE m \in Bytes
  <1>1. m[0] \in Int /\ m[1] \in Int /\ m[2] \in Int /\ m[3] \in Int /\ ByteSize \in Int
    BY ByteInt, ByteFacts DEF Bytes
  <1>2. m[0] + ByteSize * (m[1] + ByteSize * (m[2] + ByteSize * m[3])) \in Int
    BY <1>1
  <1> QED
    BY <1>2, TruncateWord DEF MemWord

(* The byte an access is to, when its operands hold words.                 *)
LEMMA AddressTyped ==
  ASSUME RegsTypeOK, NEW op, NEW f, NEW imm \in Imm8, Issue(op, f, imm), Permitted({}, {f[2]})
  PROVE  Vaddr \in Word /\ Vaddr % 4 \in 0 .. 3 /\ HostByte(Vaddr) \in 0 .. 3
  <1>1. inst'.f = f /\ inst'.imm = imm
    BY DEF Issue, Fetched, Run
  <1>2. Ticked[f[2]] \in Word /\ imm \in Word
    BY Operands, RegsAssumption
  <1>3. Vaddr \in Word
    BY <1>1, <1>2, WrapWord DEF Vaddr
  <1>4. Vaddr \in Int
    BY <1>3, WordInt
  <1> QED
    BY <1>3, <1>4 DEF HostByte

LEMMA RefusedTyped ==
  ASSUME RegsTypeOK, Vaddr \in Word, NEW g \in Files, NEW size, NEW access \in Accesses,
         Refused(g, size, access)
  PROVE  Typed
  <1>1. Latched(g, Vaddr) \in Files
    BY LatchedFile
  <1>2. \/ \E exc \in Fault : Fail(Latched(g, Vaddr), access, exc)
        \/ \E exc \in Fault : Fail(g, access, exc)
    BY Faults DEF Refused
  <1> QED
    BY <1>1, <1>2, FailTyped

LEMMA LoadTyped ==
  ASSUME RegsTypeOK, Vaddr \in Word, HostByte(Vaddr) \in 0 .. 3, NEW op, NEW r, Load(op, r)
  PROVE  Typed
  <1> DEFINE g == Counted(Ticked, ReadCount)
             v == IF op = "LD1" THEN Signed(mem[HostByte(Vaddr)], ByteSize) ELSE MemWord(mem)
  <1>1. g \in Files /\ "READ" \in Accesses
    BY TickedFile, CountedFile, Kinds DEF Accesses
  <1>2. v \in Word
    <2>1. mem \in Bytes
      BY DEF RegsTypeOK, Bytes
    <2>2. mem[HostByte(Vaddr)] \in Int
      BY <2>1, ByteInt DEF Bytes
    <2> QED
      BY <2>1, <2>2, SignedWord, MemWordTyped
  <1>3. Refused(g, IF op = "LD1" THEN 1 ELSE 4, "READ") \/ Leave(SetDesReg(Latched(g, Vaddr), r, v))
    BY DEF Load
  <1> HIDE DEF g, v
  <1>4. SetDesReg(Latched(g, Vaddr), r, v) \in Files
    BY <1>1, <1>2, LatchedFile, SetFile
  <1> QED
    BY <1>1, <1>3, <1>4, RefusedTyped, LeaveTyped

LEMMA StoreTyped ==
  ASSUME RegsTypeOK, Vaddr \in Word, HostByte(Vaddr) \in 0 .. 3,
         NEW op, NEW r, Ticked[r] \in Word, Store(op, r)
  PROVE  Typed
  <1> DEFINE g == Counted(Ticked, WriteCount)
  <1>1. g \in Files /\ "WRITE" \in Accesses
    BY TickedFile, CountedFile, Kinds DEF Accesses
  <1>2. CASE Refused(g, IF op = "ST1" THEN 1 ELSE 4, "WRITE")
    <2> HIDE DEF g
    <2> QED
      BY <1>1, <1>2, RefusedTyped
  <1>3. CASE ~Refused(g, IF op = "ST1" THEN 1 ELSE 4, "WRITE")
    <2>1. /\ mem' = IF op = "ST1" THEN [mem EXCEPT ![HostByte(Vaddr)] = Lower(Ticked[r], ByteSize)]
                    ELSE HostBytes(Ticked[r])
          /\ Complete(Latched(g, Vaddr), "OK", Onward)
      BY <1>3 DEF Store
    <2>2. Lower(Ticked[r], ByteSize) \in Octet
      BY WordInt, LowerByte
    <2>3. mem \in Bytes
      BY DEF RegsTypeOK, Bytes
    <2>4. mem' \in Bytes
      BY <2>1, <2>2, <2>3, HostBytesTyped DEF Bytes
    <2> HIDE DEF g
    <2>5. Latched(g, Vaddr) \in Files
      BY <1>1, LatchedFile
    <2> QED
      BY <2>1, <2>4, <2>5, CompleteTyped, ControlKept, Faults
  <1> QED
    BY <1>2, <1>3

LEMMA ExchangeTyped ==
  ASSUME RegsTypeOK, Vaddr \in Word, NEW r, Ticked[r] \in Word, Exchange(r)
  PROVE  Typed
  <1> DEFINE g == Counted(Ticked, ReadCount)
             h == Counted(Latched(g, Vaddr), WriteCount)
  <1>1. g \in Files /\ "READ" \in Accesses /\ "WRITE" \in Accesses
    BY TickedFile, CountedFile, Kinds DEF Accesses
  <1>2. h \in Files
    BY <1>1, LatchedFile, CountedFile, Kinds
  <1>3. mem \in Bytes
    BY DEF RegsTypeOK, Bytes
  <1>4. SetDesReg(h, r, MemWord(mem)) \in Files /\ HostBytes(Ticked[r]) \in Bytes
    <2> HIDE DEF h
    <2> QED
      BY <1>2, <1>3, MemWordTyped, SetFile, HostBytesTyped
  <1>5. \/ Refused(g, 4, "READ") \/ \E exc \in Fault : Fail(h, "WRITE", exc)
        \/ mem' = HostBytes(Ticked[r]) /\ Complete(SetDesReg(h, r, MemWord(mem)), "OK", Onward)
    BY Faults DEF Exchange
  <1> HIDE DEF g, h
  <1>6. CASE Refused(g, 4, "READ")
    BY <1>1, <1>6, RefusedTyped
  <1>7. CASE \E exc \in Fault : Fail(h, "WRITE", exc)
    BY <1>1, <1>2, <1>7, FailTyped
  <1>8. CASE mem' = HostBytes(Ticked[r]) /\ Complete(SetDesReg(h, r, MemWord(mem)), "OK", Onward)
    BY <1>4, <1>8, CompleteTyped, ControlKept, Faults
  <1> QED
    BY <1>5, <1>6, <1>7, <1>8

LEMMA LoadStoreTyped == RegsTypeOK /\ AntLoadStore => Typed
  <1> SUFFICES ASSUME RegsTypeOK, NEW op, NEW f \in Fields, NEW imm \in Imm8, Issue(op, f, imm),
                      \/ Raise(Ticked, "REG_VIOL") \/ Throw(Ticked, "ILL_INS")
                      \/ /\ Permitted({}, {f[2]})
                         /\ Permitted({f[1]}, {}) \/ Permitted({}, {f[1]})
                         /\ Load(op, f[1]) \/ Store(op, f[1]) \/ Exchange(f[1])
               PROVE  Typed
    BY DEF AntLoadStore
  <1>1. CASE Raise(Ticked, "REG_VIOL") \/ Throw(Ticked, "ILL_INS")
    BY <1>1, TickedTyped, TickedFile, ThrowTyped, Faults
  <1>2. CASE /\ Permitted({}, {f[2]})
             /\ Permitted({f[1]}, {}) \/ Permitted({}, {f[1]})
             /\ Load(op, f[1]) \/ Store(op, f[1]) \/ Exchange(f[1])
    <2>1. Vaddr \in Word /\ HostByte(Vaddr) \in 0 .. 3
      BY <1>2, AddressTyped
    <2>2. Ticked[f[1]] \in Word
      BY <1>2, Operands
    <2> QED
      BY <1>2, <2>1, <2>2, LoadTyped, StoreTyped, ExchangeTyped
  <1> QED
    BY <1>1, <1>2

LEMMA SysOpsTyped == RegsTypeOK /\ AntSysOps => Typed
  <1> SUFFICES ASSUME RegsTypeOK, AntSysOps PROVE Typed
    OBVIOUS
  <1>0. Ticked \in Files
    BY TickedFile
  <1>1. ASSUME NEW status \in Status, Complete(Ticked, status, Onward), UNCHANGED mem
        PROVE  Typed
    <2>1. mem' \in Bytes
      BY <1>1 DEF RegsTypeOK, Bytes
    <2> QED
      BY <1>0, <1>1, <2>1, CompleteTyped, ControlKept
  <1>2. ASSUME NEW f, TlbPi(f) PROVE Typed
    <2>1. \A v \in Given : [Ticked EXCEPT ![f[1]] = v] \in Files
      BY <1>0, RegsAssumption DEF Files
    <2> QED
      BY <1>1, <1>2, <2>1, TickedTyped, LeaveTyped, Faults DEF TlbPi
  <1>3. ASSUME NEW f, TlbLe(f) PROVE Typed
    <2>1. \A lo, hi \in Given : [Ticked EXCEPT ![f[1]] = lo, ![f[1] + 1] = hi] \in Files
      BY <1>0, RegsAssumption DEF Files
    <2> QED
      BY <1>3, <2>1, TickedTyped, LeaveTyped, Faults DEF TlbLe
  <1>4. ASSUME NEW f, Rfe(f) PROVE Typed
    <2>1. CASE Raise(Ticked, "REG_VIOL")
      BY <2>1, TickedTyped, Faults
    <2>2. CASE /\ Permitted({}, {f[1], f[2], f[3]})
               /\ Goto(Ticked, Returned(Ticked[f[1]], Ticked[f[2]], Ticked[f[3]]))
      <3>1. Ticked[f[1]] \in Word
        BY <2>2, Operands
      <3>2. Returned(Ticked[f[1]], Ticked[f[2]], Ticked[f[3]]) \in Control
        BY <3>1, ControlKept DEF Returned, Control, Mode
      <3> QED
        BY <2>2, <3>2, TickedTyped
    <2> QED
      BY <1>4, <2>1, <2>2 DEF Rfe
  <1>5. ASSUME NEW f, Leh(f) PROVE Typed
    <2>1. ASSUME Permitted({}, {f[2]}) PROVE [Onward EXCEPT !.eh = Ticked[f[2]]] \in Control
      BY <2>1, Operands, ControlKept DEF Control
    <2> QED
      BY <1>5, <2>1, TickedTyped, Faults DEF Leh
  <1>6. ASSUME NEW f, TlbSe(f) \/ Timer(f) PROVE Typed
    BY <1>6, TickedTyped, RegsAssumption, Faults DEF TlbSe, Timer
  <1>7. ASSUME NEW op, SetFlag(op) PROVE Typed
    <2>1. /\ [Onward EXCEPT !.int_disable = op = "STI"] \in Control
          /\ [Onward EXCEPT !.exc_disable = op = "STE"] \in Control
      BY ControlKept DEF Control
    <2> QED
      BY <1>7, <2>1, TickedTyped DEF SetFlag
  <1>8. ASSUME NEW op \in {"HALT", "IDLE"}, Stop(op) PROVE Typed
    <2>1. op \in Status
      BY DEF Status
    <2> QED
      BY <1>1, <1>8, <2>1, TickedTyped, Faults DEF Stop
  <1> QED
    BY <1>2, <1>3, <1>4, <1>5, <1>6, <1>7, <1>8, TickedTyped, Faults DEF AntSysOps

LEMMA FetchTyped == RegsTypeOK /\ FetchFault => Typed
  <1> SUFFICES ASSUME RegsTypeOK, FetchFault PROVE Typed
    OBVIOUS
  <1>1. \/ \E exc \in Fault : Fail(Ticked, "EXEC", exc)
        \/ Fail(Started, "EXEC", "ALIGN")
    BY Faults DEF FetchFault
  <1>2. "EXEC" \in Accesses /\ "ALIGN" \in Fault
    BY Faults DEF Accesses
  <1> QED
    BY <1>1, <1>2, TickedFile, StartedFile, FailTyped

LEMMA NextTyped == RegsTypeOK /\ Next => Typed
  BY ArithTyped, WideTyped, LcTyped, PlainTyped, BranchTyped, LoadStoreTyped, SysOpsTyped,
     FetchTyped
  DEF Next, ExecInst

LEMMA InstsCounted == RegsTypeOK /\ Next => insts' \in 0 .. MaxInsts
  <1>1. ExecInst => insts' = insts + 1
    <2>1. FetchFault \/ AntArith \/ AntArithI \/ AntAritho \/ AntArithio => insts' = insts + 1
      BY DEF FetchFault, AntArith, AntArithI, AntAritho, AntArithio, IssueR, Issue, Fetched, Run
    <2>2. AntCompare \/ AntLc \/ AntInput \/ AntCout \/ AntTrap \/ AntSrand => insts' = insts + 1
      BY DEF AntCompare, AntLc, AntInput, AntCout, AntTrap, AntSrand, IssueR, Issue, Fetched, Run
    <2>3. AntBranch \/ AntLoadStore \/ AntSysOps => insts' = insts + 1
      BY DEF AntBranch, AntLoadStore, AntSysOps, IssueR, Issue, Fetched, Run
    <2> QED
      BY <2>1, <2>2, <2>3 DEF ExecInst
  <1> QED
    BY <1>1, RegsAssumption DEF Next, RegsTypeOK

(* Whatever is executed, registers hold words, r0 holds 0 and memory bytes: *)
(* every result, product, quotient, shift and pair fits.                   *)
THEOREM RegistersHoldWords == Spec => []RegsTypeOK
  <1>1. Init => RegsTypeOK
    <2> SUFFICES ASSUME Init PROVE RegsTypeOK
      OBVIOUS
    <2>1. \A i \in 0 .. 3 : Lower(i, ByteSize) \in Octet
      BY LowerByte
    <2>2. mem \in [0 .. 3 -> Octet]
      BY <2>1 DEF Init
    <2>3. cpu \in Control /\ reg \in [RegNum -> Word] /\ reg[ZeroReg] = 0
      BY RegsAssumption DEF Init
    <2> QED
      BY <2>2, <2>3, RegsAssumption, Faults DEF Init, RegsTypeOK
  <1>2. RegsTypeOK /\ [Next]_vars => RegsTypeOK'
    <2> SUFFICES ASSUME RegsTypeOK, [Next]_vars PROVE RegsTypeOK'
      OBVIOUS
    <2>1. CASE Next
      BY <2>1, NextTyped, InstsCounted DEF Typed, RegsTypeOK, Files, Bytes
    <2>2. CASE UNCHANGED vars
      BY <2>2 DEF RegsTypeOK, vars
    <2> QED
      BY <2>1, <2>2
  <1> QED
    BY <1>1, <1>2, PTL DEF Spec

-----------------------------------------------------------------------------
(* What the supervisor has is safe.                                        *)

(* User code runs with exceptions enabled.                                 *)
Open(c) == c.mode = "USER" => ~c.exc_disable
IInv    == RegsTypeOK /\ Open(cpu)

File(g) == g = [r \in RegNum |-> g[r]]

(* The exception registers hold what the processor records, or what they   *)
(* did while exceptions are disabled.                                      *)
Recorded(g) ==
  IF cpu.exc_disable THEN \A r \in {E0, E1, E2} : g[r] = reg[r]
  ELSE g[E0] = cpu.pc /\ g[E1] = Flag(cpu.int_disable)

Located(g) == g[E2] \in {0, cpu.pc} \/ (Op \in Transfer /\ g[E2] = Vaddr)

(* What a handler makes of the registers: nothing outside the counters, or *)
(* nothing that its mode forbids.                                          *)
Private(g) ==
  cpu.mode = "USER" => /\ \A r \in SupReg : g[r] = reg[r]
                       /\ g[E0] = cpu.pc /\ g[E1] = Flag(cpu.int_disable)
                       /\ Located(g)
Untouched(g) ==
  /\ g \in Files /\ \A r \in RegNum \ (CycleReg \cup ExcReg) : g[r] = reg[r]
  /\ Recorded(g) /\ Private(g)
  /\ cpu.mode = "USER" => g[E3] = 0
Lawful(g) == File(g) /\ Private(g) /\ (cpu.mode = "USER" => g[E3] = 0)

(* What the step of an instruction may do.                                 *)
Precise ==
  rc' \in Fault =>
    /\ mem' = mem
    /\ \A r \in RegNum \ (CycleReg \cup ExcReg) : reg'[r] = reg[r]
    /\ Recorded(reg')
Shut ==
  /\ Private(reg')
  /\ cpu.mode = "USER" => reg'[E3] % 2 = 0 /\ (rc' = "OK" => reg'[E3] = 0)
Sound == Open(cpu') /\ Precise /\ Shut
-----------------------------------------------------------------------------
LEMMA Apart ==
  /\ E0 # E1 /\ E0 # E2 /\ E0 # E3 /\ E1 # E2 /\ E1 # E3 /\ E2 # E3
  /\ \A r \in ExcReg : r # ZeroReg /\ r \notin SupReg /\ r \notin CycleReg
  /\ \A r \in SupReg : r # ZeroReg /\ r \notin ExcReg /\ r \notin CycleReg
  /\ \A r \in CycleReg : r # ZeroReg
  BY DEF E0, E1, E2, E3, ExcReg, SupReg, CycleReg, ZeroReg

LEMMA Validity ==
  \A r : /\ DesValid(r) => r \in RegNum /\ r \notin ExcReg
         /\ DesValid(r) /\ cpu.mode = "USER" => r \notin SupReg
         /\ SrcValid(r) /\ cpu.mode = "USER" => r \notin SupReg \cup ExcReg
  BY RegsAssumption
  DEF DesValid, SrcValid, RegNum, UserReg, CycleReg, SupReg, ExcReg

LEMMA Evens ==
  /\ \A k \in Int : (2 * k) % 2 = 0
  /\ \A k \in Int : Truncate(2 * k) % 2 = 0
  <1>1. ASSUME NEW k \in Int PROVE (2 * k) % 2 = 0
    OBVIOUS
  <1>2. ASSUME NEW k \in Int PROVE Truncate(2 * k) % 2 = 0
    <2> DEFINE half == WordSize \div 2
               u == (2 * k) % WordSize
               q == (2 * k) \div WordSize
    <2>1. WordSize \in Nat /\ WordSize > 0
      BY ByteFacts
    <2>2. half \in Int /\ WordSize = 2 * half
      BY WordHalves
    <2>3. q \in Int /\ u \in Int /\ 2 * k = WordSize * q + u
      BY <2>1, DivMod
    <2>4. Truncate(2 * k) \in {u, u - WordSize}
      BY DEF Truncate, Signed
    <2> HIDE DEF half, u, q
    <2>5. u = 2 * (k - half * q) /\ k - half * q \in Int
      BY <2>2, <2>3
    <2>6. u - WordSize = 2 * (k - half * q - half) /\ k - half * q - half \in Int
      BY <2>2, <2>3, <2>5
    <2> QED
      BY <1>1, <2>4, <2>5, <2>6
  <1> QED
    BY <1>1, <1>2

LEMMA UntouchedLawful == \A g : Untouched(g) => Lawful(g)
  BY DEF Untouched, Lawful, File, Files

(* The registers before and after the fetch.                               *)
LEMMA StartedUntouched == IInv => Untouched(Started)
  <1> SUFFICES ASSUME IInv PROVE Untouched(Started)
    OBVIOUS
  <1> DEFINE u == ExcUpdate([reg EXCEPT ![ZeroReg] = 0])
  <1>1. reg \in Files /\ reg[ZeroReg] = 0 /\ Started \in Files
    BY StartedFile DEF IInv, RegsTypeOK, Files
  <1>2. [reg EXCEPT ![ZeroReg] = 0] = reg
    BY <1>1 DEF Files
  <1>3. u = IF cpu.exc_disable THEN reg
            ELSE [reg EXCEPT ![E0] = cpu.pc, ![E1] = Flag(cpu.int_disable), ![E2] = 0, ![E3] = Su]
    BY <1>2 DEF ExcUpdate
  <1>4. Started = [u EXCEPT ![CpuCycles] = Wrap(@ + 1),
                            ![SupCycles] = IF cpu.mode = "SUPER" THEN Wrap(@ + 1) ELSE @]
    BY DEF Started
  <1> HIDE DEF u
  <1>5. u \in [RegNum -> Word]
    BY <1>1, <1>2, UpdateFile DEF u, IInv, Files
  <1>6. \A r \in RegNum \ CycleReg : Started[r] = u[r]
    BY <1>4, <1>5, Kinds
  <1>7. \A r \in RegNum \ ExcReg : u[r] = reg[r]
    BY <1>1, <1>3, Kinds DEF Files
  <1>8. IF cpu.exc_disable THEN \A r \in ExcReg : u[r] = reg[r]
        ELSE u[E0] = cpu.pc /\ u[E1] = Flag(cpu.int_disable) /\ u[E2] = 0 /\ u[E3] = Su
    BY <1>1, <1>3, Kinds, Apart DEF Files
  <1>9. \A r \in ExcReg : Started[r] = u[r]
    BY <1>6, Kinds
  <1>10. Recorded(Started)
    BY <1>8, <1>9, Kinds DEF Recorded
  <1>11. cpu.mode = "USER" => Su = 0 /\ ~cpu.exc_disable
    BY DEF Su, Flag, IInv, Open
  <1>12. Private(Started) /\ (cpu.mode = "USER" => Started[E3] = 0)
    BY <1>6, <1>7, <1>8, <1>9, <1>11, Kinds, Apart DEF Private, Located
  <1> QED
    BY <1>1, <1>6, <1>7, <1>10, <1>12 DEF Untouched

LEMMA LatchedUntouched ==
  ASSUME IInv, NEW g, Untouched(g), NEW v \in Word, v = cpu.pc \/ (Op \in Transfer /\ v = Vaddr)
  PROVE  Untouched(Latched(g, v))
  <1>1. CASE cpu.exc_disable
    BY <1>1 DEF Latched
  <1>2. CASE ~cpu.exc_disable
    <2> DEFINE h == Latched(g, v)
    <2>1. h = [g EXCEPT ![E2] = v] /\ g \in Files
      BY <1>2 DEF Latched, Untouched
    <2>2. h \in Files
      BY <2>1 DEF Files
    <2>3. h[E2] = v /\ \A r \in RegNum : r # E2 => h[r] = g[r]
      BY <2>1, Kinds DEF Files
    <2> HIDE DEF h
    <2>4. Recorded(h)
      BY <1>2, <2>3, Kinds, Apart DEF Untouched, Recorded
    <2>5. Private(h) /\ (cpu.mode = "USER" => h[E3] = 0)
      BY <2>3, Kinds, Apart DEF Untouched, Private, Located
    <2>6. \A r \in RegNum \ (CycleReg \cup ExcReg) : h[r] = reg[r]
      BY <2>3, Kinds DEF Untouched
    <2>7. Untouched(h)
      BY <2>2, <2>4, <2>5, <2>6 DEF Untouched
    <2> QED
      BY <2>7 DEF h
  <1> QED
    BY <1>1, <1>2

LEMMA TickedUntouched == IInv => Untouched(Ticked)
  <1> SUFFICES ASSUME IInv PROVE Untouched(Ticked)
    OBVIOUS
  <1>1. cpu.pc \in Word
    BY ControlKept DEF IInv
  <1> QED
    BY <1>1, StartedUntouched, LatchedUntouched DEF Ticked

LEMMA CountedUntouched ==
  \A g : \A r \in CycleReg : Untouched(g) => Untouched(Counted(g, r))
  <1> SUFFICES ASSUME NEW g, NEW r \in CycleReg, Untouched(g)
               PROVE  Untouched(Counted(g, r))
    OBVIOUS
  <1> DEFINE h == Counted(g, r)
  <1>1. h \in Files
    BY CountedFile DEF Untouched
  <1>2. \A q \in RegNum \ CycleReg : h[q] = g[q]
    BY DEF Untouched, Files, Counted
  <1> HIDE DEF h
  <1>3. \A q \in ExcReg \cup SupReg : h[q] = g[q]
    BY <1>2, Kinds
  <1>4. Recorded(h) /\ Private(h) /\ (cpu.mode = "USER" => h[E3] = 0)
    BY <1>3, Kinds DEF Untouched, Recorded, Private, Located
  <1>5. Untouched(h)
    BY <1>1, <1>2, <1>4 DEF Untouched
  <1> QED
    BY <1>5 DEF h

LEMMA SetLawful ==
  \A g, r, v : Lawful(g) => Lawful(SetDesReg(g, r, v))
  <1> SUFFICES ASSUME NEW g, NEW r, NEW v, Lawful(g) PROVE Lawful(SetDesReg(g, r, v))
    OBVIOUS
  <1>1. CASE r # ZeroReg /\ DesValid(r)
    <2> DEFINE h == SetDesReg(g, r, v)
    <2>1. h = [g EXCEPT ![r] = v]
      BY <1>1 DEF SetDesReg
    <2>2. r \in RegNum /\ r \notin ExcReg /\ (cpu.mode = "USER" => r \notin SupReg)
      BY <1>1, Validity
    <2>3. File(h) /\ (cpu.mode = "USER" => \A q \in SupReg \cup ExcReg : h[q] = g[q])
      BY <2>1, <2>2, Kinds DEF Lawful, File
    <2> HIDE DEF h
    <2>4. Lawful(h)
      BY <2>3, Kinds DEF Lawful, Private, Located
    <2> QED
      BY <2>4 DEF h
  <1>2. CASE ~(r # ZeroReg /\ DesValid(r))
    BY <1>2 DEF SetDesReg
  <1> QED
    BY <1>1, <1>2

(* The ways an instruction ends.                                           *)
LEMMA ThrowOpen == IInv => Open(ExcThrow) /\ Open(cpu) /\ Open(Onward)
  <1> SUFFICES ASSUME IInv PROVE Open(ExcThrow) /\ Open(cpu) /\ Open(Onward)
    OBVIOUS
  <1>1. cpu \in Control
    BY DEF IInv, RegsTypeOK
  <1>2. ExcThrow.mode = "SUPER"
    BY <1>1 DEF ExcThrow, Control
  <1>3. Onward.mode = cpu.mode /\ Onward.exc_disable = cpu.exc_disable
    BY <1>1 DEF Onward, Control
  <1> QED
    BY <1>2, <1>3 DEF Open, IInv

LEMMA ZeroAgain ==
  ASSUME NEW g, File(g) \/ g \in Files, reg' = [g EXCEPT ![ZeroReg] = 0]
  PROVE  \A r \in RegNum : r # ZeroReg => reg'[r] = g[r]
  BY DEF Files, File

LEMMA FailSound ==
  ASSUME IInv, NEW g, Untouched(g), NEW access \in Accesses, NEW exc \in Fault,
         Fail(g, access, exc)
  PROVE  Sound
  <1> DEFINE v == Truncate(Su + 2 * AccessBits[access] + 16 * ExcCode[exc])
             h == ExcCatch(g, access, exc)
  <1>1. g \in Files /\ h = [g EXCEPT ![E3] = v] /\ h \in Files
    BY CatchFile DEF Untouched, ExcCatch, IInv
  <1>2. reg' = [h EXCEPT ![ZeroReg] = 0] /\ mem' = mem /\ cpu' = ExcThrow /\ rc' = exc
    BY DEF Fail, Throw, Complete
  <1>3. cpu.mode = "USER" => v % 2 = 0
    <2> SUFFICES ASSUME cpu.mode = "USER" PROVE v % 2 = 0
      OBVIOUS
    <2>1. AccessBits[access] \in Int /\ ExcCode[exc] \in Int /\ Su = 0
      BY Numbers DEF Su, Flag
    <2>2. Su + 2 * AccessBits[access] + 16 * ExcCode[exc] = 2 * (AccessBits[access] + 8 * ExcCode[exc])
      BY <2>1
    <2> QED
      BY <2>1, <2>2, Evens
  <1> HIDE DEF v, h
  <1>4. h[E3] = v /\ \A r \in RegNum : r # E3 => h[r] = g[r]
    BY <1>1, Kinds DEF Files
  <1>5. \A r \in RegNum : r # ZeroReg => reg'[r] = h[r]
    BY <1>1, <1>2, ZeroAgain
  <1>6. reg'[ZeroReg] = reg[ZeroReg]
    BY <1>1, <1>2, Kinds DEF Files, IInv, RegsTypeOK
  <1>7. \A r \in RegNum \ (CycleReg \cup ExcReg) : reg'[r] = reg[r]
    BY <1>4, <1>5, <1>6, Kinds DEF Untouched
  <1>8. reg'[E0] = g[E0] /\ reg'[E1] = g[E1] /\ reg'[E2] = g[E2] /\ reg'[E3] = v
    BY <1>4, <1>5, Kinds, Apart
  <1>9. Recorded(reg')
    BY <1>8 DEF Untouched, Recorded
  <1>10. Private(reg')
    BY <1>7, <1>8, Kinds DEF Untouched, Private, Located
  <1>11. rc' # "OK"
    BY <1>2, Faults
  <1> QED
    BY <1>2, <1>3, <1>7, <1>8, <1>9, <1>10, <1>11, ThrowOpen DEF Sound, Precise, Shut

LEMMA RaiseSound ==
  ASSUME IInv, NEW g, Untouched(g), NEW exc \in Fault, Raise(g, exc)
  PROVE  Sound
  BY FailSound DEF Raise, Accesses

(* The unknown opcode of the memory group, which nobody catches.           *)
LEMMA UncaughtSound ==
  ASSUME IInv, NEW exc \in Fault, Throw(Ticked, exc)
  PROVE  Sound
  <1>1. Untouched(Ticked) /\ Ticked \in Files
    BY TickedUntouched DEF Untouched
  <1>2. reg' = [Ticked EXCEPT ![ZeroReg] = 0] /\ mem' = mem /\ cpu' = ExcThrow
    BY DEF Throw, Complete
  <1>3. \A r \in RegNum : r # ZeroReg => reg'[r] = Ticked[r]
    BY <1>1, <1>2, ZeroAgain
  <1>4. reg'[ZeroReg] = reg[ZeroReg]
    BY <1>1, <1>2, Kinds DEF Files, IInv, RegsTypeOK
  <1>5. \A r \in RegNum \ (CycleReg \cup ExcReg) : reg'[r] = reg[r]
    BY <1>1, <1>3, <1>4, Kinds DEF Untouched
  <1>6. \A r \in {E0, E1, E2, E3} : reg'[r] = Ticked[r]
    BY <1>3, Kinds, Apart
  <1>7. Recorded(reg')
    BY <1>1, <1>6 DEF Untouched, Recorded
  <1>8. Private(reg') /\ (cpu.mode = "USER" => reg'[E3] = 0)
    BY <1>1, <1>5, <1>6, Kinds DEF Untouched, Private, Located
  <1>9. cpu.mode = "USER" => reg'[E3] % 2 = 0
    BY <1>8
  <1> QED
    BY <1>2, <1>5, <1>7, <1>8, <1>9, ThrowOpen DEF Sound, Precise, Shut

LEMMA CompleteSound ==
  ASSUME IInv, NEW g, Lawful(g), NEW c, Open(c), NEW status \in Status,
         Complete(g, status, c)
  PROVE  Sound
  <1>1. reg' = [g EXCEPT ![ZeroReg] = 0] /\ rc' = status /\ cpu' = c
    BY DEF Complete
  <1>2. \A r \in SupReg \cup ExcReg : reg'[r] = g[r]
    BY <1>1, Kinds, Apart, ZeroAgain DEF Lawful
  <1>3. Private(reg') /\ (cpu.mode = "USER" => reg'[E3] = 0)
    BY <1>2, Kinds DEF Lawful, Private, Located
  <1>4. cpu.mode = "USER" => reg'[E3] % 2 = 0
    BY <1>3
  <1>5. rc' \notin Fault
    BY <1>1, Faults
  <1> QED
    BY <1>1, <1>3, <1>4, <1>5 DEF Sound, Precise, Shut

LEMMA GotoSound ==
  ASSUME IInv, NEW g, Lawful(g), NEW c, Open(c), Goto(g, c)
  PROVE  Sound
  BY CompleteSound, Faults DEF Goto

LEMMA LeaveSound ==
  ASSUME IInv, NEW g, Lawful(g), Leave(g)
  PROVE  Sound
  BY GotoSound, ThrowOpen DEF Leave


LEMMA TickedSound ==
  IInv => /\ \A exc \in Fault : Raise(Ticked, exc) => Sound
          /\ Leave(Ticked) => Sound
          /\ \A r, v : Give(r, v) => Sound
          /\ \A c : Open(c) /\ Goto(Ticked, c) => Sound
  <1> SUFFICES ASSUME IInv
               PROVE  /\ \A exc \in Fault : Raise(Ticked, exc) => Sound
                      /\ Leave(Ticked) => Sound
                      /\ \A r, v : Give(r, v) => Sound
                      /\ \A c : Open(c) /\ Goto(Ticked, c) => Sound
    OBVIOUS
  <1>1. Untouched(Ticked) /\ Lawful(Ticked)
    BY TickedUntouched, UntouchedLawful
  <1>2. \A r, v : Lawful(SetDesReg(Ticked, r, v))
    BY <1>1, SetLawful
  <1>3. \A exc \in Fault : Raise(Ticked, exc) => Sound
    BY <1>1, RaiseSound
  <1>4. Leave(Ticked) => Sound
    BY <1>1, LeaveSound
  <1>5. \A r, v : Give(r, v) => Sound
    BY <1>2, LeaveSound DEF Give
  <1>6. \A c : Open(c) /\ Goto(Ticked, c) => Sound
    BY <1>1, GotoSound
  <1> QED
    BY <1>3, <1>4, <1>5, <1>6

LEMMA HostTrapSound == IInv /\ HostTrap => Sound
  <1> SUFFICES ASSUME IInv, HostTrap PROVE Sound
    OBVIOUS
  <1>1. reg' = Ticked /\ rc' = "HOST_TRAP" /\ cpu' = cpu
    BY DEF HostTrap
  <1>2. Lawful(Ticked)
    BY TickedUntouched, UntouchedLawful
  <1>3. Open(cpu')
    BY <1>1 DEF IInv
  <1>4. Precise
    BY <1>1, Faults DEF Precise
  <1>5. Private(reg') /\ (cpu.mode = "USER" => reg'[E3] = 0)
    BY <1>1, <1>2 DEF Lawful
  <1> QED
    BY <1>3, <1>4, <1>5 DEF Sound, Shut
-----------------------------------------------------------------------------
(* One lemma for each handler.                                             *)

LEMMA ComputeSound ==
  ASSUME IInv, NEW op, NEW known, NEW des, NEW a, NEW b, Compute(op, known, des, a, b)
  PROVE  Sound
  BY TickedSound, HostTrapSound, Faults DEF Compute

LEMMA ArithSound == IInv /\ (AntArith \/ AntArithI) => Sound
  BY TickedSound, ComputeSound, Faults DEF AntArith, AntArithI

LEMMA PairSound == ASSUME IInv, NEW r, NEW p, GivePair(r, p) PROVE Sound
  <1>1. Lawful(SetDesReg(SetDesReg(Ticked, r, p.lo), r + 1, p.hi))
    BY TickedUntouched, UntouchedLawful, SetLawful
  <1> QED
    BY <1>1, LeaveSound DEF GivePair

LEMMA WideSound == IInv /\ (AntAritho \/ AntArithio) => Sound
  BY TickedSound, PairSound, DenialsKnown DEF AntAritho, AntArithio

LEMMA PlainSound ==
  IInv /\ (AntCompare \/ AntLc \/ AntInput \/ AntCout \/ AntTrap \/ AntSrand) => Sound
  BY TickedSound, Faults DEF AntCompare, AntLc, AntInput, AntCout, AntTrap, AntSrand

LEMMA FetchSound == IInv /\ FetchFault => Sound
  <1> SUFFICES ASSUME IInv, FetchFault PROVE Sound
    OBVIOUS
  <1>1. \/ \E exc \in Fault : Fail(Ticked, "EXEC", exc)
        \/ Fail(Started, "EXEC", "ALIGN")
    BY Faults DEF FetchFault
  <1>2. "EXEC" \in Accesses /\ "ALIGN" \in Fault
    BY Faults DEF Accesses
  <1> QED
    BY <1>1, <1>2, TickedUntouched, StartedUntouched, FailSound

LEMMA BranchSound == IInv /\ AntBranch => Sound
  <1> SUFFICES ASSUME IInv, AntBranch PROVE Sound
    OBVIOUS
  <1>0. \A op, src, target : Open(Branched(op, src, target))
    <2> TAKE op, src, target
    <2>1. cpu \in Control
      BY DEF IInv, RegsTypeOK
    <2>2. Open([cpu EXCEPT !.pc = target])
      BY <2>1 DEF Control, Open, IInv
    <2> QED
      BY <2>2, ThrowOpen DEF Branched
  <1>1. CASE Raise(Ticked, "REG_VIOL")
    BY <1>1, TickedSound, Faults
  <1>2. ASSUME NEW r, NEW v, NEW op, NEW src, NEW target,
               Goto(SetDesReg(Ticked, r, v), Branched(op, src, target))
        PROVE  Sound
    BY <1>0, <1>2, TickedUntouched, UntouchedLawful, SetLawful, GotoSound
  <1>3. ASSUME NEW op, NEW src, NEW target, Goto(Ticked, Branched(op, src, target))
        PROVE  Sound
    BY <1>0, <1>3, TickedSound
  <1> QED
    BY <1>1, <1>2, <1>3 DEF AntBranch

(* The address of an access is one of the machine if its register is.      *)
LEMMA RefusedSound ==
  ASSUME IInv, Op \in Transfer, Vaddr \in Word, NEW g, Untouched(g), NEW size,
         NEW access \in Accesses, Refused(g, size, access)
  PROVE  Sound
  <1>1. Untouched(Latched(g, Vaddr))
    BY LatchedUntouched
  <1>2. \/ \E exc \in Fault : Fail(Latched(g, Vaddr), access, exc)
        \/ \E exc \in Fault : Fail(g, access, exc)
    BY Faults DEF Refused
  <1> QED
    BY <1>1, <1>2, FailSound

LEMMA TransferSound ==
  ASSUME IInv, Op \in Transfer, Vaddr \in Word
  PROVE  /\ \A op, r : Load(op, r) => Sound
         /\ \A op, r : Store(op, r) => Sound
         /\ \A r : Exchange(r) => Sound
  <1> DEFINE g == Counted(Ticked, ReadCount)
             h == Counted(Latched(g, Vaddr), WriteCount)
             w == Counted(Ticked, WriteCount)
  <1>0. "READ" \in Accesses /\ "WRITE" \in Accesses
    BY DEF Accesses
  <1>1. Untouched(g) /\ Untouched(w)
    BY TickedUntouched, CountedUntouched, Kinds
  <1>2. Untouched(Latched(g, Vaddr)) /\ Untouched(Latched(w, Vaddr))
    <2> HIDE DEF g, w
    <2> QED
      BY <1>1, LatchedUntouched
  <1>3. Untouched(h)
    BY <1>2, CountedUntouched, Kinds
  <1>4. Open(Onward)
    BY ThrowOpen
  <1>5. ASSUME NEW op, NEW r, Load(op, r) PROVE Sound
    <2>1. Refused(g, IF op = "LD1" THEN 1 ELSE 4, "READ")
          \/ \E v : Leave(SetDesReg(Latched(g, Vaddr), r, v))
      BY <1>5 DEF Load
    <2> HIDE DEF g
    <2>2. \A v : Lawful(SetDesReg(Latched(g, Vaddr), r, v))
      BY <1>2, UntouchedLawful, SetLawful
    <2> QED
      BY <1>0, <1>1, <2>1, <2>2, RefusedSound, LeaveSound
  <1>6. ASSUME NEW op, NEW r, Store(op, r) PROVE Sound
    <2>1. Refused(w, IF op = "ST1" THEN 1 ELSE 4, "WRITE")
          \/ Complete(Latched(w, Vaddr), "OK", Onward)
      BY <1>6 DEF Store
    <2> HIDE DEF w
    <2>2. Lawful(Latched(w, Vaddr))
      BY <1>2, UntouchedLawful
    <2> QED
      BY <1>0, <1>1, <1>4, <2>1, <2>2, RefusedSound, CompleteSound, Faults
  <1>7. ASSUME NEW r, Exchange(r) PROVE Sound
    <2>1. \/ Refused(g, 4, "READ") \/ \E exc \in Fault : Fail(h, "WRITE", exc)
          \/ \E v : Complete(SetDesReg(h, r, v), "OK", Onward)
      BY <1>7, Faults DEF Exchange
    <2> HIDE DEF g, h
    <2>2. \A v : Lawful(SetDesReg(h, r, v))
      BY <1>3, UntouchedLawful, SetLawful
    <2>3. CASE Refused(g, 4, "READ")
      BY <1>0, <1>1, <2>3, RefusedSound
    <2>4. CASE \E exc \in Fault : Fail(h, "WRITE", exc)
      BY <1>0, <1>3, <2>4, FailSound
    <2>5. CASE \E v : Complete(SetDesReg(h, r, v), "OK", Onward)
      BY <1>4, <2>2, <2>5, CompleteSound, Faults
    <2> QED
      BY <2>1, <2>3, <2>4, <2>5
  <1> QED
    BY <1>5, <1>6, <1>7

LEMMA LoadStoreSound == IInv /\ AntLoadStore => Sound
  <1> SUFFICES ASSUME IInv, NEW op \in Transfer \cup Unknown, NEW f \in Fields, NEW imm \in Imm8,
                      Issue(op, f, imm),
                      \/ Raise(Ticked, "REG_VIOL") \/ Throw(Ticked, "ILL_INS")
                      \/ /\ op \in Transfer /\ Permitted({}, {f[2]})
                         /\ Load(op, f[1]) \/ Store(op, f[1]) \/ Exchange(f[1])
               PROVE  Sound
    BY DEF AntLoadStore, Transfer
  <1>1. CASE Raise(Ticked, "REG_VIOL") \/ Throw(Ticked, "ILL_INS")
    BY <1>1, TickedSound, UncaughtSound, Faults
  <1>2. CASE /\ op \in Transfer /\ Permitted({}, {f[2]})
             /\ Load(op, f[1]) \/ Store(op, f[1]) \/ Exchange(f[1])
    <2>1. Op \in Transfer
      BY <1>2 DEF Op, Issue, Fetched, Run
    <2>2. Vaddr \in Word
      BY <1>2, AddressTyped DEF IInv
    <2> QED
      BY <1>2, <2>1, <2>2, TransferSound
  <1> QED
    BY <1>1, <1>2

(* TLBPI and TLBLE write the register file themselves, but only in         *)
(* supervisor mode.                                                        *)
LEMMA SysOpsSound == IInv /\ AntSysOps => Sound
  <1> SUFFICES ASSUME IInv, AntSysOps PROVE Sound
    OBVIOUS
  <1>0. cpu \in Control /\ Lawful(Ticked) /\ File(Ticked)
    BY TickedUntouched, UntouchedLawful DEF Lawful, IInv, RegsTypeOK
  <1>1. ASSUME NEW exc \in Fault, Raise(Ticked, exc) PROVE Sound
    BY <1>1, TickedSound
  <1>2. ASSUME NEW status \in Status, Complete(Ticked, status, Onward) PROVE Sound
    BY <1>0, <1>2, CompleteSound, ThrowOpen
  <1>3. ASSUME NEW f, cpu.mode = "SUPER", TlbPi(f) PROVE Sound
    <2>1. \A v : Lawful([Ticked EXCEPT ![f[1]] = v])
      BY <1>0, <1>3 DEF Lawful, Private, File
    <2> QED
      BY <1>1, <1>2, <1>3, <2>1, LeaveSound, Faults DEF TlbPi
  <1>4. ASSUME NEW f, cpu.mode = "SUPER", TlbLe(f) PROVE Sound
    <2>1. \A lo, hi : Lawful([Ticked EXCEPT ![f[1]] = lo, ![f[1] + 1] = hi])
      BY <1>0, <1>4 DEF Lawful, Private, File
    <2> QED
      BY <1>1, <1>4, <2>1, LeaveSound, Faults DEF TlbLe
  <1>5. ASSUME NEW f, TlbSe(f) \/ Timer(f) PROVE Sound
    BY <1>5, TickedSound, Faults DEF TlbSe, Timer
  <1>6. ASSUME NEW f, Rfe(f) PROVE Sound
    <2>1. \A pc, int, usr : Open(Returned(pc, int, usr))
      BY <1>0 DEF Open, Returned, Control
    <2> QED
      BY <1>6, <2>1, TickedSound, Faults DEF Rfe
  <1>7. ASSUME NEW f, Leh(f) PROVE Sound
    <2>1. \A v : Open([Onward EXCEPT !.eh = v])
      BY <1>0, ThrowOpen, ControlKept DEF Open, Control, IInv
    <2> QED
      BY <1>7, <2>1, TickedSound, Faults DEF Leh
  <1>8. ASSUME NEW op, cpu.mode = "SUPER", SetFlag(op) PROVE Sound
    <2>1. Onward \in Control /\ Onward.mode = "SUPER"
      BY <1>0, <1>8, ControlKept DEF IInv, Onward, Control
    <2>2. /\ Open([Onward EXCEPT !.int_disable = op = "STI"])
          /\ Open([Onward EXCEPT !.exc_disable = op = "STE"])
      BY <2>1 DEF Open, Control
    <2> QED
      BY <1>8, <2>2, TickedSound DEF SetFlag
  <1>9. ASSUME NEW op \in {"HALT", "IDLE"}, Stop(op) PROVE Sound
    <2>1. op \in Status
      BY DEF Status
    <2> QED
      BY <1>1, <1>2, <1>9, <2>1, Faults DEF Stop
  <1> QED
    BY <1>1, <1>3, <1>4, <1>5, <1>6, <1>7, <1>8, <1>9, Faults DEF AntSysOps

LEMMA NextSound == IInv /\ Next => Sound
  BY FetchSound, ArithSound, WideSound, PlainSound, BranchSound, LoadStoreSound, SysOpsSound
  DEF Next, ExecInst
-----------------------------------------------------------------------------
(* User code runs with exceptions enabled: each exception disables them    *)
(* and enters supervisor mode, and only RFE leaves it.                     *)
THEOREM RegsInv == Spec => []IInv
  <1>1. Init => Open(cpu)
    BY RegsAssumption DEF Init, Open
  <1>2. RegsTypeOK /\ Open(cpu) /\ [Next]_vars => Open(cpu)'
    BY NextSound DEF Sound, IInv, Open, vars
  <1> QED
    BY <1>1, <1>2, RegistersHoldWords, PTL DEF Spec, IInv

(* An instruction that raises an exception can be executed again: it has   *)
(* changed neither memory nor a register other than the counters and the   *)
(* exception registers, which hold its address and the interrupt flag, or, *)
(* while exceptions are disabled, what they held.                          *)
THEOREM FaultsPrecise == Spec => PreciseFaults
  <1>1. IInv /\ [Next]_vars =>
          [rc' \in Fault =>
             /\ mem' = mem
             /\ \A r \in RegNum \ (CycleReg \cup ExcReg) : reg'[r] = reg[r]
             /\ IF cpu.exc_disable THEN \A r \in {E0, E1, E2} : reg'[r] = reg[r]
                ELSE reg'[E0] = cpu.pc /\ reg'[E1] = Flag(cpu.int_disable)]_vars
    BY NextSound DEF Sound, Precise, Recorded
  <1> QED
    BY <1>1, RegsInv, PTL DEF Spec, PreciseFaults
-----------------------------------------------------------------------------
(* What an instruction names, it may use.                                  *)

System   == SupReg \cup ExcReg
Singular == {"LCL", "LCH", "INFO", "RAND", "CIN"} \cup ByConst

Proper == cpu.mode = "USER" /\ rc' = "OK" => Named(inst') \cap System = {}

LEMMA PermittedProper ==
  \A des, src : Permitted(des, src) /\ cpu.mode = "USER" => (des \cup src) \cap System = {}
  BY Validity DEF Permitted, System

LEMMA RaiseProper == \A g : \A exc \in Fault : Raise(g, exc) => rc' # "OK"
  BY Faults DEF Raise, Fail, Throw, Complete

LEMMA FailProper == \A g, access : \A exc \in Fault : Fail(g, access, exc) => rc' # "OK"
  BY Faults DEF Fail, Throw, Complete

(* Instructions of three registers, of two and a constant, and of one.     *)
LEMMA ThreeNamed ==
  ASSUME NEW op, op \notin Wide \cup Singular \cup {"COUT"}, NEW f,
         inst' = [op |-> op, f |-> f, const |-> FALSE, imm |-> 0],
         rc' # "OK" \/ Permitted({f[1]}, {f[2], f[3]})
  PROVE  Proper
  <1>1. Named(inst') = {f[1]} \cup {f[2], f[3]}
    BY DEF Named, Singular
  <1>2. Permitted({f[1]}, {f[2], f[3]}) /\ cpu.mode = "USER" => Named(inst') \cap System = {}
    BY <1>1, PermittedProper
  <1> QED
    BY <1>2 DEF Proper

LEMMA TwoNamed ==
  ASSUME NEW op, op \notin Wide \cup Singular \cup {"COUT"}, NEW f, NEW imm,
         inst' = [op |-> op, f |-> f, const |-> TRUE, imm |-> imm],
         rc' # "OK" \/ \E des, src : Permitted(des, src) /\ {f[1], f[2]} \subseteq des \cup src
  PROVE  Proper
  <1>1. Named(inst') = {f[1], f[2]}
    BY DEF Named, Singular
  <1> QED
    BY <1>1, PermittedProper DEF Proper

LEMMA OneNamed ==
  ASSUME NEW op \in Singular, NEW f, NEW const, NEW imm,
         inst' = [op |-> op, f |-> f, const |-> const, imm |-> imm],
         rc' # "OK" \/ \E des, src : Permitted(des, src) /\ f[1] \in des \cup src
  PROVE  Proper
  <1>1. Named(inst') = {f[1]}
    BY DEF Named, Singular
  <1> QED
    BY <1>1, PermittedProper DEF Proper

LEMMA ArithProper == AntArith \/ AntArithI => Proper
  <1>1. ASSUME NEW op \in Arith \cup Unknown, NEW f, IssueR(op, f),
               IF Permitted({f[1]}, {f[2], f[3]})
               THEN Compute(op, Arith, f[1], Ticked[f[2]], Ticked[f[3]])
               ELSE Raise(Ticked, "REG_VIOL")
        PROVE  Proper
    <2>1. rc' # "OK" \/ Permitted({f[1]}, {f[2], f[3]})
      BY <1>1, RaiseProper, Faults
    <2>2. op \notin Wide \cup Singular \cup {"COUT"}
      BY <1>1 DEF Arith, Unknown, Wide, Singular, ByConst
    <2>3. inst' = [op |-> op, f |-> f, const |-> FALSE, imm |-> 0]
      BY <1>1 DEF IssueR, Fetched, Run
    <2> QED
      BY <2>1, <2>2, <2>3, ThreeNamed
  <1>2. ASSUME NEW op \in ArithI \cup Unknown, NEW f, NEW imm, Issue(op, f, imm),
               IF Permitted({f[1]}, {f[2]})
               THEN Compute(op, ArithI, f[1], Ticked[f[2]], imm)
               ELSE Raise(Ticked, "REG_VIOL")
        PROVE  Proper
    <2>1. rc' # "OK" \/ Permitted({f[1]}, {f[2]})
      BY <1>2, RaiseProper, Faults
    <2>2. op \notin Wide \cup Singular \cup {"COUT"}
      BY <1>2 DEF ArithI, Unknown, Wide, Singular, ByConst
    <2>3. inst' = [op |-> op, f |-> f, const |-> TRUE, imm |-> imm]
      BY <1>2 DEF Issue, Fetched, Run
    <2> QED
      BY <2>1, <2>2, <2>3, TwoNamed
  <1> QED
    BY <1>1, <1>2 DEF AntArith, AntArithI

(* A pair is two registers.                                                *)
LEMMA WideProper == AntAritho \/ AntArithio => Proper
  <1>1. ASSUME NEW op \in Wide \cup Unknown, NEW f, NEW src, f[2] \in src,
               inst'.const \/ f[3] \in src, inst'.op = op, inst'.f = f,
               \/ \E exc \in Denials(op, f[1], src) : Raise(Ticked, exc)
               \/ Denials(op, f[1], src) = {}
        PROVE  Proper
    <2>1. Denials(op, f[1], src) \subseteq Fault
      BY DenialsKnown
    <2>2. CASE rc' # "OK"
      BY <2>2 DEF Proper
    <2>3. CASE Denials(op, f[1], src) = {}
      <3>1. Permitted({f[1], f[1] + 1}, src) /\ op \in Wide
        BY <2>3, DenialsKnown
      <3>2. op \notin Singular \cup {"COUT"}
        BY <3>1 DEF Wide, Singular, ByConst
      <3>3. Named(inst') \subseteq {f[1], f[1] + 1} \cup src
        BY <1>1, <3>1, <3>2 DEF Named, Singular
      <3> QED
        BY <3>1, <3>3, PermittedProper DEF Proper
    <2> QED
      BY <1>1, <2>1, <2>2, <2>3, RaiseProper
  <1>2. AntAritho => Proper
    BY <1>1 DEF AntAritho, IssueR, Fetched, Run
  <1>3. AntArithio => Proper
    BY <1>1 DEF AntArithio, Issue, Fetched, Run
  <1> QED
    BY <1>2, <1>3

LEMMA CompareProper == AntCompare => Proper
  <1> SUFFICES ASSUME NEW op \in Compare \cup Unknown, NEW f \in Fields, IssueR(op, f),
                      rc' # "OK" \/ Permitted({f[1]}, {f[2], f[3]})
               PROVE  Proper
    BY RaiseProper, Faults DEF AntCompare
  <1>1. op \notin Wide \cup Singular \cup {"COUT"}
    BY DEF Compare, Unknown, Wide, Singular, ByConst
  <1>2. inst' = [op |-> op, f |-> f, const |-> FALSE, imm |-> 0]
    BY DEF IssueR, Fetched, Run
  <1> QED
    BY <1>1, <1>2, ThreeNamed

LEMMA ConstantProper == AntLc \/ AntInput => Proper
  <1>1. ASSUME NEW op \in {"LCL", "LCH"}, NEW f, NEW imm, Issue(op, f, imm),
               rc' # "OK" \/ Permitted({f[1]}, {})
        PROVE  Proper
    BY <1>1, OneNamed DEF Issue, Fetched, Run, Singular
  <1>2. ASSUME NEW op \in {"INFO", "RAND", "CIN"}, NEW f, IssueR(op, f),
               rc' # "OK" \/ Permitted({f[1]}, {})
        PROVE  Proper
    BY <1>2, OneNamed DEF IssueR, Fetched, Run, Singular
  <1>3. AntLc => Proper
    <2> SUFFICES ASSUME AntLc, rc' = "OK" PROVE Proper
      BY DEF Proper
    <2>1. \A op \in Unknown : op \notin {"LCL", "LCH"}
      BY DEF Unknown
    <2> QED
      BY <1>1, <2>1, RaiseProper, Faults DEF AntLc
  <1>4. AntInput => Proper
    BY <1>2, RaiseProper, Faults DEF AntInput
  <1> QED
    BY <1>3, <1>4

LEMMA CoutProper == AntCout => Proper
  <1> SUFFICES ASSUME NEW f \in Fields, IssueR("COUT", f),
                      rc' # "OK" \/ Permitted({}, {f[2]})
               PROVE  Proper
    BY RaiseProper, Faults DEF AntCout
  <1>1. Named(inst') = {f[2]}
    BY DEF Named, IssueR, Fetched, Run, ByConst
  <1> QED
    BY <1>1, PermittedProper DEF Proper

LEMMA BranchProper == AntBranch => Proper
  <1>1. ASSUME NEW op \in ByRegister, NEW f, IssueR(op, f),
               rc' # "OK" \/ Permitted({f[1]}, {f[2], f[3]})
        PROVE  Proper
    <2>1. inst' = [op |-> op, f |-> f, const |-> FALSE, imm |-> 0]
      BY <1>1 DEF IssueR, Fetched, Run
    <2>2. op \notin Wide \cup Singular \cup {"COUT"}
      BY DEF ByRegister, Wide, Singular, ByConst
    <2> QED
      BY <1>1, <2>1, <2>2, ThreeNamed
  <1>2. ASSUME NEW op \in ByConst, NEW f, NEW offset, Issue(op, f, offset),
               rc' # "OK" \/ Permitted({}, {f[1]})
        PROVE  Proper
    BY <1>2, OneNamed DEF Issue, Fetched, Run, Singular
  <1> QED
    BY <1>1, <1>2, RaiseProper, Faults DEF AntBranch

LEMMA LoadStoreProper == AntLoadStore => Proper
  <1> SUFFICES ASSUME NEW op \in Transfer \cup Unknown,
                      NEW f \in Fields, NEW imm \in Imm8, Issue(op, f, imm),
                      \/ rc' # "OK"
                      \/ /\ Permitted({}, {f[2]})
                         /\ Permitted({f[1]}, {}) \/ Permitted({}, {f[1]})
               PROVE  Proper
    BY RaiseProper, Faults DEF AntLoadStore, Transfer
  <1>1. op \notin Wide \cup Singular \cup {"COUT"}
    BY DEF Transfer, Unknown, Wide, Singular, ByConst
  <1>2. inst' = [op |-> op, f |-> f, const |-> TRUE, imm |-> imm]
    BY DEF Issue, Fetched, Run
  <1>3. rc' # "OK" \/ Permitted({f[1]}, {f[2]}) \/ Permitted({}, {f[1], f[2]})
    BY DEF Permitted
  <1> QED
    BY <1>1, <1>2, <1>3, TwoNamed

(* Traps, failed fetches, and what is left to the supervisor.              *)
LEMMA RestProper == FetchFault \/ AntTrap \/ AntSrand \/ AntSysOps => Proper
  BY RaiseProper, FailProper, Faults DEF FetchFault, AntTrap, AntSrand, AntSysOps, Proper

LEMMA NextProper == Next => Proper
  BY ArithProper, WideProper, CompareProper, ConstantProper, CoutProper, BranchProper,
     LoadStoreProper, RestProper DEF Next, ExecInst

(* User code changes no k register, leaves in the exception registers only *)
(* what the processor records of its instruction, and completes none that  *)
(* names a register of the supervisor, in whatever operand.                *)
THEOREM UserKeptOut == Spec => UserRegistersOnly
  <1>1. IInv /\ [Next]_vars =>
          [cpu.mode = "USER" =>
             /\ \A r \in SupReg : reg'[r] = reg[r]
             /\ reg'[E0] = cpu.pc /\ reg'[E1] = Flag(cpu.int_disable)
             /\ reg'[E2] \in {0, cpu.pc} \/ (Op \in Transfer /\ reg'[E2] = Vaddr)
             /\ reg'[E3] % 2 = 0
             /\ rc' = "OK" => reg'[E3] = 0 /\ Named(inst') \cap (SupReg \cup ExcReg) = {}]_vars
    BY NextSound, NextProper DEF Sound, Shut, Private, Located, Proper, System
  <1> QED
    BY <1>1, RegsInv, PTL DEF Spec, UserRegistersOnly
-----------------------------------------------------------------------------
(* The order of bytes.                                                     *)

(* An integer written with three digits to the base b and a last one that  *)
(* may be negative has these digits.                                       *)
Number(b, d0, d1, d2, d3) == d0 + b * (d1 + b * (d2 + b * d3))

LEMMA DigitsOf ==
  ASSUME NEW b \in Nat, b > 0, NEW d0 \in 0 .. b - 1, NEW d1 \in 0 .. b - 1,
         NEW d2 \in 0 .. b - 1, NEW d3 \in Int
  PROVE  LET x == Number(b, d0, d1, d2, d3) IN
         /\ x % b = d0 /\ (x \div b) % b = d1 /\ (x \div (b * b)) % b = d2
         /\ x \div (b * (b * b)) = d3
  <1> DEFINE x  == d0 + b * (d1 + b * (d2 + b * d3))
             q1 == d1 + b * (d2 + b * d3)
             q2 == d2 + b * d3
             s  == b * b
             r2 == d0 + b * d1
             r3 == d0 + b * (d1 + b * d2)
  <1>1. q1 \in Int /\ q2 \in Int /\ x \in Int /\ s \in Nat /\ r2 \in Int /\ r3 \in Int
    OBVIOUS
  <1>2. x = b * q1 + d0 /\ q1 = b * q2 + d1 /\ q2 = b * d3 + d2
    OBVIOUS
  <1>3. 0 <= r2 /\ r2 < s
    <2>1. b * d1 >= 0
      OBVIOUS
    <2>2. b * d1 <= b * (b - 1)
      OBVIOUS
    <2>3. b * (b - 1) = s - b
      OBVIOUS
    <2> HIDE DEF s
    <2> QED
      BY <1>1, <2>1, <2>2, <2>3
  <1>4. x = s * q2 + r2
    BY <1>1
  <1>5. s > 0
    BY <1>1, <1>3
  <1>6. 0 <= r3 /\ r3 < b * s /\ b * s \in Nat /\ b * s > 0
    <2>1. r3 = r2 + s * d2
      OBVIOUS
    <2> HIDE DEF r2, r3, s
    <2>2. s * d2 >= 0
      BY <1>1
    <2>3. s * d2 <= s * (b - 1)
      BY <1>1
    <2>4. s * (b - 1) = b * s - s
      BY <1>1
    <2>5. b * s \in Nat
      BY <1>1
    <2>6. 0 <= r3
      BY <1>1, <1>3, <2>1, <2>2
    <2>7. r3 < b * s
      BY <1>1, <1>3, <2>1, <2>3, <2>4, <2>5
    <2> QED
      BY <1>1, <2>5, <2>6, <2>7
  <1>7. x = (b * s) * d3 + r3
    BY <1>1
  <1> HIDE DEF q1, q2, s, r2, r3, x
  <1>8. x \div b = q1 /\ x % b = d0
    BY <1>1, <1>2, DivIs
  <1>9. q1 % b = d1
    BY <1>1, <1>2, DivIs
  <1>10. q2 % b = d2
    BY <1>1, <1>2, DivIs
  <1>11. x \div s = q2
    BY <1>1, <1>3, <1>4, <1>5, DivIs
  <1>12. x \div (b * s) = d3
    BY <1>1, <1>6, <1>7, DivIs
  <1> QED
    BY <1>8, <1>9, <1>10, <1>11, <1>12 DEF Number, x, s

(* An integer is cut to a word by a whole number of words.                 *)
LEMMA FieldCongruent ==
  \A x \in Int : \A n \in Nat : n > 0 => \E k \in Int : Signed(x, n) = x + n * k
  <1> SUFFICES ASSUME NEW x \in Int, NEW n \in Nat, n > 0
               PROVE  \E k \in Int : Signed(x, n) = x + n * k
    OBVIOUS
  <1>1. PICK q \in Int : x = n * q + (x % n) /\ x % n \in Int
    BY DivMod
  <1>2. Signed(x, n) = x % n \/ Signed(x, n) = (x % n) - n
    BY DEF Signed
  <1>3. -q \in Int /\ x % n = x + n * (-q)
    BY <1>1
  <1>4. -q - 1 \in Int /\ (x % n) - n = x + n * (-q - 1)
    BY <1>1
  <1>5. ASSUME NEW j \in Int, Signed(x, n) = x + n * j
        PROVE  \E k \in Int : Signed(x, n) = x + n * k
    BY <1>5
  <1>6. CASE Signed(x, n) = x % n
    <2> DEFINE j == -q
    <2>1. j \in Int /\ Signed(x, n) = x + n * j
      BY <1>3, <1>6
    <2> HIDE DEF j
    <2> QED
      BY <1>5, <2>1
  <1>7. CASE Signed(x, n) = (x % n) - n
    <2> DEFINE j == -q - 1
    <2>1. j \in Int /\ Signed(x, n) = x + n * j
      BY <1>4, <1>7
    <2> HIDE DEF j
    <2> QED
      BY <1>5, <2>1
  <1> QED
    BY <1>2, <1>6, <1>7

LEMMA CutByte == \A d \in Octet : Lower(Signed(d, ByteSize), ByteSize) = d
  <1> TAKE d \in Octet
  <1>1. d \in Int /\ 0 <= d /\ d < ByteSize
    BY ByteInt
  <1>2. PICK k \in Int : Signed(d, ByteSize) = d + ByteSize * k
    <2>1. ByteSize \in Nat /\ ByteSize > 0
      BY ByteFacts
    <2> QED
      BY <1>1, <2>1, FieldCongruent
  <1>3. Signed(d, ByteSize) = ByteSize * k + d /\ Signed(d, ByteSize) \in Int
    BY <1>1, <1>2, ByteFacts
  <1> QED
    BY <1>1, <1>3, ByteFacts, DivIs DEF Lower

(* The word of four bytes has these bytes.                                 *)
LEMMA BytesOfWord ==
  \A m \in Bytes : \A i \in 0 .. 3 : Lower(MemWord(m) \div Weight[i + 1], ByteSize) = m[i]
  <1> TAKE m \in Bytes
  <1> DEFINE b == ByteSize
             n == m[0] + b * (m[1] + b * (m[2] + b * m[3]))
  <1>1. /\ b \in Nat /\ b > 0
        /\ m[0] \in 0 .. b - 1 /\ m[1] \in 0 .. b - 1 /\ m[2] \in 0 .. b - 1 /\ m[3] \in 0 .. b - 1
    BY ByteFacts DEF Bytes, Octet
  <1>2. n \in Int
    BY <1>1
  <1>3. PICK k \in Int : MemWord(m) = n + WordSize * k
    <2>1. WordSize \in Nat /\ WordSize > 0
      BY ByteFacts, WordHalves
    <2>2. MemWord(m) = Signed(n, WordSize)
      BY DEF MemWord, Truncate
    <2> HIDE DEF n
    <2> QED
      BY <1>2, <2>1, <2>2, FieldCongruent
  <1> DEFINE d3 == m[3] + b * k
  <1>4. d3 \in Int /\ d3 = b * k + m[3]
    BY <1>1
  <1>5. MemWord(m) = m[0] + b * (m[1] + b * (m[2] + b * d3))
    <2>1. WordSize * k = b * (b * (b * (b * k)))
      BY <1>1 DEF WordSize, HwordSize
    <2> QED
      BY <1>1, <1>3, <2>1
  <1> DEFINE w == MemWord(m)
  <1>6. w \in Int
    BY MemWordTyped, WordInt
  <1>7. w = m[0] + b * (m[1] + b * (m[2] + b * d3))
    BY <1>5
  <1> HIDE DEF d3, w, b
  <1>8. /\ w % b = m[0]
        /\ (w \div b) % b = m[1]
        /\ (w \div (b * b)) % b = m[2]
        /\ w \div (b * (b * b)) = d3
    <2> DEFINE d0 == m[0]
               d1 == m[1]
               d2 == m[2]
    <2>1. /\ b \in Nat /\ b > 0 /\ d3 \in Int
          /\ d0 \in 0 .. b - 1 /\ d1 \in 0 .. b - 1 /\ d2 \in 0 .. b - 1
      BY <1>1, <1>4
    <2>2. w = Number(b, d0, d1, d2, d3)
      BY <1>7 DEF Number
    <2> HIDE DEF d0, d1, d2
    <2>3. /\ w % b = d0
          /\ (w \div b) % b = d1
          /\ (w \div (b * b)) % b = d2
          /\ w \div (b * (b * b)) = d3
      BY <2>1, <2>2, DigitsOf
    <2> QED
      BY <2>3 DEF d0, d1, d2
  <1>9. d3 % b = m[3]
    BY <1>1, <1>4, DivIs
  <1>10. w \div 1 = w
    BY <1>6
  <1>11. /\ Weight[1] = 1 /\ Weight[2] = b /\ Weight[3] = b * b /\ Weight[4] = b * (b * b)
    BY DEF Weight, HwordSize, b
  <1>12. /\ Lower(w \div Weight[1], b) = m[0] /\ Lower(w \div Weight[2], b) = m[1]
         /\ Lower(w \div Weight[3], b) = m[2] /\ Lower(w \div Weight[4], b) = m[3]
    BY <1>8, <1>9, <1>10, <1>11 DEF Lower
  <1>13. \A i \in 0 .. 3 : Lower(w \div Weight[i + 1], b) = m[i]
    <2> TAKE i \in 0 .. 3
    <2>1. i = 0 \/ i = 1 \/ i = 2 \/ i = 3
      OBVIOUS
    <2>2. 0 + 1 = 1 /\ 1 + 1 = 2 /\ 2 + 1 = 3 /\ 3 + 1 = 4
      OBVIOUS
    <2> QED
      BY <1>12, <2>1, <2>2
  <1> QED
    BY <1>13 DEF w, b

(* What a step does to the memory a program sees.                          *)
Access ==
  rc' = "OK" =>
    LET a == Vaddr % 4  r == inst'.f[1] IN
    /\ Op \in {"ST4", "EX4"} => BigEndian(View', Ticked[r])
    /\ Op \in {"LD4", "EX4"} /\ r # ZeroReg => BigEndian(View, reg'[r])
    /\ Op = "ST1" => View' = [View EXCEPT ![a] = Lower(Ticked[r], ByteSize)]
    /\ Op = "LD1" /\ r # ZeroReg => Lower(reg'[r], ByteSize) = View[a]

LEMMA BranchOps == AntBranch => Op \in ByRegister \cup ByConst
  <1>1. \A op, f : IssueR(op, f) => Op = op
    BY DEF IssueR, Fetched, Run, Op
  <1>2. \A op, f, imm : Issue(op, f, imm) => Op = op
    BY DEF Issue, Fetched, Run, Op
  <1> QED
    BY <1>1, <1>2 DEF AntBranch

LEMMA OtherOps == Next /\ Op \in Transfer => AntLoadStore
  <1>1. FetchFault => Op \notin Transfer
    BY DEF FetchFault, NoInst, Run, Op, Transfer
  <1>2. AntArith => Op \notin Transfer
    BY DEF AntArith, IssueR, Fetched, Arith, Unknown, Run, Op, Transfer
  <1>3. AntArithI => Op \notin Transfer
    BY DEF AntArithI, Issue, Fetched, ArithI, Unknown, Run, Op, Transfer
  <1>4. AntAritho => Op \notin Transfer
    BY DEF AntAritho, IssueR, Fetched, Wide, Unknown, Run, Op, Transfer
  <1>5. AntArithio => Op \notin Transfer
    BY DEF AntArithio, Issue, Fetched, Wide, Unknown, Run, Op, Transfer
  <1>6. AntCompare => Op \notin Transfer
    BY DEF AntCompare, IssueR, Fetched, Compare, Unknown, Run, Op, Transfer
  <1>7. AntLc => Op \notin Transfer
    BY DEF AntLc, Issue, Fetched, Unknown, Run, Op, Transfer
  <1>8. AntInput => Op \notin Transfer
    BY DEF AntInput, IssueR, Fetched, Run, Op, Transfer
  <1>9. AntCout => Op \notin Transfer
    BY DEF AntCout, IssueR, Fetched, Run, Op, Transfer
  <1>10. AntTrap => Op \notin Transfer
    BY DEF AntTrap, IssueR, Fetched, Unknown, Run, Op, Transfer
  <1>11. AntSrand => Op \notin Transfer
    BY DEF AntSrand, IssueR, Fetched, Unknown, Run, Op, Transfer
  <1>12. AntBranch => Op \notin Transfer
    BY BranchOps DEF ByRegister, ByConst, Transfer
  <1>13. AntSysOps => Op \notin Transfer
    BY DEF AntSysOps, IssueR, Fetched, Unknown, Run, Op, Transfer
  <1> QED
    BY <1>1, <1>2, <1>3, <1>4, <1>5, <1>6, <1>7, <1>8, <1>9, <1>10, <1>11, <1>12, <1>13 DEF Next, ExecInst

LEMMA WordStored ==
  ASSUME NEW v \in Word, mem' = HostBytes(v)
  PROVE  BigEndian(View', v)
  <1> SUFFICES ASSUME NEW i \in 0 .. 3
               PROVE  View'[i] = Lower(v \div Weight[4 - i], ByteSize)
    BY DEF BigEndian
  <1>1. 3 - i \in 0 .. 3 /\ (3 - i) + 1 = 4 - i
    OBVIOUS
  <1>2. View'[i] = mem'[3 - i]
    BY DEF View
  <1>3. mem'[3 - i] = Lower(v \div Weight[(3 - i) + 1], ByteSize)
    BY <1>1 DEF HostBytes
  <1> QED
    BY <1>1, <1>2, <1>3

LEMMA WordSeen == mem \in Bytes => BigEndian(View, MemWord(mem))
  <1> SUFFICES ASSUME mem \in Bytes, NEW i \in 0 .. 3
               PROVE  View[i] = Lower(MemWord(mem) \div Weight[4 - i], ByteSize)
    BY DEF BigEndian
  <1>1. 3 - i \in 0 .. 3 /\ (3 - i) + 1 = 4 - i
    OBVIOUS
  <1>2. View[i] = mem[3 - i]
    BY DEF View
  <1>3. Lower(MemWord(mem) \div Weight[(3 - i) + 1], ByteSize) = mem[3 - i]
    BY <1>1, BytesOfWord
  <1> QED
    BY <1>1, <1>2, <1>3

LEMMA ByteStored ==
  ASSUME NEW a \in 0 .. 3, NEW v, mem \in Bytes, mem' = [mem EXCEPT ![3 - a] = v]
  PROVE  View' = [View EXCEPT ![a] = v]
  <1>1. View' = [i \in 0 .. 3 |-> IF 3 - i = 3 - a THEN v ELSE mem[3 - i]]
    BY DEF View, Bytes
  <1>2. [View EXCEPT ![a] = v] = [i \in 0 .. 3 |-> IF i = a THEN v ELSE mem[3 - i]]
    BY DEF View
  <1>3. \A i \in 0 .. 3 : 3 - i = 3 - a <=> i = a
    OBVIOUS
  <1> QED
    BY <1>1, <1>2, <1>3

(* What a register is given is there when the instruction ends.            *)
LEMMA GivenThere ==
  ASSUME NEW g \in Files, NEW r, r # ZeroReg, DesValid(r), NEW v,
         NEW m, Complete(SetDesReg(g, r, v), "OK", m)
  PROVE  reg'[r] = v
  <1>1. r \in RegNum
    BY SourceRegister
  <1>2. SetDesReg(g, r, v) = [g EXCEPT ![r] = v]
    BY DEF SetDesReg
  <1>3. reg' = [[g EXCEPT ![r] = v] EXCEPT ![ZeroReg] = 0]
    BY <1>2 DEF Complete
  <1> QED
    BY <1>1, <1>3 DEF Files

LEMMA RefusedProper == \A g, size, access : Refused(g, size, access) => rc' # "OK"
  BY FailProper, Faults DEF Refused

LEMMA LoadAccess ==
  ASSUME RegsTypeOK, Vaddr \in Word, Vaddr % 4 \in 0 .. 3, NEW op, op \in {"LD1", "LD4"}, Op = op,
         DesValid(Des), Load(op, Des)
  PROVE  Access
  <1> DEFINE g == Counted(Ticked, ReadCount)
             v == IF op = "LD1" THEN Signed(mem[HostByte(Vaddr)], ByteSize) ELSE MemWord(mem)
  <1>1. g \in Files /\ mem \in Bytes
    BY TickedFile, CountedFile, Kinds DEF RegsTypeOK, Bytes
  <1>2. rc' # "OK" \/ Complete(SetDesReg(Latched(g, Vaddr), Des, v), "OK", Onward)
    BY RefusedProper DEF Load, Leave, Goto
  <1>3. op = "LD1" => v = Signed(View[Vaddr % 4], ByteSize) /\ View[Vaddr % 4] \in Octet
    BY <1>1 DEF View, HostByte, Bytes
  <1>4. op = "LD4" => v = MemWord(mem)
    OBVIOUS
  <1> HIDE DEF g, v
  <1>5. rc' = "OK" /\ Des # ZeroReg => reg'[Des] = v
    BY <1>1, <1>2, LatchedFile, GivenThere
  <1>6. CASE op = "LD1"
    <2>1. rc' = "OK" /\ Des # ZeroReg => Lower(reg'[Des], ByteSize) = View[Vaddr % 4]
      BY <1>3, <1>5, <1>6, CutByte
    <2> QED
      BY <1>6, <2>1 DEF Access, Des
  <1>7. CASE op = "LD4"
    <2>1. rc' = "OK" /\ Des # ZeroReg => BigEndian(View, reg'[Des])
      BY <1>1, <1>4, <1>5, <1>7, WordSeen
    <2> QED
      BY <1>7, <2>1 DEF Access, Des
  <1> QED
    BY <1>6, <1>7

LEMMA StoreAccess ==
  ASSUME RegsTypeOK, Vaddr \in Word, Vaddr % 4 \in 0 .. 3, NEW op, op \in {"ST1", "ST4"}, Op = op,
         Ticked[Des] \in Word, Store(op, Des)
  PROVE  Access
  <1>1. mem \in Bytes
    BY DEF RegsTypeOK, Bytes
  <1>2. CASE op = "ST1"
    <2>1. rc' = "OK" => mem' = [mem EXCEPT ![3 - (Vaddr % 4)] = Lower(Ticked[Des], ByteSize)]
      BY <1>2, RefusedProper DEF Store, HostByte
    <2>2. rc' = "OK" => View' = [View EXCEPT ![Vaddr % 4] = Lower(Ticked[Des], ByteSize)]
      BY <1>1, <2>1, ByteStored
    <2> QED
      BY <1>2, <2>2 DEF Access, Des
  <1>3. CASE op = "ST4"
    <2>1. rc' = "OK" => mem' = HostBytes(Ticked[Des])
      BY <1>3, RefusedProper DEF Store
    <2>2. rc' = "OK" => BigEndian(View', Ticked[Des])
      BY <2>1, WordStored
    <2> QED
      BY <1>3, <2>2 DEF Access, Des
  <1> QED
    BY <1>2, <1>3

LEMMA ExchangeAccess ==
  ASSUME RegsTypeOK, Vaddr \in Word, Op = "EX4", DesValid(Des), Ticked[Des] \in Word, Exchange(Des)
  PROVE  Access
  <1> DEFINE g == Counted(Ticked, ReadCount)
             h == Counted(Latched(g, Vaddr), WriteCount)
  <1>1. h \in Files /\ mem \in Bytes
    <2>1. g \in Files
      BY TickedFile, CountedFile, Kinds
    <2> HIDE DEF g
    <2> QED
      BY <2>1, LatchedFile, CountedFile, Kinds DEF RegsTypeOK, Bytes
  <1>2. \/ rc' # "OK"
        \/ mem' = HostBytes(Ticked[Des]) /\ Complete(SetDesReg(h, Des, MemWord(mem)), "OK", Onward)
    BY RefusedProper, FailProper, Faults DEF Exchange
  <1> HIDE DEF g, h
  <1>3. rc' = "OK" => BigEndian(View', Ticked[Des])
    BY <1>2, WordStored
  <1>4. rc' = "OK" /\ Des # ZeroReg => BigEndian(View, reg'[Des])
    BY <1>1, <1>2, GivenThere, WordSeen
  <1> QED
    BY <1>3, <1>4 DEF Access, Des

LEMMA NextAccess == RegsTypeOK /\ Next => Access
  <1> SUFFICES ASSUME RegsTypeOK, Next, Op \in Transfer, rc' = "OK" PROVE Access
    BY DEF Access, Transfer
  <1>1. AntLoadStore
    BY OtherOps
  <1>2. PICK op \in Transfer \cup Unknown, f \in Fields, imm \in Imm8 :
          /\ Issue(op, f, imm)
          /\ Permitted({}, {f[2]})
          /\ Permitted(IF op \in {"LD1", "LD4", "EX4"} THEN {f[1]} ELSE {},
                       IF op \in {"LD1", "LD4", "EX4"} THEN {} ELSE {f[1]})
          /\ \/ op \in Unknown /\ Throw(Ticked, "ILL_INS")
             \/ op \in {"LD1", "LD4"} /\ Load(op, f[1])
             \/ op \in {"ST1", "ST4"} /\ Store(op, f[1])
             \/ op = "EX4" /\ Exchange(f[1])
    BY <1>1, RaiseProper, Faults DEF AntLoadStore, Transfer
  <1>3. Op = op /\ Des = f[1]
    BY <1>2 DEF Op, Des, Issue, Fetched, Run
  <1>4. Vaddr \in Word /\ Vaddr % 4 \in 0 .. 3
    BY <1>2, AddressTyped
  <1>5. Ticked[Des] \in Word
    BY <1>2, <1>3, Operands
  <1>6. op \in {"LD1", "LD4", "EX4"} => DesValid(Des)
    BY <1>2, <1>3 DEF Permitted
  <1>7. op \notin Unknown
    BY <1>3 DEF Transfer, Unknown
  <1> QED
    BY <1>2, <1>3, <1>4, <1>5, <1>6, <1>7, LoadAccess, StoreAccess, ExchangeAccess

(* Words and bytes that programs store and load are those of a big-endian  *)
(* memory, although the host keeps its words little-endian.                *)
THEOREM MemoryBigEndian == Spec => BigEndianMemory
  <1>1. RegsTypeOK /\ [Next]_vars =>
          [rc' = "OK" =>
             LET a == Vaddr % 4  r == inst'.f[1] IN
             /\ Op \in {"ST4", "EX4"} => BigEndian(View', Ticked[r])
             /\ Op \in {"LD4", "EX4"} /\ r # ZeroReg => BigEndian(View, reg'[r])
             /\ Op = "ST1" => View' = [View EXCEPT ![a] = Lower(Ticked[r], ByteSize)]
             /\ Op = "LD1" /\ r # ZeroReg => Lower(reg'[r], ByteSize) = View[a]]_vars
    BY NextAccess DEF Access
  <1> QED
    BY <1>1, RegistersHoldWords, PTL DEF Spec, BigEndianMemory

-----------------------------------------------------------------------------
(* The product.                                                            *)

LEMMA HwordFacts ==
  /\ HwordSize \in Nat /\ HwordSize >= 4
  /\ WordSize \in Nat /\ WordSize = HwordSize * HwordSize /\ WordSize >= 4 * HwordSize
  <1>1. ByteSize \in Nat /\ ByteSize >= 2 /\ HwordSize \in Nat
    BY ByteFacts
  <1>2. \A m, n \in Nat : m >= 2 /\ n >= 2 => m * n >= 4
    <2> SUFFICES ASSUME NEW m \in Nat, NEW n \in Nat, m >= 2, n >= 2 PROVE m * n >= 4
      OBVIOUS
    <2>1. (m - 2) * n >= 0
      OBVIOUS
    <2>2. (m - 2) * n = m * n - 2 * n
      OBVIOUS
    <2> QED
      BY <2>1, <2>2
  <1>3. HwordSize >= 4
    BY <1>1, <1>2 DEF HwordSize
  <1>4. \A n \in Nat : n >= 4 => n * n >= 4 * n
    <2> SUFFICES ASSUME NEW n \in Nat, n >= 4 PROVE n * n >= 4 * n
      OBVIOUS
    <2>1. (n - 4) * n >= 0
      OBVIOUS
    <2>2. (n - 4) * n = n * n - 4 * n
      OBVIOUS
    <2> QED
      BY <2>1, <2>2
  <1> QED
    BY <1>1, <1>3, <1>4, ByteFacts

LEMMA HalfWords ==
  \A x \in Int : 0 <= x /\ x < WordSize =>
    /\ GetLo16(x) \in 0 .. HwordSize - 1 /\ GetHi16(x) \in 0 .. HwordSize - 1
    /\ x = GetLo16(x) + HwordSize * GetHi16(x)
  <1> SUFFICES ASSUME NEW x \in Int, 0 <= x, x < WordSize
               PROVE  /\ GetLo16(x) \in 0 .. HwordSize - 1 /\ GetHi16(x) \in 0 .. HwordSize - 1
                      /\ x = GetLo16(x) + HwordSize * GetHi16(x)
    OBVIOUS
  <1> DEFINE h == HwordSize
             q == x \div h
             r == x % h
  <1>1. h \in Nat /\ h > 0 /\ WordSize = h * h
    BY HwordFacts
  <1> HIDE DEF h
  <1>2. q \in Int /\ r \in Int /\ x = h * q + r /\ 0 <= r /\ r < h
    BY <1>1, DivMod
  <1>3. 0 <= q
    BY <1>1, DivBetween
  <1> HIDE DEF q, r
  <1>4. q < h
    <2> SUFFICES ASSUME q >= h PROVE FALSE
      BY <1>1, <1>2
    <2>1. h * (q - h) >= 0
      BY <1>1, <1>2
    <2>2. h * (q - h) = h * q - h * h
      BY <1>1, <1>2
    <2> QED
      BY <1>1, <1>2, <2>1, <2>2
  <1>5. q % h = q
    <2>1. q = h * 0 + q
      BY <1>1, <1>2
    <2> QED
      BY <1>1, <1>2, <1>3, <1>4, <2>1, DivIs
  <1>6. GetLo16(x) = r /\ GetHi16(x) = q
    BY <1>5 DEF GetLo16, GetHi16, q, r, h
  <1> QED
    BY <1>1, <1>2, <1>3, <1>4, <1>6 DEF h

(* The number that four digits write.                                      *)
Value(t) == Number(HwordSize, t[1], t[2], t[3], t[4])
Digit    == 0 .. HwordSize - 1
Four(t)  == t[1] \in Digit /\ t[2] \in Digit /\ t[3] \in Digit /\ t[4] \in Digit

LEMMA FourValue ==
  ASSUME NEW t, Four(t)
  PROVE  /\ t[1] + HwordSize * t[2] \in 0 .. WordSize - 1
         /\ t[3] + HwordSize * t[4] \in 0 .. WordSize - 1
         /\ Value(t) \in Nat
         /\ Value(t) = (t[1] + HwordSize * t[2]) + WordSize * (t[3] + HwordSize * t[4])
  <1> DEFINE h == HwordSize
  <1>1. h \in Nat /\ WordSize = h * h
    BY HwordFacts
  <1>2. /\ t[1] \in 0 .. h - 1 /\ t[2] \in 0 .. h - 1
        /\ t[3] \in 0 .. h - 1 /\ t[4] \in 0 .. h - 1
    BY DEF Four, Digit
  <1> HIDE DEF h
  <1>3. ASSUME NEW x \in 0 .. h - 1, NEW y \in 0 .. h - 1
        PROVE  x + h * y \in 0 .. WordSize - 1
    <2>1. h * (h - 1 - y) >= 0 /\ h * y >= 0
      BY <1>1
    <2>2. h * (h - 1 - y) = h * h - h - h * y
      BY <1>1
    <2> QED
      BY <1>1, <2>1, <2>2
  <1>4. t[1] + h * t[2] \in 0 .. WordSize - 1 /\ t[3] + h * t[4] \in 0 .. WordSize - 1
    BY <1>2, <1>3
  <1>5. Number(h, t[1], t[2], t[3], t[4]) = (t[1] + h * t[2]) + WordSize * (t[3] + h * t[4])
    BY <1>1, <1>2 DEF Number
  <1>6. \A x, y \in Nat : x + WordSize * y \in Nat
    BY <1>1
  <1> QED
    BY <1>4, <1>5, <1>6 DEF Value, h

(* Carries are propagated without changing the number, when it fits.       *)
LEMMA CarriedValue ==
  ASSUME NEW t, \A i \in 1 .. 4 : t[i] \in 0 .. 3 * HwordSize - 3,
         Value(t) < WordSize * WordSize
  PROVE  Four(Carried(t)) /\ Value(Carried(t)) = Value(t)
  <1> DEFINE h == HwordSize
             v2 == t[2] + GetHi16(t[1])
             v3 == t[3] + GetHi16(v2)
             v4 == t[4] + GetHi16(v3)
             u1 == GetHi16(t[1])
             u2 == GetHi16(v2)
             u3 == GetHi16(v3)
             u4 == GetHi16(v4)
             c1 == GetLo16(t[1])
             c2 == GetLo16(v2)
             c3 == GetLo16(v3)
             c4 == GetLo16(v4)
  <1>0. h \in Nat /\ h >= 4 /\ WordSize = h * h /\ WordSize >= 4 * h /\ WordSize \in Nat
    BY HwordFacts
  <1>1. /\ t[1] \in 0 .. 3 * h - 3 /\ t[2] \in 0 .. 3 * h - 3
        /\ t[3] \in 0 .. 3 * h - 3 /\ t[4] \in 0 .. 3 * h - 3
    BY <1>0
  <1>2. Carried(t) = <<c1, c2, c3, c4>>
    BY DEF Carried
  <1>3. ASSUME NEW x \in Int, 0 <= x, x < 4 * h
        PROVE  /\ GetLo16(x) \in 0 .. h - 1
               /\ x = GetLo16(x) + h * GetHi16(x)
               /\ GetHi16(x) \in 0 .. 3
    <2> DEFINE l == GetLo16(x)
               k == GetHi16(x)
    <2>1. l \in 0 .. h - 1 /\ k \in 0 .. h - 1 /\ x = l + h * k
      <3>1. x < WordSize
        BY <1>0, <1>3
      <3> QED
        BY <1>3, <3>1, HalfWords
    <2> HIDE DEF l, k, h
    <2>2. k < 4
      <3> SUFFICES ASSUME k >= 4 PROVE FALSE
        BY <1>0, <2>1
      <3>1. h * (k - 4) >= 0
        BY <1>0, <2>1
      <3>2. h * (k - 4) = h * k - 4 * h
        BY <1>0, <2>1
      <3> QED
        BY <1>0, <1>3, <2>1, <3>1, <3>2
    <2> QED
      BY <1>0, <2>1, <2>2 DEF l, k
  <1> HIDE DEF h
  <1>4. c1 \in 0 .. h - 1 /\ t[1] = c1 + h * u1 /\ u1 \in 0 .. 3
    BY <1>0, <1>1, <1>3
  <1>5. c2 \in 0 .. h - 1 /\ t[2] + u1 = c2 + h * u2 /\ u2 \in 0 .. 3
    BY <1>0, <1>1, <1>3, <1>4
  <1>6. c3 \in 0 .. h - 1 /\ t[3] + u2 = c3 + h * u3 /\ u3 \in 0 .. 3
    BY <1>0, <1>1, <1>3, <1>5
  <1>7. c4 \in 0 .. h - 1 /\ t[4] + u3 = c4 + h * u4 /\ u4 \in 0 .. 3
    BY <1>0, <1>1, <1>3, <1>6
  <1>8. Four(Carried(t))
    BY <1>2, <1>4, <1>5, <1>6, <1>7 DEF Four, Digit, h
  <1>9. Value(Carried(t)) = Number(h, c1, c2, c3, c4)
    BY <1>2 DEF Value, h
  <1>10. Value(t) = Number(h, t[1], t[2], t[3], t[4])
    BY DEF Value, h
  <1> HIDE DEF c1, c2, c3, c4, u1, u2, u3, u4, v2, v3, v4
  <1>11. Value(t) = Value(Carried(t)) + (WordSize * WordSize) * u4
    <2> DEFINE s1 == t[1]
               s2 == t[2]
               s3 == t[3]
               s4 == t[4]
    <2>1. s1 = c1 + h * u1 /\ s2 = c2 + h * u2 - u1 /\ s3 = c3 + h * u3 - u2
          /\ s4 = c4 + h * u4 - u3
      BY <1>0, <1>1, <1>4, <1>5, <1>6, <1>7
    <2>2. Value(t) = s1 + h * (s2 + h * (s3 + h * s4))
      BY <1>10 DEF Number
    <2> HIDE DEF s1, s2, s3, s4
    <2>3. s3 + h * s4 = c3 + h * c4 + h * h * u4 - u2
      BY <1>0, <1>6, <1>7, <1>5, <2>1
    <2>4. s2 + h * (s3 + h * s4) = c2 + h * c3 + h * h * c4 + h * h * h * u4 - u1
      BY <1>0, <1>4, <1>5, <1>6, <1>7, <2>1, <2>3
    <2>5. s1 + h * (s2 + h * (s3 + h * s4))
            = c1 + h * c2 + h * h * c3 + h * h * h * c4 + h * h * h * h * u4
      BY <1>0, <1>4, <1>5, <1>6, <1>7, <2>1, <2>4
    <2>6. Number(h, c1, c2, c3, c4) = c1 + h * c2 + h * h * c3 + h * h * h * c4
      BY <1>0, <1>4, <1>5, <1>6, <1>7 DEF Number
    <2>7. (WordSize * WordSize) * u4 = h * h * h * h * u4
      BY <1>0, <1>7
    <2> QED
      BY <1>9, <2>2, <2>5, <2>6, <2>7
  <1>12. Value(Carried(t)) \in Nat
    BY <1>8, FourValue
  <1>13. u4 = 0
    <2> SUFFICES ASSUME u4 >= 1 PROVE FALSE
      BY <1>7
    <2> DEFINE w == WordSize * WordSize
    <2>1. w \in Nat
      BY <1>0
    <2>2. Value(t) = Value(Carried(t)) + w * u4 /\ Value(t) < w
      BY <1>11
    <2> HIDE DEF w
    <2>3. w * u4 >= w
      BY <1>7, <2>1
    <2> QED
      BY <1>7, <1>12, <2>1, <2>2, <2>3
  <1> QED
    BY <1>0, <1>8, <1>11, <1>12, <1>13

(* Digit by digit.                                                         *)
LEMMA DigitsValue ==
  ASSUME NEW a \in Nat, a < WordSize, NEW b \in Nat, b < WordSize
  PROVE  Four(Digits(a, b)) /\ Value(Digits(a, b)) = a * b
  <1> DEFINE h == HwordSize
             a0 == GetLo16(a)
             a1 == GetHi16(a)
             b0 == GetLo16(b)
             b1 == GetHi16(b)
             p00 == a0 * b0
             p01 == a0 * b1
             p10 == a1 * b0
             p11 == a1 * b1
             t == <<GetLo16(p00), GetHi16(p00) + GetLo16(p01) + GetLo16(p10),
                    GetHi16(p01) + GetHi16(p10) + GetLo16(p11), GetHi16(p11)>>
  <1>0. h \in Nat /\ h >= 4 /\ WordSize = h * h /\ WordSize \in Nat
    BY HwordFacts
  <1>1. Digits(a, b) = Carried(t)
    BY DEF Digits
  <1>2. /\ a0 \in 0 .. h - 1 /\ a1 \in 0 .. h - 1 /\ a = a0 + h * a1
        /\ b0 \in 0 .. h - 1 /\ b1 \in 0 .. h - 1 /\ b = b0 + h * b1
    BY HalfWords
  <1> HIDE DEF h, a0, a1, b0, b1
  <1>3. ASSUME NEW x \in 0 .. h - 1, NEW y \in 0 .. h - 1
        PROVE  x * y \in Nat /\ x * y < WordSize
    <2>1. x * y <= h * y
      BY <1>0
    <2>2. h * y < h * h
      BY <1>0
    <2>3. x * y \in Nat
      OBVIOUS
    <2> QED
      BY <1>0, <2>1, <2>2, <2>3
  <1>4. /\ p00 \in Nat /\ p00 < WordSize /\ p01 \in Nat /\ p01 < WordSize
        /\ p10 \in Nat /\ p10 < WordSize /\ p11 \in Nat /\ p11 < WordSize
    BY <1>2, <1>3
  <1> HIDE DEF p00, p01, p10, p11
  <1>5. ASSUME NEW x \in Nat, x < WordSize
        PROVE  GetLo16(x) \in 0 .. h - 1 /\ GetHi16(x) \in 0 .. h - 1
               /\ x = GetLo16(x) + h * GetHi16(x)
    BY <1>5, HalfWords DEF h
  <1> DEFINE l00 == GetLo16(p00)
             k00 == GetHi16(p00)
             l01 == GetLo16(p01)
             k01 == GetHi16(p01)
             l10 == GetLo16(p10)
             k10 == GetHi16(p10)
             l11 == GetLo16(p11)
             k11 == GetHi16(p11)
  <1>6. /\ l00 \in 0 .. h - 1 /\ k00 \in 0 .. h - 1 /\ p00 = l00 + h * k00
        /\ l01 \in 0 .. h - 1 /\ k01 \in 0 .. h - 1 /\ p01 = l01 + h * k01
        /\ l10 \in 0 .. h - 1 /\ k10 \in 0 .. h - 1 /\ p10 = l10 + h * k10
        /\ l11 \in 0 .. h - 1 /\ k11 \in 0 .. h - 1 /\ p11 = l11 + h * k11
    BY <1>4, <1>5
  <1>7. t = <<l00, k00 + l01 + l10, k01 + k10 + l11, k11>>
    OBVIOUS
  <1> HIDE DEF l00, k00, l01, k01, l10, k10, l11, k11, t
  <1>8. \A i \in 1 .. 4 : t[i] \in 0 .. 3 * h - 3
    <2>1. /\ l00 \in 0 .. 3 * h - 3 /\ k00 + l01 + l10 \in 0 .. 3 * h - 3
          /\ k01 + k10 + l11 \in 0 .. 3 * h - 3 /\ k11 \in 0 .. 3 * h - 3
      BY <1>0, <1>6
    <2> QED
      BY <1>7, <2>1
  <1>9. Value(t) = a * b
    <2>1. Value(t) = l00 + h * ((k00 + l01 + l10) + h * ((k01 + k10 + l11) + h * k11))
      BY <1>7 DEF Value, Number, h
    <2>2. @ = (l00 + h * k00) + h * ((l01 + h * k01) + (l10 + h * k10))
              + h * h * (l11 + h * k11)
      BY <1>0, <1>6
    <2>3. @ = p00 + h * (p01 + p10) + h * h * p11
      BY <1>6
    <2>4. a * b = a0 * b0 + h * (a0 * b1 + a1 * b0) + h * h * (a1 * b1)
      BY <1>0, <1>2
    <2>5. p00 = a0 * b0 /\ p01 = a0 * b1 /\ p10 = a1 * b0 /\ p11 = a1 * b1
      BY DEF p00, p01, p10, p11
    <2> QED
      BY <2>1, <2>2, <2>3, <2>4, <2>5
  <1>10. a * b < WordSize * WordSize
    <2>1. a * b <= WordSize * b
      BY <1>0
    <2>2. WordSize * b < WordSize * WordSize
      BY <1>0
    <2> QED
      BY <1>0, <2>1, <2>2
  <1> QED
    BY <1>1, <1>8, <1>9, <1>10, CarriedValue DEF h

(* The complement of the digits and one.                                   *)
LEMMA NegatedValue ==
  ASSUME NEW d, Four(d), Value(d) > 0
  PROVE  Four(Negated(d)) /\ Value(Negated(d)) = WordSize * WordSize - Value(d)
  <1> DEFINE h == HwordSize
             t == [i \in 1 .. 4 |-> GetLo16(-1 - d[i]) + (IF i = 1 THEN 1 ELSE 0)]
  <1>0. h \in Nat /\ h >= 4 /\ WordSize = h * h /\ WordSize \in Nat
    BY HwordFacts
  <1>1. Negated(d) = Carried(t)
    BY DEF Negated
  <1>2. ASSUME NEW x \in 0 .. h - 1 PROVE GetLo16(-1 - x) = h - 1 - x
    <2>1. -1 - x = h * (-1) + (h - 1 - x) /\ -1 - x \in Int /\ h - 1 - x \in Int
      BY <1>0
    <2>2. 0 <= h - 1 - x /\ h - 1 - x < h
      BY <1>0
    <2> HIDE DEF h
    <2>3. (-1 - x) % h = h - 1 - x
      BY <1>0, <2>1, <2>2, DivIs
    <2> QED
      BY <2>3 DEF GetLo16, h
  <1>3. /\ d[1] \in 0 .. h - 1 /\ d[2] \in 0 .. h - 1
        /\ d[3] \in 0 .. h - 1 /\ d[4] \in 0 .. h - 1
    BY DEF Four, Digit
  <1>4. t[1] = h - d[1] /\ t[2] = h - 1 - d[2] /\ t[3] = h - 1 - d[3] /\ t[4] = h - 1 - d[4]
    <2>1. /\ GetLo16(-1 - d[1]) = h - 1 - d[1] /\ GetLo16(-1 - d[2]) = h - 1 - d[2]
          /\ GetLo16(-1 - d[3]) = h - 1 - d[3] /\ GetLo16(-1 - d[4]) = h - 1 - d[4]
      BY <1>2, <1>3
    <2>2. /\ t[1] = GetLo16(-1 - d[1]) + 1 /\ t[2] = GetLo16(-1 - d[2]) + 0
          /\ t[3] = GetLo16(-1 - d[3]) + 0 /\ t[4] = GetLo16(-1 - d[4]) + 0
      OBVIOUS
    <2> HIDE DEF t, h
    <2> QED
      BY <1>0, <1>3, <2>1, <2>2
  <1> HIDE DEF t, h
  <1>5. \A i \in 1 .. 4 : t[i] \in 0 .. 3 * h - 3
    <2>1. /\ t[1] \in 0 .. 3 * h - 3 /\ t[2] \in 0 .. 3 * h - 3
          /\ t[3] \in 0 .. 3 * h - 3 /\ t[4] \in 0 .. 3 * h - 3
      BY <1>0, <1>3, <1>4
    <2>2. \A i \in 1 .. 4 : i = 1 \/ i = 2 \/ i = 3 \/ i = 4
      OBVIOUS
    <2> QED
      BY <2>1, <2>2
  <1>6. Value(t) = WordSize * WordSize - Value(d)
    <2> DEFINE d1 == d[1]
               d2 == d[2]
               d3 == d[3]
               d4 == d[4]
    <2>1. d1 \in Int /\ d2 \in Int /\ d3 \in Int /\ d4 \in Int
      BY <1>3
    <2>2. Value(t) = (h - d1) + h * ((h - 1 - d2) + h * ((h - 1 - d3) + h * (h - 1 - d4)))
      BY <1>4 DEF Value, Number, h
    <2>3. Value(d) = d1 + h * (d2 + h * (d3 + h * d4))
      BY DEF Value, Number, h
    <2> HIDE DEF d1, d2, d3, d4
    <2>4. (h - d1) + h * ((h - 1 - d2) + h * ((h - 1 - d3) + h * (h - 1 - d4)))
            = h * h * (h * h) - (d1 + h * (d2 + h * (d3 + h * d4)))
      BY <1>0, <2>1
    <2> QED
      BY <1>0, <2>2, <2>3, <2>4
  <1>7. Value(d) \in Nat
    BY FourValue
  <1>8. Value(t) < WordSize * WordSize
    BY <1>0, <1>6, <1>7
  <1> QED
    BY <1>1, <1>5, <1>6, <1>8, CarriedValue DEF h

(* Cutting and reading back.                                               *)
LEMMA TruncateIs ==
  /\ \A x \in 0 .. WordSize - 1 : /\ Truncate(x) = IF x > MaxInt THEN x - WordSize ELSE x
                                  /\ Unsigned(Truncate(x)) = x
  /\ \A x \in Word : Truncate(x) = x
  <1> DEFINE w == WordSize
             m == WordSize \div 2
  <1>0. w \in Nat /\ w > 0 /\ m \in Int /\ w = 2 * m /\ MaxInt = m - 1 /\ MinInt = -m
    BY WordHalves, ByteFacts DEF MinInt, MaxInt
  <1>1. \A x : Truncate(x) = IF x % w >= m THEN (x % w) - w ELSE x % w
    BY DEF Truncate, Signed
  <1>2. \A x : Unsigned(x) = x % w
    BY DEF Unsigned, Lower
  <1> HIDE DEF w, m
  <1>3. ASSUME NEW x \in 0 .. w - 1
        PROVE  /\ Truncate(x) = IF x > MaxInt THEN x - w ELSE x
               /\ Unsigned(Truncate(x)) = x
    <2>1. x % w = x
      <3>1. x = w * 0 + x
        BY <1>0
      <3> QED
        BY <1>0, <3>1, DivIs
    <2>2. (x - w) % w = x
      <3>1. x - w = w * (-1) + x
        BY <1>0
      <3> QED
        BY <1>0, <3>1, DivIs
    <2> QED
      BY <1>0, <1>1, <1>2, <2>1, <2>2
  <1>4. ASSUME NEW x \in Word PROVE Truncate(x) = x
    <2>1. x \in Int /\ -m <= x /\ x <= m - 1
      BY <1>0, WordInt
    <2>2. CASE x >= 0
      <3>1. x \in 0 .. w - 1
        BY <1>0, <2>1, <2>2
      <3> QED
        BY <1>0, <1>3, <2>1, <3>1
    <2>3. CASE x < 0
      <3>1. x % w = x + w
        <4>1. x = w * (-1) + (x + w)
          BY <1>0, <2>1
        <4> QED
          BY <1>0, <2>1, <2>3, <4>1, DivIs
      <3> QED
        BY <1>0, <1>1, <2>1, <2>3, <3>1
    <2> QED
      BY <2>1, <2>2, <2>3
  <1> QED
    BY <1>3, <1>4 DEF w

(* The two words that four digits make.                                    *)
Packed(t) == Pair(Truncate(t[1] + HwordSize * t[2]), Truncate(t[3] + HwordSize * t[4]))
Whole(p)  == Unsigned(p.lo) + WordSize * p.hi

LEMMA PackedWhole ==
  ASSUME NEW t, Four(t)
  PROVE  /\ Packed(t).lo \in Word /\ Packed(t).hi \in Word
         /\ Unsigned(Packed(t).lo) \in 0 .. WordSize - 1
         /\ Packed(t).lo = Truncate(Unsigned(Packed(t).lo))
         /\ Value(t) <= MaxInt * MaxInt => Whole(Packed(t)) = Value(t)
         /\ WordSize * WordSize - Value(t) <= MaxInt * MaxInt
              => Whole(Packed(t)) = Value(t) - WordSize * WordSize
  <1> DEFINE lo == t[1] + HwordSize * t[2]
             hi == t[3] + HwordSize * t[4]
             n  == Value(t)
             w  == WordSize
             m  == WordSize \div 2
  <1>0. w \in Nat /\ m \in Nat /\ w = 2 * m /\ MaxInt = m - 1
    BY WordHalves, ByteFacts DEF MinInt, MaxInt
  <1>1. lo \in 0 .. w - 1 /\ hi \in 0 .. w - 1 /\ n \in Nat /\ n = lo + w * hi
    BY FourValue
  <1>2. Packed(t).lo = Truncate(lo) /\ Packed(t).hi = Truncate(hi)
    BY DEF Packed, Pair
  <1> HIDE DEF lo, hi, n
  <1>3. lo \in Int /\ hi \in Int
    BY <1>1
  <1>4. Packed(t).lo \in Word /\ Packed(t).hi \in Word
    BY <1>2, <1>3, TruncateWord
  <1>5. Unsigned(Packed(t).lo) = lo
    BY <1>1, <1>2, TruncateIs
  <1>6. Packed(t).hi = IF hi > MaxInt THEN hi - w ELSE hi
    BY <1>1, <1>2, TruncateIs
  <1>7. Whole(Packed(t)) = lo + w * Packed(t).hi
    BY <1>5 DEF Whole
  <1> HIDE DEF w, m
  <1>8. ASSUME n <= MaxInt * MaxInt PROVE hi <= MaxInt
    <2> SUFFICES ASSUME hi >= m PROVE FALSE
      BY <1>0, <1>1
    <2>1. w * hi >= w * m
      BY <1>0, <1>1
    <2>2. w * m = 2 * (m * m)
      BY <1>0
    <2>3. (m - 1) * (m - 1) = m * m - 2 * m + 1
      BY <1>0
    <2>4. m * m >= 0 /\ m >= 1
      BY <1>0, <1>1
    <2> QED
      BY <1>0, <1>1, <1>8, <2>1, <2>2, <2>3, <2>4
  <1>9. ASSUME w * w - n <= MaxInt * MaxInt PROVE hi > MaxInt
    <2> SUFFICES ASSUME hi <= m - 1 PROVE FALSE
      BY <1>0, <1>1
    <2>1. w * hi <= w * (m - 1)
      BY <1>0, <1>1
    <2>2. w * (m - 1) = 2 * (m * m) - 2 * m /\ w * w = 4 * (m * m)
      BY <1>0
    <2>3. (m - 1) * (m - 1) = m * m - 2 * m + 1
      BY <1>0
    <2>4. m * m >= 0 /\ m >= 1
      BY <1>0, <1>1
    <2> QED
      BY <1>0, <1>1, <1>9, <2>1, <2>2, <2>3, <2>4
  <1>10. n <= MaxInt * MaxInt => Whole(Packed(t)) = n
    <2> SUFFICES ASSUME n <= MaxInt * MaxInt PROVE Whole(Packed(t)) = n
      OBVIOUS
    <2>1. Packed(t).hi = hi
      BY <1>0, <1>1, <1>6, <1>8
    <2>2. Whole(Packed(t)) = lo + w * hi
      BY <1>7, <2>1
    <2> QED
      BY <1>1, <2>2
  <1>11. w * w - n <= MaxInt * MaxInt => Whole(Packed(t)) = n - w * w
    <2>1. w * (hi - w) = w * hi - w * w
      BY <1>0, <1>1
    <2> QED
      BY <1>0, <1>1, <1>6, <1>7, <1>9, <2>1
  <1> QED
    BY <1>1, <1>2, <1>4, <1>5, <1>10, <1>11 DEF n, w

(* The product of two words that have an absolute value.                   *)
SignedDigits(a, b) ==
  IF (a < 0) = (b < 0) THEN Digits(Abs(a), Abs(b)) ELSE Negated(Digits(Abs(a), Abs(b)))

LEMMA ProductOfSigned ==
  ASSUME NEW a \in Int, NEW b \in Int, a # 0, b # 0,
         MinInt < a, a <= MaxInt, MinInt < b, b <= MaxInt
  PROVE  Four(SignedDigits(a, b)) /\ Whole(Packed(SignedDigits(a, b))) = a * b
  <1> DEFINE x == Abs(a)
             y == Abs(b)
             d == Digits(x, y)
  <1>0. MaxInt \in Nat /\ MaxInt < WordSize /\ MinInt = -MaxInt - 1
    BY WordBounds, ByteFacts
  <1>1. x \in Nat /\ y \in Nat /\ 1 <= x /\ x <= MaxInt /\ 1 <= y /\ y <= MaxInt
    BY <1>0 DEF Abs
  <1>2. /\ (a < 0) = (b < 0) => a * b = x * y
        /\ (a < 0) # (b < 0) => a * b = -(x * y)
    BY DEF Abs
  <1> HIDE DEF x, y
  <1>3. x * y \in Nat /\ 1 <= x * y /\ x * y <= MaxInt * MaxInt
    <2>1. (x - 1) * (y - 1) >= 0 /\ (x - 1) * (y - 1) = x * y - x - y + 1
      BY <1>1
    <2>2. x * y <= MaxInt * y
      BY <1>0, <1>1
    <2>3. MaxInt * y <= MaxInt * MaxInt
      BY <1>0, <1>1
    <2> QED
      BY <1>0, <1>1, <2>1, <2>2, <2>3
  <1>4. Four(d) /\ Value(d) = x * y
    <2>1. x \in Nat /\ x < WordSize /\ y \in Nat /\ y < WordSize
      BY <1>0, <1>1, ByteFacts
    <2> QED
      BY <2>1, DigitsValue
  <1> DEFINE c == Negated(d)
  <1>5. SignedDigits(a, b) = IF (a < 0) = (b < 0) THEN d ELSE c
    BY DEF SignedDigits, x, y
  <1> HIDE DEF d
  <1>6. Four(c) /\ Value(c) = WordSize * WordSize - x * y
    BY <1>3, <1>4, NegatedValue
  <1> HIDE DEF c
  <1> DEFINE ww == WordSize * WordSize
             k == x * y
             mm == MaxInt * MaxInt
  <1>7. ww \in Nat /\ k \in Nat /\ k <= mm /\ mm \in Nat
    BY <1>0, <1>3, ByteFacts
  <1>8. Value(c) = ww - k /\ Value(d) = k
    BY <1>4, <1>6
  <1>9. Value(d) <= mm => Whole(Packed(d)) = Value(d)
    BY <1>4, PackedWhole
  <1>10. ww - Value(c) <= mm => Whole(Packed(c)) = Value(c) - ww
    BY <1>6, PackedWhole
  <1> HIDE DEF ww, mm, k
  <1>11. Whole(Packed(d)) = k /\ Whole(Packed(c)) = -k
    BY <1>7, <1>8, <1>9, <1>10
  <1> QED
    BY <1>2, <1>4, <1>5, <1>6, <1>11 DEF k

(* The smallest word by a positive one: what is added to the product of    *)
(* its neighbour leaves the low word without a sign to overflow.           *)
LEMMA ProductOfMinInt ==
  ASSUME NEW x \in Int, 1 <= x, x <= MaxInt, NEW p, p.lo \in Word, p.hi \in Word,
         Unsigned(p.lo) \in 0 .. WordSize - 1, p.lo = Truncate(Unsigned(p.lo)),
         Whole(p) = -(MaxInt * x)
  PROVE  Whole(Add64x64(p, -x, 0)) = MinInt * x
  <1> DEFINE w == WordSize
             m == WordSize \div 2
             u == Unsigned(p.lo)
             hi == p.hi
  <1>0. w \in Nat /\ m \in Nat /\ w = 2 * m /\ MaxInt = m - 1 /\ MinInt = -m /\ m >= 2
    BY WordHalves, HwordFacts DEF MinInt, MaxInt
  <1>1. u \in 0 .. w - 1 /\ hi \in Int /\ u + w * hi = -(MaxInt * x)
    BY WordInt DEF Whole
  <1>2. p.lo = IF u > MaxInt THEN u - w ELSE u
    BY <1>1, TruncateIs
  <1> HIDE DEF w, m, u, hi
  <1>3. PICK k \in Int : x = 2 * k \/ x = 2 * k + 1
    <2>1. x = 2 * (x \div 2) + (x % 2) /\ x % 2 \in 0 .. 1 /\ x \div 2 \in Int
      OBVIOUS
    <2> QED
      BY <2>1
  <1>4. u + w * hi = x - m * x
    <2>1. (m - 1) * x = m * x - x
      BY <1>0
    <2> QED
      BY <1>0, <1>1, <2>1
  <1> DEFINE s == p.lo - x
             low == Add32x32(p.lo, -x)
  <1>5. ASSUME low = Pair(s, 0), s \in Int, NEW v, v = Unsigned(s), v + w * hi = -(m * x)
        PROVE  Whole(Add64x64(p, -x, 0)) = MinInt * x
    <2>1. Truncate(hi + 0 + 0) = hi
      <3>1. hi + 0 + 0 = hi
        BY <1>1
      <3>2. hi \in Word
        BY DEF hi
      <3> QED
        BY <3>1, <3>2, TruncateIs
    <2>2. Add64x64(p, -x, 0) = Pair(s, hi)
      BY <1>5, <2>1 DEF Add64x64, Pair, hi
    <2>3. MinInt * x = -(m * x)
      BY <1>0
    <2> QED
      BY <1>5, <2>2, <2>3 DEF Whole, Pair, w
  <1>6. CASE x = 2 * k
    <2>1. u - x = w * (-k - hi)
      <3>1. m * x = w * k
        BY <1>0, <1>6
      <3>2. w * (-k - hi) = -(w * k) - w * hi
        BY <1>0, <1>1
      <3> QED
        BY <1>0, <1>1, <1>4, <3>1, <3>2
    <2>2. -k - hi = 0
      <3> DEFINE j == -k - hi
      <3>1. j \in Int /\ w * j = u - x /\ u - x < w /\ -w < u - x
        BY <1>0, <1>1, <2>1
      <3> HIDE DEF j
      <3>2. j < 1
        <4> SUFFICES ASSUME j >= 1 PROVE FALSE
          BY <3>1
        <4>1. w * (j - 1) >= 0 /\ w * (j - 1) = w * j - w
          BY <1>0, <3>1
        <4> QED
          BY <1>0, <1>1, <3>1, <4>1
      <3>3. j > -1
        <4> SUFFICES ASSUME j <= -1 PROVE FALSE
          BY <3>1
        <4>1. w * (-1 - j) >= 0 /\ w * (-1 - j) = -w - w * j
          BY <1>0, <3>1
        <4> QED
          BY <1>0, <1>1, <3>1, <4>1
      <3>4. j = 0
        BY <3>1, <3>2, <3>3
      <3> QED
        BY <3>4 DEF j
    <2>3. u = x /\ hi = -k
      <3>1. w * (-k - hi) = 0
        BY <1>0, <2>2
      <3> QED
        BY <1>1, <2>1, <2>2, <3>1
    <2>4. p.lo = x
      BY <1>0, <1>2, <2>3
    <2>5. s = 0 /\ low = Pair(0, 0)
      BY <1>0, <2>4, WordBounds DEF Add32x32, Overflow, Wrap
    <2>6. Unsigned(0) = 0
      BY <1>0, WordBounds DEF Unsigned, Lower
    <2>7. 0 + w * hi = -(m * x)
      BY <1>0, <1>6, <2>3
    <2> QED
      BY <1>5, <2>5, <2>6, <2>7
  <1>7. CASE x = 2 * k + 1
    <2>1. u - (x - m + w) = w * (-k - hi - 1)
      <3>1. m * x = w * k + m
        BY <1>0, <1>7
      <3>2. w * (-k - hi - 1) = -(w * k) - w * hi - w
        BY <1>0, <1>1
      <3> QED
        BY <1>0, <1>1, <1>4, <3>1, <3>2
    <2>2. -k - hi - 1 = 0
      <3> DEFINE j == -k - hi - 1
                 e == u - (x - m + w)
      <3>1. j \in Int /\ w * j = e /\ e < w /\ -w < e /\ e \in Int
        BY <1>0, <1>1, <2>1
      <3> HIDE DEF j, e
      <3>2. j < 1
        <4> SUFFICES ASSUME j >= 1 PROVE FALSE
          BY <3>1
        <4>1. w * (j - 1) >= 0 /\ w * (j - 1) = w * j - w
          BY <1>0, <3>1
        <4> QED
          BY <1>0, <3>1, <4>1
      <3>3. j > -1
        <4> SUFFICES ASSUME j <= -1 PROVE FALSE
          BY <3>1
        <4>1. w * (-1 - j) >= 0 /\ w * (-1 - j) = -w - w * j
          BY <1>0, <3>1
        <4> QED
          BY <1>0, <3>1, <4>1
      <3>4. j = 0
        BY <3>1, <3>2, <3>3
      <3> QED
        BY <3>4 DEF j
    <2>3. u = x - m + w /\ hi = -k - 1
      <3>1. w * (-k - hi - 1) = 0
        BY <1>0, <2>2
      <3> QED
        BY <1>0, <1>1, <2>1, <2>2, <3>1
    <2>4. p.lo = x - m
      BY <1>0, <1>2, <2>3
    <2>5. s = -m /\ low = Pair(-m, 0)
      BY <1>0, <2>4, WordBounds DEF Add32x32, Overflow, Wrap
    <2>6. Unsigned(-m) = m
      <3>1. -m = w * (-1) + m
        BY <1>0
      <3>2. (-m) % w = m
        BY <1>0, <3>1, DivIs
      <3> QED
        BY <3>2 DEF Unsigned, Lower, w
    <2>7. m + w * hi = -(m * x)
      BY <1>0, <1>7, <2>3
    <2> QED
      BY <1>0, <1>5, <2>5, <2>6, <2>7
  <1> QED
    BY <1>3, <1>6, <1>7

(* The product of the two words, but for the smallest one by another one   *)
(* below zero.                                                             *)
THEOREM MulExact ==
  \A a, b \in Word :
    ~(a = MinInt /\ b \in MinInt + 1 .. -1) /\ ~(b = MinInt /\ a \in MinInt + 1 .. -1)
      => Whole(Mul32x32(a, b)) = a * b
  <1> SUFFICES ASSUME NEW a \in Word, NEW b \in Word,
                      ~(a = MinInt /\ b \in MinInt + 1 .. -1),
                      ~(b = MinInt /\ a \in MinInt + 1 .. -1)
               PROVE  Whole(Mul32x32(a, b)) = a * b
    OBVIOUS
  <1> DEFINE n == MinInt + 1
  <1>0. /\ a \in Int /\ MinInt <= a /\ a <= MaxInt
        /\ b \in Int /\ MinInt <= b /\ b <= MaxInt
        /\ MinInt \in Int /\ MaxInt \in Int /\ MaxInt >= 1 /\ MinInt = -MaxInt - 1
    BY WordInt, WordBounds, ByteFacts
  <1>1. CASE a = 0 \/ b = 0
    <2>1. Mul32x32(a, b) = Pair(0, 0)
      BY <1>1 DEF Mul32x32
    <2>2. Unsigned(0) = 0
      BY ByteFacts DEF Unsigned, Lower
    <2>3. Whole(Pair(0, 0)) = 0
      BY <2>2, ByteFacts DEF Whole, Pair
    <2>4. a * b = 0
      BY <1>0, <1>1
    <2> QED
      BY <2>1, <2>3, <2>4
  <1>2. CASE a = MinInt /\ b = MinInt
    <2>1. Mul32x32(a, b) = Pair(0, WordSize \div 4)
      BY <1>0, <1>2 DEF Mul32x32
    <2>2. PICK j \in Nat : HwordSize = 2 * j
      BY ByteFacts
    <2>3. WordSize = 4 * (j * j) /\ j * j \in Int
      BY <2>2, HwordFacts
    <2> DEFINE q == j * j
    <2>4. WordSize \div 4 = q /\ MinInt = -(2 * q)
      <3> HIDE DEF q
      <3> QED
        BY <2>3, WordBounds DEF q
    <2>5. Unsigned(0) = 0
      BY ByteFacts DEF Unsigned, Lower
    <2>6. Whole(Pair(0, q)) = WordSize * q
      BY <2>3, <2>5, ByteFacts DEF Whole, Pair
    <2>7. WordSize * q = MinInt * MinInt
      BY <2>3, <2>4
    <2> QED
      BY <1>2, <2>1, <2>4, <2>6, <2>7
  <1>3. CASE a # 0 /\ b # 0 /\ a # MinInt /\ b # MinInt
    <2>1. Mul32x32(a, b) = Packed(SignedDigits(a, b))
      BY <1>3 DEF Mul32x32, Packed, SignedDigits
    <2> QED
      BY <1>0, <1>3, <2>1, ProductOfSigned
  <1>4. CASE a = MinInt /\ b # 0 /\ b # MinInt
    <2> DEFINE p == Packed(SignedDigits(n, b))
    <2>1. 1 <= b
      BY <1>0, <1>4
    <2>2. Mul32x32(a, b) = Add64x64(p, -b, 0)
      BY <1>0, <1>4, <2>1 DEF Mul32x32, Packed, SignedDigits
    <2>3. Four(SignedDigits(n, b)) /\ Whole(p) = n * b
      BY <1>0, <1>4, <2>1, ProductOfSigned
    <2>4. n * b = -(MaxInt * b)
      BY <1>0
    <2>5. /\ p.lo \in Word /\ p.hi \in Word /\ Unsigned(p.lo) \in 0 .. WordSize - 1
          /\ p.lo = Truncate(Unsigned(p.lo))
      BY <2>3, PackedWhole
    <2> HIDE DEF p, n
    <2>6. Whole(Add64x64(p, -b, 0)) = MinInt * b
      BY <1>0, <2>1, <2>3, <2>4, <2>5, ProductOfMinInt
    <2> QED
      BY <1>4, <2>2, <2>6
  <1>5. CASE b = MinInt /\ a # 0 /\ a # MinInt
    <2> DEFINE p == Packed(SignedDigits(a, n))
    <2>1. 1 <= a
      BY <1>0, <1>5
    <2>2. Mul32x32(a, b) = Add64x64(p, -a, 0)
      BY <1>0, <1>5, <2>1 DEF Mul32x32, Packed, SignedDigits
    <2>3. Four(SignedDigits(a, n)) /\ Whole(p) = a * n
      BY <1>0, <1>5, <2>1, ProductOfSigned
    <2>4. a * n = -(MaxInt * a)
      BY <1>0
    <2>5. /\ p.lo \in Word /\ p.hi \in Word /\ Unsigned(p.lo) \in 0 .. WordSize - 1
          /\ p.lo = Truncate(Unsigned(p.lo))
      BY <2>3, PackedWhole
    <2> HIDE DEF p, n
    <2>6. Whole(Add64x64(p, -a, 0)) = MinInt * a
      BY <1>0, <2>1, <2>3, <2>4, <2>5, ProductOfMinInt
    <2>7. MinInt * a = a * MinInt
      BY <1>0
    <2> QED
      BY <1>5, <2>2, <2>6, <2>7
  <1> QED
    BY <1>1, <1>2, <1>3, <1>4, <1>5
-----------------------------------------------------------------------------
(* The pair of registers an instruction returns.                           *)

Exact ==
  Done => /\ Op = "ADDO" => PairSum = Left + Right
          /\ Op = "SUBO" => PairSum = Left - Right
          /\ Op = "MULO" /\ ~Awkward => PairProduct = Left * Right

LEMMA PairThere ==
  ASSUME NEW g \in Files, NEW r, r # ZeroReg, r % 2 = 0, DesValid(r), DesValid(r + 1),
         NEW p, NEW m, Complete(SetDesReg(SetDesReg(g, r, p.lo), r + 1, p.hi), "OK", m)
  PROVE  reg'[r] = p.lo /\ reg'[r + 1] = p.hi
  <1>1. r \in RegNum /\ r + 1 \in RegNum
    BY SourceRegister
  <1>2. r \in Nat /\ r + 1 # ZeroReg /\ r + 1 # r
    BY <1>1, RegsAssumption DEF RegNum, UserReg, CycleReg, SupReg, ExcReg, ZeroReg
  <1>3. reg' = [[[g EXCEPT ![r] = p.lo] EXCEPT ![r + 1] = p.hi] EXCEPT ![ZeroReg] = 0]
    BY <1>2 DEF Complete, SetDesReg
  <1> QED
    BY <1>1, <1>2, <1>3 DEF Files

LEMMA PairExact ==
  ASSUME RegsTypeOK, NEW src, Denials(Op, Des, src) = {}, Left \in Word, Right \in Word,
         GivePair(Des, WideResult(Op, Left, Right))
  PROVE  Exact
  <1> SUFFICES ASSUME Des # ZeroReg PROVE Exact
    BY DEF Exact, Done
  <1> DEFINE p == WideResult(Op, Left, Right)
  <1>1. Des % 2 = 0 /\ DesValid(Des) /\ DesValid(Des + 1) /\ Op \in Wide
    BY DEF Denials, Permitted
  <1>2. Complete(SetDesReg(SetDesReg(Ticked, Des, p.lo), Des + 1, p.hi), "OK", Onward)
    BY DEF GivePair, Leave, Goto
  <1> HIDE DEF p
  <1>3. reg'[Des] = p.lo /\ reg'[Des + 1] = p.hi
    BY <1>1, <1>2, TickedFile, PairThere
  <1>4. CASE Op = "ADDO"
    <2>1. p = Add32x32(Left, Right)
      BY <1>4 DEF p, WideResult
    <2>2. p.lo + WordSize * p.hi = Left + Right
      BY <2>1, AddExact
    <2>3. PairSum = p.lo + WordSize * p.hi
      BY <1>3 DEF PairSum
    <2> QED
      BY <1>4, <2>2, <2>3 DEF Exact
  <1>5. CASE Op = "SUBO"
    <2>1. p = Sub32x32(Left, Right)
      BY <1>5 DEF p, WideResult
    <2>2. p.lo + WordSize * p.hi = Left - Right
      BY <2>1, SubExact
    <2>3. PairSum = p.lo + WordSize * p.hi
      BY <1>3 DEF PairSum
    <2> QED
      BY <1>5, <2>2, <2>3 DEF Exact
  <1>6. CASE Op = "MULO"
    <2>1. p = Mul32x32(Left, Right)
      BY <1>6 DEF p, WideResult
    <2>2. ~Awkward => Whole(p) = Left * Right
      BY <2>1, MulExact DEF Awkward
    <2>3. PairProduct = Whole(p)
      BY <1>3 DEF PairProduct, Whole
    <2> QED
      BY <1>6, <2>2, <2>3 DEF Exact
  <1> QED
    BY <1>1, <1>4, <1>5, <1>6 DEF Wide

LEMMA WideOps == Next /\ Op \in Wide => AntAritho \/ AntArithio
  <1>1. FetchFault => Op \notin Wide
    BY DEF FetchFault, NoInst, Run, Op, Wide
  <1>2. AntArith => Op \notin Wide
    BY DEF AntArith, IssueR, Fetched, Arith, Unknown, Run, Op, Wide
  <1>3. AntArithI => Op \notin Wide
    BY DEF AntArithI, Issue, Fetched, ArithI, Unknown, Run, Op, Wide
  <1>4. AntCompare => Op \notin Wide
    BY DEF AntCompare, IssueR, Fetched, Compare, Unknown, Run, Op, Wide
  <1>5. AntLc => Op \notin Wide
    BY DEF AntLc, Issue, Fetched, Unknown, Run, Op, Wide
  <1>6. AntInput => Op \notin Wide
    BY DEF AntInput, IssueR, Fetched, Run, Op, Wide
  <1>7. AntCout => Op \notin Wide
    BY DEF AntCout, IssueR, Fetched, Run, Op, Wide
  <1>8. AntTrap => Op \notin Wide
    BY DEF AntTrap, IssueR, Fetched, Unknown, Run, Op, Wide
  <1>9. AntSrand => Op \notin Wide
    BY DEF AntSrand, IssueR, Fetched, Unknown, Run, Op, Wide
  <1>10. AntBranch => Op \notin Wide
    BY BranchOps DEF ByRegister, ByConst, Wide
  <1>11. AntLoadStore => Op \notin Wide
    BY DEF AntLoadStore, Issue, Fetched, Unknown, Run, Op, Wide
  <1>12. AntSysOps => Op \notin Wide
    BY DEF AntSysOps, IssueR, Fetched, Unknown, Run, Op, Wide
  <1> QED
    BY <1>1, <1>2, <1>3, <1>4, <1>5, <1>6, <1>7, <1>8, <1>9, <1>10, <1>11, <1>12 DEF Next, ExecInst

LEMMA NextExact == RegsTypeOK /\ Next => Exact
  <1> SUFFICES ASSUME RegsTypeOK, Next, Op \in Wide, rc' = "OK" PROVE Exact
    BY DEF Exact, Wide, Done
  <1>0. ASSUME NEW op, NEW des, NEW src, NEW exc \in Denials(op, des, src), Raise(Ticked, exc)
        PROVE  FALSE
    BY <1>0, DenialsKnown, RaiseProper
  <1>1. CASE AntAritho
    <2>1. PICK op \in Wide \cup Unknown, f \in Fields :
            /\ IssueR(op, f)
            /\ Denials(op, f[1], {f[2], f[3]}) = {}
            /\ GivePair(f[1], WideResult(op, Ticked[f[2]], Ticked[f[3]]))
      BY <1>0, <1>1 DEF AntAritho
    <2>2. inst' = [op |-> op, f |-> f, const |-> FALSE, imm |-> 0]
      BY <2>1 DEF IssueR, Fetched, Run
    <2>3. Op = op /\ Des = f[1] /\ Left = Ticked[f[2]] /\ Right = Ticked[f[3]]
      BY <2>2 DEF Op, Des, Left, Right
    <2>4. Left \in Word /\ Right \in Word
      <3>1. Permitted({f[1], f[1] + 1}, {f[2], f[3]})
        BY <2>1, DenialsKnown
      <3> QED
        BY <2>3, <3>1, Operands
    <2> QED
      BY <2>1, <2>3, <2>4, PairExact
  <1>2. CASE AntArithio
    <2>1. PICK op \in Wide \cup Unknown, f \in Fields, imm \in Imm8 :
            /\ Issue(op, f, imm)
            /\ Denials(op, f[1], {f[2]}) = {}
            /\ GivePair(f[1], WideResult(op, Ticked[f[2]], imm))
      BY <1>0, <1>2 DEF AntArithio
    <2>2. inst' = [op |-> op, f |-> f, const |-> TRUE, imm |-> imm]
      BY <2>1 DEF Issue, Fetched, Run
    <2>3. Op = op /\ Des = f[1] /\ Left = Ticked[f[2]] /\ Right = imm
      BY <2>2 DEF Op, Des, Left, Right
    <2>4. Left \in Word /\ Right \in Word
      <3>1. Permitted({f[1], f[1] + 1}, {f[2]})
        BY <2>1, DenialsKnown
      <3> QED
        BY <2>3, <3>1, Operands, RegsAssumption
    <2> QED
      BY <2>1, <2>3, <2>4, PairExact
  <1> QED
    BY <1>1, <1>2, WideOps

(* ADDO, SUBO and MULO return the whole result in their pair of registers. *)
THEOREM PairsExact == Spec => WideExact
  <1>1. RegsTypeOK /\ [Next]_vars => [Exact]_vars
    BY NextExact
  <1>2. [][Exact]_vars => WideExact
    BY DEF WideExact, Exact
  <1> QED
    BY <1>1, <1>2, RegistersHoldWords, PTL DEF Spec
=============================================================================
