----------------------------- MODULE BusProofs ------------------------------
(***************************************************************************)
(* What the proofs about X86Exec need to know of bytes, words and the      *)
(* buses, for a byte of any size and any devices with room behind their    *)
(* registers: a word is its bytes; the spaces of two devices do not        *)
(* overlap, not even where an access runs over the end of the registers;   *)
(* and what each access changes.                                           *)
(***************************************************************************)
EXTENDS Bus, FiniteSets, FiniteSetTheorems, SequenceTheorems, TLAPS

-----------------------------------------------------------------------------
(* Natural numbers.                                                        *)

\* Induction, for a set of numbers: otherwise the numbers up to n that are not
\* in S would be mapped by m - 1, one to one, into a smaller set.
LEMMA SetInduction ==
  ASSUME NEW S \in SUBSET Nat, 0 \in S, \A n \in S : n + 1 \in S
  PROVE  S = Nat
<1> SUFFICES ASSUME NEW n \in Nat, n \notin S PROVE FALSE
  OBVIOUS
<1> DEFINE T == {m \in 0..n : m \notin S}
           U == T \ {n}
           f == [m \in T |-> m - 1]
<1>1. IsFiniteSet(0..n)
  BY FS_Interval
<1>2. IsFiniteSet(T) /\ n \in T
  BY <1>1, FS_Subset
<1>3. IsFiniteSet(U) /\ Cardinality(U) = Cardinality(T) - 1 /\ Cardinality(T) \in Nat
  BY <1>2, FS_RemoveElement, FS_CardinalityType
<1>4. ASSUME NEW m \in T PROVE m - 1 \in U
  <2>1. m \in 0..n /\ m \notin S
    OBVIOUS
  <2>2. m # 0 /\ m - 1 \in 0..n /\ (m - 1) + 1 = m /\ m - 1 # n
    BY <2>1
  <2>3. m - 1 \notin S
    BY <2>1, <2>2
  <2> QED
    BY <2>2, <2>3
<1>5. f \in [T -> U] /\ \A x, y \in T : f[x] = f[y] => x = y
  BY <1>4
<1>6. Cardinality(U) < Cardinality(T)
  BY <1>3
<1> HIDE DEF f, T, U
<1>7. \E x, y \in T : x # y /\ f[x] = f[y]
  BY <1>2, <1>3, <1>5, <1>6, FS_PigeonHole
<1> QED
  BY <1>5, <1>7

\* A set of numbers that is not empty has a least one.
LEMMA Least ==
  ASSUME NEW I \in SUBSET Nat, I # {}
  PROVE  \E m \in I : \A i \in I : m <= i
<1> SUFFICES ASSUME \A m \in I : \E i \in I : i < m PROVE FALSE
  OBVIOUS
<1> DEFINE S == {n \in Nat : \A m \in 0..n : m \notin I}
<1>1. 0 \in S
  OBVIOUS
<1>2. \A n \in S : n + 1 \in S
  <2> SUFFICES ASSUME NEW n \in S, NEW m \in 0..(n + 1), m \in I PROVE FALSE
    OBVIOUS
  <2>1. PICK i \in I : i < m
    OBVIOUS
  <2>2. i \in 0..n
    BY <2>1
  <2> QED
    BY <2>2
<1>3. S = Nat
  BY <1>1, <1>2, SetInduction
<1>4. PICK m \in I : m \in S
  BY <1>3
<1> QED
  BY <1>4

\* Division with remainder.
LEMMA DivMod ==
  ASSUME NEW b \in Nat \ {0}, NEW x \in Int
  PROVE  /\ x = b * (x \div b) + (x % b)
         /\ x \div b \in Int /\ x % b \in 0..(b - 1)
         /\ x \in Nat => x \div b \in Nat
OBVIOUS

\* Quotient and remainder by b are unique.
LEMMA DivUnique ==
  ASSUME NEW b \in Nat \ {0}, NEW q \in Int, NEW r \in 0..(b - 1)
  PROVE  (b * q + r) \div b = q /\ (b * q + r) % b = r
OBVIOUS

\* Dividing by b and then by c is dividing by their product.
LEMMA DivDiv ==
  ASSUME NEW b \in Nat \ {0}, NEW c \in Nat \ {0}, NEW x \in Int
  PROVE  (x \div b) \div c = x \div (b * c)
OBVIOUS

\* Sums modulo m.
LEMMA ModAdd ==
  ASSUME NEW m \in Nat \ {0}, NEW x \in Int, NEW y \in Int
  PROVE  ((x % m) + y) % m = (x + y) % m
<1> DEFINE q == x \div m  r == x % m
<1>1. x = m * q + r /\ q \in Int /\ r \in Int
  BY DivMod
<1> HIDE DEF q, r
<1> DEFINE z == r + y  p == z \div m  s == z % m
<1>2. z = m * p + s /\ p \in Int /\ s \in 0..(m - 1)
  <2>1. z \in Int
    BY <1>1
  <2> HIDE DEF z
  <2> QED
    BY <2>1, DivMod
<1> HIDE DEF p, s
<1>3. x + y = m * (q + p) + s /\ q + p \in Int
  BY <1>1, <1>2
<1>4. (x + y) % m = s
  BY <1>2, <1>3, DivUnique
<1> QED
  BY <1>4 DEF s, r

-----------------------------------------------------------------------------
(* Bytes and words.                                                        *)

Byte == 0..(BYTE - 1)

\* The word with these bytes, little end first.
Word(b0, b1, b2, b3) == b0 + b1 * BYTE + b2 * HALF + b3 * (HALF * BYTE)

\* The weights.
LEMMA RadixFacts ==
  /\ Radix(0) = 1 /\ Radix(1) = BYTE /\ Radix(2) = HALF /\ Radix(3) = HALF * BYTE
  /\ Radix(4) = WORD
  /\ BYTE \in Nat \ {0, 1} /\ HALF \in Nat \ {0} /\ HALF * BYTE \in Nat \ {0}
  /\ WORD \in Nat \ {0}
  /\ HALF = BYTE * BYTE /\ WORD = HALF * HALF /\ WORD = (HALF * BYTE) * BYTE
<1>1. Radix(0) = 1 /\ Radix(1) = BYTE /\ Radix(2) = HALF /\ Radix(3) = HALF * BYTE
  BY DEF Radix
<1>2. Radix(4) = WORD
  BY DEF Radix
<1>3. BYTE \in Nat \ {0, 1} /\ HALF = BYTE * BYTE /\ WORD = HALF * HALF
  BY RtlAssumption DEF HALF, WORD
<1>4. HALF \in Nat \ {0}
  BY <1>3
<1>5. HALF * BYTE \in Nat \ {0} /\ WORD \in Nat \ {0} /\ WORD = (HALF * BYTE) * BYTE
  BY <1>3, <1>4
<1> QED
  BY <1>1, <1>2, <1>3, <1>4, <1>5

\* Bytes by repeated division.
LEMMA ByteOfFacts ==
  ASSUME NEW x \in Int
  PROVE  /\ ByteOf(x, 0) = x % BYTE
         /\ ByteOf(x, 1) = (x \div BYTE) % BYTE
         /\ ByteOf(x, 2) = ((x \div BYTE) \div BYTE) % BYTE
         /\ ByteOf(x, 3) = (((x \div BYTE) \div BYTE) \div BYTE) % BYTE
<1>1. BYTE \in Nat \ {0} /\ HALF \in Nat \ {0}
  BY RadixFacts
<1>2. (x \div BYTE) \div BYTE = x \div (BYTE * BYTE)
  BY <1>1, DivDiv
<1>3. (x \div HALF) \div BYTE = x \div (HALF * BYTE)
  BY <1>1, DivDiv
<1>4. x \div 1 = x
  OBVIOUS
<1>5. (x \div BYTE) \div BYTE = x \div HALF
  BY <1>2, RadixFacts
<1>6. ((x \div BYTE) \div BYTE) \div BYTE = x \div (HALF * BYTE)
  BY <1>3, <1>5
<1> QED
  BY <1>4, <1>5, <1>6, RadixFacts DEF ByteOf

\* They are bytes.
LEMMA ByteType ==
  ASSUME NEW x \in Int, NEW k \in 0..3
  PROVE  ByteOf(x, k) \in Byte
<1>1. Radix(k) \in Nat \ {0} /\ BYTE \in Nat \ {0}
  <2>1. k = 0 \/ k = 1 \/ k = 2 \/ k = 3
    OBVIOUS
  <2> QED
    BY <2>1, RadixFacts
<1>2. x \div Radix(k) \in Int
  BY <1>1, DivMod
<1> QED
  BY <1>1, <1>2 DEF ByteOf, Byte

\* A word has the bytes it is made of.
LEMMA WordFacts ==
  ASSUME NEW b0 \in Byte, NEW b1 \in Byte, NEW b2 \in Byte, NEW b3 \in Byte
  PROVE  /\ Word(b0, b1, b2, b3) \in 0..(WORD - 1)
         /\ ByteOf(Word(b0, b1, b2, b3), 0) = b0 /\ ByteOf(Word(b0, b1, b2, b3), 1) = b1
         /\ ByteOf(Word(b0, b1, b2, b3), 2) = b2 /\ ByteOf(Word(b0, b1, b2, b3), 3) = b3
<1> DEFINE y2 == BYTE * b3 + b2  y1 == BYTE * y2 + b1  x == BYTE * y1 + b0
<1>1. BYTE \in Nat \ {0, 1} /\ b0 \in Nat /\ b1 \in Nat /\ b2 \in Nat /\ b3 \in Nat
  BY RadixFacts DEF Byte
<1>2. y2 \in Nat
  BY <1>1
<1>3. y1 \in Nat
  BY <1>1, <1>2
<1>4. x \in Nat
  BY <1>1, <1>3
<1>5. x = Word(b0, b1, b2, b3)
  BY <1>1, RadixFacts DEF Word
<1>6. x < WORD
  <2>1. y2 <= HALF - 1
    <3>1. BYTE * b3 <= BYTE * (BYTE - 1)
      BY <1>1 DEF Byte
    <3> QED
      BY <1>1, <3>1, RadixFacts DEF Byte
  <2> HIDE DEF y2
  <2>2. y1 <= BYTE * HALF - 1
    <3>1. BYTE * y2 <= BYTE * (HALF - 1)
      BY <1>1, <1>2, <2>1, RadixFacts
    <3> QED
      BY <1>1, <1>2, <3>1, RadixFacts DEF Byte
  <2> HIDE DEF y1
  <2>3. BYTE * y1 <= BYTE * (BYTE * HALF - 1)
    BY <1>1, <1>3, <2>2, RadixFacts
  <2> QED
    BY <1>1, <1>3, <2>3, RadixFacts DEF Byte
<1> HIDE DEF x, y1, y2
<1>7. x \div BYTE = y1 /\ x % BYTE = b0
  BY <1>1, <1>3, DivUnique DEF x, Byte
<1>8. y1 \div BYTE = y2 /\ y1 % BYTE = b1
  BY <1>1, <1>2, DivUnique DEF y1, Byte
<1>9. y2 \div BYTE = b3 /\ y2 % BYTE = b2
  BY <1>1, DivUnique DEF y2, Byte
<1>10. b3 % BYTE = b3
  BY <1>1 DEF Byte
<1>11. ByteOf(x, 0) = b0 /\ ByteOf(x, 1) = b1 /\ ByteOf(x, 2) = b2 /\ ByteOf(x, 3) = b3
  BY <1>4, <1>7, <1>8, <1>9, <1>10, ByteOfFacts
<1>12. x \in 0..(WORD - 1)
  BY <1>4, <1>6, RadixFacts
<1> QED
  BY <1>5, <1>11, <1>12

\* The bytes of an integer are those of the word it is modulo WORD.
LEMMA LowBytes ==
  ASSUME NEW x \in Int
  PROVE  /\ x % WORD = Word(ByteOf(x, 0), ByteOf(x, 1), ByteOf(x, 2), ByteOf(x, 3))
         /\ x % HALF = ByteOf(x, 0) + ByteOf(x, 1) * BYTE
         /\ x % BYTE = ByteOf(x, 0)
<1> DEFINE q1 == x \div BYTE  q2 == q1 \div BYTE  q3 == q2 \div BYTE  q4 == q3 \div BYTE
           b0 == x % BYTE  b1 == q1 % BYTE  b2 == q2 % BYTE  b3 == q3 % BYTE
<1>1. BYTE \in Nat \ {0} /\ BYTE \in Nat
  BY RadixFacts
<1>2. ByteOf(x, 0) = b0 /\ ByteOf(x, 1) = b1 /\ ByteOf(x, 2) = b2 /\ ByteOf(x, 3) = b3
  BY ByteOfFacts
<1>3. x = BYTE * q1 + b0 /\ q1 \in Int /\ b0 \in Byte
  BY <1>1, DivMod DEF Byte
<1> HIDE DEF q1, b0
<1>4. q1 = BYTE * q2 + b1 /\ q2 \in Int /\ b1 \in Byte
  BY <1>1, <1>3, DivMod DEF Byte
<1> HIDE DEF q2, b1
<1>5. q2 = BYTE * q3 + b2 /\ q3 \in Int /\ b2 \in Byte
  BY <1>1, <1>4, DivMod DEF Byte
<1> HIDE DEF q3, b2
<1>6. q3 = BYTE * q4 + b3 /\ q4 \in Int /\ b3 \in Byte
  BY <1>1, <1>5, DivMod DEF Byte
<1> HIDE DEF q4, b3
<1>7. b0 \in Int /\ b1 \in Int /\ b2 \in Int /\ b3 \in Int
  BY <1>3, <1>4, <1>5, <1>6 DEF Byte
<1> DEFINE w == Word(b0, b1, b2, b3)  h == b0 + b1 * BYTE
<1>8. x = HALF * q2 + h
  <2>1. BYTE * q1 = (BYTE * BYTE) * q2 + BYTE * b1
    BY <1>1, <1>4, <1>7
  <2>2. BYTE * q1 = HALF * q2 + b1 * BYTE
    <3>1. HALF = BYTE * BYTE /\ BYTE * b1 = b1 * BYTE
      BY <1>1, <1>7, RadixFacts
    <3> QED
      BY <2>1, <3>1
  <2>3. HALF * q2 \in Int /\ b1 * BYTE \in Int
    BY <1>1, <1>4, <1>7, RadixFacts
  <2> QED
    BY <1>3, <1>7, <2>2, <2>3
<1>9. h \in 0..(HALF - 1)
  <2>1. b1 * BYTE <= (BYTE - 1) * BYTE /\ b1 * BYTE \in Nat
    BY <1>1, <1>4, <1>7 DEF Byte
  <2> QED
    BY <1>1, <1>3, <2>1, RadixFacts DEF Byte
<1>10. x = WORD * q4 + w /\ w \in 0..(WORD - 1)
  <2>1. BYTE * q3 = HALF * q4 + BYTE * b3
    BY <1>1, <1>6, <1>7, RadixFacts
  <2>2. q2 = HALF * q4 + (BYTE * b3 + b2)
    BY <1>1, <1>5, <1>6, <1>7, <2>1, RadixFacts
  <2>3. HALF * q2 = WORD * q4 + ((HALF * BYTE) * b3 + HALF * b2)
    BY <1>1, <1>6, <1>7, <2>2, RadixFacts
  <2>4. x = WORD * q4 + w
    <3>1. w = b0 + b1 * BYTE + b2 * HALF + b3 * (HALF * BYTE)
      BY DEF Word
    <3>2. b3 * (HALF * BYTE) = (HALF * BYTE) * b3 /\ b2 * HALF = HALF * b2
      BY <1>7, RadixFacts
    <3> QED
      BY <1>1, <1>6, <1>7, <1>8, <2>3, <3>1, <3>2, RadixFacts
  <2> QED
    BY <1>3, <1>4, <1>5, <1>6, <2>4, WordFacts
<1> HIDE DEF w, h
<1>11. x % HALF = h
  BY <1>4, <1>8, <1>9, RadixFacts, DivUnique
<1>12. x % WORD = w
  BY <1>6, <1>10, RadixFacts, DivUnique
<1> QED
  BY <1>2, <1>11, <1>12 DEF w, h, b0

\* The numbers of bytes, halves and words, and the bytes they leave.
LEMMA ModBytes ==
  ASSUME NEW x \in Int
  PROVE  /\ x % WORD \in 0..(WORD - 1) /\ x % HALF \in 0..(WORD - 1) /\ x % BYTE \in 0..(WORD - 1)
         /\ \A k \in 0..3 : ByteOf(x % WORD, k) = ByteOf(x, k)
         /\ \A k \in 0..3 : ByteOf(x % HALF, k) = IF k < 2 THEN ByteOf(x, k) ELSE 0
         /\ \A k \in 0..3 : ByteOf(x % BYTE, k) = IF k < 1 THEN ByteOf(x, k) ELSE 0
<1> DEFINE b(k) == ByteOf(x, k)
<1>1. b(0) \in Byte /\ b(1) \in Byte /\ b(2) \in Byte /\ b(3) \in Byte /\ 0 \in Byte
  BY ByteType, RadixFacts DEF Byte
<1>2. x % WORD = Word(b(0), b(1), b(2), b(3))
  BY LowBytes
<1>3. x % HALF = Word(b(0), b(1), 0, 0) /\ x % BYTE = Word(b(0), 0, 0, 0)
  <2>1. x % HALF = b(0) + b(1) * BYTE /\ x % BYTE = b(0)
    BY LowBytes
  <2>2. b(0) \in Int /\ b(1) * BYTE \in Int
    BY <1>1, RadixFacts DEF Byte
  <2>3. 0 * BYTE = 0 /\ 0 * HALF = 0 /\ 0 * (HALF * BYTE) = 0
    BY RadixFacts
  <2> HIDE DEF b
  <2> QED
    BY <2>1, <2>2, <2>3 DEF Word
<1> HIDE DEF b
<1>4. \A k \in 0..3 : k = 0 \/ k = 1 \/ k = 2 \/ k = 3
  OBVIOUS
<1>5. x % WORD \in 0..(WORD - 1) /\ \A k \in 0..3 : ByteOf(x % WORD, k) = b(k)
  BY <1>1, <1>2, <1>4, WordFacts
<1>6. /\ x % HALF \in 0..(WORD - 1)
      /\ \A k \in 0..3 : ByteOf(x % HALF, k) = IF k < 2 THEN b(k) ELSE 0
  BY <1>1, <1>3, <1>4, WordFacts
<1>7. /\ x % BYTE \in 0..(WORD - 1)
      /\ \A k \in 0..3 : ByteOf(x % BYTE, k) = IF k < 1 THEN b(k) ELSE 0
  BY <1>1, <1>3, <1>4, WordFacts
<1> QED
  BY <1>5, <1>6, <1>7 DEF b

\* Small numbers are their own remainders.
LEMMA ModSmall ==
  ASSUME NEW m \in Nat \ {0}, NEW x \in 0..(m - 1)
  PROVE  x % m = x
OBVIOUS

\* Words with the same bytes are equal.
LEMMA SameWord ==
  ASSUME NEW x \in 0..(WORD - 1), NEW y \in 0..(WORD - 1),
         \A k \in 0..3 : ByteOf(x, k) = ByteOf(y, k)
  PROVE  x = y
<1>1. x \in Int /\ y \in Int
  BY RadixFacts
<1>2. x % WORD = x /\ y % WORD = y
  BY RadixFacts, ModSmall
<1>3. x % WORD = Word(ByteOf(x, 0), ByteOf(x, 1), ByteOf(x, 2), ByteOf(x, 3))
  BY <1>1, LowBytes
<1>4. y % WORD = Word(ByteOf(y, 0), ByteOf(y, 1), ByteOf(y, 2), ByteOf(y, 3))
  BY <1>1, LowBytes
<1>5. ByteOf(x, 0) = ByteOf(y, 0) /\ ByteOf(x, 1) = ByteOf(y, 1)
      /\ ByteOf(x, 2) = ByteOf(y, 2) /\ ByteOf(x, 3) = ByteOf(y, 3)
  OBVIOUS
<1> QED
  BY <1>2, <1>3, <1>4, <1>5

-----------------------------------------------------------------------------
(* Arrays of bytes.                                                        *)

\* What a load of len bytes returns, byte by byte.
LEMMA BytesFacts ==
  ASSUME NEW a, NEW at \in Int, NEW len \in {0, 1, 2, 4},
         \A k \in 0..3 : k < len => a[at + k] \in Byte
  PROVE  /\ Bytes(a, at, len) \in 0..(WORD - 1)
         /\ \A k \in 0..3 : ByteOf(Bytes(a, at, len), k) = IF k < len THEN a[at + k] ELSE 0
<1> DEFINE b(k) == IF k < len THEN a[at + k] ELSE 0
<1>1. b(0) \in Byte /\ b(1) \in Byte /\ b(2) \in Byte /\ b(3) \in Byte
  BY RadixFacts DEF Byte
<1>2. Bytes(a, at, len) = Word(b(0), b(1), b(2), b(3))
  <2>1. Bytes(a, at, len) = b(0) * Radix(0) + b(1) * Radix(1) + b(2) * Radix(2) + b(3) * Radix(3)
    <3>1. \A k \in {0, 1, 2, 3} : Radix(k) \in Nat
      BY RadixFacts
    <3>2. \A k \in {0, 1, 2, 3} : 0 * Radix(k) = 0
      BY <3>1
    <3>3. \A k \in {0, 1, 2, 3} :
             (IF k < len THEN a[at + k] * Radix(k) ELSE 0) = b(k) * Radix(k)
      BY <3>2
    <3> HIDE DEF b
    <3> QED
      BY <3>3 DEF Bytes
  <2>2. b(0) * 1 = b(0)
    BY <1>1, RadixFacts DEF Byte
  <2> HIDE DEF b
  <2> QED
    BY <2>1, <2>2, RadixFacts DEF Word
<1> HIDE DEF b
<1>3. Bytes(a, at, len) \in 0..(WORD - 1)
  BY <1>1, <1>2, WordFacts
<1>4. \A k \in 0..3 : ByteOf(Bytes(a, at, len), k) = b(k)
  <2>1. \A k \in 0..3 : k = 0 \/ k = 1 \/ k = 2 \/ k = 3
    OBVIOUS
  <2> QED
    BY <1>1, <1>2, <2>1, WordFacts
<1> QED
  BY <1>3, <1>4 DEF b

\* A store changes the bytes it covers, to those of the value.
LEMMA PutBytesFacts ==
  ASSUME NEW D \in SUBSET Int, NEW a \in [D -> Byte], NEW at \in Int, NEW x \in Int,
         NEW len \in Widths
  PROVE  /\ PutBytes(a, at, x, len) \in [D -> Byte]
         /\ \A j \in D : ~(at <= j /\ j < at + len) => PutBytes(a, at, x, len)[j] = a[j]
         /\ \A k \in 0..3 : k < len /\ at + k \in D => PutBytes(a, at, x, len)[at + k] = ByteOf(x, k)
<1>1. ASSUME NEW j \in D, at <= j, j < at + len
      PROVE  ByteOf(x, j - at) \in Byte
  <2>1. j - at \in 0..3
    BY <1>1 DEF Widths
  <2> QED
    BY <2>1, ByteType
<1>2. PutBytes(a, at, x, len) \in [D -> Byte]
  BY <1>1 DEF PutBytes
<1>3. \A j \in D : ~(at <= j /\ j < at + len) => PutBytes(a, at, x, len)[j] = a[j]
  BY DEF PutBytes
<1>4. ASSUME NEW k \in 0..3, k < len, at + k \in D
      PROVE  PutBytes(a, at, x, len)[at + k] = ByteOf(x, k)
  <2>1. at <= at + k /\ at + k < at + len /\ (at + k) - at = k
    BY <1>4 DEF Widths
  <2> QED
    BY <1>4, <2>1 DEF PutBytes
<1> QED
  BY <1>2, <1>3, <1>4

\* Only the bytes of a value that are stored matter.
LEMMA PutBytesSame ==
  ASSUME NEW D \in SUBSET Int, NEW a \in [D -> Byte], NEW at \in Int, NEW x, NEW y,
         NEW len \in Widths, \A k \in 0..3 : k < len => ByteOf(x, k) = ByteOf(y, k)
  PROVE  PutBytes(a, at, x, len) = PutBytes(a, at, y, len)
<1>1. ASSUME NEW j \in D, at <= j, j < at + len
      PROVE  ByteOf(x, j - at) = ByteOf(y, j - at)
  <2>1. j - at \in 0..3 /\ j - at < len
    BY <1>1 DEF Widths
  <2> QED
    BY <2>1
<1> QED
  BY <1>1 DEF PutBytes

\* A word that has been stored is read back.
LEMMA StoredWord ==
  ASSUME NEW D \in SUBSET Int, NEW a \in [D -> Byte], NEW at \in Int, NEW x \in Int,
         \A k \in 0..3 : at + k \in D
  PROVE  Bytes(PutBytes(a, at, x, 4), at, 4) = x % WORD
<1> DEFINE c == PutBytes(a, at, x, 4)  y == Bytes(c, at, 4)
<1>1. \A k \in 0..3 : c[at + k] = ByteOf(x, k)
  BY PutBytesFacts DEF Widths
<1>2. \A k \in 0..3 : c[at + k] \in Byte
  BY <1>1, ByteType
<1> HIDE DEF c
<1>3. y \in 0..(WORD - 1) /\ \A k \in 0..3 : ByteOf(y, k) = IF k < 4 THEN c[at + k] ELSE 0
  BY <1>2, BytesFacts
<1>4. x % WORD \in 0..(WORD - 1) /\ \A k \in 0..3 : ByteOf(x % WORD, k) = ByteOf(x, k)
  BY ModBytes
<1> HIDE DEF y
<1>5. \A k \in 0..3 : ByteOf(y, k) = ByteOf(x % WORD, k)
  BY <1>1, <1>3, <1>4
<1>6. y = x % WORD
  BY <1>3, <1>4, <1>5, SameWord
<1> QED
  BY <1>6 DEF y, c

\* A word whose bytes did not change reads as before.
LEMMA SameBytes ==
  ASSUME NEW a, NEW c, NEW at \in Int, NEW len \in {0, 1, 2, 4},
         \A k \in 0..3 : k < len => a[at + k] = c[at + k]
  PROVE  Bytes(a, at, len) = Bytes(c, at, len)
BY DEF Bytes

-----------------------------------------------------------------------------
(* The spaces of the devices in io_space.                                  *)

Count == Len(Devices)
DeviceIds == 1..Count
LenOf(i) == Devices[i].len

\* The assumption, in these names.
LEMMA DeviceFacts ==
  /\ Count \in Nat
  /\ \A i \in DeviceIds : LenOf(i) \in Nat \ {0}
  /\ PAGE_SIZE \in Nat \ {0} /\ IO_SPACE_MAX \in Nat
BY DeviceAssumption, BusAssumption DEF Count, DeviceIds, LenOf

\* new_space hands out at least what was asked for, and three bytes more unless
\* the size ends within three bytes of a page.
LEMMA RoundedFacts ==
  ASSUME NEW n \in Nat \ {0}
  PROVE  /\ Rounded(n) \in Nat /\ n <= Rounded(n)
         /\ n % PAGE_SIZE \in 1..(PAGE_SIZE - 3) => n + 3 <= Rounded(n)
<1> DEFINE P == PAGE_SIZE  m == n + P - 1  q == m \div P  r == m % P
<1>1. P \in Nat \ {0} /\ m \in Nat /\ m \in Int
  BY DeviceFacts
<1>2. m = P * q + r /\ q \in Nat /\ r \in 0..(P - 1)
  <2> HIDE DEF P, m
  <2>1. m = P * q + r /\ r \in 0..(P - 1) /\ (m \in Nat => q \in Nat)
    BY <1>1, DivMod
  <2> QED
    BY <1>1, <2>1
<1>3. Rounded(n) = q * P
  BY DEF Rounded
<1> HIDE DEF q, r
<1>4. Rounded(n) \in Nat /\ Rounded(n) = P * q
  BY <1>1, <1>2, <1>3
<1>5. n <= Rounded(n)
  BY <1>1, <1>2, <1>4
<1>6. ASSUME n % P \in 1..(P - 3) PROVE n + 3 <= Rounded(n)
  <2> DEFINE k == n \div P  s == n % P
  <2>1. n = P * k + s /\ k \in Nat /\ s \in 1..(P - 3)
    <3> HIDE DEF P
    <3>1. n = P * k + s /\ (n \in Nat => k \in Nat)
      BY <1>1, DivMod
    <3> QED
      BY <1>6, <3>1
  <2> HIDE DEF k, s
  <2>2. P * (k + 1) = P * k + P /\ P * k \in Nat
    BY <1>1, <2>1
  <2>3. m = P * (k + 1) + (s - 1) /\ k + 1 \in Int /\ s - 1 \in 0..(P - 1)
    BY <1>1, <2>1, <2>2
  <2> HIDE DEF m
  <2>4. m \div P = k + 1
    BY <1>1, <2>3, DivUnique
  <2>5. q = k + 1
    BY <2>4 DEF q
  <2> HIDE DEF P
  <2> QED
    BY <1>1, <1>4, <2>1, <2>2, <2>5
<1> QED
  BY <1>4, <1>5, <1>6

\* The definition of Space has a solution, one device at a time.
LEMMA SpaceExists ==
  \E g : g = [i \in 1..(Count + 1) |-> IF i = 1 THEN 0 ELSE g[i - 1] + Rounded(LenOf(i - 1))]
<1> DEFINE R(i) == Rounded(LenOf(i))
           Upto(n, g) == g = [i \in 1..(n + 1) |-> IF i = 1 THEN 0 ELSE g[i - 1] + R(i - 1)]
           S == {n \in Nat : \E g : Upto(n, g)}
<1>1. 0 \in S
  <2> DEFINE g == [i \in 1..1 |-> 0]
  <2>1. Upto(0, g)
    OBVIOUS
  <2> QED
    BY <2>1
<1>2. ASSUME NEW n \in S PROVE n + 1 \in S
  <2>1. PICK g : Upto(n, g)
    OBVIOUS
  <2> DEFINE h == [i \in 1..((n + 1) + 1) |-> IF i = n + 2 THEN g[n + 1] + R(n + 1) ELSE g[i]]
  <2>2. ASSUME NEW i \in 1..((n + 1) + 1)
        PROVE  h[i] = IF i = 1 THEN 0 ELSE h[i - 1] + R(i - 1)
    <3> HIDE DEF R
    <3>1. CASE i = n + 2
      <4>1. i # 1 /\ i - 1 = n + 1 /\ i - 1 \in 1..((n + 1) + 1) /\ i - 1 # n + 2
        BY <3>1
      <4>2. h[i] = g[n + 1] + R(n + 1) /\ h[i - 1] = g[n + 1]
        BY <3>1, <4>1
      <4> QED
        BY <4>1, <4>2
    <3>2. CASE i # n + 2
      <4>1. i \in 1..(n + 1)
        BY <3>2
      <4>2. g[i] = IF i = 1 THEN 0 ELSE g[i - 1] + R(i - 1)
        BY <2>1, <4>1
      <4>3. h[i] = g[i]
        BY <3>2
      <4>4. i # 1 => h[i - 1] = g[i - 1]
        BY <4>1
      <4> QED
        BY <4>2, <4>3, <4>4
    <3> QED
      BY <3>1, <3>2
  <2>3. Upto(n + 1, h)
    <3>1. h = [i \in 1..((n + 1) + 1) |-> h[i]]
      OBVIOUS
    <3> HIDE DEF h, R
    <3> QED
      BY <2>2, <3>1
  <2> HIDE DEF Upto
  <2>4. n + 1 \in Nat
    OBVIOUS
  <2> QED
    BY <2>3, <2>4
<1>3. S = Nat
  <2> HIDE DEF Upto
  <2>1. S \in SUBSET Nat
    OBVIOUS
  <2> HIDE DEF S
  <2> QED
    BY <1>1, <1>2, <2>1, SetInduction
<1>4. Count \in S
  BY <1>3, DeviceFacts
<1> QED
  BY <1>4

\* Space satisfies it: a space begins where the one before it ends.
LEMMA SpaceDef ==
  \A i \in 1..(Count + 1) : Space[i] = IF i = 1 THEN 0 ELSE Space[i - 1] + Rounded(LenOf(i - 1))
<1> DEFINE Def(g) ==
      g = [i \in 1..(Count + 1) |-> IF i = 1 THEN 0 ELSE g[i - 1] + Rounded(LenOf(i - 1))]
<1>1. Space = CHOOSE g : Def(g)
  BY DEF Space, Count, LenOf
<1>2. \E g : Def(g)
  BY SpaceExists
<1> HIDE DEF Def
<1>3. Def(Space)
  BY <1>1, <1>2
<1> QED
  BY <1>3 DEF Def

\* Its values, and that every space ends before the next begins.
LEMMA SpaceType ==
  \A i \in 1..(Count + 1) : Space[i] \in Nat
<1> DEFINE S == {n \in Nat : n + 1 \in 1..(Count + 1) => Space[n + 1] \in Nat}
<1>1. 0 \in S
  BY SpaceDef, DeviceFacts
<1>2. ASSUME NEW n \in S PROVE n + 1 \in S
  <2> SUFFICES ASSUME (n + 1) + 1 \in 1..(Count + 1) PROVE Space[(n + 1) + 1] \in Nat
    OBVIOUS
  <2>1. n + 1 \in 1..(Count + 1) /\ n + 1 \in DeviceIds /\ ((n + 1) + 1) - 1 = n + 1
        /\ (n + 1) + 1 # 1
    BY DeviceFacts DEF DeviceIds
  <2>2. Space[(n + 1) + 1] = Space[n + 1] + Rounded(LenOf(n + 1))
    BY <2>1, SpaceDef
  <2>3. LenOf(n + 1) \in Nat \ {0}
    BY <2>1, DeviceFacts
  <2>4. Rounded(LenOf(n + 1)) \in Nat
    BY <2>3, RoundedFacts
  <2> QED
    BY <2>1, <2>2, <2>4
<1>3. S = Nat
  <2>1. S \in SUBSET Nat
    OBVIOUS
  <2> HIDE DEF S
  <2> QED
    BY <1>1, <1>2, <2>1, SetInduction
<1> QED
  <2> SUFFICES ASSUME NEW i \in 1..(Count + 1) PROVE Space[i] \in Nat
    OBVIOUS
  <2>1. i - 1 \in Nat /\ (i - 1) + 1 = i
    BY DeviceFacts
  <2>2. i - 1 \in S
    <3> HIDE DEF S
    <3> QED
      BY <1>3, <2>1
  <2> QED
    BY <2>1, <2>2

\* new_space moves p_space past the whole pages of the map it returns.
LEMMA SpaceNext ==
  ASSUME NEW i \in DeviceIds
  PROVE  /\ i \in 1..(Count + 1) /\ i + 1 \in 1..(Count + 1)
         /\ Space[i] \in Nat /\ Space[i + 1] \in Nat
         /\ Space[i + 1] = Space[i] + Rounded(LenOf(i))
         /\ LenOf(i) \in Nat \ {0} /\ Rounded(LenOf(i)) \in Nat
<1>1. i \in 1..(Count + 1) /\ i + 1 \in 1..(Count + 1) /\ (i + 1) - 1 = i /\ i + 1 # 1
  BY DeviceFacts DEF DeviceIds
<1>2. Space[i] \in Nat /\ Space[i + 1] \in Nat
  BY <1>1, SpaceType
<1>3. Space[i + 1] = Space[i] + Rounded(LenOf(i))
  BY <1>1, SpaceDef
<1>4. LenOf(i) \in Nat \ {0}
  BY DeviceFacts
<1>5. Rounded(LenOf(i)) \in Nat
  BY <1>4, RoundedFacts
<1> QED
  BY <1>1, <1>2, <1>3, <1>4, <1>5

\* Spaces lie in the order of the devices.
LEMMA SpaceOrder ==
  ASSUME NEW i \in DeviceIds, NEW j \in 1..(Count + 1), i < j
  PROVE  Space[i] + Rounded(LenOf(i)) <= Space[j]
<1> DEFINE S == {n \in Nat : i + 1 + n <= Count + 1 =>
                              Space[i] + Rounded(LenOf(i)) <= Space[i + 1 + n]}
<1>0. i \in Nat /\ Count \in Nat
  BY DeviceFacts DEF DeviceIds
<1>1. 0 \in S
  <2>1. i + 1 + 0 = i + 1
    BY <1>0
  <2> QED
    BY <2>1, SpaceNext
<1>2. ASSUME NEW n \in S PROVE n + 1 \in S
  <2> SUFFICES ASSUME i + 1 + (n + 1) <= Count + 1
               PROVE  Space[i] + Rounded(LenOf(i)) <= Space[i + 1 + (n + 1)]
    OBVIOUS
  <2> DEFINE k == i + 1 + n
  <2>1. k \in DeviceIds /\ k + 1 = i + 1 + (n + 1) /\ k <= Count + 1 /\ n \in Nat
    BY <1>0 DEF DeviceIds
  <2>2. Space[i] + Rounded(LenOf(i)) <= Space[k]
    BY <2>1
  <2> HIDE DEF k
  <2>3. Space[k] <= Space[k + 1] /\ Space[k] \in Nat /\ Space[k + 1] \in Nat
    BY <2>1, SpaceNext
  <2>4. Space[i] + Rounded(LenOf(i)) \in Nat
    BY SpaceNext
  <2>5. Space[i] + Rounded(LenOf(i)) <= Space[k + 1]
    BY <2>2, <2>3, <2>4
  <2> QED
    BY <2>1, <2>5
<1>3. S = Nat
  <2>1. S \in SUBSET Nat
    OBVIOUS
  <2> HIDE DEF S
  <2> QED
    BY <1>1, <1>2, <2>1, SetInduction
<1>4. j - i - 1 \in Nat /\ i + 1 + (j - i - 1) = j /\ j <= Count + 1
  BY <1>0
<1> QED
  BY <1>3, <1>4

\* An access that begins in the registers of a device stays in io_space ...
LEMMA SpaceRoom ==
  ASSUME NEW i \in DeviceIds
  PROVE  Space[i] \in Nat /\ Space[i] + LenOf(i) + 3 <= IO_SPACE_MAX
<1>1. Space[Count + 1] + 3 <= IO_SPACE_MAX
  BY DeviceAssumption DEF Count
<1>2. i < Count + 1 /\ Count + 1 \in 1..(Count + 1)
  BY DeviceFacts DEF DeviceIds
<1>3. Space[i] + Rounded(LenOf(i)) <= Space[Count + 1] /\ Space[Count + 1] \in Nat
  BY <1>2, SpaceOrder, SpaceType
<1>4. LenOf(i) \in Nat \ {0} /\ Rounded(LenOf(i)) \in Nat /\ Space[i] \in Nat
  BY SpaceNext
<1>5. LenOf(i) <= Rounded(LenOf(i))
  BY <1>4, RoundedFacts
<1> QED
  BY <1>1, <1>3, <1>4, <1>5, DeviceFacts

\* ... and out of the registers of every other device.
LEMMA SpacesApart ==
  ASSUME NEW i \in DeviceIds, NEW j \in DeviceIds, i # j,
         NEW k \in 0..(LenOf(i) + 2), NEW l \in 0..(LenOf(j) - 1)
  PROVE  Space[i] + k # Space[j] + l
<1>1. Space[i] \in Nat /\ Space[j] \in Nat /\ LenOf(i) \in Nat \ {0} /\ LenOf(j) \in Nat \ {0}
      /\ Rounded(LenOf(i)) \in Nat /\ Rounded(LenOf(j)) \in Nat
  BY SpaceNext
<1>2. i \in Int /\ j \in Int /\ i \in 1..(Count + 1) /\ j \in 1..(Count + 1)
  BY DeviceFacts DEF DeviceIds
<1>3. CASE i < j
  <2>1. i \in 1..(Count - 1)
    BY <1>3, DeviceFacts DEF DeviceIds
  <2>2. LenOf(i) % PAGE_SIZE \in 1..(PAGE_SIZE - 3)
    BY <2>1, DeviceAssumption DEF Count, LenOf
  <2>3. LenOf(i) + 3 <= Rounded(LenOf(i))
    BY <1>1, <2>2, RoundedFacts
  <2>4. Space[i] + Rounded(LenOf(i)) <= Space[j]
    BY <1>2, <1>3, SpaceOrder
  <2> QED
    BY <1>1, <2>3, <2>4
<1>4. CASE j < i
  <2>1. LenOf(j) <= Rounded(LenOf(j))
    BY <1>1, RoundedFacts
  <2>2. Space[j] + Rounded(LenOf(j)) <= Space[i]
    BY <1>2, <1>4, SpaceOrder
  <2> QED
    BY <1>1, <2>1, <2>2
<1> QED
  BY <1>2, <1>3, <1>4

-----------------------------------------------------------------------------
(* Finding a device.                                                       *)

\* The first of a set of devices is one of them.
LEMMA FirstDevice ==
  ASSUME NEW I \in SUBSET DeviceIds, I # {}
  PROVE  Min(I) \in I
<1>1. I \in SUBSET Nat
  BY DeviceFacts DEF DeviceIds
<1>2. \E m \in I : \A i \in I : m <= i
  BY <1>1, Least
<1> QED
  BY <1>2 DEF Min

\* find_mapid_by_addr finds a map that holds the address, or none.
LEMMA MmioMap ==
  ASSUME NEW addr
  PROVE  LET i == fetch_mmio_map(addr)
         IN  i = 0 \/ (i \in DeviceIds /\ InMap(addr, Devices[i].mmio, LenOf(i)))
<1> DEFINE I == {i \in 1..Len(Devices) : InMap(addr, Devices[i].mmio, Devices[i].len)}
<1>1. fetch_mmio_map(addr) = IF I # {} THEN Min(I) ELSE 0
  BY DEF fetch_mmio_map, SelectInSeq
<1>2. I \in SUBSET DeviceIds
  BY DEF DeviceIds, Count
<1>3. I # {} => Min(I) \in I
  BY <1>2, FirstDevice
<1> QED
  BY <1>1, <1>3 DEF DeviceIds, Count, LenOf

\* find_mapid_by_addr over the ports returns a map the address lies in, or none.
LEMMA PioMap ==
  ASSUME NEW addr
  PROVE  LET i == fetch_pio_map(addr)
         IN  i = 0 \/ (i \in DeviceIds /\ Devices[i].port # -1
                         /\ InMap(addr, Devices[i].port, LenOf(i)))
<1> DEFINE I == {i \in 1..Len(Devices) : Devices[i].port # -1
                                           /\ InMap(addr, Devices[i].port, Devices[i].len)}
<1>1. fetch_pio_map(addr) = IF I # {} THEN Min(I) ELSE 0
  BY DEF fetch_pio_map, SelectInSeq
<1>2. I \in SUBSET DeviceIds
  BY DEF DeviceIds, Count
<1>3. I # {} => Min(I) \in I
  BY <1>2, FirstDevice
<1> QED
  BY <1>1, <1>3 DEF DeviceIds, Count, LenOf

Named(name) == SelectInSeq(Devices, LAMBDA d : d.name = name)
KeyId == Named("keyboard")
ScreenId == Named("screen")

\* The keyboard has one register of a word and a name of its own, the screen
\* room for its size.
LEMMA NamedDevices ==
  /\ KeyId \in DeviceIds /\ Devices[KeyId].name = "keyboard" /\ LenOf(KeyId) = 4
  /\ \A i \in DeviceIds : Devices[i].name = "keyboard" => i = KeyId
  /\ ScreenId \in DeviceIds /\ Devices[ScreenId].name = "screen" /\ LenOf(ScreenId) >= 4
  /\ \A i \in DeviceIds : Devices[i].name = "rtc" => LenOf(i) = 8
<1>1. ASSUME NEW name, \E i \in DeviceIds : Devices[i].name = name
      PROVE  Named(name) \in DeviceIds /\ Devices[Named(name)].name = name
  <2> DEFINE I == {i \in 1..Len(Devices) : Devices[i].name = name}
  <2>1. Named(name) = IF I # {} THEN Min(I) ELSE 0
    BY DEF Named, SelectInSeq
  <2>2. I # {} /\ I \in SUBSET DeviceIds
    BY <1>1 DEF DeviceIds, Count
  <2>3. Min(I) \in I
    BY <2>2, FirstDevice
  <2> QED
    BY <2>1, <2>2, <2>3 DEF DeviceIds, Count
<1>2. PICK k \in DeviceIds : Devices[k].name = "keyboard" /\ LenOf(k) = 4
  BY DeviceAssumption DEF DeviceIds, Count, LenOf
<1>3. PICK s \in DeviceIds : Devices[s].name = "screen" /\ LenOf(s) >= 4
  BY DeviceAssumption DEF DeviceIds, Count, LenOf
<1>4. \A i, j \in DeviceIds : Devices[i].name = Devices[j].name => i = j
  BY DeviceAssumption DEF DeviceIds, Count
<1>5. KeyId = k
  BY <1>1, <1>2, <1>4 DEF KeyId
<1>6. ScreenId = s
  BY <1>1, <1>3, <1>4 DEF ScreenId
<1>7. \A i \in DeviceIds : Devices[i].name = "rtc" => LenOf(i) = 8
  BY DeviceAssumption DEF DeviceIds, Count, LenOf
<1> QED
  BY <1>2, <1>3, <1>4, <1>5, <1>6, <1>7

-----------------------------------------------------------------------------
(* What an access changes.                                                 *)

IoIndex == 0..(IO_SPACE_MAX - 1)
KeyIndex == 0..(KEY_QUEUE_LEN - 1)

\* The states of the bus.
BusOK(b) ==
  b \in [pmem : [0..(PMEM_SIZE + 2) -> Byte], io : [IoIndex -> Byte],
         key_queue : [KeyIndex -> 0..(HALF - 1)], key_f : KeyIndex, key_r : KeyIndex,
         now : Nat, tty : Seq(Byte), dead : BOOLEAN]

\* Bytes of io_space change only in the registers of device i and up to three
\* bytes behind them.
Within(a, c, i) ==
  \A j \in IoIndex : c[j] # a[j] => \E k \in 0..(LenOf(i) + 2) : j = Space[i] + k

SameElse(b, c) ==
  c.pmem = b.pmem /\ c.key_queue = b.key_queue /\ c.key_r = b.key_r /\ c.now = b.now

\* The keyboard's data register.
KeyData(b) == Bytes(b.io, Space[KeyId], 4)

\* What an access does to the keyboard, unless NEMU ends: nothing, or it takes
\* the oldest key, or finds none.
KeyStep(b, c) ==
  \/ c.dead = TRUE
  \/ c.key_f = b.key_f /\ KeyData(c) = KeyData(b)
  \/ /\ b.key_f # b.key_r /\ c.key_f = (b.key_f + 1) % KEY_QUEUE_LEN
     /\ KeyData(c) = b.key_queue[b.key_f]
  \/ b.key_f = b.key_r /\ c.key_f = b.key_f /\ KeyData(c) = KEY_NONE

\* An access to device i.
Accessed(b, c, i) ==
  BusOK(c) /\ SameElse(b, c) /\ Within(b.io, c.io, i) /\ KeyStep(b, c)

\* An access to memory: no device notices.
Quiet(b, c) ==
  /\ BusOK(c) /\ c.io = b.io /\ c.key_queue = b.key_queue /\ c.key_f = b.key_f
  /\ c.key_r = b.key_r /\ c.now = b.now

\* Only an access to the keyboard changes its register.
LEMMA KeyDataKept ==
  ASSUME NEW a \in [IoIndex -> Byte], NEW c \in [IoIndex -> Byte], NEW i \in DeviceIds,
         i # KeyId, Within(a, c, i)
  PROVE  Bytes(c, Space[KeyId], 4) = Bytes(a, Space[KeyId], 4)
<1>1. KeyId \in DeviceIds /\ LenOf(KeyId) = 4
  BY NamedDevices
<1>2. Space[KeyId] \in Nat /\ Space[KeyId] + 4 + 3 <= IO_SPACE_MAX
  BY <1>1, SpaceRoom
<1>3. ASSUME NEW l \in 0..3 PROVE c[Space[KeyId] + l] = a[Space[KeyId] + l]
  <2>1. Space[KeyId] + l \in IoIndex
    BY <1>2, DeviceFacts DEF IoIndex
  <2>2. l \in 0..(LenOf(KeyId) - 1)
    BY <1>1
  <2>3. \A k \in 0..(LenOf(i) + 2) : Space[i] + k # Space[KeyId] + l
    BY <1>1, <2>2, SpacesApart
  <2> QED
    BY <2>1, <2>3 DEF Within
<1> QED
  BY <1>2, <1>3, SameBytes

\* A store near a device: where it lies.
LEMMA WithinStore ==
  ASSUME NEW a \in [IoIndex -> Byte], NEW i \in DeviceIds, NEW offset \in Nat,
         NEW x \in Int, NEW len \in Widths, offset + len <= LenOf(i) + 3
  PROVE  /\ PutBytes(a, Space[i] + offset, x, len) \in [IoIndex -> Byte]
         /\ Within(a, PutBytes(a, Space[i] + offset, x, len), i)
<1> DEFINE at == Space[i] + offset  c == PutBytes(a, at, x, len)
<1>1. Space[i] \in Nat /\ LenOf(i) \in Nat
  BY SpaceNext
<1>2. at \in Int /\ IoIndex \in SUBSET Int
  BY <1>1 DEF IoIndex
<1> HIDE DEF at
<1>3. c \in [IoIndex -> Byte] /\ \A j \in IoIndex : ~(at <= j /\ j < at + len) => c[j] = a[j]
  BY <1>2, PutBytesFacts
<1> HIDE DEF c
<1>4. ASSUME NEW j \in IoIndex, c[j] # a[j]
      PROVE  \E k \in 0..(LenOf(i) + 2) : j = Space[i] + k
  <2>1. at <= j /\ j < at + len /\ j \in Int
    BY <1>2, <1>3, <1>4
  <2>2. j - Space[i] \in 0..(LenOf(i) + 2) /\ j = Space[i] + (j - Space[i])
    BY <1>1, <2>1 DEF at, Widths
  <2> QED
    BY <2>2
<1> QED
  BY <1>3, <1>4 DEF Within, c, at

\* Two changes to the same device.
LEMMA WithinTrans ==
  ASSUME NEW a, NEW c, NEW e, NEW i, Within(a, c, i), Within(c, e, i)
  PROVE  Within(a, e, i)
BY DEF Within

\* A state of the bus with another io_space.
LEMMA IoReplaced ==
  ASSUME NEW b, BusOK(b), NEW a \in [IoIndex -> Byte]
  PROVE  LET c == [b EXCEPT !.io = a]
         IN  BusOK(c) /\ SameElse(b, c) /\ c.io = a /\ c.key_f = b.key_f /\ c.dead = b.dead
               /\ c.tty = b.tty
BY DEF BusOK, SameElse

\* The end of NEMU.
LEMMA Died ==
  ASSUME NEW b, BusOK(b)
  PROVE  /\ BusOK(Die(b)) /\ SameElse(b, Die(b)) /\ Die(b).io = b.io /\ Die(b).dead = TRUE
         /\ Die(b).key_f = b.key_f
BY DEF BusOK, SameElse, Die

\* An assertion that fails in a callback changes no more than the access did.
LEMMA DiedAccessed ==
  ASSUME NEW b, NEW c, BusOK(b), BusOK(c), NEW i, SameElse(b, c), Within(b.io, c.io, i)
  PROVE  Accessed(b, Die(c), i)
<1>1. BusOK(Die(c)) /\ SameElse(c, Die(c)) /\ Die(c).io = c.io /\ Die(c).dead = TRUE
  BY Died
<1> QED
  BY <1>1 DEF Accessed, SameElse, KeyStep

\* A change to another device than the keyboard.
LEMMA OtherAccessed ==
  ASSUME NEW b, NEW c, BusOK(b), BusOK(c), NEW i \in DeviceIds, i # KeyId, SameElse(b, c),
         Within(b.io, c.io, i), c.key_f = b.key_f
  PROVE  Accessed(b, c, i)
<1>1. b.io \in [IoIndex -> Byte] /\ c.io \in [IoIndex -> Byte]
  BY DEF BusOK
<1>2. KeyData(c) = KeyData(b)
  BY <1>1, KeyDataKept DEF KeyData
<1> QED
  BY <1>2 DEF Accessed, KeyStep

\* The callback of the serial port stays within its map.
LEMMA SerialAccessed ==
  ASSUME NEW b, NEW c, BusOK(b), BusOK(c), NEW i \in DeviceIds, i # KeyId,
         NEW offset, NEW len, NEW is_write,
         SameElse(b, c), Within(b.io, c.io, i), c.key_f = b.key_f
  PROVE  Accessed(b, serial_io_handler(c, i, offset, len, is_write), i)
<1> DEFINE t == Append(c.tty, c.io[Space[i]])  e == [c EXCEPT !.tty = t]
<1>1. Space[i] \in IoIndex
  <2>1. Space[i] \in Nat /\ Space[i] + LenOf(i) + 3 <= IO_SPACE_MAX /\ LenOf(i) \in Nat
    BY SpaceRoom, SpaceNext
  <2> QED
    BY <2>1, DeviceFacts DEF IoIndex
<1>2. t \in Seq(Byte)
  BY <1>1 DEF BusOK
<1> HIDE DEF t
<1>3. BusOK(e) /\ SameElse(b, e) /\ e.io = c.io /\ e.key_f = b.key_f
  BY <1>2 DEF BusOK, SameElse
<1> HIDE DEF e
<1>4. Accessed(b, e, i)
  BY <1>3, OtherAccessed
<1>5. Accessed(b, Die(c), i)
  BY DiedAccessed
<1>6. serial_io_handler(c, i, offset, len, is_write) \in {e, Die(c)}
  BY DEF serial_io_handler, e, t
<1> QED
  BY <1>4, <1>5, <1>6

\* The callback of the timer, which stores the time, stays within its eight bytes.
LEMMA RtcAccessed ==
  ASSUME NEW b, NEW c, BusOK(b), BusOK(c), NEW i \in DeviceIds, i # KeyId, LenOf(i) = 8,
         NEW offset, NEW len, NEW is_write,
         SameElse(b, c), Within(b.io, c.io, i), c.key_f = b.key_f
  PROVE  Accessed(b, rtc_io_handler(c, i, offset, len, is_write), i)
<1> DEFINE a1 == PutBytes(c.io, Space[i], c.now % USEC, 4)
           a2 == PutBytes(a1, Space[i] + 4, c.now \div USEC, 4)
           e == [c EXCEPT !.io = a2]
<1>1. c.io \in [IoIndex -> Byte] /\ c.now \in Int /\ c.now % USEC \in Int /\ c.now \div USEC \in Int
  <2>1. c.now \in Nat /\ c.io \in [IoIndex -> Byte] /\ USEC \in Nat \ {0}
    BY BusAssumption DEF BusOK
  <2> QED
    BY <2>1, DivMod
<1>2. a1 \in [IoIndex -> Byte] /\ Within(c.io, a1, i)
  <2>1. 0 \in Nat /\ 0 + 4 <= LenOf(i) + 3 /\ 4 \in Widths
    BY DEF Widths
  <2>2. Space[i] + 0 = Space[i]
    BY SpaceNext
  <2>3. /\ PutBytes(c.io, Space[i] + 0, c.now % USEC, 4) \in [IoIndex -> Byte]
        /\ Within(c.io, PutBytes(c.io, Space[i] + 0, c.now % USEC, 4), i)
    BY <1>1, <2>1, WithinStore
  <2> QED
    BY <2>2, <2>3
<1> HIDE DEF a1
<1>3. a2 \in [IoIndex -> Byte] /\ Within(a1, a2, i)
  <2>1. 4 \in Nat /\ 4 + 4 <= LenOf(i) + 3 /\ 4 \in Widths
    BY DEF Widths
  <2> QED
    BY <1>1, <1>2, <2>1, WithinStore
<1> HIDE DEF a2
<1>4. Within(b.io, a2, i)
  BY <1>2, <1>3, WithinTrans
<1>5. BusOK(e) /\ SameElse(c, e) /\ e.io = a2 /\ e.key_f = c.key_f
  BY <1>3, IoReplaced
<1>6. rtc_io_handler(c, i, offset, len, is_write) \in {e, c, Die(c)}
  BY DEF rtc_io_handler, a1, a2
<1> HIDE DEF e
<1>7. SameElse(b, e)
  BY <1>5 DEF SameElse
<1>8. Accessed(b, e, i)
  BY <1>4, <1>5, <1>7, OtherAccessed
<1>9. Accessed(b, c, i)
  BY OtherAccessed
<1>10. Accessed(b, Die(c), i)
  BY DiedAccessed
<1> QED
  BY <1>6, <1>8, <1>9, <1>10

\* The keyboard's register shows the oldest key, which leaves the ring, or none.
LEMMA KeyRead ==
  ASSUME NEW b, BusOK(b), NEW offset, NEW len
  PROVE  Accessed(b, i8042_data_io_handler(b, KeyId, offset, len, FALSE), KeyId)
<1> DEFINE code == IF b.key_f # b.key_r THEN b.key_queue[b.key_f] ELSE KEY_NONE
           a == PutBytes(b.io, Space[KeyId], code, 4)
           next == (b.key_f + 1) % KEY_QUEUE_LEN
           e1 == [b EXCEPT !.io = a, !.key_f = next]
           e2 == [b EXCEPT !.io = a]
<1>1. KeyId \in DeviceIds /\ LenOf(KeyId) = 4 /\ Space[KeyId] \in Nat
      /\ Space[KeyId] + 4 + 3 <= IO_SPACE_MAX
  BY NamedDevices, SpaceRoom
<1>2. b.io \in [IoIndex -> Byte] /\ IoIndex \in SUBSET Int
  BY DEF BusOK, IoIndex
<1>3. code \in 0..(WORD - 1) /\ code \in Int
  <2>1. HALF - 1 <= WORD - 1 /\ HALF \in Nat \ {0} /\ WORD \in Nat \ {0}
    <3>1. HALF \in Nat \ {0} /\ WORD = HALF * HALF /\ WORD \in Nat \ {0}
      BY RadixFacts
    <3>2. HALF <= HALF * HALF
      BY <3>1
    <3> QED
      BY <3>1, <3>2
  <2>2. b.key_queue[b.key_f] \in 0..(HALF - 1)
    BY DEF BusOK
  <2> QED
    BY <2>1, <2>2 DEF KEY_NONE
<1> HIDE DEF code
<1>4. a \in [IoIndex -> Byte] /\ Within(b.io, a, KeyId)
  <2>1. 0 \in Nat /\ 0 + 4 <= LenOf(KeyId) + 3 /\ 4 \in Widths
    BY <1>1 DEF Widths
  <2>2. Space[KeyId] + 0 = Space[KeyId]
    BY <1>1
  <2>3. /\ PutBytes(b.io, Space[KeyId] + 0, code, 4) \in [IoIndex -> Byte]
        /\ Within(b.io, PutBytes(b.io, Space[KeyId] + 0, code, 4), KeyId)
    BY <1>1, <1>2, <1>3, <2>1, WithinStore
  <2> QED
    BY <2>2, <2>3
<1>5. Bytes(a, Space[KeyId], 4) = code
  <2>1. \A k \in 0..3 : Space[KeyId] + k \in IoIndex
    BY <1>1, DeviceFacts DEF IoIndex
  <2>2. Bytes(a, Space[KeyId], 4) = code % WORD
    BY <1>1, <1>2, <1>3, <2>1, StoredWord
  <2> QED
    BY <1>3, <2>2, ModSmall, RadixFacts
<1> HIDE DEF a
<1>6. next \in KeyIndex
  <2>1. b.key_f \in Nat /\ KEY_QUEUE_LEN \in Nat \ {0}
    BY BusAssumption DEF BusOK, KeyIndex
  <2>2. b.key_f + 1 \in Int
    BY <2>1
  <2> QED
    BY <2>1, <2>2, DivMod DEF KeyIndex
<1> HIDE DEF next
<1>7. CASE b.key_f # b.key_r
  <2>1. BusOK(e1) /\ SameElse(b, e1) /\ e1.io = a /\ e1.key_f = next
    BY <1>4, <1>6 DEF BusOK, SameElse
  <2>2. KeyData(e1) = b.key_queue[b.key_f]
    BY <1>5, <1>7, <2>1 DEF KeyData, code
  <2>3. Accessed(b, e1, KeyId)
    BY <1>4, <1>7, <2>1, <2>2 DEF Accessed, KeyStep, next
  <2>4. Accessed(b, Die(b), KeyId)
    BY DiedAccessed DEF Within, SameElse
  <2>5. i8042_data_io_handler(b, KeyId, offset, len, FALSE) \in {e1, Die(b)}
    BY <1>7 DEF i8042_data_io_handler, a, code, next
  <2> QED
    BY <2>3, <2>4, <2>5
<1>8. CASE b.key_f = b.key_r
  <2>1. BusOK(e2) /\ SameElse(b, e2) /\ e2.io = a /\ e2.key_f = b.key_f
    BY <1>4, IoReplaced
  <2>2. KeyData(e2) = KEY_NONE
    BY <1>5, <1>8, <2>1 DEF KeyData, code
  <2>3. Accessed(b, e2, KeyId)
    BY <1>4, <1>8, <2>1, <2>2 DEF Accessed, KeyStep
  <2>4. Accessed(b, Die(b), KeyId)
    BY DiedAccessed DEF Within, SameElse
  <2>5. i8042_data_io_handler(b, KeyId, offset, len, FALSE) \in {e2, Die(b)}
    BY <1>8 DEF i8042_data_io_handler, a, code
  <2> QED
    BY <2>3, <2>4, <2>5
<1> QED
  BY <1>7, <1>8

\* A bus is within any map of itself.
LEMMA WithinSame ==
  ASSUME NEW b, NEW i
  PROVE  Within(b.io, b.io, i) /\ SameElse(b, b)
BY DEF Within, SameElse

\* A load from a device, all callbacks.
LEMMA ReadCallback ==
  ASSUME NEW b, BusOK(b), NEW i \in DeviceIds, NEW offset, NEW len
  PROVE  Accessed(b, invoke_callback(b, i, offset, len, FALSE), i)
<1> DEFINE c == invoke_callback(b, i, offset, len, FALSE)
<1>0. Within(b.io, b.io, i) /\ SameElse(b, b)
  BY WithinSame
<1>1. CASE Devices[i].name = "serial"
  <2>1. i # KeyId /\ c = serial_io_handler(b, i, offset, len, FALSE)
    BY <1>1, NamedDevices DEF invoke_callback
  <2> HIDE DEF c
  <2> QED
    BY <1>0, <2>1, SerialAccessed DEF c
<1>2. CASE Devices[i].name = "rtc"
  <2>1. i # KeyId /\ LenOf(i) = 8 /\ c = rtc_io_handler(b, i, offset, len, FALSE)
    BY <1>2, NamedDevices DEF invoke_callback
  <2> HIDE DEF c
  <2> QED
    BY <1>0, <2>1, RtcAccessed DEF c
<1>3. CASE Devices[i].name = "keyboard"
  <2>1. i = KeyId /\ c = i8042_data_io_handler(b, i, offset, len, FALSE)
    BY <1>3, NamedDevices DEF invoke_callback
  <2> HIDE DEF c
  <2> QED
    BY <2>1, KeyRead DEF c
<1>4. CASE Devices[i].name \notin {"serial", "rtc", "keyboard"}
  <2>1. i # KeyId /\ c = b
    BY <1>4, NamedDevices DEF invoke_callback
  <2> HIDE DEF c
  <2> QED
    BY <1>0, <2>1, OtherAccessed DEF c
<1> QED
  BY <1>1, <1>2, <1>3, <1>4

\* A store to a device: c is the bus once the bytes have been stored.
LEMMA WriteCallback ==
  ASSUME NEW b, NEW c, BusOK(b), BusOK(c), NEW i \in DeviceIds, NEW offset, NEW len,
         SameElse(b, c), Within(b.io, c.io, i), c.key_f = b.key_f
  PROVE  Accessed(b, invoke_callback(c, i, offset, len, TRUE), i)
<1> DEFINE e == invoke_callback(c, i, offset, len, TRUE)
<1>1. CASE Devices[i].name = "serial"
  <2>1. i # KeyId /\ e = serial_io_handler(c, i, offset, len, TRUE)
    BY <1>1, NamedDevices DEF invoke_callback
  <2> HIDE DEF e
  <2> QED
    BY <2>1, SerialAccessed DEF e
<1>2. CASE Devices[i].name = "rtc"
  <2>1. i # KeyId /\ LenOf(i) = 8 /\ e = rtc_io_handler(c, i, offset, len, TRUE)
    BY <1>2, NamedDevices DEF invoke_callback
  <2> HIDE DEF e
  <2> QED
    BY <2>1, RtcAccessed DEF e
<1>3. CASE Devices[i].name = "keyboard"
  <2>1. e = Die(c)
    BY <1>3 DEF invoke_callback, i8042_data_io_handler
  <2> HIDE DEF e
  <2> QED
    BY <2>1, DiedAccessed DEF e
<1>4. CASE Devices[i].name \notin {"serial", "rtc", "keyboard"}
  <2>1. i # KeyId /\ e = c
    BY <1>4, NamedDevices DEF invoke_callback
  <2> HIDE DEF e
  <2> QED
    BY <2>1, OtherAccessed DEF e
<1> QED
  BY <1>1, <1>2, <1>3, <1>4

\* map_read touches one map, and its value fits the register it goes to.
LEMMA MapRead ==
  ASSUME NEW b, BusOK(b), NEW addr \in Int, NEW len \in Widths, NEW i \in DeviceIds, NEW low,
         low[i] \in Int, InMap(addr, low[i], LenOf(i))
  PROVE  /\ Accessed(b, map_read(b, addr, len, i, low).b, i)
         /\ map_read(b, addr, len, i, low).x \in 0..(WORD - 1)
<1> DEFINE c == invoke_callback(b, i, addr - low[i], len, FALSE)
           at == Space[i] + addr - low[i]
           word == Bytes(c.io, at, 4)
<1>1. Accessed(b, c, i)
  BY ReadCallback
<1>2. map_read(b, addr, len, i, low) = Got(c, word % Radix(len))
  <2>1. i # 0
    BY DEF DeviceIds
  <2> QED
    BY <2>1 DEF map_read, Loaded
<1> HIDE DEF c
<1>3. at \in Nat /\ \A k \in 0..3 : at + k \in IoIndex
  <2>1. Space[i] \in Nat /\ LenOf(i) \in Nat /\ Space[i] + LenOf(i) + 3 <= IO_SPACE_MAX
    BY SpaceRoom, SpaceNext
  <2> QED
    BY <2>1, DeviceFacts DEF InMap, IoIndex
<1> HIDE DEF at
<1>4. c.io \in [IoIndex -> Byte]
  BY <1>1 DEF Accessed, BusOK
<1>5. word \in 0..(WORD - 1)
  BY <1>3, <1>4, BytesFacts
<1>6. word \in Int
  BY <1>5, RadixFacts
<1> HIDE DEF word
<1>7. word % Radix(len) \in 0..(WORD - 1)
  <2>1. word % WORD \in 0..(WORD - 1) /\ word % HALF \in 0..(WORD - 1)
        /\ word % BYTE \in 0..(WORD - 1)
    BY <1>6, ModBytes
  <2> QED
    BY <2>1, RadixFacts DEF Widths
<1> QED
  BY <1>1, <1>2, <1>7 DEF Got

\* map_write touches one map.
LEMMA MapWrite ==
  ASSUME NEW b, BusOK(b), NEW addr \in Int, NEW x \in Int, NEW len \in Widths,
         NEW i \in DeviceIds, NEW low, low[i] \in Int, InMap(addr, low[i], LenOf(i))
  PROVE  Accessed(b, map_write(b, addr, x, len, i, low), i)
<1> DEFINE offset == addr - low[i]
           a == PutBytes(b.io, Space[i] + offset, x, len)
           c == [b EXCEPT !.io = a]
<1>1. offset \in Nat /\ offset + len <= LenOf(i) + 3 /\ Space[i] \in Nat
  BY SpaceNext DEF InMap, Widths
<1>2. i # 0 /\ Space[i] + addr - low[i] = Space[i] + offset
  BY <1>1 DEF DeviceIds
<1>3. map_write(b, addr, x, len, i, low) = invoke_callback(c, i, offset, len, TRUE)
  BY <1>2 DEF map_write
<1> HIDE DEF offset
<1>4. b.io \in [IoIndex -> Byte]
  BY DEF BusOK
<1>5. a \in [IoIndex -> Byte] /\ Within(b.io, a, i)
  BY <1>1, <1>4, WithinStore
<1> HIDE DEF a
<1>6. BusOK(c) /\ SameElse(b, c) /\ c.io = a /\ c.key_f = b.key_f
  BY <1>5, IoReplaced
<1> HIDE DEF c
<1> QED
  BY <1>3, <1>5, <1>6, WriteCallback

-----------------------------------------------------------------------------
(* Accesses through the buses.                                             *)

\* Device i answers to an address of the memory bus, to a port.
AtMmio(addr, i) == InMap(addr, Devices[i].mmio, LenOf(i))
AtPort(addr, i) == Devices[i].port # -1 /\ InMap(addr, Devices[i].port, LenOf(i))

\* A failed assertion, and no access at all, leave the devices alone.
LEMMA DiedQuiet ==
  ASSUME NEW b, BusOK(b)
  PROVE  Quiet(b, Die(b)) /\ Quiet(b, b)
BY Died DEF Quiet, SameElse

\* The low ends of the maps are integers.
LEMMA LowFacts ==
  ASSUME NEW i \in DeviceIds
  PROVE  /\ mmioLow[i] = Devices[i].mmio /\ mmioLow[i] \in Int
         /\ portLow[i] = Devices[i].port /\ portLow[i] \in Int
BY DeviceAssumption DEF mmioLow, portLow, DeviceIds, Count

\* The memory bus.
LEMMA PaddrRead ==
  ASSUME NEW b, BusOK(b), NEW addr \in Nat, NEW len \in Widths
  PROVE  LET g == paddr_read(b, addr, len)
         IN  /\ \/ Quiet(b, g.b)
                \/ \E i \in DeviceIds : AtMmio(addr, i) /\ Accessed(b, g.b, i)
             /\ g.x \in 0..(WORD - 1)
<1> DEFINE g == paddr_read(b, addr, len)
<1>1. CASE in_pmem(addr)
  <2> DEFINE word == Bytes(b.pmem, addr - PMEM_BASE, len)
  <2>1. g = Got(b, word)
    BY <1>1 DEF paddr_read
  <2>2. addr - PMEM_BASE \in 0..(PMEM_SIZE - 1)
    BY <1>1, BusAssumption DEF in_pmem
  <2>3. b.pmem \in [0..(PMEM_SIZE + 2) -> Byte]
    BY DEF BusOK
  <2>4. \A k \in 0..3 : b.pmem[(addr - PMEM_BASE) + k] \in Byte
    <3>1. \A k \in 0..3 : (addr - PMEM_BASE) + k \in 0..(PMEM_SIZE + 2)
      BY <2>2, BusAssumption
    <3> QED
      BY <2>3, <3>1
  <2>5. word \in 0..(WORD - 1)
    BY <2>2, <2>4, BytesFacts DEF Widths
  <2> HIDE DEF g, word
  <2>6. Quiet(b, b)
    BY DiedQuiet
  <2> QED
    BY <2>1, <2>5, <2>6 DEF Got, g
<1>2. CASE ~in_pmem(addr)
  <2> DEFINE i == fetch_mmio_map(addr)
  <2>1. g = map_read(b, addr, len, i, mmioLow)
    BY <1>2 DEF paddr_read
  <2>2. i = 0 \/ (i \in DeviceIds /\ InMap(addr, Devices[i].mmio, LenOf(i)))
    BY MmioMap
  <2> HIDE DEF i, g
  <2>3. CASE i = 0
    <3>1. g = Got(Die(b), 0)
      BY <2>1, <2>3 DEF map_read
    <3> QED
      BY <3>1, DiedQuiet, RadixFacts DEF Got, g
  <2>4. CASE i \in DeviceIds /\ InMap(addr, Devices[i].mmio, LenOf(i))
    <3>0. addr \in Int /\ mmioLow[i] \in Int /\ InMap(addr, mmioLow[i], LenOf(i))
      BY <2>4, LowFacts
    <3>1. Accessed(b, g.b, i) /\ g.x \in 0..(WORD - 1)
      BY <2>1, <2>4, <3>0, MapRead
    <3> QED
      BY <2>4, <3>1 DEF AtMmio, g
  <2> QED
    BY <2>2, <2>3, <2>4
<1> QED
  BY <1>1, <1>2

\* A store reaches physical memory, the map its address is in, or nothing.
LEMMA PaddrWrite ==
  ASSUME NEW b, BusOK(b), NEW addr \in Nat, NEW x \in Int, NEW len \in Widths
  PROVE  LET c == paddr_write(b, addr, x, len)
         IN  \/ Quiet(b, c)
             \/ \E i \in DeviceIds : AtMmio(addr, i) /\ Accessed(b, c, i)
<1> DEFINE c == paddr_write(b, addr, x, len)
<1>1. CASE in_pmem(addr)
  <2> DEFINE a == PutBytes(b.pmem, addr - PMEM_BASE, x, len)
  <2>1. c = [b EXCEPT !.pmem = a]
    BY <1>1 DEF paddr_write
  <2>2. addr - PMEM_BASE \in Int /\ 0..(PMEM_SIZE + 2) \in SUBSET Int
    BY BusAssumption
  <2>3. b.pmem \in [0..(PMEM_SIZE + 2) -> Byte]
    BY DEF BusOK
  <2>4. a \in [0..(PMEM_SIZE + 2) -> Byte]
    BY <2>2, <2>3, PutBytesFacts
  <2> HIDE DEF c, a
  <2>5. Quiet(b, c)
    BY <2>1, <2>4 DEF Quiet, BusOK
  <2> QED
    BY <2>5 DEF c
<1>2. CASE ~in_pmem(addr)
  <2> DEFINE i == fetch_mmio_map(addr)
  <2>1. c = map_write(b, addr, x, len, i, mmioLow)
    BY <1>2 DEF paddr_write
  <2>2. i = 0 \/ (i \in DeviceIds /\ InMap(addr, Devices[i].mmio, LenOf(i)))
    BY MmioMap
  <2> HIDE DEF i, c
  <2>3. CASE i = 0
    <3>1. c = Die(b)
      BY <2>1, <2>3 DEF map_write
    <3> QED
      BY <3>1, DiedQuiet DEF c
  <2>4. CASE i \in DeviceIds /\ InMap(addr, Devices[i].mmio, LenOf(i))
    <3>0. addr \in Int /\ mmioLow[i] \in Int /\ InMap(addr, mmioLow[i], LenOf(i))
      BY <2>4, LowFacts
    <3>1. Accessed(b, c, i)
      BY <2>1, <2>4, <3>0, MapWrite
    <3> QED
      BY <2>4, <3>1 DEF AtMmio, c
  <2> QED
    BY <2>2, <2>3, <2>4
<1> QED
  BY <1>1, <1>2

\* The port bus.
LEMMA PioRead ==
  ASSUME NEW b, BusOK(b), NEW addr \in Nat, NEW len \in Widths
  PROVE  LET c == pio_read_common(b, addr, len).b
         IN  \/ Quiet(b, c)
             \/ \E i \in DeviceIds : AtPort(addr, i) /\ Accessed(b, c, i)
<1> DEFINE i == fetch_pio_map(addr)  g == pio_read_common(b, addr, len)
<1>1. g = map_read(b, addr, len, i, portLow) \/ g = Got(Die(b), 0)
  BY DEF pio_read_common
<1>2. i = 0 \/ (i \in DeviceIds /\ AtPort(addr, i))
  BY PioMap DEF AtPort
<1> HIDE DEF i, g
<1>3. CASE g = Got(Die(b), 0) \/ i = 0
  <2>1. g = Got(Die(b), 0)
    BY <1>1, <1>3 DEF map_read
  <2> QED
    BY <2>1, DiedQuiet DEF Got, g
<1>4. CASE g = map_read(b, addr, len, i, portLow) /\ i \in DeviceIds /\ AtPort(addr, i)
  <2>1. portLow[i] = Devices[i].port /\ portLow[i] \in Int /\ InMap(addr, portLow[i], LenOf(i))
    BY <1>4, LowFacts DEF AtPort
  <2>2. Accessed(b, g.b, i)
    BY <1>4, <2>1, MapRead
  <2> QED
    BY <1>4, <2>2 DEF g
<1> QED
  BY <1>1, <1>2, <1>3, <1>4

\* So does an out, by its port.
LEMMA PioWrite ==
  ASSUME NEW b, BusOK(b), NEW addr \in Nat, NEW x \in Int, NEW len \in Widths
  PROVE  LET c == pio_write_common(b, addr, x, len)
         IN  \/ Quiet(b, c)
             \/ \E i \in DeviceIds : AtPort(addr, i) /\ Accessed(b, c, i)
<1> DEFINE i == fetch_pio_map(addr)  c == pio_write_common(b, addr, x, len)
<1>1. c = map_write(b, addr, x, len, i, portLow) \/ c = Die(b)
  BY DEF pio_write_common
<1>2. i = 0 \/ (i \in DeviceIds /\ AtPort(addr, i))
  BY PioMap DEF AtPort
<1> HIDE DEF i, c
<1>3. CASE c = Die(b) \/ i = 0
  <2>1. c = Die(b)
    BY <1>1, <1>3 DEF map_write
  <2> QED
    BY <2>1, DiedQuiet DEF c
<1>4. CASE c = map_write(b, addr, x, len, i, portLow) /\ i \in DeviceIds /\ AtPort(addr, i)
  <2>1. portLow[i] = Devices[i].port /\ portLow[i] \in Int /\ InMap(addr, portLow[i], LenOf(i))
    BY <1>4, LowFacts DEF AtPort
  <2>2. Accessed(b, c, i)
    BY <1>4, <2>1, MapWrite
  <2> QED
    BY <1>4, <2>2 DEF c
<1> QED
  BY <1>1, <1>2, <1>3, <1>4

\* A store depends on the bytes it stores only.
LEMMA PaddrWriteSame ==
  ASSUME NEW b, BusOK(b), NEW addr \in Nat, NEW x \in Int, NEW y \in Int, NEW len \in Widths,
         \A k \in 0..3 : k < len => ByteOf(x, k) = ByteOf(y, k)
  PROVE  paddr_write(b, addr, x, len) = paddr_write(b, addr, y, len)
<1> DEFINE D == 0..(PMEM_SIZE + 2)
<1>1. b.pmem \in [D -> Byte] /\ D \in SUBSET Int /\ addr - PMEM_BASE \in Int
  BY BusAssumption DEF BusOK
<1> HIDE DEF D
<1>2. PutBytes(b.pmem, addr - PMEM_BASE, x, len) = PutBytes(b.pmem, addr - PMEM_BASE, y, len)
  BY <1>1, PutBytesSame
<1>3. b.io \in [IoIndex -> Byte] /\ IoIndex \in SUBSET Int
  BY DEF BusOK, IoIndex
<1>4. ASSUME NEW i \in DeviceIds
      PROVE  map_write(b, addr, x, len, i, mmioLow) = map_write(b, addr, y, len, i, mmioLow)
  <2>1. Space[i] + addr - mmioLow[i] \in Int
    BY SpaceNext, LowFacts
  <2>2. PutBytes(b.io, Space[i] + addr - mmioLow[i], x, len)
          = PutBytes(b.io, Space[i] + addr - mmioLow[i], y, len)
    BY <1>3, <2>1, PutBytesSame
  <2> QED
    BY <2>2 DEF map_write
<1>5. fetch_mmio_map(addr) = 0 \/ fetch_mmio_map(addr) \in DeviceIds
  BY MmioMap
<1>6. map_write(b, addr, x, len, 0, mmioLow) = map_write(b, addr, y, len, 0, mmioLow)
  BY DEF map_write
<1> QED
  BY <1>2, <1>4, <1>5, <1>6 DEF paddr_write

-----------------------------------------------------------------------------
(* The keyboard's ring.                                                    *)

\* The keys from position f up to position r of the ring.
RingOf(queue, f, r) ==
  [i \in 1..((r - f) % KEY_QUEUE_LEN) |-> queue[(f + i - 1) % KEY_QUEUE_LEN]]

\* Positions wrap once.
LEMMA RingIndex ==
  ASSUME NEW n \in Int, -KEY_QUEUE_LEN <= n, n < 2 * KEY_QUEUE_LEN
  PROVE  /\ KEY_QUEUE_LEN \in Nat \ {0, 1}
         /\ n % KEY_QUEUE_LEN = CASE n < 0 -> n + KEY_QUEUE_LEN
                                  [] 0 <= n /\ n < KEY_QUEUE_LEN -> n
                                  [] OTHER -> n - KEY_QUEUE_LEN
         /\ n % KEY_QUEUE_LEN \in KeyIndex
<1> DEFINE L == KEY_QUEUE_LEN
<1>1. L \in Nat \ {0, 1}
  BY BusAssumption
<1>2. CASE n < 0
  <2>1. n = L * (-1) + (n + L) /\ n + L \in 0..(L - 1)
    BY <1>1, <1>2
  <2>2. (L * (-1) + (n + L)) % L = n + L
    BY <1>1, <2>1, DivUnique
  <2> QED
    BY <1>1, <1>2, <2>1, <2>2 DEF KeyIndex
<1>3. CASE 0 <= n /\ n < L
  <2>1. n % L = n
    BY <1>1, <1>3, ModSmall
  <2> QED
    BY <1>1, <1>3, <2>1 DEF KeyIndex
<1>4. CASE L <= n
  <2>1. n = L * 1 + (n - L) /\ n - L \in 0..(L - 1)
    BY <1>1, <1>4
  <2>2. (L * 1 + (n - L)) % L = n - L
    BY <1>1, <2>1, DivUnique
  <2> QED
    BY <1>1, <1>4, <2>1, <2>2 DEF KeyIndex
<1> QED
  BY <1>1, <1>2, <1>3, <1>4

\* How many keys there are, and where key i is.
LEMMA RingPlaces ==
  ASSUME NEW f \in KeyIndex, NEW r \in KeyIndex
  PROVE  /\ KEY_QUEUE_LEN \in Nat \ {0, 1} /\ f \in Int /\ r \in Int
         /\ (r - f) % KEY_QUEUE_LEN = IF r >= f THEN r - f ELSE r - f + KEY_QUEUE_LEN
         /\ (r - f) % KEY_QUEUE_LEN \in KeyIndex
         /\ \A i \in 1..KEY_QUEUE_LEN :
              /\ (f + i - 1) % KEY_QUEUE_LEN =
                   IF f + i - 1 < KEY_QUEUE_LEN THEN f + i - 1 ELSE f + i - 1 - KEY_QUEUE_LEN
              /\ (f + i - 1) % KEY_QUEUE_LEN \in KeyIndex
         /\ (f + 1) % KEY_QUEUE_LEN = IF f + 1 = KEY_QUEUE_LEN THEN 0 ELSE f + 1
         /\ (f + 1) % KEY_QUEUE_LEN \in KeyIndex
<1>1. KEY_QUEUE_LEN \in Nat \ {0, 1} /\ f \in Int /\ r \in Int
  BY BusAssumption DEF KeyIndex
<1>2. r - f \in Int /\ -KEY_QUEUE_LEN <= r - f /\ r - f < 2 * KEY_QUEUE_LEN
  BY <1>1 DEF KeyIndex
<1>3. /\ (r - f) % KEY_QUEUE_LEN = IF r >= f THEN r - f ELSE r - f + KEY_QUEUE_LEN
      /\ (r - f) % KEY_QUEUE_LEN \in KeyIndex
  <2>1. r - f < KEY_QUEUE_LEN
    BY <1>1 DEF KeyIndex
  <2> QED
    BY <1>1, <1>2, <2>1, RingIndex
<1>4. ASSUME NEW i \in 1..KEY_QUEUE_LEN
      PROVE  /\ (f + i - 1) % KEY_QUEUE_LEN =
                   IF f + i - 1 < KEY_QUEUE_LEN THEN f + i - 1 ELSE f + i - 1 - KEY_QUEUE_LEN
             /\ (f + i - 1) % KEY_QUEUE_LEN \in KeyIndex
  <2> DEFINE n == f + i - 1
  <2>1. n \in Int /\ 0 <= n /\ -KEY_QUEUE_LEN <= n /\ n < 2 * KEY_QUEUE_LEN
    BY <1>1 DEF KeyIndex
  <2> HIDE DEF n
  <2>2. n % KEY_QUEUE_LEN = (IF n < KEY_QUEUE_LEN THEN n ELSE n - KEY_QUEUE_LEN)
        /\ n % KEY_QUEUE_LEN \in KeyIndex
    BY <1>1, <2>1, RingIndex
  <2> USE DEF n
  <2>3. (f + i - 1) % KEY_QUEUE_LEN \in KeyIndex
    BY <2>2
  <2>4. CASE f + i - 1 < KEY_QUEUE_LEN
    BY <2>2, <2>3, <2>4
  <2>5. CASE ~(f + i - 1 < KEY_QUEUE_LEN)
    <3>1. n - KEY_QUEUE_LEN = f + i - 1 - KEY_QUEUE_LEN
      BY <1>1
    <3> QED
      BY <1>1, <2>1, <2>2, <2>3, <2>5, <3>1
  <2> QED
    BY <2>4, <2>5
<1>5. /\ (f + 1) % KEY_QUEUE_LEN = IF f + 1 = KEY_QUEUE_LEN THEN 0 ELSE f + 1
      /\ (f + 1) % KEY_QUEUE_LEN \in KeyIndex
  <2>1. f + 1 \in Int /\ -KEY_QUEUE_LEN <= f + 1 /\ f + 1 < 2 * KEY_QUEUE_LEN /\ 0 <= f + 1
        /\ f + 1 <= KEY_QUEUE_LEN
    BY <1>1 DEF KeyIndex
  <2> QED
    BY <1>1, <2>1, RingIndex
<1> QED
  BY <1>1, <1>3, <1>4, <1>5

\* A function on 1..n is a sequence of length n.
LEMMA FunSeq ==
  ASSUME NEW V, NEW n \in Nat, NEW s \in [1..n -> V]
  PROVE  s \in Seq(V) /\ Len(s) = n
OBVIOUS

\* An empty ring.
LEMMA RingEmpty ==
  ASSUME NEW queue, NEW f \in KeyIndex
  PROVE  RingOf(queue, f, f) = <<>>
<1>1. (f - f) % KEY_QUEUE_LEN = 0
  BY RingPlaces
<1> QED
  BY <1>1 DEF RingOf

\* A key that does not fill the ring is appended.
LEMMA RingPress ==
  ASSUME NEW queue \in [KeyIndex -> 0..(HALF - 1)], NEW f \in KeyIndex, NEW r \in KeyIndex,
         NEW c \in 0..(HALF - 1), (r + 1) % KEY_QUEUE_LEN # f
  PROVE  RingOf([queue EXCEPT ![r] = c], f, (r + 1) % KEY_QUEUE_LEN) = Append(RingOf(queue, f, r), c)
<1> DEFINE L == KEY_QUEUE_LEN
           n == (r - f) % L
           m == (((r + 1) % L) - f) % L
           at(i) == (f + i - 1) % L
           s == RingOf(queue, f, r)
           q2 == [queue EXCEPT ![r] = c]
           t == RingOf(q2, f, (r + 1) % L)
<1>1. L \in Nat \ {0, 1} /\ f \in 0..(L - 1) /\ r \in 0..(L - 1)
  BY BusAssumption DEF KeyIndex
<1>2. /\ n = IF r >= f THEN r - f ELSE r - f + L
      /\ (r + 1) % L \in KeyIndex
      /\ (r + 1) % L = IF r + 1 = L THEN 0 ELSE r + 1
  BY RingPlaces
<1>3. m = n + 1 /\ n \in 0..(L - 2)
  <2> DEFINE r2 == (r + 1) % L
  <2>1. r2 \in KeyIndex /\ r2 # f /\ r2 = (IF r + 1 = L THEN 0 ELSE r + 1)
    BY <1>2
  <2> HIDE DEF r2
  <2>2. (r2 - f) % L = IF r2 >= f THEN r2 - f ELSE r2 - f + L
    BY <2>1, RingPlaces
  <2>3. (r2 - f) % L = n + 1 /\ n \in 0..(L - 2)
    <3> HIDE DEF n
    <3> QED
      BY <1>1, <1>2, <2>1, <2>2
  <2> QED
    BY <2>3 DEF r2
<1>4. s = [i \in 1..n |-> queue[at(i)]] /\ t = [i \in 1..m |-> q2[at(i)]]
  BY DEF RingOf
<1>5. \A i \in 1..n : at(i) # r /\ at(i) \in KeyIndex
  <2> SUFFICES ASSUME NEW i \in 1..n PROVE at(i) # r /\ at(i) \in KeyIndex
    OBVIOUS
  <2>1. i \in 1..L
    BY <1>1, <1>3
  <2>2. at(i) = (IF f + i - 1 < L THEN f + i - 1 ELSE f + i - 1 - L) /\ at(i) \in KeyIndex
    BY <2>1, RingPlaces
  <2> HIDE DEF at, n
  <2> QED
    BY <1>1, <1>2, <1>3, <2>1, <2>2
<1>6. at(n + 1) = r
  <2>1. n + 1 \in 1..L
    BY <1>1, <1>3
  <2>2. at(n + 1) = (IF f + (n + 1) - 1 < L THEN f + (n + 1) - 1 ELSE f + (n + 1) - 1 - L)
    BY <2>1, RingPlaces
  <2> HIDE DEF at, n
  <2> QED
    BY <1>1, <1>2, <1>3, <2>1, <2>2
<1> HIDE DEF at, n, m, s, t
<1>7. s \in Seq(0..(HALF - 1)) /\ Len(s) = n
  <2>1. s \in [1..n -> 0..(HALF - 1)]
    BY <1>4, <1>5
  <2>2. n \in Nat
    BY <1>3
  <2> QED
    BY <2>1, <2>2, FunSeq
<1>8. \A i \in 1..(n + 1) : t[i] = IF i = n + 1 THEN c ELSE s[i]
  <2> SUFFICES ASSUME NEW i \in 1..(n + 1) PROVE t[i] = IF i = n + 1 THEN c ELSE s[i]
    OBVIOUS
  <2>1. t[i] = q2[at(i)]
    BY <1>3, <1>4
  <2>2. CASE i = n + 1
    BY <1>6, <2>1, <2>2 DEF KeyIndex
  <2>3. CASE i # n + 1
    <3>1. i \in 1..n
      BY <1>3, <2>3
    <3> QED
      BY <1>4, <1>5, <2>1, <2>3, <3>1
  <2> QED
    BY <2>2, <2>3
<1>9. t \in Seq(0..(HALF - 1)) /\ Len(t) = n + 1
  <2>1. t = [i \in 1..(n + 1) |-> t[i]]
    BY <1>3, <1>4
  <2>2. ASSUME NEW i \in 1..(n + 1) PROVE t[i] \in 0..(HALF - 1)
    <3>1. i = n + 1 \/ (i # n + 1 /\ i \in 1..n)
      BY <1>3
    <3>2. i # n + 1 => s[i] \in 0..(HALF - 1)
      BY <1>4, <1>5, <3>1
    <3> QED
      BY <1>8, <3>2
  <2>3. t \in [1..(n + 1) -> 0..(HALF - 1)]
    BY <2>1, <2>2
  <2>4. n + 1 \in Nat
    BY <1>3
  <2> QED
    BY <2>3, <2>4, FunSeq
<1>10. t = Append(s, c)
  <2>1. /\ Append(s, c) \in Seq(0..(HALF - 1)) /\ Len(Append(s, c)) = n + 1
        /\ \A i \in 1..n : Append(s, c)[i] = s[i]
        /\ Append(s, c)[n + 1] = c
    BY <1>7, AppendProperties
  <2>2. \A i \in 1..(n + 1) : t[i] = Append(s, c)[i]
    <3> SUFFICES ASSUME NEW i \in 1..(n + 1) PROVE t[i] = Append(s, c)[i]
      OBVIOUS
    <3>1. i = n + 1 \/ (i # n + 1 /\ i \in 1..n)
      BY <1>3
    <3> QED
      BY <1>8, <2>1, <3>1
  <2> QED
    BY <1>9, <2>1, <2>2, SeqEqual
<1> QED
  BY <1>10 DEF s, t

\* The oldest key is taken from the front.
LEMMA RingTake ==
  ASSUME NEW queue \in [KeyIndex -> 0..(HALF - 1)], NEW f \in KeyIndex, NEW r \in KeyIndex,
         f # r
  PROVE  /\ RingOf(queue, f, r) # <<>>
         /\ Head(RingOf(queue, f, r)) = queue[f]
         /\ RingOf(queue, (f + 1) % KEY_QUEUE_LEN, r) = Tail(RingOf(queue, f, r))
<1> DEFINE L == KEY_QUEUE_LEN
           f2 == (f + 1) % L
           n == (r - f) % L
           m == (r - f2) % L
           at(i) == (f + i - 1) % L
           at2(i) == (f2 + i - 1) % L
           s == RingOf(queue, f, r)
           t == RingOf(queue, f2, r)
<1>1. L \in Nat \ {0, 1} /\ f \in 0..(L - 1) /\ r \in 0..(L - 1)
  BY BusAssumption DEF KeyIndex
<1>2. n = (IF r >= f THEN r - f ELSE r - f + L) /\ f2 \in KeyIndex
      /\ f2 = IF f + 1 = L THEN 0 ELSE f + 1
  BY RingPlaces
<1>3. m = n - 1 /\ n \in 1..(L - 1)
  <2> HIDE DEF f2
  <2>1. m = IF r >= f2 THEN r - f2 ELSE r - f2 + L
    BY <1>2, RingPlaces
  <2> HIDE DEF n, m
  <2> QED
    BY <1>1, <1>2, <2>1
<1>4. s = [i \in 1..n |-> queue[at(i)]] /\ t = [i \in 1..m |-> queue[at2(i)]]
  BY DEF RingOf
<1>5. at(1) = f
  <2>1. f + 1 - 1 = f /\ f % L = f
    BY <1>1, ModSmall
  <2> QED
    BY <2>1
<1>6. \A i \in 1..m : at2(i) = at(i + 1)
  <2> SUFFICES ASSUME NEW i \in 1..m PROVE at2(i) = at(i + 1)
    OBVIOUS
  <2> HIDE DEF f2
  <2>1. i \in 1..L /\ i + 1 \in 1..L
    BY <1>1, <1>3
  <2>2. at2(i) = (IF f2 + i - 1 < L THEN f2 + i - 1 ELSE f2 + i - 1 - L)
    BY <1>2, <2>1, RingPlaces
  <2>3. at(i + 1) = (IF f + (i + 1) - 1 < L THEN f + (i + 1) - 1 ELSE f + (i + 1) - 1 - L)
    BY <2>1, RingPlaces
  <2> HIDE DEF at, at2, n, m
  <2> QED
    BY <1>1, <1>2, <1>3, <2>1, <2>2, <2>3
<1>0. \A i \in 1..n : at(i) \in KeyIndex
  <2>1. \A i \in 1..n : i \in 1..L
    BY <1>1, <1>3
  <2> QED
    BY <2>1, RingPlaces
<1> HIDE DEF at, at2, n, m, s, t, f2
<1>7. s \in Seq(0..(HALF - 1)) /\ Len(s) = n /\ s # <<>> /\ s[1] = queue[f]
  <2>1. s \in [1..n -> 0..(HALF - 1)]
    BY <1>0, <1>4
  <2>2. s[1] = queue[f]
    BY <1>3, <1>4, <1>5
  <2>3. s \in Seq(0..(HALF - 1)) /\ Len(s) = n
    <3>1. n \in Nat
      BY <1>3
    <3> QED
      BY <2>1, <3>1, FunSeq
  <2> QED
    BY <1>3, <2>2, <2>3
<1>8. Head(s) = queue[f]
  BY <1>7
<1>9. /\ Tail(s) \in Seq(0..(HALF - 1)) /\ Len(Tail(s)) = m
      /\ \A i \in 1..m : Tail(s)[i] = s[i + 1]
  BY <1>3, <1>7, HeadTailProperties
<1>10. \A i \in 1..m : t[i] = s[i + 1]
  <2> SUFFICES ASSUME NEW i \in 1..m PROVE t[i] = s[i + 1]
    OBVIOUS
  <2>1. i + 1 \in 1..n
    BY <1>3
  <2> QED
    BY <1>4, <1>6, <2>1
<1>11. t \in Seq(0..(HALF - 1)) /\ Len(t) = m
  <2>1. \A i \in 1..m : t[i] \in 0..(HALF - 1)
    <3>1. \A i \in 1..m : i + 1 \in 1..n
      BY <1>3
    <3> QED
      BY <1>0, <1>4, <1>10, <3>1
  <2>2. t = [i \in 1..m |-> t[i]]
    BY <1>4
  <2>3. t \in [1..m -> 0..(HALF - 1)]
    BY <2>1, <2>2
  <2>4. m \in Nat
    BY <1>3
  <2> QED
    BY <2>3, <2>4, FunSeq
<1>12. t = Tail(s)
  BY <1>9, <1>10, <1>11, SeqEqual
<1> QED
  BY <1>7, <1>8, <1>12 DEF s, t, f2

\* What a key event leaves.
LEMMA SentKey ==
  ASSUME NEW b, BusOK(b), b.dead = FALSE, NEW key \in 0..(KEYDOWN_MASK - 1), NEW down \in BOOLEAN
  PROVE  LET c == send_key(b, key, down)
             code == KeyCode(key, down)
         IN  /\ BusOK(c) /\ c.io = b.io
             /\ \/ c = b
                \/ /\ code \in 1..(HALF - 1) /\ c.key_f = b.key_f
                   /\ c.key_queue = [b.key_queue EXCEPT ![b.key_r] = code]
                   /\ c.key_r = (b.key_r + 1) % KEY_QUEUE_LEN
                   /\ c.key_r = b.key_f => c.dead = TRUE
<1> DEFINE c == send_key(b, key, down)
           code == KeyCode(key, down)
           r2 == (b.key_r + 1) % KEY_QUEUE_LEN
           b1 == Queued(b, code)
<1>1. CASE key = KEY_NONE
  <2>1. c = b
    BY <1>1 DEF send_key
  <2> HIDE DEF c
  <2> QED
    BY <2>1 DEF c
<1>2. CASE key # KEY_NONE
  <2>1. code \in 1..(HALF - 1)
    <3>1. KEYDOWN_MASK \in Nat /\ 2 * KEYDOWN_MASK <= HALF /\ HALF \in Nat
      <4>1. HALF \in Nat /\ HALF \in Int /\ 2 \in Nat \ {0}
        BY RadixFacts
      <4>2. HALF = 2 * (HALF \div 2) + (HALF % 2) /\ HALF \div 2 \in Int /\ HALF % 2 \in 0..(2 - 1)
            /\ (HALF \in Nat => HALF \div 2 \in Nat)
        BY <4>1, DivMod
      <4> QED
        BY <4>1, <4>2 DEF KEYDOWN_MASK
    <3> QED
      BY <1>2, <3>1 DEF KeyCode, KEY_NONE
  <2>2. r2 \in KeyIndex /\ b.key_r \in KeyIndex
    <3>1. b.key_r \in KeyIndex
      BY DEF BusOK
    <3> QED
      BY <3>1, RingPlaces
  <2>3. c = [b1 EXCEPT !.dead = b1.dead \/ b1.key_r = b1.key_f]
    BY <1>2 DEF send_key
  <2> HIDE DEF code, r2, c
  <2>4. /\ BusOK(b1) /\ b1.io = b.io /\ b1.key_f = b.key_f /\ b1.dead = FALSE
        /\ b1.key_queue = [b.key_queue EXCEPT ![b.key_r] = code] /\ b1.key_r = r2
    <3> DEFINE queue == [b.key_queue EXCEPT ![b.key_r] = code]
    <3>1. b.key_queue \in [KeyIndex -> 0..(HALF - 1)]
      BY DEF BusOK
    <3>2. queue \in [KeyIndex -> 0..(HALF - 1)]
      BY <2>1, <2>2, <3>1
    <3>3. b1 = [b EXCEPT !.key_queue = queue, !.key_r = r2]
      BY DEF Queued, r2, BusOK
    <3> HIDE DEF queue, b1
    <3>4. BusOK(b1) /\ b1.io = b.io /\ b1.key_f = b.key_f /\ b1.dead = b.dead
          /\ b1.key_queue = queue /\ b1.key_r = r2
      BY <2>2, <3>2, <3>3 DEF BusOK
    <3> QED
      BY <3>4 DEF queue
  <2> HIDE DEF b1
  <2>5. (b1.dead \/ b1.key_r = b1.key_f) \in BOOLEAN
    BY <2>4
  <2> DEFINE d == (b1.dead \/ b1.key_r = b1.key_f)
  <2>6. d \in BOOLEAN /\ (b1.key_r = b1.key_f => d = TRUE) /\ c = [b1 EXCEPT !.dead = d]
    BY <2>3, <2>5
  <2> HIDE DEF d
  <2>7. /\ BusOK(c) /\ c.io = b.io /\ c.key_f = b.key_f /\ c.key_queue = b1.key_queue
        /\ c.key_r = r2 /\ c.dead = d
    BY <2>4, <2>6 DEF BusOK
  <2>8. c.key_r = b.key_f => c.dead = TRUE
    BY <2>4, <2>6, <2>7
  <2> QED
    BY <2>1, <2>4, <2>7, <2>8 DEF c, code, r2
<1> QED
  BY <1>1, <1>2

\* The bus at the start: nothing in the ring, no key in the register.
LEMMA BusInitFacts ==
  ASSUME NEW mem \in [0..(PMEM_SIZE + 2) -> Byte]
  PROVE  LET b == BusInit(mem)
         IN  BusOK(b) /\ b.dead = FALSE /\ b.key_f = 0 /\ b.key_r = 0 /\ KeyData(b) = KEY_NONE
<1> DEFINE zero == [k \in IoIndex |-> 0]
           io == PutBytes(zero, Space[ScreenId], VGACTL, 4)
           queue == [k \in KeyIndex |-> 0]
           b == BusInit(mem)
<1>1. b = [pmem |-> mem, io |-> io, key_queue |-> queue, key_f |-> 0, key_r |-> 0,
           now |-> 0, tty |-> <<>>, dead |-> ~init_device_succeeds]
  BY DEF BusInit, ScreenId, Named, IoIndex, KeyIndex
<1> HIDE DEF b
<1>2. init_device_succeeds
  BY DeviceAssumption
<1>3. zero \in [IoIndex -> Byte]
  BY RadixFacts DEF Byte
<1>4. ScreenId \in DeviceIds /\ ScreenId # KeyId /\ LenOf(ScreenId) >= 4 /\ LenOf(ScreenId) \in Nat
  BY NamedDevices, DeviceFacts
<1>5. io \in [IoIndex -> Byte] /\ Within(zero, io, ScreenId)
  <2>1. 0 \in Nat /\ 0 + 4 <= LenOf(ScreenId) + 3 /\ 4 \in Widths /\ VGACTL \in Int
    BY <1>4, BusAssumption DEF Widths
  <2>2. Space[ScreenId] + 0 = Space[ScreenId]
    BY <1>4, SpaceNext
  <2> HIDE DEF zero
  <2>3. /\ PutBytes(zero, Space[ScreenId] + 0, VGACTL, 4) \in [IoIndex -> Byte]
        /\ Within(zero, PutBytes(zero, Space[ScreenId] + 0, VGACTL, 4), ScreenId)
    BY <1>3, <1>4, <2>1, WithinStore
  <2> QED
    BY <2>2, <2>3
<1> HIDE DEF io
<1>6. Bytes(io, Space[KeyId], 4) = Bytes(zero, Space[KeyId], 4)
  <2> HIDE DEF zero
  <2> QED
    BY <1>3, <1>4, <1>5, KeyDataKept
<1>7. Bytes(zero, Space[KeyId], 4) = 0
  <2>1. Space[KeyId] \in Nat /\ Space[KeyId] + 4 + 3 <= IO_SPACE_MAX
    BY NamedDevices, SpaceRoom
  <2>2. \A k \in 0..3 : Space[KeyId] + k \in IoIndex
    BY <2>1, DeviceFacts DEF IoIndex
  <2>3. \A k \in {0, 1, 2, 3} : zero[Space[KeyId] + k] * Radix(k) = 0
    <3>1. \A k \in {0, 1, 2, 3} : zero[Space[KeyId] + k] = 0
      BY <2>2
    <3>2. \A k \in {0, 1, 2, 3} : 0 * Radix(k) = 0
      BY RadixFacts
    <3> HIDE DEF zero
    <3> QED
      BY <3>1, <3>2
  <2> HIDE DEF zero
  <2> QED
    BY <2>3 DEF Bytes
<1>8. queue \in [KeyIndex -> 0..(HALF - 1)] /\ 0 \in KeyIndex
  BY RadixFacts, BusAssumption DEF KeyIndex
<1> HIDE DEF queue
<1>9. BusOK(b) /\ b.dead = FALSE
  <2> DEFINE d == ~init_device_succeeds
  <2>1. d = FALSE
    BY <1>2
  <2>2. b = [pmem |-> mem, io |-> io, key_queue |-> queue, key_f |-> 0, key_r |-> 0,
             now |-> 0, tty |-> <<>>, dead |-> d]
    BY <1>1
  <2> HIDE DEF d
  <2>3. <<>> \in Seq(Byte)
    OBVIOUS
  <2> QED
    BY <1>5, <1>8, <2>1, <2>2, <2>3 DEF BusOK
<1>10. KeyData(b) = KEY_NONE
  BY <1>1, <1>6, <1>7 DEF KeyData, KEY_NONE
<1> QED
  BY <1>1, <1>9, <1>10 DEF b
=============================================================================
