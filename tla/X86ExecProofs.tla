--------------------------- MODULE X86ExecProofs ----------------------------
(***************************************************************************)
(* X86Exec for all constants: every encoding of a mov is executed as the   *)
(* manual says, an access never changes the registers of another device,   *)
(* and the keyboard implements a queue of keys.                            *)
(***************************************************************************)
EXTENDS X86Exec, BusProofs

-----------------------------------------------------------------------------
(* The bytes of an instruction.                                            *)

\* The fields of a ModR/M or SIB byte.
LEMMA FieldFacts ==
  ASSUME NEW top \in 0..3, NEW mid \in 0..7, NEW low \in 0..7
  PROVE  /\ Fields(top, mid, low) \in Int
         /\ ModField(Fields(top, mid, low)) = top
         /\ RegField(Fields(top, mid, low)) = mid
         /\ RmField(Fields(top, mid, low)) = low
BY DEF Fields, ModField, RegField, RmField

\* Displacements and immediates are written byte by byte.
LEMMA LowFacts2 ==
  ASSUME NEW x \in Int, NEW n \in {0, 1, 2, 4}
  PROVE  /\ Low(x, n) \in Seq(Int) /\ Len(Low(x, n)) = n
         /\ \A i \in 1..n : Low(x, n)[i] = ByteOf(x, i - 1)
<1>1. \A i \in 1..n : ByteOf(x % WORD, i - 1) = ByteOf(x, i - 1) /\ ByteOf(x, i - 1) \in Int
  <2> SUFFICES ASSUME NEW i \in 1..n
               PROVE  ByteOf(x % WORD, i - 1) = ByteOf(x, i - 1) /\ ByteOf(x, i - 1) \in Int
    OBVIOUS
  <2>1. i - 1 \in 0..3
    OBVIOUS
  <2>2. ByteOf(x, i - 1) \in Byte
    BY <2>1, ByteType
  <2> QED
    BY <2>1, <2>2, ModBytes DEF Byte
<1>2. Low(x, n) \in [1..n -> Int] /\ \A i \in 1..n : Low(x, n)[i] = ByteOf(x, i - 1)
  BY <1>1 DEF Low
<1>3. n \in Nat
  OBVIOUS
<1> HIDE DEF Low
<1> QED
  BY <1>2, <1>3, FunSeq

\* ... and fetched again: a datum is its value modulo its width.
LEMMA FetchFacts ==
  ASSUME NEW x \in Int, NEW n \in {0, 1, 2, 4}, NEW code, NEW at \in Nat,
         \A i \in 1..n : code[at + i - 1] = ByteOf(x, i - 1)
  PROVE  /\ Fetch(code, at, n) \in 0..(WORD - 1)
         /\ \A k \in 0..3 : ByteOf(Fetch(code, at, n), k) = IF k < n THEN ByteOf(x, k) ELSE 0
<1>1. ASSUME NEW k \in 0..3, k < n PROVE code[at + k] = ByteOf(x, k)
  <2>1. k + 1 \in 1..n /\ at + (k + 1) - 1 = at + k /\ (k + 1) - 1 = k
    BY <1>1
  <2> QED
    BY <2>1
<1>2. \A k \in 0..3 : k < n => code[at + k] \in Byte
  BY <1>1, ByteType
<1>3. /\ Bytes(code, at, n) \in 0..(WORD - 1)
      /\ \A k \in 0..3 : ByteOf(Bytes(code, at, n), k) = IF k < n THEN code[at + k] ELSE 0
  BY <1>2, BytesFacts
<1> QED
  BY <1>1, <1>3 DEF Fetch

\* Four bytes of an operand, low byte first, fetch to the operand.
LEMMA FetchWord ==
  ASSUME NEW x \in Int, NEW code, NEW at \in Nat,
         \A i \in 1..4 : code[at + i - 1] = ByteOf(x, i - 1)
  PROVE  Fetch(code, at, 4) = x % WORD
<1> DEFINE y == Fetch(code, at, 4)
<1>1. y \in 0..(WORD - 1) /\ \A k \in 0..3 : ByteOf(y, k) = IF k < 4 THEN ByteOf(x, k) ELSE 0
  BY FetchFacts
<1> HIDE DEF y
<1>2. x % WORD \in 0..(WORD - 1) /\ \A k \in 0..3 : ByteOf(x % WORD, k) = ByteOf(x, k)
  BY ModBytes
<1>3. \A k \in 0..3 : ByteOf(y, k) = ByteOf(x % WORD, k)
  BY <1>1, <1>2
<1>4. y = x % WORD
  BY <1>1, <1>2, <1>3, SameWord
<1> QED
  BY <1>4 DEF y

\* And one byte to its low byte.
LEMMA FetchByte ==
  ASSUME NEW x \in Int, NEW code, NEW at \in Nat, code[at] = ByteOf(x, 0)
  PROVE  Fetch(code, at, 1) = x % BYTE
<1>1. ByteOf(x, 0) = x % BYTE /\ x % BYTE \in Int
  <2>1. ByteOf(x, 0) = x % BYTE /\ BYTE \in Nat \ {0}
    BY ByteOfFacts, RadixFacts
  <2>2. ByteOf(x, 0) \in Byte
    BY ByteType
  <2> QED
    BY <2>1, <2>2 DEF Byte
<1>2. Fetch(code, at, 1) = code[at + 0] * Radix(0) + 0 + 0 + 0
  BY DEF Fetch, Bytes
<1>3. at + 0 = at /\ Radix(0) = 1
  BY RadixFacts
<1> QED
  BY <1>1, <1>2, <1>3

\* A displacement of one byte is extended with its sign.
LEMMA SignedByte ==
  ASSUME NEW x \in Int, -(BYTE \div 2) <= x, x < BYTE \div 2
  PROVE  Signed8(x % BYTE) = x % WORD
<1>1. BYTE \in Nat \ {0, 1} /\ WORD \in Nat \ {0} /\ BYTE <= WORD
  <2>1. BYTE \in Nat \ {0, 1} /\ HALF \in Nat \ {0} /\ HALF * BYTE \in Nat \ {0}
        /\ WORD = (HALF * BYTE) * BYTE /\ WORD \in Nat \ {0}
    BY RadixFacts
  <2> DEFINE n == HALF * BYTE
  <2> HIDE DEF n
  <2>2. n \in Nat \ {0} /\ WORD = n * BYTE
    BY <2>1 DEF n
  <2>3. BYTE <= n * BYTE
    BY <2>1, <2>2
  <2> QED
    BY <2>1, <2>2, <2>3
<1> DEFINE h == BYTE \div 2
<1>2. h \in Nat /\ 2 * h <= BYTE /\ h < BYTE
  <2>1. BYTE = 2 * (BYTE \div 2) + (BYTE % 2) /\ BYTE % 2 \in 0..1 /\ BYTE \div 2 \in Int
    BY <1>1
  <2> QED
    BY <1>1, <2>1
<1> HIDE DEF h
<1>3. CASE x >= 0
  <2>1. x \in 0..(BYTE - 1) /\ x \in 0..(WORD - 1) /\ x < h
    BY <1>1, <1>2, <1>3 DEF h
  <2>2. x % BYTE = x /\ x % WORD = x
    BY <1>1, <2>1, ModSmall
  <2> QED
    BY <1>2, <2>1, <2>2 DEF Signed8, h
<1>4. CASE x < 0
  <2>0. -h <= x
    BY DEF h
  <2>1. x + BYTE \in 0..(BYTE - 1) /\ x + WORD \in 0..(WORD - 1) /\ x + BYTE >= h
    BY <1>1, <1>2, <1>4, <2>0
  <2>2. x = BYTE * (-1) + (x + BYTE) /\ x = WORD * (-1) + (x + WORD)
    BY <1>1
  <2> DEFINE q == -1  y == x + BYTE  z == x + WORD
  <2>i. q \in Int /\ y \in 0..(BYTE - 1) /\ z \in 0..(WORD - 1)
        /\ BYTE \in Nat \ {0} /\ WORD \in Nat \ {0}
    BY <1>1, <2>1
  <2> HIDE DEF q, y, z
  <2>3. (BYTE * q + y) % BYTE = y
    BY <2>i, DivUnique
  <2>4. (WORD * q + z) % WORD = z
    BY <2>i, DivUnique
  <2>5. x % BYTE = x + BYTE /\ x % WORD = x + WORD
    BY <2>2, <2>3, <2>4 DEF q, y, z
  <2> QED
    BY <1>1, <1>2, <2>1, <2>5 DEF Signed8, h
<1> QED
  BY <1>3, <1>4

-----------------------------------------------------------------------------
(* Operands in memory.                                                     *)

RegsOK == gpr \in [0..7 -> 0..(WORD - 1)]

\* The size of the displacement after a ModR/M byte.
SizeOf(mod, base) ==
  CASE mod = 0 -> (IF base = R_EBP THEN 4 ELSE 0) [] mod = 1 -> 1 [] mod = 2 -> 4

\* What load_addr starts from and adds.
BaseOf(mod, base) == IF mod = 0 /\ base = R_EBP THEN 0 ELSE gpr[base]
IndexedBy(b, index, ss) ==
  IF index = R_ESP THEN b ELSE c_add(b, (gpr[index] * 2^ss) % WORD)

\* The size n of a displacement x that mod announces.
DispOK(x, n) ==
  \/ n = 0 /\ x = 0
  \/ n = 1 /\ -(BYTE \div 2) <= x /\ x < BYTE \div 2
  \/ n = 4

\* It is what code holds at at.
DispAt(code, at, x, n) ==
  /\ x \in Int /\ n \in {0, 1, 4} /\ DispOK(x, n)
  /\ \A i \in 1..n : code[at + i - 1] = ByteOf(x, i - 1)

\* The fields of the ModR/M byte and of the SIB byte.
SibAt(code, pos, mod, index, base, ss) ==
  /\ ModField(code[pos]) = mod /\ RmField(code[pos]) = R_ESP
  /\ ModField(code[pos + 1]) = ss /\ RegField(code[pos + 1]) = index
  /\ RmField(code[pos + 1]) = base

SibLoads(code, pos, mod, index, base, ss, x, n) ==
  load_addr(code, pos) =
    [maddr |-> c_add(IndexedBy(BaseOf(mod, base), index, ss), x % WORD), pos |-> pos + 2 + n]

\* A displacement that fits its size is sign-extended back to itself.
LEMMA DispFetched ==
  ASSUME NEW x \in Int, NEW n \in {0, 1, 4}, DispOK(x, n), NEW code, NEW at \in Nat,
         \A i \in 1..n : code[at + i - 1] = ByteOf(x, i - 1)
  PROVE  (IF n = 1 THEN Signed8(Fetch(code, at, n)) ELSE Fetch(code, at, n)) = x % WORD
<1>1. CASE n = 0
  <2>1. Fetch(code, at, 0) = 0
    BY DEF Fetch, Bytes
  <2>2. x = 0
    BY <1>1 DEF DispOK
  <2>3. 0 % WORD = 0
    BY RadixFacts, ModSmall
  <2> QED
    BY <1>1, <2>1, <2>2, <2>3
<1>2. CASE n = 1
  <2>1. 1 \in 1..n /\ at + 1 - 1 = at /\ 1 - 1 = 0
    BY <1>2
  <2>2. code[at] = ByteOf(x, 0)
    BY <2>1
  <2>3. Fetch(code, at, 1) = x % BYTE
    BY <2>2, FetchByte
  <2>4. Signed8(x % BYTE) = x % WORD
    BY <1>2, SignedByte DEF DispOK
  <2> QED
    BY <1>2, <2>3, <2>4
<1>3. CASE n = 4
  <2>1. Fetch(code, at, 4) = x % WORD
    BY <1>3, FetchWord
  <2> QED
    BY <1>3, <2>1
<1> QED
  BY <1>1, <1>2, <1>3

\* The parts of an address are added modulo WORD, in whatever order.
LEMMA AddressSum ==
  ASSUME NEW b \in Int, NEW i \in Int, NEW x \in Int
  PROVE  /\ c_add(b, x % WORD) = (b + x) % WORD
         /\ c_add(c_add(b, i % WORD), x % WORD) = (b + i + x) % WORD
<1>1. WORD \in Nat \ {0} /\ x % WORD \in Int /\ i % WORD \in Int
  BY RadixFacts, ModBytes
<1>2. ASSUME NEW u \in Int, NEW v \in Int, v % WORD \in Int
      PROVE  (u + (v % WORD)) % WORD = (u + v) % WORD
  <2>1. ((v % WORD) + u) % WORD = (v + u) % WORD
    BY <1>1, ModAdd
  <2>2. (v % WORD) + u = u + (v % WORD) /\ v + u = u + v
    BY <1>2
  <2> QED
    BY <2>1, <2>2
<1>3. c_add(b, x % WORD) = (b + x) % WORD
  BY <1>1, <1>2 DEF c_add
<1>4. (b + (i % WORD)) % WORD = (b + i) % WORD
  BY <1>1, <1>2
<1>5. c_add(c_add(b, i % WORD), x % WORD) = (((b + i) % WORD) + (x % WORD)) % WORD
  BY <1>4 DEF c_add
<1>6. (((b + i) % WORD) + (x % WORD)) % WORD = ((b + i) + (x % WORD)) % WORD
  <2>1. b + i \in Int
    OBVIOUS
  <2> QED
    BY <1>1, <2>1, ModAdd
<1>7. ((b + i) + (x % WORD)) % WORD = ((b + i) + x) % WORD
  <2>1. b + i \in Int
    OBVIOUS
  <2> QED
    BY <1>1, <1>2, <2>1
<1> QED
  BY <1>3, <1>5, <1>6, <1>7

\* load_addr with a SIB byte and without.
LEMMA LoadAddrSib ==
  ASSUME NEW code, NEW pos \in Nat, NEW mod \in 0..2, NEW ss \in 0..3, NEW index \in 0..7,
         NEW base \in 0..7, NEW n \in {0, 1, 4}, NEW x \in Int,
         SibAt(code, pos, mod, index, base, ss), n = SizeOf(mod, base),
         DispAt(code, pos + 2, x, n)
  PROVE  SibLoads(code, pos, mod, index, base, ss, x, n)
<1> DEFINE at == pos + 2
<1>1. (IF n = 1 THEN Signed8(Fetch(code, at, n)) ELSE Fetch(code, at, n)) = x % WORD
  <2>1. at \in Nat
    OBVIOUS
  <2>2. x \in Int /\ n \in {0, 1, 4} /\ DispOK(x, n) /\ \A i \in 1..n : code[at + i - 1] = ByteOf(x, i - 1)
    BY DEF DispAt
  <2> HIDE DEF at
  <2> QED
    BY <2>1, <2>2, DispFetched
<1>2. (CASE mod = 0 -> (IF mod = 0 /\ base = R_EBP THEN 4 ELSE 0) [] mod = 1 -> 1 [] mod = 2 -> 4) = n
  BY DEF SizeOf
<1> QED
  BY <1>1, <1>2 DEF load_addr, BaseOf, IndexedBy, SibAt, SibLoads

\* load_addr of a ModR/M byte without a SIB byte.
LEMMA LoadAddrPlain ==
  ASSUME NEW code, NEW pos \in Nat, NEW mod \in 0..2,
         NEW base \in (0..7) \ {R_ESP}, NEW n \in {0, 1, 4}, NEW x \in Int,
         ModField(code[pos]) = mod, RmField(code[pos]) = base, n = SizeOf(mod, base),
         DispAt(code, pos + 1, x, n)
  PROVE  load_addr(code, pos) =
           [maddr |-> c_add(BaseOf(mod, base), x % WORD), pos |-> pos + 1 + n]
<1> DEFINE at == pos + 1
<1>1. (IF n = 1 THEN Signed8(Fetch(code, at, n)) ELSE Fetch(code, at, n)) = x % WORD
  <2>1. at \in Nat
    OBVIOUS
  <2>2. x \in Int /\ n \in {0, 1, 4} /\ DispOK(x, n) /\ \A i \in 1..n : code[at + i - 1] = ByteOf(x, i - 1)
    BY DEF DispAt
  <2> HIDE DEF at
  <2> QED
    BY <2>1, <2>2, DispFetched
<1>2. (CASE mod = 0 -> (IF mod = 0 /\ base = R_EBP THEN 4 ELSE 0) [] mod = 1 -> 1 [] mod = 2 -> 4) = n
  BY DEF SizeOf
<1> QED
  BY <1>1, <1>2 DEF load_addr, BaseOf, IndexedBy, SibAt

\* A byte or two, then a displacement or an immediate.
One(m, a, x, n) ==
  /\ m \in Seq(Int) /\ Len(m) = 1 + n /\ m[1] = a
  /\ \A i \in 1..n : m[1 + i] = ByteOf(x, i - 1)
Both(m, a, b, x, n) ==
  /\ m \in Seq(Int) /\ Len(m) = 2 + n /\ m[1] = a /\ m[2] = b
  /\ \A i \in 1..n : m[2 + i] = ByteOf(x, i - 1)

\* The bytes of a ModR/M byte and a displacement.
LEMMA OneThenLow ==
  ASSUME NEW a \in Int, NEW x \in Int, NEW n \in {0, 1, 2, 4}
  PROVE  One(<<a>> \o Low(x, n), a, x, n)
<1> DEFINE t == Low(x, n)
<1>1. t \in Seq(Int) /\ Len(t) = n /\ \A i \in 1..n : t[i] = ByteOf(x, i - 1)
  BY LowFacts2
<1> HIDE DEF t
<1>2. <<a>> \in Seq(Int) /\ Len(<<a>>) = 1 /\ <<a>>[1] = a
  OBVIOUS
<1>3. <<a>> \o t \in Seq(Int) /\ Len(<<a>> \o t) = 1 + n /\ (<<a>> \o t)[1] = a
  BY <1>1, <1>2
<1>4. \A i \in 1..n : (<<a>> \o t)[1 + i] = t[i]
  BY <1>1, <1>2
<1> QED
  BY <1>1, <1>3, <1>4 DEF t, One

\* The bytes of ModR/M, SIB and a displacement.
LEMMA TwoThenLow ==
  ASSUME NEW a \in Int, NEW b \in Int, NEW x \in Int, NEW n \in {0, 1, 2, 4}
  PROVE  Both(<<a, b>> \o Low(x, n), a, b, x, n)
<1> DEFINE t == Low(x, n)
<1>1. t \in Seq(Int) /\ Len(t) = n /\ \A i \in 1..n : t[i] = ByteOf(x, i - 1)
  BY LowFacts2
<1> HIDE DEF t
<1>2. <<a, b>> \in Seq(Int) /\ Len(<<a, b>>) = 2 /\ <<a, b>>[1] = a /\ <<a, b>>[2] = b
  OBVIOUS
<1>3. <<a, b>> \o t \in Seq(Int) /\ Len(<<a, b>> \o t) = 2 + n
      /\ (<<a, b>> \o t)[1] = a /\ (<<a, b>> \o t)[2] = b
  BY <1>1, <1>2
<1>4. \A i \in 1..n : (<<a, b>> \o t)[2 + i] = t[i]
  BY <1>1, <1>2
<1> QED
  BY <1>1, <1>3, <1>4 DEF t, Both

\* The address of an operand is the sum load_addr computes.
LEMMA AddressParts ==
  ASSUME RegsOK, NEW o, IsMem(o)
  PROVE  LET mbase == IF o.base = None THEN 0 ELSE gpr[o.base]
         IN  /\ o.index = None => c_add(mbase, o.disp % WORD) = Address(o, gpr)
             /\ o.index # None =>
                  c_add(c_add(mbase, (gpr[o.index] * 2^o.ss) % WORD), o.disp % WORD) = Address(o, gpr)
<1> DEFINE mbase == IF o.base = None THEN 0 ELSE gpr[o.base]
           i == gpr[o.index] * 2^o.ss
<1>1. o.disp \in Int /\ o.ss \in 0..3
  BY DEF IsMem
<1>2. mbase \in Int
  BY RadixFacts DEF RegsOK, IsMem, None
<1>3. CASE o.index = None
  <2>1. Address(o, gpr) = (mbase + 0 + o.disp) % WORD
    BY <1>3 DEF Address
  <2> HIDE DEF mbase
  <2>2. mbase + 0 = mbase
    BY <1>2
  <2>3. c_add(mbase, o.disp % WORD) = (mbase + o.disp) % WORD
    BY <1>1, <1>2, AddressSum
  <2> QED
    BY <1>3, <2>1, <2>2, <2>3 DEF mbase
<1>4. CASE o.index # None
  <2>1. 2^o.ss \in Int
    <3>1. o.ss = 0 \/ o.ss = 1 \/ o.ss = 2 \/ o.ss = 3
      BY <1>1
    <3>2. 2^0 \in Int /\ 2^1 \in Int /\ 2^2 \in Int /\ 2^3 \in Int
      OBVIOUS
    <3> QED
      BY <3>1, <3>2
  <2>2. i \in Int
    <3>1. gpr[o.index] \in Int
      BY <1>4, RadixFacts DEF RegsOK, IsMem
    <3> QED
      BY <2>1, <3>1
  <2>3. Address(o, gpr) = (mbase + i + o.disp) % WORD
    BY <1>4 DEF Address
  <2> HIDE DEF mbase, i
  <2>4. c_add(c_add(mbase, i % WORD), o.disp % WORD) = (mbase + i + o.disp) % WORD
    BY <1>1, <1>2, <2>2, AddressSum
  <2> QED
    BY <1>4, <2>3, <2>4 DEF mbase, i
<1> QED
  BY <1>3, <1>4

\* m is what follows the opcode in code, at pos.
At(code, pos, m) == \A k \in 1..Len(m) : code[pos + k - 1] = m[k]

\* A register operand.
LEMMA RmReg ==
  ASSUME NEW o, IsReg(o), NEW reg \in 0..7, NEW m \in RmEncodings(o, reg)
  PROVE  /\ m \in Seq(Int) /\ Len(m) = 1
         /\ ModField(m[1]) = 3 /\ RegField(m[1]) = reg /\ RmField(m[1]) = o.r
<1>1. o.r \in 0..7 /\ o.k = "reg"
  BY DEF IsReg
<1> DEFINE f == Fields(3, reg, o.r)
<1>2. m = <<f>>
  BY <1>1 DEF RmEncodings
<1>3. f \in Int /\ ModField(f) = 3 /\ RegField(f) = reg /\ RmField(f) = o.r
  BY <1>1, FieldFacts
<1> HIDE DEF f
<1> QED
  BY <1>2, <1>3

\* What load_addr needs of the bytes m: they stand for the operand o.
Addresses(m, o, reg) ==
  /\ m \in Seq(Int) /\ Len(m) >= 1
  /\ ModField(m[1]) # 3 /\ RegField(m[1]) = reg
  /\ \A code : \A pos \in Nat :
       At(code, pos, m) =>
         load_addr(code, pos) = [maddr |-> Address(o, gpr), pos |-> pos + Len(m)]

\* With a SIB byte.
LEMMA RmSib ==
  ASSUME RegsOK, NEW o, IsMem(o), NEW reg \in 0..7, NEW mod \in 0..2, NEW base \in 0..7,
         NEW n \in {0, 1, 4}, DispOK(o.disp, n),
         n = SizeOf(mod, base),
         IF o.base = None THEN mod = 0 /\ base = R_EBP
                          ELSE base = o.base /\ ~(mod = 0 /\ base = R_EBP),
         NEW index, index = (IF o.index = None THEN R_ESP ELSE o.index)
  PROVE  Addresses(<<Fields(mod, reg, R_ESP), Fields(o.ss, index, base)>> \o Low(o.disp, n), o, reg)
<1> DEFINE a == Fields(mod, reg, R_ESP)
           b == Fields(o.ss, index, base)
           m == <<a, b>> \o Low(o.disp, n)
<1>1. o.disp \in Int /\ o.ss \in 0..3 /\ index \in 0..7 /\ mod \in 0..3 /\ R_ESP \in 0..7
  BY DEF IsMem, R_ESP, None
<1>2. a \in Int /\ ModField(a) = mod /\ RegField(a) = reg /\ RmField(a) = R_ESP
  BY <1>1, FieldFacts
<1>3. b \in Int /\ ModField(b) = o.ss /\ RegField(b) = index /\ RmField(b) = base
  BY <1>1, FieldFacts
<1> HIDE DEF a, b
<1>4. /\ m \in Seq(Int) /\ Len(m) = 2 + n /\ m[1] = a /\ m[2] = b
      /\ \A i \in 1..n : m[2 + i] = ByteOf(o.disp, i - 1)
  <2> DEFINE x == o.disp
  <2>1. x \in Int /\ n \in {0, 1, 2, 4}
    BY <1>1
  <2> HIDE DEF x
  <2>2. Both(<<a, b>> \o Low(x, n), a, b, x, n)
    BY <1>2, <1>3, <2>1, TwoThenLow
  <2>3. Both(m, a, b, x, n)
    BY <2>2 DEF x
  <2> HIDE DEF m
  <2> QED
    BY <2>3 DEF x, Both
<1> HIDE DEF m
<1>5. ASSUME NEW code, NEW pos \in Nat, At(code, pos, m)
      PROVE  load_addr(code, pos) = [maddr |-> Address(o, gpr), pos |-> pos + Len(m)]
  <2>1. code[pos] = a /\ code[pos + 1] = b
    <3>1. 1 \in 1..Len(m) /\ 2 \in 1..Len(m) /\ pos + 1 - 1 = pos /\ pos + 2 - 1 = pos + 1
      BY <1>4
    <3> QED
      BY <1>4, <1>5, <3>1 DEF At
  <2>2. \A i \in 1..n : code[pos + 2 + i - 1] = ByteOf(o.disp, i - 1)
    <3> SUFFICES ASSUME NEW i \in 1..n PROVE code[pos + 2 + i - 1] = ByteOf(o.disp, i - 1)
      OBVIOUS
    <3>1. 2 + i \in 1..Len(m) /\ pos + (2 + i) - 1 = pos + 2 + i - 1
      BY <1>4
    <3> QED
      BY <1>4, <1>5, <3>1 DEF At
  <2> DEFINE mbase == BaseOf(mod, base)
             indexed == IndexedBy(mbase, index, o.ss)
             x == o.disp
             ss == o.ss
  <2>3. load_addr(code, pos) = [maddr |-> c_add(indexed, x % WORD), pos |-> pos + 2 + n]
    <3>1. DispAt(code, pos + 2, x, n) /\ ss \in 0..3 /\ x \in Int
      BY <1>1, <2>2 DEF DispAt
    <3>2. SibAt(code, pos, mod, index, base, ss)
      BY <1>2, <1>3, <2>1 DEF SibAt
    <3> HIDE DEF x, ss
    <3>3. index \in 0..7 /\ mod \in 0..2 /\ base \in 0..7 /\ n \in {0, 1, 4} /\ n = SizeOf(mod, base)
      BY <1>1
    <3>4. SibLoads(code, pos, mod, index, base, ss, x, n)
      BY <3>1, <3>2, <3>3, LoadAddrSib
    <3> QED
      BY <3>4 DEF ss, SibLoads
  <2>4. mbase = IF o.base = None THEN 0 ELSE gpr[o.base]
    BY DEF BaseOf
  <2>5. index = R_ESP <=> o.index = None
    BY DEF IsMem, R_ESP, None
  <2>6. c_add(indexed, o.disp % WORD) = Address(o, gpr)
    <3> HIDE DEF mbase
    <3> QED
      BY <2>4, <2>5, AddressParts DEF IndexedBy
  <2>7. pos + Len(m) = pos + 2 + n
    BY <1>4
  <2> HIDE DEF indexed, mbase
  <2> QED
    BY <2>3, <2>6, <2>7
<1>6. Len(m) >= 1 /\ ModField(m[1]) # 3 /\ RegField(m[1]) = reg
  BY <1>2, <1>4
<1>7. Addresses(m, o, reg)
  BY <1>4, <1>5, <1>6 DEF Addresses
<1> QED
  BY <1>7 DEF m, a, b

\* Without.
LEMMA RmPlain ==
  ASSUME RegsOK, NEW o, IsMem(o), NEW reg \in 0..7, NEW mod \in 0..2,
         NEW base \in (0..7) \ {R_ESP}, NEW n \in {0, 1, 4}, DispOK(o.disp, n),
         n = SizeOf(mod, base),
         IF o.base = None THEN mod = 0 /\ base = R_EBP
                          ELSE base = o.base /\ ~(mod = 0 /\ base = R_EBP),
         o.index = None
  PROVE  Addresses(<<Fields(mod, reg, base)>> \o Low(o.disp, n), o, reg)
<1> DEFINE a == Fields(mod, reg, base)
           m == <<a>> \o Low(o.disp, n)
<1>1. o.disp \in Int /\ mod \in 0..3 /\ base \in 0..7
  BY DEF IsMem
<1>2. a \in Int /\ ModField(a) = mod /\ RegField(a) = reg /\ RmField(a) = base
  BY <1>1, FieldFacts
<1> HIDE DEF a
<1>4. /\ m \in Seq(Int) /\ Len(m) = 1 + n /\ m[1] = a
      /\ \A i \in 1..n : m[1 + i] = ByteOf(o.disp, i - 1)
  <2> DEFINE x == o.disp
  <2>1. x \in Int /\ n \in {0, 1, 2, 4}
    BY <1>1
  <2> HIDE DEF x
  <2>2. One(<<a>> \o Low(x, n), a, x, n)
    BY <1>2, <2>1, OneThenLow
  <2>3. One(m, a, x, n)
    BY <2>2 DEF x
  <2> HIDE DEF m
  <2> QED
    BY <2>3 DEF x, One
<1> HIDE DEF m
<1>5. ASSUME NEW code, NEW pos \in Nat, At(code, pos, m)
      PROVE  load_addr(code, pos) = [maddr |-> Address(o, gpr), pos |-> pos + Len(m)]
  <2>1. code[pos] = a
    <3>1. 1 \in 1..Len(m) /\ pos + 1 - 1 = pos
      BY <1>4
    <3> QED
      BY <1>4, <1>5, <3>1 DEF At
  <2>2. \A i \in 1..n : code[pos + 1 + i - 1] = ByteOf(o.disp, i - 1)
    <3> SUFFICES ASSUME NEW i \in 1..n PROVE code[pos + 1 + i - 1] = ByteOf(o.disp, i - 1)
      OBVIOUS
    <3>1. 1 + i \in 1..(1 + n) /\ pos + (1 + i) - 1 = pos + 1 + i - 1 /\ Len(m) = 1 + n
      BY <1>4
    <3> QED
      BY <1>4, <1>5, <3>1 DEF At
  <2> DEFINE mbase == BaseOf(mod, base)
             x == o.disp
  <2>3. load_addr(code, pos) = [maddr |-> c_add(mbase, x % WORD), pos |-> pos + 1 + n]
    <3>1. DispAt(code, pos + 1, x, n) /\ x \in Int
      BY <1>1, <2>2 DEF DispAt
    <3>2. ModField(code[pos]) = mod /\ RmField(code[pos]) = base
      BY <1>2, <2>1
    <3> HIDE DEF x
    <3> QED
      BY <3>1, <3>2, LoadAddrPlain
  <2>4. mbase = IF o.base = None THEN 0 ELSE gpr[o.base]
    BY DEF BaseOf
  <2>6. c_add(mbase, o.disp % WORD) = Address(o, gpr)
    <3> HIDE DEF mbase
    <3> QED
      BY <2>4, AddressParts
  <2>7. pos + Len(m) = pos + 1 + n
    BY <1>4
  <2> HIDE DEF mbase
  <2> QED
    BY <2>3, <2>6, <2>7
<1>6. Len(m) >= 1 /\ ModField(m[1]) # 3 /\ RegField(m[1]) = reg
  BY <1>2, <1>4
<1>7. Addresses(m, o, reg)
  BY <1>4, <1>5, <1>6 DEF Addresses
<1> QED
  BY <1>7 DEF m, a

\* Every encoding of a memory operand decodes to its address.
LEMMA RmMem ==
  ASSUME RegsOK, NEW o, IsMem(o), NEW reg \in 0..7, NEW m \in RmEncodings(o, reg)
  PROVE  Addresses(m, o, reg)
<1> DEFINE index == IF o.index = None THEN R_ESP ELSE o.index
           sib(mod, base, n) == <<Fields(mod, reg, R_ESP), Fields(o.ss, index, base)>> \o Low(o.disp, n)
           plain(mod, base, n) == <<Fields(mod, reg, base)>> \o Low(o.disp, n)
<1>1. o.k = "mem" /\ o.base \in (0..7) \cup {None} /\ o.disp \in Int
  BY DEF IsMem
<1>2. CASE o.base = None
  <2>1. m = sib(0, R_EBP, 4) \/ (o.index = None /\ m = plain(0, R_EBP, 4))
    <3> HIDE DEF Low, Fields
    <3> QED
      BY <1>1, <1>2 DEF RmEncodings
  <2>2. R_EBP \in (0..7) \ {R_ESP} /\ R_EBP \in 0..7 /\ DispOK(o.disp, 4) /\ 4 = SizeOf(0, R_EBP)
        /\ 0 \in 0..2 /\ 4 \in {0, 1, 4}
    BY DEF R_EBP, R_ESP, DispOK, SizeOf
  <2>3. Addresses(sib(0, R_EBP, 4), o, reg)
    BY <1>2, <2>2, RmSib
  <2>4. o.index = None => Addresses(plain(0, R_EBP, 4), o, reg)
    BY <1>2, <2>2, RmPlain
  <2> HIDE DEF sib, plain
  <2> QED
    BY <2>1, <2>3, <2>4
<1>3. CASE o.base # None
  <2>1. \E d \in Disps(o.base, o.disp) :
          \/ m = sib(d[1], o.base, d[2])
          \/ o.index = None /\ o.base # R_ESP /\ m = plain(d[1], o.base, d[2])
    <3> HIDE DEF Low, Fields, Disps
    <3> QED
      BY <1>1, <1>3 DEF RmEncodings
  <2>2. PICK d \in Disps(o.base, o.disp) :
          \/ m = sib(d[1], o.base, d[2])
          \/ o.index = None /\ o.base # R_ESP /\ m = plain(d[1], o.base, d[2])
    BY <2>1
  <2>3. o.base \in 0..7
    BY <1>1, <1>3
  <2>4. /\ d[1] \in 0..2 /\ d[2] \in {0, 1, 4} /\ DispOK(o.disp, d[2])
        /\ ~(d[1] = 0 /\ o.base = R_EBP)
        /\ d[2] = SizeOf(d[1], o.base)
    <3>1. \/ d = <<0, 0>> /\ o.disp = 0 /\ o.base # R_EBP
          \/ d = <<1, 1>> /\ -(BYTE \div 2) <= o.disp /\ o.disp < BYTE \div 2
          \/ d = <<2, 4>>
      BY DEF Disps
    <3> QED
      BY <3>1 DEF DispOK, SizeOf
  <2>5. Addresses(sib(d[1], o.base, d[2]), o, reg)
    BY <1>3, <2>3, <2>4, RmSib
  <2>6. o.index = None /\ o.base # R_ESP => Addresses(plain(d[1], o.base, d[2]), o, reg)
    BY <1>3, <2>3, <2>4, RmPlain
  <2> HIDE DEF sib, plain
  <2> QED
    BY <2>2, <2>5, <2>6
<1> QED
  BY <1>2, <1>3

-----------------------------------------------------------------------------
(* From the bytes to the opcode table.                                     *)

\* code is an opcode at n, behind a prefix if n is 2, then m and t.
Laid(code, n, op, m, t) ==
  /\ n \in {1, 2} /\ (n = 2 => code[1] = \h66) /\ code[n] = op
  /\ At(code, n + 1, m) /\ At(code, n + 1 + Len(m), t)
  /\ Len(code) = n + Len(m) + Len(t) /\ Len(m) \in Nat /\ Len(t) \in Nat

\* The two parts of a concatenation.
LEMMA Concat ==
  ASSUME NEW s \in Seq(Int), NEW t \in Seq(Int)
  PROVE  /\ s \o t \in Seq(Int) /\ Len(s \o t) = Len(s) + Len(t)
         /\ Len(s) \in Nat /\ Len(t) \in Nat
         /\ \A k \in 1..Len(s) : (s \o t)[k] = s[k]
         /\ \A k \in 1..Len(t) : (s \o t)[Len(s) + k] = t[k]
<1>1. Len(s) \in Nat /\ Len(t) \in Nat
  OBVIOUS
<1> DEFINE c == s \o t
<1>2. c \in Seq(Int) /\ Len(c) = Len(s) + Len(t)
      /\ \A i \in 1..(Len(s) + Len(t)) : c[i] = IF i <= Len(s) THEN s[i] ELSE t[i - Len(s)]
  BY ConcatProperties
<1> HIDE DEF c
<1>3. \A k \in 1..Len(s) : c[k] = s[k]
  <2> SUFFICES ASSUME NEW k \in 1..Len(s) PROVE c[k] = s[k]
    OBVIOUS
  <2>1. k \in 1..(Len(s) + Len(t)) /\ k <= Len(s)
    BY <1>1
  <2> QED
    BY <1>2, <2>1
<1>4. \A k \in 1..Len(t) : c[Len(s) + k] = t[k]
  <2> SUFFICES ASSUME NEW k \in 1..Len(t) PROVE c[Len(s) + k] = t[k]
    OBVIOUS
  <2>1. Len(s) + k \in 1..(Len(s) + Len(t)) /\ ~(Len(s) + k <= Len(s))
        /\ (Len(s) + k) - Len(s) = k
    BY <1>1
  <2> QED
    BY <1>2, <2>1
<1> QED
  BY <1>1, <1>2, <1>3, <1>4 DEF c

\* Where the opcode, the ModR/M bytes and an immediate land behind a prefix.
LEMMA LaidOut ==
  ASSUME NEW n \in {1, 2}, NEW op \in Int, NEW m \in Seq(Int), NEW t \in Seq(Int)
  PROVE  Laid((IF n = 2 THEN <<\h66>> ELSE <<>>) \o ((<<op>> \o m) \o t), n, op, m, t)
<1> DEFINE h == <<op>>  hm == h \o m  c == hm \o t
<1>1. h \in Seq(Int) /\ Len(h) = 1 /\ h[1] = op /\ Len(m) \in Nat /\ Len(t) \in Nat
  OBVIOUS
<1> HIDE DEF h
<1>2. /\ hm \in Seq(Int) /\ Len(hm) = 1 + Len(m)
      /\ hm[1] = op /\ \A k \in 1..Len(m) : hm[1 + k] = m[k]
  <2>1. 1 \in 1..Len(h)
    BY <1>1
  <2>2. /\ hm \in Seq(Int) /\ Len(hm) = Len(h) + Len(m)
        /\ \A k \in 1..Len(h) : hm[k] = h[k]
        /\ \A k \in 1..Len(m) : hm[Len(h) + k] = m[k]
    BY <1>1, Concat
  <2> HIDE DEF hm
  <2> QED
    BY <1>1, <2>1, <2>2
<1> HIDE DEF hm
<1>3. /\ c \in Seq(Int) /\ Len(c) = 1 + Len(m) + Len(t)
      /\ c[1] = op /\ \A k \in 1..Len(m) : c[1 + k] = m[k]
      /\ \A k \in 1..Len(t) : c[1 + Len(m) + k] = t[k]
  <2>0. /\ c \in Seq(Int) /\ Len(c) = Len(hm) + Len(t)
        /\ \A k \in 1..Len(hm) : c[k] = hm[k]
        /\ \A k \in 1..Len(t) : c[Len(hm) + k] = t[k]
    BY <1>2, Concat
  <2> HIDE DEF c
  <2>1. c \in Seq(Int) /\ Len(c) = 1 + Len(m) + Len(t)
    BY <1>2, <2>0
  <2>2. \A k \in 1..(1 + Len(m)) : c[k] = hm[k]
    BY <1>2, <2>0
  <2>3. \A k \in 1..Len(t) : c[1 + Len(m) + k] = t[k]
    BY <1>2, <2>0
  <2>4. 1 \in 1..(1 + Len(m)) /\ \A k \in 1..Len(m) : 1 + k \in 1..(1 + Len(m))
    BY <1>1
  <2> HIDE DEF c
  <2> QED
    BY <1>2, <2>1, <2>2, <2>3, <2>4
<1> HIDE DEF c
<1>4. CASE n = 1
  <2>1. (IF n = 2 THEN <<\h66>> ELSE <<>>) \o c = c
    <3>1. <<>> \o c = c
      BY <1>3
    <3> QED
      BY <1>4, <3>1
  <2>2. At(c, 2, m)
    <3> SUFFICES ASSUME NEW k \in 1..Len(m) PROVE c[2 + k - 1] = m[k]
      BY DEF At
    <3>1. 2 + k - 1 = 1 + k
      BY <1>1
    <3> QED
      BY <1>3, <3>1
  <2>3. At(c, 2 + Len(m), t)
    <3> SUFFICES ASSUME NEW k \in 1..Len(t) PROVE c[2 + Len(m) + k - 1] = t[k]
      BY DEF At
    <3>1. 2 + Len(m) + k - 1 = 1 + Len(m) + k
      BY <1>1
    <3> QED
      BY <1>3, <3>1
  <2>4. Laid(c, 1, op, m, t)
    <3>1. 1 + 1 = 2
      OBVIOUS
    <3> QED
      BY <1>1, <1>3, <2>2, <2>3, <3>1 DEF Laid
  <2> QED
    BY <1>4, <2>1, <2>4 DEF c, hm, h
<1>5. CASE n = 2
  <2> DEFINE g == <<\h66>>  e == g \o c
  <2>0. g \in Seq(Int) /\ Len(g) = 1 /\ g[1] = \h66
    OBVIOUS
  <2> HIDE DEF g
  <2>1. /\ Len(e) = 2 + Len(m) + Len(t) /\ e[1] = \h66
        /\ \A k \in 1..(1 + Len(m) + Len(t)) : e[1 + k] = c[k]
    <3>0. 1 \in 1..Len(g)
      BY <2>0
    <3>2. /\ Len(e) = Len(g) + Len(c)
          /\ \A k \in 1..Len(g) : e[k] = g[k]
          /\ \A k \in 1..Len(c) : e[Len(g) + k] = c[k]
      <4>1. g \in Seq(Int) /\ c \in Seq(Int)
        BY <1>3, <2>0
      <4> QED
        BY <4>1, Concat
    <3> HIDE DEF e
    <3>1. Len(e) = 1 + Len(c) /\ e[1] = \h66 /\ \A k \in 1..Len(c) : e[1 + k] = c[k]
      BY <2>0, <3>0, <3>2
    <3> QED
      BY <1>1, <1>3, <3>1
  <2> HIDE DEF e
  <2>2. e[2] = op
    <3>1. 1 \in 1..(1 + Len(m) + Len(t)) /\ 1 + 1 = 2
      BY <1>1
    <3> QED
      BY <1>3, <2>1, <3>1
  <2>3. At(e, 3, m)
    <3> SUFFICES ASSUME NEW k \in 1..Len(m) PROVE e[3 + k - 1] = m[k]
      BY DEF At
    <3>1. 3 + k - 1 = 1 + (1 + k) /\ 1 + k \in 1..(1 + Len(m) + Len(t))
      BY <1>1
    <3>2. e[1 + (1 + k)] = c[1 + k] /\ c[1 + k] = m[k]
      BY <1>3, <2>1, <3>1
    <3> QED
      BY <3>1, <3>2
  <2>4. At(e, 3 + Len(m), t)
    <3> SUFFICES ASSUME NEW k \in 1..Len(t) PROVE e[3 + Len(m) + k - 1] = t[k]
      BY DEF At
    <3>1. 3 + Len(m) + k - 1 = 1 + (1 + Len(m) + k)
          /\ 1 + Len(m) + k \in 1..(1 + Len(m) + Len(t))
      BY <1>1
    <3>2. e[1 + (1 + Len(m) + k)] = c[1 + Len(m) + k] /\ c[1 + Len(m) + k] = t[k]
      BY <1>3, <2>1, <3>1
    <3> QED
      BY <3>1, <3>2
  <2>5. Laid(e, 2, op, m, t)
    <3>1. 2 + 1 = 3
      OBVIOUS
    <3> QED
      BY <1>1, <2>1, <2>2, <2>3, <2>4, <3>1 DEF Laid
  <2> QED
    BY <1>5, <2>5 DEF e, g, c, hm, h
<1> QED
  BY <1>4, <1>5

Blank == [type |-> "none", val |-> 0]

\* The decoder behind the opcode, and once the width is set.
Ready(n, op, w) ==
  [pos |-> n + 1, opcode |-> op, is16 |-> n > 1, width |-> w, maddr |-> 0, bus |-> bus,
   dest |-> Blank, src1 |-> Blank, none |-> Blank]

\* Prefixes are skipped and remembered.
LEMMA Fetched ==
  ASSUME NEW code, NEW n, NEW op \in Int, NEW m, NEW t, Laid(code, n, op, m, t), op # \h66
  PROVE  fetch_decode_exec(code) = Dispatch(code, Ready(n, op, 0))
<1> DEFINE first == CHOOSE k \in 1..Len(code) :
                      code[k] # \h66 /\ \A j \in 1..(k - 1) : code[j] = \h66
<1>1. n \in {1, 2} /\ n \in 1..Len(code) /\ code[n] = op /\ (n = 2 => code[1] = \h66)
  BY DEF Laid
<1>2. code[n] # \h66 /\ \A j \in 1..(n - 1) : code[j] = \h66
  BY <1>1
<1>3. \A k \in 1..Len(code) :
        code[k] # \h66 /\ (\A j \in 1..(k - 1) : code[j] = \h66) => k = n
  <2> SUFFICES ASSUME NEW k \in 1..Len(code), code[k] # \h66,
                      \A j \in 1..(k - 1) : code[j] = \h66
               PROVE  k = n
    OBVIOUS
  <2>1. k \in Int /\ n \in Int /\ 1 <= k
    BY <1>1
  <2>2. CASE k < n
    <3>1. k \in 1..(n - 1)
      BY <2>1, <2>2
    <3> QED
      BY <1>2, <3>1
  <2>3. CASE n < k
    <3>1. n \in 1..(k - 1)
      BY <1>1, <2>1, <2>3
    <3> QED
      BY <1>2, <3>1
  <2> QED
    BY <2>1, <2>2, <2>3
<1>4. first = n
  BY <1>1, <1>2, <1>3
<1> HIDE DEF first
<1> QED
  BY <1>1, <1>4 DEF fetch_decode_exec, first, Ready, Blank

\* The table: the width is that of the opcode, and for a mov the handler.
WidthOf(n, op) == IF op % 2 = 0 THEN 1 ELSE IF n > 1 THEN 2 ELSE 4
LongWidth(n) == IF n > 1 THEN 2 ELSE 4

\* set_width, by the prefix and by the low bit of the opcode.
LEMMA WidthSet ==
  ASSUME NEW n \in {1, 2}, NEW op \in Int
  PROVE  /\ SetWidth(Ready(n, op, 0), 1) = Ready(n, op, 1)
         /\ SetWidth(Ready(n, op, 0), 0) = Ready(n, op, LongWidth(n))
         /\ (IF op % 2 = 0 THEN Ready(n, op, 1) ELSE Ready(n, op, LongWidth(n)))
              = Ready(n, op, WidthOf(n, op))
         /\ Ready(n, op, 0).opcode = op
<1>1. Ready(n, op, 0).opcode = op /\ (Ready(n, op, 0).is16 <=> n > 1)
  BY DEF Ready
<1>2. \A w : [Ready(n, op, 0) EXCEPT !.width = w] = Ready(n, op, w)
  BY DEF Ready
<1>3. \A w : SetWidth(Ready(n, op, 0), w) =
               Ready(n, op, IF w # 0 THEN w ELSE IF Ready(n, op, 0).is16 THEN 2 ELSE 4)
  BY <1>2 DEF SetWidth
<1>4. (IF Ready(n, op, 0).is16 THEN 2 ELSE 4) = LongWidth(n)
  BY <1>1 DEF LongWidth
<1> QED
  BY <1>1, <1>3, <1>4 DEF LongWidth, WidthOf

-----------------------------------------------------------------------------
(* Decoding the operands.                                                  *)

Decoded(pos, op, is16, w, maddr, b, dest, src1, none) ==
  [pos |-> pos, opcode |-> op, is16 |-> is16, width |-> w, maddr |-> maddr, bus |-> b,
   dest |-> dest, src1 |-> src1, none |-> none]

\* The decoder before it decodes operands, at pos.
Fresh(pos, op, is16, w) == Decoded(pos, op, is16, w, 0, bus, Blank, Blank, Blank)

\* The state a decode helper starts from is one whose operands are blank.
LEMMA ReadyFresh ==
  ASSUME NEW n, NEW op, NEW w
  PROVE  Ready(n, op, w) = Fresh(n + 1, op, n > 1, w)
BY DEF Ready, Fresh, Decoded

\* The entries of the opcode table, one pair after the other.
LEMMA DispatchG2E ==
  ASSUME NEW code, NEW n \in {1, 2}, NEW op \in {\h88, \h89}, NEW m, NEW t, Laid(code, n, op, m, t),
         NEW w, w = WidthOf(n, op)
  PROVE  fetch_decode_exec(code) = exec_mov(decode_mov_G2E(code, Fresh(n + 1, op, n > 1, w)))
<1> DEFINE d == Ready(n, op, 0)
<1>1. /\ SetWidth(d, 1) = Ready(n, op, 1) /\ SetWidth(d, 0) = Ready(n, op, LongWidth(n))
      /\ d.opcode = op
      /\ (IF op % 2 = 0 THEN Ready(n, op, 1) ELSE Ready(n, op, LongWidth(n))) = Ready(n, op, WidthOf(n, op))
  BY WidthSet
<1>2. fetch_decode_exec(code) = Dispatch(code, d)
  BY Fetched
<1>3. Ready(n, op, w) = Fresh(n + 1, op, n > 1, w)
  BY ReadyFresh
<1> HIDE DEF d
<1>4. Dispatch(code, d) = exec_mov(decode_mov_G2E(code, Ready(n, op, w)))
  BY <1>1 DEF Dispatch
<1> QED
  BY <1>2, <1>3, <1>4

\* 0x8a, 0x8b
LEMMA DispatchE2G ==
  ASSUME NEW code, NEW n \in {1, 2}, NEW op \in {\h8a, \h8b}, NEW m, NEW t, Laid(code, n, op, m, t),
         NEW w, w = WidthOf(n, op)
  PROVE  fetch_decode_exec(code) = exec_mov(decode_mov_E2G(code, Fresh(n + 1, op, n > 1, w)))
<1> DEFINE d == Ready(n, op, 0)
<1>1. /\ SetWidth(d, 1) = Ready(n, op, 1) /\ SetWidth(d, 0) = Ready(n, op, LongWidth(n))
      /\ d.opcode = op
      /\ (IF op % 2 = 0 THEN Ready(n, op, 1) ELSE Ready(n, op, LongWidth(n))) = Ready(n, op, WidthOf(n, op))
  BY WidthSet
<1>2. fetch_decode_exec(code) = Dispatch(code, d)
  BY Fetched
<1>3. Ready(n, op, w) = Fresh(n + 1, op, n > 1, w)
  BY ReadyFresh
<1> HIDE DEF d
<1>4. Dispatch(code, d) = exec_mov(decode_mov_E2G(code, Ready(n, op, w)))
  BY <1>1 DEF Dispatch
<1> QED
  BY <1>2, <1>3, <1>4

\* 0xa0, 0xa1
LEMMA DispatchO2a ==
  ASSUME NEW code, NEW n \in {1, 2}, NEW op \in {\ha0, \ha1}, NEW m, NEW t, Laid(code, n, op, m, t),
         NEW w, w = WidthOf(n, op)
  PROVE  fetch_decode_exec(code) = exec_mov(decode_O2a(code, Fresh(n + 1, op, n > 1, w)))
<1> DEFINE d == Ready(n, op, 0)
<1>1. /\ SetWidth(d, 1) = Ready(n, op, 1) /\ SetWidth(d, 0) = Ready(n, op, LongWidth(n))
      /\ d.opcode = op
      /\ (IF op % 2 = 0 THEN Ready(n, op, 1) ELSE Ready(n, op, LongWidth(n))) = Ready(n, op, WidthOf(n, op))
  BY WidthSet
<1>2. fetch_decode_exec(code) = Dispatch(code, d)
  BY Fetched
<1>3. Ready(n, op, w) = Fresh(n + 1, op, n > 1, w)
  BY ReadyFresh
<1> HIDE DEF d
<1>4. Dispatch(code, d) = exec_mov(decode_O2a(code, Ready(n, op, w)))
  BY <1>1 DEF Dispatch
<1> QED
  BY <1>2, <1>3, <1>4

\* 0xa2, 0xa3
LEMMA DispatchA2O ==
  ASSUME NEW code, NEW n \in {1, 2}, NEW op \in {\ha2, \ha3}, NEW m, NEW t, Laid(code, n, op, m, t),
         NEW w, w = WidthOf(n, op)
  PROVE  fetch_decode_exec(code) = exec_mov(decode_a2O(code, Fresh(n + 1, op, n > 1, w)))
<1> DEFINE d == Ready(n, op, 0)
<1>1. /\ SetWidth(d, 1) = Ready(n, op, 1) /\ SetWidth(d, 0) = Ready(n, op, LongWidth(n))
      /\ d.opcode = op
      /\ (IF op % 2 = 0 THEN Ready(n, op, 1) ELSE Ready(n, op, LongWidth(n))) = Ready(n, op, WidthOf(n, op))
  BY WidthSet
<1>2. fetch_decode_exec(code) = Dispatch(code, d)
  BY Fetched
<1>3. Ready(n, op, w) = Fresh(n + 1, op, n > 1, w)
  BY ReadyFresh
<1> HIDE DEF d
<1>4. Dispatch(code, d) = exec_mov(decode_a2O(code, Ready(n, op, w)))
  BY <1>1 DEF Dispatch
<1> QED
  BY <1>2, <1>3, <1>4

\* 0xc6, 0xc7
LEMMA DispatchI2E ==
  ASSUME NEW code, NEW n \in {1, 2}, NEW op \in {\hc6, \hc7}, NEW m, NEW t, Laid(code, n, op, m, t),
         NEW w, w = WidthOf(n, op)
  PROVE  fetch_decode_exec(code) = exec_mov(decode_mov_I2E(code, Fresh(n + 1, op, n > 1, w)))
<1> DEFINE d == Ready(n, op, 0)
<1>1. /\ SetWidth(d, 1) = Ready(n, op, 1) /\ SetWidth(d, 0) = Ready(n, op, LongWidth(n))
      /\ d.opcode = op
      /\ (IF op % 2 = 0 THEN Ready(n, op, 1) ELSE Ready(n, op, LongWidth(n))) = Ready(n, op, WidthOf(n, op))
  BY WidthSet
<1>2. fetch_decode_exec(code) = Dispatch(code, d)
  BY Fetched
<1>3. Ready(n, op, w) = Fresh(n + 1, op, n > 1, w)
  BY ReadyFresh
<1> HIDE DEF d
<1>4. Dispatch(code, d) = exec_mov(decode_mov_I2E(code, Ready(n, op, w)))
  BY <1>1 DEF Dispatch
<1> QED
  BY <1>2, <1>3, <1>4

\* 0xb0 to 0xbf: bit 3 is the width.
LEMMA DispatchI2r ==
  ASSUME NEW code, NEW n \in {1, 2}, NEW op \in \hb0..\hbf, NEW m, NEW t, Laid(code, n, op, m, t),
         NEW w, w = (IF op < \hb8 THEN 1 ELSE LongWidth(n))
  PROVE  fetch_decode_exec(code) = exec_mov(decode_mov_I2r(code, Fresh(n + 1, op, n > 1, w)))
<1> DEFINE d == Ready(n, op, 0)
<1>1. /\ SetWidth(d, 1) = Ready(n, op, 1) /\ SetWidth(d, 0) = Ready(n, op, LongWidth(n))
      /\ d.opcode = op
      /\ (IF op % 2 = 0 THEN Ready(n, op, 1) ELSE Ready(n, op, LongWidth(n))) = Ready(n, op, WidthOf(n, op))
  BY WidthSet
<1>2. fetch_decode_exec(code) = Dispatch(code, d)
  BY Fetched
<1>3. Ready(n, op, w) = Fresh(n + 1, op, n > 1, w)
  BY ReadyFresh
<1> HIDE DEF d
<1>4. Dispatch(code, d) = exec_mov(decode_mov_I2r(code, Ready(n, op, w)))
  BY <1>1 DEF Dispatch
<1> QED
  BY <1>2, <1>3, <1>4

\* 0xd6
LEMMA DispatchTrap ==
  ASSUME NEW code, NEW n \in {1, 2}, NEW op \in {\hd6}, NEW m, NEW t, Laid(code, n, op, m, t),
         NEW w, w = LongWidth(n)
  PROVE  fetch_decode_exec(code) = exec_nemu_trap(Fresh(n + 1, op, n > 1, w))
<1> DEFINE d == Ready(n, op, 0)
<1>1. /\ SetWidth(d, 1) = Ready(n, op, 1) /\ SetWidth(d, 0) = Ready(n, op, LongWidth(n))
      /\ d.opcode = op
      /\ (IF op % 2 = 0 THEN Ready(n, op, 1) ELSE Ready(n, op, LongWidth(n))) = Ready(n, op, WidthOf(n, op))
  BY WidthSet
<1>2. fetch_decode_exec(code) = Dispatch(code, d)
  BY Fetched
<1>3. Ready(n, op, w) = Fresh(n + 1, op, n > 1, w)
  BY ReadyFresh
<1> HIDE DEF d
<1>4. Dispatch(code, d) = exec_nemu_trap(Ready(n, op, w))
  BY <1>1 DEF Dispatch
<1> QED
  BY <1>2, <1>3, <1>4

\* read_ModR_M, for a register: as destination and source, as source and
\* destination, and alone.
LEMMA ModRMReg ==
  ASSUME NEW code, NEW pos \in Nat, NEW op, NEW is16, NEW w, NEW r, NEW reg,
         ModField(code[pos]) = 3, RegField(code[pos]) = reg, RmField(code[pos]) = r
  PROVE  /\ decode_mov_G2E(code, Fresh(pos, op, is16, w)) =
              Decoded(pos + 1, op, is16, w, 0, bus, operand_reg(r, w), operand_reg(reg, w), Blank)
         /\ decode_mov_E2G(code, Fresh(pos, op, is16, w)) =
              Decoded(pos + 1, op, is16, w, 0, bus, operand_reg(reg, w), operand_reg(r, w), Blank)
         /\ decode_gp7_E(code, Fresh(pos, op, is16, w)) =
              Decoded(pos + 1, op, is16, w, 0, bus, operand_reg(r, w), Blank, operand_reg(reg, w))
         /\ decode_E(code, Fresh(pos, op, is16, w)) =
              Decoded(pos + 1, op, is16, w, 0, bus, operand_reg(r, w), Blank, operand_reg(reg, w))
<1> DEFINE x == operand_reg(r, w)  y == operand_reg(reg, w)  d == Fresh(pos, op, is16, w)
<1>1. code[d.pos] = code[pos] /\ d.width = w /\ d.pos = pos
  BY DEF Fresh, Decoded
<1> HIDE DEF x, y
<1>2. ASSUME NEW rm \in {"dest", "src1"}, NEW load, NEW f \in {"dest", "src1", "none"}, rm # f
      PROVE  read_ModR_M(code, d, rm, load, f) =
               [[d EXCEPT ![f] = y] EXCEPT ![rm] = x, !.pos = pos + 1]
  <2> DEFINE e == [d EXCEPT ![f] = y]
  <2>1. [d EXCEPT ![f] = operand_reg(RegField(code[d.pos]), d.width)] = e
    BY <1>1 DEF y
  <2>2. operand_reg(RmField(code[d.pos]), d.width) = x
    BY <1>1 DEF x
  <2>3. e.pos = pos
    BY <1>2 DEF Fresh, Decoded
  <2> HIDE DEF e, d
  <2>4. [e EXCEPT ![rm] = x, !.pos = @ + 1] = [e EXCEPT ![rm] = x, !.pos = pos + 1]
    <3>1. [e EXCEPT ![rm] = x].pos = pos
      BY <1>2, <2>3 DEF e, d, Fresh, Decoded
    <3> QED
      BY <2>3, <3>1
  <2> QED
    BY <1>1, <2>1, <2>2, <2>4 DEF read_ModR_M, e
<1>3. [[d EXCEPT !["src1"] = y] EXCEPT !["dest"] = x, !.pos = pos + 1] =
        Decoded(pos + 1, op, is16, w, 0, bus, x, y, Blank)
  <2> SUFFICES ASSUME NEW e, e = [[d EXCEPT !["src1"] = y] EXCEPT !["dest"] = x, !.pos = pos + 1]
               PROVE  e = Decoded(pos + 1, op, is16, w, 0, bus, x, y, Blank)
    OBVIOUS
  <2> QED
    BY DEF Fresh, Decoded
<1>4. [[d EXCEPT !["dest"] = y] EXCEPT !["src1"] = x, !.pos = pos + 1] =
        Decoded(pos + 1, op, is16, w, 0, bus, y, x, Blank)
  <2> SUFFICES ASSUME NEW e, e = [[d EXCEPT !["dest"] = y] EXCEPT !["src1"] = x, !.pos = pos + 1]
               PROVE  e = Decoded(pos + 1, op, is16, w, 0, bus, y, x, Blank)
    OBVIOUS
  <2> QED
    BY DEF Fresh, Decoded
<1>5. [[d EXCEPT !["none"] = y] EXCEPT !["dest"] = x, !.pos = pos + 1] =
        Decoded(pos + 1, op, is16, w, 0, bus, x, Blank, y)
  <2> SUFFICES ASSUME NEW e, e = [[d EXCEPT !["none"] = y] EXCEPT !["dest"] = x, !.pos = pos + 1]
               PROVE  e = Decoded(pos + 1, op, is16, w, 0, bus, x, Blank, y)
    OBVIOUS
  <2> QED
    BY DEF Fresh, Decoded
<1> HIDE DEF d
<1>6. decode_mov_G2E(code, d) = Decoded(pos + 1, op, is16, w, 0, bus, x, y, Blank)
  BY <1>2, <1>3 DEF decode_mov_G2E
<1>7. decode_mov_E2G(code, d) = Decoded(pos + 1, op, is16, w, 0, bus, y, x, Blank)
  BY <1>2, <1>4 DEF decode_mov_E2G
<1>8. /\ decode_gp7_E(code, d) = Decoded(pos + 1, op, is16, w, 0, bus, x, Blank, y)
      /\ decode_E(code, d) = Decoded(pos + 1, op, is16, w, 0, bus, x, Blank, y)
  BY <1>2, <1>5 DEF OnlyRm, decode_gp7_E, decode_E
<1> QED
  BY <1>6, <1>7, <1>8 DEF d, x, y

\* What a load leaves of the decoder's state.
LEMMA LoadedInto ==
  ASSUME NEW pos, NEW op, NEW is16, NEW w, NEW maddr, NEW b, NEW x, NEW y, NEW z, NEW g
  PROVE  /\ WithLoad(Decoded(pos, op, is16, w, maddr, b, x, y, z), "src1", g) =
              Decoded(pos, op, is16, w, maddr, g.b, x, operand_mem(g.x), z)
         /\ WithLoad(Decoded(pos, op, is16, w, maddr, b, x, y, z), "dest", g) =
              Decoded(pos, op, is16, w, maddr, g.b, operand_mem(g.x), y, z)
<1> DEFINE v == operand_mem(g.x)  c == g.b
<1> HIDE DEF v, c
<1>1. ASSUME NEW e, e = [Decoded(pos, op, is16, w, maddr, b, x, y, z) EXCEPT !["src1"] = v, !.bus = c]
      PROVE  e = Decoded(pos, op, is16, w, maddr, c, x, v, z)
  BY <1>1 DEF Decoded
<1>2. ASSUME NEW e, e = [Decoded(pos, op, is16, w, maddr, b, x, y, z) EXCEPT !["dest"] = v, !.bus = c]
      PROVE  e = Decoded(pos, op, is16, w, maddr, c, v, y, z)
  BY <1>2 DEF Decoded
<1> QED
  BY <1>1, <1>2 DEF WithLoad, v, c

\* What naming an operand leaves; a name for each update keeps it one term.
NamedSrc(d, v) == [d EXCEPT !["src1"] = v]
NamedDest(d, v) == [d EXCEPT !["dest"] = v]
NamedNone(d, v) == [d EXCEPT !["none"] = v]

\* Naming the source.
LEMMA NamedSrcInto ==
  ASSUME NEW pos, NEW op, NEW is16, NEW w, NEW maddr, NEW b, NEW x, NEW y, NEW z, NEW v
  PROVE  NamedSrc(Decoded(pos, op, is16, w, maddr, b, x, y, z), v) =
           Decoded(pos, op, is16, w, maddr, b, x, v, z)
<1>1. ASSUME NEW e, e = [Decoded(pos, op, is16, w, maddr, b, x, y, z) EXCEPT !["src1"] = v]
      PROVE  e = Decoded(pos, op, is16, w, maddr, b, x, v, z)
  BY <1>1 DEF Decoded
<1> QED
  BY <1>1 DEF NamedSrc

\* Naming the destination.
LEMMA NamedDestInto ==
  ASSUME NEW pos, NEW op, NEW is16, NEW w, NEW maddr, NEW b, NEW x, NEW y, NEW z, NEW v
  PROVE  NamedDest(Decoded(pos, op, is16, w, maddr, b, x, y, z), v) =
           Decoded(pos, op, is16, w, maddr, b, v, y, z)
<1>1. ASSUME NEW e, e = [Decoded(pos, op, is16, w, maddr, b, x, y, z) EXCEPT !["dest"] = v]
      PROVE  e = Decoded(pos, op, is16, w, maddr, b, v, y, z)
  BY <1>1 DEF Decoded
<1> QED
  BY <1>1 DEF NamedDest

\* Naming the operand a group of one operand does not use.
LEMMA NamedNoneInto ==
  ASSUME NEW pos, NEW op, NEW is16, NEW w, NEW maddr, NEW b, NEW x, NEW y, NEW z, NEW v
  PROVE  NamedNone(Decoded(pos, op, is16, w, maddr, b, x, y, z), v) =
           Decoded(pos, op, is16, w, maddr, b, x, y, v)
<1>1. ASSUME NEW e, e = [Decoded(pos, op, is16, w, maddr, b, x, y, z) EXCEPT !["none"] = v]
      PROVE  e = Decoded(pos, op, is16, w, maddr, b, x, y, v)
  BY <1>1 DEF Decoded
<1> QED
  BY <1>1 DEF NamedNone

\* What placing an operand in memory leaves.
LEMMA PlacedInto ==
  ASSUME NEW pos, NEW op, NEW is16, NEW w, NEW maddr, NEW b, NEW x, NEW y, NEW z,
         NEW addr, NEW next, NEW m, m = [maddr |-> addr, pos |-> next]
  PROVE  /\ Placed(Decoded(pos, op, is16, w, maddr, b, x, y, z), "src1", m) =
              Decoded(next, op, is16, w, addr, b, x, operand_mem(0), z)
         /\ Placed(Decoded(pos, op, is16, w, maddr, b, x, y, z), "dest", m) =
              Decoded(next, op, is16, w, addr, b, operand_mem(0), y, z)
<1> DEFINE v == operand_mem(0)
<1>m. m.maddr = addr /\ m.pos = next
  OBVIOUS
<1> HIDE DEF v
<1>1. ASSUME NEW e, e = [Decoded(pos, op, is16, w, maddr, b, x, y, z)
                           EXCEPT !["src1"] = v, !.pos = next, !.maddr = addr]
      PROVE  e = Decoded(next, op, is16, w, addr, b, x, v, z)
  BY <1>1 DEF Decoded
<1>2. ASSUME NEW e, e = [Decoded(pos, op, is16, w, maddr, b, x, y, z)
                           EXCEPT !["dest"] = v, !.pos = next, !.maddr = addr]
      PROVE  e = Decoded(next, op, is16, w, addr, b, v, y, z)
  BY <1>2 DEF Decoded
<1> QED
  BY <1>m, <1>1, <1>2 DEF Placed, v

\* What load_addr and a load return, as hypotheses of the lemmas.
IsAt(m, addr, next) == m = [maddr |-> addr, pos |-> next]
LoadedMem(d, op, m) == MemOperand(d, op, m, TRUE)
PlacedMem(d, op, m) == MemOperand(d, op, m, FALSE)
IsLoad(c, v, b, addr, w) ==
  LET g == vaddr_read(b, addr, w) IN c = g.b /\ v = operand_mem(g.x)

\* An operand in memory, not loaded and loaded.
LEMMA LoadedSource ==
  ASSUME NEW pos, NEW op, NEW is16, NEW w, NEW maddr, NEW b, NEW x, NEW y, NEW z,
         NEW addr, NEW next, NEW m, IsAt(m, addr, next),
         NEW c, NEW v, IsLoad(c, v, b, addr, w)
  PROVE  LoadedMem(Decoded(pos, op, is16, w, maddr, b, x, y, z), "src1", m) =
           Decoded(next, op, is16, w, addr, c, x, v, z)
<1> DEFINE d == Decoded(pos, op, is16, w, maddr, b, x, y, z)
<1>1. d.bus = b /\ d.width = w /\ m.maddr = addr /\ m = [maddr |-> addr, pos |-> next]
  BY DEF Decoded, IsAt
<1>2. Placed(d, "src1", m) = Decoded(next, op, is16, w, addr, b, x, operand_mem(0), z)
  BY <1>1, PlacedInto
<1> HIDE DEF d
<1> DEFINE g == vaddr_read(b, addr, w)  p == Decoded(next, op, is16, w, addr, b, x, operand_mem(0), z)
<1>3. c = g.b /\ v = operand_mem(g.x)
  BY DEF IsLoad
<1> HIDE DEF g
<1>4. WithLoad(p, "src1", g) = Decoded(next, op, is16, w, addr, c, x, v, z)
  BY <1>3, LoadedInto
<1>5. LoadedMem(d, "src1", m) = WithLoad(Placed(d, "src1", m), "src1", g)
  BY <1>1 DEF LoadedMem, MemOperand, g
<1> HIDE DEF p
<1> QED
  BY <1>2, <1>4, <1>5 DEF d, p

\* A destination in memory that is also read.
LEMMA LoadedDest ==
  ASSUME NEW pos, NEW op, NEW is16, NEW w, NEW maddr, NEW b, NEW x, NEW y, NEW z,
         NEW addr, NEW next, NEW m, IsAt(m, addr, next),
         NEW c, NEW v, IsLoad(c, v, b, addr, w)
  PROVE  LoadedMem(Decoded(pos, op, is16, w, maddr, b, x, y, z), "dest", m) =
           Decoded(next, op, is16, w, addr, c, v, y, z)
<1> DEFINE d == Decoded(pos, op, is16, w, maddr, b, x, y, z)
<1>1. d.bus = b /\ d.width = w /\ m.maddr = addr /\ m = [maddr |-> addr, pos |-> next]
  BY DEF Decoded, IsAt
<1>2. Placed(d, "dest", m) = Decoded(next, op, is16, w, addr, b, operand_mem(0), y, z)
  BY <1>1, PlacedInto
<1> HIDE DEF d
<1> DEFINE g == vaddr_read(b, addr, w)  p == Decoded(next, op, is16, w, addr, b, operand_mem(0), y, z)
<1>3. c = g.b /\ v = operand_mem(g.x)
  BY DEF IsLoad
<1> HIDE DEF g
<1>4. WithLoad(p, "dest", g) = Decoded(next, op, is16, w, addr, c, v, y, z)
  BY <1>3, LoadedInto
<1>5. LoadedMem(d, "dest", m) = WithLoad(Placed(d, "dest", m), "dest", g)
  BY <1>1 DEF LoadedMem, MemOperand, g
<1> HIDE DEF p
<1> QED
  BY <1>2, <1>4, <1>5 DEF d, p

\* A destination in memory that is only written.
LEMMA PlacedDest ==
  ASSUME NEW pos, NEW op, NEW is16, NEW w, NEW maddr, NEW b, NEW x, NEW y, NEW z,
         NEW addr, NEW next, NEW m, IsAt(m, addr, next)
  PROVE  PlacedMem(Decoded(pos, op, is16, w, maddr, b, x, y, z), "dest", m) =
           Decoded(next, op, is16, w, addr, b, operand_mem(0), y, z)
<1> DEFINE d == Decoded(pos, op, is16, w, maddr, b, x, y, z)
<1>1. d.bus = b /\ d.width = w /\ m.maddr = addr /\ m = [maddr |-> addr, pos |-> next]
  BY DEF Decoded, IsAt
<1>2. Placed(d, "dest", m) = Decoded(next, op, is16, w, addr, b, operand_mem(0), y, z)
  BY <1>1, PlacedInto
<1> HIDE DEF d
<1> QED
  BY <1>2 DEF PlacedMem, MemOperand, d

\* The same for an operand in memory, which a source and an operand that is
\* also read are loaded from.
LEMMA ModRMMem ==
  ASSUME NEW code, NEW pos, NEW op, NEW is16, NEW w, NEW addr, NEW next, NEW reg, NEW c, NEW v,
         ModField(code[pos]) # 3, RegField(code[pos]) = reg,
         load_addr(code, pos) = [maddr |-> addr, pos |-> next],
         IsLoad(c, v, bus, addr, w)
  PROVE  /\ decode_mov_G2E(code, Fresh(pos, op, is16, w)) =
              Decoded(next, op, is16, w, addr, bus, operand_mem(0), operand_reg(reg, w), Blank)
         /\ decode_mov_E2G(code, Fresh(pos, op, is16, w)) =
              Decoded(next, op, is16, w, addr, c, operand_reg(reg, w), v, Blank)
         /\ decode_gp7_E(code, Fresh(pos, op, is16, w)) =
              Decoded(next, op, is16, w, addr, bus, operand_mem(0), Blank, operand_reg(reg, w))
         /\ decode_E(code, Fresh(pos, op, is16, w)) =
              Decoded(next, op, is16, w, addr, c, v, Blank, operand_reg(reg, w))
<1> DEFINE y == operand_reg(reg, w)  d == Fresh(pos, op, is16, w)
           la == [maddr |-> addr, pos |-> next]
<1>1. code[d.pos] = code[pos] /\ d.width = w /\ d.pos = pos
  BY DEF Fresh, Decoded
<1>2. ASSUME NEW rm, NEW load, NEW f
      PROVE  read_ModR_M(code, d, rm, load, f) = MemOperand([d EXCEPT ![f] = y], rm, la, load)
  <2>1. [d EXCEPT ![f] = operand_reg(RegField(code[d.pos]), d.width)] = [d EXCEPT ![f] = y]
    BY <1>1
  <2>2. load_addr(code, d.pos) = la
    BY <1>1
  <2> HIDE DEF y, d, la
  <2> QED
    BY <1>1, <2>1, <2>2 DEF read_ModR_M
<1> DEFINE zero == operand_mem(0)
<1> HIDE DEF y
<1> DEFINE ds == [d EXCEPT !["src1"] = y]  dd == [d EXCEPT !["dest"] = y]
           dn == [d EXCEPT !["none"] = y]
<1>3. /\ ds = Decoded(pos, op, is16, w, 0, bus, Blank, y, Blank)
      /\ dd = Decoded(pos, op, is16, w, 0, bus, y, Blank, Blank)
      /\ dn = Decoded(pos, op, is16, w, 0, bus, Blank, Blank, y)
  <2>1. d = Decoded(pos, op, is16, w, 0, bus, Blank, Blank, Blank)
    BY DEF Fresh
  <2>2. ds = NamedSrc(d, y) /\ dd = NamedDest(d, y) /\ dn = NamedNone(d, y)
    BY DEF NamedSrc, NamedDest, NamedNone
  <2> HIDE DEF d, ds, dd, dn
  <2>3. NamedSrc(d, y) = Decoded(pos, op, is16, w, 0, bus, Blank, y, Blank)
    BY <2>1, NamedSrcInto
  <2>4. NamedDest(d, y) = Decoded(pos, op, is16, w, 0, bus, y, Blank, Blank)
    BY <2>1, NamedDestInto
  <2>5. NamedNone(d, y) = Decoded(pos, op, is16, w, 0, bus, Blank, Blank, y)
    BY <2>1, NamedNoneInto
  <2> QED
    BY <2>2, <2>3, <2>4, <2>5
<1> HIDE DEF d
<1>4. /\ decode_mov_G2E(code, d) = PlacedMem(ds, "dest", la)
      /\ decode_mov_E2G(code, d) = LoadedMem(dd, "src1", la)
      /\ decode_gp7_E(code, d) = PlacedMem(dn, "dest", la)
      /\ decode_E(code, d) = LoadedMem(dn, "dest", la)
  <2> HIDE DEF la
  <2>1. decode_mov_G2E(code, d) = PlacedMem(ds, "dest", la)
    BY <1>2 DEF decode_mov_G2E, PlacedMem
  <2>2. decode_mov_E2G(code, d) = LoadedMem(dd, "src1", la)
    BY <1>2 DEF decode_mov_E2G, LoadedMem
  <2>3. decode_gp7_E(code, d) = PlacedMem(dn, "dest", la)
    BY <1>2 DEF OnlyRm, decode_gp7_E, PlacedMem
  <2>4. decode_E(code, d) = LoadedMem(dn, "dest", la)
    BY <1>2 DEF OnlyRm, decode_E, LoadedMem
  <2> QED
    BY <2>1, <2>2, <2>3, <2>4
<1>5. IsAt(la, addr, next) /\ IsLoad(c, v, bus, addr, w)
  BY DEF IsAt
<1> HIDE DEF la, ds, dd, dn
<1>6. PlacedMem(ds, "dest", la) = Decoded(next, op, is16, w, addr, bus, zero, y, Blank)
  BY <1>3, <1>5, PlacedDest
<1>7. LoadedMem(dd, "src1", la) = Decoded(next, op, is16, w, addr, c, y, v, Blank)
  BY <1>3, <1>5, LoadedSource
<1>8. PlacedMem(dn, "dest", la) = Decoded(next, op, is16, w, addr, bus, zero, Blank, y)
  BY <1>3, <1>5, PlacedDest
<1>9. LoadedMem(dn, "dest", la) = Decoded(next, op, is16, w, addr, c, v, Blank, y)
  BY <1>3, <1>5, LoadedDest
<1> HIDE DEF zero
<1> QED
  BY <1>4, <1>6, <1>7, <1>8, <1>9 DEF d, y, zero

\* An immediate, fetched at pos.
LEMMA ImmInto ==
  ASSUME NEW code, NEW pos \in Int, NEW op, NEW is16, NEW w, NEW maddr, NEW b, NEW x, NEW y, NEW z,
         NEW n \in Int
  PROVE  decode_op_I(code, Decoded(pos, op, is16, w, maddr, b, x, y, z), "src1", n) =
           Decoded(pos + n, op, is16, w, maddr, b, x, operand_imm(Fetch(code, pos, n)), z)
<1> DEFINE d == Decoded(pos, op, is16, w, maddr, b, x, y, z)  v == operand_imm(Fetch(code, pos, n))
<1>1. d.pos = pos /\ [d EXCEPT !["src1"] = v].pos = pos
  BY DEF Decoded
<1>2. decode_op_I(code, d, "src1", n) = [d EXCEPT !["src1"] = v, !.pos = pos + n]
  <2> HIDE DEF d
  <2> QED
    BY <1>1 DEF decode_op_I
<1> HIDE DEF v
<1>3. ASSUME NEW e, e = [d EXCEPT !["src1"] = v, !.pos = pos + n]
      PROVE  e = Decoded(pos + n, op, is16, w, maddr, b, x, v, z)
  BY <1>3 DEF Decoded
<1> QED
  BY <1>2, <1>3 DEF v

\* A datum in the code is the low bytes of what was laid out there.
LEMMA FetchImm ==
  ASSUME NEW x \in Int, NEW w \in Widths, NEW code, NEW at \in Nat, At(code, at, Low(x, w))
  PROVE  Fetch(code, at, w) = x % Radix(w)
<1>1. /\ Len(Low(x, w)) = w
      /\ \A i \in 1..w : Low(x, w)[i] = ByteOf(x, i - 1)
  BY LowFacts2 DEF Widths
<1>2. \A i \in 1..w : code[at + i - 1] = ByteOf(x, i - 1)
  BY <1>1 DEF At
<1>3. /\ Fetch(code, at, w) \in 0..(WORD - 1)
      /\ \A k \in 0..3 : ByteOf(Fetch(code, at, w), k) = IF k < w THEN ByteOf(x, k) ELSE 0
  <2>1. w \in {0, 1, 2, 4}
    BY DEF Widths
  <2> QED
    BY <1>2, <2>1, FetchFacts
<1>4. /\ x % Radix(w) \in 0..(WORD - 1)
      /\ \A k \in 0..3 : ByteOf(x % Radix(w), k) = IF k < w THEN ByteOf(x, k) ELSE 0
  <2> HIDE DEF WORD, HALF
  <2>1. CASE w = 1
    <3>1. Radix(w) = BYTE
      BY <2>1, RadixFacts
    <3> QED
      BY <2>1, <3>1, ModBytes
  <2>2. CASE w = 2
    <3>1. Radix(w) = HALF
      BY <2>2, RadixFacts
    <3> QED
      BY <2>2, <3>1, ModBytes
  <2>3. CASE w = 4
    <3>1. Radix(w) = WORD
      BY <2>3, RadixFacts
    <3>2. \A k \in 0..3 : k < 4
      OBVIOUS
    <3> QED
      BY <2>3, <3>1, <3>2, ModBytes
  <2> QED
    BY <2>1, <2>2, <2>3 DEF Widths
<1>5. \A k \in 0..3 : ByteOf(Fetch(code, at, w), k) = ByteOf(x % Radix(w), k)
  BY <1>3, <1>4
<1> QED
  BY <1>3, <1>4, <1>5, SameWord

\* exec_mov on what was decoded.
LEMMA MovedReg ==
  ASSUME NEW pos \in Int, NEW op, NEW is16, NEW w, NEW maddr, NEW b, NEW r, NEW src, NEW z
  PROVE  exec_mov(Decoded(pos, op, is16, w, maddr, b, operand_reg(r, w), src, z)) =
           Result(rtl_sr(gpr, r, src.val, w), b, "RUNNING", pos - 1)
<1> DEFINE d == Decoded(pos, op, is16, w, maddr, b, operand_reg(r, w), src, z)
<1>1. /\ d.pos = pos /\ d.width = w /\ d.bus = b /\ d.src1 = src
      /\ d.dest.type = "reg" /\ d.dest.reg = r
  BY DEF Decoded, operand_reg
<1> HIDE DEF d
<1> QED
  BY <1>1 DEF exec_mov, operand_write, d

\* exec_mov to memory is one store of the source.
LEMMA MovedMem ==
  ASSUME NEW pos \in Int, NEW op, NEW is16, NEW w, NEW maddr, NEW b, NEW x, NEW src, NEW z
  PROVE  exec_mov(Decoded(pos, op, is16, w, maddr, b, operand_mem(x), src, z)) =
           Result(gpr, vaddr_write(b, maddr, src.val, w), "RUNNING", pos - 1)
<1> DEFINE d == Decoded(pos, op, is16, w, maddr, b, operand_mem(x), src, z)
<1>1. /\ d.pos = pos /\ d.width = w /\ d.bus = b /\ d.src1 = src /\ d.maddr = maddr
      /\ d.dest.type = "mem"
  BY DEF Decoded, operand_mem
<1> HIDE DEF d
<1> QED
  BY <1>1 DEF exec_mov, operand_write, d

-----------------------------------------------------------------------------
(* The R/M operand of any encoding.                                        *)

\* What decoding an operand o leaves: its address, the operand not loaded and
\* loaded, and the bus after the load.
RmAddr(o) == IF o.k = "mem" THEN Address(o, gpr) ELSE 0
RmOperand(o, w) == IF o.k = "mem" THEN operand_mem(0) ELSE operand_reg(o.r, w)
RmLoaded(o, w) ==
  IF o.k = "mem" THEN operand_mem(vaddr_read(bus, Address(o, gpr), w).x) ELSE operand_reg(o.r, w)
RmBus(o, w) == IF o.k = "mem" THEN vaddr_read(bus, Address(o, gpr), w).b ELSE bus

RmDecodes(code, pos, op, is16, w, o, reg, m) ==
  /\ m \in Seq(Int)
  /\ decode_mov_G2E(code, Fresh(pos, op, is16, w)) =
       Decoded(pos + Len(m), op, is16, w, RmAddr(o), bus, RmOperand(o, w), operand_reg(reg, w), Blank)
  /\ decode_mov_E2G(code, Fresh(pos, op, is16, w)) =
       Decoded(pos + Len(m), op, is16, w, RmAddr(o), RmBus(o, w), operand_reg(reg, w), RmLoaded(o, w), Blank)
  /\ decode_gp7_E(code, Fresh(pos, op, is16, w)) =
       Decoded(pos + Len(m), op, is16, w, RmAddr(o), bus, RmOperand(o, w), Blank, operand_reg(reg, w))
  /\ decode_E(code, Fresh(pos, op, is16, w)) =
       Decoded(pos + Len(m), op, is16, w, RmAddr(o), RmBus(o, w), RmLoaded(o, w), Blank, operand_reg(reg, w))

\* Whatever form of addressing encodes it, an r/m operand decodes to what it means.
LEMMA RmDecoded ==
  ASSUME RegsOK, NEW o, IsReg(o) \/ IsMem(o), NEW reg \in 0..7, NEW m \in RmEncodings(o, reg),
         NEW code, NEW pos \in Nat, At(code, pos, m), NEW op, NEW is16, NEW w
  PROVE  RmDecodes(code, pos, op, is16, w, o, reg, m)
<1>1. CASE IsReg(o)
  <2>1. /\ m \in Seq(Int) /\ Len(m) = 1
        /\ ModField(m[1]) = 3 /\ RegField(m[1]) = reg /\ RmField(m[1]) = o.r
    BY <1>1, RmReg
  <2>2. code[pos] = m[1]
    <3>1. 1 \in 1..Len(m) /\ pos + 1 - 1 = pos
      BY <2>1
    <3> QED
      BY <3>1 DEF At
  <2>3. ModField(code[pos]) = 3 /\ RegField(code[pos]) = reg /\ RmField(code[pos]) = o.r
    BY <2>1, <2>2
  <2>4. /\ RmAddr(o) = 0 /\ RmBus(o, w) = bus
        /\ RmOperand(o, w) = operand_reg(o.r, w) /\ RmLoaded(o, w) = operand_reg(o.r, w)
    BY <1>1 DEF IsReg, RmAddr, RmBus, RmOperand, RmLoaded
  <2> QED
    BY <2>1, <2>3, <2>4, ModRMReg DEF RmDecodes
<1>2. CASE IsMem(o)
  <2>1. Addresses(m, o, reg)
    BY <1>2, RmMem
  <2>2. /\ m \in Seq(Int) /\ Len(m) >= 1 /\ Len(m) \in Nat
        /\ ModField(m[1]) # 3 /\ RegField(m[1]) = reg
        /\ load_addr(code, pos) = [maddr |-> Address(o, gpr), pos |-> pos + Len(m)]
    BY <2>1 DEF Addresses
  <2>3. code[pos] = m[1]
    <3>1. 1 \in 1..Len(m) /\ pos + 1 - 1 = pos
      BY <2>2
    <3> QED
      BY <3>1 DEF At
  <2>4. ModField(code[pos]) # 3 /\ RegField(code[pos]) = reg
    BY <2>2, <2>3
  <2>5. /\ RmAddr(o) = Address(o, gpr) /\ RmOperand(o, w) = operand_mem(0)
        /\ IsLoad(RmBus(o, w), RmLoaded(o, w), bus, Address(o, gpr), w)
    BY <1>2 DEF IsMem, RmAddr, RmBus, RmOperand, RmLoaded, IsLoad
  <2> DEFINE next == pos + Len(m)  addr == Address(o, gpr)  c == RmBus(o, w)  v == RmLoaded(o, w)
  <2>6. load_addr(code, pos) = [maddr |-> addr, pos |-> next] /\ IsLoad(c, v, bus, addr, w)
    BY <2>2, <2>5
  <2> HIDE DEF next, addr, c, v
  <2>7. /\ decode_mov_G2E(code, Fresh(pos, op, is16, w)) =
             Decoded(next, op, is16, w, addr, bus, operand_mem(0), operand_reg(reg, w), Blank)
        /\ decode_mov_E2G(code, Fresh(pos, op, is16, w)) =
             Decoded(next, op, is16, w, addr, c, operand_reg(reg, w), v, Blank)
        /\ decode_gp7_E(code, Fresh(pos, op, is16, w)) =
             Decoded(next, op, is16, w, addr, bus, operand_mem(0), Blank, operand_reg(reg, w))
        /\ decode_E(code, Fresh(pos, op, is16, w)) =
             Decoded(next, op, is16, w, addr, c, v, Blank, operand_reg(reg, w))
    BY <2>4, <2>6, ModRMMem
  <2> QED
    BY <2>2, <2>5, <2>7 DEF next, addr, c, v, RmDecodes
<1> QED
  BY <1>1, <1>2

-----------------------------------------------------------------------------
(* The mov instructions, one kind of encoding after the other.             *)

\* The value a mov without a load stores.
SrcVal(a) == IF a.src.k = "imm" THEN a.src.v % Radix(a.w) ELSE rtl_lr(gpr, a.src.r, a.w)

\* What the emulator does for a mov, whatever its encoding.
Stored(o, b, x, w, len) ==
  IF o.k = "mem" THEN Result(gpr, vaddr_write(b, Address(o, gpr), x, w), "RUNNING", len)
  ELSE Result(rtl_sr(gpr, o.r, x, w), b, "RUNNING", len)
MovResult(a, len) ==
  IF a.src.k = "mem"
  THEN Stored(a.dst, vaddr_read(bus, Address(a.src, gpr), a.w).b,
              vaddr_read(bus, Address(a.src, gpr), a.w).x, a.w, len)
  ELSE Stored(a.dst, bus, SrcVal(a), a.w, len)

\* exec_mov to an operand that decoding left.
LEMMA MovedTo ==
  ASSUME NEW pos \in Int, NEW op, NEW is16, NEW w, NEW o, NEW b, NEW src, NEW z
  PROVE  exec_mov(Decoded(pos, op, is16, w, RmAddr(o), b, RmOperand(o, w), src, z)) =
           Stored(o, b, src.val, w, pos - 1)
<1>1. CASE o.k = "mem"
  <2>1. RmAddr(o) = Address(o, gpr) /\ RmOperand(o, w) = operand_mem(0)
    BY <1>1 DEF RmAddr, RmOperand
  <2> QED
    BY <1>1, <2>1, MovedMem DEF Stored
<1>2. CASE o.k # "mem"
  <2>1. RmOperand(o, w) = operand_reg(o.r, w)
    BY <1>2 DEF RmOperand
  <2> QED
    BY <1>2, <2>1, MovedReg DEF Stored
<1> QED
  BY <1>1, <1>2

\* What the laid-out code gives the decoder.
LEMMA LaidFacts ==
  ASSUME NEW code, NEW n, NEW op \in Int, NEW m \in Seq(Int), NEW t \in Seq(Int), Laid(code, n, op, m, t)
  PROVE  /\ n \in {1, 2} /\ n + 1 \in Nat /\ Len(m) \in Nat /\ Len(t) \in Nat
         /\ At(code, n + 1, m) /\ At(code, n + 1 + Len(m), t)
         /\ Len(code) = n + Len(m) + Len(t)
BY DEF Laid

\* 0x88, 0x89: from a register.
LEMMA MovG2E ==
  ASSUME RegsOK, NEW a, IsMov(a), IsReg(a.src), NEW n \in {1, 2}, NEW op \in {\h88, \h89},
         NEW m \in RmEncodings(a.dst, a.src.r), NEW code, Laid(code, n, op, m, <<>>),
         a.w = WidthOf(n, op)
  PROVE  fetch_decode_exec(code) = MovResult(a, Len(code))
<1>1. (IsReg(a.dst) \/ IsMem(a.dst)) /\ a.src.r \in 0..7 /\ a.src.k = "reg"
  BY DEF IsMov, IsReg, IsMem
<1>2. n \in {1, 2} /\ n + 1 \in Nat /\ At(code, n + 1, m) /\ Len(code) = n + Len(m) /\ Len(m) \in Nat
  BY DEF Laid
<1>3. fetch_decode_exec(code) = exec_mov(decode_mov_G2E(code, Fresh(n + 1, op, n > 1, a.w)))
  BY DispatchG2E
<1>4. decode_mov_G2E(code, Fresh(n + 1, op, n > 1, a.w)) =
        Decoded(n + 1 + Len(m), op, n > 1, a.w, RmAddr(a.dst), bus, RmOperand(a.dst, a.w),
                operand_reg(a.src.r, a.w), Blank)
  <2> DEFINE pos == n + 1  h == n > 1
  <2>1. pos \in Nat /\ At(code, pos, m)
    BY <1>2
  <2> HIDE DEF pos, h
  <2>2. RmDecodes(code, pos, op, h, a.w, a.dst, a.src.r, m)
    BY <1>1, <2>1, RmDecoded
  <2> QED
    BY <2>2 DEF RmDecodes, pos, h
<1>5. operand_reg(a.src.r, a.w).val = SrcVal(a)
  BY <1>1 DEF operand_reg, SrcVal
<1>6. n + 1 + Len(m) - 1 = Len(code)
  BY <1>2
<1>7. exec_mov(Decoded(n + 1 + Len(m), op, n > 1, a.w, RmAddr(a.dst), bus, RmOperand(a.dst, a.w),
                       operand_reg(a.src.r, a.w), Blank)) =
        Stored(a.dst, bus, operand_reg(a.src.r, a.w).val, a.w, n + 1 + Len(m) - 1)
  BY MovedTo
<1> QED
  BY <1>1, <1>3, <1>4, <1>5, <1>6, <1>7 DEF MovResult

\* 0x8a, 0x8b: to a register.
LEMMA MovE2G ==
  ASSUME RegsOK, NEW a, IsMov(a), IsReg(a.dst), IsReg(a.src) \/ IsMem(a.src),
         NEW n \in {1, 2}, NEW op \in {\h8a, \h8b},
         NEW m \in RmEncodings(a.src, a.dst.r), NEW code, Laid(code, n, op, m, <<>>),
         a.w = WidthOf(n, op)
  PROVE  fetch_decode_exec(code) = MovResult(a, Len(code))
<1>1. a.dst.r \in 0..7 /\ a.dst.k = "reg" /\ a.src.k \in {"reg", "mem"}
  BY DEF IsReg, IsMem
<1>2. n + 1 \in Nat /\ At(code, n + 1, m) /\ Len(code) = n + Len(m) /\ Len(m) \in Nat
  BY DEF Laid
<1>3. fetch_decode_exec(code) = exec_mov(decode_mov_E2G(code, Fresh(n + 1, op, n > 1, a.w)))
  BY DispatchE2G
<1>4. decode_mov_E2G(code, Fresh(n + 1, op, n > 1, a.w)) =
        Decoded(n + 1 + Len(m), op, n > 1, a.w, RmAddr(a.src), RmBus(a.src, a.w),
                operand_reg(a.dst.r, a.w), RmLoaded(a.src, a.w), Blank)
  <2> DEFINE pos == n + 1  h == n > 1
  <2>1. pos \in Nat /\ At(code, pos, m)
    BY <1>2
  <2> HIDE DEF pos, h
  <2>2. RmDecodes(code, pos, op, h, a.w, a.src, a.dst.r, m)
    BY <1>1, <2>1, RmDecoded
  <2> QED
    BY <2>2 DEF RmDecodes, pos, h
<1>5. exec_mov(Decoded(n + 1 + Len(m), op, n > 1, a.w, RmAddr(a.src), RmBus(a.src, a.w),
                       operand_reg(a.dst.r, a.w), RmLoaded(a.src, a.w), Blank)) =
        Result(rtl_sr(gpr, a.dst.r, RmLoaded(a.src, a.w).val, a.w), RmBus(a.src, a.w), "RUNNING",
               n + 1 + Len(m) - 1)
  BY <1>2, MovedReg
<1>6. n + 1 + Len(m) - 1 = Len(code)
  BY <1>2
<1>7. CASE a.src.k = "mem"
  <2>1. /\ RmLoaded(a.src, a.w).val = vaddr_read(bus, Address(a.src, gpr), a.w).x
        /\ RmBus(a.src, a.w) = vaddr_read(bus, Address(a.src, gpr), a.w).b
    BY <1>7 DEF RmLoaded, RmBus, operand_mem
  <2> QED
    BY <1>1, <1>3, <1>4, <1>5, <1>6, <1>7, <2>1 DEF MovResult, Stored
<1>8. CASE a.src.k = "reg"
  <2>1. RmLoaded(a.src, a.w).val = SrcVal(a) /\ RmBus(a.src, a.w) = bus
    BY <1>8 DEF RmLoaded, RmBus, operand_reg, SrcVal
  <2> QED
    BY <1>1, <1>3, <1>4, <1>5, <1>6, <1>8, <2>1 DEF MovResult, Stored
<1> QED
  BY <1>1, <1>7, <1>8

\* The immediate of a mov.
ImmBytes(t, a) == t = Low(a.src.v, a.w)

\* 0xc6, 0xc7: an immediate.
LEMMA MovI2E ==
  ASSUME RegsOK, NEW a, IsMov(a), IsImm(a.src), NEW n \in {1, 2}, NEW op \in {\hc6, \hc7},
         NEW reg \in 0..7, NEW m \in RmEncodings(a.dst, reg), NEW t, ImmBytes(t, a),
         NEW code, Laid(code, n, op, m, t), a.w = WidthOf(n, op)
  PROVE  fetch_decode_exec(code) = MovResult(a, Len(code))
<1>1. /\ IsReg(a.dst) \/ IsMem(a.dst)
      /\ a.src.v \in Int /\ a.src.k = "imm" /\ a.w \in Widths /\ a.w \in {0, 1, 2, 4}
      /\ a.w \in Int
  BY DEF IsMov, IsImm, IsReg, IsMem, Widths
<1>2. Len(Low(a.src.v, a.w)) = a.w
  BY <1>1, LowFacts2
<1>3. /\ n + 1 \in Nat /\ At(code, n + 1, m) /\ Len(code) = n + Len(m) + a.w /\ Len(m) \in Nat
      /\ At(code, n + 1 + Len(m), Low(a.src.v, a.w)) /\ n + 1 + Len(m) \in Nat
  BY <1>2 DEF Laid, ImmBytes
<1>4. fetch_decode_exec(code) = exec_mov(decode_mov_I2E(code, Fresh(n + 1, op, n > 1, a.w)))
  BY DispatchI2E
<1>5. decode_gp7_E(code, Fresh(n + 1, op, n > 1, a.w)) =
        Decoded(n + 1 + Len(m), op, n > 1, a.w, RmAddr(a.dst), bus, RmOperand(a.dst, a.w), Blank,
                operand_reg(reg, a.w))
  <2>1. RmDecodes(code, n + 1, op, n > 1, a.w, a.dst, reg, m)
    BY <1>1, <1>3, RmDecoded
  <2> QED
    BY <2>1 DEF RmDecodes
<1>6. Fresh(n + 1, op, n > 1, a.w).width = a.w
  BY DEF Fresh, Decoded
<1>7. decode_mov_I2E(code, Fresh(n + 1, op, n > 1, a.w)) =
        decode_op_I(code, decode_gp7_E(code, Fresh(n + 1, op, n > 1, a.w)), "src1", a.w)
  BY <1>6 DEF decode_mov_I2E, decode_gp7_E
<1> DEFINE src == operand_imm(Fetch(code, n + 1 + Len(m), a.w))
<1>8. decode_mov_I2E(code, Fresh(n + 1, op, n > 1, a.w)) =
        Decoded(n + 1 + Len(m) + a.w, op, n > 1, a.w, RmAddr(a.dst), bus, RmOperand(a.dst, a.w), src,
                operand_reg(reg, a.w))
  <2> DEFINE at == n + 1 + Len(m)  w == a.w
  <2>1. at \in Int /\ w \in Int
    BY <1>1, <1>3
  <2> HIDE DEF at, w
  <2>2. decode_op_I(code, Decoded(at, op, n > 1, w, RmAddr(a.dst), bus, RmOperand(a.dst, w), Blank,
                                  operand_reg(reg, w)), "src1", w) =
          Decoded(at + w, op, n > 1, w, RmAddr(a.dst), bus, RmOperand(a.dst, w),
                  operand_imm(Fetch(code, at, w)), operand_reg(reg, w))
    BY <2>1, ImmInto
  <2> QED
    BY <1>5, <1>7, <2>2 DEF at, w
<1>9. src.val = SrcVal(a)
  BY <1>1, <1>3, FetchImm DEF operand_imm, SrcVal
<1> HIDE DEF src
<1>10. exec_mov(Decoded(n + 1 + Len(m) + a.w, op, n > 1, a.w, RmAddr(a.dst), bus, RmOperand(a.dst, a.w), src,
                        operand_reg(reg, a.w))) =
         Stored(a.dst, bus, src.val, a.w, n + 1 + Len(m) + a.w - 1)
  BY <1>1, <1>3, MovedTo
<1>11. n + 1 + Len(m) + a.w - 1 = Len(code)
  BY <1>1, <1>3
<1> QED
  BY <1>1, <1>4, <1>8, <1>9, <1>10, <1>11 DEF MovResult

\* 0xb0 to 0xbf: an immediate to a register.
LEMMA MovI2r ==
  ASSUME NEW a, IsMov(a), IsImm(a.src), IsReg(a.dst), NEW n \in {1, 2}, NEW op \in \hb0..\hbf,
         op % 8 = a.dst.r, NEW code, Laid(code, n, op, Low(a.src.v, a.w), <<>>),
         a.w = IF op < \hb8 THEN 1 ELSE LongWidth(n)
  PROVE  fetch_decode_exec(code) = MovResult(a, Len(code))
<1> DEFINE f == Fresh(n + 1, op, n > 1, a.w)  r == a.dst.r
<1>1. /\ a.dst.k = "reg" /\ a.src.k = "imm"
      /\ a.src.v \in Int /\ a.w \in Widths /\ a.w \in {0, 1, 2, 4} /\ a.w \in Int
  BY DEF IsMov, IsImm, IsReg, Widths
<1>2. Len(Low(a.src.v, a.w)) = a.w
  BY <1>1, LowFacts2
<1>3. /\ n + 1 \in Nat /\ n + 1 \in Int /\ At(code, n + 1, Low(a.src.v, a.w)) /\ Len(code) = n + a.w
  BY <1>2 DEF Laid
<1>4. fetch_decode_exec(code) = exec_mov(decode_mov_I2r(code, f))
  BY DispatchI2r
<1>5. f.width = a.w /\ f.opcode % 8 = r
  BY DEF Fresh, Decoded
<1>6. decode_op_r(f, "dest") = [f EXCEPT !["dest"] = operand_reg(r, a.w)]
  <2> HIDE DEF f, r
  <2> QED
    BY <1>5 DEF decode_op_r
<1>7. [f EXCEPT !["dest"] = operand_reg(r, a.w)] =
        Decoded(n + 1, op, n > 1, a.w, 0, bus, operand_reg(r, a.w), Blank, Blank)
  <2> DEFINE x == operand_reg(r, a.w)  w == a.w  h == n > 1
  <2> HIDE DEF x, w, h
  <2>1. NamedDest(Fresh(n + 1, op, h, w), x) = Decoded(n + 1, op, h, w, 0, bus, x, Blank, Blank)
    BY NamedDestInto DEF Fresh
  <2> QED
    BY <2>1 DEF x, w, h, NamedDest
<1> DEFINE src == operand_imm(Fetch(code, n + 1, a.w))
<1> HIDE DEF f, r
<1>8. decode_mov_I2r(code, f) =
        Decoded(n + 1 + a.w, op, n > 1, a.w, 0, bus, operand_reg(r, a.w), src, Blank)
  <2> DEFINE at == n + 1  w == a.w
  <2>1. at \in Int /\ w \in Int
    BY <1>1, <1>3
  <2> HIDE DEF at, w
  <2>2. decode_op_I(code, Decoded(at, op, n > 1, w, 0, bus, operand_reg(r, w), Blank, Blank), "src1", w) =
          Decoded(at + w, op, n > 1, w, 0, bus, operand_reg(r, w), operand_imm(Fetch(code, at, w)), Blank)
    BY <2>1, ImmInto
  <2>3. decode_mov_I2r(code, f) = decode_op_I(code, decode_op_r(f, "dest"), "src1", w)
    BY <1>5 DEF decode_mov_I2r, w
  <2> QED
    BY <1>6, <1>7, <2>2, <2>3 DEF at, w
<1>9. src.val = SrcVal(a)
  BY <1>1, <1>3, FetchImm DEF operand_imm, SrcVal
<1> HIDE DEF src
<1>10. exec_mov(Decoded(n + 1 + a.w, op, n > 1, a.w, 0, bus, operand_reg(r, a.w), src, Blank)) =
         Result(rtl_sr(gpr, r, src.val, a.w), bus, "RUNNING", n + 1 + a.w - 1)
  BY <1>1, <1>3, MovedReg
<1>11. n + 1 + a.w - 1 = Len(code)
  BY <1>1, <1>3
<1> QED
  BY <1>1, <1>4, <1>8, <1>9, <1>10, <1>11 DEF MovResult, Stored, r

\* The address of an operand without base and index, in the code.
LEMMA AbsoluteAt ==
  ASSUME NEW o, IsMem(o), Absolute(o), NEW code, NEW pos \in Nat, At(code, pos, Low(o.disp, 4))
  PROVE  /\ IsAt([maddr |-> Fetch(code, pos, 4), pos |-> pos + 4], Address(o, gpr), pos + 4)
         /\ Len(Low(o.disp, 4)) = 4
<1>1. o.disp \in Int /\ o.base = None /\ o.index = None
  BY DEF IsMem, Absolute
<1>2. Fetch(code, pos, 4) = o.disp % Radix(4)
  BY <1>1, FetchImm DEF Widths
<1>3. Address(o, gpr) = o.disp % WORD
  BY <1>1 DEF Address
<1>4. Len(Low(o.disp, 4)) = 4
  BY <1>1, LowFacts2
<1> QED
  BY <1>2, <1>3, <1>4, RadixFacts DEF IsAt

\* 0xa0, 0xa1: the accumulator from an absolute address.
LEMMA MovO2a ==
  ASSUME NEW a, IsMov(a), IsMem(a.src), Absolute(a.src), Accumulator(a.dst),
         NEW n \in {1, 2}, NEW op \in {\ha0, \ha1},
         NEW code, Laid(code, n, op, Low(a.src.disp, 4), <<>>), a.w = WidthOf(n, op)
  PROVE  fetch_decode_exec(code) = MovResult(a, Len(code))
<1> DEFINE f == Fresh(n + 1, op, n > 1, a.w)
           at == [maddr |-> Fetch(code, n + 1, 4), pos |-> n + 1 + 4]
           addr == Address(a.src, gpr)
           c == vaddr_read(bus, addr, a.w).b  v == operand_mem(vaddr_read(bus, addr, a.w).x)
<1>1. a.dst.k = "reg" /\ a.dst.r = R_EAX /\ a.src.k = "mem" /\ n + 1 \in Nat
  BY DEF Accumulator, IsMem
<1>2. At(code, n + 1, Low(a.src.disp, 4))
  BY DEF Laid
<1>3. IsAt(at, addr, n + 1 + 4) /\ Len(Low(a.src.disp, 4)) = 4
  BY <1>1, <1>2, AbsoluteAt
<1>l. n + 1 + 4 - 1 = Len(code)
  <2> DEFINE m == Low(a.src.disp, 4)
  <2>1. Laid(code, n, op, m, <<>>) /\ Len(m) = 4
    BY <1>3
  <2> HIDE DEF m
  <2>2. Len(code) = n + Len(m)
    BY <2>1 DEF Laid
  <2> QED
    BY <2>1, <2>2
<1>4. IsLoad(c, v, bus, addr, a.w)
  BY DEF IsLoad
<1>5. fetch_decode_exec(code) = exec_mov(decode_O2a(code, f))
  BY DispatchO2a
<1>6. f.pos = n + 1 /\ f = Decoded(n + 1, op, n > 1, a.w, 0, bus, Blank, Blank, Blank)
  BY DEF Fresh, Decoded
<1> HIDE DEF f
<1>7. decode_O2a(code, f) = decode_op_a(LoadedMem(f, "src1", at), "dest")
  BY <1>6 DEF decode_O2a, decode_op_O, LoadedMem
<1> HIDE DEF at, addr, c, v
<1> DEFINE d == Decoded(n + 1 + 4, op, n > 1, a.w, addr, c, Blank, v, Blank)
<1>8. LoadedMem(f, "src1", at) = d
  BY <1>3, <1>4, <1>6, LoadedSource
<1>9. decode_op_a(d, "dest") = [d EXCEPT !["dest"] = operand_reg(R_EAX, a.w)]
  <2>1. d.width = a.w
    BY DEF Decoded
  <2> HIDE DEF d
  <2> QED
    BY <2>1 DEF decode_op_a
<1>10. [d EXCEPT !["dest"] = operand_reg(R_EAX, a.w)] =
         Decoded(n + 1 + 4, op, n > 1, a.w, addr, c, operand_reg(R_EAX, a.w), v, Blank)
  <2> DEFINE x == operand_reg(R_EAX, a.w)  w == a.w  p == n + 1 + 4  h == n > 1
  <2> HIDE DEF x, w, p, h
  <2>1. NamedDest(Decoded(p, op, h, w, addr, c, Blank, v, Blank), x) =
          Decoded(p, op, h, w, addr, c, x, v, Blank)
    BY NamedDestInto
  <2> QED
    BY <2>1 DEF x, w, p, h, NamedDest
<1> HIDE DEF d
<1>11. exec_mov(Decoded(n + 1 + 4, op, n > 1, a.w, addr, c, operand_reg(R_EAX, a.w), v, Blank)) =
         Result(rtl_sr(gpr, R_EAX, v.val, a.w), c, "RUNNING", n + 1 + 4 - 1)
  BY MovedReg
<1>13. v.val = vaddr_read(bus, addr, a.w).x
  BY DEF v, operand_mem
<1> QED
  BY <1>1, <1>5, <1>7, <1>8, <1>9, <1>10, <1>11, <1>l, <1>13 DEF MovResult, Stored, addr, c, d

\* 0xa2, 0xa3: the accumulator to an absolute address.
LEMMA MovA2O ==
  ASSUME NEW a, IsMov(a), IsMem(a.dst), Absolute(a.dst), Accumulator(a.src),
         NEW n \in {1, 2}, NEW op \in {\ha2, \ha3},
         NEW code, Laid(code, n, op, Low(a.dst.disp, 4), <<>>), a.w = WidthOf(n, op)
  PROVE  fetch_decode_exec(code) = MovResult(a, Len(code))
<1> DEFINE f == Fresh(n + 1, op, n > 1, a.w)
           at == [maddr |-> Fetch(code, n + 1, 4), pos |-> n + 1 + 4]
           addr == Address(a.dst, gpr)
           src == operand_reg(R_EAX, a.w)
           d == [f EXCEPT !["src1"] = src]
<1>1. a.src.k = "reg" /\ a.src.r = R_EAX /\ a.dst.k = "mem" /\ n + 1 \in Nat
  BY DEF Accumulator, IsMem
<1>2. At(code, n + 1, Low(a.dst.disp, 4))
  BY DEF Laid
<1>3. IsAt(at, addr, n + 1 + 4) /\ Len(Low(a.dst.disp, 4)) = 4
  BY <1>1, <1>2, AbsoluteAt
<1>l. n + 1 + 4 - 1 = Len(code)
  <2> DEFINE m == Low(a.dst.disp, 4)
  <2>1. Laid(code, n, op, m, <<>>) /\ Len(m) = 4
    BY <1>3
  <2> HIDE DEF m
  <2>2. Len(code) = n + Len(m)
    BY <2>1 DEF Laid
  <2> QED
    BY <2>1, <2>2
<1>4. fetch_decode_exec(code) = exec_mov(decode_a2O(code, f))
  BY DispatchA2O
<1>5. decode_op_a(f, "src1") = d
  <2>1. f.width = a.w
    BY DEF Fresh, Decoded
  <2> HIDE DEF f
  <2> QED
    BY <2>1 DEF decode_op_a
<1> HIDE DEF src
<1>6. d = Decoded(n + 1, op, n > 1, a.w, 0, bus, Blank, src, Blank)
  <2> DEFINE pos == n + 1  h == n > 1
  <2>1. d = NamedSrc(f, src)
    BY DEF NamedSrc
  <2>2. f = Decoded(pos, op, h, a.w, 0, bus, Blank, Blank, Blank)
    BY DEF Fresh
  <2> HIDE DEF d, f, pos, h
  <2>3. NamedSrc(f, src) = Decoded(pos, op, h, a.w, 0, bus, Blank, src, Blank)
    BY <2>2, NamedSrcInto
  <2> QED
    BY <2>1, <2>3 DEF pos, h
<1> HIDE DEF f, d
<1>7. d.pos = n + 1
  BY <1>6 DEF Decoded
<1>8. decode_a2O(code, f) = PlacedMem(d, "dest", at)
  BY <1>5, <1>7 DEF decode_a2O, decode_op_O, PlacedMem
<1> HIDE DEF at, addr
<1>9. PlacedMem(d, "dest", at) =
        Decoded(n + 1 + 4, op, n > 1, a.w, addr, bus, operand_mem(0), src, Blank)
  BY <1>3, <1>6, PlacedDest
<1>10. exec_mov(Decoded(n + 1 + 4, op, n > 1, a.w, addr, bus, operand_mem(0), src, Blank)) =
         Result(gpr, vaddr_write(bus, addr, src.val, a.w), "RUNNING", n + 1 + 4 - 1)
  BY MovedMem
<1>12. src.val = SrcVal(a)
  BY <1>1 DEF src, operand_reg, SrcVal
<1> QED
  BY <1>1, <1>4, <1>8, <1>9, <1>10, <1>l, <1>12 DEF MovResult, Stored, addr

-----------------------------------------------------------------------------
(* All encodings of a mov.                                                 *)

\* LaidOut, of an instruction without an immediate.
LEMMA LaidShort ==
  ASSUME NEW n \in {1, 2}, NEW op \in Int, NEW m \in Seq(Int)
  PROVE  Laid((IF n = 2 THEN <<\h66>> ELSE <<>>) \o (<<op>> \o m), n, op, m, <<>>)
<1>1. <<>> \in Seq(Int) /\ <<op>> \o m \in Seq(Int)
  OBVIOUS
<1>2. (<<op>> \o m) \o <<>> = <<op>> \o m
  BY <1>1
<1> QED
  BY <1>1, <1>2, LaidOut

Wide(w) == IF w = 1 THEN 0 ELSE 1
PrefixLen(w) == IF w = 2 THEN 2 ELSE 1
Prefixed(w, c) == (IF w = 2 THEN <<\h66>> ELSE <<>>) \o c

\* The six kinds of encodings.
KindG2E(a, code) ==
  /\ a.src.k = "reg"
  /\ \E m \in RmEncodings(a.dst, a.src.r) : code = Prefixed(a.w, <<\h88 + Wide(a.w)>> \o m)
KindE2G(a, code) ==
  /\ a.dst.k = "reg" /\ a.src.k # "imm"
  /\ \E m \in RmEncodings(a.src, a.dst.r) : code = Prefixed(a.w, <<\h8a + Wide(a.w)>> \o m)
KindI2E(a, code) ==
  /\ a.src.k = "imm"
  /\ \E m \in RmEncodings(a.dst, 0) :
       code = Prefixed(a.w, (<<\hc6 + Wide(a.w)>> \o m) \o Low(a.src.v, a.w))
KindI2r(a, code) ==
  /\ a.src.k = "imm" /\ a.dst.k = "reg"
  /\ code = Prefixed(a.w, <<\hb0 + 8 * Wide(a.w) + a.dst.r>> \o Low(a.src.v, a.w))
KindO2a(a, code) ==
  /\ Accumulator(a.dst) /\ Absolute(a.src)
  /\ code = Prefixed(a.w, <<\ha0 + Wide(a.w)>> \o Low(a.src.disp, 4))
KindA2O(a, code) ==
  /\ Accumulator(a.src) /\ Absolute(a.dst)
  /\ code = Prefixed(a.w, <<\ha2 + Wide(a.w)>> \o Low(a.dst.disp, 4))

\* An encoding of a mov is one of the six forms of opcode.
LEMMA EncodingKinds ==
  ASSUME NEW a, NEW code \in Encodings(a)
  PROVE  \/ KindG2E(a, code) \/ KindE2G(a, code) \/ KindI2E(a, code)
         \/ KindI2r(a, code) \/ KindO2a(a, code) \/ KindA2O(a, code)
<1> DEFINE wide == IF a.w = 1 THEN 0 ELSE 1
           G2E == IF a.src.k = "reg"
                  THEN {<<\h88 + wide>> \o m : m \in RmEncodings(a.dst, a.src.r)} ELSE {}
           E2G == IF a.dst.k = "reg" /\ a.src.k # "imm"
                  THEN {<<\h8a + wide>> \o m : m \in RmEncodings(a.src, a.dst.r)} ELSE {}
           I2E == IF a.src.k = "imm"
                  THEN {<<\hc6 + wide>> \o m \o Low(a.src.v, a.w) : m \in RmEncodings(a.dst, 0)} ELSE {}
           I2r == IF a.src.k = "imm" /\ a.dst.k = "reg"
                  THEN {<<\hb0 + 8 * wide + a.dst.r>> \o Low(a.src.v, a.w)} ELSE {}
           O2a == IF Accumulator(a.dst) /\ Absolute(a.src)
                  THEN {<<\ha0 + wide>> \o Low(a.src.disp, 4)} ELSE {}
           A2O == IF Accumulator(a.src) /\ Absolute(a.dst)
                  THEN {<<\ha2 + wide>> \o Low(a.dst.disp, 4)} ELSE {}
           all == (G2E \cup E2G \cup I2E) \cup (I2r \cup O2a \cup A2O)
<1>1. Encodings(a) = {Prefixed(a.w, c) : c \in all}
  BY DEF Encodings, Prefixed
<1>2. wide = Wide(a.w)
  BY DEF Wide
<1> HIDE DEF wide
<1>3. PICK c \in all : code = Prefixed(a.w, c)
  <2> HIDE DEF all
  <2> QED
    BY <1>1
<1>4. CASE c \in G2E
  <2>1. a.src.k = "reg" /\ \E m \in RmEncodings(a.dst, a.src.r) : c = <<\h88 + wide>> \o m
    <3>1. CASE a.src.k = "reg"
      BY <1>4, <3>1
    <3>2. CASE a.src.k # "reg"
      BY <1>4, <3>2
    <3> QED
      BY <3>1, <3>2
  <2> HIDE DEF all, G2E, E2G, I2E, I2r, O2a, A2O
  <2> QED
    BY <1>2, <1>3, <2>1 DEF KindG2E
<1>5. CASE c \in E2G
  <2>1. a.dst.k = "reg" /\ a.src.k # "imm"
        /\ \E m \in RmEncodings(a.src, a.dst.r) : c = <<\h8a + wide>> \o m
    <3>1. CASE a.dst.k = "reg" /\ a.src.k # "imm"
      BY <1>5, <3>1
    <3>2. CASE ~(a.dst.k = "reg" /\ a.src.k # "imm")
      BY <1>5, <3>2
    <3> QED
      BY <3>1, <3>2
  <2> HIDE DEF all, G2E, E2G, I2E, I2r, O2a, A2O
  <2> QED
    BY <1>2, <1>3, <2>1 DEF KindE2G
<1>6. CASE c \in I2E
  BY <1>2, <1>3, <1>6 DEF KindI2E
<1>7. CASE c \in I2r
  <2>1. a.src.k = "imm" /\ a.dst.k = "reg" /\ c = <<\hb0 + 8 * wide + a.dst.r>> \o Low(a.src.v, a.w)
    <3>1. CASE a.src.k = "imm" /\ a.dst.k = "reg"
      BY <1>7, <3>1
    <3>2. CASE ~(a.src.k = "imm" /\ a.dst.k = "reg")
      BY <1>7, <3>2
    <3> QED
      BY <3>1, <3>2
  <2> QED
    BY <1>2, <1>3, <2>1 DEF KindI2r
<1>8. CASE c \in O2a
  <2>1. Accumulator(a.dst) /\ Absolute(a.src) /\ c = <<\ha0 + wide>> \o Low(a.src.disp, 4)
    <3>1. CASE Accumulator(a.dst) /\ Absolute(a.src)
      BY <1>8, <3>1
    <3>2. CASE ~(Accumulator(a.dst) /\ Absolute(a.src))
      BY <1>8, <3>2
    <3> QED
      BY <3>1, <3>2
  <2> QED
    BY <1>2, <1>3, <2>1 DEF KindO2a
<1>9. CASE c \in A2O
  <2>1. Accumulator(a.src) /\ Absolute(a.dst) /\ c = <<\ha2 + wide>> \o Low(a.dst.disp, 4)
    <3>1. CASE Accumulator(a.src) /\ Absolute(a.dst)
      BY <1>9, <3>1
    <3>2. CASE ~(Accumulator(a.src) /\ Absolute(a.dst))
      BY <1>9, <3>2
    <3> QED
      BY <3>1, <3>2
  <2> QED
    BY <1>2, <1>3, <2>1 DEF KindA2O
<1> HIDE DEF G2E, E2G, I2E, I2r, O2a, A2O
<1> QED
  BY <1>3, <1>4, <1>5, <1>6, <1>7, <1>8, <1>9

\* Prefix and lowest bit of the opcode are the width.
LEMMA Opcodes ==
  ASSUME NEW w \in Widths, NEW base \in {\h88, \h8a, \hc6, \ha0, \ha2}
  PROVE  /\ PrefixLen(w) \in {1, 2} /\ base + Wide(w) \in {base, base + 1}
         /\ base + Wide(w) \in Int
         /\ w = WidthOf(PrefixLen(w), base + Wide(w))
BY DEF Widths, PrefixLen, Wide, WidthOf

\* The prefix is there for a width of two and only for it.
LEMMA PrefixedAs ==
  ASSUME NEW w \in Widths, NEW c
  PROVE  Prefixed(w, c) = (IF PrefixLen(w) = 2 THEN <<\h66>> ELSE <<>>) \o c
BY DEF Prefixed, PrefixLen, Widths

\* LaidOut, behind the prefix a width calls for.
LEMMA PrefixedLaid ==
  ASSUME NEW w \in Widths, NEW op \in Int, NEW m \in Seq(Int), NEW t \in Seq(Int)
  PROVE  /\ Laid(Prefixed(w, <<op>> \o m), PrefixLen(w), op, m, <<>>)
         /\ Laid(Prefixed(w, (<<op>> \o m) \o t), PrefixLen(w), op, m, t)
<1>1. PrefixLen(w) \in {1, 2}
  BY DEF PrefixLen
<1> DEFINE n == PrefixLen(w)
<1>2. ASSUME NEW c PROVE Prefixed(w, c) = (IF n = 2 THEN <<\h66>> ELSE <<>>) \o c
  BY PrefixedAs
<1> HIDE DEF n
<1>3. n \in {1, 2}
  BY <1>1 DEF n
<1>4. Laid((IF n = 2 THEN <<\h66>> ELSE <<>>) \o (<<op>> \o m), n, op, m, <<>>)
  BY <1>3, LaidShort
<1>5. Laid((IF n = 2 THEN <<\h66>> ELSE <<>>) \o ((<<op>> \o m) \o t), n, op, m, t)
  BY <1>3, LaidOut
<1>6. /\ Prefixed(w, <<op>> \o m) = (IF n = 2 THEN <<\h66>> ELSE <<>>) \o (<<op>> \o m)
      /\ Prefixed(w, (<<op>> \o m) \o t) = (IF n = 2 THEN <<\h66>> ELSE <<>>) \o ((<<op>> \o m) \o t)
  BY <1>2
<1> QED
  BY <1>4, <1>5, <1>6 DEF n

\* An encoding has a length.
LEMMA LaidLen ==
  ASSUME NEW code, NEW n, NEW op, NEW m, NEW t, Laid(code, n, op, m, t)
  PROVE  Len(code) \in Nat
<1>1. (n = 1 \/ n = 2) /\ Len(m) \in Nat /\ Len(t) \in Nat /\ Len(code) = n + Len(m) + Len(t)
  BY DEF Laid
<1> QED
  BY <1>1

\* Whatever its encoding, a mov is executed as MovResult says.
LEMMA MovDecoded ==
  ASSUME RegsOK, NEW a, IsMov(a), NEW code \in Encodings(a)
  PROVE  fetch_decode_exec(code) = MovResult(a, Len(code)) /\ Len(code) \in Nat
<1> DEFINE n == PrefixLen(a.w)
<1>1. /\ a.w \in Widths /\ n \in {1, 2} /\ a.w \in {0, 1, 2, 4}
      /\ IsReg(a.dst) \/ (IsMem(a.dst) /\ a.dst.k = "mem")
      /\ \/ IsReg(a.src) /\ a.src.k = "reg"
         \/ IsMem(a.src) /\ a.src.k = "mem"
         \/ IsImm(a.src) /\ a.src.k = "imm"
  <2>1. a.w \in Widths /\ n \in {1, 2} /\ a.w \in {0, 1, 2, 4}
    BY DEF IsMov, PrefixLen, Widths
  <2>2. /\ IsReg(a.dst) \/ IsMem(a.dst)
        /\ IsReg(a.src) \/ IsMem(a.src) \/ IsImm(a.src)
    BY DEF IsMov
  <2>3. /\ IsMem(a.dst) => a.dst.k = "mem"
        /\ IsReg(a.src) => a.src.k = "reg"
        /\ IsMem(a.src) => a.src.k = "mem"
        /\ IsImm(a.src) => a.src.k = "imm"
    BY DEF IsReg, IsMem, IsImm
  <2> QED
    BY <2>1, <2>2, <2>3
<1>2. ASSUME NEW o, IsReg(o) \/ IsMem(o), NEW reg \in 0..7, NEW m \in RmEncodings(o, reg)
      PROVE  m \in Seq(Int)
  <2>1. CASE IsReg(o)
    BY <1>2, <2>1, RmReg
  <2>2. CASE IsMem(o)
    BY <1>2, <2>2, RmMem DEF Addresses
  <2> QED
    BY <1>2, <2>1, <2>2
<1>3. CASE KindG2E(a, code)
  <2>1. PICK m \in RmEncodings(a.dst, a.src.r) : code = Prefixed(a.w, <<\h88 + Wide(a.w)>> \o m)
    BY <1>3 DEF KindG2E
  <2> DEFINE op == \h88 + Wide(a.w)
  <2>2. op \in {\h88, \h89} /\ op \in Int /\ a.w = WidthOf(n, op)
    BY <1>1, Opcodes
  <2> HIDE DEF op, n
  <2>3. IsReg(a.src) /\ a.src.r \in 0..7 /\ m \in Seq(Int)
    BY <1>1, <1>2, <1>3 DEF IsReg, KindG2E
  <2>4. Laid(code, n, op, m, <<>>)
    BY <1>1, <2>1, <2>2, <2>3, PrefixedLaid DEF op, n
  <2>9. Len(code) \in Nat
    BY <2>4, LaidLen
  <2> QED
    BY <1>1, <2>2, <2>3, <2>4, <2>9, MovG2E
<1>4. CASE KindE2G(a, code)
  <2>1. PICK m \in RmEncodings(a.src, a.dst.r) : code = Prefixed(a.w, <<\h8a + Wide(a.w)>> \o m)
    BY <1>4 DEF KindE2G
  <2> DEFINE op == \h8a + Wide(a.w)
  <2>2. op \in {\h8a, \h8b} /\ op \in Int /\ a.w = WidthOf(n, op)
    BY <1>1, Opcodes
  <2> HIDE DEF op, n
  <2>3. IsReg(a.dst) /\ a.dst.r \in 0..7 /\ (IsReg(a.src) \/ IsMem(a.src))
    BY <1>1, <1>4 DEF IsReg, IsMem, KindE2G
  <2>4. m \in Seq(Int)
    BY <1>2, <2>3
  <2>5. Laid(code, n, op, m, <<>>)
    BY <1>1, <2>1, <2>2, <2>4, PrefixedLaid DEF op, n
  <2>9. Len(code) \in Nat
    BY <2>5, LaidLen
  <2> QED
    BY <1>1, <2>2, <2>3, <2>5, <2>9, MovE2G
<1>5. CASE KindI2E(a, code)
  <2>1. PICK m \in RmEncodings(a.dst, 0) :
                code = Prefixed(a.w, (<<\hc6 + Wide(a.w)>> \o m) \o Low(a.src.v, a.w))
    BY <1>5 DEF KindI2E
  <2> DEFINE op == \hc6 + Wide(a.w)  t == Low(a.src.v, a.w)
  <2>2. op \in {\hc6, \hc7} /\ op \in Int /\ a.w = WidthOf(n, op)
    BY <1>1, Opcodes
  <2>3. IsImm(a.src) /\ a.src.v \in Int /\ (IsReg(a.dst) \/ IsMem(a.dst)) /\ 0 \in 0..7
    BY <1>1, <1>5 DEF IsImm, KindI2E
  <2>4. t \in Seq(Int)
    BY <1>1, <2>3, LowFacts2
  <2> HIDE DEF op, n, t
  <2>5. m \in Seq(Int)
    BY <1>2, <2>3
  <2>6. Laid(code, n, op, m, t)
    BY <1>1, <2>1, <2>2, <2>4, <2>5, PrefixedLaid DEF op, n, t
  <2>7. ImmBytes(t, a)
    BY DEF t, ImmBytes
  <2> DEFINE reg == 0
  <2>8. reg \in 0..7 /\ m \in RmEncodings(a.dst, reg)
    BY <2>1
  <2> HIDE DEF reg
  <2>9. Len(code) \in Nat
    BY <2>6, LaidLen
  <2> QED
    BY <1>1, <2>2, <2>3, <2>6, <2>7, <2>8, <2>9, MovI2E
<1>6. CASE KindI2r(a, code)
  <2> DEFINE op == \hb0 + 8 * Wide(a.w) + a.dst.r  m == Low(a.src.v, a.w)
  <2>1. IsImm(a.src) /\ a.src.v \in Int /\ IsReg(a.dst) /\ a.dst.r \in 0..7
    BY <1>1, <1>6 DEF IsImm, IsReg, IsMem, KindI2r
  <2>2. /\ op \in \hb0..\hbf /\ op \in Int /\ op % 8 = a.dst.r
        /\ a.w = IF op < \hb8 THEN 1 ELSE LongWidth(n)
    <3> DEFINE r == a.dst.r  w == a.w
    <3>1. r \in 0..7 /\ w \in {1, 2, 4}
      BY <1>1, <2>1 DEF Widths
    <3> HIDE DEF r, w
    <3>2. /\ \hb0 + 8 * Wide(w) + r \in \hb0..\hbf /\ (\hb0 + 8 * Wide(w) + r) % 8 = r
          /\ w = IF \hb0 + 8 * Wide(w) + r < \hb8 THEN 1 ELSE LongWidth(PrefixLen(w))
      BY <3>1 DEF Wide, LongWidth, PrefixLen
    <3> QED
      BY <3>2 DEF r, w
  <2>3. m \in Seq(Int)
    BY <1>1, <2>1, LowFacts2
  <2> HIDE DEF op, n, m
  <2>4. Laid(code, n, op, m, <<>>)
    BY <1>1, <1>6, <2>2, <2>3, PrefixedLaid DEF op, n, m, KindI2r
  <2>9. Len(code) \in Nat
    BY <2>4, LaidLen
  <2> QED
    BY <1>1, <2>1, <2>2, <2>4, <2>9, MovI2r DEF m
<1>7. CASE KindO2a(a, code)
  <2> DEFINE op == \ha0 + Wide(a.w)  m == Low(a.src.disp, 4)
  <2>1. op \in {\ha0, \ha1} /\ op \in Int /\ a.w = WidthOf(n, op)
    BY <1>1, Opcodes
  <2>2. IsMem(a.src) /\ a.src.disp \in Int
    BY <1>1, <1>7 DEF Absolute, IsReg, IsImm, IsMem, KindO2a
  <2>3. m \in Seq(Int)
    BY <2>2, LowFacts2
  <2> HIDE DEF op, n, m
  <2>4. Laid(code, n, op, m, <<>>)
    BY <1>1, <1>7, <2>1, <2>3, PrefixedLaid DEF op, n, m, KindO2a
  <2>5. Accumulator(a.dst) /\ Absolute(a.src)
    BY <1>7 DEF KindO2a
  <2>9. Len(code) \in Nat
    BY <2>4, LaidLen
  <2> QED
    BY <1>1, <2>1, <2>2, <2>4, <2>5, <2>9, MovO2a DEF m
<1>8. CASE KindA2O(a, code)
  <2> DEFINE op == \ha2 + Wide(a.w)  m == Low(a.dst.disp, 4)
  <2>1. op \in {\ha2, \ha3} /\ op \in Int /\ a.w = WidthOf(n, op)
    BY <1>1, Opcodes
  <2>2. IsMem(a.dst) /\ a.dst.disp \in Int
    BY <1>1, <1>8 DEF Absolute, IsReg, IsMem, KindA2O
  <2>3. m \in Seq(Int)
    BY <2>2, LowFacts2
  <2> HIDE DEF op, n, m
  <2>4. Laid(code, n, op, m, <<>>)
    BY <1>1, <1>8, <2>1, <2>3, PrefixedLaid DEF op, n, m, KindA2O
  <2>5. Accumulator(a.src) /\ Absolute(a.dst)
    BY <1>8 DEF KindA2O
  <2>9. Len(code) \in Nat
    BY <2>4, LaidLen
  <2> QED
    BY <1>1, <2>1, <2>2, <2>4, <2>5, <2>9, MovA2O DEF m
<1> QED
  BY <1>3, <1>4, <1>5, <1>6, <1>7, <1>8, EncodingKinds

-----------------------------------------------------------------------------
(* nemu_trap, and what is invalid.                                         *)

\* nemu_trap ends the guest, one byte on.
LEMMA TrapDecoded ==
  /\ fetch_decode_exec(<<\hd6>>) = Result(gpr, bus, "END", 1)
  /\ Len(<<\hd6>>) = 1
<1> DEFINE code == <<\hd6>>  e == <<>>  n == 1  op == \hd6  w == LongWidth(n)
           f == Fresh(n + 1, op, n > 1, w)
<1>1. Laid(code, n, op, e, e)
  BY DEF Laid, At
<1> HIDE DEF code, e
<1>2. n \in {1, 2} /\ op \in {\hd6}
  OBVIOUS
<1> HIDE DEF n, op, w
<1>3. fetch_decode_exec(code) = exec_nemu_trap(f)
  BY <1>1, <1>2, DispatchTrap DEF w
<1>4. f.bus = bus /\ f.pos - 1 = 1
  BY DEF Fresh, Decoded, n
<1> HIDE DEF f
<1>5. exec_nemu_trap(f) = Result(gpr, bus, "END", 1)
  BY <1>4 DEF exec_nemu_trap
<1> QED
  BY <1>3, <1>5 DEF code

\* An opcode of one or two bytes, what follows it, and the rest.
Spread(c, s, n, m, t) ==
  /\ \A k \in 1..n : c[k] = s[k]
  /\ At(c, n + 1, m) /\ At(c, n + 1 + Len(m), t)
  /\ Len(c) = n + Len(m) + Len(t) /\ Len(m) \in Nat /\ Len(t) \in Nat

\* Where the parts of an instruction no table holds land.
LEMMA SpreadOut ==
  ASSUME NEW s \in Seq(Int), NEW n \in {1, 2}, Len(s) = n, NEW m \in Seq(Int), NEW t \in Seq(Int)
  PROVE  Spread((s \o m) \o t, s, n, m, t)
<1> DEFINE sm == s \o m  c == sm \o t
<1>1. /\ sm \in Seq(Int) /\ Len(sm) = n + Len(m) /\ Len(m) \in Nat /\ Len(t) \in Nat
      /\ \A k \in 1..n : sm[k] = s[k]
      /\ \A k \in 1..Len(m) : sm[n + k] = m[k]
  BY Concat
<1> HIDE DEF sm
<1>m. sm \in Seq(Int)
  BY <1>1
<1>2. /\ Len(c) = Len(sm) + Len(t)
      /\ \A k \in 1..Len(sm) : c[k] = sm[k]
      /\ \A k \in 1..Len(t) : c[Len(sm) + k] = t[k]
  BY <1>m, Concat
<1> HIDE DEF c
<1>3. \A k \in 1..n : c[k] = s[k]
  <2>1. \A k \in 1..n : k \in 1..Len(sm)
    BY <1>1
  <2> QED
    BY <1>1, <1>2, <2>1
<1>4. At(c, n + 1, m)
  <2>1. ASSUME NEW k \in 1..Len(m) PROVE c[n + 1 + k - 1] = m[k]
    <3>1. n + k \in 1..Len(sm) /\ n + 1 + k - 1 = n + k
      BY <1>1
    <3> QED
      BY <1>1, <1>2, <3>1
  <2> QED
    BY <2>1 DEF At
<1>5. At(c, n + 1 + Len(m), t)
  <2>1. ASSUME NEW k \in 1..Len(t) PROVE c[n + 1 + Len(m) + k - 1] = t[k]
    <3>1. n + 1 + Len(m) + k - 1 = Len(sm) + k
      BY <1>1
    <3> QED
      BY <1>2, <3>1
  <2> QED
    BY <2>1 DEF At
<1> QED
  BY <1>1, <1>2, <1>3, <1>4, <1>5 DEF Spread, c, sm

\* What decoding before exec_inv leaves: memory may have been read, an
\* assertion may have failed.
Aborted(r, b) ==
  r.gpr = gpr /\ r.state = "ABORT" /\ r.pc = pc + 8 /\ r.bus \in {b, Die(b)}

\* exec_inv aborts, and touches no more than the decoding did.
LEMMA InvAborted ==
  ASSUME NEW d, NEW b, d.bus \in {b, Die(b)}
  PROVE  Aborted(exec_inv(d), b)
BY DEF Aborted, exec_inv, Result

\* The groups: every one decodes the R/M operand, with its load.
LEMMA GroupDecoded ==
  ASSUME NEW code, NEW pos \in Int, NEW op, NEW is16, NEW w \in Int, NEW b, NEW next \in Int, NEW maddr,
         NEW x, NEW z,
         decode_E(code, Fresh(pos, op, is16, w)) = Decoded(next, op, is16, w, maddr, b, x, Blank, z)
  PROVE  /\ Aborted(exec_inv(decode_E(code, Fresh(pos, op, is16, w))), b)
         /\ Aborted(exec_inv(decode_I2E(code, Fresh(pos, op, is16, w))), b)
         /\ Aborted(exec_inv(decode_SI2E(code, Fresh(pos, op, is16, w))), b)
         /\ Aborted(exec_inv(decode_gp2_1_E(code, Fresh(pos, op, is16, w))), b)
         /\ Aborted(exec_inv(decode_gp2_cl2E(code, Fresh(pos, op, is16, w))), b)
         /\ Aborted(exec_inv(decode_gp2_Ib2E(code, Fresh(pos, op, is16, w))), b)
<1> DEFINE f == Fresh(pos, op, is16, w)  d == Decoded(next, op, is16, w, maddr, b, x, Blank, z)
<1>1. OnlyRm(code, f, TRUE) = d
  BY DEF decode_E
<1>2. f.width = w
  BY DEF Fresh, Decoded
<1>3. d.bus = b
  BY DEF Decoded
<1>4. \A i : [d EXCEPT !.src1 = i].bus = b
  BY DEF Decoded
<1>5. [d EXCEPT !.bus = Die(@)].bus = Die(b)
  BY DEF Decoded
<1>6. \A n \in Int : decode_op_I(code, d, "src1", n).bus = b
  <2> TAKE n \in Int
  <2>1. decode_op_I(code, d, "src1", n) =
          Decoded(next + n, op, is16, w, maddr, b, x, operand_imm(Fetch(code, next, n)), z)
    BY ImmInto
  <2> QED
    BY <2>1 DEF Decoded
<1> HIDE DEF f, d
<1>7. /\ decode_E(code, f).bus = b
      /\ decode_I2E(code, f).bus = b
      /\ decode_SI2E(code, f).bus = Die(b)
      /\ decode_gp2_1_E(code, f).bus = b
      /\ decode_gp2_cl2E(code, f).bus = b
      /\ decode_gp2_Ib2E(code, f).bus = b
  <2>1. decode_E(code, f).bus = b
    BY <1>1, <1>3 DEF decode_E
  <2>2. decode_I2E(code, f).bus = b /\ decode_gp2_Ib2E(code, f).bus = b
    <3>1. decode_op_I(code, d, "src1", w).bus = b /\ decode_op_I(code, d, "src1", 1).bus = b
      BY <1>6
    <3> QED
      BY <1>1, <1>2, <3>1 DEF decode_I2E, decode_gp2_Ib2E
  <2>3. decode_SI2E(code, f).bus = Die(b)
    BY <1>1, <1>5 DEF decode_SI2E, decode_op_SI
  <2>4. decode_gp2_1_E(code, f).bus = b /\ decode_gp2_cl2E(code, f).bus = b
    BY <1>1, <1>4 DEF decode_gp2_1_E, decode_gp2_cl2E
  <2> QED
    BY <2>1, <2>2, <2>3, <2>4
<1> QED
  BY <1>7, InvAborted DEF f

\* The result of one of the groups.
OfGroup(r, code, f) ==
  \/ r = exec_inv(decode_E(code, f)) \/ r = exec_inv(decode_I2E(code, f))
  \/ r = exec_inv(decode_SI2E(code, f)) \/ r = exec_inv(decode_gp2_1_E(code, f))
  \/ r = exec_inv(decode_gp2_cl2E(code, f)) \/ r = exec_inv(decode_gp2_Ib2E(code, f))

\* An opcode that is no mov is one of a group, or none.
LEMMA OtherDispatch ==
  ASSUME NEW code, NEW n \in {1, 2}, NEW op \in OtherOpcode, NEW m, NEW t, Laid(code, n, op, m, t)
  PROVE  \/ Aborted(fetch_decode_exec(code), bus)
         \/ \E w \in Widths : OfGroup(fetch_decode_exec(code), code, Fresh(n + 1, op, n > 1, w))
<1> DEFINE d == Ready(n, op, 0)  r == Dispatch(code, d)
<1>0. op \in Int /\ op # \h66
  BY DEF OtherOpcode
<1>1. /\ SetWidth(d, 0) = Ready(n, op, LongWidth(n))
      /\ d.opcode = op
      /\ (IF op % 2 = 0 THEN SetWidth(d, 1) ELSE SetWidth(d, 0)) = Ready(n, op, WidthOf(n, op))
  BY <1>0, WidthSet
<1>2. fetch_decode_exec(code) = r
  BY <1>0, Fetched
<1>3. d.bus = bus
  BY DEF Ready
<1> DEFINE w == IF op = \h83 THEN LongWidth(n) ELSE WidthOf(n, op)
<1>4. w \in Widths
  BY DEF Widths, LongWidth, WidthOf
<1>5. Ready(n, op, w) = Fresh(n + 1, op, n > 1, w)
  BY ReadyFresh
<1> HIDE DEF d
<1> DEFINE f == Ready(n, op, w)
<1>6. r = exec_inv(d) \/ OfGroup(r, code, f)
  <2>1. CASE op \in {\h80, \h81}
    <3>1. r = exec_inv(decode_I2E(code, f))
      BY <1>1, <2>1 DEF Dispatch
    <3> QED
      BY <3>1 DEF OfGroup
  <2>2. CASE op = \h83
    <3>1. r = exec_inv(decode_SI2E(code, f))
      BY <1>1, <2>2 DEF Dispatch
    <3> QED
      BY <3>1 DEF OfGroup
  <2>3. CASE op \in {\hc0, \hc1}
    <3>1. r = exec_inv(decode_gp2_Ib2E(code, f))
      BY <1>1, <2>3 DEF Dispatch
    <3> QED
      BY <3>1 DEF OfGroup
  <2>4. CASE op \in {\hd0, \hd1}
    <3>1. r = exec_inv(decode_gp2_1_E(code, f))
      BY <1>1, <2>4 DEF Dispatch
    <3> QED
      BY <3>1 DEF OfGroup
  <2>5. CASE op \in {\hd2, \hd3}
    <3>1. r = exec_inv(decode_gp2_cl2E(code, f))
      BY <1>1, <2>5 DEF Dispatch
    <3> QED
      BY <3>1 DEF OfGroup
  <2>6. CASE op \in {\hf6, \hf7, \hfe, \hff}
    <3>1. r = exec_inv(decode_E(code, f))
      BY <1>1, <2>6 DEF Dispatch
    <3> QED
      BY <3>1 DEF OfGroup
  <2>7. CASE op \notin {\h80, \h81, \h83, \hc0, \hc1, \hd0, \hd1, \hd2, \hd3, \hf6, \hf7, \hfe, \hff}
    <3>1. r = exec_inv(d)
      BY <1>1, <2>7 DEF Dispatch, OtherOpcode
    <3> QED
      BY <3>1
  <2> QED
    BY <2>1, <2>2, <2>3, <2>4, <2>5, <2>6, <2>7
<1> HIDE DEF r, w, f
<1>7. CASE r = exec_inv(d)
  BY <1>2, <1>3, <1>7, InvAborted
<1>8. CASE OfGroup(r, code, f)
  BY <1>2, <1>4, <1>5, <1>8 DEF f
<1> QED
  BY <1>6, <1>7, <1>8

\* The second byte of an opcode is fetched.
LEMMA Escaped ==
  ASSUME NEW op, NEW is16, NEW w
  PROVE  /\ \E v : [SetWidth(Fresh(2, op, is16, w), 0) EXCEPT !.pos = @ + 1] = Fresh(3, op, is16, v)
         /\ [Fresh(2, op, is16, w) EXCEPT !.pos = @ + 1].bus = bus
<1> DEFINE d == Fresh(2, op, is16, w)  v == IF d.is16 THEN 2 ELSE 4
<1>1. SetWidth(d, 0) = [d EXCEPT !.width = v]
  BY DEF SetWidth
<1> HIDE DEF v
<1>2. ASSUME NEW e, e = [d EXCEPT !.width = v]
      PROVE  e = Fresh(2, op, is16, v)
  BY <1>2 DEF Fresh, Decoded
<1>3. Fresh(2, op, is16, v).pos + 1 = 3
  BY DEF Fresh, Decoded
<1>4. ASSUME NEW e, e = [Fresh(2, op, is16, v) EXCEPT !.pos = 3]
      PROVE  e = Fresh(3, op, is16, v)
  BY <1>4 DEF Fresh, Decoded
<1>5. [Fresh(2, op, is16, v) EXCEPT !.pos = @ + 1] = Fresh(3, op, is16, v)
  <2> DEFINE g == Fresh(2, op, is16, v)
  <2>1. g.pos + 1 = 3 /\ [g EXCEPT !.pos = 3] = Fresh(3, op, is16, v)
    BY <1>3, <1>4
  <2> HIDE DEF g
  <2>2. [g EXCEPT !.pos = @ + 1] = [g EXCEPT !.pos = 3]
    BY <2>1
  <2> QED
    BY <2>1, <2>2 DEF g
<1>6. [d EXCEPT !.pos = @ + 1].bus = bus
  BY DEF Fresh, Decoded
<1>7. SetWidth(d, 0) = Fresh(2, op, is16, v)
  BY <1>1, <1>2
<1> HIDE DEF d
<1> QED
  BY <1>5, <1>6, <1>7 DEF d

\* The two-byte opcodes are all invalid; one of them has an operand, not loaded.
LEMMA EscapeDecoded ==
  ASSUME RegsOK, NEW o, IsReg(o) \/ IsMem(o), NEW m \in RmEncodings(o, 7),
         NEW code, NEW q, NEW t, Laid(code, 1, \h0f, q, t), At(code, 3, m)
  PROVE  Aborted(fetch_decode_exec(code), bus)
<1> DEFINE n == 1  op == \h0f  d == Ready(n, op, 0)  w == LongWidth(n)  h == n > 1
           dv == Fresh(2, op, h, w)
<1>1. SetWidth(d, 0) = Ready(n, op, w) /\ d.opcode = op
  BY WidthSet
<1>2. fetch_decode_exec(code) = Dispatch(code, d)
  BY Fetched
<1>3. Ready(n, op, w) = dv
  BY ReadyFresh
<1>4. Dispatch(code, d) = exec_2byte_esc(code, dv)
  <2> HIDE DEF d, dv
  <2> QED
    BY <1>1, <1>3 DEF Dispatch
<1> HIDE DEF d, w, h
<1>5. PICK v : [SetWidth(dv, 0) EXCEPT !.pos = @ + 1] = Fresh(3, op, h, v)
  BY Escaped
<1>6. [dv EXCEPT !.pos = @ + 1].bus = bus
  BY Escaped
<1> DEFINE f == Fresh(3, op, h, v)
<1>7. decode_gp7_E(code, f).bus = bus
  <2> DEFINE reg == 7
  <2>1. 3 \in Nat /\ reg \in 0..7 /\ m \in RmEncodings(o, reg)
    OBVIOUS
  <2> HIDE DEF reg
  <2>2. RmDecodes(code, 3, op, h, v, o, reg, m)
    BY <2>1, RmDecoded
  <2> QED
    BY <2>2 DEF RmDecodes, Decoded
<1> HIDE DEF dv, f
<1>8. \/ exec_2byte_esc(code, dv) = exec_inv(decode_gp7_E(code, f))
      \/ exec_2byte_esc(code, dv) = exec_inv([dv EXCEPT !.pos = @ + 1])
  BY <1>5 DEF exec_2byte_esc, f
<1>9. Aborted(exec_inv(decode_gp7_E(code, f)), bus)
  BY <1>7, InvAborted
<1>10. Aborted(exec_inv([dv EXCEPT !.pos = @ + 1]), bus)
  <2> DEFINE e == [dv EXCEPT !.pos = @ + 1]
  <2>1. e.bus = bus
    BY <1>6
  <2> HIDE DEF e
  <2>2. Aborted(exec_inv(e), bus)
    BY <2>1, InvAborted
  <2> QED
    BY <2>2 DEF e
<1> QED
  BY <1>2, <1>4, <1>8, <1>9, <1>10

\* How the invalid instructions lie in the code.
LEMMA OneByteLaid ==
  ASSUME NEW c \in Int, NEW m \in Seq(Int), NEW t \in Seq(Int)
  PROVE  Laid((<<c>> \o m) \o t, 1, c, m, t)
<1> DEFINE s == <<c>>
<1>1. s \in Seq(Int) /\ Len(s) = 1 /\ s[1] = c
  OBVIOUS
<1> HIDE DEF s
<1>2. Spread((s \o m) \o t, s, 1, m, t)
  BY <1>1, SpreadOut
<1>3. 1 \in 1..1
  OBVIOUS
<1> QED
  BY <1>1, <1>2, <1>3 DEF Spread, Laid, s

\* LaidOut, of an opcode behind the operand-size prefix.
LEMMA PrefixLaid ==
  ASSUME NEW c \in Int, NEW m \in Seq(Int), NEW t \in Seq(Int)
  PROVE  Laid((<<\h66, c>> \o m) \o t, 2, c, m, t)
<1> DEFINE s == <<\h66, c>>
<1>1. s \in Seq(Int) /\ Len(s) = 2 /\ s[1] = \h66 /\ s[2] = c
  OBVIOUS
<1> HIDE DEF s
<1>2. Spread((s \o m) \o t, s, 2, m, t)
  BY <1>1, SpreadOut
<1>3. 1 \in 1..2 /\ 2 \in 1..2
  OBVIOUS
<1> QED
  BY <1>1, <1>2, <1>3 DEF Spread, Laid, s

\* LaidOut, of an opcode behind the two-byte escape.
LEMMA EscapeLaid ==
  ASSUME NEW c \in Int, NEW m \in Seq(Int), NEW t \in Seq(Int)
  PROVE  LET code == (<<\h0f, c>> \o m) \o t
         IN  At(code, 3, m) /\ \E q : Laid(code, 1, \h0f, q, <<>>)
<1> DEFINE s == <<\h0f, c>>  code == (s \o m) \o t
<1>1. s \in Seq(Int) /\ Len(s) = 2 /\ s[1] = \h0f
  OBVIOUS
<1> HIDE DEF s
<1>2. Spread(code, s, 2, m, t)
  BY <1>1, SpreadOut
<1>3. 1 \in 1..2
  OBVIOUS
<1> HIDE DEF code
<1>4. code[1] = \h0f /\ At(code, 3, m) /\ Len(code) \in Nat /\ Len(code) >= 2
  BY <1>1, <1>2, <1>3 DEF Spread
<1> DEFINE len == Len(code) - 1  q == [k \in 1..len |-> code[k + 1]]
<1>5. len \in Nat /\ Len(code) = 1 + len
  BY <1>4
<1> HIDE DEF len
<1>6. q \in [1..len -> {code[k + 1] : k \in 1..len}]
  OBVIOUS
<1>7. Len(q) = len
  BY <1>5, <1>6, FunSeq
<1>8. At(code, 2, q)
  <2>1. ASSUME NEW k \in 1..len PROVE code[2 + k - 1] = q[k]
    <3>1. 2 + k - 1 = k + 1
      BY <1>5
    <3> QED
      BY <3>1
  <2> HIDE DEF q
  <2> QED
    BY <1>7, <2>1 DEF At
<1> HIDE DEF q
<1>9. At(code, 1 + 1 + Len(q), <<>>) /\ Len(<<>>) = 0
  BY DEF At
<1>10. Laid(code, 1, \h0f, q, <<>>)
  BY <1>4, <1>5, <1>7, <1>8, <1>9 DEF Laid
<1> QED
  BY <1>4, <1>10 DEF code, s

\* Whatever is no mov and no trap changes no register.
IsOther(s) ==
  \/ \E c \in OtherOpcode : s \in {<<c>>, <<\h66, c>>}
  \/ \E c \in 0..255 : s = <<\h0f, c>>
AbortedBy(r, o) == Aborted(r, bus) \/ \E w \in Widths : Aborted(r, RmBus(o, w))

\* A group member the tables leave empty aborts, whatever its operand.
LEMMA GroupAborted ==
  ASSUME RegsOK, NEW o, IsReg(o) \/ IsMem(o), NEW reg \in 0..7, NEW m \in RmEncodings(o, reg),
         NEW code, NEW t, NEW n \in {1, 2}, NEW op \in OtherOpcode, Laid(code, n, op, m, t)
  PROVE  AbortedBy(fetch_decode_exec(code), o)
<1>1. \/ Aborted(fetch_decode_exec(code), bus)
      \/ \E w \in Widths : OfGroup(fetch_decode_exec(code), code, Fresh(n + 1, op, n > 1, w))
  BY OtherDispatch
<1>2. n + 1 \in Nat /\ At(code, n + 1, m) /\ Len(m) \in Nat /\ n + 1 \in Int /\ n + 1 + Len(m) \in Int
  BY DEF Laid
<1>3. ASSUME NEW w \in Widths, OfGroup(fetch_decode_exec(code), code, Fresh(n + 1, op, n > 1, w))
      PROVE  Aborted(fetch_decode_exec(code), RmBus(o, w))
  <2> DEFINE pos == n + 1  h == n > 1  next == n + 1 + Len(m)
  <2>1. pos \in Nat /\ pos \in Int /\ next \in Int /\ At(code, pos, m) /\ w \in Int /\ next = pos + Len(m)
    BY <1>2 DEF Widths
  <2>g. OfGroup(fetch_decode_exec(code), code, Fresh(pos, op, h, w))
    BY <1>3
  <2> HIDE DEF pos, h, next
  <2>2. RmDecodes(code, pos, op, h, w, o, reg, m)
    BY <2>1, RmDecoded
  <2>3. decode_E(code, Fresh(pos, op, h, w)) =
          Decoded(next, op, h, w, RmAddr(o), RmBus(o, w), RmLoaded(o, w), Blank,
                  operand_reg(reg, w))
    BY <2>1, <2>2 DEF RmDecodes
  <2> DEFINE f == Fresh(pos, op, h, w)  b == RmBus(o, w)
  <2>4. /\ Aborted(exec_inv(decode_E(code, f)), b)
        /\ Aborted(exec_inv(decode_I2E(code, f)), b)
        /\ Aborted(exec_inv(decode_SI2E(code, f)), b)
        /\ Aborted(exec_inv(decode_gp2_1_E(code, f)), b)
        /\ Aborted(exec_inv(decode_gp2_cl2E(code, f)), b)
        /\ Aborted(exec_inv(decode_gp2_Ib2E(code, f)), b)
    BY <2>1, <2>3, GroupDecoded
  <2> HIDE DEF f, b
  <2>5. OfGroup(fetch_decode_exec(code), code, f)
    BY <2>g DEF f
  <2>6. Aborted(fetch_decode_exec(code), b)
    BY <2>4, <2>5 DEF OfGroup
  <2> QED
    BY <2>6 DEF b
<1> QED
  BY <1>1, <1>3 DEF AbortedBy

\* An instruction no table holds aborts; only its operand may have been read.
LEMMA OtherDecoded ==
  ASSUME RegsOK, NEW o, IsReg(o) \/ IsMem(o), NEW s, IsOther(s), NEW m \in RmEncodings(o, 7)
  PROVE  AbortedBy(fetch_decode_exec((s \o m) \o Low(0, 4)), o)
<1> DEFINE t == Low(0, 4)  reg == 7
<1>1. t \in Seq(Int)
  BY LowFacts2
<1>2. reg \in 0..7 /\ m \in RmEncodings(o, reg)
  OBVIOUS
<1> HIDE DEF t, reg
<1>3. m \in Seq(Int)
  <2>1. CASE IsReg(o)
    BY <1>2, <2>1, RmReg
  <2>2. CASE IsMem(o)
    BY <1>2, <2>2, RmMem DEF Addresses
  <2> QED
    BY <2>1, <2>2
<1>4. ASSUME NEW c \in OtherOpcode
      PROVE  /\ AbortedBy(fetch_decode_exec((<<c>> \o m) \o t), o)
             /\ AbortedBy(fetch_decode_exec((<<\h66, c>> \o m) \o t), o)
  <2>1. c \in Int
    BY DEF OtherOpcode
  <2> DEFINE c1 == (<<c>> \o m) \o t  c2 == (<<\h66, c>> \o m) \o t
  <2>2. Laid(c1, 1, c, m, t)
    BY <1>1, <1>3, <2>1, OneByteLaid
  <2>3. Laid(c2, 2, c, m, t)
    BY <1>1, <1>3, <2>1, PrefixLaid
  <2> HIDE DEF c1, c2
  <2>4. AbortedBy(fetch_decode_exec(c1), o)
    BY <1>2, <2>2, GroupAborted
  <2>5. AbortedBy(fetch_decode_exec(c2), o)
    BY <1>2, <2>3, GroupAborted
  <2> QED
    BY <2>4, <2>5 DEF c1, c2
<1>5. ASSUME NEW c \in 0..255
      PROVE  AbortedBy(fetch_decode_exec((<<\h0f, c>> \o m) \o t), o)
  <2> DEFINE code == (<<\h0f, c>> \o m) \o t
  <2>1. c \in Int
    OBVIOUS
  <2>2. At(code, 3, m) /\ \E q : Laid(code, 1, \h0f, q, <<>>)
    BY <1>1, <1>3, <2>1, EscapeLaid
  <2> HIDE DEF code
  <2>3. Aborted(fetch_decode_exec(code), bus)
    BY <1>2, <2>2, EscapeDecoded DEF reg
  <2> QED
    BY <2>3 DEF AbortedBy, code
<1>6. \/ \E c \in OtherOpcode : s \in {<<c>>, <<\h66, c>>}
      \/ \E c \in 0..255 : s = <<\h0f, c>>
  BY DEF IsOther
<1>7. AbortedBy(fetch_decode_exec((s \o m) \o t), o)
  BY <1>4, <1>5, <1>6, Zenon
<1> QED
  BY <1>7 DEF t

-----------------------------------------------------------------------------
(* Registers.                                                              *)

\* A word is made of its bytes.
LEMMA WordOfBytes ==
  ASSUME NEW v \in 0..(WORD - 1)
  PROVE  /\ v = Word(ByteOf(v, 0), ByteOf(v, 1), ByteOf(v, 2), ByteOf(v, 3))
         /\ ByteOf(v, 0) \in Byte /\ ByteOf(v, 1) \in Byte
         /\ ByteOf(v, 2) \in Byte /\ ByteOf(v, 3) \in Byte
<1>1. v \in Int /\ WORD \in Nat \ {0}
  BY RadixFacts
<1>2. v % WORD = v
  BY <1>1, ModSmall
<1>3. v % WORD = Word(ByteOf(v, 0), ByteOf(v, 1), ByteOf(v, 2), ByteOf(v, 3))
  BY <1>1, LowBytes
<1>4. 0 \in 0..3 /\ 1 \in 0..3 /\ 2 \in 0..3 /\ 3 \in 0..3
  OBVIOUS
<1> QED
  BY <1>1, <1>2, <1>3, <1>4, ByteType

\* AX within EAX, AL and AH within EAX.
LEMMA LowHalf ==
  ASSUME NEW v \in 0..(WORD - 1), NEW x \in Int
  PROVE  v - (v % HALF) + (x % HALF) = Word(ByteOf(x, 0), ByteOf(x, 1), ByteOf(v, 2), ByteOf(v, 3))
<1> DEFINE b0 == ByteOf(v, 0)  b1 == ByteOf(v, 1)  b2 == ByteOf(v, 2)  b3 == ByteOf(v, 3)
           x0 == ByteOf(x, 0)  x1 == ByteOf(x, 1)
<1>1. v = Word(b0, b1, b2, b3) /\ b0 \in Byte /\ b1 \in Byte /\ b2 \in Byte /\ b3 \in Byte
  BY WordOfBytes
<1>2. v \in Int
  BY RadixFacts
<1>3. v % HALF = b0 + b1 * BYTE
  BY <1>2, LowBytes
<1>4. x % HALF = x0 + x1 * BYTE /\ x0 \in Byte /\ x1 \in Byte
  BY LowBytes, ByteType
<1> HIDE DEF b0, b1, b2, b3, x0, x1
<1>5. v = b0 + b1 * BYTE + b2 * HALF + b3 * (HALF * BYTE)
  BY <1>1 DEF Word
<1> DEFINE p == b1 * BYTE  q == x1 * BYTE  s == b2 * HALF  t == b3 * (HALF * BYTE)
<1>6. b0 \in Int /\ x0 \in Int /\ p \in Int /\ q \in Int /\ s \in Int /\ t \in Int
  BY <1>1, <1>4, RadixFacts DEF Byte
<1>7. v = b0 + p + s + t /\ v % HALF = b0 + p /\ x % HALF = x0 + q
  BY <1>3, <1>4, <1>5
<1>8. Word(x0, x1, b2, b3) = x0 + q + s + t
  BY DEF Word
<1> HIDE DEF p, q, s, t
<1>9. v - (v % HALF) + (x % HALF) = x0 + q + s + t
  BY <1>6, <1>7
<1> QED
  BY <1>8, <1>9 DEF b2, b3, x0, x1

\* Storing to a byte register changes that byte of the register alone.
LEMMA LowByte ==
  ASSUME NEW v \in 0..(WORD - 1), NEW x \in Int
  PROVE  /\ WithByte(v, 0, x % BYTE) = Word(ByteOf(x, 0), ByteOf(v, 1), ByteOf(v, 2), ByteOf(v, 3))
         /\ WithByte(v, 1, x % BYTE) = Word(ByteOf(v, 0), ByteOf(x, 0), ByteOf(v, 2), ByteOf(v, 3))
<1> DEFINE b0 == ByteOf(v, 0)  b1 == ByteOf(v, 1)  b2 == ByteOf(v, 2)  b3 == ByteOf(v, 3)
           x0 == ByteOf(x, 0)
<1>1. v = Word(b0, b1, b2, b3) /\ b0 \in Byte /\ b1 \in Byte /\ b2 \in Byte /\ b3 \in Byte
  BY WordOfBytes
<1>2. x % BYTE = x0 /\ x0 \in Byte
  BY LowBytes, ByteType
<1>3. WithByte(v, 0, x % BYTE) = v + (x0 - b0) * Radix(0)
  BY <1>2 DEF WithByte
<1>4. WithByte(v, 1, x % BYTE) = v + (x0 - b1) * Radix(1)
  BY <1>2 DEF WithByte
<1> HIDE DEF b0, b1, b2, b3, x0
<1>5. v = b0 + b1 * BYTE + b2 * HALF + b3 * (HALF * BYTE)
  BY <1>1 DEF Word
<1>6. Radix(0) = 1 /\ Radix(1) = BYTE
  BY RadixFacts
<1> DEFINE p == b1 * BYTE  q == x0 * BYTE  s == b2 * HALF  t == b3 * (HALF * BYTE)
<1>7. b0 \in Int /\ b1 \in Int /\ x0 \in Int /\ p \in Int /\ q \in Int /\ s \in Int /\ t \in Int
  BY <1>1, <1>2, RadixFacts DEF Byte
<1>8. (x0 - b0) * Radix(0) = x0 - b0 /\ (x0 - b1) * Radix(1) = q - p
  BY <1>6, <1>7, RadixFacts
<1>9. /\ v = b0 + p + s + t
      /\ Word(x0, b1, b2, b3) = x0 + p + s + t
      /\ Word(b0, x0, b2, b3) = b0 + q + s + t
  BY <1>5 DEF Word
<1> HIDE DEF p, q, s, t
<1>10. v + (x0 - b0) = x0 + p + s + t /\ v + (q - p) = b0 + q + s + t
  BY <1>7, <1>9
<1> QED
  BY <1>3, <1>4, <1>8, <1>9, <1>10 DEF b0, b1, b2, b3, x0

\* What a store of width w to register r leaves: its bytes, and no others.
RegStored(g, r, x, w) ==
  /\ g \in [0..7 -> 0..(WORD - 1)]
  /\ \A q \in 0..7, k \in 0..3, i \in 0..(w - 1) :
       RegByte(r, w, i) = <<q, k>> => ByteOf(g[q], k) = ByteOf(x, i)
  /\ \A q \in 0..7, k \in 0..3 :
       (\A i \in 0..(w - 1) : RegByte(r, w, i) # <<q, k>>) => ByteOf(g[q], k) = ByteOf(gpr[q], k)

\* The three widths, by the bytes of the register.
LEMMA RegReplaced ==
  ASSUME RegsOK, NEW p \in 0..7, NEW y \in 0..(WORD - 1)
  PROVE  /\ [gpr EXCEPT ![p] = y] \in [0..7 -> 0..(WORD - 1)]
         /\ [gpr EXCEPT ![p] = y][p] = y
         /\ \A q \in 0..7 : q # p => [gpr EXCEPT ![p] = y][q] = gpr[q]
BY DEF RegsOK

\* rtl_sr of four bytes.
LEMMA StoredLong ==
  ASSUME RegsOK, NEW r \in 0..7, NEW x \in 0..(WORD - 1)
  PROVE  RegStored(rtl_sr(gpr, r, x, 4), r, x, 4)
<1> DEFINE g == [gpr EXCEPT ![r] = x]
<1>1. rtl_sr(gpr, r, x, 4) = g
  BY DEF rtl_sr
<1>2. g \in [0..7 -> 0..(WORD - 1)] /\ g[r] = x /\ \A q \in 0..7 : q # r => g[q] = gpr[q]
  BY RegReplaced
<1> HIDE DEF g
<1>3. \A i \in 0..3 : RegByte(r, 4, i) = <<r, i>>
  BY DEF RegByte
<1>4. ASSUME NEW q \in 0..7, NEW k \in 0..3, NEW i \in 0..3, RegByte(r, 4, i) = <<q, k>>
      PROVE  ByteOf(g[q], k) = ByteOf(x, i)
  <2>1. q = r /\ k = i
    BY <1>3, <1>4
  <2> QED
    BY <1>2, <2>1
<1>5. ASSUME NEW q \in 0..7, NEW k \in 0..3, \A i \in 0..3 : RegByte(r, 4, i) # <<q, k>>
      PROVE  ByteOf(g[q], k) = ByteOf(gpr[q], k)
  <2>1. q # r
    BY <1>3, <1>5
  <2> QED
    BY <1>2, <2>1
<1>6. 4 - 1 = 3
  OBVIOUS
<1> QED
  BY <1>1, <1>2, <1>4, <1>5, <1>6 DEF RegStored

\* rtl_sr of two bytes.
LEMMA StoredHalf ==
  ASSUME RegsOK, NEW r \in 0..7, NEW x \in 0..(WORD - 1)
  PROVE  RegStored(rtl_sr(gpr, r, x, 2), r, x, 2)
<1> DEFINE v == gpr[r]  y == v - (v % HALF) + (x % HALF)  g == [gpr EXCEPT ![r] = y]
<1>1. rtl_sr(gpr, r, x, 2) = g
  BY DEF rtl_sr
<1>2. v \in 0..(WORD - 1) /\ x \in Int /\ v \in Int
  BY RadixFacts DEF RegsOK
<1> HIDE DEF v
<1>3. y = Word(ByteOf(x, 0), ByteOf(x, 1), ByteOf(v, 2), ByteOf(v, 3))
  BY <1>2, LowHalf
<1> HIDE DEF y
<1>4. ByteOf(x, 0) \in Byte /\ ByteOf(x, 1) \in Byte /\ ByteOf(v, 2) \in Byte /\ ByteOf(v, 3) \in Byte
  BY <1>2, WordOfBytes
<1>5. /\ y \in 0..(WORD - 1)
      /\ ByteOf(y, 0) = ByteOf(x, 0) /\ ByteOf(y, 1) = ByteOf(x, 1)
      /\ ByteOf(y, 2) = ByteOf(v, 2) /\ ByteOf(y, 3) = ByteOf(v, 3)
  BY <1>3, <1>4, WordFacts
<1>6. g \in [0..7 -> 0..(WORD - 1)] /\ g[r] = y /\ \A q \in 0..7 : q # r => g[q] = gpr[q]
  BY <1>5, RegReplaced
<1> HIDE DEF g
<1>7. \A i \in 0..1 : RegByte(r, 2, i) = <<r, i>>
  BY DEF RegByte
<1>8. ASSUME NEW q \in 0..7, NEW k \in 0..3, NEW i \in 0..1, RegByte(r, 2, i) = <<q, k>>
      PROVE  ByteOf(g[q], k) = ByteOf(x, i)
  <2>1. q = r /\ k = i /\ (k = 0 \/ k = 1)
    BY <1>7, <1>8
  <2> QED
    BY <1>5, <1>6, <2>1
<1>9. ASSUME NEW q \in 0..7, NEW k \in 0..3, \A i \in 0..1 : RegByte(r, 2, i) # <<q, k>>
      PROVE  ByteOf(g[q], k) = ByteOf(gpr[q], k)
  <2>1. q # r \/ k = 2 \/ k = 3
    <3>1. k = 0 \/ k = 1 \/ k = 2 \/ k = 3
      OBVIOUS
    <3>2. <<r, 0>> # <<q, k>> /\ <<r, 1>> # <<q, k>>
      BY <1>7, <1>9
    <3> QED
      BY <3>1, <3>2
  <2> QED
    BY <1>5, <1>6, <2>1 DEF v
<1>10. 2 - 1 = 1
  OBVIOUS
<1> QED
  BY <1>1, <1>6, <1>8, <1>9, <1>10 DEF RegStored

\* rtl_sr of one byte, the high halves of the first four registers included.
LEMMA StoredByte ==
  ASSUME RegsOK, NEW r \in 0..7, NEW x \in 0..(WORD - 1)
  PROVE  RegStored(rtl_sr(gpr, r, x, 1), r, x, 1)
<1> DEFINE p == r % 4  h == r \div 4  v == gpr[p]  y == WithByte(v, h, x % BYTE)
           g == [gpr EXCEPT ![p] = y]
<1>1. rtl_sr(gpr, r, x, 1) = g
  BY DEF rtl_sr
<1>2. p \in 0..7 /\ h \in {0, 1}
  OBVIOUS
<1>3. RegByte(r, 1, 0) = <<p, h>>
  BY DEF RegByte
<1> HIDE DEF p, h
<1>4. v \in 0..(WORD - 1) /\ x \in Int /\ v \in Int
  BY <1>2, RadixFacts DEF RegsOK
<1> HIDE DEF v
<1>5. /\ WithByte(v, 0, x % BYTE) = Word(ByteOf(x, 0), ByteOf(v, 1), ByteOf(v, 2), ByteOf(v, 3))
      /\ WithByte(v, 1, x % BYTE) = Word(ByteOf(v, 0), ByteOf(x, 0), ByteOf(v, 2), ByteOf(v, 3))
  BY <1>4, LowByte
<1>6. /\ ByteOf(x, 0) \in Byte /\ ByteOf(v, 0) \in Byte /\ ByteOf(v, 1) \in Byte
      /\ ByteOf(v, 2) \in Byte /\ ByteOf(v, 3) \in Byte
  BY <1>4, WordOfBytes
<1>7. /\ y \in 0..(WORD - 1)
      /\ ByteOf(y, h) = ByteOf(x, 0)
      /\ \A k \in 0..3 : k # h => ByteOf(y, k) = ByteOf(v, k)
  <2>0. \A k \in 0..3 : k = 0 \/ k = 1 \/ k = 2 \/ k = 3
    OBVIOUS
  <2>1. CASE h = 0
    BY <1>5, <1>6, <2>0, <2>1, WordFacts
  <2>2. CASE h = 1
    BY <1>5, <1>6, <2>0, <2>2, WordFacts
  <2> QED
    BY <1>2, <2>1, <2>2
<1> HIDE DEF y
<1>8. g \in [0..7 -> 0..(WORD - 1)] /\ g[p] = y /\ \A q \in 0..7 : q # p => g[q] = gpr[q]
  BY <1>2, <1>7, RegReplaced
<1> HIDE DEF g
<1>9. ASSUME NEW q \in 0..7, NEW k \in 0..3, NEW i \in 0..(1 - 1), RegByte(r, 1, i) = <<q, k>>
      PROVE  ByteOf(g[q], k) = ByteOf(x, i)
  <2>1. i = 0
    OBVIOUS
  <2>2. q = p /\ k = h
    BY <1>3, <1>9, <2>1
  <2> QED
    BY <1>7, <1>8, <2>1, <2>2
<1>10. ASSUME NEW q \in 0..7, NEW k \in 0..3, \A i \in 0..(1 - 1) : RegByte(r, 1, i) # <<q, k>>
       PROVE  ByteOf(g[q], k) = ByteOf(gpr[q], k)
  <2>1. 0 \in 0..(1 - 1)
    OBVIOUS
  <2>2. q # p \/ k # h
    BY <1>3, <1>10, <2>1
  <2> QED
    BY <1>7, <1>8, <2>2 DEF v
<1> QED
  BY <1>1, <1>8, <1>9, <1>10 DEF RegStored

\* rtl_sr stores the bytes of its width and leaves every other byte of the file.
LEMMA RegWritten ==
  ASSUME RegsOK, NEW r \in 0..7, NEW x \in 0..(WORD - 1), NEW w \in Widths
  PROVE  RegStored(rtl_sr(gpr, r, x, w), r, x, w)
<1>1. w = 1 \/ w = 2 \/ w = 4
  BY DEF Widths
<1> QED
  BY <1>1, StoredLong, StoredHalf, StoredByte

\* The bytes of a register operand, by the bytes of the register file.
FileByte(r, w, i) == ByteOf(gpr[RegByte(r, w, i)[1]], RegByte(r, w, i)[2])

\* rtl_lr reads back the bytes of the register.
LEMMA RegRead ==
  ASSUME RegsOK, NEW r \in 0..7, NEW w \in Widths
  PROVE  /\ rtl_lr(gpr, r, w) \in 0..(WORD - 1)
         /\ \A i \in 0..(w - 1) : ByteOf(rtl_lr(gpr, r, w), i) = FileByte(r, w, i)
<1>1. CASE w = 4
  <2>1. rtl_lr(gpr, r, w) = gpr[r] /\ gpr[r] \in 0..(WORD - 1)
    BY <1>1 DEF rtl_lr, RegsOK
  <2>2. \A i \in 0..(w - 1) : RegByte(r, w, i)[1] = r /\ RegByte(r, w, i)[2] = i
    BY <1>1 DEF RegByte
  <2> QED
    BY <2>1, <2>2 DEF FileByte
<1>2. CASE w = 2
  <2>1. rtl_lr(gpr, r, w) = gpr[r] % HALF /\ gpr[r] \in Int
    BY <1>2, RadixFacts DEF rtl_lr, RegsOK
  <2>2. \A i \in 0..(w - 1) :
           RegByte(r, w, i)[1] = r /\ RegByte(r, w, i)[2] = i /\ i \in 0..3 /\ i < 2
    BY <1>2 DEF RegByte
  <2>3. /\ gpr[r] % HALF \in 0..(WORD - 1)
        /\ \A k \in 0..3 : ByteOf(gpr[r] % HALF, k) = IF k < 2 THEN ByteOf(gpr[r], k) ELSE 0
    BY <2>1, ModBytes
  <2> QED
    BY <2>1, <2>2, <2>3 DEF FileByte
<1>3. CASE w = 1
  <2> DEFINE p == r % 4  h == r \div 4
  <2>1. p \in 0..7 /\ h \in 0..3
    OBVIOUS
  <2>2. rtl_lr(gpr, r, w) = ByteOf(gpr[p], h)
    BY <1>3 DEF rtl_lr
  <2>3. RegByte(r, w, 0)[1] = p /\ RegByte(r, w, 0)[2] = h
    BY <1>3 DEF RegByte
  <2> HIDE DEF p, h
  <2>4. gpr[p] \in Int
    BY <2>1, RadixFacts DEF RegsOK
  <2>5. ByteOf(gpr[p], h) \in Byte
    BY <2>1, <2>4, ByteType
  <2> DEFINE b == ByteOf(gpr[p], h)
  <2> HIDE DEF b
  <2>6. b \in Int /\ b % BYTE = b
    BY <2>5, RadixFacts, ModSmall DEF b, Byte
  <2>7. b % BYTE \in 0..(WORD - 1) /\ ByteOf(b, 0) = b % BYTE
    BY <2>6, ModBytes, ByteOfFacts
  <2>8. \A i \in 0..(w - 1) : i = 0
    BY <1>3
  <2> QED
    BY <2>2, <2>3, <2>6, <2>7, <2>8 DEF FileByte, b
<1> QED
  BY <1>1, <1>2, <1>3 DEF Widths

\* An immediate is cut to the width.
LEMMA ImmRead ==
  ASSUME NEW v \in Int, NEW w \in Widths
  PROVE  /\ v % Radix(w) \in 0..(WORD - 1)
         /\ \A i \in 0..(w - 1) : ByteOf(v % Radix(w), i) = ByteOf(v, i)
<1>1. \A i \in 0..(w - 1) : i \in 0..3 /\ i < w
  BY DEF Widths
<1>2. CASE w = 4
  <2>1. Radix(w) = WORD
    BY <1>2, RadixFacts
  <2>2. v % WORD \in 0..(WORD - 1) /\ \A k \in 0..3 : ByteOf(v % WORD, k) = ByteOf(v, k)
    BY ModBytes
  <2> QED
    BY <1>1, <2>1, <2>2
<1>3. CASE w = 2
  <2>1. Radix(w) = HALF
    BY <1>3, RadixFacts
  <2>2. /\ v % HALF \in 0..(WORD - 1)
        /\ \A k \in 0..3 : ByteOf(v % HALF, k) = IF k < 2 THEN ByteOf(v, k) ELSE 0
    BY ModBytes
  <2> QED
    BY <1>1, <1>3, <2>1, <2>2
<1>4. CASE w = 1
  <2>1. Radix(w) = BYTE
    BY <1>4, RadixFacts
  <2>2. /\ v % BYTE \in 0..(WORD - 1)
        /\ \A k \in 0..3 : ByteOf(v % BYTE, k) = IF k < 1 THEN ByteOf(v, k) ELSE 0
    BY ModBytes
  <2> QED
    BY <1>1, <1>4, <2>1, <2>2
<1> QED
  BY <1>2, <1>3, <1>4 DEF Widths

\* Addresses are words.
LEMMA AddressType ==
  ASSUME RegsOK, NEW o, IsMem(o)
  PROVE  Address(o, gpr) \in Nat
<1>1. WORD \in Nat \ {0} /\ o.disp \in Int /\ o.ss \in 0..3
  BY RadixFacts DEF IsMem
<1> DEFINE mbase == IF o.base = None THEN 0 ELSE gpr[o.base]
           i == IF o.index = None THEN 0 ELSE gpr[o.index] * 2^o.ss
<1>2. mbase \in Int
  BY RadixFacts DEF RegsOK, IsMem, None
<1>3. i \in Int
  <2>1. o.ss = 0 \/ o.ss = 1 \/ o.ss = 2 \/ o.ss = 3
    BY <1>1
  <2>2. 2^0 \in Int /\ 2^1 \in Int /\ 2^2 \in Int /\ 2^3 \in Int
    OBVIOUS
  <2>3. 2^o.ss \in Int
    BY <2>1, <2>2
  <2>4. o.index # None => gpr[o.index] \in Int
    BY RadixFacts DEF RegsOK, IsMem
  <2>5. o.index # None => gpr[o.index] * 2^o.ss \in Int
    BY <2>3, <2>4
  <2> QED
    BY <2>5
<1>4. Address(o, gpr) = (mbase + i + o.disp) % WORD
  BY DEF Address
<1> HIDE DEF mbase, i
<1>5. mbase + i + o.disp \in Int
  BY <1>1, <1>2, <1>3
<1>6. (mbase + i + o.disp) % WORD \in 0..(WORD - 1)
  BY <1>1, <1>5, DivMod
<1> QED
  BY <1>1, <1>4, <1>6

-----------------------------------------------------------------------------
(* What an instruction does to the bus.                                    *)

\* An access at an address of the memory bus.
Moves(addr, c) ==
  Quiet(bus, c) \/ \E i \in DeviceIds : AtMmio(addr, i) /\ Accessed(bus, c, i)

\* A load and a store at the address of an operand.
LEMMA LoadMoves ==
  ASSUME RegsOK, BusOK(bus), NEW o, IsMem(o), NEW w \in Widths
  PROVE  /\ Moves(Address(o, gpr), vaddr_read(bus, Address(o, gpr), w).b)
         /\ vaddr_read(bus, Address(o, gpr), w).x \in 0..(WORD - 1)
<1>1. Address(o, gpr) \in Nat
  BY AddressType
<1> QED
  BY <1>1, PaddrRead DEF vaddr_read, Moves

\* A store by an instruction is an access at the address its operand means.
LEMMA StoreMoves ==
  ASSUME RegsOK, BusOK(bus), NEW o, IsMem(o), NEW x \in Int, NEW w \in Widths
  PROVE  Moves(Address(o, gpr), vaddr_write(bus, Address(o, gpr), x, w))
<1>1. Address(o, gpr) \in Nat
  BY AddressType
<1> QED
  BY <1>1, PaddrWrite DEF vaddr_write, Moves

\* An access keeps the bus well formed, a failed assertion after it included.
LEMMA MovesOK ==
  ASSUME BusOK(bus), NEW addr, NEW c, Moves(addr, c)
  PROVE  BusOK(c) /\ Moves(addr, Die(c))
<1>1. BusOK(c)
  BY DEF Moves, Quiet, Accessed
<1>2. ASSUME Quiet(bus, c) PROVE Quiet(bus, Die(c))
  BY <1>1, <1>2, Died DEF Quiet, SameElse
<1>3. ASSUME NEW i \in DeviceIds, Accessed(bus, c, i) PROVE Accessed(bus, Die(c), i)
  <2>1. SameElse(bus, c) /\ Within(bus.io, c.io, i)
    BY <1>3 DEF Accessed
  <2> QED
    BY <1>1, <2>1, DiedAccessed
<1> QED
  BY <1>1, <1>2, <1>3 DEF Moves

\* The operand of a mov that is in memory.
Uses(a, addr) ==
  \/ a.dst.k = "mem" /\ addr = Address(a.dst, gpr)
  \/ a.src.k = "mem" /\ addr = Address(a.src, gpr)

\* What a mov's source is worth.
Value(a) == IF a.src.k = "mem" THEN vaddr_read(bus, Address(a.src, gpr), a.w).x ELSE SrcVal(a)
AfterLoad(a) == IF a.src.k = "mem" THEN vaddr_read(bus, Address(a.src, gpr), a.w).b ELSE bus

\* The kinds of operands of a mov.
LEMMA MovKinds ==
  ASSUME NEW a, IsMov(a)
  PROVE  /\ a.w \in Widths
         /\ \/ IsReg(a.dst) /\ a.dst.k = "reg" /\ a.dst.r \in 0..7
            \/ IsMem(a.dst) /\ a.dst.k = "mem" /\ a.src.k # "mem"
         /\ \/ IsReg(a.src) /\ a.src.k = "reg" /\ a.src.r \in 0..7
            \/ IsImm(a.src) /\ a.src.k = "imm" /\ a.src.v \in Int
            \/ IsMem(a.src) /\ a.src.k = "mem"
BY DEF IsMov, IsReg, IsImm, IsMem

\* What a mov moves fits a register.
LEMMA ValueType ==
  ASSUME RegsOK, BusOK(bus), NEW a, IsMov(a)
  PROVE  Value(a) \in 0..(WORD - 1)
<1>1. CASE IsReg(a.src) /\ a.src.k = "reg" /\ a.src.r \in 0..7
  <2>1. Value(a) = rtl_lr(gpr, a.src.r, a.w)
    BY <1>1 DEF Value, SrcVal
  <2> QED
    BY <1>1, <2>1, MovKinds, RegRead
<1>2. CASE IsImm(a.src) /\ a.src.k = "imm" /\ a.src.v \in Int
  <2>1. Value(a) = a.src.v % Radix(a.w)
    BY <1>2 DEF Value, SrcVal
  <2> QED
    BY <1>2, <2>1, MovKinds, ImmRead
<1>3. CASE IsMem(a.src) /\ a.src.k = "mem"
  <2>1. Value(a) = vaddr_read(bus, Address(a.src, gpr), a.w).x
    BY <1>3 DEF Value
  <2> QED
    BY <1>3, <2>1, MovKinds, LoadMoves
<1> QED
  BY <1>1, <1>2, <1>3, MovKinds

\* The two results of a mov, by its destination.
LEMMA MovResultFacts ==
  ASSUME NEW a, NEW len
  PROVE  MovResult(a, len) =
           IF a.dst.k = "mem"
           THEN Result(gpr, vaddr_write(AfterLoad(a), Address(a.dst, gpr), Value(a), a.w), "RUNNING", len)
           ELSE Result(rtl_sr(gpr, a.dst.r, Value(a), a.w), AfterLoad(a), "RUNNING", len)
BY DEF MovResult, Stored, Value, AfterLoad

\* A mov accesses memory once at most, and leaves words in the registers.
LEMMA MovMoves ==
  ASSUME RegsOK, BusOK(bus), NEW a, IsMov(a), NEW len
  PROVE  LET r == MovResult(a, len)
         IN  /\ r.bus = bus \/ \E addr : Uses(a, addr) /\ Moves(addr, r.bus)
             /\ r.gpr \in [0..7 -> 0..(WORD - 1)] /\ r.state = "RUNNING" /\ r.pc = pc + len
<1> DEFINE r == MovResult(a, len)
<1>1. Value(a) \in 0..(WORD - 1) /\ Value(a) \in Int /\ a.w \in Widths
  BY ValueType, MovKinds, RadixFacts
<1>2. CASE IsReg(a.dst) /\ a.dst.k = "reg" /\ a.dst.r \in 0..7
  <2>1. r = Result(rtl_sr(gpr, a.dst.r, Value(a), a.w), AfterLoad(a), "RUNNING", len)
    BY <1>2, MovResultFacts
  <2>2. rtl_sr(gpr, a.dst.r, Value(a), a.w) \in [0..7 -> 0..(WORD - 1)]
    BY <1>1, <1>2, RegWritten DEF RegStored
  <2>3. AfterLoad(a) = bus \/ \E addr : Uses(a, addr) /\ Moves(addr, AfterLoad(a))
    <3>1. CASE a.src.k = "mem"
      <4>1. IsMem(a.src) /\ AfterLoad(a) = vaddr_read(bus, Address(a.src, gpr), a.w).b
        BY <3>1, MovKinds DEF AfterLoad
      <4>2. Moves(Address(a.src, gpr), AfterLoad(a))
        BY <1>1, <4>1, LoadMoves
      <4> QED
        BY <3>1, <4>2 DEF Uses
    <3>2. CASE a.src.k # "mem"
      BY <3>2 DEF AfterLoad
    <3> QED
      BY <3>1, <3>2
  <2> HIDE DEF r
  <2>4. r.bus = AfterLoad(a) /\ r.gpr = rtl_sr(gpr, a.dst.r, Value(a), a.w) /\ r.state = "RUNNING"
        /\ r.pc = pc + len
    BY <2>1 DEF Result
  <2> QED
    BY <2>2, <2>3, <2>4 DEF r
<1>3. CASE IsMem(a.dst) /\ a.dst.k = "mem" /\ a.src.k # "mem"
  <2> DEFINE c == vaddr_write(bus, Address(a.dst, gpr), Value(a), a.w)
  <2>1. r = Result(gpr, c, "RUNNING", len)
    BY <1>3, MovResultFacts DEF AfterLoad
  <2>2. Moves(Address(a.dst, gpr), c)
    BY <1>1, <1>3, StoreMoves
  <2> HIDE DEF r, c
  <2>3. r.bus = c /\ r.gpr = gpr /\ r.state = "RUNNING" /\ r.pc = pc + len
    BY <2>1 DEF Result
  <2>4. Uses(a, Address(a.dst, gpr))
    BY <1>3 DEF Uses
  <2> QED
    BY <2>2, <2>3, <2>4 DEF RegsOK, r
<1> QED
  BY <1>2, <1>3, MovKinds

\* What is invalid after its operand has read memory once at most.
LEMMA OtherMoves ==
  ASSUME RegsOK, BusOK(bus), NEW o, IsReg(o) \/ IsMem(o), NEW r, AbortedBy(r, o)
  PROVE  /\ r.gpr = gpr /\ r.state = "ABORT" /\ r.pc = pc + 8
         /\ Quiet(bus, r.bus) \/ (o.k = "mem" /\ Moves(Address(o, gpr), r.bus))
<1>1. PICK b : Aborted(r, b) /\ (b = bus \/ \E w \in Widths : b = RmBus(o, w))
  BY DEF AbortedBy
<1>2. r.gpr = gpr /\ r.state = "ABORT" /\ r.pc = pc + 8 /\ (r.bus = b \/ r.bus = Die(b))
  BY <1>1 DEF Aborted
<1>3. CASE b = bus
  BY <1>2, <1>3, DiedQuiet
<1>4. ASSUME NEW w \in Widths, b = RmBus(o, w), b # bus
      PROVE  o.k = "mem" /\ Moves(Address(o, gpr), r.bus)
  <2>1. o.k = "mem" /\ b = vaddr_read(bus, Address(o, gpr), w).b
    BY <1>4 DEF RmBus
  <2>2. IsMem(o)
    BY <2>1 DEF IsReg
  <2>3. Moves(Address(o, gpr), b)
    BY <2>1, <2>2, LoadMoves
  <2> QED
    BY <1>2, <2>1, <2>3, MovesOK
<1> QED
  BY <1>1, <1>2, <1>3, <1>4

-----------------------------------------------------------------------------
(* The steps.                                                              *)

\* Registers and memory hold words and bytes, and NEMU has ended exactly when
\* an assertion has failed.
ExecInv ==
  /\ who \in DOMAIN Guest
  /\ RegsOK
  /\ pc \in Nat
  /\ BusOK(bus)
  /\ state \in {"RUNNING", "END", "ABORT", "dead"}
  /\ state = "dead" <=> bus.dead = TRUE
  /\ steps \in Nat

\* No device notices, but for the clock.
Kept(b, c) ==
  /\ BusOK(c) /\ c.io = b.io /\ c.key_queue = b.key_queue /\ c.key_f = b.key_f
  /\ c.key_r = b.key_r

\* Device i is accessed at an address the step uses.
Touched(i) ==
  \/ \E a \in Used : AtMmio(a, i)
  \/ asm'.of.op = "pio" /\ AtPort(asm'.of.addr, i)

\* A key goes into the ring, which must not fill it.
Pressed(b, c) ==
  \E code \in 1..(HALF - 1) :
    /\ BusOK(c) /\ c.io = b.io /\ c.key_f = b.key_f
    /\ c.key_queue = [b.key_queue EXCEPT ![b.key_r] = code]
    /\ c.key_r = (b.key_r + 1) % KEY_QUEUE_LEN
    /\ c.key_r = b.key_f => c.dead = TRUE

\* All a step may do to the bus.
BusStep ==
  \/ Kept(bus, bus')
  \/ \E i \in DeviceIds : Touched(i) /\ Accessed(bus, bus', i)
  \/ Pressed(bus, bus')

\* What a step leaves of the rest.
Follows ==
  /\ gpr' \in [0..7 -> 0..(WORD - 1)] /\ pc' \in Nat
  /\ state' \in {"RUNNING", "END", "ABORT", "dead"}
  /\ state' = "dead" <=> bus'.dead = TRUE
  /\ steps' = steps + 1 /\ who' = who

\* An instruction's result becomes the state.
LEMMA ExecutedFollows ==
  ASSUME ExecInv, NEW r, Executed(r), BusOK(r.bus), r.gpr \in [0..7 -> 0..(WORD - 1)],
         r.state \in {"RUNNING", "END", "ABORT"}, r.pc \in Nat
  PROVE  /\ Follows /\ bus' = r.bus
         /\ IF r.bus.dead THEN state' = "dead" /\ gpr' = gpr
            ELSE state' = r.state /\ gpr' = r.gpr /\ pc' = r.pc % WORD
<1>1. bus' = r.bus /\ steps' = steps + 1 /\ who' = who
  BY DEF Executed, Becomes
<1>2. r.bus.dead \in BOOLEAN
  BY DEF BusOK
<1>3. CASE r.bus.dead
  <2>1. state' = "dead" /\ gpr' = gpr /\ pc' = pc
    BY <1>3 DEF Executed
  <2>2. gpr \in [0..7 -> 0..(WORD - 1)] /\ pc \in Nat
    BY DEF ExecInv, RegsOK
  <2>3. bus'.dead = TRUE
    BY <1>1, <1>2, <1>3
  <2> QED
    BY <1>1, <1>3, <2>1, <2>2, <2>3 DEF Follows
<1>4. CASE ~r.bus.dead
  <2>1. state' = r.state /\ gpr' = r.gpr /\ pc' = r.pc % WORD
    BY <1>4 DEF Executed
  <2>2. r.pc % WORD \in Nat
    <3>1. r.pc \in Int /\ WORD \in Nat \ {0}
      BY RadixFacts
    <3>2. r.pc % WORD \in 0..(WORD - 1)
      BY <3>1, DivMod
    <3> QED
      BY <3>1, <3>2
  <2>3. bus'.dead # TRUE
    BY <1>1, <1>2, <1>4
  <2> QED
    BY <1>1, <1>4, <2>1, <2>2, <2>3 DEF Follows
<1> QED
  BY <1>3, <1>4

\* Of the guest, what GuestAssumption says.
LEMMA GuestFacts ==
  ASSUME ExecInv
  PROVE  /\ \A a \in guest.instructions : IsInstruction(a)
         /\ \A p \in guest.ins : p.addr \in Nat /\ p.len \in Widths
         /\ \A p \in guest.outs : p.addr \in Nat /\ p.x \in Nat /\ p.len \in Widths
         /\ guest.keys \subseteq 0..(KEYDOWN_MASK - 1)
BY GuestAssumption DEF ExecInv, guest

\* The three kinds of instructions.
IsOtherInstr(a) == a.op = "other" /\ (IsReg(a.rm) \/ IsMem(a.rm)) /\ IsOther(a.opcode)

\* An instruction of a guest is a mov, one no table holds, or nemu_trap.
LEMMA InstructionKinds ==
  ASSUME NEW a, IsInstruction(a)
  PROVE  (a.op = "mov" /\ IsMov(a)) \/ IsOtherInstr(a) \/ a.op = "trap"
BY DEF IsInstruction, IsOtherInstr, IsOther

\* Quiet accesses and those at an address in use are steps of the bus.
LEMMA MovesStep ==
  ASSUME NEW addr, Moves(addr, bus'), addr \in Used
  PROVE  BusStep
<1>1. ASSUME Quiet(bus, bus') PROVE Kept(bus, bus')
  BY <1>1 DEF Quiet, Kept
<1>2. ASSUME NEW i \in DeviceIds, AtMmio(addr, i) PROVE Touched(i)
  BY <1>2 DEF Touched
<1> QED
  BY <1>1, <1>2 DEF Moves, BusStep

\* A step that leaves the devices alone is a step of the bus.
LEMMA QuietStep ==
  ASSUME Quiet(bus, bus')
  PROVE  BusStep
BY DEF Quiet, Kept, BusStep

\* A mov in any of its encodings.
LEMMA MovStep ==
  ASSUME ExecInv, NEW a, a.op = "mov", IsMov(a), NEW code \in Codes(a), isa_exec_once(a, code)
  PROVE  /\ Follows /\ BusStep
         /\ fetch_decode_exec(code) = MovResult(a, Len(code)) /\ BusOK(MovResult(a, Len(code)).bus)
<1> DEFINE r == MovResult(a, Len(code))
<1>1. RegsOK /\ BusOK(bus) /\ pc \in Nat
  BY DEF ExecInv
<1>2. code \in Encodings(a)
  BY DEF Codes
<1>3. fetch_decode_exec(code) = r /\ Len(code) \in Nat
  BY <1>1, <1>2, MovDecoded
<1>4. Executed(r) /\ asm'.of = a
  BY <1>3 DEF isa_exec_once
<1>5. /\ r.bus = bus \/ \E addr : Uses(a, addr) /\ Moves(addr, r.bus)
      /\ r.gpr \in [0..7 -> 0..(WORD - 1)] /\ r.state = "RUNNING" /\ r.pc = pc + Len(code)
  BY <1>1, MovMoves
<1> HIDE DEF r
<1>6. BusOK(r.bus)
  BY <1>1, <1>5, MovesOK
<1>7. Follows /\ bus' = r.bus
  <2>1. r.pc \in Nat /\ r.state \in {"RUNNING", "END", "ABORT"}
    BY <1>1, <1>3, <1>5
  <2> QED
    BY <1>4, <1>5, <1>6, <2>1, ExecutedFollows
<1>8. ASSUME NEW addr, Uses(a, addr) PROVE addr \in Used
  <2>1. Used = {Address(o, gpr) : o \in {p \in {a.dst, a.src} : Mem(p)}}
    BY <1>4 DEF Used
  <2> QED
    BY <1>8, <2>1 DEF Uses, Mem
<1>9. BusStep
  <2>1. CASE r.bus = bus
    <3>1. Quiet(bus, bus')
      BY <1>1, <1>7, <2>1, DiedQuiet
    <3> QED
      BY <3>1, QuietStep
  <2>2. ASSUME NEW addr, Uses(a, addr), Moves(addr, r.bus) PROVE BusStep
    <3>1. addr \in Used /\ Moves(addr, bus')
      BY <1>7, <1>8, <2>2
    <3> QED
      BY <3>1, MovesStep
  <2> QED
    BY <1>5, <2>1, <2>2
<1> QED
  BY <1>3, <1>6, <1>7, <1>9 DEF r

\* An instruction that is invalid.
LEMMA OtherStep ==
  ASSUME ExecInv, NEW a, IsOtherInstr(a), NEW code \in Codes(a), isa_exec_once(a, code)
  PROVE  /\ Follows /\ BusStep
         /\ state' \in {"ABORT", "dead"} /\ gpr' = gpr
<1> DEFINE r == fetch_decode_exec(code)  o == a.rm
<1>1. RegsOK /\ BusOK(bus) /\ pc \in Nat /\ gpr \in [0..7 -> 0..(WORD - 1)]
  BY DEF ExecInv, RegsOK
<1>2. a.op = "other" /\ (IsReg(o) \/ IsMem(o)) /\ IsOther(a.opcode)
  BY DEF IsOtherInstr
<1>3. PICK m \in RmEncodings(o, 7) : code = (a.opcode \o m) \o Low(0, 4)
  BY <1>2 DEF Codes
<1>4. AbortedBy(r, o)
  BY <1>1, <1>2, <1>3, OtherDecoded
<1>5. Executed(r) /\ asm'.of = a
  BY DEF isa_exec_once
<1> HIDE DEF r
<1>6. /\ r.gpr = gpr /\ r.state = "ABORT" /\ r.pc = pc + 8
      /\ Quiet(bus, r.bus) \/ (o.k = "mem" /\ Moves(Address(o, gpr), r.bus))
  BY <1>1, <1>2, <1>4, OtherMoves
<1>7. BusOK(r.bus)
  BY <1>1, <1>6, MovesOK DEF Quiet
<1>8. /\ Follows /\ bus' = r.bus
      /\ IF r.bus.dead THEN state' = "dead" /\ gpr' = gpr
         ELSE state' = r.state /\ gpr' = r.gpr /\ pc' = r.pc % WORD
  <2>1. r.pc \in Nat /\ r.state \in {"RUNNING", "END", "ABORT"} /\ r.gpr \in [0..7 -> 0..(WORD - 1)]
    BY <1>1, <1>6
  <2> QED
    BY <1>5, <1>7, <2>1, ExecutedFollows
<1>9. state' \in {"ABORT", "dead"} /\ gpr' = gpr
  BY <1>6, <1>8
<1>10. BusStep
  <2>1. CASE Quiet(bus, r.bus)
    BY <1>8, <2>1, QuietStep
  <2>2. CASE o.k = "mem" /\ Moves(Address(o, gpr), r.bus)
    <3>1. Address(o, gpr) \in Used
      BY <1>2, <1>5, <2>2 DEF Used, Mem
    <3> QED
      BY <1>8, <2>2, <3>1, MovesStep
  <2> QED
    BY <1>6, <2>1, <2>2
<1> QED
  BY <1>8, <1>9, <1>10

\* A nemu_trap.
LEMMA TrapStep ==
  ASSUME ExecInv, state = "RUNNING", NEW a, a.op = "trap", NEW code \in Codes(a), isa_exec_once(a, code)
  PROVE  /\ Follows /\ BusStep
         /\ state' = "END" /\ gpr' = gpr /\ bus' = bus
<1> DEFINE r == Result(gpr, bus, "END", 1)
<1>1. BusOK(bus) /\ pc \in Nat /\ gpr \in [0..7 -> 0..(WORD - 1)] /\ ~bus.dead
  BY DEF ExecInv, RegsOK, BusOK
<1>2. code = <<\hd6>>
  BY DEF Codes
<1>3. Executed(r)
  BY <1>2, TrapDecoded DEF isa_exec_once
<1>4. r.gpr = gpr /\ r.bus = bus /\ r.state = "END" /\ r.pc = pc + 1
  BY DEF Result
<1> HIDE DEF r
<1>5. r.pc \in Nat /\ r.state \in {"RUNNING", "END", "ABORT"}
  BY <1>1, <1>4
<1>6. /\ Follows /\ bus' = r.bus
      /\ IF r.bus.dead THEN state' = "dead" /\ gpr' = gpr
         ELSE state' = r.state /\ gpr' = r.gpr /\ pc' = r.pc % WORD
  BY <1>1, <1>3, <1>4, <1>5, ExecutedFollows
<1>7. BusStep
  <2>1. Quiet(bus, bus')
    BY <1>1, <1>4, <1>6, DiedQuiet
  <2> QED
    BY <2>1, QuietStep
<1> QED
  BY <1>1, <1>4, <1>6, <1>7

\* What is not an instruction of the table.
LEMMA AsideFollows ==
  ASSUME ExecInv, state = "RUNNING", NEW a, NEW b, Aside(a, b), BusOK(b)
  PROVE  Follows /\ bus' = b /\ asm'.of = a
<1>1. bus' = b /\ steps' = steps + 1 /\ who' = who /\ gpr' = gpr /\ pc' = pc /\ asm'.of = a
  BY DEF Aside, Becomes
<1>2. gpr \in [0..7 -> 0..(WORD - 1)] /\ pc \in Nat
  BY DEF ExecInv, RegsOK
<1>3. b.dead \in BOOLEAN /\ state' = IF b.dead THEN "dead" ELSE state
  BY DEF Aside, BusOK
<1>4. state' \in {"RUNNING", "END", "ABORT", "dead"} /\ (state' = "dead" <=> bus'.dead = TRUE)
  BY <1>1, <1>3
<1> QED
  BY <1>1, <1>2, <1>4 DEF Follows

\* Ports.
LEMMA PioStep ==
  ASSUME ExecInv, state = "RUNNING", NEW addr, NEW b, Aside([op |-> "pio", addr |-> addr], b),
         Quiet(bus, b) \/ \E i \in DeviceIds : AtPort(addr, i) /\ Accessed(bus, b, i)
  PROVE  Follows /\ BusStep /\ asm'.of.op = "pio"
<1>1. BusOK(b)
  BY DEF Quiet, Accessed
<1> DEFINE a == [op |-> "pio", addr |-> addr]
<1>2. a.op = "pio" /\ a.addr = addr /\ Aside(a, b)
  OBVIOUS
<1> HIDE DEF a
<1>3. Follows /\ bus' = b /\ asm'.of = a
  BY <1>1, <1>2, AsideFollows
<1>4. CASE Quiet(bus, b)
  BY <1>2, <1>3, <1>4, QuietStep
<1>5. ASSUME NEW i \in DeviceIds, AtPort(addr, i), Accessed(bus, b, i) PROVE BusStep
  <2>1. Touched(i)
    BY <1>2, <1>3, <1>5 DEF Touched
  <2> QED
    BY <1>3, <1>5, <2>1 DEF BusStep
<1> QED
  BY <1>2, <1>3, <1>4, <1>5

\* in and out are steps of the bus.
LEMMA PioSteps ==
  ASSUME ExecInv, state = "RUNNING"
  PROVE  /\ \A p \in guest.ins :
              pio_read(p.addr, p.len) => Follows /\ BusStep /\ asm'.of.op = "pio"
         /\ \A p \in guest.outs :
              pio_write(p.addr, p.x, p.len) => Follows /\ BusStep /\ asm'.of.op = "pio"
<1>1. BusOK(bus)
  BY DEF ExecInv
<1>2. ASSUME NEW p \in guest.ins, pio_read(p.addr, p.len)
      PROVE  Follows /\ BusStep /\ asm'.of.op = "pio"
  <2> DEFINE addr == p.addr  len == p.len  b == pio_read_common(bus, addr, len).b
  <2>1. addr \in Nat /\ len \in Widths
    BY GuestFacts
  <2>2. Aside([op |-> "pio", addr |-> addr], b)
    BY <1>2 DEF pio_read
  <2> HIDE DEF addr, len
  <2>3. Quiet(bus, b) \/ \E i \in DeviceIds : AtPort(addr, i) /\ Accessed(bus, b, i)
    BY <1>1, <2>1, PioRead
  <2> HIDE DEF b
  <2> QED
    BY <2>2, <2>3, PioStep
<1>3. ASSUME NEW p \in guest.outs, pio_write(p.addr, p.x, p.len)
      PROVE  Follows /\ BusStep /\ asm'.of.op = "pio"
  <2> DEFINE addr == p.addr  x == p.x  len == p.len  b == pio_write_common(bus, addr, x, len)
  <2>1. addr \in Nat /\ x \in Int /\ len \in Widths
    BY GuestFacts
  <2>2. Aside([op |-> "pio", addr |-> addr], b)
    BY <1>3 DEF pio_write
  <2> HIDE DEF addr, x, len
  <2>3. Quiet(bus, b) \/ \E i \in DeviceIds : AtPort(addr, i) /\ Accessed(bus, b, i)
    BY <1>1, <2>1, PioWrite
  <2> HIDE DEF b
  <2> QED
    BY <2>2, <2>3, PioStep
<1> QED
  BY <1>2, <1>3

\* Keys.
LEMMA KeyEventStep ==
  ASSUME ExecInv, state = "RUNNING", NEW k \in guest.keys, NEW down \in BOOLEAN, key_event(k, down)
  PROVE  Follows /\ BusStep /\ asm'.of.op = "key"
<1> DEFINE b == send_key(bus, k, down)  a == [op |-> "key"]
<1>1. BusOK(bus) /\ bus.dead = FALSE /\ k \in 0..(KEYDOWN_MASK - 1)
  BY GuestFacts DEF ExecInv, BusOK
<1>2. Aside(a, b) /\ a.op = "key"
  BY DEF key_event
<1>3. /\ BusOK(b)
      /\ b = bus \/ Pressed(bus, b)
  <2> DEFINE code == KeyCode(k, down)
  <2>1. /\ BusOK(b) /\ b.io = bus.io
        /\ \/ b = bus
           \/ /\ code \in 1..(HALF - 1) /\ b.key_f = bus.key_f
              /\ b.key_queue = [bus.key_queue EXCEPT ![bus.key_r] = code]
              /\ b.key_r = (bus.key_r + 1) % KEY_QUEUE_LEN
              /\ b.key_r = bus.key_f => b.dead = TRUE
    BY <1>1, SentKey
  <2> HIDE DEF code, b
  <2> QED
    BY <2>1 DEF Pressed
<1> HIDE DEF b, a
<1>4. Follows /\ bus' = b /\ asm'.of = a
  BY <1>2, <1>3, AsideFollows
<1>5. BusStep
  <2>1. CASE b = bus
    <3>1. Quiet(bus, bus')
      BY <1>1, <1>4, <2>1, DiedQuiet
    <3> QED
      BY <3>1, QuietStep
  <2>2. CASE Pressed(bus, b)
    BY <1>4, <2>2 DEF BusStep
  <2> QED
    BY <1>3, <2>1, <2>2
<1> QED
  BY <1>2, <1>4, <1>5

\* The clock.
LEMMA TickStep ==
  ASSUME ExecInv, state = "RUNNING", tick
  PROVE  Follows /\ BusStep /\ asm'.of.op = "tick"
<1> DEFINE b == [bus EXCEPT !.now = bus.now + 1]  a == [op |-> "tick"]
<1>1. Aside(a, b) /\ a.op = "tick"
  BY DEF tick
<1>2. BusOK(b) /\ Kept(bus, b)
  <2>1. bus.now + 1 \in Nat /\ BusOK(bus)
    BY DEF ExecInv, BusOK
  <2> DEFINE n == bus.now + 1
  <2> HIDE DEF n
  <2>2. n \in Nat /\ b = [bus EXCEPT !.now = n]
    BY <2>1 DEF n
  <2> HIDE DEF b
  <2> QED
    BY <2>1, <2>2 DEF BusOK, Kept
<1> HIDE DEF b, a
<1>3. Follows /\ bus' = b /\ asm'.of = a
  BY <1>1, <1>2, AsideFollows
<1> QED
  BY <1>1, <1>2, <1>3 DEF BusStep

\* Every step is one of these.
LEMMA EveryStep ==
  ASSUME ExecInv, Next
  PROVE  Follows /\ BusStep
<1>1. state = "RUNNING" /\ Step
  BY DEF Next, Running
<1>2. ASSUME NEW a \in guest.instructions, NEW code \in Codes(a), isa_exec_once(a, code)
      PROVE  Follows /\ BusStep
  <2>1. (a.op = "mov" /\ IsMov(a)) \/ IsOtherInstr(a) \/ a.op = "trap"
    BY GuestFacts, InstructionKinds
  <2>2. CASE a.op = "mov" /\ IsMov(a)
    BY <1>2, <2>2, MovStep
  <2>3. CASE IsOtherInstr(a)
    BY <1>2, <2>3, OtherStep
  <2>4. CASE a.op = "trap"
    BY <1>1, <1>2, <2>4, TrapStep
  <2> QED
    BY <2>1, <2>2, <2>3, <2>4
<1>3. ASSUME NEW p \in guest.ins, pio_read(p.addr, p.len) PROVE Follows /\ BusStep
  BY <1>1, <1>3, PioSteps
<1>4. ASSUME NEW p \in guest.outs, pio_write(p.addr, p.x, p.len) PROVE Follows /\ BusStep
  BY <1>1, <1>4, PioSteps
<1>5. ASSUME NEW k \in guest.keys, NEW down \in BOOLEAN, key_event(k, down) PROVE Follows /\ BusStep
  BY <1>1, <1>5, KeyEventStep
<1>6. ASSUME tick PROVE Follows /\ BusStep
  BY <1>1, <1>6, TickStep
<1> QED
  BY <1>1, <1>2, <1>3, <1>4, <1>5, <1>6 DEF Step

\* ExecInv is inductive.
LEMMA ExecInvInit ==
  ASSUME Init
  PROVE  ExecInv
<1>1. who \in DOMAIN Guest /\ gpr = guest.gpr /\ pc = 0 /\ bus = BusInit(guest.pmem)
      /\ state = "RUNNING" /\ steps = 0
  BY DEF Init
<1>2. /\ guest.gpr \in [0..7 -> 0..(WORD - 1)]
      /\ guest.pmem \in [0..(PMEM_SIZE + 2) -> Byte]
  BY <1>1, GuestAssumption DEF guest, Byte
<1>3. BusOK(bus) /\ bus.dead = FALSE
  BY <1>1, <1>2, BusInitFacts
<1> QED
  BY <1>1, <1>2, <1>3 DEF ExecInv, RegsOK

\* Every step preserves the invariant.
LEMMA ExecInvNext ==
  ASSUME ExecInv, Next
  PROVE  ExecInv'
<1>1. Follows /\ BusStep
  BY EveryStep
<1>2. BusOK(bus')
  BY <1>1 DEF BusStep, Kept, Accessed, Pressed
<1>3. who' \in DOMAIN Guest /\ steps' \in Nat
  BY <1>1 DEF Follows, ExecInv
<1> QED
  BY <1>1, <1>2, <1>3 DEF Follows, ExecInv, RegsOK

\* The emulator never leaves its types, whatever the guest executes: registers
\* hold words, memory, registers of devices and the ring hold bytes and codes at
\* valid positions; and it has ended exactly when an assertion has failed.
THEOREM ExecTypes == Spec => []ExecInv
<1>1. ExecInv /\ [Next]_vars => ExecInv'
  <2>1. ASSUME ExecInv, Next PROVE ExecInv'
    BY <2>1, ExecInvNext
  <2>2. ASSUME ExecInv, UNCHANGED vars PROVE ExecInv'
    BY <2>2 DEF vars, ExecInv, RegsOK, BusOK
  <2> QED
    BY <2>1, <2>2
<1>2. Init => ExecInv
  BY ExecInvInit
<1> QED
  BY <1>1, <1>2, PTL DEF Spec

-----------------------------------------------------------------------------
(* Devices apart.                                                          *)

\* An access to device j leaves the registers of the others.
LEMMA RegistersKept ==
  ASSUME NEW a \in [IoIndex -> Byte], NEW c \in [IoIndex -> Byte], NEW j \in DeviceIds,
         NEW i \in DeviceIds, i # j, Within(a, c, j)
  PROVE  Registers(c, i) = Registers(a, i)
<1>1. Space[i] \in Nat /\ LenOf(i) \in Nat /\ Space[i] + LenOf(i) + 3 <= IO_SPACE_MAX
  BY SpaceRoom, SpaceNext
<1>2. ASSUME NEW k \in 0..(LenOf(i) - 1) PROVE c[Space[i] + k] = a[Space[i] + k]
  <2>1. Space[i] + k \in IoIndex
    BY <1>1, DeviceFacts DEF IoIndex
  <2>2. \A l \in 0..(LenOf(j) + 2) : Space[j] + l # Space[i] + k
    BY SpacesApart
  <2> QED
    BY <2>1, <2>2 DEF Within
<1> QED
  BY <1>2 DEF Registers, LenOf

\* The step of DevicesApart.
LEMMA ApartStep ==
  ASSUME ExecInv, ExecInv', BusStep, NEW i \in DeviceIds,
         Registers(bus'.io, i) # Registers(bus.io, i)
  PROVE  Touched(i)
<1>1. bus.io \in [IoIndex -> Byte] /\ bus'.io \in [IoIndex -> Byte]
  BY DEF ExecInv, BusOK
<1>2. bus'.io # bus.io
  OBVIOUS
<1>3. PICK j \in DeviceIds : Touched(j) /\ Within(bus.io, bus'.io, j)
  BY <1>2 DEF BusStep, Kept, Pressed, Accessed
<1>4. i = j
  BY <1>1, <1>3, RegistersKept
<1> QED
  BY <1>3, <1>4

\* For all memory layouts and sizes of devices: an access never changes the
\* registers of a device that does not answer to its first byte.
THEOREM ApartDevices == Spec => DevicesApart
<1> DEFINE A == \A i \in {d \in 1..Len(Devices) : Registers(bus'.io, d) # Registers(bus.io, d)} :
                  \/ \E a \in Used : InMap(a, Devices[i].mmio, Devices[i].len)
                  \/ /\ asm'.of.op = "pio" /\ Devices[i].port # -1
                     /\ InMap(asm'.of.addr, Devices[i].port, Devices[i].len)
<1>1. ExecInv /\ ExecInv' /\ [Next]_vars => [A]_bus
  <2>1. ASSUME ExecInv, ExecInv', Next PROVE A
    <3> SUFFICES ASSUME NEW i \in 1..Len(Devices), Registers(bus'.io, i) # Registers(bus.io, i)
                 PROVE  \/ \E a \in Used : InMap(a, Devices[i].mmio, Devices[i].len)
                        \/ /\ asm'.of.op = "pio" /\ Devices[i].port # -1
                           /\ InMap(asm'.of.addr, Devices[i].port, Devices[i].len)
      OBVIOUS
    <3>1. BusStep
      BY <2>1, EveryStep
    <3>2. i \in DeviceIds
      BY DEF DeviceIds, Count
    <3>3. Touched(i)
      BY <2>1, <3>1, <3>2, ApartStep
    <3> QED
      BY <3>3 DEF Touched, AtMmio, AtPort, LenOf
  <2>2. ASSUME UNCHANGED vars PROVE UNCHANGED bus
    BY <2>2 DEF vars
  <2> QED
    BY <2>1, <2>2
<1> HIDE DEF A
<1>2. [][A]_bus => DevicesApart
  BY DEF DevicesApart, A
<1> QED
  BY <1>1, <1>2, ExecTypes, PTL DEF Spec

-----------------------------------------------------------------------------
(* The keyboard is a queue.                                                *)

Keys(b) == RingOf(b.key_queue, b.key_f, b.key_r)

\* What a step does to the ring and the register, unless NEMU ends.
KeysMove(b, c) ==
  \/ Keys(c) = Keys(b) /\ KeyData(c) = KeyData(b)
  \/ Keys(b) # <<>> /\ KeyData(c) = Head(Keys(b)) /\ Keys(c) = Tail(Keys(b))
  \/ Keys(b) = <<>> /\ Keys(c) = Keys(b) /\ KeyData(c) = KEY_NONE
  \/ \E code \in 1..(HALF - 1) : Keys(c) = Append(Keys(b), code) /\ KeyData(c) = KeyData(b)

\* What an access or a key press does to the ring is what KeyQueue allows.
LEMMA KeysMoved ==
  ASSUME NEW b, BusOK(b), NEW c, BusOK(c),
         Kept(b, c) \/ (\E i \in DeviceIds : Accessed(b, c, i)) \/ Pressed(b, c)
  PROVE  c.dead = TRUE \/ KeysMove(b, c)
<1>1. b.key_queue \in [KeyIndex -> 0..(HALF - 1)] /\ b.key_f \in KeyIndex /\ b.key_r \in KeyIndex
  BY DEF BusOK
<1>2. CASE Kept(b, c)
  BY <1>2 DEF Kept, KeysMove, Keys, KeyData
<1>3. ASSUME NEW i \in DeviceIds, Accessed(b, c, i), c.dead # TRUE PROVE KeysMove(b, c)
  <2>1. SameElse(b, c) /\ KeyStep(b, c)
    BY <1>3 DEF Accessed
  <2>2. c.key_queue = b.key_queue /\ c.key_r = b.key_r
    BY <2>1 DEF SameElse
  <2>3. CASE c.key_f = b.key_f /\ KeyData(c) = KeyData(b)
    BY <2>2, <2>3 DEF KeysMove, Keys
  <2>4. CASE b.key_f # b.key_r /\ c.key_f = (b.key_f + 1) % KEY_QUEUE_LEN
             /\ KeyData(c) = b.key_queue[b.key_f]
    <3>1. Keys(b) # <<>> /\ Head(Keys(b)) = b.key_queue[b.key_f]
          /\ RingOf(b.key_queue, (b.key_f + 1) % KEY_QUEUE_LEN, b.key_r) = Tail(Keys(b))
      BY <1>1, <2>4, RingTake DEF Keys
    <3>2. Keys(c) = RingOf(b.key_queue, (b.key_f + 1) % KEY_QUEUE_LEN, b.key_r)
      BY <2>2, <2>4 DEF Keys
    <3> QED
      BY <2>4, <3>1, <3>2 DEF KeysMove
  <2>5. CASE b.key_f = b.key_r /\ c.key_f = b.key_f /\ KeyData(c) = KEY_NONE
    <3>1. Keys(b) = <<>>
      BY <1>1, <2>5, RingEmpty DEF Keys
    <3>2. Keys(c) = Keys(b)
      BY <2>2, <2>5 DEF Keys
    <3> QED
      BY <2>5, <3>1, <3>2 DEF KeysMove
  <2> QED
    BY <1>3, <2>1, <2>3, <2>4, <2>5 DEF KeyStep
<1>4. ASSUME Pressed(b, c), c.dead # TRUE PROVE KeysMove(b, c)
  <2>1. PICK code \in 1..(HALF - 1) :
          /\ c.io = b.io /\ c.key_f = b.key_f
          /\ c.key_queue = [b.key_queue EXCEPT ![b.key_r] = code]
          /\ c.key_r = (b.key_r + 1) % KEY_QUEUE_LEN /\ c.key_r # b.key_f
    BY <1>4 DEF Pressed
  <2>2. code \in 0..(HALF - 1)
    BY RadixFacts
  <2>3. Keys(c) = RingOf([b.key_queue EXCEPT ![b.key_r] = code], b.key_f, (b.key_r + 1) % KEY_QUEUE_LEN)
    BY <2>1 DEF Keys
  <2>4. RingOf([b.key_queue EXCEPT ![b.key_r] = code], b.key_f, (b.key_r + 1) % KEY_QUEUE_LEN)
          = Append(Keys(b), code)
    <3> DEFINE queue == b.key_queue  f == b.key_f  r == b.key_r
    <3>1. /\ queue \in [KeyIndex -> 0..(HALF - 1)] /\ f \in KeyIndex /\ r \in KeyIndex
          /\ (r + 1) % KEY_QUEUE_LEN # f
      BY <1>1, <2>1
    <3>2. Keys(b) = RingOf(queue, f, r)
      BY DEF Keys
    <3> HIDE DEF queue, f, r
    <3>3. RingOf([queue EXCEPT ![r] = code], f, (r + 1) % KEY_QUEUE_LEN) = Append(RingOf(queue, f, r), code)
      BY <2>2, <3>1, RingPress
    <3> QED
      BY <3>2, <3>3 DEF queue, f, r
  <2>5. KeyData(c) = KeyData(b)
    BY <2>1 DEF KeyData
  <2> QED
    BY <2>3, <2>4, <2>5 DEF KeysMove
<1> QED
  BY <1>2, <1>3, <1>4

\* A step of the emulator is a step of the queue.
LEMMA QueueStep ==
  ASSUME ExecInv, ExecInv', Next
  PROVE  KQ!Next \/ UNCHANGED KQ!vars
<1> DEFINE b == bus  c == bus'
<1>1. BusOK(b) /\ BusOK(c) /\ b.dead = FALSE /\ c.dead \in BOOLEAN
  BY DEF ExecInv, Next, Running, BusOK
<1>2. Kept(b, c) \/ (\E i \in DeviceIds : Accessed(b, c, i)) \/ Pressed(b, c)
  BY EveryStep DEF BusStep
<1>3. c.dead = TRUE \/ KeysMove(b, c)
  BY <1>1, <1>2, KeysMoved
<1>4. /\ (IF bus.dead THEN <<>> ELSE Ring) = Keys(b)
      /\ (IF bus.dead THEN KEY_NONE ELSE Bytes(bus.io, Space[Keyboard], 4)) = KeyData(b)
  BY <1>1 DEF Ring, Keys, RingOf, KeyData, Keyboard, KeyId, Named
<1>5. ASSUME c.dead = TRUE
      PROVE  /\ (IF bus'.dead THEN <<>> ELSE Ring') = <<>>
             /\ (IF bus'.dead THEN KEY_NONE ELSE Bytes(bus'.io, Space[Keyboard], 4)) = KEY_NONE
             /\ (~bus'.dead) = FALSE
  BY <1>5
<1>6. ASSUME c.dead = FALSE
      PROVE  /\ (IF bus'.dead THEN <<>> ELSE Ring') = Keys(c)
             /\ (IF bus'.dead THEN KEY_NONE ELSE Bytes(bus'.io, Space[Keyboard], 4)) = KeyData(c)
             /\ (~bus'.dead) = TRUE
  BY <1>6 DEF Ring, Keys, RingOf, KeyData, Keyboard, KeyId, Named
<1>7. (~bus.dead) = TRUE
  BY <1>1
<1>8. CASE c.dead = TRUE
  <2>1. KQ!End
    BY <1>5, <1>7, <1>8 DEF KQ!End
  <2> QED
    BY <2>1 DEF KQ!Next
<1>9. CASE c.dead = FALSE /\ KeysMove(b, c)
  <2>1. ASSUME Keys(c) = Keys(b), KeyData(c) = KeyData(b) PROVE UNCHANGED KQ!vars
    BY <1>4, <1>6, <1>7, <1>9, <2>1 DEF KQ!vars
  <2>2. ASSUME Keys(b) # <<>>, KeyData(c) = Head(Keys(b)), Keys(c) = Tail(Keys(b)) PROVE KQ!Take
    BY <1>4, <1>6, <1>7, <1>9, <2>2 DEF KQ!Take
  <2>3. ASSUME Keys(b) = <<>>, Keys(c) = Keys(b), KeyData(c) = KEY_NONE PROVE KQ!TakeNone
    BY <1>4, <1>6, <1>7, <1>9, <2>3 DEF KQ!TakeNone
  <2>4. ASSUME NEW code \in 1..(HALF - 1), Keys(c) = Append(Keys(b), code), KeyData(c) = KeyData(b)
        PROVE  KQ!Press(code)
    BY <1>4, <1>6, <1>7, <1>9, <2>4 DEF KQ!Press
  <2> QED
    BY <1>9, <2>1, <2>2, <2>3, <2>4 DEF KeysMove, KQ!Next
<1> QED
  BY <1>1, <1>3, <1>8, <1>9

\* For every guest, ring length, layout of devices and sequence of events: the
\* ring, its positions and the data register implement KeyQueue.
THEOREM QueueOfKeys == Spec => KeysInOrder
<1>1. Init => KQ!Init
  <2> SUFFICES ASSUME Init PROVE KQ!Init
    OBVIOUS
  <2>1. guest.pmem \in [0..(PMEM_SIZE + 2) -> Byte] /\ bus = BusInit(guest.pmem)
    BY GuestAssumption DEF Init, guest, Byte
  <2>2. BusOK(bus) /\ bus.dead = FALSE /\ bus.key_f = 0 /\ bus.key_r = 0 /\ KeyData(bus) = KEY_NONE
    BY <2>1, BusInitFacts
  <2>3. bus.key_f \in KeyIndex
    BY <2>2 DEF BusOK
  <2>4. Ring = <<>>
    BY <2>2, <2>3, RingEmpty DEF Ring, RingOf
  <2>5. Bytes(bus.io, Space[Keyboard], 4) = KEY_NONE
    BY <2>2 DEF KeyData, Keyboard, KeyId, Named
  <2>6. (~bus.dead) = TRUE
    BY <2>2
  <2> QED
    BY <2>2, <2>4, <2>5, <2>6 DEF KQ!Init
<1>2. ExecInv /\ ExecInv' /\ [Next]_vars => [KQ!Next]_KQ!vars
  <2>1. ASSUME ExecInv, ExecInv', Next PROVE KQ!Next \/ UNCHANGED KQ!vars
    BY <2>1, QueueStep
  <2>2. ASSUME UNCHANGED vars PROVE UNCHANGED KQ!vars
    BY <2>2 DEF vars, KQ!vars, Ring
  <2> QED
    BY <2>1, <2>2
<1> QED
  BY <1>1, <1>2, ExecTypes, PTL DEF Spec, KeysInOrder, KQ!Spec

-----------------------------------------------------------------------------
(* A mov means what the manual says.                                       *)

\* The parts of MovMeans.
GotOf(m) ==
  IF Mem(m.src) THEN paddr_read(bus, Address(m.src, gpr), m.w)
  ELSE Got(bus, IF m.src.k = "imm" THEN m.src.v ELSE 0)
SourceByte(m, i) == IF m.src.k = "reg" THEN FileByte(m.src.r, m.w, i) ELSE ByteOf(GotOf(m).x, i)
SourceBytes(m) == [i \in 0..3 |-> IF i < m.w THEN SourceByte(m, i) ELSE 0]
After(m) ==
  IF Mem(m.dst) THEN paddr_write(GotOf(m).b, Address(m.dst, gpr), Bytes(SourceBytes(m), 0, 4), m.w)
  ELSE GotOf(m).b
Hits(m, r, k, i) == RegByte(m.dst.r, m.w, i) = <<r, k>>
HitBy(m, r, k) == CHOOSE i \in 0..(m.w - 1) : RegByte(m.dst.r, m.w, i) = <<r, k>>
RegistersMean(m) ==
  \A r \in 0..7, k \in 0..3 :
    ByteOf(gpr'[r], k) =
      IF m.dst.k = "reg" /\ \E i \in 0..(m.w - 1) : Hits(m, r, k, i)
      THEN SourceByte(m, HitBy(m, r, k))
      ELSE ByteOf(gpr[r], k)

\* The parts of what a mov means, put together.
LEMMA MovMeansParts ==
  ASSUME NEW m, bus' = After(m), state' = (IF After(m).dead THEN "dead" ELSE "RUNNING"),
         ~After(m).dead => pc' = (pc + asm'.len) % WORD /\ RegistersMean(m)
  PROVE  MovMeans(m)
BY DEF MovMeans, After, SourceBytes, SourceByte, GotOf, FileByte, RegistersMean, Hits, HitBy

\* Whatever the source, the value the emulator stores has the source's bytes.
LEMMA SourceValue ==
  ASSUME RegsOK, NEW m, IsMov(m)
  PROVE  \A i \in 0..(m.w - 1) : SourceByte(m, i) = ByteOf(Value(m), i)
<1>0. m.w \in Widths
  BY MovKinds
<1>1. CASE IsReg(m.src) /\ m.src.k = "reg" /\ m.src.r \in 0..7
  <2>1. Value(m) = rtl_lr(gpr, m.src.r, m.w)
    BY <1>1 DEF Value, SrcVal
  <2>2. \A i \in 0..(m.w - 1) : ByteOf(rtl_lr(gpr, m.src.r, m.w), i) = FileByte(m.src.r, m.w, i)
    BY <1>0, <1>1, RegRead
  <2> QED
    BY <1>1, <2>1, <2>2 DEF SourceByte
<1>2. CASE IsImm(m.src) /\ m.src.k = "imm" /\ m.src.v \in Int
  <2>1. Value(m) = m.src.v % Radix(m.w)
    BY <1>2 DEF Value, SrcVal
  <2>2. \A i \in 0..(m.w - 1) : ByteOf(m.src.v % Radix(m.w), i) = ByteOf(m.src.v, i)
    BY <1>0, <1>2, ImmRead
  <2>3. GotOf(m).x = m.src.v
    BY <1>2 DEF GotOf, Mem, Got
  <2> QED
    BY <1>2, <2>1, <2>2, <2>3 DEF SourceByte
<1>3. CASE IsMem(m.src) /\ m.src.k = "mem"
  <2>1. Value(m) = GotOf(m).x
    BY <1>3 DEF Value, GotOf, Mem, vaddr_read
  <2> QED
    BY <1>3, <2>1 DEF SourceByte
<1> QED
  BY <1>1, <1>2, <1>3, MovKinds

\* Reading the source is the only access before the store.
LEMMA SourceBus ==
  ASSUME NEW m
  PROVE  GotOf(m).b = AfterLoad(m)
BY DEF GotOf, AfterLoad, Mem, Got, vaddr_read

\* The word put together from the source's bytes stores the same.
LEMMA ValueStored ==
  ASSUME RegsOK, BusOK(bus), NEW m, IsMov(m), IsMem(m.dst), m.src.k # "mem"
  PROVE  paddr_write(bus, Address(m.dst, gpr), Bytes(SourceBytes(m), 0, 4), m.w)
           = vaddr_write(bus, Address(m.dst, gpr), Value(m), m.w)
<1> DEFINE s == SourceBytes(m)  x == Bytes(s, 0, 4)  y == Value(m)  w == m.w  addr == Address(m.dst, gpr)
<1>1. w \in Widths /\ y \in 0..(WORD - 1) /\ y \in Int /\ addr \in Nat
  BY MovKinds, ValueType, AddressType, RadixFacts
<1>2. \A k \in 0..3 : k < w => s[k] = ByteOf(y, k)
  <2>1. \A k \in 0..3 : k < w => k \in 0..(w - 1)
    BY <1>1 DEF Widths
  <2> QED
    BY <2>1, SourceValue DEF SourceBytes
<1>3. \A k \in 0..3 : s[k] \in Byte
  <2> SUFFICES ASSUME NEW k \in 0..3 PROVE s[k] \in Byte
    OBVIOUS
  <2>1. CASE k < w
    BY <1>1, <1>2, <2>1, ByteType
  <2>2. CASE ~(k < w)
    <3>1. s[k] = 0
      BY <2>2 DEF SourceBytes
    <3> QED
      BY <3>1, RadixFacts DEF Byte
  <2> QED
    BY <2>1, <2>2
<1> HIDE DEF s, y, w, addr
<1>4. x \in 0..(WORD - 1) /\ \A k \in 0..3 : ByteOf(x, k) = s[k]
  <2>1. 0 \in Int /\ 4 \in {0, 1, 2, 4} /\ \A k \in 0..3 : k < 4 => s[0 + k] \in Byte
    BY <1>3
  <2>2. /\ Bytes(s, 0, 4) \in 0..(WORD - 1)
        /\ \A k \in 0..3 : ByteOf(Bytes(s, 0, 4), k) = IF k < 4 THEN s[0 + k] ELSE 0
    BY <2>1, BytesFacts
  <2> QED
    BY <2>2
<1> HIDE DEF x
<1>5. x \in Int /\ \A k \in 0..3 : k < w => ByteOf(x, k) = ByteOf(y, k)
  BY <1>2, <1>4, RadixFacts
<1>6. paddr_write(bus, addr, x, w) = paddr_write(bus, addr, y, w)
  BY <1>1, <1>5, PaddrWriteSame
<1> QED
  BY <1>6 DEF x, s, y, w, addr, vaddr_write

\* The byte of the source that a byte of the register file becomes.
LEMMA RegisterMeans ==
  ASSUME RegsOK, BusOK(bus), NEW m, IsMov(m), IsReg(m.dst), m.dst.r \in 0..7,
         gpr' = rtl_sr(gpr, m.dst.r, Value(m), m.w)
  PROVE  RegistersMean(m)
<1> DEFINE x == Value(m)  w == m.w  d == m.dst.r
<1>1. w \in Widths /\ x \in 0..(WORD - 1) /\ d \in 0..7
  BY MovKinds, ValueType
<1>2. \A i \in 0..(w - 1) : SourceByte(m, i) = ByteOf(x, i)
  BY SourceValue
<1> HIDE DEF x, w, d
<1>3. RegStored(gpr', d, x, w)
  BY <1>1, RegWritten DEF x, w, d
<1> SUFFICES ASSUME NEW r \in 0..7, NEW k \in 0..3
             PROVE  ByteOf(gpr'[r], k) =
                      IF m.dst.k = "reg" /\ \E i \in 0..(m.w - 1) : Hits(m, r, k, i)
                      THEN SourceByte(m, HitBy(m, r, k))
                      ELSE ByteOf(gpr[r], k)
  BY DEF RegistersMean
<1>4. m.dst.k = "reg"
  BY DEF IsReg
<1>5. CASE \E i \in 0..(w - 1) : Hits(m, r, k, i)
  <2> DEFINE j == HitBy(m, r, k)
  <2>1. j \in 0..(w - 1) /\ RegByte(d, w, j) = <<r, k>>
    BY <1>5 DEF Hits, HitBy, w, d
  <2> HIDE DEF j
  <2>2. ByteOf(gpr'[r], k) = ByteOf(x, j)
    BY <1>3, <2>1 DEF RegStored
  <2>3. SourceByte(m, j) = ByteOf(x, j)
    BY <1>2, <2>1
  <2> QED
    BY <1>4, <1>5, <2>2, <2>3 DEF j, w
<1>6. CASE ~\E i \in 0..(w - 1) : Hits(m, r, k, i)
  <2>1. \A i \in 0..(w - 1) : RegByte(d, w, i) # <<r, k>>
    BY <1>6 DEF Hits, w, d
  <2>2. ByteOf(gpr'[r], k) = ByteOf(gpr[r], k)
    BY <1>3, <2>1 DEF RegStored
  <2> QED
    BY <1>6, <2>2 DEF w
<1> QED
  BY <1>5, <1>6

\* A mov, from its encoding to its meaning.
LEMMA MovExact ==
  ASSUME ExecInv, NEW a, a.op = "mov", IsMov(a), NEW code \in Codes(a), isa_exec_once(a, code)
  PROVE  MovMeans(a)
<1> DEFINE r == MovResult(a, Len(code))
<1>1. RegsOK /\ BusOK(bus)
  BY DEF ExecInv
<1>2. BusOK(r.bus) /\ fetch_decode_exec(code) = r
  BY MovStep
<1>3. Executed(r) /\ asm'.len = Len(code)
  BY <1>2 DEF isa_exec_once
<1>4. r.state = "RUNNING" /\ r.pc = pc + Len(code)
  BY <1>1, MovMoves
<1>5. /\ bus' = r.bus
      /\ state' = IF r.bus.dead THEN "dead" ELSE "RUNNING"
      /\ ~r.bus.dead => gpr' = r.gpr /\ pc' = (pc + asm'.len) % WORD
  <2> HIDE DEF r
  <2> QED
    BY <1>3, <1>4 DEF Executed, Becomes
<1>6. CASE IsReg(a.dst) /\ a.dst.k = "reg" /\ a.dst.r \in 0..7
  <2>1. r = Result(rtl_sr(gpr, a.dst.r, Value(a), a.w), AfterLoad(a), "RUNNING", Len(code))
    BY <1>6, MovResultFacts
  <2> HIDE DEF r
  <2>2. r.bus = AfterLoad(a) /\ r.gpr = rtl_sr(gpr, a.dst.r, Value(a), a.w)
    BY <2>1 DEF Result
  <2>3. After(a) = r.bus
    BY <1>6, <2>2, SourceBus DEF After, Mem
  <2>4. ~r.bus.dead => RegistersMean(a)
    BY <1>1, <1>5, <1>6, <2>2, RegisterMeans
  <2> QED
    BY <1>5, <2>3, <2>4, MovMeansParts
<1>7. CASE IsMem(a.dst) /\ a.dst.k = "mem" /\ a.src.k # "mem"
  <2> DEFINE c == vaddr_write(bus, Address(a.dst, gpr), Value(a), a.w)
  <2>1. r = Result(gpr, c, "RUNNING", Len(code))
    BY <1>7, MovResultFacts DEF AfterLoad
  <2>2. After(a) = c
    <3>1. GotOf(a).b = bus
      BY <1>7, SourceBus DEF AfterLoad
    <3>2. After(a) = paddr_write(bus, Address(a.dst, gpr), Bytes(SourceBytes(a), 0, 4), a.w)
      BY <1>7, <3>1 DEF After, Mem
    <3> QED
      BY <1>1, <1>7, <3>2, ValueStored
  <2> HIDE DEF r, c
  <2>3. r.bus = c /\ r.gpr = gpr
    BY <2>1 DEF Result
  <2>4. ~r.bus.dead => RegistersMean(a)
    BY <1>5, <1>7, <2>3 DEF RegistersMean
  <2> QED
    BY <1>5, <2>2, <2>3, <2>4, MovMeansParts
<1> QED
  BY <1>6, <1>7, MovKinds

\* What ExecExact says of a step.
StepExact ==
  /\ Stepped("mov") => MovMeans(asm'.of)
  /\ Stepped("trap") => state' = "END" /\ gpr' = gpr /\ bus' = bus
  /\ Stepped("other") => state' \in {"ABORT", "dead"} /\ gpr' = gpr

\* Every step does what its instruction means.
LEMMA ExactStep ==
  ASSUME ExecInv, Next
  PROVE  StepExact
<1>1. state = "RUNNING" /\ Step
  BY DEF Next, Running
<1>2. ASSUME NEW a \in guest.instructions, NEW code \in Codes(a), isa_exec_once(a, code)
      PROVE  StepExact
  <2>0. asm'.of = a
    BY <1>2 DEF isa_exec_once
  <2>1. (a.op = "mov" /\ IsMov(a)) \/ IsOtherInstr(a) \/ a.op = "trap"
    BY GuestFacts, InstructionKinds
  <2>2. CASE a.op = "mov" /\ IsMov(a)
    <3>1. MovMeans(a)
      BY <1>2, <2>2, MovExact
    <3> QED
      BY <2>0, <2>2, <3>1 DEF StepExact, Stepped
  <2>3. CASE IsOtherInstr(a)
    <3>1. state' \in {"ABORT", "dead"} /\ gpr' = gpr /\ a.op = "other"
      BY <1>2, <2>3, OtherStep DEF IsOtherInstr
    <3> QED
      BY <2>0, <3>1 DEF StepExact, Stepped
  <2>4. CASE a.op = "trap"
    <3>1. state' = "END" /\ gpr' = gpr /\ bus' = bus
      BY <1>1, <1>2, <2>4, TrapStep
    <3> QED
      BY <2>0, <2>4, <3>1 DEF StepExact, Stepped
  <2> QED
    BY <2>1, <2>2, <2>3, <2>4
<1>3. ASSUME asm'.of.op \in {"pio", "key", "tick"} PROVE StepExact
  BY <1>3 DEF StepExact, Stepped
<1>4. ASSUME NEW p \in guest.ins, pio_read(p.addr, p.len) PROVE asm'.of.op = "pio"
  BY <1>1, <1>4, PioSteps
<1>5. ASSUME NEW p \in guest.outs, pio_write(p.addr, p.x, p.len) PROVE asm'.of.op = "pio"
  BY <1>1, <1>5, PioSteps
<1>6. ASSUME NEW k \in guest.keys, NEW down \in BOOLEAN, key_event(k, down) PROVE asm'.of.op = "key"
  BY <1>1, <1>6, KeyEventStep
<1>7. ASSUME tick PROVE asm'.of.op = "tick"
  BY <1>1, <1>7, TickStep
<1> QED
  BY <1>1, <1>2, <1>3, <1>4, <1>5, <1>6, <1>7 DEF Step

\* For all registers, memories, devices, addresses and immediates, in every
\* encoding the manual has: the emulator executes a mov as the manual says.
THEOREM MovsExact == Spec => ExecExact
<1>1. ExecInv /\ [Next]_vars => [StepExact]_vars
  BY ExactStep
<1>2. [][StepExact]_vars => ExecExact
  BY DEF ExecExact, StepExact
<1> QED
  BY <1>1, <1>2, ExecTypes, PTL DEF Spec
=============================================================================
