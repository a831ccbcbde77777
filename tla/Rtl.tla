--------------------------------- MODULE Rtl --------------------------------
(***************************************************************************)
(* The registers of x86-NEMU and the RTL the interpreter executes          *)
(* instructions with: the overlapping registers of isa/x86.h and reg.h,    *)
(* rtl_lr and rtl_sr, the operations of c_op.h and rtl-basic.h.  Pure      *)
(* operators; a byte has BYTE values (256 in the code), so that every      *)
(* width the code tells apart is there on a small instance.                *)
(***************************************************************************)
EXTENDS Integers

CONSTANT BYTE   \* the number of values of a byte

ASSUME RtlAssumption == BYTE \in Nat \ {0, 1}

HALF == BYTE * BYTE      \* values of 16 bits
WORD == HALF * HALF      \* values of a word_t

Widths == {1, 2, 4}
Values(width) == BYTE^width

\* The numbers of registers; R_AX and R_AL are 0 too, R_DX is R_EDX.
R_EAX == 0
R_ECX == 1
R_EDX == 2
R_ESP == 4
R_EBP == 5
R_AH  == 4

\* The weight of byte k of a word: BYTE^k for k up to 4.
Radix(k) == CASE k = 0 -> 1 [] k = 1 -> BYTE [] k = 2 -> HALF [] k = 3 -> HALF * BYTE
              [] k = 4 -> WORD

\* Byte k of a word, little end first.
ByteOf(x, k) == (x \div Radix(k)) % BYTE
WithByte(x, k, b) == x + (b - ByteOf(x, k)) * Radix(k)

\* reg_l, reg_w, reg_b; byte registers 4..7 are the second bytes of 0..3.
rtl_lr(gpr, r, width) ==
  CASE width = 4 -> gpr[r]
    [] width = 2 -> gpr[r] % HALF
    [] width = 1 -> ByteOf(gpr[r % 4], r \div 4)

\* Faulty: AH..BH are written as if they were the low bytes of ESP..EDI.
rtl_sr_low(gpr, r, x, width) ==
  CASE width = 4 -> [gpr EXCEPT ![r] = x]
    [] width = 2 -> [gpr EXCEPT ![r] = @ - (@ % HALF) + (x % HALF)]
    [] width = 1 -> [gpr EXCEPT ![r] = WithByte(@, 0, x % BYTE)]

rtl_sr(gpr, r, x, width) ==
  CASE width = 4 -> [gpr EXCEPT ![r] = x]
    [] width = 2 -> [gpr EXCEPT ![r] = @ - (@ % HALF) + (x % HALF)]
    [] width = 1 -> [gpr EXCEPT ![r % 4] = WithByte(@, r \div 4, x % BYTE)]

-----------------------------------------------------------------------------
(* c_op.h and rtl-basic.h: unsigned words, signed ones by conversion.      *)

sword(x) == IF x >= WORD \div 2 THEN x - WORD ELSE x

\* C's division truncates; x, y of either sign, y # 0.
Abs(x) == IF x < 0 THEN -x ELSE x
TruncDiv(x, y) ==
  LET q == Abs(x) \div Abs(y) IN IF (x < 0) # (y < 0) THEN -q ELSE q
TruncMod(x, y) == x - TruncDiv(x, y) * y

c_add(a, b)     == (a + b) % WORD
c_or_apart(a, b) == a + b              \* a | b of words with no bit in common
c_shl_bytes(a, k) == (a * Radix(k)) % WORD
c_shr_bytes(a, k) == a \div Radix(k)
c_mul_lo(a, b)  == (a * b) % WORD
c_mul_hi(a, b)  == (a * b) \div WORD
c_imul_lo(a, b) == (sword(a) * sword(b)) % WORD
c_imul_hi(a, b) == ((sword(a) * sword(b)) \div WORD) % WORD
c_div_q(a, b)   == a \div b
c_div_r(a, b)   == a % b
c_idiv_q(a, b)  == TruncDiv(sword(a), sword(b)) % WORD
c_idiv_r(a, b)  == TruncMod(sword(a), sword(b)) % WORD

\* A dividend of two words; the quotient is cut to one.
Two(hi, lo)  == hi * WORD + lo
STwo(hi, lo) == sword(hi) * WORD + lo
div64_q(hi, lo, d)  == (Two(hi, lo) \div d) % WORD
div64_r(hi, lo, d)  == Two(hi, lo) % d
idiv64_q(hi, lo, d) == TruncDiv(STwo(hi, lo), sword(d)) % WORD
idiv64_r(hi, lo, d) == TruncMod(STwo(hi, lo), sword(d)) % WORD
=============================================================================
