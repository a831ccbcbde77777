-------------------------------- MODULE Int64 -------------------------------
(***************************************************************************)
(* The 64-bit division that klib links into 32-bit guests (klib int64.c,   *)
(* from compiler-rt), as pure operators.  The code has no 64-bit divide    *)
(* instruction: it works on the two halves of a dword.  N is the width of  *)
(* a half, 32 in the code; a dword is an integer below 2^(2N), a signed    *)
(* one is its two's complement.                                            *)
(***************************************************************************)
EXTENDS Integers, Bitwise

CONSTANT N   \* bits of su_int

ASSUME Int64Assumption == N \in {2^k : k \in 2..4}

W  == 2^N
DW == W * W

\* Dividing by zero: the divide instruction of the machine is asked to.
Trap == <<>>

\* The unions dwords and udwords.
High(x) == x \div W
Low(x)  == x % W
All(high, low) == high * W + low

\* Shifts of a half, by less than N; subtraction of unsigned.
Shl(x, k) == (x * 2^k) % W
Shr(x, k) == x \div 2^k
USub(x, y) == (x - y) % W

RECURSIVE ClzFrom(_, _, _)
ClzFrom(x, half, r) ==
  IF half = 1
  THEN r + (IF x < 2 THEN 2 - x ELSE 0)
  ELSE LET t == IF Shr(x, half) = 0 THEN half ELSE 0
       IN  ClzFrom(Shr(x, half - t), half \div 2, r + t)

\* Leading zeros of a number of the given width, a power of two: the mask is
\* halved until two bits are left.
clzsi2(x, bits) == ClzFrom(x, bits \div 2, 0)

RECURSIVE CtzFrom(_, _, _)
CtzFrom(x, half, r) ==
  IF half = 1
  THEN r + (IF x % 2 = 0 THEN 2 - (x % 4) \div 2 ELSE 0)
  ELSE LET t == IF x % 2^half = 0 THEN half ELSE 0
       IN  CtzFrom(Shr(x, t), half \div 2, r + t)

\* Trailing zeros.
ctzsi2(x, bits) == CtzFrom(x, bits \div 2, 0)

Pow2(x) == (x & (x - 1)) = 0

QR(quotient, remainder) == [q |-> quotient, r |-> remainder]

\* q = n << (2N - sr) and r = n >> sr, put together from the halves of n.
Split(n, sr) ==
  IF sr = N
  THEN QR(All(Low(n), 0), High(n))
  ELSE IF sr < N
  THEN QR(All(Shl(Low(n), N - sr), 0),
          All(Shr(High(n), sr), Shl(High(n), N - sr) | Shr(Low(n), sr)))
  ELSE QR(All(Shl(High(n), 2*N - sr) | Shr(Low(n), sr - N), Shl(Low(n), 2*N - sr)),
          Shr(High(n), sr - N))

\* One turn of the loop: r:q moves up a bit, d is taken off r if it fits,
\* which the sign of d - r - 1 tells without a branch.
DivStep(x, d) ==
  LET r == ((2 * x.r) % DW) + x.q \div (DW \div 2)
      s == (d - r - 1) % DW >= DW \div 2
  IN  [q |-> ((2 * x.q) % DW) + x.carry,
       r |-> IF s THEN (r - d) % DW ELSE r,
       carry |-> IF s THEN 1 ELSE 0]

\* sr turns of the loop, then the last quotient bit.
DivLoop(n, d, sr) ==
  LET turn[k \in 0..sr] ==
        IF k = 0
        THEN [q |-> Split(n, sr).q, r |-> Split(n, sr).r, carry |-> 0]
        ELSE DivStep(turn[k - 1], d)
      last == turn[sr]
  IN  QR(((2 * last.q) % DW) + last.carry, last.r)

\* A divisor whose lower half is zero.
DivByHigh(n, d) ==
  LET sr == USub(clzsi2(High(d), N), clzsi2(High(n), N))
  IN  CASE High(d) = 0 -> Trap
        [] High(d) # 0 /\ Low(n) = 0 ->
             QR(High(n) \div High(d), All(High(n) % High(d), 0))
        [] High(d) # 0 /\ Low(n) # 0 /\ Pow2(High(d)) ->
             QR(Shr(High(n), ctzsi2(High(d), N)),
                All(High(n) & (High(d) - 1), Low(n)))
        [] OTHER -> IF sr > N - 2 THEN QR(0, n) ELSE DivLoop(n, d, sr + 1)

\* A divisor of one half.
DivByLow(n, d) ==
  LET sr == ctzsi2(d, N)
  IN  IF Pow2(d)
      THEN QR(IF d = 1 THEN n
              ELSE All(Shr(High(n), sr), Shl(High(n), N - sr) | Shr(Low(n), sr)),
              Low(n) & (d - 1))
      ELSE DivLoop(n, d, 1 + N + clzsi2(d, N) - clzsi2(High(n), N))

\* Faulty: the bound of the other case, which is one less.
DivByBoth_bound(n, d) ==
  LET sr == USub(clzsi2(High(d), N), clzsi2(High(n), N))
  IN  IF sr > N - 2 THEN QR(0, n) ELSE DivLoop(n, d, sr + 1)

\* A divisor both of whose halves are in use.
DivByBoth(n, d) ==
  LET sr == USub(clzsi2(High(d), N), clzsi2(High(n), N))
  IN  IF sr > N - 1 THEN QR(0, n) ELSE DivLoop(n, d, sr + 1)

udivmoddi4(n, d) ==
  CASE High(n) = 0 /\ High(d) = 0 ->
         IF d = 0 THEN Trap ELSE QR(Low(n) \div Low(d), Low(n) % Low(d))
    [] High(n) = 0 /\ High(d) # 0 -> QR(0, Low(n))
    [] High(n) # 0 /\ Low(d) = 0 -> DivByHigh(n, d)
    [] High(n) # 0 /\ Low(d) # 0 /\ High(d) = 0 -> DivByLow(n, d)
    [] OTHER -> DivByBoth(n, d)

udivdi3(a, b) == IF b = 0 THEN Trap ELSE udivmoddi4(a, b).q
umoddi3(a, b) == IF b = 0 THEN Trap ELSE udivmoddi4(a, b).r

\* x >> 63 is -1 for a negative dword; (x ^ s) - s negates x if s is -1.
Negative(x) == x >= DW \div 2
NegateIf(s, x) == IF s THEN (-x) % DW ELSE x

divdi3(a, b) ==
  IF b = 0 THEN Trap
  ELSE NegateIf(Negative(a) # Negative(b),
                udivmoddi4(NegateIf(Negative(a), a), NegateIf(Negative(b), b)).q)

\* The remainder has the sign of the dividend.
moddi3(a, b) ==
  IF b = 0 THEN Trap
  ELSE NegateIf(Negative(a),
                udivmoddi4(NegateIf(Negative(a), a), NegateIf(Negative(b), b)).r)

divmoddi4(a, b) ==
  IF b = 0 THEN Trap
  ELSE QR(divdi3(a, b), (a - divdi3(a, b) * b) % DW)
=============================================================================
