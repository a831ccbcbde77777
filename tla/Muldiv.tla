------------------------------- MODULE Muldiv -------------------------------
(***************************************************************************)
(* The multiplications and divisions of x86-NEMU (exec/arith.h) and those  *)
(* of klib (Int64), one call at a time, each checked against arithmetic.   *)
(*                                                                         *)
(* A helper of arith.h works on the register file through scratch          *)
(* registers and through ddest, which for a 32-bit register operand is the *)
(* register itself and not a copy: writing EAX or EDX may change the       *)
(* operand half way.  The opcode table does not name these helpers yet.    *)
(* rtl_sext, which imul2 and imul3 begin with, is a TODO: they abort.      *)
(***************************************************************************)
EXTENDS Rtl, Int64

CONSTANTS
  Word64,   \* operands of klib's division
  Word32,   \* operands of clz and ctz, of WIDTH bits
  WIDTH,
  Gpr,      \* contents of EAX and EDX
  Rm        \* contents of the operand, when it is neither

VARIABLES
  call,     \* the operands of the call
  fn,       \* the function called, when it has returned
  res       \* what it returned, or the registers it leaves

vars == <<call, fn, res>>

\* *ddest of the operand o (of the width w) when the registers hold g.
ddest(g, o, w) == IF w = 4 /\ o.type = "reg" THEN g[o.reg] ELSE o.val

exec_mul(g, o, w) ==
  LET s0 == rtl_lr(g, R_EAX, w)
      s1 == c_mul_lo(ddest(g, o, w), s0)
  IN  CASE w = 1 -> rtl_sr(g, R_EAX, s1, 2)
        [] w = 2 -> rtl_sr(rtl_sr(g, R_EAX, s1, 2), R_EDX, c_shr_bytes(s1, 2), 2)
        [] w = 4 -> rtl_sr(rtl_sr(g, R_EDX, c_mul_hi(ddest(g, o, w), s0), 4),
                           R_EAX, s1, 4)

\* Faulty: an operand in EDX is not saved before EDX is written.
exec_imul1_alias(g, o, w) ==
  LET s1 == c_imul_lo(ddest(g, o, w), rtl_lr(g, R_EAX, w))
      g1 == [g EXCEPT ![R_EDX] = c_imul_hi(ddest(g, o, w), g[R_EAX])]
  IN  CASE w = 1 -> rtl_sr(g, R_EAX, s1, 2)
        [] w = 2 -> rtl_sr(rtl_sr(g, R_EAX, s1, 2), R_EDX, c_shr_bytes(s1, 2), 2)
        [] w = 4 -> [g1 EXCEPT ![R_EAX] = c_imul_lo(ddest(g1, o, w), g1[R_EAX])]

exec_imul1(g, o, w) ==
  LET s1 == c_imul_lo(ddest(g, o, w), rtl_lr(g, R_EAX, w))
      inEDX == o.type = "reg" /\ o.reg = R_EDX
      pdest(h) == IF inEDX THEN g[R_EDX] ELSE ddest(h, o, w)
      g1 == [g EXCEPT ![R_EDX] = c_imul_hi(pdest(g), g[R_EAX])]
  IN  CASE w = 1 -> rtl_sr(g, R_EAX, s1, 2)
        [] w = 2 -> rtl_sr(rtl_sr(g, R_EAX, s1, 2), R_EDX, c_shr_bytes(s1, 2), 2)
        [] w = 4 -> [g1 EXCEPT ![R_EAX] = c_imul_lo(pdest(g1), g1[R_EAX])]

\* DX:AX as one word.
DxAx(g) == c_or_apart(rtl_lr(g, R_EAX, 2), c_shl_bytes(rtl_lr(g, R_EDX, 2), 2))

\* The last case of div and idiv.
Div64(g, o, signed) ==
  LET q(hi, lo, d) == IF signed THEN idiv64_q(hi, lo, d) ELSE div64_q(hi, lo, d)
      r(hi, lo, d) == IF signed THEN idiv64_r(hi, lo, d) ELSE div64_r(hi, lo, d)
      s0 == g[R_EAX]
      inEAX == o.type = "reg" /\ o.reg = R_EAX
      pdest(h) == IF inEAX THEN s0 ELSE ddest(h, o, 4)
      g1 == [g EXCEPT ![R_EAX] = q(g[R_EDX], s0, pdest(g))]
  IN  [g1 EXCEPT ![R_EDX] = r(g1[R_EDX], s0, pdest(g1))]

\* Dividing by zero ends NEMU with a signal.
exec_div(g, o, w) ==
  LET d == ddest(g, o, w)
      ax == rtl_lr(g, R_EAX, 2)
  IN  CASE d = 0 -> Trap
        [] d # 0 /\ w = 1 ->
             rtl_sr(rtl_sr(g, R_EAX, c_div_q(ax, d), 1), R_AH, c_div_r(ax, d), 1)
        [] d # 0 /\ w = 2 ->
             rtl_sr(rtl_sr(g, R_EAX, c_div_q(DxAx(g), d), 2), R_EDX, c_div_r(DxAx(g), d), 2)
        [] d # 0 /\ w = 4 -> Div64(g, o, FALSE)

\* So does the quotient of the least int64 and -1.
exec_idiv(g, o, w) ==
  LET d == ddest(g, o, w)
      ax == rtl_lr(g, R_EAX, 2)
  IN  CASE \/ d = 0
           \/ w = 4 /\ sword(d) = -1 /\ g[R_EDX] = WORD \div 2 /\ g[R_EAX] = 0 -> Trap
        [] d # 0 /\ w = 1 ->
             rtl_sr(rtl_sr(g, R_EAX, c_idiv_q(ax, d), 1), R_AH, c_idiv_r(ax, d), 1)
        [] d # 0 /\ w = 2 ->
             rtl_sr(rtl_sr(g, R_EAX, c_idiv_q(DxAx(g), d), 2), R_EDX, c_idiv_r(DxAx(g), d), 2)
        [] OTHER -> Div64(g, o, TRUE)

-----------------------------------------------------------------------------
(* A call: its operands in the initial state, one action per function.     *)

None == "none"

\* The operand is a register or, r = 8, a value read_ModR_M loaded from memory.
Init ==
  /\ fn = None /\ res = 0
  /\ \/ \E a \in Word64, b \in Word64 : call = [of |-> "div64", a |-> a, b |-> b]
     \/ \E x \in Word32 : call = [of |-> "bits", x |-> x]
     \/ \E ax \in Gpr, dx \in Gpr, v \in Rm, w \in Widths, r \in {0, 1, 2, 4, 6, 8} :
          LET g == [k \in 0..7 |-> CASE k = R_EAX -> ax [] k = R_EDX -> dx [] OTHER -> v]
              o == IF r = 8 THEN [type |-> "mem", val |-> v % Values(w)]
                            ELSE [type |-> "reg", reg |-> r, val |-> rtl_lr(g, r, w)]
          IN  call = [of |-> "muldiv", g |-> g, o |-> o, w |-> w]

Return(f, x) ==
  /\ fn = None
  /\ fn' = f
  /\ res' = x
  /\ UNCHANGED call

CallDiv64(f, Op(_, _)) == call.of = "div64" /\ Return(f, Op(call.a, call.b))
CallBits(f, Op(_, _))  == call.of = "bits" /\ Return(f, Op(call.x, WIDTH))
CallExec(f, Op(_, _, _)) == call.of = "muldiv" /\ Return(f, Op(call.g, call.o, call.w))

Next ==
  \/ CallDiv64("udivmoddi4", udivmoddi4)
  \/ CallDiv64("udivdi3", udivdi3)
  \/ CallDiv64("umoddi3", umoddi3)
  \/ CallDiv64("divdi3", divdi3)
  \/ CallDiv64("moddi3", moddi3)
  \/ CallDiv64("divmoddi4", divmoddi4)
  \/ CallBits("clzsi2", clzsi2)
  \/ CallBits("ctzsi2", ctzsi2)
  \/ CallExec("mul", exec_mul)
  \/ CallExec("imul1", exec_imul1)
  \/ CallExec("div", exec_div)
  \/ CallExec("idiv", exec_idiv)

Spec == Init /\ [][Next]_vars

-----------------------------------------------------------------------------
Signed(x, values) == IF x >= values \div 2 THEN x - values ELSE x

\* Division as klib promises it (the comments "Returns: a / b", "a % b", "the
\* number of leading 0-bits"): whichever of the special cases, the shifts by a
\* whole half or the branch-free loop computes them, quotient and remainder are
\* those of C, for unsigned and signed dwords up to the largest and the least.
KlibExact ==
  fn # None =>
  /\ call.of = "div64" /\ call.b # 0 =>
       LET sa == Signed(call.a, DW)
           sb == Signed(call.b, DW)
           unsigned == QR(call.a \div call.b, call.a % call.b)
           signed == QR(TruncDiv(sa, sb) % DW, TruncMod(sa, sb) % DW)
       IN  res = CASE fn = "udivmoddi4" -> unsigned
                     [] fn = "udivdi3"    -> unsigned.q
                     [] fn = "umoddi3"    -> unsigned.r
                     [] fn = "divmoddi4"  -> signed
                     [] fn = "divdi3"     -> signed.q
                     [] fn = "moddi3"     -> signed.r
  /\ call.of = "bits" /\ call.x # 0 =>
       CASE fn = "clzsi2" -> call.x \div 2^(WIDTH - 1 - res) = 1
         [] fn = "ctzsi2" -> (call.x \div 2^res) % 2 = 1 /\ call.x % 2^res = 0

\* AX, DX:AX or EDX:EAX, the register pair of a double-width operand.
Wide(g, w) ==
  IF w = 1 THEN rtl_lr(g, R_EAX, 2)
  ELSE rtl_lr(g, R_EDX, w) * Values(w) + rtl_lr(g, R_EAX, w)

\* What is outside that pair.
Rest(g, w) ==
  [k \in 0..7 |-> IF k = R_EAX \/ (k = R_EDX /\ w > 1)
                  THEN IF w = 4 THEN 0 ELSE g[k] \div HALF
                  ELSE g[k]]

\* mul, imul, div and idiv leave in AX, DX:AX or EDX:EAX what the instruction
\* manual asks for, whichever register or memory operand they are given, and
\* nothing else changes: no write to EAX, EDX, AH or AL comes before the last
\* use of what it overwrites.  A quotient that does not fit (a fault on the
\* machine) is not judged; and the 8- and 16-bit forms of imul and idiv are
\* judged on nonnegative operands only: they are given zero-extended operands.
MulDivExact ==
  fn # None /\ call.of = "muldiv" =>
  LET g == call.g
      w == call.w
      v == call.o.val
      acc == rtl_lr(g, R_EAX, w)
      sv == Signed(v, Values(w))
      sacc == Signed(acc, Values(w))
      swide == Signed(Wide(g, w), Values(2 * w))
      Holds(wide) ==
        /\ res # Trap
        /\ Wide(res, w) = wide % Values(2 * w)
        /\ Rest(res, w) = Rest(g, w)
      \* remainder in the upper half, quotient in the lower
      HoldsQR(q, r) == Holds((r % Values(w)) * Values(w) + (q % Values(w)))
  IN  CASE fn = "mul" -> Holds(acc * v)
        [] fn = "imul1" -> (w = 4 \/ (sv >= 0 /\ sacc >= 0)) => Holds(sacc * sv)
        [] fn = "div" ->
             v # 0 /\ Wide(g, w) \div v < Values(w) =>
               HoldsQR(Wide(g, w) \div v, Wide(g, w) % v)
        [] fn = "idiv" ->
             /\ v # 0
             /\ w = 4 \/ (sv >= 0 /\ swide >= 0)
             /\ LET q == TruncDiv(swide, sv)
                IN  -(Values(w) \div 2) <= q /\ q < Values(w) \div 2
             => HoldsQR(TruncDiv(swide, sv), TruncMod(swide, sv))
=============================================================================
