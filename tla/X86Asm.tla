------------------------------- MODULE X86Asm -------------------------------
(***************************************************************************)
(* mov as the i386 manual has it, against which X86Exec is checked: the    *)
(* encodings of a mov, and which bytes of the registers an operand is.     *)
(* Nothing here is taken from the emulator.                                *)
(*                                                                         *)
(* A mov is a record of its width w and the operands dst and src, each     *)
(* [k |-> "reg", r], [k |-> "imm", v] or [k |-> "mem", base, index, ss,    *)
(* disp], where base and index may be None.                                *)
(***************************************************************************)
EXTENDS Rtl, Sequences

None == -1

\* The operands and movs there are; ESP is no index.
IsReg(o) == o.k = "reg" /\ o.r \in 0..7
IsImm(o) == o.k = "imm" /\ o.v \in Int
IsMem(o) ==
  /\ o.k = "mem" /\ o.ss \in 0..3 /\ o.disp \in Int
  /\ o.base \in (0..7) \cup {None} /\ o.index \in ((0..7) \ {R_ESP}) \cup {None}
IsMov(m) ==
  /\ m.w \in Widths
  /\ \/ IsReg(m.dst) /\ (IsReg(m.src) \/ IsImm(m.src) \/ IsMem(m.src))
     \/ IsMem(m.dst) /\ (IsReg(m.src) \/ IsImm(m.src))

Low(x, len) == [i \in 1..len |-> ByteOf(x % WORD, i - 1)]
Fields(top, mid, low) == top * 64 + mid * 8 + low

\* The displacements a base may have, with the mod field that announces them.
Disps(base, disp) ==
  (IF disp = 0 /\ base # R_EBP THEN {<<0, 0>>} ELSE {})
    \cup (IF -(BYTE \div 2) <= disp /\ disp < BYTE \div 2 THEN {<<1, 1>>} ELSE {})
    \cup {<<2, 4>>}

\* ModR/M, SIB and displacement of an operand, beside a register field reg.
RmEncodings(o, reg) ==
  IF o.k = "reg" THEN {<<Fields(3, reg, o.r)>>}
  ELSE LET index == IF o.index = None THEN R_ESP ELSE o.index
       IN  IF o.base = None
           THEN {<<Fields(0, reg, R_ESP), Fields(o.ss, index, R_EBP)>> \o Low(o.disp, 4)}
                  \cup (IF o.index = None THEN {<<Fields(0, reg, R_EBP)>> \o Low(o.disp, 4)}
                                          ELSE {})
           ELSE {<<Fields(d[1], reg, R_ESP), Fields(o.ss, index, o.base)>> \o Low(o.disp, d[2]) :
                   d \in Disps(o.base, o.disp)}
                  \cup (IF o.index = None /\ o.base # R_ESP
                        THEN {<<Fields(d[1], reg, o.base)>> \o Low(o.disp, d[2]) :
                                d \in Disps(o.base, o.disp)}
                        ELSE {})

Absolute(o) == o.k = "mem" /\ o.base = None /\ o.index = None
Accumulator(o) == o.k = "reg" /\ o.r = R_EAX

Encodings(mov) ==
  LET wide == IF mov.w = 1 THEN 0 ELSE 1
      op(base) == <<base + wide>>
      long ==
        (IF mov.src.k = "reg"
         THEN {op(\h88) \o m : m \in RmEncodings(mov.dst, mov.src.r)} ELSE {})
        \cup (IF mov.dst.k = "reg" /\ mov.src.k # "imm"
              THEN {op(\h8a) \o m : m \in RmEncodings(mov.src, mov.dst.r)} ELSE {})
        \cup (IF mov.src.k = "imm"
              THEN {op(\hc6) \o m \o Low(mov.src.v, mov.w) : m \in RmEncodings(mov.dst, 0)}
              ELSE {})
      short ==
        (IF mov.src.k = "imm" /\ mov.dst.k = "reg"
         THEN {<<\hb0 + 8 * wide + mov.dst.r>> \o Low(mov.src.v, mov.w)} ELSE {})
        \cup (IF Accumulator(mov.dst) /\ Absolute(mov.src)
              THEN {op(\ha0) \o Low(mov.src.disp, 4)} ELSE {})
        \cup (IF Accumulator(mov.src) /\ Absolute(mov.dst)
              THEN {op(\ha2) \o Low(mov.dst.disp, 4)} ELSE {})
  IN  {(IF mov.w = 2 THEN <<\h66>> ELSE <<>>) \o c : c \in long \cup short}

Address(o, regs) ==
  ((IF o.base = None THEN 0 ELSE regs[o.base])
     + (IF o.index = None THEN 0 ELSE regs[o.index] * 2^o.ss) + o.disp) % WORD

\* The byte of the register file, <<register, byte>>, that byte i of the
\* register r of width w is.
RegByte(r, w, i) == IF w = 1 THEN <<r % 4, r \div 4>> ELSE <<r, i>>
=============================================================================
