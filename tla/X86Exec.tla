------------------------------ MODULE X86Exec -------------------------------
(***************************************************************************)
(* One instruction of x86-NEMU after the other (isa/x86: exec/exec.c,      *)
(* decode.c, local-include/decode.h), on the memory and devices of Bus.    *)
(* The opcode table knows mov in all its encodings, nemu_trap and groups   *)
(* that are still empty: those decode their operands, reading memory, and  *)
(* are then invalid.                                                       *)
(*                                                                         *)
(* An instruction is the sequence of its bytes.  Prefix, opcode, ModR/M    *)
(* and SIB are real bytes, displacements and immediates bytes of BYTE      *)
(* values; instructions are not fetched from the memory stores go to.      *)
(***************************************************************************)
EXTENDS Bus, X86Asm, FiniteSets

CONSTANT Guest   \* what a guest and its user may do: the registers and memory
                 \* it starts with (gpr, pmem), the instructions and accesses it
                 \* is made of (instructions, ins, outs), the keys and
                 \* ticks of the clock that may come, and the bound steps

\* Opcodes that are no mov, no nemu_trap and no prefix.
OtherOpcode ==
  (0..255) \ ({\h0f, \h66, \hd6} \cup \h88..\h8b \cup \ha0..\ha3 \cup \hb0..\hbf
                \cup {\hc6, \hc7})

IsInstruction(a) ==
  \/ a.op = "mov" /\ IsMov(a)
  \/ /\ a.op = "other" /\ (IsReg(a.rm) \/ IsMem(a.rm))
     /\ \/ \E c \in OtherOpcode : a.opcode \in {<<c>>, <<\h66, c>>}
        \/ \E c \in 0..255 : a.opcode = <<\h0f, c>>
  \/ a.op = "trap"

\* The last three bytes of pmem are what lies behind the array.
ASSUME GuestAssumption ==
  \A g \in DOMAIN Guest :
    /\ Guest[g].gpr \in [0..7 -> 0..(WORD - 1)]
    /\ Guest[g].pmem \in [0..(PMEM_SIZE + 2) -> 0..(BYTE - 1)]
    /\ \A a \in Guest[g].instructions : IsInstruction(a)
    /\ \A p \in Guest[g].ins : p.addr \in Nat /\ p.len \in Widths
    /\ \A p \in Guest[g].outs : p.addr \in Nat /\ p.x \in Nat /\ p.len \in Widths
    /\ Guest[g].keys \subseteq 0..(KEYDOWN_MASK - 1)
    /\ Guest[g].steps \in Nat

VARIABLES
  gpr, pc,      \* the CPU
  bus,          \* memory and devices
  state,        \* nemu_state.state
  steps,        \* what happened so far (for the bounds)
  asm,          \* ghost: the instruction executed last
  who           \* which guest runs

vars == <<gpr, pc, bus, state, steps, asm, who>>

-----------------------------------------------------------------------------
(* Decoding.  d is the decoder's state: pos, the next byte of the code;    *)
(* width; maddr, *mbase + moff; dest and src1; the bus the loads go to.    *)

\* instr_fetch of a datum of len bytes; of a real byte.
Fetch(code, pos, len) == Bytes(code, pos, len)

operand_reg(r, width) == [type |-> "reg", reg |-> r, val |-> rtl_lr(gpr, r, width)]
operand_imm(imm)      == [type |-> "imm", val |-> imm]
operand_mem(val)      == [type |-> "mem", val |-> val]

Signed8(x) == IF x >= BYTE \div 2 THEN WORD - BYTE + x ELSE x

ModField(byte) == byte \div 64
RegField(byte) == (byte \div 8) % 8
RmField(byte)  == byte % 8

\* The address a ModR/M byte at pos, not of a register, stands for, and the
\* position after it.  ESP as R/M means a SIB byte, as index none; EBP as base
\* without displacement means a displacement without base.
load_addr(code, pos) ==
  LET mod == ModField(code[pos])
      sib == RmField(code[pos]) = R_ESP
      base == IF sib THEN RmField(code[pos + 1]) ELSE RmField(code[pos])
      index == IF sib THEN RegField(code[pos + 1]) ELSE R_ESP
      noBase == mod = 0 /\ base = R_EBP
      size == CASE mod = 0 -> (IF noBase THEN 4 ELSE 0) [] mod = 1 -> 1 [] mod = 2 -> 4
      at == IF sib THEN pos + 2 ELSE pos + 1
      disp == Fetch(code, at, size)
      mbase == IF noBase THEN 0 ELSE gpr[base]
      indexed == IF index = R_ESP THEN mbase
                 ELSE c_add(mbase, (gpr[index] * 2^ModField(code[pos + 1])) % WORD)
  IN  [maddr |-> c_add(indexed, IF size = 1 THEN Signed8(disp) ELSE disp),
       pos |-> at + size]

\* Operand op in memory, at m.maddr; the load happens while decoding.
Placed(d, op, m) == [d EXCEPT ![op] = operand_mem(0), !.pos = m.pos, !.maddr = m.maddr]
WithLoad(d, op, got) == [d EXCEPT ![op] = operand_mem(got.x), !.bus = got.b]
MemOperand(d, op, m, load) ==
  LET d1 == Placed(d, op, m)
  IN  IF load THEN WithLoad(d1, op, vaddr_read(d.bus, m.maddr, d.width)) ELSE d1

\* The R/M operand becomes field rm of d, loaded if load says so, and the
\* register operand field reg.
read_ModR_M(code, d, rm, load, reg) ==
  LET byte == code[d.pos]
      d1 == [d EXCEPT ![reg] = operand_reg(RegField(byte), d.width)]
  IN  IF ModField(byte) = 3
      THEN [d1 EXCEPT ![rm] = operand_reg(RmField(byte), d.width), !.pos = @ + 1]
      ELSE MemOperand(d1, rm, load_addr(code, d.pos), load)

\* decode_op_I, decode_op_SI, decode_op_a, decode_op_r, decode_op_O
decode_op_I(code, d, op, width) ==
  [d EXCEPT ![op] = operand_imm(Fetch(code, d.pos, width)), !.pos = @ + width]
decode_op_SI(d) == [d EXCEPT !.bus = Die(@)]   \* TODO()
decode_op_a(d, op) == [d EXCEPT ![op] = operand_reg(R_EAX, d.width)]
decode_op_r(d, op) == [d EXCEPT ![op] = operand_reg(d.opcode % 8, d.width)]
decode_op_O(code, d, op, load) ==
  MemOperand(d, op, [maddr |-> Fetch(code, d.pos, 4), pos |-> d.pos + 4], load)

\* operand_rm without a register operand.
OnlyRm(code, d, load) == read_ModR_M(code, d, "dest", load, "none")

decode_mov_G2E(code, d)  == read_ModR_M(code, d, "dest", FALSE, "src1")
decode_mov_E2G(code, d)  == read_ModR_M(code, d, "src1", TRUE, "dest")
decode_I2E(code, d)      == decode_op_I(code, OnlyRm(code, d, TRUE), "src1", d.width)
decode_mov_I2E(code, d)  == decode_op_I(code, OnlyRm(code, d, FALSE), "src1", d.width)
decode_mov_I2r(code, d)  == decode_op_I(code, decode_op_r(d, "dest"), "src1", d.width)
decode_E(code, d)        == OnlyRm(code, d, TRUE)
decode_gp7_E(code, d)    == OnlyRm(code, d, FALSE)
decode_SI2E(code, d)     == decode_op_SI(OnlyRm(code, d, TRUE))
decode_gp2_1_E(code, d)  == [OnlyRm(code, d, TRUE) EXCEPT !.src1 = operand_imm(1)]
decode_gp2_cl2E(code, d) == [OnlyRm(code, d, TRUE) EXCEPT !.src1 = operand_reg(R_ECX, 4)]
decode_gp2_Ib2E(code, d) == decode_op_I(code, OnlyRm(code, d, TRUE), "src1", 1)
decode_O2a(code, d)      == decode_op_a(decode_op_O(code, d, "src1", TRUE), "dest")
decode_a2O(code, d)      == decode_op_O(code, decode_op_a(d, "src1"), "dest", FALSE)

-----------------------------------------------------------------------------
(* Executing.  The result is the CPU and the bus after the instruction,    *)
(* and the state of NEMU.                                                  *)

Result(registers, b, st, len) ==
  [gpr |-> registers, bus |-> b, state |-> st, pc |-> pc + len]

\* exec_mov is one operand_write.
operand_write(d, op, x) ==
  IF op.type = "reg"
  THEN Result(rtl_sr(gpr, op.reg, x, d.width), d.bus, "RUNNING", d.pos - 1)
  ELSE Result(gpr, vaddr_write(d.bus, d.maddr, x, d.width), "RUNNING", d.pos - 1)
exec_mov(d) == operand_write(d, d.dest, d.src1.val)

\* exec_inv fetches eight bytes again from pc, for its message.
exec_inv(d) == Result(gpr, d.bus, "ABORT", 8)

exec_nemu_trap(d) == Result(gpr, d.bus, "END", d.pos - 1)

\* set_width: 0 is 2 after a prefix 0x66 and 4 without.
SetWidth(d, w) == [d EXCEPT !.width = IF w # 0 THEN w ELSE IF d.is16 THEN 2 ELSE 4]

exec_2byte_esc(code, d) ==
  IF code[d.pos] = 1
  THEN exec_inv(decode_gp7_E(code, [SetWidth(d, 0) EXCEPT !.pos = @ + 1]))
  ELSE exec_inv([d EXCEPT !.pos = @ + 1])

\* The table: the opcode has been fetched, d.pos is behind it.  The groups
\* gp1 to gp5 have only EMPTY entries, which are exec_inv.
Dispatch(code, d) ==
  LET op == d.opcode
      d1 == SetWidth(d, 1)
      dv == SetWidth(d, 0)
      \* the even opcode of a pair is of bytes
      dw == IF op % 2 = 0 THEN d1 ELSE dv
  IN  CASE op = \h0f -> exec_2byte_esc(code, dv)
        [] op \in {\h80, \h81} -> exec_inv(decode_I2E(code, dw))
        [] op = \h83 -> exec_inv(decode_SI2E(code, dv))
        [] op \in {\h88, \h89} -> exec_mov(decode_mov_G2E(code, dw))
        [] op \in {\h8a, \h8b} -> exec_mov(decode_mov_E2G(code, dw))
        [] op \in {\ha0, \ha1} -> exec_mov(decode_O2a(code, dw))
        [] op \in {\ha2, \ha3} -> exec_mov(decode_a2O(code, dw))
        [] op \in \hb0..\hb7 -> exec_mov(decode_mov_I2r(code, d1))
        [] op \in \hb8..\hbf -> exec_mov(decode_mov_I2r(code, dv))
        [] op \in {\hc0, \hc1} -> exec_inv(decode_gp2_Ib2E(code, dw))
        [] op \in {\hc6, \hc7} -> exec_mov(decode_mov_I2E(code, dw))
        [] op \in {\hd0, \hd1} -> exec_inv(decode_gp2_1_E(code, dw))
        [] op \in {\hd2, \hd3} -> exec_inv(decode_gp2_cl2E(code, dw))
        [] op = \hd6 -> exec_nemu_trap(dv)
        [] op \in {\hf6, \hf7, \hfe, \hff} -> exec_inv(decode_E(code, dw))
        [] OTHER -> exec_inv(d)

\* fetch_decode_exec: prefixes 0x66 lead back to `again'.
fetch_decode_exec(code) ==
  LET first == CHOOSE k \in 1..Len(code) :
                 code[k] # \h66 /\ \A j \in 1..(k - 1) : code[j] = \h66
      blank == [type |-> "none", val |-> 0]
  IN  Dispatch(code, [pos |-> first + 1, opcode |-> code[first], is16 |-> first > 1,
                      width |-> 0, maddr |-> 0, bus |-> bus,
                      dest |-> blank, src1 |-> blank, none |-> blank])

-----------------------------------------------------------------------------
guest == Guest[who]
Running == state = "RUNNING" /\ steps < guest.steps

Becomes(b) ==
  /\ bus' = b
  /\ steps' = steps + 1
  /\ UNCHANGED who

\* A failed assertion ends NEMU.
Executed(r) ==
  /\ Becomes(r.bus)
  /\ IF r.bus.dead
     THEN state' = "dead" /\ UNCHANGED <<gpr, pc>>
     ELSE state' = r.state /\ gpr' = r.gpr /\ pc' = r.pc % WORD

isa_exec_once(a, code) ==
  /\ asm' = [of |-> a, len |-> Len(code)]
  /\ Executed(fetch_decode_exec(code))

\* What is not an instruction of the table above.
Aside(a, b) ==
  /\ Becomes(b)
  /\ asm' = [of |-> a, len |-> 0]
  /\ state' = IF b.dead THEN "dead" ELSE state
  /\ UNCHANGED <<gpr, pc>>

\* The interface of the instructions in and out, which are TODOs themselves.
pio_read(addr, len) ==
  Aside([op |-> "pio", addr |-> addr], pio_read_common(bus, addr, len).b)
pio_write(addr, x, len) ==
  Aside([op |-> "pio", addr |-> addr], pio_write_common(bus, addr, x, len))

\* device_update delivers an event of the keyboard.
key_event(key, is_keydown) == Aside([op |-> "key"], send_key(bus, key, is_keydown))

\* The host's clock.
tick == Aside([op |-> "tick"], [bus EXCEPT !.now = @ + 1])

Init ==
  /\ who \in DOMAIN Guest
  /\ gpr = guest.gpr
  /\ pc = 0
  /\ bus = BusInit(guest.pmem)
  /\ state = "RUNNING"
  /\ steps = 0
  /\ asm = [of |-> [op |-> "none"], len |-> 0]

\* A mov in any of its encodings; an instruction that is invalid after its
\* operand (one of the groups) or at once; a nemu_trap.
Codes(a) ==
  CASE a.op = "mov" -> Encodings(a)
    [] a.op = "other" -> {a.opcode \o rm \o Low(0, 4) : rm \in RmEncodings(a.rm, 7)}
    [] a.op = "trap" -> {<<\hd6>>}

Step ==
  \/ \E a \in guest.instructions : \E code \in Codes(a) : isa_exec_once(a, code)
  \/ \E p \in guest.ins : pio_read(p.addr, p.len)
  \/ \E p \in guest.outs : pio_write(p.addr, p.x, p.len)
  \/ \E k \in guest.keys, down \in BOOLEAN : key_event(k, down)
  \/ guest.ticks /\ tick

\* While the program runs (cpu_exec), up to the bound.
Next == Running /\ Step

Spec == Init /\ [][Next]_vars
-----------------------------------------------------------------------------
Stepped(op) == steps' # steps /\ asm'.of.op = op

Mem(o) == o.k = "mem"

\* What the manual says a mov leaves: exactly the bytes of its destination
\* change, to the bytes of its source, and pc moves past it.
MovMeans(m) ==
  LET got == IF Mem(m.src) THEN paddr_read(bus, Address(m.src, gpr), m.w)
             ELSE Got(bus, IF m.src.k = "imm" THEN m.src.v ELSE 0)
      SrcByte(i) ==
        IF m.src.k = "reg"
        THEN LET b == RegByte(m.src.r, m.w, i) IN ByteOf(gpr[b[1]], b[2])
        ELSE ByteOf(got.x, i)
      value == Bytes([i \in 0..3 |-> IF i < m.w THEN SrcByte(i) ELSE 0], 0, 4)
      after == IF Mem(m.dst) THEN paddr_write(got.b, Address(m.dst, gpr), value, m.w)
               ELSE got.b
  IN  /\ bus' = after
      /\ state' = IF after.dead THEN "dead" ELSE "RUNNING"
      /\ ~after.dead =>
           /\ pc' = (pc + asm'.len) % WORD
           /\ \A r \in 0..7, k \in 0..3 :
                ByteOf(gpr'[r], k) =
                  IF m.dst.k = "reg" /\ \E i \in 0..(m.w - 1) : RegByte(m.dst.r, m.w, i) = <<r, k>>
                  THEN SrcByte(CHOOSE i \in 0..(m.w - 1) : RegByte(m.dst.r, m.w, i) = <<r, k>>)
                  ELSE ByteOf(gpr[r], k)

\* Whatever encoding of a mov the guest holds (short or long form, 0x66, every
\* ModR/M and SIB shape, a displacement of one byte or four), the emulator does
\* what the manual says a mov does: the overlapping registers AL, AH, AX, EAX
\* change by their own bytes only, addresses wrap, no byte of the instruction
\* is left over or read twice.  Other instructions change no register.
ExecExact ==
  [][/\ Stepped("mov") => MovMeans(asm'.of)
     /\ Stepped("trap") => state' = "END" /\ gpr' = gpr /\ bus' = bus
     /\ Stepped("other") => state' \in {"ABORT", "dead"} /\ gpr' = gpr]_vars

\* The addresses a step uses on the memory bus and on the port bus.
Used ==
  CASE asm'.of.op = "mov" ->
         {Address(o, gpr) : o \in {p \in {asm'.of.dst, asm'.of.src} : Mem(p)}}
    [] asm'.of.op = "other" -> IF Mem(asm'.of.rm) THEN {Address(asm'.of.rm, gpr)} ELSE {}
    [] OTHER -> {}

Registers(io, i) ==
  LET at == Space[i] IN [k \in 0..(Devices[i].len - 1) |-> io[at + k]]

\* An access is assigned to a device by its first byte, and may run over the
\* end of the registers: it never changes the registers of another device, nor
\* does an access to memory change a device's, because a space is padded to
\* pages and what follows the one space without padding is not in use.
DevicesApart ==
  [][\A i \in {d \in 1..Len(Devices) : Registers(bus'.io, d) # Registers(bus.io, d)} :
       \/ \E a \in Used : InMap(a, Devices[i].mmio, Devices[i].len)
       \/ /\ asm'.of.op = "pio" /\ Devices[i].port # -1
          /\ InMap(asm'.of.addr, Devices[i].port, Devices[i].len)]_bus

Keyboard == SelectInSeq(Devices, LAMBDA d : d.name = "keyboard")
Ring ==
  [i \in 1..((bus.key_r - bus.key_f) % KEY_QUEUE_LEN) |->
     bus.key_queue[(bus.key_f + i - 1) % KEY_QUEUE_LEN]]

KQ == INSTANCE KeyQueue WITH
        q <- IF bus.dead THEN <<>> ELSE Ring,
        data <- IF bus.dead THEN KEY_NONE ELSE Bytes(bus.io, Space[Keyboard], 4),
        alive <- ~bus.dead,
        Code <- 1..(HALF - 1), NoKey <- KEY_NONE

\* The ring and the data register implement a queue of keys, through both
\* buses and loads of any width: no key is lost, doubled or overtaken when the
\* ring wraps, a full ring ends NEMU before it drops a key, and the register
\* shows the key taken last whatever else the guest stores elsewhere.
KeysInOrder == KQ!Spec
=============================================================================
