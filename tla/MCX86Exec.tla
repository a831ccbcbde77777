----------------------------- MODULE MCX86Exec ------------------------------
(***************************************************************************)
(* Bytes of two bits, so addresses of eight: memory at 0, the devices of   *)
(* init_device above it, with their real sizes but for the screen's memory *)
(* and the stream buffer; the last is a whole page, as in the code.        *)
(* Two guests execute one instruction of every shape, on two sets of       *)
(* registers; one uses the devices for longer.                             *)
(***************************************************************************)
EXTENDS X86Exec

Dev(name, port, mmio, len) == [name |-> name, port |-> port, mmio |-> mmio, len |-> len]
MCDevices ==
  << Dev("serial", 64, 192, 8), Dev("rtc", 8, 136, 8), Dev("screen", 24, 152, 8),
     Dev("vmem", -1, 64, 20), Dev("keyboard", 16, 144, 4), Dev("audio", 32, 160, 24),
     Dev("sbuf", -1, 96, 32) >>

MCPmem == [k \in 0..(PMEM_SIZE + 2) |-> (3 * k + 1) % BYTE]
\* EAX .. EDI: all bytes of a register differ from those of its neighbours.
Regs(s) == [r \in 0..7 |-> s[r + 1]]

R(r) == [k |-> "reg", r |-> r]
I(v) == [k |-> "imm", v |-> v]
M(base, index, ss, disp) ==
  [k |-> "mem", base |-> base, index |-> index, ss |-> ss, disp |-> disp]
Mov(w, dst, src) == [op |-> "mov", w |-> w, dst |-> dst, src |-> src]

\* Every shape of address, all within memory for the registers above.
Addresses ==
  {M(None, None, 0, 2), M(1, None, 0, 0), M(5, None, 0, 4), M(5, None, 0, 1),
   M(4, None, 0, -2), M(1, 6, 1, 1), M(None, 3, 3, 0), M(5, 3, 2, 9),
   M(3, 1, 1, -1), M(4, 6, 0, 0), M(None, 7, 2, 200)}

Movs ==
  {Mov(w, R(r), I(v)) : w \in Widths, r \in 0..7, v \in {2}}
    \cup {Mov(w, R(r), R(q)) : w \in Widths, r \in 0..7, q \in 0..7}
    \cup {Mov(w, R(r), a) : w \in Widths, r \in 0..7, a \in Addresses}
    \cup {Mov(w, a, R(r)) : w \in Widths, r \in 0..7, a \in Addresses}
    \cup {Mov(w, a, I(3)) : w \in Widths, a \in Addresses}

At(addr) == M(None, None, 0, addr)

\* At, before and over the edges of the devices' registers.
DeviceMovs ==
  {Mov(4, R(0), At(144)), Mov(1, R(0), At(144)), Mov(2, R(0), At(145)),
   Mov(4, At(144), I(1)), Mov(4, R(0), At(140)),
   Mov(1, At(192), I(2)), Mov(4, At(159), I(255)), Mov(4, At(83), I(255)),
   Mov(4, At(183), I(255)), Mov(4, At(127), I(255)), Mov(2, R(3), At(250)),
   Mov(4, At(15), I(255))}

Groups ==
  {[op |-> "other", opcode |-> c, rm |-> o] :
     c \in {<<\h80>>, <<\h81>>, <<\h83>>, <<\hc1>>, <<\hd0>>, <<\hd3>>, <<\hf6>>,
            <<\h66, \hff>>, <<\h0f, \h01>>, <<\h0f, \h02>>, <<\h90>>},
     o \in {R(3), At(144)}}

OneMov(regs) ==
  [gpr |-> Regs(regs), pmem |-> MCPmem, instructions |-> Movs \cup Groups,
   ins |-> {}, outs |-> {}, keys |-> {}, ticks |-> FALSE, steps |-> 1]

User(movs, ins, outs, keys, ticks, bound) ==
  [gpr |-> [r \in 0..7 |-> r], pmem |-> MCPmem, instructions |-> movs \cup {[op |-> "trap"]},
   ins |-> ins, outs |-> outs, keys |-> keys, ticks |-> ticks, steps |-> bound]

MCGuest ==
  [mov1 |-> OneMov(<<27, 4, 228, 1, 8, 255, 3, 78>>),
   mov2 |-> OneMov(<<0, 254, 130, 5, 2, 14, 1, 60>>),
   devices |->
     User(DeviceMovs, {[addr |-> a, len |-> l] : a \in {16, 8}, l \in {1, 4}},
          {[addr |-> a, x |-> 255, len |-> l] : a \in {31, 64}, l \in {1, 4}},
          {KEY_NONE, 1}, TRUE, 3),
   typist |->
     User({Mov(1, R(0), At(144))}, {[addr |-> 16, len |-> 4]}, {}, {1, 5}, FALSE, 6)]
=============================================================================
