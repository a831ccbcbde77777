------------------------------ MODULE GuestCpu ------------------------------
(***************************************************************************)
(* The processor that NEMU and its references QEMU and KVM all implement:  *)
(* a few instructions, each standing for those that difftest treats alike. *)
(* Instructions are bytes in memory, with the opcodes of x86.  This is     *)
(* outside src/ but for what dut.c, system.h and kvm.c say of it.          *)
(*                                                                         *)
(* A machine is a record of its registers acc, esp, pc and cs, its trap    *)
(* flag tf, and its memories: code (mem) and stack (st, by depth).         *)
(***************************************************************************)
EXTENDS Integers, Sequences

CONSTANTS
  PMEM_BASE, IMAGE_START,   \* where the image lies: offset in pmem, and its base
  HANDLER,                  \* offset of the interrupt handler in pmem
  MEMORY,                   \* addresses of the reference's memory
  STACK                     \* the depth of the stack

INC    == \h40
POPR   == \h58
PUSHDS == \h1e
PUSHF  == \h9c
POPF   == \h9d
PUSHD  == \hff     \* push of a device register
DEV    == \ha1
INT    == \hcd
IRET   == \hcf
TRAP   == \hd6
CLI    == \hfa
LJMP   == \hea
SPIN   == \heb

ENTRY == PMEM_BASE + HANDLER
CODE_SEGMENT == 8     \* cs in protected mode
UPPER == 64           \* such an upper half is a multiple of this

\* What a guest finds in the flags it pushed when the processor steps.
TF == 1

Push(m, x) == [m EXCEPT !.esp = @ + 1, !.st[m.esp + 1] = x]
Top(m, k) == m.st[m.esp - k]
Next1(m) == [m EXCEPT !.pc = @ + 1]

\* Delivery of an interrupt: flags, cs and the return address are pushed, and
\* the trap flag is cleared.
Deliver(m, ret) == [Push(Push(Push(m, m.tf), m.cs), ret) EXCEPT !.pc = ENTRY, !.tf = 0]

\* One instruction.  What differs from machine to machine: the device register,
\* and what pushing a segment leaves in the upper half of its slot.
CpuStep(m, own) ==
  LET op == m.mem[m.pc]
  IN  CASE op = INC    -> Next1([m EXCEPT !.acc = @ + (IF m.cs = CODE_SEGMENT THEN 1 ELSE 2)])
        [] op = DEV    -> Next1([m EXCEPT !.acc = own.device])
        [] op = PUSHD  -> Next1(Push(m, own.device))
        [] op = PUSHF  -> Next1(Push(m, m.tf))
        [] op = POPF   -> Next1([m EXCEPT !.tf = Top(m, 0), !.esp = @ - 1])
        [] op = POPR   -> Next1([m EXCEPT !.acc = Top(m, 0), !.esp = @ - 1])
        [] op = PUSHDS -> Next1(Push(m, own.upper))
        [] op = INT    -> Deliver(m, m.pc + 1)
        [] op = IRET   -> [m EXCEPT !.pc = Top(m, 0), !.tf = Top(m, 2), !.esp = @ - 3]
        [] op = LJMP   -> Next1([m EXCEPT !.cs = CODE_SEGMENT])
        [] op = SPIN   -> m
        [] OTHER       -> Next1(m)
=============================================================================
