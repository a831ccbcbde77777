----------------------------- MODULE MCDifftest -----------------------------
(***************************************************************************)
(* Five programs on QEMU and three on KVM, with device accesses, software  *)
(* interrupts and returns; the first bytes of the addresses are hex        *)
(* letters and digits.  One packet is garbled, one KVM_RUN interrupted,    *)
(* one instruction of NEMU wrong, at every possible place.                 *)
(***************************************************************************)
EXTENDS Difftest

MCMemory == (BOOT..(BOOT + 2)) \cup ((PMEM_BASE + IMAGE_START)..(PMEM_BASE + IMAGE_START + 10))

Own(reg, upper) == [device |-> reg, upper |-> upper]
Qemu(image, compares, bugs, garbled) ==
  [kvm |-> FALSE, image |-> image, compares |-> compares, bugs |-> bugs, noise |-> garbled,
   eintr |-> 0, dut |-> Own(3, 0), ref |-> Own(9, 0)]
OnKvm(image) ==
  [kvm |-> TRUE, image |-> image, compares |-> TRUE, bugs |-> 1, noise |-> 0,
   eintr |-> 1, dut |-> Own(3, 0), ref |-> Own(9, UPPER)]

\* The handler is at the eighth byte.
Plain == <<INC, DEV, INT, INC, TRAP, CLI, CLI, INC, DEV, IRET>>
Handler(first, second) == <<INC, INT, PUSHF, POPR, INT, TRAP, CLI>> \o <<first, second, IRET>>
Slot == <<PUSHD, INC, INT, PUSHF, POPR, POPR, TRAP, INC, DEV, IRET>>
Skips == <<DEV, INT, TRAP, CLI, CLI, CLI, CLI, INC, CLI, IRET>>
Flags == <<PUSHF, POPF, PUSHDS, POPR, DEV, PUSHD, INC, PUSHF, POPR, TRAP>>

MCScenario ==
  [clean  |-> Qemu(Plain, TRUE, 1, 1),
   dev    |-> Qemu(Handler(DEV, CLI), TRUE, 1, 0),
   packed |-> Qemu(Handler(PUSHD, POPR), TRUE, 1, 0),
   slot   |-> Qemu(Slot, TRUE, 1, 0),
   hook   |-> Qemu(Skips, FALSE, 1, 0),
   flags  |-> OnKvm(Flags),
   int    |-> OnKvm(Handler(INC, CLI)),
   intdev |-> OnKvm(Handler(DEV, CLI))]
=============================================================================
