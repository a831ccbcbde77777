-------------------------------- MODULE Kvm ---------------------------------
(***************************************************************************)
(* The reference on KVM (tools/kvm-diff/src/kvm.c).  KVM steps a virtual   *)
(* processor by its trap flag, which the guest must not see in the flags   *)
(* it pushes: kvm_exec executes pushf and popf by itself, and stops with a *)
(* breakpoint behind iret.                                                 *)
(*                                                                         *)
(* A record v is struct vcpu, with the machine in v.m:                     *)
(*   flags, dirty         the trap flag in kvm_run->s.regs, to be taken    *)
(*                        over by the next KVM_RUN (kvm_dirty_regs)        *)
(*   watch                the address of the breakpoint, or Nowhere        *)
(*   int_wp_state, entry                                                   *)
(*   running, last_pc     KVM_RUN is under way, and where it began         *)
(*   lost                 KVM_RUN did not stop behind one instruction, or  *)
(*                        an assertion failed                              *)
(*                                                                         *)
(* Nothing calls difftest_raise_intr, which dut.c does not load: so        *)
(* int_wp_state is never STATE_INT_INSTR, and has_error_code has no use.   *)
(***************************************************************************)
EXTENDS GuestCpu

Nowhere == -1

\* KVM_SET_GUEST_DEBUG: single steps, and one breakpoint or none.
kvm_set_step_mode(v, addr) == [v EXCEPT !.m.tf = TF, !.watch = addr]

\* KVM_SET_REGS leaves the single steps.
kvm_setregs(v, machine) == kvm_set_step_mode([v EXCEPT !.m = [machine EXCEPT !.tf = 0]], Nowhere)

\* ioctl(KVM_RUN) (external) begins: the registers that are dirty are taken over.
KVM_RUN(v) ==
  [v EXCEPT !.m.tf = IF v.dirty THEN v.flags ELSE @, !.dirty = FALSE, !.flags = 0,
            !.running = TRUE, !.last_pc = v.m.pc]

\* It ends at the breakpoint, or with an instruction that began with the trap
\* flag set and is neither int nor iret, which clear it.  So int runs its
\* handler, whose return sets the flag again, and one instruction more.
\* (external)
StopsBehind(v, m1) ==
  \/ v.m.tf = TF /\ v.m.mem[v.m.pc] \notin {INT, IRET}
  \/ m1.pc = v.watch

Sync(v, machine) == [v EXCEPT !.m = machine, !.flags = TF, !.dirty = TRUE]

\* The instructions that patching executes itself.
Patched(v) == v.m.mem[v.m.pc] \in {PUSHF, POPF}

\* Faulty: popf does not keep the trap flag.
patching_popf_plain(v) ==
  LET op == v.m.mem[v.m.pc]
  IN  CASE op = PUSHF -> Sync(v, Next1(Push(v.m, 0)))
        [] op = POPF ->
             [Sync(v, Next1([v.m EXCEPT !.esp = @ - 1])) EXCEPT !.flags = Top(v.m, 0)]
        [] op = IRET -> [kvm_set_step_mode(v, Top(v.m, 0)) EXCEPT
                           !.entry = Top(v.m, 0), !.int_wp_state = "IRET_INSTR"]
        [] OTHER -> v

patching(v) ==
  LET op == v.m.mem[v.m.pc]
  IN  CASE op = PUSHF -> Sync(v, Next1(Push(v.m, 0)))
        [] op = POPF -> Sync(v, Next1([v.m EXCEPT !.esp = @ - 1]))
        [] op = IRET -> [kvm_set_step_mode(v, Top(v.m, 0)) EXCEPT
                           !.entry = Top(v.m, 0), !.int_wp_state = "IRET_INSTR"]
        [] OTHER -> v

\* fix_push_sreg, for the instruction at last_pc.
patching_after(v, last_pc) ==
  IF v.m.mem[last_pc] = PUSHDS
  THEN [v EXCEPT !.m.st[v.m.esp] = @ % UPPER, !.lost = @ \/ v.m.pc # last_pc + 1]
  ELSE v

\* After KVM_RUN: the breakpoint is taken away and single steps go on.
AfterRun(v) ==
  IF v.int_wp_state = "IDLE" THEN v
  ELSE [kvm_set_step_mode(v, Nowhere) EXCEPT
          !.int_wp_state = "IDLE", !.lost = @ \/ v.entry # v.m.pc]

\* A turn of kvm_exec after KVM_RUN.
KvmExecEnd(v) == AfterRun(patching_after([v EXCEPT !.running = FALSE], v.last_pc))

\* difftest_setregs: the nine registers only.
kvm_difftest_setregs(v, machine) ==
  Sync(v, [v.m EXCEPT !.acc = machine.acc, !.esp = machine.esp, !.pc = machine.pc])

difftest_memcpy_from_dut(v, dest, src) ==
  [v EXCEPT !.m.mem = [a \in MEMORY |-> IF a - dest \in 0..(Len(src) - 1)
                                        THEN src[a - dest + 1] ELSE @[a]]]

\* A virtual processor with no breakpoint set.
vcpu_init(blank) ==
  [m |-> blank, flags |-> 0, dirty |-> FALSE, watch |-> Nowhere,
   int_wp_state |-> "IDLE", entry |-> 0, running |-> FALSE, last_pc |-> 0, lost |-> FALSE]

setup_protected_mode(m) == [m EXCEPT !.cs = CODE_SEGMENT]

\* run_protected_mode up to kvm_exec: the boot code is put where pc points.
run_protected_mode(blank, boot, mbr) ==
  difftest_memcpy_from_dut(
    kvm_setregs(vcpu_init(blank), [setup_protected_mode(blank) EXCEPT !.pc = boot]),
    boot, mbr)
=============================================================================
