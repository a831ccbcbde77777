------------------------------ MODULE Difftest ------------------------------
(***************************************************************************)
(* Differential testing: NEMU executes an instruction, a reference the     *)
(* same one, and their registers are compared (monitor/difftest/dut.c).    *)
(* The reference is QEMU behind a gdb connection (Gdb, and diff-test.c and *)
(* the init.c of tools/qemu-diff) or KVM (Kvm).  A call of the reference   *)
(* is a list of operations, todo; `then' says what dut.c does with the     *)
(* result.                                                                 *)
(***************************************************************************)
EXTENDS Gdb, Kvm, FiniteSets

CONSTANTS
  BOOT,         \* where init_isa puts the boot code
  BOOT_STEPS,   \* instructions it executes, enough to leave real mode
  Scenario      \* what may happen: the reference (kvm), the program (image),
                \* whether isa_difftest_checkregs compares or is still the one
                \* that answers false (compares), and how often at most: an
                \* error in NEMU (bugs), a garbled packet (noise), EINTR (eintr)

VARIABLES
  who,                \* the scenario
  cpu,                \* NEMU's machine
  state,              \* nemu_state.state, or "panic"
  this_pc,
  is_skip_ref, skip_dut_nr_instr,
  todo, then,         \* operations of the reference to come; what follows
  phase,              \* of the first operation: "send", "ack" or "recv"
  ref_r,              \* registers received last
  toStub, toHost,     \* the connection
  ref,                \* KVM: vcpu.  QEMU: its machine m, the answer it owes
                      \* (owes), the packet it may have to repeat (last)
  left,               \* how often what may still happen
  wrong,              \* ghost: NEMU has executed something incorrectly
  excused,            \* ghost: difftest_skip_ref has ended a catching up
  stale,              \* ghost: stack slots that skipped instructions wrote
  blind               \* ghost: difftest has met what it cannot follow

ghosts == <<wrong, excused, stale, blind>>
dut  == <<who, cpu, state, this_pc, is_skip_ref, skip_dut_nr_instr, ghosts>>
line == <<toStub, toHost>>
vars == <<dut, todo, then, phase, ref_r, line, ref, left>>

sc == Scenario[who]

-----------------------------------------------------------------------------
(* Start: NEMU's image, the machines, and the calls of init_difftest.      *)

Blank == [acc |-> 0, esp |-> 0, pc |-> 0, cs |-> 0, tf |-> 0,
          mem |-> [a \in MEMORY |-> 0], st |-> [k \in 1..STACK |-> 0]]

\* load_img, or the image init_isa has put there; pmem starts at PMEM_BASE for
\* the guest and at 0 for guest_to_host.
pmem(image) ==
  [i \in 0..(IMAGE_START + Len(image) - 1) |->
     IF i < IMAGE_START THEN 0 ELSE image[i - IMAGE_START + 1]]
guest_to_host(mem, addr, n) == [i \in 1..n |-> mem[addr + i - 1]]

\* init_isa: registers and pc.
DutMachine(image) ==
  LET mem == pmem(image)
  IN  [Blank EXCEPT !.pc = PMEM_BASE + IMAGE_START, !.cs = CODE_SEGMENT,
         !.mem = [a \in MEMORY |-> IF a - PMEM_BASE \in DOMAIN mem THEN mem[a - PMEM_BASE] ELSE 0]]

mbr == <<CLI, LJMP, SPIN>>

Setregs == IF sc.kvm THEN <<[op |-> "setcpu"]>> ELSE gdb_getregs \o <<[op |-> "setcpu"]>>
Exec(n) == [k \in 1..n |-> gdb_si]

\* difftest_init, the copy of the image and difftest_setregs.
init_difftest ==
  LET image == guest_to_host(pmem(sc.image), IMAGE_START, Len(sc.image))
      at == IMAGE_START + PMEM_BASE
  IN  IF sc.kvm
      THEN Exec(BOOT_STEPS) \o <<[op |-> "memcpy", at |-> at, src |-> image]>> \o Setregs
      ELSE gdb_memcpy_to_qemu(BOOT, mbr) \o gdb_getregs \o <<[op |-> "setboot"]>>
             \o Exec(BOOT_STEPS) \o gdb_memcpy_to_qemu(at, image) \o Setregs

Init ==
  /\ who \in DOMAIN Scenario
  /\ cpu = DutMachine(sc.image)
  /\ state = "RUNNING"
  /\ this_pc = 0
  /\ is_skip_ref = FALSE
  /\ skip_dut_nr_instr = 0
  /\ todo = init_difftest
  /\ then = "run"
  /\ phase = "send"
  /\ ref_r = [i \in 1..REGS |-> 0]
  /\ toStub = IF sc.kvm THEN <<>> ELSE <<Ack(TRUE)>>   \* gdb_begin
  /\ toHost = <<>>
  /\ ref = IF sc.kvm THEN run_protected_mode(Blank, BOOT, mbr)
           ELSE [m |-> Blank, owes |-> <<>>, last |-> <<>>]
  /\ left = [bugs |-> sc.bugs, noise |-> sc.noise, eintr |-> sc.eintr]
  /\ wrong = FALSE /\ excused = FALSE /\ stale = {} /\ blind = FALSE

-----------------------------------------------------------------------------
(* QEMU: gdb_send and gdb_recv.                                            *)

Regs(m) == <<m.acc, m.esp, m.pc, m.cs>>

\* difftest_setregs writes back what it has read where NEMU has no register.
RequestOf(op) ==
  CASE op.op = "setboot" -> gdb_setregs([ref_r EXCEPT ![3] = BOOT, ![4] = 0])
    [] op.op = "setcpu" ->
         gdb_setregs([i \in 1..REGS |-> IF i <= DIFFTEST_REGS THEN Regs(cpu)[i] ELSE ref_r[i]])
    [] OTHER -> op

gdb_send ==
  /\ ~sc.kvm /\ todo # <<>> /\ phase = "send"
  /\ toStub' = Append(toStub, RequestOf(Head(todo)))
  /\ phase' = "ack"
  /\ UNCHANGED <<dut, todo, then, ref_r, toHost, ref, left>>

\* Faulty: gdb_send does not look at the answer.
gdb_acked_always ==
  /\ ~sc.kvm /\ phase = "ack" /\ toHost # <<>>
  /\ toHost' = Tail(toHost)
  /\ phase' = "recv"
  /\ UNCHANGED <<dut, todo, then, ref_r, toStub, ref, left>>

\* Anything but + and the packet is sent again.
gdb_acked ==
  /\ ~sc.kvm /\ phase = "ack" /\ toHost # <<>>
  /\ toHost' = Tail(toHost)
  /\ phase' = IF Head(toHost) = Plus THEN "recv" ELSE "send"
  /\ UNCHANGED <<dut, todo, then, ref_r, toStub, ref, left>>

OK == <<79, 75>>

\* The operation is over; a copy of memory that is not answered by OK is a
\* failed assertion, and so is setting the registers in init_isa.
Answered(reply) ==
  /\ phase' = "send"
  /\ todo' = Tail(todo)
  /\ ref_r' = IF Head(todo).op = "g" THEN gdb_decode_regs(reply) ELSE ref_r
  /\ state' = IF Head(todo).op \in {"M", "setboot"} /\ reply # OK THEN "panic" ELSE state

gdb_recv ==
  LET p == recv_packet(toHost)
  IN  /\ ~sc.kvm /\ phase = "recv" /\ p.mode = "done"
      /\ toHost' = SubSeq(toHost, p.used + 1, Len(toHost))
      /\ toStub' = Append(toStub, Ack(p.ok))
      /\ IF p.ok THEN Answered(p.reply) ELSE UNCHANGED <<phase, todo, ref_r, state>>
      /\ UNCHANGED <<who, cpu, this_pc, is_skip_ref, skip_dut_nr_instr, ghosts, then, ref, left>>

-----------------------------------------------------------------------------
(* The stub in QEMU, and the line (external).                              *)

\* A step executes the instruction after INT, too.
QemuStep(m) ==
  LET m1 == CpuStep(m, sc.ref)
  IN  IF m.mem[m.pc] = INT THEN CpuStep(m1, sc.ref) ELSE m1

Decoded(data) ==
  [i \in 1..(Len(data) \div 2) |-> gdb_decode_hex(data[2 * i - 1], data[2 * i])]

Handled(m, r) ==
  CASE r.op = "s" -> [m |-> QemuStep(m), owes |-> <<83, 48, 53>>, last |-> <<>>]
    [] r.op = "g" -> [m |-> m, owes |-> HexString(Regs(m)), last |-> <<>>]
    [] r.op = "G" ->
         LET x == Decoded(r.data)
         IN  [m |-> [m EXCEPT !.acc = x[1], !.esp = x[2], !.pc = x[3], !.cs = x[4]],
              owes |-> OK, last |-> <<>>]
    [] r.op = "M" ->
         LET x == Decoded(r.data)
         IN  [m |-> [m EXCEPT !.mem = [a \in MEMORY |->
                       IF a - r.at \in 0..(Len(x) - 1) THEN x[a - r.at + 1] ELSE @[a]]],
              owes |-> OK, last |-> <<>>]

stub_read ==
  /\ ~sc.kvm /\ toStub # <<>> /\ ref.owes = <<>>
  /\ toStub' = Tail(toStub)
  /\ LET r == Head(toStub)
     IN  CASE r.op = "+" -> ref' = [ref EXCEPT !.last = <<>>] /\ UNCHANGED toHost
           [] r.op = "-" -> toHost' = toHost \o ref.last /\ UNCHANGED ref
           [] OTHER ->
                IF r.intact
                THEN ref' = Handled(ref.m, r) /\ toHost' = Append(toHost, Plus)
                ELSE toHost' = Append(toHost, Minus) /\ UNCHANGED ref
  /\ UNCHANGED <<dut, todo, then, phase, ref_r, left>>

stub_reply ==
  /\ ~sc.kvm /\ ref.owes # <<>>
  /\ \E body \in Spellings(ref.owes) :
       /\ toHost' = toHost \o Packet(body)
       /\ ref' = [ref EXCEPT !.owes = <<>>, !.last = Packet(body)]
  /\ UNCHANGED <<dut, todo, then, phase, ref_r, toStub, left>>

\* A character of a packet that is not the frame's changes on its way.
noise ==
  /\ left.noise > 0
  /\ left' = [left EXCEPT !.noise = @ - 1]
  /\ \/ \E i \in 1..Len(toStub) :
          /\ toStub[i].op \notin {"+", "-"}
          /\ toStub' = [toStub EXCEPT ![i].intact = FALSE]
          /\ UNCHANGED toHost
     \/ \E i \in 1..Len(toHost), c \in {48, Star, Escape, Dollar} :
          /\ toHost[i] \notin {Plus, Minus, Dollar, Hash, c}
          /\ toHost' = [toHost EXCEPT ![i] = c]
          /\ UNCHANGED toStub
  /\ UNCHANGED <<dut, todo, then, phase, ref_r, ref>>

-----------------------------------------------------------------------------
(* KVM: an operation is a call.                                            *)

\* The call is over.
kvm_done ==
  /\ todo' = Tail(todo)
  /\ UNCHANGED <<dut, then, phase, line, left>>

kvm_call ==
  /\ sc.kvm /\ todo # <<>> /\ ~ref.running
  /\ kvm_done
  /\ LET op == Head(todo)
     IN  \/ op.op = "s" /\ Patched(ref) /\ ref' = patching(ref) /\ UNCHANGED ref_r
         \/ op.op = "g" /\ ref_r' = Regs(ref.m) /\ UNCHANGED ref
         \/ op.op = "setcpu" /\ ref' = kvm_difftest_setregs(ref, cpu) /\ UNCHANGED ref_r
         \/ /\ op.op = "memcpy"
            /\ ref' = difftest_memcpy_from_dut(ref, op.at, op.src)
            /\ UNCHANGED ref_r

\* A turn of kvm_exec's loop calls KVM_RUN.
kvm_exec ==
  /\ sc.kvm /\ todo # <<>> /\ ~ref.running /\ Head(todo).op = "s" /\ ~Patched(ref)
  /\ ref' = KVM_RUN(patching(ref))
  /\ UNCHANGED <<dut, todo, then, phase, ref_r, line, left>>

\* KVM_RUN fails with EINTR: n ++, and the loop comes back to patching.
kvm_exec_eintr ==
  /\ sc.kvm /\ ref.running
  /\ left.eintr > 0
  /\ left' = [left EXCEPT !.eintr = @ - 1]
  /\ ref' = [ref EXCEPT !.running = FALSE]
  /\ UNCHANGED <<dut, todo, then, phase, ref_r, line>>

\* The guest executes an instruction (external), and KVM_RUN returns or not.
guest ==
  /\ sc.kvm /\ ref.running /\ ref.m.pc \in MEMORY
  /\ LET m1 == CpuStep(ref.m, sc.ref)
         v1 == [ref EXCEPT !.m = m1]
     IN  \/ /\ StopsBehind(ref, m1)
            /\ ref' = KvmExecEnd(v1)
            /\ kvm_done
         \/ /\ ~StopsBehind(ref, m1)
            /\ ref' = [v1 EXCEPT !.lost = TRUE]
            /\ UNCHANGED <<dut, todo, then, phase, line, left>>
  /\ UNCHANGED ref_r

-----------------------------------------------------------------------------
(* dut.c, called by cpu_exec.                                              *)

Ready == state # "panic" /\ todo = <<>>

\* Where NEMU calls difftest_skip_ref: accesses to devices, nemu_trap, iret.
Skipped(op) == op \in {DEV, PUSHD, TRAP, IRET}

\* What NEMU makes of an instruction: the right result, or a wrong register.
Result(c, bug) ==
  CASE bug = "none" -> c
    [] bug = "acc"  -> [c EXCEPT !.acc = @ + 16]
    [] bug = "pc"   -> [c EXCEPT !.pc = PMEM_BASE + IMAGE_START]

\* The ghosts.  Only registers are copied for a skipped instruction: the slots
\* it has written are stale, and a later load from one goes wrong, which the
\* comment in difftest_skip_ref expects.  KVM does not stop behind int.
Observe(op, bug, from, to) ==
  LET written == (from.esp + 1)..to.esp
      loaded  == (to.esp + 1)..from.esp
  IN  /\ wrong' = (wrong \/ bug # "none")
      /\ excused' = (excused \/ (Skipped(op) /\ skip_dut_nr_instr > 0))
      /\ stale' = IF Skipped(op) THEN stale \cup written ELSE stale \ written
      /\ blind' = \/ blind
                  \/ ~Skipped(op) /\ stale \cap loaded # {}
                  \/ op = INT /\ sc.kvm

\* isa_exec_once.  Whether NEMU's result is right for an instruction that is
\* skipped nobody can tell.
isa_exec_once ==
  /\ Ready /\ then = "run" /\ state = "RUNNING"
  /\ LET op == cpu.mem[cpu.pc]
         c == CpuStep(cpu, sc.dut)
     IN  \E bug \in {b \in {"none", "acc", "pc"} : b # "none" => left.bugs > 0 /\ ~Skipped(op)} :
           /\ cpu' = Result(c, bug)
           /\ Observe(op, bug, cpu, c)
           /\ left' = [left EXCEPT !.bugs = IF bug = "none" THEN @ ELSE @ - 1]
           /\ this_pc' = cpu.pc
           /\ state' = IF op = TRAP THEN "END" ELSE state
           /\ IF Skipped(op)
              THEN is_skip_ref' = TRUE /\ skip_dut_nr_instr' = 0     \* difftest_skip_ref
              ELSE /\ UNCHANGED is_skip_ref
                   /\ skip_dut_nr_instr' = skip_dut_nr_instr + (IF op = INT THEN 2 ELSE 0)
           /\ todo' = IF op = INT THEN Exec(1) ELSE <<>>        \* difftest_skip_dut(1, 2)
  /\ then' = "step"
  /\ UNCHANGED <<who, phase, ref_r, line, ref>>

difftest_step ==
  /\ Ready /\ then = "step"
  /\ \/ /\ skip_dut_nr_instr > 0
        /\ todo' = gdb_getregs /\ then' = "catch"
        /\ UNCHANGED is_skip_ref
     \/ /\ skip_dut_nr_instr = 0 /\ is_skip_ref
        /\ todo' = Setregs /\ then' = "run"
        /\ is_skip_ref' = FALSE
     \/ /\ skip_dut_nr_instr = 0 /\ ~is_skip_ref
        /\ todo' = Exec(1) \o gdb_getregs /\ then' = "check"
        /\ UNCHANGED is_skip_ref
  /\ UNCHANGED <<who, cpu, state, this_pc, skip_dut_nr_instr, ghosts, phase, ref_r, line, ref, left>>

\* The hook, in the dut.c of every ISA: still to be written.
isa_difftest_checkregs == FALSE

RegsDiffer == \E i \in 1..DIFFTEST_REGS : ref_r[i] # Regs(cpu)[i]

\* The hook once it is there (external): it compares the registers.
checkregs_to_come == ~RegsDiffer

checkregs ==
  state' = IF (IF sc.compares THEN checkregs_to_come ELSE isa_difftest_checkregs)
           THEN state ELSE "ABORT"

\* Faulty: the count is tested before the pc.
difftest_catch_up_late ==
  /\ Ready /\ then = "catch"
  /\ then' = "run"
  /\ skip_dut_nr_instr' = skip_dut_nr_instr - 1
  /\ IF skip_dut_nr_instr = 1 THEN state' = "panic"
     ELSE IF ref_r[3] = cpu.pc THEN checkregs ELSE UNCHANGED state
  /\ UNCHANGED <<who, cpu, this_pc, is_skip_ref, ghosts, todo, phase, ref_r, line, ref, left>>

\* difftest_step with ref_r, when skip_dut_nr_instr > 0.
difftest_catch_up ==
  /\ Ready /\ then = "catch"
  /\ then' = "run"
  /\ IF ref_r[3] = cpu.pc
     THEN checkregs /\ skip_dut_nr_instr' = 0
     ELSE /\ skip_dut_nr_instr' = skip_dut_nr_instr - 1
          /\ state' = IF skip_dut_nr_instr = 1 THEN "panic" ELSE state
  /\ UNCHANGED <<who, cpu, this_pc, is_skip_ref, ghosts, todo, phase, ref_r, line, ref, left>>

difftest_check ==
  /\ Ready /\ then = "check"
  /\ then' = "run"
  /\ checkregs
  /\ UNCHANGED <<who, cpu, this_pc, is_skip_ref, skip_dut_nr_instr, ghosts, todo, phase, ref_r,
                 line, ref, left>>

Host ==
  \/ gdb_send \/ gdb_acked \/ gdb_recv
  \/ kvm_call \/ kvm_exec \/ guest
  \/ isa_exec_once \/ difftest_step \/ difftest_catch_up \/ difftest_check

Stub == stub_read \/ stub_reply

Next == Host \/ Stub \/ noise \/ kvm_exec_eintr

\* NEMU runs on, QEMU answers what it reads; nothing has to go wrong.
Spec == Init /\ [][Next]_vars /\ WF_vars(Host) /\ WF_vars(Stub)
-----------------------------------------------------------------------------
\* Between two instructions, unless NEMU is catching up.
AtRest == Ready /\ then = "run" /\ state = "RUNNING" /\ skip_dut_nr_instr = 0

\* What difftest takes for granted and a comparison of registers would notice
\* late: between two instructions the reference is where NEMU is, in registers,
\* code, mode and every stack slot but those that skipped instructions wrote,
\* whether the last one was compared, skipped or caught up with; and an error of
\* NEMU is found before the next instruction, unless difftest_skip_ref ended the
\* catching up.  It holds until NEMU loads a slot that a skipped instruction
\* wrote, or KVM steps an int.  It rests on a whole image, one step for each
\* instruction on a line with resent packets and with EINTR, registers decoded
\* from any spelling, and on a trap flag that the guest never sees and stepping
\* never loses.
Lockstep ==
  ~blind =>
    /\ AtRest =>
         /\ Regs(ref.m) = Regs(cpu)
         /\ \A k \in 1..cpu.esp : k \in stale \/ ref.m.st[k] = cpu.st[k]
         /\ \A i \in 1..Len(sc.image) :
              LET a == PMEM_BASE + IMAGE_START + i - 1 IN ref.m.mem[a] = cpu.mem[a]
         /\ wrong => excused
    /\ sc.kvm => ~ref.lost

\* The next step of difftest calls isa_difftest_checkregs.
HookCalled == Ready /\ (then = "check" \/ (then = "catch" /\ ref_r[3] = cpu.pc))

\* Whatever the hook does with them, the registers it is given differ only
\* for an error of NEMU, and for every one it has not lost sight of, and
\* catching up fails only for such an error: neither an instruction that QEMU
\* packs with the next, nor a device register, nor a garbled or repeated packet,
\* nor a signal in KVM_RUN ends a correct run.  As Lockstep, it ends where
\* difftest is blind.
NoFalseAlarm ==
  ~blind =>
    /\ HookCalled => (RegsDiffer => wrong) /\ (wrong => RegsDiffer \/ excused)
    /\ state = "panic" => wrong

\* A call of the reference comes back: no packet waits for an answer that the
\* other side does not owe.
CallsReturn == (todo # <<>>) ~> (todo = <<>>)
=============================================================================
