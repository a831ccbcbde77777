----------------------------- MODULE NativeCte ------------------------------
(***************************************************************************)
(* Contexts and interrupts of AM native (am/src/native/cte.c) on the       *)
(* address spaces of NativeVme.  Interrupts are signals of the host,       *)
(* system calls and yield are SIGSEGVs of a trap page.  The signal handler *)
(* saves what was interrupted as a Context on the kernel stack and returns *)
(* into irq_handle; the kernel's handler names a Context, and one more     *)
(* SIGSEGV ("magic call") makes that one the registers of the process.     *)
(*                                                                         *)
(* A place on a stack is <<stack, number of Contexts above it>>.  The      *)
(* kernel above AM is a scheduler that keeps the last Context of every     *)
(* thread and works (vme, kcontext, ucontext) with interrupts off.         *)
(***************************************************************************)
EXTENDS NativeVme, Sequences, SequencesExt

CONSTANTS
  KThread, UThread,   \* threads kcontext and ucontext make
  DEPTH,              \* bound: Contexts on one stack
  PCS,                \* a thread's program counter, modulo
  Work                \* bounds of a behaviour, a set of records: the threads,
                      \* pages and signals there are, and the depth

ASSUME NativeCteAssumption ==
  /\ DEPTH \in Nat \ {0} /\ PCS \in Nat \ {0}
  /\ \A w \in Work : w.threads \subseteq KThread \cup UThread 
                       /\ w.pages \in Nat /\ w.depth \in 0..DEPTH

VARIABLES
  cpu,       \* registers: rip (the region it points into), pc (where exactly),
             \* sti (the interrupts are not in the signal mask), at (rsp), c (rdi)
  ev, ksp,   \* thiscpu
  stack,     \* the Contexts on the kernel stacks
  pending,   \* signals that wait
  work,      \* the bounds of this behaviour
  cur, ctx,  \* kernel: the thread that runs, the last Context of each
  own,       \* ghost: what each thread has been doing; last, what it does now
  space      \* ghost: the address space it was made for

kernel == <<work, cur, ctx, space>>
cvars == <<nvars, cpu, ev, ksp, stack, pending, kernel, own>>

Boot == "boot"                      \* main
Thread == {Boot} \cup KThread \cup UThread

\* A thread is main's, kcontext's or ucontext's; NULL is no place on a stack.
ASSUME ThreadAssumption ==
  /\ Boot \notin KThread \cup UThread /\ KThread \cap UThread = {}
  /\ NULL \notin Thread \X (1..DEPTH)

UserStack == <<"user", 0>>
Garbage == <<"garbage", 0>>
IRQ == {"IODEV", "TIMER"}

End(t) == <<t, 0>>                  \* kstack.end
Below(at) == <<at[1], at[2] + 1>>   \* where the next Context goes
After(r) == [r EXCEPT !.pc = (@ + 1) % PCS]

\* What the running thread has been doing, with its registers now r.
Doing(r) == [own EXCEPT ![cur] = Append(Front(@), [Last(@) EXCEPT !.r = r])]

-----------------------------------------------------------------------------
(* cte.c                                                                   *)

__am_in_userspace == vme_enable /\ vm_head # NULL /\ cpu.rip = "user"

\* The instruction of a system call or a yield is not executed again.
Resume(event) == IF event \in {"SYSCALL", "YIELD"} THEN After(cpu) ELSE cpu

\* Faulty: interrupts stay enabled on the way to irq_handle.
setup_stack_unmasked(event) ==
  IF event \in IRQ /\ cpu.rip = "lib" THEN UNCHANGED <<cpu, stack, own>>
  ELSE LET c == Below(IF __am_in_userspace THEN ksp ELSE cpu.at)
       IN  /\ stack' = [stack EXCEPT ![c].uc = Resume(event)]
           /\ cpu' = [rip |-> "irq_handle", pc |-> 0, sti |-> cpu.sti, at |-> c, c |-> c]
           /\ own' = [Doing(Resume(event)) EXCEPT ![cur] = Append(@, [r |-> cpu', ev |-> event])]

\* A signal in library code is not handled, as that code cannot be entered
\* again; program text, user space and the return of sigprocmask are safe.
setup_stack(event) ==
  IF event \in IRQ /\ cpu.rip = "lib" THEN UNCHANGED <<cpu, stack, own>>
  ELSE LET c == Below(IF __am_in_userspace THEN ksp ELSE cpu.at)
       IN  /\ stack' = [stack EXCEPT ![c].uc = Resume(event)]
           /\ cpu' = [rip |-> "irq_handle", pc |-> 0, sti |-> FALSE, at |-> c, c |-> c]
           /\ own' = [Doing(Resume(event)) EXCEPT ![cur] = Append(@, [r |-> cpu', ev |-> event])]

\* sig_handler, but for the magic call.
sig_handler(event) ==
  /\ ev' = event
  /\ setup_stack(event)
  /\ UNCHANGED <<nvars, ksp, kernel>>

\* irq_handle up to the call of user_handler, which gets ev and c.
irq_handle ==
  /\ cpu.rip = "irq_handle"
  /\ stack' = [stack EXCEPT ![cpu.c].vm_head = vm_head, ![cpu.c].ksp = ksp]
  /\ cpu' = [cpu EXCEPT !.rip = "handler"]
  /\ own' = Doing(cpu')
  /\ UNCHANGED <<nvars, ev, ksp, pending, kernel>>

iret(c) == cpu' = stack[c].uc /\ ksp' = stack[c].ksp

Switched(h) == IF vme_enable /\ h # vm_head THEN __am_switch(h) ELSE UNCHANGED nvars

\* user_handler returns the Context of t; the rest of irq_handle and the SIGSEGV
\* it ends in.
irq_return(t) ==
  /\ cpu.rip = "handler"
  /\ ctx[t] # NULL
  /\ LET last == [ctx EXCEPT ![cur] = cpu.c]
     IN  /\ ctx' = last
         /\ Switched(stack[last[t]].vm_head)
         /\ iret(last[t])
  /\ ev' = "ERROR"
  /\ cur' = t
  /\ own' = [own EXCEPT ![cur] = Front(@)]
  /\ UNCHANGED <<stack, pending, space, work>>

-----------------------------------------------------------------------------
(* What runs.  A signal that is not blocked is delivered before the next    *)
(* instruction.                                                            *)

Running(places) == cpu.rip \in places /\ ~(cpu.sti /\ pending # {})

Steps(r) ==
  /\ cpu' = r
  /\ own' = Doing(r)
  /\ UNCHANGED <<nvars, ev, ksp, stack, pending, kernel>>

\* Where no signal can come, the steps that only signals tell apart are left out.
Interruptible(places) == work.signals # {} /\ Running(places)

compute == Interruptible({"text", "user"}) /\ Steps(After(cpu))

\* A kernel thread calls a function of the C library and comes back; so does it
\* from sigprocmask, where it is when iset has unblocked the signals.
call_lib == Interruptible({"text"}) /\ Steps([cpu EXCEPT !.rip = "lib"])
ret_lib  == Running({"lib", "sigprocmask"}) /\ Steps([cpu EXCEPT !.rip = "text"])

iset(enable) ==
  /\ Interruptible({"text"}) /\ cpu.sti # enable
  /\ Steps([cpu EXCEPT !.sti = enable, !.rip = IF enable THEN "sigprocmask" ELSE "text"])

Trap(places, event) == Running(places) /\ UNCHANGED pending /\ sig_handler(event)

yield == Trap({"text", "user"}, "YIELD")
syscall == Trap({"user"}, "SYSCALL")
\* Also when the kernel touches user memory in its handler.
pagefault == vm_head # NULL /\ cpu.at[2] < work.depth /\ Trap({"user", "handler"}, "PAGEFAULT")

\* The timer and the devices: a signal that waits already is not counted again.
signal(s) ==
  /\ s \in work.signals \ pending
  /\ pending' = pending \cup {s}
  /\ UNCHANGED <<nvars, cpu, ev, ksp, stack, kernel, own>>

deliver(s) ==
  /\ cpu.sti /\ s \in pending
  /\ pending' = pending \ {s}
  /\ sig_handler(s)

-----------------------------------------------------------------------------
(* The kernel, in main or in its handler.                                  *)

InKernel == cpu.rip = "handler" \/ (cur = Boot /\ cpu.rip = "text" /\ ~cpu.sti)

\* A Context at the end of its kernel stack, interrupts enabled.
Made(t, rip, rsp, h, k) ==
  LET r == [rip |-> rip, pc |-> 0, sti |-> TRUE, at |-> rsp, c |-> NULL]
  IN  /\ InKernel
      /\ t \in work.threads
      /\ ctx[t] = NULL
      /\ ctx' = [ctx EXCEPT ![t] = Below(End(t))]
      /\ stack' = [stack EXCEPT ![Below(End(t))] = [uc |-> r, vm_head |-> h, ksp |-> k]]
      /\ own' = [own EXCEPT ![t] = <<[r |-> r, ev |-> "none"]>>]
      /\ space' = [space EXCEPT ![t] = h]
      /\ UNCHANGED <<nvars, cpu, ev, ksp, pending, cur, work>>

\* kcontext does not set ksp.
kcontext(t) == Made(t, "text", End(t), NULL, Garbage)
ucontext(t, h) == Made(t, "user", UserStack, h, End(t))

Room == Cardinality(used) < work.pages
vme ==
  /\ InKernel
  /\ \/ vme_init
     \/ Room /\ \E p \in Page : protect(p)
     \/ Room /\ \E h \in heads, v \in VA, pa \in PA, prot \in Prot : map(h, v, pa, prot)
  /\ UNCHANGED <<cpu, ev, ksp, stack, pending, kernel, own>>

-----------------------------------------------------------------------------
\* init_platform and cte_init: main runs with interrupts disabled.
CInit ==
  /\ work \in Work
  /\ NInit
  /\ cpu = [rip |-> "text", pc |-> 0, sti |-> FALSE, at |-> End(Boot), c |-> NULL]
  /\ ev = "none" /\ ksp = Garbage
  /\ stack = [c \in Thread \X (1..DEPTH) |-> [uc |-> cpu, vm_head |-> NULL, ksp |-> Garbage]]
  /\ pending = {}
  /\ cur = Boot
  /\ ctx = [t \in Thread |-> IF t = Boot THEN Below(End(Boot)) ELSE NULL]
  /\ own = [t \in Thread |-> <<[r |-> cpu, ev |-> "none"]>>]
  /\ space = [t \in Thread |-> NULL]

CNext ==
  \/ irq_handle
  \/ \E t \in Thread : irq_return(t)
  \/ compute \/ call_lib \/ ret_lib \/ yield \/ syscall \/ pagefault
  \/ \E b \in BOOLEAN : iset(b)
  \/ \E s \in IRQ : signal(s) \/ deliver(s)
  \/ \E t \in KThread : kcontext(t)
  \/ \E t \in UThread, h \in heads : ucontext(t, h)
  \/ vme

CSpec == CInit /\ [][CNext]_cvars

-----------------------------------------------------------------------------
\* Whatever interrupts, system calls, faults and switches came between, a
\* thread goes on with the registers, signal mask and address space it had; the
\* handler is told the event that happened; and the kernel stack of a user
\* thread is its own, so that the next trap does not overwrite a Context that
\* another thread is to be resumed from.
RunsIntact ==
  LET now == Last(own[cur])
  IN  /\ cpu = now.r
      /\ vm_head = space[cur]
      /\ cpu.rip = "irq_handle" => ev = now.ev
      /\ cur \in UThread => ksp = End(cur)
=============================================================================
