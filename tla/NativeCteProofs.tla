--------------------------- MODULE NativeCteProofs --------------------------
(***************************************************************************)
(* Proofs about NativeCte for any number of threads, pages and nested      *)
(* faults: a thread goes on with the registers, the signal mask, the       *)
(* address space and the kernel stack it had, and contexts do to the       *)
(* address spaces only what NativeVme allows, so that they implement Vme.  *)
(***************************************************************************)
EXTENDS NativeCte, NativeVmeProofs

-----------------------------------------------------------------------------
(* The inductive invariant.                                                *)

Place == (Thread \cup {"user", "garbage"}) \X Nat
Slot == Thread \X (1..DEPTH)
Region == {"text", "lib", "sigprocmask", "user", "irq_handle", "handler"}
Event == {"none", "ERROR", "YIELD", "SYSCALL", "PAGEFAULT"} \cup IRQ
Regs == [rip : Region, pc : Int, sti : BOOLEAN, at : Place, c : Place \cup {NULL}]
Activity == [r : Regs, ev : Event]
SavedContext == [uc : Regs, vm_head : heads \cup {NULL}, ksp : Place]

CTypes ==
  /\ cpu \in Regs /\ ksp \in Place /\ ev \in Event
  /\ stack \in [Slot -> SavedContext]
  /\ work \in Work
  /\ cur \in Thread
  /\ ctx \in [Thread -> Slot \cup {NULL}]
  /\ own \in [Thread -> Seq(Activity)]
  /\ space \in [Thread -> heads \cup {NULL}]

\* Where a thread is while it does its own work: a user thread on the user's
\* stack, any other at the end of its kernel stack.
AtBase(t, r) ==
  IF t \in UThread THEN r.rip = "user" /\ r.at = UserStack /\ space[t] \in heads
  ELSE r.rip \in {"text", "lib", "sigprocmask"} /\ r.at = End(t)

\* The k-th activity of a thread, k > 1, is an interrupt whose Context is number
\* k - 1 of its stack; signals are blocked in it.
AtInterrupt(t, k) ==
  LET r == own[t][k].r
  IN  /\ r.rip \in {"irq_handle", "handler"}
      /\ ~r.sti
      /\ r.at = <<t, k - 1>> /\ r.c = <<t, k - 1>>
      /\ r.rip = "irq_handle" => t = cur /\ k = Len(own[t])

\* The activities of t that are interrupted.
Interrupted(t) == IF t = cur THEN Len(own[t]) - 1 ELSE Len(own[t])

\* Context k of t holds what the thread was doing; irq_handle adds the address
\* space and ksp.
Saved(t, k) ==
  LET s == stack[<<t, k>>]
  IN  /\ s.uc = own[t][k].r
      /\ ~(t = cur /\ cpu.rip = "irq_handle" /\ k = Interrupted(t)) =>
           s.vm_head = space[t] /\ (t \in UThread => s.ksp = End(t))

ThreadInv(t) ==
  /\ Len(own[t]) >= 1
  /\ Interrupted(t) <= DEPTH
  /\ AtBase(t, own[t][1].r)
  /\ \A k \in 2..Len(own[t]) : AtInterrupt(t, k)
  /\ \A k \in 1..Interrupted(t) : Saved(t, k)
  /\ t # cur => ctx[t] = <<t, Len(own[t])>>

CInv ==
  /\ NInv
  /\ CTypes
  /\ RunsIntact
  /\ ctx[cur] # NULL
  /\ \A t \in Thread : ctx[t] # NULL => ThreadInv(t)

-----------------------------------------------------------------------------
(* Facts about the state.                                                  *)

\* What a thread has been doing, with its registers now r.
Replaced(s, r) == Append(Front(s), [Last(s) EXCEPT !.r = r])

\* Nothing else in its history changes.
LEMMA DoingFacts ==
  ASSUME NEW s \in Seq(Activity), Len(s) >= 1, NEW r \in Regs
  PROVE  /\ Replaced(s, r) \in Seq(Activity) /\ Len(Replaced(s, r)) = Len(s)
         /\ \A k \in 1..(Len(s) - 1) : Replaced(s, r)[k] = s[k]
         /\ Replaced(s, r)[Len(s)].r = r
<1> DEFINE f == Front(s)  x == [Last(s) EXCEPT !.r = r]
<1>1. /\ f \in Seq(Activity) /\ Len(f) = Len(s) - 1
      /\ \A k \in 1..(Len(s) - 1) : f[k] = s[k]
  <2> DEFINE n == Len(s) - 1
  <2>1. n \in Nat /\ f = SubSeq(s, 1, n) /\ \A i \in 1..n : s[i] \in Activity
    BY DEF Front
  <2> HIDE DEF n, f
  <2>2. f \in Seq(Activity) /\ Len(f) = n /\ \A k \in 1..n : f[k] = s[k]
    BY <2>1
  <2> QED
    BY <2>2 DEF n
<1>2. x \in Activity /\ x.r = r
  <2>1. Last(s) \in Activity
    BY DEF Last
  <2> QED
    BY <2>1 DEF Activity
<1> HIDE DEF f, x
<1>3. /\ Append(f, x) \in Seq(Activity) /\ Len(Append(f, x)) = Len(s)
      /\ \A k \in 1..(Len(s) - 1) : Append(f, x)[k] = s[k]
      /\ Append(f, x)[Len(s)] = x
  BY <1>1, <1>2
<1> QED
  BY <1>2, <1>3 DEF f, x, Replaced

\* Registers.
LEMMA RegsFacts ==
  ASSUME NEW rip \in Region, NEW sti \in BOOLEAN, NEW at \in Place, NEW c \in Place \cup {NULL}
  PROVE  [rip |-> rip, pc |-> 0, sti |-> sti, at |-> at, c |-> c] \in Regs
BY DEF Regs

\* The step of a computation keeps the place.
LEMMA AfterFacts ==
  ASSUME NEW r \in Regs
  PROVE  After(r) \in Regs /\ After(r).rip = r.rip /\ After(r).at = r.at
<1>1. (r.pc + 1) % PCS \in Int
  BY NativeCteAssumption DEF Regs
<1> QED
  BY <1>1 DEF After, Regs

\* The places of the threads.
LEMMA Places ==
  ASSUME NEW t \in Thread
  PROVE  /\ End(t) \in Place /\ Below(End(t)) = <<t, 1>> /\ <<t, 1>> \in Slot
         /\ \A k \in Nat : /\ <<t, k>> \in Place /\ Below(<<t, k>>) = <<t, k + 1>>
                           /\ <<t, k>>[1] = t /\ <<t, k>>[2] = k
         /\ \A k \in 1..DEPTH : <<t, k>> \in Slot /\ <<t, k>> # NULL
         /\ UserStack \in Place /\ Garbage \in Place
         /\ Slot \subseteq Place
BY NativeCteAssumption, ThreadAssumption DEF End, Below, Place, Slot, UserStack, Garbage

\* What the registers of the process say of the thread that runs.
LEMMA CurrentFacts ==
  ASSUME CInv
  PROVE  /\ ThreadInv(cur) /\ own[cur] \in Seq(Activity) /\ Len(own[cur]) \in Nat \ {0}
         /\ cpu = own[cur][Len(own[cur])].r
         /\ Len(own[cur]) = 1 => AtBase(cur, cpu)
         /\ Len(own[cur]) > 1 => AtInterrupt(cur, Len(own[cur]))
<1>1. ThreadInv(cur) /\ own[cur] \in Seq(Activity) /\ Len(own[cur]) \in Nat \ {0}
  BY DEF CInv, CTypes, ThreadInv
<1>2. cpu = own[cur][Len(own[cur])].r
  BY DEF CInv, RunsIntact, Last
<1>3. Len(own[cur]) = 1 => AtBase(cur, cpu)
  BY <1>1, <1>2 DEF ThreadInv, AtBase
<1>4. Len(own[cur]) > 1 => AtInterrupt(cur, Len(own[cur]))
  <2>1. Len(own[cur]) > 1 => Len(own[cur]) \in 2..Len(own[cur])
    BY <1>1
  <2> QED
    BY <1>1, <2>1 DEF ThreadInv
<1> QED
  BY <1>1, <1>2, <1>3, <1>4

\* The region rip points into says whether the thread is interrupted.
LEMMA WhereCurrent ==
  ASSUME CInv
  PROVE  /\ cpu.rip \in {"text", "lib", "sigprocmask", "user"} => Len(own[cur]) = 1
         /\ cpu.sti => Len(own[cur]) = 1
         /\ cpu.rip \in {"irq_handle", "handler"} =>
              Len(own[cur]) > 1 /\ cpu.c = <<cur, Len(own[cur]) - 1>> /\ cpu.at = cpu.c
<1>1. CASE Len(own[cur]) = 1
  BY <1>1, CurrentFacts DEF AtBase
<1>2. CASE Len(own[cur]) > 1
  BY <1>2, CurrentFacts DEF AtInterrupt
<1>3. Len(own[cur]) = 1 \/ Len(own[cur]) > 1
  <2> DEFINE n == Len(own[cur])
  <2>1. n \in Nat \ {0}
    BY CurrentFacts
  <2> HIDE DEF n
  <2>2. n = 1 \/ n > 1
    BY <2>1
  <2> QED
    BY <2>2 DEF n
<1> QED
  BY <1>1, <1>2, <1>3, Zenon

\* The Contexts of the thread that runs are within its stack.
LEMMA CurrentSlots ==
  ASSUME CInv
  PROVE  /\ cur \in Thread /\ Len(own[cur]) \in Nat \ {0} /\ Len(own[cur]) - 1 <= DEPTH
         /\ \A k \in 1..(Len(own[cur]) - 1) : <<cur, k>> \in Slot
<1>1. cur \in Thread
  BY DEF CInv, CTypes
<1>2. Len(own[cur]) \in Nat \ {0}
  BY CurrentFacts
<1>3. Len(own[cur]) - 1 <= DEPTH
  BY CurrentFacts DEF ThreadInv, Interrupted
<1>4. DEPTH \in Nat
  BY NativeCteAssumption
<1> QED
  BY <1>1, <1>2, <1>3, <1>4 DEF Slot

\* A thread that does not run and is not touched.
LEMMA OtherThread ==
  ASSUME NEW t \in Thread, ThreadInv(t), t # cur, t # cur',
         own'[t] = own[t], ctx'[t] = ctx[t], space'[t] = space[t], heads \subseteq heads',
         \A k \in 1..DEPTH : stack'[<<t, k>>] = stack[<<t, k>>]
  PROVE  ThreadInv(t)'
<1>1. Interrupted(t)' = Interrupted(t) /\ Interrupted(t) = Len(own[t])
  BY DEF Interrupted
<1>2. AtBase(t, own[t][1].r)'
  BY DEF ThreadInv, AtBase
<1>3. \A k \in 2..Len(own[t]) : AtInterrupt(t, k)'
  BY DEF ThreadInv, AtInterrupt
<1>4. \A k \in 1..Interrupted(t) : Saved(t, k)'
  BY <1>1, NativeCteAssumption DEF ThreadInv, Saved
<1> QED
  BY <1>1, <1>2, <1>3, <1>4 DEF ThreadInv

-----------------------------------------------------------------------------
(* What is done to the address spaces.                                     *)

\* Only irq_return and vme touch them, and they do what NativeVme allows.
LEMMA OnlyVme ==
  ASSUME CInv, [CNext]_cvars
  PROVE  [NNext]_nvars
<1>1. ASSUME NEW t \in Thread, irq_return(t)
      PROVE  [NNext]_nvars
  <2>1. cpu.c \in Slot
    <3>1. Len(own[cur]) > 1 /\ cpu.c = <<cur, Len(own[cur]) - 1>>
      BY <1>1, WhereCurrent DEF irq_return
    <3> QED
      BY <3>1, CurrentSlots
  <2> DEFINE last == [ctx EXCEPT ![cur] = cpu.c]
  <2>2. last[t] \in Slot
    BY <1>1, <2>1 DEF irq_return, CInv, CTypes
  <2>3. stack[last[t]].vm_head \in heads \cup {NULL}
    BY <2>2 DEF CInv, CTypes, SavedContext
  <2>4. Switched(stack[last[t]].vm_head)
    BY <1>1 DEF irq_return
  <2> HIDE DEF last
  <2> QED
    BY <2>3, <2>4 DEF Switched, NNext
<1>2. CASE vme
  BY <1>2 DEF vme, NNext
<1>3. CASE \/ irq_handle \/ compute \/ call_lib \/ ret_lib \/ yield \/ syscall \/ pagefault
           \/ \E b \in BOOLEAN : iset(b)
           \/ \E s \in IRQ : signal(s) \/ deliver(s)
           \/ \E t \in KThread : kcontext(t)
           \/ \E t \in UThread, h \in heads : ucontext(t, h)
  BY <1>3 DEF irq_handle, compute, call_lib, ret_lib, yield, syscall, pagefault, iset, signal,
              deliver, kcontext, ucontext, Steps, Trap, sig_handler, Made
<1>4. CASE UNCHANGED cvars
  BY <1>4 DEF cvars
<1> QED
  BY <1>1, <1>2, <1>3, <1>4 DEF CNext

\* They are never taken away.
LEMMA HeadsStay ==
  ASSUME [NNext]_nvars
  PROVE  heads \subseteq heads'
BY DEF NNext, nvars, vme_init, protect, __am_switch, map

\* A step that leaves registers, stacks and threads alone.
LEMMA OnlyAddressSpaces ==
  ASSUME CInv, NInv', heads \subseteq heads', vm_head' = vm_head,
         ev' \in Event, ev' = ev \/ cpu.rip # "irq_handle",
         UNCHANGED <<cpu, ksp, stack, kernel, own>>
  PROVE  CInv'
<1>1. CTypes'
  <2>1. stack \in [Slot -> SavedContext'] /\ space \in [Thread -> heads' \cup {NULL}]
    BY DEF CInv, CTypes, SavedContext
  <2> QED
    BY <2>1 DEF CInv, CTypes, kernel
<1>2. RunsIntact' /\ ctx'[cur'] # NULL
  BY DEF CInv, RunsIntact, kernel
<1>3. ASSUME NEW t \in Thread, ctx[t] # NULL
      PROVE  ThreadInv(t)'
  <2>1. ThreadInv(t) /\ UNCHANGED <<cpu, stack, cur, ctx, own, space>>
    BY <1>3 DEF CInv, kernel
  <2>2. Interrupted(t)' = Interrupted(t)
    BY <2>1 DEF Interrupted
  <2>3. AtBase(t, own[t][1].r)'
    BY <2>1 DEF ThreadInv, AtBase
  <2>4. \A k \in 2..Len(own[t]) : AtInterrupt(t, k)'
    BY <2>1 DEF ThreadInv, AtInterrupt
  <2>5. \A k \in 1..Interrupted(t) : Saved(t, k)'
    BY <2>1, <2>2 DEF ThreadInv, Saved
  <2> QED
    BY <2>1, <2>2, <2>3, <2>4, <2>5 DEF ThreadInv
<1> QED
  BY <1>1, <1>2, <1>3 DEF CInv, kernel

-----------------------------------------------------------------------------
(* The steps of the thread that runs.                                      *)

\* They touch neither the history nor the stack of another.
LEMMA OthersKept ==
  ASSUME CInv, ThreadInv(cur)', UNCHANGED <<cur, ctx, space>>, heads \subseteq heads',
         \A t \in Thread \ {cur} :
           own'[t] = own[t] /\ \A k \in 1..DEPTH : stack'[<<t, k>>] = stack[<<t, k>>]
  PROVE  \A t \in Thread : ctx'[t] # NULL => ThreadInv(t)'
<1> SUFFICES ASSUME NEW t \in Thread, ctx[t] # NULL
             PROVE  ThreadInv(t)'
  OBVIOUS
<1>1. CASE t = cur
  <2>1. t = cur'
    BY <1>1
  <2> QED
    BY <2>1
<1>2. CASE t # cur
  BY <1>2, OtherThread DEF CInv
<1> QED
  BY <1>1, <1>2

\* One that changes what this thread does, and no Context.
LEMMA StepsInv ==
  ASSUME CInv, NInv', NEW r \in Regs, Steps(r), Len(own[cur]) = 1, AtBase(cur, r)
  PROVE  CInv'
<1> DEFINE d == Replaced(own[cur], r)
<1>1. /\ cpu' = r /\ own' = [own EXCEPT ![cur] = d]
      /\ UNCHANGED <<vm_head, heads, ev, ksp, stack, work, cur, ctx, space>>
  BY DEF Steps, Doing, Replaced, nvars, kernel
<1>2. own \in [Thread -> Seq(Activity)] /\ cur \in Thread /\ own[cur] \in Seq(Activity)
  BY DEF CInv, CTypes
<1>3. d \in Seq(Activity) /\ Len(d) = 1 /\ d[1].r = r
  <2>1. Len(own[cur]) >= 1
    BY <1>2
  <2>2. d \in Seq(Activity) /\ Len(d) = Len(own[cur]) /\ d[Len(own[cur])].r = r
    BY <1>2, <2>1, DoingFacts
  <2> QED
    BY <2>2
<1> HIDE DEF d
<1>4. /\ own' \in [Thread -> Seq(Activity)] /\ own'[cur] = d
      /\ \A t \in Thread \ {cur} : own'[t] = own[t]
  BY <1>1, <1>2, <1>3
<1>5. CTypes'
  BY <1>1, <1>4 DEF CInv, CTypes, SavedContext
<1>6. r.rip # "irq_handle"
  BY DEF AtBase
<1>7. RunsIntact' /\ ctx'[cur'] # NULL
  BY <1>1, <1>3, <1>4, <1>6 DEF CInv, RunsIntact, Last
<1>8. ThreadInv(cur)'
  <2>1. Interrupted(cur)' = 0 /\ Len(own[cur])' = 1 /\ own'[cur][1].r = r
    BY <1>1, <1>3, <1>4 DEF Interrupted
  <2>2. AtBase(cur, own[cur][1].r)'
    BY <1>1, <2>1 DEF AtBase
  <2>3. 0 <= DEPTH /\ 1 >= 1 /\ 2..1 = {} /\ 1..0 = {}
    BY NativeCteAssumption
  <2>4. cur' = cur
    BY <1>1
  <2> QED
    BY <2>1, <2>2, <2>3, <2>4 DEF ThreadInv
<1>9. \A t \in Thread : ctx'[t] # NULL => ThreadInv(t)'
  BY <1>1, <1>4, <1>8, OthersKept
<1> QED
  BY <1>5, <1>7, <1>9 DEF CInv


\* Where setup_stack puts the Context, and what it saves there.
LEMMA TrapPlace ==
  ASSUME CInv, NEW event \in Event,
         \/ Len(own[cur]) = 1
         \/ cpu.rip = "handler" /\ event = "PAGEFAULT" /\ cpu.at[2] < DEPTH
  PROVE  /\ Below(IF __am_in_userspace THEN ksp ELSE cpu.at) = <<cur, Len(own[cur])>>
         /\ <<cur, Len(own[cur])>> \in Slot
         /\ Resume(event) \in Regs
         /\ Len(own[cur]) = 1 => AtBase(cur, Resume(event))
         /\ Len(own[cur]) # 1 => Resume(event) = cpu /\ cpu.rip = "handler"
<1> DEFINE n == Len(own[cur])
<1>1. cur \in Thread /\ cpu \in Regs /\ n \in Nat \ {0}
  BY CurrentSlots DEF CInv, CTypes
<1>2. Resume(event) \in Regs /\ Resume(event).rip = cpu.rip /\ Resume(event).at = cpu.at
  BY <1>1, AfterFacts DEF Resume
<1>3. CASE n = 1
  <2>1. AtBase(cur, cpu)
    BY <1>3, CurrentFacts
  <2>2. AtBase(cur, Resume(event))
    BY <1>2, <2>1 DEF AtBase
  <2>3. Below(IF __am_in_userspace THEN ksp ELSE cpu.at) = <<cur, 1>>
    <3>1. CASE cur \in UThread
      <4>1. vm_head = space[cur] /\ ksp = End(cur)
        BY <3>1 DEF CInv, RunsIntact
      <4>2. vm_head \in heads /\ cpu.rip = "user"
        BY <2>1, <3>1, <4>1 DEF AtBase
      <4>3. vm_head # NULL /\ vme_enable
        BY <4>2, NativeVmeAssumption DEF CInv, NInv, NTypeOK, HostInv
      <4> QED
        BY <1>1, <4>1, <4>2, <4>3, Places DEF __am_in_userspace
    <3>2. CASE cur \notin UThread
      <4>1. cpu.rip # "user" /\ cpu.at = End(cur)
        BY <2>1, <3>2 DEF AtBase
      <4> QED
        BY <1>1, <4>1, Places DEF __am_in_userspace
    <3> QED
      BY <3>1, <3>2
  <2> QED
    BY <1>1, <1>2, <1>3, <2>2, <2>3, Places
<1>4. CASE n # 1
  <2>1. cpu.rip = "handler" /\ event = "PAGEFAULT" /\ cpu.at[2] < DEPTH
    BY <1>4
  <2>2. cpu.at = <<cur, n - 1>>
    BY <2>1, WhereCurrent
  <2> HIDE DEF n
  <2>3. n - 1 \in Nat /\ n - 1 < DEPTH /\ DEPTH \in Nat /\ n \in 1..DEPTH
    BY <1>1, <2>1, <2>2, NativeCteAssumption
  <2>4. Below(cpu.at) = <<cur, n>> /\ <<cur, n>> \in Slot
    BY <1>1, <2>2, <2>3 DEF Below, Slot
  <2>5. ~__am_in_userspace /\ Resume(event) = cpu
    BY <2>1 DEF __am_in_userspace, Resume
  <2> QED
    BY <1>2, <1>4, <2>1, <2>4, <2>5 DEF n
<1> QED
  BY <1>3, <1>4

\* The Context c with other registers.
LEMMA SavesRegisters ==
  ASSUME CInv, NEW c \in Slot, NEW r \in Regs, stack' = [stack EXCEPT ![c].uc = r]
  PROVE  /\ stack' \in [Slot -> SavedContext]
         /\ stack'[c].uc = r
         /\ \A s \in Slot \ {c} : stack'[s] = stack[s]
<1>1. stack \in [Slot -> SavedContext] /\ stack[c] \in SavedContext
  BY DEF CInv, CTypes
<1> DEFINE x == [stack[c] EXCEPT !.uc = r]
<1>2. x \in SavedContext /\ x.uc = r
  BY <1>1 DEF SavedContext
<1>3. stack' = [stack EXCEPT ![c] = x]
  OBVIOUS
<1> HIDE DEF x
<1> QED
  BY <1>1, <1>2, <1>3

\* The history of the thread that is interrupted.
LEMMA TrapHistory ==
  ASSUME CInv, NEW r \in Regs, NEW x \in Activity,
         own' = [Doing(r) EXCEPT ![cur] = Append(@, x)]
  PROVE  /\ own' \in [Thread -> Seq(Activity)]
         /\ \A t \in Thread \ {cur} : own'[t] = own[t]
         /\ Len(own'[cur]) = Len(own[cur]) + 1
         /\ \A k \in 1..(Len(own[cur]) - 1) : own'[cur][k] = own[cur][k]
         /\ own'[cur][Len(own[cur])].r = r
         /\ own'[cur][Len(own[cur]) + 1] = x
<1> DEFINE n == Len(own[cur])
           d == Replaced(own[cur], r)
<1>1. own \in [Thread -> Seq(Activity)] /\ cur \in Thread /\ own[cur] \in Seq(Activity)
  BY DEF CInv, CTypes
<1>2. n \in Nat /\ n >= 1
  BY CurrentSlots
<1>3. d \in Seq(Activity) /\ Len(d) = n /\ d[n].r = r /\ \A k \in 1..(n - 1) : d[k] = own[cur][k]
  BY <1>1, <1>2, DoingFacts
<1>4. own' = [[own EXCEPT ![cur] = d] EXCEPT ![cur] = Append(@, x)]
  BY DEF Doing, Replaced
<1> HIDE DEF d, n
<1>5. own' = [own EXCEPT ![cur] = Append(d, x)]
  BY <1>1, <1>4
<1>6. /\ Append(d, x) \in Seq(Activity) /\ Len(Append(d, x)) = n + 1
      /\ \A k \in 1..n : Append(d, x)[k] = d[k]
      /\ Append(d, x)[n + 1] = x
  BY <1>3
<1> DEFINE a == Append(d, x)
<1> HIDE DEF a
<1>7. own'[cur] = a /\ own' \in [Thread -> Seq(Activity)] /\ \A t \in Thread \ {cur} : own'[t] = own[t]
  BY <1>1, <1>5, <1>6 DEF a
<1>8. /\ Len(a) = n + 1 /\ a[n + 1] = x /\ a[n].r = r
      /\ \A k \in 1..(n - 1) : a[k] = own[cur][k]
  BY <1>2, <1>3, <1>6 DEF a
<1> QED
  BY <1>7, <1>8 DEF n

\* A signal: nothing happens in library code; anywhere else what the thread does
\* is saved on its stack.
LEMMA TrapInv ==
  ASSUME CInv, NInv', NEW event \in Event, sig_handler(event),
         \/ Len(own[cur]) = 1
         \/ cpu.rip = "handler" /\ event = "PAGEFAULT" /\ cpu.at[2] < DEPTH
  PROVE  CInv'
<1>1. /\ ev' = event /\ setup_stack(event)
      /\ UNCHANGED <<vm_head, heads, ksp, kernel, work, cur, ctx, space>>
  BY DEF sig_handler, kernel, nvars
<1>2. CASE event \in IRQ /\ cpu.rip = "lib"
  <2>1. UNCHANGED <<cpu, stack, own>>
    BY <1>1, <1>2 DEF setup_stack
  <2> QED
    BY <1>1, <1>2, <2>1, OnlyAddressSpaces
<1>3. CASE ~(event \in IRQ /\ cpu.rip = "lib")
  <2> DEFINE n == Len(own[cur])
             r == Resume(event)
             c == <<cur, n>>
             i == [rip |-> "irq_handle", pc |-> 0, sti |-> FALSE, at |-> c, c |-> c]
             x == [r |-> i, ev |-> event]
  <2>1. /\ Below(IF __am_in_userspace THEN ksp ELSE cpu.at) = c
        /\ c \in Slot /\ r \in Regs
        /\ n = 1 => AtBase(cur, r)
        /\ n # 1 => r = cpu /\ cpu.rip = "handler"
    BY TrapPlace
  <2>2. stack' = [stack EXCEPT ![c].uc = r] /\ cpu' = i
    BY <1>1, <1>3, <2>1 DEF setup_stack
  <2>3. own' = [Doing(r) EXCEPT ![cur] = Append(@, x)]
    BY <1>1, <1>3, <2>2 DEF setup_stack
  <2>4. /\ cur \in Thread /\ n \in Nat \ {0} /\ n - 1 <= DEPTH
        /\ \A k \in 1..(n - 1) : <<cur, k>> \in Slot
    BY CurrentSlots
  <2>5. i \in Regs /\ x \in Activity
    <3>1. c \in Place
      BY <2>1, <2>4, Places
    <3> HIDE DEF c
    <3>2. i \in Regs
      <4>1. "irq_handle" \in Region /\ FALSE \in BOOLEAN /\ c \in Place \cup {NULL}
        BY <3>1 DEF Region
      <4> QED
        BY <3>1, <4>1, RegsFacts, Zenon
    <3> HIDE DEF i
    <3> QED
      BY <3>2 DEF Activity
  <2>6. /\ i.rip = "irq_handle" /\ ~i.sti /\ i.at = c /\ i.c = c
        /\ x.r = i /\ x.ev = event
    OBVIOUS
  <2>7. /\ stack' \in [Slot -> SavedContext] /\ stack'[c].uc = r
        /\ \A s \in Slot \ {c} : stack'[s] = stack[s]
    BY <2>1, <2>2, SavesRegisters
  <2> HIDE DEF i, x, r
  <2>8. /\ own' \in [Thread -> Seq(Activity)]
        /\ \A t \in Thread \ {cur} : own'[t] = own[t]
        /\ Len(own'[cur]) = n + 1
        /\ \A k \in 1..(n - 1) : own'[cur][k] = own[cur][k]
        /\ own'[cur][n].r = r
        /\ own'[cur][n + 1] = x
    BY <2>1, <2>3, <2>5, TrapHistory
  <2>9. CTypes'
    BY <1>1, <2>2, <2>5, <2>7, <2>8 DEF CInv, CTypes, SavedContext
  <2>10. RunsIntact' /\ ctx'[cur'] # NULL
    <3>1. Last(own'[cur]) = x
      BY <2>8 DEF Last
    <3> QED
      BY <1>1, <2>2, <2>6, <3>1 DEF CInv, RunsIntact
  <2>11. ThreadInv(cur)
    BY CurrentFacts
  <2>12. cpu.rip # "irq_handle"
    <3>1. CASE n = 1
      BY <3>1, CurrentFacts DEF AtBase
    <3>2. CASE n # 1
      BY <3>2, <2>1
    <3> QED
      BY <3>1, <3>2
  <2>13. cpu = own[cur][n].r
    BY CurrentFacts
  <2>14. ThreadInv(cur)'
    <3>1. Len(own[cur])' = n + 1 /\ Interrupted(cur)' = n /\ Interrupted(cur) = n - 1 /\ cur' = cur
      BY <1>1, <2>4, <2>8 DEF Interrupted
    <3>2. n <= DEPTH
      BY <2>1, <2>4 DEF Slot
    <3> HIDE DEF n
    <3>3. AtBase(cur, own[cur][1].r)'
      <4>1. CASE n = 1
        BY <1>1, <2>1, <2>8, <4>1 DEF AtBase
      <4>2. CASE n # 1
        <5>1. 1 \in 1..(n - 1)
          BY <2>4, <4>2
        <5> QED
          BY <1>1, <2>8, <2>11, <5>1 DEF AtBase, ThreadInv
      <4> QED
        BY <4>1, <4>2
    <3>4. ASSUME NEW k \in 2..(n + 1)
          PROVE  AtInterrupt(cur, k)'
      <4>1. CASE k = n + 1
        BY <1>1, <2>4, <2>6, <2>8, <3>1, <4>1 DEF AtInterrupt
      <4>2. CASE k \in 2..n
        <5>1. AtInterrupt(cur, k) /\ n = Len(own[cur])
          BY <2>11, <4>2 DEF ThreadInv, n
        <5>2. own'[cur][k].r = own[cur][k].r
          <6>1. CASE k = n
            BY <2>1, <2>4, <2>8, <2>13, <4>2, <6>1
          <6>2. CASE k \in 1..(n - 1)
            BY <2>8, <6>2
          <6> QED
            BY <2>4, <4>2, <6>1, <6>2
        <5>3. own[cur][k].r.rip = "handler"
          BY <2>12, <2>13, <5>1 DEF AtInterrupt
        <5> QED
          BY <1>1, <5>1, <5>2, <5>3 DEF AtInterrupt
      <4> QED
        BY <2>4, <4>1, <4>2
    <3>5. ASSUME NEW k \in 1..n
          PROVE  Saved(cur, k)'
      <4>1. CASE k = n
        BY <1>1, <2>2, <2>6, <2>7, <2>8, <3>1, <4>1 DEF Saved
      <4>2. CASE k \in 1..(n - 1)
        <5>1. Saved(cur, k)
          BY <2>11, <3>1, <4>2 DEF ThreadInv
        <5>2. <<cur, k>> \in Slot \ {c}
          BY <2>4, <4>2
        <5>3. stack'[<<cur, k>>] = stack[<<cur, k>>] /\ own'[cur][k] = own[cur][k]
          BY <2>7, <2>8, <4>2, <5>2
        <5> QED
          BY <1>1, <2>12, <5>1, <5>3 DEF Saved
      <4> QED
        BY <2>4, <4>1, <4>2
    <3>6. n + 1 >= 1
      BY <2>4
    <3> QED
      BY <3>1, <3>2, <3>3, <3>4, <3>5, <3>6 DEF ThreadInv
  <2>15. \A t \in Thread \ {cur} : \A k \in 1..DEPTH : stack'[<<t, k>>] = stack[<<t, k>>]
    BY <2>7, Places
  <2>16. \A t \in Thread : ctx'[t] # NULL => ThreadInv(t)'
    BY <1>1, <2>8, <2>14, <2>15, OthersKept
  <2> QED
    BY <2>9, <2>10, <2>16 DEF CInv
<1> QED
  BY <1>2, <1>3

\* The Context c completed by irq_handle.
LEMMA SavesSpace ==
  ASSUME CInv, NEW c \in Slot, 
         stack' = [stack EXCEPT ![c].vm_head = vm_head, ![c].ksp = ksp]
  PROVE  /\ stack' \in [Slot -> SavedContext]
         /\ stack'[c].uc = stack[c].uc /\ stack'[c].vm_head = vm_head /\ stack'[c].ksp = ksp
         /\ \A s \in Slot \ {c} : stack'[s] = stack[s]
<1>1. /\ stack \in [Slot -> SavedContext] /\ stack[c] \in SavedContext
      /\ vm_head \in heads \cup {NULL} /\ ksp \in Place
  BY DEF CInv, CTypes, NInv, NTypeOK
<1> DEFINE x == [[stack[c] EXCEPT !.vm_head = vm_head] EXCEPT !.ksp = ksp]
<1>2. x \in SavedContext /\ x.uc = stack[c].uc /\ x.vm_head = vm_head /\ x.ksp = ksp
  BY <1>1 DEF SavedContext
<1>3. stack' = [stack EXCEPT ![c] = x]
  BY <1>1
<1> HIDE DEF x
<1> QED
  BY <1>1, <1>2, <1>3

\* irq_handle completes the Context and calls the handler.
LEMMA IrqHandleInv ==
  ASSUME CInv, NInv', irq_handle
  PROVE  CInv'
<1> DEFINE n == Len(own[cur])
           r == [cpu EXCEPT !.rip = "handler"]
           c == <<cur, n - 1>>
           d == Replaced(own[cur], r)
<1>1. /\ cpu.rip = "irq_handle" /\ cpu' = r /\ own' = [own EXCEPT ![cur] = d]
      /\ stack' = [stack EXCEPT ![cpu.c].vm_head = vm_head, ![cpu.c].ksp = ksp]
      /\ UNCHANGED <<vm_head, heads, ev, ksp, work, cur, ctx, space>>
  BY DEF irq_handle, Doing, Replaced, nvars, kernel
<1>2. /\ cur \in Thread /\ n \in Nat \ {0} /\ n - 1 <= DEPTH
      /\ \A k \in 1..(n - 1) : <<cur, k>> \in Slot
  BY CurrentSlots
<1>3. /\ n > 1 /\ cpu.c = c
      /\ cpu = own[cur][n].r /\ ThreadInv(cur) /\ own[cur] \in Seq(Activity)
  BY <1>1, WhereCurrent, CurrentFacts
<1>4. /\ r \in Regs /\ r.rip = "handler" /\ r.at = cpu.at /\ r.c = cpu.c /\ r.sti = cpu.sti
  <2>1. cpu \in Regs /\ "handler" \in Region
    BY DEF CInv, CTypes, Region
  <2> QED
    BY <2>1 DEF Regs
<1>5. c \in Slot
  BY <1>2, <1>3
<1>6. /\ stack' \in [Slot -> SavedContext]
      /\ stack'[c].uc = stack[c].uc /\ stack'[c].vm_head = vm_head /\ stack'[c].ksp = ksp
      /\ \A s \in Slot \ {c} : stack'[s] = stack[s]
  BY <1>1, <1>3, <1>5, SavesSpace
<1>7. /\ d \in Seq(Activity) /\ Len(d) = n /\ d[n].r = r
      /\ \A k \in 1..(n - 1) : d[k] = own[cur][k]
  <2>1. Len(own[cur]) >= 1
    BY <1>3
  <2> QED
    BY <1>3, <1>4, <2>1, DoingFacts
<1> HIDE DEF d, r
<1>8. /\ own' \in [Thread -> Seq(Activity)] /\ own'[cur] = d
      /\ \A t \in Thread \ {cur} : own'[t] = own[t]
  <2>1. own \in [Thread -> Seq(Activity)]
    BY DEF CInv, CTypes
  <2> QED
    BY <2>1, <1>1, <1>2, <1>7
<1>9. CTypes'
  BY <1>1, <1>4, <1>6, <1>8 DEF CInv, CTypes, SavedContext
<1>10. RunsIntact' /\ ctx'[cur'] # NULL
  <2>1. Last(own'[cur]).r = r
    BY <1>7, <1>8 DEF Last
  <2> QED
    BY <1>1, <1>4, <2>1 DEF CInv, RunsIntact
<1>11. ThreadInv(cur)'
  <2>1. /\ Len(own[cur])' = n /\ Interrupted(cur)' = n - 1 /\ Interrupted(cur) = n - 1
        /\ cur' = cur
    BY <1>1, <1>7, <1>8 DEF Interrupted
  <2>2. AtInterrupt(cur, n)
    BY <1>3, CurrentFacts
  <2>3. vm_head = space[cur] /\ (cur \in UThread => ksp = End(cur))
    BY DEF CInv, RunsIntact
  <2> HIDE DEF n
  <2>4. AtBase(cur, own[cur][1].r)'
    <3>1. 1 \in 1..(n - 1)
      BY <1>2, <1>3
    <3>2. own'[cur][1] = own[cur][1]
      BY <1>7, <1>8, <3>1
    <3>3. AtBase(cur, own[cur][1].r)
      BY <1>3 DEF ThreadInv
    <3> QED
      BY <1>1, <3>2, <3>3 DEF AtBase
  <2>5. ASSUME NEW k \in 2..n
        PROVE  AtInterrupt(cur, k)'
    <3>1. CASE k = n
      BY <1>1, <1>3, <1>4, <1>7, <1>8, <2>2, <3>1 DEF AtInterrupt
    <3>2. CASE k \in 2..(n - 1)
      <4>1. AtInterrupt(cur, k) /\ n = Len(own[cur])
        BY <1>3 DEF ThreadInv, n
      <4>2. k \in 1..(n - 1)
        BY <3>2
      <4>3. own'[cur][k] = own[cur][k]
        BY <1>7, <1>8, <4>2
      <4>4. own[cur][k].r.rip = "handler"
        BY <1>2, <3>2, <4>1 DEF AtInterrupt
      <4> QED
        BY <1>1, <4>1, <4>3, <4>4 DEF AtInterrupt
    <3> QED
      BY <1>2, <3>1, <3>2
  <2>6. ASSUME NEW k \in 1..(n - 1)
        PROVE  Saved(cur, k)'
    <3>1. Saved(cur, k)
      BY <1>3, <2>1 DEF ThreadInv
    <3>2. own'[cur][k] = own[cur][k]
      BY <1>7, <1>8
    <3>3. CASE k = n - 1
      BY <1>1, <1>6, <2>3, <3>1, <3>2, <3>3 DEF Saved
    <3>4. CASE k # n - 1
      <4>1. <<cur, k>> \in Slot \ {c}
        BY <1>2, <3>4
      <4>2. stack'[<<cur, k>>] = stack[<<cur, k>>]
        BY <1>6, <4>1
      <4> QED
        BY <1>1, <2>1, <3>1, <3>2, <3>4, <4>2 DEF Saved
    <3> QED
      BY <3>3, <3>4
  <2>7. n >= 1
    BY <1>2
  <2> QED
    BY <1>2, <2>1, <2>4, <2>5, <2>6, <2>7 DEF ThreadInv
<1>12. \A t \in Thread \ {cur} : \A k \in 1..DEPTH : stack'[<<t, k>>] = stack[<<t, k>>]
  BY <1>6, Places
<1>13. \A t \in Thread : ctx'[t] # NULL => ThreadInv(t)'
  BY <1>1, <1>8, <1>11, <1>12, OthersKept
<1> QED
  BY <1>9, <1>10, <1>13 DEF CInv

\* Once the handler returns, every thread is left with what was interrupted.
LEMMA Left ==
  ASSUME NEW u \in Thread, ThreadInv(u), cpu.rip = "handler",
         Interrupted(u) \in Nat, Interrupted(u) >= 1, Interrupted(u) <= Len(own[u]),
         Len(own'[u]) = Interrupted(u), ctx'[u] = <<u, Interrupted(u)>>,
         \A k \in 1..Interrupted(u) : own'[u][k] = own[u][k],
         heads' = heads, UNCHANGED <<stack, space>>
  PROVE  /\ ThreadInv(u)'
         /\ own[u][Interrupted(u)].r.rip # "irq_handle"
         /\ Saved(u, Interrupted(u))
<1> DEFINE L == Interrupted(u)
<1>1. ASSUME NEW k \in 1..L
      PROVE  own[u][k].r.rip # "irq_handle" /\ Saved(u, k)
  <2>1. Saved(u, k)
    BY DEF ThreadInv
  <2>2. CASE k = 1
    <3>1. AtBase(u, own[u][1].r)
      BY DEF ThreadInv
    <3> QED
      BY <2>1, <2>2, <3>1 DEF AtBase
  <2>3. CASE k # 1
    <3>1. k \in 2..Len(own[u])
      BY <2>3 DEF Interrupted
    <3>2. AtInterrupt(u, k)
      BY <3>1 DEF ThreadInv
    <3>3. u = cur => k # Len(own[u])
      BY DEF Interrupted
    <3> QED
      BY <2>1, <3>2, <3>3 DEF AtInterrupt
  <2> QED
    BY <2>2, <2>3
<1>2. AtBase(u, own[u][1].r)'
  <2>1. AtBase(u, own[u][1].r) /\ own'[u][1] = own[u][1]
    BY DEF ThreadInv
  <2> QED
    BY <2>1 DEF AtBase
<1>3. Len(own[u])' = L /\ Interrupted(u)' \in {L, L - 1}
  BY DEF Interrupted
<1>4. ASSUME NEW k \in 2..L
      PROVE  AtInterrupt(u, k)'
  <2>1. k \in 2..Len(own[u]) /\ k \in 1..L
    BY DEF Interrupted
  <2>2. AtInterrupt(u, k) /\ own[u][k].r.rip # "irq_handle" /\ own'[u][k] = own[u][k]
    BY <1>1, <2>1 DEF ThreadInv
  <2> QED
    BY <2>2 DEF AtInterrupt
<1>5. ASSUME NEW k \in 1..L
      PROVE  Saved(u, k)'
  <2>1. own'[u][k] = own[u][k] /\ Saved(u, k)
    BY <1>1
  <2> QED
    BY <2>1 DEF Saved
<1>6. L <= DEPTH /\ DEPTH \in Nat
  BY NativeCteAssumption DEF ThreadInv
<1>7. ThreadInv(u)'
  <2> HIDE DEF L
  <2>1. L \in Nat /\ L >= 1
    BY DEF L
  <2>2. Interrupted(u)' <= DEPTH /\ \A k \in 1..Interrupted(u)' : k \in 1..L
    BY <1>3, <1>6, <2>1
  <2> QED
    BY <1>2, <1>3, <1>4, <1>5, <2>1, <2>2 DEF ThreadInv, L
<1> QED
  BY <1>1, <1>7

\* The handler returns the Context of t, and t goes on with what that says.
LEMMA IrqReturnInv ==
  ASSUME CInv, NInv', NEW t \in Thread, irq_return(t)
  PROVE  CInv'
<1> DEFINE n == Len(own[cur])
           o == Front(own[cur])
           last == [ctx EXCEPT ![cur] = cpu.c]
           h == stack[last[t]].vm_head
<1>1. /\ cpu.rip = "handler" /\ ctx[t] # NULL /\ ctx' = last
      /\ cpu' = stack[last[t]].uc /\ ksp' = stack[last[t]].ksp
      /\ Switched(h)
      /\ ev' = "ERROR" /\ cur' = t /\ own' = [own EXCEPT ![cur] = o]
      /\ UNCHANGED <<stack, space, work>>
  BY DEF irq_return, iret
<1>2. /\ cur \in Thread /\ n \in Nat \ {0} /\ n - 1 <= DEPTH
      /\ \A k \in 1..(n - 1) : <<cur, k>> \in Slot
  BY CurrentSlots
<1>3. n > 1 /\ cpu.c = <<cur, n - 1>> /\ own[cur] \in Seq(Activity)
  BY <1>1, WhereCurrent, CurrentFacts
<1>4. /\ own \in [Thread -> Seq(Activity)] /\ DEPTH \in Nat
      /\ ctx \in [Thread -> Slot \cup {NULL}] /\ stack \in [Slot -> SavedContext]
      /\ space \in [Thread -> heads \cup {NULL}] /\ work \in Work
  BY NativeCteAssumption DEF CInv, CTypes
<1>5. heads' = heads
  BY <1>1 DEF Switched, __am_switch, nvars
<1>6. o \in Seq(Activity) /\ Len(o) = n - 1 /\ \A k \in 1..(n - 1) : o[k] = own[cur][k]
  BY <1>3 DEF Front
<1> HIDE DEF o
<1>7. /\ own' \in [Thread -> Seq(Activity)] /\ own'[cur] = o
      /\ \A u \in Thread \ {cur} : own'[u] = own[u]
  BY <1>1, <1>2, <1>4, <1>6
<1>8. /\ last \in [Thread -> Slot \cup {NULL}] /\ last[cur] = <<cur, n - 1>>
      /\ \A u \in Thread \ {cur} : last[u] = ctx[u]
  <2>1. cpu.c \in Slot
    BY <1>2, <1>3
  <2> QED
    BY <1>2, <1>3, <1>4, <2>1
<1> HIDE DEF last
<1>9. ASSUME NEW u \in Thread, ctx[u] # NULL
      PROVE  /\ ThreadInv(u)
             /\ Interrupted(u) \in 1..DEPTH /\ Interrupted(u) <= Len(own[u])
             /\ Len(own'[u]) = Interrupted(u) /\ last[u] = <<u, Interrupted(u)>>
             /\ \A k \in 1..Interrupted(u) : own'[u][k] = own[u][k]
  <2>1. ThreadInv(u)
    BY <1>9 DEF CInv
  <2>2. CASE u = cur
    <3>1. Interrupted(u) = n - 1
      BY <2>2 DEF Interrupted
    <3>2. Len(own'[u]) = n - 1 /\ \A k \in 1..(n - 1) : own'[u][k] = own[u][k]
      BY <1>6, <1>7, <2>2
    <3>3. n = Len(own[u]) /\ last[u] = <<u, n - 1>>
      BY <1>8, <2>2
    <3> HIDE DEF n
    <3>4. n - 1 \in 1..DEPTH /\ n - 1 <= n
      BY <1>2, <1>3, <1>4
    <3> QED
      BY <2>1, <3>1, <3>2, <3>3, <3>4
  <2>3. CASE u # cur
    <3>1. Interrupted(u) = Len(own[u]) /\ Len(own[u]) \in Nat
      BY <1>4, <2>3 DEF Interrupted
    <3>2. Len(own[u]) >= 1 /\ Len(own[u]) <= DEPTH /\ ctx[u] = <<u, Len(own[u])>>
      BY <2>1, <2>3, <3>1 DEF ThreadInv
    <3> QED
      BY <1>4, <1>7, <1>8, <2>1, <2>3, <3>1, <3>2
  <2> QED
    BY <2>2, <2>3
<1>10. ASSUME NEW u \in Thread, ctx[u] # NULL
       PROVE  /\ ThreadInv(u)'
              /\ own[u][Interrupted(u)].r.rip # "irq_handle"
              /\ Saved(u, Interrupted(u))
  <2>1. /\ Interrupted(u) \in Nat /\ Interrupted(u) >= 1 
        /\ ctx'[u] = <<u, Interrupted(u)>>
    BY <1>1, <1>4, <1>9, <1>10
  <2> QED
    BY <1>1, <1>5, <1>9, <1>10, <2>1, Left
<1> DEFINE s == Interrupted(t)
\* The Context that is resumed.
<1>11. /\ last[t] = <<t, s>> /\ <<t, s>> \in Slot /\ <<t, s>> # NULL
       /\ Len(own'[t]) = s /\ own'[t][s] = own[t][s]
       /\ own[t][s].r.rip # "irq_handle" /\ Saved(t, s)
  <2>1. s \in 1..DEPTH /\ s \in 1..s
    BY <1>1, <1>4, <1>9
  <2>2. Len(own'[t]) = s /\ last[t] = <<t, s>> /\ own'[t][s] = own[t][s]
    BY <1>1, <1>9, <2>1
  <2>3. own[t][s].r.rip # "irq_handle" /\ Saved(t, s)
    BY <1>1, <1>10
  <2>4. <<t, s>> \in Slot /\ <<t, s>> # NULL
    BY <2>1, Places
  <2> QED
    BY <2>2, <2>3, <2>4
<1>12. /\ stack[<<t, s>>].uc = own[t][s].r
       /\ stack[<<t, s>>].vm_head = space[t]
       /\ t \in UThread => stack[<<t, s>>].ksp = End(t)
       /\ stack[<<t, s>>] \in SavedContext
  BY <1>1, <1>4, <1>11 DEF Saved
<1> HIDE DEF s
<1>13. vm_head' = space[t]
  <2>1. h = space[t]
    BY <1>11, <1>12
  <2>2. vm_head \in heads \cup {NULL} /\ space[t] \in heads \cup {NULL} /\ (~vme_enable => heads = {})
    BY <1>4 DEF CInv, NInv, NTypeOK, HostInv
  <2>3. CASE vme_enable /\ h # vm_head
    BY <1>1, <2>1, <2>3 DEF Switched, __am_switch
  <2>4. CASE ~(vme_enable /\ h # vm_head)
    <3>1. vm_head' = vm_head
      BY <1>1, <2>4 DEF Switched, nvars
    <3> QED
      BY <2>1, <2>2, <2>4, <3>1
  <2> QED
    BY <2>3, <2>4
<1>14. CTypes'
  <2>1. cpu' \in Regs /\ ksp' \in Place
    BY <1>1, <1>11, <1>12 DEF SavedContext
  <2>2. ev' \in Event
    BY <1>1 DEF Event
  <2>3. stack' \in [Slot -> SavedContext'] /\ space' \in [Thread -> heads' \cup {NULL}]
    BY <1>1, <1>4, <1>5 DEF SavedContext
  <2>4. ctx' \in [Thread -> Slot \cup {NULL}] /\ work' \in Work /\ cur' \in Thread
    BY <1>1, <1>4, <1>8
  <2> QED
    BY <1>7, <2>1, <2>2, <2>3, <2>4 DEF CTypes
<1>15. RunsIntact' /\ ctx'[cur'] # NULL
  <2>1. Last(own'[t]).r = cpu' /\ cpu'.rip # "irq_handle"
    BY <1>1, <1>11, <1>12 DEF Last
  <2>2. t \in UThread => ksp' = End(t)
    BY <1>1, <1>11, <1>12
  <2> QED
    BY <1>1, <1>11, <1>13, <2>1, <2>2 DEF RunsIntact
<1>16. ASSUME NEW u \in Thread, ctx'[u] # NULL
       PROVE  ThreadInv(u)'
  <2>1. ctx[u] # NULL
    BY <1>1, <1>8, <1>16 DEF CInv
  <2> QED
    BY <1>10, <2>1
<1> QED
  BY <1>14, <1>15, <1>16 DEF CInv

-----------------------------------------------------------------------------
(* The steps of the kernel.                                                *)

\* A new thread: its Context is the first on its stack.
LEMMA MadeInv ==
  ASSUME CInv, NInv', NEW t \in Thread, NEW rip \in Region, NEW rsp \in Place,
         NEW h \in heads \cup {NULL}, NEW k \in Place, Made(t, rip, rsp, h, k),
         t \in UThread => rip = "user" /\ rsp = UserStack /\ h \in heads /\ k = End(t),
         t \notin UThread => rip = "text" /\ rsp = End(t)
  PROVE  CInv'
<1> DEFINE r == [rip |-> rip, pc |-> 0, sti |-> TRUE, at |-> rsp, c |-> NULL]
           x == [uc |-> r, vm_head |-> h, ksp |-> k]
           a == [r |-> r, ev |-> "none"]
           c == <<t, 1>>
<1>1. /\ ctx[t] = NULL /\ ctx' = [ctx EXCEPT ![t] = c]
      /\ stack' = [stack EXCEPT ![c] = x]
      /\ own' = [own EXCEPT ![t] = <<a>>]
      /\ space' = [space EXCEPT ![t] = h]
      /\ UNCHANGED <<vm_head, heads, cpu, ev, ksp, cur, work>>
  BY Places DEF Made, nvars
<1>2. c \in Slot /\ c # NULL /\ DEPTH \in Nat \ {0}
  BY Places, NativeCteAssumption
<1>3. /\ own \in [Thread -> Seq(Activity)]
      /\ ctx \in [Thread -> Slot \cup {NULL}] /\ stack \in [Slot -> SavedContext]
      /\ space \in [Thread -> heads \cup {NULL}] /\ cur \in Thread
  BY DEF CInv, CTypes
<1>4. r \in Regs
  <2>1. TRUE \in BOOLEAN /\ NULL \in Place \cup {NULL}
    OBVIOUS
  <2> QED
    BY <2>1, RegsFacts, Zenon
<1>5. r.rip = rip /\ r.at = rsp /\ x.uc = r /\ x.vm_head = h /\ x.ksp = k /\ a.r = r
  OBVIOUS
<1> HIDE DEF r
<1>6. x \in SavedContext
  BY <1>4 DEF SavedContext
<1>7. a \in Activity
  BY <1>4 DEF Activity, Event
<1> HIDE DEF x, a
<1>8. /\ stack' \in [Slot -> SavedContext] /\ stack'[c] = x
      /\ \A s \in Slot \ {c} : stack'[s] = stack[s]
  BY <1>1, <1>2, <1>3, <1>6
<1>9. <<a>> \in Seq(Activity) /\ Len(<<a>>) = 1 /\ <<a>>[1] = a
  BY <1>7
<1>10. /\ own' \in [Thread -> Seq(Activity)] /\ own'[t] = <<a>>
       /\ \A u \in Thread \ {t} : own'[u] = own[u]
  BY <1>1, <1>3, <1>9
<1>11. /\ ctx' \in [Thread -> Slot \cup {NULL}] /\ ctx'[t] = c
       /\ space' \in [Thread -> heads \cup {NULL}] /\ space'[t] = h
       /\ \A u \in Thread \ {t} : ctx'[u] = ctx[u] /\ space'[u] = space[u]
  BY <1>1, <1>2, <1>3
<1>12. t # cur
  BY <1>1 DEF CInv
<1>13. CTypes'
  BY <1>1, <1>8, <1>10, <1>11 DEF CInv, CTypes, SavedContext
<1>14. RunsIntact' /\ ctx'[cur'] # NULL
  BY <1>1, <1>3, <1>10, <1>11, <1>12 DEF CInv, RunsIntact
<1>15. ThreadInv(t)'
  <2>1. Len(own[t])' = 1 /\ Interrupted(t)' = 1 /\ own'[t][1].r = r /\ t # cur'
    BY <1>1, <1>5, <1>9, <1>10, <1>12 DEF Interrupted
  <2>2. AtBase(t, own[t][1].r)'
    BY <1>1, <1>5, <1>11, <2>1 DEF AtBase
  <2>3. Saved(t, 1)'
    BY <1>5, <1>8, <1>11, <2>1 DEF Saved, UserStack
  <2>4. 1 <= DEPTH /\ 1 >= 1 /\ 2..1 = {} /\ 1..1 = {1}
    BY <1>2
  <2> QED
    BY <1>11, <2>1, <2>2, <2>3, <2>4 DEF ThreadInv
<1>16. ASSUME NEW u \in Thread \ {t}, ctx[u] # NULL
       PROVE  ThreadInv(u)'
  <2>1. \A i \in 1..DEPTH : stack'[<<u, i>>] = stack[<<u, i>>]
    BY <1>8, Places
  <2>2. ThreadInv(u)
    BY <1>16 DEF CInv
  <2>3. CASE u # cur
    BY <1>1, <1>10, <1>11, <2>1, <2>2, <2>3, OtherThread
  <2>4. CASE u = cur
    <3>1. /\ cur' = cur /\ cpu' = cpu /\ own'[u] = own[u] /\ ctx'[u] = ctx[u]
          /\ space'[u] = space[u] /\ heads' = heads
      BY <1>1, <1>10, <1>11, <2>4
    <3>2. Interrupted(u)' = Interrupted(u) /\ Interrupted(u) <= DEPTH
      BY <2>2, <3>1 DEF Interrupted, ThreadInv
    <3>3. AtBase(u, own[u][1].r)' /\ \A i \in 2..Len(own[u]) : AtInterrupt(u, i)'
      BY <2>2, <3>1 DEF ThreadInv, AtBase, AtInterrupt
    <3>4. ASSUME NEW i \in 1..Interrupted(u)
          PROVE  Saved(u, i)'
      <4>1. i \in 1..DEPTH /\ Saved(u, i)
        BY <1>2, <1>3, <2>2, <2>4, <3>2 DEF ThreadInv, Interrupted
      <4> QED
        BY <2>1, <3>1, <3>2, <4>1 DEF Saved
    <3> QED
      BY <2>2, <2>4, <3>1, <3>2, <3>3, <3>4 DEF ThreadInv
  <2> QED
    BY <2>3, <2>4
<1>17. \A u \in Thread : ctx'[u] # NULL => ThreadInv(u)'
  BY <1>11, <1>15, <1>16
<1> QED
  BY <1>13, <1>14, <1>17 DEF CInv

-----------------------------------------------------------------------------
(* The theorems.                                                           *)

\* main starts with interrupts disabled and no Context of its own.
LEMMA CInitInv ==
  ASSUME CInit
  PROVE  CInv
<1>0. NInv
  BY NInitInv DEF CInit
<1> DEFINE a == [r |-> cpu, ev |-> "none"]
           x == [uc |-> cpu, vm_head |-> NULL, ksp |-> Garbage]
<1>1. /\ work \in Work /\ vm_head = NULL /\ ev = "none" /\ ksp = Garbage /\ cur = Boot
      /\ stack = [c \in Slot |-> x]
      /\ ctx = [t \in Thread |-> IF t = Boot THEN Below(End(Boot)) ELSE NULL]
      /\ own = [t \in Thread |-> <<a>>]
      /\ space = [t \in Thread |-> NULL]
  BY DEF CInit, NInit, Slot
<1>2. Boot \in Thread /\ Boot \notin UThread
  BY ThreadAssumption DEF Thread
<1>3. /\ Below(End(Boot)) = <<Boot, 1>> /\ <<Boot, 1>> \in Slot /\ <<Boot, 1>> # NULL
      /\ End(Boot) \in Place /\ Garbage \in Place /\ DEPTH \in Nat \ {0}
  BY <1>2, Places, NativeCteAssumption
<1>4. cpu \in Regs /\ cpu.rip = "text" /\ cpu.at = End(Boot)
  <2>1. cpu = [rip |-> "text", pc |-> 0, sti |-> FALSE, at |-> End(Boot), c |-> NULL]
    BY DEF CInit
  <2>2. "text" \in Region /\ FALSE \in BOOLEAN /\ NULL \in Place \cup {NULL}
    BY DEF Region
  <2>3. [rip |-> "text", pc |-> 0, sti |-> FALSE, at |-> End(Boot), c |-> NULL] \in Regs
    BY <1>3, <2>2, RegsFacts, Zenon
  <2>4. cpu.rip = "text" /\ cpu.at = End(Boot)
    BY <2>1
  <2> QED
    BY <2>1, <2>3, <2>4
<1>5. a \in Activity /\ a.r = cpu
  BY <1>4 DEF Activity, Event
<1>6. x \in SavedContext
  BY <1>3, <1>4 DEF SavedContext
<1> HIDE DEF a, x
<1>7. <<a>> \in Seq(Activity) /\ Len(<<a>>) = 1 /\ <<a>>[1] = a
  BY <1>5
<1>8. CTypes
  <2>1. own \in [Thread -> Seq(Activity)]
    BY <1>1, <1>7
  <2>2. stack \in [Slot -> SavedContext]
    BY <1>1, <1>6
  <2>3. ctx \in [Thread -> Slot \cup {NULL}] /\ ev \in Event
    BY <1>1, <1>3 DEF Event
  <2> QED
    BY <1>1, <1>2, <1>3, <1>4, <2>1, <2>2, <2>3 DEF CTypes
<1>9. RunsIntact /\ ctx[cur] # NULL
  BY <1>1, <1>2, <1>3, <1>4, <1>5, <1>7 DEF RunsIntact, Last
<1>10. ThreadInv(Boot)
  <2>1. Len(own[Boot]) = 1 /\ Interrupted(Boot) = 0 /\ own[Boot][1].r = cpu /\ Boot = cur
    BY <1>1, <1>2, <1>5, <1>7 DEF Interrupted
  <2>2. AtBase(Boot, own[Boot][1].r)
    BY <1>2, <1>4, <2>1 DEF AtBase
  <2>3. 0 <= DEPTH /\ 1 >= 1 /\ 2..1 = {} /\ 1..0 = {}
    BY <1>3
  <2> QED
    BY <2>1, <2>2, <2>3 DEF ThreadInv
<1>11. \A t \in Thread : ctx[t] # NULL => ThreadInv(t)
  BY <1>1, <1>10
<1> QED
  BY <1>0, <1>8, <1>9, <1>11 DEF CInv

\* A thread that computes, calls the library or changes its signal mask stays on
\* its stack.
LEMMA ComputeInv ==
  ASSUME CInv, NInv', compute \/ call_lib \/ ret_lib \/ \E b \in BOOLEAN : iset(b)
  PROVE  CInv'
<1>1. cpu \in Regs
  BY DEF CInv, CTypes
<1>2. cpu.rip \in {"text", "lib", "sigprocmask", "user"}
  BY DEF compute, call_lib, ret_lib, iset, Interruptible, Running
<1>3. Len(own[cur]) = 1 /\ AtBase(cur, cpu)
  BY <1>2, WhereCurrent, CurrentFacts
<1>4. CASE compute
  <2>1. Steps(After(cpu))
    BY <1>4 DEF compute
  <2>2. After(cpu) \in Regs /\ AtBase(cur, After(cpu))
    BY <1>1, <1>3, AfterFacts DEF AtBase
  <2> QED
    BY <1>3, <2>1, <2>2, StepsInv
<1>5. ASSUME NEW r \in Regs, Steps(r), cpu.rip # "user", r.at = cpu.at,
             r.rip \in {"text", "lib", "sigprocmask"}
      PROVE  CInv'
  <2>1. AtBase(cur, r)
    BY <1>3, <1>5 DEF AtBase
  <2> QED
    BY <1>3, <1>5, <2>1, StepsInv
<1>6. CASE call_lib
  <2> DEFINE r == [cpu EXCEPT !.rip = "lib"]
  <2>1. r \in Regs /\ r.at = cpu.at /\ r.rip = "lib"
    BY <1>1 DEF Regs, Region
  <2>2. Steps(r) /\ cpu.rip # "user"
    BY <1>6 DEF call_lib, Interruptible, Running
  <2> HIDE DEF r
  <2> QED
    BY <1>5, <2>1, <2>2
<1>7. CASE ret_lib
  <2> DEFINE r == [cpu EXCEPT !.rip = "text"]
  <2>1. r \in Regs /\ r.at = cpu.at /\ r.rip = "text"
    BY <1>1 DEF Regs, Region
  <2>2. Steps(r) /\ cpu.rip # "user"
    BY <1>7 DEF ret_lib, Running
  <2> HIDE DEF r
  <2> QED
    BY <1>5, <2>1, <2>2
<1>8. ASSUME NEW b \in BOOLEAN, iset(b)
      PROVE  CInv'
  <2> DEFINE x == IF b THEN "sigprocmask" ELSE "text"
             r == [cpu EXCEPT !.sti = b, !.rip = x]
  <2>1. Steps(r) /\ cpu.rip # "user"
    BY <1>8 DEF iset, Interruptible, Running
  <2>2. x \in {"text", "sigprocmask"}
    OBVIOUS
  <2> HIDE DEF x
  <2>3. r \in Regs /\ r.at = cpu.at /\ r.rip = x
    BY <1>1, <2>2 DEF Regs, Region
  <2> HIDE DEF r
  <2> QED
    BY <1>5, <2>1, <2>2, <2>3
<1> QED
  BY <1>4, <1>6, <1>7, <1>8

\* Every step preserves the invariant.
LEMMA CStep ==
  ASSUME CInv, [CNext]_cvars
  PROVE  CInv'
<1>1. NInv' /\ heads \subseteq heads'
  <2>1. [NNext]_nvars /\ NInv
    BY OnlyVme DEF CInv
  <2> QED
    BY <2>1, NStep, HeadsStay
<1>2. cpu \in Regs /\ ev \in Event /\ work \in Work
  BY DEF CInv, CTypes
<1>3. CASE irq_handle
  BY <1>1, <1>3, IrqHandleInv
<1>4. ASSUME NEW t \in Thread, irq_return(t)
      PROVE  CInv'
  BY <1>1, <1>4, IrqReturnInv
<1>5. CASE compute \/ call_lib \/ ret_lib \/ \E b \in BOOLEAN : iset(b)
  BY <1>1, <1>5, ComputeInv
<1>6. CASE yield
  <2>1. Len(own[cur]) = 1 /\ sig_handler("YIELD") /\ "YIELD" \in Event
    BY <1>6, WhereCurrent DEF yield, Trap, Running, Event
  <2> QED
    BY <1>1, <2>1, TrapInv
<1>7. CASE syscall
  <2>1. Len(own[cur]) = 1 /\ sig_handler("SYSCALL") /\ "SYSCALL" \in Event
    BY <1>7, WhereCurrent DEF syscall, Trap, Running, Event
  <2> QED
    BY <1>1, <2>1, TrapInv
<1>8. CASE pagefault
  <2>1. /\ sig_handler("PAGEFAULT") /\ "PAGEFAULT" \in Event
        /\ cpu.rip \in {"user", "handler"} /\ cpu.at[2] < work.depth
    BY <1>8 DEF pagefault, Trap, Running, Event
  <2>2. cpu.rip = "user" => Len(own[cur]) = 1
    BY WhereCurrent
  <2>3. cpu.at[2] < DEPTH
    <3>1. work.depth \in 0..DEPTH /\ DEPTH \in Nat
      BY <1>2, NativeCteAssumption
    <3>2. cpu.at \in Place
      BY <1>2 DEF Regs
    <3>3. cpu.at[2] \in Nat
      BY <3>2 DEF Place
    <3> QED
      BY <2>1, <3>1, <3>3
  <2> QED
    BY <1>1, <2>1, <2>2, <2>3, TrapInv
<1>9. ASSUME NEW s \in IRQ, deliver(s)
      PROVE  CInv'
  <2>1. Len(own[cur]) = 1 /\ sig_handler(s) /\ s \in Event
    BY <1>9, WhereCurrent DEF deliver, Event
  <2> QED
    BY <1>1, <2>1, TrapInv
<1>10. ASSUME NEW s \in IRQ, signal(s)
       PROVE  CInv'
  BY <1>1, <1>2, <1>10, OnlyAddressSpaces DEF signal, nvars, kernel
<1>11. ASSUME NEW t \in KThread, kcontext(t)
       PROVE  CInv'
  <2>1. t \in Thread /\ t \notin UThread
    BY ThreadAssumption DEF Thread
  <2>2. End(t) \in Place /\ Garbage \in Place /\ "text" \in Region /\ NULL \in heads \cup {NULL}
    BY <2>1, Places DEF Region
  <2>3. Made(t, "text", End(t), NULL, Garbage)
    BY <1>11 DEF kcontext
  <2> QED
    BY <1>1, <2>1, <2>2, <2>3, MadeInv
<1>12. ASSUME NEW t \in UThread, NEW h \in heads, ucontext(t, h)
       PROVE  CInv'
  <2>1. t \in Thread
    BY DEF Thread
  <2>2. End(t) \in Place /\ UserStack \in Place /\ "user" \in Region /\ h \in heads \cup {NULL}
    BY <2>1, Places DEF Region
  <2>3. Made(t, "user", UserStack, h, End(t))
    BY <1>12 DEF ucontext
  <2> QED
    BY <1>1, <2>1, <2>2, <2>3, MadeInv
<1>13. CASE vme
  <2>1. vm_head' = vm_head
    BY <1>13 DEF vme, vme_init, protect, map
  <2> QED
    BY <1>1, <1>2, <1>13, <2>1, OnlyAddressSpaces DEF vme, kernel
<1>14. CASE UNCHANGED cvars
  BY <1>1, <1>2, <1>14, OnlyAddressSpaces DEF cvars, nvars, kernel
<1> QED
  BY <1>3, <1>4, <1>5, <1>6, <1>7, <1>8, <1>9, <1>10, <1>11, <1>12, <1>13, <1>14 DEF CNext

\* The invariant holds in every state.
THEOREM NativeCteInvariant == CSpec => []CInv
<1>1. CInit => CInv
  BY CInitInv
<1>2. CInv /\ [CNext]_cvars => CInv'
  BY CStep
<1> QED
  BY <1>1, <1>2, PTL DEF CSpec

\* Whatever interrupts, system calls, nested faults and switches came between, a
\* thread goes on with the registers, signal mask and address space it had, and
\* the kernel stack of a user thread is its own.
THEOREM NativeCteRuns == CSpec => []RunsIntact
<1>1. CInv => RunsIntact
  BY DEF CInv
<1> QED
  BY <1>1, NativeCteInvariant, PTL

\* The contexts do nothing to the address spaces that a kernel on NativeVme
\* alone could not do.
THEOREM NativeCteOnVme == CSpec => NSpec
<1>1. CInit => NInit
  BY DEF CInit
<1>2. CInv /\ [CNext]_cvars => [NNext]_nvars
  BY OnlyVme
<1> QED
  BY <1>1, <1>2, NativeCteInvariant, PTL DEF CSpec, NSpec

\* So vm_head is always the head of a list or null.
THEOREM NativeCteTypes == CSpec => []NTypeOK
BY NativeCteOnVme, NativeVmeTypes, PTL

\* The host's mappings are always on the list in force, which ends.
THEOREM NativeCteMunmaps == CSpec => []MunmapsAll
BY NativeCteOnVme, NativeVmeMunmaps, PTL

\* The lists of the address spaces stay apart.
THEOREM NativeCteLists == CSpec => []ListsApart
BY NativeCteOnVme, NativeVmeLists, PTL

\* And they implement Vme: a process that is switched to has exactly its pages.
THEOREM NativeCteRefines == CSpec => ImplementsVme
BY NativeCteOnVme, NativeVmeRefines, PTL

=============================================================================
