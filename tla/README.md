# NEMU and AM: a TLA+ verification project

This directory holds TLA+ models of the programs in this repository, the TLC
configurations that check them on small instances, and proofs checked by
TLAPS. The repository contains two programs: **NEMU** (`nemu/`), an
instruction set emulator with an interactive monitor (a small debugger), and
**AM** (`abstract-machine/`), a library that gives a program the same simple
machine on top of NEMU, of QEMU's x86 and of a Linux process ("native").
`PROJECT.json` maps every definition to the lines it models and lists
components, runs, mutants, findings, hazards and theorems.

## 1. Inventory

### NEMU

| component | state | operations | interaction | what is hard | correct when |
|---|---|---|---|---|---|
| watchpoints `monitor/debug/watchpoint.c` | pool of slots on two lists linked through one `next` field; text and value per slot | `new_wp`, `free_wp`, `no_to_wp`, `check_wp_changed` | called by `w`, `d` (ui.c) and after every instruction (cpu-exec.c); evaluates with `expr` | long sequences of commands; `w` takes the slot before it knows whether the text is an expression; full pool | each slot is on one list; recorded values are current |
| command loop `monitor/debug/ui.c` | the prompt | `c si p w d x info help q` | calls `cpu_exec`, `expr`, the watchpoints; empties SDL's queue | end of input, failing commands | the prompt comes back; the exit status tells how the program ended |
| execution loop `monitor/cpu-exec.c` | `nemu_state` (state, halt_ret), the remaining count | `cpu_exec`, `rtl_exit` | after each instruction: `difftest_step`, `check_wp_changed`, `device_update`, each of which may overwrite `nemu_state.state` | order of these overwrites; counter edges | an ended program stays ended; `si n` executes n |
| expressions `monitor/debug/expr.c` | token array | `make_token`, `check_parentheses`, `eval`, `expr` | registers, memory | precedence, associativity, unary `*`, brackets, wrap-around | value = C's value of the expression |
| device loop `device/device.c`, `device/alarm.c` | `device_update_flag`, SDL's queue | `device_update`, the SIGVTALRM handler | a signal sets the flag that the loop clears | signal between test and clear; events while stopped | a closed window stops the program |
| keyboard `device/keyboard.c` | ring of keys | `send_key`, data register | fed by the device loop, drained by loads | ring full | FIFO, no overflow unnoticed |
| buses, memory, other devices `device/io/*`, `memory/paddr.c`, `device/{timer,serial,vga,audio}.c` | maps, spaces, pmem | `map_read/write`, `paddr_read/write`, callbacks | instructions -> address decoding -> callback | accesses across the end of a region | each access reaches one region |
| difftest `monitor/difftest/dut.c` | `is_skip_ref`, `skip_dut_nr_instr` | `difftest_step`, `skip_ref`, `skip_dut` | steps a reference (QEMU, KVM) | a skip request outliving its instruction; catching up | between two instructions the reference is where NEMU is; NEMU is stopped for its own errors only |
| QEMU / KVM references `tools/qemu-diff`, `tools/kvm-diff` | gdb connection; a VM with its trap flag and breakpoint | packets, acknowledgements; ioctls, patches of single instructions | dlopened by dut.c | resends, run lengths, EINTR, a trap flag the guest must not see | the reference executes each step once and every call returns |
| instruction sets `isa/*`, RTL, engine | registers that overlap | decode, execute | exec loop; loads and stores go to the buses | exceptions of ModR/M and SIB; helpers that overwrite their operand; mostly `TODO()` beyond mov | an instruction does what the manual says and changes nothing else |
| expression generator `tools/gen-expr` | a text buffer and its index | a random grammar; the C compiler | its lines are read by `test_expr` (expr.c) | what a failed attempt leaves behind | every line is one whole expression, and `expr` agrees with C on it |

### AM

| component | state | operations | interaction | what is hard | correct when |
|---|---|---|---|---|---|
| native sound `native/native-audio.c` | ring `sbuf`, `head`, `tail`, `count` | `AM_AUDIO_CTRL/PLAY/STATUS`, SDL's callback | two threads, no lock | lost updates of `count`, double reads, busy waiting | bytes come out in order; no copy leaves the buffer; play returns |
| native virtual memory `native/vme.c`, `platform.c` | list of nodes per address space; the host's mappings | `protect`, `map`, `__am_switch` | called by the kernel and by trap handling | a flag per node must agree with what mmap did | the process sees exactly the address space in force |
| native contexts `native/cte.c` | signal masks, saved contexts | `sig_handler`, `setup_stack`, `irq_handle`, `iret` | signals | a signal at any instruction | contexts resume as saved |
| x86 virtual memory and contexts `x86/qemu/vme.c`, `cte.c` | page tables, cr3, saved contexts; TLB | `vme_init`, `protect`, `unprotect`, `map`, `ucontext`, `kcontext`, `__am_irq_handle` | kernel, trap handling, the processor's walker | stale TLB, freed tables, shared kernel tables, allocator running dry | as for native; nothing leaks |
| multiprocessing `*/mpe.c` | `ap_ready`, boot record | `mpe_init`, `halt` | processors start each other | start and halt races | each processor enters once |
| klib `klib/src/int64.c` | - | 64-bit division for 32-bit guests | called by compiled code | ten cases, shifts at their limits | quotient and remainder are C's |
| AM on NEMU, the rest of klib, boot code | - | - | - | skeletons, stubs, straight-line code | - |

## 2. Modules

| module | models |
|---|---|
| `WatchSet` | abstract specification: a set of watchpoints with current values |
| `Watchpoint` | the pool of watchpoint.c and the commands that use it; refines `WatchSet` |
| `WatchpointProofs` | theorems about `Watchpoint` |
| `Monitor` | ui.c, cpu-exec.c, device.c, alarm.c, the keyboard's fill level; uses `WatchSet` for the watchpoints |
| `MonitorProofs` | theorems about `Monitor` |
| `Expr` | expr.c on lexemes, and C's meaning of syntax trees as the reference |
| `GenExpr` | gen-expr.c and test_expr, composed with `Expr` |
| `Int64` | klib's 64-bit division (int64.c), as operators |
| `Rtl` | the overlapping registers of x86 and the RTL operations on them, as operators |
| `Muldiv` | the multiply and divide helpers of arith.h on `Rtl`, and calls of `Int64` |
| `Bus` | paddr.c, the port and memory maps, the callbacks of keyboard, timer and serial port, as operators on a record |
| `BusProofs` | lemmas about `Bus`: what an access may change |
| `KeyQueue` | abstract specification of the keyboard: a queue of keys and a data register |
| `X86Asm` | reference: the encodings of a mov and what it means, from the i386 manual |
| `X86Exec` | the x86 decoder and dispatch on `Rtl` and `Bus`, with SDL's keys and the clock; its keyboard refines `KeyQueue` |
| `X86ExecProofs` | theorems about `X86Exec`, from the lemmas about `Bus` |
| `GuestCpu` | external: the few instructions NEMU, QEMU and KVM are compared on |
| `Gdb` | the packets of protocol.c and gdb-host.c, as operators |
| `Kvm` | kvm.c, as operators on a record for `struct vcpu` |
| `Difftest` | dut.c between NEMU and either reference: composes `GuestCpu`, `Gdb` and `Kvm` |
| `Audio` | native-audio.c, one step per load or store of `count` |
| `AudioProofs` | theorems about `Audio` |
| `Vme` | abstract specification of AM's virtual memory: partial maps, one in force |
| `NativeVme` | native/vme.c; refines `Vme` |
| `NativeVmeProofs` | theorems about `NativeVme` |
| `NativeCte` | native/cte.c on top of `NativeVme`: signals, contexts, threads |
| `NativeCteProofs` | theorems about `NativeCte`, from those about `NativeVme` |
| `X86Vme` | x86/qemu/vme.c and the cr3 handling of cte.c, with a TLB; refines `Vme` |
| `X86VmeProofs` | theorems about `X86Vme` |
| `MC*` | values of the constants for TLC |

Operators named `..._<fault>` with a comment "Faulty:" are mutations of the
definition that follows them. They are not used by any specification; they
record which mistake each property would catch (`PROJECT.json`, "mutants").

### How state and actions correspond to the code

*Watchpoint.* `head`, `free_`, `next`, `watch_expr`, `watch_value` are the
fields of the C program; a pointer is a slot number or `NULL`. `pc`, `wp`,
`args` hold the place inside `cmd_w` and `cmd_d`, whose steps are separate
actions because each can fail on its own (`new_wp` on an empty pool, the
expression, the assertion inside `expr`). The guest is `env`, the value each
expression has; `Fault` is an expression whose evaluation ends NEMU by an
assertion, `Freed` a text given back to malloc.

*Monitor.* `mpc` is the place: the prompt, the head of the loop of `cpu_exec`,
and each of the calls after an instruction, so that the signal handler and
SDL's queue interleave with them. The compile-time options of `common.h`
(`DEBUG`, `DIFF_TEST`, `HAS_IOE`) are chosen in the initial state. An
instruction is abstracted to its effect on the monitor: it changes `env`, ends
the program, is invalid, touches a device or panics. `ran`, `asked`, `hit` and
`finish` are history variables for the properties only.

*Expr.* A text is a sequence of lexemes (numbers, registers, operators),
which is what the regular expressions of `make_token` cut it into; a literal
carries its length, because too long ones fail an assertion. `WORD` is
the number of values of a machine word, so wrap-around is modelled. The
reference `Meaning` is C's, with an `&&` that leaves out its right operand.
`eval` differs from it in two ways, which `EvalCorrect` names and allows: it
computes both operands of `&&`, so `0 && 1/0` ends NEMU where C says 0; and
`make_token` takes a `*` after a register or a dereference for a dereference
(its comments, expr.c:44 and 130, only say that `*` may be either), so `$eax * 2`
ends NEMU. What the property forbids is any value other than C's.

*Audio.* `count` is volatile and shared without a lock, so `count += n` is a
load and a store, and `if (count < len) nread = count` two reads. A byte is
its place in the sequence of all bytes played. `raced` records that an update
was overwritten, or that `count` changed between the two reads.

*NativeVme.* A page is a list head or a `PageMap` node; `host` is the user
part of the process's address space. `NNext` is a kernel that maps each page
once; `NRemapNext` adds the other calls that the code accepts.

*NativeCte.* `cpu` holds the registers that matter (a place in the code, the
stack, the signal mask), `pending` the signals that arrived and were not yet
delivered. A place on a stack is the stack's name and the number of Contexts
above it, so that a Context written over another one shows. A signal is
delivered before the next instruction that runs with it unblocked; one that
finds the program in library code is dropped, as in `setup_stack`. The kernel
above AM is a scheduler that keeps the last Context of each thread and works
with interrupts off; one that enables interrupts in the middle of a switch is
outside. `own` is a history variable: what each thread was doing.
`kcontext` does not set `ksp`, so a kernel thread's is `Garbage`. An
example of what the composition adds to `NativeVme`: `map` and `ucontext` now
happen in the handler, between the save of one thread and the switch to the
next.

*GenExpr.* A cell of `buf` is a character; a number has one digit and its
`U`. `todo` is what the calls of `gen_rand_expr` under way have left to do.
The C compiler is external: `TreeOf` parses the text, `Expr!Meaning` gives its
value, and a division by zero is refused. `RECURSION` bounds the calls under
way, because the rule `expr op expr` is left recursive. Files and pipes are
left out.

*Rtl, Muldiv, Int64.* A byte has `BYTE` values and a half of a dword `N` bits,
so that all widths the code tells apart exist in small. `Muldiv` makes one call
with every operand. `ddest` of a 32-bit register operand is the register
itself, as in the code, so a helper that writes EDX too early changes its
operand. The 8- and 16-bit forms of imul and idiv get zero-extended operands
from the decoder and are judged on nonnegative operands; imul2 and imul3 begin
with `rtl_sext`, a `TODO()`. The opcode table does not name these helpers yet.

*Bus, X86Exec.* One record holds memory, the shared `io_space`, the key ring
and the devices' own state; the operators are named after the functions. A
read invokes the callback before the load, a write after the store. `asm` is
the instruction in hand with the mov it encodes, for the properties. Ports
have no instruction in this revision; `pio_read` and `pio_write` are called
from outside, as their declarations allow.

*Difftest.* A call of the reference is a list of operations in `todo`; over
gdb each is sent, acknowledged, executed by the stub and answered, in steps of
its own. `wrong` records that NEMU executed an instruction wrongly (once, at
any place), `left` the faults to come. The x86 `isa_difftest_checkregs` returns
false always, so that a NEMU built with DIFF_TEST stops at the first
comparison: scenario `hook` has that hook, the others one that compares
(`checkregs_to_come`), which is what the hook is there for. `NoFalseAlarm` speaks
of the registers the hook is given, so it says the same of both. x86's `int`,
`iret` and `mov_cr2r` are `TODO()` before their calls of `difftest_skip_dut(1, 2)`
and `difftest_skip_ref` (system.h:24-45, for QEMU and KVM alike); the model's
NEMU executes the first two and makes the calls.

Three limits of the method are in the model, each with a ghost variable, and the
properties say where they end. (1) For a skipped instruction only registers are
copied: stack slots it wrote are `stale`, and `blind` is set when NEMU loads
one. That is the case of which dut.c:22-25 says "this is still not perfect"
(a packed instruction that reads a device and writes memory, then a load);
scenarios `packed` and `slot` reach it, and NEMU is then stopped without an
error. (2) `difftest_skip_ref` inside a packed group ends the catching up without
a comparison: an error of NEMU in that group is `excused`. (3) Under KVM an `int`
clears the trap flag, so KVM_RUN comes back only behind the instruction after
the handler's return; the catching up that `difftest_skip_dut(1, 2)` promises
("We expect that DUT will catch up with REF", dut.c:34) then panics, unless the
handler begins with a skipped instruction (scenarios `int`, `intdev`). kvm.c has
the cure, a breakpoint set by `difftest_raise_intr`, but dut.c:54-67 does not
load that function and nothing calls it, so it and the state
`STATE_INT_INSTR` are left out. `blind` is set by an `int` under KVM. Errors
inside skipped instructions cannot be found at all. A skip is requested only by
the instruction being executed: `x`, `p` and the watchpoints read memory through
`guest_to_host` (ui.c:176, expr.c), not through the buses.

KVM_RUN is cut into its start, the guest's instructions and its return, so that
EINTR can come before any of them.

*X86Vme.* `mem` holds the tables entry by entry. A page that is not in use
holds `Junk`, entries that look present, so a page that is not cleared shows.
`ctx` are the contexts, with the cr3 saved in them; the field `as` is a
history variable (the argument of `ucontext`). Kernel operations happen in
kernel threads and in the handler in any order; `TLB_fill` is the processor.
The kernel stack in the task state segment (`tss.esp0`, `ss0` and the saved
`esp0`, cte.c:38 and 98-101) is left out of `__am_irq_handle`: no property here
is about stacks. `NativeCte` has the kernel stack of native contexts.

## 3. Runs

| run | module | shows |
|---|---|---|
| `watchpoint` | MCWatchpoint | the lists stay sound, values stay current, and the pool implements `WatchSet` |
| `monitor` | MCMonitor | all eight builds: counts of `si`, current watchpoints, `RUNNING` only inside `cpu_exec`, an ended program in the plain builds, and that the prompt comes back |
| `monitor_end` (violation) | MCMonitor | in the default build a watchpoint hit in the last instruction revives an ended program |
| `expr` | MCExpr | the value is C's or, in three named cases, NEMU ends; every line of gen-expr passes test_expr |
| `expr_brackets` (violation) | MCExpr | unmatched brackets get a value |
| `audio` | MCAudio | what holds in spite of the race, and that playing ends |
| `native_cte` | MCNativeCte | threads resume intact whatever interrupts them; lists and mmap implement `Vme` |
| `native_remap` (violation) | MCNativeVme | mapping a page twice closes the list into a ring |
| `x86_vme` | MCX86Vme | page tables, switches and TLB implement `Vme`; no leak, no dangling table, no stale translation in user mode |
| `muldiv` | MCMuldiv | klib's division and the x86 multiply and divide helpers compute what C and the manual say |
| `x86exec` | MCX86Exec | every encoding of a mov does what the manual says; an access over the edge of a device's registers reaches no other device; the keyboard implements `KeyQueue` |
| `difftest` | MCDifftest | up to the limits named above the reference stays with NEMU, errors are found and correct runs are not stopped; every call returns |

**Bounds.** Watchpoint: three slots, two expressions and a malformed one, two
values, `d` with up to two numbers: with three slots a slot is freed from the
front, the middle and the end of the list. Monitor: one watchpoint, `si` of 0
and 2, a key ring of length 2 (room for one key, so it overflows), two SDL
events in all: enough for a key and a closed window in either order in one
turn of the loop. Expr: all trees of up to two operators, minimally and fully
bracketed, and pairs of one-operator trees with zero divisors on either side of
`&&`; words of 16 values, so that sums, differences and products wrap; texts
with unknown characters and literals that are too long. The generator has a buffer of ten characters,
so that attempts fail for want of room at every place, and makes two lines, so
that the second meets what the first left. The brackets run uses all short texts over
brackets, a number and `+`. Audio: a ring of 3 cells, writes of 0 to 4 bytes
(4 fails the assertion), reads of 1 and 2, five bytes in all: both indices
wrap and the ring is full and empty. NativeCte: main, a kernel thread and two
user threads, two user pages, two protections; one of three workloads: two
processes under timer interrupts, a kernel thread and a process with faults and
device interrupts two deep, two processes with four pages and no interrupts
(two address spaces with a page each, or one with both). User pages and the
two processes are symmetric. X86Vme: two pages for the kernel's tables and four
for two address spaces over three user pages in two tables, so the allocator
also runs dry; one user page can be cached; two threads, either of them
kernel or user. Muldiv: all pairs of 8-bit dwords, clz and ctz of all 16-bit
numbers, registers at the edges of bytes, words and dwords of two-bit bytes.
X86Exec: memory of 16 bytes, the seven maps of `init_device` with their sizes
but for the screen's memory and the stream buffer; two guests execute one mov
of every shape, one makes three accesses at and over the edges of the devices,
one reads keys from a ring of three for six steps, so that it wraps and
overflows. Difftest: eight scenarios of ten instructions with device reads,
pushes of device registers, software interrupts and their returns; one garbled
packet, one EINTR, one wrong instruction (its register or its pc), at every
place. Acknowledgements and the frame of a
packet are not garbled: the code has no answer to that.

**Deadlock** is checked in `native_cte`. It is not checked where the program may stop: NEMU exits, AM
panics, and the bounded inputs (bytes, pages) are used up.

**Fairness.** `Monitor!FairSpec`: weak fairness of the steps NEMU takes by
itself (one process, scheduled by the host) and of SIGVTALRM (the interval
timer runs while the process uses the processor). Nothing is assumed of the
user. `Audio!AFairSpec`: weak fairness of the program inside `AM_AUDIO_PLAY`
and of SDL's callback, which SDL calls periodically once `SDL_PauseAudio(0)`
was called; `PlayReturns` excludes the case that SDL has no audio device, in
which the code waits for ever. `Difftest!Spec`: weak fairness of NEMU, which
blocks in `fgetc` until a byte comes, and of QEMU's stub, which answers what it
is sent; the number of garbled packets is finite.

**Findings.** See `PROJECT.json`. In short: the check of the watchpoints
overwrites `NEMU_END`; `check_parentheses` does not see a bracket at one end of
the text; `map` of native VME relinks a node that is on the list.

**The race in native-audio.c** is modelled as it is. The updates of `count`
can be lost, and the second read in `audio_play` can return more than SDL asked
for. What the project shows is what remains true: `count` and all copy lengths
stay inside the ring, no byte is refused, `AM_AUDIO_PLAY` returns; and until
the first harmful interleaving the stream is exactly what was played. That the
copy into SDL's buffer can then be too long is outside the model's state.

## 4. Proofs

Each module of proofs has one inductive invariant, preserved action by action;
the properties of the runs follow from it, and so does the refinement, where
there is one: initial states map to initial states, and every step to a step
or a stutter. The theorems hold for every value of the constants that satisfies
the named assumptions of the module; TLC evaluates these assumptions in the
runs. Where a run states fairness, the theorem is about the specification
without it, which allows more behaviours.

`WatchpointProofs`: `WTypeOK`, `PoolPartition`, `ListsSound`, `NoListAssert`,
`ValuesCurrent`, `ImplementsWatchSet`, for every pool size, set of expressions
and values. The inductive invariant `WInv` adds to these the places inside
`cmd_w` and `cmd_d` (`LocalsOK`: which slot is in hand and that it is on the
active list), `LiveText` (texts of active slots are not freed) and `ValuesInv`.
The two lists are described by `WellFormed(head, free_, next)`: what is
reachable from `head` and from `free_` partitions the pool, there is no cycle,
and no slot has two predecessors. `PoolPartition` alone is not inductive: a
cycle or a shared tail would survive until a later `free_wp`. `Reach`, the set
a walk visits, is the least set closed under `next`; lemmas say how it changes
when an element is put in front, taken from the front or taken from the middle.
For the refinement the slot `cmd_w` has in hand does not count as a watchpoint
yet: it becomes one with its value, and a `w` that fails is a stutter.
Assumptions: `NR_WP` is positive, `NULL` is no slot, and `Freed` and `Fault`
are no texts or values.

`AudioProofs`: `ATypeOK`, `CountInRange`, `AllAccepted` and `StreamInOrder`,
for every ring size and all lengths. The argument for the first three: each
thread moves `count` in one direction only. What the program loaded is never
below `count`, so its store does not lower `count`; what SDL's thread loaded is
never above it. So the room the program waited for cannot shrink and the bytes
the callback saw cannot vanish. `StreamInOrder` needs what the ring holds,
and `count` does not say it in the middle of a call: `InRing` is `count` plus
what the program has copied and not counted yet, less what SDL has taken and is
still counted. `RingInv`: as long as nothing raced, the `InRing` cells
from `tail` are the bytes after the last one played, and `head` is behind them.

`MonitorProofs`: `TypeOK`, `RunningInside`, `SiExact`, `WatchCurrent` and
`PlainEnd`, for every build, every argument of `si`, any number of watchpoints
and SDL events. The properties speak of the prompt and of the head of the loop;
`MInv` says what holds between: after an instruction `n` still counts it
(`Counts`); before the end of the loop only a hit has stopped the program, and
nobody executes a further instruction after a hit (`LoopStates`); recorded
values are current from the check of an instruction to the next instruction
(`ValuesInv`); in a plain build nothing takes back the state in which the last
instruction left the program, because `difftest_step` skips the comparison
after `nemu_trap` (`EndInv`). Assumptions: those on the constants' types, and a
key ring of length at least two.

`X86VmeProofs`: `XTypeOK`, `TablesOwned`, `KernelEverywhere`, `UserSeesTables`
and `ImplementsVme`, for any number of pages, address spaces and threads, any
layout of user and kernel indices that do not overlap, and any choice
`pgalloc` makes among the free pages. `XInv` says what every entry of every
page is: the kernel's directory and tables are as `vme_init` made them
(`KernelInv`), a directory has the kernel's entries and else only entries
`ptwalk` made (`DirectoryInv`), a user page table is a page in use of one
directory with entries `map` made (`UserTableInv`, `UnsharedInv`), and every
page in use is one of these (`NoLeakInv`). `TablesOwned` alone is not
inductive: it does not say what the entries of a table are, which a later
`ptwalk`, `map` or `unprotect` follows.
`ContextInv` says that a user thread that waits has the directory of its
address space to load, which is what makes the TLB harmless: it is flushed by
the load on every way back to user mode.

`NativeVmeProofs`: `NTypeOK`, `MunmapsAll`, `ListsApart` and `ImplementsVme` for
`NSpec`, a kernel that maps a page once, with any number of pages and address
spaces. `NInv` is the types, `ListsInv` (nodes are pages handed out and no
heads, lists are disjoint and end, a user page has one node) and `HostInv`: every
node of the list in force has its flag `is_mapped` set and the host shows it,
and nothing else is mapped. That the lists end is needed for the switch to
return; that is what fails when a page is mapped twice (`native_remap`).
`Visits` is the walk along `next`, treated as `Reach` is. Assumption: `NULL` is
no page.

`NativeCteProofs`: `RunsIntact`, for any number of threads and any depth of
nested interrupts. `own` is the history of a thread: its work and above it the
interrupts it is in. `CInv` relates it to the saved Contexts: activity
`k + 1` is an interrupt with signals blocked whose Context is number `k` of the
thread's stack (`AtInterrupt`), and that Context holds activity `k`, the
address space and, for a user thread, the kernel stack (`Saved`), except
that between `setup_stack` and `irq_handle` the latter two are not there yet.
`RunsIntact` says this of the moment of resumption only. The second part,
`NativeCteOnVme`, shows that contexts and interrupts use the virtual memory as
`NativeVme` allows (`CSpec => NSpec`), so the theorems about `NativeVme` hold
for `CSpec`, the specification that run `native_cte` checks. Assumptions: the three kinds of thread
are distinct, `NULL` is no Context (`ThreadAssumption`), `DEPTH` is positive
and bounds what a workload nests.

`BusProofs` and `X86ExecProofs`: `ExecInv`, `DevicesApart`, `KeysInOrder` and
`ExecExact`, for every guest, layout and number of devices, size of memory and
ring length. The argument has three parts.

* What an access may change. `new_space` hands out disjoint spaces, by
  induction over the devices: `Space` is a recursive function, and `SetInduction`
  (a set of naturals that holds 0 and successors is `Nat`) follows from the
  library's pigeonhole theorem for finite sets, without an operator as a
  parameter. A load, store, `in` or `out` is then quiet (memory, or a failed
  assertion) or it is an access to one device: it changes bytes of that device's
  registers and of up to three bytes behind them, because only the first byte of
  an access is compared with the map. `SpacesApart`: the page each space is
  rounded up to keeps those three bytes off the next device. `DevicesApart` rests
  on this padding and on nothing else; its assumption (`DeviceAssumption`) says
  so, and is true of the sizes of the devices in the source.
* What the decoder finds. `Encodings` of `X86Asm` has up to six forms of
  opcode, with ModR/M and SIB bytes and displacements of 0, 1 and 4 bytes.
  `LaidOut` says where the parts of an instruction land, `LoadAddrPlain` and its
  companions that `load_addr` computes the address and stops behind it,
  `RmDecoded` puts this together for an operand, and `MovDecoded` says that
  `fetch_decode_exec` of any encoding of a mov is one result, whatever the
  encoding; `OtherDecoded` and `TrapDecoded` say it of the rest. `RegWritten` is
  about the overlapping registers: a store of a byte or a half leaves all other
  bytes of the file.
* What a step does. `BusStep` classifies it: the devices are left alone, one
  device is accessed at an address the instruction uses, or a key is queued. For
  `KeysInOrder` a queued key appends to the content of the ring and a read of
  the data register takes its head (`RingPress`, `RingTake`); both turn around
  modulo the ring's length, so the content is compared position by position.
  A full ring is told from an empty one because the press that would fill it
  fails the assertion, and then `KeyQueue` has ended too.

`ExecInv` is the inductive invariant. It is needed for more than types: that
`key_f` and `key_r` are positions of the ring makes the content well defined,
and that the emulator is dead exactly when the bus is makes an instruction
whose access failed an assertion the last one. Assumptions: `RtlAssumption` (a
byte has at least two values), `BusAssumption` (sizes), `DeviceAssumption` (a keyboard of four bytes, an rtc of eight, names
that differ, spaces that fit `io_space`) and `GuestAssumption` (registers and
memory hold words and bytes, instructions are of the kinds of `IsInstruction`).

**Only model-checked.** Liveness under fairness (`QuitReturns`, `SiReturns`,
`PlayReturns`, `CallsReturn`) is outside what the prover handles. `Expr`,
`GenExpr`, `Int64` and so `Muldiv` use RECURSIVE operators, which it cannot
handle either, and what they compute for every input would need an induction
over the input (`EvalCorrect`, `LinesPass`, `KlibExact`, `MulDivExact`). `Lockstep` and `NoFalseAlarm` of `Difftest` rest on the contents
of packets, which are spelled and parsed character by character by recursion
over the text: what the reference receives is what NEMU sent only by an
induction of the same kind. The KVM reference has no packets, but there the two
properties are not true for every image: they need a program that pops no flags
it did not push and returns with a frame it was given, which is a condition on
its runs and not on the constants.

## 5. Not modelled

* The other instruction sets and the x86 helpers that are `TODO()`; the opcode
  table reaches only mov, nemu_trap and empty groups.
* Multiprocessing (`*/mpe.c`): a start through the boot sector and spin locks
  of one `xchg`; the order of their few instructions is the hardware's. The
  hazard at `x86/qemu/mpe.c:46` is listed without a property for this reason.
* AM for NEMU and the rest of klib (skeletons and stubs), boot code, screen,
  serial and audio output.
* Of the modelled parts: wording and formatting of output, command-line
  parsing; the regular expressions; a second `AM_AUDIO_CTRL`; several
  processors; the 64-bit page tables; paging-structure caches. `map` with
  `MMAP_NONE` unmaps on x86 and installs an inaccessible page on native, whose
  cte.c says it does not support it: `NativeVme` leaves that call out.
* qemu-diff: the socket's set-up, and `gdb_start_noack`, which nothing calls.
  Garbled acknowledgements and frame characters, which the code cannot mend.
  kvm-diff: creation of the VM, paging in the guest, the exit on HLT, and
  `difftest_raise_intr`, which nothing calls.

## 6. What could follow

1. Proofs: `NoFalseAlarm` of `Difftest` for the KVM reference, from an
   assumption that describes the runs of a well-behaved image.
2. Multiprocessing: start and halt on x86 and native.
3. The x86 instructions that are `TODO()` now, as they are written: a line of
   `X86Asm` for the manual and one of `X86Exec` for the helper each.
