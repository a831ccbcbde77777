------------------------------ MODULE Monitor -------------------------------
(***************************************************************************)
(* The NEMU monitor: the command loop of monitor/debug/ui.c, the execution *)
(* loop cpu_exec of monitor/cpu-exec.c with everything it calls after an   *)
(* instruction (difftest_step, check_wp_changed, device_update), the SDL   *)
(* events and the SIGVTALRM signal that device/device.c lives on, and the  *)
(* exit status main returns.                                               *)
(*                                                                         *)
(* The guest program is abstracted to what one instruction does to the     *)
(* monitor: it changes the values of expressions, ends the program         *)
(* (nemu_trap), is invalid, accesses a device, or fails an assertion of    *)
(* the emulator.  The watchpoints are those of WatchSet, which Watchpoint  *)
(* implements.  The compile-time options of include/common.h are a value   *)
(* chosen in the initial state, so one run covers all builds.              *)
(***************************************************************************)
EXTENDS Integers, Sequences, FiniteSets

CONSTANTS
  Number,         \* the numbers of watchpoints (0 .. NR_WP - 1)
  Expr, Value,    \* well-formed expressions and their values
  Fault,          \* "evaluating it fails an assertion"
  Builds,         \* subsets of {"DEBUG", "DIFF_TEST", "HAS_IOE"}
  IsaCheck,       \* what isa_difftest_checkregs may return
  KEY_QUEUE_LEN,  \* length of the keyboard ring
  Steps,          \* arguments of si
  MaxEvents       \* bound: SDL events the user causes in all

ASSUME MonitorAssumption ==
  /\ Builds \subseteq SUBSET {"DEBUG", "DIFF_TEST", "HAS_IOE"}
  /\ IsaCheck \subseteq BOOLEAN
  /\ KEY_QUEUE_LEN \in Nat \ {0, 1}
  /\ Steps \subseteq Nat
  /\ MaxEvents \in Nat
  /\ Fault \notin Value

VARIABLES
  build,        \* the options NEMU was compiled with
  mpc,          \* where the monitor is
  state,        \* nemu_state.state
  halt_ret,     \* nemu_state.halt_ret
  n,            \* instructions cpu_exec has still to execute
  watch, env,   \* the watchpoints and what expressions evaluate to (WatchSet)
  is_skip_ref,  \* difftest: the reference skips this instruction
  device_update_flag,
  events,       \* SDL's event queue
  pushed,       \* SDL events so far (for the bound MaxEvents)
  keys,         \* number of keys in the keyboard ring
  hit,          \* ghost: the last check of the watchpoints found a change
  ran,          \* ghost: instructions the current si has executed
  asked,        \* ghost: the argument of that si, 0 for c
  finish        \* ghost: how the program ended, judged by its instructions

vars == <<build, mpc, state, halt_ret, n, watch, env, is_skip_ref,
          device_update_flag, events, pushed, keys, hit, ran, asked, finish>>

WS == INSTANCE WatchSet WITH st <- mpc

States == {"STOP", "RUNNING", "END", "ABORT", "QUIT"}

\* The 2^64 - 1 instructions of `c'.
Many == -1

\* "exec": head of cpu_exec's loop; "diff", "wp", "dev", "poll", "test": the
\* calls after an instruction; "crashed": an assertion or a signal killed NEMU.
Exec == {"exec", "diff", "wp", "dev", "poll", "test"}

DEBUG     == "DEBUG" \in build
DIFF_TEST == "DIFF_TEST" \in build
HAS_IOE   == "HAS_IOE" \in build

watching == <<watch, env>>
ghosts   == <<hit, ran, asked, finish>>
devices  == <<device_update_flag, events, pushed, keys>>

-----------------------------------------------------------------------------
(* The environment: SDL and the interval timer.                            *)

\* The window system queues an event.
SDL_PushEvent(ev) ==
  /\ HAS_IOE
  /\ mpc \notin {"exited", "crashed"}
  /\ pushed < MaxEvents
  /\ pushed' = pushed + 1
  /\ events' = Append(events, ev)
  /\ UNCHANGED <<build, mpc, state, halt_ret, n, watching, is_skip_ref,
                 device_update_flag, keys, ghosts>>

\* SIGVTALRM: timer_intr (dev_raise_intr is empty), then set_device_update_flag.
alarm_sig_handler ==
  /\ HAS_IOE
  /\ mpc \notin {"exited", "crashed"}
  /\ device_update_flag' = TRUE
  /\ UNCHANGED <<build, mpc, state, halt_ret, n, watching, is_skip_ref,
                 events, pushed, keys, ghosts>>

-----------------------------------------------------------------------------
(* ui.c.  Every command first empties SDL's queue.                         *)

Command ==
  /\ mpc = "prompt"
  /\ events' = IF HAS_IOE THEN <<>> ELSE events
  /\ UNCHANGED <<build, halt_ret, is_skip_ref, device_update_flag, pushed, keys>>

Forgets(k) ==
  /\ hit' = FALSE
  /\ ran' = 0
  /\ asked' = k
  /\ UNCHANGED finish

\* Faulty: a program that has ended is taken up again.
enter_cpu_exec_again(k) ==
  /\ state' = "RUNNING"
  /\ n' = k
  /\ mpc' = "exec"
  /\ Forgets(IF k = Many THEN 0 ELSE k)

\* cpu_exec up to its loop.
enter_cpu_exec(k) ==
  \/ /\ state \in {"END", "ABORT"}
     /\ UNCHANGED <<mpc, state, n, ghosts>>
  \/ /\ state \notin {"END", "ABORT"}
     /\ state' = "RUNNING"
     /\ n' = k
     /\ mpc' = "exec"
     /\ Forgets(IF k = Many THEN 0 ELSE k)

cmd_c ==
  /\ Command
  /\ enter_cpu_exec(Many)
  /\ UNCHANGED watching

cmd_si(k) ==
  /\ Command
  /\ enter_cpu_exec(k)
  /\ UNCHANGED watching

\* q, a w with a malformed expression, a d without numbers: ui_mainloop returns.
cmd_leave ==
  /\ Command
  /\ mpc' = "exited"
  /\ UNCHANGED <<state, n, watching, ghosts>>

\* End of file on standard input: the loop ends before the queue is emptied.
end_of_input ==
  /\ mpc = "prompt"
  /\ mpc' = "exited"
  /\ UNCHANGED <<build, state, halt_ret, n, watching, is_skip_ref, devices, ghosts>>

cmd_w(e) ==
  /\ Command
  /\ \/ /\ \/ WS!InUse = Number
           \/ env[e] = Fault
        /\ mpc' = "crashed"
        /\ UNCHANGED watch
     \/ /\ env[e] # Fault
        /\ \E no \in Number \ WS!InUse :
             watch' = WS!With(watch, no, [expr |-> e, value |-> env[e]])
        /\ UNCHANGED mpc
  /\ UNCHANGED <<state, n, env, ghosts>>

\* `w' without an expression passes the null pointer to strlen.
cmd_w_no_args ==
  /\ Command
  /\ mpc' = "crashed"
  /\ UNCHANGED <<state, n, watching, ghosts>>

cmd_d(nos) ==
  /\ Command
  /\ watch' = [no \in WS!InUse \ nos |-> watch[no]]
  /\ UNCHANGED <<mpc, state, n, env, ghosts>>

\* p evaluates an expression; a failing assertion of expr ends NEMU.
\* info, help and unknown commands only print.
cmd_p(e) ==
  /\ Command
  /\ mpc' = IF env[e] = Fault THEN "crashed" ELSE "prompt"
  /\ UNCHANGED <<state, n, watching, ghosts>>

\* x also reads memory at the address it computed, without a bound check: the
\* read may hit an address NEMU does not have.
cmd_x(e) ==
  /\ Command
  /\ mpc' \in {"crashed"} \cup (IF env[e] = Fault THEN {} ELSE {"prompt"})
  /\ UNCHANGED <<state, n, watching, ghosts>>

-----------------------------------------------------------------------------
(* One turn of cpu_exec's loop.                                            *)

\* rtl_exit
rtl_exit(s, ret) == state' = s /\ halt_ret' = ret

\* The first instruction that ends the program decides how it ended.
Finishes(how) == finish' = IF finish = "none" THEN how ELSE finish

Execs ==
  /\ mpc = "exec"
  /\ n # 0
  /\ mpc' = "diff"
  /\ env' \in [Expr -> Value \cup {Fault}]
  /\ ran' = IF n = Many THEN ran ELSE ran + 1
  /\ UNCHANGED <<build, n, watch, device_update_flag, events, pushed, hit, asked>>

exec_ordinary ==
  /\ Execs
  /\ UNCHANGED <<state, halt_ret, is_skip_ref, keys, finish>>

\* An access to a device register; a load from the keyboard's data register
\* takes a key (i8042_data_io_handler).
exec_io ==
  /\ Execs
  /\ HAS_IOE
  /\ is_skip_ref' = DIFF_TEST
  /\ \/ UNCHANGED keys
     \/ keys > 0 /\ keys' = keys - 1
  /\ UNCHANGED <<state, halt_ret, finish>>

exec_nemu_trap(ret) ==
  /\ Execs
  /\ is_skip_ref' = DIFF_TEST
  /\ rtl_exit("END", ret)
  /\ Finishes(IF ret = 0 THEN "good" ELSE "bad")
  /\ UNCHANGED keys

exec_inv ==
  /\ Execs
  /\ rtl_exit("ABORT", -1)
  /\ Finishes("abort")
  /\ UNCHANGED <<is_skip_ref, keys>>

\* An access outside memory and devices, or an instruction left as a TODO.
exec_panic ==
  /\ mpc = "exec"
  /\ n # 0
  /\ mpc' = "crashed"
  /\ UNCHANGED <<build, state, halt_ret, n, watching, is_skip_ref, devices, ghosts>>

\* difftest_step without instruction packing (see Difftest).
difftest_step ==
  /\ mpc = "diff"
  /\ mpc' = "wp"
  /\ IF ~DIFF_TEST
     THEN UNCHANGED <<state, is_skip_ref, finish>>
     ELSE \/ /\ is_skip_ref
             /\ is_skip_ref' = FALSE
             /\ UNCHANGED <<state, finish>>
          \/ /\ ~is_skip_ref
             /\ UNCHANGED is_skip_ref
             /\ \/ TRUE \in IsaCheck /\ UNCHANGED <<state, finish>>
                \/ FALSE \in IsaCheck /\ state' = "ABORT" /\ Finishes("abort")
  /\ UNCHANGED <<build, halt_ret, n, watching, devices, hit, ran, asked>>

\* Faulty: the watchpoints are compared but their values are not renewed.
check_watchpoints_stale ==
  /\ mpc = "wp"
  /\ mpc' = "dev"
  /\ hit' = (DEBUG /\ WS!Hit # {})
  /\ state' = IF hit' THEN "STOP" ELSE state
  /\ UNCHANGED <<build, halt_ret, n, watching, is_skip_ref, devices, ran, asked, finish>>

\* if (check_wp_changed()) nemu_state.state = NEMU_STOP
check_watchpoints ==
  /\ mpc = "wp"
  /\ \/ /\ ~DEBUG
        /\ mpc' = "dev"
        /\ UNCHANGED <<state, watch, hit>>
     \/ /\ DEBUG
        /\ \E no \in WS!InUse : env[watch[no].expr] = Fault
        /\ mpc' = "crashed"
        /\ UNCHANGED <<state, watch, hit>>
     \/ /\ DEBUG
        /\ \A no \in WS!InUse : env[watch[no].expr] # Fault
        /\ watch' = [no \in WS!InUse |->
                       [expr |-> watch[no].expr, value |-> env[watch[no].expr]]]
        /\ hit' = (WS!Hit # {})
        /\ state' = IF hit' THEN "STOP" ELSE state
        /\ mpc' = "dev"
  /\ UNCHANGED <<build, halt_ret, n, env, is_skip_ref, devices, ran, asked, finish>>

\* device_update up to the loop over the events.
device_update ==
  /\ mpc = "dev"
  /\ IF HAS_IOE /\ device_update_flag
     THEN mpc' = "poll" /\ device_update_flag' = FALSE
     ELSE mpc' = "test" /\ UNCHANGED device_update_flag
  /\ UNCHANGED <<build, state, halt_ret, n, watching, is_skip_ref, events, pushed, keys, ghosts>>

\* Faulty: the overflow of the ring is not noticed.
send_key_unchecked ==
  IF state = "RUNNING"
  THEN keys' = keys + 1 /\ UNCHANGED mpc
  ELSE UNCHANGED <<keys, mpc>>

\* send_key of a mapped key: it is dropped unless the program runs; the ring
\* holds one key less than its length and overflows into an assertion.
send_key ==
  IF state = "RUNNING"
  THEN /\ keys' = keys + 1
       /\ mpc' = IF keys + 1 = KEY_QUEUE_LEN THEN "crashed" ELSE mpc
  ELSE UNCHANGED <<keys, mpc>>

\* One turn of the SDL_PollEvent loop of device_update.
poll_event ==
  /\ mpc = "poll"
  /\ \/ /\ events = <<>>
        /\ mpc' = "test"
        /\ UNCHANGED <<state, events, keys>>
     \/ /\ events # <<>>
        /\ events' = Tail(events)
        /\ \/ /\ Head(events) = "SDL_QUIT"
              /\ state' = "QUIT"
              /\ UNCHANGED <<mpc, keys>>
           \/ /\ Head(events) = "key"
              /\ send_key
              /\ UNCHANGED state
           \/ /\ Head(events) \notin {"SDL_QUIT", "key"}
              /\ UNCHANGED <<mpc, keys, state>>
  /\ UNCHANGED <<build, halt_ret, n, watching, is_skip_ref, device_update_flag, pushed, ghosts>>

\* Faulty: the count is not taken down when the loop goes on.
loop_test_no_decrement ==
  /\ mpc = "test"
  /\ mpc' = IF state # "RUNNING" THEN "post" ELSE "exec"
  /\ UNCHANGED <<build, state, halt_ret, n, watching, is_skip_ref, devices, ghosts>>

\* Faulty: the state is not looked at.
loop_test_no_break ==
  /\ mpc = "test"
  /\ mpc' = "exec"
  /\ n' = IF n = Many THEN Many ELSE n - 1
  /\ UNCHANGED <<build, state, halt_ret, watching, is_skip_ref, devices, ghosts>>

\* if (nemu_state.state != NEMU_RUNNING) break;  n --
loop_test ==
  /\ mpc = "test"
  /\ IF state # "RUNNING"
     THEN mpc' = "post" /\ UNCHANGED n
     ELSE mpc' = "exec" /\ n' = IF n = Many THEN Many ELSE n - 1
  /\ UNCHANGED <<build, state, halt_ret, watching, is_skip_ref, devices, ghosts>>

\* Faulty: the loop tests n >= 0, which is always true of an unsigned n.
loop_done_wraps ==
  /\ mpc = "exec"
  /\ n = 0
  /\ n' = Many
  /\ UNCHANGED <<build, mpc, state, halt_ret, watching, is_skip_ref, devices, ghosts>>

\* n > 0 fails.
loop_done ==
  /\ mpc = "exec"
  /\ n = 0
  /\ mpc' = "post"
  /\ UNCHANGED <<build, state, halt_ret, n, watching, is_skip_ref, devices, ghosts>>

\* Faulty: a count that ran out leaves the program marked as running.
after_loop_still_running ==
  /\ mpc = "post"
  /\ mpc' = "prompt"
  /\ UNCHANGED <<build, state, halt_ret, n, watching, is_skip_ref, devices, ghosts>>

\* The switch after the loop of cpu_exec.
after_loop ==
  /\ mpc = "post"
  /\ mpc' = "prompt"
  /\ state' = IF state = "RUNNING" THEN "STOP" ELSE state
  /\ UNCHANGED <<build, halt_ret, n, watching, is_skip_ref, devices, ghosts>>

-----------------------------------------------------------------------------
Init ==
  /\ build \in Builds
  /\ mpc = "prompt"
  /\ state = "STOP"
  /\ halt_ret = 0
  /\ n = 0
  /\ watch = [no \in {} |-> 0]
  /\ env \in [Expr -> Value]
  /\ is_skip_ref = FALSE
  /\ device_update_flag = FALSE
  /\ events = <<>>
  /\ pushed = 0
  /\ keys = 0
  /\ hit = FALSE /\ ran = 0 /\ asked = 0 /\ finish = "none"

EventTypes == {"SDL_QUIT", "key", "other"}

User ==
  \/ cmd_c
  \/ \E k \in Steps : cmd_si(k)
  \/ cmd_leave
  \/ end_of_input
  \/ \E e \in Expr : cmd_w(e)
  \/ cmd_w_no_args
  \/ \E nos \in SUBSET Number \ {{}} : cmd_d(nos)
  \/ \E e \in Expr : cmd_p(e)
  \/ \E e \in Expr : cmd_x(e)

\* The steps NEMU takes by itself.
Run ==
  \/ exec_ordinary
  \/ exec_io
  \/ \E ret \in {0, 1} : exec_nemu_trap(ret)
  \/ exec_inv
  \/ exec_panic
  \/ difftest_step
  \/ check_watchpoints
  \/ device_update
  \/ poll_event
  \/ loop_test
  \/ loop_done
  \/ after_loop

Environment == 
  \/ \E ev \in EventTypes : SDL_PushEvent(ev)
  \/ alarm_sig_handler

Next == User \/ Run \/ Environment

Spec == Init /\ [][Next]_vars

\* NEMU's own steps are those of one process the host schedules; the virtual
\* interval timer keeps firing while that process uses the processor.
FairSpec == Spec /\ WF_vars(Run) /\ WF_vars(alarm_sig_handler)

\* is_exit_status_bad, returned by main once ui_mainloop has returned.
is_exit_status_bad ==
  ~ \/ state = "END" /\ halt_ret = 0
    \/ state = "QUIT"

-----------------------------------------------------------------------------
(* Properties.                                                             *)

\* Type invariant: the monitor's variables keep their types and, as long as
\* NEMU lives, the keyboard ring is not full.
TypeOK ==
  /\ build \in Builds
  /\ mpc \in Exec \cup {"post", "prompt", "exited", "crashed"}
  /\ state \in States
  /\ halt_ret \in {-1, 0, 1}
  /\ n \in Nat \cup {Many}
  /\ WS!InUse \subseteq Number
  /\ \A no \in WS!InUse : watch[no] \in WS!Watch
  /\ env \in [Expr -> Value \cup {Fault}]
  /\ is_skip_ref \in BOOLEAN
  /\ device_update_flag \in BOOLEAN
  /\ events \in Seq(EventTypes)
  /\ pushed \in Nat
  /\ keys \in 0 .. KEY_QUEUE_LEN
  /\ keys = KEY_QUEUE_LEN => mpc = "crashed"
  /\ hit \in BOOLEAN
  /\ ran \in Nat
  /\ asked \in Nat
  /\ finish \in {"none", "good", "bad", "abort"}

\* cpu_exec says of a program that executed nemu_trap or an invalid instruction
\* "Program execution has ended. To restart the program, exit NEMU and run
\* again.": no instruction is executed after the one that ended the program.
EndIsFinal == finish # "none" => ~ (mpc = "exec" /\ n # 0)

\* A build without watchpoints and devices keeps that promise, difftest or not,
\* and main's exit status tells how the program ended.
PlainEnd ==
  build \cap {"DEBUG", "HAS_IOE"} = {} =>
    /\ EndIsFinal
    /\ mpc = "exited" => (is_exit_status_bad <=> finish # "good")

\* The program is marked as running exactly while cpu_exec executes it, so
\* send_key and timer_intr never act for a program that is stopped.
RunningInside == state = "RUNNING" => mpc \in Exec \cup {"post", "crashed"}

\* si k executes k instructions unless a watchpoint, the end of the program or
\* the closed window stopped it, and never more.
SiExact ==
  /\ ran <= asked
  /\ mpc = "prompt" =>
       ran = asked \/ hit \/ state \in {"END", "ABORT", "QUIT"}

\* With watchpoints compiled in, at the prompt and before every instruction the
\* recorded value of each watchpoint is the current one: a change is reported
\* after the instruction that made it and not later, and no instruction is
\* executed between a change and the return to the prompt.
WatchCurrent ==
  DEBUG /\ mpc \in {"prompt", "exec"} =>
    /\ \A no \in WS!InUse : watch[no].value = env[watch[no].expr]
    /\ mpc = "exec" => ~hit

\* A closed window stops the program: once SDL_QUIT is queued while cpu_exec
\* runs, even for `c', the user gets the prompt back (or NEMU dies).
QuitReturns ==
  (mpc \in Exec /\ \E i \in DOMAIN events : events[i] = "SDL_QUIT")
    ~> mpc \in {"prompt", "crashed"}

\* Every si gets back to the prompt (or NEMU dies), whatever events and
\* signals arrive meanwhile.
SiReturns == (mpc \in Exec /\ n # Many) ~> mpc \in {"prompt", "crashed"}

=============================================================================
