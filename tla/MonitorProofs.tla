---------------------------- MODULE MonitorProofs ---------------------------
(***************************************************************************)
(* Proofs about Monitor for every build, every argument of si, any number  *)
(* of watchpoints and of SDL events.  MInv is the inductive invariant: to  *)
(* the properties of Monitor it adds what holds in the middle of a turn of *)
(* cpu_exec's loop.                                                        *)
(***************************************************************************)
EXTENDS Monitor, TLAPS

\* The two pieces of a turn of the loop in which n has different meanings:
\* after the instruction was executed n still counts it.
AfterExec == Exec \ {"exec"}

\* The loop is at its head only for a running program; a change found by the
\* watchpoints has stopped it, and nothing else stops it with NEMU_STOP before
\* the switch after the loop; events are polled only in a build with devices.
LoopStates ==
  /\ mpc = "exec" => state = "RUNNING"
  /\ hit => state # "RUNNING" /\ mpc \notin {"exec", "diff", "wp"}
  /\ mpc \in Exec \cup {"post"} /\ state = "STOP" => hit
  /\ mpc = "poll" => HAS_IOE

\* n counts down what si was asked for while ran counts up; c counts nothing.
Counts ==
  /\ ran <= asked
  /\ mpc \in Exec /\ n = Many => ran = 0 /\ asked = 0
  /\ mpc = "exec" /\ n # Many => ran + n = asked
  /\ mpc \in AfterExec /\ n # Many => n > 0 /\ ran + n = asked + 1
  /\ mpc = "post" /\ state = "RUNNING" => ran = asked
  /\ mpc = "prompt" =>
       ran = asked \/ hit \/ state \in {"END", "ABORT", "QUIT"}

\* From the check after an instruction up to the next instruction the recorded
\* values are the current ones.
ValuesInv ==
  DEBUG /\ mpc \in {"prompt", "post", "exec", "dev", "poll", "test"} =>
    \A no \in WS!InUse : watch[no].value = env[watch[no].expr]

\* Without watchpoints and devices nothing takes back the state that the
\* instruction which ended the program has set: difftest_step would, but it
\* skips the comparison after nemu_trap.
EndInv ==
  build \cap {"DEBUG", "HAS_IOE"} = {} =>
    /\ finish = "none" => state \in {"STOP", "RUNNING"}
    /\ finish \in {"good", "bad"} =>
         /\ state = "END"
         /\ halt_ret = (IF finish = "good" THEN 0 ELSE 1)
         /\ mpc = "diff" => is_skip_ref = DIFF_TEST
    /\ finish = "abort" => state = "ABORT"

MInv ==
  /\ TypeOK
  /\ RunningInside
  /\ LoopStates
  /\ Counts
  /\ ValuesInv
  /\ EndInv

-----------------------------------------------------------------------------
(* Types.                                                                  *)

\* What every command of ui.c does before its own work.
LEMMA CommandFrame ==
  ASSUME TypeOK, Command
  PROVE  /\ mpc = "prompt"
         /\ events' \in Seq(EventTypes)
         /\ UNCHANGED <<build, halt_ret, is_skip_ref, device_update_flag, pushed, keys>>
BY DEF Command, TypeOK

\* A step of the loop that leaves the counts, the watchpoints and the keys alone.
LEMMA QuietTypes ==
  ASSUME TypeOK, mpc # "crashed", mpc' \in Exec,
         UNCHANGED <<build, halt_ret, n, watching, events, pushed, keys, hit, ran, asked>>,
         state' \in States, is_skip_ref' \in BOOLEAN, device_update_flag' \in BOOLEAN,
         finish' \in {"none", "good", "bad", "abort"}
  PROVE  TypeOK'
BY DEF TypeOK, watching, WS!InUse, WS!Watch

\* Every step keeps the types.
LEMMA TypesStep ==
  ASSUME TypeOK, [Next]_vars
  PROVE  TypeOK'
<1> USE MonitorAssumption DEF TypeOK, States, Many, Exec
<1>1. ASSUME NEW ev \in EventTypes, SDL_PushEvent(ev)
      PROVE  TypeOK'
  BY <1>1 DEF SDL_PushEvent, watching, ghosts, WS!InUse, WS!Watch
<1>2. CASE alarm_sig_handler
  BY <1>2 DEF alarm_sig_handler, watching, ghosts, WS!InUse, WS!Watch
<1>3. CASE cmd_c
  <2>1. CASE state \in {"END", "ABORT"}
    BY <1>3, <2>1 DEF cmd_c, Command, enter_cpu_exec, watching, ghosts, WS!InUse, WS!Watch
  <2>2. CASE state \notin {"END", "ABORT"}
    <3>1. /\ state' = "RUNNING" /\ n' = Many /\ mpc' = "exec" /\ mpc = "prompt"
          /\ hit' = FALSE /\ ran' = 0 /\ asked' = (IF Many = Many THEN 0 ELSE Many)
          /\ UNCHANGED finish
      BY <1>3, <2>2 DEF cmd_c, Command, enter_cpu_exec, Forgets
    <3>2. n' \in Nat \cup {Many} /\ asked' \in Nat
      BY <3>1
    <3>3. Command /\ UNCHANGED watching
      BY <1>3 DEF cmd_c
    <3> QED
      BY <3>1, <3>2, <3>3, CommandFrame DEF watching, WS!InUse, WS!Watch
  <2> QED
    BY <2>1, <2>2
<1>4. ASSUME NEW k \in Steps, cmd_si(k)
      PROVE  TypeOK'
  <2>1. CASE state \in {"END", "ABORT"}
    BY <1>4, <2>1 DEF cmd_si, Command, enter_cpu_exec, watching, ghosts, WS!InUse, WS!Watch
  <2>2. CASE state \notin {"END", "ABORT"}
    <3>1. /\ state' = "RUNNING" /\ n' = k /\ mpc' = "exec" /\ mpc = "prompt"
          /\ hit' = FALSE /\ ran' = 0 /\ asked' = (IF k = Many THEN 0 ELSE k)
          /\ UNCHANGED finish
      BY <1>4, <2>2 DEF cmd_si, Command, enter_cpu_exec, Forgets
    <3>2. n' \in Nat \cup {Many} /\ asked' \in Nat
      BY <3>1
    <3>3. Command /\ UNCHANGED watching
      BY <1>4 DEF cmd_si
    <3> QED
      BY <3>1, <3>2, <3>3, CommandFrame DEF watching, WS!InUse, WS!Watch
  <2> QED
    BY <2>1, <2>2
<1>5. CASE cmd_leave
  BY <1>5 DEF cmd_leave, Command, watching, ghosts, WS!InUse, WS!Watch
<1>6. CASE end_of_input
  BY <1>6 DEF end_of_input, watching, devices, ghosts, WS!InUse, WS!Watch
<1>7. ASSUME NEW e \in Expr, cmd_w(e)
      PROVE  TypeOK'
  <2>1. CASE mpc' = "crashed" /\ UNCHANGED watch
    BY <1>7, <2>1 DEF cmd_w, Command, ghosts, WS!InUse, WS!Watch
  <2>2. ASSUME env[e] # Fault, UNCHANGED mpc, NEW no \in Number \ WS!InUse,
               watch' = WS!With(watch, no, [expr |-> e, value |-> env[e]])
        PROVE  TypeOK'
    <3>1. WS!InUse' = WS!InUse \cup {no}
      BY <2>2 DEF WS!InUse, WS!With
    <3>2. \A m \in WS!InUse' : watch'[m] \in WS!Watch
      BY <2>2 DEF WS!InUse, WS!With, WS!Watch
    <3> QED
      BY <1>7, <2>2, <3>1, <3>2 DEF cmd_w, Command, ghosts
  <2> QED
    BY <1>7, <2>1, <2>2 DEF cmd_w
<1>8. CASE cmd_w_no_args
  BY <1>8 DEF cmd_w_no_args, Command, watching, ghosts, WS!InUse, WS!Watch
<1>9. ASSUME NEW nos \in SUBSET Number \ {{}}, cmd_d(nos)
      PROVE  TypeOK'
  BY <1>9 DEF cmd_d, Command, ghosts, WS!InUse, WS!Watch
<1>10. ASSUME NEW e \in Expr, cmd_p(e) \/ cmd_x(e)
       PROVE  TypeOK'
  <2>1. /\ mpc' \in {"crashed", "prompt"}
        /\ Command
        /\ UNCHANGED <<state, n, watching, ghosts>>
    BY <1>10 DEF cmd_p, cmd_x
  <2> QED
    BY <2>1, CommandFrame DEF watching, ghosts, WS!InUse, WS!Watch
<1>11. CASE exec_ordinary
  BY <1>11 DEF exec_ordinary, Execs, WS!InUse, WS!Watch
<1>12. CASE exec_io
  BY <1>12 DEF exec_io, Execs, DIFF_TEST, WS!InUse, WS!Watch
<1>13. ASSUME NEW ret \in {0, 1}, exec_nemu_trap(ret)
       PROVE  TypeOK'
  BY <1>13 DEF exec_nemu_trap, Execs, rtl_exit, Finishes, DIFF_TEST, WS!InUse, WS!Watch
<1>14. CASE exec_inv
  BY <1>14 DEF exec_inv, Execs, rtl_exit, Finishes, WS!InUse, WS!Watch
<1>15. CASE exec_panic
  BY <1>15 DEF exec_panic, watching, devices, ghosts, WS!InUse, WS!Watch
<1>16. CASE difftest_step
  <2>1. mpc # "crashed" /\ mpc' \in Exec
    BY <1>16 DEF difftest_step
  <2>2. UNCHANGED <<build, halt_ret, n, watching, devices, hit, ran, asked>>
    BY <1>16 DEF difftest_step
  <2>3. /\ state' \in States /\ is_skip_ref' \in BOOLEAN
        /\ finish' \in {"none", "good", "bad", "abort"}
    BY <1>16 DEF difftest_step, Finishes
  <2> QED
    BY <2>1, <2>2, <2>3, QuietTypes DEF devices
<1>17. CASE check_watchpoints
  <2>1. CASE UNCHANGED <<state, watch, hit>>
    BY <1>17, <2>1 DEF check_watchpoints, devices, WS!InUse, WS!Watch
  <2>2. ASSUME \A no \in WS!InUse : env[watch[no].expr] # Fault,
               watch' = [no \in WS!InUse |->
                          [expr |-> watch[no].expr, value |-> env[watch[no].expr]]],
               hit' = (WS!Hit # {}), state' = IF hit' THEN "STOP" ELSE state,
               mpc' = "dev"
        PROVE  TypeOK'
    <3>1. WS!InUse' = WS!InUse /\ \A no \in WS!InUse : watch'[no] \in WS!Watch
      BY <2>2 DEF WS!InUse, WS!Watch
    <3>2. hit' \in BOOLEAN
      BY <2>2
    <3>3. state' \in States
      BY <2>2
    <3> QED
      BY <1>17, <2>2, <3>1, <3>2, <3>3 DEF check_watchpoints, devices
  <2> QED
    BY <1>17, <2>1, <2>2 DEF check_watchpoints
<1>18. CASE device_update
  <2>1. mpc # "crashed" /\ mpc' \in Exec /\ device_update_flag' \in BOOLEAN
    BY <1>18 DEF device_update
  <2>2. UNCHANGED <<build, state, halt_ret, n, watching, is_skip_ref, events, pushed, keys, ghosts>>
    BY <1>18 DEF device_update
  <2> QED
    BY <2>1, <2>2, QuietTypes DEF ghosts
<1>19. CASE poll_event
  <2>1. mpc # "crashed" /\ keys \in 0 .. KEY_QUEUE_LEN - 1
    BY <1>19 DEF poll_event
  <2>2. UNCHANGED <<build, halt_ret, n, watching, is_skip_ref, device_update_flag, pushed, ghosts>>
    BY <1>19 DEF poll_event
  <2>3. state' \in States /\ events' \in Seq(EventTypes)
    BY <1>19 DEF poll_event
  <2>4. /\ mpc' \in {"poll", "test", "crashed"} /\ keys' \in 0 .. KEY_QUEUE_LEN
        /\ keys' = KEY_QUEUE_LEN => mpc' = "crashed"
    BY <1>19, <2>1 DEF poll_event, send_key
  <2> QED
    BY <2>2, <2>3, <2>4 DEF watching, ghosts, WS!InUse, WS!Watch
<1>20. CASE loop_test
  BY <1>20 DEF loop_test, watching, devices, ghosts, WS!InUse, WS!Watch
<1>21. CASE loop_done
  BY <1>21 DEF loop_done, watching, devices, ghosts, WS!InUse, WS!Watch
<1>22. CASE after_loop
  BY <1>22 DEF after_loop, watching, devices, ghosts, WS!InUse, WS!Watch
<1>23. CASE UNCHANGED vars
  BY <1>23 DEF vars, WS!InUse, WS!Watch
<1> HIDE DEF TypeOK
<1> QED
  BY <1>1, <1>2, <1>3, <1>4, <1>5, <1>6, <1>7, <1>8, <1>9, <1>10, <1>11, <1>12,
     <1>13, <1>14, <1>15, <1>16, <1>17, <1>18, <1>19, <1>20, <1>21, <1>22, <1>23
     DEF Next, User, Run, Environment

-----------------------------------------------------------------------------
(* The state of the program and the place of the monitor.                  *)

\* The program runs exactly inside the loop, and what stopped it is known.
LEMMA LoopStep ==
  ASSUME MInv, [Next]_vars
  PROVE  (RunningInside /\ LoopStates)'
<1> USE DEF MInv, RunningInside, LoopStates, Exec, HAS_IOE
<1>1. ASSUME NEW ev \in EventTypes, SDL_PushEvent(ev)
      PROVE  (RunningInside /\ LoopStates)'
  BY <1>1 DEF SDL_PushEvent, watching, ghosts
<1>2. CASE alarm_sig_handler
  BY <1>2 DEF alarm_sig_handler, watching, ghosts
<1>3. CASE cmd_c
  BY <1>3 DEF cmd_c, Command, enter_cpu_exec, Forgets, watching, ghosts
<1>4. ASSUME NEW k \in Steps, cmd_si(k)
      PROVE  (RunningInside /\ LoopStates)'
  BY <1>4 DEF cmd_si, Command, enter_cpu_exec, Forgets, watching, ghosts
<1>5. CASE cmd_leave
  BY <1>5 DEF cmd_leave, Command, watching, ghosts
<1>6. CASE end_of_input
  BY <1>6 DEF end_of_input, watching, devices, ghosts
<1>7. ASSUME NEW e \in Expr, cmd_w(e)
      PROVE  (RunningInside /\ LoopStates)'
  BY <1>7 DEF cmd_w, Command, ghosts
<1>8. CASE cmd_w_no_args
  BY <1>8 DEF cmd_w_no_args, Command, watching, ghosts
<1>9. ASSUME NEW nos \in SUBSET Number \ {{}}, cmd_d(nos)
      PROVE  (RunningInside /\ LoopStates)'
  BY <1>9 DEF cmd_d, Command, ghosts
<1>10. ASSUME NEW e \in Expr, cmd_p(e)
       PROVE  (RunningInside /\ LoopStates)'
  BY <1>10 DEF cmd_p, Command, watching, ghosts
<1>11. ASSUME NEW e \in Expr, cmd_x(e)
       PROVE  (RunningInside /\ LoopStates)'
  BY <1>11 DEF cmd_x, Command, watching, ghosts
<1>12. CASE exec_ordinary
  BY <1>12 DEF exec_ordinary, Execs
<1>13. CASE exec_io
  BY <1>13 DEF exec_io, Execs
<1>14. ASSUME NEW ret \in {0, 1}, exec_nemu_trap(ret)
       PROVE  (RunningInside /\ LoopStates)'
  BY <1>14 DEF exec_nemu_trap, Execs, rtl_exit, Finishes
<1>15. CASE exec_inv
  BY <1>15 DEF exec_inv, Execs, rtl_exit, Finishes
<1>16. CASE exec_panic
  BY <1>16 DEF exec_panic, watching, devices, ghosts
<1>17. CASE difftest_step
  BY <1>17 DEF difftest_step, Finishes, watching, devices
<1>18. CASE check_watchpoints
  <2>1. CASE UNCHANGED <<state, watch, hit>>
    BY <1>18, <2>1 DEF check_watchpoints
  <2>2. CASE hit' = TRUE /\ state' = "STOP"
    BY <1>18, <2>2 DEF check_watchpoints
  <2>3. CASE hit' = FALSE /\ state' = state
    <3>1. mpc = "wp" /\ mpc' \in {"dev", "crashed"}
      BY <1>18 DEF check_watchpoints
    <3> QED
      BY <2>3, <3>1
  <2>4. CASE hit' = (WS!Hit # {}) /\ state' = IF hit' THEN "STOP" ELSE state
    BY <2>2, <2>3, <2>4
  <2> QED
    BY <1>18, <2>1, <2>4 DEF check_watchpoints
<1>19. CASE device_update
  BY <1>19 DEF device_update, watching, ghosts
<1>20. CASE poll_event
  BY <1>20 DEF poll_event, send_key, watching, ghosts
<1>21. CASE loop_test
  BY <1>21 DEF loop_test, watching, devices, ghosts
<1>22. CASE loop_done
  BY <1>22 DEF loop_done, watching, devices, ghosts
<1>23. CASE after_loop
  BY <1>23 DEF after_loop, watching, devices, ghosts
<1>24. CASE UNCHANGED vars
  BY <1>24 DEF vars
<1> HIDE DEF MInv, RunningInside, LoopStates
<1> QED
  BY <1>1, <1>2, <1>3, <1>4, <1>5, <1>6, <1>7, <1>8, <1>9, <1>10, <1>11, <1>12,
     <1>13, <1>14, <1>15, <1>16, <1>17, <1>18, <1>19, <1>20, <1>21, <1>22, <1>23, <1>24
     DEF Next, User, Run, Environment

-----------------------------------------------------------------------------
(* The count of si.                                                        *)

\* n goes down as ran goes up.
LEMMA CountsStep ==
  ASSUME MInv, [Next]_vars
  PROVE  Counts'
<1> USE DEF MInv, TypeOK, LoopStates, Counts, AfterExec, Exec, Many
<1>1. ASSUME NEW ev \in EventTypes, SDL_PushEvent(ev)
      PROVE  Counts'
  BY <1>1 DEF SDL_PushEvent, watching, ghosts
<1>2. CASE alarm_sig_handler
  BY <1>2 DEF alarm_sig_handler, watching, ghosts
<1>3. CASE cmd_c
  BY <1>3 DEF cmd_c, Command, enter_cpu_exec, Forgets, watching, ghosts
<1>4. ASSUME NEW k \in Steps, cmd_si(k)
      PROVE  Counts'
  BY <1>4, MonitorAssumption DEF cmd_si, Command, enter_cpu_exec, Forgets, watching, ghosts
<1>5. CASE cmd_leave
  BY <1>5 DEF cmd_leave, Command, watching, ghosts
<1>6. CASE end_of_input
  BY <1>6 DEF end_of_input, watching, devices, ghosts
<1>7. ASSUME NEW e \in Expr, cmd_w(e)
      PROVE  Counts'
  BY <1>7 DEF cmd_w, Command, ghosts
<1>8. CASE cmd_w_no_args
  BY <1>8 DEF cmd_w_no_args, Command, watching, ghosts
<1>9. ASSUME NEW nos \in SUBSET Number \ {{}}, cmd_d(nos)
      PROVE  Counts'
  BY <1>9 DEF cmd_d, Command, ghosts
<1>10. ASSUME NEW e \in Expr, cmd_p(e)
       PROVE  Counts'
  BY <1>10 DEF cmd_p, Command, watching, ghosts
<1>11. ASSUME NEW e \in Expr, cmd_x(e)
       PROVE  Counts'
  BY <1>11 DEF cmd_x, Command, watching, ghosts
<1>12. CASE exec_ordinary
  BY <1>12 DEF exec_ordinary, Execs
<1>13. CASE exec_io
  BY <1>13 DEF exec_io, Execs
<1>14. ASSUME NEW ret \in {0, 1}, exec_nemu_trap(ret)
       PROVE  Counts'
  BY <1>14 DEF exec_nemu_trap, Execs, rtl_exit, Finishes
<1>15. CASE exec_inv
  BY <1>15 DEF exec_inv, Execs, rtl_exit, Finishes
<1>16. CASE exec_panic
  BY <1>16 DEF exec_panic, watching, devices, ghosts
<1>17. CASE difftest_step
  BY <1>17 DEF difftest_step, Finishes, watching, devices
<1>18. CASE check_watchpoints
  BY <1>18 DEF check_watchpoints, devices
<1>19. CASE device_update
  BY <1>19 DEF device_update, watching, ghosts
<1>20. CASE poll_event
  BY <1>20 DEF poll_event, send_key, watching, ghosts
<1>21. CASE loop_test
  BY <1>21 DEF loop_test, watching, devices, ghosts
<1>22. CASE loop_done
  BY <1>22 DEF loop_done, watching, devices, ghosts
<1>23. CASE after_loop
  BY <1>23 DEF after_loop, States, watching, devices, ghosts
<1>24. CASE UNCHANGED vars
  BY <1>24 DEF vars
<1> HIDE DEF MInv, Counts
<1> QED
  BY <1>1, <1>2, <1>3, <1>4, <1>5, <1>6, <1>7, <1>8, <1>9, <1>10, <1>11, <1>12,
     <1>13, <1>14, <1>15, <1>16, <1>17, <1>18, <1>19, <1>20, <1>21, <1>22, <1>23, <1>24
     DEF Next, User, Run, Environment

-----------------------------------------------------------------------------
(* Watchpoints.                                                            *)

\* The check after an instruction renews every value.
LEMMA ValuesStep ==
  ASSUME MInv, [Next]_vars
  PROVE  ValuesInv'
<1> USE DEF MInv, ValuesInv, DEBUG, WS!InUse
<1>1. ASSUME NEW ev \in EventTypes, SDL_PushEvent(ev)
      PROVE  ValuesInv'
  BY <1>1 DEF SDL_PushEvent, watching
<1>2. CASE alarm_sig_handler
  BY <1>2 DEF alarm_sig_handler, watching
<1>3. CASE cmd_c
  BY <1>3 DEF cmd_c, Command, enter_cpu_exec, Forgets, watching
<1>4. ASSUME NEW k \in Steps, cmd_si(k)
      PROVE  ValuesInv'
  BY <1>4 DEF cmd_si, Command, enter_cpu_exec, Forgets, watching
<1>5. CASE cmd_leave
  BY <1>5 DEF cmd_leave, Command, watching
<1>6. CASE end_of_input
  BY <1>6 DEF end_of_input, watching, devices
<1>7. ASSUME NEW e \in Expr, cmd_w(e)
      PROVE  ValuesInv'
  <2>1. CASE mpc' = "crashed"
    BY <2>1
  <2>2. ASSUME NEW no \in Number \ WS!InUse,
               watch' = WS!With(watch, no, [expr |-> e, value |-> env[e]])
        PROVE  ValuesInv'
    <3>1. \A m \in DOMAIN watch' : \/ m \in DOMAIN watch /\ watch'[m] = watch[m]
                                   \/ watch'[m] = [expr |-> e, value |-> env[e]]
      BY <2>2 DEF WS!With
    <3>2. UNCHANGED <<build, env>> /\ mpc = "prompt"
      BY <1>7 DEF cmd_w, Command
    <3> QED
      BY <3>1, <3>2
  <2> QED
    BY <1>7, <2>1, <2>2 DEF cmd_w
<1>8. CASE cmd_w_no_args
  BY <1>8 DEF cmd_w_no_args, Command, watching
<1>9. ASSUME NEW nos \in SUBSET Number \ {{}}, cmd_d(nos)
      PROVE  ValuesInv'
  BY <1>9 DEF cmd_d, Command
<1>10. ASSUME NEW e \in Expr, cmd_p(e)
       PROVE  ValuesInv'
  BY <1>10 DEF cmd_p, Command, watching
<1>11. ASSUME NEW e \in Expr, cmd_x(e)
       PROVE  ValuesInv'
  BY <1>11 DEF cmd_x, Command, watching
<1>12. CASE exec_ordinary
  BY <1>12 DEF exec_ordinary, Execs
<1>13. CASE exec_io
  BY <1>13 DEF exec_io, Execs
<1>14. ASSUME NEW ret \in {0, 1}, exec_nemu_trap(ret)
       PROVE  ValuesInv'
  BY <1>14 DEF exec_nemu_trap, Execs, rtl_exit, Finishes
<1>15. CASE exec_inv
  BY <1>15 DEF exec_inv, Execs, rtl_exit, Finishes
<1>16. CASE exec_panic
  BY <1>16 DEF exec_panic, watching, devices
<1>17. CASE difftest_step
  BY <1>17 DEF difftest_step, Finishes, watching, devices
<1>18. CASE check_watchpoints
  BY <1>18 DEF check_watchpoints, devices
<1>19. CASE device_update
  BY <1>19 DEF device_update, watching
<1>20. CASE poll_event
  BY <1>20 DEF poll_event, send_key, watching
<1>21. CASE loop_test
  BY <1>21 DEF loop_test, watching, devices
<1>22. CASE loop_done
  BY <1>22 DEF loop_done, watching, devices
<1>23. CASE after_loop
  BY <1>23 DEF after_loop, watching, devices
<1>24. CASE UNCHANGED vars
  BY <1>24 DEF vars
<1> HIDE DEF MInv, ValuesInv
<1> QED
  BY <1>1, <1>2, <1>3, <1>4, <1>5, <1>6, <1>7, <1>8, <1>9, <1>10, <1>11, <1>12,
     <1>13, <1>14, <1>15, <1>16, <1>17, <1>18, <1>19, <1>20, <1>21, <1>22, <1>23, <1>24
     DEF Next, User, Run, Environment

-----------------------------------------------------------------------------
(* The end of the program.                                                 *)

\* Nothing takes the end of the program back in a build without watchpoints
\* and devices.
LEMMA EndStep ==
  ASSUME MInv, [Next]_vars
  PROVE  EndInv'
<1> USE DEF MInv, RunningInside, LoopStates, EndInv, DEBUG, HAS_IOE, DIFF_TEST, Exec
<1>1. ASSUME NEW ev \in EventTypes, SDL_PushEvent(ev)
      PROVE  EndInv'
  BY <1>1 DEF SDL_PushEvent, watching, ghosts
<1>2. CASE alarm_sig_handler
  BY <1>2 DEF alarm_sig_handler, watching, ghosts
<1>3. CASE cmd_c
  BY <1>3 DEF cmd_c, Command, enter_cpu_exec, Forgets, watching, ghosts
<1>4. ASSUME NEW k \in Steps, cmd_si(k)
      PROVE  EndInv'
  BY <1>4 DEF cmd_si, Command, enter_cpu_exec, Forgets, watching, ghosts
<1>5. CASE cmd_leave
  BY <1>5 DEF cmd_leave, Command, watching, ghosts
<1>6. CASE end_of_input
  BY <1>6 DEF end_of_input, watching, devices, ghosts
<1>7. ASSUME NEW e \in Expr, cmd_w(e)
      PROVE  EndInv'
  BY <1>7 DEF cmd_w, Command, ghosts
<1>8. CASE cmd_w_no_args
  BY <1>8 DEF cmd_w_no_args, Command, watching, ghosts
<1>9. ASSUME NEW nos \in SUBSET Number \ {{}}, cmd_d(nos)
      PROVE  EndInv'
  BY <1>9 DEF cmd_d, Command, ghosts
<1>10. ASSUME NEW e \in Expr, cmd_p(e)
       PROVE  EndInv'
  BY <1>10 DEF cmd_p, Command, watching, ghosts
<1>11. ASSUME NEW e \in Expr, cmd_x(e)
       PROVE  EndInv'
  BY <1>11 DEF cmd_x, Command, watching, ghosts
<1>12. CASE exec_ordinary
  BY <1>12 DEF exec_ordinary, Execs
<1>13. CASE exec_io
  BY <1>13 DEF exec_io, Execs
<1>14. ASSUME NEW ret \in {0, 1}, exec_nemu_trap(ret)
       PROVE  EndInv'
  BY <1>14 DEF exec_nemu_trap, Execs, rtl_exit, Finishes
<1>15. CASE exec_inv
  BY <1>15 DEF exec_inv, Execs, rtl_exit, Finishes
<1>16. CASE exec_panic
  BY <1>16 DEF exec_panic, watching, devices, ghosts
<1>17. CASE difftest_step
  BY <1>17 DEF difftest_step, Finishes, watching, devices
<1>18. CASE check_watchpoints
  BY <1>18 DEF check_watchpoints, devices
<1>19. CASE device_update
  BY <1>19 DEF device_update, watching, ghosts
<1>20. CASE poll_event
  BY <1>20 DEF poll_event, send_key, watching, ghosts
<1>21. CASE loop_test
  BY <1>21 DEF loop_test, watching, devices, ghosts
<1>22. CASE loop_done
  BY <1>22 DEF loop_done, watching, devices, ghosts
<1>23. CASE after_loop
  BY <1>23 DEF after_loop, watching, devices, ghosts
<1>24. CASE UNCHANGED vars
  BY <1>24 DEF vars
<1> HIDE DEF MInv, EndInv
<1> QED
  BY <1>1, <1>2, <1>3, <1>4, <1>5, <1>6, <1>7, <1>8, <1>9, <1>10, <1>11, <1>12,
     <1>13, <1>14, <1>15, <1>16, <1>17, <1>18, <1>19, <1>20, <1>21, <1>22, <1>23, <1>24
     DEF Next, User, Run, Environment

-----------------------------------------------------------------------------
(* Theorems.                                                               *)

\* The invariant holds when ui_mainloop starts.
LEMMA MInitInv == Init => MInv
<1> SUFFICES ASSUME Init PROVE MInv
  OBVIOUS
<1>1. WS!InUse = {}
  BY DEF Init, WS!InUse
<1>2. env \in [Expr -> Value \cup {Fault}] /\ <<>> \in Seq(EventTypes)
  BY DEF Init
<1>3. keys \in 0 .. KEY_QUEUE_LEN /\ keys # KEY_QUEUE_LEN
  BY MonitorAssumption DEF Init
<1>4. TypeOK
  BY <1>1, <1>2, <1>3 DEF Init, TypeOK, States, Many
<1> QED
  BY <1>1, <1>4
     DEF Init, MInv, RunningInside, LoopStates, Counts, ValuesInv, EndInv, Exec, AfterExec

\* MInv holds in every reachable state, whatever NEMU was built with.
THEOREM MonitorInvariant == Spec => []MInv
<1>1. MInv /\ [Next]_vars => MInv'
  BY TypesStep, LoopStep, CountsStep, ValuesStep, EndStep DEF MInv
<1> QED
  BY <1>1, MInitInv, PTL DEF Spec

\* The monitor's variables keep their types; in particular the keyboard ring is
\* full only once send_key's assertion has killed NEMU.
THEOREM MonitorTypes == Spec => []TypeOK
<1>1. MInv => TypeOK
  BY DEF MInv
<1> QED
  BY <1>1, MonitorInvariant, PTL

\* nemu_state.state is NEMU_RUNNING only inside cpu_exec.
THEOREM MonitorRunning == Spec => []RunningInside
<1>1. MInv => RunningInside
  BY DEF MInv
<1> QED
  BY <1>1, MonitorInvariant, PTL

\* si k never executes more than k instructions, and fewer only for a watchpoint,
\* the end of the program or a closed window, for every k.
THEOREM MonitorSi == Spec => []SiExact
<1>1. MInv => SiExact
  BY DEF MInv, Counts, SiExact
<1> QED
  BY <1>1, MonitorInvariant, PTL

\* At the prompt and before every instruction each watchpoint has the current
\* value of its expression, and no instruction follows a reported change.
THEOREM MonitorWatch == Spec => []WatchCurrent
<1>1. MInv => WatchCurrent
  BY DEF MInv, LoopStates, ValuesInv, WatchCurrent
<1> QED
  BY <1>1, MonitorInvariant, PTL

\* Without watchpoints and devices the end of the program is final and the exit
\* status of NEMU tells how it ended, with or without differential testing.
THEOREM MonitorPlainEnd == Spec => []PlainEnd
<1>1. MInv => PlainEnd
  BY DEF MInv, TypeOK, LoopStates, EndInv, PlainEnd, EndIsFinal, is_exit_status_bad
<1> QED
  BY <1>1, MonitorInvariant, PTL

=============================================================================
