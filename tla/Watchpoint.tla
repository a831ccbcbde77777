----------------------------- MODULE Watchpoint -----------------------------
(***************************************************************************)
(* The watchpoint pool of the NEMU monitor (monitor/debug/watchpoint.c)    *)
(* together with its three callers: the commands `w' and `d' of            *)
(* monitor/debug/ui.c and the check that cpu_exec makes after every        *)
(* instruction (monitor/cpu-exec.c).                                       *)
(*                                                                         *)
(* The pool is an array of NR_WP slots threaded on two singly linked       *)
(* lists: head (in use, newest first) and free_ (available).  A slot is    *)
(* named by its array index, which is also its NO; NULL is the C null      *)
(* pointer.  An expression is a model value whose current result is env    *)
(* of it: a value, or Fault when evaluating it would fail an assertion of  *)
(* expr.c (a division by zero, say), which kills the process.              *)
(***************************************************************************)
EXTENDS Integers, Sequences

CONSTANTS
  NR_WP,      \* number of slots in wp_pool
  Expr,       \* expressions make_token accepts
  BadExpr,    \* expressions make_token rejects (success = false)
  Value,      \* results of an expression
  Fault,      \* "evaluating it fails an assertion"
  Freed,      \* a watch_expr whose text was given back with free()
  NULL,
  MaxArgs     \* bound: numbers given to one `d' command

Pool == 0 .. NR_WP - 1

ASSUME PoolAssumption  == NR_WP \in Nat \ {0}
ASSUME NullAssumption  == NULL \notin Pool \cup Expr \cup BadExpr \cup {Freed}
ASSUME ValueAssumption == 0 \in Value /\ Fault \notin Value
ASSUME ExprAssumption  == Expr \cap BadExpr = {} /\ Freed \notin Expr \cup BadExpr
ASSUME ArgsAssumption  == MaxArgs \in Nat \ {0}

VARIABLES
  head, free_,              \* the two list heads
  next,                     \* wp_pool[i].next
  watch_expr, watch_value,  \* wp_pool[i].watch_expr, .watch_value
  env,                      \* what each expression evaluates to now
  pc,                       \* where the monitor is
  wp,                       \* local variable wp of cmd_w
  args                      \* numbers cmd_d has still to read

pool == <<head, free_, next>>
wvars == <<head, free_, next, watch_expr, watch_value, env, pc, wp, args>>

Ptr == Pool \cup {NULL}
Text == Expr \cup BadExpr

\* "prompt": reading a command; "w": inside cmd_w, after new_wp; "d": in the
\* loop of cmd_d; "check": an instruction was executed and check_wp_changed is
\* due; "stopped": it found a change and the program was stopped;
\* "exited": the handler returned -1; "assert_*": that assertion failed;
\* "segfault": strlen(NULL).
PC == {"prompt", "w", "d", "check", "stopped", "exited",
       "assert_pool", "assert_list", "assert_expr", "segfault"}

-----------------------------------------------------------------------------
(* Lists.                                                                  *)

\* The nodes a walk `for (p = h; p != NULL; p = p->next)' visits: the
\* smallest set that holds h and is closed under the next pointers nxt.
Reach(h, nxt) ==
  {p \in Pool : \A S \in SUBSET Pool :
                  /\ h \in S \cup {NULL}
                  /\ \A q \in S : nxt[q] \in S \cup {NULL}
                  => p \in S}

Active == Reach(head, next)
Free   == Reach(free_, next)

-----------------------------------------------------------------------------
(* watchpoint.c                                                            *)

\* Faulty: the last slot keeps the pointer past the end of the array.
init_wp_pool_unterminated ==
  /\ next = [i \in Pool |-> i + 1]
  /\ watch_expr = [i \in Pool |-> NULL]
  /\ watch_value = [i \in Pool |-> 0]
  /\ head = NULL
  /\ free_ = 0

init_wp_pool ==
  /\ next = [i \in Pool |-> IF i = NR_WP - 1 THEN NULL ELSE i + 1]
  /\ watch_expr = [i \in Pool |-> NULL]
  /\ watch_value = [i \in Pool |-> 0]
  /\ head = NULL
  /\ free_ = 0

\* Faulty: the new slot is not linked to the rest of the active list.
new_wp_drops_rest ==
  /\ free_' = next[free_]
  /\ next' = [next EXCEPT ![free_] = NULL]
  /\ head' = free_

\* Guarded by free_ # NULL; the caller handles the failing assertion.
new_wp ==
  /\ free_' = next[free_]
  /\ next' = [next EXCEPT ![free_] = head]
  /\ head' = free_

\* The search loop of free_wp ends at the node before p, if p is on the list.
Predecessors(p) == {q \in Active : next[q] = p}

free_wp_not_found(p) == p # head /\ Predecessors(p) = {}

\* Faulty: the predecessor is not made to skip p.
free_wp_still_linked(p) ==
  /\ watch_expr' = [watch_expr EXCEPT ![p] = Freed]
  /\ watch_value' = [watch_value EXCEPT ![p] = 0]
  /\ free_' = p
  /\ head' = IF head = p THEN next[p] ELSE head
  /\ next' = [next EXCEPT ![p] = free_]

free_wp(p) ==
  /\ watch_expr' = [watch_expr EXCEPT ![p] = Freed]
  /\ watch_value' = [watch_value EXCEPT ![p] = 0]
  /\ free_' = p
  /\ \/ /\ head = p
        /\ head' = next[p]
        /\ next' = [next EXCEPT ![p] = free_]
     \/ /\ head # p
        /\ \E pre \in Predecessors(p) :
             next' = [next EXCEPT ![pre] = next[p], ![p] = free_]
        /\ UNCHANGED head

\* Faulty: a number is looked up in the pool, not on the list.
no_to_wp_any(no) == IF no \in Pool THEN no ELSE NULL

\* NO is the slot's index, so the search finds slot no or nothing.
no_to_wp(no) == IF no \in Active THEN no ELSE NULL

\* The loop of check_wp_changed over the active list: what it returns, and
\* the values it leaves behind.
Changed == {p \in Active : env[watch_expr[p]] # watch_value[p]}

\* Faulty: a changed value is reported but not recorded.
Checked_unrecorded == watch_value

Checked == [p \in Pool |-> IF p \in Changed THEN env[watch_expr[p]]
                                            ELSE watch_value[p]]

check_wp_changed ==
  /\ pc = "check"
  /\ \/ /\ \E p \in Active : env[watch_expr[p]] = Fault
        /\ pc' = "assert_expr"
        /\ UNCHANGED watch_value
     \/ /\ \A p \in Active : env[watch_expr[p]] # Fault
        /\ watch_value' = Checked
        /\ pc' = IF Changed # {} THEN "stopped" ELSE "prompt"
  /\ UNCHANGED <<pool, watch_expr, env, wp, args>>

-----------------------------------------------------------------------------
(* ui.c and cpu-exec.c                                                     *)

\* cmd_w up to the call of expr: the slot is allocated before the expression
\* is known to be well formed.
cmd_w(e) ==
  /\ pc = "prompt"
  /\ \/ /\ free_ = NULL
        /\ pc' = "assert_pool"
        /\ UNCHANGED <<pool, watch_expr, wp>>
     \/ /\ free_ # NULL
        /\ new_wp
        /\ wp' = free_
        /\ watch_expr' = [watch_expr EXCEPT ![free_] = e]
        /\ pc' = "w"
  /\ UNCHANGED <<watch_value, env, args>>

\* `w' with no argument: strlen is called with the null pointer.
cmd_w_no_args ==
  /\ pc = "prompt"
  /\ pc' = "segfault"
  /\ UNCHANGED <<pool, watch_expr, watch_value, env, wp, args>>

\* cmd_w after a call of expr that returned a value.
cmd_w_value ==
  /\ pc = "w"
  /\ watch_expr[wp] \in Expr
  /\ env[watch_expr[wp]] # Fault
  /\ watch_value' = [watch_value EXCEPT ![wp] = env[watch_expr[wp]]]
  /\ wp' = NULL
  /\ pc' = "prompt"
  /\ UNCHANGED <<pool, watch_expr, env, args>>

\* cmd_w when make_token rejects the expression: the slot is given back and
\* the handler returns -1, which ends ui_mainloop.
cmd_w_bad ==
  /\ pc = "w"
  /\ watch_expr[wp] \in BadExpr
  /\ \/ /\ free_wp_not_found(wp)
        /\ pc' = "assert_list"
        /\ UNCHANGED <<pool, watch_expr, watch_value, wp>>
     \/ /\ ~free_wp_not_found(wp)
        /\ free_wp(wp)
        /\ wp' = NULL
        /\ pc' = "exited"
  /\ UNCHANGED <<env, args>>

\* cmd_w when an assertion fails inside expr.
cmd_w_assert ==
  /\ pc = "w"
  /\ watch_expr[wp] \in Expr
  /\ env[watch_expr[wp]] = Fault
  /\ pc' = "assert_expr"
  /\ UNCHANGED <<pool, watch_expr, watch_value, env, wp, args>>

\* cmd_d with the numbers nos; without one it returns -1.
cmd_d(nos) ==
  /\ pc = "prompt"
  /\ pc' = IF nos = <<>> THEN "exited" ELSE "d"
  /\ args' = nos
  /\ UNCHANGED <<pool, watch_expr, watch_value, env, wp>>

\* One turn of the do-while loop of cmd_d.
cmd_d_next ==
  /\ pc = "d"
  /\ LET p == no_to_wp(Head(args)) IN
       \/ /\ p = NULL
          /\ UNCHANGED <<pool, watch_expr, watch_value>>
          /\ pc' = IF Len(args) = 1 THEN "prompt" ELSE "d"
       \/ /\ p # NULL
          /\ free_wp_not_found(p)
          /\ UNCHANGED <<pool, watch_expr, watch_value>>
          /\ pc' = "assert_list"
       \/ /\ p # NULL
          /\ ~free_wp_not_found(p)
          /\ free_wp(p)
          /\ pc' = IF Len(args) = 1 THEN "prompt" ELSE "d"
  /\ args' = Tail(args)
  /\ UNCHANGED <<env, wp>>

\* One instruction of the program, which changes what expressions evaluate to;
\* cpu_exec then calls check_wp_changed.
exec_once ==
  /\ pc = "prompt"
  /\ env' \in [Expr -> Value \cup {Fault}]
  /\ pc' = "check"
  /\ UNCHANGED <<pool, watch_expr, watch_value, wp, args>>

\* cpu_exec leaves its loop and the user is back at the prompt.
resume ==
  /\ pc = "stopped"
  /\ pc' = "prompt"
  /\ UNCHANGED <<pool, watch_expr, watch_value, env, wp, args>>

-----------------------------------------------------------------------------
WInit ==
  /\ init_wp_pool
  /\ env \in [Expr -> Value]
  /\ pc = "prompt"
  /\ wp = NULL
  /\ args = <<>>

ArgLists == UNION {[1 .. k -> 0 .. NR_WP] : k \in 0 .. MaxArgs}

WNext ==
  \/ \E e \in Text : cmd_w(e)
  \/ cmd_w_no_args
  \/ cmd_w_value
  \/ cmd_w_bad
  \/ cmd_w_assert
  \/ \E nos \in ArgLists : cmd_d(nos)
  \/ cmd_d_next
  \/ exec_once
  \/ check_wp_changed
  \/ resume

WSpec == WInit /\ [][WNext]_wvars

-----------------------------------------------------------------------------
(* Properties.                                                             *)

\* Type invariant: list pointers are slots of the pool or NULL, an expression
\* text is a live one, a freed one or NULL, values are expression results.
WTypeOK ==
  /\ head \in Ptr
  /\ free_ \in Ptr
  /\ next \in [Pool -> Ptr]
  /\ watch_expr \in [Pool -> Text \cup {NULL, Freed}]
  /\ watch_value \in [Pool -> Value]
  /\ env \in [Expr -> Value \cup {Fault}]
  /\ pc \in PC
  /\ wp \in Ptr
  /\ args \in Seq(0 .. NR_WP)

\* Whatever sequence of w, d and failed w commands was given, every slot is on
\* exactly one of the two lists: new_wp and free_wp never leak a slot, never
\* leave one on both lists and never cut off the tail of a list.
PoolPartition == Active \cap Free = {} /\ Active \cup Free = Pool

\* No chain of next pointers is a cycle, so the loops of free_wp, no_to_wp,
\* watchpoint_display and check_wp_changed terminate.
Acyclic == \A S \in SUBSET Pool : S # {} => \E p \in S : next[p] \notin S

\* No two next pointers lead to the same slot and none leads to a list head:
\* free_wp finds the one pointer to redirect.
NoSharing ==
  /\ \A p, q \in Pool : next[p] = next[q] /\ next[p] # NULL => p = q
  /\ \A p \in Pool : next[p] # NULL => next[p] # head /\ next[p] # free_

\* The two chains are proper lists: every walk over one of them terminates
\* and a slot is reached by one pointer only.
ListsSound == Acyclic /\ NoSharing

\* The assertion "Free WP is not exist. Fix the bug!" of free_wp never fails,
\* neither for d nor for the w that gives its slot back.
NoListAssert == pc # "assert_list"

\* The text check_wp_changed hands to expr for a listed watchpoint is alive,
\* and well formed unless cmd_w is still to find out.
LiveText == \A p \in Active : watch_expr[p] \in (IF p = wp THEN Text ELSE Expr)

\* Between commands every listed watchpoint has a live, well-formed text and
\* its recorded value is the one the expression has now, so that the next
\* check reports exactly the changes the next instruction makes.
ValuesCurrent ==
  pc \in {"prompt", "stopped", "d"} =>
    \A p \in Active : /\ watch_expr[p] \in Expr
                      /\ watch_value[p] = env[watch_expr[p]]

\* The pool as its user sees it: the watchpoint cmd_w is setting up is not one yet.
st == CASE pc \in {"prompt", "w", "d"}                       -> "prompt"
        [] pc \in {"assert_pool", "assert_list", "assert_expr"} -> "assert"
        [] OTHER                                             -> pc
watch == [p \in Active \ {wp} |->
            [expr |-> watch_expr[p], value |-> watch_value[p]]]

Abs == INSTANCE WatchSet WITH Number <- Pool

\* The linked lists implement the bounded set of watchpoints of WatchSet: in
\* particular the "No free WP!" assertion fails only with NR_WP watchpoints set,
\* and d and a failed w disturb no other watchpoint.
ImplementsWatchSet == Abs!Spec

=============================================================================
