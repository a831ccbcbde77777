------------------------------ MODULE WatchSet ------------------------------
(***************************************************************************)
(* What the watchpoint pool of the NEMU monitor promises its user, without *)
(* its pointers: a bounded set of numbered watchpoints, each with its      *)
(* expression and the last value seen.  Adding one may take any number not *)
(* in use and fails only when all are; deleting one leaves the others      *)
(* alone; the check after an instruction compares every watchpoint with    *)
(* the current value of its expression.  Watchpoint implements this        *)
(* specification; Monitor uses it as its view of the watchpoints.          *)
(***************************************************************************)
EXTENDS Integers

CONSTANTS
  Number,   \* the numbers a watchpoint can have
  Expr,     \* well-formed expressions
  Value,    \* their values
  Fault     \* "evaluating it fails an assertion"

VARIABLES
  watch,    \* the watchpoints: number |-> [expr, value]
  env,      \* what each expression evaluates to now
  st        \* what the monitor is doing

wsvars == <<watch, env, st>>

Watch == [expr : Expr, value : Value]
InUse == DOMAIN watch

\* f with n mapped to w, and f without n.
With(f, n, w) == [m \in DOMAIN f \cup {n} |-> IF m = n THEN w ELSE f[m]]
Without(f, n) == [m \in DOMAIN f \ {n} |-> f[m]]

Init ==
  /\ watch = [n \in {} |-> 0]
  /\ env \in [Expr -> Value]
  /\ st = "prompt"

Add(e) ==
  /\ st = "prompt"
  /\ env[e] # Fault
  /\ \E n \in Number \ InUse :
       watch' = With(watch, n, [expr |-> e, value |-> env[e]])
  /\ UNCHANGED <<env, st>>

Remove(n) ==
  /\ st = "prompt"
  /\ watch' = Without(watch, n)
  /\ UNCHANGED <<env, st>>

\* A command that ends the monitor, in order or by a null pointer.
Leave ==
  /\ st = "prompt"
  /\ st' \in {"exited", "segfault"}
  /\ UNCHANGED <<watch, env>>

\* An assertion fails: no number is left, or an expression has no value.
Assert ==
  /\ \/ st = "prompt" /\ InUse = Number
     \/ st = "prompt" /\ \E e \in Expr : env[e] = Fault
     \/ st = "check" /\ \E n \in InUse : env[watch[n].expr] = Fault
  /\ st' = "assert"
  /\ UNCHANGED <<watch, env>>

Execute ==
  /\ st = "prompt"
  /\ env' \in [Expr -> Value \cup {Fault}]
  /\ st' = "check"
  /\ UNCHANGED watch

Hit == {n \in InUse : env[watch[n].expr] # watch[n].value}

Check ==
  /\ st = "check"
  /\ \A n \in InUse : env[watch[n].expr] # Fault
  /\ watch' = [n \in InUse |->
                 [expr |-> watch[n].expr, value |-> env[watch[n].expr]]]
  /\ st' = IF Hit # {} THEN "stopped" ELSE "prompt"
  /\ UNCHANGED env

Resume ==
  /\ st = "stopped"
  /\ st' = "prompt"
  /\ UNCHANGED <<watch, env>>

Next ==
  \/ \E e \in Expr : Add(e)
  \/ \E n \in Number : Remove(n)
  \/ Leave
  \/ Assert
  \/ Execute
  \/ Check
  \/ Resume

Spec == Init /\ [][Next]_wsvars

=============================================================================
