------------------------------ MODULE KeyQueue ------------------------------
(***************************************************************************)
(* What the keyboard promises the guest: keys come out of the data         *)
(* register once each, in the order they were pressed or released, and the *)
(* register shows the key taken last, or that there was none.              *)
(***************************************************************************)
EXTENDS Naturals, Sequences

CONSTANTS Code,   \* what the data register may show
          NoKey

VARIABLES q,      \* keys the guest has not taken
          data,   \* the data register
          alive   \* FALSE once the emulator has ended

vars == <<q, data, alive>>

Init == q = <<>> /\ data = NoKey /\ alive = TRUE

Press(c) == alive /\ q' = Append(q, c) /\ UNCHANGED <<data, alive>>

Take ==
  /\ alive
  /\ q # <<>>
  /\ data' = Head(q)
  /\ q' = Tail(q)
  /\ UNCHANGED alive

TakeNone == alive /\ q = <<>> /\ data' = NoKey /\ UNCHANGED <<q, alive>>

End == alive /\ alive' = FALSE /\ q' = <<>> /\ data' = NoKey

Next == (\E c \in Code : Press(c)) \/ Take \/ TakeNone \/ End

Spec == Init /\ [][Next]_vars
=============================================================================
