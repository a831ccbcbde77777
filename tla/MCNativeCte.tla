---------------------------- MODULE MCNativeCte -----------------------------
(* NativeCte with main, a kernel thread and two user threads; either many  *)
(* interrupts or many pages.                                               *)
EXTENDS NativeCte, TLC
CONSTANTS k1, u1, u2
\* User pages and user threads are names only.
Names == Permutations(VA) \cup Permutations({u1, u2})
AllProt == {{"R"}, {"R", "W"}}
Workloads ==
  {[threads |-> {u1, u2}, pages |-> 2, signals |-> {"TIMER"}, depth |-> 1],
   [threads |-> {k1, u1}, pages |-> 1, signals |-> {"IODEV"}, depth |-> 2],
   [threads |-> {u1, u2}, pages |-> 4, signals |-> {}, depth |-> 0]}
=============================================================================
