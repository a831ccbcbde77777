------------------------------ MODULE MCX86Vme ------------------------------
(* X86Vme with two address spaces, three user pages under two directory    *)
(* entries, and three threads.                                             *)
EXTENDS X86Vme
\* Pages are names only, so which of the free ones pgalloc returns is
\* immaterial: the one it has to clear is the interesting case.
Lowest(f) == {p \in f : \A q \in f : p <= q}
OneTable == [k \in KIdx |-> 2]
UserPages == {<<"u1", "p1">>, <<"u1", "p2">>, <<"u2", "p1">>}
OneCached == {<<"u1", "p1">>}
=============================================================================
