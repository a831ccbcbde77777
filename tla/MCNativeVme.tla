---------------------------- MODULE MCNativeVme -----------------------------
(* NativeVme with five pages: two address spaces and their nodes.          *)
EXTENDS NativeVme, TLC
\* User pages are names only: neither the code nor a property orders them.
Names == Permutations(VA)
AllProt == {{"R"}, {"R", "W"}}
=============================================================================
