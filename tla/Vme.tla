-------------------------------- MODULE Vme ---------------------------------
(***************************************************************************)
(* What AM's virtual memory extension (am/include/am.h: vme_init, protect, *)
(* unprotect, map) promises its user, without page tables: a set of        *)
(* address spaces, each a partial map from user pages to physical pages,   *)
(* of which at most one is in force; the processor sees exactly the        *)
(* mappings of that one.  NativeVme and X86Vme implement it.               *)
(***************************************************************************)
EXTENDS Integers

CONSTANTS
  Space,     \* identities of address spaces
  VA,        \* user pages
  Mapping,   \* what a page can be mapped to: physical page and protection
  None,      \* "not mapped"
  Nobody     \* no address space is in force

VARIABLES
  spaces,    \* live address spaces: identity |-> (page |-> mapping)
  current,   \* the one in force
  view       \* the user pages as the processor sees them

vmevars == <<spaces, current, view>>

Empty == [v \in VA |-> None]

\* What the processor sees with c in force.
Sees(sp, c) == IF c \in DOMAIN sp THEN sp[c] ELSE Empty

Init ==
  /\ spaces = [s \in {} |-> Empty]
  /\ current = Nobody
  /\ view = Empty

Protect(s) ==
  /\ s \notin DOMAIN spaces
  /\ spaces' = [t \in DOMAIN spaces \cup {s} |-> IF t = s THEN Empty ELSE spaces[t]]
  /\ UNCHANGED <<current, view>>

\* Map or (m = None) unmap page v of s.
Map(s, v, m) ==
  /\ s \in DOMAIN spaces
  /\ spaces' = [spaces EXCEPT ![s][v] = m]
  /\ view' = Sees(spaces', current)
  /\ UNCHANGED current

Unprotect(s) ==
  /\ s \in DOMAIN spaces \ {current}
  /\ spaces' = [t \in DOMAIN spaces \ {s} |-> spaces[t]]
  /\ UNCHANGED <<current, view>>

Switch(s) ==
  /\ s \in DOMAIN spaces \cup {Nobody}
  /\ current' = s
  /\ view' = Sees(spaces, s)
  /\ UNCHANGED spaces

Next ==
  \/ \E s \in Space : Protect(s)
  \/ \E s \in Space, v \in VA, m \in Mapping \cup {None} : Map(s, v, m)
  \/ \E s \in Space : Unprotect(s)
  \/ \E s \in Space \cup {Nobody} : Switch(s)

Spec == Init /\ [][Next]_vmevars

=============================================================================
