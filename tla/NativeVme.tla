----------------------------- MODULE NativeVme ------------------------------
(***************************************************************************)
(* Virtual memory of AM native (am/src/native/vme.c): an address space is  *)
(* a linked list of PageMap nodes behind a head page, and the one in force *)
(* is kept installed in the host process with mmap and munmap              *)
(* (am/src/native/platform.c).                                             *)
(*                                                                         *)
(* Pages come from the pgalloc the kernel gave to vme_init; as vme.c never *)
(* clears one, it has to hand out zeroed pages.  User pages are the        *)
(* members of VA: the assertions on alignment and range are preconditions. *)
(***************************************************************************)
EXTENDS Integers, FiniteSets

CONSTANTS
  Page,      \* pages pgalloc can hand out
  VA, PA,    \* user pages, physical pages
  Prot,      \* protections: subsets of {"R", "W"}
  NULL

ASSUME NativeVmeAssumption == NULL \notin Page \cup VA \cup PA

VARIABLES
  vme_enable,
  used,      \* pages handed out by pgalloc
  heads,     \* as->ptr of the address spaces made by protect
  next,      \* next pointer of each page used as a list node or head
  node,      \* the other fields of PageMap
  vm_head,   \* thiscpu->vm_head
  host,      \* the user part of the host process's address space
  hung       \* a list_foreach does not end

nvars == <<vme_enable, used, heads, next, node, vm_head, host, hung>>

\* The page pgalloc hands out next; which one it is makes no difference.
pgalloc == {p \in Page \ used : p = CHOOSE q \in Page : q \notin used}

None == [pa |-> NULL, prot |-> {}]
Zero == [va |-> NULL, pa |-> NULL, prot |-> {}, is_mapped |-> FALSE]

-----------------------------------------------------------------------------
(* list_foreach                                                            *)

\* The pages a walk along the next pointers from p visits.
Reach(p) ==
  {q \in Page : \A S \in SUBSET Page :
                  /\ p \in S \cup {NULL}
                  /\ \A r \in S : next[r] \in S \cup {NULL}
                  => q \in S}

Nodes(h) == Reach(next[h])

\* The walk does not come to an end.
Endless(h) == Nodes(h) # {} /\ \A p \in Nodes(h) : next[p] # NULL

-----------------------------------------------------------------------------
(* platform.c: the host process                                            *)

\* __am_pmem_map: readable pages are executable too.
HostProt(prot) == (IF "R" \in prot THEN {"R", "X"} ELSE {}) \cup (prot \cap {"W"})

__am_pmem_map(nd) == [pa |-> nd.pa, prot |-> HostProt(nd.prot)]

-----------------------------------------------------------------------------
(* vme.c                                                                   *)

vme_init ==
  /\ ~hung
  /\ vme_enable' = TRUE
  /\ UNCHANGED <<used, heads, next, node, vm_head, host, hung>>

\* Faulty: the page is not stored in as->ptr.
protect_unstored(p) ==
  /\ ~hung
  /\ vme_enable
  /\ p \in pgalloc
  /\ used' = used \cup {p}
  /\ heads' = heads \cup {NULL}
  /\ UNCHANGED <<vme_enable, next, node, vm_head, host, hung>>

\* protect: the new page is the head of an empty list.
protect(p) ==
  /\ ~hung
  /\ vme_enable
  /\ p \in pgalloc
  /\ used' = used \cup {p}
  /\ heads' = heads \cup {p}
  /\ next' = [next EXCEPT ![p] = NULL]
  /\ node' = [node EXCEPT ![p] = Zero]
  /\ UNCHANGED <<vme_enable, vm_head, host, hung>>

\* The first loop of __am_switch: munmap all mappings.
Unmapped ==
  [v \in VA |-> IF vm_head # NULL /\ \E p \in Nodes(vm_head) : node[p].is_mapped /\ node[p].va = v
                THEN None ELSE host[v]]

\* Faulty: the mappings of the old address space stay.
Mapped_over(h) ==
  [v \in VA |-> IF h # NULL /\ \E p \in Nodes(h) : node[p].va = v
                THEN __am_pmem_map(node[CHOOSE p \in Nodes(h) : node[p].va = v])
                ELSE host[v]]

\* The second loop: mmap all mappings of h.
Mapped(h) ==
  [v \in VA |-> IF h # NULL /\ \E p \in Nodes(h) : node[p].va = v
                THEN __am_pmem_map(node[CHOOSE p \in Nodes(h) : node[p].va = v])
                ELSE Unmapped[v]]

\* __am_switch to a context whose vm_head is h; h = vm_head returns at once.
__am_switch(h) ==
  /\ ~hung
  /\ vme_enable
  /\ h # vm_head
  /\ \A l \in {h, vm_head} \ {NULL} : ~Endless(l)
  /\ host' = Mapped(h)
  /\ node' = [p \in Page |->
                [node[p] EXCEPT !.is_mapped =
                   IF h # NULL /\ p \in Nodes(h) THEN TRUE
                   ELSE IF vm_head # NULL /\ p \in Nodes(vm_head) THEN FALSE
                   ELSE node[p].is_mapped]]
  /\ vm_head' = h
  /\ UNCHANGED <<vme_enable, used, heads, next, hung>>

\* The nodes of the list that are for page v.
Found(h, v) == {p \in Nodes(h) : node[p].va = v}

\* Faulty: the node is put on the list in force, whatever as it is for.
enter_wrong_head(h, p, nd) ==
  /\ node' = [node EXCEPT ![p] = [nd EXCEPT !.is_mapped = (h = vm_head)]]
  /\ next' = [next EXCEPT ![p] = next[h], ![IF vm_head = NULL THEN h ELSE vm_head] = p]
  /\ host' = IF h = vm_head THEN [host EXCEPT ![nd.va] = __am_pmem_map(nd)] ELSE host

\* Faulty: a mapping of the address space in force takes effect at the next switch.
enter_later(h, p, nd) ==
  /\ node' = [node EXCEPT ![p] = nd]
  /\ next' = [next EXCEPT ![p] = next[h], ![h] = p]
  /\ host' = host

\* map, after the search: node p is filled in and put after the head.
enter(h, p, nd) ==
  /\ node' = [node EXCEPT ![p] = [nd EXCEPT !.is_mapped = (h = vm_head)]]
  /\ next' = [next EXCEPT ![p] = next[h], ![h] = p]
  /\ host' = IF h = vm_head THEN [host EXCEPT ![nd.va] = __am_pmem_map(nd)] ELSE host

PageMap(v, pa, prot) == [va |-> v, pa |-> pa, prot |-> prot, is_mapped |-> FALSE]

\* map of a page that is not on the list: it gets a node of its own.
map(h, v, pa, prot) ==
  /\ ~hung
  /\ Found(h, v) = {}
  /\ ~Endless(h)
  /\ \E p \in pgalloc :
       /\ used' = used \cup {p}
       /\ enter(h, p, PageMap(v, pa, prot))
  /\ UNCHANGED <<vme_enable, heads, vm_head, hung>>

\* map of a page that is on the list: its node is used again.
map_again(h, v, pa, prot) ==
  /\ ~hung
  /\ \E p \in Found(h, v) : enter(h, p, PageMap(v, pa, prot))
  /\ UNCHANGED <<vme_enable, used, heads, vm_head, hung>>

\* The search of map, or a loop of __am_switch to g, walks a list with no end.
hang(h, v, g) ==
  /\ ~hung
  /\ \/ Found(h, v) = {} /\ Endless(h)
     \/ /\ vme_enable /\ g # vm_head
        /\ \E l \in {g, vm_head} \ {NULL} : Endless(l)
  /\ hung' = TRUE
  /\ UNCHANGED <<vme_enable, used, heads, next, node, vm_head, host>>

-----------------------------------------------------------------------------
NInit ==
  /\ vme_enable = FALSE
  /\ used = {}
  /\ heads = {}
  /\ next = [p \in Page |-> NULL]
  /\ node = [p \in Page |-> Zero]
  /\ vm_head = NULL
  /\ host = [v \in VA |-> None]
  /\ hung = FALSE

\* A kernel that maps a page of an address space once, as AM x86 demands (its
\* map panics on the second).  No list is endless then, and nothing hangs.
NNext ==
  \/ vme_init
  \/ \E p \in Page : protect(p)
  \/ \E h \in heads \cup {NULL} : __am_switch(h)
  \/ \E h \in heads, v \in VA, pa \in PA, prot \in Prot : map(h, v, pa, prot)

NSpec == NInit /\ [][NNext]_nvars

\* Any kernel.
NRemapNext ==
  \/ NNext
  \/ \E h \in heads, v \in VA, pa \in PA, prot \in Prot : map_again(h, v, pa, prot)
  \/ \E h \in heads, v \in VA, g \in heads \cup {NULL} : hang(h, v, g)

NRemapSpec == NInit /\ [][NRemapNext]_nvars

-----------------------------------------------------------------------------
(* Properties.                                                             *)

\* Type invariant.
NTypeOK ==
  /\ vme_enable \in BOOLEAN
  /\ heads \subseteq used
  /\ used \subseteq Page
  /\ next \in [Page -> Page \cup {NULL}]
  /\ node \in [Page -> [va : VA \cup {NULL}, pa : PA \cup {NULL},
                        prot : Prot \cup {{}}, is_mapped : BOOLEAN]]
  /\ vm_head \in heads \cup {NULL}
  /\ host \in [VA -> [pa : PA \cup {NULL}, prot : SUBSET {"R", "W", "X"}]]
  /\ hung \in BOOLEAN

\* The comments of __am_switch say "munmap all mappings" and "mmap all
\* mappings": every mapping in force in the host is on the list the first loop
\* walks, and that walk ends.
MunmapsAll ==
  /\ ~hung
  /\ \A v \in VA : host[v] # None =>
       /\ vm_head # NULL
       /\ Found(vm_head, v) # {}
       /\ ~Endless(vm_head)

\* The lists of two address spaces share no node and no page is listed twice,
\* so that neither map nor a switch of one can change another.
ListsApart ==
  /\ \A g, h \in heads : g # h => Nodes(g) \cap Nodes(h) = {}
  /\ \A h \in heads : /\ Nodes(h) \cap heads = {}
                      /\ \A p, q \in Nodes(h) : node[p].va = node[q].va => p = q

\* The refinement mapping: an address space is what its list says.
spaces ==
  [h \in heads |-> [v \in VA |->
     IF Found(h, v) = {} THEN None
     ELSE __am_pmem_map(node[CHOOSE p \in Found(h, v) : TRUE])]]

Abs == INSTANCE Vme WITH Space <- Page, Mapping <- {__am_pmem_map([pa |-> p, prot |-> r]) : p \in PA, r \in Prot},
                         Nobody <- NULL, current <- vm_head, view <- host

\* The lists and the host's mappings implement the address spaces of Vme: after
\* every map and every switch the process has exactly the pages of the address
\* space in force.
ImplementsVme == Abs!Spec

=============================================================================
