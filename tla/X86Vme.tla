------------------------------- MODULE X86Vme -------------------------------
(***************************************************************************)
(* Virtual memory of AM x86-qemu: the page tables of am/src/x86/qemu/vme.c *)
(* in its 32-bit build (a page directory and page tables), the part of     *)
(* trap handling in cte.c that saves and loads cr3, and the processor's    *)
(* TLB, which the code never flushes but by loading cr3.  One processor.   *)
(*                                                                         *)
(* The kernel calls the operations in any order that keeps to these rules, *)
(* which are the code's own panics and what unprotect must rely on: an     *)
(* address space is unprotected when neither cr3 nor a context refers to   *)
(* it.  User pages are the members of VA: the panics on alignment and      *)
(* range are preconditions.                                                *)
(***************************************************************************)
EXTENDS Integers, FiniteSets

CONSTANTS
  Page,          \* pages pgalloc can hand out
  pgalloc(_),    \* of a set of free pages, those pgalloc may return
  KDir, KTable,  \* the pages it gives to vme_init: directory, a table per KIdx
  KIdx, UIdx,    \* indices of the directory for kernel and for user addresses
  PIdx,          \* indices of a page table
  VA,            \* user pages: pairs of indices
  PA,            \* physical pages the kernel maps
  Prot,          \* protections: subsets of {"R", "W"}, {} for MMAP_NONE
  MaxSpaces,     \* bound: address spaces at a time
  Cached,        \* bound: the user pages whose translations may be cached
  Thread, Boot,  \* threads of execution; the one that starts the kernel
  NULL

ASSUME X86VmeAssumption ==
  /\ \A f \in SUBSET Page : pgalloc(f) \subseteq f /\ (f # {} => pgalloc(f) # {})
  /\ VA \subseteq UIdx \X PIdx
  /\ KIdx \cap UIdx = {}
  /\ KDir \in Page
  /\ KTable \in [KIdx -> Page \ {KDir}]
  /\ \A k, l \in KIdx : KTable[k] = KTable[l] => k = l
  /\ Boot \in Thread
  /\ NULL \notin Page
  /\ Cached \subseteq VA
  /\ MaxSpaces \in Nat

VARIABLES
  mem,       \* the contents of pages used as tables
  used,      \* pages handed out by pgalloc and not returned
  kpt,       \* the kernel's page directory
  live,      \* the page directories of the address spaces (as->ptr)
  cr3,
  tlb,       \* the translations of user pages the processor has cached
  ctx,       \* contexts: the kind of thread, its saved cr3, the as of ucontext
  cur,       \* the running thread
  mode       \* "user", "kernel" (a kernel thread), "handler", "panic"

xvars == <<mem, used, kpt, live, cr3, tlb, ctx, cur, mode>>

tables  == <<mem, used, kpt, live>>
threads == <<ctx, cur, mode>>

Index  == KIdx \cup UIdx \cup PIdx
Entry(to, flags) == [to |-> to, flags |-> flags]
Absent == Entry(NULL, {})
Blank  == [i \in Index |-> Absent]
Present(e) == "P" \in e.flags

\* What a page holds while it is no table: at worst, what looks like entries.
Junk == [i \in Index |-> Entry(NULL, {"P", "U", "W"})]

-----------------------------------------------------------------------------
(* The processor: it walks the tables cr3 points to, and may keep what it  *)
(* finds until cr3 is loaded.                                              *)

\* What an address with indices v translates to under directory d.
Walk(d, v) ==
  IF d \in Page /\ Present(mem[d][v[1]]) THEN mem[mem[d][v[1]].to][v[2]] ELSE Absent

TLB_fill(v) ==
  /\ mode # "panic"
  /\ Present(Walk(cr3, v))
  /\ tlb' = [tlb EXCEPT ![v] = Walk(cr3, v)]
  /\ UNCHANGED <<tables, cr3, threads>>

Flushed == [v \in Cached |-> Absent]

-----------------------------------------------------------------------------
(* vme.c                                                                   *)

InKernel == mode \in {"kernel", "handler"}
Panic    == mode' = "panic" /\ UNCHANGED <<tables, cr3, tlb, ctx, cur>>

\* The frame that the kernel address with indices k, j is mapped to: itself.
KernelEntry(k, j) == Entry(<<k, j>>, {"P", "W"})

\* vme_init: a directory and a page table for each of its kernel indices.
vme_init ==
  /\ InKernel
  /\ kpt = NULL
  /\ kpt' = KDir
  /\ cr3' = KDir
  /\ used' = {KDir} \cup {KTable[k] : k \in KIdx}
  /\ mem' = [p \in Page |->
               IF p = KDir
               THEN [i \in Index |-> IF i \in KIdx THEN Entry(KTable[i], {"P", "W"}) ELSE Absent]
               ELSE IF \E k \in KIdx : KTable[k] = p
               THEN LET k == CHOOSE k \in KIdx : KTable[k] = p
                    IN  [j \in Index |-> IF j \in PIdx THEN KernelEntry(k, j) ELSE Absent]
               ELSE mem[p]]
  /\ tlb' = Flushed
  /\ UNCHANGED <<live, threads>>

\* Faulty: the directory is not stored in as->ptr.
protect_unstored ==
  /\ InKernel
  /\ kpt # NULL
  /\ \E d \in pgalloc(Page \ used) :
       /\ used' = used \cup {d}
       /\ live' = live \cup {NULL}
       /\ UNCHANGED <<mem, kpt, cr3, tlb, threads>>

\* protect: a new directory with the kernel's entries.
protect ==
  /\ InKernel
  /\ kpt # NULL
  /\ Cardinality(live) < MaxSpaces
  /\ \/ /\ used = Page
        /\ Panic
     \/ \E d \in pgalloc(Page \ used) :
          /\ used' = used \cup {d}
          /\ mem' = [mem EXCEPT ![d] = [i \in Index |-> IF i \in KIdx THEN mem[kpt][i] ELSE Absent]]
          /\ live' = live \cup {d}
          /\ UNCHANGED <<kpt, cr3, tlb, threads>>

\* Faulty: the page tables are not freed.
teardown_flat(d) == {d}

\* Faulty: the kernel's page tables are freed too.
teardown_all(d) == {d} \cup {mem[d][i].to : i \in {i \in Index : Present(mem[d][i])}}

\* The pages teardown frees: the directory and the page tables for the user.
teardown(d) ==
  {d} \cup {mem[d][i].to : i \in {i \in Index : {"P", "U"} \subseteq mem[d][i].flags}}

\* No context refers to the address space d.
Unreferenced(d) == cr3 # d /\ \A t \in Thread : ctx[t].cr3 # d

unprotect(d) ==
  /\ InKernel
  /\ d \in live
  /\ Unreferenced(d)
  /\ used' = used \ teardown(d)
  /\ live' = live \ {d}
  /\ mem' = [p \in Page |-> IF p \in teardown(d) THEN Junk ELSE mem[p]]
  /\ UNCHANGED <<kpt, cr3, tlb, threads>>

\* The last part of map: pt is the page table of v in the memory m.
map_entry(m, pt, v, pa, prot) ==
  IF Present(m[pt][v[2]]) = (prot # {})     \* remapping, or nothing to unmap
  THEN Panic
  ELSE /\ mem' = [m EXCEPT ![pt][v[2]] =
                    IF prot = {} THEN Absent
                    ELSE Entry(pa, {"P", "U"} \cup (prot \cap {"W"}))]
       /\ UNCHANGED threads

\* Faulty: the new page table is not cleared.
ptwalk_uncleared(d, v, p) == [mem EXCEPT ![d][v[1]] = Entry(p, {"P", "W", "U"})]

\* ptwalk with flags PTE_W | PTE_U puts the cleared page p in the directory d.
ptwalk(d, v, p) == [mem EXCEPT ![p] = Blank, ![d][v[1]] = Entry(p, {"P", "W", "U"})]

map(d, v, pa, prot) ==
  /\ InKernel
  /\ d \in live
  /\ \/ /\ Present(mem[d][v[1]])
        /\ map_entry(mem, mem[d][v[1]].to, v, pa, prot)
        /\ UNCHANGED used
     \/ /\ ~Present(mem[d][v[1]])
        /\ used = Page
        /\ Panic
     \/ /\ ~Present(mem[d][v[1]])
        /\ \E p \in pgalloc(Page \ used) :
             /\ map_entry(ptwalk(d, v, p), p, v, pa, prot)
             /\ used' = IF mode' = "panic" THEN used ELSE used \cup {p}
  /\ UNCHANGED <<kpt, live, cr3, tlb>>

-----------------------------------------------------------------------------
(* cte.c and ucontext                                                      *)

NoContext == [kind |-> "none", cr3 |-> NULL, as |-> NULL]

kcontext(t) ==
  /\ InKernel
  /\ ctx[t].kind = "none"
  /\ ctx' = [ctx EXCEPT ![t] = [kind |-> "kernel", cr3 |-> NULL, as |-> NULL]]
  /\ UNCHANGED <<tables, cr3, tlb, cur, mode>>

ucontext(t, d) ==
  /\ InKernel
  /\ ctx[t].kind = "none"
  /\ d \in live
  /\ ctx' = [ctx EXCEPT ![t] = [kind |-> "user", cr3 |-> d, as |-> d]]
  /\ UNCHANGED <<tables, cr3, tlb, cur, mode>>

\* The kernel drops the context of a thread that is not running.
Reap(t) ==
  /\ InKernel
  /\ t # cur
  /\ ctx' = [ctx EXCEPT ![t] = NoContext]
  /\ UNCHANGED <<tables, cr3, tlb, cur, mode>>

\* An interrupt, a system call, a yield or a fault: __am_irq_handle up to the
\* call of user_handler.
__am_irq_handle ==
  /\ mode \in {"user", "kernel"}
  /\ ctx' = [ctx EXCEPT ![cur].cr3 = cr3]
  /\ mode' = "handler"
  /\ UNCHANGED <<tables, cr3, tlb, cur>>

\* Faulty: cr3 is loaded only when it changes.
irq_return_lazy(t) ==
  /\ mode = "handler"
  /\ ctx[t].kind # "none"
  /\ cr3' = IF ctx[t].cr3 # NULL THEN ctx[t].cr3 ELSE cr3
  /\ tlb' = IF cr3' # cr3 THEN Flushed ELSE tlb
  /\ cur' = t
  /\ mode' = ctx[t].kind
  /\ ctx' = [ctx EXCEPT ![t].cr3 = NULL]
  /\ UNCHANGED tables

\* The rest of __am_irq_handle, and __am_iret, with the context of t,
\* which is popped off its stack.
irq_return(t) ==
  /\ mode = "handler"
  /\ ctx[t].kind # "none"
  /\ cr3' = IF ctx[t].cr3 # NULL THEN ctx[t].cr3 ELSE cr3
  /\ tlb' = IF ctx[t].cr3 # NULL THEN Flushed ELSE tlb
  /\ cur' = t
  /\ mode' = ctx[t].kind
  /\ ctx' = [ctx EXCEPT ![t].cr3 = NULL]
  /\ UNCHANGED tables

-----------------------------------------------------------------------------
XInit ==
  /\ mem = [p \in Page |-> Junk]
  /\ used = {}
  /\ kpt = NULL
  /\ live = {}
  /\ cr3 = NULL
  /\ tlb = Flushed
  /\ ctx = [t \in Thread |-> IF t = Boot THEN [kind |-> "kernel", cr3 |-> NULL, as |-> NULL]
                             ELSE NoContext]
  /\ cur = Boot
  /\ mode = "kernel"

XNext ==
  \/ vme_init
  \/ protect
  \/ \E d \in live : unprotect(d)
  \/ \E d \in live, v \in VA, pa \in PA, prot \in Prot : map(d, v, pa, prot)
  \/ \E t \in Thread : kcontext(t)
  \/ \E t \in Thread, d \in live : ucontext(t, d)
  \/ \E t \in Thread : Reap(t)
  \/ __am_irq_handle
  \/ \E t \in Thread : irq_return(t)
  \/ \E v \in Cached : TLB_fill(v)

XSpec == XInit /\ [][XNext]_xvars

-----------------------------------------------------------------------------
(* Properties.                                                             *)

\* Type invariant.
XTypeOK ==
  /\ DOMAIN mem = Page
  /\ used \subseteq Page
  /\ kpt \in used \cup {NULL}
  /\ live \subseteq used
  /\ cr3 \in live \cup {kpt, NULL}
  /\ \A t \in Thread : /\ ctx[t].kind \in {"none", "kernel", "user"}
                       /\ ctx[t].cr3 \in live \cup {kpt, NULL}
  /\ cur \in Thread
  /\ mode \in {"user", "kernel", "handler", "panic"}

\* The page tables a directory has for the indices in I.
TablesOf(d, I) == {mem[d][i].to : i \in {i \in I : Present(mem[d][i])}}

\* The pages in use are the directories and the page tables in them, each table
\* in one directory only, but for the kernel's, which all share: teardown
\* frees no page that is still in use and forgets none.
TablesOwned ==
  LET K == IF kpt = NULL THEN {} ELSE TablesOf(kpt, KIdx) IN
  /\ used = live \cup ({kpt} \ {NULL}) \cup K \cup UNION {TablesOf(d, UIdx) : d \in live}
  /\ \A d \in live : TablesOf(d, UIdx) \cap (live \cup {kpt} \cup K) = {}
  /\ \A d, e \in live : \A i, j \in UIdx :
       Present(mem[d][i]) /\ Present(mem[e][j]) /\ mem[d][i].to = mem[e][j].to
         => d = e /\ i = j

\* Kernel addresses translate to themselves in every address space, and no
\* user program may use them.
KernelEverywhere ==
  \A d \in live \cup ({kpt} \ {NULL}), k \in KIdx :
    /\ "U" \notin mem[d][k].flags
    /\ \A j \in PIdx : Walk(d, <<k, j>>) = KernelEntry(k, j)

\* A user program runs in the address space its context was made for, and the
\* processor has no translation cached that its tables do not have (any more):
\* the kernel never flushes the TLB after an unmap, but every way back to a
\* user program loads cr3.
UserSeesTables ==
  mode = "user" =>
    /\ cr3 = ctx[cur].as
    /\ \A v \in Cached : Present(tlb[v]) => tlb[v] = Walk(cr3, v)

\* The refinement mapping: an address space is what its tables translate.
spaces  == [d \in live |-> [v \in VA |-> Walk(d, v)]]
current == IF cr3 \in live THEN cr3 ELSE NULL
view    == [v \in VA |-> Walk(cr3, v)]

Abs == INSTANCE Vme WITH
         Space <- Page, None <- Absent, Nobody <- NULL,
         Mapping <- {Entry(pa, f) : pa \in PA, f \in {{"P", "U"}, {"P", "U", "W"}}}

\* The tables implement the address spaces of Vme: a map changes one page of
\* one address space and nothing else, and a freed and reused page brings no
\* mapping of its former owner back.
ImplementsVme == Abs!Spec

=============================================================================
