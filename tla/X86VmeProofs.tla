----------------------------- MODULE X86VmeProofs ---------------------------
(***************************************************************************)
(* Proofs about X86Vme for any number of pages, address spaces and         *)
(* threads, any user pages and any choice pgalloc makes among the free     *)
(* pages: no page is lost or shared, the kernel is mapped in every address *)
(* space, a user program sees its own tables through the TLB, and the      *)
(* tables implement the address spaces of Vme.                             *)
(***************************************************************************)
EXTENDS X86Vme, TLAPS

-----------------------------------------------------------------------------
(* The inductive invariant.                                                *)

Flags   == SUBSET {"P", "U", "W"}
Entries == [to : Page \cup PA \cup (KIdx \X PIdx) \cup {NULL}, flags : Flags]
Mappings == {Entry(pa, f) : pa \in PA, f \in {{"P", "U"}, {"P", "U", "W"}}}

\* The entry of a directory for kernel index k, and for a user page table p.
KernelDirEntry(k) == Entry(KTable[k], {"P", "W"})
UserDirEntry(p)   == Entry(p, {"P", "W", "U"})

KernelPages == {KDir} \cup {KTable[k] : k \in KIdx}

\* Types, those of the contexts and the TLB included.
Types ==
  /\ mem \in [Page -> [Index -> Entries]]
  /\ used \in SUBSET Page
  /\ live \in SUBSET used
  /\ kpt \in {KDir, NULL}
  /\ cr3 \in live \cup {kpt, NULL}
  /\ tlb \in [Cached -> Entries]
  /\ ctx \in [Thread -> [kind : {"none", "kernel", "user"},
                         cr3 : live \cup {kpt, NULL}, as : Page \cup {NULL}]]
  /\ cur \in Thread
  /\ mode \in {"user", "kernel", "handler", "panic"}

\* vme_init makes the kernel's directory and tables, and nothing changes them.
KernelInv ==
  /\ kpt = NULL => used = {}
  /\ kpt # NULL =>
       /\ KernelPages \subseteq used \ live
       /\ \A i \in Index : mem[KDir][i] = IF i \in KIdx THEN KernelDirEntry(i) ELSE Absent
       /\ \A k \in KIdx, j \in PIdx : mem[KTable[k]][j] = KernelEntry(k, j)

\* A directory has the kernel's entries and, for user indices only, entries of
\* page tables made by ptwalk.
DirectoryInv ==
  \A d \in live, i \in Index :
    /\ i \in KIdx => mem[d][i] = KernelDirEntry(i)
    /\ i \notin KIdx /\ mem[d][i] # Absent =>
         i \in UIdx /\ mem[d][i] = UserDirEntry(mem[d][i].to)

\* A user page table is a page in use that is no directory and not the kernel's;
\* it maps pages the kernel gave, with the flags map gives.
UserTableInv ==
  \A d \in live, i \in UIdx :
    Present(mem[d][i]) =>
      /\ mem[d][i].to \in (used \ live) \ KernelPages
      /\ \A j \in Index : mem[mem[d][i].to][j] \in Mappings \cup {Absent}

\* Two entries of directories never share a user page table.
UnsharedInv ==
  \A d, e \in live : \A i, j \in UIdx :
    Present(mem[d][i]) /\ Present(mem[e][j]) /\ mem[d][i].to = mem[e][j].to
      => d = e /\ i = j

\* No page is used for anything else.
NoLeakInv ==
  \A p \in used : \/ p \in live \cup KernelPages
                  \/ \E d \in live, i \in UIdx : Present(mem[d][i]) /\ mem[d][i].to = p

\* The context of a user thread that is not running has the page directory of
\* its address space to load; that of the running thread has cr3 itself.
ContextInv ==
  /\ ctx[cur].kind # "none"
  /\ mode \in {"user", "kernel"} => ctx[cur].kind = mode
  /\ \A t \in Thread : ctx[t].kind = "user" =>
       /\ ctx[t].as \in live
       /\ ctx[t].cr3 = ctx[t].as \/ (t = cur /\ mode = "user")

TablesInv ==
  KernelInv /\ DirectoryInv /\ UserTableInv /\ UnsharedInv /\ NoLeakInv

XInv ==
  Types /\ TablesInv /\ ContextInv /\ UserSeesTables

-----------------------------------------------------------------------------
(* Entries.  After these facts Entry need not be expanded.                 *)

\* The fields of an entry.
LEMMA EntryFields ==
  ASSUME NEW to, NEW f
  PROVE  Entry(to, f).to = to /\ Entry(to, f).flags = f
BY DEF Entry

\* Which entries are present, and where those of directories lead.
LEMMA EntryFacts ==
  /\ ~Present(Absent)
  /\ \A p : /\ Present(UserDirEntry(p)) /\ UserDirEntry(p).to = p
            /\ {"P", "U"} \subseteq UserDirEntry(p).flags
  /\ \A k : /\ Present(KernelDirEntry(k)) /\ KernelDirEntry(k).to = KTable[k]
            /\ "U" \notin KernelDirEntry(k).flags
  /\ \A e \in Mappings : Present(e)
BY EntryFields DEF Present, Absent, UserDirEntry, KernelDirEntry, Mappings

\* The entries the code writes are entries.
LEMMA EntryTypes ==
  /\ Absent \in Entries
  /\ Blank \in [Index -> Entries] /\ Junk \in [Index -> Entries]
  /\ \A p \in Page : UserDirEntry(p) \in Entries
  /\ \A k \in KIdx : KernelDirEntry(k) \in Entries
  /\ \A k \in KIdx, j \in PIdx : KernelEntry(k, j) \in Entries
  /\ Mappings \subseteq Entries
<1> USE DEF Entries, Flags, Entry
<1>1. Absent \in Entries
  BY DEF Absent
<1>2. Entry(NULL, {"P", "U", "W"}) \in Entries
  OBVIOUS
<1>3. Blank \in [Index -> Entries] /\ Junk \in [Index -> Entries]
  BY <1>1, <1>2 DEF Blank, Junk
<1>4. \A p \in Page : UserDirEntry(p) \in Entries
  BY DEF UserDirEntry
<1>5. \A k \in KIdx : KernelDirEntry(k) \in Entries
  BY X86VmeAssumption DEF KernelDirEntry
<1>6. \A k \in KIdx, j \in PIdx : KernelEntry(k, j) \in Entries
  BY DEF KernelEntry
<1>7. Mappings \subseteq Entries
  BY DEF Mappings
<1> QED
  BY <1>1, <1>3, <1>4, <1>5, <1>6, <1>7

\* A user page has a user index and an index of a page table.
LEMMA UserPage ==
  ASSUME NEW v \in VA
  PROVE  v[1] \in UIdx /\ v[2] \in PIdx /\ v[1] \in Index \ KIdx /\ v[2] \in Index
BY X86VmeAssumption DEF Index

\* pgalloc returns a free page.
LEMMA FreePage ==
  ASSUME NEW p \in pgalloc(Page \ used)
  PROVE  p \in Page \ used
<1>1. Page \ used \in SUBSET Page
  OBVIOUS
<1> QED
  BY <1>1, X86VmeAssumption

\* In a directory of an address space, the present entries for user indices are
\* those ptwalk made, and the others are empty.
LEMMA DirectoryEntries ==
  ASSUME XInv, NEW d \in live, NEW i \in UIdx
  PROVE  /\ Present(mem[d][i]) => mem[d][i] = UserDirEntry(mem[d][i].to)
         /\ ~Present(mem[d][i]) => mem[d][i] = Absent
<1>1. i \in Index \ KIdx
  BY X86VmeAssumption DEF Index
<1> QED
  BY <1>1, EntryFacts DEF XInv, TablesInv, DirectoryInv

-----------------------------------------------------------------------------
(* The operations on the tables.                                           *)

\* map, when it does not panic, writes one entry of the page table pt, which is
\* the one the directory had for the page or a new, cleared one.
MapsTo(d, v, pt, e) ==
  /\ pt \in Page \ (live \cup KernelPages)
  /\ \A q \in Page \ {d, pt} : mem'[q] = mem[q]
  /\ \A i \in Index \ {v[1]} : mem'[d][i] = mem[d][i]
  /\ mem'[d][v[1]] = UserDirEntry(pt)
  /\ mem'[pt][v[2]] = e
  /\ \/ /\ Present(mem[d][v[1]]) /\ mem[d][v[1]].to = pt
        /\ \A j \in Index \ {v[2]} : mem'[pt][j] = mem[pt][j]
     \/ /\ ~Present(mem[d][v[1]]) /\ pt \notin used
        /\ \A j \in Index \ {v[2]} : mem'[pt][j] = Absent

\* What map does.
LEMMA MapStep ==
  ASSUME XInv, NEW d \in live, NEW v \in VA, NEW pa \in PA, NEW prot \in Prot,
         map(d, v, pa, prot)
  PROVE  \/ InKernel /\ mode' = "panic" /\ UNCHANGED <<tables, cr3, tlb, ctx, cur>>
         \/ /\ InKernel /\ UNCHANGED <<kpt, live, cr3, tlb, threads>>
            /\ mem' \in [Page -> [Index -> Entries]]
            /\ \E pt \in Page, e \in Mappings \cup {Absent} :
                 used' = used \cup {pt} /\ MapsTo(d, v, pt, e)
<1> DEFINE e == IF prot = {} THEN Absent ELSE Entry(pa, {"P", "U"} \cup (prot \cap {"W"}))
<1>1. e \in Mappings \cup {Absent} /\ e \in Entries
  <2>1. {"P", "U"} \cup (prot \cap {"W"}) \in {{"P", "U"}, {"P", "U", "W"}}
    <3>1. CASE "W" \in prot
      BY <3>1
    <3>2. CASE "W" \notin prot
      BY <3>2
    <3> QED
      BY <3>1, <3>2
  <2> QED
    BY <2>1, EntryTypes DEF Mappings
<1>2. v[1] \in UIdx /\ v[2] \in PIdx /\ v[1] \in Index \ KIdx /\ v[2] \in Index
  BY UserPage
<1>3. /\ mem \in [Page -> [Index -> Entries]] /\ live \in SUBSET used /\ used \in SUBSET Page
      /\ d \in Page
  BY DEF XInv, Types
<1>4. KernelPages \subseteq used
  <2>1. kpt # NULL
    BY DEF XInv, TablesInv, KernelInv, Types
  <2> QED
    BY <2>1 DEF XInv, TablesInv, KernelInv
<1>5. CASE mode' = "panic"
  BY <1>5 DEF map, map_entry, Panic, tables, threads, InKernel
<1>6. CASE mode' # "panic" /\ Present(mem[d][v[1]])
  <2> DEFINE pt == mem[d][v[1]].to
  <2>1. pt \in (used \ live) \ KernelPages /\ mem[d][v[1]] = UserDirEntry(pt)
    BY <1>2, <1>6, DirectoryEntries DEF XInv, TablesInv, UserTableInv
  <2>2. pt \in Page /\ pt # d
    BY <2>1, <1>3
  <2> HIDE DEF pt
  <2>3. /\ mem' = [mem EXCEPT ![pt][v[2]] = e] /\ used' = used
        /\ InKernel /\ UNCHANGED <<kpt, live, cr3, tlb, threads>>
    BY <1>6 DEF map, map_entry, Panic, pt
  <2> HIDE DEF e
  <2>4. mem' \in [Page -> [Index -> Entries]]
    BY <1>1, <1>2, <1>3, <2>2, <2>3
  <2>5. /\ \A q \in Page \ {pt} : mem'[q] = mem[q]
        /\ mem'[pt][v[2]] = e
        /\ \A j \in Index \ {v[2]} : mem'[pt][j] = mem[pt][j]
    BY <1>2, <1>3, <2>2, <2>3
  <2>6. MapsTo(d, v, pt, e)
    BY <1>6, <2>1, <2>2, <2>5, <1>3, <1>2 DEF MapsTo, pt
  <2>7. used' = used \cup {pt}
    BY <2>1, <2>3
  <2> QED
    BY <1>1, <2>2, <2>3, <2>4, <2>6, <2>7
<1>7. CASE mode' # "panic" /\ ~Present(mem[d][v[1]])
  <2>1. PICK pt \in pgalloc(Page \ used) :
          /\ map_entry(ptwalk(d, v, pt), pt, v, pa, prot)
          /\ used' = used \cup {pt}
    BY <1>7 DEF map, Panic
  <2>2. pt \in Page \ used /\ pt # d
    BY <1>3, FreePage
  <2>3. /\ mem' = [ptwalk(d, v, pt) EXCEPT ![pt][v[2]] = e]
        /\ InKernel /\ UNCHANGED <<kpt, live, cr3, tlb, threads>>
    BY <1>7, <2>1 DEF map, map_entry, Panic
  <2> HIDE DEF e
  <2> DEFINE m == ptwalk(d, v, pt)
  <2>4. /\ m \in [Page -> [Index -> Entries]]
        /\ m[pt] = Blank
        /\ m[d] = [mem[d] EXCEPT ![v[1]] = UserDirEntry(pt)]
        /\ \A q \in Page \ {d, pt} : m[q] = mem[q]
    <3>1. m = [mem EXCEPT ![pt] = Blank, ![d][v[1]] = UserDirEntry(pt)]
      BY DEF ptwalk, UserDirEntry
    <3>2. UserDirEntry(pt) \in Entries /\ Blank \in [Index -> Entries]
      BY <2>2, EntryTypes
    <3> HIDE DEF m
    <3> QED
      BY <3>1, <3>2, <2>2, <1>3, <1>2
  <2>5. mem' = [m EXCEPT ![pt][v[2]] = e]
    BY <2>3
  <2> HIDE DEF m
  <2>6. /\ mem' \in [Page -> [Index -> Entries]]
        /\ mem'[pt] = [Blank EXCEPT ![v[2]] = e]
        /\ \A q \in Page \ {pt} : mem'[q] = m[q]
    BY <2>4, <2>5, <2>2, <1>1, <1>2
  <2>7. mem'[pt][v[2]] = e /\ \A j \in Index \ {v[2]} : mem'[pt][j] = Absent
    BY <2>6, <1>2 DEF Blank
  <2>8. /\ mem'[d][v[1]] = UserDirEntry(pt)
        /\ \A i \in Index \ {v[1]} : mem'[d][i] = mem[d][i]
    BY <2>4, <2>6, <2>2, <1>2, <1>3
  <2>9. MapsTo(d, v, pt, e)
    BY <1>7, <2>2, <2>4, <2>6, <2>7, <2>8, <1>3, <1>4 DEF MapsTo
  <2> QED
    BY <1>1, <2>1, <2>2, <2>3, <2>6, <2>9
<1> QED
  BY <1>5, <1>6, <1>7

\* unprotect frees the directory and its user page tables: no page of another
\* address space and none of the kernel's.
LEMMA UnprotectStep ==
  ASSUME XInv, NEW d \in live, unprotect(d)
  PROVE  /\ teardown(d) = {d} \cup {mem[d][i].to : i \in {i \in UIdx : Present(mem[d][i])}}
         /\ \A q \in Page \ teardown(d) : mem'[q] = mem[q]
         /\ KernelPages \cap teardown(d) = {}
         /\ \A e \in live \ {d} :
              /\ e \notin teardown(d)
              /\ \A i \in UIdx : Present(mem[e][i]) => mem[e][i].to \notin teardown(d)
<1>1. ASSUME NEW i \in Index
      PROVE  {"P", "U"} \subseteq mem[d][i].flags <=> i \in UIdx /\ Present(mem[d][i])
  <2>1. CASE i \in KIdx
    <3>1. mem[d][i] = KernelDirEntry(i) /\ i \notin UIdx
      BY <2>1, X86VmeAssumption DEF XInv, TablesInv, DirectoryInv
    <3> QED
      BY <3>1, EntryFacts
  <2>2. CASE i \notin KIdx /\ mem[d][i] # Absent
    <3>1. i \in UIdx /\ mem[d][i] = UserDirEntry(mem[d][i].to)
      BY <2>2 DEF XInv, TablesInv, DirectoryInv
    <3> QED
      BY <3>1, EntryFacts
  <2>3. CASE mem[d][i] = Absent
    BY <2>3, EntryFields DEF Absent, Present
  <2> QED
    BY <2>1, <2>2, <2>3
<1>2. UIdx \subseteq Index
  BY DEF Index
<1>3. teardown(d) = {d} \cup {mem[d][i].to : i \in {i \in UIdx : Present(mem[d][i])}}
  BY <1>1, <1>2 DEF teardown
<1>4. \A q \in Page \ teardown(d) : mem'[q] = mem[q]
  BY DEF unprotect
<1>5. d \notin KernelPages
  <2>1. kpt # NULL
    BY DEF XInv, TablesInv, KernelInv, Types
  <2> QED
    BY <2>1 DEF XInv, TablesInv, KernelInv
<1>6. \A i \in UIdx : Present(mem[d][i]) => mem[d][i].to \in (used \ live) \ KernelPages
  BY DEF XInv, TablesInv, UserTableInv
<1>7. KernelPages \cap teardown(d) = {}
  BY <1>3, <1>5, <1>6
<1>8. ASSUME NEW e \in live \ {d}
      PROVE  e \notin teardown(d)
  BY <1>3, <1>6
<1>9. ASSUME NEW e \in live \ {d}, NEW i \in UIdx, Present(mem[e][i])
      PROVE  mem[e][i].to \notin teardown(d)
  <2>1. mem[e][i].to # d
    BY <1>9 DEF XInv, TablesInv, UserTableInv
  <2>2. \A j \in UIdx : Present(mem[d][j]) => mem[d][j].to # mem[e][i].to
    BY <1>9 DEF XInv, TablesInv, UnsharedInv
  <2> QED
    BY <1>3, <2>1, <2>2
<1> QED
  BY <1>3, <1>4, <1>7, <1>8, <1>9

\* protect, when a page is free, makes a new directory.
LEMMA ProtectStep ==
  ASSUME XInv, protect
  PROVE  \/ InKernel /\ mode' = "panic" /\ UNCHANGED <<tables, cr3, tlb, ctx, cur>>
         \/ /\ InKernel /\ UNCHANGED <<kpt, cr3, tlb, threads>> /\ kpt # NULL
            /\ mem' \in [Page -> [Index -> Entries]]
            /\ \E d \in Page \ used :
                 /\ used' = used \cup {d} /\ live' = live \cup {d}
                 /\ \A q \in Page \ {d} : mem'[q] = mem[q]
                 /\ \A i \in Index :
                      mem'[d][i] = IF i \in KIdx THEN KernelDirEntry(i) ELSE Absent
<1>1. CASE Panic
  BY <1>1 DEF Panic, protect
<1>2. CASE ~Panic
  <2>1. PICK d \in pgalloc(Page \ used) :
          /\ used' = used \cup {d} /\ live' = live \cup {d}
          /\ mem' = [mem EXCEPT ![d] = [i \in Index |-> IF i \in KIdx THEN mem[kpt][i] ELSE Absent]]
          /\ UNCHANGED <<kpt, cr3, tlb, threads>>
    BY <1>2 DEF protect
  <2>2. d \in Page \ used
    BY FreePage
  <2>3. kpt = KDir /\ kpt # NULL /\ InKernel
    BY DEF protect, XInv, Types
  <2>4. \A i \in KIdx : mem[kpt][i] = KernelDirEntry(i) /\ i \in Index
    BY <2>3 DEF XInv, TablesInv, KernelInv, Index
  <2> DEFINE new == [i \in Index |-> IF i \in KIdx THEN KernelDirEntry(i) ELSE Absent]
  <2>5. new \in [Index -> Entries]
    BY EntryTypes
  <2>6. mem' = [mem EXCEPT ![d] = new]
    BY <2>1, <2>4
  <2>7. mem \in [Page -> [Index -> Entries]]
    BY DEF XInv, Types
  <2>8. mem' \in [Page -> [Index -> Entries]] /\ mem'[d] = new
        /\ \A q \in Page \ {d} : mem'[q] = mem[q]
    <3> HIDE DEF new
    <3> QED
      BY <2>2, <2>5, <2>6, <2>7
  <2> QED
    BY <2>1, <2>2, <2>3, <2>8
<1> QED
  BY <1>1, <1>2

\* vme_init makes the kernel's tables.
LEMMA InitStep ==
  ASSUME XInv, vme_init
  PROVE  /\ kpt' = KDir /\ cr3' = KDir /\ used' = KernelPages /\ live' = {} /\ live = {}
         /\ tlb' = Flushed /\ UNCHANGED threads /\ cr3 = NULL /\ InKernel
         /\ mem' \in [Page -> [Index -> Entries]]
         /\ \A i \in Index : mem'[KDir][i] = IF i \in KIdx THEN KernelDirEntry(i) ELSE Absent
         /\ \A k \in KIdx, j \in PIdx : mem'[KTable[k]][j] = KernelEntry(k, j)
<1> DEFINE dir == [i \in Index |-> IF i \in KIdx THEN KernelDirEntry(i) ELSE Absent]
           Table(k) == [j \in Index |-> IF j \in PIdx THEN KernelEntry(k, j) ELSE Absent]
           Of(p) == CHOOSE k \in KIdx : KTable[k] = p
<1>1. kpt = NULL /\ live = {} /\ live' = {} /\ cr3 = NULL
  BY DEF vme_init, XInv, TablesInv, KernelInv, Types
<1>2. /\ kpt' = KDir /\ cr3' = KDir /\ used' = KernelPages
      /\ tlb' = Flushed /\ UNCHANGED threads /\ InKernel
  BY DEF vme_init, KernelPages
<1>3. mem' = [p \in Page |-> IF p = KDir THEN dir
                             ELSE IF \E k \in KIdx : KTable[k] = p THEN Table(Of(p))
                             ELSE mem[p]]
  BY DEF vme_init, KernelDirEntry
<1>4. dir \in [Index -> Entries] /\ \A k \in KIdx : Table(k) \in [Index -> Entries]
  BY EntryTypes
<1>5. \A k \in KIdx : KTable[k] \in Page \ {KDir} /\ Of(KTable[k]) = k
  BY X86VmeAssumption
<1>6. mem \in [Page -> [Index -> Entries]] /\ KDir \in Page
  BY X86VmeAssumption DEF XInv, Types
<1>7. \A p \in Page : (\E k \in KIdx : KTable[k] = p) => Of(p) \in KIdx
  OBVIOUS
<1>8. \A i \in Index : dir[i] = IF i \in KIdx THEN KernelDirEntry(i) ELSE Absent
  OBVIOUS
<1>9. \A k \in KIdx, j \in PIdx : Table(k)[j] = KernelEntry(k, j)
  BY DEF Index
<1> HIDE DEF dir, Table, Of
<1>10. mem' \in [Page -> [Index -> Entries]] /\ mem'[KDir] = dir
  BY <1>3, <1>4, <1>6, <1>7
<1>11. \A k \in KIdx : mem'[KTable[k]] = Table(k)
  BY <1>3, <1>5
<1> QED
  BY <1>1, <1>2, <1>8, <1>9, <1>10, <1>11

-----------------------------------------------------------------------------
(* Every step preserves the invariant.                                     *)

\* The steps that leave the tables alone.
Elsewhere ==
  \/ \E t \in Thread : kcontext(t)
  \/ \E t \in Thread, d \in live : ucontext(t, d)
  \/ \E t \in Thread : Reap(t)
  \/ __am_irq_handle
  \/ \E t \in Thread : irq_return(t)
  \/ \E v \in Cached : TLB_fill(v)
  \/ InKernel /\ mode' = "panic" /\ UNCHANGED <<tables, cr3, tlb, ctx, cur>>
  \/ UNCHANGED xvars

\* They do leave them alone.
LEMMA ElsewhereTables ==
  ASSUME Elsewhere
  PROVE  UNCHANGED <<mem, used, kpt, live>>
BY DEF Elsewhere, kcontext, ucontext, Reap, __am_irq_handle, irq_return, TLB_fill, tables, xvars

\* The cases of a step.
LEMMA Steps ==
  ASSUME XInv, [XNext]_xvars
  PROVE  \/ vme_init
         \/ protect /\ ~Elsewhere
         \/ \E d \in live : unprotect(d)
         \/ \E d \in live, v \in VA, pa \in PA, prot \in Prot :
              map(d, v, pa, prot) /\ ~Elsewhere
         \/ Elsewhere
BY DEF XNext, Elsewhere

\* Every operation on the tables keeps them apart from each other.
LEMMA TablesStep ==
  ASSUME XInv, [XNext]_xvars
  PROVE  TablesInv'
<1>0. /\ used \in SUBSET Page /\ live \in SUBSET used
      /\ KernelInv /\ DirectoryInv /\ UserTableInv /\ UnsharedInv /\ NoLeakInv
      /\ KDir # NULL /\ NULL \notin Page
      /\ UIdx \subseteq Index /\ KIdx \subseteq Index /\ KIdx \cap UIdx = {}
      /\ KDir \in Page /\ \A k \in KIdx : KTable[k] \in Page
  BY X86VmeAssumption DEF XInv, Types, TablesInv, Index
<1>1. CASE vme_init
  BY <1>1, <1>0, InitStep
     DEF TablesInv, KernelInv, DirectoryInv, UserTableInv, UnsharedInv, NoLeakInv
<1>2. CASE protect /\ ~Elsewhere
  <2>1. PICK d \in Page \ used :
           /\ used' = used \cup {d} /\ live' = live \cup {d}
           /\ \A q \in Page \ {d} : mem'[q] = mem[q]
           /\ \A i \in Index : mem'[d][i] = IF i \in KIdx THEN KernelDirEntry(i) ELSE Absent
    BY <1>2, ProtectStep DEF Elsewhere
  <2>2. kpt # NULL /\ kpt' = kpt
    BY <1>2, ProtectStep DEF Elsewhere
  <2>3. \A q \in used : mem'[q] = mem[q] /\ q # d
    BY <2>1, <1>0
  <2>4. \A i \in UIdx : ~Present(mem'[d][i])
    BY <2>1, <1>0, EntryFacts
  <2>5. KernelPages \subseteq used \ live
    BY <2>2, <1>0 DEF KernelInv
  <2>6. KernelInv'
    <3>1. KDir \in used /\ \A k \in KIdx : KTable[k] \in used
      BY <2>5 DEF KernelPages
    <3> QED
      BY <2>1, <2>2, <2>3, <2>5, <3>1, <1>0 DEF KernelInv
  <2>7. DirectoryInv'
    BY <2>1, <2>3, <1>0 DEF DirectoryInv
  <2>8. UserTableInv'
    <3> SUFFICES ASSUME NEW e \in live', NEW i \in UIdx, Present(mem'[e][i])
                 PROVE  /\ mem'[e][i].to \in (used' \ live') \ KernelPages
                        /\ \A j \in Index : mem'[mem'[e][i].to][j] \in Mappings \cup {Absent}
      BY DEF UserTableInv
    <3>1. e \in live /\ mem'[e] = mem[e]
      BY <2>1, <2>3, <2>4, <1>0
    <3>2. /\ mem[e][i].to \in (used \ live) \ KernelPages
          /\ \A j \in Index : mem[mem[e][i].to][j] \in Mappings \cup {Absent}
      BY <3>1, <1>0 DEF UserTableInv
    <3> QED
      BY <3>1, <3>2, <2>1, <2>3
  <2>9. UnsharedInv'
    BY <2>1, <2>3, <2>4, <1>0 DEF UnsharedInv
  <2>10. NoLeakInv'
    BY <2>1, <2>3, <1>0 DEF NoLeakInv
  <2> QED
    BY <2>6, <2>7, <2>8, <2>9, <2>10 DEF TablesInv
<1>3. ASSUME NEW d \in live, unprotect(d)
      PROVE  TablesInv'
  <2>1. /\ used' = used \ teardown(d) /\ live' = live \ {d} /\ kpt' = kpt
    BY <1>3 DEF unprotect
  <2>2. /\ teardown(d) = {d} \cup {mem[d][i].to : i \in {i \in UIdx : Present(mem[d][i])}}
        /\ \A q \in Page \ teardown(d) : mem'[q] = mem[q]
        /\ KernelPages \cap teardown(d) = {}
        /\ \A e \in live \ {d} :
             /\ e \notin teardown(d)
             /\ \A i \in UIdx : Present(mem[e][i]) => mem[e][i].to \notin teardown(d)
    BY <1>3, UnprotectStep
  <2>3. kpt # NULL /\ KernelPages \subseteq used \ live
    BY <1>0 DEF KernelInv
  <2>4. \A e \in live' : e \in live /\ mem'[e] = mem[e]
    BY <2>1, <2>2, <1>0
  <2>5. KernelInv'
    <3>1. \A p \in KernelPages : mem'[p] = mem[p] /\ p \in used' \ live'
      BY <2>1, <2>2, <2>3, <1>0
    <3>2. KDir \in KernelPages /\ \A k \in KIdx : KTable[k] \in KernelPages
      BY DEF KernelPages
    <3> QED
      BY <2>1, <2>3, <3>1, <3>2, <1>0 DEF KernelInv
  <2>6. DirectoryInv'
    BY <2>4, <1>0 DEF DirectoryInv
  <2>7. UserTableInv'
    <3> SUFFICES ASSUME NEW e \in live', NEW i \in UIdx, Present(mem'[e][i])
                 PROVE  /\ mem'[e][i].to \in (used' \ live') \ KernelPages
                        /\ \A j \in Index : mem'[mem'[e][i].to][j] \in Mappings \cup {Absent}
      BY DEF UserTableInv
    <3>1. e \in live \ {d} /\ mem'[e] = mem[e]
      BY <2>1, <2>4
    <3>2. /\ mem[e][i].to \in (used \ live) \ KernelPages
          /\ \A j \in Index : mem[mem[e][i].to][j] \in Mappings \cup {Absent}
      BY <3>1, <1>0 DEF UserTableInv
    <3>3. mem[e][i].to \notin teardown(d)
      BY <3>1, <2>2
    <3> QED
      BY <3>1, <3>2, <3>3, <2>1, <2>2, <1>0
  <2>8. UnsharedInv'
    BY <2>1, <2>4, <1>0 DEF UnsharedInv
  <2>9. NoLeakInv'
    <3> SUFFICES ASSUME NEW p \in used', p \notin live' \cup KernelPages
                 PROVE  \E e \in live', i \in UIdx : Present(mem'[e][i]) /\ mem'[e][i].to = p
      BY DEF NoLeakInv
    <3>1. p \in used \ teardown(d) /\ p \notin live \cup KernelPages
      BY <2>1, <2>2
    <3>2. PICK e \in live, i \in UIdx : Present(mem[e][i]) /\ mem[e][i].to = p
      BY <3>1, <1>0 DEF NoLeakInv
    <3>3. e # d
      BY <3>1, <3>2, <2>2
    <3> QED
      BY <3>2, <3>3, <2>1, <2>4
  <2> QED
    BY <2>5, <2>6, <2>7, <2>8, <2>9 DEF TablesInv
<1>4. ASSUME NEW d \in live, NEW v \in VA, NEW pa \in PA, NEW prot \in Prot,
             map(d, v, pa, prot), ~Elsewhere
      PROVE  TablesInv'
  <2>1. PICK pt \in Page, e \in Mappings \cup {Absent} :
           used' = used \cup {pt} /\ MapsTo(d, v, pt, e)
    BY <1>4, MapStep DEF Elsewhere
  <2>2. kpt' = kpt /\ live' = live
    BY <1>4, MapStep DEF Elsewhere
  <2>3. v[1] \in UIdx /\ v[2] \in Index /\ v[1] \in Index \ KIdx
    BY UserPage
  <2>4. /\ pt \notin live \cup KernelPages /\ pt # d
        /\ \A q \in Page \ {d, pt} : mem'[q] = mem[q]
        /\ \A i \in Index \ {v[1]} : mem'[d][i] = mem[d][i]
        /\ mem'[d][v[1]] = UserDirEntry(pt)
    BY <2>1 DEF MapsTo
  <2>5. kpt # NULL /\ KernelPages \subseteq used \ live
    BY <1>0 DEF KernelInv
  \* The entries of directories, but the one for v, are as they were.
  <2>6. \A c \in live, i \in Index : (c = d /\ i = v[1]) \/ mem'[c][i] = mem[c][i]
    BY <2>4, <1>0
  \* Nobody else has the page table pt.
  <2>7. \A c \in live, i \in UIdx :
          Present(mem[c][i]) /\ mem[c][i].to = pt => c = d /\ i = v[1]
    <3>1. CASE pt \notin used
      BY <3>1, <1>0 DEF UserTableInv
    <3>2. CASE Present(mem[d][v[1]]) /\ mem[d][v[1]].to = pt
      BY <3>2, <2>3, <1>0 DEF UnsharedInv
    <3> QED
      BY <3>1, <3>2, <2>1 DEF MapsTo
  <2>8. KernelInv'
    <3>1. \A p \in KernelPages : p \in Page \ {d, pt} /\ mem'[p] = mem[p] /\ p \in used' \ live'
      BY <2>1, <2>2, <2>4, <2>5, <1>0
    <3>2. KDir \in KernelPages /\ \A k \in KIdx : KTable[k] \in KernelPages
      BY DEF KernelPages
    <3> QED
      BY <2>2, <2>5, <3>1, <3>2, <1>0 DEF KernelInv
  <2>9. DirectoryInv'
    BY <2>2, <2>3, <2>4, <2>6, <1>0, EntryFacts DEF DirectoryInv
  <2>10. UserTableInv'
    <3> SUFFICES ASSUME NEW c \in live, NEW i \in UIdx, Present(mem'[c][i])
                 PROVE  /\ mem'[c][i].to \in (used' \ live') \ KernelPages
                        /\ \A j \in Index : mem'[mem'[c][i].to][j] \in Mappings \cup {Absent}
      BY <2>2 DEF UserTableInv
    <3>1. CASE c = d /\ i = v[1]
      <4>1. mem'[c][i].to = pt
        BY <3>1, <2>4, EntryFacts
      <4>2. \A j \in Index : mem'[pt][j] \in Mappings \cup {Absent}
        <5>1. mem'[pt][v[2]] \in Mappings \cup {Absent}
          BY <2>1 DEF MapsTo
        <5>2. CASE Present(mem[d][v[1]]) /\ mem[d][v[1]].to = pt
          <6>1. \A j \in Index : mem[pt][j] \in Mappings \cup {Absent}
            BY <5>2, <2>3, <1>0 DEF UserTableInv
          <6>2. \A j \in Index \ {v[2]} : mem'[pt][j] = mem[pt][j] \/ mem'[pt][j] = Absent
            BY <2>1 DEF MapsTo
          <6> QED
            BY <5>1, <6>1, <6>2
        <5>3. CASE \A j \in Index \ {v[2]} : mem'[pt][j] = Absent
          BY <5>1, <5>3
        <5> QED
          BY <5>2, <5>3, <2>1 DEF MapsTo
      <4> QED
        BY <4>1, <4>2, <2>1, <2>2, <2>4
    <3>2. CASE ~(c = d /\ i = v[1])
      <4>1. mem'[c][i] = mem[c][i]
        BY <3>2, <2>6, <1>0
      <4>2. /\ mem[c][i].to \in (used \ live) \ KernelPages /\ mem[c][i].to # pt
            /\ \A j \in Index : mem[mem[c][i].to][j] \in Mappings \cup {Absent}
        BY <3>2, <4>1, <2>7, <1>0 DEF UserTableInv
      <4>3. mem'[mem[c][i].to] = mem[mem[c][i].to]
        BY <4>2, <2>4, <1>0
      <4> QED
        BY <4>1, <4>2, <4>3, <2>1, <2>2
    <3> QED
      BY <3>1, <3>2
  <2>11. UnsharedInv'
    <3> SUFFICES ASSUME NEW b \in live, NEW c \in live, NEW i \in UIdx, NEW j \in UIdx,
                        Present(mem'[b][i]), Present(mem'[c][j]),
                        mem'[b][i].to = mem'[c][j].to
                 PROVE  b = c /\ i = j
      BY <2>2 DEF UnsharedInv
    <3>1. mem'[d][v[1]].to = pt
      BY <2>4, EntryFacts
    <3>2. CASE b = d /\ i = v[1]
      BY <3>1, <3>2, <2>6, <2>7, <1>0
    <3>3. CASE c = d /\ j = v[1]
      BY <3>1, <3>3, <2>6, <2>7, <1>0
    <3>4. CASE ~(b = d /\ i = v[1]) /\ ~(c = d /\ j = v[1])
      <4>1. mem'[b][i] = mem[b][i] /\ mem'[c][j] = mem[c][j]
        BY <3>4, <2>6, <1>0
      <4> QED
        BY <4>1, <1>0 DEF UnsharedInv
    <3> QED
      BY <3>2, <3>3, <3>4
  <2>12. NoLeakInv'
    <3> SUFFICES ASSUME NEW p \in used', p \notin live \cup KernelPages
                 PROVE  \E c \in live, i \in UIdx : Present(mem'[c][i]) /\ mem'[c][i].to = p
      BY <2>2 DEF NoLeakInv
    <3>1. CASE p = pt
      BY <3>1, <2>3, <2>4, EntryFacts
    <3>2. CASE p \in used
      <4>1. PICK c \in live, i \in UIdx : Present(mem[c][i]) /\ mem[c][i].to = p
        BY <3>2, <1>0 DEF NoLeakInv
      <4>2. CASE c = d /\ i = v[1]
        <5>1. pt = p
          BY <4>1, <4>2, <2>1 DEF MapsTo
        <5> QED
          BY <5>1, <3>1
      <4>3. CASE ~(c = d /\ i = v[1])
        BY <4>1, <4>3, <2>6, <1>0
      <4> QED
        BY <4>2, <4>3
    <3> QED
      BY <3>1, <3>2, <2>1
  <2> QED
    BY <2>8, <2>9, <2>10, <2>11, <2>12 DEF TablesInv
<1>5. CASE Elsewhere
  BY <1>5, <1>0, ElsewhereTables
     DEF TablesInv, KernelInv, DirectoryInv, UserTableInv, UnsharedInv, NoLeakInv
<1> QED
  BY <1>1, <1>2, <1>3, <1>4, <1>5, Steps

\* The kernel keeps its contexts well formed; unprotect, which is called for an
\* address space no context refers to, leaves no context dangling.
LEMMA ContextStep ==
  ASSUME XInv, [XNext]_xvars
  PROVE  (Types /\ ContextInv)'
<1> USE DEF XInv, Types, ContextInv, InKernel
<1>0. /\ NULL \notin Page /\ KDir \in Page /\ KDir # NULL
      /\ UIdx \subseteq Index /\ live \in SUBSET Page
      /\ Flushed \in [Cached -> Entries]
  BY X86VmeAssumption, EntryTypes DEF Index, Flushed
<1>1. CASE vme_init
  <2>1. /\ kpt' = KDir /\ cr3' = KDir /\ used' = KernelPages /\ live' = {} /\ live = {}
        /\ tlb' = Flushed /\ UNCHANGED <<ctx, cur, mode>> /\ cr3 = NULL /\ kpt = NULL
        /\ mem' \in [Page -> [Index -> Entries]]
    BY <1>1, InitStep DEF threads, vme_init
  <2>2. KernelPages \in SUBSET Page
    BY X86VmeAssumption DEF KernelPages
  <2> QED
    BY <2>1, <2>2, <1>0
<1>2. CASE protect /\ ~Elsewhere
  <2>1. PICK d \in Page \ used : used' = used \cup {d} /\ live' = live \cup {d}
    BY <1>2, ProtectStep DEF Elsewhere
  <2>2. /\ UNCHANGED <<kpt, cr3, tlb, ctx, cur, mode>>
        /\ mem' \in [Page -> [Index -> Entries]]
    BY <1>2, ProtectStep DEF Elsewhere, threads
  <2> QED
    BY <2>1, <2>2, <1>0
<1>3. ASSUME NEW d \in live, unprotect(d)
      PROVE  (Types /\ ContextInv)'
  <2>1. /\ used' = used \ teardown(d) /\ live' = live \ {d}
        /\ UNCHANGED <<kpt, cr3, tlb, ctx, cur, mode>>
        /\ Unreferenced(d) /\ mode \in {"kernel", "handler"}
        /\ mem' = [p \in Page |-> IF p \in teardown(d) THEN Junk ELSE mem[p]]
    BY <1>3 DEF unprotect, threads
  <2>2. mem' \in [Page -> [Index -> Entries]]
    BY <2>1, EntryTypes
  <2>3. live' \subseteq used'
    BY <2>1, <1>3, UnprotectStep
  <2>4. cr3' \in live' \cup {kpt', NULL}
    BY <2>1 DEF Unreferenced
  <2>5. \A t \in Thread : ctx[t].cr3 \in live' \cup {kpt, NULL}
    BY <2>1 DEF Unreferenced
  <2>6. \A t \in Thread : ctx[t].kind = "user" => ctx[t].as = ctx[t].cr3 /\ ctx[t].as \in live'
    BY <2>1 DEF Unreferenced
  <2> QED
    BY <2>1, <2>2, <2>3, <2>4, <2>5, <2>6, <1>0
<1>4. ASSUME NEW d \in live, NEW v \in VA, NEW pa \in PA, NEW prot \in Prot,
             map(d, v, pa, prot), ~Elsewhere
      PROVE  (Types /\ ContextInv)'
  <2>1. PICK pt \in Page : used' = used \cup {pt}
    BY <1>4, MapStep DEF Elsewhere
  <2>2. /\ UNCHANGED <<kpt, live, cr3, tlb, ctx, cur, mode>>
        /\ mem' \in [Page -> [Index -> Entries]]
    BY <1>4, MapStep DEF Elsewhere, threads
  <2> QED
    BY <2>1, <2>2, <1>0
<1>5. ASSUME NEW t \in Thread, kcontext(t)
      PROVE  (Types /\ ContextInv)'
  <2>1. /\ UNCHANGED <<mem, used, kpt, live, cr3, tlb, cur, mode>> /\ ctx[t].kind = "none"
        /\ ctx' = [ctx EXCEPT ![t] = [kind |-> "kernel", cr3 |-> NULL, as |-> NULL]]
    BY <1>5 DEF kcontext, tables
  <2> QED
    BY <2>1, <1>0
<1>6. ASSUME NEW t \in Thread, NEW d \in live, ucontext(t, d)
      PROVE  (Types /\ ContextInv)'
  <2>1. /\ UNCHANGED <<mem, used, kpt, live, cr3, tlb, cur, mode>> /\ ctx[t].kind = "none"
        /\ ctx' = [ctx EXCEPT ![t] = [kind |-> "user", cr3 |-> d, as |-> d]]
    BY <1>6 DEF ucontext, tables
  <2> QED
    BY <2>1, <1>0
<1>7. ASSUME NEW t \in Thread, Reap(t)
      PROVE  (Types /\ ContextInv)'
  <2>1. /\ UNCHANGED <<mem, used, kpt, live, cr3, tlb, cur, mode>> /\ t # cur
        /\ ctx' = [ctx EXCEPT ![t] = [kind |-> "none", cr3 |-> NULL, as |-> NULL]]
    BY <1>7 DEF Reap, tables, NoContext
  <2> QED
    BY <2>1, <1>0
<1>8. CASE __am_irq_handle
  <2>1. /\ UNCHANGED <<mem, used, kpt, live, cr3, tlb, cur>>
        /\ mode \in {"user", "kernel"} /\ mode' = "handler"
        /\ ctx' = [ctx EXCEPT ![cur].cr3 = cr3]
    BY <1>8 DEF __am_irq_handle, tables
  <2>2. ctx[cur].kind = "user" => cr3 = ctx[cur].as
    BY <2>1 DEF UserSeesTables
  <2>3. /\ ctx' \in [Thread -> [kind : {"none", "kernel", "user"},
                                cr3 : live \cup {kpt, NULL}, as : Page \cup {NULL}]]
        /\ \A t \in Thread : /\ ctx'[t].kind = ctx[t].kind /\ ctx'[t].as = ctx[t].as
                             /\ ctx'[t].cr3 = IF t = cur THEN cr3 ELSE ctx[t].cr3
    BY <2>1
  <2> QED
    BY <2>1, <2>2, <2>3, <1>0
<1>9. ASSUME NEW t \in Thread, irq_return(t)
      PROVE  (Types /\ ContextInv)'
  <2>1. /\ UNCHANGED <<mem, used, kpt, live>>
        /\ mode = "handler" /\ mode' = ctx[t].kind /\ cur' = t /\ ctx[t].kind # "none"
        /\ ctx' = [ctx EXCEPT ![t].cr3 = NULL]
        /\ cr3' = IF ctx[t].cr3 # NULL THEN ctx[t].cr3 ELSE cr3
        /\ tlb' = IF ctx[t].cr3 # NULL THEN Flushed ELSE tlb
    BY <1>9 DEF irq_return, tables
  <2>2. /\ ctx' \in [Thread -> [kind : {"none", "kernel", "user"},
                                cr3 : live \cup {kpt, NULL}, as : Page \cup {NULL}]]
        /\ \A u \in Thread : /\ ctx'[u].kind = ctx[u].kind /\ ctx'[u].as = ctx[u].as
                             /\ ctx'[u].cr3 = IF u = t THEN NULL ELSE ctx[u].cr3
    BY <2>1
  <2>3. cr3' \in live \cup {kpt, NULL} /\ tlb' \in [Cached -> Entries]
    BY <2>1, <1>0
  <2> QED
    BY <2>1, <2>2, <2>3, <1>0
<1>10. ASSUME NEW v \in Cached, TLB_fill(v)
       PROVE  (Types /\ ContextInv)'
  <2>1. /\ UNCHANGED <<mem, used, kpt, live, cr3, ctx, cur, mode>>
        /\ tlb' = [tlb EXCEPT ![v] = Walk(cr3, v)] /\ Present(Walk(cr3, v))
    BY <1>10 DEF TLB_fill, tables, threads
  <2>2. Walk(cr3, v) \in Entries
    <3>1. v[1] \in UIdx /\ v[2] \in Index /\ v[1] \in Index
      BY X86VmeAssumption, UserPage
    <3>2. CASE cr3 \in Page /\ Present(mem[cr3][v[1]])
      <4>1. cr3 \in live
        <5>1. cr3 = KDir /\ kpt # NULL => mem[cr3][v[1]] = Absent
          BY <3>1, X86VmeAssumption DEF TablesInv, KernelInv
        <5> QED
          BY <5>1, <3>2, EntryFacts, <1>0
      <4>2. mem[cr3][v[1]].to \in Page
        BY <4>1, <3>1, <3>2 DEF TablesInv, UserTableInv
      <4> QED
        BY <3>1, <3>2, <4>2 DEF Walk
    <3>3. CASE ~(cr3 \in Page /\ Present(mem[cr3][v[1]]))
      BY <3>3, EntryTypes DEF Walk
    <3> QED
      BY <3>2, <3>3
  <2>3. tlb' \in [Cached -> Entries]
    BY <2>1, <2>2
  <2> QED
    BY <2>1, <2>3, <1>0
<1>11. CASE InKernel /\ mode' = "panic" /\ UNCHANGED <<tables, cr3, tlb, ctx, cur>>
  <2>1. UNCHANGED <<mem, used, kpt, live, cr3, tlb, ctx, cur>>
    BY <1>11 DEF tables
  <2>2. mode' = "panic" /\ mode \in {"kernel", "handler"}
    BY <1>11
  <2> QED
    BY <2>1, <2>2, <1>0
<1>12. CASE UNCHANGED xvars
  BY <1>12 DEF xvars
<1> QED
  BY <1>1, <1>2, <1>3, <1>4, <1>5, <1>6, <1>7, <1>8, <1>9, <1>10, <1>11, <1>12, Steps
     DEF Elsewhere

-----------------------------------------------------------------------------
(* What the processor sees.                                                *)

\* The processor finds a user page through the directory of an address space,
\* and under the kernel's directory or before vme_init it finds none.
LEMMA WalkFacts ==
  ASSUME XInv, NEW v \in VA
  PROVE  /\ \A d \in live :
              Walk(d, v) = IF Present(mem[d][v[1]]) THEN mem[mem[d][v[1]].to][v[2]] ELSE Absent
         /\ cr3 \notin live => Walk(cr3, v) = Absent
<1>1. v[1] \in Index \ KIdx
  BY UserPage
<1>2. live \in SUBSET Page /\ cr3 \in live \cup {kpt, NULL} /\ kpt \in {KDir, NULL} /\ NULL \notin Page
  BY X86VmeAssumption DEF XInv, Types
<1>3. cr3 \notin live /\ cr3 \in Page => mem[cr3][v[1]] = Absent
  BY <1>1, <1>2 DEF XInv, TablesInv, KernelInv
<1> QED
  BY <1>2, <1>3, EntryFacts DEF Walk

\* A user program runs in its own address space, and the TLB agrees with it.
LEMMA SeesStep ==
  ASSUME XInv, [XNext]_xvars
  PROVE  UserSeesTables'
<1> SUFFICES ASSUME mode' = "user"
             PROVE  /\ cr3' = ctx'[cur'].as
                    /\ \A v \in Cached : Present(tlb'[v]) => tlb'[v] = Walk(cr3, v)'
  BY DEF UserSeesTables
<1>0. /\ mode = "user" => /\ cr3 = ctx[cur].as
                          /\ \A v \in Cached : Present(tlb[v]) => tlb[v] = Walk(cr3, v)
      /\ tlb \in [Cached -> Entries]
      /\ ctx \in [Thread -> [kind : {"none", "kernel", "user"},
                             cr3 : live \cup {kpt, NULL}, as : Page \cup {NULL}]]
  BY DEF XInv, Types, UserSeesTables
\* The kernel's operations leave the mode alone, which is not "user".
<1>1. ASSUME UNCHANGED mode, InKernel
      PROVE  FALSE
  BY <1>1 DEF InKernel
<1>2. CASE vme_init
  BY <1>1, <1>2 DEF vme_init, threads
<1>3. CASE protect
  BY <1>1, <1>3, ProtectStep DEF threads
<1>4. CASE \E d \in live : unprotect(d)
  BY <1>1, <1>4 DEF unprotect, threads
<1>5. ASSUME NEW d \in live, NEW v \in VA, NEW pa \in PA, NEW prot \in Prot,
             map(d, v, pa, prot)
      PROVE  FALSE
  BY <1>1, <1>5, MapStep DEF threads
<1>6. CASE \E t \in Thread : kcontext(t) \/ Reap(t)
  BY <1>1, <1>6 DEF kcontext, Reap
<1>7. CASE \E t \in Thread, d \in live : ucontext(t, d)
  BY <1>1, <1>7 DEF ucontext
<1>8. CASE __am_irq_handle
  BY <1>8 DEF __am_irq_handle
<1>9. ASSUME NEW t \in Thread, irq_return(t)
      PROVE  /\ cr3' = ctx'[cur'].as
             /\ \A v \in Cached : Present(tlb'[v]) => tlb'[v] = Walk(cr3, v)'
  <2>1. /\ mode = "handler" /\ ctx[t].kind = "user" /\ cur' = t
        /\ ctx' = [ctx EXCEPT ![t].cr3 = NULL]
    BY <1>9 DEF irq_return
  <2>2. ctx[t].cr3 = ctx[t].as /\ ctx[t].as \in live /\ live \in SUBSET Page /\ NULL \notin Page
    BY <2>1, X86VmeAssumption DEF XInv, Types, ContextInv
  <2>3. cr3' = ctx[t].as /\ tlb' = Flushed
    BY <1>9, <2>2 DEF irq_return
  <2>4. ctx'[t].as = ctx[t].as
    BY <2>1, <1>0
  <2> QED
    BY <2>1, <2>3, <2>4, EntryFacts DEF Flushed
<1>10. ASSUME NEW v \in Cached, TLB_fill(v)
       PROVE  /\ cr3' = ctx'[cur'].as
              /\ \A u \in Cached : Present(tlb'[u]) => tlb'[u] = Walk(cr3, u)'
  <2>1. /\ UNCHANGED <<mem, cr3, ctx, cur, mode>>
        /\ tlb' = [tlb EXCEPT ![v] = Walk(cr3, v)]
    BY <1>10 DEF TLB_fill, tables, threads
  <2>2. \A u : Walk(cr3, u)' = Walk(cr3, u)
    BY <2>1 DEF Walk
  <2> QED
    BY <2>1, <2>2, <1>0
<1>11. CASE UNCHANGED xvars
  <2>1. UNCHANGED <<mem, cr3, tlb, ctx, cur, mode>>
    BY <1>11 DEF xvars
  <2>2. \A u : Walk(cr3, u)' = Walk(cr3, u)
    BY <2>1 DEF Walk
  <2> QED
    BY <2>1, <2>2, <1>0
<1> QED
  BY <1>2, <1>3, <1>4, <1>5, <1>6, <1>7, <1>8, <1>9, <1>10, <1>11 DEF XNext

-----------------------------------------------------------------------------
(* Theorems.                                                               *)

\* The invariant holds when the kernel starts.
LEMMA XInitInv == XInit => XInv
<1> SUFFICES ASSUME XInit PROVE XInv
  OBVIOUS
<1>1. Types
  BY X86VmeAssumption, EntryTypes DEF XInit, Types, Flushed, NoContext
<1>2. TablesInv
  BY DEF XInit, TablesInv, KernelInv, DirectoryInv, UserTableInv, UnsharedInv, NoLeakInv
<1>3. ContextInv /\ UserSeesTables
  BY X86VmeAssumption DEF XInit, ContextInv, UserSeesTables, NoContext
<1> QED
  BY <1>1, <1>2, <1>3 DEF XInv

\* XInv holds in every reachable state.
THEOREM X86VmeInvariant == XSpec => []XInv
<1>1. XInv /\ [XNext]_xvars => XInv'
  <2> SUFFICES ASSUME XInv, [XNext]_xvars PROVE XInv'
    OBVIOUS
  <2>1. TablesInv' /\ (Types /\ ContextInv)' /\ UserSeesTables'
    BY TablesStep, ContextStep, SeesStep
  <2> QED
    BY <2>1 DEF XInv
<1> QED
  BY <1>1, XInitInv, PTL DEF XSpec

\* cr3 and every saved cr3 point to a page directory that is in use.
THEOREM X86VmeTypes == XSpec => []XTypeOK
<1>1. XInv => XTypeOK
  <2> SUFFICES ASSUME XInv PROVE XTypeOK
    OBVIOUS
  <2>1. kpt \in used \cup {NULL}
    BY DEF XInv, Types, TablesInv, KernelInv, KernelPages
  <2> QED
    BY <2>1 DEF XInv, Types, XTypeOK
<1> QED
  BY <1>1, X86VmeInvariant, PTL

\* unprotect frees exactly what protect and map allocated: no page table is
\* shared between address spaces, and no page is lost.
THEOREM X86VmeTables == XSpec => []TablesOwned
<1>1. XInv => TablesOwned
  <2> SUFFICES ASSUME XInv PROVE TablesOwned
    OBVIOUS
  <2> DEFINE K == IF kpt = NULL THEN {} ELSE TablesOf(kpt, KIdx)
             U == UNION {TablesOf(d, UIdx) : d \in live}
  <2>0. /\ KernelInv /\ UserTableInv /\ UnsharedInv /\ NoLeakInv
        /\ kpt \in {KDir, NULL} /\ live \in SUBSET used /\ used \in SUBSET Page
        /\ NULL \notin Page /\ KDir \in Page /\ KIdx \subseteq Index
    BY X86VmeAssumption DEF XInv, Types, TablesInv, Index
  <2>1. kpt # NULL => K = {KTable[k] : k \in KIdx}
    <3> SUFFICES ASSUME kpt # NULL PROVE K = {KTable[k] : k \in KIdx}
      OBVIOUS
    <3>1. \A k \in KIdx : Present(mem[kpt][k]) /\ mem[kpt][k].to = KTable[k]
      BY <2>0, EntryFacts DEF KernelInv
    <3> QED
      BY <3>1 DEF TablesOf
  <2>2. /\ kpt # NULL => KernelPages = ({kpt} \ {NULL}) \cup K
        /\ kpt = NULL => ({kpt} \ {NULL}) \cup K = {}
    BY <2>0, <2>1 DEF KernelPages
  <2>3. \A p : p \in U <=> \E d \in live, i \in UIdx : Present(mem[d][i]) /\ mem[d][i].to = p
    BY DEF TablesOf
  <2>4. \A d \in live : \A p \in TablesOf(d, UIdx) : p \in (used \ live) \ KernelPages
    BY <2>0 DEF TablesOf, UserTableInv
  <2> HIDE DEF K
  <2>5. used = live \cup ({kpt} \ {NULL}) \cup K \cup U
    <3>1. CASE kpt = NULL
      <4>1. used = {} /\ live = {}
        BY <3>1, <2>0 DEF KernelInv
      <4> QED
        BY <3>1, <4>1, <2>2, <2>3
    <3>2. CASE kpt # NULL
      <4>1. KernelPages \subseteq used
        BY <3>2, <2>0 DEF KernelInv
      <4>2. U \subseteq used
        BY <2>3, <2>0 DEF UserTableInv
      <4>3. used \subseteq live \cup KernelPages \cup U
        BY <2>3, <2>0 DEF NoLeakInv
      <4> HIDE DEF U
      <4> QED
        BY <3>2, <4>1, <4>2, <4>3, <2>0, <2>2
    <3> QED
      BY <3>1, <3>2
  <2>6. \A d \in live : TablesOf(d, UIdx) \cap (live \cup {kpt} \cup K) = {}
    <3>1. live # {} => kpt # NULL
      BY <2>0 DEF KernelInv
    <3>2. live # {} => {kpt} \cup K = KernelPages
      BY <3>1, <2>2
    <3> QED
      BY <3>2, <2>4
  <2> QED
    BY <2>0, <2>5, <2>6 DEF TablesOwned, UnsharedInv, K
<1> QED
  BY <1>1, X86VmeInvariant, PTL

\* Kernel addresses translate to themselves, and only for the kernel, in every
\* address space.
THEOREM X86VmeKernel == XSpec => []KernelEverywhere
<1>1. XInv => KernelEverywhere
  <2> SUFFICES ASSUME XInv, NEW d \in live \cup ({kpt} \ {NULL}), NEW k \in KIdx
               PROVE  /\ "U" \notin mem[d][k].flags
                      /\ \A j \in PIdx : Walk(d, <<k, j>>) = KernelEntry(k, j)
    BY DEF KernelEverywhere
  <2>1. kpt # NULL /\ k \in Index /\ d \in Page
    BY X86VmeAssumption DEF XInv, Types, TablesInv, KernelInv, Index
  <2>2. mem[d][k] = KernelDirEntry(k)
    BY <2>1 DEF XInv, Types, TablesInv, KernelInv, DirectoryInv
  <2>3. \A j \in PIdx : mem[KTable[k]][j] = KernelEntry(k, j)
    BY <2>1 DEF XInv, TablesInv, KernelInv
  <2> QED
    BY <2>1, <2>2, <2>3, EntryFacts DEF Walk
<1> QED
  BY <1>1, X86VmeInvariant, PTL

\* A user program runs in the address space its context was made for, and no
\* translation that was unmapped is still in the TLB.
THEOREM X86VmeUser == XSpec => []UserSeesTables
<1>1. XInv => UserSeesTables
  BY DEF XInv
<1> QED
  BY <1>1, X86VmeInvariant, PTL

-----------------------------------------------------------------------------
(* The refinement of Vme.                                                  *)

\* The processor sees the address space in force.
LEMMA ViewFacts == XInv => view = Abs!Sees(spaces, current)
<1> SUFFICES ASSUME XInv PROVE view = Abs!Sees(spaces, current)
  OBVIOUS
<1>1. DOMAIN spaces = live /\ NULL \notin live
  BY X86VmeAssumption DEF spaces, XInv, Types
<1>2. CASE cr3 \in live
  BY <1>1, <1>2 DEF view, spaces, current, Abs!Sees
<1>3. CASE cr3 \notin live
  <2>1. \A v \in VA : Walk(cr3, v) = Absent
    BY <1>3, WalkFacts
  <2> QED
    BY <1>1, <1>3, <2>1 DEF view, current, Abs!Sees, Abs!Empty
<1> QED
  BY <1>2, <1>3

\* A step that changes no entry changes nothing a user of Vme sees.
LEMMA SameSpaces ==
  ASSUME UNCHANGED <<mem, live>>
  PROVE  spaces' = spaces /\ \A d, v : Walk(d, v)' = Walk(d, v)
<1>1. \A d, v : Walk(d, v)' = Walk(d, v)
  BY DEF Walk
<1> QED
  BY <1>1 DEF spaces

\* map changes the translation of one page of one address space.
LEMMA MapSpaces ==
  ASSUME XInv, NEW d \in live, NEW v \in VA, NEW pt \in Page, NEW e,
         MapsTo(d, v, pt, e), live' = live
  PROVE  spaces' = [spaces EXCEPT ![d][v] = e]
<1>1. /\ live \in SUBSET Page /\ live \in SUBSET used /\ UIdx \subseteq Index /\ d \in Page
      /\ v[1] \in UIdx /\ v[2] \in Index
  BY UserPage DEF XInv, Types, Index
<1>2. pt \notin live /\ pt # d
  BY DEF MapsTo
<1>3. \A c \in live, i \in UIdx : ~(c = d /\ i = v[1]) => mem'[c][i] = mem[c][i]
  BY <1>1, <1>2 DEF MapsTo
<1>4. \A c \in live, i \in UIdx :
        Present(mem[c][i]) /\ mem[c][i].to = pt => c = d /\ i = v[1]
  <2>1. CASE pt \notin used
    BY <2>1, <1>1 DEF XInv, TablesInv, UserTableInv
  <2>2. CASE Present(mem[d][v[1]]) /\ mem[d][v[1]].to = pt
    BY <2>2, <1>1 DEF XInv, TablesInv, UnsharedInv
  <2> QED
    BY <2>1, <2>2 DEF MapsTo
<1>5. \A c \in live, i \in UIdx :
        Present(mem[c][i]) => mem[c][i].to \in Page \ live
  BY <1>1 DEF XInv, Types, TablesInv, UserTableInv
<1>6. ASSUME NEW c \in live, NEW u \in VA, ~(c = d /\ u[1] = v[1])
      PROVE  Walk(c, u)' = Walk(c, u)
  <2>1. u[1] \in UIdx /\ c \in Page
    BY <1>1, UserPage
  <2>2. mem'[c][u[1]] = mem[c][u[1]]
    BY <1>3, <1>6, <2>1
  <2>3. CASE Present(mem[c][u[1]])
    <3>1. mem[c][u[1]].to \in Page \ {d, pt}
      BY <1>4, <1>5, <1>6, <2>1, <2>3
    <3>2. mem'[mem[c][u[1]].to] = mem[mem[c][u[1]].to]
      BY <3>1 DEF MapsTo
    <3> QED
      BY <2>1, <2>2, <2>3, <3>2 DEF Walk
  <2>4. CASE ~Present(mem[c][u[1]])
    BY <2>1, <2>2, <2>4 DEF Walk
  <2> QED
    BY <2>3, <2>4
<1>7. \A u \in VA : u[1] = v[1] => Walk(d, u)' = mem'[pt][u[2]]
  BY <1>1, EntryFacts DEF MapsTo, Walk
<1>8. Walk(d, v)' = e
  BY <1>7 DEF MapsTo
<1>9. ASSUME NEW u \in VA \ {v}, u[1] = v[1]
      PROVE  Walk(d, u)' = Walk(d, u)
  <2>1. u[2] \in Index \ {v[2]}
    BY <1>9, UserPage, X86VmeAssumption
  <2>2. Walk(d, u)' = mem'[pt][u[2]]
    BY <1>7, <1>9
  <2>3. CASE Present(mem[d][v[1]]) /\ mem[d][v[1]].to = pt
    <3>1. mem'[pt][u[2]] = mem[pt][u[2]]
      BY <2>1, <2>3 DEF MapsTo
    <3> QED
      BY <1>1, <1>9, <2>2, <2>3, <3>1 DEF Walk
  <2>4. CASE ~Present(mem[d][v[1]])
    <3>1. mem'[pt][u[2]] = Absent
      BY <2>1, <2>4 DEF MapsTo
    <3> QED
      BY <1>9, <2>2, <2>4, <3>1 DEF Walk
  <2> QED
    BY <2>3, <2>4 DEF MapsTo
<1>10. \A c \in live, u \in VA : Walk(c, u)' = IF c = d /\ u = v THEN e ELSE Walk(c, u)
  BY <1>6, <1>8, <1>9
<1>11. spaces' = [c \in live |-> [u \in VA |-> IF c = d /\ u = v THEN e ELSE Walk(c, u)]]
  BY <1>10 DEF spaces
<1>12. \A c \in live : spaces[c] = [u \in VA |-> Walk(c, u)]
  BY DEF spaces
<1>13. [spaces[d] EXCEPT ![v] = e] = [u \in VA |-> IF u = v THEN e ELSE Walk(d, u)]
  BY <1>12
<1>14. [spaces EXCEPT ![d][v] = e] =
         [c \in live |-> IF c = d THEN [spaces[d] EXCEPT ![v] = e] ELSE spaces[c]]
  BY DEF spaces
<1>15. \A c \in live : [u \in VA |-> IF c = d /\ u = v THEN e ELSE Walk(c, u)] =
                       (IF c = d THEN [spaces[d] EXCEPT ![v] = e] ELSE spaces[c])
  BY <1>12, <1>13
<1> QED
  BY <1>11, <1>14, <1>15

\* Every step of the tables is a step of the address spaces, or one their user
\* does not see.
LEMMA XRefinementStep ==
  ASSUME XInv, view = Abs!Sees(spaces, current), view' = Abs!Sees(spaces', current'),
         [XNext]_xvars
  PROVE  [Abs!Next]_(Abs!vmevars)
<1>0. /\ live \in SUBSET used /\ used \in SUBSET Page /\ NULL \notin Page
      /\ cr3 \in live \cup {kpt, NULL} /\ kpt \in {KDir, NULL}
      /\ DOMAIN spaces = live
      /\ current \in live \cup {NULL}
  BY X86VmeAssumption DEF XInv, Types, spaces, current
<1>s. ASSUME spaces' = spaces, current' = current
      PROVE  [Abs!Next]_(Abs!vmevars)
  BY <1>s DEF Abs!vmevars
<1>1. CASE vme_init
  <2>1. live = {} /\ live' = {}
    BY <1>1, InitStep
  <2>2. spaces' = spaces /\ current' = current
    BY <2>1 DEF spaces, current
  <2> QED
    BY <2>2, <1>s
<1>2. CASE protect /\ ~Elsewhere
  <2>1. PICK d \in Page \ used :
           /\ live' = live \cup {d}
           /\ \A q \in Page \ {d} : mem'[q] = mem[q]
           /\ \A i \in Index : mem'[d][i] = IF i \in KIdx THEN KernelDirEntry(i) ELSE Absent
    BY <1>2, ProtectStep DEF Elsewhere
  <2>2. kpt # NULL /\ cr3' = cr3
    BY <1>2, ProtectStep DEF Elsewhere
  <2>3. cr3 # d
    BY <2>2, <1>0 DEF XInv, TablesInv, KernelInv, KernelPages
  <2>4. \A v \in VA : Walk(d, v)' = Absent
    BY <2>1, UserPage, EntryFacts DEF Walk
  <2>5. ASSUME NEW c \in live, NEW v \in VA
        PROVE  Walk(c, v)' = Walk(c, v)
    <3>1. mem'[c] = mem[c] /\ v[1] \in UIdx
      BY <2>1, <1>0, UserPage
    <3>2. Present(mem[c][v[1]]) => mem[c][v[1]].to \in Page \ {d}
      BY <3>1, <1>0 DEF XInv, TablesInv, UserTableInv
    <3> QED
      BY <2>1, <3>1, <3>2 DEF Walk
  <2>6. spaces' = [t \in live \cup {d} |-> IF t = d THEN Abs!Empty ELSE spaces[t]]
    BY <2>1, <2>4, <2>5, <1>0 DEF spaces, Abs!Empty
  <2>7. current' = current /\ current # d
    BY <2>1, <2>2, <2>3, <1>0 DEF current
  <2>8. view' = view
    BY <2>1, <2>6, <2>7, <1>0 DEF Abs!Sees
  <2>9. Abs!Protect(d)
    BY <2>1, <2>6, <2>7, <2>8, <1>0 DEF Abs!Protect
  <2> QED
    BY <2>9 DEF Abs!Next
<1>3. ASSUME NEW d \in live, unprotect(d)
      PROVE  [Abs!Next]_(Abs!vmevars)
  <2>1. live' = live \ {d} /\ cr3' = cr3 /\ cr3 # d
    BY <1>3 DEF unprotect, Unreferenced
  <2>2. ASSUME NEW c \in live', NEW v \in VA
        PROVE  Walk(c, v)' = Walk(c, v)
    <3>1. c \in live \ {d} /\ v[1] \in UIdx /\ c \in Page
      BY <2>1, <1>0, UserPage
    <3>2. /\ c \in Page \ teardown(d)
          /\ Present(mem[c][v[1]]) => mem[c][v[1]].to \in Page \ teardown(d)
      BY <3>1, <1>3, <1>0, UnprotectStep DEF XInv, TablesInv, UserTableInv
    <3>3. \A q \in Page \ teardown(d) : mem'[q] = mem[q]
      BY <1>3, UnprotectStep
    <3> QED
      BY <3>1, <3>2, <3>3 DEF Walk
  <2>3. spaces' = [t \in live \ {d} |-> spaces[t]]
    BY <2>1, <2>2 DEF spaces
  <2>4. current' = current /\ current # d
    BY <2>1, <1>0 DEF current
  <2>5. view' = view
    BY <2>3, <2>4, <1>0 DEF Abs!Sees
  <2>6. Abs!Unprotect(d)
    BY <2>3, <2>4, <2>5, <1>0 DEF Abs!Unprotect
  <2> QED
    BY <2>6, <1>0 DEF Abs!Next
<1>4. ASSUME NEW d \in live, NEW v \in VA, NEW pa \in PA, NEW prot \in Prot,
             map(d, v, pa, prot), ~Elsewhere
      PROVE  [Abs!Next]_(Abs!vmevars)
  <2>1. PICK pt \in Page, e \in Mappings \cup {Absent} : MapsTo(d, v, pt, e)
    BY <1>4, MapStep DEF Elsewhere
  <2>2. live' = live /\ cr3' = cr3
    BY <1>4, MapStep DEF Elsewhere
  <2>3. spaces' = [spaces EXCEPT ![d][v] = e]
    BY <2>1, <2>2, MapSpaces
  <2>4. current' = current
    BY <2>2 DEF current
  <2>5. Abs!Map(d, v, e)
    BY <2>3, <2>4, <1>0 DEF Abs!Map
  <2> QED
    BY <2>5, <1>0 DEF Abs!Next, Mappings
<1>5. ASSUME NEW t \in Thread, irq_return(t)
      PROVE  [Abs!Next]_(Abs!vmevars)
  <2>1. UNCHANGED <<mem, live>>
    BY <1>5 DEF irq_return, tables
  <2>2. spaces' = spaces
    BY <2>1, SameSpaces
  <2>3. current' \in live \cup {NULL}
    BY <2>1 DEF current
  <2>4. Abs!Switch(current')
    BY <2>2, <2>3, <1>0 DEF Abs!Switch
  <2> QED
    BY <2>3, <2>4, <1>0 DEF Abs!Next
<1>6. CASE Elsewhere /\ cr3' = cr3
  <2>1. UNCHANGED <<mem, live>>
    BY <1>6, ElsewhereTables
  <2>2. spaces' = spaces /\ current' = current
    BY <1>6, <2>1, SameSpaces DEF current
  <2> QED
    BY <2>2, <1>s
<1>7. Elsewhere => cr3' = cr3 \/ \E t \in Thread : irq_return(t)
  BY DEF Elsewhere, kcontext, ucontext, Reap, __am_irq_handle, TLB_fill, xvars
<1> QED
  BY <1>1, <1>2, <1>3, <1>4, <1>5, <1>6, <1>7, Steps

\* The page tables implement the address spaces of Vme, whatever pages pgalloc
\* hands out and in whatever order they are reused.
THEOREM X86VmeRefines == XSpec => ImplementsVme
<1>1. XInit => Abs!Init
  <2> SUFFICES ASSUME XInit PROVE Abs!Init
    OBVIOUS
  <2>1. live = {} /\ cr3 = NULL /\ NULL \notin Page
    BY X86VmeAssumption DEF XInit
  <2> QED
    BY <2>1 DEF Abs!Init, Abs!Empty, spaces, current, view, Walk
<1>2. XInv /\ XInv' /\ [XNext]_xvars => [Abs!Next]_(Abs!vmevars)
  <2>1. (XInv => view = Abs!Sees(spaces, current))'
    BY ViewFacts, PTL
  <2> QED
    BY <2>1, ViewFacts, XRefinementStep
<1> QED
  BY <1>1, <1>2, X86VmeInvariant, PTL DEF XSpec, ImplementsVme, Abs!Spec

=============================================================================
