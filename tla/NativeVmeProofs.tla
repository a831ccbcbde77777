--------------------------- MODULE NativeVmeProofs --------------------------
(***************************************************************************)
(* Proofs about NativeVme for any number of pages and address spaces, for  *)
(* a kernel that maps a page once: the lists of the address spaces stay    *)
(* apart and end, the host process has exactly the mappings of the address *)
(* space in force, and lists and host together implement Vme.              *)
(***************************************************************************)
EXTENDS NativeVme, TLAPS

-----------------------------------------------------------------------------
(* The inductive invariant.                                                *)

\* The lists: a page that is a node belongs to one address space, is handed
\* out and no head, and holds a mapping; a user page has at most one node in a
\* list; every list ends.
ListsInv ==
  /\ \A h \in heads : \A p \in Nodes(h) :
       /\ p \in used \ heads
       /\ node[p].va \in VA /\ node[p].pa \in PA /\ node[p].prot \in Prot
  /\ \A g, h \in heads : g # h => Nodes(g) \cap Nodes(h) = {}
  /\ \A h \in heads : \A p, q \in Nodes(h) : node[p].va = node[q].va => p = q
  /\ \A h \in heads : ~Endless(h)

\* Every node of the list in force is marked as mapped, so that the first loop
\* of __am_switch finds it, and the host has what the list says.
HostInv ==
  /\ ~hung
  /\ ~vme_enable => heads = {}
  /\ vm_head = NULL => \A v \in VA : host[v] = None
  /\ vm_head # NULL =>
       /\ \A p \in Nodes(vm_head) :
            node[p].is_mapped /\ host[node[p].va] = __am_pmem_map(node[p])
       /\ \A v \in VA : Found(vm_head, v) = {} => host[v] = None

NInv == NTypeOK /\ ListsInv /\ HostInv

-----------------------------------------------------------------------------
(* The walk along the next pointers nxt from s.                            *)

Ptr == Page \cup {NULL}

\* A set of pages that holds s and is closed under nxt.
Closed(S, s, nxt) ==
  /\ s \in S \cup {NULL}
  /\ \A r \in S : nxt[r] \in S \cup {NULL}

\* The pages the walk visits, with the pointers as a parameter.
Visits(s, nxt) == {q \in Page : \A S \in SUBSET Page : Closed(S, s, nxt) => q \in S}

\* The walk stays inside every closed set.
LEMMA VisitsLeast ==
  ASSUME NEW s, NEW nxt, NEW S \in SUBSET Page, Closed(S, s, nxt)
  PROVE  Visits(s, nxt) \subseteq S
BY DEF Visits

\* The pages visited are themselves such a set.
LEMMA VisitsClosed ==
  ASSUME NEW s \in Ptr, NEW nxt \in [Page -> Ptr]
  PROVE  Visits(s, nxt) \in SUBSET Page /\ Closed(Visits(s, nxt), s, nxt)
<1>1. Visits(s, nxt) \in SUBSET Page
  BY DEF Visits
<1>2. s \in Visits(s, nxt) \cup {NULL}
  <2>1. CASE s = NULL
    BY <2>1
  <2>2. CASE s \in Page
    <3>1. s # NULL
      BY <2>2, NativeVmeAssumption
    <3> QED
      BY <2>2, <3>1 DEF Visits, Closed
  <2> QED
    BY <2>1, <2>2 DEF Ptr
<1>3. ASSUME NEW r \in Visits(s, nxt), nxt[r] # NULL
      PROVE  nxt[r] \in Visits(s, nxt)
  <2>1. r \in Page /\ nxt[r] \in Page
    BY <1>1, <1>3 DEF Ptr
  <2>2. ASSUME NEW S \in SUBSET Page, Closed(S, s, nxt)
        PROVE  nxt[r] \in S
    <3>1. r \in S
      BY <2>2, VisitsLeast
    <3> QED
      BY <2>2, <3>1, <1>3 DEF Closed
  <2> QED
    BY <2>1, <2>2 DEF Visits
<1> QED
  BY <1>1, <1>2, <1>3 DEF Closed

\* Nothing is visited from the null pointer.
LEMMA VisitsNull ==
  ASSUME NEW nxt
  PROVE  Visits(NULL, nxt) = {}
<1>1. Closed({}, NULL, nxt) /\ {} \in SUBSET Page
  BY DEF Closed
<1> QED
  BY <1>1, VisitsLeast

\* Pointers changed outside the pages visited make no difference.
LEMMA VisitsFrame ==
  ASSUME NEW s \in Ptr, NEW nxt \in [Page -> Ptr], NEW n2 \in [Page -> Ptr],
         \A q \in Visits(s, nxt) : n2[q] = nxt[q]
  PROVE  Visits(s, n2) = Visits(s, nxt)
<1>1. Visits(s, nxt) \in SUBSET Page /\ Closed(Visits(s, nxt), s, nxt)
  BY VisitsClosed
<1>2. Closed(Visits(s, nxt), s, n2)
  BY <1>1 DEF Closed
<1>3. Visits(s, n2) \subseteq Visits(s, nxt)
  BY <1>1, <1>2, VisitsLeast
<1>4. Visits(s, n2) \in SUBSET Page /\ Closed(Visits(s, n2), s, n2)
  BY VisitsClosed
<1>5. Closed(Visits(s, n2), s, nxt)
  BY <1>3, <1>4 DEF Closed
<1>6. Visits(s, nxt) \subseteq Visits(s, n2)
  BY <1>4, <1>5, VisitsLeast
<1> QED
  BY <1>3, <1>6

\* A walk that starts at p visits p and what the walk from its successor visits.
LEMMA VisitsFirst ==
  ASSUME NEW p \in Page, NEW nxt \in [Page -> Ptr]
  PROVE  Visits(p, nxt) = {p} \cup Visits(nxt[p], nxt)
<1>1. p \in Ptr /\ nxt[p] \in Ptr /\ p # NULL
  BY NativeVmeAssumption DEF Ptr
<1>2. Visits(p, nxt) \in SUBSET Page /\ Closed(Visits(p, nxt), p, nxt)
  BY <1>1, VisitsClosed
<1>3. /\ Visits(nxt[p], nxt) \in SUBSET Page
      /\ Closed(Visits(nxt[p], nxt), nxt[p], nxt)
  BY <1>1, VisitsClosed
<1>4. Closed({p} \cup Visits(nxt[p], nxt), p, nxt)
  BY <1>3 DEF Closed
<1>5. Visits(p, nxt) \subseteq {p} \cup Visits(nxt[p], nxt)
  BY <1>3, <1>4, VisitsLeast
<1>6. p \in Visits(p, nxt)
  BY <1>1, <1>2 DEF Closed
<1>7. Closed(Visits(p, nxt), nxt[p], nxt)
  BY <1>2, <1>6 DEF Closed
<1>8. Visits(nxt[p], nxt) \subseteq Visits(p, nxt)
  BY <1>2, <1>7, VisitsLeast
<1> QED
  BY <1>5, <1>6, <1>8

\* Putting p after h adds it to what is visited from h's successor.
LEMMA VisitsInsert ==
  ASSUME NEW nxt \in [Page -> Ptr], NEW n2 \in [Page -> Ptr],
         NEW h \in Page, NEW p \in Page, n2[h] = p, n2[p] = nxt[h],
         \A q \in Visits(nxt[h], nxt) : n2[q] = nxt[q]
  PROVE  Visits(n2[h], n2) = Visits(nxt[h], nxt) \cup {p}
<1>1. nxt[h] \in Ptr
  OBVIOUS
<1>2. Visits(nxt[h], n2) = Visits(nxt[h], nxt)
  BY <1>1, VisitsFrame
<1>3. Visits(p, n2) = {p} \cup Visits(n2[p], n2)
  BY VisitsFirst
<1> QED
  BY <1>2, <1>3

\* The list of an address space is such a walk, before and after a step.
LEMMA NodesVisit ==
  ASSUME NEW h
  PROVE  /\ Nodes(h) = Visits(next[h], next)
         /\ Nodes(h)' = Visits(next'[h], next')
BY DEF Nodes, Reach, Visits, Closed

-----------------------------------------------------------------------------
(* The operations on the lists.                                            *)

\* A step that leaves the pointers alone.
LEMMA SameNodes ==
  ASSUME next' = next
  PROVE  \A h : Nodes(h)' = Nodes(h) /\ (Endless(h)' <=> Endless(h))
BY DEF Nodes, Reach, Endless

\* A list none of whose pointers changes, the one of its head included, stays.
LEMMA FrameNodes ==
  ASSUME next \in [Page -> Ptr], next' \in [Page -> Ptr], NEW h \in Page,
         next'[h] = next[h], \A q \in Nodes(h) : next'[q] = next[q]
  PROVE  Nodes(h)' = Nodes(h) /\ (Endless(h)' <=> Endless(h))
<1>1. Nodes(h) = Visits(next[h], next) /\ Nodes(h)' = Visits(next'[h], next')
  BY NodesVisit
<1>2. next[h] \in Ptr /\ \A q \in Visits(next[h], next) : next'[q] = next[q]
  BY <1>1
<1>3. Visits(next[h], next') = Visits(next[h], next)
  BY <1>2, VisitsFrame
<1>4. Nodes(h)' = Nodes(h)
  BY <1>1, <1>3
<1> QED
  BY <1>4 DEF Endless

\* protect: the list of the new head is empty, the others are as they were.
LEMMA ProtectNodes ==
  ASSUME NInv, NEW p \in Page \ used,
         next' \in [Page -> Ptr], next'[p] = NULL,
         \A q \in Page \ {p} : next'[q] = next[q]
  PROVE  /\ Nodes(p)' = {}
         /\ \A h \in heads : Nodes(h)' = Nodes(h) /\ (Endless(h)' <=> Endless(h))
<1>1. next \in [Page -> Ptr] /\ heads \subseteq used /\ used \subseteq Page
  BY DEF NInv, NTypeOK, Ptr
<1>2. Nodes(p)' = {}
  BY NodesVisit, VisitsNull
<1>3. ASSUME NEW h \in heads
      PROVE  Nodes(h)' = Nodes(h) /\ (Endless(h)' <=> Endless(h))
  <2>1. h \in Page /\ next'[h] = next[h] /\ \A q \in Nodes(h) : next'[q] = next[q]
    BY <1>1 DEF NInv, ListsInv
  <2> QED
    BY <1>1, <2>1, FrameNodes
<1> QED
  BY <1>2, <1>3

\* enter: page p becomes the first node of the list of h, and no other list
\* changes.
LEMMA EnterNodes ==
  ASSUME NInv, NEW h \in heads, NEW p \in Page \ used,
         next' \in [Page -> Ptr], next'[h] = p, next'[p] = next[h],
         \A q \in Page \ {h, p} : next'[q] = next[q]
  PROVE  /\ Nodes(h)' = Nodes(h) \cup {p}
         /\ ~Endless(h)'
         /\ \A g \in heads \ {h} : Nodes(g)' = Nodes(g) /\ (Endless(g)' <=> Endless(g))
<1>1. next \in [Page -> Ptr] /\ heads \subseteq used /\ used \subseteq Page /\ h \in Page
  BY DEF NInv, NTypeOK, Ptr
<1>2. \A g \in heads : \A q \in Nodes(g) : q \in Page \ {h, p}
  BY <1>1 DEF NInv, ListsInv
<1>3. Nodes(h) = Visits(next[h], next) /\ Nodes(h)' = Visits(next'[h], next')
  BY NodesVisit
<1>4. Nodes(h)' = Nodes(h) \cup {p}
  <2>1. \A q \in Visits(next[h], next) : next'[q] = next[q]
    BY <1>2, <1>3
  <2>2. Visits(next'[h], next') = Visits(next[h], next) \cup {p}
    BY <1>1, <2>1, VisitsInsert
  <2> QED
    BY <1>3, <2>2
<1>5. ~Endless(h)'
  <2>1. CASE next[h] = NULL
    BY <1>4, <2>1 DEF Endless
  <2>2. CASE next[h] # NULL
    <3>1. next[h] \in Nodes(h)
      BY <1>1, <1>3, <2>2, VisitsClosed DEF Closed
    <3>2. PICK q \in Nodes(h) : next[q] = NULL
      BY <3>1 DEF NInv, ListsInv, Endless
    <3> QED
      BY <3>2, <1>2, <1>4 DEF Endless
  <2> QED
    BY <2>1, <2>2
<1>6. ASSUME NEW g \in heads \ {h}
      PROVE  Nodes(g)' = Nodes(g) /\ (Endless(g)' <=> Endless(g))
  <2>1. g \in Page /\ next'[g] = next[g] /\ \A q \in Nodes(g) : next'[q] = next[q]
    BY <1>1, <1>2
  <2> QED
    BY <1>1, <2>1, FrameNodes
<1> QED
  BY <1>4, <1>5, <1>6

-----------------------------------------------------------------------------
(* Every step preserves the invariant.                                     *)

NodeType == [va : VA \cup {NULL}, pa : PA \cup {NULL}, prot : Prot \cup {{}}, is_mapped : BOOLEAN]
HostType == [pa : PA \cup {NULL}, prot : SUBSET {"R", "W", "X"}]

\* What mmap installs for a node.
LEMMA PmemMap ==
  ASSUME NEW nd
  PROVE  /\ nd.pa \in PA => __am_pmem_map(nd) \in HostType
         /\ \A nd2 : nd2.pa = nd.pa /\ nd2.prot = nd.prot => __am_pmem_map(nd2) = __am_pmem_map(nd)
         /\ nd.pa # NULL => __am_pmem_map(nd) # None
BY DEF __am_pmem_map, HostProt, HostType, None

\* protect preserves the invariant.
LEMMA ProtectStep ==
  ASSUME NInv, NEW p \in Page, protect(p)
  PROVE  NInv'
<1>1. /\ next \in [Page -> Ptr] /\ heads \subseteq used /\ used \subseteq Page
      /\ node \in [Page -> NodeType] /\ vm_head \in heads \cup {NULL}
      /\ NULL \notin Page
  BY NativeVmeAssumption DEF NInv, NTypeOK, Ptr, NodeType
<1>2. /\ p \in Page \ used /\ vme_enable
      /\ used' = used \cup {p} /\ heads' = heads \cup {p}
      /\ UNCHANGED <<vme_enable, vm_head, host, hung>>
  BY DEF protect, pgalloc
<1>3. /\ next' \in [Page -> Ptr] /\ next'[p] = NULL
      /\ \A q \in Page \ {p} : next'[q] = next[q]
  BY <1>1 DEF protect, Ptr
<1>4. /\ node' \in [Page -> NodeType]
      /\ \A q \in Page \ {p} : node'[q] = node[q]
  <2>1. Zero \in NodeType
    BY DEF Zero, NodeType
  <2> QED
    BY <1>1, <2>1 DEF protect
<1>5. /\ Nodes(p)' = {}
      /\ \A h \in heads : Nodes(h)' = Nodes(h) /\ (Endless(h)' <=> Endless(h))
  BY <1>2, <1>3, ProtectNodes
<1>6. \A h \in heads : \A q \in Nodes(h) : q \in used /\ q # p /\ node'[q] = node[q]
  BY <1>1, <1>2, <1>4 DEF NInv, ListsInv
<1>7. NTypeOK'
  BY <1>1, <1>2, <1>3, <1>4 DEF NInv, NTypeOK, Ptr, NodeType
<1>8. ListsInv'
  <2>1. ~Endless(p)'
    BY <1>5 DEF Endless
  <2>2. \A h \in heads' : \A q \in Nodes(h)' : h \in heads /\ q \in Nodes(h)
    BY <1>2, <1>5
  <2> QED
    BY <1>1, <1>2, <1>5, <1>6, <2>1, <2>2 DEF NInv, ListsInv
<1>9. HostInv'
  <2>1. vm_head # NULL => \A v \in VA : Found(vm_head, v)' = Found(vm_head, v)
    BY <1>1, <1>2, <1>5, <1>6 DEF Found
  <2>2. vm_head' = vm_head
    BY <1>2
  <2> QED
    BY <1>1, <1>2, <1>5, <1>6, <2>1, <2>2 DEF NInv, HostInv
<1> QED
  BY <1>7, <1>8, <1>9 DEF NInv

\* __am_switch preserves it: the first loop removes all mappings there are, so
\* the second starts from an empty user space.
LEMMA SwitchStep ==
  ASSUME NInv, NEW h \in heads \cup {NULL}, __am_switch(h)
  PROVE  NInv'
<1>1. /\ heads \subseteq used /\ used \subseteq Page
      /\ node \in [Page -> NodeType] /\ vm_head \in heads \cup {NULL}
      /\ host \in [VA -> HostType] /\ NULL \notin Page /\ ~hung
      /\ None \in HostType
  BY NativeVmeAssumption DEF NInv, NTypeOK, NodeType, HostType, HostInv, None
<1>2. /\ vm_head' = h /\ host' = Mapped(h) /\ vme_enable
      /\ UNCHANGED <<vme_enable, used, heads, next, hung>>
  BY DEF __am_switch
<1>3. \A g : Nodes(g)' = Nodes(g) /\ (Endless(g)' <=> Endless(g))
  BY <1>2, SameNodes
<1>4. /\ node' \in [Page -> NodeType]
      /\ \A p \in Page : /\ node'[p].va = node[p].va /\ node'[p].pa = node[p].pa
                         /\ node'[p].prot = node[p].prot
                         /\ h # NULL /\ p \in Nodes(h) => node'[p].is_mapped
  <2> DEFINE m(p) == IF h # NULL /\ p \in Nodes(h) THEN TRUE
                     ELSE IF vm_head # NULL /\ p \in Nodes(vm_head) THEN FALSE
                     ELSE node[p].is_mapped
  <2>1. node' = [p \in Page |-> [node[p] EXCEPT !.is_mapped = m(p)]]
    BY DEF __am_switch
  <2>2. \A p \in Page : m(p) \in BOOLEAN
    <3>1. \A p \in Page : node[p].is_mapped \in BOOLEAN
      BY <1>1 DEF NodeType
    <3> QED
      BY <3>1, Zenon
  <2>3. \A p \in Page : h # NULL /\ p \in Nodes(h) => m(p)
    OBVIOUS
  <2> HIDE DEF m
  <2>4. \A p \in Page : node'[p] = [node[p] EXCEPT !.is_mapped = m(p)]
    BY <2>1
  <2>5. ASSUME NEW p \in Page
        PROVE  /\ node'[p] \in NodeType
               /\ node'[p].va = node[p].va /\ node'[p].pa = node[p].pa
               /\ node'[p].prot = node[p].prot /\ node'[p].is_mapped = m(p)
    <3>1. node[p] \in NodeType /\ m(p) \in BOOLEAN
      BY <1>1, <2>2
    <3> QED
      BY <2>4, <3>1 DEF NodeType
  <2>6. node' \in [Page -> NodeType]
    BY <2>1, <2>5
  <2> QED
    BY <2>3, <2>5, <2>6
<1>5. \A g \in heads : \A p \in Nodes(g) :
        /\ p \in Page /\ p \in used \ heads
        /\ node[p].va \in VA /\ node[p].pa \in PA /\ node[p].prot \in Prot
  BY <1>1 DEF NInv, ListsInv
<1>6. \A v \in VA : Unmapped[v] = None
  <2> SUFFICES ASSUME NEW v \in VA PROVE Unmapped[v] = None
    OBVIOUS
  <2>1. CASE vm_head = NULL
    BY <2>1 DEF Unmapped, NInv, HostInv
  <2>2. CASE vm_head # NULL /\ Found(vm_head, v) = {}
    BY <2>2 DEF Unmapped, NInv, HostInv, Found
  <2>3. CASE vm_head # NULL /\ Found(vm_head, v) # {}
    BY <2>3 DEF Unmapped, NInv, HostInv, Found
  <2> QED
    BY <2>1, <2>2, <2>3
<1>7. \A v \in VA : h = NULL \/ Found(h, v) = {} => host'[v] = None
  BY <1>2, <1>6 DEF Mapped, Found
<1>8. ASSUME h # NULL, NEW p \in Nodes(h)
      PROVE  host'[node[p].va] = __am_pmem_map(node[p])
  <2> DEFINE q == CHOOSE q \in Nodes(h) : node[q].va = node[p].va
  <2>1. q \in Nodes(h) /\ node[q].va = node[p].va
    OBVIOUS
  <2>2. q = p
    BY <2>1, <1>8 DEF NInv, ListsInv
  <2>3. node[p].va \in VA
    BY <1>5, <1>8
  <2>4. host'[node[p].va] = __am_pmem_map(node[q])
    BY <1>2, <1>8, <2>3 DEF Mapped
  <2> QED
    BY <2>2, <2>4
<1>9. host' \in [VA -> HostType]
  <2>1. host' = [v \in VA |-> host'[v]]
    BY <1>2 DEF Mapped
  <2>2. ASSUME NEW v \in VA
        PROVE  host'[v] \in HostType
    <3>1. CASE h = NULL \/ Found(h, v) = {}
      BY <1>1, <1>7, <3>1
    <3>2. CASE h # NULL /\ Found(h, v) # {}
      <4>1. PICK p \in Nodes(h) : node[p].va = v
        BY <3>2 DEF Found
      <4>2. host'[v] = __am_pmem_map(node[p]) /\ node[p].pa \in PA
        BY <1>5, <1>8, <3>2, <4>1
      <4> QED
        BY <4>2, PmemMap
    <3> QED
      BY <3>1, <3>2
  <2> QED
    BY <2>1, <2>2
<1>10. NTypeOK'
  BY <1>1, <1>2, <1>4, <1>9 DEF NInv, NTypeOK, NodeType, HostType
<1>11. ListsInv'
  BY <1>2, <1>3, <1>4, <1>5 DEF NInv, ListsInv
<1>12. HostInv'
  <2>1. h # NULL => \A v \in VA : Found(h, v)' = Found(h, v)
    BY <1>3, <1>4, <1>5 DEF Found
  <2>2. h # NULL => \A p \in Nodes(h) :
          node'[p].is_mapped /\ host'[node'[p].va] = __am_pmem_map(node'[p])
    <3> SUFFICES ASSUME h # NULL, NEW p \in Nodes(h)
                 PROVE  node'[p].is_mapped /\ host'[node'[p].va] = __am_pmem_map(node'[p])
      OBVIOUS
    <3>1. p \in Page
      BY <1>5
    <3>2. __am_pmem_map(node'[p]) = __am_pmem_map(node[p])
      BY <1>4, <3>1, PmemMap
    <3> QED
      BY <1>4, <1>8, <3>1, <3>2
  <2> QED
    BY <1>1, <1>2, <1>3, <1>7, <2>1, <2>2 DEF HostInv
<1> QED
  BY <1>10, <1>11, <1>12 DEF NInv

\* What map does to the node and to the host.
LEMMA MapStep ==
  ASSUME NInv, NEW h \in heads, NEW v \in VA, NEW pa \in PA, NEW prot \in Prot,
         map(h, v, pa, prot)
  PROVE  /\ Found(h, v) = {} /\ UNCHANGED <<vme_enable, heads, vm_head, hung>>
         /\ \E p \in Page \ used :
              /\ used' = used \cup {p}
              /\ next' \in [Page -> Ptr] /\ next'[h] = p /\ next'[p] = next[h]
              /\ \A q \in Page \ {h, p} : next'[q] = next[q]
              /\ node' \in [Page -> NodeType]
              /\ node'[p].va = v /\ node'[p].pa = pa /\ node'[p].prot = prot
              /\ node'[p].is_mapped = (h = vm_head)
              /\ \A q \in Page \ {p} : node'[q] = node[q]
              /\ host' \in [VA -> HostType]
              /\ host'[v] = IF h = vm_head THEN __am_pmem_map(node'[p]) ELSE host[v]
              /\ \A u \in VA \ {v} : host'[u] = host[u]
<1>1. /\ next \in [Page -> Ptr] /\ heads \subseteq used /\ used \subseteq Page
      /\ node \in [Page -> NodeType] /\ host \in [VA -> HostType] /\ h \in Page
  BY DEF NInv, NTypeOK, Ptr, NodeType, HostType
<1>2. PICK p \in pgalloc : used' = used \cup {p} /\ enter(h, p, PageMap(v, pa, prot))
  BY DEF map
<1>3. p \in Page \ used /\ p # h
  BY <1>1, <1>2 DEF pgalloc
<1>4. /\ next' \in [Page -> Ptr] /\ next'[h] = p /\ next'[p] = next[h]
      /\ \A q \in Page \ {h, p} : next'[q] = next[q]
  BY <1>1, <1>2, <1>3 DEF enter, Ptr
<1> DEFINE nd == [va |-> v, pa |-> pa, prot |-> prot, is_mapped |-> (h = vm_head)]
<1>5. node' = [node EXCEPT ![p] = nd]
  <2>1. ASSUME NEW b \in BOOLEAN
        PROVE  [PageMap(v, pa, prot) EXCEPT !.is_mapped = b]
                 = [va |-> v, pa |-> pa, prot |-> prot, is_mapped |-> b]
    BY DEF PageMap
  <2>2. [PageMap(v, pa, prot) EXCEPT !.is_mapped = (h = vm_head)] = nd
    BY <2>1
  <2> HIDE DEF nd
  <2> QED
    BY <1>2, <2>2, Zenon DEF enter
<1>6. nd \in NodeType
  BY DEF NodeType
<1>7. /\ node' \in [Page -> NodeType] /\ node'[p] = nd
      /\ \A q \in Page \ {p} : node'[q] = node[q]
  <2> HIDE DEF nd
  <2> QED
    BY <1>1, <1>3, <1>5, <1>6
<1> DEFINE m == __am_pmem_map(PageMap(v, pa, prot))
<1>8. m = __am_pmem_map(nd) /\ m \in HostType
  BY PmemMap DEF PageMap
<1>9. host' = IF h = vm_head THEN [host EXCEPT ![v] = m] ELSE host
  BY <1>2 DEF enter, PageMap
<1> HIDE DEF m
<1>10. /\ host' \in [VA -> HostType]
       /\ host'[v] = IF h = vm_head THEN m ELSE host[v]
       /\ \A u \in VA \ {v} : host'[u] = host[u]
  BY <1>1, <1>8, <1>9
<1>11. Found(h, v) = {} /\ UNCHANGED <<vme_enable, heads, vm_head, hung>>
  BY DEF map
<1> QED
  BY <1>2, <1>3, <1>4, <1>7, <1>8, <1>10, <1>11

\* map preserves the invariant.
LEMMA MapStepInv ==
  ASSUME NInv, NEW h \in heads, NEW v \in VA, NEW pa \in PA, NEW prot \in Prot,
         map(h, v, pa, prot)
  PROVE  NInv'
<1>1. /\ heads \subseteq used /\ used \subseteq Page /\ vm_head \in heads \cup {NULL}
      /\ NULL \notin Page /\ vme_enable
  BY NativeVmeAssumption DEF NInv, NTypeOK, HostInv
<1>2. Found(h, v) = {} /\ UNCHANGED <<vme_enable, heads, vm_head, hung>>
  BY MapStep
<1>3. PICK p \in Page \ used :
        /\ used' = used \cup {p}
        /\ next' \in [Page -> Ptr] /\ next'[h] = p /\ next'[p] = next[h]
        /\ \A q \in Page \ {h, p} : next'[q] = next[q]
        /\ node' \in [Page -> NodeType]
        /\ node'[p].va = v /\ node'[p].pa = pa /\ node'[p].prot = prot
        /\ node'[p].is_mapped = (h = vm_head)
        /\ \A q \in Page \ {p} : node'[q] = node[q]
        /\ host' \in [VA -> HostType]
        /\ host'[v] = IF h = vm_head THEN __am_pmem_map(node'[p]) ELSE host[v]
        /\ \A u \in VA \ {v} : host'[u] = host[u]
  BY MapStep
<1>4. /\ Nodes(h)' = Nodes(h) \cup {p}
      /\ ~Endless(h)'
      /\ \A g \in heads \ {h} : Nodes(g)' = Nodes(g) /\ (Endless(g)' <=> Endless(g))
  BY <1>3, EnterNodes
<1>5. \A g \in heads : \A q \in Nodes(g) :
        /\ q \in used \ heads /\ q # p /\ node'[q] = node[q]
        /\ node[q].va \in VA /\ node[q].pa \in PA /\ node[q].prot \in Prot
  BY <1>1, <1>3 DEF NInv, ListsInv
<1>6. NTypeOK'
  BY <1>1, <1>2, <1>3 DEF NInv, NTypeOK, Ptr, NodeType, HostType
<1>7. ListsInv'
  <2>1. \A g \in heads : \A q \in Nodes(g)' : q \in Nodes(g) \/ (g = h /\ q = p)
    BY <1>4
  <2>2. \A g \in heads : \A q \in Nodes(g)' :
          /\ q \in used' \ heads
          /\ node'[q].va \in VA /\ node'[q].pa \in PA /\ node'[q].prot \in Prot
    BY <1>1, <1>3, <1>5, <2>1
  <2>3. \A f, g \in heads : f # g => Nodes(f)' \cap Nodes(g)' = {}
    BY <1>5, <2>1 DEF NInv, ListsInv
  <2>4. \A q \in Nodes(h) : node'[q].va # v
    BY <1>2, <1>5 DEF Found
  <2>5. \A g \in heads : \A q, r \in Nodes(g)' : node'[q].va = node'[r].va => q = r
    BY <1>3, <1>5, <2>1, <2>4 DEF NInv, ListsInv
  <2>6. \A g \in heads : ~Endless(g)'
    BY <1>4 DEF NInv, ListsInv
  <2> QED
    BY <1>2, <2>2, <2>3, <2>5, <2>6 DEF ListsInv
<1>8. HostInv'
  <2>1. CASE vm_head = NULL
    BY <1>1, <1>2, <1>3, <2>1 DEF NInv, HostInv
  <2>2. CASE vm_head \in heads \ {h}
    <3>1. vm_head # NULL /\ vm_head' = vm_head /\ \A u \in VA : host'[u] = host[u]
      BY <1>1, <1>2, <1>3, <2>2
    <3>2. Nodes(vm_head)' = Nodes(vm_head)
      BY <1>2, <1>4, <2>2
    <3>3. \A u \in VA : Found(vm_head, u)' = Found(vm_head, u)
      BY <1>5, <2>2, <3>2 DEF Found
    <3> QED
      BY <1>1, <1>2, <1>5, <2>2, <3>1, <3>2, <3>3 DEF NInv, HostInv
  <2>3. CASE vm_head = h
    <3>1. \A q \in Nodes(h) : /\ node'[q].is_mapped /\ host'[node'[q].va] = __am_pmem_map(node'[q])
      <4> SUFFICES ASSUME NEW q \in Nodes(h)
                   PROVE  node'[q].is_mapped /\ host'[node'[q].va] = __am_pmem_map(node'[q])
        OBVIOUS
      <4>1. node'[q] = node[q] /\ node[q].va \in VA \ {v}
        BY <1>2, <1>5 DEF Found
      <4>2. node[q].is_mapped /\ host[node[q].va] = __am_pmem_map(node[q])
        BY <1>1, <2>3 DEF NInv, HostInv
      <4> QED
        BY <1>3, <4>1, <4>2
    <3>2. node'[p].is_mapped /\ host'[node'[p].va] = __am_pmem_map(node'[p])
      BY <1>3, <2>3
    <3>3. ASSUME NEW u \in VA, Found(h, u)' = {}
          PROVE  host'[u] = None
      <4>1. u # v /\ Found(h, u) = {}
        BY <1>3, <1>4, <1>5, <3>3 DEF Found
      <4> QED
        BY <1>1, <1>3, <2>3, <4>1 DEF NInv, HostInv
    <3>4. vm_head' = h /\ Nodes(vm_head)' = Nodes(h) \cup {p}
      BY <1>2, <1>4, <2>3
    <3>5. \A u \in VA : Found(vm_head, u)' = Found(h, u)'
      BY <3>4, <1>4 DEF Found
    <3> QED
      BY <1>1, <1>2, <3>1, <3>2, <3>3, <3>4, <3>5 DEF NInv, HostInv
  <2> QED
    BY <1>1, <2>1, <2>2, <2>3
<1> QED
  BY <1>6, <1>7, <1>8 DEF NInv

\* Nothing is mapped before vme_init.
LEMMA NInitInv ==
  ASSUME NInit
  PROVE  NInv
<1>1. NTypeOK
  BY DEF NInit, NTypeOK, Zero, None
<1> QED
  BY <1>1 DEF NInit, NInv, ListsInv, HostInv

\* Every step preserves the invariant.
LEMMA NStep ==
  ASSUME NInv, [NNext]_nvars
  PROVE  NInv'
<1>1. ASSUME UNCHANGED <<used, heads, next, node, vm_head, host, hung>>,
             vme_enable' \in BOOLEAN, vme_enable => vme_enable'
      PROVE  NInv'
  <2>1. \A h : Nodes(h)' = Nodes(h) /\ (Endless(h)' <=> Endless(h))
    BY <1>1, SameNodes
  <2>2. NTypeOK'
    BY <1>1 DEF NInv, NTypeOK
  <2>3. ListsInv'
    BY <1>1, <2>1 DEF NInv, ListsInv
  <2>4. vm_head' = vm_head /\ host' = host /\ \A h, v : Found(h, v)' = Found(h, v)
    BY <1>1, <2>1 DEF Found
  <2>5. HostInv'
    BY <1>1, <2>1, <2>4 DEF NInv, HostInv
  <2> QED
    BY <2>2, <2>3, <2>5 DEF NInv
<1>2. CASE vme_init
  BY <1>1, <1>2 DEF vme_init
<1>3. ASSUME NEW p \in Page, protect(p)
      PROVE  NInv'
  BY <1>3, ProtectStep
<1>4. ASSUME NEW h \in heads \cup {NULL}, __am_switch(h)
      PROVE  NInv'
  BY <1>4, SwitchStep
<1>5. ASSUME NEW h \in heads, NEW v \in VA, NEW pa \in PA, NEW prot \in Prot,
             map(h, v, pa, prot)
      PROVE  NInv'
  BY <1>5, MapStepInv
<1>6. CASE UNCHANGED nvars
  BY <1>1, <1>6 DEF nvars, NInv, NTypeOK
<1> QED
  BY <1>2, <1>3, <1>4, <1>5, <1>6 DEF NNext

-----------------------------------------------------------------------------
(* The theorems.                                                           *)

\* The invariant holds in every state.
THEOREM NativeVmeInvariant == NSpec => []NInv
<1>1. NInv /\ [NNext]_nvars => NInv'
  BY NStep
<1>2. NInit => NInv
  BY NInitInv
<1> QED
  BY <1>1, <1>2, PTL DEF NSpec

\* vm_head and the heads are always pages that pgalloc handed out.
THEOREM NativeVmeTypes == NSpec => []NTypeOK
<1>1. NInv => NTypeOK
  BY DEF NInv
<1> QED
  BY <1>1, NativeVmeInvariant, PTL

\* What NInv says of the host.
LEMMA Munmaps ==
  ASSUME NInv
  PROVE  MunmapsAll
<1>1. vm_head \in heads \cup {NULL} /\ ~hung
  BY DEF NInv, NTypeOK, HostInv
<1>2. vm_head # NULL => ~Endless(vm_head)
  BY <1>1 DEF NInv, ListsInv
<1>3. \A v \in VA : host[v] # None => vm_head # NULL /\ Found(vm_head, v) # {}
  BY DEF NInv, HostInv
<1> QED
  BY <1>1, <1>2, <1>3 DEF MunmapsAll

\* The first loop of __am_switch ends and finds every mapping of the host.
THEOREM NativeVmeMunmaps == NSpec => []MunmapsAll
<1>1. NInv => MunmapsAll
  BY Munmaps
<1> QED
  BY <1>1, NativeVmeInvariant, PTL

\* What NInv says of the lists.
LEMMA Apart ==
  ASSUME NInv
  PROVE  ListsApart
BY DEF NInv, ListsInv, ListsApart

\* The lists of two address spaces share no node, and no list has two nodes for
\* a page.
THEOREM NativeVmeLists == NSpec => []ListsApart
<1>1. NInv => ListsApart
  BY Apart
<1> QED
  BY <1>1, NativeVmeInvariant, PTL

-----------------------------------------------------------------------------
(* The lists and the host implement Vme.                                   *)

\* The address spaces, read off the lists, and what the host shows of them.
Shown ==
  /\ spaces = [h \in heads |-> [v \in VA |-> spaces[h][v]]]
  /\ \A h \in heads, v \in VA :
       /\ Found(h, v) = {} => spaces[h][v] = None
       /\ \A p \in Found(h, v) : spaces[h][v] = __am_pmem_map(node[p])
  /\ host = Abs!Sees(spaces, vm_head)

\* The host shows the address space in force.
LEMMA ShownNow == NInv => Shown
<1> SUFFICES ASSUME NInv PROVE Shown
  OBVIOUS
<1>1. /\ vm_head \in heads \cup {NULL} /\ NULL \notin heads
      /\ host \in [VA -> HostType]
  BY NativeVmeAssumption DEF NInv, NTypeOK, HostType
<1>2. spaces = [h \in heads |-> [v \in VA |-> spaces[h][v]]]
  BY DEF spaces
<1>3. ASSUME NEW h \in heads, NEW v \in VA
      PROVE  /\ Found(h, v) = {} => spaces[h][v] = None
             /\ \A p \in Found(h, v) : spaces[h][v] = __am_pmem_map(node[p])
  <2>1. Found(h, v) = {} => spaces[h][v] = None
    BY DEF spaces
  <2>2. ASSUME NEW p \in Found(h, v)
        PROVE  spaces[h][v] = __am_pmem_map(node[p])
    <3> DEFINE q == CHOOSE q \in Found(h, v) : TRUE
    <3>1. q \in Found(h, v)
      BY <2>2
    <3>2. q = p
      BY <2>2, <3>1 DEF Found, NInv, ListsInv
    <3>3. spaces[h][v] = __am_pmem_map(node[q])
      BY <2>2 DEF spaces
    <3> QED
      BY <3>2, <3>3
  <2> QED
    BY <2>1, <2>2
<1>4. CASE vm_head = NULL
  <2>1. \A v \in VA : host[v] = None
    BY <1>4 DEF NInv, HostInv
  <2>2. Abs!Sees(spaces, vm_head) = [v \in VA |-> None]
    BY <1>1, <1>2, <1>4 DEF Abs!Sees, Abs!Empty
  <2>3. host = [v \in VA |-> None]
    BY <1>1, <2>1
  <2> QED
    BY <1>2, <1>3, <2>2, <2>3 DEF Shown
<1>5. CASE vm_head \in heads
  <2>1. vm_head # NULL
    BY <1>1, <1>5
  <2>2. ASSUME NEW v \in VA
        PROVE  host[v] = spaces[vm_head][v]
    <3>1. CASE Found(vm_head, v) = {}
      BY <1>3, <1>5, <2>1, <3>1 DEF NInv, HostInv
    <3>2. CASE Found(vm_head, v) # {}
      <4>1. PICK p \in Nodes(vm_head) : node[p].va = v
        BY <3>2 DEF Found
      <4>2. p \in Found(vm_head, v)
        BY <4>1 DEF Found
      <4>3. host[v] = __am_pmem_map(node[p])
        BY <2>1, <4>1 DEF NInv, HostInv
      <4> QED
        BY <1>3, <1>5, <4>2, <4>3
    <3> QED
      BY <3>1, <3>2
  <2>3. Abs!Sees(spaces, vm_head) = [v \in VA |-> spaces[vm_head][v]]
    BY <1>2, <1>5 DEF Abs!Sees
  <2>4. host = [v \in VA |-> spaces[vm_head][v]]
    BY <1>1, <2>2
  <2> QED
    BY <1>2, <1>3, <2>3, <2>4 DEF Shown
<1> QED
  BY <1>1, <1>4, <1>5

\* A step that leaves the nodes for a page alone leaves what it is mapped to
\* alone.
LEMMA SameSpace ==
  ASSUME Shown, Shown', NEW h \in heads, h \in heads', NEW v \in VA,
         Found(h, v)' = Found(h, v),
         \A p \in Found(h, v) : node'[p].pa = node[p].pa /\ node'[p].prot = node[p].prot
  PROVE  spaces'[h][v] = spaces[h][v]
<1>1. CASE Found(h, v) = {}
  BY <1>1 DEF Shown
<1>2. CASE Found(h, v) # {}
  <2>1. PICK p \in Found(h, v) : TRUE
    BY <1>2
  <2>2. spaces[h][v] = __am_pmem_map(node[p]) /\ spaces'[h][v] = __am_pmem_map(node'[p])
    BY <2>1 DEF Shown
  <2>3. __am_pmem_map(node'[p]) = __am_pmem_map(node[p])
    BY <2>1, PmemMap
  <2> QED
    BY <2>2, <2>3
<1> QED
  BY <1>1, <1>2

\* protect adds an empty address space and changes no other.
LEMMA ProtectRefines ==
  ASSUME NInv, Shown, Shown', NEW p \in Page, protect(p)
  PROVE  Abs!Protect(p)
<1>1. /\ next \in [Page -> Ptr] /\ heads \subseteq used /\ used \subseteq Page
      /\ node \in [Page -> NodeType] /\ p \in Page \ used
      /\ heads' = heads \cup {p} /\ UNCHANGED <<vm_head, host>>
  BY DEF NInv, NTypeOK, Ptr, NodeType, protect, pgalloc
<1>2. /\ next' \in [Page -> Ptr] /\ next'[p] = NULL
      /\ \A q \in Page \ {p} : next'[q] = next[q]
  BY <1>1 DEF protect, Ptr
<1>3. \A q \in Page \ {p} : node'[q] = node[q]
  BY <1>1 DEF protect
<1>4. /\ Nodes(p)' = {}
      /\ \A h \in heads : Nodes(h)' = Nodes(h)
  BY <1>1, <1>2, ProtectNodes
<1>5. \A v \in VA : Found(p, v)' = {}
  BY <1>4 DEF Found
<1>6. \A v \in VA : spaces'[p][v] = None
  BY <1>1, <1>5 DEF Shown
<1>7. ASSUME NEW h \in heads, NEW v \in VA
      PROVE  spaces'[h][v] = spaces[h][v]
  <2>1. \A q \in Nodes(h) : node'[q] = node[q]
    BY <1>1, <1>3 DEF NInv, ListsInv
  <2>2. Found(h, v)' = Found(h, v)
    BY <1>4, <2>1 DEF Found
  <2>3. \A q \in Found(h, v) : node'[q] = node[q]
    BY <2>1 DEF Found
  <2> QED
    BY <1>1, <2>2, <2>3, SameSpace
<1>8. DOMAIN spaces = heads /\ p \notin heads
  BY <1>1 DEF spaces
<1>9. spaces' = [h \in heads \cup {p} |-> [v \in VA |-> spaces'[h][v]]]
  BY <1>1 DEF Shown
<1>10. \A h \in heads : spaces[h] = [v \in VA |-> spaces[h][v]]
  BY DEF Shown
<1>11. \A h \in heads \cup {p} :
         [v \in VA |-> spaces'[h][v]] = IF h = p THEN Abs!Empty ELSE spaces[h]
  BY <1>6, <1>7, <1>8, <1>10 DEF Abs!Empty
<1>12. spaces' = [h \in DOMAIN spaces \cup {p} |-> IF h = p THEN Abs!Empty ELSE spaces[h]]
  BY <1>8, <1>9, <1>11
<1> QED
  BY <1>1, <1>8, <1>12 DEF Abs!Protect

\* __am_switch changes no address space and shows the one it switches to.
LEMMA SwitchRefines ==
  ASSUME NInv, Shown, Shown', NEW h \in heads \cup {NULL}, __am_switch(h)
  PROVE  Abs!Switch(h)
<1>1. vm_head' = h /\ UNCHANGED <<heads, next>> /\ node \in [Page -> NodeType] /\ used \subseteq Page
  BY DEF __am_switch, NInv, NTypeOK, NodeType
<1>2. \A p \in Page : /\ node'[p].va = node[p].va /\ node'[p].pa = node[p].pa
                      /\ node'[p].prot = node[p].prot
  <2> DEFINE m(p) == IF h # NULL /\ p \in Nodes(h) THEN TRUE
                     ELSE IF vm_head # NULL /\ p \in Nodes(vm_head) THEN FALSE
                     ELSE node[p].is_mapped
  <2>1. node' = [p \in Page |-> [node[p] EXCEPT !.is_mapped = m(p)]]
    BY DEF __am_switch
  <2> HIDE DEF m
  <2> QED
    BY <1>1, <2>1 DEF NodeType
<1>3. ASSUME NEW g \in heads, NEW v \in VA
      PROVE  spaces'[g][v] = spaces[g][v]
  <2>1. Nodes(g)' = Nodes(g)
    BY <1>1, SameNodes
  <2>2. \A p \in Nodes(g) : p \in Page
    BY <1>1 DEF NInv, ListsInv
  <2>3. Found(g, v)' = Found(g, v) /\ \A p \in Found(g, v) : p \in Page
    BY <1>2, <2>1, <2>2 DEF Found
  <2> QED
    BY <1>1, <1>2, <2>3, SameSpace
<1>4. /\ spaces = [g \in heads |-> [v \in VA |-> spaces[g][v]]]
      /\ spaces' = [g \in heads |-> [v \in VA |-> spaces'[g][v]]]
  BY <1>1 DEF Shown
<1>5. spaces' = spaces /\ DOMAIN spaces = heads
  BY <1>3, <1>4
<1> QED
  BY <1>1, <1>5 DEF Shown, Abs!Switch

\* map changes one page of one address space.
LEMMA MapRefines ==
  ASSUME NInv, Shown, Shown', NEW h \in heads, NEW v \in VA, NEW pa \in PA, NEW prot \in Prot,
         map(h, v, pa, prot)
  PROVE  Abs!Map(h, v, __am_pmem_map([pa |-> pa, prot |-> prot]))
<1> DEFINE m == __am_pmem_map([pa |-> pa, prot |-> prot])
<1>1. Found(h, v) = {} /\ heads' = heads /\ vm_head' = vm_head /\ heads \subseteq used
  BY MapStep DEF NInv, NTypeOK
<1>2. PICK p \in Page \ used :
        /\ next' \in [Page -> Ptr] /\ next'[h] = p /\ next'[p] = next[h]
        /\ \A q \in Page \ {h, p} : next'[q] = next[q]
        /\ node'[p].va = v /\ node'[p].pa = pa /\ node'[p].prot = prot
        /\ \A q \in Page \ {p} : node'[q] = node[q]
  BY MapStep
<1>3. /\ Nodes(h)' = Nodes(h) \cup {p}
      /\ \A g \in heads \ {h} : Nodes(g)' = Nodes(g)
  BY <1>2, EnterNodes
<1>4. \A g \in heads : \A q \in Nodes(g) : q # p /\ node'[q] = node[q]
  BY <1>2 DEF NInv, NTypeOK, ListsInv
<1>5. spaces'[h][v] = m
  <2>1. p \in Found(h, v)'
    BY <1>2, <1>3 DEF Found
  <2>2. spaces'[h][v] = __am_pmem_map(node'[p])
    BY <1>1, <2>1 DEF Shown
  <2> QED
    BY <1>2, <2>2, PmemMap
<1>6. ASSUME NEW g \in heads, NEW u \in VA, ~(g = h /\ u = v)
      PROVE  spaces'[g][u] = spaces[g][u]
  <2>1. Found(g, u)' = Found(g, u)
    BY <1>2, <1>3, <1>4, <1>6 DEF Found
  <2>2. \A q \in Found(g, u) : node'[q] = node[q]
    BY <1>4 DEF Found
  <2> QED
    BY <1>1, <2>1, <2>2, SameSpace
<1> HIDE DEF m
<1>7. spaces' = [g \in heads |-> [u \in VA |-> spaces'[g][u]]]
  BY <1>1 DEF Shown
<1>8. \A g \in heads : spaces[g] = [u \in VA |-> spaces[g][u]]
  BY DEF Shown
<1>9. DOMAIN spaces = heads
  BY DEF spaces
<1>10. [spaces[h] EXCEPT ![v] = m] = [u \in VA |-> IF u = v THEN m ELSE spaces[h][u]]
  BY <1>8
<1>11. [spaces EXCEPT ![h][v] = m] =
         [g \in heads |-> IF g = h THEN [spaces[h] EXCEPT ![v] = m] ELSE spaces[g]]
  BY <1>9 DEF spaces
<1>12. \A g \in heads : [u \in VA |-> spaces'[g][u]] =
                        (IF g = h THEN [spaces[h] EXCEPT ![v] = m] ELSE spaces[g])
  <2> SUFFICES ASSUME NEW g \in heads
               PROVE  [u \in VA |-> spaces'[g][u]] =
                        (IF g = h THEN [spaces[h] EXCEPT ![v] = m] ELSE spaces[g])
    OBVIOUS
  <2>1. CASE g = h
    <3>1. \A u \in VA : spaces'[h][u] = IF u = v THEN m ELSE spaces[h][u]
      BY <1>5, <1>6
    <3> QED
      BY <1>10, <2>1, <3>1
  <2>2. CASE g # h
    BY <1>6, <1>8, <2>2
  <2> QED
    BY <2>1, <2>2
<1>13. spaces' = [spaces EXCEPT ![h][v] = m]
  BY <1>7, <1>11, <1>12
<1>14. host' = Abs!Sees(spaces', vm_head)
  BY <1>1 DEF Shown
<1> QED
  BY <1>1, <1>9, <1>13, <1>14 DEF Abs!Map, m

\* Every step of the lists is a step of the address spaces, or one their user
\* does not see.
LEMMA NRefinementStep ==
  ASSUME NInv, NInv', [NNext]_nvars
  PROVE  [Abs!Next]_(Abs!vmevars)
<1>1. Shown /\ Shown'
  <2>1. (NInv => Shown)'
    BY ShownNow, PTL
  <2> QED
    BY <2>1, ShownNow
<1>2. heads \in SUBSET Page
  BY DEF NInv, NTypeOK
<1>3. ASSUME UNCHANGED <<heads, next, node, vm_head, host>>
      PROVE  [Abs!Next]_(Abs!vmevars)
  <2>1. \A h : Nodes(h)' = Nodes(h)
    BY <1>3, SameNodes
  <2>2. \A h \in heads, v \in VA : spaces'[h][v] = spaces[h][v]
    <3> SUFFICES ASSUME NEW h \in heads, NEW v \in VA
                 PROVE  spaces'[h][v] = spaces[h][v]
      OBVIOUS
    <3>1. Found(h, v)' = Found(h, v)
      BY <1>3, <2>1 DEF Found
    <3> QED
      BY <1>1, <1>3, <3>1, SameSpace
  <2>3. spaces' = spaces
    BY <1>1, <1>3, <2>2 DEF Shown
  <2> QED
    BY <1>3, <2>3 DEF Abs!vmevars
<1>4. CASE vme_init
  BY <1>3, <1>4 DEF vme_init
<1>5. ASSUME NEW p \in Page, protect(p)
      PROVE  [Abs!Next]_(Abs!vmevars)
  BY <1>1, <1>5, ProtectRefines DEF Abs!Next
<1>6. ASSUME NEW h \in heads \cup {NULL}, __am_switch(h)
      PROVE  [Abs!Next]_(Abs!vmevars)
  <2>1. Abs!Switch(h) /\ h \in Page \cup {NULL}
    BY <1>1, <1>2, <1>6, SwitchRefines
  <2> QED
    BY <2>1 DEF Abs!Next
<1>7. ASSUME NEW h \in heads, NEW v \in VA, NEW pa \in PA, NEW prot \in Prot,
             map(h, v, pa, prot)
      PROVE  [Abs!Next]_(Abs!vmevars)
  <2>1. Abs!Map(h, v, __am_pmem_map([pa |-> pa, prot |-> prot])) /\ h \in Page
    BY <1>1, <1>2, <1>7, MapRefines
  <2> QED
    BY <2>1 DEF Abs!Next
<1>8. CASE UNCHANGED nvars
  BY <1>3, <1>8 DEF nvars
<1> QED
  BY <1>4, <1>5, <1>6, <1>7, <1>8 DEF NNext

\* Nothing is mapped at first in either.
LEMMA NInitRefines ==
  ASSUME NInit
  PROVE  Abs!Init
<1>1. heads = {} /\ vm_head = NULL /\ host = [v \in VA |-> None]
  BY DEF NInit
<1> QED
  BY <1>1 DEF Abs!Init, Abs!Empty, spaces

\* The lists and the host's mappings implement the address spaces of Vme: after
\* every map and every switch the process has exactly the pages of the address
\* space in force.
THEOREM NativeVmeRefines == NSpec => ImplementsVme
<1>1. NInit => Abs!Init
  BY NInitRefines
<1>2. NInv /\ NInv' /\ [NNext]_nvars => [Abs!Next]_(Abs!vmevars)
  BY NRefinementStep
<1> QED
  BY <1>1, <1>2, NativeVmeInvariant, PTL DEF NSpec, ImplementsVme, Abs!Spec

=============================================================================
