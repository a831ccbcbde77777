-------------------------- MODULE WatchpointProofs --------------------------
(***************************************************************************)
(* Proofs about Watchpoint for every pool size: the two lists of the pool  *)
(* partition its slots, and with that every assertion of watchpoint.c that *)
(* guards against a corrupted list is unreachable.                         *)
(***************************************************************************)
EXTENDS Watchpoint, WellFoundedInduction, SequenceTheorems, TLAPS

-----------------------------------------------------------------------------
(* The walk over a list.  Reach(h, nxt) is the smallest set that holds h   *)
(* and is closed under nxt; these facts are all that is used of it.   *)

\* A set that holds h and is closed under nxt.
Closed(S, h, nxt) ==
  /\ h \in S \cup {NULL}
  /\ \A q \in S : nxt[q] \in S \cup {NULL}

\* The walk stays inside every closed set that holds its start.
LEMMA ReachLeast ==
  ASSUME NEW h, NEW nxt, NEW S \in SUBSET Pool, Closed(S, h, nxt)
  PROVE  Reach(h, nxt) \subseteq S
BY DEF Reach, Closed

\* The nodes visited are slots, and the walk visits its start and the
\* successor of every node it visits.
LEMMA ReachClosed ==
  ASSUME NEW h \in Ptr, NEW nxt \in [Pool -> Ptr]
  PROVE  /\ Reach(h, nxt) \in SUBSET Pool
         /\ Closed(Reach(h, nxt), h, nxt)
<1>1. Reach(h, nxt) \in SUBSET Pool
  BY DEF Reach
<1>2. h \in Reach(h, nxt) \cup {NULL}
  <2>1. CASE h = NULL
    BY <2>1
  <2>2. CASE h \in Pool
    <3>1. h # NULL
      BY <2>2, NullAssumption
    <3> QED
      BY <2>2, <3>1 DEF Reach
  <2> QED
    BY <2>1, <2>2 DEF Ptr
<1>3. ASSUME NEW q \in Reach(h, nxt), nxt[q] # NULL
      PROVE  nxt[q] \in Reach(h, nxt)
  <2>1. q \in Pool /\ nxt[q] \in Pool
    BY <1>1, <1>3 DEF Ptr
  <2>2. SUFFICES ASSUME NEW S \in SUBSET Pool, Closed(S, h, nxt)
                 PROVE  nxt[q] \in S
    BY <2>1 DEF Reach, Closed
  <2>3. q \in S
    BY <2>2, ReachLeast
  <2> QED
    BY <2>2, <2>3, <1>3 DEF Closed
<1> QED
  BY <1>1, <1>2, <1>3 DEF Closed

\* Every visited node but the start is the successor of a visited node.
LEMMA ReachPredecessor ==
  ASSUME NEW h \in Ptr, NEW nxt \in [Pool -> Ptr],
         NEW p \in Reach(h, nxt), p # h
  PROVE  \E q \in Reach(h, nxt) : nxt[q] = p
<1> DEFINE R == Reach(h, nxt)
<1>1. R \in SUBSET Pool /\ Closed(R, h, nxt)
  BY ReachClosed
<1> SUFFICES ASSUME \A q \in R : nxt[q] # p
             PROVE  FALSE
  OBVIOUS
<1>2. Closed(R \ {p}, h, nxt)
  BY <1>1 DEF Closed
<1>3. R \subseteq R \ {p}
  BY <1>1, <1>2, ReachLeast
<1> QED
  BY <1>3

-----------------------------------------------------------------------------
(* Two lists that share the pool, as a property of the pointers alone.     *)

WellFormed(h, g, nxt) ==
  /\ Reach(h, nxt) \cap Reach(g, nxt) = {}
  /\ Reach(h, nxt) \cup Reach(g, nxt) = Pool
  /\ \A S \in SUBSET Pool : S # {} => \E p \in S : nxt[p] \notin S
  /\ \A p, q \in Pool : nxt[p] = nxt[q] /\ nxt[p] # NULL => p = q
  /\ \A p \in Pool : nxt[p] # NULL => nxt[p] # h /\ nxt[p] # g

\* The pointers after the first node of list g was put in front of list h,
\* and after p, the successor of pre, was put in front of list g.
FirstMoved(h, g, nxt, n2) == n2 = [nxt EXCEPT ![g] = h]
LaterMoved(pre, p, g, nxt, n2) == n2 = [nxt EXCEPT ![pre] = nxt[p], ![p] = g]

\* Taking the first node of list g and putting it in front of list h moves
\* that node and no other; this is new_wp, and free_wp of the first node.
LEMMA MoveFirst ==
  ASSUME NEW h \in Ptr, NEW g \in Pool, NEW nxt \in [Pool -> Ptr],
         WellFormed(h, g, nxt),
         NEW n2, FirstMoved(h, g, nxt, n2)
  PROVE  /\ Reach(g, n2) = Reach(h, nxt) \cup {g}
         /\ Reach(nxt[g], n2) = Reach(g, nxt) \ {g}
         /\ n2 \in [Pool -> Ptr]
         /\ WellFormed(g, nxt[g], n2)
<1> USE DEF FirstMoved
<1> DEFINE A == Reach(h, nxt)
           F == Reach(g, nxt)
           A2 == Reach(g, n2)
           F2 == Reach(nxt[g], n2)
<1>1. /\ A \in SUBSET Pool /\ Closed(A, h, nxt)
      /\ F \in SUBSET Pool /\ Closed(F, g, nxt)
      /\ n2 \in [Pool -> Ptr]
      /\ nxt[g] \in Ptr
      /\ g \in Ptr
  BY ReachClosed DEF Ptr
<1>2. /\ A2 \in SUBSET Pool /\ Closed(A2, g, n2)
      /\ F2 \in SUBSET Pool /\ Closed(F2, nxt[g], n2)
  BY <1>1, ReachClosed
<1>3. /\ n2[g] = h
      /\ \A q \in Pool \ {g} : n2[q] = nxt[q]
      /\ \A q \in Pool : nxt[q] # g
      /\ g # NULL /\ NULL \notin Pool
      /\ g \in F /\ g \notin A
  BY <1>1, NullAssumption DEF WellFormed, Closed
<1> HIDE DEF A, F, A2, F2
<1>4. A2 = A \cup {g}
  <2>1. Closed(A \cup {g}, g, n2)
    BY <1>1, <1>3 DEF Closed
  <2>2. A2 \subseteq A \cup {g}
    BY <2>1, <1>1, ReachLeast DEF A2
  <2>3. Closed(A2 \ {g}, h, nxt)
    BY <1>1, <1>2, <1>3 DEF Closed
  <2>4. A \subseteq A2 \ {g}
    BY <2>3, <1>2, ReachLeast DEF A
  <2> QED
    BY <2>2, <2>4, <1>2, <1>3 DEF Closed
<1>5. F2 = F \ {g}
  <2>1. Closed(F \ {g}, nxt[g], n2)
    BY <1>1, <1>3 DEF Closed
  <2>2. F2 \subseteq F \ {g}
    BY <2>1, <1>1, ReachLeast DEF F2
  <2>3. Closed(F2 \cup {g}, g, nxt)
    BY <1>2, <1>3, <2>2 DEF Closed
  <2>4. F \subseteq F2 \cup {g}
    BY <2>3, <1>2, ReachLeast DEF F
  <2> QED
    BY <2>2, <2>4
<1>6. \A S \in SUBSET Pool : S # {} => \E p \in S : n2[p] \notin S
  <2> SUFFICES ASSUME NEW S \in SUBSET Pool, S # {},
                      \A p \in S : n2[p] \in S
               PROVE  FALSE
    OBVIOUS
  <2>1. \A p \in S \ {g} : nxt[p] \in S \ {g}
    BY <1>3
  <2>2. S \ {g} = {}
    BY <2>1 DEF WellFormed
  <2>3. h = g
    BY <2>2, <1>3
  <2> QED
    BY <2>3, <1>3, <1>1 DEF Closed
<1>7. \A p, q \in Pool : n2[p] = n2[q] /\ n2[p] # NULL => p = q
  BY <1>3 DEF WellFormed
<1>8. \A p \in Pool : n2[p] # NULL => n2[p] # g /\ n2[p] # nxt[g]
  <2> SUFFICES ASSUME NEW p \in Pool, n2[p] # NULL
               PROVE  n2[p] # g /\ n2[p] # nxt[g]
    OBVIOUS
  <2>1. CASE p = g
    BY <2>1, <1>1, <1>3 DEF WellFormed, Closed
  <2>2. CASE p # g
    BY <2>2, <1>3 DEF WellFormed
  <2> QED
    BY <2>1, <2>2
<1>9. A \cap F = {} /\ A \cup F = Pool
  BY DEF WellFormed, A, F
<1>10. A2 \cap F2 = {} /\ A2 \cup F2 = Pool
  BY <1>4, <1>5, <1>9, <1>3
<1>11. WellFormed(g, nxt[g], n2)
  BY <1>6, <1>7, <1>8, <1>10 DEF WellFormed, A2, F2
<1> QED
  BY <1>1, <1>4, <1>5, <1>11 DEF A, F, A2, F2

\* Making the node pre before p skip it and putting p in front of list g moves
\* p and no other node; this is free_wp of a later node.
LEMMA MoveLater ==
  ASSUME NEW h \in Ptr, NEW g \in Ptr, NEW nxt \in [Pool -> Ptr],
         WellFormed(h, g, nxt),
         NEW p \in Pool, NEW pre \in Reach(h, nxt), nxt[pre] = p,
         NEW n2, LaterMoved(pre, p, g, nxt, n2)
  PROVE  /\ Reach(h, n2) = Reach(h, nxt) \ {p}
         /\ Reach(p, n2) = Reach(g, nxt) \cup {p}
         /\ n2 \in [Pool -> Ptr]
         /\ WellFormed(h, p, n2)
<1> USE DEF LaterMoved
<1> DEFINE A == Reach(h, nxt)
           F == Reach(g, nxt)
           A2 == Reach(h, n2)
           F2 == Reach(p, n2)
<1>1. /\ A \in SUBSET Pool /\ Closed(A, h, nxt)
      /\ F \in SUBSET Pool /\ Closed(F, g, nxt)
      /\ p \in Ptr
  BY ReachClosed DEF Ptr
<1>2. n2 \in [Pool -> Ptr]
  BY <1>1
<1>3. /\ A2 \in SUBSET Pool /\ Closed(A2, h, n2)
      /\ F2 \in SUBSET Pool /\ Closed(F2, p, n2)
  <2>1. A2 \in SUBSET Pool /\ Closed(A2, h, n2)
    BY <1>2, ReachClosed
  <2>2. F2 \in SUBSET Pool /\ Closed(F2, p, n2)
    <3>1. p \in Ptr
      BY DEF Ptr
    <3>2. \A x \in Ptr : /\ Reach(x, n2) \in SUBSET Pool
                         /\ Closed(Reach(x, n2), x, n2)
      BY <1>2, ReachClosed
    <3> QED
      BY <3>1, <3>2, Zenon
  <2> QED
    BY <2>1, <2>2
<1>4. A \cap F = {} /\ A \cup F = Pool
  BY DEF WellFormed, A, F
<1>5. NULL \notin Pool
  BY NullAssumption
<1>6. nxt[p] # p
  <2>1. {p} \in SUBSET Pool /\ {p} # {}
    OBVIOUS
  <2> QED
    BY <2>1 DEF WellFormed
<1> HIDE DEF A, F, A2, F2
<1>7. /\ pre \in A /\ pre \in Pool /\ pre # p
      /\ p \in A /\ p \notin F
  BY <1>1, <1>4, <1>5, <1>6 DEF A, Closed
<1>8. /\ n2[p] = g
      /\ n2[pre] = nxt[p]
      /\ \A q \in Pool \ {p, pre} : n2[q] = nxt[q]
      /\ \A q \in Pool \ {pre} : nxt[q] # p
      /\ h # p /\ g # p
  BY <1>5, <1>7 DEF WellFormed
<1>9. A2 \subseteq A \ {p}
  <2>1. Closed(A \ {p}, h, n2)
    BY <1>1, <1>6, <1>7, <1>8 DEF Closed
  <2> QED
    BY <2>1, <1>1, ReachLeast DEF A2
<1>10. pre \in A2
  <2> SUFFICES ASSUME pre \notin A2
               PROVE  FALSE
    OBVIOUS
  <2>1. Closed(A2, h, nxt)
    BY <1>3, <1>8, <1>9 DEF Closed
  <2>2. A \subseteq A2
    BY <2>1, <1>3, ReachLeast DEF A
  <2> QED
    BY <2>2, <1>7
<1>11. A2 = A \ {p}
  <2>1. Closed(A2 \cup {p}, h, nxt)
    BY <1>3, <1>8, <1>9, <1>10 DEF Closed
  <2>2. A \subseteq A2 \cup {p}
    BY <2>1, <1>3, ReachLeast DEF A
  <2> QED
    BY <2>2, <1>9
<1>12. F2 = F \cup {p}
  <2>1. Closed(F \cup {p}, p, n2)
    BY <1>1, <1>4, <1>7, <1>8 DEF Closed
  <2>2. F2 \subseteq F \cup {p}
    BY <2>1, <1>1, ReachLeast DEF F2
  <2>3. p \in F2
    BY <1>3, <1>5 DEF Closed
  <2>4. g \in (F2 \ {p}) \cup {NULL}
    BY <2>3, <1>3, <1>8 DEF Closed
  <2>5. ASSUME NEW q \in F2 \ {p}
        PROVE  nxt[q] \in (F2 \ {p}) \cup {NULL}
    <3>1. q \in F /\ q # pre /\ q \in Pool
      BY <2>2, <1>1, <1>4, <1>7
    <3>2. nxt[q] # p
      BY <3>1, <1>8
    <3>3. n2[q] = nxt[q]
      BY <3>1, <1>8
    <3> QED
      BY <3>2, <3>3, <1>3 DEF Closed
  <2>6. F \subseteq F2 \ {p}
    <3>1. Closed(F2 \ {p}, g, nxt)
      BY <2>4, <2>5 DEF Closed
    <3> QED
      BY <3>1, <1>3, ReachLeast DEF F
  <2> QED
    BY <2>2, <2>3, <2>6
<1>13. \A S \in SUBSET Pool : S # {} => \E q \in S : n2[q] \notin S
  <2> SUFFICES ASSUME NEW S \in SUBSET Pool, S # {},
                      \A q \in S : n2[q] \in S
               PROVE  FALSE
    OBVIOUS
  \* Either the part of S on the active list, with p put back behind pre, or
  \* the part of S on the free list was already a cycle.
  <2>1. CASE pre \in S
    <3> DEFINE T == (S \cap A) \cup {p}
    <3>1. \A q \in T : nxt[q] \in T
      BY <2>1, <1>1, <1>5, <1>7, <1>8 DEF Closed
    <3>2. T \in SUBSET Pool /\ T # {}
      OBVIOUS
    <3> QED
      BY <3>1, <3>2 DEF WellFormed
  <2>2. CASE pre \notin S
    <3> DEFINE T == S \ {p}
    <3>1. \A q \in T : nxt[q] \in T
      BY <2>2, <1>8
    <3>2. T \in SUBSET Pool
      OBVIOUS
    <3>3. T = {}
      BY <3>1, <3>2 DEF WellFormed
    <3> QED
      BY <3>3, <1>8
  <2> QED
    BY <2>1, <2>2
<1>14. \A q, r \in Pool : n2[q] = n2[r] /\ n2[q] # NULL => q = r
  <2>1. \A q \in Pool : nxt[q] # NULL => nxt[q] # g
    BY DEF WellFormed
  <2>2. \A q, r \in Pool : nxt[q] = nxt[r] /\ nxt[q] # NULL => q = r
    BY DEF WellFormed
  <2>3. \A q \in Pool \ {p} : n2[q] # NULL => n2[q] # g
    BY <2>1, <1>7, <1>8
  <2>4. \A q \in Pool \ {p, pre} : n2[q] # NULL => n2[q] # n2[pre]
    BY <2>2, <1>7, <1>8
  <2> QED
    BY <2>2, <2>3, <2>4, <1>7, <1>8
<1>15. \A q \in Pool : n2[q] # NULL => n2[q] # h /\ n2[q] # p
  <2>1. \A q \in Pool : nxt[q] # NULL => nxt[q] # h
    BY DEF WellFormed
  <2>2. g # NULL => g # h
    BY <1>1, <1>4 DEF Closed
  <2> QED
    BY <2>1, <2>2, <1>6, <1>7, <1>8
<1>16. A2 \cap F2 = {} /\ A2 \cup F2 = Pool
  BY <1>4, <1>7, <1>11, <1>12
<1>17. WellFormed(h, p, n2)
  BY <1>13, <1>14, <1>15, <1>16 DEF WellFormed, A2, F2
<1> QED
  BY <1>2, <1>11, <1>12, <1>17 DEF A, F, A2, F2

-----------------------------------------------------------------------------
(* The initial lists.                                                      *)

\* A nonempty set of natural numbers has a least element.
LEMMA NatMinimum ==
  ASSUME NEW T \in SUBSET Nat, T # {}
  PROVE  \E x \in T : \A y \in T : x <= y
<1> DEFINE R == OpToRel(<, Nat)
<1>1. IsWellFoundedOn(R, Nat)
  BY NatLessThanWellFounded
<1>2. \A x, y \in Nat : y < x => <<y, x>> \in R
  BY DEF OpToRel
<1> HIDE DEF R
<1>3. PICK x \in T : \A y \in T : ~ (<<y, x>> \in R)
  BY <1>1, WFMin
<1>4. \A y \in T : ~ (y < x)
  BY <1>2, <1>3
<1> QED
  BY <1>4

\* init_wp_pool puts every slot on the free list.
LEMMA InitLists ==
  ASSUME NEW nxt, nxt = [i \in Pool |-> IF i = NR_WP - 1 THEN NULL ELSE i + 1]
  PROVE  /\ nxt \in [Pool -> Ptr]
         /\ Reach(NULL, nxt) = {}
         /\ WellFormed(NULL, 0, nxt)
<1> USE PoolAssumption
<1>1. NULL \notin Pool /\ 0 \in Pool
  BY NullAssumption DEF Pool
<1>2. nxt \in [Pool -> Ptr]
  BY DEF Pool, Ptr
<1>3. Reach(NULL, nxt) = {}
  <2>1. Closed({}, NULL, nxt)
    BY DEF Closed
  <2>2. {} \in SUBSET Pool
    OBVIOUS
  <2>3. Reach(NULL, nxt) \subseteq {}
    BY <2>1, <2>2, ReachLeast, Zenon
  <2> QED
    BY <2>3
<1>4. Reach(0, nxt) = Pool
  <2> DEFINE R == Reach(0, nxt)
             T == Pool \ R
  <2>1. R \in SUBSET Pool /\ Closed(R, 0, nxt)
    BY <1>1, <1>2, ReachClosed DEF Ptr
  <2> HIDE DEF R
  <2> SUFFICES ASSUME T # {} PROVE FALSE
    BY <2>1 DEF R
  <2>2. T \in SUBSET Nat
    BY DEF Pool
  <2> HIDE DEF T
  <2>3. PICK x \in T : \A y \in T : x <= y
    BY <2>2, NatMinimum
  <2> USE DEF T
  <2>4. 0 \in R
    BY <2>1, <1>1 DEF Closed
  <2>5. x - 1 \in Pool /\ x \in Pool /\ x # 0
    BY <2>4 DEF Pool
  <2>6. x - 1 \in R
    BY <2>3, <2>5 DEF Pool
  <2>7. nxt[x - 1] = x
    BY <2>5 DEF Pool
  <2>8. x \in R
    BY <2>1, <2>5, <2>6, <2>7, <1>1 DEF Closed
  <2> QED
    BY <2>8
<1>5. \A S \in SUBSET Pool : S # {} => \E p \in S : nxt[p] \notin S
  <2> SUFFICES ASSUME NEW S \in SUBSET Pool, S # {}
               PROVE  \E p \in S : nxt[p] \notin S
    OBVIOUS
  <2> DEFINE T == {NR_WP - p : p \in S}
  <2>1. T \in SUBSET Nat /\ T # {}
    <3>1. \A p \in S : NR_WP - p \in Nat
      BY DEF Pool
    <3> QED
      BY <3>1
  <2> HIDE DEF T
  <2>2. PICK x \in T : \A y \in T : x <= y
    BY <2>1, NatMinimum
  <2>3. PICK p \in S : x = NR_WP - p
    BY DEF T
  <2>4. p \in Pool
    OBVIOUS
  <2>5. \A q \in S : q <= p
    <3> TAKE q \in S
    <3>1. q \in Pool
      OBVIOUS
    <3>2. NR_WP - p <= NR_WP - q
      BY <2>2, <2>3 DEF T
    <3> QED
      BY <3>1, <3>2, <2>4 DEF Pool
  <2>6. nxt[p] \notin S
    <3>1. CASE p = NR_WP - 1
      BY <3>1, <2>4, <1>1
    <3>2. CASE p # NR_WP - 1
      <4>1. nxt[p] = p + 1
        BY <3>2, <2>4
      <4> QED
        BY <4>1, <2>4, <2>5 DEF Pool
    <3> QED
      BY <3>1, <3>2
  <2> QED
    BY <2>6
<1>6. \A p, q \in Pool : nxt[p] = nxt[q] /\ nxt[p] # NULL => p = q
  BY DEF Pool
<1>7. \A p \in Pool : nxt[p] # NULL => nxt[p] # NULL /\ nxt[p] # 0
  BY DEF Pool
<1> QED
  BY <1>2, <1>3, <1>4, <1>5, <1>6, <1>7 DEF WellFormed

-----------------------------------------------------------------------------
(* The inductive invariant.                                                *)

\* Inside cmd_w the slot just allocated is the first of the active list;
\* outside it there is none; the loop of cmd_d has a number to read.
LocalsOK ==
  /\ pc = "w" => wp = head /\ wp \in Pool
  /\ pc \notin {"w", "assert_list", "assert_expr"} => wp = NULL
  /\ pc = "d" => args # <<>>

\* Every watchpoint but the one cmd_w is setting up has its current value.
ValuesInv ==
  pc \in {"prompt", "stopped", "d", "w"} =>
    \A p \in Active \ {wp} : watch_value[p] = env[watch_expr[p]]

WInv ==
  /\ WTypeOK
  /\ WellFormed(head, free_, next)
  /\ LocalsOK
  /\ LiveText
  /\ ValuesInv
  /\ NoListAssert

\* The invariant holds after init_wp_pool.
LEMMA WInitInv == WInit => WInv
<1> SUFFICES ASSUME WInit PROVE WInv
  OBVIOUS
<1>1. /\ next \in [Pool -> Ptr]
      /\ Active = {}
      /\ WellFormed(head, free_, next)
  BY InitLists DEF WInit, init_wp_pool, Active
<1>2. WTypeOK
  BY <1>1, PoolAssumption, ValueAssumption
     DEF WInit, init_wp_pool, WTypeOK, Ptr, Pool, PC
<1> QED
  BY <1>1, <1>2
     DEF WInit, WInv, LocalsOK, LiveText, ValuesInv, NoListAssert

-----------------------------------------------------------------------------
(* The operations on the pool.                                             *)

\* Nothing distinguishes the two lists.
LEMMA WellFormedSym ==
  ASSUME NEW h, NEW g, NEW nxt, WellFormed(h, g, nxt)
  PROVE  WellFormed(g, h, nxt)
BY DEF WellFormed

\* new_wp moves the first free slot to the active list.
LEMMA NewStep ==
  ASSUME WTypeOK, WellFormed(head, free_, next), free_ # NULL, new_wp
  PROVE  /\ free_ \in Pool \ Active
         /\ head' = free_ /\ head' \in Ptr /\ free_' \in Ptr
         /\ next' \in [Pool -> Ptr]
         /\ Active' = Active \cup {free_}
         /\ WellFormed(head', free_', next')
<1>1. head \in Ptr /\ free_ \in Pool /\ next \in [Pool -> Ptr]
  BY DEF WTypeOK, Ptr
<1>2. FirstMoved(head, free_, next, next') /\ head' = free_ /\ free_' = next[free_]
  BY DEF new_wp, FirstMoved
<1>3. /\ Reach(free_, next') = Reach(head, next) \cup {free_}
      /\ next' \in [Pool -> Ptr]
      /\ WellFormed(free_, next[free_], next')
  BY <1>1, <1>2, MoveFirst
<1>4. free_ \in Ptr
  BY <1>1 DEF Ptr
<1>5. free_ \in Reach(free_, next)
  BY <1>1, <1>4, ReachClosed DEF Closed
<1>6. free_ \notin Active
  BY <1>5 DEF WellFormed, Active
<1> QED
  BY <1>1, <1>2, <1>3, <1>4, <1>6 DEF Active

\* The search of free_wp finds every slot that is on the active list.
LEMMA SearchFinds ==
  ASSUME WTypeOK, NEW p \in Active
  PROVE  ~ free_wp_not_found(p)
<1>1. head \in Ptr /\ next \in [Pool -> Ptr]
  BY DEF WTypeOK
<1>2. p # head => \E q \in Active : next[q] = p
  BY <1>1, ReachPredecessor DEF Active
<1> QED
  BY <1>2 DEF free_wp_not_found, Predecessors

\* free_wp moves the slot it is given, and no other, to the free list.
LEMMA FreeStep ==
  ASSUME WTypeOK, WellFormed(head, free_, next), NEW p \in Active, free_wp(p)
  PROVE  /\ head' \in Ptr /\ free_' \in Ptr
         /\ next' \in [Pool -> Ptr]
         /\ Active' = Active \ {p}
         /\ WellFormed(head', free_', next')
<1>1. head \in Ptr /\ free_ \in Ptr /\ next \in [Pool -> Ptr]
  BY DEF WTypeOK
<1>2. p \in Pool /\ p \in Ptr /\ Active \in SUBSET Pool /\ free_' = p
  BY DEF Active, Reach, Ptr, free_wp
<1>3. CASE head = p
  <2>1. FirstMoved(free_, p, next, next') /\ head' = next[p]
    BY <1>3 DEF free_wp, FirstMoved
  <2>2. WellFormed(free_, p, next)
    BY <1>3, WellFormedSym
  <2>3. /\ Reach(next[p], next') = Reach(p, next) \ {p}
        /\ next' \in [Pool -> Ptr]
        /\ WellFormed(p, next[p], next')
    BY <1>1, <1>2, <2>1, <2>2, MoveFirst
  <2>4. WellFormed(head', free_', next')
    BY <2>1, <2>3, <1>2, WellFormedSym
  <2> QED
    BY <1>1, <1>2, <1>3, <2>1, <2>3, <2>4 DEF Active
<1>4. CASE head # p
  <2>1. PICK pre \in Predecessors(p) :
          LaterMoved(pre, p, free_, next, next')
    BY <1>4 DEF free_wp, LaterMoved
  <2>2. head' = head
    BY <1>4 DEF free_wp
  <2>3. pre \in Reach(head, next) /\ next[pre] = p
    BY DEF Predecessors, Active
  <2>4. /\ Reach(head, next') = Reach(head, next) \ {p}
        /\ next' \in [Pool -> Ptr]
        /\ WellFormed(head, p, next')
    BY <1>1, <1>2, <2>1, <2>3, MoveLater
  <2> QED
    BY <1>1, <1>2, <2>2, <2>4 DEF Active
<1> QED
  BY <1>3, <1>4

-----------------------------------------------------------------------------
(* Every step preserves the invariant.                                     *)

LEMMA WStepInv ==
  ASSUME WInv, [WNext]_wvars
  PROVE  WInv'
<1> USE DEF WInv
<1>0. /\ Active \in SUBSET Pool
      /\ NULL \notin Pool
      /\ \A p \in Active : watch_expr[p] \in (IF p = wp THEN Text ELSE Expr)
  BY NullAssumption DEF Active, Reach, LiveText
\* A step that leaves the pointers alone.
<1>a. ASSUME UNCHANGED pool
      PROVE  Active' = Active /\ WellFormed(head', free_', next')
  <2>1. head' = head /\ free_' = free_ /\ next' = next
    BY <1>a DEF pool
  <2> QED
    BY <2>1 DEF Active
<1>1. ASSUME NEW e \in Text, cmd_w(e)
      PROVE  WInv'
  <2>1. CASE free_ = NULL
    <3>1. UNCHANGED <<pool, watch_expr, watch_value, env, wp, args>> /\ pc' = "assert_pool"
      BY <1>1, <2>1 DEF cmd_w
    <3>2. WTypeOK'
      BY <3>1 DEF WTypeOK, pool, PC
    <3>3. wp = NULL
      BY <1>1 DEF cmd_w, LocalsOK
    <3> QED
      BY <3>1, <3>2, <3>3, <1>a
         DEF LocalsOK, LiveText, ValuesInv, NoListAssert
  <2>2. CASE free_ # NULL
    <3>1. /\ new_wp
          /\ wp' = free_
          /\ watch_expr' = [watch_expr EXCEPT ![free_] = e]
          /\ pc' = "w"
          /\ pc = "prompt"
          /\ wp = NULL
          /\ UNCHANGED <<watch_value, env, args>>
      BY <1>1, <2>2 DEF cmd_w, LocalsOK
    <3>2. /\ free_ \in Pool \ Active
          /\ head' = free_ /\ head' \in Ptr /\ free_' \in Ptr
          /\ next' \in [Pool -> Ptr]
          /\ Active' = Active \cup {free_}
          /\ WellFormed(head', free_', next')
      BY <2>2, <3>1, NewStep
    <3>3. WTypeOK'
      BY <3>1, <3>2 DEF WTypeOK, PC
    <3>4. watch_expr \in [Pool -> Text \cup {NULL, Freed}]
      BY DEF WTypeOK
    <3>5. LiveText'
      BY <3>1, <3>2, <3>4, <1>0 DEF LiveText
    <3>6. ValuesInv'
      BY <3>1, <3>2, <3>4, <1>0 DEF ValuesInv
    <3> QED
      BY <3>1, <3>2, <3>3, <3>5, <3>6 DEF LocalsOK, NoListAssert
  <2> QED
    BY <2>1, <2>2
<1>2. CASE cmd_w_no_args
  <2>1. UNCHANGED <<pool, watch_expr, watch_value, env, wp, args>> /\ pc' = "segfault"
    BY <1>2 DEF cmd_w_no_args
  <2>2. WTypeOK'
    BY <2>1 DEF WTypeOK, pool, PC
  <2> QED
    BY <2>1, <2>2, <1>2, <1>a
       DEF cmd_w_no_args, LocalsOK, LiveText, ValuesInv, NoListAssert
<1>3. CASE cmd_w_value
  <2>1. /\ UNCHANGED <<pool, watch_expr, env, args>>
        /\ pc = "w" /\ pc' = "prompt" /\ wp' = NULL
        /\ watch_expr[wp] \in Expr /\ env[watch_expr[wp]] # Fault
        /\ watch_value' = [watch_value EXCEPT ![wp] = env[watch_expr[wp]]]
    BY <1>3 DEF cmd_w_value
  <2>2. wp \in Pool
    BY <2>1 DEF LocalsOK
  <2>3. env[watch_expr[wp]] \in Value
    BY <2>1 DEF WTypeOK
  <2>4. WTypeOK'
    BY <2>1, <2>3 DEF WTypeOK, pool, PC, Ptr
  <2>5. LiveText'
    BY <2>1, <2>2, <1>0, <1>a DEF LiveText
  <2>6. ValuesInv'
    BY <2>1, <2>2, <1>0, <1>a DEF ValuesInv, WTypeOK
  <2> QED
    BY <2>1, <2>4, <2>5, <2>6, <1>a DEF LocalsOK, NoListAssert
<1>4. CASE cmd_w_bad
  <2>1. pc = "w" /\ wp = head /\ wp \in Pool /\ head \in Ptr /\ next \in [Pool -> Ptr]
    BY <1>4 DEF cmd_w_bad, LocalsOK, WTypeOK
  <2>2. wp \in Active
    BY <2>1, <1>0, ReachClosed DEF Closed, Active
  <2>3. ~ free_wp_not_found(wp)
    BY <2>2, SearchFinds
  <2>4. /\ free_wp(wp) /\ wp' = NULL /\ pc' = "exited"
        /\ UNCHANGED <<env, args>>
        /\ watch_expr' = [watch_expr EXCEPT ![wp] = Freed]
        /\ watch_value' = [watch_value EXCEPT ![wp] = 0]
    BY <1>4, <2>3 DEF cmd_w_bad, free_wp
  <2>5. /\ head' \in Ptr /\ free_' \in Ptr
        /\ next' \in [Pool -> Ptr]
        /\ Active' = Active \ {wp}
        /\ WellFormed(head', free_', next')
    BY <2>2, <2>4, FreeStep
  <2>6. WTypeOK'
    BY <2>1, <2>4, <2>5, ValueAssumption DEF WTypeOK, PC, Ptr
  <2>7. LiveText'
    BY <2>1, <2>4, <2>5, <1>0 DEF LiveText, WTypeOK
  <2> QED
    BY <2>4, <2>5, <2>6, <2>7 DEF LocalsOK, ValuesInv, NoListAssert
<1>5. CASE cmd_w_assert
  <2>1. UNCHANGED <<pool, watch_expr, watch_value, env, wp, args>> /\ pc' = "assert_expr"
    BY <1>5 DEF cmd_w_assert
  <2>2. WTypeOK'
    BY <2>1 DEF WTypeOK, pool, PC
  <2> QED
    BY <2>1, <2>2, <1>a DEF LocalsOK, LiveText, ValuesInv, NoListAssert
<1>6. ASSUME NEW nos \in ArgLists, cmd_d(nos)
      PROVE  WInv'
  <2>1. /\ UNCHANGED <<pool, watch_expr, watch_value, env, wp>>
        /\ pc = "prompt" /\ pc' = (IF nos = <<>> THEN "exited" ELSE "d")
        /\ args' = nos
    BY <1>6 DEF cmd_d
  <2>2. nos \in Seq(0 .. NR_WP)
    <3>1. PICK k \in 0 .. MaxArgs : nos \in [1 .. k -> 0 .. NR_WP]
      BY DEF ArgLists
    <3>2. k \in Nat
      BY ArgsAssumption
    <3> QED
      BY <3>1, <3>2, SeqDef
  <2>3. WTypeOK'
    BY <2>1, <2>2 DEF WTypeOK, pool, PC
  <2>4. LocalsOK'
    BY <2>1 DEF LocalsOK
  <2> QED
    BY <2>1, <2>3, <2>4, <1>a DEF LiveText, ValuesInv, LocalsOK, NoListAssert
<1>7. CASE cmd_d_next
  <2> DEFINE p == no_to_wp(Head(args))
             after == IF Len(args) = 1 THEN "prompt" ELSE "d"
  <2>1. /\ pc = "d" /\ wp = NULL /\ args # <<>> /\ args \in Seq(0 .. NR_WP)
        /\ args' = Tail(args) /\ UNCHANGED <<env, wp>>
    BY <1>7 DEF cmd_d_next, LocalsOK, WTypeOK
  <2>2. args' \in Seq(0 .. NR_WP) /\ (Len(args) # 1 => args' # <<>>)
    <3>1. Tail(args) \in Seq(0 .. NR_WP)
      BY <2>1
    <3>2. Len(Tail(args)) = Len(args) - 1 /\ Len(args) \in Nat
      BY <2>1
    <3>3. Tail(args) = <<>> => Len(args) = 1
      <4>1. Tail(args) = <<>> => Len(Tail(args)) = 0
        BY <3>1, EmptySeq
      <4> QED
        BY <4>1, <3>2
    <3> QED
      BY <2>1, <3>1, <3>3
  <2>3. CASE p = NULL
    <3>1. UNCHANGED <<pool, watch_expr, watch_value>> /\ pc' = after
      BY <1>7, <2>3 DEF cmd_d_next
    <3>2. WTypeOK'
      BY <2>1, <2>2, <3>1 DEF WTypeOK, pool, PC
    <3> QED
      BY <2>1, <2>2, <3>1, <3>2, <1>a
         DEF LocalsOK, LiveText, ValuesInv, NoListAssert
  <2>4. CASE p # NULL
    <3>1. p \in Active
      BY <2>4 DEF no_to_wp
    <3>2. ~ free_wp_not_found(p)
      BY <3>1, SearchFinds
    <3> HIDE DEF p
    <3>3. /\ free_wp(p) /\ pc' = after
          /\ watch_expr' = [watch_expr EXCEPT ![p] = Freed]
          /\ watch_value' = [watch_value EXCEPT ![p] = 0]
      BY <1>7, <2>4, <3>2 DEF cmd_d_next, free_wp, p
    <3>4. /\ head' \in Ptr /\ free_' \in Ptr
          /\ next' \in [Pool -> Ptr]
          /\ Active' = Active \ {p}
          /\ WellFormed(head', free_', next')
      BY <3>1, <3>3, FreeStep
    <3>5. WTypeOK'
      BY <2>1, <2>2, <3>3, <3>4, ValueAssumption DEF WTypeOK, PC, Ptr
    <3>6. LiveText'
      BY <2>1, <3>3, <3>4, <1>0 DEF LiveText, WTypeOK
    <3>7. ValuesInv'
      BY <2>1, <3>3, <3>4, <1>0 DEF ValuesInv, WTypeOK
    <3> QED
      BY <2>1, <2>2, <3>3, <3>4, <3>5, <3>6, <3>7 DEF LocalsOK, NoListAssert
  <2> QED
    BY <2>3, <2>4
<1>8. CASE exec_once
  <2>1. /\ UNCHANGED <<pool, watch_expr, watch_value, wp, args>>
        /\ pc = "prompt" /\ pc' = "check"
        /\ env' \in [Expr -> Value \cup {Fault}]
    BY <1>8 DEF exec_once
  <2>2. WTypeOK'
    BY <2>1 DEF WTypeOK, pool, PC
  <2> QED
    BY <2>1, <2>2, <1>a DEF LocalsOK, LiveText, ValuesInv, NoListAssert
<1>9. CASE check_wp_changed
  <2>1. UNCHANGED <<pool, watch_expr, env, wp, args>> /\ pc = "check" /\ wp = NULL
    BY <1>9 DEF check_wp_changed, LocalsOK
  <2>2. CASE \E p \in Active : env[watch_expr[p]] = Fault
    <3>1. UNCHANGED watch_value /\ pc' = "assert_expr"
      BY <1>9, <2>2 DEF check_wp_changed
    <3>2. WTypeOK'
      BY <2>1, <3>1 DEF WTypeOK, pool, PC
    <3> QED
      BY <2>1, <3>1, <3>2, <1>a DEF LocalsOK, LiveText, ValuesInv, NoListAssert
  <2>3. CASE \A p \in Active : env[watch_expr[p]] # Fault
    <3>1. watch_value' = Checked /\ pc' \in {"stopped", "prompt"}
      BY <1>9, <2>3 DEF check_wp_changed
    <3>2. \A p \in Active : watch_expr[p] \in Expr /\ env[watch_expr[p]] \in Value
      BY <2>1, <2>3, <1>0 DEF WTypeOK
    <3>3. watch_value' \in [Pool -> Value]
      BY <3>1, <3>2 DEF Checked, Changed, WTypeOK
    <3>4. WTypeOK'
      BY <2>1, <3>1, <3>3 DEF WTypeOK, pool, PC
    <3>5. \A p \in Active : watch_value'[p] = env[watch_expr[p]]
      BY <3>1, <1>0 DEF Checked, Changed
    <3>6. ValuesInv'
      BY <2>1, <3>5, <1>a DEF ValuesInv
    <3> QED
      BY <2>1, <3>1, <3>4, <3>6, <1>a DEF LocalsOK, LiveText, NoListAssert
  <2> QED
    BY <2>2, <2>3
<1>10. CASE resume
  <2>1. /\ UNCHANGED <<pool, watch_expr, watch_value, env, wp, args>>
        /\ pc = "stopped" /\ pc' = "prompt"
    BY <1>10 DEF resume
  <2>2. WTypeOK'
    BY <2>1 DEF WTypeOK, pool, PC
  <2> QED
    BY <2>1, <2>2, <1>a DEF LocalsOK, LiveText, ValuesInv, NoListAssert
<1>11. CASE UNCHANGED wvars
  <2>1. UNCHANGED <<pool, watch_expr, watch_value, env, pc, wp, args>>
    BY <1>11 DEF wvars, pool
  <2>2. WTypeOK'
    BY <2>1 DEF WTypeOK, pool
  <2> QED
    BY <2>1, <2>2, <1>a DEF pool, LocalsOK, LiveText, ValuesInv, NoListAssert
<1> QED
  BY <1>1, <1>2, <1>3, <1>4, <1>5, <1>6, <1>7, <1>8, <1>9, <1>10, <1>11
     DEF WNext

\* The invariant holds in every reachable state, whatever the pool size.
THEOREM WatchpointInvariant == WSpec => []WInv
<1>1. WInit => WInv
  BY WInitInv
<1>2. WInv /\ [WNext]_wvars => WInv'
  BY WStepInv
<1> QED
  BY <1>1, <1>2, PTL DEF WSpec

\* Pointers, texts and values keep their types under every command.
THEOREM WatchpointTypes == WSpec => []WTypeOK
<1>1. WInv => WTypeOK
  BY DEF WInv
<1> QED
  BY <1>1, WatchpointInvariant, PTL

\* Every slot of wp_pool stays on exactly one of the lists head and free_.
THEOREM WatchpointPartition == WSpec => []PoolPartition
<1>1. WInv => PoolPartition
  BY DEF WInv, WellFormed, PoolPartition, Active, Free
<1> QED
  BY <1>1, WatchpointInvariant, PTL

\* The two lists never become cyclic or shared, so every walk terminates.
THEOREM WatchpointLists == WSpec => []ListsSound
<1>1. WInv => ListsSound
  BY DEF WInv, WellFormed, ListsSound, Acyclic, NoSharing
<1> QED
  BY <1>1, WatchpointInvariant, PTL

\* The assertion "Free WP is not exist. Fix the bug!" of free_wp never fails.
THEOREM WatchpointNoListAssert == WSpec => []NoListAssert
<1>1. WInv => NoListAssert
  BY DEF WInv
<1> QED
  BY <1>1, WatchpointInvariant, PTL

\* Between commands every watchpoint has a live, well-formed text and the
\* current value of its expression.
THEOREM WatchpointValues == WSpec => []ValuesCurrent
<1>1. WInv => ValuesCurrent
  <2> SUFFICES ASSUME WInv, pc \in {"prompt", "stopped", "d"},
                      NEW p \in Active
               PROVE  watch_expr[p] \in Expr /\ watch_value[p] = env[watch_expr[p]]
    BY DEF ValuesCurrent
  <2>1. wp = NULL /\ p # NULL
    BY NullAssumption DEF WInv, LocalsOK, Active, Reach
  <2> QED
    BY <2>1 DEF WInv, LiveText, ValuesInv
<1> QED
  BY <1>1, WatchpointInvariant, PTL

-----------------------------------------------------------------------------
(* The refinement of WatchSet.                                             *)

\* What a user of the pool sees of a list that is empty.
LEMMA EmptyList ==
  ASSUME NEW nxt
  PROVE  Reach(NULL, nxt) = {}
<1>1. Closed({}, NULL, nxt) /\ {} \in SUBSET Pool
  BY DEF Closed
<1> QED
  BY <1>1, ReachLeast

\* Where the mapped watchpoints do not change, neither does the mapped function.
LEMMA SameWatch ==
  ASSUME (Active \ {wp})' = Active \ {wp},
         \A p \in Active \ {wp} : watch_expr'[p] = watch_expr[p] /\ watch_value'[p] = watch_value[p]
  PROVE  watch' = watch
BY DEF watch

\* Every step of the pool and its callers is a step of the set of watchpoints,
\* or one that the user does not see.
LEMMA RefinementStep ==
  ASSUME WInv, [WNext]_wvars
  PROVE  [Abs!Next]_(Abs!wsvars)
<1>0. /\ Active \in SUBSET Pool
      /\ NULL \notin Pool
      /\ watch_expr \in [Pool -> Text \cup {NULL, Freed}]
      /\ watch_value \in [Pool -> Value]
      /\ env \in [Expr -> Value \cup {Fault}]
      /\ \A p \in Active : watch_expr[p] \in (IF p = wp THEN Text ELSE Expr)
      /\ DOMAIN watch = Active \ {wp}
  BY NullAssumption DEF Active, Reach, LiveText, WInv, WTypeOK, watch
<1>a. ASSUME UNCHANGED <<pool, watch_expr, watch_value, wp>>
      PROVE  watch' = watch
  <2>1. Active' = Active
    BY <1>a DEF Active, pool
  <2> QED
    BY <1>a, <2>1, SameWatch
<1>b. \A p \in Active \ {wp} :
         watch[p] = [expr |-> watch_expr[p], value |-> watch_value[p]]
  BY DEF watch
<1>1. ASSUME NEW e \in Text, cmd_w(e)
      PROVE  [Abs!Next]_(Abs!wsvars)
  <2>1. pc = "prompt" /\ wp = NULL /\ st = "prompt" /\ env' = env
    BY <1>1 DEF cmd_w, WInv, LocalsOK, st
  <2>2. CASE free_ = NULL
    <3>1. UNCHANGED <<pool, watch_expr, watch_value, wp>> /\ pc' = "assert_pool"
      BY <1>1, <2>2 DEF cmd_w
    <3>2. Active = Pool
      BY <2>2, EmptyList DEF WInv, WellFormed, Active
    <3>3. Abs!InUse = Pool
      BY <3>2, <2>1, <1>0 DEF Abs!InUse
    <3>4. st' = "assert" /\ watch' = watch
      BY <3>1, <1>a DEF st
    <3>5. Abs!Assert
      BY <2>1, <3>3, <3>4 DEF Abs!Assert
    <3> QED
      BY <3>5 DEF Abs!Next
  <2>3. CASE free_ # NULL
    <3>1. /\ new_wp /\ wp' = free_ /\ pc' = "w"
          /\ watch_expr' = [watch_expr EXCEPT ![free_] = e]
          /\ watch_value' = watch_value
      BY <1>1, <2>3 DEF cmd_w
    <3>2. free_ \in Pool \ Active /\ Active' = Active \cup {free_}
      BY <2>3, <3>1, NewStep DEF WInv
    <3>3. (Active \ {wp})' = Active \ {wp}
      BY <2>1, <3>1, <3>2, <1>0
    <3>4. watch' = watch
      BY <3>1, <3>2, <3>3, <1>0, SameWatch
    <3>5. st' = st
      BY <2>1, <3>1 DEF st
    <3> QED
      BY <2>1, <3>4, <3>5 DEF Abs!wsvars
  <2> QED
    BY <2>2, <2>3
<1>2. CASE cmd_w_no_args
  <2>1. st = "prompt" /\ st' = "segfault" /\ watch' = watch /\ env' = env
    BY <1>2, <1>a DEF cmd_w_no_args, st
  <2>2. Abs!Leave
    BY <2>1 DEF Abs!Leave
  <2> QED
    BY <2>2 DEF Abs!Next
<1>3. CASE cmd_w_value
  <2> DEFINE e == watch_expr[wp]
  <2>1. /\ wp \in Pool /\ wp = head /\ wp' = NULL
        /\ e \in Expr /\ env[e] # Fault
        /\ UNCHANGED <<pool, watch_expr, env>>
        /\ watch_value' = [watch_value EXCEPT ![wp] = env[e]]
        /\ st = "prompt" /\ st' = "prompt"
    BY <1>3 DEF cmd_w_value, WInv, LocalsOK, st
  <2>2. wp \in Active /\ Active' = Active
    BY <2>1, <1>0, ReachClosed DEF WInv, WTypeOK, Closed, Active, pool
  <2>3. DOMAIN watch' = Active
    BY <2>1, <2>2, <1>0 DEF watch
  <2>4. watch' = Abs!With(watch, wp, [expr |-> e, value |-> env[e]])
    <3>1. watch' = [p \in Active |->
                      [expr |-> watch_expr[p], value |-> watch_value'[p]]]
      BY <2>1, <2>2, <1>0 DEF watch
    <3>2. Active = DOMAIN watch \cup {wp}
      BY <2>2, <1>0
    <3> QED
      BY <2>1, <2>2, <3>1, <3>2, <1>0, <1>b DEF Abs!With
  <2>5. wp \in Pool \ Abs!InUse
    BY <2>1, <1>0 DEF Abs!InUse
  <2>6. Abs!Add(e)
    BY <2>1, <2>4, <2>5 DEF Abs!Add
  <2> QED
    BY <2>1, <2>6 DEF Abs!Next
<1>4. CASE cmd_w_bad
  <2>1. pc = "w" /\ wp \in Pool /\ wp = head /\ st = "prompt"
    BY <1>4 DEF cmd_w_bad, WInv, LocalsOK, st
  <2>2. wp \in Active
    BY <2>1, <1>0, ReachClosed DEF WInv, WTypeOK, Closed, Active
  <2>3. ~ free_wp_not_found(wp)
    BY <2>2, SearchFinds DEF WInv
  <2>4. /\ free_wp(wp) /\ wp' = NULL /\ pc' = "exited" /\ env' = env
        /\ watch_expr' = [watch_expr EXCEPT ![wp] = Freed]
        /\ watch_value' = [watch_value EXCEPT ![wp] = 0]
    BY <1>4, <2>3 DEF cmd_w_bad, free_wp
  <2>5. Active' = Active \ {wp}
    BY <2>2, <2>4, FreeStep DEF WInv
  <2>6. watch' = watch
    BY <2>4, <2>5, <1>0, SameWatch
  <2>7. Abs!Leave
    BY <2>1, <2>4, <2>6 DEF Abs!Leave, st
  <2> QED
    BY <2>7 DEF Abs!Next
<1>5. CASE cmd_w_assert
  <2>1. st = "prompt" /\ st' = "assert" /\ watch' = watch /\ env' = env
    BY <1>5, <1>a DEF cmd_w_assert, st
  <2>2. Abs!Assert
    BY <1>5, <2>1 DEF cmd_w_assert, Abs!Assert
  <2> QED
    BY <2>2 DEF Abs!Next
<1>6. ASSUME NEW nos \in ArgLists, cmd_d(nos)
      PROVE  [Abs!Next]_(Abs!wsvars)
  <2>1. st = "prompt" /\ st' \in {"prompt", "exited"} /\ watch' = watch /\ env' = env
    BY <1>6, <1>a DEF cmd_d, st
  <2>2. CASE st' = "exited"
    BY <2>1, <2>2 DEF Abs!Leave, Abs!Next
  <2>3. CASE st' = "prompt"
    BY <2>1, <2>3 DEF Abs!wsvars
  <2> QED
    BY <2>1, <2>2, <2>3
<1>7. CASE cmd_d_next
  <2> DEFINE p == no_to_wp(Head(args))
  <2>1. pc = "d" /\ wp = NULL /\ wp' = NULL /\ env' = env /\ st = "prompt"
    BY <1>7 DEF cmd_d_next, WInv, LocalsOK, st
  <2>2. CASE p = NULL
    <3>1. UNCHANGED <<pool, watch_expr, watch_value, wp>> /\ pc' \in {"prompt", "d"}
      BY <1>7, <2>2 DEF cmd_d_next
    <3>2. watch' = watch /\ st' = "prompt"
      BY <3>1, <1>a DEF st
    <3> QED
      BY <2>1, <3>2 DEF Abs!wsvars
  <2>3. CASE p # NULL
    <3>1. p \in Active
      BY <2>3 DEF no_to_wp
    <3>2. ~ free_wp_not_found(p)
      BY <3>1, SearchFinds DEF WInv
    <3> HIDE DEF p
    <3>3. /\ free_wp(p) /\ pc' \in {"prompt", "d"}
          /\ watch_expr' = [watch_expr EXCEPT ![p] = Freed]
          /\ watch_value' = [watch_value EXCEPT ![p] = 0]
      BY <1>7, <2>3, <3>2 DEF cmd_d_next, free_wp, p
    <3>4. Active' = Active \ {p}
      BY <3>1, <3>3, FreeStep DEF WInv
    <3>5. watch' = Abs!Without(watch, p)
      <4>1. watch' = [q \in Active \ {p} |->
                        [expr |-> watch_expr[q], value |-> watch_value[q]]]
        BY <2>1, <3>3, <3>4, <1>0 DEF watch
      <4>2. DOMAIN watch = Active
        BY <2>1, <1>0
      <4> QED
        BY <2>1, <4>1, <4>2, <1>0, <1>b DEF Abs!Without
    <3>6. Abs!Remove(p)
      BY <2>1, <3>3, <3>5 DEF Abs!Remove, st
    <3> QED
      BY <3>1, <3>6, <1>0 DEF Abs!Next
  <2> QED
    BY <2>2, <2>3
<1>8. CASE exec_once
  <2>1. /\ st = "prompt" /\ st' = "check" /\ watch' = watch
        /\ env' \in [Expr -> Value \cup {Fault}]
    BY <1>8, <1>a DEF exec_once, st
  <2>2. Abs!Execute
    BY <2>1 DEF Abs!Execute
  <2> QED
    BY <2>2 DEF Abs!Next
<1>9. CASE check_wp_changed
  <2>1. /\ UNCHANGED <<pool, watch_expr, env, wp>> /\ pc = "check" /\ wp = NULL
        /\ st = "check"
    BY <1>9 DEF check_wp_changed, WInv, LocalsOK, st
  <2>2. /\ DOMAIN watch = Active /\ Active' = Active
        /\ \A p \in Active : watch[p] = [expr |-> watch_expr[p], value |-> watch_value[p]]
    BY <2>1, <1>0, <1>b DEF Active, pool
  <2>3. CASE \E p \in Active : env[watch_expr[p]] = Fault
    <3>1. UNCHANGED watch_value /\ pc' = "assert_expr"
      BY <1>9, <2>3 DEF check_wp_changed
    <3>2. st' = "assert" /\ watch' = watch
      BY <2>1, <3>1, <1>a DEF st
    <3>3. Abs!Assert
      BY <2>1, <2>2, <2>3, <3>2 DEF Abs!Assert, Abs!InUse
    <3> QED
      BY <3>3 DEF Abs!Next
  <2>4. CASE \A p \in Active : env[watch_expr[p]] # Fault
    <3>1. watch_value' = Checked /\ pc' = IF Changed # {} THEN "stopped" ELSE "prompt"
      BY <1>9, <2>4 DEF check_wp_changed
    <3>2. \A p \in Active : watch_value'[p] = env[watch_expr[p]]
      BY <3>1, <1>0 DEF Checked, Changed
    <3>3. Abs!Hit = Changed
      BY <2>2 DEF Abs!Hit, Abs!InUse, Changed
    <3>4. watch' = [p \in Active |->
                      [expr |-> watch_expr[p], value |-> env[watch_expr[p]]]]
      BY <2>1, <2>2, <3>2, <1>0 DEF watch
    <3>5. watch' = [p \in Abs!InUse |->
                      [expr |-> watch[p].expr, value |-> env[watch[p].expr]]]
      BY <2>2, <3>4 DEF Abs!InUse
    <3>6. st' = IF Abs!Hit # {} THEN "stopped" ELSE "prompt"
      BY <3>1, <3>3 DEF st
    <3>7. \A p \in Abs!InUse : env[watch[p].expr] # Fault
      BY <2>2, <2>4 DEF Abs!InUse
    <3>8. Abs!Check
      BY <2>1, <3>5, <3>6, <3>7 DEF Abs!Check
    <3> QED
      BY <3>8 DEF Abs!Next
  <2> QED
    BY <2>3, <2>4
<1>10. CASE resume
  <2>1. st = "stopped" /\ st' = "prompt" /\ watch' = watch /\ env' = env
    BY <1>10, <1>a DEF resume, st
  <2>2. Abs!Resume
    BY <2>1 DEF Abs!Resume
  <2> QED
    BY <2>2 DEF Abs!Next
<1>11. CASE UNCHANGED wvars
  <2>1. watch' = watch /\ env' = env /\ st' = st
    BY <1>11, <1>a DEF wvars, pool, st
  <2> QED
    BY <2>1 DEF Abs!wsvars
<1> QED
  BY <1>1, <1>2, <1>3, <1>4, <1>5, <1>6, <1>7, <1>8, <1>9, <1>10, <1>11
     DEF WNext

\* The linked lists of watchpoint.c implement the bounded set of watchpoints,
\* for every pool size: "No free WP!" fails only with NR_WP watchpoints set, and
\* d and a failed w disturb no other watchpoint.
THEOREM WatchpointRefines == WSpec => ImplementsWatchSet
<1>1. WInit => Abs!Init
  <2> SUFFICES ASSUME WInit PROVE Abs!Init
    OBVIOUS
  <2>1. Active = {}
    BY InitLists DEF WInit, init_wp_pool, Active
  <2>2. watch = [n \in {} |-> 0]
    BY <2>1 DEF watch
  <2> QED
    BY <2>2 DEF WInit, Abs!Init, st
<1>2. WInv /\ [WNext]_wvars => [Abs!Next]_(Abs!wsvars)
  BY RefinementStep
<1> QED
  BY <1>1, <1>2, WatchpointInvariant, PTL DEF WSpec, ImplementsWatchSet, Abs!Spec

=============================================================================
