--------------------------- MODULE Neighb_proofs ---------------------------
(***************************************************************************)
(* The neighbour lists, for any number of ports, interfaces, nodes and     *)
(* neighbours and any bounds: whichever nodes are purged, refreshed and    *)
(* appended, in whatever order, the lists stay doubly linked over nodes in *)
(* use, ageing reads no freed node, and they implement NeighbTable.        *)
(*                                                                         *)
(* The pointers are related to sequences: Holds(d, ch, R) says that the    *)
(* lists of database d are the sequences ch, and that their nodes tell     *)
(* just what R knows of each neighbour.  Each operation of the code is     *)
(* shown to take a database that holds to one that holds, with what the    *)
(* abstract table does to R.                                               *)
(***************************************************************************)
EXTENDS NeighbDB, FiniteSetTheorems, SequenceTheorems, WellFoundedInduction, TLAPS

Record == [port : Ports, ttl : 0..UpdateTTL]

\* A database, whatever its pointers say.
Database ==
  [first : [Ports -> Pointers], tail : [Ports -> Pointers], total : [Ports -> Nat],
   pre : [Nodes -> Pointers], next : [Nodes -> Pointers],
   mac : [Nodes -> Macs \cup {Zero}], ttl : [Nodes -> 0..UpdateTTL],
   heap : SUBSET Nodes, uaf : BOOLEAN, stale : BOOLEAN]

\* The node at place k of a list, NULL beyond its ends.
At(c, k) == IF k \in 1..Len(c) THEN c[k] ELSE NULL

\* The lists of d are the sequences ch, doubly linked over nodes in use.
Linked(d, ch) ==
  /\ d \in Database
  /\ ch \in [Ports -> Seq(Nodes)]
  /\ \A l \in Ports : /\ d.first[l] = At(ch[l], 1)
                      /\ d.tail[l] = At(ch[l], Len(ch[l]))
                      /\ d.total[l] = Len(ch[l])
                      /\ Len(ch[l]) <= MaxEntry + 1
  /\ \A l \in Ports : \A k \in 1..Len(ch[l]) :
       /\ d.pre[ch[l][k]] = At(ch[l], k - 1)
       /\ d.next[ch[l][k]] = At(ch[l], k + 1)
       /\ ch[l][k] \in d.heap

\* The nodes hold one record for each neighbour that R knows, and no other.
Tells(d, ch, R) ==
  /\ R \in [Macs -> Record \cup {NULL}]
  /\ \A l \in Ports : \A k \in 1..Len(ch[l]) :
       /\ d.mac[ch[l][k]] \in Macs
       /\ R[d.mac[ch[l][k]]] = [port |-> l, ttl |-> d.ttl[ch[l][k]]]
       /\ \A j \in 1..Len(ch[l]) : d.mac[ch[l][j]] = d.mac[ch[l][k]] => j = k
  /\ \A m \in Macs : R[m] # NULL =>
       \E k \in 1..Len(ch[R[m].port]) : d.mac[ch[R[m].port][k]] = m

Holds(d, ch, R) == Linked(d, ch) /\ Tells(d, ch, R) /\ d.uaf = FALSE

-----------------------------------------------------------------------------
(* Recursion on the naturals. *)

\* Of some naturals one is the least.
LEMMA LeastOf ==
  ASSUME NEW I \in SUBSET Nat, I # {}
  PROVE  \E x \in I : \A y \in I : x <= y
<1> DEFINE Less == {p \in Nat \X Nat : p[1] < p[2]}
<1>1. IsWellFoundedOn(Less, Nat)
  BY NatLessThanWellFounded, Zenon DEF OpToRel
<1> HIDE DEF Less
<1>2. PICK x \in I : \A y \in I : <<y, x>> \notin Less
  BY <1>1, WFMin
<1>3. ASSUME NEW y \in I PROVE x <= y
  <2>1. x \in Nat /\ y \in Nat /\ <<y, x>> \notin Less
    BY <1>2
  <2>2. ~(y < x)
    BY <2>1 DEF Less
  <2> QED
    BY <2>1, <2>2
<1> QED
  BY <1>3

\* What holds at first and is kept by each step holds at every step: In[k] is the
\* set of the values in which it holds of step k.
LEMMA Steps ==
  ASSUME NEW N \in Nat, NEW f, NEW In, f[0] \in In[0],
         \A k \in 1..N : f[k - 1] \in In[k - 1] => f[k] \in In[k]
  PROVE  \A k \in 0..N : f[k] \in In[k]
<1> DEFINE Bad == {k \in 0..N : f[k] \notin In[k]}
<1>1. SUFFICES ASSUME Bad # {} PROVE FALSE
  OBVIOUS
<1>2. PICK k \in Bad : \A j \in Bad : k <= j
  <2>1. Bad \in SUBSET Nat
    OBVIOUS
  <2> HIDE DEF Bad
  <2> QED
    BY <1>1, <2>1, LeastOf
<1>3. k \in 1..N
  OBVIOUS
<1>4. k - 1 \in 0..N /\ ~(k <= k - 1)
  BY <1>3
<1>5. f[k - 1] \in In[k - 1]
  BY <1>2, <1>4
<1> QED
  BY <1>3, <1>5

\* A function that starts with a and takes the step g[k] from k - 1 to k.
Runs(N, g, a, f) == f = [k \in 0..N |-> IF k = 0 THEN a ELSE g[k][f[k - 1]]]

\* There is one.
LEMMA RunsExist ==
  ASSUME NEW N \in Nat, NEW g, NEW a
  PROVE  \E f : Runs(N, g, a, f)
<1> DEFINE Bad == {k \in 0..N : ~ \E f : Runs(k, g, a, f)}
<1>1. SUFFICES ASSUME Bad # {} PROVE FALSE
  OBVIOUS
<1>2. PICK k \in Bad : \A j \in Bad : k <= j
  <2>1. Bad \in SUBSET Nat
    OBVIOUS
  <2> HIDE DEF Bad
  <2> QED
    BY <1>1, <2>1, LeastOf
<1>3. k # 0
  <2>1. 0 \in 0..0 /\ \A i \in 0..0 : i = 0
    OBVIOUS
  <2>2. Runs(0, g, a, [i \in 0..0 |-> a])
    BY <2>1 DEF Runs
  <2> QED
    BY <2>2
<1>4. k \in 1..N /\ k - 1 \in 0..N /\ k - 1 \notin Bad
  BY <1>2, <1>3
<1>5. PICK h : Runs(k - 1, g, a, h)
  BY <1>4
<1> DEFINE f == [i \in 0..k |-> IF i = 0 THEN a ELSE g[i][h[i - 1]]]
<1>6. \A i \in 0..(k - 1) : f[i] = h[i]
  <2>1. h = [i \in 0..(k - 1) |-> IF i = 0 THEN a ELSE g[i][h[i - 1]]]
    BY <1>5 DEF Runs
  <2>2. \A i \in 0..(k - 1) : i \in 0..k /\ h[i] = IF i = 0 THEN a ELSE g[i][h[i - 1]]
    BY <2>1, <1>4
  <2> QED
    BY <2>2
<1>7. f = [i \in 0..k |-> IF i = 0 THEN a ELSE g[i][f[i - 1]]]
  <2>1. \A i \in 0..k : i # 0 => i - 1 \in 0..(k - 1)
    BY <1>4
  <2>2. \A i \in 0..k : (IF i = 0 THEN a ELSE g[i][h[i - 1]]) = (IF i = 0 THEN a ELSE g[i][f[i - 1]])
    BY <1>6, <2>1
  <2> HIDE DEF f
  <2> QED
    BY <2>2 DEF f
<1> HIDE DEF f
<1>8. Runs(k, g, a, f)
  BY <1>7 DEF Runs
<1> QED
  BY <1>8

-----------------------------------------------------------------------------
(* The lists. *)

\* No node is at two places.
LEMMA Apart ==
  ASSUME NEW d, NEW ch, NEW R, Holds(d, ch, R),
         NEW l \in Ports, NEW k \in 1..Len(ch[l]), NEW i \in Ports, NEW j \in 1..Len(ch[i]),
         d.mac[ch[l][k]] = d.mac[ch[i][j]]
  PROVE  i = l /\ j = k
<1>1. R[d.mac[ch[l][k]]] = [port |-> l, ttl |-> d.ttl[ch[l][k]]]
  BY DEF Holds, Tells
<1>2. R[d.mac[ch[i][j]]] = [port |-> i, ttl |-> d.ttl[ch[i][j]]]
  BY DEF Holds, Tells
<1>3. i = l
  <2>1. [port |-> l, ttl |-> d.ttl[ch[l][k]]].port = [port |-> i, ttl |-> d.ttl[ch[i][j]]].port
    BY <1>1, <1>2
  <2> QED
    BY <2>1
<1> QED
  BY <1>3 DEF Holds, Tells

\* A list is no longer than there are nodes.
LEMMA ShortLists ==
  ASSUME NEW d, NEW ch, NEW R, Holds(d, ch, R), NEW l \in Ports
  PROVE  Len(ch[l]) <= Cardinality(Nodes) /\ Len(ch[l]) \in Nat /\ Cardinality(Nodes) \in Nat
<1>1. ch[l] \in Seq(Nodes) /\ Len(ch[l]) \in Nat
  BY DEF Holds, Linked
<1>2. ch[l] \in [1..Len(ch[l]) -> Nodes]
  BY <1>1
<1>3. \A k, j \in 1..Len(ch[l]) : ch[l][k] = ch[l][j] => j = k
  BY Apart
<1>4. ch[l] \in Injection(1..Len(ch[l]), Nodes)
  BY <1>2, <1>3 DEF Injection, IsInjective
<1>5. IsFiniteSet(Nodes)
  BY NeighbDBAssumption
<1>6. Cardinality(1..Len(ch[l])) <= Cardinality(Nodes)
  BY <1>4, <1>5, FS_Injection
<1>7. Cardinality(1..Len(ch[l])) = Len(ch[l])
  BY <1>1, FS_Interval
<1> QED
  BY <1>1, <1>5, <1>6, <1>7, FS_CardinalityType

\* The walk through the next pointers gives the list.
LEMMA ChainIs ==
  ASSUME NEW d, NEW ch, NEW R, Holds(d, ch, R), NEW l \in Ports
  PROVE  Chain(d, l) = ch[l]
<1> DEFINE N == Cardinality(Nodes)
           c == ch[l]
           W(f) == f = [k \in 1..N |-> IF k = 1 THEN d.first[l]
                                       ELSE LET n == f[k - 1]
                                            IN  IF n = NULL THEN NULL ELSE d.next[n]]
           at == CHOOSE f : W(f)
           seen == {k \in DOMAIN at : at[k] # NULL}
<1>0. N \in Nat /\ Len(c) \in Nat /\ Len(c) <= N /\ c \in Seq(Nodes)
  BY ShortLists DEF Holds, Linked
<1>1. Chain(d, l) = SubSeq(at, 1, Cardinality(seen))
  BY Zenon DEF Chain
<1>l. /\ d.first[l] = At(c, 1)
      /\ \A k \in 1..Len(c) : d.next[c[k]] = At(c, k + 1)
  BY DEF Holds, Linked
<1>n. \A k \in 1..Len(c) : c[k] # NULL
  BY <1>0, NeighbDBAssumption
<1>2. \A k \in 1..N : k # 1 => At(c, k) = IF At(c, k - 1) = NULL THEN NULL ELSE d.next[At(c, k - 1)]
  <2> SUFFICES ASSUME NEW k \in 1..N, k # 1
               PROVE At(c, k) = IF At(c, k - 1) = NULL THEN NULL ELSE d.next[At(c, k - 1)]
    OBVIOUS
  <2>1. k - 1 >= 1 /\ k - 1 + 1 = k /\ k - 1 \in Int
    BY <1>0
  <2>2. CASE k - 1 \in 1..Len(c)
    <3>1. At(c, k - 1) = c[k - 1] /\ c[k - 1] # NULL
      BY <1>n, <2>2 DEF At
    <3>2. d.next[c[k - 1]] = At(c, k)
      BY <1>l, <2>1, <2>2
    <3> QED
      BY <3>1, <3>2
  <2>3. CASE k - 1 \notin 1..Len(c)
    BY <1>0, <2>1, <2>3 DEF At
  <2> QED
    BY <2>2, <2>3
<1> DEFINE g == [k \in 1..N |-> At(c, k)]
<1>3. W(g)
  <2>1. \A k \in 1..N : k # 1 => k - 1 \in 1..N
    BY <1>0
  <2>2. \A k \in 1..N : At(c, k) = IF k = 1 THEN d.first[l]
                                   ELSE LET n == g[k - 1]
                                        IN  IF n = NULL THEN NULL ELSE d.next[n]
    BY <1>2, <1>l, <2>1
  <2> HIDE DEF g
  <2>3. g = [k \in 1..N |-> IF k = 1 THEN d.first[l]
                            ELSE LET n == g[k - 1] IN IF n = NULL THEN NULL ELSE d.next[n]]
    BY <2>2 DEF g
  <2> QED
    BY <2>3
<1>4. W(at)
  <2> HIDE DEF g, W
  <2> QED
    BY <1>3, Zenon
<1>5. at = g
  <2> DEFINE Bad == {k \in 1..N : at[k] # g[k]}
  <2>1. DOMAIN at = 1..N /\ DOMAIN g = 1..N
    BY <1>4, Zenon
  <2>2. SUFFICES ASSUME Bad # {} PROVE FALSE
    <3>1. \A k \in 1..N : at[k] = g[k]
      BY <2>2
    <3>2. at = [k \in 1..N |-> at[k]]
      BY <1>4, Zenon
    <3> HIDE DEF at, g
    <3>3. at = [k \in 1..N |-> g[k]]
      BY <3>1, <3>2
    <3> QED
      BY <3>3 DEF g
  <2>3. PICK k \in Bad : \A j \in Bad : k <= j
    <3>1. Bad \in SUBSET Nat
      BY <1>0
    <3> HIDE DEF Bad
    <3> QED
      BY <2>2, <3>1, LeastOf
  <2>4. k \in 1..N
    OBVIOUS
  <2>5. at[k] = IF k = 1 THEN d.first[l]
                ELSE LET n == at[k - 1] IN IF n = NULL THEN NULL ELSE d.next[n]
    <3> HIDE DEF at
    <3> QED
      BY <1>4, <2>4
  <2>6. g[k] = IF k = 1 THEN d.first[l]
               ELSE LET n == g[k - 1] IN IF n = NULL THEN NULL ELSE d.next[n]
    <3> HIDE DEF g
    <3> QED
      BY <1>3, <2>4
  <2>7. k # 1
    BY <2>4, <2>5, <2>6
  <2>8. k - 1 \in 1..N /\ ~(k <= k - 1)
    BY <1>0, <2>4, <2>7
  <2>9. at[k - 1] = g[k - 1]
    BY <2>3, <2>8
  <2>10. at[k] = g[k]
    BY <2>5, <2>6, <2>7, <2>9
  <2> QED
    BY <2>10
<1> HIDE DEF at
<1>6. seen = 1..Len(c)
  <2>1. DOMAIN at = 1..N /\ \A k \in 1..N : at[k] = At(c, k)
    BY <1>5
  <2>2. \A k \in 1..N : At(c, k) # NULL <=> k \in 1..Len(c)
    BY <1>0, <1>n DEF At
  <2>3. 1..Len(c) \subseteq 1..N
    BY <1>0
  <2> QED
    BY <2>1, <2>2, <2>3
<1>7. Cardinality(seen) = Len(c)
  <2>1. \A n \in Nat : Cardinality(1..n) = n
    BY FS_Interval
  <2>2. Cardinality(1..Len(c)) = Len(c)
    BY <1>0, <2>1
  <2> HIDE DEF seen
  <2> QED
    BY <1>6, <2>2
<1>8. SubSeq(at, 1, Len(c)) = c
  <2>1. at \in Seq(Pointers)
    <3>1. \A k \in 1..N : At(c, k) \in Pointers
      BY <1>0 DEF At, Pointers
    <3>2. g \in [1..N -> Pointers]
      BY <3>1
    <3> QED
      BY <1>0, <1>5, <3>2
  <2>2. Len(at) = N /\ \A k \in 1..Len(c) : at[k] = c[k]
    <3>1. \A k \in 1..Len(c) : k \in 1..N
      BY <1>0
    <3>2. DOMAIN at = 1..N
      BY <1>5
    <3>3. \A k \in 1..Len(c) : at[k] = At(c, k)
      BY <1>5, <3>1
    <3> QED
      BY <1>0, <2>1, <3>2, <3>3 DEF At
  <2> HIDE DEF g
  <2> QED
    BY <1>0, <2>1, <2>2
<1> QED
  BY <1>1, <1>7, <1>8

\* r is d with the pre pointer of n set to v, if n is a node.
PreSet(r, d, n, v) ==
  /\ r \in Database
  /\ \A k \in Nodes : r.pre[k] = IF k = n THEN v ELSE d.pre[k]
  /\ r.first = d.first /\ r.tail = d.tail /\ r.total = d.total /\ r.next = d.next
  /\ r.mac = d.mac /\ r.ttl = d.ttl /\ r.heap = d.heap /\ r.uaf = d.uaf

\* An assignment through a pointer changes that field only, and none through NULL.
LEMMA SetPreIs ==
  ASSUME NEW d \in Database, NEW n \in Pointers, NEW v \in Pointers
  PROVE  PreSet(SetPre(d, n, v), d, n, v)
<1>1. CASE n = NULL
  BY <1>1, NeighbDBAssumption DEF SetPre, PreSet
<1>2. CASE n # NULL
  <2>1. n \in Nodes /\ SetPre(d, n, v) = [d EXCEPT !.pre[n] = v]
    BY <1>2 DEF SetPre, Pointers
  <2> QED
    BY <2>1 DEF Database, PreSet
<1> QED
  BY <1>1, <1>2

\* r is d with the next pointer of n set to v, if n is a node.
NextSet(r, d, n, v) ==
  /\ r \in Database
  /\ \A k \in Nodes : r.next[k] = IF k = n THEN v ELSE d.next[k]
  /\ r.first = d.first /\ r.tail = d.tail /\ r.total = d.total /\ r.pre = d.pre
  /\ r.mac = d.mac /\ r.ttl = d.ttl /\ r.heap = d.heap /\ r.uaf = d.uaf

\* The same of the next pointer.
LEMMA SetNextIs ==
  ASSUME NEW d \in Database, NEW n \in Pointers, NEW v \in Pointers
  PROVE  NextSet(SetNext(d, n, v), d, n, v)
<1>1. CASE n = NULL
  BY <1>1, NeighbDBAssumption DEF SetNext, NextSet
<1>2. CASE n # NULL
  <2>1. n \in Nodes /\ SetNext(d, n, v) = [d EXCEPT !.next[n] = v]
    BY <1>2 DEF SetNext, Pointers
  <2> QED
    BY <2>1 DEF Database, NextSet
<1> QED
  BY <1>1, <1>2

\* Unlink leads the pointers around a node that has a neighbour in its list.
LEMMA UnlinkIs ==
  ASSUME NEW d \in Database, NEW l \in Ports, NEW n \in Nodes,
         d.pre[n] = NULL <=> n = d.first[l], d.next[n] = NULL <=> n = d.tail[l],
         d.pre[n] # NULL \/ d.next[n] # NULL
  PROVE  LET r == Unlink(d, l, n) IN
         /\ r \in Database
         /\ \A i \in Ports : r.first[i] = IF i = l /\ d.pre[n] = NULL THEN d.next[n] ELSE d.first[i]
         /\ \A i \in Ports : r.tail[i] = IF i = l /\ d.next[n] = NULL THEN d.pre[n] ELSE d.tail[i]
         /\ \A k \in Nodes : r.pre[k] = IF k = d.next[n] THEN d.pre[n] ELSE d.pre[k]
         /\ \A k \in Nodes : r.next[k] = IF k = d.pre[n] THEN d.next[n] ELSE d.next[k]
         /\ r.total = d.total /\ r.mac = d.mac /\ r.ttl = d.ttl
         /\ r.heap = d.heap /\ r.uaf = d.uaf
<1> DEFINE p == d.pre[n]
           x == d.next[n]
           d0 == [d EXCEPT !.first[l] = x]
           d1 == IF n = d.first[l] THEN SetPre(d0, x, NULL) ELSE d
           d2 == IF p = d1.first[l] THEN SetPre(SetNext(d1, p, x), x, p) ELSE d1
           dt == [d2 EXCEPT !.tail[l] = p]
           d3 == IF n = d2.tail[l] THEN SetNext(dt, p, NULL) ELSE d2
           d4 == IF x = d3.tail[l] THEN SetNext(SetPre(d3, x, p), p, x) ELSE d3
           r == SetNext(SetPre(d4, x, p), p, x)
           Like(e) == /\ \A k \in Nodes : k # x => e.pre[k] = d.pre[k]
                      /\ \A k \in Nodes : k # p => e.next[k] = d.next[k]
                      /\ e.total = d.total /\ e.mac = d.mac /\ e.ttl = d.ttl
                      /\ e.heap = d.heap /\ e.uaf = d.uaf
<1>1. Unlink(d, l, n) = r
  BY DEF Unlink
<1>2. p \in Pointers /\ x \in Pointers /\ NULL \in Pointers /\ (p # NULL \/ x # NULL)
  BY DEF Database, Pointers
<1>3. /\ d0 \in Database /\ d0.first = [d.first EXCEPT ![l] = x] /\ d0.tail = d.tail
      /\ d0.pre = d.pre /\ d0.next = d.next /\ d0.total = d.total
      /\ d0.mac = d.mac /\ d0.ttl = d.ttl /\ d0.heap = d.heap /\ d0.uaf = d.uaf
  BY <1>2 DEF Database
<1> HIDE DEF d0
<1>4. /\ d1 \in Database /\ Like(d1) /\ d1.tail = d.tail
      /\ \A i \in Ports : d1.first[i] = IF i = l /\ p = NULL THEN x ELSE d.first[i]
  <2>1. CASE n = d.first[l]
    <3>1. d1 = SetPre(d0, x, NULL)
      BY <2>1
    <3>2. d0.first \in [Ports -> Pointers] /\ \A i \in Ports : d0.first[i] = IF i = l THEN x ELSE d.first[i]
      BY <1>3 DEF Database
    <3>3. PreSet(d1, d0, x, NULL)
      BY <1>2, <1>3, <3>1, SetPreIs
    <3>4. p = NULL
      BY <2>1
    <3> HIDE DEF d1
    <3>5. Like(d1) /\ d1 \in Database
      BY <1>3, <3>3 DEF PreSet
    <3> HIDE DEF Like
    <3> QED
      BY <1>3, <3>2, <3>3, <3>4, <3>5 DEF PreSet
  <2>2. CASE n # d.first[l]
    BY <2>2
  <2> QED
    BY <2>1, <2>2
<1> HIDE DEF d1
<1>5. d2 \in Database /\ Like(d2) /\ d2.tail = d.tail /\ d2.first = d1.first
  <2> DEFINE e == SetNext(d1, p, x)
  <2>1. e \in Database /\ Like(e) /\ e.tail = d.tail /\ e.first = d1.first
    <3>1. NextSet(e, d1, p, x)
      BY <1>2, <1>4, SetNextIs
    <3> HIDE DEF e
    <3> QED
      BY <1>4, <3>1 DEF NextSet
  <2> HIDE DEF e
  <2>2. SetPre(e, x, p) \in Database /\ Like(SetPre(e, x, p))
        /\ SetPre(e, x, p).tail = d.tail /\ SetPre(e, x, p).first = d1.first
    <3>1. PreSet(SetPre(e, x, p), e, x, p)
      BY <1>2, <2>1, SetPreIs
    <3> QED
      BY <2>1, <3>1 DEF PreSet
  <2> QED
    BY <1>4, <2>2 DEF e
<1> HIDE DEF d2
<1>6. /\ dt \in Database /\ dt.tail = [d2.tail EXCEPT ![l] = p] /\ dt.first = d2.first
      /\ dt.pre = d2.pre /\ dt.next = d2.next /\ dt.total = d2.total
      /\ dt.mac = d2.mac /\ dt.ttl = d2.ttl /\ dt.heap = d2.heap /\ dt.uaf = d2.uaf
  BY <1>2, <1>5 DEF Database
<1> HIDE DEF dt
<1>7. /\ d3 \in Database /\ Like(d3) /\ d3.first = d1.first
      /\ \A i \in Ports : d3.tail[i] = IF i = l /\ x = NULL THEN p ELSE d.tail[i]
  <2>1. CASE n = d2.tail[l]
    <3>1. d3 = SetNext(dt, p, NULL)
      BY <2>1
    <3>2. x = NULL
      BY <2>1, <1>5
    <3>3. dt.tail \in [Ports -> Pointers] /\ \A i \in Ports : dt.tail[i] = IF i = l THEN p ELSE d.tail[i]
      BY <1>5, <1>6 DEF Database
    <3>4. NextSet(d3, dt, p, NULL)
      BY <1>2, <1>6, <3>1, SetNextIs
    <3> QED
      BY <1>2, <1>5, <1>6, <3>2, <3>3, <3>4 DEF NextSet
  <2>2. CASE n # d2.tail[l]
    BY <2>2, <1>5
  <2> QED
    BY <2>1, <2>2
<1> HIDE DEF d3
<1>8. d4 \in Database /\ Like(d4) /\ d4.tail = d3.tail /\ d4.first = d3.first
  <2> DEFINE e == SetPre(d3, x, p)
  <2>1. e \in Database /\ Like(e) /\ e.tail = d3.tail /\ e.first = d3.first
    <3>1. PreSet(e, d3, x, p)
      BY <1>2, <1>7, SetPreIs
    <3> HIDE DEF e
    <3> QED
      BY <1>7, <3>1 DEF PreSet
  <2> HIDE DEF e
  <2>2. SetNext(e, p, x) \in Database /\ Like(SetNext(e, p, x))
        /\ SetNext(e, p, x).tail = d3.tail /\ SetNext(e, p, x).first = d3.first
    <3>1. NextSet(SetNext(e, p, x), e, p, x)
      BY <1>2, <2>1, SetNextIs
    <3> QED
      BY <2>1, <3>1 DEF NextSet
  <2> QED
    BY <1>7, <2>2 DEF e
<1> HIDE DEF d4
<1>9. /\ r \in Database /\ r.tail = d3.tail /\ r.first = d3.first
      /\ \A k \in Nodes : r.pre[k] = IF k = x THEN p ELSE d.pre[k]
      /\ \A k \in Nodes : r.next[k] = IF k = p THEN x ELSE d.next[k]
      /\ r.total = d.total /\ r.mac = d.mac /\ r.ttl = d.ttl /\ r.heap = d.heap /\ r.uaf = d.uaf
  <2> DEFINE e == SetPre(d4, x, p)
  <2>1. /\ e \in Database /\ e.tail = d3.tail /\ e.first = d3.first /\ Like(e)
        /\ \A k \in Nodes : e.pre[k] = IF k = x THEN p ELSE d.pre[k]
    <3>1. PreSet(e, d4, x, p)
      BY <1>2, <1>8, SetPreIs
    <3> HIDE DEF e
    <3> QED
      BY <1>7, <1>8, <3>1 DEF PreSet
  <2> HIDE DEF e
  <2>2. NextSet(SetNext(e, p, x), e, p, x)
    BY <1>2, <2>1, SetNextIs
  <2> QED
    BY <2>1, <2>2 DEF e, NextSet
<1> HIDE DEF r
<1> QED
  BY <1>1, <1>4, <1>7, <1>9

\* A list without its place k.
Without(c, k) == [i \in 1..(Len(c) - 1) |-> IF i < k THEN c[i] ELSE c[i + 1]]

\* What follows the place moves up by one.
LEMMA WithoutIs ==
  ASSUME NEW c \in Seq(Nodes), NEW k \in 1..Len(c)
  PROVE  /\ Without(c, k) \in Seq(Nodes) /\ Len(Without(c, k)) = Len(c) - 1
         /\ \A j \in Nat : At(Without(c, k), j) = IF j < k THEN At(c, j) ELSE At(c, j + 1)
<1> DEFINE w == Without(c, k)
<1>1. Len(c) \in Nat /\ Len(c) - 1 \in Nat /\ \A i \in 1..Len(c) : c[i] \in Nodes
  OBVIOUS
<1>2. \A i \in 1..(Len(c) - 1) : i \in 1..Len(c) /\ i + 1 \in 1..Len(c)
  BY <1>1
<1>3. w \in [1..(Len(c) - 1) -> Nodes]
  BY <1>1, <1>2 DEF Without
<1>4. w \in Seq(Nodes) /\ Len(w) = Len(c) - 1
  BY <1>1, <1>3
<1>5. \A i \in 1..(Len(c) - 1) : w[i] = IF i < k THEN c[i] ELSE c[i + 1]
  BY DEF Without
<1> HIDE DEF w
<1>6. ASSUME NEW j \in Nat PROVE At(w, j) = IF j < k THEN At(c, j) ELSE At(c, j + 1)
  BY <1>1, <1>4, <1>5 DEF At
<1> QED
  BY <1>4, <1>6 DEF w

\* r is d after node n has left list l and was cleared and freed.
Purged(r, d, l, n) ==
  /\ r \in Database
  /\ \A i \in Ports : r.first[i] = IF i = l /\ d.pre[n] = NULL THEN d.next[n] ELSE d.first[i]
  /\ \A i \in Ports : r.tail[i] = IF i = l /\ d.next[n] = NULL THEN d.pre[n] ELSE d.tail[i]
  /\ \A i \in Ports : r.total[i] = IF i = l THEN d.total[l] - 1 ELSE d.total[i]
  /\ \A k \in Nodes \ {n} : /\ r.pre[k] = IF k = d.next[n] THEN d.pre[n] ELSE d.pre[k]
                            /\ r.next[k] = IF k = d.pre[n] THEN d.next[n] ELSE d.next[k]
                            /\ r.mac[k] = d.mac[k] /\ r.ttl[k] = d.ttl[k]
  /\ r.next[n] = NULL
  /\ r.heap = d.heap \ {n} /\ r.uaf = d.uaf

\* A purge of the node at a place leads the pointers around it, in its own list.
LEMMA PurgeIs ==
  ASSUME NEW d, NEW ch, NEW R, Holds(d, ch, R), NEW l \in Ports, NEW k \in 1..Len(ch[l])
  PROVE  Purged(Purge(d, ch[l][k]), d, l, ch[l][k])
<1> DEFINE n == ch[l][k]
           u == Unlink(d, l, n)
           f == Free(u, n)
           t == f.total[l]
           r == [f EXCEPT !.total[l] = IF t > 0 THEN t - 1 ELSE 0]
<1>0. /\ d \in Database /\ ch[l] \in Seq(Nodes) /\ Len(ch[l]) \in Nat /\ n \in Nodes
      /\ d.first[l] = At(ch[l], 1) /\ d.tail[l] = At(ch[l], Len(ch[l]))
      /\ d.total[l] = Len(ch[l]) /\ d.pre[n] = At(ch[l], k - 1) /\ d.next[n] = At(ch[l], k + 1)
  BY DEF Holds, Linked
<1>1. ListOf(d, n) = l
  <2>1. \A i \in Ports : Contains(Chain(d, i), n) <=> i = l
    <3> SUFFICES ASSUME NEW i \in Ports PROVE Contains(Chain(d, i), n) <=> i = l
      OBVIOUS
    <3>1. Chain(d, i) = ch[i]
      BY ChainIs
    <3>2. (\E j \in 1..Len(ch[i]) : ch[i][j] = n) <=> i = l
      BY Apart
    <3> QED
      BY <3>1, <3>2 DEF Contains
  <2> QED
    BY <2>1 DEF ListOf
<1>2. Purge(d, n) = r
  BY <1>1 DEF Purge
<1>3. /\ d.pre[n] = NULL <=> n = d.first[l]
      /\ d.next[n] = NULL <=> n = d.tail[l]
      /\ d.pre[n] = NULL <=> k = 1
      /\ d.next[n] = NULL <=> k = Len(ch[l])
  <2>1. \A i \in 1..Len(ch[l]) : (ch[l][i] = n <=> i = k) /\ ch[l][i] # NULL
    BY <1>0, Apart, NeighbDBAssumption
  <2>2. 1 \in 1..Len(ch[l]) /\ Len(ch[l]) \in 1..Len(ch[l])
    BY <1>0
  <2>3. d.first[l] = n <=> k = 1
    BY <1>0, <2>1, <2>2 DEF At
  <2>4. d.tail[l] = n <=> k = Len(ch[l])
    BY <1>0, <2>1, <2>2 DEF At
  <2>5. d.pre[n] = NULL <=> k = 1
    BY <1>0, <2>1 DEF At
  <2>6. d.next[n] = NULL <=> k = Len(ch[l])
    BY <1>0, <2>1 DEF At
  <2> QED
    BY <2>3, <2>4, <2>5, <2>6
<1>k. /\ (k = 1 /\ k = Len(ch[l])) <=> Len(ch[l]) = 1
      /\ Len(ch[l]) \in Nat /\ Len(ch[l]) - 1 \in Nat /\ Len(ch[l]) > 0
  <2>1. \A b \in Nat : \A a \in 1..b : /\ (a = 1 /\ a = b) <=> b = 1
                                       /\ b - 1 \in Nat /\ b > 0
    OBVIOUS
  <2> QED
    BY <1>0, <2>1
<1>t. d.total[l] = Len(ch[l])
  BY <1>0
<1> HIDE DEF n
<1>4. /\ u \in Database
      /\ \A i \in Ports : u.first[i] = IF i = l /\ d.pre[n] = NULL THEN d.next[n] ELSE d.first[i]
      /\ \A i \in Ports : u.tail[i] = IF i = l /\ d.next[n] = NULL THEN d.pre[n] ELSE d.tail[i]
      /\ \A q \in Nodes : /\ u.pre[q] = IF q = d.next[n] THEN d.pre[n] ELSE d.pre[q]
                          /\ u.next[q] = IF q = d.pre[n] THEN d.next[n] ELSE d.next[q]
      /\ \A i \in Ports : u.total[i] = IF i = l /\ d.pre[n] = NULL /\ d.next[n] = NULL
                                       THEN 0 ELSE d.total[i]
      /\ u.mac = d.mac /\ u.ttl = d.ttl /\ u.heap = d.heap /\ u.uaf = d.uaf
  <2>1. CASE d.pre[n] = NULL /\ d.next[n] = NULL
    <3>1. u = [d EXCEPT !.first[l] = NULL, !.tail[l] = NULL, !.total[l] = 0]
      BY <2>1 DEF Unlink
    <3>2. NULL \in Pointers /\ NULL \notin Nodes /\ 0 \in Nat
      BY NeighbDBAssumption DEF Pointers
    <3> HIDE DEF u
    <3>3. /\ u \in Database /\ u.pre = d.pre /\ u.next = d.next
          /\ u.mac = d.mac /\ u.ttl = d.ttl /\ u.heap = d.heap /\ u.uaf = d.uaf
          /\ \A i \in Ports : /\ u.first[i] = IF i = l THEN NULL ELSE d.first[i]
                              /\ u.tail[i] = IF i = l THEN NULL ELSE d.tail[i]
                              /\ u.total[i] = IF i = l THEN 0 ELSE d.total[i]
      BY <1>0, <3>1, <3>2 DEF Database
    <3> QED
      BY <2>1, <3>2, <3>3
  <2>2. CASE ~(d.pre[n] = NULL /\ d.next[n] = NULL)
    <3>1. LET v == Unlink(d, l, n) IN
          /\ v \in Database
          /\ \A i \in Ports : v.first[i] = IF i = l /\ d.pre[n] = NULL THEN d.next[n] ELSE d.first[i]
          /\ \A i \in Ports : v.tail[i] = IF i = l /\ d.next[n] = NULL THEN d.pre[n] ELSE d.tail[i]
          /\ \A q \in Nodes : v.pre[q] = IF q = d.next[n] THEN d.pre[n] ELSE d.pre[q]
          /\ \A q \in Nodes : v.next[q] = IF q = d.pre[n] THEN d.next[n] ELSE d.next[q]
          /\ v.total = d.total /\ v.mac = d.mac /\ v.ttl = d.ttl
          /\ v.heap = d.heap /\ v.uaf = d.uaf
      BY <1>0, <1>3, <2>2, UnlinkIs
    <3> QED
      BY <2>2, <3>1
  <2> QED
    BY <2>1, <2>2
<1> HIDE DEF u
<1>5. /\ f \in Database /\ f.first = u.first /\ f.tail = u.tail /\ f.total = u.total
      /\ \A q \in Nodes \ {n} : /\ f.pre[q] = u.pre[q] /\ f.next[q] = u.next[q]
                                /\ f.mac[q] = u.mac[q] /\ f.ttl[q] = u.ttl[q]
      /\ f.next[n] = NULL /\ f.heap = u.heap \ {n} /\ f.uaf = u.uaf
  <2>1. NULL \in Pointers /\ 0 \in 0..UpdateTTL
    BY NeighbDBAssumption DEF Pointers
  <2> QED
    BY <1>0, <1>4, <2>1 DEF Free, Database
<1> HIDE DEF f
<1>6. t = IF Len(ch[l]) = 1 THEN 0 ELSE Len(ch[l])
  <2>1. t = u.total[l]
    BY <1>5
  <2>2. u.total[l] = IF d.pre[n] = NULL /\ d.next[n] = NULL THEN 0 ELSE Len(ch[l])
    BY <1>0, <1>4
  <2>3. d.pre[n] = NULL /\ d.next[n] = NULL <=> Len(ch[l]) = 1
    BY <1>3, <1>k
  <2> QED
    BY <2>1, <2>2, <2>3
<1>7. t \in Nat /\ d.total[l] - 1 \in Nat /\ (IF t > 0 THEN t - 1 ELSE 0) = d.total[l] - 1
  BY <1>t, <1>6, <1>k
<1> HIDE DEF t
<1>8. /\ r \in Database /\ r.first = f.first /\ r.tail = f.tail /\ r.pre = f.pre /\ r.next = f.next
      /\ r.mac = f.mac /\ r.ttl = f.ttl /\ r.heap = f.heap /\ r.uaf = f.uaf
      /\ \A i \in Ports : r.total[i] = IF i = l THEN d.total[l] - 1 ELSE f.total[i]
  BY <1>5, <1>7 DEF Database
<1> HIDE DEF r
<1>9. \A i \in Ports : r.total[i] = IF i = l THEN d.total[l] - 1 ELSE d.total[i]
  BY <1>4, <1>5, <1>8
<1>10. Purged(r, d, l, n)
  BY <1>4, <1>5, <1>8, <1>9 DEF Purged
<1> QED
  BY <1>2, <1>10 DEF n

\* The neighbours of a place are on its list, or there are none.
LEMMA AtIs ==
  ASSUME NEW c \in Seq(Nodes), NEW k \in Nat
  PROVE  At(c, k) \in Pointers /\ (At(c, k) # NULL <=> k \in 1..Len(c))
  BY NeighbDBAssumption DEF At, Pointers

\* The lists are linked again when the node at a place has gone.
LEMMA PurgeLinked ==
  ASSUME NEW d, NEW ch, NEW R, Holds(d, ch, R), NEW l \in Ports, NEW k \in 1..Len(ch[l]),
         NEW r, Purged(r, d, l, ch[l][k])
  PROVE  Linked(r, [ch EXCEPT ![l] = Without(ch[l], k)])
<1> DEFINE n == ch[l][k]
           w == Without(ch[l], k)
           dh == [ch EXCEPT ![l] = w]
<1>0. /\ d \in Database /\ ch \in [Ports -> Seq(Nodes)] /\ \A i \in Ports : ch[i] \in Seq(Nodes) /\ Len(ch[i]) \in Nat
      /\ n \in Nodes /\ d.pre[n] = At(ch[l], k - 1) /\ d.next[n] = At(ch[l], k + 1)
  BY DEF Holds, Linked
<1>k. /\ k \in 1..Len(ch[l]) /\ k \in Nat /\ k - 1 \in Nat /\ k + 1 \in Nat
      /\ 1 \in Nat /\ Len(ch[l]) - 1 \in Nat
  <2>1. \A b \in Nat : \A a \in 1..b : a \in Nat /\ a - 1 \in Nat /\ a + 1 \in Nat /\ b - 1 \in Nat
    OBVIOUS
  <2> QED
    BY <1>0, <2>1
<1>1. /\ w \in Seq(Nodes) /\ Len(w) = Len(ch[l]) - 1
      /\ \A j \in Nat : At(w, j) = IF j < k THEN At(ch[l], j) ELSE At(ch[l], j + 1)
  BY <1>0, WithoutIs
<1>w. \A j \in 1..Len(w) : w[j] = IF j < k THEN ch[l][j] ELSE ch[l][j + 1]
  <2>1. \A j \in 1..(Len(ch[l]) - 1) : w[j] = IF j < k THEN ch[l][j] ELSE ch[l][j + 1]
    BY DEF Without
  <2> HIDE DEF w
  <2> QED
    BY <1>1, <2>1
<1> HIDE DEF w
<1>2. dh \in [Ports -> Seq(Nodes)] /\ dh[l] = w /\ \A i \in Ports : i # l => dh[i] = ch[i]
  BY <1>0, <1>1
<1> HIDE DEF dh
<1>h. /\ \A i \in Ports : /\ d.first[i] = At(ch[i], 1) /\ d.tail[i] = At(ch[i], Len(ch[i]))
                          /\ d.total[i] = Len(ch[i]) /\ Len(ch[i]) <= MaxEntry + 1
      /\ \A i \in Ports : \A j \in 1..Len(ch[i]) :
           d.pre[ch[i][j]] = At(ch[i], j - 1) /\ d.next[ch[i][j]] = At(ch[i], j + 1)
           /\ ch[i][j] \in d.heap /\ ch[i][j] \in Nodes
  BY <1>0 DEF Holds, Linked
<1>a. ASSUME NEW i \in Ports, NEW j \in 1..Len(ch[i])
      PROVE  /\ ch[i][j] = n <=> i = l /\ j = k
             /\ ch[i][j] = d.pre[n] <=> i = l /\ j = k - 1
             /\ ch[i][j] = d.next[n] <=> i = l /\ j = k + 1
  <2>1. ch[i][j] = n <=> i = l /\ j = k
    BY Apart
  <2>2. ch[i][j] = At(ch[l], k - 1) <=> i = l /\ j = k - 1
    <3>1. CASE k - 1 \in 1..Len(ch[l])
      <4>1. ch[i][j] = ch[l][k - 1] <=> i = l /\ j = k - 1
        BY <3>1, Apart
      <4> QED
        BY <3>1, <4>1 DEF At
    <3>2. CASE k - 1 \notin 1..Len(ch[l])
      <4>1. At(ch[l], k - 1) = NULL
        BY <3>2 DEF At
      <4> QED
        BY <1>h, <3>2, <4>1, NeighbDBAssumption
    <3> QED
      BY <3>1, <3>2
  <2>3. ch[i][j] = At(ch[l], k + 1) <=> i = l /\ j = k + 1
    <3>1. CASE k + 1 \in 1..Len(ch[l])
      <4>1. ch[i][j] = ch[l][k + 1] <=> i = l /\ j = k + 1
        BY <3>1, Apart
      <4> QED
        BY <3>1, <4>1 DEF At
    <3>2. CASE k + 1 \notin 1..Len(ch[l])
      <4>1. At(ch[l], k + 1) = NULL
        BY <3>2 DEF At
      <4> QED
        BY <1>h, <3>2, <4>1, NeighbDBAssumption
    <3> QED
      BY <3>1, <3>2
  <2> QED
    BY <1>0, <2>1, <2>2, <2>3
<1> HIDE DEF n
<1>p. /\ r \in Database
      /\ \A i \in Ports : r.first[i] = IF i = l /\ d.pre[n] = NULL THEN d.next[n] ELSE d.first[i]
      /\ \A i \in Ports : r.tail[i] = IF i = l /\ d.next[n] = NULL THEN d.pre[n] ELSE d.tail[i]
      /\ \A i \in Ports : r.total[i] = IF i = l THEN d.total[l] - 1 ELSE d.total[i]
      /\ \A q \in Nodes \ {n} : /\ r.pre[q] = IF q = d.next[n] THEN d.pre[n] ELSE d.pre[q]
                                /\ r.next[q] = IF q = d.pre[n] THEN d.next[n] ELSE d.next[q]
      /\ r.next[n] = NULL
      /\ r.heap = d.heap \ {n}
  BY DEF Purged, n
<1>3. ASSUME NEW i \in Ports
      PROVE  /\ r.first[i] = At(dh[i], 1) /\ r.tail[i] = At(dh[i], Len(dh[i]))
             /\ r.total[i] = Len(dh[i]) /\ Len(dh[i]) <= MaxEntry + 1
  <2>1. CASE i # l
    BY <1>2, <1>h, <1>p, <2>1
  <2>2. CASE i = l
    <3>1. d.pre[n] = NULL <=> k = 1
      BY <1>0, <1>k, AtIs
    <3>2. d.next[n] = NULL <=> k = Len(ch[l])
      <4>1. k + 1 \in Nat /\ (k + 1 \in 1..Len(ch[l]) <=> k # Len(ch[l]))
        BY <1>k
      <4>2. d.next[n] = At(ch[l], k + 1)
        BY <1>0
      <4> HIDE DEF n
      <4> QED
        BY <1>0, <4>1, <4>2, AtIs
    <3>3. At(w, 1) = IF k = 1 THEN At(ch[l], 2) ELSE At(ch[l], 1)
      <4>1. (1 < k <=> k # 1) /\ 1 + 1 = 2
        BY <1>k
      <4>2. At(w, 1) = IF 1 < k THEN At(ch[l], 1) ELSE At(ch[l], 1 + 1)
        BY <1>1, <1>k
      <4> QED
        BY <4>1, <4>2
    <3>4. At(w, Len(w)) = IF k = Len(ch[l]) THEN At(ch[l], k - 1) ELSE At(ch[l], Len(ch[l]))
      <4>1. Len(w) \in Nat /\ (Len(w) < k <=> k = Len(ch[l])) /\ Len(w) + 1 = Len(ch[l])
            /\ (k = Len(ch[l]) => Len(w) = k - 1)
        <5>1. \A b \in Nat : \A a \in 1..b :
                b - 1 \in Nat /\ (b - 1 < a <=> a = b) /\ b - 1 + 1 = b
          OBVIOUS
        <5>2. Len(ch[l]) \in Nat /\ Len(w) = Len(ch[l]) - 1
          BY <1>0, <1>1
        <5>3. /\ Len(ch[l]) - 1 \in Nat /\ (Len(ch[l]) - 1 < k <=> k = Len(ch[l]))
              /\ Len(ch[l]) - 1 + 1 = Len(ch[l])
          BY <5>1, <5>2
        <5> QED
          BY <5>2, <5>3
      <4> QED
        BY <1>1, <4>1
    <3>5. k = 1 => k + 1 = 2
      OBVIOUS
    <3>6. r.first[l] = At(w, 1)
      <4>1. r.first[l] = IF k = 1 THEN At(ch[l], k + 1) ELSE At(ch[l], 1)
        BY <1>0, <1>h, <1>p, <3>1
      <4>2. CASE k = 1
        <5>1. At(w, 1) = At(ch[l], 2) /\ k + 1 = 2
          BY <3>3, <3>5, <4>2
        <5> QED
          BY <4>1, <4>2, <5>1
      <4>3. CASE k # 1
        BY <3>3, <4>1, <4>3
      <4> QED
        BY <4>2, <4>3
    <3>7. r.tail[l] = At(w, Len(w))
      BY <1>0, <1>h, <1>p, <3>2, <3>4
    <3>8. r.total[l] = Len(w) /\ Len(w) <= MaxEntry + 1
      <4>1. Len(ch[l]) <= MaxEntry + 1 /\ r.total[l] = Len(ch[l]) - 1
        BY <1>h, <1>p
      <4> QED
        BY <1>1, <1>k, <4>1, NeighbDBAssumption
    <3> QED
      BY <1>2, <2>2, <3>6, <3>7, <3>8
  <2> QED
    BY <2>1, <2>2
<1>4. ASSUME NEW i \in Ports, NEW j \in 1..Len(dh[i])
      PROVE  /\ r.pre[dh[i][j]] = At(dh[i], j - 1) /\ r.next[dh[i][j]] = At(dh[i], j + 1)
             /\ dh[i][j] \in r.heap
  <2>1. CASE i # l
    <3>1. dh[i] = ch[i] /\ j \in 1..Len(ch[i])
      BY <1>2, <2>1
    <3>2. ch[i][j] \in Nodes \ {n} /\ ch[i][j] # d.pre[n] /\ ch[i][j] # d.next[n]
      BY <1>a, <1>h, <2>1, <3>1
    <3> QED
      <4>1. /\ r.pre[ch[i][j]] = d.pre[ch[i][j]] /\ r.next[ch[i][j]] = d.next[ch[i][j]]
            /\ ch[i][j] \in d.heap \ {n}
        BY <1>h, <1>p, <3>1, <3>2
      <4> QED
        BY <1>h, <1>p, <3>1, <4>1
  <2>2. CASE i = l
    <3>1. dh[i] = w /\ j \in 1..Len(w)
      BY <1>2, <2>2
    <3>2. /\ j \in Nat /\ j - 1 \in Nat /\ j + 1 \in Nat
          /\ j \in 1..Len(ch[l]) /\ j + 1 \in 1..Len(ch[l])
          /\ j - 1 + 1 = j /\ (j + 1) - 1 = j /\ (j - 1 < k <=> j <= k) /\ (j + 1 < k <=> j < k - 1)
      <4>1. \A b \in Nat : \A a \in 1..(b - 1) :
              /\ a \in Nat /\ a - 1 \in Nat /\ a + 1 \in Nat /\ a \in 1..b /\ a + 1 \in 1..b
              /\ a - 1 + 1 = a /\ (a + 1) - 1 = a
              /\ \A e \in Nat : (a - 1 < e <=> a <= e) /\ (a + 1 < e <=> a < e - 1)
        OBVIOUS
      <4> QED
        BY <1>0, <1>1, <1>k, <3>1, <4>1
    <3>3. CASE j < k
      <4>1. w[j] = ch[l][j]
        BY <1>w, <3>1, <3>3
      <4>2. j # k /\ j # k + 1 /\ j - 1 < k /\ (j = k - 1 <=> ~(j + 1 < k)) /\ (j = k - 1 => j + 1 + 1 = k + 1)
        BY <1>k, <3>2, <3>3
      <4>3. ch[l][j] \in Nodes \ {n} /\ ch[l][j] # d.next[n] /\ (ch[l][j] = d.pre[n] <=> j = k - 1)
        BY <1>a, <1>h, <3>2, <4>2
      <4>4. r.pre[w[j]] = At(w, j - 1)
        <5>1. At(w, j - 1) = At(ch[l], j - 1)
          BY <1>1, <3>2, <4>2
        <5>2. r.pre[ch[l][j]] = d.pre[ch[l][j]]
          BY <1>p, <4>3
        <5> QED
          BY <1>h, <3>2, <4>1, <5>1, <5>2
      <4>5. r.next[w[j]] = At(w, j + 1)
        <5>1. At(w, j + 1) = IF j + 1 < k THEN At(ch[l], j + 1) ELSE At(ch[l], j + 1 + 1)
          BY <1>1, <3>2
        <5>2. r.next[ch[l][j]] = IF j = k - 1 THEN At(ch[l], k + 1) ELSE At(ch[l], j + 1)
          <6>1. r.next[ch[l][j]] = IF ch[l][j] = d.pre[n] THEN d.next[n] ELSE d.next[ch[l][j]]
            BY <1>p, <4>3
          <6>2. d.next[ch[l][j]] = At(ch[l], j + 1)
            BY <1>h, <3>2
          <6> QED
            BY <1>0, <4>3, <6>1, <6>2
        <5>3. CASE j = k - 1
          <6>1. At(w, j + 1) = At(ch[l], k + 1)
            BY <4>2, <5>1, <5>3
          <6> QED
            BY <4>1, <5>2, <5>3, <6>1
        <5>4. CASE j # k - 1
          BY <4>1, <4>2, <5>1, <5>2, <5>4
        <5> QED
          BY <5>3, <5>4
      <4>6. w[j] \in r.heap
        BY <1>h, <1>p, <3>2, <4>1, <4>3
      <4> QED
        BY <3>1, <4>4, <4>5, <4>6
    <3>4. CASE ~(j < k)
      <4>1. w[j] = ch[l][j + 1]
        BY <1>w, <3>1, <3>4
      <4>2. j + 1 # k /\ j + 1 # k - 1 /\ ~(j + 1 < k) /\ (j + 1 = k + 1 <=> j - 1 < k)
            /\ (j - 1 < k => j - 1 = k - 1)
        BY <1>k, <3>2, <3>4
      <4>3. ch[l][j + 1] \in Nodes \ {n} /\ ch[l][j + 1] # d.pre[n]
            /\ (ch[l][j + 1] = d.next[n] <=> j + 1 = k + 1)
        BY <1>a, <1>h, <3>2, <4>2
      <4>4. r.pre[w[j]] = At(w, j - 1)
        <5>1. At(w, j - 1) = IF j - 1 < k THEN At(ch[l], j - 1) ELSE At(ch[l], j)
          BY <1>1, <3>2
        <5>2. d.pre[ch[l][j + 1]] = At(ch[l], j)
          BY <1>h, <3>2
        <5>3. r.pre[ch[l][j + 1]] = IF j + 1 = k + 1 THEN At(ch[l], k - 1) ELSE At(ch[l], j)
          BY <1>0, <1>p, <4>3, <5>2
        <5> QED
          BY <4>1, <4>2, <5>1, <5>3
      <4>5. r.next[w[j]] = At(w, j + 1)
        <5>1. At(w, j + 1) = At(ch[l], j + 1 + 1)
          BY <1>1, <3>2, <4>2
        <5>2. r.next[ch[l][j + 1]] = d.next[ch[l][j + 1]]
          BY <1>p, <4>3
        <5>3. d.next[ch[l][j + 1]] = At(ch[l], j + 1 + 1)
          BY <1>h, <3>2
        <5> QED
          BY <4>1, <5>1, <5>2, <5>3
      <4>6. w[j] \in r.heap
        BY <1>h, <1>p, <3>2, <4>1, <4>3
      <4> QED
        BY <3>1, <4>4, <4>5, <4>6
    <3> QED
      BY <3>3, <3>4
  <2> QED
    BY <2>1, <2>2
<1>5. Linked(r, dh)
  BY <1>2, <1>3, <1>4, <1>p DEF Linked
<1> QED
  BY <1>5 DEF dh, w

\* The neighbour of the node that went is forgotten, and no other.
LEMMA PurgeTells ==
  ASSUME NEW d, NEW ch, NEW R, Holds(d, ch, R), NEW l \in Ports, NEW k \in 1..Len(ch[l]),
         NEW r, Purged(r, d, l, ch[l][k])
  PROVE  Tells(r, [ch EXCEPT ![l] = Without(ch[l], k)], [R EXCEPT ![d.mac[ch[l][k]]] = NULL])
<1> DEFINE n == ch[l][k]
           w == Without(ch[l], k)
           dh == [ch EXCEPT ![l] = w]
           m == d.mac[n]
           Q == [R EXCEPT ![m] = NULL]
<1>0. /\ ch \in [Ports -> Seq(Nodes)] /\ \A i \in Ports : ch[i] \in Seq(Nodes) /\ Len(ch[i]) \in Nat
      /\ R \in [Macs -> Record \cup {NULL}] /\ n \in Nodes /\ m \in Macs
      /\ \A i \in Ports : \A j \in 1..Len(ch[i]) : ch[i][j] \in Nodes /\ d.mac[ch[i][j]] \in Macs
      /\ \A i \in Ports : \A j \in 1..Len(ch[i]) :
           R[d.mac[ch[i][j]]] = [port |-> i, ttl |-> d.ttl[ch[i][j]]]
      /\ \A q \in Macs : R[q] # NULL =>
           \E j \in 1..Len(ch[R[q].port]) : d.mac[ch[R[q].port][j]] = q
  <2>1. /\ ch \in [Ports -> Seq(Nodes)] /\ R \in [Macs -> Record \cup {NULL}]
        /\ \A i \in Ports : \A j \in 1..Len(ch[i]) : d.mac[ch[i][j]] \in Macs
        /\ \A i \in Ports : \A j \in 1..Len(ch[i]) :
             R[d.mac[ch[i][j]]] = [port |-> i, ttl |-> d.ttl[ch[i][j]]]
        /\ \A q \in Macs : R[q] # NULL =>
             \E j \in 1..Len(ch[R[q].port]) : d.mac[ch[R[q].port][j]] = q
    BY DEF Holds, Linked, Tells
  <2>2. \A i \in Ports : ch[i] \in Seq(Nodes) /\ Len(ch[i]) \in Nat
    BY <2>1
  <2>3. \A i \in Ports : \A j \in 1..Len(ch[i]) : ch[i][j] \in Nodes
    BY <2>2
  <2> QED
    BY <2>1, <2>2, <2>3
<1>1. w \in Seq(Nodes) /\ Len(w) = Len(ch[l]) - 1
  BY <1>0, WithoutIs
<1>w. \A j \in 1..Len(w) : w[j] = IF j < k THEN ch[l][j] ELSE ch[l][j + 1]
  <2>1. \A j \in 1..(Len(ch[l]) - 1) : w[j] = IF j < k THEN ch[l][j] ELSE ch[l][j + 1]
    BY DEF Without
  <2> HIDE DEF w
  <2> QED
    BY <1>1, <2>1
<1>k. \A b \in Nat : \A e \in 1..b : \A a \in 1..(b - 1) :
        a \in 1..b /\ a + 1 \in 1..b /\ (a < e => a # e) /\ (~(a < e) => a + 1 # e)
  OBVIOUS
<1> HIDE DEF w
<1>2. dh \in [Ports -> Seq(Nodes)] /\ dh[l] = w /\ \A i \in Ports : i # l => dh[i] = ch[i]
  BY <1>0, <1>1
<1> HIDE DEF dh
<1>p. \A q \in Nodes \ {n} : r.mac[q] = d.mac[q] /\ r.ttl[q] = d.ttl[q]
  BY DEF Purged, n
<1>q. Q \in [Macs -> Record \cup {NULL}] /\ Q[m] = NULL /\ \A q \in Macs : q # m => Q[q] = R[q]
  BY <1>0
\* Every place that is left was a place before, and not the purged one.
<1>3. ASSUME NEW i \in Ports, NEW j \in 1..Len(dh[i])
      PROVE  \E a \in 1..Len(ch[i]) :
               /\ dh[i][j] = ch[i][a]
               /\ a = IF i # l \/ j < k THEN j ELSE j + 1
               /\ i = l => a # k
  <2>1. CASE i # l
    BY <1>2, <2>1
  <2>2. CASE i = l
    <3>1. j \in 1..(Len(ch[l]) - 1) /\ dh[i][j] = w[j]
      BY <1>1, <1>2, <2>2
    <3>2. /\ j \in 1..Len(ch[l]) /\ j + 1 \in 1..Len(ch[l]) /\ (j < k => j # k)
          /\ (~(j < k) => j + 1 # k)
      BY <1>0, <1>k, <3>1
    <3>3. w[j] = IF j < k THEN ch[l][j] ELSE ch[l][j + 1]
      BY <1>1, <1>w, <3>1
    <3>4. CASE j < k
      BY <2>2, <3>1, <3>2, <3>3, <3>4
    <3>5. CASE ~(j < k)
      BY <2>2, <3>1, <3>2, <3>3, <3>5
    <3> QED
      BY <3>4, <3>5
  <2> QED
    BY <2>1, <2>2
<1>4. ASSUME NEW i \in Ports, NEW a \in 1..Len(ch[i]), i = l => a # k
      PROVE  ch[i][a] \in Nodes \ {n} /\ d.mac[ch[i][a]] # m
  BY <1>0, <1>4, Apart
<1>5. ASSUME NEW i \in Ports, NEW j \in 1..Len(dh[i])
      PROVE  /\ r.mac[dh[i][j]] \in Macs
             /\ Q[r.mac[dh[i][j]]] = [port |-> i, ttl |-> r.ttl[dh[i][j]]]
             /\ \A b \in 1..Len(dh[i]) : r.mac[dh[i][b]] = r.mac[dh[i][j]] => b = j
  <2>1. PICK a \in 1..Len(ch[i]) : /\ dh[i][j] = ch[i][a]
                                   /\ a = IF i # l \/ j < k THEN j ELSE j + 1
                                   /\ i = l => a # k
    BY <1>3
  <2>2. ch[i][a] \in Nodes \ {n} /\ d.mac[ch[i][a]] # m
    BY <1>4, <2>1
  <2>3. r.mac[dh[i][j]] = d.mac[ch[i][a]] /\ r.ttl[dh[i][j]] = d.ttl[ch[i][a]]
    BY <1>p, <2>1, <2>2
  <2>4. ASSUME NEW b \in 1..Len(dh[i]), r.mac[dh[i][b]] = r.mac[dh[i][j]] PROVE b = j
    <3>1. PICK c \in 1..Len(ch[i]) : /\ dh[i][b] = ch[i][c]
                                     /\ c = IF i # l \/ b < k THEN b ELSE b + 1
                                     /\ i = l => c # k
      BY <1>3
    <3>2. ch[i][c] \in Nodes \ {n}
      BY <1>4, <3>1
    <3>3. d.mac[ch[i][c]] = d.mac[ch[i][a]]
      BY <1>p, <2>3, <2>4, <3>1, <3>2
    <3>4. c = a
      BY <3>3, Apart
    <3>5. dh[i] \in Seq(Nodes) /\ Len(dh[i]) \in Nat
      BY <1>2
    <3>6. b \in Nat /\ j \in Nat /\ k \in Nat
      BY <1>0, <3>5
    <3> QED
      BY <2>1, <3>1, <3>4, <3>6
  <2> QED
    BY <1>0, <1>q, <2>2, <2>3, <2>4
<1>6. ASSUME NEW q \in Macs, Q[q] # NULL
      PROVE  \E j \in 1..Len(dh[Q[q].port]) : r.mac[dh[Q[q].port][j]] = q
  <2>1. q # m /\ Q[q] = R[q]
    BY <1>q, <1>6
  <2>2. PICK a \in 1..Len(ch[R[q].port]) : d.mac[ch[R[q].port][a]] = q
    BY <1>0, <1>6, <2>1
  <2> DEFINE i == R[q].port
  <2>3. i \in Ports
    BY <1>0, <1>6, <2>1 DEF Record
  <2> HIDE DEF i
  <2>4. a \in 1..Len(ch[i]) /\ d.mac[ch[i][a]] = q
    BY <2>2 DEF i
  <2>5. i = l => a # k
    BY <2>1, <2>4
  <2>6. r.mac[ch[i][a]] = q
    BY <1>4, <1>p, <2>3, <2>4, <2>5
  <2>7. \E j \in 1..Len(dh[i]) : dh[i][j] = ch[i][a]
    <3>1. CASE i # l
      BY <1>2, <2>3, <2>4, <3>1
    <3>2. CASE i = l
      <4>1. \A b \in Nat : \A e, c \in 1..b : e # c =>
              \/ c < e /\ c \in 1..(b - 1)
              \/ ~(c - 1 < e) /\ c - 1 \in 1..(b - 1) /\ c - 1 + 1 = c
        OBVIOUS
      <4>2. a \in 1..Len(ch[l]) /\ a # k /\ Len(ch[l]) \in Nat
        BY <1>0, <2>4, <2>5, <3>2
      <4>3. \/ a < k /\ a \in 1..Len(w)
            \/ ~(a - 1 < k) /\ a - 1 \in 1..Len(w) /\ a - 1 + 1 = a
        BY <1>1, <4>1, <4>2
      <4>4. CASE a < k /\ a \in 1..Len(w)
        <5>1. w[a] = ch[l][a]
          BY <1>w, <4>4
        <5> QED
          BY <1>2, <3>2, <4>4, <5>1
      <4>5. CASE ~(a - 1 < k) /\ a - 1 \in 1..Len(w) /\ a - 1 + 1 = a
        <5>1. w[a - 1] = ch[l][a]
          BY <1>w, <4>5
        <5> QED
          BY <1>2, <3>2, <4>5, <5>1
      <4> QED
        BY <4>3, <4>4, <4>5
    <3> QED
      BY <3>1, <3>2
  <2> QED
    BY <2>1, <2>6, <2>7 DEF i
<1> HIDE DEF Q
<1>7. Tells(r, dh, Q)
  BY <1>5, <1>6, <1>q DEF Tells
<1> QED
  BY <1>7 DEF dh, w, Q, m, n

\* What a purge of a node that is at a place does.
LEMMA PurgeHolds ==
  ASSUME NEW d, NEW ch, NEW R, Holds(d, ch, R), NEW l \in Ports, NEW k \in 1..Len(ch[l])
  PROVE  Holds(Purge(d, ch[l][k]), [ch EXCEPT ![l] = Without(ch[l], k)],
               [R EXCEPT ![d.mac[ch[l][k]]] = NULL])
<1>1. Purged(Purge(d, ch[l][k]), d, l, ch[l][k])
  BY PurgeIs
<1>2. Purge(d, ch[l][k]).uaf = d.uaf
  BY <1>1 DEF Purged
<1> QED
  BY <1>1, <1>2, PurgeLinked, PurgeTells DEF Holds

-----------------------------------------------------------------------------
(* The scans over all lists. *)

\* A flattened sequence has the elements of its parts and no others.
LEMMA FlattenHas ==
  ASSUME NEW A, NEW c \in Seq(Seq(A))
  PROVE  /\ FlattenSeq(c) \in Seq(A)
         /\ \A x : (\E i \in 1..Len(FlattenSeq(c)) : FlattenSeq(c)[i] = x)
                     <=> \E l \in 1..Len(c) : \E j \in 1..Len(c[l]) : c[l][j] = x
<1> DEFINE N == Len(c)
           Has(t, k) == \A x : (\E i \in 1..Len(t) : t[i] = x)
                                 <=> \E l \in 1..k : \E j \in 1..Len(c[l]) : c[l][j] = x
           In == [k \in 0..N |-> {t \in Seq(A) : Has(t, k)}]
           W(f) == f = [i \in 1..N |-> IF i = 1 THEN c[i] ELSE f[i - 1] \o c[i]]
<1>0. N \in Nat /\ \A k \in 1..N : c[k] \in Seq(A)
  OBVIOUS
<1>1. ASSUME NEW k \in 1..N, NEW t \in In[k - 1]
      PROVE  t \o c[k] \in In[k] /\ t \in Seq(A)
  <2>1. k \in 0..N /\ k - 1 \in 0..N
    BY <1>0
  <2>2. t \in Seq(A) /\ Has(t, k - 1)
    BY <1>1, <2>1
  <2>3. /\ t \o c[k] \in Seq(A) /\ Len(t \o c[k]) = Len(t) + Len(c[k])
        /\ \A i \in 1..(Len(t) + Len(c[k])) :
             (t \o c[k])[i] = IF i <= Len(t) THEN t[i] ELSE c[k][i - Len(t)]
    BY <1>0, <2>2, ConcatProperties
  <2> DEFINE u == t \o c[k]
  <2> HIDE DEF u
  <2>4. u \in Seq(A) /\ Len(u) = Len(t) + Len(c[k])
        /\ \A i \in 1..Len(u) : u[i] = IF i <= Len(t) THEN t[i] ELSE c[k][i - Len(t)]
    BY <2>3 DEF u
  <2>5. Len(t) \in Nat /\ Len(c[k]) \in Nat
    BY <1>0, <2>2
  <2>6. ASSUME NEW x PROVE (\E i \in 1..Len(u) : u[i] = x)
                             <=> \E l \in 1..k : \E j \in 1..Len(c[l]) : c[l][j] = x
    <3>1. (\E i \in 1..Len(u) : u[i] = x)
            <=> (\E i \in 1..Len(t) : t[i] = x) \/ (\E i \in 1..Len(c[k]) : c[k][i] = x)
      <4>1. ASSUME NEW i \in 1..Len(u), u[i] = x
            PROVE (\E j \in 1..Len(t) : t[j] = x) \/ (\E j \in 1..Len(c[k]) : c[k][j] = x)
        <5>1. CASE i <= Len(t)
          <6>1. i \in 1..Len(t) /\ u[i] = t[i]
            BY <2>4, <2>5, <5>1
          <6> QED
            BY <4>1, <6>1
        <5>2. CASE ~(i <= Len(t))
          <6>1. i - Len(t) \in 1..Len(c[k])
            BY <2>4, <2>5, <5>2
          <6> QED
            BY <2>4, <4>1, <5>2, <6>1
        <5> QED
          BY <5>1, <5>2
      <4>2. ASSUME NEW j \in 1..Len(t), t[j] = x PROVE \E i \in 1..Len(u) : u[i] = x
        <5>1. j \in 1..Len(u) /\ j <= Len(t)
          BY <2>4, <2>5
        <5> QED
          BY <2>4, <4>2, <5>1
      <4>3. ASSUME NEW j \in 1..Len(c[k]), c[k][j] = x PROVE \E i \in 1..Len(u) : u[i] = x
        <5>1. j + Len(t) \in 1..Len(u) /\ ~(j + Len(t) <= Len(t)) /\ j + Len(t) - Len(t) = j
          BY <2>4, <2>5
        <5> QED
          <6>1. u[j + Len(t)] = c[k][j]
            BY <2>4, <5>1
          <6> QED
            BY <4>3, <5>1, <6>1
      <4> QED
        BY <4>1, <4>2, <4>3
    <3>2. (\E i \in 1..Len(t) : t[i] = x)
            <=> \E l \in 1..(k - 1) : \E j \in 1..Len(c[l]) : c[l][j] = x
      BY <2>2
    <3>3. \A l : l \in 1..k <=> l \in 1..(k - 1) \/ l = k
      BY <1>0
    <3> QED
      BY <3>1, <3>2, <3>3
  <2>7. Has(u, k)
    BY <2>6
  <2> QED
    BY <2>1, <2>2, <2>4, <2>7 DEF u
<1>2. <<>> \in In[0]
  <2>1. <<>> \in Seq(A) /\ Len(<<>>) = 0 /\ 0 \in 0..N
    BY <1>0
  <2>2. \A l : l \notin 1..0
    OBVIOUS
  <2> QED
    BY <2>1, <2>2
<1>3. CASE N = 0
  <2>1. FlattenSeq(c) = c
    BY <1>3 DEF FlattenSeq
  <2>2. c = <<>>
    BY <1>3
  <2> QED
    BY <1>3, <2>1, <2>2
<1>4. CASE N # 0
  <2> DEFINE at == CHOOSE f : W(f)
             g == [k \in 1..N |-> [t \in Seq(A) |-> t \o c[k]]]
  <2>1. FlattenSeq(c) = at[N]
    BY <1>4, Zenon DEF FlattenSeq
  <2>2. PICK f : Runs(N, g, <<>>, f)
    <3> HIDE DEF g
    <3> QED
      BY <1>0, RunsExist
  <2>f. /\ f[0] = <<>>
        /\ \A k \in 1..N : f[k] = g[k][f[k - 1]]
    <3>1. 0 \in 0..N /\ \A k \in 1..N : k \in 0..N /\ k # 0
      BY <1>0
    <3> HIDE DEF g
    <3> QED
      BY <2>2, <3>1 DEF Runs
  <2>3. ASSUME NEW k \in 1..N, f[k - 1] \in In[k - 1]
        PROVE  f[k] = f[k - 1] \o c[k] /\ f[k] \in In[k]
    <3>1. f[k - 1] \in Seq(A) /\ f[k - 1] \o c[k] \in In[k]
      BY <1>1, <2>3
    <3> HIDE DEF In
    <3> QED
      BY <2>f, <3>1
  <2>4. \A k \in 0..N : f[k] \in In[k]
    <3> HIDE DEF In
    <3>1. f[0] \in In[0]
      BY <1>2, <2>f
    <3> QED
      BY <1>0, <2>3, <3>1, Steps
  <2>5. \A k \in 1..N : f[k] = IF k = 1 THEN c[k] ELSE f[k - 1] \o c[k]
    <3> SUFFICES ASSUME NEW k \in 1..N PROVE f[k] = IF k = 1 THEN c[k] ELSE f[k - 1] \o c[k]
      OBVIOUS
    <3>1. k - 1 \in 0..N
      BY <1>0
    <3>2. f[k] = f[k - 1] \o c[k]
      BY <2>3, <2>4, <3>1
    <3>3. CASE k = 1
      <4>1. f[k - 1] = <<>>
        BY <2>f, <3>3
      <4>2. <<>> \o c[k] = c[k]
        BY <1>0
      <4> QED
        BY <3>2, <3>3, <4>1, <4>2
    <3> QED
      BY <3>2, <3>3
  <2>6. W([k \in 1..N |-> f[k]])
    <3> DEFINE h == [k \in 1..N |-> f[k]]
    <3>1. \A k \in 1..N : k # 1 => k - 1 \in 1..N
      BY <1>0
    <3>2. \A k \in 1..N : f[k] = IF k = 1 THEN c[k] ELSE h[k - 1] \o c[k]
      BY <2>5, <3>1
    <3> HIDE DEF h
    <3>3. h = [k \in 1..N |-> IF k = 1 THEN c[k] ELSE h[k - 1] \o c[k]]
      BY <3>2 DEF h
    <3> QED
      BY <3>3 DEF h
  <2>7. W(at)
    <3> HIDE DEF W
    <3> QED
      BY <2>6, Zenon
  <2> HIDE DEF at
  <2> DEFINE b == [k \in 0..N |-> IF k = 0 THEN <<>> ELSE at[k]]
  <2>8. \A k \in 1..N : at[k] = IF k = 1 THEN c[k] ELSE at[k - 1] \o c[k]
    BY <2>7
  <2>9. ASSUME NEW k \in 1..N, b[k - 1] \in In[k - 1] PROVE b[k] \in In[k]
    <3>1. k - 1 \in 0..N /\ k \in 0..N /\ k # 0 /\ (k = 1 <=> k - 1 = 0)
      BY <1>0
    <3>2. b[k] = b[k - 1] \o c[k]
      <4>1. b[k] = at[k]
        BY <3>1
      <4>2. CASE k = 1
        <5>1. b[k - 1] = <<>>
          BY <3>1, <4>2
        <5>2. <<>> \o c[k] = c[k]
          BY <1>0
        <5> QED
          BY <2>8, <4>1, <4>2, <5>1, <5>2
      <4>3. CASE k # 1
        <5>1. b[k - 1] = at[k - 1]
          BY <3>1, <4>3
        <5> QED
          BY <2>8, <4>1, <4>3, <5>1
      <4> QED
        BY <4>2, <4>3
    <3> HIDE DEF b, In
    <3> QED
      BY <1>1, <2>9, <3>2
  <2>10. b[N] \in In[N]
    <3>1. b[0] \in In[0]
      BY <1>0, <1>2
    <3> HIDE DEF b, In
    <3>2. \A k \in 0..N : b[k] \in In[k]
      BY <1>0, <2>9, <3>1, Steps
    <3> QED
      BY <1>0, <3>2
  <2>11. b[N] = at[N]
    BY <1>0, <1>4
  <2>12. at[N] \in Seq(A) /\ Has(at[N], N)
    <3>1. N \in 0..N
      BY <1>0
    <3>2. In[N] = {t \in Seq(A) : Has(t, N)}
      BY <3>1
    <3> HIDE DEF In, b, Has
    <3> QED
      BY <2>10, <2>11, <3>2
  <2> QED
    BY <2>1, <2>12
<1> QED
  BY <1>3, <1>4

\* A scan finds every node of the lists, and no other.
LEMMA ScanIs ==
  ASSUME NEW d, NEW ch, NEW R, Holds(d, ch, R)
  PROVE  /\ Scan(d) \in Seq(Nodes)
         /\ \A i \in 1..Len(Scan(d)) : \E l \in Ports : \E j \in 1..Len(ch[l]) : ch[l][j] = Scan(d)[i]
         /\ \A l \in Ports : \A j \in 1..Len(ch[l]) : \E i \in 1..Len(Scan(d)) : Scan(d)[i] = ch[l][j]
<1>1. ch \in [Ports -> Seq(Nodes)]
  BY DEF Holds, Linked
<1>2. [l \in Ports |-> Chain(d, l)] = ch
  <2>1. \A l \in Ports : Chain(d, l) = ch[l]
    BY ChainIs
  <2> QED
    BY <1>1, <2>1
<1>3. Scan(d) = FlattenSeq(ch)
  BY <1>2 DEF Scan
<1>4. PortNumber \in Nat /\ Ports = 1..PortNumber
  BY NeighbDBAssumption DEF Ports
<1>5. ch \in Seq(Seq(Nodes)) /\ Len(ch) = PortNumber
  BY <1>1, <1>4
<1>6. /\ FlattenSeq(ch) \in Seq(Nodes)
      /\ \A x : (\E i \in 1..Len(FlattenSeq(ch)) : FlattenSeq(ch)[i] = x)
                  <=> \E l \in 1..Len(ch) : \E j \in 1..Len(ch[l]) : ch[l][j] = x
  BY <1>5, FlattenHas
<1> QED
  BY <1>3, <1>4, <1>5, <1>6

\* Although its argument is erased on the way, Purge_FromDB called with the
\* address of a node purges that node and nothing else; b tells whether it has
\* read the erased argument.
LEMMA PurgeFromDBIs ==
  ASSUME NEW d, NEW ch, NEW R, Holds(d, ch, R), NEW l \in Ports, NEW k \in 1..Len(ch[l])
  PROVE  \E b \in BOOLEAN : PurgeFromDB(d, ch[l][k]) = [Purge(d, ch[l][k]) EXCEPT !.stale = b]
<1> DEFINE n == ch[l][k]
           s == Scan(d)
           N == Len(s)
           e == Purge(d, n)
           Doomed(i) == \/ d.mac[s[i]] = d.mac[n] /\ \A j \in 1..(i - 1) : s[j] # n
                        \/ d.mac[s[i]] = Zero /\ \E j \in 1..(i - 1) : s[j] = n
           W(f) == f = [i \in 0..N |-> IF i = 0 THEN d
                                       ELSE IF Doomed(i) THEN Purge(f[i - 1], s[i]) ELSE f[i - 1]]
           at == CHOOSE f : W(f)
           First == {i \in 1..N : s[i] = n}
           Late == \E i \in DOMAIN s : n \notin at[i - 1].heap
<1>1. PurgeFromDB(d, n) = [at[N] EXCEPT !.stale = at[N].stale \/ Late]
  BY Zenon DEF PurgeFromDB
<1>2. /\ s \in Seq(Nodes) /\ N \in Nat
      /\ \A i \in 1..N : \E a \in Ports : \E j \in 1..Len(ch[a]) : ch[a][j] = s[i]
      /\ \E i \in 1..N : s[i] = n
  <2>1. /\ s \in Seq(Nodes)
        /\ \A i \in 1..N : \E a \in Ports : \E j \in 1..Len(ch[a]) : ch[a][j] = s[i]
        /\ \E i \in 1..N : s[i] = n
    <3>1. s \in Seq(Nodes)
      BY ScanIs
    <3>2. ASSUME NEW i \in 1..N
          PROVE  \E a \in Ports : \E j \in 1..Len(ch[a]) : ch[a][j] = s[i]
      BY ScanIs
    <3>3. \E i \in 1..N : s[i] = n
      BY ScanIs
    <3> HIDE DEF s
    <3> QED
      BY <3>1, <3>2, <3>3
  <2> HIDE DEF s
  <2>2. N \in Nat
    BY <2>1
  <2> QED
    BY <2>1, <2>2
<1> HIDE DEF s
<1>3. PICK z \in First : \A i \in First : z <= i
  <2>1. First \in SUBSET Nat /\ First # {}
    BY <1>2
  <2> HIDE DEF First
  <2> QED
    BY <2>1, LeastOf
<1>4. z \in 1..N /\ s[z] = n /\ \A i \in 1..N : i < z => s[i] # n
  <2>1. \A i \in 1..N : i < z => ~(z <= i)
    BY <1>2
  <2> QED
    BY <1>3, <2>1
<1>5. ASSUME NEW i \in 1..N PROVE Doomed(i) <=> i = z
  <2>1. PICK a \in Ports : \E j \in 1..Len(ch[a]) : ch[a][j] = s[i]
    BY <1>2
  <2>2. PICK j \in 1..Len(ch[a]) : ch[a][j] = s[i]
    BY <2>1
  <2>3. d.mac[s[i]] # Zero
    <3>1. d.mac[ch[a][j]] \in Macs
      BY DEF Holds, Tells
    <3> QED
      BY <2>2, <3>1, NeighbDBAssumption
  <2>4. d.mac[s[i]] = d.mac[n] => s[i] = n
    <3>1. d.mac[ch[a][j]] = d.mac[ch[l][k]] => a = l /\ j = k
      BY Apart
    <3> QED
      BY <2>2, <3>1
  <2>5. Doomed(i) => i = z
    <3> SUFFICES ASSUME Doomed(i) PROVE i = z
      OBVIOUS
    <3>1. s[i] = n /\ \A q \in 1..(i - 1) : s[q] # n
      BY <2>3, <2>4
    <3>2. z <= i
      BY <1>3, <3>1
    <3>3. z # i => z \in 1..(i - 1)
      BY <1>2, <3>2
    <3> QED
      BY <1>4, <3>1, <3>3
  <2>6. Doomed(z)
    <3>1. \A q \in 1..(z - 1) : q \in 1..N /\ q < z
      BY <1>2, <1>4
    <3> QED
      BY <1>4, <3>1
  <2> QED
    BY <2>5, <2>6
<1> HIDE DEF Doomed, e, n, First
<1> DEFINE g == [i \in 0..N |-> IF i < z THEN d ELSE e]
<1>g. \A i \in 0..N : g[i] = IF i < z THEN d ELSE e
  OBVIOUS
<1> HIDE DEF g
<1>6. ASSUME NEW i \in 1..N
      PROVE  g[i] = IF Doomed(i) THEN Purge(g[i - 1], s[i]) ELSE g[i - 1]
  <2>1. i \in 0..N /\ i - 1 \in 0..N /\ (i < z => i - 1 < z) /\ (i = z => i - 1 < z /\ ~(i < z))
        /\ (i - 1 < z => i < z \/ i = z)
    BY <1>2, <1>4
  <2>2. CASE i = z
    <3>1. g[i] = e /\ g[i - 1] = d /\ s[i] = n
      BY <1>4, <1>g, <2>1, <2>2
    <3>2. Doomed(i)
      BY <1>5, <2>2
    <3> QED
      BY <3>1, <3>2 DEF e
  <2>3. CASE i # z
    <3>1. g[i] = g[i - 1]
      BY <1>g, <2>1, <2>3
    <3>2. ~Doomed(i)
      BY <1>5, <2>3
    <3> QED
      BY <3>1, <3>2
  <2> QED
    BY <2>2, <2>3
<1>7. W(g)
  <2>1. 0 \in 0..N /\ 0 < z /\ \A i \in 0..N : i # 0 => i \in 1..N
    BY <1>2, <1>4
  <2>2. g[0] = d
    BY <1>g, <2>1
  <2>3. \A i \in 0..N : g[i] = IF i = 0 THEN d
                               ELSE IF Doomed(i) THEN Purge(g[i - 1], s[i]) ELSE g[i - 1]
    BY <1>6, <2>1, <2>2
  <2>4. g = [i \in 0..N |-> g[i]]
    BY DEF g
  <2> QED
    BY <2>3, <2>4
<1>8. W(at)
  <2> HIDE DEF W
  <2> QED
    BY <1>7, Zenon
<1> HIDE DEF at
<1>9. at[0] = d /\ \A i \in 1..N : at[i] = IF Doomed(i) THEN Purge(at[i - 1], s[i]) ELSE at[i - 1]
  <2>1. 0 \in 0..N /\ \A i \in 1..N : i \in 0..N /\ i # 0
    BY <1>2
  <2>2. \A i \in 0..N : at[i] = IF i = 0 THEN d
                               ELSE IF Doomed(i) THEN Purge(at[i - 1], s[i]) ELSE at[i - 1]
    BY <1>8
  <2> QED
    BY <2>1, <2>2
<1> DEFINE In == [i \in 0..N |-> {g[i]}]
<1>10. at[N] = g[N]
  <2>1. at[0] \in In[0]
    <3>1. 0 \in 0..N /\ 0 < z
      BY <1>2, <1>4
    <3> QED
      BY <1>9, <1>g, <3>1
  <2>2. ASSUME NEW i \in 1..N, at[i - 1] \in In[i - 1] PROVE at[i] \in In[i]
    <3>1. i \in 0..N /\ i - 1 \in 0..N
      BY <1>2
    <3>2. at[i - 1] = g[i - 1]
      BY <2>2, <3>1
    <3>3. at[i] = g[i]
      BY <1>6, <1>9, <3>2
    <3> QED
      BY <3>1, <3>3
  <2>3. N \in 0..N
    BY <1>2
  <2>4. at[N] \in In[N]
    <3> HIDE DEF In
    <3> QED
      BY <1>2, <2>1, <2>2, <2>3, Steps
  <2> QED
    BY <2>3, <2>4
<1>11. g[N] = e
  BY <1>2, <1>4, <1>g
<1>12. (at[N].stale \/ Late) \in BOOLEAN
  OBVIOUS
<1> HIDE DEF Late
<1>13. PurgeFromDB(d, n) = [e EXCEPT !.stale = at[N].stale \/ Late]
  BY <1>1, <1>10, <1>11
<1> QED
  BY <1>12, <1>13 DEF e, n

\* What a database holds does not depend on the flag of the erased argument.
LEMMA StaleHolds ==
  ASSUME NEW d, NEW ch, NEW R, Holds(d, ch, R), NEW b \in BOOLEAN
  PROVE  LET r == [d EXCEPT !.stale = b]
         IN  /\ Holds(r, ch, R)
             /\ r.mac = d.mac /\ r.ttl = d.ttl /\ r.heap = d.heap
             /\ r.pre = d.pre /\ r.next = d.next
<1> DEFINE r == [d EXCEPT !.stale = b]
<1>1. d \in Database
  BY DEF Holds, Linked
<1>2. /\ r \in Database /\ r.uaf = d.uaf
      /\ r.first = d.first /\ r.tail = d.tail /\ r.total = d.total
      /\ r.mac = d.mac /\ r.ttl = d.ttl /\ r.heap = d.heap
      /\ r.pre = d.pre /\ r.next = d.next
  BY <1>1 DEF Database
<1> HIDE DEF r
<1>3. Linked(r, ch)
  BY <1>2 DEF Holds, Linked
<1>4. Tells(r, ch, R)
  BY <1>2 DEF Holds, Tells
<1>5. Holds(r, ch, R)
  BY <1>2, <1>3, <1>4 DEF Holds
<1> QED
  BY <1>2, <1>5 DEF r

-----------------------------------------------------------------------------
(* Ageing. *)

\* A record after k passes over the lists.
Older(r, k) == IF r = NULL \/ r.ttl < k THEN NULL ELSE [r EXCEPT !.ttl = @ - k]

\* The addresses in list l behind place j, where a pass has not been yet.
Pending(d, ch, l, j) == {d.mac[ch[l][i]] : i \in (j + 1)..Len(ch[l])}

\* What is known during a pass over list l while the addresses P are pending.
Walked(R, l, P) ==
  [m \in Macs |-> IF R[m] # NULL /\ R[m].port = l /\ m \notin P THEN Older(R[m], 1) ELSE R[m]]

\* A pass over list l, begun when R was known, has come to place j + 1, and has
\* at most left places before it.
Walk(R, l, s, left) ==
  /\ s \in [d : Database, cur : Pointers]
  /\ \E ch \in [Ports -> Seq(Nodes)] : \E j \in 0..Len(ch[l]) :
       /\ s.cur = At(ch[l], j + 1)
       /\ Holds(s.d, ch, Walked(R, l, Pending(s.d, ch, l, j)))
       /\ Len(ch[l]) - j <= left

\* Ageing keeps the records what they are.
LEMMA OlderType ==
  ASSUME NEW r \in Record \cup {NULL}, NEW k \in Nat
  PROVE  /\ Older(r, k) \in Record \cup {NULL}
         /\ Older(r, k) # NULL => Older(r, k).port = r.port
<1>1. CASE r = NULL \/ r.ttl < k
  BY <1>1 DEF Older
<1>2. CASE ~(r = NULL \/ r.ttl < k)
  <2>1. r \in Record /\ r.ttl \in 0..UpdateTTL /\ r.ttl - k \in 0..UpdateTTL
    BY <1>2, NeighbDBAssumption DEF Record
  <2>2. Older(r, k) = [r EXCEPT !.ttl = @ - k]
    BY <1>2 DEF Older
  <2> QED
    BY <2>1, <2>2 DEF Record
<1> QED
  BY <1>1, <1>2

\* The pending addresses are those of the nodes that come.
LEMMA PendingIs ==
  ASSUME NEW d, NEW ch, NEW R, Holds(d, ch, R), NEW l \in Ports, NEW j \in 0..Len(ch[l])
  PROVE  /\ \A i \in 1..Len(ch[l]) : d.mac[ch[l][i]] \in Pending(d, ch, l, j) <=> i > j
         /\ Pending(d, ch, l, j) \subseteq Macs
         /\ j < Len(ch[l]) =>
              Pending(d, ch, l, j + 1) = Pending(d, ch, l, j) \ {d.mac[ch[l][j + 1]]}
<1>1. Len(ch[l]) \in Nat
  BY ShortLists
<1>2. \A a \in 0..Len(ch[l]) : \A i \in 1..Len(ch[l]) : d.mac[ch[l][i]] \in Pending(d, ch, l, a) <=> i > a
  <2> SUFFICES ASSUME NEW a \in 0..Len(ch[l]), NEW i \in 1..Len(ch[l])
               PROVE  d.mac[ch[l][i]] \in Pending(d, ch, l, a) <=> i > a
    OBVIOUS
  <2>1. i \in (a + 1)..Len(ch[l]) <=> i > a
    BY <1>1
  <2>2. \A b \in (a + 1)..Len(ch[l]) : b \in 1..Len(ch[l])
    BY <1>1
  <2>3. \A b \in (a + 1)..Len(ch[l]) : d.mac[ch[l][b]] = d.mac[ch[l][i]] => b = i
    BY <2>2, Apart
  <2> QED
    BY <2>1, <2>3 DEF Pending
<1>3. \A i \in (j + 1)..Len(ch[l]) : d.mac[ch[l][i]] \in Macs /\ i \in 1..Len(ch[l])
  <2>1. \A i \in (j + 1)..Len(ch[l]) : i \in 1..Len(ch[l])
    BY <1>1
  <2> QED
    BY <2>1 DEF Holds, Tells
<1>4. ASSUME j < Len(ch[l])
      PROVE  Pending(d, ch, l, j + 1) = Pending(d, ch, l, j) \ {d.mac[ch[l][j + 1]]}
  <2>1. \A i : i \in (j + 1)..Len(ch[l]) <=> i = j + 1 \/ i \in (j + 1 + 1)..Len(ch[l])
    BY <1>1, <1>4
  <2>2. \A i \in (j + 1 + 1)..Len(ch[l]) : i # j + 1 /\ i \in 1..Len(ch[l]) /\ j + 1 \in 1..Len(ch[l])
    BY <1>1
  <2>3. \A i \in (j + 1 + 1)..Len(ch[l]) : d.mac[ch[l][i]] # d.mac[ch[l][j + 1]]
    BY <2>2, Apart
  <2> QED
    BY <2>1, <2>3 DEF Pending
<1>5. Pending(d, ch, l, j) \subseteq Macs
  BY <1>3 DEF Pending
<1>6. j \in 0..Len(ch[l])
  OBVIOUS
<1> QED
  BY <1>2, <1>4, <1>5, <1>6

\* A node that is not purged loses one of its time to live.
Decremented(d, n) == [d EXCEPT !.ttl[n] = @ - 1]
OneOlder(R, m) == [R EXCEPT ![m] = Older(R[m], 1)]

\* Its neighbour's record is one older, and no other.
LEMMA DecrementHolds ==
  ASSUME NEW d, NEW ch, NEW R, Holds(d, ch, R), NEW l \in Ports, NEW k \in 1..Len(ch[l]),
         d.ttl[ch[l][k]] # 0
  PROVE  /\ Holds(Decremented(d, ch[l][k]), ch, OneOlder(R, d.mac[ch[l][k]]))
         /\ Decremented(d, ch[l][k]).mac = d.mac
<1> DEFINE n == ch[l][k]
           m == d.mac[n]
           e == Decremented(d, n)
           Q == [R EXCEPT ![m] = Older(R[m], 1)]
<1>0. d \in Database /\ ch \in [Ports -> Seq(Nodes)] /\ R \in [Macs -> Record \cup {NULL}] /\ m \in Macs
  BY DEF Holds, Linked, Tells
<1>00. ch[l] \in Seq(Nodes) /\ n \in Nodes
  BY <1>0
<1>1. R[m] = [port |-> l, ttl |-> d.ttl[n]]
  BY DEF Holds, Tells
<1>2. d.ttl[n] \in 0..UpdateTTL /\ d.ttl[n] # 0 /\ d.ttl[n] - 1 \in 0..UpdateTTL
  <2>1. d.ttl[n] \in 0..UpdateTTL
    BY <1>0, <1>00 DEF Database
  <2> QED
    BY <2>1, NeighbDBAssumption
<1>3. Older(R[m], 1) = [port |-> l, ttl |-> d.ttl[n] - 1]
  <2>1. R[m] \in Record
    BY <1>1, <1>2 DEF Record
  <2>2. R[m] # NULL /\ ~(R[m].ttl < 1)
    BY <1>1, <1>2, <2>1, NeighbDBAssumption DEF Record
  <2> QED
    BY <1>1, <2>2 DEF Older
<1>u. d.uaf = FALSE
  BY DEF Holds
<1>h. n # NULL
  BY <1>00, NeighbDBAssumption
<1> HIDE DEF n
<1>4. /\ e \in Database /\ e.first = d.first /\ e.tail = d.tail /\ e.total = d.total
      /\ e.pre = d.pre /\ e.next = d.next /\ e.mac = d.mac /\ e.heap = d.heap /\ e.uaf = d.uaf
      /\ \A q \in Nodes : e.ttl[q] = IF q = n THEN d.ttl[n] - 1 ELSE d.ttl[q]
  BY <1>0, <1>00, <1>2 DEF Database, Decremented
<1> HIDE DEF e
<1>5. Linked(e, ch)
  BY <1>4 DEF Holds, Linked
<1>6. Q \in [Macs -> Record \cup {NULL}] /\ Q[m] = [port |-> l, ttl |-> d.ttl[n] - 1]
      /\ \A q \in Macs : q # m => Q[q] = R[q]
  <2>1. [port |-> l, ttl |-> d.ttl[n] - 1] \in Record
    BY <1>2 DEF Record
  <2> HIDE DEF m
  <2> QED
    BY <1>0, <1>3, <2>1
<1> HIDE DEF Q
<1>7. ASSUME NEW i \in Ports, NEW j \in 1..Len(ch[i])
      PROVE  /\ e.mac[ch[i][j]] \in Macs
             /\ Q[e.mac[ch[i][j]]] = [port |-> i, ttl |-> e.ttl[ch[i][j]]]
             /\ \A b \in 1..Len(ch[i]) : e.mac[ch[i][b]] = e.mac[ch[i][j]] => b = j
  <2>1. /\ d.mac[ch[i][j]] \in Macs
        /\ R[d.mac[ch[i][j]]] = [port |-> i, ttl |-> d.ttl[ch[i][j]]]
        /\ \A b \in 1..Len(ch[i]) : d.mac[ch[i][b]] = d.mac[ch[i][j]] => b = j
    BY DEF Holds, Tells
  <2>2. ch[i][j] \in Nodes
    BY <1>0
  <2>3. d.mac[ch[i][j]] = m <=> i = l /\ j = k
    <3>1. d.mac[ch[i][j]] = d.mac[ch[l][k]] => i = l /\ j = k
      BY Apart
    <3> QED
      BY <3>1 DEF n
  <2>4. CASE i = l /\ j = k
    <3>1. ch[i][j] = n
      BY <2>4 DEF n
    <3> QED
      <4>1. e.ttl[ch[i][j]] = d.ttl[n] - 1 /\ e.mac[ch[i][j]] = m
        BY <1>4, <1>00, <3>1
      <4>2. Q[m] = [port |-> i, ttl |-> d.ttl[n] - 1]
        BY <1>6, <2>4
      <4> QED
        BY <1>0, <1>4, <2>1, <4>1, <4>2
  <2>5. CASE ~(i = l /\ j = k)
    <3>1. ch[i][j] # n
      BY <2>3, <2>5
    <3> QED
      BY <1>4, <1>6, <2>1, <2>2, <2>3, <2>5, <3>1
  <2> QED
    BY <2>4, <2>5
<1>8. ASSUME NEW q \in Macs, Q[q] # NULL
      PROVE  \E a \in 1..Len(ch[Q[q].port]) : e.mac[ch[Q[q].port][a]] = q
  <2>1. CASE q = m
    <3>1. Q[q].port = l
      BY <1>6, <2>1
    <3>2. e.mac[ch[l][k]] = q
      BY <1>4, <2>1 DEF n
    <3> QED
      BY <3>1, <3>2
  <2>2. CASE q # m
    BY <1>4, <1>6, <1>8, <2>2 DEF Holds, Tells
  <2> QED
    BY <2>1, <2>2
<1>9. Tells(e, ch, Q)
  BY <1>6, <1>7, <1>8 DEF Tells
<1>10. Holds(e, ch, Q)
  BY <1>4, <1>5, <1>9, <1>u DEF Holds
<1> QED
  BY <1>4, <1>10 DEF OneOlder, n, e, Q

\* One turn of the ageing loop reads a node in use, and is one place further or
\* has purged it.
LEMMA VisitWalk ==
  ASSUME NEW R \in [Macs -> Record \cup {NULL}], NEW l \in Ports, NEW s, NEW left \in Int,
         Walk(R, l, s, left), s.cur # NULL
  PROVE  Walk(R, l, Visit(s), left - 1)
<1> DEFINE d == s.d
           n == s.cur
           v == Visit(s)
<1>c. PICK ch \in [Ports -> Seq(Nodes)] : \E j \in 0..Len(ch[l]) :
        /\ n = At(ch[l], j + 1)
        /\ Holds(d, ch, Walked(R, l, Pending(d, ch, l, j)))
        /\ Len(ch[l]) - j <= left
  BY DEF Walk
<1>1. PICK j \in 0..Len(ch[l]) :
        /\ n = At(ch[l], j + 1)
        /\ Holds(d, ch, Walked(R, l, Pending(d, ch, l, j)))
        /\ Len(ch[l]) - j <= left
  BY <1>c
<1> DEFINE c == ch[l]
           k == j + 1
           P == Pending(d, ch, l, j)
           Q == Walked(R, l, P)
           m == d.mac[n]
<1>2. /\ c \in Seq(Nodes) /\ Len(c) \in Nat /\ k \in 1..Len(c) /\ k \in Nat /\ k + 1 \in Nat
      /\ j < Len(c) /\ j \in Nat /\ j \in 0..Len(c) /\ n = c[k]
      /\ Len(c) - 1 \in Nat /\ j \in 0..(Len(c) - 1) /\ k \in 0..Len(c)
      /\ Len(c) - k <= left - 1 /\ (Len(c) - 1) - j <= left - 1
  <2>1. c \in Seq(Nodes) /\ Len(c) \in Nat
    BY <1>1
  <2>2. k \in 1..Len(c) /\ n = c[k]
    BY <1>1 DEF At
  <2> QED
    BY <1>1, <2>1, <2>2
<1>3. /\ d \in Database /\ n \in Nodes /\ n \in d.heap /\ d.uaf = FALSE
      /\ d.next[n] = At(c, k + 1) /\ Q[m] = [port |-> l, ttl |-> d.ttl[n]] /\ m \in Macs
      /\ d.ttl[n] \in 0..UpdateTTL
  <2>1. /\ d \in Database /\ d.uaf = FALSE
        /\ c[k] \in d.heap /\ d.next[c[k]] = At(c, k + 1)
        /\ d.mac[c[k]] \in Macs /\ Q[d.mac[c[k]]] = [port |-> l, ttl |-> d.ttl[c[k]]]
    <3>0. Holds(d, ch, Q) /\ k \in 1..Len(ch[l])
      BY <1>1, <1>2
    <3> HIDE DEF Q, d, k
    <3>1. /\ d \in Database /\ d.uaf = FALSE
          /\ ch[l][k] \in d.heap /\ d.next[ch[l][k]] = At(ch[l], k + 1)
      BY <3>0 DEF Holds, Linked
    <3>2. d.mac[ch[l][k]] \in Macs /\ Q[d.mac[ch[l][k]]] = [port |-> l, ttl |-> d.ttl[ch[l][k]]]
      BY <3>0 DEF Holds, Tells
    <3> QED
      BY <3>1, <3>2
  <2>2. c[k] \in Nodes
    BY <1>2
  <2>3. d.ttl[c[k]] \in 0..UpdateTTL
    BY <2>1, <2>2 DEF Database
  <2> HIDE DEF Q, d, c, k
  <2> QED
    BY <1>2, <2>1, <2>2, <2>3
<1>4. /\ m \in P /\ P \in SUBSET Macs
      /\ Pending(d, ch, l, k) = P \ {m}
  <2>1. d.mac[c[k]] \in P <=> k > j
    BY <1>1, <1>2, PendingIs
  <2>2. P \subseteq Macs /\ Pending(d, ch, l, k) = P \ {d.mac[c[k]]}
    BY <1>1, <1>2, PendingIs
  <2>3. k > j
    BY <1>2
  <2> HIDE DEF P, c, k
  <2> QED
    BY <1>2, <2>1, <2>2, <2>3
<1>5. R[m] = [port |-> l, ttl |-> d.ttl[n]] /\ R[m] # NULL /\ R[m].port = l
  <2>1. Q[m] = R[m]
    BY <1>3, <1>4 DEF Walked
  <2>2. [port |-> l, ttl |-> d.ttl[n]] \in [port : Ports, ttl : 0..UpdateTTL]
    BY <1>3
  <2> HIDE DEF Q, m
  <2> QED
    BY <1>3, <2>1, <2>2, NeighbDBAssumption
<1>6. Walked(R, l, P \ {m}) = [Q EXCEPT ![m] = Older(R[m], 1)] /\ Q[m] = R[m]
  <2> HIDE DEF P, m
  <2>1. Q = [q \in Macs |-> IF R[q] # NULL /\ R[q].port = l /\ q \notin P THEN Older(R[q], 1) ELSE R[q]]
    BY DEF Walked
  <2> HIDE DEF Q
  <2>2. [Q EXCEPT ![m] = Older(R[m], 1)] = [q \in Macs |-> IF q = m THEN Older(R[m], 1) ELSE Q[q]]
    BY <2>1
  <2>3. \A q \in Macs : (IF q = m THEN Older(R[m], 1) ELSE Q[q])
                          = IF R[q] # NULL /\ R[q].port = l /\ q \notin P \ {m} THEN Older(R[q], 1) ELSE R[q]
    BY <1>4, <1>5, <2>1
  <2>4. Walked(R, l, P \ {m}) = [q \in Macs |-> IF q = m THEN Older(R[m], 1) ELSE Q[q]]
    BY <2>3 DEF Walked
  <2> QED
    BY <1>3, <1>4, <2>1, <2>2, <2>4
<1>7. v = [d |-> IF d.ttl[n] = 0 THEN PurgeFromDB(d, n) ELSE [d EXCEPT !.ttl[n] = @ - 1],
           cur |-> d.next[n]]
  <2>1. [d EXCEPT !.uaf = @ \/ n \notin d.heap] = d
    <3>1. (d.uaf \/ n \notin d.heap) = d.uaf
      BY <1>3
    <3>2. [d EXCEPT !.uaf = d.uaf] = d
      BY <1>3 DEF Database
    <3> HIDE DEF d, n
    <3> QED
      BY <3>1, <3>2
  <2>2. ~(d.ttl[n] > UpdateTTL)
    BY <1>3, NeighbDBAssumption
  <2> QED
    BY <2>1, <2>2 DEF Visit
<1>8. CASE d.ttl[n] = 0
  <2> DEFINE dh == [ch EXCEPT ![l] = Without(c, k)]
  <2>0. PICK b \in BOOLEAN : PurgeFromDB(d, c[k]) = [Purge(d, c[k]) EXCEPT !.stale = b]
    <3>1. Holds(d, ch, Q) /\ k \in 1..Len(ch[l])
      BY <1>1, <1>2
    <3> HIDE DEF d, k, Q
    <3>2. \E b \in BOOLEAN : PurgeFromDB(d, ch[l][k]) = [Purge(d, ch[l][k]) EXCEPT !.stale = b]
      BY <3>1, PurgeFromDBIs
    <3> QED
      BY <3>2
  <2> DEFINE r == [Purge(d, n) EXCEPT !.stale = b]
  <2>1. v.d = r /\ v.cur = At(c, k + 1) /\ v = [d |-> v.d, cur |-> v.cur]
    <3> HIDE DEF d, n, c, k, v
    <3> QED
      BY <1>2, <1>3, <1>7, <1>8, <2>0
  <2>2. /\ Holds(r, dh, [Q EXCEPT ![m] = NULL])
        /\ \A q \in Nodes \ {n} : r.mac[q] = d.mac[q]
    <3>1. Holds(Purge(d, c[k]), dh, [Q EXCEPT ![d.mac[c[k]]] = NULL]) /\ Purged(Purge(d, c[k]), d, l, c[k])
      BY <1>1, <1>2, PurgeHolds, PurgeIs
    <3>2. n = c[k]
      BY <1>2
    <3> DEFINE e == Purge(d, n)
    <3> HIDE DEF d, n, c, k, Q, dh, m, e
    <3>3. Holds(e, dh, [Q EXCEPT ![m] = NULL]) /\ Purged(e, d, l, n)
      BY <3>1, <3>2 DEF m, e
    <3>4. Holds([e EXCEPT !.stale = b], dh, [Q EXCEPT ![m] = NULL])
          /\ [e EXCEPT !.stale = b].mac = e.mac
      BY <3>3, StaleHolds
    <3>5. \A q \in Nodes \ {n} : e.mac[q] = d.mac[q]
      BY <3>3 DEF Purged
    <3> QED
      BY <3>4, <3>5 DEF e
  <2>3. Older(R[m], 1) = NULL
    BY <1>5, <1>8 DEF Older
  <2>4. dh \in [Ports -> Seq(Nodes)] /\ dh[l] = Without(c, k) /\ Len(dh[l]) = Len(c) - 1
        /\ At(dh[l], j + 1) = At(c, k + 1)
    <3>1. Without(c, k) \in Seq(Nodes) /\ Len(Without(c, k)) = Len(c) - 1
          /\ At(Without(c, k), k) = At(c, k + 1)
      <4> HIDE DEF c, k
      <4>1. ~(k < k)
        BY <1>2
      <4> QED
        BY <1>2, <4>1, WithoutIs
    <3> QED
      BY <1>1, <3>1
  <2>5. Pending(r, dh, l, j) = P \ {m}
    <3> DEFINE w == Without(c, k)
    <3>1. \A i \in (j + 1)..(Len(c) - 1) : r.mac[w[i]] = d.mac[c[i + 1]]
      <4> SUFFICES ASSUME NEW i \in (j + 1)..(Len(c) - 1) PROVE r.mac[w[i]] = d.mac[c[i + 1]]
        OBVIOUS
      <4>1. i \in 1..(Len(c) - 1) /\ ~(i < k) /\ i + 1 \in 1..Len(c) /\ i + 1 # k
        BY <1>2
      <4>2. w[i] = c[i + 1]
        BY <4>1 DEF Without
      <4>3. c[i + 1] # c[k]
        BY <1>1, <1>2, <4>1, Apart
      <4>4. c[i + 1] \in Nodes \ {n}
        BY <1>2, <4>1, <4>3
      <4> HIDE DEF c, w, d, n, k, r
      <4> QED
        BY <2>2, <4>2, <4>4
    <3>2. Pending(r, dh, l, j) = {d.mac[c[i + 1]] : i \in (j + 1)..(Len(c) - 1)}
      <4>1. Pending(r, dh, l, j) = {r.mac[w[i]] : i \in (j + 1)..(Len(c) - 1)}
        <5> HIDE DEF r, dh, w, c
        <5> QED
          BY <2>4 DEF Pending, w
      <4> HIDE DEF r, dh, w, c, d
      <4> QED
        <5> DEFINE S == (j + 1)..(Len(c) - 1)
                   A(i) == r.mac[w[i]]
                   B(i) == d.mac[c[i + 1]]
        <5>1. \A i \in S : A(i) = B(i)
          BY <3>1
        <5> HIDE DEF S, A, B
        <5>2. {A(i) : i \in S} = {B(i) : i \in S}
          BY <5>1
        <5> QED
          BY <4>1, <5>2 DEF S, A, B
    <3>3. Pending(d, ch, l, k) = {d.mac[c[i]] : i \in (k + 1)..Len(c)}
      BY DEF Pending
    <3>4. {d.mac[c[i + 1]] : i \in (j + 1)..(Len(c) - 1)} = {d.mac[c[i]] : i \in (k + 1)..Len(c)}
      <4>1. \A i \in (j + 1)..(Len(c) - 1) : i + 1 \in (k + 1)..Len(c)
        BY <1>2
      <4>2. \A i \in (k + 1)..Len(c) : i - 1 \in (j + 1)..(Len(c) - 1) /\ i - 1 + 1 = i
        BY <1>2
      <4> HIDE DEF d, c, k
      <4> QED
        BY <4>1, <4>2
    <3> HIDE DEF r, dh, c, d, k, P, m
    <3> QED
      BY <1>4, <3>2, <3>3, <3>4
  <2>6. Holds(v.d, dh, Walked(R, l, Pending(v.d, dh, l, j)))
    <3> HIDE DEF r, dh, d, P, Q, m, v
    <3> QED
      BY <1>6, <2>1, <2>2, <2>3, <2>5
  <2>7. v \in [d : Database, cur : Pointers]
    <3>1. v.d \in Database
      BY <2>6 DEF Holds, Linked
    <3>2. At(c, k + 1) \in Pointers
      BY <1>2, AtIs
    <3> HIDE DEF v, c, k
    <3> QED
      BY <2>1, <3>1, <3>2
  <2>8. v.cur = At(dh[l], j + 1) /\ j \in 0..Len(dh[l]) /\ Len(dh[l]) - j <= left - 1
    BY <1>2, <2>1, <2>4
  <2> HIDE DEF v, dh
  <2>9. Walk(R, l, v, left - 1)
    BY <2>4, <2>6, <2>7, <2>8 DEF Walk
  <2> QED
    BY <2>9 DEF v
<1>9. CASE d.ttl[n] # 0
  <2> DEFINE e == Decremented(d, n)
  <2>1. v.d = e /\ v.cur = At(c, k + 1) /\ v = [d |-> v.d, cur |-> v.cur]
    <3> HIDE DEF d, n, c, k, v
    <3> QED
      BY <1>3, <1>7, <1>9 DEF Decremented
  <2>2. Holds(e, ch, [Q EXCEPT ![m] = Older(Q[m], 1)]) /\ e.mac = d.mac
    <3>1. /\ Holds(Decremented(d, c[k]), ch, OneOlder(Q, d.mac[c[k]]))
          /\ Decremented(d, c[k]).mac = d.mac
      <4>1. d.ttl[c[k]] # 0
        <5> HIDE DEF d, n, c, k
        <5> QED
          BY <1>2, <1>9
      <4> QED
        <5>1. Holds(d, ch, Q) /\ k \in 1..Len(ch[l]) /\ d.ttl[ch[l][k]] # 0
          BY <1>1, <1>2, <4>1
        <5> HIDE DEF d, k, Q
        <5> QED
          BY <5>1, DecrementHolds
    <3> HIDE DEF d, n, c, k, Q
    <3> QED
      BY <1>2, <3>1 DEF OneOlder
  <2>3. Pending(e, ch, l, k) = P \ {m}
    <3>1. Pending(e, ch, l, k) = Pending(d, ch, l, k)
      <4> HIDE DEF e, d, k
      <4> QED
        BY <2>2 DEF Pending
    <3> QED
      BY <1>4, <3>1
  <2>4. Holds(v.d, ch, Walked(R, l, Pending(v.d, ch, l, k)))
    <3> HIDE DEF e, d, P, Q, m, v, k
    <3> QED
      BY <1>6, <2>1, <2>2, <2>3
  <2>5. v \in [d : Database, cur : Pointers]
    <3>1. v.d \in Database
      BY <2>4 DEF Holds, Linked
    <3>2. At(c, k + 1) \in Pointers
      BY <1>2, AtIs
    <3> HIDE DEF v, c, k
    <3> QED
      BY <2>1, <3>1, <3>2
  <2> HIDE DEF v, c, k
  <2>6. ch \in [Ports -> Seq(Nodes)]
    BY <1>1
  <2>7. v.cur = At(ch[l], k + 1) /\ k \in 0..Len(ch[l]) /\ Len(ch[l]) - k <= left - 1
    BY <1>2, <2>1 DEF c
  <2>8. Walk(R, l, v, left - 1)
    BY <2>4, <2>5, <2>6, <2>7 DEF Walk
  <2> QED
    BY <2>8 DEF v
<1> QED
  BY <1>8, <1>9

\* A pass over list l leaves each record of it one older.
LEMMA AgeListHolds ==
  ASSUME NEW d, NEW ch, NEW R, Holds(d, ch, R), NEW l \in Ports
  PROVE  \E dh : Holds(AgeList(d, l), dh, Walked(R, l, {}))
<1> DEFINE N == Cardinality(Nodes)
           Step(k, x) == IF x.cur = NULL THEN x ELSE Visit(x)
           In == [k \in 0..N |-> {s \in [d : Database, cur : Pointers] : Walk(R, l, s, N - k)}]
           S == UNION {In[k] : k \in 0..N}
           W(f) == f = [k \in 0..N |-> IF k = 0 THEN [d |-> d, cur |-> d.first[l]] ELSE Step(k, f[k - 1])]
           at == CHOOSE f : W(f)
           g == [k \in 1..N |-> [x \in S |-> Step(k, x)]]
<1>0. N \in Nat
  BY ShortLists
<1>1. AgeList(d, l) = at[N].d
  BY Zenon DEF AgeList
<1>r. R \in [Macs -> Record \cup {NULL}]
  BY DEF Holds, Tells
<1>2. [d |-> d, cur |-> d.first[l]] \in In[0]
  <2>1. d \in Database /\ ch \in [Ports -> Seq(Nodes)] /\ d.first[l] = At(ch[l], 1)
    BY DEF Holds, Linked
  <2>2. ch[l] \in Seq(Nodes) /\ Len(ch[l]) \in Nat /\ 0 \in 0..Len(ch[l]) /\ Len(ch[l]) - 0 <= N - 0
    BY <2>1, ShortLists
  <2>3. At(ch[l], 1) \in Pointers
    BY <2>2, AtIs
  <2>4. Walked(R, l, Pending(d, ch, l, 0)) = R
    <3> DEFINE P == Pending(d, ch, l, 0)
    <3>1. \A i \in 1..Len(ch[l]) : d.mac[ch[l][i]] \in P
      <4>1. \A i \in 1..Len(ch[l]) : i > 0
        BY <2>2
      <4> QED
        BY <2>2, <4>1, PendingIs
    <3> HIDE DEF P
    <3>2. \A m \in Macs : R[m] # NULL /\ R[m].port = l => m \in P
      BY <3>1 DEF Holds, Tells
    <3>3. R = [m \in Macs |-> R[m]]
      BY <1>r
    <3>4. \A m \in Macs :
            R[m] = IF R[m] # NULL /\ R[m].port = l /\ m \notin P THEN Older(R[m], 1) ELSE R[m]
      BY <3>2
    <3>5. Walked(R, l, P) = [m \in Macs |-> R[m]]
      BY <3>4 DEF Walked
    <3> QED
      BY <3>3, <3>5 DEF P
  <2>5. 0 + 1 = 1 /\ 0 \in 0..N
    BY <1>0
  <2> DEFINE s == [d |-> d, cur |-> d.first[l]]
  <2>6. s \in [d : Database, cur : Pointers] /\ s.d = d /\ s.cur = At(ch[l], 0 + 1)
    BY <2>1, <2>3, <2>5
  <2> HIDE DEF s
  <2>7. Walk(R, l, s, N - 0)
    BY <2>1, <2>2, <2>4, <2>6 DEF Walk
  <2> QED
    BY <2>5, <2>6, <2>7 DEF s
<1>3. ASSUME NEW k \in 1..N, NEW x \in In[k - 1] PROVE Step(k, x) \in In[k]
  <2>1. k - 1 \in 0..N /\ k \in 0..N /\ N - (k - 1) \in Int /\ N - (k - 1) - 1 = N - k /\ N - k >= 0
        /\ N - k \in Int
    BY <1>0
  <2>2. x \in [d : Database, cur : Pointers] /\ Walk(R, l, x, N - (k - 1))
    BY <2>1
  <2>3. CASE x.cur # NULL
    <3>1. Walk(R, l, Visit(x), N - k)
      BY <1>r, <2>1, <2>2, <2>3, VisitWalk
    <3>2. Visit(x) \in [d : Database, cur : Pointers]
      BY <3>1 DEF Walk
    <3> QED
      BY <2>1, <2>3, <3>1, <3>2
  <2>4. CASE x.cur = NULL
    <3>1. PICK eh \in [Ports -> Seq(Nodes)] : \E j \in 0..Len(eh[l]) :
            /\ x.cur = At(eh[l], j + 1)
            /\ Holds(x.d, eh, Walked(R, l, Pending(x.d, eh, l, j)))
            /\ Len(eh[l]) - j <= N - (k - 1)
      BY <2>2 DEF Walk
    <3>2. PICK j \in 0..Len(eh[l]) :
            /\ x.cur = At(eh[l], j + 1)
            /\ Holds(x.d, eh, Walked(R, l, Pending(x.d, eh, l, j)))
      BY <3>1
    <3>3. eh[l] \in Seq(Nodes) /\ Len(eh[l]) \in Nat
      OBVIOUS
    <3>4. j + 1 \notin 1..Len(eh[l])
      <4>1. j + 1 \in Nat
        BY <3>3
      <4> QED
        BY <2>4, <3>2, <3>3, <4>1, AtIs
    <3>5. Len(eh[l]) - j <= N - k
      BY <2>1, <3>3, <3>4
    <3>6. Walk(R, l, x, N - k)
      BY <2>2, <3>2, <3>5 DEF Walk
    <3> QED
      BY <2>1, <2>2, <2>4, <3>6
  <2> QED
    BY <2>3, <2>4
<1>k. 0 \in 0..N /\ N \in 0..N /\ \A k \in 1..N : k \in 0..N /\ k - 1 \in 0..N /\ k # 0
  BY <1>0
<1> HIDE DEF In, Step
<1>4. PICK f : Runs(N, g, [d |-> d, cur |-> d.first[l]], f)
  <2> HIDE DEF g
  <2> QED
    BY <1>0, RunsExist
<1>5. f[0] = [d |-> d, cur |-> d.first[l]] /\ \A k \in 1..N : f[k] = g[k][f[k - 1]]
  <2> HIDE DEF g
  <2> QED
    BY <1>4, <1>k DEF Runs
<1>6. ASSUME NEW k \in 1..N, f[k - 1] \in In[k - 1]
      PROVE  f[k] = Step(k, f[k - 1]) /\ f[k] \in In[k]
  <2>1. f[k - 1] \in S
    BY <1>6, <1>k
  <2> HIDE DEF S
  <2>2. f[k] = Step(k, f[k - 1])
    BY <1>5, <2>1
  <2> QED
    BY <1>3, <1>6, <2>2
<1>7. \A k \in 0..N : f[k] \in In[k]
  <2>1. f[0] \in In[0]
    BY <1>2, <1>5
  <2> QED
    BY <1>0, <1>6, <2>1, Steps
<1>8. \E h : W(h)
  <2>1. \A k \in 1..N : f[k] = Step(k, f[k - 1])
    BY <1>6, <1>7, <1>k
  <2>2. \A k \in 0..N : k # 0 => k \in 1..N
    BY <1>0
  <2>3. \A k \in 0..N : f[k] = IF k = 0 THEN [d |-> d, cur |-> d.first[l]] ELSE Step(k, f[k - 1])
    BY <1>5, <2>1, <2>2
  <2>4. f = [k \in 0..N |-> f[k]]
    <3> HIDE DEF g
    <3> QED
      BY <1>4 DEF Runs
  <2>5. f = [k \in 0..N |-> IF k = 0 THEN [d |-> d, cur |-> d.first[l]] ELSE Step(k, f[k - 1])]
    BY <2>3, <2>4
  <2> QED
    BY <2>5
<1>9. W(at)
  <2> HIDE DEF W
  <2> QED
    BY <1>8, Zenon
<1> HIDE DEF at
<1>10. at[0] = [d |-> d, cur |-> d.first[l]] /\ \A k \in 1..N : at[k] = Step(k, at[k - 1])
  <2>1. \A k \in 0..N : at[k] = IF k = 0 THEN [d |-> d, cur |-> d.first[l]] ELSE Step(k, at[k - 1])
    BY <1>9
  <2> QED
    BY <1>k, <2>1
<1>11. at[N] \in In[N]
  <2>1. at[0] \in In[0]
    BY <1>2, <1>10
  <2>2. \A k \in 1..N : at[k - 1] \in In[k - 1] => at[k] \in In[k]
    BY <1>3, <1>10
  <2>3. \A k \in 0..N : at[k] \in In[k]
    BY <1>0, <2>1, <2>2, Steps
  <2> QED
    BY <1>k, <2>3
<1>12. Walk(R, l, at[N], N - N)
  BY <1>11, <1>k DEF In
<1>13. PICK eh \in [Ports -> Seq(Nodes)] : \E j \in 0..Len(eh[l]) :
         /\ Holds(at[N].d, eh, Walked(R, l, Pending(at[N].d, eh, l, j)))
         /\ Len(eh[l]) - j <= N - N
  BY <1>12 DEF Walk
<1>14. PICK j \in 0..Len(eh[l]) :
         /\ Holds(at[N].d, eh, Walked(R, l, Pending(at[N].d, eh, l, j)))
         /\ Len(eh[l]) - j <= N - N
  BY <1>13
<1>15. Pending(at[N].d, eh, l, j) = {}
  <2>1. Len(eh[l]) \in Nat
    OBVIOUS
  <2>2. \A i \in (j + 1)..Len(eh[l]) : FALSE
    BY <1>0, <1>14, <2>1
  <2> QED
    BY <2>2 DEF Pending
<1> QED
  BY <1>1, <1>14, <1>15

\* What is known when the lists up to l have been passed over.
Passed(R, l) ==
  [m \in Macs |-> IF R[m] # NULL /\ R[m].port <= l THEN Older(R[m], 1) ELSE R[m]]

\* What is known k passes over all lists later.
OlderAll(R, k) == [m \in Macs |-> Older(R[m], k)]

\* One more list.
LEMMA PassedOne ==
  ASSUME NEW R \in [Macs -> Record \cup {NULL}], NEW l \in Ports
  PROVE  /\ Walked(Passed(R, l - 1), l, {}) = Passed(R, l)
         /\ Passed(R, l) \in [Macs -> Record \cup {NULL}]
<1>1. \A m \in Macs : R[m] # NULL => R[m].port \in Nat
  BY DEF Record, Ports
<1>2. l \in Nat /\ l - 1 \in Nat
  BY NeighbDBAssumption DEF Ports
<1> DEFINE Q == Passed(R, l - 1)
<1>3. \A m \in Macs : Q[m] = IF R[m] # NULL /\ R[m].port <= l - 1 THEN Older(R[m], 1) ELSE R[m]
  BY DEF Passed
<1> HIDE DEF Q
<1>4. ASSUME NEW m \in Macs
      PROVE  (IF Q[m] # NULL /\ Q[m].port = l /\ m \notin {} THEN Older(Q[m], 1) ELSE Q[m])
               = IF R[m] # NULL /\ R[m].port <= l THEN Older(R[m], 1) ELSE R[m]
  <2>0. Older(R[m], 1) # NULL => Older(R[m], 1).port = R[m].port
    BY OlderType
  <2>1. CASE R[m] = NULL
    BY <1>3, <2>1
  <2>2. CASE R[m] # NULL /\ R[m].port <= l - 1
    <3>1. R[m].port # l /\ R[m].port <= l
      BY <1>1, <1>2, <2>2
    <3>2. Q[m] = Older(R[m], 1)
      BY <1>3, <2>2
    <3> QED
      BY <2>0, <2>2, <3>1, <3>2
  <2>3. CASE R[m] # NULL /\ ~(R[m].port <= l - 1)
    <3>1. R[m].port = l <=> R[m].port <= l
      BY <1>1, <1>2, <2>3
    <3>2. Q[m] = R[m]
      BY <1>3, <2>3
    <3> QED
      BY <2>3, <3>1, <3>2
  <2> QED
    BY <2>1, <2>2, <2>3
<1>5. Walked(Q, l, {}) = Passed(R, l)
  BY <1>4 DEF Walked, Passed
<1>6. \A m \in Macs : Older(R[m], 1) \in Record \cup {NULL}
  BY OlderType
<1>7. Passed(R, l) \in [Macs -> Record \cup {NULL}]
  BY <1>6 DEF Passed
<1> QED
  BY <1>5, <1>7 DEF Q

\* One more pass.
LEMMA OlderOne ==
  ASSUME NEW R \in [Macs -> Record \cup {NULL}], NEW k \in Nat \ {0}
  PROVE  OlderAll(OlderAll(R, k - 1), 1) = OlderAll(R, k)
<1>1. ASSUME NEW r \in Record \cup {NULL} PROVE Older(Older(r, k - 1), 1) = Older(r, k)
  <2>1. CASE r = NULL
    BY <2>1 DEF Older
  <2>2. CASE r # NULL
    <3>1. r \in Record /\ r.ttl \in Nat /\ r = [port |-> r.port, ttl |-> r.ttl]
      BY <2>2, NeighbDBAssumption DEF Record
    <3>2. CASE r.ttl < k - 1
      <4>1. r.ttl < k
        BY <3>1, <3>2
      <4> QED
        BY <3>2, <4>1 DEF Older
    <3>3. CASE ~(r.ttl < k - 1)
      <4> DEFINE q == [port |-> r.port, ttl |-> r.ttl - (k - 1)]
      <4>1. Older(r, k - 1) = q
        BY <2>2, <3>1, <3>3 DEF Older
      <4>2. q # NULL
        <5>1. q \in Record
          BY <3>1, <3>3, NeighbDBAssumption DEF Record
        <5> QED
          BY <5>1, NeighbDBAssumption DEF Record
      <4>3. (r.ttl - (k - 1) < 1 <=> r.ttl < k) /\ r.ttl - (k - 1) - 1 = r.ttl - k
        BY <3>1
      <4>4. Older(q, 1) = IF r.ttl - (k - 1) < 1 THEN NULL ELSE [port |-> r.port, ttl |-> r.ttl - (k - 1) - 1]
        BY <4>2 DEF Older
      <4>5. Older(r, k) = IF r.ttl < k THEN NULL ELSE [port |-> r.port, ttl |-> r.ttl - k]
        BY <2>2, <3>1 DEF Older
      <4> QED
        BY <4>1, <4>3, <4>4, <4>5
    <3> QED
      BY <3>2, <3>3
  <2> QED
    BY <2>1, <2>2
<1>2. \A m \in Macs : R[m] \in Record \cup {NULL}
  OBVIOUS
<1>3. \A m \in Macs : Older(OlderAll(R, k - 1)[m], 1) = Older(R[m], k)
  BY <1>1, <1>2 DEF OlderAll
<1>4. OlderAll(OlderAll(R, k - 1), 1) = [m \in Macs |-> Older(OlderAll(R, k - 1)[m], 1)]
  BY DEF OlderAll
<1>5. OlderAll(R, k) = [m \in Macs |-> Older(R[m], k)]
  BY DEF OlderAll
<1> QED
  BY <1>3, <1>4, <1>5

\* A pass over all lists leaves each record one older.
LEMMA UpdateHolds ==
  ASSUME NEW d, NEW ch, NEW R, Holds(d, ch, R)
  PROVE  \E dh : Holds(UpdateAllNodeTTL(d), dh, OlderAll(R, 1))
<1> DEFINE N == PortNumber
           Step(k, x) == AgeList(x, k)
           In == [k \in 0..N |-> {x \in Database : \E dh : Holds(x, dh, Passed(R, k))}]
           S == UNION {In[k] : k \in 0..N}
           W(f) == f = [k \in 0..N |-> IF k = 0 THEN d ELSE Step(k, f[k - 1])]
           at == CHOOSE f : W(f)
           g == [k \in 1..N |-> [x \in S |-> Step(k, x)]]
<1>0. N \in Nat
  BY NeighbDBAssumption
<1>1. UpdateAllNodeTTL(d) = at[N]
  BY Zenon DEF UpdateAllNodeTTL
<1>r. R \in [Macs -> Record \cup {NULL}] /\ d \in Database
  BY DEF Holds, Linked, Tells
<1>2. d \in In[0]
  <2>1. Passed(R, 0) = R
    <3>1. \A m \in Macs : R[m] # NULL => ~(R[m].port <= 0)
      BY <1>r DEF Record, Ports
    <3>2. R = [m \in Macs |-> R[m]]
      BY <1>r
    <3>3. Passed(R, 0) = [m \in Macs |-> R[m]]
      BY <3>1 DEF Passed
    <3> QED
      BY <3>2, <3>3
  <2>2. 0 \in 0..N
    BY <1>0
  <2> QED
    BY <1>r, <2>1, <2>2
<1>3. ASSUME NEW k \in 1..N, NEW x \in In[k - 1] PROVE Step(k, x) \in In[k]
  <2>1. k - 1 \in 0..N /\ k \in 0..N /\ k \in Ports
    BY <1>0 DEF Ports
  <2>2. PICK eh : Holds(x, eh, Passed(R, k - 1))
    BY <2>1
  <2>3. PICK dh : Holds(AgeList(x, k), dh, Walked(Passed(R, k - 1), k, {}))
    BY <2>1, <2>2, AgeListHolds
  <2>4. Holds(AgeList(x, k), dh, Passed(R, k))
    BY <1>r, <2>1, <2>3, PassedOne
  <2>5. AgeList(x, k) \in Database
    BY <2>4 DEF Holds, Linked
  <2> QED
    BY <2>1, <2>4, <2>5
<1>k. 0 \in 0..N /\ N \in 0..N /\ \A k \in 1..N : k \in 0..N /\ k - 1 \in 0..N /\ k # 0
  BY <1>0
<1> HIDE DEF In, Step
<1>4. PICK f : Runs(N, g, d, f)
  <2> HIDE DEF g
  <2> QED
    BY <1>0, RunsExist
<1>5. f[0] = d /\ \A k \in 1..N : f[k] = g[k][f[k - 1]]
  <2> HIDE DEF g
  <2> QED
    BY <1>4, <1>k DEF Runs
<1>6. ASSUME NEW k \in 1..N, f[k - 1] \in In[k - 1]
      PROVE  f[k] = Step(k, f[k - 1]) /\ f[k] \in In[k]
  <2>1. f[k - 1] \in S
    BY <1>6, <1>k
  <2> HIDE DEF S
  <2>2. f[k] = Step(k, f[k - 1])
    BY <1>5, <2>1
  <2> QED
    BY <1>3, <1>6, <2>2
<1>7. \A k \in 0..N : f[k] \in In[k]
  <2>1. f[0] \in In[0]
    BY <1>2, <1>5
  <2> QED
    BY <1>0, <1>6, <2>1, Steps
<1>8. \E h : W(h)
  <2>1. \A k \in 1..N : f[k] = Step(k, f[k - 1])
    BY <1>6, <1>7, <1>k
  <2>2. \A k \in 0..N : k # 0 => k \in 1..N
    BY <1>0
  <2>3. \A k \in 0..N : f[k] = IF k = 0 THEN d ELSE Step(k, f[k - 1])
    BY <1>5, <2>1, <2>2
  <2>4. f = [k \in 0..N |-> f[k]]
    <3> HIDE DEF g
    <3> QED
      BY <1>4 DEF Runs
  <2>5. f = [k \in 0..N |-> IF k = 0 THEN d ELSE Step(k, f[k - 1])]
    BY <2>3, <2>4
  <2> QED
    BY <2>5
<1>9. W(at)
  <2> HIDE DEF W
  <2> QED
    BY <1>8, Zenon
<1> HIDE DEF at
<1>10. at[0] = d /\ \A k \in 1..N : at[k] = Step(k, at[k - 1])
  <2>1. \A k \in 0..N : at[k] = IF k = 0 THEN d ELSE Step(k, at[k - 1])
    BY <1>9
  <2> QED
    BY <1>k, <2>1
<1>11. at[N] \in In[N]
  <2>1. at[0] \in In[0]
    BY <1>2, <1>10
  <2>2. \A k \in 1..N : at[k - 1] \in In[k - 1] => at[k] \in In[k]
    BY <1>3, <1>10
  <2>3. \A k \in 0..N : at[k] \in In[k]
    BY <1>0, <2>1, <2>2, Steps
  <2> QED
    BY <1>k, <2>3
<1>12. \E dh : Holds(at[N], dh, Passed(R, N))
  BY <1>11, <1>k DEF In
<1>13. Passed(R, N) = OlderAll(R, 1)
  <2>1. \A m \in Macs : R[m] # NULL => R[m].port <= N
    BY <1>r DEF Record, Ports
  <2>2. \A m \in Macs : R[m] = NULL => Older(R[m], 1) = R[m]
    BY DEF Older
  <2>3. \A m \in Macs : (IF R[m] # NULL /\ R[m].port <= N THEN Older(R[m], 1) ELSE R[m]) = Older(R[m], 1)
    BY <2>1, <2>2
  <2> QED
    BY <2>3 DEF Passed, OlderAll
<1> QED
  BY <1>1, <1>12, <1>13

\* A general report passes over the lists once for every interface.
LEMMA ReportHolds ==
  ASSUME NEW ch, NEW R, Holds(db, ch, R), GeneralReport
  PROVE  \E dh : Holds(db', dh, OlderAll(R, Cardinality(IfIndexes)))
<1> DEFINE N == Cardinality(IfIndexes)
           Step(k, x) == UpdateAllNodeTTL(x)
           In == [k \in 0..N |-> {x \in Database : \E dh : Holds(x, dh, OlderAll(R, k))}]
           S == UNION {In[k] : k \in 0..N}
           W(f) == f = [k \in 0..N |-> IF k = 0 THEN db ELSE Step(k, f[k - 1])]
           at == CHOOSE f : W(f)
           g == [k \in 1..N |-> [x \in S |-> Step(k, x)]]
<1>0. N \in Nat
  BY NeighbDBAssumption, FS_CardinalityType
<1>1. db' = at[N]
  BY Zenon DEF GeneralReport
<1>r. R \in [Macs -> Record \cup {NULL}] /\ db \in Database
  BY DEF Holds, Linked, Tells
<1>2. db \in In[0]
  <2>1. OlderAll(R, 0) = R
    <3>1. ASSUME NEW r \in Record \cup {NULL} PROVE Older(r, 0) = r
      <4>1. CASE r = NULL
        BY <4>1 DEF Older
      <4>2. CASE r # NULL
        <5>1. r \in Record /\ r.ttl \in Nat /\ r = [port |-> r.port, ttl |-> r.ttl]
          BY <4>2, NeighbDBAssumption DEF Record
        <5>2. ~(r.ttl < 0) /\ r.ttl - 0 = r.ttl
          BY <5>1
        <5>3. Older(r, 0) = [port |-> r.port, ttl |-> r.ttl - 0]
          BY <4>2, <5>1, <5>2 DEF Older
        <5> QED
          BY <5>1, <5>2, <5>3
      <4> QED
        BY <4>1, <4>2
    <3>2. \A m \in Macs : Older(R[m], 0) = R[m]
      BY <1>r, <3>1
    <3>3. R = [m \in Macs |-> R[m]]
      BY <1>r
    <3> QED
      BY <3>2, <3>3 DEF OlderAll
  <2>2. 0 \in 0..N
    BY <1>0
  <2> QED
    BY <1>r, <2>1, <2>2
<1>3. ASSUME NEW k \in 1..N, NEW x \in In[k - 1] PROVE Step(k, x) \in In[k]
  <2>1. k - 1 \in 0..N /\ k \in 0..N /\ k \in Nat \ {0}
    BY <1>0
  <2>2. PICK eh : Holds(x, eh, OlderAll(R, k - 1))
    BY <2>1
  <2>3. PICK dh : Holds(UpdateAllNodeTTL(x), dh, OlderAll(OlderAll(R, k - 1), 1))
    BY <2>2, UpdateHolds
  <2>4. Holds(UpdateAllNodeTTL(x), dh, OlderAll(R, k))
    BY <1>r, <2>1, <2>3, OlderOne
  <2>5. UpdateAllNodeTTL(x) \in Database
    BY <2>4 DEF Holds, Linked
  <2> QED
    BY <2>1, <2>4, <2>5
<1>k. 0 \in 0..N /\ N \in 0..N /\ \A k \in 1..N : k \in 0..N /\ k - 1 \in 0..N /\ k # 0
  BY <1>0
<1> HIDE DEF In, Step
<1>4. PICK f : Runs(N, g, db, f)
  <2> HIDE DEF g
  <2> QED
    BY <1>0, RunsExist
<1>5. f[0] = db /\ \A k \in 1..N : f[k] = g[k][f[k - 1]]
  <2> HIDE DEF g
  <2> QED
    BY <1>4, <1>k DEF Runs
<1>6. ASSUME NEW k \in 1..N, f[k - 1] \in In[k - 1]
      PROVE  f[k] = Step(k, f[k - 1]) /\ f[k] \in In[k]
  <2>1. f[k - 1] \in S
    BY <1>6, <1>k
  <2> HIDE DEF S
  <2>2. f[k] = Step(k, f[k - 1])
    BY <1>5, <2>1
  <2> QED
    BY <1>3, <1>6, <2>2
<1>7. \A k \in 0..N : f[k] \in In[k]
  <2>1. f[0] \in In[0]
    BY <1>2, <1>5
  <2> QED
    BY <1>0, <1>6, <2>1, Steps
<1>8. \E h : W(h)
  <2>1. \A k \in 1..N : f[k] = Step(k, f[k - 1])
    BY <1>6, <1>7, <1>k
  <2>2. \A k \in 0..N : k # 0 => k \in 1..N
    BY <1>0
  <2>3. \A k \in 0..N : f[k] = IF k = 0 THEN db ELSE Step(k, f[k - 1])
    BY <1>5, <2>1, <2>2
  <2>4. f = [k \in 0..N |-> f[k]]
    <3> HIDE DEF g
    <3> QED
      BY <1>4 DEF Runs
  <2>5. f = [k \in 0..N |-> IF k = 0 THEN db ELSE Step(k, f[k - 1])]
    BY <2>3, <2>4
  <2> QED
    BY <2>5
<1>9. W(at)
  <2> HIDE DEF W
  <2> QED
    BY <1>8, Zenon
<1> HIDE DEF at
<1>10. at[0] = db /\ \A k \in 1..N : at[k] = Step(k, at[k - 1])
  <2>1. \A k \in 0..N : at[k] = IF k = 0 THEN db ELSE Step(k, at[k - 1])
    BY <1>9
  <2> QED
    BY <1>k, <2>1
<1>11. at[N] \in In[N]
  <2>1. at[0] \in In[0]
    BY <1>2, <1>10
  <2>2. \A k \in 1..N : at[k - 1] \in In[k - 1] => at[k] \in In[k]
    BY <1>3, <1>10
  <2>3. \A k \in 0..N : at[k] \in In[k]
    BY <1>0, <2>1, <2>2, Steps
  <2> QED
    BY <1>k, <2>3
<1>12. \E dh : Holds(at[N], dh, OlderAll(R, N))
  BY <1>11, <1>k DEF In
<1> QED
  BY <1>1, <1>12

-----------------------------------------------------------------------------
(* A neighbour's report. *)

\* Node q is in use, but in no list yet.
Spare(d, ch, q) ==
  q \in d.heap /\ \A i \in Ports : \A j \in 1..Len(ch[i]) : ch[i][j] # q

\* A neighbour that reports is forgotten; a spare node is not touched.
LEMMA ForgetHolds ==
  ASSUME NEW d, NEW ch, NEW R, Holds(d, ch, R), NEW m \in Macs,
         NEW q \in Nodes, Spare(d, ch, q)
  PROVE  \E dh : /\ Holds(Forget(d, m), dh, [R EXCEPT ![m] = NULL])
                 /\ Spare(Forget(d, m), dh, q)
                 /\ Forget(d, m).mac[q] = d.mac[q] /\ Forget(d, m).ttl[q] = d.ttl[q]
<1> DEFINE s == Scan(d)
           known == {i \in DOMAIN s : d.mac[s[i]] = m}
<1>1. /\ s \in Seq(Nodes) /\ DOMAIN s = 1..Len(s) /\ Len(s) \in Nat
      /\ \A i \in 1..Len(s) : \E l \in Ports : \E j \in 1..Len(ch[l]) : ch[l][j] = s[i]
      /\ \A l \in Ports : \A j \in 1..Len(ch[l]) : \E i \in 1..Len(s) : s[i] = ch[l][j]
  <2>1. s \in Seq(Nodes)
    BY ScanIs
  <2>2. ASSUME NEW i \in 1..Len(s)
        PROVE  \E l \in Ports : \E j \in 1..Len(ch[l]) : ch[l][j] = s[i]
    BY ScanIs
  <2>3. ASSUME NEW l \in Ports, NEW j \in 1..Len(ch[l])
        PROVE  \E i \in 1..Len(s) : s[i] = ch[l][j]
    BY ScanIs
  <2> HIDE DEF s
  <2>4. DOMAIN s = 1..Len(s) /\ Len(s) \in Nat
    BY <2>1
  <2> QED
    BY <2>1, <2>2, <2>3, <2>4
<1>2. Forget(d, m) = IF known = {} THEN d ELSE Purge(d, s[Min(known)])
  BY DEF Forget
<1>r. R \in [Macs -> Record \cup {NULL}]
  BY DEF Holds, Tells
<1> HIDE DEF s
<1>3. CASE known = {}
  <2>1. R[m] = NULL
    <3> SUFFICES ASSUME R[m] # NULL PROVE FALSE
      OBVIOUS
    <3>1. R[m].port \in Ports
      BY <1>r DEF Record
    <3>2. PICK j \in 1..Len(ch[R[m].port]) : d.mac[ch[R[m].port][j]] = m
      BY DEF Holds, Tells
    <3>3. PICK i \in 1..Len(s) : s[i] = ch[R[m].port][j]
      BY <1>1, <3>1
    <3> QED
      BY <1>1, <1>3, <3>2, <3>3
  <2>2. [R EXCEPT ![m] = NULL] = R
    BY <1>r, <2>1
  <2> QED
    BY <1>2, <1>3, <2>2
<1>4. CASE known # {}
  <2> DEFINE i == Min(known)
  <2>1. i \in known
    <3>1. known \in SUBSET Nat
      BY <1>1
    <3>2. \E x \in known : \A y \in known : x <= y
      <4> HIDE DEF known
      <4> QED
        BY <1>4, <3>1, LeastOf
    <3> HIDE DEF known
    <3> QED
      BY <3>2 DEF Min
  <2> HIDE DEF i
  <2>2. i \in 1..Len(s) /\ d.mac[s[i]] = m
    BY <1>1, <2>1
  <2>3. PICK l \in Ports : \E k \in 1..Len(ch[l]) : ch[l][k] = s[i]
    BY <1>1, <2>2
  <2>4. PICK k \in 1..Len(ch[l]) : ch[l][k] = s[i]
    BY <2>3
  <2> DEFINE n == ch[l][k]
             dh == [ch EXCEPT ![l] = Without(ch[l], k)]
             r == Purge(d, n)
  <2>5. Forget(d, m) = r /\ d.mac[n] = m
    BY <1>2, <1>4, <2>2, <2>4 DEF i
  <2>6. Holds(r, dh, [R EXCEPT ![d.mac[n]] = NULL]) /\ Purged(r, d, l, n)
    BY PurgeHolds, PurgeIs
  <2>7. q # n /\ q # d.pre[n] /\ ch[l] \in Seq(Nodes)
    <3>1. /\ ch[l] \in Seq(Nodes) /\ d.pre[n] = At(ch[l], k - 1)
      BY DEF Holds, Linked
    <3>2. \A a \in 1..Len(ch[l]) : ch[l][a] # q
      BY DEF Spare
    <3>3. At(ch[l], k - 1) # q
      BY <3>2, NeighbDBAssumption DEF At
    <3> QED
      BY <3>1, <3>2, <3>3
  <2>8. Spare(r, dh, q)
    <3>1. q \in r.heap
      BY <2>6, <2>7 DEF Purged, Spare
    <3>2. ASSUME NEW a \in Ports, NEW j \in 1..Len(dh[a]) PROVE dh[a][j] # q
      <4>0. ch \in [Ports -> Seq(Nodes)]
        BY DEF Holds, Linked
      <4>1. CASE a # l
        BY <4>0, <4>1 DEF Spare
      <4>2. CASE a = l
        <5> DEFINE w == Without(ch[l], k)
        <5>1. dh[a] = w /\ Len(w) = Len(ch[l]) - 1
          <6>1. dh[a] = w
            BY <4>0, <4>2
          <6> HIDE DEF w
          <6> QED
            BY <2>7, <6>1, WithoutIs DEF w
        <5>2. j \in 1..(Len(ch[l]) - 1) /\ Len(ch[l]) \in Nat
          BY <2>7, <5>1
        <5>3. w[j] = IF j < k THEN ch[l][j] ELSE ch[l][j + 1]
          BY <5>2 DEF Without
        <5>4. j \in 1..Len(ch[l]) /\ j + 1 \in 1..Len(ch[l])
          BY <5>2
        <5> HIDE DEF w, dh
        <5> QED
          BY <5>1, <5>3, <5>4 DEF Spare
      <4> QED
        BY <4>1, <4>2
    <3> HIDE DEF r, dh
    <3> QED
      BY <3>1, <3>2 DEF Spare
  <2>9. r.mac[q] = d.mac[q] /\ r.ttl[q] = d.ttl[q]
    BY <2>6, <2>7 DEF Purged
  <2> HIDE DEF r, dh, n
  <2> QED
    BY <2>5, <2>6, <2>8, <2>9
<1> QED
  BY <1>3, <1>4

\* r is d with node n behind the last node of list l.
Appended(r, d, l, n) ==
  /\ r \in Database
  /\ \A i \in Ports : r.first[i] = IF i = l /\ d.first[l] = NULL THEN n ELSE d.first[i]
  /\ \A i \in Ports : r.tail[i] = IF i = l THEN n ELSE d.tail[i]
  /\ \A i \in Ports : r.total[i] = IF i = l THEN d.total[l] + 1 ELSE d.total[i]
  /\ \A k \in Nodes : r.pre[k] = IF k = n THEN d.tail[l] ELSE d.pre[k]
  /\ \A k \in Nodes : r.next[k] = IF k = n THEN NULL ELSE IF k = d.tail[l] THEN n ELSE d.next[k]
  /\ r.mac = d.mac /\ r.ttl = d.ttl /\ r.heap = d.heap /\ r.uaf = d.uaf

\* AppendNode is that, whether the list was empty, had one node or more.
LEMMA AppendIs ==
  ASSUME NEW d, NEW ch, NEW R, Holds(d, ch, R), NEW l \in Ports, NEW n \in Nodes, Spare(d, ch, n)
  PROVE  Appended(AppendNode(d, l, n), d, l, n)
<1> DEFINE c == ch[l]
           t == d.tail[l]
           f == d.first[l]
           d0 == [d EXCEPT !.next[n] = NULL]
           d1 == [d0 EXCEPT !.pre[n] = t, !.tail[l] = n, !.total[l] = @ + 1]
           d2 == IF d0.next[f] = NULL THEN SetPre(SetNext(d1, f, n), f, NULL) ELSE d1
           r == AppendNode(d, l, n)
<1>0. /\ d \in Database /\ c \in Seq(Nodes) /\ Len(c) \in Nat /\ t = At(c, Len(c)) /\ f = At(c, 1)
      /\ d.total[l] = Len(c)
      /\ \A k \in 1..Len(c) : d.pre[c[k]] = At(c, k - 1) /\ d.next[c[k]] = At(c, k + 1)
  <2>1. /\ d \in Database /\ ch \in [Ports -> Seq(Nodes)] /\ t = At(c, Len(c)) /\ f = At(c, 1)
        /\ d.total[l] = Len(c)
        /\ \A k \in 1..Len(c) : d.pre[c[k]] = At(c, k - 1) /\ d.next[c[k]] = At(c, k + 1)
    BY DEF Holds, Linked
  <2>2. c \in Seq(Nodes) /\ Len(c) \in Nat
    BY <2>1
  <2> QED
    BY <2>1, <2>2
<1>00. /\ t \in Pointers /\ f \in Pointers /\ n \in Pointers /\ NULL \in Pointers
       /\ (f = NULL <=> Len(c) = 0) /\ (t = NULL <=> Len(c) = 0)
  <2>1. 1 \in 1..Len(c) <=> Len(c) # 0
    BY <1>0
  <2>2. Len(c) \in 1..Len(c) <=> Len(c) # 0
    BY <1>0
  <2> HIDE DEF c
  <2> QED
    BY <1>0, <2>1, <2>2, AtIs DEF Pointers
<1>n. n # f /\ n # t
  <2>1. \A j \in 1..Len(c) : c[j] # n
    BY DEF Spare
  <2> QED
    BY <1>0, <2>1, NeighbDBAssumption DEF At
<1> HIDE DEF c
<1>d. /\ d0 \in Database /\ d0.first = d.first /\ d0.tail = d.tail /\ d0.total = d.total /\ d0.pre = d.pre
      /\ \A k \in Nodes : d0.next[k] = IF k = n THEN NULL ELSE d.next[k]
      /\ d0.mac = d.mac /\ d0.ttl = d.ttl /\ d0.heap = d.heap /\ d0.uaf = d.uaf
  BY <1>0, <1>00 DEF Database
<1>1. CASE f = NULL
  <2>1. r = [d0 EXCEPT !.pre[n] = NULL, !.first[l] = n, !.tail[l] = n, !.total[l] = 1]
    BY <1>1 DEF AppendNode
  <2>2. 1 \in Nat /\ d.total[l] + 1 = 1 /\ t = NULL /\ t \notin Nodes
    BY <1>0, <1>00, <1>1, NeighbDBAssumption
  <2>3. /\ r \in Database
        /\ \A i \in Ports : /\ r.first[i] = IF i = l THEN n ELSE d.first[i]
                            /\ r.tail[i] = IF i = l THEN n ELSE d.tail[i]
                            /\ r.total[i] = IF i = l THEN 1 ELSE d.total[i]
        /\ \A k \in Nodes : r.pre[k] = IF k = n THEN NULL ELSE d.pre[k]
        /\ r.next = d0.next /\ r.mac = d.mac /\ r.ttl = d.ttl /\ r.heap = d.heap /\ r.uaf = d.uaf
    <3> HIDE DEF r, d0
    <3> QED
      BY <1>00, <1>d, <2>1, <2>2 DEF Database
  <2> HIDE DEF r
  <2> HIDE DEF d0
  <2> QED
    BY <1>1, <1>d, <2>2, <2>3 DEF Appended, r
<1>2. CASE f # NULL
  <2>1. r = SetNext(d2, t, n)
    BY <1>2 DEF AppendNode
  <2>2. /\ d1 \in Database /\ d1.first = d.first
        /\ \A i \in Ports : /\ d1.tail[i] = IF i = l THEN n ELSE d.tail[i]
                            /\ d1.total[i] = IF i = l THEN d.total[l] + 1 ELSE d.total[i]
        /\ \A k \in Nodes : d1.pre[k] = IF k = n THEN t ELSE d.pre[k]
        /\ d1.next = d0.next /\ d1.mac = d.mac /\ d1.ttl = d.ttl /\ d1.heap = d.heap /\ d1.uaf = d.uaf
    <3>1. d.total[l] + 1 \in Nat
      BY <1>0
    <3> HIDE DEF d0
    <3> QED
      BY <1>00, <1>d, <3>1 DEF Database
  <2> HIDE DEF d1
  <2>n. d0.next[f] = d.next[f]
    BY <1>00, <1>2, <1>d, <1>n DEF Pointers
  <2> HIDE DEF d0
  <2>3. d.next[f] = NULL => f = t /\ d.pre[f] = NULL
    <3> SUFFICES ASSUME d.next[f] = NULL PROVE f = t /\ d.pre[f] = NULL
      OBVIOUS
    <3>1. 1 \in 1..Len(c) /\ f = c[1] /\ 1 + 1 = 2 /\ 1 - 1 = 0 /\ 0 \in Nat /\ 2 \in Nat
      BY <1>0, <1>2 DEF At
    <3>2. d.next[f] = At(c, 2) /\ d.pre[f] = At(c, 0)
      BY <1>0, <3>1
    <3>3. 2 \notin 1..Len(c) /\ 0 \notin 1..Len(c)
      BY <1>0, <3>1, <3>2, AtIs
    <3>4. Len(c) = 1
      <4>1. \A b \in Nat : 1 \in 1..b /\ 2 \notin 1..b => b = 1
        OBVIOUS
      <4> QED
        BY <1>0, <3>1, <3>3, <4>1
    <3> QED
      BY <1>0, <3>2, <3>3, <3>4 DEF At
  <2>4. /\ d2 \in Database /\ d2.first = d1.first /\ d2.tail = d1.tail /\ d2.total = d1.total
        /\ \A k \in Nodes : d2.pre[k] = d1.pre[k]
        /\ \A k \in Nodes : k # t => d2.next[k] = d1.next[k]
        /\ d2.mac = d1.mac /\ d2.ttl = d1.ttl /\ d2.heap = d1.heap /\ d2.uaf = d1.uaf
    <3>1. CASE d0.next[f] = NULL
      <4> DEFINE e == SetNext(d1, f, n)
      <4>1. NextSet(e, d1, f, n)
        BY <1>00, <2>2, SetNextIs
      <4>2. d2 = SetPre(e, f, NULL)
        BY <3>1
      <4> HIDE DEF e
      <4>3. e \in Database
        BY <4>1 DEF NextSet
      <4>4. PreSet(d2, e, f, NULL)
        BY <1>00, <4>2, <4>3, SetPreIs
      <4>5. f = t /\ d.pre[f] = NULL /\ f # n
        BY <1>n, <2>3, <2>n, <3>1
      <4> HIDE DEF d2
      <4> QED
        BY <2>2, <4>1, <4>4, <4>5 DEF NextSet, PreSet
    <3>2. CASE d0.next[f] # NULL
      BY <2>2, <3>2
    <3> QED
      BY <3>1, <3>2
  <2> HIDE DEF d2
  <2>5. NextSet(SetNext(d2, t, n), d2, t, n)
    BY <1>00, <2>4, SetNextIs
  <2> HIDE DEF r
  <2>6. Appended(r, d, l, n)
    BY <1>2, <1>d, <1>n, <2>1, <2>2, <2>4, <2>5 DEF NextSet, Appended
  <2> QED
    BY <2>6 DEF r
<1> QED
  BY <1>1, <1>2

\* The new node is the last of its list.
LEMMA AppendLinked ==
  ASSUME NEW d, NEW ch, NEW R, Holds(d, ch, R), NEW l \in Ports, NEW n \in Nodes, Spare(d, ch, n),
         Len(ch[l]) <= MaxEntry, NEW r, Appended(r, d, l, n)
  PROVE  Linked(r, [ch EXCEPT ![l] = Append(ch[l], n)])
<1> DEFINE c == ch[l]
           w == Append(c, n)
           dh == [ch EXCEPT ![l] = w]
<1>0. /\ d \in Database /\ ch \in [Ports -> Seq(Nodes)] /\ \A i \in Ports : ch[i] \in Seq(Nodes) /\ Len(ch[i]) \in Nat
      /\ \A i \in Ports : d.first[i] = At(ch[i], 1) /\ d.tail[i] = At(ch[i], Len(ch[i]))
                          /\ d.total[i] = Len(ch[i]) /\ Len(ch[i]) <= MaxEntry + 1
      /\ \A i \in Ports : \A j \in 1..Len(ch[i]) :
           d.pre[ch[i][j]] = At(ch[i], j - 1) /\ d.next[ch[i][j]] = At(ch[i], j + 1)
           /\ ch[i][j] \in d.heap /\ ch[i][j] \in Nodes
  <2>1. /\ d \in Database /\ ch \in [Ports -> Seq(Nodes)]
        /\ \A i \in Ports : d.first[i] = At(ch[i], 1) /\ d.tail[i] = At(ch[i], Len(ch[i]))
                            /\ d.total[i] = Len(ch[i]) /\ Len(ch[i]) <= MaxEntry + 1
        /\ \A i \in Ports : \A j \in 1..Len(ch[i]) :
             d.pre[ch[i][j]] = At(ch[i], j - 1) /\ d.next[ch[i][j]] = At(ch[i], j + 1)
             /\ ch[i][j] \in d.heap
    BY DEF Holds, Linked
  <2>2. \A i \in Ports : ch[i] \in Seq(Nodes) /\ Len(ch[i]) \in Nat
    BY <2>1
  <2>3. \A i \in Ports : \A j \in 1..Len(ch[i]) : ch[i][j] \in Nodes
    BY <2>2
  <2> QED
    BY <2>1, <2>2, <2>3
<1>s. n \in d.heap /\ \A i \in Ports : \A j \in 1..Len(ch[i]) : ch[i][j] # n
  BY DEF Spare
<1>c. c \in Seq(Nodes) /\ Len(c) \in Nat
  BY <1>0
<1>1. /\ w \in Seq(Nodes) /\ Len(w) = Len(c) + 1 /\ w[Len(c) + 1] = n
      /\ \A j \in 1..Len(c) : w[j] = c[j]
  <2> HIDE DEF c
  <2> QED
    BY <1>c
<1> HIDE DEF w
<1>2. dh \in [Ports -> Seq(Nodes)] /\ dh[l] = w /\ \A i \in Ports : i # l => dh[i] = ch[i]
  BY <1>0, <1>1
<1> HIDE DEF dh
<1>w. \A j \in Nat : At(w, j) = IF j = Len(c) + 1 THEN n ELSE At(c, j)
  <2>1. \A j \in Nat : j \in 1..Len(w) <=> j \in 1..Len(c) \/ j = Len(c) + 1
    BY <1>1, <1>c
  <2>2. Len(c) + 1 \notin 1..Len(c)
    BY <1>c
  <2> HIDE DEF c
  <2> QED
    BY <1>1, <2>1, <2>2 DEF At
<1>p. /\ r \in Database
      /\ \A i \in Ports : r.first[i] = IF i = l /\ d.first[l] = NULL THEN n ELSE d.first[i]
      /\ \A i \in Ports : r.tail[i] = IF i = l THEN n ELSE d.tail[i]
      /\ \A i \in Ports : r.total[i] = IF i = l THEN d.total[l] + 1 ELSE d.total[i]
      /\ \A k \in Nodes : r.pre[k] = IF k = n THEN d.tail[l] ELSE d.pre[k]
      /\ \A k \in Nodes : r.next[k] = IF k = n THEN NULL ELSE IF k = d.tail[l] THEN n ELSE d.next[k]
      /\ r.heap = d.heap
  BY DEF Appended
\* The tail is the last place, and no place of another list.
<1>a. ASSUME NEW i \in Ports, NEW j \in 1..Len(ch[i])
      PROVE  ch[i][j] = d.tail[l] <=> i = l /\ j = Len(c)
  <2>1. CASE Len(c) = 0
    <3>1. d.tail[l] = NULL
      BY <1>0, <2>1 DEF At
    <3>2. ch[i][j] # NULL
      BY <1>0, NeighbDBAssumption
    <3>3. i = l => j # Len(c)
      BY <2>1
    <3> QED
      BY <3>1, <3>2, <3>3
  <2>2. CASE Len(c) # 0
    <3>1. Len(c) \in 1..Len(c)
      BY <1>c, <2>2
    <3>2. d.tail[l] = c[Len(c)]
      BY <1>0, <3>1 DEF At
    <3>3. ch[i][j] = ch[l][Len(c)] <=> i = l /\ j = Len(c)
      BY <3>1, Apart
    <3> QED
      BY <3>2, <3>3
  <2> QED
    BY <2>1, <2>2
<1>t. n # d.tail[l]
  BY <1>0, <1>s, NeighbDBAssumption DEF At
<1>3. ASSUME NEW i \in Ports
      PROVE  /\ r.first[i] = At(dh[i], 1) /\ r.tail[i] = At(dh[i], Len(dh[i]))
             /\ r.total[i] = Len(dh[i]) /\ Len(dh[i]) <= MaxEntry + 1
  <2>1. CASE i # l
    BY <1>0, <1>2, <1>p, <2>1
  <2>2. CASE i = l
    <3>1. d.first[l] = NULL <=> Len(c) = 0
      <4>1. 1 \in 1..Len(c) <=> Len(c) # 0
        BY <1>c
      <4> QED
        BY <1>0, <4>1, AtIs
    <3>2. At(w, 1) = IF Len(c) = 0 THEN n ELSE At(c, 1)
      <4>1. 1 = Len(c) + 1 <=> Len(c) = 0
        BY <1>c
      <4> HIDE DEF c
      <4> QED
        BY <1>w, <4>1
    <3>3. At(w, Len(w)) = n
      <4>1. Len(c) + 1 \in Nat
        BY <1>c
      <4> HIDE DEF c
      <4> QED
        BY <1>1, <1>w, <4>1
    <3>4. Len(w) <= MaxEntry + 1
      BY <1>1, <1>c, NeighbDBAssumption
    <3>5. r.first[l] = At(w, 1)
      BY <1>0, <1>p, <3>1, <3>2
    <3>6. r.tail[l] = At(w, Len(w)) /\ r.total[l] = Len(w)
      BY <1>0, <1>1, <1>p, <3>3
    <3> QED
      BY <1>2, <2>2, <3>4, <3>5, <3>6
  <2> QED
    BY <2>1, <2>2
<1>4. ASSUME NEW i \in Ports, NEW j \in 1..Len(dh[i])
      PROVE  /\ r.pre[dh[i][j]] = At(dh[i], j - 1) /\ r.next[dh[i][j]] = At(dh[i], j + 1)
             /\ dh[i][j] \in r.heap
  <2>1. CASE i # l
    <3>1. dh[i] = ch[i] /\ j \in 1..Len(ch[i])
      BY <1>2, <2>1
    <3>2. ch[i][j] \in Nodes /\ ch[i][j] # n /\ ch[i][j] # d.tail[l]
      BY <1>0, <1>a, <1>s, <2>1, <3>1
    <3>3. /\ r.pre[ch[i][j]] = d.pre[ch[i][j]] /\ r.next[ch[i][j]] = d.next[ch[i][j]]
          /\ ch[i][j] \in r.heap
      BY <1>0, <1>p, <3>1, <3>2
    <3> QED
      BY <1>0, <3>1, <3>3
  <2>2. CASE i = l /\ j = Len(c) + 1
    <3>1. dh[i][j] = n
      BY <1>1, <1>2, <2>2
    <3>2. j - 1 = Len(c) /\ j - 1 \in Nat /\ j + 1 \in Nat /\ j + 1 # Len(c) + 1 /\ j - 1 # Len(c) + 1
          /\ j + 1 \notin 1..Len(c)
      BY <1>c, <2>2
    <3>3. At(w, j - 1) = At(c, Len(c)) /\ At(w, j + 1) = NULL
      <4>1. At(w, j - 1) = At(c, j - 1) /\ At(w, j + 1) = At(c, j + 1)
        BY <1>w, <3>2
      <4> QED
        BY <3>2, <4>1 DEF At
    <3>4. r.pre[n] = d.tail[l] /\ r.next[n] = NULL /\ n \in r.heap
      BY <1>p, <1>s, <1>t
    <3> QED
      BY <1>0, <1>2, <2>2, <3>1, <3>3, <3>4
  <2>3. CASE i = l /\ j # Len(c) + 1
    <3>1. j \in 1..Len(c) /\ j - 1 \in Nat /\ j + 1 \in Nat /\ j - 1 # Len(c) + 1
          /\ (j + 1 = Len(c) + 1 <=> j = Len(c))
      BY <1>1, <1>2, <1>c, <2>3
    <3>2. dh[i][j] = c[j]
      BY <1>1, <1>2, <2>3, <3>1
    <3>3. c[j] \in Nodes /\ c[j] # n /\ (c[j] = d.tail[l] <=> j = Len(c))
      BY <1>0, <1>a, <1>s, <3>1
    <3>4. At(w, j - 1) = At(c, j - 1) /\ At(w, j + 1) = IF j = Len(c) THEN n ELSE At(c, j + 1)
      BY <1>w, <3>1
    <3>5. d.pre[c[j]] = At(c, j - 1) /\ d.next[c[j]] = At(c, j + 1) /\ c[j] \in d.heap
      BY <1>0, <3>1
    <3>6. r.pre[c[j]] = d.pre[c[j]] /\ r.next[c[j]] = IF j = Len(c) THEN n ELSE d.next[c[j]]
      BY <1>p, <3>3
    <3> QED
      BY <1>2, <1>p, <2>3, <3>2, <3>4, <3>5, <3>6
  <2> QED
    BY <2>1, <2>2, <2>3
<1>5. Linked(r, dh)
  BY <1>2, <1>3, <1>4, <1>p DEF Linked
<1> QED
  BY <1>5 DEF dh, w, c

\* The reporting neighbour is known again, and what is known of others stays.
LEMMA AppendTells ==
  ASSUME NEW d, NEW ch, NEW R, Holds(d, ch, R), NEW l \in Ports, NEW n \in Nodes, Spare(d, ch, n),
         d.mac[n] \in Macs, R[d.mac[n]] = NULL, d.ttl[n] = UpdateTTL,
         NEW r, Appended(r, d, l, n)
  PROVE  Tells(r, [ch EXCEPT ![l] = Append(ch[l], n)],
                  [R EXCEPT ![d.mac[n]] = [port |-> l, ttl |-> UpdateTTL]])
<1> DEFINE c == ch[l]
           w == Append(c, n)
           dh == [ch EXCEPT ![l] = w]
           m == d.mac[n]
           new == [port |-> l, ttl |-> UpdateTTL]
           S == [R EXCEPT ![m] = new]
<1>0. /\ ch \in [Ports -> Seq(Nodes)] /\ \A i \in Ports : Len(ch[i]) \in Nat
      /\ \A i \in Ports : \A j \in 1..Len(ch[i]) : ch[i][j] \in Nodes /\ d.mac[ch[i][j]] \in Macs
                                                   /\ R[d.mac[ch[i][j]]] = [port |-> i, ttl |-> d.ttl[ch[i][j]]]
  <2>1. /\ ch \in [Ports -> Seq(Nodes)]
        /\ \A i \in Ports : \A j \in 1..Len(ch[i]) : d.mac[ch[i][j]] \in Macs
                                                   /\ R[d.mac[ch[i][j]]] = [port |-> i, ttl |-> d.ttl[ch[i][j]]]
    BY DEF Holds, Linked, Tells
  <2>2. \A i \in Ports : Len(ch[i]) \in Nat /\ \A j \in 1..Len(ch[i]) : ch[i][j] \in Nodes
    BY <2>1
  <2> QED
    BY <2>1, <2>2
<1>r. /\ R \in [Macs -> Record \cup {NULL}]
      /\ \A q \in Macs : R[q] # NULL => \E k \in 1..Len(ch[R[q].port]) : d.mac[ch[R[q].port][k]] = q
  BY DEF Holds, Tells
<1>c. c \in Seq(Nodes) /\ Len(c) \in Nat
  BY <1>0
<1>1. /\ w \in Seq(Nodes) /\ Len(w) = Len(c) + 1 /\ w[Len(c) + 1] = n
      /\ \A j \in 1..Len(c) : w[j] = c[j]
  <2> HIDE DEF c
  <2> QED
    BY <1>c
<1>p. r.mac = d.mac /\ r.ttl = d.ttl
  BY DEF Appended
<1> HIDE DEF w
<1>2. dh[l] = w /\ \A i \in Ports : i # l => dh[i] = ch[i]
  BY <1>0
<1> HIDE DEF dh
<1>n. new \in Record /\ new # NULL /\ new.port = l
  BY NeighbDBAssumption DEF Record
<1>3. S \in [Macs -> Record \cup {NULL}] /\ S[m] = new /\ \A q \in Macs : q # m => S[q] = R[q]
  BY <1>r, <1>n
<1> HIDE DEF S
\* A place is a place of before, or that of the new node.
<1>4. ASSUME NEW i \in Ports, NEW j \in 1..Len(dh[i])
      PROVE  \/ j \in 1..Len(ch[i]) /\ dh[i][j] = ch[i][j] /\ d.mac[ch[i][j]] # m
             \/ i = l /\ j = Len(c) + 1 /\ dh[i][j] = n
  <2>1. CASE j \in 1..Len(ch[i])
    <3>1. dh[i][j] = ch[i][j]
      <4>1. CASE i = l
        BY <1>1, <1>2, <2>1, <4>1
      <4>2. CASE i # l
        BY <1>2, <4>2
      <4> QED
        BY <4>1, <4>2
    <3>2. d.mac[ch[i][j]] # m
      <4>1. R[d.mac[ch[i][j]]] # NULL
        <5>1. R[d.mac[ch[i][j]]] = [port |-> i, ttl |-> d.ttl[ch[i][j]]] /\ d.mac[ch[i][j]] \in Macs
          BY <1>0, <2>1
        <5>2. d.ttl[ch[i][j]] \in 0..UpdateTTL
          BY <1>0, <2>1 DEF Holds, Linked, Database
        <5>3. [port |-> i, ttl |-> d.ttl[ch[i][j]]] # NULL
          BY <5>2, NeighbDBAssumption
        <5> QED
          BY <5>1, <5>3
      <4> QED
        BY <4>1
    <3> QED
      BY <2>1, <3>1, <3>2
  <2>2. CASE j \notin 1..Len(ch[i])
    <3>1. i = l
      BY <1>2, <2>2
    <3>2. \A b \in Nat : \A a \in 1..(b + 1) : a \in 1..b \/ a = b + 1
      OBVIOUS
    <3>3. j = Len(c) + 1
      BY <1>1, <1>2, <1>c, <2>2, <3>1, <3>2
    <3> QED
      BY <1>1, <1>2, <3>1, <3>3
  <2> QED
    BY <2>1, <2>2
<1>5. ASSUME NEW i \in Ports, NEW j \in 1..Len(dh[i])
      PROVE  /\ r.mac[dh[i][j]] \in Macs
             /\ S[r.mac[dh[i][j]]] = [port |-> i, ttl |-> r.ttl[dh[i][j]]]
  <2>1. CASE j \in 1..Len(ch[i]) /\ dh[i][j] = ch[i][j] /\ d.mac[ch[i][j]] # m
    <3>1. d.mac[ch[i][j]] \in Macs /\ R[d.mac[ch[i][j]]] = [port |-> i, ttl |-> d.ttl[ch[i][j]]]
      BY <1>0, <2>1
    <3> QED
      BY <1>3, <1>p, <2>1, <3>1
  <2>2. CASE i = l /\ dh[i][j] = n
    BY <1>3, <1>p, <2>2
  <2> QED
    BY <1>4, <2>1, <2>2
<1>6. ASSUME NEW i \in Ports, NEW j \in 1..Len(dh[i]), NEW k \in 1..Len(dh[i]),
             r.mac[dh[i][k]] = r.mac[dh[i][j]]
      PROVE  k = j
  <2>1. CASE j \in 1..Len(ch[i]) /\ dh[i][j] = ch[i][j] /\ d.mac[ch[i][j]] # m
    <3>1. d.mac[dh[i][k]] = d.mac[ch[i][j]]
      BY <1>6, <1>p, <2>1
    <3>2. k \in 1..Len(ch[i]) /\ dh[i][k] = ch[i][k]
      BY <1>4, <2>1, <3>1
    <3>3. d.mac[ch[i][k]] = d.mac[ch[i][j]]
      BY <3>1, <3>2
    <3> QED
      BY <2>1, <3>2, <3>3, Apart
  <2>2. CASE i = l /\ j = Len(c) + 1 /\ dh[i][j] = n
    <3>1. d.mac[dh[i][k]] = m
      BY <1>6, <1>p, <2>2
    <3> QED
      BY <1>4, <2>2, <3>1
  <2> QED
    BY <1>4, <2>1, <2>2
<1>7. ASSUME NEW q \in Macs, S[q] # NULL
      PROVE  \E k \in 1..Len(dh[S[q].port]) : r.mac[dh[S[q].port][k]] = q
  <2>1. CASE q = m
    <3>1. S[q].port = l /\ Len(c) + 1 \in 1..Len(w)
      BY <1>1, <1>3, <1>c, <1>n, <2>1
    <3> QED
      BY <1>1, <1>2, <1>p, <2>1, <3>1
  <2>2. CASE q # m
    <3> DEFINE i == R[q].port
    <3>1. S[q] = R[q] /\ i \in Ports
      BY <1>3, <1>7, <1>r, <2>2 DEF Record
    <3>2. PICK k \in 1..Len(ch[i]) : d.mac[ch[i][k]] = q
      BY <1>7, <1>r, <3>1
    <3> HIDE DEF i
    <3>3. k \in 1..Len(dh[i]) /\ dh[i][k] = ch[i][k]
      <4>1. CASE i = l
        <5>1. \A b \in Nat : \A a \in 1..b : a \in 1..(b + 1)
          OBVIOUS
        <5> QED
          BY <1>1, <1>2, <1>c, <3>2, <4>1, <5>1
      <4>2. CASE i # l
        BY <1>2, <3>1, <3>2, <4>2
      <4> QED
        BY <4>1, <4>2
    <3>4. S[q].port = i
      BY <3>1 DEF i
    <3> QED
      BY <1>p, <3>2, <3>3, <3>4
  <2> QED
    BY <2>1, <2>2
<1>8. Tells(r, dh, S)
  BY <1>3, <1>5, <1>6, <1>7 DEF Tells
<1> QED
  BY <1>8 DEF dh, w, c, S, m, new

\* The neighbours known on port l.
Heard(R, l) == {m \in Macs : R[m] # NULL /\ R[m].port = l}

\* There is one node for each.
LEMMA CountIs ==
  ASSUME NEW d, NEW ch, NEW R, Holds(d, ch, R), NEW l \in Ports
  PROVE  IsFiniteSet(Heard(R, l)) /\ Cardinality(Heard(R, l)) = Len(ch[l])
<1> DEFINE f == [k \in 1..Len(ch[l]) |-> d.mac[ch[l][k]]]
           H == Heard(R, l)
<1>0. Len(ch[l]) \in Nat /\ \A j \in 1..Len(ch[l]) : ch[l][j] \in Nodes
  <2>1. ch[l] \in Seq(Nodes)
    BY DEF Holds, Linked
  <2> QED
    BY <2>1
<1>1. ASSUME NEW k \in 1..Len(ch[l]) PROVE f[k] \in H
  <2>1. d.mac[ch[l][k]] \in Macs /\ R[d.mac[ch[l][k]]] = [port |-> l, ttl |-> d.ttl[ch[l][k]]]
    BY DEF Holds, Tells
  <2>2. d.ttl[ch[l][k]] \in 0..UpdateTTL
    BY <1>0 DEF Holds, Linked, Database
  <2>3. [port |-> l, ttl |-> d.ttl[ch[l][k]]] # NULL
    BY <2>2, NeighbDBAssumption
  <2> QED
    BY <2>1, <2>3 DEF Heard
<1>2. ASSUME NEW k \in 1..Len(ch[l]), NEW j \in 1..Len(ch[l]), f[k] = f[j] PROVE k = j
  BY <1>2, Apart
<1>3. ASSUME NEW m \in H PROVE \E k \in 1..Len(ch[l]) : f[k] = m
  <2>1. m \in Macs /\ R[m] # NULL /\ R[m].port = l
    BY DEF Heard
  <2>2. PICK k \in 1..Len(ch[R[m].port]) : d.mac[ch[R[m].port][k]] = m
    BY <2>1 DEF Holds, Tells
  <2> QED
    BY <2>1, <2>2
<1>4. f \in Bijection(1..Len(ch[l]), H)
  <2>1. f \in [1..Len(ch[l]) -> H]
    BY <1>1
  <2> HIDE DEF f, H
  <2>2. f \in Injection(1..Len(ch[l]), H)
    BY <1>2, <2>1 DEF Injection, IsInjective
  <2>3. f \in Surjection(1..Len(ch[l]), H)
    BY <1>3, <2>1 DEF Surjection
  <2> QED
    BY <2>2, <2>3 DEF Bijection
<1>5. ExistsBijection(1..Len(ch[l]), H)
  BY <1>4 DEF ExistsBijection
<1>6. IsFiniteSet(1..Len(ch[l])) /\ Cardinality(1..Len(ch[l])) = Len(ch[l])
  BY <1>0, FS_Interval
<1> QED
  BY <1>5, <1>6, FS_Bijection

\* There is no more room for a neighbour than a list may grow.
LEMMA WithoutOne ==
  ASSUME NEW R \in [Macs -> Record \cup {NULL}], NEW m \in Macs, NEW l \in Ports
  PROVE  Heard([R EXCEPT ![m] = NULL], l) = Heard(R, l) \ {m}
  BY DEF Heard

\* Memory for a node is taken out of no list.
Taken(d, m, n) == [d EXCEPT !.mac[n] = m, !.ttl[n] = UpdateTTL, !.heap = @ \cup {n}]

\* Nothing is told of it yet, and the lists are as before.
LEMMA TakenHolds ==
  ASSUME NEW d, NEW ch, NEW R, Holds(d, ch, R), NEW m \in Macs, NEW n \in Nodes, n \notin d.heap
  PROVE  /\ Holds(Taken(d, m, n), ch, R) /\ Spare(Taken(d, m, n), ch, n)
         /\ Taken(d, m, n).mac[n] = m /\ Taken(d, m, n).ttl[n] = UpdateTTL
<1> DEFINE r == Taken(d, m, n)
<1>0. /\ d \in Database /\ ch \in [Ports -> Seq(Nodes)] /\ UpdateTTL \in 0..UpdateTTL
      /\ \A i \in Ports : \A j \in 1..Len(ch[i]) : ch[i][j] \in Nodes /\ ch[i][j] # n
  <2>1. d \in Database /\ ch \in [Ports -> Seq(Nodes)] /\ UpdateTTL \in 0..UpdateTTL
    BY NeighbDBAssumption DEF Holds, Linked
  <2>2. \A i \in Ports : \A j \in 1..Len(ch[i]) : ch[i][j] \in d.heap
    BY DEF Holds, Linked
  <2>3. d.heap \subseteq Nodes
    BY <2>1 DEF Database
  <2> QED
    BY <2>1, <2>2, <2>3
<1>1. /\ r \in Database /\ r.first = d.first /\ r.tail = d.tail /\ r.total = d.total
      /\ r.pre = d.pre /\ r.next = d.next /\ r.uaf = d.uaf
      /\ r.heap = d.heap \cup {n}
      /\ \A k \in Nodes : /\ r.mac[k] = IF k = n THEN m ELSE d.mac[k]
                          /\ r.ttl[k] = IF k = n THEN UpdateTTL ELSE d.ttl[k]
  BY <1>0 DEF Database, Taken
<1> HIDE DEF r
<1>2. Linked(r, ch)
  BY <1>1 DEF Holds, Linked
<1>3. Tells(r, ch, R)
  <2>1. \A i \in Ports : \A j \in 1..Len(ch[i]) : r.mac[ch[i][j]] = d.mac[ch[i][j]] /\ r.ttl[ch[i][j]] = d.ttl[ch[i][j]]
    BY <1>0, <1>1
  <2>2. R \in [Macs -> Record \cup {NULL}]
    BY DEF Holds, Tells
  <2>3. ASSUME NEW i \in Ports, NEW k \in 1..Len(ch[i])
        PROVE  /\ r.mac[ch[i][k]] \in Macs
               /\ R[r.mac[ch[i][k]]] = [port |-> i, ttl |-> r.ttl[ch[i][k]]]
    BY <2>1 DEF Holds, Tells
  <2>4. ASSUME NEW i \in Ports, NEW k \in 1..Len(ch[i]), NEW j \in 1..Len(ch[i]),
               r.mac[ch[i][j]] = r.mac[ch[i][k]]
        PROVE  j = k
    BY <2>1, <2>4, Apart
  <2>5. ASSUME NEW q \in Macs, R[q] # NULL
        PROVE  \E k \in 1..Len(ch[R[q].port]) : r.mac[ch[R[q].port][k]] = q
    <3>1. R[q].port \in Ports
      BY <2>2, <2>5 DEF Record
    <3>2. PICK k \in 1..Len(ch[R[q].port]) : d.mac[ch[R[q].port][k]] = q
      BY <2>5 DEF Holds, Tells
    <3> QED
      BY <2>1, <3>1, <3>2
  <2> QED
    BY <2>2, <2>3, <2>4, <2>5 DEF Tells
<1>4. Holds(r, ch, R)
  BY <1>1, <1>2, <1>3 DEF Holds
<1>5. Spare(r, ch, n)
  BY <1>0, <1>1 DEF Spare
<1>6. r.mac[n] = m /\ r.ttl[n] = UpdateTTL
  BY <1>1
<1> QED
  BY <1>4, <1>5, <1>6 DEF r

\* What is known after neighbour m reported on port l.
Heeded(R, m, l) ==
  [R EXCEPT ![m] = IF Cardinality(Heard(R, l) \ {m}) > MaxEntry THEN NULL
                   ELSE [port |-> l, ttl |-> UpdateTTL]]

\* Although the report of a neighbour moves its node from any place of any list
\* to the end of one, the lists tell what was heard.
LEMMA InsertHolds ==
  ASSUME NEW d, NEW ch, NEW R, Holds(d, ch, R), NEW m \in Macs, NEW l \in Ports,
         NEW n \in Nodes, n \notin d.heap
  PROVE  \E dh : Holds(Insert(d, l, m, n), dh, Heeded(R, m, l))
<1> DEFINE d1 == Taken(d, m, n)
           d3 == Forget(d1, m)
           S == [R EXCEPT ![m] = NULL]
<1>1. /\ Holds(d1, ch, R) /\ Spare(d1, ch, n)
      /\ d1.mac[n] = m /\ d1.ttl[n] = UpdateTTL
  BY TakenHolds
<1>2. ~ (d1.total[l] = 0 /\ d1.first[l] # NULL)
  <2>1. d1.total[l] = Len(ch[l]) /\ d1.first[l] = At(ch[l], 1)
    BY <1>1 DEF Holds, Linked
  <2>2. Len(ch[l]) = 0 => 1 \notin 1..Len(ch[l])
    OBVIOUS
  <2> QED
    BY <2>1, <2>2 DEF At
<1>3. Insert(d, l, m, n) = IF d3.total[l] > MaxEntry THEN d3 ELSE AppendNode(d3, l, n)
  BY <1>2 DEF Insert, Taken
<1> HIDE DEF d1
<1>4. PICK dh : /\ Holds(d3, dh, S) /\ Spare(d3, dh, n)
                /\ d3.mac[n] = d1.mac[n] /\ d3.ttl[n] = d1.ttl[n]
  BY <1>1, ForgetHolds
<1> HIDE DEF d3
<1>r. R \in [Macs -> Record \cup {NULL}] /\ S[m] = NULL
  BY DEF Holds, Tells
<1>5. d3.total[l] = Len(dh[l]) /\ Len(dh[l]) \in Nat
  BY <1>4 DEF Holds, Linked
<1>6. Cardinality(Heard(R, l) \ {m}) = Len(dh[l])
  <2>1. Cardinality(Heard(S, l)) = Len(dh[l])
    <3> HIDE DEF S
    <3> QED
      BY <1>4, CountIs
  <2>2. Heard(S, l) = Heard(R, l) \ {m}
    BY <1>r, WithoutOne
  <2> QED
    BY <2>1, <2>2
<1>7. CASE d3.total[l] > MaxEntry
  <2>1. Heeded(R, m, l) = S
    BY <1>5, <1>6, <1>7 DEF Heeded
  <2> QED
    BY <1>3, <1>4, <1>7, <2>1
<1>8. CASE ~ (d3.total[l] > MaxEntry)
  <2> DEFINE new == [port |-> l, ttl |-> UpdateTTL]
             r == AppendNode(d3, l, n)
  <2>1. Heeded(R, m, l) = [R EXCEPT ![m] = new]
    BY <1>5, <1>6, <1>8 DEF Heeded
  <2>2. [S EXCEPT ![m] = new] = [R EXCEPT ![m] = new]
    BY <1>r
  <2> HIDE DEF S
  <2>3. Appended(r, d3, l, n)
    BY <1>4, AppendIs
  <2>4. Len(dh[l]) <= MaxEntry
    BY <1>5, <1>8, NeighbDBAssumption
  <2>5. d3.mac[n] = m /\ d3.ttl[n] = UpdateTTL
    BY <1>1, <1>4
  <2> HIDE DEF r
  <2>6. Linked(r, [dh EXCEPT ![l] = Append(dh[l], n)])
    BY <1>4, <2>3, <2>4, <2>5, AppendLinked
  <2>7. Tells(r, [dh EXCEPT ![l] = Append(dh[l], n)],
                 [S EXCEPT ![d3.mac[n]] = [port |-> l, ttl |-> UpdateTTL]])
    BY <1>4, <1>r, <2>3, <2>5, AppendTells
  <2>8. r.uaf = FALSE
    BY <1>4, <2>3 DEF Appended, Holds
  <2>9. Holds(r, [dh EXCEPT ![l] = Append(dh[l], n)], Heeded(R, m, l))
    BY <2>1, <2>2, <2>5, <2>6, <2>7, <2>8 DEF Holds
  <2> QED
    BY <1>3, <1>8, <2>9 DEF r
<1> QED
  BY <1>7, <1>8

-----------------------------------------------------------------------------
(* What the lists say. *)

\* Known, of any database.
KnownOf(d) ==
  LET entries == UNION {LET c == Chain(d, l)
                        IN {[mac |-> d.mac[n], rec |-> [port |-> l, ttl |-> d.ttl[n]]] :
                              n \in ToSet(c)} : l \in Ports}
  IN  [m \in Macs |->
         LET of == {e \in entries : e.mac = m}
         IN  IF of = {} THEN NULL ELSE (CHOOSE e \in of : TRUE).rec]

\* The lists of a database.
Lists(d) == [l \in Ports |-> Chain(d, l)]

\* What the lists say is what was heard.
LEMMA KnownIs ==
  ASSUME NEW d, NEW ch, NEW R, Holds(d, ch, R)
  PROVE  KnownOf(d) = R
<1> DEFINE Entry(n, l) == [mac |-> d.mac[n], rec |-> [port |-> l, ttl |-> d.ttl[n]]]
           entries == UNION {LET c == Chain(d, l) IN {Entry(n, l) : n \in ToSet(c)} : l \in Ports}
           of(m) == {e \in entries : e.mac = m}
           Says(m) == IF of(m) = {} THEN NULL ELSE (CHOOSE e \in of(m) : TRUE).rec
<1>r. R \in [Macs -> Record \cup {NULL}]
  BY DEF Holds, Tells
<1>1. \A l \in Ports : Chain(d, l) = ch[l] /\ ToSet(ch[l]) = {ch[l][k] : k \in 1..Len(ch[l])}
  <2>1. ASSUME NEW l \in Ports PROVE Chain(d, l) = ch[l] /\ ch[l] \in Seq(Nodes)
    BY ChainIs DEF Holds, Linked
  <2> QED
    BY <2>1 DEF ToSet
<1> HIDE DEF Entry
<1>2. \A e \in entries : \E l \in Ports : \E k \in 1..Len(ch[l]) : e = Entry(ch[l][k], l)
  <2>1. \A e \in entries : \E l \in Ports : \E n \in ToSet(Chain(d, l)) : e = Entry(n, l)
    OBVIOUS
  <2> HIDE DEF entries
  <2> QED
    BY <1>1, <2>1
<1>3. \A l \in Ports : \A k \in 1..Len(ch[l]) : Entry(ch[l][k], l) \in entries
  <2>1. \A l \in Ports : \A n \in ToSet(Chain(d, l)) : Entry(n, l) \in entries
    OBVIOUS
  <2> HIDE DEF entries
  <2> QED
    BY <1>1, <2>1
<1>e. \A n, l : Entry(n, l).mac = d.mac[n] /\ Entry(n, l).rec = [port |-> l, ttl |-> d.ttl[n]]
  BY DEF Entry
<1>t. \A l \in Ports : \A k \in 1..Len(ch[l]) :
        d.mac[ch[l][k]] \in Macs /\ R[d.mac[ch[l][k]]] = [port |-> l, ttl |-> d.ttl[ch[l][k]]]
  BY DEF Holds, Tells
<1> HIDE DEF entries
<1>4. ASSUME NEW m \in Macs PROVE Says(m) = R[m]
  <2>1. \A e \in of(m) : e.rec = R[m]
    <3> SUFFICES ASSUME NEW e \in entries, e.mac = m PROVE e.rec = R[m]
      OBVIOUS
    <3>1. PICK l \in Ports : \E k \in 1..Len(ch[l]) : e = Entry(ch[l][k], l)
      BY <1>2
    <3>2. PICK k \in 1..Len(ch[l]) : e = Entry(ch[l][k], l)
      BY <3>1
    <3>3. e.mac = d.mac[ch[l][k]] /\ e.rec = [port |-> l, ttl |-> d.ttl[ch[l][k]]]
      BY <1>e, <3>2
    <3>4. R[d.mac[ch[l][k]]] = [port |-> l, ttl |-> d.ttl[ch[l][k]]]
      BY <1>t
    <3> QED
      BY <3>3, <3>4
  <2>2. of(m) = {} => R[m] = NULL
    <3> SUFFICES ASSUME R[m] # NULL PROVE \E e \in entries : e.mac = m
      OBVIOUS
    <3>1. R[m].port \in Ports
      BY <1>r DEF Record
    <3>2. PICK k \in 1..Len(ch[R[m].port]) : d.mac[ch[R[m].port][k]] = m
      BY DEF Holds, Tells
    <3>3. Entry(ch[R[m].port][k], R[m].port) \in entries
      BY <1>3, <3>1
    <3> QED
      BY <1>e, <3>2, <3>3
  <2> HIDE DEF of
  <2> QED
    BY <2>1, <2>2
<1>5. KnownOf(d) = [m \in Macs |-> Says(m)]
  BY DEF KnownOf, Says, of, entries, Entry
<1> HIDE DEF Says
<1>6. [m \in Macs |-> Says(m)] = [m \in Macs |-> R[m]]
  BY <1>4
<1>7. [m \in Macs |-> R[m]] = R
  BY <1>r
<1> QED
  BY <1>5, <1>6, <1>7

\* The lists of a database are what its pointers say.
LEMMA ListsAre ==
  ASSUME NEW d, NEW ch, NEW R, Holds(d, ch, R)
  PROVE  Lists(d) = ch
<1>1. ch \in [Ports -> Seq(Nodes)]
  BY DEF Holds, Linked
<1>2. \A l \in Ports : Chain(d, l) = ch[l]
  BY ChainIs
<1>3. Lists(d) = [l \in Ports |-> ch[l]]
  BY <1>2 DEF Lists
<1> QED
  BY <1>1, <1>3

\* The invariant: the lists are linked, tell each known neighbour once, and no
\* freed node has been read; the last reply is in range.
Listed == Holds(db, Lists(db), Known)
Replied == reply.count \in 0..(MaxEntry + 1) /\ reply.complete \in 0..MaxEntry
NeighbInv == Listed /\ Replied

\* A database with linked lists is listed, whatever lists and records were named.
LEMMA ListedIs ==
  ASSUME NEW ch, NEW R, Holds(db, ch, R)
  PROVE  Listed /\ Known = R
<1>1. KnownOf(db) = R /\ Lists(db) = ch
  BY KnownIs, ListsAre
<1>2. Known = KnownOf(db)
  BY DEF Known, KnownOf
<1> QED
  BY <1>1, <1>2 DEF Listed
\* The same of the next state.
LEMMA ListedNext ==
  ASSUME NEW ch, NEW R, Holds(db', ch, R)
  PROVE  Listed' /\ Known' = R
<1>1. KnownOf(db') = R /\ Lists(db') = ch
  BY KnownIs, ListsAre
<1>2. Known' = KnownOf(db')
  BY DEF Known, KnownOf
<1> QED
  BY <1>1, <1>2 DEF Listed

\* At first no list has a node and nobody is known.
LEMMA EmptyHolds ==
  Holds(Empty, [l \in Ports |-> <<>>], [m \in Macs |-> NULL])
<1> DEFINE ch == [l \in Ports |-> <<>>]
           R == [m \in Macs |-> NULL]
<1>1. Empty \in Database
  BY NeighbDBAssumption DEF Empty, Database, Pointers
<1>2. /\ \A l \in Ports : Empty.first[l] = NULL /\ Empty.tail[l] = NULL /\ Empty.total[l] = 0
      /\ Empty.uaf = FALSE
  BY DEF Empty
<1>3. ch \in [Ports -> Seq(Nodes)] /\ \A l \in Ports : Len(ch[l]) = 0 /\ 1..Len(ch[l]) = {}
  OBVIOUS
<1> HIDE DEF ch
<1>4. Linked(Empty, ch)
  BY <1>1, <1>2, <1>3, NeighbDBAssumption DEF Linked, At
<1>5. Tells(Empty, ch, R)
  BY <1>3 DEF Tells
<1>6. Holds(Empty, ch, R)
  BY <1>2, <1>4, <1>5 DEF Holds
<1> QED
  BY <1>6 DEF ch

-----------------------------------------------------------------------------
(* The specification. *)

\* A query announces as many neighbours as are known on the port, and sends whole
\* entries only.
LEMMA QueryIs ==
  ASSUME Listed, NEW i \in IfIndexes, FillQueryNeighbPkt(i)
  PROVE  /\ Replied' /\ db' = db
         /\ reply'.count = Cardinality(Heard(Known, i))
<1> DEFINE fit == {k \in 0..MaxEntry : CountLen + k * EntryLen <= ReplyLen}
           sent == {k \in fit : k <= Len(Chain(db, i))}
<1>0. MaxEntry \in Nat \ {0} /\ PortNumber \in Nat /\ i \in Nat \ {0}
  BY NeighbDBAssumption
<1>1. db' = db /\ reply' = IF i > PortNumber THEN [count |-> 0, complete |-> 0]
                           ELSE [count |-> db.total[i], complete |-> Max(sent)]
  BY DEF FillQueryNeighbPkt
<1>h. Holds(db, Lists(db), Known)
  BY DEF Listed
<1>2. CASE i > PortNumber
  <2>1. Known \in [Macs -> Record \cup {NULL}]
    BY <1>h DEF Holds, Tells
  <2>2. Heard(Known, i) = {}
    <3>1. i \notin Ports
      BY <1>0, <1>2 DEF Ports
    <3> QED
      BY <2>1, <3>1 DEF Heard, Record
  <2> QED
    BY <1>0, <1>1, <1>2, <2>2, FS_EmptySet DEF Replied
<1>3. CASE ~ (i > PortNumber)
  <2>1. i \in Ports
    BY <1>0, <1>3 DEF Ports
  <2>2. /\ Chain(db, i) = Lists(db)[i] /\ Lists(db)[i] \in Seq(Nodes)
        /\ db.total[i] = Len(Lists(db)[i]) /\ Len(Lists(db)[i]) <= MaxEntry + 1
    BY <1>h, <2>1, ChainIs DEF Holds, Linked
  <2>3. Len(Lists(db)[i]) \in Nat
    BY <2>2
  <2>4. Cardinality(Heard(Known, i)) = Len(Lists(db)[i])
    BY <1>h, <2>1, CountIs
  <2>5. sent \subseteq 0..MaxEntry /\ 0 \in sent
    <3>1. 0 \in fit
      BY <1>0 DEF CountLen, EntryLen, ReplyLen
    <3> QED
      BY <2>2, <2>3, <3>1
  <2> HIDE DEF sent
  <2>6. Max(sent) \in sent
    <3> DEFINE I == {MaxEntry - x : x \in sent}
    <3>1. I \in SUBSET Nat /\ I # {}
      BY <1>0, <2>5
    <3>2. PICK y \in I : \A z \in I : y <= z
      <4> HIDE DEF I
      <4> QED
        BY <3>1, LeastOf
    <3>3. PICK x \in sent : y = MaxEntry - x
      BY <3>2
    <3>4. \A z \in sent : x >= z
      BY <1>0, <2>5, <3>2, <3>3
    <3> QED
      BY <3>4 DEF Max
  <2>7. reply'.count = Len(Lists(db)[i]) /\ reply'.complete \in 0..MaxEntry
    BY <1>1, <1>3, <2>2, <2>5, <2>6
  <2> QED
    BY <1>0, <1>1, <2>2, <2>3, <2>4, <2>7 DEF Replied
<1> QED
  BY <1>2, <1>3

\* The table counts as its lists do.
LEMMA SameCount == \A S : Table!Cardinality(S) = Cardinality(S)
  BY Zenon DEF Table!Cardinality, Cardinality

\* Every step keeps the invariant, and is a step of the abstract table.
LEMMA NeighbStep ==
  ASSUME NeighbInv, [Next]_vars
  PROVE  NeighbInv' /\ [Table!TableNext]_Table!tableVars
<1>h. Holds(db, Lists(db), Known) /\ Replied
  BY DEF NeighbInv, Listed
<1>0. PortNumber \in Nat /\ IfIndexes \subseteq Nat \ {0}
  BY NeighbDBAssumption
<1>o. \A l : Table!On(l) = Heard(Known, l)
  BY DEF Table!On, Heard
<1>1. ASSUME NEW i \in IfIndexes, NEW m \in Macs, ProcPkt(i, m)
      PROVE  NeighbInv' /\ Table!TableNext
  <2> DEFINE n == Malloc(db)
  <2>1. n \in Nodes /\ n \notin db.heap
    <3>1. \E k \in Nodes : k \notin db.heap
      BY <1>1 DEF ProcPkt
    <3> QED
      BY <3>1 DEF Malloc
  <2>2. i \in Ports
    BY <1>0, <1>1 DEF ProcPkt, Ports
  <2>3. db' = Insert(db, i, m, n) /\ reply' = reply
    BY <1>1 DEF ProcPkt
  <2> HIDE DEF n
  <2>4. PICK dh : Holds(db', dh, Heeded(Known, m, i))
    <3>1. \E dh : Holds(Insert(db, i, m, n), dh, Heeded(Known, m, i))
      BY <1>h, <2>1, <2>2, InsertHolds
    <3> QED
      BY <2>3, <3>1
  <2>5. Listed' /\ Known' = Heeded(Known, m, i)
    BY <2>4, ListedNext
  <2>6. Replied'
    BY <1>h, <2>3 DEF Replied
  <2>7. Table!Learn(m, i)
    BY <1>o, <2>3, <2>5, SameCount DEF Table!Learn, Heeded
  <2>8. i \in IfIndexes \cap Table!Ports
    BY <2>2 DEF Ports, Table!Ports
  <2> QED
    BY <2>5, <2>6, <2>7, <2>8 DEF NeighbInv, Table!TableNext
<1>2. ASSUME UNCHANGED vars
      PROVE  NeighbInv' /\ UNCHANGED Table!tableVars
  <2>1. db' = db /\ reply' = reply
    BY <1>2 DEF vars
  <2>2. Listed' /\ Known' = Known
    BY <1>h, <2>1, ListedNext
  <2> QED
    BY <1>h, <2>1, <2>2 DEF NeighbInv, Replied, Table!tableVars
<1>3. ASSUME GeneralReport PROVE NeighbInv' /\ Table!TableNext
  <2>1. PICK dh : Holds(db', dh, OlderAll(Known, Cardinality(IfIndexes)))
    BY <1>3, <1>h, ReportHolds
  <2>2. Listed' /\ Known' = OlderAll(Known, Cardinality(IfIndexes))
    BY <2>1, ListedNext
  <2>3. reply' = reply
    BY <1>3 DEF GeneralReport
  <2>4. Table!Age
    BY <2>2, <2>3, SameCount DEF Table!Age, Table!Passes, OlderAll, Older
  <2> QED
    BY <1>h, <2>2, <2>3, <2>4 DEF NeighbInv, Replied, Table!TableNext
<1>4. ASSUME NEW i \in IfIndexes, FillQueryNeighbPkt(i)
      PROVE  NeighbInv' /\ Table!TableNext
  <2>1. Replied' /\ db' = db /\ reply'.count = Cardinality(Heard(Known, i))
    BY <1>4, QueryIs DEF NeighbInv
  <2>2. Listed' /\ Known' = Known
    BY <1>h, <2>1, ListedNext
  <2>3. Table!Answer(i)
    BY <1>o, <2>1, <2>2, SameCount DEF Table!Answer
  <2> QED
    BY <2>1, <2>2, <2>3 DEF NeighbInv, Table!TableNext
<1>5. ASSUME NEW i \in IfIndexes, ProcPktFails(i) PROVE UNCHANGED vars
  BY <1>5 DEF ProcPktFails
<1> QED
  BY <1>1, <1>2, <1>3, <1>4, <1>5 DEF Next

\* The invariant holds at first, when the table is empty.
LEMMA NeighbStart ==
  ASSUME Init
  PROVE  NeighbInv /\ Table!TableInit
<1>1. Listed /\ Known = [m \in Macs |-> NULL]
  BY EmptyHolds, ListedIs DEF Init
<1>2. reply = [count |-> 0, complete |-> 0] /\ MaxEntry \in Nat
  BY NeighbDBAssumption DEF Init
<1> QED
  BY <1>1, <1>2 DEF NeighbInv, Replied, Table!TableInit

\* Whatever neighbours report, in which order and on which port, and whenever the
\* records age: the lists stay linked and tell each known neighbour once.
THEOREM Listing == Spec => []NeighbInv
<1>1. Init => NeighbInv
  BY NeighbStart
<1>2. NeighbInv /\ [Next]_vars => NeighbInv'
  BY NeighbStep
<1> QED
  BY <1>1, <1>2, PTL DEF Spec

\* The pointers, counts and records stay in their ranges.
THEOREM TypeCorrect == Spec => []TypeOK
<1>1. NeighbInv => TypeOK
  <2> SUFFICES ASSUME NeighbInv PROVE TypeOK
    OBVIOUS
  <2>1. Linked(db, Lists(db)) /\ Replied
    BY DEF NeighbInv, Listed, Holds
  <2>2. \A l \in Ports : db.total[l] \in 0..(MaxEntry + 1)
    BY <2>1, NeighbDBAssumption DEF Linked
  <2>3. db \in Database
    BY <2>1 DEF Linked
  <2> QED
    BY <2>1, <2>2, <2>3 DEF TypeOK, Replied, Database
<1> QED
  BY <1>1, Listing, PTL

\* A list is linked both ways over nodes in use, and its tail and total fit.
THEOREM Sound == Spec => []ListsSound
<1>1. NeighbInv => ListsSound
  <2> SUFFICES ASSUME NeighbInv, NEW l \in Ports
               PROVE  LET c == Chain(db, l) IN
                      /\ ToSet(c) \subseteq db.heap
                      /\ db.total[l] = Len(c)
                      /\ db.tail[l] = IF c = <<>> THEN NULL ELSE Last(c)
                      /\ \A k \in DOMAIN c : db.pre[c[k]] = IF k = 1 THEN NULL ELSE c[k - 1]
    BY DEF ListsSound
  <2> DEFINE ch == Lists(db)
             c == Chain(db, l)
  <2>1. Holds(db, ch, Known)
    BY DEF NeighbInv, Listed
  <2>2. c = ch[l] /\ ch[l] \in Seq(Nodes)
    BY <2>1, ChainIs DEF Holds, Linked
  <2> HIDE DEF c, ch
  <2>3. c \in Seq(Nodes) /\ Len(c) \in Nat /\ DOMAIN c = 1..Len(c) /\ (c = <<>> <=> Len(c) = 0)
    BY <2>2
  <2>4. db.total[l] = Len(c) /\ db.tail[l] = At(c, Len(c))
    BY <2>1, <2>2 DEF Holds, Linked
  <2>5. \A k \in 1..Len(c) : db.pre[c[k]] = At(c, k - 1) /\ c[k] \in db.heap
    BY <2>1, <2>2 DEF Holds, Linked
  <2>6. ToSet(c) \subseteq db.heap
    BY <2>3, <2>5 DEF ToSet
  <2>7. db.tail[l] = IF c = <<>> THEN NULL ELSE Last(c)
    BY <2>3, <2>4 DEF At, Last
  <2>8. \A k \in 1..Len(c) : At(c, k - 1) = IF k = 1 THEN NULL ELSE c[k - 1]
    BY <2>3 DEF At
  <2> QED
    BY <2>3, <2>4, <2>5, <2>6, <2>7, <2>8 DEF c
<1> QED
  BY <1>1, Listing, PTL

\* The ageing walk purges nodes of the list it is on, and never steps on one that is
\* freed (i4fnDDP_proto_switch_NeighbDB_Update_AllNode_TTL).
THEOREM WalksStayLive == Spec => []WalksLive
<1>1. NeighbInv => WalksLive
  BY DEF NeighbInv, Listed, Holds, WalksLive
<1> QED
  BY <1>1, Listing, PTL

\* The lists implement the table: what a report, a pass or a query does to the
\* nodes is what NeighbTable says of the known neighbours.
THEOREM ListsAreATable == Spec => ImplementsTable
<1>1. Init => Table!TableInit
  BY NeighbStart
<1>2. NeighbInv /\ [Next]_vars => [Table!TableNext]_Table!tableVars
  BY NeighbStep
<1>3. Spec => Table!TableSpec
  BY <1>1, <1>2, Listing, PTL DEF Spec, Table!TableSpec
<1> QED
  BY <1>3 DEF ImplementsTable
=============================================================================
