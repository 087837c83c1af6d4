------------------------------ MODULE NeighbDB ------------------------------
(***************************************************************************)
(* The neighbour database of a switch (ddp_proto_switch.c): one doubly     *)
(* linked list of heap nodes per port, filled from the general reports of  *)
(* the neighbours and aged each time the switch sends its own              *)
(* (ddp_proto_basic.c).  Only the proc thread reaches it, so one handler   *)
(* is one action; what is hard here is the pointer work inside it.         *)
(*                                                                         *)
(* The database is a record db of C objects: first, tail and total of each *)
(* list; pre, next, mac and ttl of each node; heap, the nodes malloc gave  *)
(* out; uaf, set when a walk has stepped on a freed node; stale, set when  *)
(* Purge_FromDB has read its argument after freeing the node it is in.     *)
(***************************************************************************)
EXTENDS Integers, FiniteSets, SequencesExt

CONSTANTS
  Macs,        \* the addresses reports carry
  Zero,        \* the address 00-00-00-00-00-00, which memset leaves in a node;
               \* it stands for whatever is read from a freed one
  Nodes,       \* the memory malloc can give out
  NULL,
  PortNumber, IfIndexes, MaxEntry, UpdateTTL   \* see NeighbTable

Ports == 1..PortNumber

ASSUME NeighbDBAssumption ==
  /\ PortNumber \in Nat /\ MaxEntry \in Nat \ {0} /\ UpdateTTL \in Nat
  /\ IfIndexes \subseteq Nat \ {0} /\ IsFiniteSet(IfIndexes)
  /\ IsFiniteSet(Nodes) /\ Zero \notin Macs
  /\ NULL \notin Nodes /\ NULL \notin [port : Ports, ttl : 0..UpdateTTL]

VARIABLES
  db,
  reply        \* the last QUERY NEIGHBOR reply: entries announced and complete

vars == <<db, reply>>

EntryLen == 230     \* sizeof(struct stDDP_neighbor_entry) - 1
ReplyLen == EntryLen * MaxEntry   \* DDP_REPLY_LEN_QUERY_NEIGHBOR_INFO
CountLen == 1       \* DDP_FIELD_LEN_QUERY_NBR_ENTRY_NUM
Empty == [first |-> [l \in Ports |-> NULL], tail |-> [l \in Ports |-> NULL],
          total |-> [l \in Ports |-> 0],
          pre |-> [n \in Nodes |-> NULL], next |-> [n \in Nodes |-> NULL],
          mac |-> [n \in Nodes |-> Zero], ttl |-> [n \in Nodes |-> 0],
          heap |-> {}, uaf |-> FALSE, stale |-> FALSE]

Init == db = Empty /\ reply = [count |-> 0, complete |-> 0]

\* The nodes of list l, from the first one through the next pointers.
Chain(d, l) ==
  LET at[k \in 1..Cardinality(Nodes)] ==
        IF k = 1 THEN d.first[l]
        ELSE LET n == at[k - 1] IN IF n = NULL THEN NULL ELSE d.next[n]
  IN  SubSeq(at, 1, Cardinality({k \in DOMAIN at : at[k] # NULL}))

\* The order in which the scans of the code visit the nodes.
Scan(d) == FlattenSeq([l \in Ports |-> Chain(d, l)])
ListOf(d, n) == CHOOSE l \in Ports : Contains(Chain(d, l), n)

-----------------------------------------------------------------------------
(* Taking a node out of its list. *)

SetPre(d, n, v) == IF n = NULL THEN d ELSE [d EXCEPT !.pre[n] = v]
SetNext(d, n, v) == IF n = NULL THEN d ELSE [d EXCEPT !.next[n] = v]

\* MUTANT: the tail pointer is not moved when the last node goes.
Unlink_KeepsTail(d, l, n) ==
  LET p == d.pre[n]
      x == d.next[n]
      d1 == IF n = d.first[l] THEN SetPre([d EXCEPT !.first[l] = x], x, NULL) ELSE d
  IN  IF p = NULL /\ x = NULL
      THEN [d EXCEPT !.first[l] = NULL, !.tail[l] = NULL, !.total[l] = 0]
      ELSE SetNext(SetPre(d1, x, p), p, x)

\* The pointer work that Purge_FromDB and Insert share: the only node, the
\* first, the second, the last and the one before it, then any node.
Unlink(d, l, n) ==
  LET p == d.pre[n]
      x == d.next[n]
      d1 == IF n = d.first[l] THEN SetPre([d EXCEPT !.first[l] = x], x, NULL) ELSE d
      d2 == IF p = d1.first[l] THEN SetPre(SetNext(d1, p, x), x, p) ELSE d1
      d3 == IF n = d2.tail[l] THEN SetNext([d2 EXCEPT !.tail[l] = p], p, NULL) ELSE d2
      d4 == IF x = d3.tail[l] THEN SetNext(SetPre(d3, x, p), p, x) ELSE d3
  IN  IF p = NULL /\ x = NULL
      THEN [d EXCEPT !.first[l] = NULL, !.tail[l] = NULL, !.total[l] = 0]
      ELSE SetNext(SetPre(d4, x, p), p, x)

\* memset and free.
Free(d, n) ==
  [d EXCEPT !.pre[n] = NULL, !.next[n] = NULL, !.mac[n] = Zero, !.ttl[n] = 0,
            !.heap = @ \ {n}]

Purge(d, n) ==
  LET l == ListOf(d, n)
      u == Free(Unlink(d, l, n), n)
  IN  [u EXCEPT !.total[l] = IF @ > 0 THEN @ - 1 ELSE 0]

-----------------------------------------------------------------------------
(* Ageing. *)

\* Purge_FromDB called with the address stored in node n itself: every node with
\* that address up to n goes.  The scan goes on with n cleared and freed: each
\* later comparison reads freed memory, taken to hold Zero still, so that after n
\* it is the nodes with address Zero that go.
PurgeFromDB(d, n) ==
  LET s == Scan(d)
      Doomed(i) == \/ d.mac[s[i]] = d.mac[n] /\ \A j \in 1..(i - 1) : s[j] # n
                   \/ d.mac[s[i]] = Zero /\ \E j \in 1..(i - 1) : s[j] = n
      purged[i \in 0..Len(s)] ==
        IF i = 0 THEN d
        ELSE IF Doomed(i) THEN Purge(purged[i - 1], s[i]) ELSE purged[i - 1]
      last == purged[Len(s)]
  IN  [last EXCEPT !.stale = @ \/ \E i \in DOMAIN s : n \notin purged[i - 1].heap]

\* MUTANT: the next node is read after the purge.
Visit_LateNext(s) ==
  LET n == s.cur
      d == [s.d EXCEPT !.uaf = @ \/ n \notin s.d.heap]
      a == IF d.ttl[n] = 0 \/ d.ttl[n] > UpdateTTL THEN PurgeFromDB(d, n)
           ELSE [d EXCEPT !.ttl[n] = @ - 1]
  IN  [d |-> [a EXCEPT !.uaf = @ \/ n \notin a.heap], cur |-> a.next[n]]

\* MUTANT: a node whose time to live is zero is not purged.
Visit_NoZeroTest(s) ==
  LET n == s.cur
      d == [s.d EXCEPT !.uaf = @ \/ n \notin s.d.heap]
  IN  [d |-> IF d.ttl[n] > UpdateTTL THEN PurgeFromDB(d, n)
             ELSE [d EXCEPT !.ttl[n] = @ - 1],
       cur |-> d.next[n]]

\* One turn of the while loop of Update_AllNode_TTL on node s.cur.
Visit(s) ==
  LET n == s.cur
      d == [s.d EXCEPT !.uaf = @ \/ n \notin s.d.heap]
  IN  [d |-> IF d.ttl[n] = 0 \/ d.ttl[n] > UpdateTTL THEN PurgeFromDB(d, n)
             ELSE [d EXCEPT !.ttl[n] = @ - 1],
       cur |-> d.next[n]]

AgeList(d, l) ==
  LET turn[k \in 0..Cardinality(Nodes)] ==
        IF k = 0 THEN [d |-> d, cur |-> d.first[l]]
        ELSE LET s == turn[k - 1] IN IF s.cur = NULL THEN s ELSE Visit(s)
  IN  turn[Cardinality(Nodes)].d

UpdateAllNodeTTL(d) ==
  LET aged[l \in 0..PortNumber] == IF l = 0 THEN d ELSE AgeList(aged[l - 1], l)
  IN  aged[PortNumber]

\* MUTANT: one pass for the whole report instead of one for each interface.
GeneralReport_OnePass ==
  /\ db' = UpdateAllNodeTTL(db)
  /\ UNCHANGED reply

\* The report timer fired: a report goes out on every interface, and after each
\* sending the whole database is aged.
GeneralReport ==
  /\ LET sent[k \in 0..Cardinality(IfIndexes)] ==
           IF k = 0 THEN db ELSE UpdateAllNodeTTL(sent[k - 1])
     IN  db' = sent[Cardinality(IfIndexes)]
  /\ UNCHANGED reply

-----------------------------------------------------------------------------
(* A neighbour's general report. *)

DeleteAll(d, l) ==
  LET c == Chain(d, l)
      d1 == FoldLeft(Free, d, c)
  IN  [d1 EXCEPT !.first[l] = NULL, !.tail[l] = NULL, !.total[l] = 0]

\* The record of a known neighbour is the first node with its address.
Forget(d, m) ==
  LET s == Scan(d)
      known == {i \in DOMAIN s : d.mac[s[i]] = m}
  IN  IF known = {} THEN d ELSE Purge(d, s[Min(known)])

AppendNode(d, l, n) ==
  LET t == d.tail[l]
      f == d.first[l]
      d0 == [d EXCEPT !.next[n] = NULL]
      d1 == [d0 EXCEPT !.pre[n] = t, !.tail[l] = n, !.total[l] = @ + 1]
      d2 == IF d0.next[f] = NULL THEN SetPre(SetNext(d1, f, n), f, NULL) ELSE d1
  IN  IF f = NULL
      THEN [d0 EXCEPT !.pre[n] = NULL, !.first[l] = n, !.tail[l] = n, !.total[l] = 1]
      ELSE SetNext(d2, t, n)

\* NeighbDB_Insert: the new node is allocated first and is lost when the port
\* is full; the record of the neighbour is gone by then.
Insert(d, l, m, n) ==
  LET d1 == [d EXCEPT !.mac[n] = m, !.ttl[n] = UpdateTTL, !.heap = @ \cup {n}]
      d2 == IF d1.total[l] = 0 /\ d1.first[l] # NULL THEN DeleteAll(d1, l) ELSE d1
      d3 == Forget(d2, m)
  IN  IF d3.total[l] > MaxEntry THEN d3 ELSE AppendNode(d3, l, n)

\* What malloc returns.  Nodes are only ever compared with each other, so any
\* free one stands for all of them.
Malloc(d) == CHOOSE n \in Nodes : n \notin d.heap

\* A report on an interface whose index is a port, and memory for the node.
ProcPkt(i, m) ==
  /\ i <= PortNumber
  /\ ~ (Nodes \subseteq db.heap)
  /\ db' = Insert(db, i, m, Malloc(db))
  /\ UNCHANGED reply

\* An interface index beyond the last port, or malloc fails: nothing changes.
ProcPktFails(i) ==
  /\ i > PortNumber \/ Nodes \subseteq db.heap
  /\ UNCHANGED vars

-----------------------------------------------------------------------------
(* A QUERY NEIGHBOR request. *)

\* The announced number is the list's total; entries are written until one does
\* not fit behind the count in a body of ReplyLen bytes.  An index beyond the
\* last port leaves the cleared body.
FillQueryNeighbPkt(i) ==
  /\ LET fit == {k \in 0..MaxEntry : CountLen + k * EntryLen <= ReplyLen}
         sent == {k \in fit : k <= Len(Chain(db, i))}
     IN reply' = IF i > PortNumber THEN [count |-> 0, complete |-> 0]
                 ELSE [count |-> db.total[i], complete |-> Max(sent)]
  /\ UNCHANGED db

Next ==
  \/ \E i \in IfIndexes, m \in Macs : ProcPkt(i, m)
  \/ \E i \in IfIndexes : ProcPktFails(i)
  \/ GeneralReport
  \/ \E i \in IfIndexes : FillQueryNeighbPkt(i)

Spec == Init /\ [][Next]_vars

-----------------------------------------------------------------------------
(* Properties. *)

Pointers == Nodes \cup {NULL}

\* The lists and nodes hold pointers, addresses and counts.
TypeOK ==
  /\ db.first \in [Ports -> Pointers] /\ db.tail \in [Ports -> Pointers]
  /\ db.total \in [Ports -> 0..(MaxEntry + 1)]
  /\ db.pre \in [Nodes -> Pointers] /\ db.next \in [Nodes -> Pointers]
  /\ db.mac \in [Nodes -> Macs \cup {Zero}] /\ db.ttl \in [Nodes -> 0..UpdateTTL]
  /\ db.heap \subseteq Nodes /\ db.uaf \in BOOLEAN /\ db.stale \in BOOLEAN
  /\ reply.count \in 0..(MaxEntry + 1) /\ reply.complete \in 0..MaxEntry

\* Whatever node of a list was purged or refreshed - the only, first, second,
\* last, the one before or any other - the list stays doubly linked over live
\* nodes, its tail is its last node and its total its length.
ListsSound ==
  \A l \in Ports :
    LET c == Chain(db, l) IN
    /\ ToSet(c) \subseteq db.heap
    /\ db.total[l] = Len(c)
    /\ db.tail[l] = IF c = <<>> THEN NULL ELSE Last(c)
    /\ \A k \in DOMAIN c : db.pre[c[k]] = IF k = 1 THEN NULL ELSE c[k - 1]

\* Ageing walks a list while it purges nodes of it (ddp_proto_switch.c:459-488):
\* the walk itself never steps on a node that is freed.
WalksLive == ~db.uaf

\* "function to purge one specific node": the address it is called with stays
\* readable for the whole scan.  Ageing passes the address inside the node, which
\* the scan frees and then goes on comparing with.
ArgumentLive == ~db.stale

\* What the lists say of a neighbour, in the terms of NeighbTable.
Known ==
  LET entries == UNION {LET c == Chain(db, l)
                        IN {[mac |-> db.mac[n], rec |-> [port |-> l, ttl |-> db.ttl[n]]] :
                              n \in ToSet(c)} : l \in Ports}
  IN  [m \in Macs |->
         LET of == {e \in entries : e.mac = m}
         IN  IF of = {} THEN NULL ELSE (CHOOSE e \in of : TRUE).rec]

Table == INSTANCE NeighbTable
           WITH known <- Known, count <- reply.count, Nobody <- NULL

\* The lists implement the abstract table: reports, ageing and queries do to it
\* exactly what NeighbTable says.
ImplementsTable == Table!TableSpec
=============================================================================
