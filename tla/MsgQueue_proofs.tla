--------------------------- MODULE MsgQueue_proofs ---------------------------
(***************************************************************************)
(* What the daemon's two exclusions protect.  The mutex of the message     *)
(* queue: its list, its length and its nodes, for any threads, messages,   *)
(* heap and lengths.  The upgrade flag: the transfers and g_tftpInfo, for  *)
(* any number of tftp threads and any requests.                            *)
(***************************************************************************)
EXTENDS MsgQueue, Upgrade, SequenceTheorems, TLAPS

\* What each thread's location says of its call, its result and its node.
LocalState ==
  \A t \in Threads :
    /\ pc[t] = "idle" => arg[t] = NULL /\ node[t] = NULL /\ ret[t] = NULL
    /\ pc[t] # "idle" => arg[t] \in Calls
    /\ pc[t] = "start" => node[t] = NULL /\ ret[t] = NULL
    /\ pc[t] \in {"ins_lock", "ins_link"} =>
         /\ arg[t].op = "insert" /\ arg[t].msg # NULL
         /\ node[t] \in Nodes /\ ret[t] = NULL
    /\ pc[t] = "ins_tail" =>
         /\ arg[t].op = "insert" /\ ret[t] = "ok"
         /\ chain # <<>> /\ node[t] = chain[Len(chain)]
    /\ pc[t] \in {"rem_lock", "rem_tail"} =>
         arg[t].op = "remove" /\ node[t] = NULL /\ ret[t] = NULL
    /\ pc[t] = "rem_head" =>
         arg[t].op = "remove" /\ node[t] = NULL /\ ret[t] = NULL /\ chain # <<>>
    /\ pc[t] \in {"unlock", "return"} =>
         /\ ret[t] \in Results
         /\ arg[t].op = "remove" => ret[t] # "ok"

\* The inductive invariant.
IInv == TypeOK /\ LocalState /\ MutualExclusion /\ ListShape /\ NodeOwnership

\* The fields of a call; no call is the null pointer.
LEMMA CallFields ==
  ASSUME NEW c \in Calls
  PROVE  /\ c.op \in {"insert", "remove"}
         /\ c.msg \in Msgs \cup {NULL}
         /\ c.op = "remove" => c.msg = NULL
         /\ c # NULL
  BY MsgQueueAssumption DEF Calls

\* The empty list satisfies every part of the invariant.
LEMMA InitIInv == Init => IInv
  <1> SUFFICES ASSUME Init PROVE IInv
    OBVIOUS
  <1> USE MsgQueueAssumption DEF Init
  <1>1. TypeOK
    BY DEF TypeOK, TS_QUEUE_LEN_UNLIMIT, Locations
  <1>2. LocalState
    BY DEF LocalState
  <1>3. MutualExclusion
    BY DEF MutualExclusion, Critical
  <1>4. ListShape
    BY DEF ListShape, InsertPending, RemovePending
  <1>5. NodeOwnership
    BY DEF NodeOwnership, Linked, Private
  <1> QED
    BY <1>1, <1>2, <1>3, <1>4, <1>5 DEF IInv

\* Steps that leave the list, and who is inside the critical section's half-done
\* updates, alone.
LEMMA ListUntouched ==
  ASSUME ListShape, UNCHANGED list,
         InsertPending' = InsertPending, RemovePending' = RemovePending
  PROVE  ListShape'
  BY DEF ListShape, list

\* Begin preserves the inductive invariant.
LEMMA BeginIInv == ASSUME NEW t \in Threads, IInv, Begin(t) PROVE IInv'
  <1> USE MsgQueueAssumption DEF IInv, Begin, Goto, list
  <1>1. TypeOK'
    BY DEF TypeOK, Locations
  <1>2. LocalState'
    BY DEF LocalState, TypeOK
  <1>3. MutualExclusion'
    BY DEF MutualExclusion, TypeOK, Critical
  <1>4. ListShape'
    BY ListUntouched DEF TypeOK, InsertPending, RemovePending
  <1>5. NodeOwnership'
    BY DEF NodeOwnership, Linked, Private, TypeOK
  <1> QED
    BY <1>1, <1>2, <1>3, <1>4, <1>5

\* InsertAlloc preserves the inductive invariant.
LEMMA InsertAllocIInv == ASSUME NEW t \in Threads, IInv, InsertAlloc(t) PROVE IInv'
  <1> USE MsgQueueAssumption DEF IInv, InsertAlloc, Goto, list
  <1>1. TypeOK'
    BY DEF TypeOK, Locations, Critical, Results
  <1>2. LocalState'
    BY CallFields DEF LocalState, TypeOK, Results
  <1>3. MutualExclusion'
    BY DEF MutualExclusion, TypeOK, Critical
  <1>4. ListShape'
    BY ListUntouched DEF TypeOK, InsertPending, RemovePending
  <1>5. NodeOwnership'
    BY CallFields DEF NodeOwnership, Linked, Private, TypeOK, LocalState, Results
  <1> QED
    BY <1>1, <1>2, <1>3, <1>4, <1>5

\* RemoveStart preserves the inductive invariant.
LEMMA RemoveStartIInv == ASSUME NEW t \in Threads, IInv, RemoveStart(t) PROVE IInv'
  <1> USE MsgQueueAssumption DEF IInv, RemoveStart, Goto, list
  <1>1. TypeOK'
    BY DEF TypeOK, Locations, Critical, Results
  <1>2. LocalState'
    BY CallFields DEF LocalState, TypeOK, Results
  <1>3. MutualExclusion'
    BY DEF MutualExclusion, TypeOK, Critical
  <1>4. ListShape'
    BY ListUntouched DEF TypeOK, InsertPending, RemovePending
  <1>5. NodeOwnership'
    BY CallFields DEF NodeOwnership, Linked, Private, TypeOK, LocalState, Results
  <1> QED
    BY <1>1, <1>2, <1>3, <1>4, <1>5

\* Acquire preserves the inductive invariant.
LEMMA AcquireIInv == ASSUME NEW t \in Threads, IInv, Acquire(t) PROVE IInv'
  <1> USE MsgQueueAssumption DEF IInv, Acquire, Goto, list
  <1>1. TypeOK'
    BY DEF TypeOK, Locations, Critical, Results
  <1>2. LocalState'
    BY CallFields DEF LocalState, TypeOK, Results
  <1>3. MutualExclusion'
    BY DEF MutualExclusion, TypeOK, Critical
  <1>4. ListShape'
    BY ListUntouched DEF TypeOK, InsertPending, RemovePending
  <1>5. NodeOwnership'
    BY CallFields DEF NodeOwnership, Linked, Private, TypeOK, LocalState, Results
  <1> QED
    BY <1>1, <1>2, <1>3, <1>4, <1>5

\* InsertFull preserves the inductive invariant.
LEMMA InsertFullIInv == ASSUME NEW t \in Threads, IInv, InsertFull(t) PROVE IInv'
  <1> USE MsgQueueAssumption DEF IInv, InsertFull, Goto, list
  <1>1. TypeOK'
    BY DEF TypeOK, Locations, Critical, Results
  <1>2. LocalState'
    BY CallFields DEF LocalState, TypeOK, Results
  <1>3. MutualExclusion'
    BY DEF MutualExclusion, TypeOK, Critical
  <1>4. ListShape'
    BY ListUntouched DEF TypeOK, InsertPending, RemovePending
  <1>5. NodeOwnership'
    BY CallFields DEF NodeOwnership, Linked, Private, TypeOK, LocalState, Results
  <1> QED
    BY <1>1, <1>2, <1>3, <1>4, <1>5

\* Release preserves the inductive invariant.
LEMMA ReleaseIInv == ASSUME NEW t \in Threads, IInv, Release(t) PROVE IInv'
  <1> USE MsgQueueAssumption DEF IInv, Release, Goto, list
  <1>1. TypeOK'
    BY DEF TypeOK, Locations, Critical, Results
  <1>2. LocalState'
    BY CallFields DEF LocalState, TypeOK, Results
  <1>3. MutualExclusion'
    BY DEF MutualExclusion, TypeOK, Critical
  <1>4. ListShape'
    BY ListUntouched DEF TypeOK, InsertPending, RemovePending
  <1>5. NodeOwnership'
    BY CallFields DEF NodeOwnership, Linked, Private, TypeOK, LocalState, Results
  <1> QED
    BY <1>1, <1>2, <1>3, <1>4, <1>5

\* Finish preserves the inductive invariant.
LEMMA FinishIInv == ASSUME NEW t \in Threads, IInv, Finish(t) PROVE IInv'
  <1> USE MsgQueueAssumption DEF IInv, Finish, Goto, list
  <1>1. TypeOK'
    BY DEF TypeOK, Locations, Critical, Results
  <1>2. LocalState'
    BY CallFields DEF LocalState, TypeOK, Results
  <1>3. MutualExclusion'
    BY DEF MutualExclusion, TypeOK, Critical
  <1>4. ListShape'
    BY ListUntouched DEF TypeOK, InsertPending, RemovePending
  <1>5. NodeOwnership'
    BY CallFields DEF NodeOwnership, Linked, Private, TypeOK, LocalState, Results
  <1> QED
    BY <1>1, <1>2, <1>3, <1>4, <1>5

\* Inside the critical section a thread is alone, and when it is not itself in
\* the middle of an update the list is settled.
LEMMA Alone ==
  ASSUME NEW t \in Threads, MutualExclusion, pc[t] \in Critical
  PROVE  /\ \A u \in Threads : u # t => pc[u] \notin Critical
         /\ InsertPending <=> pc[t] = "ins_tail"
         /\ RemovePending <=> pc[t] = "rem_head"
  BY DEF MutualExclusion, InsertPending, RemovePending, Critical

\* InsertLink preserves the inductive invariant.
LEMMA InsertLinkIInv == ASSUME NEW t \in Threads, IInv, InsertLink(t) PROVE IInv'
  <1> USE MsgQueueAssumption DEF IInv, InsertLink, Goto
  <1>1. /\ pc[t] \in Critical
        /\ \A u \in Threads : u # t => pc[u] \notin Critical
        /\ ~InsertPending /\ ~RemovePending
    BY Alone DEF Critical
  <1>2. /\ arg[t] \in Calls /\ arg[t].op = "insert" /\ arg[t].msg \in Msgs
        /\ node[t] \in Nodes /\ node[t] \in allocated /\ node[t] \notin Linked
    BY CallFields DEF LocalState, NodeOwnership, Private
  <1>3. /\ chain \in Seq(Nodes)
        /\ head = IF chain = <<>> THEN NULL ELSE chain[1]
        /\ tail = IF chain = <<>> THEN NULL ELSE chain[Len(chain)]
        /\ cur_length = Len(chain)
    BY <1>1 DEF ListShape, TypeOK
  <1>4. chain # <<>> => chain[1] \in Nodes /\ chain[Len(chain)] \in Nodes
    BY <1>3
  <1>5. chain' = Append(chain, node[t]) /\ chain' \in Seq(Nodes) /\ chain' # <<>>
    BY <1>2, <1>3
  <1>6. next' \in [Nodes -> Nodes \cup {NULL}]
    BY <1>2, <1>3, <1>4 DEF TypeOK
  <1>7. TypeOK'
    <2>1. data' \in [Nodes -> Msgs \cup {NULL}] /\ head' \in Nodes \cup {NULL}
      BY <1>2 DEF TypeOK
    <2>2. pc' \in [Threads -> Locations] /\ ret' \in [Threads -> Results \cup {NULL}]
      BY DEF TypeOK, Locations, Critical, Results
    <2> QED
      BY <1>5, <1>6, <2>1, <2>2 DEF TypeOK
  <1>8. LocalState'
    <2> SUFFICES ASSUME NEW u \in Threads
                 PROVE  LocalState!(u)'
      BY DEF LocalState
    <2>1. CASE u = t
      BY <2>1, <1>2, <1>3, <1>5, CallFields DEF LocalState, TypeOK
    <2>2. CASE u # t
      BY <2>2, <1>1, <1>5 DEF LocalState, TypeOK, Critical
    <2> QED
      BY <2>1, <2>2
  <1>9. MutualExclusion'
    BY DEF MutualExclusion, TypeOK, Critical
  <1>10. ListShape'
    <2>1. InsertPending' /\ ~RemovePending'
      BY <1>1 DEF InsertPending, RemovePending, TypeOK, Critical
    <2>2. Len(chain') - 1 = Len(chain)
      BY <1>3, <1>2
    <2>3. head' = chain'[1]
      BY <1>2, <1>3
    <2>4. ASSUME NEW i \in 1..Len(chain')
          PROVE  next'[chain'[i]] = IF i = Len(chain') THEN NULL ELSE chain'[i + 1]
      <3>1. CASE i = Len(chain')
        BY <3>1, <1>2, <1>3, <1>4, <1>6 DEF TypeOK, Linked
      <3>2. CASE i = Len(chain)
        BY <3>2, <1>2, <1>3, <1>4, <1>6 DEF TypeOK, Linked
      <3>3. CASE i < Len(chain)
        <4>1. chain[i] # chain[Len(chain)] /\ chain[i] # node[t] /\ chain[i] \in Nodes
          BY <3>3, <1>2, <1>3 DEF NodeOwnership, Linked
        <4>2. next[chain[i]] = chain[i + 1]
          BY <3>3, <1>3 DEF ListShape
        <4> QED
          BY <3>3, <4>1, <4>2, <1>2, <1>3, <1>4 DEF TypeOK
      <3> QED
        BY <3>1, <3>2, <3>3, <2>2, <1>3
    <2> QED
      BY <2>1, <2>2, <2>3, <2>4, <1>3, <1>5 DEF ListShape
  <1>11. NodeOwnership'
    <2>1. Linked' = Linked \cup {node[t]}
      BY <1>2, <1>3 DEF Linked
    <2>2. \A i, j \in 1..Len(chain') : chain'[i] = chain'[j] => i = j
      BY <1>2, <1>3 DEF NodeOwnership, Linked
    <2>3. \A i \in 1..Len(chain') : data'[chain'[i]] \in Msgs
      BY <1>2, <1>3 DEF NodeOwnership, Linked, TypeOK
    <2>4. ~Private(t)'
      BY DEF Private, TypeOK
    <2>5. \A u \in Threads : u # t => (Private(u)' <=> Private(u))
      BY DEF Private, TypeOK
    <2>6. Private(t)
      BY <1>2 DEF Private, LocalState
    <2> QED
      BY <2>1, <2>2, <2>3, <2>4, <2>5, <2>6, <1>2 DEF NodeOwnership
  <1> QED
    BY <1>7, <1>8, <1>9, <1>10, <1>11

\* InsertTail preserves the inductive invariant.
LEMMA InsertTailIInv == ASSUME NEW t \in Threads, IInv, InsertTail(t) PROVE IInv'
  <1> USE MsgQueueAssumption DEF IInv, InsertTail, Goto, list
  <1>1. TypeOK'
    BY CallFields DEF TypeOK, Locations, Critical, Results, LocalState
  <1>2. LocalState'
    BY CallFields DEF LocalState, TypeOK, Results, MutualExclusion, Critical
  <1>3. MutualExclusion'
    BY DEF MutualExclusion, TypeOK, Critical
  <1>4. ListShape'
    BY DEF ListShape, TypeOK, InsertPending, RemovePending, LocalState, MutualExclusion, Critical, NodeOwnership
  <1>5. NodeOwnership'
    BY CallFields DEF NodeOwnership, Linked, Private, TypeOK, LocalState, Results, ListShape
  <1> QED
    BY <1>1, <1>2, <1>3, <1>4, <1>5

\* RemoveTail preserves the inductive invariant.
LEMMA RemoveTailIInv == ASSUME NEW t \in Threads, IInv, RemoveTail(t) PROVE IInv'
  <1> USE MsgQueueAssumption DEF IInv, RemoveTail, Goto
  <1>1. /\ \A u \in Threads : u # t => pc[u] \notin Critical
        /\ ~InsertPending /\ ~RemovePending
    BY Alone DEF Critical
  <1>2. /\ chain \in Seq(Nodes)
        /\ head = IF chain = <<>> THEN NULL ELSE chain[1]
        /\ tail = IF chain = <<>> THEN NULL ELSE chain[Len(chain)]
        /\ cur_length = Len(chain)
    BY <1>1 DEF ListShape, TypeOK
  <1>3. chain # <<>> => head \in Nodes /\ (head = tail <=> Len(chain) = 1)
    BY <1>2 DEF NodeOwnership
  <1>4. TypeOK'
    BY DEF TypeOK, Locations, Critical, Results
  <1>5. LocalState'
    <2> SUFFICES ASSUME NEW u \in Threads
                 PROVE  LocalState!(u)'
      BY DEF LocalState
    <2>1. CASE u = t
      BY <2>1, <1>2, <1>3, CallFields DEF LocalState, TypeOK, Results
    <2>2. CASE u # t
      BY <2>2, <1>1 DEF LocalState, TypeOK, Critical
    <2> QED
      BY <2>1, <2>2
  <1>6. MutualExclusion'
    BY DEF MutualExclusion, TypeOK, Critical
  <1>7. ListShape'
    <2>1. ~InsertPending' /\ (RemovePending' <=> chain # <<>>)
      BY <1>1, <1>2, <1>3 DEF InsertPending, RemovePending, TypeOK, Critical
    <2>2. tail' = IF chain = <<>> \/ Len(chain) = 1 THEN NULL ELSE chain[Len(chain)]
      BY <1>2, <1>3
    <2> QED
      BY <2>1, <2>2, <1>2, <1>1 DEF ListShape
  <1>8. NodeOwnership'
    BY CallFields DEF NodeOwnership, Linked, Private, TypeOK, LocalState, Results
  <1> QED
    BY <1>4, <1>5, <1>6, <1>7, <1>8

\* RemoveHead preserves the inductive invariant.
LEMMA RemoveHeadIInv == ASSUME NEW t \in Threads, IInv, RemoveHead(t) PROVE IInv'
  <1> USE MsgQueueAssumption DEF IInv, RemoveHead, Goto
  <1>1. /\ \A u \in Threads : u # t => pc[u] \notin Critical
        /\ ~InsertPending /\ RemovePending
    BY Alone DEF Critical
  <1>2. /\ chain \in Seq(Nodes) /\ chain # <<>>
        /\ head = chain[1] /\ head \in Nodes
        /\ tail = IF Len(chain) = 1 THEN NULL ELSE chain[Len(chain)]
        /\ cur_length = Len(chain)
    BY <1>1 DEF ListShape, TypeOK, LocalState
  <1>3. next[head] = IF Len(chain) = 1 THEN NULL ELSE chain[2]
    BY <1>2 DEF ListShape
  <1>4. /\ chain' \in Seq(Nodes) /\ Len(chain') = Len(chain) - 1
        /\ \A i \in 1..Len(chain') : chain'[i] = chain[i + 1]
        /\ chain' = <<>> <=> Len(chain) = 1
    <2>1. /\ chain' \in Seq(Nodes) /\ Len(chain') = Len(chain) - 1
          /\ \A i \in 1..Len(chain') : chain'[i] = chain[i + 1]
      BY <1>2, EmptySeq
    <2>2. chain' = <<>> <=> Len(chain') = 0
      BY <2>1, EmptySeq
    <2> QED
      BY <1>2, <2>1, <2>2
  <1>5. data[head] \in Msgs
    BY <1>2 DEF NodeOwnership
  <1>6. cur_length' = Len(chain')
    BY <1>2, <1>4
  <1>7. TypeOK'
    <2>1. ret' \in [Threads -> Results \cup {NULL}] /\ pc' \in [Threads -> Locations]
      BY <1>5 DEF TypeOK, Results, Locations, Critical
    <2>2. head' \in Nodes \cup {NULL} /\ node' \in [Threads -> Nodes \cup {NULL}]
      BY <1>2 DEF TypeOK
    <2> QED
      BY <1>4, <1>6, <2>1, <2>2 DEF TypeOK
  <1>8. LocalState'
    <2> SUFFICES ASSUME NEW u \in Threads
                 PROVE  LocalState!(u)'
      BY DEF LocalState
    <2>1. CASE u = t
      BY <2>1, <1>5, CallFields DEF LocalState, TypeOK, Results
    <2>2. CASE u # t
      BY <2>2, <1>1 DEF LocalState, TypeOK, Critical
    <2> QED
      BY <2>1, <2>2
  <1>9. MutualExclusion'
    BY DEF MutualExclusion, TypeOK, Critical
  <1>10. ListShape'
    <2>1. ~InsertPending' /\ ~RemovePending'
      BY <1>1 DEF InsertPending, RemovePending, TypeOK, Critical
    <2>2. head' = IF chain' = <<>> THEN NULL ELSE chain'[1]
      BY <1>2, <1>3, <1>4
    <2>3. tail' = IF chain' = <<>> THEN NULL ELSE chain'[Len(chain')]
      BY <1>2, <1>4
    <2>4. \A i \in 1..Len(chain') :
            next'[chain'[i]] = IF i = Len(chain') THEN NULL ELSE chain'[i + 1]
      BY <1>2, <1>4 DEF ListShape
    <2>5. Len(chain') = 0 <=> chain' = <<>>
      BY <1>4, EmptySeq
    <2> HIDE DEF RemoveHead, IInv
    <2> QED
      BY <2>1, <2>2, <2>3, <2>4, <2>5, <1>6 DEF ListShape
  <1>11. NodeOwnership'
    <2>1. head \in allocated /\ head \notin Linked'
      BY <1>2, <1>4 DEF NodeOwnership, Linked
    <2>2. Linked' \subseteq Linked
      BY <1>2, <1>4 DEF Linked
    <2>3. \A u \in Threads : Private(u) => node[u] # head
      BY <1>2 DEF NodeOwnership, Linked
    <2>4. \A u \in Threads : u # t => (Private(u)' <=> Private(u)) /\ node'[u] = node[u]
      BY DEF Private, TypeOK
    <2>5. node'[t] = head
      BY DEF TypeOK
    <2>6. \A i, j \in 1..Len(chain') : chain'[i] = chain'[j] => i = j
      BY <1>2, <1>4 DEF NodeOwnership
    <2>7. \A i \in 1..Len(chain') : data'[chain'[i]] \in Msgs
      BY <1>2, <1>4 DEF NodeOwnership
    <2> QED
      BY <2>1, <2>2, <2>3, <2>4, <2>5, <2>6, <2>7 DEF NodeOwnership
  <1> QED
    BY <1>7, <1>8, <1>9, <1>10, <1>11

\* SetLength preserves the inductive invariant.
LEMMA SetLengthIInv == ASSUME IInv, SetLength PROVE IInv'
  <1> USE MsgQueueAssumption DEF IInv, SetLength, list
  <1>1. TypeOK'
    BY DEF TypeOK
  <1>2. LocalState'
    BY DEF LocalState
  <1>3. MutualExclusion'
    BY DEF MutualExclusion
  <1>4. ListShape'
    BY DEF ListShape, InsertPending, RemovePending
  <1>5. NodeOwnership'
    BY DEF NodeOwnership, Linked, Private
  <1> QED
    BY <1>1, <1>2, <1>3, <1>4, <1>5

\* A stuttering step preserves the inductive invariant.
LEMMA StutterIInv == ASSUME IInv, UNCHANGED vars PROVE IInv'
  BY DEF IInv, vars, TypeOK, LocalState, MutualExclusion, ListShape, NodeOwnership,
         InsertPending, RemovePending, Linked, Private

\* Every step preserves the inductive invariant.
LEMMA NextIInv == IInv /\ [Next]_vars => IInv'
  <1> SUFFICES ASSUME IInv, [Next]_vars PROVE IInv'
    OBVIOUS
  <1>1. CASE SetLength
    BY <1>1, SetLengthIInv
  <1>2. CASE UNCHANGED vars
    BY <1>2, StutterIInv
  <1>3. ASSUME NEW t \in Threads, Step(t) PROVE IInv'
    BY <1>3, BeginIInv, InsertAllocIInv, RemoveStartIInv, AcquireIInv,
       InsertFullIInv, InsertLinkIInv, InsertTailIInv, RemoveTailIInv,
       RemoveHeadIInv, ReleaseIInv, FinishIInv DEF Step
  <1> QED
    BY <1>1, <1>2, <1>3 DEF Next

\* ts_queue.c keeps its list well formed and its nodes accounted for, whatever
\* the number of threads, the size of the heap and the interleaving.
THEOREM Inductive == Spec => []IInv
  BY InitIInv, NextIInv, PTL DEF Spec

\* Every variable of ts_queue.c and of its callers keeps its type; what a remove
\* answers is a message.
THEOREM TypeCorrect == Spec => []TypeOK
  BY Inductive, PTL DEF IInv

\* The mutex of the queue really excludes.
THEOREM Exclusion == Spec => []MutualExclusion
  BY Inductive, PTL DEF IInv

\* The list of ts_queue.c is well formed, also between the steps of an update.
THEOREM WellFormed == Spec => []ListShape
  BY Inductive, PTL DEF IInv

\* No node is freed while linked, linked twice, or held by two threads.
THEOREM Ownership == Spec => []NodeOwnership
  BY Inductive, PTL DEF IInv

-----------------------------------------------------------------------------
\* The messages waiting in the list, oldest first: the refinement mapping.
Waiting == [i \in 1..Len(chain) |-> data[chain[i]]]

\* The refinement mapping yields a sequence of messages as long as the list.
LEMMA WaitingIsSeq ==
  ASSUME NEW c \in Seq(Nodes), NEW d,
         \A i \in 1..Len(c) : d[c[i]] \in Msgs
  PROVE  LET w == [i \in 1..Len(c) |-> d[c[i]]]
         IN  /\ w \in Seq(Msgs) /\ Len(w) = Len(c)
             /\ \A i \in 1..Len(c) : w[i] = d[c[i]]
  OBVIOUS

\* ... in every state that satisfies the invariant.
LEMMA WaitingOfState ==
  ASSUME IInv
  PROVE  /\ Waiting \in Seq(Msgs) /\ Len(Waiting) = Len(chain)
         /\ \A i \in 1..Len(chain) : Waiting[i] = data[chain[i]]
  BY WaitingIsSeq DEF Waiting, IInv, TypeOK, NodeOwnership

\* Linking a node appends its message to the abstract queue.
LEMMA LinkAppends ==
  ASSUME NEW t \in Threads, IInv, InsertLink(t)
  PROVE  Waiting' = Append(Waiting, arg[t].msg)
  <1> DEFINE m == arg[t].msg
  <1>1. m \in Msgs /\ node[t] \in Nodes /\ node[t] \notin Linked
    BY CallFields, MsgQueueAssumption
    DEF IInv, InsertLink, LocalState, NodeOwnership, Private
  <1>2. /\ chain' = Append(chain, node[t]) /\ chain \in Seq(Nodes)
        /\ data' = [data EXCEPT ![node[t]] = m] /\ DOMAIN data = Nodes
    BY DEF IInv, InsertLink, TypeOK
  <1>3. /\ Waiting \in Seq(Msgs) /\ Len(Waiting) = Len(chain)
        /\ \A i \in 1..Len(chain) : Waiting[i] = data[chain[i]]
    BY WaitingOfState
  <1> HIDE DEF m
  <1>4. /\ Append(Waiting, m) \in Seq(Msgs)
        /\ Len(Append(Waiting, m)) = Len(chain) + 1
        /\ \A i \in 1..Len(chain) : Append(Waiting, m)[i] = data[chain[i]]
        /\ Append(Waiting, m)[Len(chain) + 1] = m
    BY <1>1, <1>3, AppendProperties
  <1>5. /\ chain' \in Seq(Nodes) /\ Len(chain') = Len(chain) + 1
        /\ \A i \in 1..Len(chain) : chain'[i] = chain[i]
        /\ chain'[Len(chain) + 1] = node[t]
    BY <1>1, <1>2, AppendProperties
  <1>6. ASSUME NEW i \in 1..Len(chain')
        PROVE  data'[chain'[i]] = Append(Waiting, m)[i]
    <2>1. CASE i = Len(chain) + 1
      BY <2>1, <1>1, <1>2, <1>4, <1>5
    <2>2. CASE i # Len(chain) + 1
      <3>1. i \in 1..Len(chain) /\ Len(chain) \in Nat
        BY <2>2, <1>2, <1>5
      <3>2. chain'[i] = chain[i] /\ chain[i] \in Nodes /\ chain[i] # node[t]
        BY <3>1, <1>1, <1>2, <1>5 DEF Linked
      <3> QED
        BY <3>1, <3>2, <1>2, <1>4
    <2> QED
      BY <2>1, <2>2
  <1>7. \A i \in 1..Len(chain') : data'[chain'[i]] \in Msgs
    BY <1>4, <1>5, <1>6
  <1>8. Waiting' \in Seq(Msgs) /\ Len(Waiting') = Len(chain')
        /\ \A i \in 1..Len(chain') : Waiting'[i] = data'[chain'[i]]
    BY <1>5, <1>7, WaitingIsSeq DEF Waiting
  <1>9. Waiting' = Append(Waiting, m)
    BY <1>4, <1>5, <1>6, <1>8, SeqEqual
  <1> QED
    BY <1>9 DEF m

\* Unlinking the first node takes the oldest message off the abstract queue.
LEMMA UnlinkTakesHead ==
  ASSUME NEW t \in Threads, IInv, RemoveHead(t)
  PROVE  /\ Waiting # <<>>
         /\ data[head] = Head(Waiting)
         /\ Waiting' = Tail(Waiting)
  <1>1. /\ chain \in Seq(Nodes) /\ chain # <<>> /\ head = chain[1]
        /\ chain' = Tail(chain) /\ data' = data
    BY DEF IInv, RemoveHead, LocalState, ListShape, TypeOK
  <1>2. /\ Waiting \in Seq(Msgs) /\ Len(Waiting) = Len(chain)
        /\ \A i \in 1..Len(chain) : Waiting[i] = data[chain[i]]
    BY WaitingOfState
  <1>3. Waiting # <<>> /\ data[head] = Head(Waiting)
    BY <1>1, <1>2, EmptySeq
  <1>4. /\ chain' \in Seq(Nodes) /\ Len(chain') = Len(chain) - 1
        /\ \A i \in 1..Len(chain') : chain'[i] = chain[i + 1]
    BY <1>1, HeadTailProperties
  <1>5. /\ Tail(Waiting) \in Seq(Msgs) /\ Len(Tail(Waiting)) = Len(chain')
        /\ \A i \in 1..Len(chain') : Tail(Waiting)[i] = Waiting[i + 1]
    BY <1>2, <1>3, <1>4, HeadTailProperties
  <1>6. \A i \in 1..Len(chain') : data'[chain'[i]] = Tail(Waiting)[i]
    BY <1>1, <1>2, <1>4, <1>5
  <1>7. \A i \in 1..Len(chain') : data'[chain'[i]] \in Msgs
    BY <1>5, <1>6
  <1>8. Waiting' \in Seq(Msgs) /\ Len(Waiting') = Len(chain')
        /\ \A i \in 1..Len(chain') : Waiting'[i] = data'[chain'[i]]
    BY <1>4, <1>7, WaitingIsSeq DEF Waiting
  <1>9. Waiting' = Tail(Waiting)
    BY <1>5, <1>6, <1>8, SeqEqual
  <1> QED
    BY <1>3, <1>9

\* A step that leaves the list alone leaves the waiting messages alone.
LEMMA WaitingUntouched ==
  ASSUME UNCHANGED <<chain, data>> PROVE Waiting' = Waiting
  BY DEF Waiting

\* Every step of a thread is a step of the abstract queue, or a stutter.
LEMMA StepRefines ==
  ASSUME NEW t \in Threads, IInv, Step(t)
  PROVE  [Fifo!FifoNext]_(Fifo!fifoVars)
  <1> USE MsgQueueAssumption DEF Goto, list, Fifo!fifoVars
  <1>1. CASE Begin(t)
    <2>1. Fifo!Invoke(t)
      BY <1>1 DEF Begin, Fifo!Invoke, IInv, LocalState, Calls, Fifo!Calls
    <2> QED
      BY <2>1 DEF Fifo!FifoNext
  <1>2. CASE InsertAlloc(t)
    <2>1. Fifo!Refuse(t) \/ UNCHANGED Fifo!fifoVars
      BY <1>2, CallFields DEF InsertAlloc, Fifo!Refuse, IInv, LocalState
    <2> QED
      BY <2>1 DEF Fifo!FifoNext
  <1>3. CASE RemoveStart(t) \/ Acquire(t) \/ InsertTail(t) \/ Release(t)
    BY <1>3 DEF RemoveStart, Acquire, InsertTail, Release
  <1>4. CASE InsertFull(t)
    <2>1. cur_length = Len(chain)
      BY <1>4, Alone DEF InsertFull, IInv, ListShape, Critical
    <2>2. ~Fifo!HasRoom
      BY <1>4, <2>1, WaitingOfState
      DEF InsertFull, Fifo!HasRoom, TS_QUEUE_LEN_UNLIMIT, Waiting, IInv, TypeOK
    <2>3. Fifo!Refuse(t)
      BY <1>4, <2>2, CallFields DEF InsertFull, Fifo!Refuse, IInv, LocalState
    <2> QED
      BY <2>3 DEF Fifo!FifoNext
  <1>5. CASE InsertLink(t)
    <2>1. cur_length = Len(chain)
      BY <1>5, Alone DEF InsertLink, IInv, ListShape, Critical
    <2>2. Fifo!HasRoom
      BY <1>5, <2>1, WaitingOfState
      DEF InsertLink, Fifo!HasRoom, TS_QUEUE_LEN_UNLIMIT, Waiting, IInv, TypeOK
    <2>3. Fifo!Accept(t)
      BY <1>5, <2>2, CallFields, LinkAppends
      DEF InsertLink, Fifo!Accept, IInv, LocalState, Waiting
    <2> QED
      BY <2>3 DEF Fifo!FifoNext
  <1>6. CASE RemoveTail(t)
    <2>1. head = NULL /\ tail = NULL <=> chain = <<>>
      BY <1>6, EmptySeq DEF RemoveTail, IInv, TypeOK, ListShape
    <2>2. chain = <<>> => Waiting = <<>>
      BY DEF Waiting
    <2>3. Fifo!Take(t) \/ UNCHANGED Fifo!fifoVars
      BY <1>6, <2>1, <2>2, CallFields DEF RemoveTail, Fifo!Take, IInv, LocalState, Waiting
    <2> QED
      BY <2>3 DEF Fifo!FifoNext
  <1>7. CASE RemoveHead(t)
    <2>1. Fifo!Take(t)
      BY <1>7, UnlinkTakesHead, CallFields
      DEF RemoveHead, Fifo!Take, IInv, LocalState, Waiting
    <2> QED
      BY <2>1 DEF Fifo!FifoNext
  <1>8. CASE Finish(t)
    <2>1. Fifo!Return(t)
      BY <1>8, CallFields DEF Finish, Fifo!Return, IInv, LocalState, Results
    <2> QED
      BY <2>1 DEF Fifo!FifoNext
  <1> QED
    BY <1>1, <1>2, <1>3, <1>4, <1>5, <1>6, <1>7, <1>8 DEF Step

\* The linked list under its mutex implements the indivisible bounded FIFO:
\* messages leave in the order they entered, exactly once, whatever the number
\* of threads that share the queue.
THEOREM Refinement == Spec => ImplementsFifo
  <1>1. Init => Fifo!FifoInit
    BY DEF Init, Fifo!FifoInit, TS_QUEUE_LEN_UNLIMIT
  <1>2. IInv /\ [Next]_vars => [Fifo!FifoNext]_(Fifo!fifoVars)
    <2> SUFFICES ASSUME IInv, [Next]_vars PROVE [Fifo!FifoNext]_(Fifo!fifoVars)
      OBVIOUS
    <2>1. CASE SetLength
      BY <2>1 DEF SetLength, list, Fifo!FifoNext, Fifo!SetLimit
    <2>2. CASE UNCHANGED vars
      BY <2>2 DEF vars, Fifo!fifoVars
    <2> QED
      BY <2>1, <2>2, StepRefines DEF Next
  <1> QED
    BY <1>1, <1>2, Inductive, PTL DEF Spec, ImplementsFifo, Fifo!FifoSpec

-----------------------------------------------------------------------------
(* Nothing leaks.                                                          *)

\* The queue is bounded for good, or never: no length set later lifts a bound.
BoundedOrNot == TS_QUEUE_LEN_UNLIMIT \notin Lengths \/ Lengths \subseteq {TS_QUEUE_LEN_UNLIMIT, 0}

\* While the queue is unlimited, a node that malloc gave out is linked or in the
\* hands of a thread, and an insert that comes to its end has linked its node or
\* has none.
NodesInUse ==
  /\ max_length \in {TS_QUEUE_LEN_UNLIMIT} \cup (Lengths \ {0})
  /\ max_length = TS_QUEUE_LEN_UNLIMIT =>
       /\ \A n \in allocated : n \in Linked \/ \E t \in Threads : Private(t) /\ node[t] = n
       /\ \A t \in Threads :
            pc[t] \in {"unlock", "return"} /\ arg[t].op = "insert" =>
              ret[t] = "ok" \/ node[t] = NULL

\* A step of a thread keeps the account.
LEMMA StepInUse ==
  ASSUME IInv, NodesInUse, NEW t \in Threads, Step(t)
  PROVE  NodesInUse'
  <1> SUFFICES ASSUME max_length = TS_QUEUE_LEN_UNLIMIT, UNCHANGED max_length
               PROVE  /\ \A n \in allocated' :
                           n \in Linked' \/ \E u \in Threads : Private(u)' /\ node'[u] = n
                      /\ \A u \in Threads :
                           pc'[u] \in {"unlock", "return"} /\ arg'[u].op = "insert" =>
                             ret'[u] = "ok" \/ node'[u] = NULL
    BY DEF NodesInUse, Step, Begin, InsertAlloc, RemoveStart, Acquire, InsertFull,
           InsertLink, InsertTail, RemoveTail, RemoveHead, Release, Finish
  <1> USE MsgQueueAssumption DEF NodesInUse, Linked, Private, Goto, list
  <1>1. TypeOK /\ LocalState
    BY DEF IInv
  <1>2. CASE Begin(t)
    BY <1>1, <1>2, CallFields DEF Begin, TypeOK, LocalState
  <1>3. CASE InsertAlloc(t)
    BY <1>1, <1>3 DEF InsertAlloc, TypeOK, LocalState
  <1>4. CASE RemoveStart(t) \/ Acquire(t) \/ InsertTail(t) \/ Release(t)
    BY <1>1, <1>4 DEF RemoveStart, Acquire, InsertTail, Release, TypeOK, LocalState
  <1>5. CASE InsertFull(t)
    BY <1>5 DEF InsertFull
  <1>6. CASE InsertLink(t)
    <2>1. /\ chain' = Append(chain, node[t]) /\ chain \in Seq(Nodes) /\ node[t] \in Nodes
          /\ UNCHANGED <<node, arg, allocated>>
          /\ ret' = [ret EXCEPT ![t] = "ok"] /\ pc' = [pc EXCEPT ![t] = "ins_tail"]
      BY <1>1, <1>6 DEF InsertLink, TypeOK, LocalState
    <2>2. Linked' = Linked \cup {node[t]}
      <3>1. /\ Len(chain') = Len(chain) + 1 /\ Len(chain) \in Nat
            /\ \A i \in 1..Len(chain) : chain'[i] = chain[i]
            /\ chain'[Len(chain) + 1] = node[t]
        BY <2>1, AppendProperties
      <3>2. 1..Len(chain') = 1..Len(chain) \cup {Len(chain) + 1}
        BY <3>1
      <3> QED
        BY <3>1, <3>2
    <2>3. \A n \in allocated : n \in Linked \/ \E u \in Threads : Private(u) /\ node[u] = n
      OBVIOUS
    <2>4. \A u \in Threads \ {t} : Private(u) <=> Private(u)'
      BY <1>1, <2>1 DEF TypeOK
    <2> QED
      BY <1>1, <2>1, <2>2, <2>3, <2>4 DEF TypeOK
  <1>7. CASE RemoveTail(t)
    BY <1>1, <1>7 DEF RemoveTail, TypeOK, LocalState
  <1>8. CASE RemoveHead(t)
    <2>1. /\ chain # <<>> /\ chain \in Seq(Nodes) /\ chain' = Tail(chain) /\ head = chain[1]
          /\ node' = [node EXCEPT ![t] = head] /\ UNCHANGED <<arg, allocated>>
          /\ ret' = [ret EXCEPT ![t] = data[head]] /\ pc' = [pc EXCEPT ![t] = "unlock"]
          /\ arg[t].op = "remove" /\ node[t] = NULL
      BY <1>1, <1>8 DEF IInv, RemoveHead, TypeOK, LocalState, ListShape
    <2>2. data[head] \in Msgs /\ head \in Nodes
      <3>1. 1 \in 1..Len(chain)
        BY <2>1
      <3> QED
        BY <2>1, <3>1 DEF IInv, NodeOwnership
    <2>3. ASSUME NEW n \in Linked PROVE n = head \/ n \in Linked'
      <3>1. PICK i \in 1..Len(chain) : n = chain[i]
        BY <2>3
      <3>2. CASE i = 1
        BY <2>1, <3>1, <3>2
      <3>3. CASE i # 1
        <4>1. i - 1 \in 1..Len(chain') /\ chain'[i - 1] = chain[i]
          BY <2>1, <3>1, <3>3
        <4> QED
          BY <3>1, <4>1
      <3> QED
        BY <3>2, <3>3
    <2>4. Private(t)' /\ node'[t] = head
      BY <1>1, <2>1, <2>2 DEF TypeOK
    <2>5. \A u \in Threads \ {t} : Private(u) => Private(u)' /\ node'[u] = node[u]
      BY <1>1, <2>1 DEF TypeOK
    <2> QED
      BY <1>1, <2>1, <2>3, <2>4, <2>5 DEF TypeOK
  <1>9. CASE Finish(t)
    BY <1>1, <1>9, CallFields DEF Finish, TypeOK, LocalState
  <1> QED
    BY <1>2, <1>3, <1>4, <1>5, <1>6, <1>7, <1>8, <1>9 DEF Step

\* As long as the queue is unlimited no node is lost, whatever threads insert and
\* remove and wherever malloc fails: between calls malloc has given out the linked
\* nodes and no others (ts_queue_insert_node, ts_queue_remove_node).  A queue that
\* was bounded once has perhaps lost the nodes of refused inserts, so that a bound
\* must not be lifted; nothing in the daemon does.
THEOREM NothingLeaks ==
  ASSUME BoundedOrNot
  PROVE  Spec => []HeapAccounted
  <1>1. Init => NodesInUse
    BY DEF Init, NodesInUse
  <1>2. IInv /\ NodesInUse /\ [Next]_vars => NodesInUse'
    <2> SUFFICES ASSUME IInv, NodesInUse, [Next]_vars PROVE NodesInUse'
      OBVIOUS
    <2>1. CASE SetLength
      BY <2>1 DEF SetLength, NodesInUse, BoundedOrNot, Linked, Private, list
    <2>2. CASE UNCHANGED vars
      BY <2>2 DEF vars, NodesInUse, Linked, Private
    <2> QED
      BY <2>1, <2>2, StepInUse DEF Next
  <1>3. IInv /\ NodesInUse => HeapAccounted
    <2> SUFFICES ASSUME IInv, NodesInUse, max_length = TS_QUEUE_LEN_UNLIMIT,
                        \A t \in Threads : pc[t] = "idle"
                 PROVE  allocated = Linked
      BY DEF HeapAccounted
    <2>1. \A t \in Threads : ~Private(t)
      BY DEF IInv, LocalState, Private
    <2>2. Linked \subseteq allocated
      BY DEF IInv, NodeOwnership
    <2> QED
      BY <2>1, <2>2 DEF NodesInUse
  <1> QED
    BY <1>1, <1>2, <1>3, InitIInv, NextIInv, PTL DEF Spec

-----------------------------------------------------------------------------
(* The upgrade flag makes the transfers exclusive: never two threads,      *)
(* g_tftpInfo belongs to the one there is, and the main thread does not    *)
(* exit under it.                                                          *)

\* What the proc thread knows on its way from the test of the flag to the
\* creation of the thread, and the main thread once it has exited.
Handling ==
  /\ ppc = "set" => flag = 0
  /\ ppc \in {"fill", "cli"} => flag = 1 /\ Active = {}
  /\ main = "exit" => ppc = "stopped" /\ flag = 0

\* The thread and the history agree on how the transfer went.
Outcome ==
  /\ \A w \in Workers :
       /\ wpc[w] = "failed" => last = "failed"
       /\ wpc[w] = "succeeded" => last \in {"ok", "killed"}
       /\ wpc[w] = "clear" => last # "pending"
                              /\ status = IF last = "failed" THEN "FAIL" ELSE "SUCCESS"

UpgradeInv ==
  /\ UpgradeTypeOK /\ OneTransfer /\ NoOverwrite /\ FlagAccounted /\ Handling
  /\ Outcome /\ SettledStatus

-----------------------------------------------------------------------------
\* The initial state.
LEMMA InitUpgradeInv == UpgradeInit => UpgradeInv
<1> SUFFICES ASSUME UpgradeInit PROVE UpgradeInv
  OBVIOUS
<1>1. UpgradeTypeOK
  BY DEF UpgradeInit, UpgradeTypeOK, NoReply, Statuses, Outcomes
<1>2. Active = {} /\ flag = 0 /\ last = "none"
  BY DEF UpgradeInit, Active
<1>3. OneTransfer /\ NoOverwrite /\ FlagAccounted /\ SettledStatus
  BY <1>2 DEF OneTransfer, NoOverwrite, FlagAccounted, SettledStatus
<1>4. Handling /\ Outcome
  BY DEF UpgradeInit, Handling, Outcome
<1> QED
  BY <1>1, <1>3, <1>4 DEF UpgradeInv

\* Types.
LEMMA NextType == UpgradeTypeOK /\ [UpgradeNext]_upgradeVars => UpgradeTypeOK'
<1> SUFFICES ASSUME UpgradeTypeOK, [UpgradeNext]_upgradeVars PROVE UpgradeTypeOK'
  OBVIOUS
<1> USE DEF UpgradeTypeOK, Statuses, Outcomes
<1>1. ASSUME Proc PROVE UpgradeTypeOK'
  <2>1. CASE LoopTop \/ NoMessage \/ Refuse \/ Unknown \/ Config \/ Query
    BY <2>1 DEF LoopTop, NoMessage, Refuse, Unknown, Config, Query, Answer
  <2>2. CASE GetFlag \/ SetFlag \/ Fill
    BY <2>2 DEF GetFlag, SetFlag, Fill, Answer
  <2>3. CASE CliInvalid \/ CliCreate \/ CliCreateFails
    BY <2>3 DEF CliInvalid, CliCreate, CliCreateFails, Answer
  <2> QED
    BY <1>1, <2>1, <2>2, <2>3 DEF Proc, Handler
<1>2. ASSUME NEW w \in Workers, Tftp(w) PROVE UpgradeTypeOK'
  BY <1>2 DEF Tftp, AddressFails, StartTransfer, Transferred, Report, ClearFlag
<1>3. ASSUME Terminate \/ MainExit PROVE UpgradeTypeOK'
  BY <1>3 DEF Terminate, MainExit
<1>4. CASE UNCHANGED upgradeVars
  BY <1>4 DEF upgradeVars
<1> QED
  BY <1>1, <1>2, <1>3, <1>4 DEF UpgradeNext

\* The exclusion argument.  Only the proc thread takes the flag, and it takes it
\* free, when by FlagAccounted no thread lives; only the thread gives it back.
Exclusive == OneTransfer /\ NoOverwrite /\ FlagAccounted /\ Handling

\* Every step preserves the exclusion argument.
LEMMA NextExclusive == UpgradeTypeOK /\ Exclusive /\ [UpgradeNext]_upgradeVars => Exclusive'
<1> SUFFICES ASSUME UpgradeTypeOK, Exclusive, [UpgradeNext]_upgradeVars PROVE Exclusive'
  OBVIOUS
<1> USE DEF UpgradeTypeOK, Exclusive, OneTransfer, NoOverwrite, FlagAccounted, Handling, Active
<1>1. ASSUME Proc PROVE Exclusive'
  <2>1. CASE LoopTop \/ NoMessage \/ Refuse \/ Unknown \/ Config \/ Query
    BY <2>1 DEF LoopTop, NoMessage, Refuse, Unknown, Config, Query, Answer
  <2>2. CASE GetFlag
    BY <2>2 DEF GetFlag, Answer
  <2>3. CASE SetFlag
    BY <2>3 DEF SetFlag
  <2>4. CASE Fill
    BY <2>4 DEF Fill
  <2>5. CASE CliInvalid
    BY <2>5 DEF CliInvalid, Answer
  <2>6. CASE CliCreate
    <3>1. PICK w \in Workers : /\ wpc[w] = "none"
                               /\ wpc' = [wpc EXCEPT ![w] = "start"]
                               /\ job' = [job EXCEPT ![w] = info]
      BY <2>6 DEF CliCreate
    <3>2. Active = {} /\ flag = 1
      BY <2>6 DEF CliCreate
    <3>3. Active' = {w}
      BY <3>1, <3>2
    <3> QED
      BY <2>6, <3>1, <3>2, <3>3 DEF CliCreate
  <2>7. CASE CliCreateFails
    BY <2>7 DEF CliCreateFails, Answer
  <2> QED
    BY <1>1, <2>1, <2>2, <2>3, <2>4, <2>5, <2>6, <2>7 DEF Proc, Handler
<1>2. ASSUME NEW w \in Workers, Tftp(w) PROVE Exclusive'
  <2>1. CASE ClearFlag(w)
    <3>1. Active = {w} /\ Active' = {}
      BY <2>1 DEF ClearFlag
    <3> QED
      BY <2>1, <3>1 DEF ClearFlag
  <2>2. CASE AddressFails(w)
    BY <2>2 DEF AddressFails
  <2>3. CASE StartTransfer(w)
    BY <2>3 DEF StartTransfer
  <2>4. CASE Transferred(w)
    BY <2>4 DEF Transferred
  <2>5. CASE Report(w)
    BY <2>5 DEF Report
  <2> QED
    BY <1>2, <2>1, <2>2, <2>3, <2>4, <2>5 DEF Tftp
<1>3. ASSUME Terminate \/ MainExit PROVE Exclusive'
  BY <1>3 DEF Terminate, MainExit
<1>4. CASE UNCHANGED upgradeVars
  BY <1>4 DEF upgradeVars
<1> QED
  BY <1>1, <1>2, <1>3, <1>4 DEF UpgradeNext

\* The status follows the outcome of the one transfer there is.
LEMMA NextOutcome == UpgradeInv /\ [UpgradeNext]_upgradeVars => (Outcome /\ SettledStatus)'
<1> SUFFICES ASSUME UpgradeInv, [UpgradeNext]_upgradeVars PROVE (Outcome /\ SettledStatus)'
  OBVIOUS
<1> USE DEF UpgradeInv, UpgradeTypeOK, OneTransfer, FlagAccounted, Handling, Outcome, SettledStatus, Active
<1>1. ASSUME Proc PROVE (Outcome /\ SettledStatus)'
  <2>1. CASE LoopTop \/ NoMessage \/ Refuse \/ Unknown \/ Config \/ Query \/ GetFlag
    BY <2>1 DEF LoopTop, NoMessage, Refuse, Unknown, Config, Query, GetFlag
  <2>2. CASE SetFlag
    BY <2>2 DEF SetFlag
  <2>3. CASE Fill
    BY <2>3 DEF Fill
  <2>4. CASE CliInvalid \/ CliCreateFails
    BY <2>4 DEF CliInvalid, CliCreateFails
  <2>5. CASE CliCreate
    BY <2>5 DEF CliCreate
  <2> QED
    BY <1>1, <2>1, <2>2, <2>3, <2>4, <2>5 DEF Proc, Handler
<1>2. ASSUME NEW w \in Workers, Tftp(w) PROVE (Outcome /\ SettledStatus)'
  <2>0. Active = {w} /\ flag = 1
    BY <1>2 DEF Tftp, AddressFails, StartTransfer, Transferred, Report, ClearFlag
  <2>1. CASE AddressFails(w)
    BY <2>0, <2>1 DEF AddressFails
  <2>2. CASE StartTransfer(w)
    BY <2>0, <2>2 DEF StartTransfer
  <2>3. CASE Transferred(w)
    BY <2>0, <2>3 DEF Transferred
  <2>4. CASE Report(w)
    BY <2>0, <2>4 DEF Report
  <2>5. CASE ClearFlag(w)
    BY <2>0, <2>5 DEF ClearFlag
  <2> QED
    BY <1>2, <2>1, <2>2, <2>3, <2>4, <2>5 DEF Tftp
<1>3. ASSUME Terminate \/ MainExit PROVE (Outcome /\ SettledStatus)'
  BY <1>3 DEF Terminate, MainExit
<1>4. CASE UNCHANGED upgradeVars
  BY <1>4 DEF upgradeVars
<1> QED
  BY <1>1, <1>2, <1>3, <1>4 DEF UpgradeNext

-----------------------------------------------------------------------------
\* UpgradeInv holds in every reachable state.
THEOREM UpgradeInductive == UpgradeSpec => []UpgradeInv
<1>1. UpgradeInit => UpgradeInv
  BY InitUpgradeInv
<1>2. UpgradeInv /\ [UpgradeNext]_upgradeVars => UpgradeInv'
  BY NextType, NextExclusive, NextOutcome DEF UpgradeInv, Exclusive
<1> QED
  BY <1>1, <1>2, PTL DEF UpgradeSpec

\* "Only 1 tftp thread is allowed": the flag is the mutex it is meant to be.
THEOREM OnlyOne == UpgradeSpec => []OneTransfer
<1>1. UpgradeInv => OneTransfer
  BY DEF UpgradeInv
<1> QED
  BY <1>1, UpgradeInductive, PTL

\* A living tftp thread reads the request it was created for.
THEOREM InfoStable == UpgradeSpec => []NoOverwrite
<1>1. UpgradeInv => NoOverwrite
  BY DEF UpgradeInv
<1> QED
  BY <1>1, UpgradeInductive, PTL

\* The flag is kept by a living tftp thread, the proc thread on its way to one,
\* or a request without a file, and by nobody else.
THEOREM FlagAlwaysAccounted == UpgradeSpec => []FlagAccounted
<1>1. UpgradeInv => FlagAccounted
  BY DEF UpgradeInv
<1> QED
  BY <1>1, UpgradeInductive, PTL

\* With the flag free the status is that of the last transfer.
THEOREM StatusSettled == UpgradeSpec => []SettledStatus
<1>1. UpgradeInv => SettledStatus
  BY DEF UpgradeInv
<1> QED
  BY <1>1, UpgradeInductive, PTL

\* The main thread exits only when no tftp thread is running.
THEOREM SafeExit == UpgradeSpec => []ExitSafe
<1>1. UpgradeInv => ExitSafe
  BY DEF UpgradeInv, Handling, FlagAccounted, ExitSafe
<1> QED
  BY <1>1, UpgradeInductive, PTL
=============================================================================
