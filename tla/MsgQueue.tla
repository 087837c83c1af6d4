------------------------------ MODULE MsgQueue ------------------------------
(***************************************************************************)
(* The thread-safe queue of ts_queue.c under the interface of msg_queue.c: *)
(* a singly linked list with head and tail pointers, a length counter and  *)
(* a mutex, shared by any number of threads (recv, the report timer, the   *)
(* alarm thread and the proc thread share g_mq this way).                  *)
(*                                                                         *)
(* The critical sections are split where the list is inconsistent, so the  *)
(* mutex has work to do.  The heap is finite: malloc fails when it is      *)
(* exhausted, and a refused insert never gives its node back.              *)
(***************************************************************************)
EXTENDS Integers, Sequences, FiniteSets

CONSTANTS
  Threads,      \* the threads that share the queue
  Msgs,         \* the messages (non-null payload pointers)
  Nodes,        \* the heap cells malloc hands out for struct ts_node
  Lengths,      \* the lengths msg_queue_set_length is called with
  NULL          \* the null pointer

ASSUME MsgQueueAssumption ==
  /\ NULL \notin Msgs /\ NULL \notin Nodes /\ NULL \notin Threads
  /\ Lengths \subseteq Int
  /\ Msgs \cap {"ok", "null", "nomem", "full", "empty"} = {}
  /\ NULL \notin {"ok", "null", "nomem", "full", "empty"}
  /\ NULL \notin [op : {"insert", "remove"}, msg : Msgs \cup {NULL}]

TS_QUEUE_LEN_UNLIMIT == -1

VARIABLES
  head, tail,   \* q->head, q->tail
  cur_length,   \* q->cur_length
  max_length,   \* q->max_length
  next, data,   \* node->next and node->data of every heap cell
  lock,         \* the holder of q->lock, NULL when it is free
  allocated,    \* the heap cells malloc has handed out and nobody freed
  pc,           \* where each thread is
  arg,          \* the call it is in
  node,         \* its local variable "node"
  ret,          \* what its call will return
  chain         \* history: the nodes linked so far and not yet unlinked, oldest first

list == <<head, tail, cur_length, next, data, chain>>
vars == <<head, tail, cur_length, max_length, next, data, lock, allocated,
          pc, arg, node, ret, chain>>

Calls == [op : {"insert"}, msg : Msgs \cup {NULL}] \cup [op : {"remove"}, msg : {NULL}]
Results == {"ok", "null", "nomem", "full", "empty"} \cup Msgs

-----------------------------------------------------------------------------
\* MUTANTS: plausible errors, to be put in the place of the definitions they are
\* named after; no specification below uses them.

InsertLink_OneTooMany(t) ==
  /\ pc[t] = "ins_link"
  /\ max_length = TS_QUEUE_LEN_UNLIMIT \/ cur_length <= max_length
  /\ data' = [data EXCEPT ![node[t]] = arg[t].msg]
  /\ IF head = NULL /\ tail = NULL
       THEN /\ head' = node[t]
            /\ next' = [next EXCEPT ![node[t]] = NULL]
       ELSE /\ next' = [next EXCEPT ![node[t]] = NULL, ![tail] = node[t]]
            /\ UNCHANGED head
  /\ ret' = [ret EXCEPT ![t] = "ok"]
  /\ chain' = Append(chain, node[t])
  /\ pc' = [pc EXCEPT ![t] = "ins_tail"]
  /\ UNCHANGED <<tail, cur_length, max_length, lock, allocated, arg, node>>

RemoveTail_KeepsTail(t) ==
  /\ pc[t] = "rem_tail"
  /\ IF head = NULL
       THEN /\ node' = [node EXCEPT ![t] = NULL]
            /\ ret' = [ret EXCEPT ![t] = "empty"]
            /\ pc' = [pc EXCEPT ![t] = "unlock"]
       ELSE /\ pc' = [pc EXCEPT ![t] = "rem_head"]
            /\ UNCHANGED <<node, ret>>
  /\ UNCHANGED <<head, tail, cur_length, next, data, chain, max_length, lock,
                 allocated, arg>>

Finish_NoFree(t) ==
  /\ pc[t] = "return"
  /\ node' = [node EXCEPT ![t] = NULL]
  /\ arg' = [arg EXCEPT ![t] = NULL]
  /\ ret' = [ret EXCEPT ![t] = NULL]
  /\ pc' = [pc EXCEPT ![t] = "idle"]
  /\ UNCHANGED <<list, max_length, lock, allocated>>

Finish_FreesInserted(t) ==
  /\ pc[t] = "return"
  /\ allocated' = allocated \ {node[t]}
  /\ node' = [node EXCEPT ![t] = NULL]
  /\ arg' = [arg EXCEPT ![t] = NULL]
  /\ ret' = [ret EXCEPT ![t] = NULL]
  /\ pc' = [pc EXCEPT ![t] = "idle"]
  /\ UNCHANGED <<list, max_length, lock>>

-----------------------------------------------------------------------------
\* Where a thread holds the mutex.
Critical == {"ins_link", "ins_tail", "rem_tail", "rem_head", "unlock"}
Locations == {"idle", "start", "ins_lock", "rem_lock", "return"} \cup Critical

Init ==
  /\ head = NULL /\ tail = NULL
  /\ cur_length = 0
  /\ max_length = TS_QUEUE_LEN_UNLIMIT
  /\ next = [n \in Nodes |-> NULL]
  /\ data = [n \in Nodes |-> NULL]
  /\ lock = NULL
  /\ allocated = {}
  /\ pc = [t \in Threads |-> "idle"]
  /\ arg = [t \in Threads |-> NULL]
  /\ node = [t \in Threads |-> NULL]
  /\ ret = [t \in Threads |-> NULL]
  /\ chain = <<>>

Goto(t, l) == pc' = [pc EXCEPT ![t] = l]

\* A thread calls msg_queue_insert_msg or msg_queue_remove_msg.
Begin(t) ==
  /\ pc[t] = "idle"
  /\ \E c \in Calls : arg' = [arg EXCEPT ![t] = c]
  /\ Goto(t, "start")
  /\ UNCHANGED <<list, max_length, lock, allocated, node, ret>>

\* ts_queue_insert_node before the lock: the null check and malloc.
InsertAlloc(t) ==
  /\ pc[t] = "start" /\ arg[t].op = "insert"
  /\ \/ /\ arg[t].msg = NULL
        /\ ret' = [ret EXCEPT ![t] = "null"]
        /\ Goto(t, "return")
        /\ UNCHANGED <<node, allocated>>
     \/ /\ arg[t].msg # NULL /\ allocated = Nodes
        /\ ret' = [ret EXCEPT ![t] = "nomem"]
        /\ Goto(t, "return")
        /\ UNCHANGED <<node, allocated>>
     \/ /\ arg[t].msg # NULL
        /\ \E n \in Nodes \ allocated :
             /\ node' = [node EXCEPT ![t] = n]
             /\ allocated' = allocated \cup {n}
        /\ Goto(t, "ins_lock")
        /\ UNCHANGED ret
  /\ UNCHANGED <<list, max_length, lock, arg>>

RemoveStart(t) ==
  /\ pc[t] = "start" /\ arg[t].op = "remove"
  /\ Goto(t, "rem_lock")
  /\ UNCHANGED <<list, max_length, lock, allocated, arg, node, ret>>

\* pthread_mutex_lock(&q->lock)
Acquire(t) ==
  /\ lock = NULL
  /\ \/ pc[t] = "ins_lock" /\ Goto(t, "ins_link")
     \/ pc[t] = "rem_lock" /\ Goto(t, "rem_tail")
  /\ lock' = t
  /\ UNCHANGED <<list, max_length, allocated, arg, node, ret>>

\* The bound is tested under the lock; a refused insert leaks its node.
InsertFull(t) ==
  /\ pc[t] = "ins_link"
  /\ max_length # TS_QUEUE_LEN_UNLIMIT /\ cur_length >= max_length
  /\ ret' = [ret EXCEPT ![t] = "full"]
  /\ Goto(t, "unlock")
  /\ UNCHANGED <<list, max_length, lock, allocated, arg, node>>

\* node->data, node->next, and the link from the head or from the old tail.
InsertLink(t) ==
  /\ pc[t] = "ins_link"
  /\ max_length = TS_QUEUE_LEN_UNLIMIT \/ cur_length < max_length
  /\ data' = [data EXCEPT ![node[t]] = arg[t].msg]
  /\ IF head = NULL /\ tail = NULL
       THEN /\ head' = node[t]
            /\ next' = [next EXCEPT ![node[t]] = NULL]
       ELSE /\ next' = [next EXCEPT ![node[t]] = NULL, ![tail] = node[t]]
            /\ UNCHANGED head
  /\ ret' = [ret EXCEPT ![t] = "ok"]
  /\ chain' = Append(chain, node[t])
  /\ Goto(t, "ins_tail")
  /\ UNCHANGED <<tail, cur_length, max_length, lock, allocated, arg, node>>

InsertTail(t) ==
  /\ pc[t] = "ins_tail"
  /\ tail' = node[t]
  /\ cur_length' = cur_length + 1
  /\ Goto(t, "unlock")
  /\ UNCHANGED <<head, next, data, chain, max_length, lock, allocated, arg, node, ret>>

\* ts_queue_remove_node: the empty test and the reset of the tail.
RemoveTail(t) ==
  /\ pc[t] = "rem_tail"
  /\ IF head = NULL /\ tail = NULL
       THEN /\ node' = [node EXCEPT ![t] = NULL]
            /\ ret' = [ret EXCEPT ![t] = "empty"]
            /\ Goto(t, "unlock")
            /\ UNCHANGED tail
       ELSE /\ tail' = IF head = tail THEN NULL ELSE tail
            /\ Goto(t, "rem_head")
            /\ UNCHANGED <<node, ret>>
  /\ UNCHANGED <<head, cur_length, next, data, chain, max_length, lock, allocated, arg>>

\* The head is unlinked, and msg_queue_remove_msg will answer its data.  (It reads
\* node->data after the unlock; by NodeOwnership no other thread has the node then.)
RemoveHead(t) ==
  /\ pc[t] = "rem_head"
  /\ node' = [node EXCEPT ![t] = head]
  /\ ret' = [ret EXCEPT ![t] = data[head]]
  /\ head' = next[head]
  /\ cur_length' = IF cur_length > 0 THEN cur_length - 1 ELSE cur_length
  /\ chain' = Tail(chain)
  /\ Goto(t, "unlock")
  /\ UNCHANGED <<tail, next, data, max_length, lock, allocated, arg>>

Release(t) ==
  /\ pc[t] = "unlock"
  /\ lock' = NULL
  /\ Goto(t, "return")
  /\ UNCHANGED <<list, max_length, allocated, arg, node, ret>>

\* The return of the interface function; a remove frees the node it took.
Finish(t) ==
  /\ pc[t] = "return"
  /\ allocated' = IF arg[t].op = "remove" THEN allocated \ {node[t]} ELSE allocated
  /\ node' = [node EXCEPT ![t] = NULL]
  /\ arg' = [arg EXCEPT ![t] = NULL]
  /\ ret' = [ret EXCEPT ![t] = NULL]
  /\ Goto(t, "idle")
  /\ UNCHANGED <<list, max_length, lock>>

\* msg_queue_set_length: zero is refused, the write takes no lock.  Its comment
\* asks callers to set the length before the queue is used (ddp_entrance does):
\* no call is in progress.
SetLength ==
  /\ \A t \in Threads : pc[t] = "idle"
  /\ \E len \in Lengths \ {0} : max_length' = len
  /\ UNCHANGED <<list, lock, allocated, pc, arg, node, ret>>

Step(t) ==
  \/ Begin(t) \/ InsertAlloc(t) \/ RemoveStart(t) \/ Acquire(t)
  \/ InsertFull(t) \/ InsertLink(t) \/ InsertTail(t)
  \/ RemoveTail(t) \/ RemoveHead(t) \/ Release(t) \/ Finish(t)

Next == (\E t \in Threads : Step(t)) \/ SetLength

Spec == Init /\ [][Next]_vars

-----------------------------------------------------------------------------
\* The types of the variables; what remove answers is a message, never a node.
TypeOK ==
  /\ head \in Nodes \cup {NULL} /\ tail \in Nodes \cup {NULL}
  /\ cur_length \in Nat
  /\ max_length \in Int
  /\ next \in [Nodes -> Nodes \cup {NULL}]
  /\ data \in [Nodes -> Msgs \cup {NULL}]
  /\ lock \in Threads \cup {NULL}
  /\ allocated \subseteq Nodes
  /\ pc \in [Threads -> Locations]
  /\ arg \in [Threads -> Calls \cup {NULL}]
  /\ node \in [Threads -> Nodes \cup {NULL}]
  /\ ret \in [Threads -> Results \cup {NULL}]
  /\ chain \in Seq(Nodes)

\* The mutex of the queue: whoever is between lock and unlock is its holder, so
\* two threads are never inside ts_queue_insert_node / ts_queue_remove_node.
MutualExclusion == \A t \in Threads : pc[t] \in Critical <=> lock = t

InsertPending == \E t \in Threads : pc[t] = "ins_tail"
RemovePending == \E t \in Threads : pc[t] = "rem_head"

\* Following next from head visits the linked nodes in order and ends in NULL;
\* tail is the last of them except inside the two half-done updates; the
\* counter is the length.  It is what makes "head == NULL && tail == NULL" a
\* correct empty test and tail->next a safe dereference.
ListShape ==
  /\ head = IF chain = <<>> THEN NULL ELSE chain[1]
  /\ \A i \in 1..Len(chain) :
       next[chain[i]] = IF i = Len(chain) THEN NULL ELSE chain[i + 1]
  /\ LET settled == IF InsertPending THEN Len(chain) - 1 ELSE Len(chain) IN
       /\ cur_length = settled
       /\ tail = IF settled = 0 \/ (RemovePending /\ settled = 1)
                   THEN NULL ELSE chain[settled]

Linked == {chain[i] : i \in 1..Len(chain)}
Private(t) == node[t] # NULL /\ ret[t] # "ok"

\* A linked node is allocated, is linked once and holds a message; a node in
\* the hands of a thread (malloc'ed and not linked yet, or unlinked and not
\* freed yet) is allocated, not linked, and in nobody else's hands: no use
\* after free, no node in two places.
NodeOwnership ==
  /\ Linked \subseteq allocated
  /\ \A i, j \in 1..Len(chain) : chain[i] = chain[j] => i = j
  /\ \A i \in 1..Len(chain) : data[chain[i]] \in Msgs
  /\ \A t \in Threads : Private(t) =>
       /\ node[t] \in allocated \ Linked
       /\ \A u \in Threads : Private(u) /\ node[u] = node[t] => u = t

\* In the daemon's configuration (g_maxQueueLen is unlimited) nothing leaks:
\* between calls the allocated nodes are exactly the linked ones.
HeapAccounted ==
  (max_length = TS_QUEUE_LEN_UNLIMIT /\ \A t \in Threads : pc[t] = "idle")
    => allocated = Linked

-----------------------------------------------------------------------------
\* The queue implements the indivisible FIFO of FifoQueue: a call is under way
\* from Begin to Finish and takes effect at the step that sets its result.
Fifo == INSTANCE FifoQueue WITH
  queue <- [i \in 1..Len(chain) |-> data[chain[i]]],
  limit <- max_length,
  call <- arg,
  result <- ret

\* Whatever the interleaving, messages come out in the order they went in, none
\* is lost, duplicated or invented, "full" and "empty" are answered only when
\* true, and an accepted message never exceeds the bound.
ImplementsFifo == Fifo!FifoSpec
=============================================================================
