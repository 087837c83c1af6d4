----------------------------- MODULE FifoQueue -----------------------------
(***************************************************************************)
(* What the engine's message queues promise to the threads that share one: *)
(* a bounded first-in first-out queue whose operations take effect in one  *)
(* indivisible step between the call and the return.  There is no linked   *)
(* list here, no mutex and no heap; MsgQueue, the code of ts_queue.c and   *)
(* msg_queue.c, is shown to implement this module.                         *)
(***************************************************************************)
EXTENDS Integers, Sequences

CONSTANTS
  Threads,      \* the threads that share the queue
  Msgs,         \* the messages (non-null payload pointers)
  Lengths,      \* the lengths msg_queue_set_length is called with
  NULL          \* the null pointer; also "no call" and "no result"

VARIABLES
  queue,        \* the messages waiting, oldest first
  limit,        \* the bound; -1 is unlimited
  call,         \* call[t]: the call t is in, or NULL
  result        \* result[t]: what that call will return, NULL until it took effect

fifoVars == <<queue, limit, call, result>>

Calls == [op : {"insert"}, msg : Msgs \cup {NULL}] \cup [op : {"remove"}, msg : {NULL}]

HasRoom == limit = -1 \/ Len(queue) < limit

FifoInit ==
  /\ queue = <<>>
  /\ limit = -1
  /\ call = [t \in Threads |-> NULL]
  /\ result = [t \in Threads |-> NULL]

Invoke(t) ==
  /\ call[t] = NULL
  /\ \E c \in Calls : call' = [call EXCEPT ![t] = c]
  /\ UNCHANGED <<queue, limit, result>>

\* An insert that is accepted: there was room at the instant it took effect.
Accept(t) ==
  /\ call[t] # NULL /\ call[t].op = "insert" /\ result[t] = NULL
  /\ call[t].msg # NULL
  /\ HasRoom
  /\ queue' = Append(queue, call[t].msg)
  /\ result' = [result EXCEPT ![t] = "ok"]
  /\ UNCHANGED <<limit, call>>

\* An insert that is refused and leaves the queue alone.  "full" is allowed
\* only when the queue has no room; "null" only for a null message.
Refuse(t) ==
  /\ call[t] # NULL /\ call[t].op = "insert" /\ result[t] = NULL
  /\ \/ /\ call[t].msg = NULL
        /\ result' = [result EXCEPT ![t] = "null"]
     \/ /\ call[t].msg # NULL
        /\ result' = [result EXCEPT ![t] = "nomem"]
     \/ /\ call[t].msg # NULL /\ ~HasRoom
        /\ result' = [result EXCEPT ![t] = "full"]
  /\ UNCHANGED <<queue, limit, call>>

\* A remove answers with the oldest message, or "empty" only if there is none.
Take(t) ==
  /\ call[t] # NULL /\ call[t].op = "remove" /\ result[t] = NULL
  /\ IF queue = <<>>
       THEN /\ result' = [result EXCEPT ![t] = "empty"]
            /\ UNCHANGED queue
       ELSE /\ result' = [result EXCEPT ![t] = Head(queue)]
            /\ queue' = Tail(queue)
  /\ UNCHANGED <<limit, call>>

Return(t) ==
  /\ call[t] # NULL /\ result[t] # NULL
  /\ call' = [call EXCEPT ![t] = NULL]
  /\ result' = [result EXCEPT ![t] = NULL]
  /\ UNCHANGED <<queue, limit>>

SetLimit ==
  /\ \E len \in Lengths \ {0} : limit' = len
  /\ UNCHANGED <<queue, call, result>>

FifoNext ==
  \/ \E t \in Threads : Invoke(t) \/ Accept(t) \/ Refuse(t) \/ Take(t) \/ Return(t)
  \/ SetLimit

FifoSpec == FifoInit /\ [][FifoNext]_fifoVars
=============================================================================
