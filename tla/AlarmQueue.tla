----------------------------- MODULE AlarmQueue -----------------------------
(***************************************************************************)
(* ddp_alrm_queue.c: the delay timers of reboot, reset and factory reset.  *)
(* The proc thread handles such a request with a non-zero delay by         *)
(* building a second message without delay (create_delay_msg) and setting  *)
(* it in the slot of its opcode, where it replaces the alarm that was      *)
(* there.  The alarm thread counts every slot down once a second and puts  *)
(* the message of an alarm that is up into g_mq, from where the proc       *)
(* thread takes it and executes it.                                        *)
(*                                                                         *)
(* The alarm thread does two things without the lock: it initialises the   *)
(* queue when it starts, while the proc thread is already running, and it  *)
(* frees the slots when it stops, while the proc thread may still be.      *)
(* ddp_alrm_queue_delete has no caller and is left out.                    *)
(***************************************************************************)
EXTENDS Integers, Sequences, FiniteSets

CONSTANTS
  ALRM_ARR_SIZE,  \* the number of slots
  MaxDelay,       \* the longest delay a request asks for (a bound of the model)
  Msgs,           \* the memory for struct ddp_message of delayed requests
  NULL

ASSUME AlarmAssumption ==
  /\ ALRM_ARR_SIZE \in Nat \ {0}
  /\ MaxDelay \in Nat \ {0}
  /\ NULL \notin Msgs /\ NULL # "proc"

Slots == 0..(ALRM_ARR_SIZE - 1)
Delays == 1..MaxDelay

VARIABLES
  state,        \* alrm_queue[i].state: "NONE" or "SET"
  interval,     \* alrm_queue[i].interval
  msg,          \* alrm_queue[i].msg
  lock,         \* the holder of alrm_queue_mutex: "proc" or NULL (the alarm
                \* thread's critical sections are one step each)
  mq,           \* the delayed messages waiting in g_mq
  over,         \* DDP_OVER_SIG has been raised
  apc, idx, obj,\* the alarm thread: location, slot under way, message taken
  ppc, req,     \* the proc thread: location and the alarm it is setting
  live,         \* the messages allocated and not freed
  freedTwice,   \* history: the messages freed while they were not allocated
  asked,        \* history: the delay of the alarm in a slot
  passes,       \* history: countdowns of the slot since its alarm was set
  replaced,     \* history: the slots whose alarm took the place of a pending one
  early,        \* history: an alarm was requested before the queue was initialised
  lost          \* history: the messages of alarms that went off and did not get into g_mq

slots == <<state, interval, msg>>
history == <<asked, passes, replaced, early, lost>>
vars == <<slots, lock, mq, over, apc, idx, obj, ppc, req, live, freedTwice, history>>

NoReq == [slot |-> 0, delay |-> 0, msg |-> NULL]

Init ==
  /\ state = [i \in Slots |-> "NONE"]
  /\ interval = [i \in Slots |-> 0]
  /\ msg = [i \in Slots |-> NULL]
  /\ lock = NULL
  /\ mq = <<>>
  /\ over = FALSE
  /\ apc = "init" /\ idx = 0 /\ obj = NULL
  /\ ppc = "idle" /\ req = NoReq
  /\ live = {} /\ freedTwice = {}
  /\ asked = [i \in Slots |-> 0]
  /\ passes = [i \in Slots |-> 0]
  /\ replaced = {}
  /\ early = FALSE /\ lost = {}

\* free(m)
Free(m) ==
  /\ live' = live \ {m}
  /\ freedTwice' = freedTwice \cup ({m} \ live)
KeepHeap == UNCHANGED <<live, freedTwice>>

-----------------------------------------------------------------------------
(* The proc thread. *)

\* A reboot, reset or factory reset request with a delay was accepted:
\* create_delay_msg allocates the message, ddp_alrm_queue_add is called.
CallAdd ==
  /\ ppc = "idle"
  /\ \E i \in Slots, d \in Delays, m \in Msgs \ live :
       /\ req' = [slot |-> i, delay |-> d, msg |-> m]
       /\ live' = live \cup {m}
  /\ ppc' = "lock"
  /\ early' = (early \/ apc \in {"init", "memset"})
  /\ UNCHANGED <<slots, lock, mq, over, apc, idx, obj, freedTwice, asked, passes, replaced, lost>>

AddLock ==
  /\ ppc = "lock" /\ lock = NULL
  /\ lock' = "proc"
  /\ ppc' = "free"
  /\ UNCHANGED <<slots, mq, over, apc, idx, obj, req, live, freedTwice, history>>

\* "replace the previous alarm"
AddFreeOld ==
  /\ ppc = "free"
  /\ IF msg[req.slot] # NULL
       THEN /\ Free(msg[req.slot])
            /\ msg' = [msg EXCEPT ![req.slot] = NULL]
            /\ replaced' = replaced \cup {req.slot}
       ELSE /\ KeepHeap /\ UNCHANGED msg
            /\ replaced' = replaced \ {req.slot}
  /\ ppc' = "set"
  /\ UNCHANGED <<state, interval, lock, mq, over, apc, idx, obj, req, asked, passes, early, lost>>

\* MUTANT: the delay is stored one too small.
AddSet_OneLess ==
  /\ ppc = "set"
  /\ state' = [state EXCEPT ![req.slot] = "SET"]
  /\ interval' = [interval EXCEPT ![req.slot] = req.delay - 1]
  /\ msg' = [msg EXCEPT ![req.slot] = req.msg]
  /\ lock' = NULL
  /\ ppc' = "idle"
  /\ req' = NoReq
  /\ asked' = [asked EXCEPT ![req.slot] = req.delay]
  /\ passes' = [passes EXCEPT ![req.slot] = 0]
  /\ UNCHANGED <<mq, over, apc, idx, obj, live, freedTwice, replaced, early, lost>>

\* The slot is written, the lock released.
AddSet ==
  /\ ppc = "set"
  /\ state' = [state EXCEPT ![req.slot] = "SET"]
  /\ interval' = [interval EXCEPT ![req.slot] = req.delay]
  /\ msg' = [msg EXCEPT ![req.slot] = req.msg]
  /\ lock' = NULL
  /\ ppc' = "idle"
  /\ req' = NoReq
  /\ asked' = [asked EXCEPT ![req.slot] = req.delay]
  /\ passes' = [passes EXCEPT ![req.slot] = 0]
  /\ UNCHANGED <<mq, over, apc, idx, obj, live, freedTwice, replaced, early, lost>>

\* The proc thread executes a delayed message of g_mq and frees it.
Execute ==
  /\ ppc = "idle" /\ mq # <<>>
  /\ Free(Head(mq))
  /\ mq' = Tail(mq)
  /\ UNCHANGED <<slots, lock, over, apc, idx, obj, ppc, req, history>>

-----------------------------------------------------------------------------
(* The alarm thread. *)

\* pthread_mutex_init, whoever holds the mutex.
MutexInit ==
  /\ apc = "init"
  /\ lock' = NULL
  /\ apc' = "memset"
  /\ UNCHANGED <<slots, mq, over, idx, obj, ppc, req, live, freedTwice, history>>

\* memset(alrm_queue, 0, ...), without the lock.
Memset ==
  /\ apc = "memset"
  /\ state' = [i \in Slots |-> "NONE"]
  /\ interval' = [i \in Slots |-> 0]
  /\ msg' = [i \in Slots |-> NULL]
  /\ apc' = "loop"
  /\ UNCHANGED <<lock, mq, over, idx, obj, ppc, req, live, freedTwice, history>>

\* The head of the while loop: the loop flag is read once per pass.
LoopTop ==
  /\ apc = "loop"
  /\ apc' = IF over THEN "cleanup" ELSE "countdown"
  /\ idx' = 0
  /\ UNCHANGED <<slots, lock, mq, over, obj, ppc, req, live, freedTwice, history>>

\* MUTANT: the last slot is left out.
NextSlot_OneShort ==
  IF idx + 2 < ALRM_ARR_SIZE
    THEN apc' = "countdown" /\ idx' = idx + 1
    ELSE apc' = "sleep" /\ UNCHANGED idx

\* Go on with the next slot, or sleep after the last.
NextSlot ==
  IF idx + 1 < ALRM_ARR_SIZE
    THEN apc' = "countdown" /\ idx' = idx + 1
    ELSE apc' = "sleep" /\ UNCHANGED idx

\* MUTANT: an interval that is 0 is decremented too.
Countdown_NoFloor ==
  /\ apc = "countdown" /\ lock = NULL
  /\ interval' = [interval EXCEPT ![idx] = @ - 1]
  /\ IF state[idx] = "SET" /\ interval'[idx] = 0
       THEN apc' = "up" /\ UNCHANGED idx
       ELSE NextSlot
  /\ passes' = [passes EXCEPT ![idx] =
                  IF state[idx] = "SET" /\ @ <= MaxDelay THEN @ + 1 ELSE @]
  /\ UNCHANGED <<state, msg, lock, mq, over, obj, ppc, req, live, freedTwice,
                 asked, replaced, early, lost>>

\* ddp_alrm_queue_countdown; its answer decides whether "up" is called, after
\* the lock was released.
Countdown ==
  /\ apc = "countdown" /\ lock = NULL
  /\ interval' = [interval EXCEPT ![idx] = IF @ > 0 THEN @ - 1 ELSE @]
  /\ IF state[idx] = "SET" /\ interval'[idx] = 0
       THEN apc' = "up" /\ UNCHANGED idx
       ELSE NextSlot
  /\ passes' = [passes EXCEPT ![idx] =
                  IF state[idx] = "SET" /\ @ <= MaxDelay THEN @ + 1 ELSE @]
  /\ UNCHANGED <<state, msg, lock, mq, over, obj, ppc, req, live, freedTwice,
                 asked, replaced, early, lost>>

\* MUTANT: the slot keeps the pointer to the message.
Up_KeepsMsg ==
  /\ apc = "up" /\ lock = NULL
  /\ IF state[idx] = "SET" /\ msg[idx] # NULL
       THEN /\ obj' = msg[idx]
            /\ state' = [state EXCEPT ![idx] = "NONE"]
            /\ apc' = "insert"
            /\ UNCHANGED <<idx, msg>>
       ELSE NextSlot /\ UNCHANGED <<state, msg, obj>>
  /\ UNCHANGED <<interval, lock, mq, over, ppc, req, live, freedTwice, history>>

\* ddp_alrm_queue_up under the lock: the interval is not looked at again.
Up ==
  /\ apc = "up" /\ lock = NULL
  /\ IF state[idx] = "SET" /\ msg[idx] # NULL
       THEN /\ obj' = msg[idx]
            /\ msg' = [msg EXCEPT ![idx] = NULL]
            /\ state' = [state EXCEPT ![idx] = "NONE"]
            /\ apc' = "insert"
            /\ UNCHANGED idx
       ELSE NextSlot /\ UNCHANGED <<state, msg, obj>>
  /\ UNCHANGED <<interval, lock, mq, over, ppc, req, live, freedTwice, history>>

\* ... and outside it: msg_queue_insert_msg(g_mq, obj).  There may be no memory for
\* the node of the queue; nobody looks at the result, and ddp_alrm_queue_up
\* returns 0.
UpInsert ==
  /\ apc = "insert"
  /\ \/ mq' = Append(mq, obj) /\ UNCHANGED lost
     \/ lost' = lost \cup {obj} /\ UNCHANGED mq
  /\ obj' = NULL
  /\ NextSlot
  /\ UNCHANGED <<slots, lock, over, ppc, req, live, freedTwice, asked, passes, replaced, early>>

\* sleep(g_alrmStep)
Sleep ==
  /\ apc = "sleep"
  /\ apc' = "loop"
  /\ UNCHANGED <<slots, lock, mq, over, idx, obj, ppc, req, live, freedTwice, history>>

\* The cleanup after the loop, without the lock: free(msg), then msg = NULL.
CleanupFree ==
  /\ apc = "cleanup"
  /\ IF msg[idx] # NULL
       THEN /\ Free(msg[idx])
            /\ apc' = "clear" /\ UNCHANGED idx
       ELSE /\ KeepHeap
            /\ IF idx + 1 < ALRM_ARR_SIZE
                 THEN apc' = "cleanup" /\ idx' = idx + 1
                 ELSE apc' = "done" /\ UNCHANGED idx
  /\ UNCHANGED <<slots, lock, mq, over, obj, ppc, req, history>>

CleanupClear ==
  /\ apc = "clear"
  /\ msg' = [msg EXCEPT ![idx] = NULL]
  /\ IF idx + 1 < ALRM_ARR_SIZE
       THEN apc' = "cleanup" /\ idx' = idx + 1
       ELSE apc' = "done" /\ UNCHANGED idx
  /\ UNCHANGED <<state, interval, lock, mq, over, obj, ppc, req, live, freedTwice, history>>

\* ddp_terminate
Terminate ==
  /\ ~over
  /\ over' = TRUE
  /\ UNCHANGED <<slots, lock, mq, apc, idx, obj, ppc, req, live, freedTwice, history>>

Proc == CallAdd \/ AddLock \/ AddFreeOld \/ AddSet \/ Execute
Alarm == \/ MutexInit \/ Memset \/ LoopTop \/ Countdown \/ Up \/ UpInsert
         \/ Sleep \/ CleanupFree \/ CleanupClear
Next == Proc \/ Alarm \/ Terminate

\* The alarm thread runs, its sleep ends, and it gets the mutex if the mutex is
\* free again and again: the proc thread holds it for a few assignments per
\* request.  The proc thread finishes an add it began and drains g_mq.
\* Requests and termination are never owed.
Fairness ==
  /\ WF_vars(Alarm) /\ SF_vars(Countdown) /\ SF_vars(Up)
  /\ WF_vars(AddLock) /\ WF_vars(AddFreeOld) /\ WF_vars(AddSet)
  /\ SF_vars(Execute)

Spec == Init /\ [][Next]_vars
FairSpec == Spec /\ Fairness

-----------------------------------------------------------------------------
\* The types of the variables; an interval is never negative.
TypeOK ==
  /\ state \in [Slots -> {"NONE", "SET"}]
  /\ interval \in [Slots -> 0..MaxDelay]
  /\ msg \in [Slots -> Msgs \cup {NULL}]
  /\ lock \in {"proc", NULL}
  /\ mq \in Seq(Msgs)
  /\ over \in BOOLEAN
  /\ apc \in {"init", "memset", "loop", "countdown", "up", "insert", "sleep",
              "cleanup", "clear", "done"}
  /\ idx \in Slots /\ obj \in Msgs \cup {NULL}
  /\ ppc \in {"idle", "lock", "free", "set"}
  /\ req \in [slot : Slots, delay : 0..MaxDelay, msg : Msgs \cup {NULL}]
  /\ live \subseteq Msgs /\ freedTwice \subseteq Msgs
  /\ asked \in [Slots -> 0..MaxDelay]
  /\ passes \in [Slots -> 0..(MaxDelay + 1)]
  /\ replaced \subseteq Slots
  /\ early \in BOOLEAN
  /\ lost \subseteq Msgs

\* The states in which the code means the queue to be used: the alarm thread
\* initialised it before the first delayed request, and it is not stopping.
Running == ~early /\ ~over

\* Everything that holds a pointer to m.
Holders(m) ==
  {<<"slot", i>> : i \in {j \in Slots : msg[j] = m}}
    \cup {<<"mq", k>> : k \in {j \in 1..Len(mq) : mq[j] = m}}
    \cup {<<"obj", 0>> : x \in {y \in {obj} : y = m}}
    \cup {<<"req", 0>> : x \in {y \in {req.msg} : y = m}}

\* While the daemon runs, the message of a delayed request has exactly one
\* owner from create_delay_msg to its execution -- the proc thread, a slot, the
\* alarm thread, g_mq -- so it is neither executed twice, nor used after the
\* free of a replaced alarm, and it is without an owner only when the insert of
\* ddp_alrm_queue_up has failed, which leaks it.
OneOwner ==
  Running =>
    \A m \in Msgs :
      /\ m \in live <=> Holders(m) # {} \/ m \in lost
      /\ m \in lost => Holders(m) = {}
      /\ \A h, k \in Holders(m) : h = k

\* While the daemon runs, a slot that is SET and not being rewritten has its
\* message, and one that is NONE has none: an alarm that is up is never skipped.
SlotConsistent ==
  Running => \A i \in Slots :
    (ppc = "set" /\ req.slot = i) \/ (state[i] = "SET" <=> msg[i] # NULL)

GoesOff(i) == apc = "up" /\ state[i] = "SET" /\ state'[i] = "NONE"

\* An alarm set in an empty slot goes off at exactly the countdown its request
\* asked for, however the proc thread's adds interleave with the alarm thread.
UnreplacedOnTime ==
  [][\A i \in Slots : Running /\ GoesOff(i) /\ i \notin replaced => passes[i] = asked[i]]_vars

\* No alarm is late: a slot is never counted down more often than its alarm asked.
NeverLate == Running => \A i \in Slots : state[i] = "SET" => passes[i] <= asked[i]

\* A delayed request that the proc thread has begun to set is executed, or
\* replaced by a later one, wherever the two threads meet in its slot; unless the
\* daemon stops, had not initialised the queue, or has no memory for the node of
\* g_mq when the alarm is up.
Executed == \A m \in Msgs : (req.msg = m) ~> (m \notin live \/ m \in lost \/ over \/ early)

\* "msg: the message to be transferred to msg_queue": an alarm that goes off puts
\* its message into g_mq, as the 0 that ddp_alrm_queue_up returns says.
Transferred == lost = {}

\* "lock of alrm queue": no message is freed twice.
NoDoubleFree == freedTwice = {}
=============================================================================
