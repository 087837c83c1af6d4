-------------------------- MODULE AlarmQueue_proofs --------------------------
(***************************************************************************)
(* Proofs about AlarmQueue for any number of slots, delays and messages.   *)
(* Everything is claimed of a running daemon only: the initialisation that *)
(* may come too late and the cleanup take no lock, and TLC shows what they *)
(* break.                                                                  *)
(***************************************************************************)
EXTENDS AlarmQueue, SequenceTheorems, TLAPS

\* Where the two threads are, and what they hold there.
Control ==
  /\ ~over => apc \notin {"cleanup", "clear", "done"}
  /\ apc = "insert" <=> obj # NULL
  /\ ppc = "idle" <=> req.msg = NULL
  /\ ppc # "idle" => req.delay \in Delays
  /\ ~early =>
       /\ lock = "proc" <=> ppc \in {"free", "set"}
       /\ apc \in {"init", "memset"} =>
            ppc = "idle" /\ \A i \in Slots : msg[i] = NULL /\ state[i] = "NONE"

\* OneOwner spelled out: the pointers of the system are pairwise distinct and
\* point to exactly the allocated messages that are not lost.
Queued(m) == \E k \in 1..Len(mq) : mq[k] = m
Distinct ==
  /\ \A i, j \in Slots : msg[i] = msg[j] /\ msg[i] # NULL => i = j
  /\ \A k, l \in 1..Len(mq) : mq[k] = mq[l] => k = l
  /\ \A i \in Slots : msg[i] # NULL =>
       ~Queued(msg[i]) /\ msg[i] # obj /\ msg[i] # req.msg
  /\ obj # NULL => ~Queued(obj) /\ obj # req.msg
  /\ req.msg # NULL => ~Queued(req.msg)
  /\ \A m \in lost : ~Queued(m) /\ obj # m /\ req.msg # m /\ \A i \in Slots : msg[i] # m
Allocated ==
  \A m \in Msgs : m \in live <=> \/ \E i \in Slots : msg[i] = m
                                 \/ Queued(m) \/ obj = m \/ req.msg = m \/ m \in lost

SlotState ==
  \A i \in Slots :
    /\ IF ppc = "set" /\ req.slot = i
         THEN msg[i] = NULL /\ (state[i] = "SET" => i \in replaced)
         ELSE state[i] = "SET" <=> msg[i] # NULL
    /\ state[i] = "SET" =>
         /\ passes[i] + interval[i] = asked[i]
         /\ interval[i] = 0 => apc = "up" /\ idx = i
UpState ==
  apc = "up" => state[idx] = "SET" /\ (idx \notin replaced => interval[idx] = 0)

IInv ==
  /\ TypeOK
  /\ Control
  /\ Running => Distinct /\ Allocated /\ SlotState /\ UpState

\* Arithmetic of slots and delays.
LEMMA SlotFacts ==
  /\ 0 \in Slots
  /\ \A i \in Slots : i + 1 < ALRM_ARR_SIZE => i + 1 \in Slots
  /\ \A i \in Slots : i \in Int
  /\ \A d \in Delays : d \in 0..MaxDelay /\ d > 0
  BY AlarmAssumption DEF Slots, Delays

\* The initial state satisfies the inductive invariant.
LEMMA InitIInv == Init => IInv
  <1> SUFFICES ASSUME Init PROVE IInv
    OBVIOUS
  <1> USE AlarmAssumption, SlotFacts DEF Init, NoReq
  <1>1. TypeOK
    BY DEF TypeOK
  <1>2. Control
    BY DEF Control
  <1>3. Distinct /\ Allocated
    BY DEF Distinct, Allocated, Queued
  <1>4. SlotState /\ UpState
    BY DEF SlotState, UpState
  <1> QED
    BY <1>1, <1>2, <1>3, <1>4 DEF IInv

\* CallAdd preserves the inductive invariant.
LEMMA CallAddIInv == IInv /\ CallAdd => IInv'
  <1> SUFFICES ASSUME IInv, CallAdd PROVE IInv'
    OBVIOUS
  <1> USE AlarmAssumption, SlotFacts DEF IInv, CallAdd, slots
  <1>1. /\ req' \in [slot : Slots, delay : 0..MaxDelay, msg : Msgs \cup {NULL}]
        /\ req'.msg \in Msgs \ live /\ req'.delay \in Delays
        /\ live' = live \cup {req'.msg}
    BY SMT
  <1>2. TypeOK'
    <2>1. early' \in BOOLEAN
      BY Zenon DEF TypeOK
    <2>2. live' \subseteq Msgs /\ ppc' \in {"idle", "lock", "free", "set"}
      BY <1>1 DEF TypeOK
    <2> QED
      BY <1>1, <2>1, <2>2 DEF TypeOK
  <1>3. Control'
    BY <1>1 DEF TypeOK, Control
  <1>7. UNCHANGED <<state, interval, msg, mq, obj, lost, over>> /\ req.msg = NULL
        /\ (Running' => Running)
    BY DEF Control, Running
  <1>4. Running' => Distinct'
    <2> SUFFICES ASSUME Running' PROVE Distinct'
      OBVIOUS
    <2>1. Distinct /\ Allocated
      BY <1>7
    <2> DEFINE new == req'.msg
    <2>2. ~Queued(new) /\ obj # new /\ new \notin lost /\ \A i \in Slots : msg[i] # new
      BY <1>1, <2>1 DEF Allocated
    <2> QED
      BY ONLY <1>7, <2>1, <2>2 DEF Distinct, Queued
  <1>5. Running' => Allocated'
    <2> SUFFICES ASSUME Running', NEW m \in Msgs PROVE Allocated!(m)'
      BY DEF Allocated
    <2>1. Allocated!(m)
      BY <1>7 DEF Allocated
    <2> QED
      BY ONLY <1>1, <1>7, <2>1, AlarmAssumption, m \in Msgs DEF Queued
  <1>6. Running' => SlotState' /\ UpState'
    BY DEF Control, Running, SlotState, UpState
  <1> QED
    BY <1>2, <1>3, <1>4, <1>5, <1>6

\* AddLock preserves the inductive invariant.
LEMMA AddLockIInv == IInv /\ AddLock => IInv'
  <1> SUFFICES ASSUME IInv, AddLock PROVE IInv'
    OBVIOUS
  <1> USE AlarmAssumption, SlotFacts DEF IInv, AddLock, slots, history
  <1>1. TypeOK'
    BY DEF TypeOK, Control, Free, KeepHeap, NextSlot, NoReq
  <1>2. Control'
    BY DEF TypeOK, Control, Free, KeepHeap, NextSlot, NoReq
  <1>3. Running' => Distinct' /\ Allocated'
    BY DEF TypeOK, Control, Running, Distinct, Allocated, Queued, Free, KeepHeap, NextSlot, NoReq
  <1>4. Running' => SlotState' /\ UpState'
    BY DEF TypeOK, Control, Running, SlotState, UpState, Free, KeepHeap, NextSlot, NoReq
  <1> QED
    BY <1>1, <1>2, <1>3, <1>4

\* AddFreeOld preserves the inductive invariant.
LEMMA AddFreeOldIInv == IInv /\ AddFreeOld => IInv'
  <1> SUFFICES ASSUME IInv, AddFreeOld PROVE IInv'
    OBVIOUS
  <1> USE AlarmAssumption, SlotFacts DEF IInv, AddFreeOld
  <1> DEFINE i == req.slot
  <1>1. /\ req \in [slot : Slots, delay : 0..MaxDelay, msg : Msgs \cup {NULL}]
        /\ i \in Slots /\ msg \in [Slots -> Msgs \cup {NULL}]
    BY DEF TypeOK
  <1>2. /\ msg' = [msg EXCEPT ![i] = NULL] /\ msg' \in [Slots -> Msgs \cup {NULL}]
        /\ live' = live \ {msg[i]}
        /\ replaced' = IF msg[i] # NULL THEN replaced \cup {i} ELSE replaced \ {i}
    <2>1. CASE msg[i] # NULL
      BY <2>1, <1>1 DEF Free
    <2>2. CASE msg[i] = NULL
      BY <2>2, <1>1 DEF TypeOK, KeepHeap
    <2> QED
      BY <2>1, <2>2
  <1>3. TypeOK'
    <2>1. replaced' \subseteq Slots
      BY <1>1, <1>2 DEF TypeOK
    <2>2. freedTwice' \subseteq Msgs /\ live' \subseteq Msgs
      BY <1>1, <1>2 DEF TypeOK, Free, KeepHeap
    <2> QED
      BY <1>2, <2>1, <2>2 DEF TypeOK, slots
  <1>4. Control'
    BY <1>1, <1>2 DEF TypeOK, Control
  <1>5. Running' => Distinct'
    <2> SUFFICES ASSUME Running' PROVE Distinct'
      OBVIOUS
    <2>1. Distinct /\ UNCHANGED <<mq, obj, req, lost>>
      BY DEF Running
    <2>2. \A j \in Slots : msg'[j] = NULL \/ (j # i /\ msg'[j] = msg[j])
      BY <1>1, <1>2
    <2>3. \A m : Queued(m)' <=> Queued(m)
      BY <2>1 DEF Queued
    <2>4. \A m \in lost : m # NULL
      BY DEF TypeOK
    <2>5. \A j, k \in Slots : msg'[j] = msg'[k] /\ msg'[j] # NULL => j = k
      BY ONLY <2>1, <2>2 DEF Distinct
    <2> QED
      BY ONLY <2>1, <2>2, <2>3, <2>4, <2>5 DEF Distinct
  <1>6. Running' => Allocated'
    <2> SUFFICES ASSUME Running', NEW m \in Msgs PROVE Allocated!(m)'
      BY DEF Allocated
    <2>1. Distinct /\ Allocated!(m) /\ UNCHANGED <<mq, obj, req, lost>>
      BY DEF Running, Allocated
    <2>2. CASE m = msg[i]
      BY <1>1, <1>2, <2>1, <2>2 DEF Distinct, Queued
    <2>3. CASE m # msg[i]
      <3>1. (m \in live' <=> m \in live)
            /\ ((\E j \in Slots : msg'[j] = m) <=> (\E j \in Slots : msg[j] = m))
        BY <1>1, <1>2, <2>3
      <3> QED
        BY <2>1, <3>1 DEF Queued
    <2> QED
      BY <2>2, <2>3
  <1>7. Running' => SlotState' /\ UpState'
    BY <1>1, <1>2 DEF TypeOK, Control, Running, SlotState, UpState
  <1> QED
    BY <1>3, <1>4, <1>5, <1>6, <1>7

\* AddSet preserves the inductive invariant.
LEMMA AddSetIInv == IInv /\ AddSet => IInv'
  <1> SUFFICES ASSUME IInv, AddSet PROVE IInv'
    OBVIOUS
  <1> USE AlarmAssumption, SlotFacts DEF IInv, AddSet
  <1> DEFINE i == req.slot
  <1>1. /\ i \in Slots /\ req.delay \in Delays /\ req.msg \in Msgs
        /\ req'.msg = NULL /\ msg \in [Slots -> Msgs \cup {NULL}]
    BY DEF TypeOK, Control, NoReq
  <1>2. TypeOK'
    BY <1>1 DEF TypeOK, NoReq
  <1>3. Control'
    BY <1>1 DEF TypeOK, Control
  <1>4. Running' => msg[i] = NULL
    BY <1>1 DEF Running, SlotState
  <1>5. Running' => Distinct'
    BY <1>1, <1>4 DEF Running, Distinct, Queued
  <1>6. Running' => Allocated'
    BY <1>1, <1>4 DEF Running, Distinct, Allocated, Queued
  <1>7. Running' => SlotState' /\ UpState'
    <2> SUFFICES ASSUME Running' PROVE SlotState' /\ UpState'
      OBVIOUS
    <2>1. state'[i] = "SET" /\ interval'[i] = req.delay /\ msg'[i] = req.msg
          /\ asked'[i] = req.delay /\ passes'[i] = 0
      BY <1>1 DEF TypeOK
    <2>2. \A j \in Slots : j # i =>
            /\ state'[j] = state[j] /\ interval'[j] = interval[j] /\ msg'[j] = msg[j]
            /\ asked'[j] = asked[j] /\ passes'[j] = passes[j]
      BY <1>1 DEF TypeOK
    <2>3. apc = "up" => idx # i \/ i \in replaced
      BY <1>1 DEF Running, SlotState, UpState, Control
    <2>4. Running /\ SlotState /\ UpState
      BY DEF Running
    <2>5. SlotState'
      <3> SUFFICES ASSUME NEW j \in Slots PROVE SlotState!(j)'
        BY DEF SlotState
      <3>1. CASE j # i
        BY <2>2, <2>4, <3>1 DEF SlotState
      <3>2. CASE j = i
        <4>1. ppc' = "idle" /\ req.delay \in Int /\ req.delay > 0
          BY <1>1 DEF Delays
        <4>2. msg'[j] # NULL /\ state'[j] = "SET" /\ interval'[j] # 0
              /\ passes'[j] + interval'[j] = asked'[j]
          BY <1>1, <2>1, <3>2, <4>1
        <4> QED
          BY <4>1, <4>2
      <3> QED
        BY <3>1, <3>2
    <2>6. UpState'
      BY <2>1, <2>2, <2>3, <2>4 DEF UpState, TypeOK
    <2> QED
      BY <2>5, <2>6
  <1> QED
    BY <1>2, <1>3, <1>5, <1>6, <1>7

\* Execute preserves the inductive invariant.
LEMMA ExecuteIInv == IInv /\ Execute => IInv'
  <1> SUFFICES ASSUME IInv, Execute PROVE IInv'
    OBVIOUS
  <1> USE AlarmAssumption, SlotFacts DEF IInv, Execute, history
  <1> DEFINE m == mq[1]
  <1>1. /\ mq \in Seq(Msgs) /\ mq' \in Seq(Msgs) /\ Len(mq') = Len(mq) - 1
        /\ \A k \in 1..Len(mq') : mq'[k] = mq[k + 1]
        /\ 1 \in 1..Len(mq) /\ m \in Msgs
    BY EmptySeq, HeadTailProperties DEF TypeOK
  <1>2. live' = live \ {m} /\ freedTwice' \subseteq Msgs
    BY <1>1 DEF Free, TypeOK
  <1>3. TypeOK'
    BY <1>1, <1>2 DEF TypeOK, slots
  <1>4. Control'
    BY DEF Control, slots
  <1>5. \A n \in Msgs : Queued(n)' => Queued(n)
    BY <1>1 DEF Queued
  <1>6. Running => \A n \in Msgs : Queued(n)' <=> Queued(n) /\ n # m
    <2> SUFFICES ASSUME Running, NEW n \in Msgs PROVE Queued(n)' <=> Queued(n) /\ n # m
      OBVIOUS
    <2>1. ASSUME NEW k \in 1..Len(mq), mq[k] = n, n # m PROVE Queued(n)'
      <3>1. k # 1 /\ k - 1 \in 1..Len(mq') /\ (k - 1) + 1 = k
        BY <2>1, <1>1
      <3> QED
        BY <2>1, <3>1, <1>1 DEF Queued
    <2>2. ASSUME NEW k \in 1..Len(mq'), mq'[k] = n PROVE Queued(n) /\ n # m
      <3>1. k + 1 \in 1..Len(mq) /\ k + 1 # 1 /\ mq[k + 1] = n
        BY <2>2, <1>1
      <3> QED
        BY <3>1, <1>1 DEF Queued, Distinct
    <2> QED
      BY <2>1, <2>2 DEF Queued
  <1>7. Running' => Distinct'
    <2> SUFFICES ASSUME Running' PROVE Distinct'
      OBVIOUS
    <2>1. Running
      BY DEF Running
    <2>2. \A k, l \in 1..Len(mq') : mq'[k] = mq'[l] => k = l
      BY <1>1, <2>1 DEF Distinct
    <2> QED
      BY <1>5, <2>1, <2>2 DEF Distinct, slots, TypeOK
  <1>8. Running' => Allocated'
    <2> SUFFICES ASSUME Running' PROVE Allocated'
      OBVIOUS
    <2>1. Running
      BY DEF Running
    <2>2. /\ \A i \in Slots : msg[i] # m
          /\ obj # m /\ req.msg # m /\ m \notin lost
      BY <1>1, <2>1, AlarmAssumption DEF Distinct, Queued
    <2> QED
      BY <1>2, <1>6, <2>1, <2>2 DEF Allocated, slots
  <1>9. Running' => SlotState' /\ UpState'
    BY DEF Running, SlotState, UpState, slots
  <1> QED
    BY <1>3, <1>4, <1>7, <1>8, <1>9

\* MutexInit preserves the inductive invariant.
LEMMA MutexInitIInv == IInv /\ MutexInit => IInv'
  <1> SUFFICES ASSUME IInv, MutexInit PROVE IInv'
    OBVIOUS
  <1> USE AlarmAssumption, SlotFacts DEF IInv, MutexInit, slots, history
  <1>1. TypeOK'
    BY DEF TypeOK, Control, Free, KeepHeap, NextSlot, NoReq
  <1>2. Control'
    BY DEF TypeOK, Control, Free, KeepHeap, NextSlot, NoReq
  <1>3. Running' => Distinct' /\ Allocated'
    BY DEF TypeOK, Control, Running, Distinct, Allocated, Queued, Free, KeepHeap, NextSlot, NoReq
  <1>4. Running' => SlotState' /\ UpState'
    BY DEF TypeOK, Control, Running, SlotState, UpState, Free, KeepHeap, NextSlot, NoReq
  <1> QED
    BY <1>1, <1>2, <1>3, <1>4

\* Memset preserves the inductive invariant.
LEMMA MemsetIInv == IInv /\ Memset => IInv'
  <1> SUFFICES ASSUME IInv, Memset PROVE IInv'
    OBVIOUS
  <1> USE AlarmAssumption, SlotFacts DEF IInv, Memset, slots, history
  <1>1. TypeOK'
    BY DEF TypeOK, Control, Free, KeepHeap, NextSlot, NoReq
  <1>2. Control'
    BY DEF TypeOK, Control, Free, KeepHeap, NextSlot, NoReq
  <1>3. Running' => Distinct' /\ Allocated'
    BY DEF TypeOK, Control, Running, Distinct, Allocated, Queued, Free, KeepHeap, NextSlot, NoReq
  <1>4. Running' => SlotState' /\ UpState'
    BY DEF TypeOK, Control, Running, SlotState, UpState, Free, KeepHeap, NextSlot, NoReq
  <1> QED
    BY <1>1, <1>2, <1>3, <1>4

\* LoopTop preserves the inductive invariant.
LEMMA LoopTopIInv == IInv /\ LoopTop => IInv'
  <1> SUFFICES ASSUME IInv, LoopTop PROVE IInv'
    OBVIOUS
  <1> USE AlarmAssumption, SlotFacts DEF IInv, LoopTop, slots, history
  <1>1. TypeOK'
    BY DEF TypeOK, Control, Free, KeepHeap, NextSlot, NoReq
  <1>2. Control'
    BY DEF TypeOK, Control, Free, KeepHeap, NextSlot, NoReq
  <1>3. Running' => Distinct' /\ Allocated'
    BY DEF TypeOK, Control, Running, Distinct, Allocated, Queued, Free, KeepHeap, NextSlot, NoReq
  <1>4. Running' => SlotState' /\ UpState'
    BY DEF TypeOK, Control, Running, SlotState, UpState, Free, KeepHeap, NextSlot, NoReq
  <1> QED
    BY <1>1, <1>2, <1>3, <1>4

\* The loop over the slots stays within the array.
LEMMA NextSlotType ==
  ASSUME TypeOK, NextSlot
  PROVE  apc' \in {"countdown", "sleep"} /\ idx' \in Slots
  BY SlotFacts DEF TypeOK, NextSlot

\* Countdown preserves the inductive invariant.
LEMMA CountdownIInv == IInv /\ Countdown => IInv'
  <1> SUFFICES ASSUME IInv, Countdown PROVE IInv'
    OBVIOUS
  <1> USE AlarmAssumption, SlotFacts DEF IInv, Countdown
  <1>1. /\ idx \in Slots /\ interval \in [Slots -> 0..MaxDelay]
        /\ interval' = [interval EXCEPT ![idx] = IF interval[idx] > 0
                                               THEN interval[idx] - 1 ELSE interval[idx]]
        /\ passes \in [Slots -> 0..(MaxDelay + 1)]
        /\ passes' = [passes EXCEPT ![idx] =
                        IF state[idx] = "SET" /\ passes[idx] <= MaxDelay
                          THEN passes[idx] + 1 ELSE passes[idx]]
    BY DEF TypeOK
  <1>2. /\ interval' \in [Slots -> 0..MaxDelay]
        /\ passes' \in [Slots -> 0..(MaxDelay + 1)]
    BY <1>1
  <1>3. apc' \in {"up", "countdown", "sleep"} /\ idx' \in Slots
    BY <1>1, NextSlotType
  <1>4. TypeOK'
    BY <1>2, <1>3 DEF TypeOK
  <1>5. Control'
    BY <1>3 DEF Control
  <1>6. Running' => Distinct' /\ Allocated'
    BY DEF Running, Distinct, Allocated, Queued
  <1>7. Running' => SlotState' /\ UpState'
    <2> SUFFICES ASSUME Running' PROVE SlotState' /\ UpState'
      OBVIOUS
    <2>1. Running /\ SlotState
      BY DEF Running
    <2>2. CASE state[idx] = "SET"
      <3>1. interval[idx] > 0 /\ passes[idx] + interval[idx] = asked[idx]
        BY <2>1, <2>2, <1>1 DEF SlotState, TypeOK
      <3>2. /\ interval'[idx] = interval[idx] - 1 /\ passes'[idx] = passes[idx] + 1
            /\ passes'[idx] + interval'[idx] = asked[idx]
        <4>1. MaxDelay \in Nat /\ interval[idx] \in 0..MaxDelay
              /\ passes[idx] \in 0..(MaxDelay + 1) /\ asked[idx] \in 0..MaxDelay
          BY <1>1 DEF TypeOK
        <4> HIDE AlarmAssumption, SlotFacts DEF IInv, Countdown
        <4>2. passes[idx] <= MaxDelay
          BY <3>1, <4>1
        <4>3. interval'[idx] = interval[idx] - 1
          BY <1>1, <3>1
        <4>4. passes'[idx] = passes[idx] + 1
          BY <1>1, <2>2, <4>2
        <4> QED
          BY <3>1, <4>1, <4>3, <4>4
      <3>3. \A j \in Slots : j # idx => interval'[j] = interval[j] /\ passes'[j] = passes[j]
        BY <1>1
      <3>4. \A j \in Slots : state[j] = "SET" /\ interval'[j] = 0 => j = idx /\ apc' = "up" /\ idx' = idx
        BY <2>1, <2>2, <3>2, <3>3 DEF SlotState
      <3>5. apc' = "up" => idx' = idx /\ interval'[idx] = 0
        BY <1>1 DEF NextSlot
      <3>6. UpState'
        BY <2>2, <3>5 DEF UpState
      <3>7. SlotState'
        BY <2>1, <3>2, <3>3, <3>4 DEF SlotState
      <3> QED
        BY <3>6, <3>7
    <2>3. CASE state[idx] # "SET"
      <3>1. apc' # "up"
        BY <2>3 DEF NextSlot
      <3>2. \A j \in Slots : state[j] = "SET" => interval'[j] = interval[j] /\ passes'[j] = passes[j]
        BY <2>3, <1>1
      <3> QED
        BY <2>1, <3>1, <3>2 DEF SlotState, UpState
    <2> QED
      BY <2>2, <2>3
  <1> QED
    BY <1>4, <1>5, <1>6, <1>7

\* Up preserves the inductive invariant.
LEMMA UpIInv == IInv /\ Up => IInv'
  <1> SUFFICES ASSUME IInv, Up PROVE IInv'
    OBVIOUS
  <1> USE AlarmAssumption, SlotFacts DEF IInv, Up, history
  <1>1. /\ idx \in Slots /\ obj = NULL
        /\ msg \in [Slots -> Msgs \cup {NULL}] /\ state \in [Slots -> {"NONE", "SET"}]
    BY DEF TypeOK, Control
  <1>2. CASE state[idx] = "SET" /\ msg[idx] # NULL
    <2>1. /\ obj' = msg[idx] /\ obj' \in Msgs
          /\ msg' = [msg EXCEPT ![idx] = NULL] /\ msg' \in [Slots -> Msgs \cup {NULL}]
          /\ state' = [state EXCEPT ![idx] = "NONE"] /\ state' \in [Slots -> {"NONE", "SET"}]
          /\ apc' = "insert" /\ idx' = idx
      BY <1>1, <1>2
    <2>2. TypeOK'
      BY <2>1 DEF TypeOK
    <2>3. Control'
      BY <1>1, <2>1 DEF Control
    <2>4. Running' => Distinct'
      BY <1>1, <2>1 DEF Running, Distinct, Queued
    <2>5. Running' => Allocated'
      BY <1>1, <2>1 DEF Running, Distinct, Allocated, Queued
    <2>6. Running' => SlotState' /\ UpState'
      <3> SUFFICES ASSUME Running' PROVE SlotState' /\ UpState'
        OBVIOUS
      <3>1. Running /\ SlotState /\ ~(ppc = "set")
        BY DEF Running, Control
      <3> QED
        BY <1>1, <2>1, <3>1 DEF SlotState, UpState
    <2> QED
      BY <2>2, <2>3, <2>4, <2>5, <2>6
  <1>3. CASE ~(state[idx] = "SET" /\ msg[idx] # NULL)
    <2>1. /\ apc' \in {"countdown", "sleep"} /\ idx' \in Slots
          /\ UNCHANGED <<state, msg, obj>>
      BY <1>3, NextSlotType
    <2>2. TypeOK'
      BY <2>1 DEF TypeOK
    <2>3. Control'
      BY <2>1 DEF Control
    <2>4. ~Running'
      BY <1>1, <1>3 DEF Running, SlotState, UpState, Control
    <2> QED
      BY <2>2, <2>3, <2>4
  <1> QED
    BY <1>2, <1>3

\* UpInsert preserves the inductive invariant.
LEMMA UpInsertIInv == IInv /\ UpInsert => IInv'
  <1> SUFFICES ASSUME IInv, UpInsert PROVE IInv'
    OBVIOUS
  <1> USE AlarmAssumption, SlotFacts DEF IInv
  <1>1. obj \in Msgs /\ obj' = NULL /\ mq \in Seq(Msgs)
    BY DEF UpInsert, TypeOK, Control
  <1>2. /\ apc' \in {"countdown", "sleep"} /\ idx' \in Slots
        /\ UNCHANGED <<slots, lock, over, ppc, req, live, freedTwice, asked, passes, replaced, early>>
    BY NextSlotType DEF UpInsert
  <1>3. Control'
    BY <1>1, <1>2 DEF Control, slots
  <1>4. Running' => SlotState' /\ UpState'
    BY <1>2 DEF UpInsert, Running, SlotState, UpState, slots
  <1>5. CASE mq' = Append(mq, obj) /\ UNCHANGED lost
    <2>1. /\ mq' \in Seq(Msgs) /\ Len(mq') = Len(mq) + 1
          /\ \A k \in 1..Len(mq) : mq'[k] = mq[k]
          /\ mq'[Len(mq) + 1] = obj
      BY <1>1, <1>5, AppendProperties
    <2>2. TypeOK'
      BY <1>1, <1>2, <1>5, <2>1 DEF TypeOK, slots
    <2>3. \A m \in Msgs : Queued(m)' <=> Queued(m) \/ m = obj
      <3> SUFFICES ASSUME NEW m \in Msgs PROVE Queued(m)' <=> Queued(m) \/ m = obj
        OBVIOUS
      <3>1. Len(mq) \in Nat
        BY <1>1
      <3>2. \A k \in 1..Len(mq') : k \in 1..Len(mq) \/ k = Len(mq) + 1
        BY <2>1, <3>1
      <3>3. \A k \in 1..Len(mq) : k \in 1..Len(mq')
        BY <2>1, <3>1
      <3>4. Len(mq) + 1 \in 1..Len(mq')
        BY <2>1, <3>1
      <3> QED
        BY <2>1, <3>2, <3>3, <3>4 DEF Queued
    <2>4. Running' => Distinct'
      <3> SUFFICES ASSUME Running' PROVE Distinct'
        OBVIOUS
      <3>1. Running /\ Distinct
        BY <1>2 DEF Running
      <3>2. ASSUME NEW k \in 1..Len(mq'), NEW l \in 1..Len(mq'), mq'[k] = mq'[l]
            PROVE  k = l
        <4>1. Len(mq) \in Nat /\ ~Queued(obj)
          BY <1>1, <3>1 DEF Distinct
        <4> QED
          BY <2>1, <3>1, <3>2, <4>1 DEF Distinct, Queued
      <3>3. \A m \in Msgs : m # NULL
        OBVIOUS
      <3>4. \A m \in lost : m \in Msgs /\ m # obj
        BY <3>1 DEF Distinct, TypeOK
      <3>5. UNCHANGED <<msg, req, lost>> /\ obj' = NULL /\ obj # NULL
        BY <1>1, <1>2, <1>5, <3>3 DEF slots
      <3>6. \A j \in Slots : msg[j] # NULL => msg[j] \in Msgs
        BY DEF TypeOK
      <3>7. req.msg # NULL => req.msg \in Msgs
        BY DEF TypeOK
      <3> QED
        BY ONLY <2>3, <3>1, <3>2, <3>3, <3>4, <3>5, <3>6, <3>7 DEF Distinct
    <2>5. Running' => Allocated'
      BY <1>1, <1>2, <1>5, <2>3 DEF Running, Allocated, slots
    <2> QED
      BY <1>3, <1>4, <2>2, <2>4, <2>5
  <1>6. CASE lost' = lost \cup {obj} /\ UNCHANGED mq
    <2>1. TypeOK'
      BY <1>1, <1>2, <1>6 DEF TypeOK, slots
    <2>2. Running' => Distinct'
      <3> SUFFICES ASSUME Running' PROVE Distinct'
        OBVIOUS
      <3>1. Distinct
        BY <1>2 DEF Running
      <3>2. /\ UNCHANGED <<msg, req, mq>> /\ obj' = NULL
            /\ obj # NULL /\ lost' = lost \cup {obj}
        BY <1>1, <1>2, <1>6 DEF slots
      <3>3. \A m \in lost' : m # NULL
        BY <1>1, <1>6 DEF TypeOK
      <3>4. \A m : Queued(m)' <=> Queued(m)
        BY <3>2 DEF Queued
      <3>5. \A j \in Slots : msg[j] # obj
        BY ONLY <3>1, <3>2 DEF Distinct
      <3> QED
        BY ONLY <3>1, <3>2, <3>3, <3>4, <3>5 DEF Distinct
    <2>3. Running' => Allocated'
      BY <1>1, <1>2, <1>6 DEF Running, Allocated, Queued, slots
    <2> QED
      BY <1>3, <1>4, <2>1, <2>2, <2>3
  <1> QED
    BY <1>5, <1>6 DEF UpInsert

\* Sleep preserves the inductive invariant.
LEMMA SleepIInv == IInv /\ Sleep => IInv'
  <1> SUFFICES ASSUME IInv, Sleep PROVE IInv'
    OBVIOUS
  <1> USE AlarmAssumption, SlotFacts DEF IInv, Sleep, slots, history
  <1>1. TypeOK'
    BY DEF TypeOK, Control, Free, KeepHeap, NextSlot, NoReq
  <1>2. Control'
    BY DEF TypeOK, Control, Free, KeepHeap, NextSlot, NoReq
  <1>3. Running' => Distinct' /\ Allocated'
    BY DEF TypeOK, Control, Running, Distinct, Allocated, Queued, Free, KeepHeap, NextSlot, NoReq
  <1>4. Running' => SlotState' /\ UpState'
    BY DEF TypeOK, Control, Running, SlotState, UpState, Free, KeepHeap, NextSlot, NoReq
  <1> QED
    BY <1>1, <1>2, <1>3, <1>4

\* CleanupFree preserves the inductive invariant.
LEMMA CleanupFreeIInv == IInv /\ CleanupFree => IInv'
  <1> SUFFICES ASSUME IInv, CleanupFree PROVE IInv'
    OBVIOUS
  <1> USE AlarmAssumption, SlotFacts DEF IInv, CleanupFree, slots, history
  <1>1. apc' \in {"clear", "cleanup", "done"} /\ idx' \in Slots
    BY DEF TypeOK
  <1>2. live' \subseteq Msgs /\ freedTwice' \subseteq Msgs
    BY DEF TypeOK, Free, KeepHeap
  <1>3. TypeOK'
    BY <1>1, <1>2 DEF TypeOK
  <1>4. Control' /\ ~Running'
    BY <1>1 DEF Control, Running
  <1> QED
    BY <1>3, <1>4

\* CleanupClear preserves the inductive invariant.
LEMMA CleanupClearIInv == IInv /\ CleanupClear => IInv'
  <1> SUFFICES ASSUME IInv, CleanupClear PROVE IInv'
    OBVIOUS
  <1> USE AlarmAssumption, SlotFacts DEF IInv, CleanupClear, slots, history
  <1>1. TypeOK'
    BY DEF TypeOK, Control, Free, KeepHeap, NextSlot, NoReq
  <1>2. Control'
    BY DEF TypeOK, Control, Free, KeepHeap, NextSlot, NoReq
  <1>3. Running' => Distinct' /\ Allocated'
    BY DEF TypeOK, Control, Running, Distinct, Allocated, Queued, Free, KeepHeap, NextSlot, NoReq
  <1>4. Running' => SlotState' /\ UpState'
    BY DEF TypeOK, Control, Running, SlotState, UpState, Free, KeepHeap, NextSlot, NoReq
  <1> QED
    BY <1>1, <1>2, <1>3, <1>4

\* Terminate preserves the inductive invariant.
LEMMA TerminateIInv == IInv /\ Terminate => IInv'
  <1> SUFFICES ASSUME IInv, Terminate PROVE IInv'
    OBVIOUS
  <1> USE AlarmAssumption, SlotFacts DEF IInv, Terminate, slots, history
  <1>1. TypeOK'
    BY DEF TypeOK, Control, Free, KeepHeap, NextSlot, NoReq
  <1>2. Control'
    BY DEF TypeOK, Control, Free, KeepHeap, NextSlot, NoReq
  <1>3. Running' => Distinct' /\ Allocated'
    BY DEF TypeOK, Control, Running, Distinct, Allocated, Queued, Free, KeepHeap, NextSlot, NoReq
  <1>4. Running' => SlotState' /\ UpState'
    BY DEF TypeOK, Control, Running, SlotState, UpState, Free, KeepHeap, NextSlot, NoReq
  <1> QED
    BY <1>1, <1>2, <1>3, <1>4

\* Every step preserves the inductive invariant.
LEMMA NextIInv == IInv /\ [Next]_vars => IInv'
  <1> SUFFICES ASSUME IInv, [Next]_vars PROVE IInv'
    OBVIOUS
  <1>1. CASE UNCHANGED vars
    BY <1>1 DEF vars, slots, history, IInv, TypeOK, Control, Running, Distinct,
                Allocated, Queued, SlotState, UpState
  <1>2. CASE Proc
    BY <1>2, CallAddIInv, AddLockIInv, AddFreeOldIInv, AddSetIInv, ExecuteIInv DEF Proc
  <1>3. CASE Alarm
    BY <1>3, MutexInitIInv, MemsetIInv, LoopTopIInv, CountdownIInv, UpIInv,
       UpInsertIInv, SleepIInv, CleanupFreeIInv, CleanupClearIInv DEF Alarm
  <1>4. CASE Terminate
    BY <1>4, TerminateIInv
  <1> QED
    BY <1>1, <1>2, <1>3, <1>4 DEF Next

\* The inductive invariant holds in every reachable state.
LEMMA Inductive == Spec => []IInv
  BY InitIInv, NextIInv, PTL DEF Spec

\* Every variable keeps its type; in particular no interval of alrm_queue, counted
\* down by ddp_alrm_queue_countdown, falls below zero or exceeds what was asked.
THEOREM TypeCorrect == Spec => []TypeOK
  BY Inductive, PTL DEF IInv

\* One owner per message, from the parts of the invariant.
LEMMA OwnersDistinct == IInv => OneOwner
  <1> SUFFICES ASSUME IInv, Running, NEW m \in Msgs
               PROVE  /\ m \in live <=> Holders(m) # {} \/ m \in lost
                      /\ m \in lost => Holders(m) = {}
                      /\ \A h, k \in Holders(m) : h = k
    BY DEF OneOwner
  <1>1. Distinct /\ Allocated /\ m # NULL
    BY AlarmAssumption DEF IInv
  <1>2. Holders(m) # {} <=> \/ \E i \in Slots : msg[i] = m
                           \/ Queued(m) \/ obj = m \/ req.msg = m
    BY DEF Holders, Queued
  <1>4. m \in lost => Holders(m) = {}
    BY <1>1, <1>2 DEF Distinct
  <1>3. ASSUME NEW h \in Holders(m), NEW k \in Holders(m) PROVE h = k
    BY <1>1 DEF Holders, Distinct, Queued
  <1> QED
    BY <1>1, <1>2, <1>3, <1>4 DEF Allocated

\* While the daemon runs, every message of a delayed request has exactly one
\* owner from create_delay_msg to its execution: ddp_alrm_queue.c neither frees
\* nor executes it twice, and leaks it only when the insert into g_mq fails.
THEOREM Ownership == Spec => []OneOwner
  BY Inductive, OwnersDistinct, PTL

\* While the daemon runs, a slot has a message exactly when it is SET.
THEOREM Consistency == Spec => []SlotConsistent
  <1>1. IInv => SlotConsistent
    BY DEF IInv, SlotConsistent, SlotState
  <1> QED
    BY <1>1, Inductive, PTL

\* No slot is counted down more often than its alarm asked for.
THEOREM Punctual == Spec => []NeverLate
  <1>1. IInv => NeverLate
    BY AlarmAssumption DEF IInv, NeverLate, SlotState, TypeOK, Delays
  <1> QED
    BY <1>1, Inductive, PTL

\* An alarm set in an empty slot goes off at exactly the countdown it asked for,
\* for every delay and every interleaving of adds with the alarm thread.
THEOREM OnTimeUnlessReplaced == Spec => UnreplacedOnTime
  <1>1. ASSUME IInv, NEW i \in Slots, Running, GoesOff(i), i \notin replaced, [Next]_vars
        PROVE  passes[i] = asked[i]
    <2>1. apc = "up" /\ state[i] = "SET" /\ state'[i] = "NONE" /\ ~over
      BY <1>1 DEF GoesOff, Running
    <2>2. idx = i
      <3>1. Up
        BY <2>1, <1>1
        DEF Next, Proc, Alarm, vars, slots, TypeOK, IInv, CallAdd, AddLock, AddFreeOld, AddSet,
            Execute, MutexInit, Memset, LoopTop, Countdown, UpInsert, Sleep, CleanupFree,
            CleanupClear, Terminate
      <3> QED
        BY <3>1, <2>1, <1>1 DEF Up, IInv, TypeOK
    <2>3. interval[i] = 0
      BY <2>1, <2>2, <1>1 DEF IInv, UpState
    <2>4. passes[i] + interval[i] = asked[i]
      BY <2>1, <1>1 DEF IInv, SlotState
    <2> QED
      BY <2>3, <2>4, <1>1 DEF IInv, TypeOK
  <1>2. IInv /\ [Next]_vars =>
          [\A i \in Slots : Running /\ GoesOff(i) /\ i \notin replaced => passes[i] = asked[i]]_vars
    BY <1>1
  <1> QED
    BY <1>2, Inductive, PTL DEF Spec, UnreplacedOnTime
=============================================================================
