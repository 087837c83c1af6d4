-------------------------- MODULE Lifecycle_proofs --------------------------
(***************************************************************************)
(* Safety of the stop of the daemon, for every set of child threads: a     *)
(* stop request that came while all threads were up is never overwritten,  *)
(* and without srv_v1 the wait of the recv thread outlasts every child.    *)
(***************************************************************************)
EXTENDS Lifecycle, Signals, SequenceTheorems, TLAPS

\* After a calm stop request threads only go from their loops towards the exit.
Leaving == {"loop", "wait", "leave", "clear", "exited"}

\* No copy of the word that is going to be written back has lost the request.
Kept ==
  /\ main = "init" => pc["recv"] = "unborn"
  /\ calm => /\ sig = "done"
             /\ \A t \in Threads : pc[t] \in Leaving
             /\ OVER \in flag
             /\ \A t \in Threads : pc[t] = "clear" => OVER \in tmp[t]

\* The bits of a child that has not ended are in the word and in every copy of
\* it that another thread is going to write back.
BitsKept ==
  calm /\ "srvV1" \notin Children =>
    \A t \in Children : pc[t] # "exited" =>
      /\ BitsOf(t) \subseteq flag
      /\ \A u \in Threads \ {t} : pc[u] = "clear" => BitsOf(t) \subseteq tmp[u]

IInv == TypeOK /\ Kept /\ BitsKept /\ WaitIsEnough

-----------------------------------------------------------------------------
\* The bits are bits of the word.
LEMMA BitsType == \A t \in Threads : BitsOf(t) \subseteq {0, 1, 2, 3, 4, OVER} /\ OVER \notin BitsOf(t)
  BY ChildrenAssumption DEF Threads, BitsOf, OVER

\* Without srv_v1 the threads' bits are disjoint, and the wait looks at the
\* bit of every child.
LEMMA BitsDisjoint ==
  ASSUME "srvV1" \notin Children
  PROVE  /\ \A t \in Children : BitsOf(t) # {} /\ BitsOf(t) \subseteq WaitMask
         /\ \A t, u \in Threads : t # u => BitsOf(t) \cap BitsOf(u) = {}
<1>1. Children \subseteq {"proc", "srv", "shell", "alrm"}
  BY ChildrenAssumption
<1>2. \A t \in Children : BitsOf(t) # {} /\ BitsOf(t) \subseteq WaitMask
  BY <1>1 DEF BitsOf, WaitMask
<1>3. \A t, u \in Threads : t # u => BitsOf(t) \cap BitsOf(u) = {}
  BY <1>1 DEF BitsOf, Threads
<1> QED
  BY <1>2, <1>3

\* The initial state.
LEMMA InitIInv == Init => IInv
  BY DEF Init, IInv, TypeOK, Locations, Threads, Kept, BitsKept, WaitIsEnough, PastWait

\* Each kind of step preserves the type invariant.
LEMMA NextType == TypeOK /\ [Next]_vars => TypeOK'
<1> SUFFICES ASSUME TypeOK, [Next]_vars PROVE TypeOK'
  OBVIOUS
<1> USE DEF TypeOK, Locations
<1>1. ASSUME MainStep PROVE TypeOK'
  BY <1>1 DEF MainStep, InitOk, InitFails, Join, Exit, Goto, Threads, OVER
<1>2. ASSUME RecvStep PROVE TypeOK'
  BY <1>2 DEF RecvStep, RecvCreate, RecvCreateFails, RecvWait, NextChild, Goto, Threads
<1>3. ASSUME HandlerStep PROVE TypeOK'
  BY <1>3 DEF HandlerStep, Signal, SignalWrite
<1>4. ASSUME NEW t \in Threads, ThreadStep(t) PROVE TypeOK'
  <2>1. CASE SetRead(t)
    BY <2>1 DEF SetRead, Goto
  <2>2. CASE SetWrite(t)
    BY <2>2, BitsType DEF SetWrite, Goto
  <2>3. CASE LoopOver(t)
    BY <2>3 DEF LoopOver, Goto
  <2>4. CASE ClearRead(t)
    BY <2>4 DEF ClearRead, Goto
  <2>5. CASE ClearWrite(t)
    BY <2>5 DEF ClearWrite, Goto
  <2> QED
    BY <1>4, <2>1, <2>2, <2>3, <2>4, <2>5 DEF ThreadStep
<1>5. CASE UNCHANGED vars
  BY <1>5 DEF vars
<1> QED
  BY <1>1, <1>2, <1>3, <1>4, <1>5 DEF Next

\* The request survives: a thread clears its bits in a copy that has it.
LEMMA NextKept == TypeOK /\ Kept /\ [Next]_vars => Kept'
<1> SUFFICES ASSUME TypeOK, Kept, [Next]_vars PROVE Kept'
  OBVIOUS
<1> USE DEF TypeOK, Locations, Kept, Leaving
<1>1. ASSUME MainStep PROVE Kept'
  BY <1>1 DEF MainStep, InitOk, InitFails, Join, Exit, Goto, Threads, OVER
<1>2. ASSUME RecvStep PROVE Kept'
  BY <1>2 DEF RecvStep, RecvCreate, RecvCreateFails, RecvWait, NextChild, Goto, Threads
<1>3. ASSUME HandlerStep PROVE Kept'
  <2>1. CASE Signal
    BY <2>1 DEF Signal
  <2>2. CASE SignalWrite
    <3>1. calm' => \A t \in Threads : pc'[t] = "loop"
      BY <2>2 DEF SignalWrite
    <3> QED
      BY <2>2, <3>1 DEF SignalWrite
  <2> QED
    BY <1>3, <2>1, <2>2 DEF HandlerStep
<1>4. ASSUME NEW t \in Threads, ThreadStep(t) PROVE Kept'
  <2>1. CASE SetRead(t)
    BY <2>1 DEF SetRead, Goto, Threads
  <2>2. CASE SetWrite(t)
    <3>1. ~calm /\ calm' = calm /\ main' = main
      BY <2>2 DEF SetWrite
    <3>2. main = "init" => pc'["recv"] = "unborn"
      <4>1. "recv" \in Threads
        BY DEF Threads
      <4>2. CASE t = "recv"
        BY <2>2, <4>2 DEF SetWrite
      <4>3. CASE t # "recv"
        BY <2>2, <4>1, <4>3 DEF SetWrite, Goto
      <4> QED
        BY <4>2, <4>3
    <3> QED
      BY <3>1, <3>2
  <2>3. CASE LoopOver(t)
    BY <2>3 DEF LoopOver, Goto
  <2>4. CASE ClearRead(t)
    BY <2>4 DEF ClearRead, Goto
  <2>5. CASE ClearWrite(t)
    BY <2>5, BitsType DEF ClearWrite, Goto
  <2> QED
    BY <1>4, <2>1, <2>2, <2>3, <2>4, <2>5 DEF ThreadStep
<1>5. CASE UNCHANGED vars
  BY <1>5 DEF vars
<1> QED
  BY <1>1, <1>2, <1>3, <1>4, <1>5 DEF Next

\* The bits of a running child survive the updates of the others.
LEMMA NextBitsKept == TypeOK /\ Kept /\ BitsKept /\ [Next]_vars => BitsKept'
<1> SUFFICES ASSUME TypeOK, Kept, BitsKept, [Next]_vars,
                    calm', "srvV1" \notin Children,
                    NEW c \in Children, pc'[c] # "exited"
             PROVE  /\ BitsOf(c) \subseteq flag'
                    /\ \A u \in Threads \ {c} : pc'[u] = "clear" => BitsOf(c) \subseteq tmp'[u]
  BY DEF BitsKept
<1> DEFINE Goal == /\ BitsOf(c) \subseteq flag'
                   /\ \A u \in Threads \ {c} : pc'[u] = "clear" => BitsOf(c) \subseteq tmp'[u]
<1>0. c \in Threads
  BY DEF Threads
<1>a. ASSUME calm, pc[c] # "exited"
      PROVE  /\ BitsOf(c) \subseteq flag
             /\ \A u \in Threads \ {c} : pc[u] = "clear" => BitsOf(c) \subseteq tmp[u]
  BY <1>a DEF BitsKept
<1>1. ASSUME MainStep PROVE Goal
  BY <1>0, <1>1, <1>a DEF MainStep, InitOk, InitFails, Join, Exit, Goto, Threads, OVER, TypeOK, Kept, Leaving
<1>2. ASSUME RecvStep PROVE Goal
  BY <1>0, <1>2, <1>a DEF RecvStep, RecvCreate, RecvCreateFails, RecvWait, NextChild, Goto, Threads, TypeOK, Kept, Leaving
<1>3. ASSUME HandlerStep PROVE Goal
  <2>1. CASE Signal
    BY <1>0, <1>a, <2>1 DEF Signal, Kept
  <2>2. CASE SignalWrite
    BY <1>0, <2>2 DEF SignalWrite, Kept
  <2> QED
    BY <1>3, <2>1, <2>2 DEF HandlerStep
<1>4. ASSUME NEW t \in Threads, ThreadStep(t) PROVE Goal
  <2>0. calm /\ pc[t] \in Leaving /\ pc[c] \in Leaving
    BY <1>0, <1>4 DEF ThreadStep, SetRead, SetWrite, LoopOver, ClearRead, ClearWrite, Kept
  <2>1. CASE SetRead(t)
    BY <2>0, <2>1 DEF SetRead, Leaving, Kept, Threads
  <2>2. CASE SetWrite(t)
    BY <2>0, <2>2 DEF SetWrite, Leaving
  <2>3. CASE LoopOver(t)
    BY <1>0, <1>a, <2>0, <2>3 DEF LoopOver, Goto, TypeOK
  <2>4. CASE ClearRead(t)
    BY <1>0, <1>a, <2>0, <2>4 DEF ClearRead, Goto, TypeOK
  <2>5. CASE ClearWrite(t)
    <3>1. t # c
      BY <1>0, <2>5 DEF ClearWrite, Goto, TypeOK
    <3>2. pc[c] # "exited" /\ BitsOf(c) \subseteq tmp[t]
      BY <1>0, <1>a, <2>0, <2>5, <3>1 DEF ClearWrite, Goto, TypeOK
    <3>3. BitsOf(c) \cap BitsOf(t) = {}
      BY <1>0, <3>1, BitsDisjoint
    <3>4. BitsOf(c) \subseteq flag'
      BY <2>5, <3>2, <3>3 DEF ClearWrite
    <3>5. \A u \in Threads \ {c} : pc'[u] = "clear" => BitsOf(c) \subseteq tmp'[u]
      BY <1>a, <2>0, <2>5, <3>2 DEF ClearWrite, Goto, TypeOK
    <3> QED
      BY <3>4, <3>5
  <2> QED
    BY <1>4, <2>1, <2>2, <2>3, <2>4, <2>5 DEF ThreadStep
<1>5. CASE UNCHANGED vars
  BY <1>5, <1>a DEF vars
<1> QED
  BY <1>1, <1>2, <1>3, <1>4, <1>5 DEF Next

\* The recv thread gets past its wait only when no child bit is left.
LEMMA NextWait == IInv /\ [Next]_vars => WaitIsEnough'
<1> SUFFICES ASSUME TypeOK, Kept, BitsKept, WaitIsEnough, [Next]_vars,
                    calm', "srvV1" \notin Children, PastWait', NEW c \in Children
             PROVE  pc'[c] = "exited"
  BY DEF WaitIsEnough, IInv
<1>0. c \in Threads /\ "recv" \in Threads /\ c # "recv"
  BY ChildrenAssumption DEF Threads
<1>a. calm /\ PastWait => pc[c] = "exited"
  BY DEF WaitIsEnough
<1> USE DEF PastWait
<1>1. ASSUME MainStep PROVE pc'[c] = "exited"
  BY <1>0, <1>1, <1>a DEF MainStep, InitOk, InitFails, Join, Exit, Goto, TypeOK, Kept, Leaving
<1>2. ASSUME RecvStep PROVE pc'[c] = "exited"
  <2>1. CASE RecvCreate
    BY <1>0, <2>1 DEF RecvCreate, Kept, Leaving
  <2>2. CASE RecvCreateFails
    BY <1>0, <2>2 DEF RecvCreateFails, Kept, Leaving
  <2>3. CASE RecvWait
    <3>1. pc'[c] = pc[c] /\ calm
      BY <1>0, <2>3 DEF RecvWait, Goto, TypeOK
    <3>2. pc[c] # "exited" => BitsOf(c) \subseteq flag
      BY <3>1 DEF BitsKept
    <3>3. BitsOf(c) # {} /\ BitsOf(c) \subseteq WaitMask
      BY BitsDisjoint
    <3> QED
      BY <2>3, <3>1, <3>2, <3>3 DEF RecvWait
  <2> QED
    BY <1>2, <2>1, <2>2, <2>3 DEF RecvStep
<1>3. ASSUME HandlerStep PROVE pc'[c] = "exited"
  BY <1>0, <1>3, <1>a DEF HandlerStep, Signal, SignalWrite, Kept
<1>4. ASSUME NEW t \in Threads, ThreadStep(t) PROVE pc'[c] = "exited"
  <2>0. calm
    BY <1>4 DEF ThreadStep, SetRead, SetWrite, LoopOver, ClearRead, ClearWrite
  <2>1. PastWait
    BY <1>0, <1>4, <2>0 DEF ThreadStep, SetRead, SetWrite, LoopOver, ClearRead, ClearWrite, Goto, TypeOK, Kept, Leaving
  <2>2. pc[c] = "exited"
    BY <1>a, <2>0, <2>1
  <2> QED
    BY <1>0, <1>4, <2>2 DEF ThreadStep, SetRead, SetWrite, LoopOver, ClearRead, ClearWrite, Goto, TypeOK
<1>5. CASE UNCHANGED vars
  BY <1>5, <1>a DEF vars
<1> QED
  BY <1>1, <1>2, <1>3, <1>4, <1>5 DEF Next

-----------------------------------------------------------------------------
\* IInv holds in every reachable state.
THEOREM Inductive == Spec => []IInv
<1>1. Init => IInv
  BY InitIInv
<1>2. IInv /\ [Next]_vars => IInv'
  BY NextType, NextKept, NextBitsKept, NextWait DEF IInv
<1> QED
  BY <1>1, <1>2, PTL DEF Spec

\* A stop request that came when all threads were up stays in g_iLoop, although
\* every thread clears its own bits there without the mutex.
THEOREM StopRequestStays == Spec => []OverSticks
<1>1. IInv => OverSticks
  BY DEF IInv, Kept, OverSticks
<1> QED
  BY <1>1, Inductive, PTL

\* Without srv_v1, the recv thread (and with it the main thread, which frees
\* the queues) outlasts every child after such a request.
THEOREM WaitSuffices == Spec => []WaitIsEnough
<1>1. IInv => WaitIsEnough
  BY DEF IInv
<1> QED
  BY <1>1, Inductive, PTL

-----------------------------------------------------------------------------
(***************************************************************************)
(* The signal handlers and the mutexes they take, proved for any number of *)
(* workers, whatever threads the signals go to and however the handlers    *)
(* nest: a thread that holds g_loopMutex never waits for the queue.        *)
(*                                                                         *)
(* A handler begins with taking g_loopMutex.  So when a signal interrupts  *)
(* a thread that holds it, the handler cannot get past its first step, and *)
(* all that can ever be found above the place that holds it is one more    *)
(* handler at its first step.                                              *)
(***************************************************************************)

OwnLocs == WorkerLocs \cup {"join", "exit"}
HandlerLocs == Usr1Locs \cup Usr2Locs
Locs == OwnLocs \cup HandlerLocs

\* Where g_loopMutex is held, and where a handler begins.
LoopLocs == {"flag", "u2.flag", "u1.flag"}
Gets == {"u2.get", "u1.get"}

\* At the bottom of every stack is the thread's own code.
Stacks ==
  /\ stack \in [AllThreads -> Seq(Locs)]
  /\ \A t \in AllThreads : Len(stack[t]) >= 1 /\ stack[t][1] \in OwnLocs
  /\ owner \in [Mutexes -> AllThreads \cup {NoOne}]

\* A stack with a place that holds g_loopMutex, and above it only beginnings.
Blocked(s) ==
  \E k \in 1..Len(s) : s[k] \in LoopLocs /\ \A j \in 1..Len(s) : j > k => s[j] \in Gets

LoopHeld == \A t \in AllThreads : owner["loop"] = t => Blocked(stack[t])

SignalsInv == Stacks /\ LoopHeld

-----------------------------------------------------------------------------
(* Stacks. *)

LEMMA LocsApart ==
  /\ OwnLocs \cap HandlerLocs = {}
  /\ Gets \subseteq HandlerLocs
BY DEF OwnLocs, WorkerLocs, HandlerLocs, Usr1Locs, Usr2Locs, Gets

\* The place on top of a stack.
LEMMA TopIs ==
  ASSUME Stacks, NEW t \in AllThreads
  PROVE  /\ stack[t] \in Seq(Locs) /\ Len(stack[t]) \in Nat \ {0}
         /\ At(t) = stack[t][Len(stack[t])]
         /\ At(t) \in HandlerLocs => Len(stack[t]) >= 2
<1>1. stack[t] \in Seq(Locs) /\ Len(stack[t]) >= 1 /\ stack[t][1] \in OwnLocs
  BY DEF Stacks
<1>2. At(t) = stack[t][Len(stack[t])]
  BY DEF At, Last
<1> QED
  BY <1>1, <1>2, LocsApart

\* The activity on top goes from one place of its code to another.
LEMMA Goes ==
  ASSUME Stacks, NEW t \in AllThreads, NEW l \in Locs, MoveTo(t, l),
         At(t) \in HandlerLocs \/ l \in OwnLocs, owner' \in [Mutexes -> AllThreads \cup {NoOne}]
  PROVE  /\ Stacks' /\ \A u \in AllThreads \ {t} : stack'[u] = stack[u]
         /\ Len(stack'[t]) = Len(stack[t]) /\ stack'[t][Len(stack[t])] = l
<1> DEFINE s == stack[t]
<1>1. s \in Seq(Locs) /\ Len(s) \in Nat \ {0} /\ (At(t) \in HandlerLocs => Len(s) >= 2)
      /\ s[1] \in OwnLocs
  BY TopIs DEF Stacks
<1>2. /\ stack' \in [AllThreads -> Seq(Locs)] /\ stack'[t] = [s EXCEPT ![Len(s)] = l]
      /\ \A u \in AllThreads \ {t} : stack'[u] = stack[u]
  <2>1. [s EXCEPT ![Len(s)] = l] \in Seq(Locs)
    BY <1>1
  <2> QED
    BY <2>1 DEF Stacks, MoveTo
<1>3. /\ Len(stack'[t]) = Len(s) /\ stack'[t][Len(s)] = l
      /\ Len(s) # 1 => stack'[t][1] = s[1]
  BY <1>1, <1>2
<1>4. stack'[t][1] \in OwnLocs
  BY <1>1, <1>3
<1> QED
  BY <1>1, <1>2, <1>3, <1>4 DEF Stacks

\* A handler returns to what it interrupted.
LEMMA Returns ==
  ASSUME Stacks, NEW t \in AllThreads, Return(t), At(t) \in HandlerLocs,
         owner' \in [Mutexes -> AllThreads \cup {NoOne}]
  PROVE  Stacks' /\ \A u \in AllThreads \ {t} : stack'[u] = stack[u]
<1> DEFINE s == stack[t]
           f == SubSeq(s, 1, Len(s) - 1)
<1>1. s \in Seq(Locs) /\ Len(s) \in Nat /\ Len(s) >= 2 /\ s[1] \in OwnLocs
  BY TopIs DEF Stacks
<1>2. f \in Seq(Locs) /\ Len(f) >= 1 /\ f[1] = s[1]
  BY <1>1
<1>3. Front(s) = f
  BY DEF Front
<1> HIDE DEF f
<1>4. /\ stack' \in [AllThreads -> Seq(Locs)] /\ stack'[t] = f
      /\ \A u \in AllThreads \ {t} : stack'[u] = stack[u]
  BY <1>2, <1>3 DEF Stacks, Return
<1> QED
  BY <1>1, <1>2, <1>4 DEF Stacks

-----------------------------------------------------------------------------
(* g_loopMutex. *)

\* The thread that holds g_loopMutex is at a place that holds it, or at the
\* beginning of a handler.
LEMMA HolderAt ==
  ASSUME Stacks, LoopHeld, NEW t \in AllThreads, owner["loop"] = t
  PROVE  At(t) \in LoopLocs \cup Gets
<1>1. PICK k \in 1..Len(stack[t]) :
        stack[t][k] \in LoopLocs /\ \A j \in 1..Len(stack[t]) : j > k => stack[t][j] \in Gets
  BY DEF LoopHeld, Blocked
<1>2. Len(stack[t]) \in Nat \ {0} /\ At(t) = stack[t][Len(stack[t])]
  BY TopIs
<1> QED
  BY <1>1, <1>2

\* A step of a thread anywhere else leaves the stack of the holder alone.
LEMMA OthersStep ==
  ASSUME Stacks, LoopHeld, NEW t \in AllThreads, At(t) \notin LoopLocs \cup Gets,
         owner'["loop"] = owner["loop"], \A u \in AllThreads \ {t} : stack'[u] = stack[u]
  PROVE  LoopHeld'
<1> SUFFICES ASSUME NEW u \in AllThreads, owner'["loop"] = u PROVE Blocked(stack'[u])
  BY DEF LoopHeld, Blocked
<1>1. u # t
  BY HolderAt
<1>2. stack'[u] = stack[u] /\ owner["loop"] = u
  BY <1>1
<1> QED
  BY <1>2 DEF LoopHeld

\* The mutex is released.
LEMMA Released ==
  ASSUME owner'["loop"] = NoOne
  PROVE  LoopHeld'
BY SignalsAssumption DEF LoopHeld

\* What the mutexes are after a step that takes one, and one that releases one.
LEMMA LockIs ==
  ASSUME Stacks, NEW t \in AllThreads, NEW m \in Mutexes, Lock(t, m)
  PROVE  owner' \in [Mutexes -> AllThreads \cup {NoOne}] /\ owner'[m] = t
         /\ \A n \in Mutexes \ {m} : owner'[n] = owner[n]
BY DEF Stacks, Lock

LEMMA UnlockIs ==
  ASSUME Stacks, NEW m \in Mutexes, Unlock(m)
  PROVE  owner' \in [Mutexes -> AllThreads \cup {NoOne}] /\ owner'[m] = NoOne
         /\ \A n \in Mutexes \ {m} : owner'[n] = owner[n]
BY DEF Stacks, Unlock

LEMMA MutexesAre == Mutexes = {"loop", "queue"}
BY DEF Mutexes

-----------------------------------------------------------------------------
(* The steps. *)

\* A thread takes g_loopMutex and goes to a place that holds it.
LEMMA TakesLoop ==
  ASSUME SignalsInv, NEW t \in AllThreads, GetFlagLock(t) \/ TerminateLock(t)
  PROVE  SignalsInv'
<1>1. PICK l \in LoopLocs : Lock(t, "loop") /\ MoveTo(t, l)
                            /\ (At(t) \in HandlerLocs \/ l \in OwnLocs)
  BY DEF GetFlagLock, TerminateLock, LoopLocs, HandlerLocs, Usr1Locs, Usr2Locs, OwnLocs, WorkerLocs
<1>2. l \in Locs
  BY DEF LoopLocs, Locs, HandlerLocs, Usr1Locs, Usr2Locs, OwnLocs, WorkerLocs
<1>3. owner' \in [Mutexes -> AllThreads \cup {NoOne}] /\ owner'["loop"] = t
  BY <1>1, LockIs, MutexesAre DEF SignalsInv
<1>4. Stacks' /\ Len(stack'[t]) = Len(stack[t]) /\ stack'[t][Len(stack[t])] = l
  BY <1>1, <1>2, <1>3, Goes DEF SignalsInv
<1>5. Len(stack[t]) \in Nat \ {0}
  BY TopIs DEF SignalsInv
<1>6. Blocked(stack'[t])
  <2>1. Len(stack[t]) \in 1..Len(stack'[t]) /\ \A j \in 1..Len(stack'[t]) : ~(j > Len(stack[t]))
    BY <1>4, <1>5
  <2> QED
    BY <1>4, <2>1 DEF Blocked
<1>7. LoopHeld'
  BY <1>3, <1>6 DEF LoopHeld
<1> QED
  BY <1>4, <1>7 DEF SignalsInv

\* A thread releases g_loopMutex.
LEMMA ReleasesLoop ==
  ASSUME SignalsInv, NEW t \in AllThreads, WorkerFlag(t) \/ Usr2Flag(t) \/ TerminateFlag(t)
  PROVE  SignalsInv'
<1>1. PICK l \in Locs : Unlock("loop") /\ MoveTo(t, l) /\ (At(t) \in HandlerLocs \/ l \in OwnLocs)
  BY DEF WorkerFlag, Usr2Flag, TerminateFlag, Locs, HandlerLocs, Usr1Locs, Usr2Locs, OwnLocs, WorkerLocs
<1>2. owner' \in [Mutexes -> AllThreads \cup {NoOne}] /\ owner'["loop"] = NoOne
  BY <1>1, UnlockIs, MutexesAre DEF SignalsInv
<1>3. Stacks'
  BY <1>1, <1>2, Goes DEF SignalsInv
<1> QED
  BY <1>2, <1>3, Released DEF SignalsInv

\* A thread does something else.
LEMMA DoesElse ==
  ASSUME SignalsInv, NEW t \in AllThreads,
         \/ WorkerTake(t) \/ WorkerQueue(t) \/ Usr2Over(t) \/ Usr2Put(t) \/ Usr2Queue(t)
         \/ TerminateStop(t) \/ Usr2Skip(t) \/ (t = Main /\ MainExit)
  PROVE  SignalsInv'
<1> DEFINE Elsewhere == {"take", "queue", "u2.put4", "u2.put6", "u2.queue4", "u2.queue6", "u1.stop", "join"}
           Moves == \E l \in Locs : MoveTo(t, l) /\ (At(t) \in HandlerLocs \/ l \in OwnLocs)
<1>1. /\ At(t) \in Elsewhere
      /\ Moves \/ (Return(t) /\ At(t) \in HandlerLocs)
      /\ UNCHANGED owner \/ Lock(t, "queue") \/ Unlock("queue")
  BY DEF WorkerTake, WorkerQueue, Usr2Over, Usr2Put, Usr2Queue, TerminateStop, Usr2Skip, MainExit,
     Locs, HandlerLocs, Usr1Locs, Usr2Locs, OwnLocs, WorkerLocs
<1>2. owner' \in [Mutexes -> AllThreads \cup {NoOne}] /\ owner'["loop"] = owner["loop"]
  <2>1. CASE UNCHANGED owner
    BY <2>1 DEF SignalsInv, Stacks
  <2>2. CASE Lock(t, "queue")
    BY <2>2, LockIs, MutexesAre DEF SignalsInv
  <2>3. CASE Unlock("queue")
    BY <2>3, UnlockIs, MutexesAre DEF SignalsInv
  <2> QED
    BY <1>1, <2>1, <2>2, <2>3
<1>3. Stacks' /\ \A u \in AllThreads \ {t} : stack'[u] = stack[u]
  <2>1. CASE Moves
    BY <1>2, <2>1, Goes DEF SignalsInv
  <2>2. CASE Return(t) /\ At(t) \in HandlerLocs
    BY <1>2, <2>2, Returns DEF SignalsInv
  <2> QED
    BY <1>1, <2>1, <2>2
<1>4. At(t) \notin LoopLocs \cup Gets
  BY <1>1 DEF LoopLocs, Gets
<1>5. LoopHeld'
  BY <1>2, <1>3, <1>4, OthersStep DEF SignalsInv
<1> QED
  BY <1>3, <1>5 DEF SignalsInv

\* A signal puts the beginning of its handler on a stack.
LEMMA Interrupts ==
  ASSUME SignalsInv, NEW t \in AllThreads, NEW s \in Signals, Deliver(t, s)
  PROVE  SignalsInv'
<1> DEFINE a == stack[t]
<1>1. PICK l \in Gets : Call(t, l) /\ UNCHANGED owner
  BY DEF Deliver, Gets
<1>2. l \in Locs
  BY LocsApart DEF Locs
<1>3. a \in Seq(Locs) /\ Len(a) \in Nat \ {0} /\ a[1] \in OwnLocs
  BY TopIs DEF SignalsInv, Stacks
<1>4. /\ stack' \in [AllThreads -> Seq(Locs)] /\ stack'[t] = Append(a, l)
      /\ \A u \in AllThreads \ {t} : stack'[u] = stack[u]
  <2>1. Append(a, l) \in Seq(Locs)
    BY <1>2, <1>3
  <2> QED
    BY <1>1, <2>1 DEF SignalsInv, Stacks, Call
<1>5. /\ Len(stack'[t]) = Len(a) + 1 /\ stack'[t][Len(a) + 1] = l
      /\ \A k \in 1..Len(a) : stack'[t][k] = a[k]
  BY <1>2, <1>3, <1>4
<1>6. Stacks'
  <2>1. stack'[t][1] \in OwnLocs /\ Len(stack'[t]) >= 1
    BY <1>3, <1>5
  <2> QED
    BY <1>1, <1>4, <2>1 DEF SignalsInv, Stacks
<1>7. Blocked(a) => Blocked(stack'[t])
  <2> SUFFICES ASSUME Blocked(a) PROVE Blocked(stack'[t])
    OBVIOUS
  <2>1. PICK k \in 1..Len(a) : a[k] \in LoopLocs /\ \A j \in 1..Len(a) : j > k => a[j] \in Gets
    BY DEF Blocked
  <2>2. k \in 1..Len(stack'[t]) /\ stack'[t][k] \in LoopLocs
    BY <1>3, <1>5, <2>1
  <2>3. ASSUME NEW j \in 1..Len(stack'[t]), j > k PROVE stack'[t][j] \in Gets
    <3>1. j \in 1..Len(a) \/ j = Len(a) + 1
      BY <1>3, <1>5
    <3> QED
      BY <1>5, <2>1, <2>3, <3>1
  <2> QED
    BY <2>2, <2>3 DEF Blocked
<1>8. LoopHeld'
  <2> SUFFICES ASSUME NEW u \in AllThreads, owner'["loop"] = u PROVE Blocked(stack'[u])
    BY DEF LoopHeld, Blocked
  <2>1. Blocked(stack[u])
    BY <1>1 DEF SignalsInv, LoopHeld
  <2> QED
    BY <1>4, <1>7, <2>1
<1> QED
  BY <1>6, <1>8 DEF SignalsInv

LEMMA SignalsInitInv == SignalsInit => SignalsInv
<1> SUFFICES ASSUME SignalsInit PROVE SignalsInv
  OBVIOUS
<1>1. Stacks
  <2>1. \A t \in AllThreads : stack[t] \in {<<"join">>, <<"head">>}
    BY DEF SignalsInit
  <2>2. \A s \in {<<"join">>, <<"head">>} : s \in Seq(Locs) /\ Len(s) >= 1 /\ s[1] \in OwnLocs
    BY DEF Locs, OwnLocs, WorkerLocs
  <2>3. stack = [t \in AllThreads |-> stack[t]]
    BY DEF SignalsInit
  <2> QED
    BY <2>1, <2>2, <2>3 DEF SignalsInit, Stacks
<1>2. LoopHeld
  BY MutexesAre, SignalsAssumption DEF SignalsInit, LoopHeld
<1> QED
  BY <1>1, <1>2 DEF SignalsInv

LEMMA SignalsNextInv == SignalsInv /\ [SignalsNext]_signalsVars => SignalsInv'
<1> SUFFICES ASSUME SignalsInv, [SignalsNext]_signalsVars PROVE SignalsInv'
  OBVIOUS
<1>1. ASSUME NEW t \in AllThreads, ActivityStep(t) \/ Usr2Skip(t) PROVE SignalsInv'
  BY <1>1, TakesLoop, ReleasesLoop, DoesElse DEF ActivityStep
<1>2. CASE MainExit
  BY <1>2, DoesElse DEF AllThreads
<1>3. ASSUME NEW t \in Targets, NEW s \in Signals, Deliver(t, s) PROVE SignalsInv'
  BY <1>3, SignalsAssumption, Interrupts
<1>4. CASE TimerExpires \/ StopRequested \/ UNCHANGED signalsVars
  <2>1. UNCHANGED <<stack, owner>>
    BY <1>4 DEF TimerExpires, StopRequested, signalsVars
  <2> QED
    BY <2>1 DEF SignalsInv, Stacks, LoopHeld, Blocked
<1> QED
  BY <1>1, <1>2, <1>3, <1>4 DEF SignalsNext

\* Whatever threads the signals interrupt and however the two handlers nest, for any
\* number of workers, a thread that holds g_loopMutex never waits for the queue: no
\* two threads are ever blocked on each other (ddp.c:248-342).
THEOREM ThreadsLockInOrder == SignalsSpec => []LockOrder
<1>1. SignalsInv => LockOrder
  <2> SUFFICES ASSUME SignalsInv, NEW t \in AllThreads, owner["loop"] = t, At(t) \in Waiting
               PROVE  Takes(At(t)) = "loop"
    BY DEF LockOrder
  <2>1. At(t) \in LoopLocs \cup Gets
    BY HolderAt DEF SignalsInv
  <2> QED
    BY <2>1 DEF LoopLocs, Gets, Waiting, Takes
<1> QED
  BY <1>1, SignalsInitInv, SignalsNextInv, PTL DEF SignalsSpec
=============================================================================
