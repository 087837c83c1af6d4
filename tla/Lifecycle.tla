----------------------------- MODULE Lifecycle -----------------------------
(***************************************************************************)
(* Start and stop of the daemon (ddp.c, the loops of ddp_thread.c): the    *)
(* main thread, the recv thread it joins, the child threads the recv       *)
(* thread creates and nobody joins, the SIGUSR1 handler, and the word they *)
(* talk through, g_iLoop.  A thread ORs its bits into g_iLoop when it      *)
(* starts and clears them when it ends; the handler ORs DDP_OVER_SIG into  *)
(* it; the recv thread leaves when the bits of the children are clear, and *)
(* then the main thread frees the message queues.                          *)
(*                                                                         *)
(* Only the handler and ddp_get_loop_flag hold g_loopMutex.  The threads   *)
(* read, modify and write g_iLoop without it, in two steps here.  The bits *)
(* of the srv_v1 thread are 0x16, which are also the bits of proc, srv and *)
(* the alarm thread.                                                       *)
(***************************************************************************)
EXTENDS Integers, FiniteSets

CONSTANT Children  \* the child threads: proc, srv and srvV1 by role, shell, alrm

ASSUME ChildrenAssumption ==
  Children \subseteq {"proc", "srv", "srvV1", "shell", "alrm"} /\ Children # {}

\* DDP_OVER_SIG, the highest bit of g_iLoop; the word is the set of its bits.
OVER == 31

\* The bits of g_iLoop: 0x01 recv, 0x02 proc, 0x04 srv, 0x08 shell, 0x10 alarm,
\* and 0x16 = 0x10 | 0x04 | 0x02 for srv_v1.
BitsOf(t) ==
  CASE t = "recv"  -> {0}
    [] t = "proc"  -> {1}
    [] t = "srv"   -> {2}
    [] t = "shell" -> {3}
    [] t = "alrm"  -> {4}
    [] t = "srvV1" -> {1, 2, 4}

\* What the recv thread waits for: 0x02, 0x04, 0x08, 0x10 and 0x16.
WaitMask == {1, 2, 3, 4}

Threads == Children \cup {"recv"}

\* The recv thread creates its children in this order.
Rank(t) == CASE t = "proc" -> 1 [] t = "srv" -> 2 [] t = "srvV1" -> 3
             [] t = "shell" -> 4 [] t = "alrm" -> 5

VARIABLES
  flag,       \* g_iLoop, as the set of its bits
  pc,         \* pc[t]: where a thread is
  tmp,        \* tmp[t]: the value of g_iLoop a thread read and will write back
  main,       \* where the main thread is
  sig,        \* the SIGUSR1 handler: not come, between its read and write, done
  sigTmp,     \* the value of g_iLoop it read
  calm        \* history: OVER was raised when every thread was up and had its bits set

vars == <<flag, pc, tmp, main, sig, sigTmp, calm>>

Locations == {"unborn", "born", "create", "set", "loop", "wait", "leave", "clear", "exited"}

Init ==
  /\ flag = {}
  /\ pc = [t \in Threads |-> "unborn"]
  /\ tmp = [t \in Threads |-> {}]
  /\ main = "init"
  /\ sig = "none" /\ sigTmp = {}
  /\ calm = FALSE

\* g_loopMutex: only the handler is seen holding it.
LoopMutexHeld == sig = "write"

Goto(t, l) == pc' = [pc EXCEPT ![t] = l]

\* The first child in the order of creation that does not exist yet.
NextChild(t) ==
  /\ pc[t] = "unborn"
  /\ \A u \in Children : pc[u] = "unborn" => Rank(t) <= Rank(u)

-----------------------------------------------------------------------------
(* The main thread, ddp_entrance. *)

\* The queues of the role, the handlers, the sockets, the timer, the recv thread.
InitOk ==
  /\ main = "init"
  /\ Goto("recv", "create")
  /\ main' = "join"
  /\ UNCHANGED <<flag, tmp, sig, sigTmp, calm>>

\* A step of the initialisation fails: ddp_terminate, and on to the cleanup.
InitFails ==
  /\ main = "init" /\ ~LoopMutexHeld
  /\ flag' = flag \cup {OVER}
  /\ main' = "free"
  /\ UNCHANGED <<pc, tmp, sig, sigTmp, calm>>

\* pthread_join(recvThreadId).
Join ==
  /\ main = "join" /\ pc["recv"] = "exited"
  /\ main' = "free"
  /\ UNCHANGED <<flag, pc, tmp, sig, sigTmp, calm>>

\* While main is at "free" the queues the children take from, the platform data
\* and the interface list are released.  The end of the process ends every
\* thread.  (The wait for the upgrade flag before it belongs to module Upgrade.)
Exit ==
  /\ main = "free"
  /\ main' = "exit"
  /\ UNCHANGED <<flag, pc, tmp, sig, sigTmp, calm>>

-----------------------------------------------------------------------------
(* The recv thread, recv_thread_func. *)

RecvCreate ==
  /\ pc["recv"] = "create"
  /\ \E t \in Children : NextChild(t) /\ Goto(t, "born")
  /\ UNCHANGED <<flag, tmp, main, sig, sigTmp, calm>>

\* pthread_create fails: the recv thread skips its own loop and waits for the
\* children it has created, which nobody has told to stop.
RecvCreateFails ==
  /\ pc["recv"] = "create"
  /\ \E t \in Children : NextChild(t)
  /\ Goto("recv", "wait")
  /\ UNCHANGED <<flag, tmp, main, sig, sigTmp, calm>>

\* MUTANT: the wait forgets the bit of the srv thread.
RecvWait_IgnoresSrv ==
  /\ pc["recv"] = "wait"
  /\ flag \cap (WaitMask \ {2}) = {}
  /\ Goto("recv", "leave")
  /\ UNCHANGED <<flag, tmp, main, sig, sigTmp, calm>>

\* "wait for threads stopped": one load of the word, as the compiled loop has it.
RecvWait ==
  /\ pc["recv"] = "wait"
  /\ flag \cap WaitMask = {}
  /\ Goto("recv", "leave")
  /\ UNCHANGED <<flag, tmp, main, sig, sigTmp, calm>>

-----------------------------------------------------------------------------
(* Every thread. *)

\* g_iLoop = (g_iLoop | bits): the read ...
SetRead(t) ==
  /\ IF t = "recv" THEN pc[t] = "create" /\ \A u \in Children : pc[u] # "unborn"
                   ELSE pc[t] = "born"
  /\ tmp' = [tmp EXCEPT ![t] = flag]
  /\ Goto(t, "set")
  /\ UNCHANGED <<flag, main, sig, sigTmp, calm>>

\* ... and the write.  The shell thread has no loop when its socket could not be
\* opened.
SetWrite(t) ==
  /\ pc[t] = "set"
  /\ flag' = tmp[t] \cup BitsOf(t)
  /\ tmp' = [tmp EXCEPT ![t] = {}]
  /\ \/ Goto(t, "loop")
     \/ t = "shell" /\ Goto(t, "leave")
  /\ UNCHANGED <<main, sig, sigTmp, calm>>

\* MUTANT: the flag is compared with DDP_OVER_SIG, not masked with it.
LoopOver_Equals(t) ==
  /\ pc[t] = "loop" /\ ~LoopMutexHeld
  /\ flag = {OVER}
  /\ Goto(t, IF t = "recv" THEN "wait" ELSE "leave")
  /\ UNCHANGED <<flag, tmp, main, sig, sigTmp, calm>>

\* The head of a thread's main loop: ddp_get_loop_flag under the mutex, and out
\* on DDP_OVER_SIG.
LoopOver(t) ==
  /\ pc[t] = "loop" /\ ~LoopMutexHeld
  /\ OVER \in flag
  /\ Goto(t, IF t = "recv" THEN "wait" ELSE "leave")
  /\ UNCHANGED <<flag, tmp, main, sig, sigTmp, calm>>

\* g_iLoop = (g_iLoop & ~bits), "stop signal to recv thread".
ClearRead(t) ==
  /\ pc[t] = "leave"
  /\ tmp' = [tmp EXCEPT ![t] = flag]
  /\ Goto(t, "clear")
  /\ UNCHANGED <<flag, main, sig, sigTmp, calm>>

\* MUTANT: the thread resets the word.
ClearWrite_Resets(t) ==
  /\ pc[t] = "clear"
  /\ flag' = {}
  /\ tmp' = [tmp EXCEPT ![t] = {}]
  /\ Goto(t, "exited")
  /\ UNCHANGED <<main, sig, sigTmp, calm>>

\* ... and the write.
ClearWrite(t) ==
  /\ pc[t] = "clear"
  /\ flag' = tmp[t] \ BitsOf(t)
  /\ tmp' = [tmp EXCEPT ![t] = {}]
  /\ Goto(t, "exited")
  /\ UNCHANGED <<main, sig, sigTmp, calm>>

-----------------------------------------------------------------------------
(* SIGUSR1: ddp_signal_handler, ddp_terminate.  One signal is modelled, once *)
(* the handler is installed; it runs beside the threads (on the thread it    *)
(* happens to interrupt).                                                    *)

Signal ==
  /\ sig = "none"
  /\ sigTmp' = flag
  /\ sig' = "write"
  /\ UNCHANGED <<flag, pc, tmp, main, calm>>

SignalWrite ==
  /\ sig = "write"
  /\ flag' = sigTmp \cup {OVER}
  /\ sigTmp' = {}
  /\ sig' = "done"
  /\ calm' = \A t \in Threads : pc[t] = "loop" /\ BitsOf(t) \subseteq sigTmp
  /\ UNCHANGED <<pc, tmp, main>>

MainStep == InitOk \/ InitFails \/ Join \/ Exit
RecvStep == RecvCreate \/ RecvCreateFails \/ RecvWait
ThreadStep(t) == SetRead(t) \/ SetWrite(t) \/ LoopOver(t) \/ ClearRead(t) \/ ClearWrite(t)
HandlerStep == Signal \/ SignalWrite

\* Nothing runs after the process has exited.
Next ==
  \/ MainStep
  \/ main # "exit" /\ RecvStep
  \/ main # "exit" /\ HandlerStep
  \/ main # "exit" /\ \E t \in Threads : ThreadStep(t)

\* Every thread and the handler are scheduled; the signal may not come.
\* pthread_create succeeds or fails.
Fairness ==
  /\ WF_vars(MainStep)
  /\ WF_vars(main # "exit" /\ RecvStep)
  /\ WF_vars(main # "exit" /\ SignalWrite)
  /\ \A t \in Threads : WF_vars(main # "exit" /\ ThreadStep(t))

Spec == Init /\ [][Next]_vars
FairSpec == Spec /\ Fairness

-----------------------------------------------------------------------------
\* The types of the variables.
TypeOK ==
  /\ flag \subseteq {0, 1, 2, 3, 4, OVER}
  /\ pc \in [Threads -> Locations]
  /\ tmp \in [Threads -> SUBSET {0, 1, 2, 3, 4, OVER}]
  /\ main \in {"init", "join", "free", "exit"}
  /\ sig \in {"none", "write", "done"}
  /\ sigTmp \subseteq {0, 1, 2, 3, 4, OVER}
  /\ calm \in BOOLEAN

\* Past its wait, the recv thread lets the main thread release what the children use.
PastWait == pc["recv"] \in {"leave", "clear", "exited"}

\* When the daemon was told to stop while fully up, and srv_v1, whose bits are
\* those of other threads, is not among its threads, then "wait for threads
\* stopped" does what it says, although the bits are cleared without the mutex:
\* past the wait no child is in its loop, so none uses a queue that is released.
WaitIsEnough ==
  calm /\ "srvV1" \notin Children /\ PastWait
    => \A t \in Children : pc[t] = "exited"

\* "wait for threads stopped" (ddp.c:961), whichever the children are: when the wait
\* of a daemon that was fully up is over, they have stopped.
WaitedForAll == calm /\ PastWait => \A t \in Children : pc[t] = "exited"

\* A stop request that came when all threads were up is never overwritten by
\* their unlocked updates of g_iLoop, whatever the role.
OverSticks == calm => OVER \in flag

\* ... and every child thread ends, also when the recv thread does not.
ThreadsStop == calm ~> (main = "exit" \/ \A t \in Children : pc[t] = "exited")
=============================================================================
