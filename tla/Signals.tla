------------------------------ MODULE Signals ------------------------------
(***************************************************************************)
(* The signal handlers of the daemon and the threads they interrupt        *)
(* (ddp.c).  SIGUSR2, from the report timer, puts the report requests into *)
(* the message queue; SIGUSR1 tells the daemon to stop.  A handler runs on *)
(* top of what a thread was doing and takes the same mutexes as the        *)
(* threads: g_loopMutex, and the mutex of the message queue.               *)
(*                                                                         *)
(* A thread is a stack of activities: at the bottom its own code, above it *)
(* the handlers that interrupted it.  Only the top of a stack runs, and a  *)
(* handler masks its own signal but not the other one, as signal() has it. *)
(* ddp_terminate runs only in the SIGUSR1 handler and when the start fails: *)
(* the shell's "d" halts the daemon and does not stop it.                  *)
(* Lifecycle models the start and the joins; here all threads are up.      *)
(***************************************************************************)
EXTENDS Integers, Sequences, SequencesExt

CONSTANTS
  Workers,   \* threads with a loop that uses the queue: proc, recv
  Main,      \* the main thread, which waits for them and takes no mutex
  Signals,   \* the signals that may come
  Targets,   \* the threads they may be delivered to
  MaxTicks   \* bound: how often the report timer expires

AllThreads == Workers \cup {Main}
NoOne == "no one"

ASSUME SignalsAssumption ==
  /\ Signals \subseteq {"USR1", "USR2"}
  /\ Targets \subseteq AllThreads /\ MaxTicks \in Nat
  /\ NoOne \notin AllThreads /\ Main \notin Workers

VARIABLES
  stack,     \* stack[t]: the activities of t, each a location of the code
  owner,     \* owner[m]: the thread that holds mutex m
  over,      \* DDP_OVER_SIG is set in g_iLoop
  seen,      \* seen[t][k]: whether activity k of t read DDP_OVER_SIG as set
  pending,   \* the signals sent and not yet delivered
  timer,     \* g_reportTimer is not 0
  ticks,     \* how often it has expired
  asked      \* SIGUSR1 has been sent

signalsVars == <<stack, owner, over, seen, pending, timer, ticks, asked>>

Mutexes == {"loop", "queue"}

\* Where an activity can be.  A worker: at the head of its loop, reading the
\* flag, before the queue, in the queue, out of the loop.  SIGUSR2: reading the
\* flag, inserting the IPv4 and then the IPv6 request.  SIGUSR1: setting the
\* flag, stopping the timer.
WorkerLocs == {"head", "flag", "take", "queue", "out"}
Usr2Locs == {"u2.get", "u2.flag", "u2.put4", "u2.queue4", "u2.put6", "u2.queue6"}
Usr1Locs == {"u1.get", "u1.flag", "u1.stop"}
Handles(l) == IF l \in Usr1Locs THEN "USR1" ELSE IF l \in Usr2Locs THEN "USR2" ELSE "none"

\* The mutex that is taken on leaving a location, and the one that is released.
Takes(l) == IF l \in {"head", "u2.get", "u1.get"} THEN "loop" ELSE "queue"
Waiting == {"head", "take", "u2.get", "u2.put4", "u2.put6", "u1.get"}

SignalsInit ==
  /\ stack = [t \in AllThreads |-> <<IF t = Main THEN "join" ELSE "head">>]
  /\ owner = [m \in Mutexes |-> NoOne]
  /\ over = FALSE
  /\ seen = [t \in AllThreads |-> <<FALSE>>]
  /\ pending = {}
  /\ timer = TRUE /\ ticks = 0
  /\ asked = FALSE

At(t) == Last(stack[t])
MoveTo(t, l) == stack' = [stack EXCEPT ![t][Len(stack[t])] = l]
Return(t) ==
  /\ stack' = [stack EXCEPT ![t] = Front(@)]
  /\ seen' = [seen EXCEPT ![t] = Front(@)]
Running == At(Main) # "exit"

-----------------------------------------------------------------------------
(* Mutexes.  They are not recursive: a thread that holds one waits for itself. *)

Lock(t, m) == owner[m] = NoOne /\ owner' = [owner EXCEPT ![m] = t]
Unlock(m) == owner' = [owner EXCEPT ![m] = NoOne]

\* ddp_get_loop_flag, from a worker or from the SIGUSR2 handler.
GetFlagLock(t) ==
  /\ At(t) \in {"head", "u2.get"}
  /\ Lock(t, "loop")
  /\ MoveTo(t, IF At(t) = "head" THEN "flag" ELSE "u2.flag")
  /\ UNCHANGED <<over, seen, pending, timer, ticks, asked>>

-----------------------------------------------------------------------------
(* The workers. *)

\* The flag is read and the mutex released; on DDP_OVER_SIG the loop is left.
WorkerFlag(t) ==
  /\ At(t) = "flag"
  /\ Unlock("loop")
  /\ MoveTo(t, IF over THEN "out" ELSE "take")
  /\ UNCHANGED <<over, seen, pending, timer, ticks, asked>>

\* The queue is used, or there is nothing to do with it in this turn.
WorkerTake(t) ==
  /\ At(t) = "take"
  /\ \/ Lock(t, "queue") /\ MoveTo(t, "queue")
     \/ MoveTo(t, "head") /\ UNCHANGED owner
  /\ UNCHANGED <<over, seen, pending, timer, ticks, asked>>

WorkerQueue(t) ==
  /\ At(t) = "queue"
  /\ Unlock("queue")
  /\ MoveTo(t, "head")
  /\ UNCHANGED <<over, seen, pending, timer, ticks, asked>>

\* The main thread's joins return and the process ends.
MainExit ==
  /\ At(Main) = "join"
  /\ \A t \in Workers : At(t) = "out"
  /\ MoveTo(Main, "exit")
  /\ UNCHANGED <<owner, over, seen, pending, timer, ticks, asked>>

-----------------------------------------------------------------------------
(* Signals. *)

\* The report timer expires; a signal that is pending already is not queued.
TimerExpires ==
  /\ timer /\ "USR2" \in Signals
  /\ ticks < MaxTicks /\ ticks' = ticks + 1
  /\ pending' = pending \cup {"USR2"}
  /\ UNCHANGED <<stack, owner, over, seen, timer, asked>>

\* Someone sends SIGUSR1, once.
StopRequested ==
  /\ ~asked /\ "USR1" \in Signals
  /\ asked' = TRUE
  /\ pending' = pending \cup {"USR1"}
  /\ UNCHANGED <<stack, owner, over, seen, timer, ticks>>

\* A handler starts on top of what the thread is doing.
Call(t, l) ==
  /\ stack' = [stack EXCEPT ![t] = Append(@, l)]
  /\ seen' = [seen EXCEPT ![t] = Append(@, FALSE)]

\* A pending signal interrupts a thread that is not in its handler.
Deliver(t, s) ==
  /\ s \in pending
  /\ \A k \in DOMAIN stack[t] : Handles(stack[t][k]) # s
  /\ At(t) \notin {"out", "exit"}
  /\ pending' = pending \ {s}
  /\ Call(t, IF s = "USR1" THEN "u1.get" ELSE "u2.get")
  /\ UNCHANGED <<owner, over, timer, ticks, asked>>

\* MUTANT: the handler keeps g_loopMutex for the rest of its work.
Usr2Flag_KeepsLock(t) ==
  /\ At(t) = "u2.flag"
  /\ seen' = [seen EXCEPT ![t][Len(stack[t])] = over]
  /\ MoveTo(t, "u2.put4")
  /\ UNCHANGED <<owner, over, pending, timer, ticks, asked>>

\* ddp_report_timer_handler: iLoop, read under the mutex.
Usr2Flag(t) ==
  /\ At(t) = "u2.flag"
  /\ Unlock("loop")
  /\ seen' = [seen EXCEPT ![t][Len(stack[t])] = over]
  /\ MoveTo(t, "u2.put4")
  /\ UNCHANGED <<over, pending, timer, ticks, asked>>

\* DDP_OVER_SIG was set: ddp_stop_report_timer, and no report.
Usr2Over(t) ==
  /\ At(t) = "u2.put4" /\ Last(seen[t])
  /\ timer' = FALSE
  /\ Return(t)
  /\ UNCHANGED <<owner, over, pending, ticks, asked>>

\* HALT: no report.  No memory for a request: it is left out.
Usr2Skip(t) ==
  /\ At(t) \in {"u2.put4", "u2.put6"} /\ ~Last(seen[t])
  /\ \/ Return(t)
     \/ At(t) = "u2.put4" /\ MoveTo(t, "u2.put6") /\ UNCHANGED seen
  /\ UNCHANGED <<owner, over, pending, timer, ticks, asked>>

\* msg_queue_insert_msg of one request.
Usr2Put(t) ==
  /\ At(t) \in {"u2.put4", "u2.put6"} /\ ~Last(seen[t])
  /\ Lock(t, "queue")
  /\ MoveTo(t, IF At(t) = "u2.put4" THEN "u2.queue4" ELSE "u2.queue6")
  /\ UNCHANGED <<over, seen, pending, timer, ticks, asked>>

Usr2Queue(t) ==
  /\ Unlock("queue")
  /\ \/ At(t) = "u2.queue4" /\ MoveTo(t, "u2.put6") /\ UNCHANGED seen
     \/ At(t) = "u2.queue6" /\ Return(t)
  /\ UNCHANGED <<over, pending, timer, ticks, asked>>

\* ddp_terminate: the flag is set under the mutex.
TerminateLock(t) ==
  /\ At(t) = "u1.get"
  /\ Lock(t, "loop")
  /\ MoveTo(t, "u1.flag")
  /\ UNCHANGED <<over, seen, pending, timer, ticks, asked>>

\* MUTANT: the mutex is kept.
TerminateFlag_NoUnlock(t) ==
  /\ At(t) = "u1.flag"
  /\ over' = TRUE
  /\ MoveTo(t, "u1.stop")
  /\ UNCHANGED <<owner, seen, pending, timer, ticks, asked>>

TerminateFlag(t) ==
  /\ At(t) = "u1.flag"
  /\ over' = TRUE
  /\ Unlock("loop")
  /\ MoveTo(t, "u1.stop")
  /\ UNCHANGED <<seen, pending, timer, ticks, asked>>

\* tftp_terminate, ddp_stop_report_timer, ddp_shell_stop.
TerminateStop(t) ==
  /\ At(t) = "u1.stop"
  /\ timer' = FALSE
  /\ Return(t)
  /\ UNCHANGED <<owner, over, pending, ticks, asked>>

\* The steps of a thread, but for a failing malloc.
ActivityStep(t) ==
  \/ GetFlagLock(t) \/ WorkerFlag(t) \/ WorkerTake(t) \/ WorkerQueue(t)
  \/ Usr2Flag(t) \/ Usr2Over(t) \/ Usr2Put(t) \/ Usr2Queue(t)
  \/ TerminateLock(t) \/ TerminateFlag(t) \/ TerminateStop(t)

SignalsNext ==
  \/ Running /\ \E t \in AllThreads : ActivityStep(t) \/ Usr2Skip(t)
  \/ MainExit
  \/ Running /\ (TimerExpires \/ StopRequested)
  \/ Running /\ \E t \in Targets, s \in Signals : Deliver(t, s)

\* Every thread runs, a mutex goes to each thread that keeps asking for it, and a
\* pending signal is delivered.  Nothing rests on the handler leaving a request out.
SignalsFairness ==
  /\ \A t \in AllThreads : SF_signalsVars(Running /\ ActivityStep(t))
  /\ WF_signalsVars(MainExit)
  /\ \A s \in Signals : SF_signalsVars(Running /\ \E t \in Targets : Deliver(t, s))

SignalsSpec == SignalsInit /\ [][SignalsNext]_signalsVars
SignalsFairSpec == SignalsSpec /\ SignalsFairness

-----------------------------------------------------------------------------
(* Properties. *)

\* A thread waits for a mutex that it holds itself, in code that a signal interrupted.
WaitsForItself(t) == At(t) \in Waiting /\ owner[Takes(At(t))] = t

\* Whatever the signals interrupt, and however they nest, a thread that holds
\* g_loopMutex never waits for the mutex of the queue: two threads are never
\* blocked on each other, only a thread on itself (ddp.c:248-342).
LockOrder ==
  \A t \in AllThreads : owner["loop"] = t /\ At(t) \in Waiting => Takes(At(t)) = "loop"

\* SIGUSR1 stops every thread and ends the process, unless a thread waits for
\* itself for ever.
StopsUnlessStuck ==
  <>asked => (<>(At(Main) = "exit") \/ <>[](\E t \in AllThreads : WaitsForItself(t)))

\* "handler USR1 to exit process safely" (ddp.c:1114).
ExitsSafely == asked ~> At(Main) = "exit"
=============================================================================
