------------------------------ MODULE Receiver ------------------------------
(***************************************************************************)
(* The way of a message through the daemon (ddp_thread.c, ddp_srv.c): the  *)
(* recv thread selects on up to five sockets and goes through one section  *)
(* of code for each; a section reads one message, drops it while the       *)
(* daemon is halted or when the filter refuses it, and otherwise puts it   *)
(* into the queue of a worker thread.  The proc and srv_v1 workers handle  *)
(* it (Requests, Shell), the srv worker relays it between the proxy in the *)
(* WAN and the nodes in the LAN.                                           *)
(*                                                                         *)
(* The five sections are nearly alike.  They differ in the socket, the     *)
(* queue, what the filter has to say, and where they go when a message is  *)
(* dropped: a halt or a failed malloc in the section srv4 starts the loop  *)
(* over and skips srv_v1, and a message that srv_v1 refuses jumps back to  *)
(* the section srv6, past the select and the test for the end.             *)
(***************************************************************************)
EXTENDS Integers, Sequences, FiniteSets

CONSTANTS
  Role,         \* g_role: the sections whose sockets are in the set of select
  CanReport,    \* ddp_platform_capable_process_report says yes
  ProxyType,    \* g_proxyType, the family of the proxy's address: 4 or 6
  Interfaces,   \* g_ifList
  Menu,         \* what may arrive: a socket and a message
  MaxArrivals,  \* bound: messages that arrive and are numbered
  MaxFaults,    \* bound: failures of malloc, in the recv thread or the queues
  MaxTurns      \* bound: changes of the run state

Sections == {"cli6", "cli4", "srv6", "srv4", "v1"}
Queues == {"g_mq", "g_srvMq", "g_srvV1Mq"}

\* A message: the identifier and the IP version in its header; the target MAC:
\* every device, the interface it came in through, another one of this device,
\* or a foreign one; the mode a request has in its return code; whether the
\* opcode is supported, the interface known, the size at least a header's.
Header == [id : {"REQ", "REPORT", "RELAY", "REPLY", "OTHER"}, ver : {4, 6},
           mac : {"all", "here", "own", "foreign"}, mode : {"zero", "unicast", "other"},
           op : BOOLEAN, known : BOOLEAN, whole : BOOLEAN]

Arrival == [sock : Sections, msg : Header]

ASSUME ReceiverAssumption ==
  /\ Role \subseteq Sections /\ CanReport \in BOOLEAN /\ ProxyType \in {4, 6}
  /\ Menu \subseteq Arrival
  /\ MaxArrivals \in Nat /\ MaxFaults \in Nat /\ MaxTurns \in Nat

Ids == 1..MaxArrivals

VARIABLES
  sock,     \* sock[s]: the numbers of the messages that wait on a socket; -1 is
            \* one more message on v1 that the filter refuses
  what,     \* what[i]: message i
  pc, sec,  \* where the recv thread is, and in which section
  ready,    \* rfds, as select left it
  buf,      \* the message in buf: a number, 0 for none, or -1
  over,     \* DDP_OVER_SIG
  run,      \* the run state, TRUE for RUN
  queue,    \* queue[q]: the messages in a queue
  hand,     \* hand[q]: the message its worker has, or 0
  wpc,      \* wpc[q]: where the worker is
  node,     \* the messages whose struct ddp_message is allocated
  payload,  \* the messages whose payload is allocated
  lan,      \* what has been sent into the LAN, pairs of message and interface
  proxy,    \* what has been sent to the proxy
  faults, turns,  \* counters for the bounds
  gone,     \* history: messages read and finished, dropped or handled
  lost,     \* history: messages dropped by a halt or by a failed malloc
  leaked,   \* history: messages whose insertion failed
  sneaked   \* history: messages put into a queue since the daemon was halted

vars == <<sock, what, pc, sec, ready, buf, over, run, queue, hand, wpc, node,
          payload, lan, proxy, faults, turns, gone, lost, leaked, sneaked>>

recvVars == <<pc, sec, ready, buf>>
workVars == <<hand, wpc, lan, proxy>>
histVars == <<gone, lost, leaked, sneaked>>

Init ==
  /\ sock = [s \in Sections |-> <<>>] /\ what = <<>>
  /\ pc = "flag" /\ sec = "cli6" /\ ready = {} /\ buf = 0
  /\ over = FALSE /\ run = TRUE
  /\ queue = [q \in Queues |-> <<>>]
  /\ hand = [q \in Queues |-> 0] /\ wpc = [q \in Queues |-> "loop"]
  /\ node = {} /\ payload = {} /\ lan = {} /\ proxy = {}
  /\ faults = 0 /\ turns = 0
  /\ gone = {} /\ lost = {} /\ leaked = {} /\ sneaked = 0

-----------------------------------------------------------------------------
(* ddp_thread_pre_filter. *)

Own(m) == m.mac \in {"here", "own"}

ForThisDevice(m) ==
  \/ m.mode \in {"zero", "unicast"} /\ m.mac = "here"
  \/ m.mode = "zero" /\ m.mac = "all"

\* 0 drops the message, 1 is for the proc worker, 2 for srv, 3 for srv_v1.
PreFilter(m) ==
  CASE ~m.known                                           -> 0
    [] m.known /\ m.id = "REPORT"                         -> IF CanReport /\ ~Own(m) THEN 1 ELSE 0
    [] m.known /\ m.id = "REQ"                            -> IF ForThisDevice(m) /\ m.op THEN 1 ELSE 0
    [] m.known /\ m.id = "RELAY"                          -> IF Role \cap {"srv4", "srv6"} # {} THEN 2 ELSE 0
    [] m.known /\ m.id = "REPLY" /\ m.ver = 4             -> IF "v1" \in Role /\ m.mac # "here" THEN 3 ELSE 0
    [] m.known /\ (m.id = "OTHER" \/ (m.id = "REPLY" /\ m.ver = 6)) -> 0

\* What a section wants the filter to say; the server sections do not ask it.
Wanted(s) == CASE s \in {"cli6", "cli4"} -> {1} [] s \in {"srv6", "srv4"} -> 0..3 [] s = "v1" -> {3}
QueueOf(s) == CASE s \in {"cli6", "cli4"} -> "g_mq" [] s \in {"srv6", "srv4"} -> "g_srvMq"
                [] s = "v1" -> "g_srvV1Mq"

Rank(s) == CASE s = "cli6" -> 1 [] s = "cli4" -> 2 [] s = "srv6" -> 3 [] s = "srv4" -> 4
             [] s = "v1" -> 5

\* To the top of the loop, where rfds is cleared.
StartOver == pc' = "flag" /\ sec' = "cli6" /\ ready' = {}

\* To the first of the sections S whose socket is in rfds; the others are passed
\* over.  Without one the loop starts over.
Enter(S) ==
  IF S \cap ready = {} THEN StartOver
  ELSE /\ pc' = "read" /\ UNCHANGED ready
       /\ sec' = CHOOSE s \in S \cap ready : \A t \in S \cap ready : Rank(s) <= Rank(t)
Proceed(s) == Enter({t \in Sections : Rank(t) > Rank(s)})
JumpBack == Enter({"srv6", "srv4", "v1"})
AfterDrop(s) == IF s \in {"srv4", "v1"} THEN StartOver ELSE Proceed(s)

-----------------------------------------------------------------------------
(* The recv thread. *)

UnchangedByRecv ==
  UNCHANGED <<what, over, run, hand, wpc, lan, proxy, turns>>

CheckFlag ==
  /\ pc = "flag"
  /\ pc' = IF over THEN "done" ELSE "select"
  /\ UnchangedByRecv
  /\ UNCHANGED <<sock, sec, ready, buf, queue, node, payload, faults, histVars>>

\* select returns with the sockets that can be read, or after its timeout.
Select ==
  /\ pc = "select"
  /\ LET S == {s \in Role : sock[s] # <<>>} IN
       IF S = {} THEN StartOver
       ELSE /\ pc' = "read" /\ ready' = S
            /\ sec' = CHOOSE s \in S : \A t \in S : Rank(s) <= Rank(t)
  /\ UnchangedByRecv
  /\ UNCHANGED <<sock, buf, queue, node, payload, faults, histVars>>

\* MUTANT: recvmsg without MSG_DONTWAIT waits for a message.
Receive_Blocks ==
  /\ pc = "read"
  /\ sock[sec] # <<>>
  /\ buf' = Head(sock[sec]) /\ sock' = [sock EXCEPT ![sec] = Tail(@)]
  /\ pc' = "check"
  /\ UnchangedByRecv
  /\ UNCHANGED <<sec, ready, queue, node, payload, faults, histVars>>

\* recvmsg, which does not wait: after a jump back nothing may be there.
Receive ==
  /\ pc = "read"
  /\ IF sock[sec] = <<>> THEN buf' = 0 /\ UNCHANGED sock
     ELSE buf' = Head(sock[sec]) /\ sock' = [sock EXCEPT ![sec] = Tail(@)]
  /\ pc' = "check"
  /\ UnchangedByRecv
  /\ UNCHANGED <<sec, ready, queue, node, payload, faults, histVars>>

InBuf == IF buf > 0 THEN {buf} ELSE {}

\* MUTANT: the section srv4 does not test the run state.
CheckHalt_NotInSrv4 ==
  /\ pc = "check"
  /\ IF run \/ sec = "srv4" THEN pc' = "accept" /\ UNCHANGED <<sec, ready, buf, gone, lost>>
     ELSE /\ AfterDrop(sec) /\ buf' = 0
          /\ gone' = gone \cup InBuf /\ lost' = lost \cup InBuf
  /\ UnchangedByRecv
  /\ UNCHANGED <<sock, queue, node, payload, faults, leaked, sneaked>>

\* A halted daemon drops what it has read.
CheckHalt ==
  /\ pc = "check"
  /\ IF run THEN pc' = "accept" /\ UNCHANGED <<sec, ready, buf, gone, lost>>
     ELSE /\ AfterDrop(sec) /\ buf' = 0
          /\ gone' = gone \cup InBuf /\ lost' = lost \cup InBuf
  /\ UnchangedByRecv
  /\ UNCHANGED <<sock, queue, node, payload, faults, leaked, sneaked>>

\* Nothing, or less than a header, was read.
TooShort == buf = 0 \/ (buf > 0 /\ ~what[buf].msg.whole)
Passes == buf > 0 /\ PreFilter(what[buf].msg) \in Wanted(sec)

Short ==
  /\ pc = "accept" /\ TooShort
  /\ Proceed(sec) /\ buf' = 0 /\ gone' = gone \cup InBuf
  /\ UnchangedByRecv
  /\ UNCHANGED <<sock, queue, node, payload, faults, lost, leaked, sneaked>>

\* The filter does not let the message pass.
Refuse ==
  /\ pc = "accept" /\ ~TooShort /\ ~Passes
  /\ IF sec = "v1" THEN JumpBack ELSE Proceed(sec)
  /\ buf' = 0 /\ gone' = gone \cup InBuf
  /\ UnchangedByRecv
  /\ UNCHANGED <<sock, queue, node, payload, faults, lost, leaked, sneaked>>

\* malloc gives no payload, or no node, in which case the payload is freed.
NoMemory ==
  /\ pc = "accept" /\ ~TooShort /\ Passes /\ faults < MaxFaults
  /\ faults' = faults + 1
  /\ AfterDrop(sec) /\ buf' = 0
  /\ gone' = gone \cup InBuf /\ lost' = lost \cup InBuf
  /\ UnchangedByRecv
  /\ UNCHANGED <<sock, queue, node, payload, leaked, sneaked>>

Allocate ==
  /\ pc = "accept" /\ ~TooShort /\ Passes
  /\ node' = node \cup {buf} /\ payload' = payload \cup {buf}
  /\ pc' = "insert"
  /\ UnchangedByRecv
  /\ UNCHANGED <<sock, sec, ready, buf, queue, faults, histVars>>

Insert ==
  /\ pc = "insert"
  /\ queue' = [queue EXCEPT ![QueueOf(sec)] = Append(@, buf)]
  /\ sneaked' = IF run THEN 0 ELSE sneaked + 1
  /\ Proceed(sec) /\ buf' = 0
  /\ UnchangedByRecv
  /\ UNCHANGED <<sock, node, payload, faults, gone, lost, leaked>>

\* The queue does not take it: the node is freed, its payload is not.
InsertFails ==
  /\ pc = "insert" /\ faults < MaxFaults
  /\ faults' = faults + 1
  /\ node' = node \ {buf}
  /\ gone' = gone \cup {buf} /\ lost' = lost \cup {buf} /\ leaked' = leaked \cup {buf}
  /\ Proceed(sec) /\ buf' = 0
  /\ UnchangedByRecv
  /\ UNCHANGED <<sock, queue, payload, sneaked>>

Recv == CheckFlag \/ Select \/ Receive \/ CheckHalt \/ Short \/ Refuse
        \/ NoMemory \/ Allocate \/ Insert \/ InsertFails

-----------------------------------------------------------------------------
(* The workers: ddp_thread_proc_process, ..._srv_process, ..._srvV1_process. *)

UnchangedByWork ==
  UNCHANGED <<sock, what, recvVars, over, run, faults, turns, lost, leaked, sneaked>>

\* The flag and the queue are looked at.  With an empty queue the worker sleeps.
Remove(q) ==
  /\ wpc[q] = "loop" /\ (over \/ queue[q] # <<>>)
  /\ IF over THEN wpc' = [wpc EXCEPT ![q] = "done"] /\ UNCHANGED <<queue, hand>>
     ELSE /\ hand' = [hand EXCEPT ![q] = Head(queue[q])]
          /\ queue' = [queue EXCEPT ![q] = Tail(@)]
          /\ wpc' = [wpc EXCEPT ![q] = "handle"]
  /\ UnchangedByWork
  /\ UNCHANGED <<node, payload, lan, proxy, gone>>

\* ddp_srv_process_message.  From the WAN: into the LAN, through every
\* interface; the socket is the one for IPv4, which cannot send over IPv6.
\* From the LAN: to the proxy; an answer over IPv6 is not recognised, since
\* the second test of the branch repeats IPV6_RELAY.
ToLan(m) == m.id = "RELAY" /\ m.ver = 4
ToProxy(m) == m.id = "REPLY" /\ m.ver = 4 /\ ProxyType = 4

Handle(q) ==
  /\ wpc[q] = "handle"
  /\ LET i == hand[q]  m == what[i].msg IN
       /\ lan' = IF q = "g_srvMq" /\ ToLan(m) THEN lan \cup ({i} \X Interfaces) ELSE lan
       /\ proxy' = IF q = "g_srvMq" /\ ToProxy(m) THEN proxy \cup {i} ELSE proxy
  /\ wpc' = [wpc EXCEPT ![q] = "free"]
  /\ UnchangedByWork
  /\ UNCHANGED <<queue, hand, node, payload, gone>>

\* MUTANT: only the packet is freed.
Free_KeepsPayload(q) ==
  /\ wpc[q] = "free"
  /\ node' = node \ {hand[q]}
  /\ gone' = gone \cup {hand[q]}
  /\ hand' = [hand EXCEPT ![q] = 0] /\ wpc' = [wpc EXCEPT ![q] = "loop"]
  /\ UnchangedByWork
  /\ UNCHANGED <<queue, lan, proxy, payload>>

\* MUTANT: the worker goes on holding the packet it has freed.
Free_KeepsHand(q) ==
  /\ wpc[q] = "free"
  /\ payload' = payload \ {hand[q]} /\ node' = node \ {hand[q]}
  /\ gone' = gone \cup {hand[q]}
  /\ wpc' = [wpc EXCEPT ![q] = "loop"]
  /\ UnchangedByWork
  /\ UNCHANGED <<queue, hand, lan, proxy>>

Free(q) ==
  /\ wpc[q] = "free"
  /\ payload' = payload \ {hand[q]} /\ node' = node \ {hand[q]}
  /\ gone' = gone \cup {hand[q]}
  /\ hand' = [hand EXCEPT ![q] = 0] /\ wpc' = [wpc EXCEPT ![q] = "loop"]
  /\ UnchangedByWork
  /\ UNCHANGED <<queue, lan, proxy>>

Worker(q) == Remove(q) \/ Handle(q) \/ Free(q)

-----------------------------------------------------------------------------
(* Outside. *)

UnchangedByOthers ==
  UNCHANGED <<recvVars, queue, workVars, node, payload, faults, gone, lost, leaked>>

Arrive(c) ==
  /\ Len(what) < MaxArrivals
  /\ what' = Append(what, c)
  /\ sock' = [sock EXCEPT ![c.sock] = Append(@, Len(what'))]
  /\ UnchangedByOthers
  /\ UNCHANGED <<over, run, turns, sneaked>>

\* One more message of the kind that the filter refuses, on the socket of v1.
FloodMore ==
  /\ "v1" \in Role /\ \A k \in DOMAIN sock["v1"] : sock["v1"][k] # -1
  /\ sock' = [sock EXCEPT !["v1"] = Append(@, -1)]
  /\ UnchangedByOthers
  /\ UNCHANGED <<what, over, run, turns, sneaked>>

\* DDP_OVER_SIG is raised.
Terminate ==
  /\ ~over /\ over' = TRUE
  /\ UnchangedByOthers
  /\ UNCHANGED <<sock, what, run, turns, sneaked>>

\* ddp_run_state: the commands e and d of the shell.
Turn ==
  /\ turns < MaxTurns /\ turns' = turns + 1
  /\ run' = ~run /\ sneaked' = 0
  /\ UnchangedByOthers
  /\ UNCHANGED <<sock, what, over>>

Next == \/ Recv
        \/ \E q \in Queues : Worker(q)
        \/ \E c \in Menu : Arrive(c)
        \/ FloodMore \/ Terminate \/ Turn

\* The threads run.
Fairness == WF_vars(Recv) /\ \A q \in Queues : WF_vars(Worker(q))

Spec == Init /\ [][Next]_vars
FairSpec == Spec /\ Fairness

-----------------------------------------------------------------------------
(* Properties. *)

TypeOK ==
  /\ what \in Seq(Arrival) /\ Len(what) <= MaxArrivals
  /\ sock \in [Sections -> Seq(Ids \cup {-1})]
  /\ pc \in {"flag", "select", "read", "check", "accept", "insert", "done"} /\ sec \in Sections
  /\ pc \in {"flag", "select", "done"} => sec = "cli6"
  /\ ready \subseteq Role
  /\ buf \in Ids \cup {0, -1} /\ (pc \notin {"check", "accept", "insert"} => buf = 0)
  /\ pc = "insert" => buf \in Ids
  /\ over \in BOOLEAN /\ run \in BOOLEAN
  /\ queue \in [Queues -> Seq(Ids)]
  /\ hand \in [Queues -> Ids \cup {0}]
  /\ wpc \in [Queues -> {"loop", "handle", "free", "done"}]
  /\ \A q \in Queues : wpc[q] \in {"handle", "free"} <=> hand[q] # 0
  /\ node \subseteq Ids /\ payload \subseteq Ids
  /\ lan \subseteq Ids \X Interfaces /\ proxy \subseteq Ids
  /\ faults \in 0..MaxFaults /\ turns \in 0..MaxTurns /\ sneaked \in Nat
  /\ gone \subseteq Ids /\ lost \subseteq gone /\ leaked \subseteq lost

\* The messages that some part of the daemon holds, allocated.
InQueue(q) == {queue[q][k] : k \in DOMAIN queue[q]}
InHand(q) == {hand[q]} \ {0}
Held == (IF pc = "insert" THEN {buf} ELSE {})
        \cup UNION {InQueue(q) \cup InHand(q) : q \in Queues}

\* The memory of the messages that pass between the threads without a lock on
\* them is accounted for: what a queue or a thread holds is allocated, node and
\* payload, and nothing else is, but the payloads of messages that a queue did
\* not take (ddp_thread.c:308-315, 655-663).
Accounted ==
  /\ node = Held
  /\ Held \subseteq payload
  /\ payload \ Held = leaked

\* A halted daemon takes nothing new: after it was halted at most one message,
\* which the recv thread had looked at before, goes into a queue
\* (ddp_thread.c:253, 480, 555).
HaltStops == run \/ sneaked <= 1

\* Message i has been read, and dropped or handled; a relay request that the
\* server took has gone into the LAN through every interface, an answer to the proxy.
ForServer(i) == what[i].sock \in {"srv4", "srv6"} /\ i \notin lost /\ what[i].msg.whole
Settled(i) ==
  /\ i \in gone
  /\ ForServer(i) /\ ToLan(what[i].msg) => {i} \X Interfaces \subseteq lan
  /\ ForServer(i) /\ ToProxy(what[i].msg) => i \in proxy
Waits(i) == \E s \in Role : \E k \in DOMAIN sock[s] : sock[s][k] = i

\* The daemon answers: a message on a socket is read, and dropped or handled,
\* and a request to stop ends the loops of the recv thread and of the workers,
\* unless messages that the srv_v1 section refuses keep coming for ever, each
\* of which jumps past the select and the test for the end
\* (ddp_thread.c:194, 570-573).
Responsive ==
  \/ []<><<Refuse /\ sec = "v1">>_vars
  \/ /\ \A i \in Ids : Waits(i) ~> (Settled(i) \/ over)
     /\ over ~> (pc = "done" /\ \A q \in Queues : wpc[q] = "done")
=============================================================================
