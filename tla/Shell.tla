------------------------------- MODULE Shell -------------------------------
(***************************************************************************)
(* The shell of the daemon (ddp_shell.c), its command line client          *)
(* (ddp_command.c) and the srv_v1 worker (ddp_srvv1_proto*.c).  The shell  *)
(* thread reads a command from a Unix socket into msg_buf, writes the      *)
(* answer into the same buffer and sends it.  For the command s it asks    *)
(* the nodes of the LAN who they are and sleeps; meanwhile the srv_v1      *)
(* thread appends their answers to msg_buf.  Nothing locks the buffer.     *)
(*                                                                         *)
(* The buffer is modelled as the sequence of the texts in it.  The srv_v1  *)
(* thread appends in two steps, after looking for the end of the text and  *)
(* after copying.  When the shell thread has changed the buffer in between,*)
(* what comes out is one of several mixtures; a "scrap" is a part of a     *)
(* text.                                                                   *)
(***************************************************************************)
EXTENDS Integers, Sequences, FiniteSets

CONSTANTS
  Bits,         \* the bits of the threads that are set in g_iLoop
  Room,         \* MSG_BUFFER_LENGTH, in texts, which are all of one length
  Menu,         \* the messages that may reach the srv_v1 thread
  MaxCommands,  \* bound: commands the clients send
  MaxAnswers    \* bound: messages that reach the srv_v1 thread

\* The operations that ddp_srvv1_proto_process_message knows, and others.
Kinds == {"DISCOVERY", "SET_BASIC_INFO", "USER_VERIFY", "CHANGE_ID_PSW", "OTHER"}

ASSUME ShellAssumption ==
  /\ Menu \subseteq [kind : Kinds, known : BOOLEAN]
  /\ Bits \subseteq 0..4
  /\ Room \in Nat \ {0} /\ MaxCommands \in Nat /\ MaxAnswers \in Nat

\* "s n" is the discovery with a time; "x" is no command.
Commands == {"e", "d", "v", "s", "s n", "b", "x"}

VARIABLES
  inbox,    \* the Unix socket: numbers of the commands that wait
  command,  \* command[c]: command c
  buf,      \* msg_buf
  pc,       \* where the shell thread is
  cur,      \* the command it has received, by number
  branch,   \* the command it takes it for
  run,      \* the run state, TRUE for RUN
  asked,    \* a discovery has been sent
  over,     \* DDP_OVER_SIG
  answers,  \* g_srvV1Mq: the answers the srv_v1 thread has to handle
  coming,   \* how many answers have come
  add,      \* the text that the srv_v1 thread is appending, or 0
  moved,    \* history: the shell thread has changed the buffer since add looked for its end
  since,    \* history: answers with a text handled since the shell cleared the buffer for
            \* a reply, written or dropped, but for one whose append was then under way
  replies   \* history: the replies sent

vars == <<inbox, command, buf, pc, cur, branch, run, asked, over, answers, coming, add,
          moved, since, replies>>

\* Texts: what the shell writes, the commands, and the answers by their numbers.
Own == [e |-> -1, d |-> -2, v |-> -3, x |-> -4]
Scrap == -9
CmdText(c) == -20 - c

Init ==
  /\ inbox = <<>> /\ command = <<>> /\ buf = <<>> /\ pc = "top" /\ cur = 0 /\ branch = "x"
  /\ run = TRUE /\ asked = FALSE /\ over = FALSE
  /\ answers = <<>> /\ coming = 0 /\ add = 0 /\ moved = FALSE
  /\ since = <<>> /\ replies = <<>>

-----------------------------------------------------------------------------
(* The shell thread. *)

UnchangedByShell == UNCHANGED <<command, over, answers, coming, add>>

\* The shell thread writes the buffer.
Write(b) == buf' = b /\ moved' = (add # 0)

\* The end of the loop, or msg_buf is cleared.
Top ==
  /\ pc = "top"
  /\ IF over THEN pc' = "done" /\ UNCHANGED <<buf, moved>> ELSE pc' = "read" /\ Write(<<>>)
  /\ UnchangedByShell
  /\ UNCHANGED <<inbox, cur, branch, run, asked, since, replies>>

\* recvfrom, which does not wait: without a command the thread sleeps a second.
\* The command is written over the front of the buffer.
Read ==
  /\ pc = "read"
  /\ IF inbox = <<>> THEN pc' = "top" /\ UNCHANGED <<inbox, cur, buf, moved>>
     ELSE /\ cur' = Head(inbox) /\ inbox' = Tail(inbox) /\ pc' = "parse"
          /\ Write(IF buf = <<>> THEN <<CmdText(Head(inbox))>>
                   ELSE <<CmdText(Head(inbox)), Scrap>>)
  /\ UnchangedByShell
  /\ UNCHANGED <<branch, run, asked, since, replies>>

\* strcmp compares the whole buffer, strncmp only its first two characters.  An
\* answer written over the command makes it another text, which is no command.
Understood ==
  IF command[cur] = "s n" THEN buf # <<>> /\ buf[1] = CmdText(cur)
  ELSE command[cur] # "x" /\ buf = <<CmdText(cur)>>

\* What the command is taken for; one that is being written over may be lost.
Parsed == {IF Understood THEN command[cur] ELSE "x"} \cup (IF add # 0 THEN {"x"} ELSE {})

\* The command is recognised and the buffer cleared for the answer.
Parse ==
  /\ pc = "parse"
  /\ pc' \in Parsed /\ branch' = pc'
  /\ Write(<<>>)
  /\ since' = <<>>
  /\ UnchangedByShell
  /\ UNCHANGED <<inbox, cur, run, asked, replies>>

\* e, d, v and everything else: strcpy writes the answer into the buffer.
Act ==
  /\ pc \in DOMAIN Own
  /\ run' = IF pc = "e" THEN TRUE ELSE IF pc = "d" THEN FALSE ELSE run
  /\ Write(<<Own[pc]>>)
  /\ pc' = "reply"
  /\ UnchangedByShell
  /\ UNCHANGED <<inbox, cur, branch, asked, since, replies>>

\* The bits 0x16 are meant for srv_v1, and belong to three more threads.
SomeWaitBit == Bits \cap {1, 2, 4} # {}

\* s asks the nodes; b asks for something else.
Ask ==
  /\ pc \in {"s", "s n", "b"}
  /\ asked' = TRUE
  /\ pc' = IF pc # "b" /\ SomeWaitBit THEN "wait" ELSE "reply"
  /\ UnchangedByShell
  /\ UNCHANGED <<inbox, cur, branch, buf, run, moved, since, replies>>

\* The time is over: the one given, or 30 seconds.
Wake ==
  /\ pc = "wait" /\ pc' = "reply"
  /\ UnchangedByShell
  /\ UNCHANGED <<inbox, cur, branch, buf, run, asked, moved, since, replies>>

\* MUTANT: without an answer no reply is sent.
Reply_OnlyText ==
  /\ pc = "reply" /\ pc' = "top"
  /\ replies' = IF buf = <<>> THEN replies
                ELSE Append(replies, [cmd |-> cur, as |-> branch, text |-> buf, since |-> since])
  /\ UnchangedByShell
  /\ UNCHANGED <<inbox, cur, branch, buf, run, asked, moved, since>>

\* What the buffer holds is sent, with a part of the text that is being appended.
Reply ==
  /\ pc = "reply" /\ pc' = "top"
  /\ \E b \in {buf} \cup (IF add # 0 THEN {Append(buf, Scrap)} ELSE {})
               \cup (IF add # 0 /\ moved THEN {<<Scrap>>} ELSE {}) :
       replies' = Append(replies, [cmd |-> cur, as |-> branch, text |-> b, since |-> since])
  /\ UnchangedByShell
  /\ UNCHANGED <<inbox, cur, branch, buf, run, asked, moved, since>>

ShellThread == Top \/ Read \/ Parse \/ Act \/ Ask \/ Wake \/ Reply

-----------------------------------------------------------------------------
(* The srv_v1 thread. *)

UnchangedBySrvV1 == UNCHANGED <<inbox, command, pc, cur, branch, run, asked, over, coming, replies>>

\* Only an answer to DISCOVERY has a text for the shell, and only if the
\* interface it came through is known.
HasText(m) == m.kind = "DISCOVERY" /\ m.known

\* MUTANT: an answer is appended whether there is room or not.
Dispatch_NoRoom ==
  /\ answers # <<>> /\ add = 0
  /\ answers' = Tail(answers)
  /\ add' = IF HasText(Head(answers)) THEN Head(answers).nr ELSE 0
  /\ moved' = FALSE
  /\ UnchangedBySrvV1
  /\ UNCHANGED <<buf, since>>

\* ddp_srvv1_proto_process_message: a text for which there is no room is left out.
Dispatch ==
  /\ answers # <<>> /\ add = 0
  /\ answers' = Tail(answers)
  /\ LET m == Head(answers)
         fits == Room - Len(buf) >= 1
     IN  /\ add' = IF HasText(m) /\ fits THEN m.nr ELSE 0
         /\ since' = IF HasText(m) /\ ~fits THEN Append(since, m.nr) ELSE since
  /\ moved' = FALSE
  /\ UnchangedBySrvV1
  /\ UNCHANGED buf

\* MUTANT: the answer is copied into the buffer instead of appended.
Append_Copies ==
  /\ add # 0 /\ add' = 0
  /\ buf' = <<add>>
  /\ since' = IF moved THEN since ELSE Append(since, add)
  /\ UnchangedBySrvV1
  /\ UNCHANGED <<answers, moved>>

\* The text stands at the end that was found.  If that is not the end any more
\* it may be hidden behind a zero, stand over what was written since, or be cut.
AppendText ==
  /\ add # 0 /\ add' = 0
  /\ IF moved THEN /\ buf' \in {buf, Append(buf, add), <<add>>, Append(buf, Scrap), <<Scrap>>}
                   /\ UNCHANGED since
     ELSE buf' = Append(buf, add) /\ since' = Append(since, add)
  /\ UnchangedBySrvV1
  /\ UNCHANGED <<answers, moved>>

SrvV1Thread == Dispatch \/ AppendText

-----------------------------------------------------------------------------
(* Outside. *)

\* ddp_command: a client sends its command and waits.
Send(c) ==
  /\ Len(command) < MaxCommands
  /\ command' = Append(command, c)
  /\ inbox' = Append(inbox, Len(command'))
  /\ UNCHANGED <<buf, pc, cur, branch, run, asked, over, answers, coming, add, moved, since, replies>>

\* A node answers, soon, late or more than once; a halted daemon takes nothing
\* from its sockets (Receiver).
Answer(m) ==
  /\ asked /\ run /\ coming < MaxAnswers
  /\ coming' = coming + 1
  /\ answers' = Append(answers, [kind |-> m.kind, known |-> m.known, nr |-> coming'])
  /\ UNCHANGED <<inbox, command, buf, pc, cur, branch, run, asked, over, add, moved, since, replies>>

Terminate ==
  /\ ~over /\ over' = TRUE
  /\ UNCHANGED <<inbox, command, buf, pc, cur, branch, run, asked, answers, coming, add, moved,
                 since, replies>>

Next == \/ ShellThread \/ SrvV1Thread \/ Terminate
        \/ \E c \in Commands : Send(c)
        \/ \E m \in Menu : Answer(m)

\* Both threads run; the sleep of the shell ends.
Fairness == WF_vars(ShellThread) /\ WF_vars(SrvV1Thread)

Spec == Init /\ [][Next]_vars
FairSpec == Spec /\ Fairness

-----------------------------------------------------------------------------
(* Properties. *)

TypeOK ==
  /\ command \in Seq(Commands) /\ Len(command) <= MaxCommands
  /\ \A k \in DOMAIN inbox : inbox[k] \in DOMAIN command
  /\ \A k \in DOMAIN inbox : k > 1 => inbox[k - 1] < inbox[k]
  /\ pc \in {"top", "read", "parse", "wait", "reply", "done"} \cup Commands
  /\ cur \in 0..Len(command) /\ (pc \in {"parse", "wait", "reply"} \cup Commands => cur # 0)
  /\ branch \in Commands /\ run \in BOOLEAN /\ asked \in BOOLEAN /\ over \in BOOLEAN /\ moved \in BOOLEAN
  /\ coming \in 0..MaxAnswers /\ add \in 0..coming
  /\ Len(buf) <= Room + 1
  /\ \A k \in DOMAIN replies : replies[k].cmd \in DOMAIN command

\* A discovery is answered with what came in its time: the reply to s has the
\* answers of the nodes that were handled while it waited, in their order, up to
\* the first for which there was no room, and none is left out of a buffer with
\* room.  Besides them there is at most one text before, from an answer that was
\* being appended when the buffer was cleared (that one may be lost, too), and one
\* part of a text after, from one that is being appended (ddp_shell.c:98-113, 174-201).
WaitAnswers ==
  \A k \in DOMAIN replies :
    LET r == replies[k] IN
      r.as \in {"s", "s n"} =>
        \E p \in {0, 1}, n \in 0..Len(r.since) :
          /\ Len(r.text) - (p + n) \in {0, 1}
          /\ SubSeq(r.text, p + 1, p + n) = SubSeq(r.since, 1, n)
          /\ n < Len(r.since) => p + n >= Room

\* Every command gets one reply, in the order of the commands, unless the daemon
\* is told to stop; the client waits for it without a limit
\* (ddp_shell.c:145-203, ddp_command.c:95).
EachAnswered ==
  \A c \in 1..MaxCommands :
    Len(command) >= c ~> (over \/ (Len(replies) >= c /\ replies[c].cmd = c))
=============================================================================
