# LANDAP in TLA+

LANDAP (`src/src/engine`) is a device discovery and configuration daemon for
embedded network devices: it answers UDP requests on the LAN (discovery,
addresses, names, reboot, reset, factory reset, firmware upgrade, neighbours of
a switch), sends periodic general reports, relays requests of a proxy into the
LAN, and has a local command shell. This directory is a verification project of
that daemon: TLA+ modules translated from the C source, TLC runs of them on
small instances, and TLAPS proofs of what matters most for every instance.

Run, in this directory: `tlc -config X.cfg MCModule.tla` for a run listed in
PROJECT.json, `tlapm M_proofs.tla` for the proofs of module M.

## 1. The system

A process has a main thread, a *recv* thread, and the children the recv thread
creates: *proc* (client role), *srv* (server role), *srvV1* (server v1 role),
*shell*, *alrm*. They share the flag word `g_iLoop`, message queues, the alarm
queue, `g_upgradeFlag` and `g_tftpInfo`, the neighbour database, and `msg_buf`.

| component (sources) | state | operations | talks to |
|---|---|---|---|
| message queue (`ts_queue.c`) | mutex, linked list, length, bound | create, insert, remove, set_length | recv, alarm thread and report handler insert; proc, srv, srvV1 remove |
| alarm queue (`ddp_alrm_queue.c`) | one slot per delayable opcode: state, interval, message | init, add, countdown, up, delete, thread | proc adds; the alarm thread counts down and inserts into `g_mq` |
| daemon start and stop (`ddp.c`, loops of `ddp_thread.c`) | `g_iLoop`, threads, sockets | ddp_entrance, thread entries and exits, wait | every thread |
| signal handlers, report timer (`ddp.c`) | `g_reportTimer`, `g_loopMutex` | ddp_signal_handler, ddp_terminate, ddp_report_timer_handler | interrupt a thread; insert into `g_mq` |
| upgrade, backup, restore (`ddp_proto_upgrade.c`, `tftp_cli.c`) | `g_upgradeFlag`, `g_tftpInfo` | CONFIG, QUERY, tftp thread | proc, a detached thread, the main thread at the exit |
| neighbour database (`ddp_proto_switch.c`, part of `ddp_proto_basic.c`) | a doubly linked list per port | record a report, age, purge, QUERY NEIGHBOR | proc only |
| receive thread and filter (`ddp_thread.c`) | five sockets, HALT state, packets | receive, filter, wrap, insert | queues |
| relay server (`ddp_srv.c`, its thread in `ddp_thread.c`) | proxy address, interfaces | relay a request into the LAN, an answer to the proxy | `g_srvMq`, sockets |
| dispatch and handlers (`ddp_proto.c`, `ddp_proto_basic.c`, `ddp_proto_opt.c`, `ddp_proto_ap.c`) | opcode table, authentication switches | one handler per opcode, each with its reply | platform, alarm queue |
| server v1 and shell (`ddp_srvv1_proto*.c`, `ddp_shell.c`, `ddp_command.c`) | `msg_buf`, enabled and halted states | commands, discovery, answer | each other, without a lock |
| switch configuration (`ddp_proto_switch.c`, `vclient/ddp_platform_switch.c`) | VLAN and ASV tables, MAC table | set and get, staged and committed | proc, platform |
| platform (`vclient/ddp_platform.c`, `vclient/ddp_platform_ap.c`) | `pf_*` variables, configuration files | get, set | files, the operating system |
| packing, base64, printing (`util.c`, ...) | none | pure functions | |
| unit tests and build | | | |

What is hard here: up to four threads on one unlocked or briefly locked object;
values read under one lock and used under the next (alarm that is up, upgrade
flag); handlers that run on top of the thread they interrupt and take its
mutexes; pieces initialised by a thread that starts after its first user; an
exit that waits for bits several threads share; pointer surgery in lists; lists,
replies and counters at their limit; files rewritten in steps that a full disk,
another program or the end of the process interrupts; failing steps that do not
give back what they hold. PROJECT.json lists them under "hazards", each at its line.

What makes each component correct:

* queue: indivisible FIFO; refuses only at its bound; no node in two hands.
* alarm queue: a message has one owner; an accepted alarm goes off, at the time
  asked for, once, and its message reaches `g_mq` while there is memory.
* start and stop: a stop request is never lost; every thread ends; what is freed
  at the end is used by nobody; the process ends.
* handlers: mutexes are taken in one order; the stop ends the process.
* upgrade: one transfer at a time, its description stable, its status the one that
  was recorded for the last transfer (a command that was killed counts as a
  success there), the flag given back; exit waits for it.
* neighbours: lists well formed, each neighbour listed once, ports bounded, a
  record lives for a known number of the switch's own reports.
* receive thread and relay: packets and payloads have one owner and are freed
  once; a halted daemon takes nothing new; every message is handled, and what is
  to be relayed reaches the LAN or the proxy.
* requests and platform: a setting the platform keeps that was answered with
  success reads back; files stay whole; a delayed request that was accepted is
  executed; long answers are complete.
* shell: a discovery is answered with what came while it waited, as far as there
  is room; each command gets its reply.
* switch configuration: a VLAN is stored where its id says; what is acknowledged
  reads back; the MAC table is a set.

## 2. Plan

In order of how much of the daemon rests on them:

1. `MsgQueue` implementing `FifoQueue`. **done, proved**
2. `AlarmQueue`, which takes the queue as the sequence `FifoQueue` promises. **done, proved**
3. `Lifecycle`. **done, safety proved**
4. `Upgrade`. **done, safety proved**
5. `NeighbDB` implementing `NeighbTable`; `NeighbLife`, the table with its history.
   **done, all proved**
6. `Signals`. **done; the order of the mutexes proved**
7. `Platform`, and `Requests` on top of it, with the delay of restarts by the
   interface of AlarmQueue (slots and `mq`). **done, safety proved**
8. `Receiver`: the sections of the recv thread, the workers and the relay. **done, safety proved**
9. `Shell`: `msg_buf` between the shell and the srv_v1 thread. **done, safety proved**
10. `Switch` implementing `MacSet`. **done, proved**

How they compose: `Requests` EXTENDS `Platform` and interleaves its handlers with
the steps of the setters; `Receiver` fills the queues that `Requests` (proc) and
`Shell` (srv_v1) take their messages from, which those two have as a message
that may come at any time; `Requests` and `AlarmQueue` meet at the slot of a
delayed opcode and at `mq`; `MsgQueue` shows that a queue may be taken for a
sequence, as all of them do.

## 3. The modules

**FifoQueue / MsgQueue** (`ts_queue.c`, `msg_queue.c`). `FifoQueue` is the
promise: a sequence `queue` with a bound `limit`; an insert appends, or is refused
when the queue is full or memory is short, a remove takes the oldest message or
finds none, each at one instant between its call and its return. `MsgQueue` is
the code: `pc[t]` is where thread t is in an insert or a remove, with one action
for the allocation, the lock, each update of `head`, `next`, `tail` and
`cur_length` under the mutex, the unlock and the return. `allocated` are the
nodes malloc gave out; an insert the bound refuses does not free its node, as in
the code. `chain` is history: the nodes that are linked, in order; `ListShape`
says the pointers agree with it, and the refinement maps it to `queue`.
`msg_queue_set_length` takes no lock and is called before the queue is used, so
SetLength needs every thread idle.

**AlarmQueue** (`ddp_alrm_queue.c`, `create_delay_msg` of `util.c`). Slots with
`state`, `interval`, `msg`; the proc thread's add under the lock in steps (free
the old message, set the new one); the alarm thread's initialisation (without
the lock), countdown, up, insertion into `mq`, cleanup (without the lock).
The insertion may find no memory: its result is ignored in the code, and the
message goes to the history variable `lost`. An add that replaces an alarm frees
the message of the old one and not its payload; payloads are not in this model.
`ddp_alrm_queue_delete` has no caller. Critical sections of the alarm thread are
single steps: everything that touches the slots takes the lock, except the two
phases that are modelled in small steps because they do not.

**Lifecycle** (`ddp.c`, the thread loops). `g_iLoop` as a set of bits, written by
each thread in two steps (read, write back) because the code does so without the
mutex; the recv thread creates the children, raises its bit, loops, waits for the
bits, and ends; the main thread joins it and frees the queues.

**Signals** (`ddp.c`). A thread is a stack of activities: its own code at the
bottom, the handlers that interrupted it on top. A handler masks its own signal
only, as `signal()` does, so that one may run on top of the other. `Targets` are
the threads a signal may be delivered to: a signal sent to the process may go to
any thread that does not mask it, and none here does, although Linux prefers the
main thread. A handler that interrupts code which holds a mutex it needs waits
for its own thread; the model has that state and goes on with the others.

**Upgrade** (`ddp_proto_upgrade.c`, `tftp_cli.c` as built with USE_SYS_TFTP).
The handler in its steps (test flag, clear `g_tftpInfo`, take the flag, fill,
create the thread), the detached thread (starts, UNDER_PROCESS, command, status,
give back), QUERY at any point, the exit of the main thread. A system command
ends in success, failure, or is killed by the handlers that kill it. Other
requests of the proc thread are stutters here.

**NeighbTable / NeighbDB** (`ddp_proto_switch.c`, `ddp_proto_basic.c`). Only the
proc thread uses the database, so a handler is one action; the pointer work
inside it is a composition of operators on the record `db` of C objects (`first`,
`tail`, `total`, `pre`, `next`, `mac`, `ttl`, `heap`; `uaf`: the walk stepped on a
freed node; `stale`: the purge compared a node with its argument after it had freed
the node the argument lies in). What is read through that stale pointer is the
value `Zero`: the node was erased before it was freed; an allocator that writes
into freed memory is out of the model. `NeighbTable` is what the lists are for:
which neighbour is on which port with which time to live. `NeighbLife` adds to the
table, as history, where and how many reports of the switch ago each neighbour was
last recorded.

**Platform** (`ddp_platform.c`, `ddp_platform_ap.c`). Where each setting lives: a
variable of the process, a line of a file, the running system. The setters that
rewrite a file are the steps of the record `call`: open both files, copy line by
line, rename, assign the variable; a failed open, a full disk (`short`), another
program that rewrites the file in between, and the end of the process are
actions of their own. `Read` is the getter.

**Requests** (`ddp_proto.c`, `ddp_proto_basic.c`, `ddp_proto_opt.c`,
`ddp_proto_ap.c`). The proc thread takes a message, checks its length and
password in the way the handler of its opcode does (there are three), puts the
settings in `todo` in the order in which they are applied, calls the setter of
each until one fails, and answers. A delayed restart is answered, copied to its
alarm, comes back and is authenticated again. SNMP_GET collects the names of four
lists and sends them in pages; when a list cannot be read, the handler works on
containers that were never set: it sends a shorter answer, or anything (the phase
`wild`, from which it may return, never return, or take the process down). A restart
that is up needs a node of the queue, and is lost without one. `view` is history:
what a client may conclude from the answers it got, about the settings that
`KeptOf` names.

**Receiver** (`ddp_thread.c`, `ddp_srv.c`). One action for each step of a
section: test for the end, select, receive, test of the run state, refusal,
allocation, insertion; `sec` says which of the five sections it is, and
`Proceed`, `JumpBack` and `StartOver` are the three ways out of one. A worker
removes, handles and frees. Messages are numbers, what is in them is in `what`.

**Shell** (`ddp_shell.c`, `ddp_srvv1_proto*.c`, `ddp_command.c`). The buffer is a
sequence of texts; the srv_v1 thread appends in two steps, and what comes out
when the shell thread has written in between is one of several mixtures, also of
a command that was read into it, which then is an unknown command. All texts have
one length. `since` is history: every answer with a text that was handled since
the buffer was cleared, whether there was room for it or not. The discovery handlers that `ddp.h:534` declares are defined nowhere in the
repository; what they ask the LAN is external.

**MacSet / Switch** (`ddp_proto_switch.c`, `ddp_platform_switch.c`). Requests are
single steps: only the proc thread is there. A VLAN is staged field by field; the
number n of fields that were applied before a refusal is chosen, and the staged
VLAN is committed all the same. A 4-byte number is a pair of its first byte and
the rest, because DDP_NTOHL on a byte pointer reads one byte. The MAC table is an
array of slots that `Key`, what strcmp sees of an address, compares; MacSet says
what it is for.

MC modules only name constants. Definitions called `X_Something` marked MUTANT
are wrong versions of X that PROJECT.json lists; they are used by nothing.

## 4. Runs

| run | distinct states | shows |
|---|---|---|
| msgqueue | 116 350 | two threads, three nodes, unlimited or bounded by 1 or 2: list well formed between all its pointer updates, node ownership, nothing leaks while unlimited, implements FifoQueue |
| alarm_queue | 383 499 | two slots, two messages, delays to 2, insertions that fail: one owner or lost, on time unless it replaced another, and what was begun is executed, replaced or lost by a failed insertion |
| alarm_double_free | counterexample | the finding of section 5 |
| lifecycle | 635 248 | server role: the stop sticks, recv outlasts its children, every thread ends |
| signals | 69 977 | three threads that may all be interrupted, nested handlers: the mutexes are taken in one order, and the stop ends the process unless a thread waits for itself |
| upgrade | 577 224 | one transfer at a time, the flag accounted for, status settled, safe exit; transfers end and the daemon exits unless a CONFIG without a file keeps the flag |
| neighb_db | 21 020 | four neighbours, two ports of capacity 2 + 1, three interfaces: lists sound, the ageing walk never on a freed node, implements NeighbTable |
| neighb_table | 11 517 | four neighbours, three interfaces: a record lasts for as many reports as its time to live has sendings, on its port |
| requests | 675 556 | twenty requests of thirteen operations, two at a time, against failing setters, failing memory, another program, a full disk, a changed password and an end of the process: the settings that are kept and were answered with success read back, files stay whole, a promised restart comes unless its insertion fails, SNMP pages of lists that could be read are complete |
| receiver | 640 531 | five sections, three workers, two messages and any number of refused ones: memory accounted for, a halt takes at most one message more, every message is handled, relayed where it is to be, and the stop obeyed |
| shell | 2 500 255 | two commands and four answers on one buffer: a discovery has what came while it waited up to the first text without room, each command its reply |
| switch | 186 504 | three VLANs, two ASV settings, two MAC slots: slots and ids agree, what was acknowledged reads back, the slots implement a set |

### Bounds, and why they are enough

* MsgQueue: an operation touches the first node, the last node and the length;
  with three nodes the list is empty, has one node, two, or three, which are all
  the cases the code tells apart; two threads contend for the mutex, a third
  only waits for it longer (the proofs are for any number). `malloc` fails when
  the nodes run out.
* AlarmQueue: a slot does not look at another one; two slots make the scan of
  the alarm thread have a before and an after. Delay 2 has a countdown that does
  not end. Two messages: one in a slot and one that replaces it, or one in each.
* Lifecycle: no bound; the children are those of the server role. The
  configuration of the default role, which ends in a counterexample, lets the stop
  come only when all threads are up (StopWhenUp), which is what its property
  speaks of.
* Upgrade: two names for detached threads, one more than may live at a time;
  one file path and the empty one.
* NeighbDB: with MaxEntry 2 a port holds three nodes, so that a purge meets a
  first, a middle, a last and an only node, and the fourth neighbour overflows
  it. Four nodes: the report that overflows loses one, after which malloc fails
  when the rest is in use. Two ports for moves, a third interface whose index is
  no port. UpdateTTL 3 = the number of interfaces: one report takes a record
  from fresh to due, the next purges it, so that due and fresh records are mixed
  in one walk.
* NeighbTable, NeighbLife: three interfaces and UpdateTTL 6, so that a record lives
  for two reports, is still listed with no time to live left, and dies in the third. The
  configurations MCNeighbBound and MCNeighbAgeing have the code's UpdateTTL, 2.
* Requests: two requests, because a property relates what one set to what the
  next one does; twenty to choose from, each style of check and of setter among them. One
  failure, one rewrite by another program, one change of the password, one end
  of the process: each may come at any step. NamesMax 2 and PageMax 3 give four
  lists that fill more than one page, pages that end inside a list and pages
  that end with one. A setter that this build never refuses may refuse
  (`Refused`), since other products put their code there.
* Receiver: two numbered messages, so that one may be in a queue while the other
  is read, and refused ones without a bound (at most one waits on the socket of
  v1 at a time); menu: one message that each section takes, and a report, which
  the filter drops. One failure of malloc or of the queue, two changes of the
  run state (halt and run again). IPv6 relay and an IPv6 proxy are in the model
  and not in the menu.
* Shell: a buffer of two texts and four answers overflow it; a third command
  would begin where the second did.
* Switch: ids 1 (there at the start), 7 and 8 (a multiple of 8, and the first of
  the next byte of the list); a VLAN without a name; a refusal of the VLAN tags.
  MAC addresses: two equal to strcmp, one that is the free key, one other. Two
  slots: full with two. The proofs are for any size.
* Signals: one pending instance of each signal, as the kernel keeps it; two
  workers and the main thread, each of which may be interrupted. MaxTicks 3: the
  timer expires three times, enough for a handler before, during and after that of
  SIGUSR1. The model has no time; without a bound the timer would expire for ever
  faster than the interrupted thread goes on, which the period of the timer
  excludes.

### Fairness

* Lifecycle, Upgrade: weak fairness of each thread's step: a runnable thread
  runs. The system command and the tftp thread end: tftp has timeouts, and
  Upgrade assumes the command returns.
* AlarmQueue: as above, strong where a thread must get a mutex that another one
  takes and releases again and again (Countdown, Up), and where it must find
  the queue while others come and go (Execute). A mutex of the C library is not
  fair in theory; the holders here sleep a second per turn, which is why it is
  assumed.
* Signals: strong fairness of each thread, for the same reason, and of delivery:
  a pending signal is delivered when it can be.
* Requests: weak fairness of the proc thread and of each alarm, which AlarmQueue
  shows to go off. Nothing is assumed of a handler in the phase `wild`.
* Receiver: weak fairness of the recv thread and of each worker. Nothing is
  assumed of the network; `Responsive` lets messages that the srv_v1 section
  refuses keep coming for ever, since each makes the recv thread jump past the
  select and the test for the end.
* Shell: weak fairness of both threads; sleep and the discovery end.
* MsgQueue, NeighbDB, Switch: safety only; insert and remove never wait but for a mutex.

Deadlock is checked for the message queue, the neighbour database and the switch
configuration, which never stop; the other models end when the daemon ends, or stop
where the code does (section 5).

## 5. Findings

A run that contradicts a comment of the code (PROJECT.json quotes it):

* The cleanup of the alarm thread, without the lock, and an add, with it, free
  the same message (alarm_double_free).

What else the code does against its comments. Each has a property that TLC finds
violated with the configuration named, which is not among the runs of section 4:

| configuration (module) | property | what the code does |
|---|---|---|
| MCAlarmLost (MCAlarmQueue) | Transferred | ddp_alrm_queue_up empties the slot and ignores that the insertion into `g_mq` fails (ddp_alrm_queue.c:193): the message is leaked, the promised restart never comes |
| MCLifecycleDefault (MCLifecycle) | WaitedForAll | in the default role the end of srvV1 clears the bits of proc and alrm, and the recv thread does not wait for them (ddp.c:839, 961) |
| MCSignalsNested (MCSignals) | ExitsSafely | the handler of SIGUSR1 on top of that of SIGUSR2 waits for the mutex its own thread holds; the process does not exit (ddp.c:278, 1114) |
| MCUpgradeNoFile (MCUpgrade) | ExitsAlways | a CONFIG without a remote file takes the upgrade flag for ever, and the main thread waits for it at the exit (tftp_cli.c:757, ddp.c:1167) |
| MCNeighbStale (MCNeighbDB) | ArgumentLive | the purge of an expired record goes on comparing with the address in the node it has freed (ddp_proto_switch.c:469, 612, 706) |
| MCNeighbBound (MCNeighbTable) | PortBound | a port takes one neighbour more than the limit announced (ddp_proto_switch.c:930-931) |
| MCNeighbAgeing (MCNeighbTable) | PhasedOutAtZero | a report of the switch ages the database once per interface; with more than two interfaces it drops records that are fresh (ddp_proto_basic.c:164, ddp_proto_switch.c:430) |
| MCRequestsNtp (MCRequests) | ResultIsTrue | NTP is not switched off by a request that is answered with success (ddp_proto_opt.c:802) |
| MCRequestsPort (MCRequests) | ResultIsTrue | of the web port the first byte is kept (ddp_platform.c:2131) |
| MCSwitchList (MCSwitch) | ListComplete | an enabled VLAN whose id is a multiple of 8 is not in the list of VLANs (ddp_platform_switch.c:1150) |

What the passing properties leave out, because the code does not give it:

* lifecycle: the run has the server role; WaitIsEnough, as its theorem says, needs
  children without srvV1 (WaitedForAll).
* upgrade: a CONFIG during a transfer is answered with success and dropped; the
  answer "Tftp is running already" is on a branch it does not take
  (ddp_proto_upgrade.c:263, 281). No property says that an accepted CONFIG starts.
* neighb_db: the neighbour reply announces five entries and has room for four
  and a truncated one (ddp_proto_switch.c:244, 405).
* signals: `StopsUnlessStuck` excludes the runs in which a thread waits for itself
  (ExitsSafely; the same happens when a worker is interrupted in `g_loopMutex` or the
  queue). `LockOrder` has no exception.
* alarm_queue: `Running` excludes an alarm added before the alarm thread has
  cleared the queue (`early`; the memset of ddp_alrm_queue.c:245 forgets it), and
  `UnreplacedOnTime` an alarm that replaces another between its countdown and
  `ddp_alrm_queue_up`, which goes off at once. `OneOwner` and `Executed` except the
  messages in `lost` (Transferred).
* lifecycle: `ThreadsStop` speaks of the children. The recv thread may wait for
  ever: two children that end together lose one of the unlocked updates of
  `g_iLoop`, and a bit stays set.
* upgrade: `Exits` excludes the CONFIG without a remote file, whose flag nobody
  gives back (ExitsAlways), and `SettledStatus` speaks of a free flag: a QUERY
  just after a CONFIG is answered SUCCESS, the value 0 the memset leaves.
* neighb_table: `Lifespan` counts the switch's reports since the last recorded one of the neighbour; one from a neighbour that finds
  its port full erases what was known of it.
* requests: `ClientView` promises the settings of `KeptOf`: the DNS servers, a web
  port of one byte set by SET_DEVICE_INFO, NTP switched on and its server, daylight
  saving, the SNMP state, the SSIDs. Not: the system name, IPv4 and IPv6 addresses
  and DHCP, date and time zone, the names of SNMP, which the platform does not
  store or does not read back as they were set; larger ports and the port of
  SET_BASIC_INFO; NTP switched off. `ResultIsTrue` says what is wrong with the last
  ones. A full disk truncates a file and the setter does not
  notice (`short`; `ClientView` and `FileWhole` speak of the other files).
  SET_BASIC_INFO with a wrong length is applied and answered FAIL
  (ddp_proto_basic.c:458): `ClientView` speaks of answers with success.
  `PagesComplete` speaks of answers whose four lists could be read: after a list
  that could not, the containers of the others are used without ever being set
  (ddp_proto_basic.c:1416-1419, 1475-1624), which is undefined. `DelayedRuns`
  excludes a restart whose insertion found no memory (Transferred), whose password
  was changed, which was replaced, or whose memory such an SNMP_GET may have spoilt.
* shell: `WaitAnswers` promises the texts up to the first for which the buffer had
  no room; later ones are dropped (ddp_shell.c:104). One text that was being
  appended when the buffer was cleared may be lost, and one whose append overlaps
  the reply may be there in part. A command that a text overwrites in the buffer is
  answered as unknown.
* receiver: an answer over IPv6 is not recognised, since the test repeats
  IPV6_RELAY (ddp_srv.c:331): `Settled` promises the way to the proxy for answers
  over IPv4. A refused insertion leaks the payload (`leaked`).
* switch: a VLAN is committed after one of its setters has refused it;
  `SettingsReadBack` speaks of requests answered with success, and of VLANs of
  which the tags may be refused: a refused name or id would leave the staged
  VLAN in the slot of the id before. An empty name keeps the name that was staged
  last, perhaps another VLAN's. `SettingsReadBack` says of the list of VLANs what it
  shows, multiples of 8 excepted (ListComplete). ASV id and priority keep their first byte (the model assumes a
  little-endian machine). Addresses are compared by strcmp, which stops at a zero
  byte and runs on past six bytes without one. The reply with port numbers
  repeats the first unit (ddp_platform_switch.c:1700-1724); the one with MAC
  addresses announces a fixed length (ddp_proto_switch.c:2207). That the id of a
  VLAN request is in the array is assumed; the setter does not test it.
* neighb_db: an all-zero address, which is purged along with another one because
  the argument of the purge lies in the node it frees, is not in Macs.

## 6. Proofs

Each `M_proofs` module extends M and TLAPS. The constants are arbitrary, under
the named ASSUMEs of M. The pattern is one: an inductive IInv, Init => IInv, one
lemma or step per action for IInv /\ [Next]_vars => IInv', and PTL.

* **MsgQueue_proofs**: IInv = TypeOK /\ LocalState (what a thread inside an
  operation knows: the node it made, the one it unlinked) /\ MutualExclusion /\
  ListShape /\ NodeOwnership. ListShape alone is not inductive: a pointer update
  keeps the list well formed only if the node is nobody else's, and the length
  and tail are wrong between two updates in a way only LocalState says. Proved:
  types, exclusion, shape, ownership, for any number of threads, nodes, messages
  and any bound, and that MsgQueue implements FifoQueue. HeapAccounted needs one
  invariant more, NodesInUse: while the queue is unlimited, what malloc gave out is
  linked or in the hands of a thread. Its theorem assumes that no bound is lifted
  (BoundedOrNot): a bounded queue has lost the nodes of refused inserts.
  **Upgrade**, the other exclusion of the daemon, in the same module: UpgradeInv =
  UpgradeTypeOK /\ OneTransfer /\ NoOverwrite /\ FlagAccounted /\ Handling /\
  Outcome /\ SettledStatus. FlagAccounted ties the flag to the
  thread or to the request without a file; the others are inductive only with it,
  and it is a theorem of its own (FlagAlwaysAccounted).
* **AlarmQueue_proofs**: IInv = TypeOK /\ Control (who is where, and who holds
  the lock) /\ (Running => Distinct /\ Allocated /\ SlotState /\ UpState).
  Running excludes the two unlocked phases, initialisation before the first add
  and the cleanup, where the findings live: the theorems are about the time in
  between, and `OneOwner` and its fellows say so themselves.
* **Lifecycle_proofs**: IInv = TypeOK /\ Kept (no saved copy of the flag word that
  lacks DDP_OVER_SIG once it was raised with all threads up) /\ BitsKept /\
  WaitIsEnough. Proved for every set of children; WaitIsEnough for those without
  srvV1, whose bits overlap (section 5).
  **Signals**, in the same module: SignalsInv = Stacks /\ LoopHeld. LockOrder looks
  at the top of a stack, and is not inductive: a handler above may return to a place
  that waits for the queue. LoopHeld says of the whole stack of a thread that has
  `g_loopMutex` that one place in it holds the mutex and that above it there are
  only beginnings of handlers: each begins with taking `g_loopMutex` and gets no
  further. For any workers and any targets.
* **Receiver_proofs**: IInv = TypeOK /\ OnePlace /\ Accounted /\ HaltKept. Accounted
  is not inductive: a Free keeps it only if no queue and no other hand has the
  same message. OnePlace says that a message is in one socket, buffer, queue,
  hand or gone, once; two lemmas about sequences (TakeFirst, PutLast) say how a
  step moves it. HaltKept adds to HaltStops where the recv thread is when it has
  taken the one message. For any roles, menus, numbers of messages and failures.
* **Switch_proofs**: IInv = TypeOK /\ SlotsDistinct (two slots with one key are
  free). Without it, freeing the first slot with an address could leave another,
  and Members would not lose the key. RoomIsAFreeSlot relates the count of the
  abstract set to the slots: a function that is injective without duplicates,
  and the pigeonhole theorems of the library. That a first free slot exists is
  the well-foundedness of the naturals. `Key` stays closed: the refinement holds
  for any way of comparing. Proved: types (a VLAN is in the slot of its id, whatever
  is refused) and that Switch implements MacSet. SettingsReadBack rests on
  VlansKept (the slot of an acknowledged request has its fields, and the staged
  VLAN those of the slot of its id) and AsvKept, and on the bytes of the list: the
  masks of the eight ids of one byte are distinct, and that of a multiple of 8 does
  not fit. Its theorem assumes that name and id are not refused.
  **NeighbTable and NeighbLife**, in the same module: OneOverAtMost, that no port
  holds more than MaxEntry + 1 neighbours, bounds how far the violated PortBound is
  off. LifeInv = TableTypeOK /\ HeardTypeOK /\ Lifespan, for any number of
  interfaces; MorePasses has its arithmetic, that one report more is one sending
  more on every interface.
* **Neighb_proofs** (NeighbDB): NeighbInv = Listed /\ Replied, with Listed =
  Holds(db, Lists(db), Known): the lists are linked both ways, first, tail and total
  fit, every node of a list is in use, no two nodes have one address, and each known
  neighbour has its node, on its port with its time to live. ListsSound alone is not
  inductive: two ports might have the same list, and two nodes one address (the
  ageing walk would then go on to a node that its own purge has freed). The lemmas
  are about Holds(d, ch, R) of any database d, any sequences ch and any table R,
  because a handler is a composition of operators that pass through databases no
  state shows. UnlinkIs reduces the five cases of the pointer work to one;
  PurgeHolds, AppendLinked and AppendTells say what a purge and an append do to ch
  and to R. PurgeFromDBIs shows that a purge whose argument is erased on the way
  purges one node: the addresses differ, and none is all zero. VisitWalk is the
  ageing loop: what lies before its place has been aged, it reads the node at its
  place only, and the place after it outlives the purge. ReportHolds is a report on
  every interface, InsertHolds that of a neighbour. The walks are recursive
  functions; that they have a value (RunsExist) and what they keep (Steps) is proved
  by the least counterexample. Proved for any ports, interfaces, memory and
  neighbours under NeighbDBAssumption (finite memory, MaxEntry not 0, no neighbour
  with an all-zero address): types, ListsSound, WalksLive, and that NeighbDB
  implements NeighbTable.
* **Shell_proofs**: IInv = TypeOK /\ Typed /\ Roomy /\ Collects /\ Kept. Roomy: the
  srv_v1 thread tests for room before it appends, so that the shell, which may
  clear or fill the buffer in between, leaves it one text over the end at most.
  Collects, the heart of it, says of a discovery that is still waiting what
  WaitAnswers says of one that is answered: the buffer holds what came since it
  was cleared, up to the first text without room, after one text at most, the one
  that was being appended then.
  Kept keeps that for the replies sent. For any number of commands and answers
  and any size of the buffer.
* **Requests_proofs** (Requests with Platform): IInv = TypeOK /\ Typed /\ Planned
  /\ Progress /\ Lined /\ Apart /\ Seen /\ InCall /\ FileWhole. ClientView says
  nothing of a request that is being handled, so it is not inductive: Planned ties
  the settings still to be applied to the request, Progress says that each of its
  settings is still to be applied or is where the platform keeps it, Apart that no
  earlier conclusion is about them, Lined that a file nobody else has touched has
  the lines the setters replace (without them a setter changes nothing and says
  success), InCall what the call in progress has read, so that its rename gives the
  file that content and nothing else. Seen is ClientView with Lined for the files
  of earlier requests. FileWhole needs InCall too. The lemmas on line numbers
  (FirstLine to TwoLines, DnsEdited, PortEdited) say which lines a setter writes and
  what the getters of both settings of that file read afterwards. Proved for any
  menu, contents of files, defaults, refusals, and numbers of requests, failures and
  restarts, under PlatformAssumption (types; the files are made of lines) and
  RequestsAssumption (types; a page has room for a name).
  PagesComplete has an invariant of its own, Paged: as long as every list could be
  read, what was sent and what is left
  are, after one another, all the names. FlattenSeq is a recursive function of the
  community modules; that it has a value at all (LaidExists), and what one sequence
  more adds (FlattenAppend), is proved by the least counterexample, which does
  here what induction would.

Only model-checked: liveness (Executed, ThreadsStop, Exits, TransferEnds,
StopsUnlessStuck, DelayedRuns, Responsive, EachAnswered), which rests on fairness
and ENABLED, out of the prover's reach. Every safety property of a passing run is a
theorem.

## 7. Not modelled

* The layout of bodies: reading fields out of a packet and packing them into a
  reply, padding, byte order, base64, printing. They are pure and sequential; the
  models have what they yield where a property depends on it (one byte of a
  number, what strcmp sees, a truncated entry).
* The functions `check_header` of ddp_proto_switch.c:2417-2562, which a unit test
  could exhaust.
* The built-in tftp client (`tftp_cli.c` without USE_SYS_TFTP): not in the build.
* The search for interfaces and the setting up of sockets, a sequence of system
  calls at the start; Lifecycle has its success or failure.
* The stubs for a vendor's driver, which do nothing here.
* The heap of the C library in signal context: malloc and printf in the report
  handler are listed as a hazard; the main thread allocates nothing while it
  waits.
* Unit tests and build.
