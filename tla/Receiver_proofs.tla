-------------------------- MODULE Receiver_proofs --------------------------
(***************************************************************************)
(* The memory of the messages that the threads hand to each other, proved  *)
(* for any number of messages, any that may arrive, any roles and any      *)
(* failures of malloc: what a queue or a thread holds is allocated, and    *)
(* nothing else is but the payloads that a refused insertion leaks.  And a *)
(* daemon that was halted takes at most one message more.                  *)
(*                                                                         *)
(* The accounts are kept because a message is in one place at a time: on a *)
(* socket, in the buffer of the recv thread, in a queue, in the hand of a  *)
(* worker, or gone.  Freed while it was in a second place, it would be a   *)
(* dangling pointer there.                                                 *)
(***************************************************************************)
EXTENDS Receiver, TLAPS

\* The messages in some queues, f[x] for each x; -1 is no number of one.
Contents(f) == {i \in Ids : \E x \in DOMAIN f : \E k \in DOMAIN f[x] : f[x][k] = i}

\* The queues of a set of names.
QueuesOf(S) == [S -> Seq(Ids \cup {-1})]

\* What they are after the first message of one is taken, after one is put last.
Taken(f, x) == [f EXCEPT ![x] = Tail(@)]
Put(f, x, e) == [f EXCEPT ![x] = Append(@, e)]

\* No message is twice in them.
Once(f) ==
  \A x, y \in DOMAIN f : \A k \in DOMAIN f[x], l \in DOMAIN f[y] :
    f[x][k] = f[y][l] => f[x][k] = -1 \/ (x = y /\ k = l)

Pending == Contents(sock)
Queued == Contents(queue)
InHands == {i \in Ids : \E q \in Queues : hand[q] = i}
OneHand == \A q, r \in Queues : hand[q] = hand[r] => hand[q] = 0 \/ q = r

\* It is in one kind of place, and it is a message that has arrived.
Apart ==
  /\ Pending \cap (InBuf \cup Queued \cup InHands \cup gone) = {}
  /\ InBuf \cap (Queued \cup InHands \cup gone) = {}
  /\ Queued \cap (InHands \cup gone) = {}
  /\ InHands \cap gone = {}
Numbered == Pending \cup InBuf \cup Queued \cup InHands \cup gone \subseteq 1..Len(what)

OnePlace == Once(sock) /\ Once(queue) /\ OneHand /\ Apart /\ Numbered

\* The one message that a halted daemon still takes is one that it was about to
\* take: after it, the recv thread looks at the run state again.
HaltKept == run \/ sneaked = 0 \/ (sneaked = 1 /\ pc \notin {"accept", "insert"})

IInv == TypeOK /\ OnePlace /\ Accounted /\ HaltKept

-----------------------------------------------------------------------------
(* Taking a message from a queue and putting one into it.                  *)

LEMMA TakeFirst ==
  ASSUME NEW S, NEW f \in QueuesOf(S), Once(f),
         NEW x \in S, f[x] # <<>>
  PROVE  /\ Head(f[x]) \in Contents(f) \cup {-1}
         /\ Taken(f, x) \in QueuesOf(S)
         /\ Once(Taken(f, x))
         /\ Contents(Taken(f, x)) = Contents(f) \ {Head(f[x])}
<1> DEFINE h == Head(f[x])
<1> DEFINE g == Taken(f, x)
<1>1. f[x] \in Seq(Ids \cup {-1}) /\ 1 \in DOMAIN f[x] /\ h = f[x][1]
  BY DEF QueuesOf
<1>0. g[x] = Tail(f[x]) /\ DOMAIN f = S
  BY DEF QueuesOf, Taken
<1>2. h \in Contents(f) \cup {-1}
  BY <1>0, <1>1 DEF Contents
<1>3. g \in QueuesOf(S) /\ DOMAIN g = S /\ DOMAIN f = S
  BY <1>1 DEF QueuesOf, Taken
<1>4. \A y \in S \ {x} : g[y] = f[y]
  BY DEF QueuesOf, Taken
<1>5. ASSUME NEW k \in DOMAIN g[x]
      PROVE  k \in Nat \ {0} /\ k + 1 \in DOMAIN f[x] /\ g[x][k] = f[x][k + 1]
  BY <1>0, <1>1, <1>5
<1>6. ASSUME NEW k \in DOMAIN f[x], k # 1
      PROVE  k - 1 \in DOMAIN g[x] /\ g[x][k - 1] = f[x][k]
  BY <1>0, <1>1, <1>6
<1> HIDE DEF h, g
<1>7. Once(g)
  <2> SUFFICES ASSUME NEW y \in S, NEW z \in S, NEW k \in DOMAIN g[y], NEW l \in DOMAIN g[z],
                      g[y][k] = g[z][l]
               PROVE  g[y][k] = -1 \/ (y = z /\ k = l)
    BY <1>3 DEF Once
  <2>1. CASE y # x /\ z # x
    BY <1>3, <1>4, <2>1 DEF Once
  <2>2. CASE y = x /\ z # x
    BY <1>3, <1>4, <1>5, <2>2 DEF Once
  <2>3. CASE y # x /\ z = x
    BY <1>3, <1>4, <1>5, <2>3 DEF Once
  <2>4. CASE y = x /\ z = x
    <3>1. f[x][k + 1] = -1 \/ k + 1 = l + 1
      BY <1>3, <1>5, <2>4 DEF Once
    <3> QED
      BY <1>5, <2>4, <3>1
  <2> QED
    BY <2>1, <2>2, <2>3, <2>4
<1>8. Contents(g) \subseteq Contents(f) \ {h}
  <2> SUFFICES ASSUME NEW i \in Ids, NEW y \in S, NEW k \in DOMAIN g[y], g[y][k] = i
               PROVE  i \in Contents(f) \ {h}
    BY <1>3 DEF Contents
  <2>1. i # -1
    BY DEF Ids
  <2>2. CASE y # x
    BY <1>1, <1>3, <1>4, <2>1, <2>2 DEF Contents, Once
  <2>3. CASE y = x
    <3>1. k + 1 # 1
      BY <1>5, <2>3
    <3> QED
      BY <1>1, <1>3, <1>5, <2>1, <2>3, <3>1 DEF Contents, Once
  <2> QED
    BY <2>2, <2>3
<1>9. Contents(f) \ {h} \subseteq Contents(g)
  <2> SUFFICES ASSUME NEW i \in Ids, i # h, NEW y \in S, NEW k \in DOMAIN f[y], f[y][k] = i
               PROVE  i \in Contents(g)
    BY <1>3 DEF Contents
  <2>1. CASE y # x
    BY <1>3, <1>4, <2>1 DEF Contents
  <2>2. CASE y = x
    BY <1>1, <1>3, <1>6, <2>2 DEF Contents
  <2> QED
    BY <2>1, <2>2
<1> QED
  BY <1>2, <1>3, <1>7, <1>8, <1>9 DEF h, g

LEMMA PutLast ==
  ASSUME NEW S, NEW f \in QueuesOf(S), Once(f),
         NEW x \in S, NEW e \in Ids \cup {-1}, e \notin Contents(f)
  PROVE  /\ Put(f, x, e) \in QueuesOf(S)
         /\ Once(Put(f, x, e))
         /\ Contents(Put(f, x, e)) = Contents(f) \cup ({e} \cap Ids)
<1> DEFINE n == Len(f[x]) + 1
<1> DEFINE g == Put(f, x, e)
<1>1. f[x] \in Seq(Ids \cup {-1}) /\ n \in Nat
  BY DEF QueuesOf
<1>2. g \in QueuesOf(S) /\ DOMAIN g = S /\ DOMAIN f = S
  BY <1>1 DEF QueuesOf, Put
<1>3. \A y \in S \ {x} : g[y] = f[y]
  BY DEF QueuesOf, Put
<1>4. g[x] = Append(f[x], e)
  BY DEF QueuesOf, Put
<1>5. /\ DOMAIN g[x] = DOMAIN f[x] \cup {n} /\ n \notin DOMAIN f[x]
      /\ g[x][n] = e /\ \A k \in DOMAIN f[x] : g[x][k] = f[x][k]
  BY <1>1, <1>4
<1> HIDE DEF n, g
<1>6. \A y \in S : \A k \in DOMAIN f[y] : f[y][k] = e => e = -1
  BY <1>2 DEF Contents
<1>7. Once(g)
  <2> SUFFICES ASSUME NEW y \in S, NEW z \in S, NEW k \in DOMAIN g[y], NEW l \in DOMAIN g[z],
                      g[y][k] = g[z][l]
               PROVE  g[y][k] = -1 \/ (y = z /\ k = l)
    BY <1>2 DEF Once
  <2>1. (y = x /\ k = n /\ g[y][k] = e) \/ (k \in DOMAIN f[y] /\ g[y][k] = f[y][k])
    BY <1>3, <1>5
  <2>2. (z = x /\ l = n /\ g[z][l] = e) \/ (l \in DOMAIN f[z] /\ g[z][l] = f[z][l])
    BY <1>3, <1>5
  <2> QED
    BY <1>2, <1>6, <2>1, <2>2 DEF Once
<1>8. Contents(g) = Contents(f) \cup ({e} \cap Ids)
  <2>1. \A y \in S : \A k \in DOMAIN f[y] : k \in DOMAIN g[y] /\ g[y][k] = f[y][k]
    BY <1>3, <1>5
  <2>2. \A y \in S : \A k \in DOMAIN g[y] :
          g[y][k] = e \/ (k \in DOMAIN f[y] /\ g[y][k] = f[y][k])
    BY <1>3, <1>5
  <2>3. n \in DOMAIN g[x] /\ g[x][n] = e
    BY <1>5
  <2> QED
    BY <1>2, <2>1, <2>2, <2>3 DEF Contents
<1> QED
  BY <1>2, <1>7, <1>8 DEF g

-----------------------------------------------------------------------------
(* Where the recv thread goes.                                             *)

LEMMA FirstSection ==
  ASSUME NEW T \in SUBSET Sections, T # {}
  PROVE  \E s \in T : \A t \in T : Rank(s) <= Rank(t)
<1>1. \A s \in Sections : Rank(s) \in 1..5
  BY DEF Sections, Rank
<1>2. CASE "cli6" \in T
  BY <1>2 DEF Sections, Rank
<1>3. CASE "cli6" \notin T /\ "cli4" \in T
  BY <1>3 DEF Sections, Rank
<1>4. CASE "cli6" \notin T /\ "cli4" \notin T /\ "srv6" \in T
  BY <1>4 DEF Sections, Rank
<1>5. CASE T \subseteq {"srv4", "v1"} /\ "srv4" \in T
  BY <1>5 DEF Sections, Rank
<1>6. CASE T = {"v1"}
  BY <1>6 DEF Sections, Rank
<1> QED
  BY <1>2, <1>3, <1>4, <1>5, <1>6 DEF Sections

\* The places that a finished or dropped message leads to.
Onward ==
  /\ pc' \in {"flag", "read"} /\ sec' \in Sections /\ (pc' = "flag" => sec' = "cli6")
  /\ ready' \subseteq Role

LEMMA EnterType ==
  ASSUME NEW S \in SUBSET Sections, ready \subseteq Role, Enter(S)
  PROVE  Onward
<1>1. CASE S \cap ready = {}
  BY <1>1 DEF Enter, StartOver, Onward, Sections
<1>2. CASE S \cap ready # {}
  <2>1. \E s \in S \cap ready : \A t \in S \cap ready : Rank(s) <= Rank(t)
    BY <1>2, FirstSection
  <2>2. sec' \in S \cap ready
    BY <1>2, <2>1 DEF Enter
  <2> QED
    BY <1>2, <2>2 DEF Enter, Onward
<1> QED
  BY <1>1, <1>2

LEMMA DropType ==
  ASSUME NEW s, ready \subseteq Role, Proceed(s) \/ JumpBack \/ AfterDrop(s) \/ StartOver
  PROVE  Onward
<1>1. CASE Proceed(s)
  BY <1>1, EnterType DEF Proceed
<1>2. CASE JumpBack
  <2>1. {"srv6", "srv4", "v1"} \in SUBSET Sections
    BY DEF Sections
  <2> QED
    BY <1>2, <2>1, EnterType DEF JumpBack
<1>3. CASE StartOver
  BY <1>3 DEF StartOver, Onward, Sections
<1>4. CASE AfterDrop(s)
  BY <1>1, <1>3, <1>4 DEF AfterDrop
<1> QED
  BY <1>1, <1>2, <1>3, <1>4

-----------------------------------------------------------------------------
(* The accounts.                                                           *)

InInsert == IF pc = "insert" THEN {buf} ELSE {}
HeldHere == InInsert \cup Queued \cup InHands

LEMMA HeldIs == TypeOK => Held = HeldHere
<1> SUFFICES ASSUME TypeOK PROVE Held = HeldHere
  OBVIOUS
<1>1. UNION {InQueue(q) \cup InHand(q) : q \in Queues} \subseteq Queued \cup InHands
  <2> SUFFICES ASSUME NEW q \in Queues, NEW i \in InQueue(q) \cup InHand(q)
               PROVE  i \in Queued \cup InHands
    OBVIOUS
  <2>1. queue[q] \in Seq(Ids) /\ hand[q] \in Ids \cup {0} /\ DOMAIN queue = Queues
    BY DEF TypeOK
  <2>2. CASE i \in InQueue(q)
    <3>1. PICK k \in DOMAIN queue[q] : i = queue[q][k]
      BY <2>2 DEF InQueue
    <3>2. i \in Ids
      BY <2>1, <3>1
    <3> QED
      BY <2>1, <3>1, <3>2 DEF Queued, Contents
  <2>3. CASE i \in InHand(q)
    BY <2>1, <2>3 DEF InHand, InHands
  <2> QED
    BY <2>2, <2>3
<1>2. Queued \cup InHands \subseteq UNION {InQueue(q) \cup InHand(q) : q \in Queues}
  <2>1. \A i \in InHands : \E q \in Queues : i \in InHand(q)
    BY DEF InHands, InHand, Ids
  <2>2. \A i \in Queued : \E q \in Queues : i \in InQueue(q)
    BY DEF Queued, Contents, InQueue, TypeOK
  <2> QED
    BY <2>1, <2>2
<1> QED
  BY <1>1, <1>2 DEF Held, HeldHere, InInsert

AccountedHere == node = HeldHere /\ HeldHere \subseteq payload /\ payload \ HeldHere = leaked

LEMMA AccountedIs == TypeOK => (Accounted <=> AccountedHere)
BY HeldIs DEF Accounted, AccountedHere

LEMMA AccountedNext == TypeOK' => (Accounted' <=> AccountedHere')
BY AccountedIs, PTL

\* What lies in the places of a message changes with its contents only.
LEMMA SamePlaces ==
  /\ UNCHANGED sock => UNCHANGED <<Pending, Once(sock)>>
  /\ UNCHANGED queue => UNCHANGED <<Queued, Once(queue)>>
  /\ UNCHANGED hand => UNCHANGED <<InHands, OneHand>>
BY DEF Pending, Queued, InHands, OneHand, Once, Contents

LEMMA QueueType ==
  ASSUME TypeOK
  PROVE  sock \in QueuesOf(Sections) /\ queue \in QueuesOf(Queues)
BY DEF TypeOK, QueuesOf

-----------------------------------------------------------------------------
(* The steps of the recv thread.                                           *)

\* The recv thread is done with a message for which nothing is allocated.
LEMMA GoesOn ==
  ASSUME IInv, Onward, buf' = 0, pc \in {"check", "accept"},
         UnchangedByRecv, UNCHANGED <<sock, queue, node, payload, leaked, sneaked>>,
         gone' = gone \cup InBuf, lost' \in {lost, lost \cup InBuf},
         faults' \in 0..MaxFaults
  PROVE  IInv'
<1> USE DEF UnchangedByRecv
<1>1. InBuf \subseteq Ids /\ InBuf' = {}
  BY DEF IInv, TypeOK, InBuf
<1>2. TypeOK'
  BY <1>1 DEF IInv, TypeOK, Onward
<1>3. UNCHANGED <<Pending, Queued, InHands, Once(sock), Once(queue), OneHand>>
  BY SamePlaces
<1>4. OnePlace'
  BY <1>1, <1>3 DEF IInv, OnePlace, Apart, Numbered
<1>5. AccountedHere'
  <2>1. AccountedHere /\ HeldHere' = HeldHere
    BY <1>3, AccountedIs DEF IInv, HeldHere, InInsert, Onward
  <2> QED
    BY <2>1 DEF AccountedHere
<1>6. HaltKept'
  BY DEF IInv, HaltKept, Onward
<1> QED
  BY <1>2, <1>4, <1>5, <1>6, AccountedNext DEF IInv

LEMMA CheckFlagInv == IInv /\ CheckFlag => IInv'
<1> SUFFICES ASSUME IInv, CheckFlag PROVE IInv'
  OBVIOUS
<1> USE DEF UnchangedByRecv, CheckFlag, histVars
<1>1. TypeOK'
  BY DEF IInv, TypeOK
<1>2. UNCHANGED <<Pending, Queued, InHands, Once(sock), Once(queue), OneHand, InBuf>>
  BY SamePlaces DEF InBuf
<1>3. OnePlace'
  BY <1>2 DEF IInv, OnePlace, Apart, Numbered
<1>4. AccountedHere'
  BY <1>2, AccountedIs DEF IInv, AccountedHere, HeldHere, InInsert
<1> QED
  BY <1>1, <1>3, <1>4, AccountedNext DEF IInv, HaltKept

LEMMA SelectInv == IInv /\ Select => IInv'
<1> SUFFICES ASSUME IInv, Select PROVE IInv'
  OBVIOUS
<1> USE DEF UnchangedByRecv, histVars
<1>1. /\ UNCHANGED <<sock, buf, queue, node, payload, faults, gone, lost, leaked, sneaked>>
      /\ UnchangedByRecv /\ pc = "select"
  BY DEF Select
<1>2. Onward
  <2> DEFINE S == {s \in Role : sock[s] # <<>>}
  <2>1. CASE S = {}
    BY <2>1, DropType DEF Select, IInv, TypeOK
  <2>2. CASE S # {}
    <3>1. S \in SUBSET Sections /\ S \subseteq Role
      BY ReceiverAssumption
    <3>2. \E s \in S : \A t \in S : Rank(s) <= Rank(t)
      BY <2>2, <3>1, FirstSection
    <3>3. pc' = "read" /\ ready' = S
          /\ sec' = CHOOSE s \in S : \A t \in S : Rank(s) <= Rank(t)
      BY <2>2 DEF Select
    <3> HIDE DEF S
    <3>4. sec' \in S
      BY <3>2, <3>3
    <3> QED
      BY <3>1, <3>3, <3>4 DEF Onward
  <2> QED
    BY <2>1, <2>2
<1>3. TypeOK'
  BY <1>1, <1>2 DEF IInv, TypeOK, Onward
<1>4. UNCHANGED <<Pending, Queued, InHands, Once(sock), Once(queue), OneHand, InBuf>>
  BY <1>1, SamePlaces DEF InBuf
<1>5. OnePlace'
  BY <1>1, <1>4 DEF IInv, OnePlace, Apart, Numbered
<1>6. AccountedHere'
  BY <1>1, <1>2, <1>4, AccountedIs DEF IInv, AccountedHere, HeldHere, InInsert, Onward
<1> QED
  BY <1>1, <1>2, <1>3, <1>5, <1>6, AccountedNext DEF IInv, HaltKept, Onward

\* A message leaves its socket for the buffer.
LEMMA ReceiveInv == IInv /\ Receive => IInv'
<1> SUFFICES ASSUME IInv, Receive PROVE IInv'
  OBVIOUS
<1> USE DEF UnchangedByRecv, histVars
<1>1. /\ UNCHANGED <<sec, ready, queue, node, payload, faults, gone, lost, leaked, sneaked>>
      /\ UnchangedByRecv /\ pc = "read" /\ pc' = "check"
  BY DEF Receive
<1>2. UNCHANGED <<Queued, InHands, Once(queue), OneHand>>
  BY <1>1, SamePlaces
<1>3. sock \in [Sections -> Seq(Ids \cup {-1})] /\ sec \in Sections /\ InBuf = {} /\ Once(sock)
  BY <1>1 DEF IInv, TypeOK, OnePlace, InBuf
<1>4. /\ sock' \in [Sections -> Seq(Ids \cup {-1})] /\ Once(sock)'
      /\ buf' \in Ids \cup {0, -1}
      /\ InBuf' \subseteq Pending /\ Pending' = Pending \ InBuf'
  <2>1. CASE sock[sec] = <<>>
    <3>1. buf' = 0 /\ sock' = sock
      BY <2>1 DEF Receive
    <3> QED
      BY <1>3, <3>1, SamePlaces DEF InBuf
  <2>2. CASE sock[sec] # <<>>
    <3>1. buf' = Head(sock[sec]) /\ sock' = [sock EXCEPT ![sec] = Tail(@)]
      BY <2>2 DEF Receive
    <3>2. /\ buf' \in Contents(sock) \cup {-1}
          /\ sock' \in [Sections -> Seq(Ids \cup {-1})]
          /\ Once(sock')
          /\ Contents(sock') = Contents(sock) \ {buf'}
      <4>1. sock \in QueuesOf(Sections)
        BY <1>3 DEF QueuesOf
      <4>2. sock' = Taken(sock, sec)
        BY <3>1 DEF Taken
      <4>3. sec \in Sections /\ Once(sock)
        BY <1>3
      <4>4. /\ Head(sock[sec]) \in Contents(sock) \cup {-1}
            /\ Taken(sock, sec) \in QueuesOf(Sections)
            /\ Once(Taken(sock, sec))
            /\ Contents(Taken(sock, sec)) = Contents(sock) \ {Head(sock[sec])}
        BY ONLY <2>2, <4>1, <4>3, TakeFirst
      <4> QED
        BY <3>1, <4>2, <4>4 DEF QueuesOf
    <3>3. Contents(sock) \subseteq Ids
      BY DEF Contents
    <3>4. InBuf' = {buf'} \cap Ids
      BY <3>2, <3>3 DEF InBuf, Ids
    <3>5. Once(sock)' /\ Pending' = Contents(sock') /\ Pending = Contents(sock)
      BY <3>2 DEF Pending, Contents, Once
    <3> QED
      BY <3>2, <3>3, <3>4, <3>5 DEF Ids
  <2> QED
    BY <2>1, <2>2
<1>5. TypeOK'
  BY <1>1, <1>4 DEF IInv, TypeOK
<1>6. OnePlace'
  BY <1>1, <1>2, <1>3, <1>4 DEF IInv, OnePlace, Apart, Numbered
<1>7. AccountedHere'
  BY <1>1, <1>2, AccountedIs DEF IInv, AccountedHere, HeldHere, InInsert
<1> QED
  BY <1>1, <1>5, <1>6, <1>7, AccountedNext DEF IInv, HaltKept

LEMMA CheckHaltInv == IInv /\ CheckHalt => IInv'
<1> SUFFICES ASSUME IInv, CheckHalt PROVE IInv'
  OBVIOUS
<1>1. CASE run
  <2> USE DEF UnchangedByRecv
  <2>1. /\ UNCHANGED <<sock, sec, ready, buf, queue, node, payload, faults, gone, lost, leaked, sneaked>>
        /\ UnchangedByRecv /\ pc = "check" /\ pc' = "accept"
    BY <1>1 DEF CheckHalt
  <2>2. TypeOK'
    BY <2>1 DEF IInv, TypeOK
  <2>3. UNCHANGED <<Pending, Queued, InHands, Once(sock), Once(queue), OneHand, InBuf>>
    BY <2>1, SamePlaces DEF InBuf
  <2>4. OnePlace'
    BY <2>1, <2>3 DEF IInv, OnePlace, Apart, Numbered
  <2>5. AccountedHere'
    BY <2>1, <2>3, AccountedIs DEF IInv, AccountedHere, HeldHere, InInsert
  <2>6. HaltKept'
    BY <1>1, <2>1 DEF HaltKept
  <2> QED
    BY <2>2, <2>4, <2>5, <2>6, AccountedNext DEF IInv
<1>2. CASE ~run
  <2>1. AfterDrop(sec) /\ buf' = 0 /\ gone' = gone \cup InBuf /\ lost' = lost \cup InBuf
        /\ pc = "check" /\ UnchangedByRecv
        /\ UNCHANGED <<sock, queue, node, payload, faults, leaked, sneaked>>
    BY <1>2 DEF CheckHalt
  <2>2. Onward
    BY <2>1, DropType DEF IInv, TypeOK
  <2>3. faults' \in 0..MaxFaults
    BY <2>1 DEF IInv, TypeOK
  <2> QED
    BY <2>1, <2>2, <2>3, GoesOn
<1> QED
  BY <1>1, <1>2

LEMMA DropInv == IInv /\ (Short \/ Refuse \/ NoMemory) => IInv'
<1> SUFFICES ASSUME IInv, Short \/ Refuse \/ NoMemory PROVE IInv'
  OBVIOUS
<1>1. Onward
  BY DropType DEF Short, Refuse, NoMemory, IInv, TypeOK
<1>2. /\ buf' = 0 /\ pc = "accept" /\ gone' = gone \cup InBuf /\ UnchangedByRecv
      /\ UNCHANGED <<sock, queue, node, payload, leaked, sneaked>>
  BY DEF Short, Refuse, NoMemory
<1>3. lost' \in {lost, lost \cup InBuf}
  BY DEF Short, Refuse, NoMemory
<1>4. faults' \in 0..MaxFaults
  <2>1. faults \in Int /\ MaxFaults \in Nat /\ 0 <= faults /\ faults <= MaxFaults
    BY ReceiverAssumption DEF IInv, TypeOK
  <2>2. faults' = faults \/ (faults < MaxFaults /\ faults' = faults + 1)
    BY DEF Short, Refuse, NoMemory
  <2> QED
    BY <2>1, <2>2
<1> QED
  BY <1>1, <1>2, <1>3, <1>4, GoesOn

\* Node and payload are those of a message that nothing holds.
LEMMA AllocateInv == IInv /\ Allocate => IInv'
<1> SUFFICES ASSUME IInv, Allocate PROVE IInv'
  OBVIOUS
<1> USE DEF UnchangedByRecv, histVars
<1>1. /\ UNCHANGED <<sock, sec, ready, buf, queue, faults, gone, lost, leaked, sneaked>>
      /\ UnchangedByRecv /\ pc = "accept" /\ pc' = "insert"
      /\ node' = node \cup {buf} /\ payload' = payload \cup {buf}
  BY DEF Allocate
<1>2. buf \in Ids /\ InBuf = {buf}
  BY DEF Allocate, Passes, InBuf, IInv, TypeOK, Ids
<1>3. UNCHANGED <<Pending, Queued, InHands, Once(sock), Once(queue), OneHand, InBuf>>
  BY <1>1, SamePlaces DEF InBuf
<1>4. TypeOK'
  BY <1>1, <1>2 DEF IInv, TypeOK
<1>5. OnePlace'
  BY <1>1, <1>3 DEF IInv, OnePlace, Apart, Numbered
<1>6. AccountedHere'
  <2>1. buf \notin leaked
    BY <1>2 DEF IInv, TypeOK, OnePlace, Apart
  <2>2. HeldHere' = HeldHere \cup {buf}
    BY <1>1, <1>3 DEF HeldHere, InInsert
  <2> QED
    BY <1>1, <2>1, <2>2, AccountedIs DEF IInv, AccountedHere
<1>7. HaltKept'
  BY <1>1 DEF IInv, HaltKept
<1> QED
  BY <1>4, <1>5, <1>6, <1>7, AccountedNext DEF IInv

\* The message passes from the recv thread to the queue.
LEMMA InsertInv == IInv /\ Insert => IInv'
<1> SUFFICES ASSUME IInv, Insert PROVE IInv'
  OBVIOUS
<1> USE DEF UnchangedByRecv, histVars
<1>1. /\ UNCHANGED <<sock, node, payload, faults, gone, lost, leaked>>
      /\ UnchangedByRecv /\ pc = "insert" /\ buf' = 0
      /\ queue' = Put(queue, QueueOf(sec), buf)
      /\ sneaked' = IF run THEN 0 ELSE sneaked + 1
  BY DEF Insert, Put
<1>2. Onward
  BY DropType DEF Insert, IInv, TypeOK
<1>3. buf \in Ids /\ InBuf = {buf} /\ InBuf' = {} /\ QueueOf(sec) \in Queues
  BY <1>1 DEF InBuf, IInv, TypeOK, Ids, QueueOf, Queues, Sections
<1>4. UNCHANGED <<Pending, InHands, Once(sock), OneHand>>
  BY <1>1, SamePlaces
<1>5. buf \notin Queued /\ queue \in QueuesOf(Queues) /\ Once(queue)
  BY <1>3, QueueType DEF IInv, OnePlace, Apart
<1>6. Once(queue') /\ Contents(queue') = Queued \cup {buf}
  <2>1. buf \notin Contents(queue) /\ buf \in Ids \cup {-1} /\ {buf} \cap Ids = {buf}
    BY <1>3, <1>5 DEF Queued
  <2>2. /\ Once(Put(queue, QueueOf(sec), buf))
        /\ Contents(Put(queue, QueueOf(sec), buf)) = Contents(queue) \cup ({buf} \cap Ids)
    BY ONLY <1>3, <1>5, <2>1, PutLast
  <2> QED
    BY <1>1, <2>1, <2>2 DEF Queued
<1>7. Once(queue)' /\ Queued' = Queued \cup {buf}
  BY <1>6 DEF Once, Queued, Contents
<1>8. TypeOK'
  <2>1. queue' \in [Queues -> Seq(Ids)]
    BY <1>1, <1>3 DEF IInv, TypeOK, Put
  <2>2. sneaked' \in Nat
    BY <1>1 DEF IInv, TypeOK
  <2> QED
    BY <1>1, <1>2, <2>1, <2>2 DEF IInv, TypeOK, Onward
<1>9. OnePlace'
  BY <1>1, <1>3, <1>4, <1>7 DEF IInv, OnePlace, Apart, Numbered
<1>10. AccountedHere'
  <2>1. HeldHere' = HeldHere
    BY <1>1, <1>2, <1>4, <1>7 DEF HeldHere, InInsert, Onward
  <2> QED
    BY <1>1, <2>1, AccountedIs DEF IInv, AccountedHere
<1>11. HaltKept'
  BY <1>1, <1>2 DEF IInv, HaltKept, Onward, TypeOK
<1> QED
  BY <1>8, <1>9, <1>10, <1>11, AccountedNext DEF IInv

\* The packet is freed; its payload leaks.
LEMMA InsertFailsInv == IInv /\ InsertFails => IInv'
<1> SUFFICES ASSUME IInv, InsertFails PROVE IInv'
  OBVIOUS
<1> USE DEF UnchangedByRecv, histVars
<1>1. /\ UNCHANGED <<sock, queue, payload, sneaked>>
      /\ UnchangedByRecv /\ pc = "insert" /\ buf' = 0
      /\ faults < MaxFaults /\ faults' = faults + 1
      /\ node' = node \ {buf}
      /\ gone' = gone \cup {buf} /\ lost' = lost \cup {buf} /\ leaked' = leaked \cup {buf}
  BY DEF InsertFails
<1>2. Onward
  BY DropType DEF InsertFails, IInv, TypeOK
<1>3. buf \in Ids /\ InBuf = {buf} /\ InBuf' = {}
  BY <1>1 DEF InBuf, IInv, TypeOK, Ids
<1>4. UNCHANGED <<Pending, Queued, InHands, Once(sock), Once(queue), OneHand>>
  BY <1>1, SamePlaces
<1>5. TypeOK'
  <2>1. faults' \in 0..MaxFaults
    BY <1>1, ReceiverAssumption DEF IInv, TypeOK
  <2> QED
    BY <1>1, <1>2, <1>3, <2>1 DEF IInv, TypeOK, Onward
<1>6. OnePlace'
  BY <1>1, <1>3, <1>4 DEF IInv, OnePlace, Apart, Numbered
<1>7. AccountedHere'
  <2>1. HeldHere = HeldHere' \cup {buf} /\ buf \notin HeldHere'
    BY <1>1, <1>2, <1>3, <1>4 DEF HeldHere, InInsert, Onward, IInv, OnePlace, Apart
  <2>2. AccountedHere
    BY AccountedIs DEF IInv
  <2> QED
    BY <1>1, <2>1, <2>2 DEF AccountedHere
<1>8. HaltKept'
  BY <1>1, <1>2 DEF IInv, HaltKept, Onward
<1> QED
  BY <1>5, <1>6, <1>7, <1>8, AccountedNext DEF IInv

-----------------------------------------------------------------------------
(* The steps of a worker.                                                  *)

\* A message passes from the queue to the hand of its worker.
LEMMA RemoveInv == IInv /\ (\E q \in Queues : Remove(q)) => IInv'
<1> SUFFICES ASSUME IInv, NEW q \in Queues, Remove(q) PROVE IInv'
  OBVIOUS
<1> USE DEF UnchangedByWork, recvVars
<1>1. /\ UNCHANGED <<sock, what, pc, sec, ready, buf, over, run, faults, turns, lost, leaked,
                     sneaked, node, payload, lan, proxy, gone>>
      /\ wpc[q] = "loop"
  BY DEF Remove
<1>2. UNCHANGED <<Pending, Once(sock), InBuf>>
  BY <1>1, SamePlaces DEF InBuf
<1>3. CASE over
  <2>1. wpc' = [wpc EXCEPT ![q] = "done"] /\ UNCHANGED <<queue, hand>>
    BY <1>3 DEF Remove
  <2>2. UNCHANGED <<Queued, InHands, Once(queue), OneHand>>
    BY <2>1, SamePlaces
  <2>3. TypeOK'
    BY <1>1, <2>1 DEF IInv, TypeOK
  <2>4. OnePlace'
    BY <1>1, <1>2, <2>2 DEF IInv, OnePlace, Apart, Numbered
  <2>5. AccountedHere'
    BY <1>1, <2>2, AccountedIs DEF IInv, AccountedHere, HeldHere, InInsert
  <2> QED
    BY <1>1, <2>3, <2>4, <2>5, AccountedNext DEF IInv, HaltKept
<1>4. CASE ~over
  <2> DEFINE h == Head(queue[q])
  <2>1. /\ hand' = [hand EXCEPT ![q] = h] /\ queue' = Taken(queue, q)
        /\ wpc' = [wpc EXCEPT ![q] = "handle"] /\ queue[q] # <<>>
    BY <1>4 DEF Remove, Taken
  <2>2. queue \in QueuesOf(Queues) /\ Once(queue) /\ queue[q] \in Seq(Ids)
    BY QueueType DEF IInv, OnePlace, TypeOK
  <2>3. h \in Ids /\ h # 0 /\ h # -1
    <3>1. h \in Ids
      BY ONLY <2>1, <2>2
    <3> QED
      BY <3>1 DEF Ids
  <2>4. /\ h \in Contents(queue)
        /\ Once(queue') /\ Contents(queue') = Contents(queue) \ {h}
    <3>1. /\ Head(queue[q]) \in Contents(queue) \cup {-1}
          /\ Once(Taken(queue, q))
          /\ Contents(Taken(queue, q)) = Contents(queue) \ {Head(queue[q])}
      BY ONLY <2>1, <2>2, TakeFirst
    <3> QED
      BY <2>1, <2>3, <3>1
  <2>5. Once(queue)' /\ Queued' = Queued \ {h} /\ h \in Queued
    BY <2>4 DEF Once, Queued, Contents
  <2>6. queue' \in [Queues -> Seq(Ids)]
    BY <2>1, <2>2 DEF IInv, TypeOK, Taken
  <2> HIDE DEF h
  <2>7. hand \in [Queues -> Ids \cup {0}] /\ hand[q] = 0
    BY <1>1 DEF IInv, TypeOK
  <2>8. InHands' = InHands \cup {h}
    BY <2>1, <2>3, <2>7 DEF InHands, Ids
  <2>9. OneHand'
    <3>1. \A r \in Queues : hand[r] # h
      BY <2>3, <2>5 DEF IInv, OnePlace, Apart, InHands
    <3> QED
      BY <2>1, <2>7, <3>1 DEF IInv, OnePlace, OneHand
  <2>10. TypeOK'
    <3>1. hand' \in [Queues -> Ids \cup {0}]
      BY <2>1, <2>3, <2>7
    <3>2. wpc' \in [Queues -> {"loop", "handle", "free", "done"}]
      BY <2>1 DEF IInv, TypeOK
    <3>3. \A r \in Queues : wpc'[r] \in {"handle", "free"} <=> hand'[r] # 0
      BY <2>1, <2>3, <2>7 DEF IInv, TypeOK
    <3> QED
      BY <1>1, <2>6, <3>1, <3>2, <3>3 DEF IInv, TypeOK
  <2>11. OnePlace'
    BY <1>1, <1>2, <2>5, <2>8, <2>9 DEF IInv, OnePlace, Apart, Numbered
  <2>12. AccountedHere'
    <3>1. HeldHere' = HeldHere
      BY <1>1, <2>5, <2>8 DEF HeldHere, InInsert
    <3> QED
      BY <1>1, <3>1, AccountedIs DEF IInv, AccountedHere
  <2> QED
    BY <1>1, <2>10, <2>11, <2>12, AccountedNext DEF IInv, HaltKept
<1> QED
  BY <1>3, <1>4

LEMMA HandleInv == IInv /\ (\E q \in Queues : Handle(q)) => IInv'
<1> SUFFICES ASSUME IInv, NEW q \in Queues, Handle(q) PROVE IInv'
  OBVIOUS
<1> USE DEF UnchangedByWork, recvVars
<1>1. /\ UNCHANGED <<sock, what, pc, sec, ready, buf, over, run, faults, turns, lost, leaked,
                     sneaked, queue, hand, node, payload, gone>>
      /\ wpc[q] = "handle" /\ wpc' = [wpc EXCEPT ![q] = "free"]
  BY DEF Handle
<1>2. hand[q] \in Ids
  BY <1>1 DEF IInv, TypeOK
<1>3. lan' \subseteq Ids \X Interfaces /\ proxy' \subseteq Ids
  <2>1. lan' = lan \/ lan' = lan \cup ({hand[q]} \X Interfaces)
    BY DEF Handle
  <2>2. proxy' = proxy \/ proxy' = proxy \cup {hand[q]}
    BY DEF Handle
  <2> QED
    BY <1>2, <2>1, <2>2 DEF IInv, TypeOK
<1>4. UNCHANGED <<Pending, Queued, InHands, Once(sock), Once(queue), OneHand, InBuf>>
  BY <1>1, SamePlaces DEF InBuf
<1>5. TypeOK'
  <2>1. /\ wpc' \in [Queues -> {"loop", "handle", "free", "done"}]
        /\ \A r \in Queues : wpc'[r] \in {"handle", "free"} <=> hand'[r] # 0
    BY <1>1 DEF IInv, TypeOK
  <2> QED
    BY <1>1, <1>3, <2>1 DEF IInv, TypeOK
<1>6. OnePlace'
  BY <1>1, <1>4 DEF IInv, OnePlace, Apart, Numbered
<1>7. AccountedHere'
  BY <1>1, <1>4, AccountedIs DEF IInv, AccountedHere, HeldHere, InInsert
<1> QED
  BY <1>1, <1>5, <1>6, <1>7, AccountedNext DEF IInv, HaltKept

\* What is freed is nowhere else.
LEMMA FreeInv == IInv /\ (\E q \in Queues : Free(q)) => IInv'
<1> SUFFICES ASSUME IInv, NEW q \in Queues, Free(q) PROVE IInv'
  OBVIOUS
<1> USE DEF UnchangedByWork, recvVars
<1> DEFINE h == hand[q]
<1>1. /\ UNCHANGED <<sock, what, pc, sec, ready, buf, over, run, faults, turns, lost, leaked,
                     sneaked, queue, lan, proxy>>
      /\ wpc[q] = "free" /\ wpc' = [wpc EXCEPT ![q] = "loop"]
      /\ node' = node \ {h} /\ payload' = payload \ {h} /\ gone' = gone \cup {h}
      /\ hand' = [hand EXCEPT ![q] = 0]
  BY DEF Free
<1>2. hand \in [Queues -> Ids \cup {0}] /\ h \in Ids /\ h # 0
  BY <1>1 DEF IInv, TypeOK, Ids
<1>3. UNCHANGED <<Pending, Queued, Once(sock), Once(queue), InBuf>>
  BY <1>1, SamePlaces DEF InBuf
<1>4. OneHand' /\ InHands' = InHands \ {h} /\ h \in InHands
  <2>1. \A r \in Queues : hand'[r] = IF r = q THEN 0 ELSE hand[r]
    BY <1>1, <1>2
  <2>2. \A r \in Queues : r # q => hand[r] # h
    BY <1>2 DEF IInv, OnePlace, OneHand
  <2>3. 0 \notin Ids
    BY DEF Ids
  <2> QED
    BY <1>2, <2>1, <2>2, <2>3 DEF IInv, OnePlace, OneHand, InHands
<1> HIDE DEF h
<1>5. TypeOK'
  <2>1. hand' \in [Queues -> Ids \cup {0}]
    BY <1>1, <1>2
  <2>2. /\ wpc' \in [Queues -> {"loop", "handle", "free", "done"}]
        /\ \A r \in Queues : wpc'[r] \in {"handle", "free"} <=> hand'[r] # 0
    BY <1>1, <1>2 DEF IInv, TypeOK
  <2> QED
    BY <1>1, <1>2, <2>1, <2>2 DEF IInv, TypeOK
<1>6. OnePlace'
  BY <1>1, <1>3, <1>4 DEF IInv, OnePlace, Apart, Numbered
<1>7. AccountedHere'
  <2>1. h \notin InInsert
    BY <1>4 DEF InInsert, IInv, OnePlace, Apart, InBuf, TypeOK, Ids
  <2>2. HeldHere' = HeldHere \ {h} /\ h \in HeldHere
    BY <1>1, <1>3, <1>4, <2>1 DEF HeldHere, InInsert, IInv, OnePlace, Apart
  <2>3. AccountedHere
    BY AccountedIs DEF IInv
  <2> QED
    BY <1>1, <2>2, <2>3 DEF AccountedHere
<1> QED
  BY <1>1, <1>5, <1>6, <1>7, AccountedNext DEF IInv, HaltKept

-----------------------------------------------------------------------------
(* The steps from outside.                                                 *)

\* A message arrives, of which nothing has been known.
LEMMA ArriveInv == IInv /\ (\E c \in Menu : Arrive(c)) => IInv'
<1> SUFFICES ASSUME IInv, NEW c \in Menu, Arrive(c) PROVE IInv'
  OBVIOUS
<1> USE DEF UnchangedByOthers, recvVars, workVars
<1> DEFINE n == Len(what')
<1>1. /\ UNCHANGED <<pc, sec, ready, buf, queue, hand, wpc, lan, proxy, node, payload,
                     faults, gone, lost, leaked, over, run, turns, sneaked>>
      /\ Len(what) < MaxArrivals /\ what' = Append(what, c)
      /\ sock' = Put(sock, c.sock, n)
  BY DEF Arrive, Put
<1>2. c \in Arrival /\ c.sock \in Sections
  BY ReceiverAssumption DEF Arrival
<1>3. what' \in Seq(Arrival) /\ n = Len(what) + 1 /\ n \in Ids /\ Len(what) \in Nat
  BY <1>1, <1>2, ReceiverAssumption DEF IInv, TypeOK, Ids
<1>4. UNCHANGED <<Queued, InHands, Once(queue), OneHand, InBuf>>
  BY <1>1, SamePlaces DEF InBuf
<1> HIDE DEF n
<1>5. n \notin 1..Len(what) /\ 1..Len(what') = 1..Len(what) \cup {n}
  BY <1>3 DEF n
<1>6. sock \in QueuesOf(Sections) /\ Once(sock) /\ n \notin Contents(sock)
  BY <1>5, QueueType DEF IInv, OnePlace, Numbered, Pending
<1>7. sock' \in QueuesOf(Sections) /\ Once(sock') /\ Contents(sock') = Contents(sock) \cup {n}
  <2>1. n \in Ids \cup {-1} /\ {n} \cap Ids = {n}
    BY <1>3
  <2>2. /\ Put(sock, c.sock, n) \in QueuesOf(Sections)
        /\ Once(Put(sock, c.sock, n))
        /\ Contents(Put(sock, c.sock, n)) = Contents(sock) \cup ({n} \cap Ids)
    BY ONLY <1>2, <1>6, <2>1, PutLast
  <2> QED
    BY <1>1, <2>1, <2>2
<1>8. Once(sock)' /\ Pending' = Pending \cup {n}
  BY <1>7 DEF Once, Pending, Contents
<1>9. TypeOK'
  BY <1>1, <1>3, <1>7, ReceiverAssumption DEF IInv, TypeOK, QueuesOf, n, Ids
<1>10. OnePlace'
  BY <1>1, <1>4, <1>5, <1>8 DEF IInv, OnePlace, Apart, Numbered
<1>11. AccountedHere'
  BY <1>1, <1>4, AccountedIs DEF IInv, AccountedHere, HeldHere, InInsert
<1> QED
  BY <1>1, <1>9, <1>10, <1>11, AccountedNext DEF IInv, HaltKept

LEMMA FloodInv == IInv /\ FloodMore => IInv'
<1> SUFFICES ASSUME IInv, FloodMore PROVE IInv'
  OBVIOUS
<1> USE DEF UnchangedByOthers, recvVars, workVars
<1>1. /\ UNCHANGED <<what, pc, sec, ready, buf, queue, hand, wpc, lan, proxy, node, payload,
                     faults, gone, lost, leaked, over, run, turns, sneaked>>
      /\ sock' = Put(sock, "v1", -1)
  BY DEF FloodMore, Put
<1>2. UNCHANGED <<Queued, InHands, Once(queue), OneHand, InBuf>>
  BY <1>1, SamePlaces DEF InBuf
<1>3. -1 \notin Contents(sock) /\ {-1} \cap Ids = {} /\ "v1" \in Sections
  BY DEF Contents, Ids, Sections
<1>4. sock \in QueuesOf(Sections) /\ Once(sock) /\ -1 \in Ids \cup {-1}
  BY QueueType DEF IInv, OnePlace
<1>5. sock' \in QueuesOf(Sections) /\ Once(sock') /\ Contents(sock') = Contents(sock)
  <2>1. /\ Put(sock, "v1", -1) \in QueuesOf(Sections)
        /\ Once(Put(sock, "v1", -1))
        /\ Contents(Put(sock, "v1", -1)) = Contents(sock) \cup ({-1} \cap Ids)
    BY ONLY <1>3, <1>4, PutLast
  <2> QED
    BY <1>1, <1>3, <2>1
<1>6. Once(sock)' /\ Pending' = Pending
  BY <1>5 DEF Once, Pending, Contents
<1>7. TypeOK'
  BY <1>1, <1>5 DEF IInv, TypeOK, QueuesOf
<1>8. OnePlace'
  BY <1>1, <1>2, <1>6 DEF IInv, OnePlace, Apart, Numbered
<1>9. AccountedHere'
  BY <1>1, <1>2, AccountedIs DEF IInv, AccountedHere, HeldHere, InInsert
<1> QED
  BY <1>1, <1>7, <1>8, <1>9, AccountedNext DEF IInv, HaltKept

LEMMA OutsideInv == IInv /\ (Terminate \/ Turn \/ UNCHANGED vars) => IInv'
<1> SUFFICES ASSUME IInv, Terminate \/ Turn \/ UNCHANGED vars PROVE IInv'
  OBVIOUS
<1>1. UNCHANGED <<sock, what, pc, sec, ready, buf, queue, hand, wpc, lan, proxy, node,
                  payload, faults, gone, lost, leaked>>
  BY DEF Terminate, Turn, UnchangedByOthers, recvVars, workVars, vars
<1>2. UNCHANGED <<Pending, Queued, InHands, Once(sock), Once(queue), OneHand, InBuf>>
  BY <1>1, SamePlaces DEF InBuf
<1>3. over' \in BOOLEAN /\ run' \in BOOLEAN /\ turns' \in 0..MaxTurns /\ sneaked' \in Nat
  <2>1. CASE Terminate
    BY <2>1 DEF Terminate, IInv, TypeOK
  <2>2. CASE Turn
    BY <2>2, ReceiverAssumption DEF Turn, IInv, TypeOK
  <2>3. CASE UNCHANGED vars
    BY <2>3 DEF vars, IInv, TypeOK
  <2> QED
    BY <2>1, <2>2, <2>3
<1>4. TypeOK'
  BY <1>1, <1>3 DEF IInv, TypeOK
<1>5. OnePlace'
  BY <1>1, <1>2 DEF IInv, OnePlace, Apart, Numbered
<1>6. AccountedHere'
  BY <1>1, <1>2, AccountedIs DEF IInv, AccountedHere, HeldHere, InInsert
<1>7. HaltKept'
  BY <1>1 DEF Terminate, Turn, vars, IInv, HaltKept
<1> QED
  BY <1>4, <1>5, <1>6, <1>7, AccountedNext DEF IInv

-----------------------------------------------------------------------------
(* The theorems.                                                           *)

LEMMA InitInv == Init => IInv
<1> SUFFICES ASSUME Init PROVE IInv
  OBVIOUS
<1> USE DEF Init
<1>1. TypeOK
  <2>1. what \in Seq(Arrival) /\ Len(what) <= MaxArrivals
    BY ReceiverAssumption
  <2>2. sock \in [Sections -> Seq(Ids \cup {-1})] /\ queue \in [Queues -> Seq(Ids)]
    OBVIOUS
  <2>3. hand \in [Queues -> Ids \cup {0}] /\ wpc \in [Queues -> {"loop", "handle", "free", "done"}]
    OBVIOUS
  <2>4. faults \in 0..MaxFaults /\ turns \in 0..MaxTurns /\ sneaked \in Nat
    BY ReceiverAssumption
  <2> QED
    BY <2>1, <2>2, <2>3, <2>4 DEF TypeOK, Sections
<1>2. Pending = {} /\ Queued = {} /\ InHands = {} /\ InBuf = {}
  BY DEF Pending, Queued, InHands, InBuf, Contents, Ids
<1>3. Once(sock) /\ Once(queue) /\ OneHand
  BY DEF Once, OneHand
<1>4. OnePlace
  BY <1>2, <1>3 DEF OnePlace, Apart, Numbered
<1>5. AccountedHere
  BY <1>2 DEF AccountedHere, HeldHere, InInsert
<1> QED
  BY <1>1, <1>4, <1>5, AccountedIs DEF IInv, HaltKept

LEMMA NextInv == IInv /\ [Next]_vars => IInv'
<1> SUFFICES ASSUME IInv, [Next]_vars PROVE IInv'
  OBVIOUS
<1>1. CASE Recv
  BY <1>1, CheckFlagInv, SelectInv, ReceiveInv, CheckHaltInv, DropInv, AllocateInv, InsertInv,
     InsertFailsInv DEF Recv
<1>2. CASE \E q \in Queues : Worker(q)
  BY <1>2, RemoveInv, HandleInv, FreeInv DEF Worker
<1>3. CASE (\E c \in Menu : Arrive(c)) \/ FloodMore
  BY <1>3, ArriveInv, FloodInv
<1>4. CASE Terminate \/ Turn \/ UNCHANGED vars
  BY <1>4, OutsideInv
<1> QED
  BY <1>1, <1>2, <1>3, <1>4 DEF Next

LEMMA Inductive == Spec => []IInv
BY InitInv, NextInv, PTL DEF Spec

\* Where each thread may be, and what it then holds.
THEOREM TypeCorrect == Spec => []TypeOK
<1>1. IInv => TypeOK
  BY DEF IInv
<1> QED
  BY <1>1, Inductive, PTL

\* Nothing that a queue or a thread of the daemon holds has been freed, and
\* nothing is allocated that none of them holds, except the payloads that a
\* refused insertion leaks (ddp_thread.c:308-315).
THEOREM MemoryAccounted == Spec => []Accounted
<1>1. IInv => Accounted
  BY DEF IInv
<1> QED
  BY <1>1, Inductive, PTL

\* A halted daemon takes at most the message it was about to take
\* (ddp_thread.c:253, 480, 555).
THEOREM HaltIsRespected == Spec => []HaltStops
<1>1. IInv => HaltStops
  BY DEF IInv, HaltKept, HaltStops, TypeOK
<1> QED
  BY <1>1, Inductive, PTL
=============================================================================
