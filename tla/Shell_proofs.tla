---------------------------- MODULE Shell_proofs ----------------------------
(***************************************************************************)
(* The shell and the srv_v1 thread on the buffer they share without a      *)
(* lock, proved for every room in the buffer, every menu of messages and   *)
(* every number of commands and answers: the buffer is never written past  *)
(* its end by more than the text that was being appended, and the reply to *)
(* a discovery holds what came in its time.                                *)
(*                                                                         *)
(* Both rest on what the srv_v1 thread knows of the buffer between its two *)
(* steps: that there is room for its text as long as nothing moved, and    *)
(* that the shell has only ever cleared it when something did, until the   *)
(* reply is sent.                                                          *)
(***************************************************************************)
EXTENDS Shell, SequenceTheorems, TLAPS

\* The sequences hold what is put into them.
Typed ==
  /\ command \in Seq(Commands) /\ inbox \in Seq(1..Len(command))
  /\ buf \in Seq(Int) /\ since \in Seq(Int)
  /\ answers \in Seq([kind : Kinds, known : BOOLEAN, nr : 1..coming])
  /\ replies \in Seq([cmd : 1..Len(command), as : Commands, text : Seq(Int), since : Seq(Int)])

\* The srv_v1 thread has room for its text until the shell moves the buffer, and
\* then one text at most stands over the end.
Roomy ==
  /\ add # 0 /\ ~moved => Len(buf) < Room
  /\ add # 0 /\ moved => Len(buf) <= Room /\ (pc = "read" => buf = <<>>)

\* From position p + 1 on, t has the first n of s; those left out are too many.
HasAt(t, s, n, p) ==
  /\ p + n <= Len(t) /\ \A i \in 1..n : t[p + i] = s[i]
  /\ n < Len(s) => p + n >= Room

\* What WaitAnswers says of one reply.
Answered(t, s) ==
  \E p \in {0, 1}, n \in 0..Len(s) : Len(t) <= p + n + 1 /\ HasAt(t, s, n, p)

\* The buffer is one text at most and the first n of s.
Gathers(t, s) == \E p \in {0, 1}, n \in 0..Len(s) : Len(t) = p + n /\ HasAt(t, s, n, p)

\* While a discovery runs the buffer holds what came since it was cleared, after
\* one text at most; it is empty if the shell cleared it during an append.
Collects ==
  /\ pc \in Commands => branch = pc
  /\ pc \in {"s", "s n", "wait", "reply"} /\ branch \in {"s", "s n"} =>
       /\ Gathers(buf, since)
       /\ add # 0 /\ moved => buf = <<>> /\ since = <<>>

Kept == \A k \in DOMAIN replies : replies[k].as \in {"s", "s n"} => Answered(replies[k].text, replies[k].since)

IInv == TypeOK /\ Typed /\ Roomy /\ Collects /\ Kept

-----------------------------------------------------------------------------
(* Sequences. *)

\* What is appended stands at the end, and the rest stays.
LEMMA Appended ==
  ASSUME NEW S, NEW s \in Seq(S), NEW e \in S
  PROVE  /\ Append(s, e) \in Seq(S) /\ Len(Append(s, e)) = Len(s) + 1 /\ Len(s) \in Nat
         /\ Append(s, e)[Len(s) + 1] = e
         /\ \A i \in 1..Len(s) : Append(s, e)[i] = s[i]
OBVIOUS

\* What is appended to a buffer of texts, if it is a text, makes another.
LEMMA AppendedIn == ASSUME NEW s \in Seq(Int), NEW e \in Int PROVE Append(s, e) \in Seq(Int)
BY Appended

\* Sequences of one text and of two.
LEMMA ShortSeqs ==
  ASSUME NEW a \in Int, NEW b \in Int
  PROVE  /\ <<a>> \in Seq(Int) /\ <<a, b>> \in Seq(Int)
         /\ Len(<<a>>) = 1 /\ Len(<<a, b>>) = 2
OBVIOUS

\* The empty buffer.
LEMMA EmptyText == <<>> \in Seq(Int) /\ Len(<<>>) = 0
OBVIOUS

\* A sequence over a set is one over a larger set.
LEMMA SeqOfMore ==
  ASSUME NEW S, NEW T, S \subseteq T, NEW s \in Seq(S)
  PROVE  s \in Seq(T)
OBVIOUS

\* One text more on both sides, if there is room, is still the same place.
LEMMA HasMore ==
  ASSUME NEW t \in Seq(Int), NEW s \in Seq(Int), NEW e \in Int, Gathers(t, s), Len(t) < Room
  PROVE  Gathers(Append(t, e), Append(s, e))
<1>1. PICK p \in {0, 1}, n \in 0..Len(s) : Len(t) = p + n /\ HasAt(t, s, n, p)
  BY DEF Gathers
<1>2. n = Len(s) /\ n \in Nat /\ Room \in Nat
  BY <1>1, ShellAssumption DEF HasAt
<1>3. n + 1 \in 0..Len(Append(s, e)) /\ Len(Append(t, e)) = p + (n + 1)
  BY <1>1, <1>2, Appended
<1>4. HasAt(Append(t, e), Append(s, e), n + 1, p)
  <2>1. Len(Append(s, e)) = n + 1 /\ Append(s, e)[n + 1] = e /\ Append(t, e)[p + (n + 1)] = e
    BY <1>1, <1>2, Appended
  <2>2. \A i \in 1..n : Append(t, e)[p + i] = Append(s, e)[i]
    BY <1>1, <1>2, Appended DEF HasAt
  <2> QED
    BY <1>2, <1>3, <2>1, <2>2 DEF HasAt
<1> QED
  BY <1>3, <1>4 DEF Gathers

\* An answer for which there is no room changes nothing.
LEMMA HasDropped ==
  ASSUME NEW t \in Seq(Int), NEW s \in Seq(Int), NEW e \in Int, Gathers(t, s), ~(Len(t) < Room)
  PROVE  Gathers(t, Append(s, e))
<1>1. PICK p \in {0, 1}, n \in 0..Len(s) : Len(t) = p + n /\ HasAt(t, s, n, p)
  BY DEF Gathers
<1>2. n \in Nat /\ n <= Len(s) /\ Len(s) \in Nat /\ p + n >= Room
  BY <1>1, ShellAssumption
<1>3. n \in 0..Len(Append(s, e)) /\ \A i \in 1..n : Append(s, e)[i] = s[i]
  BY <1>2, Appended
<1>4. HasAt(t, Append(s, e), n, p)
  BY <1>1, <1>2, <1>3 DEF HasAt
<1> QED
  BY <1>1, <1>3, <1>4 DEF Gathers

\* A scrap behind does not disturb what is in place.
LEMMA HasBefore ==
  ASSUME NEW t \in Seq(Int), NEW s \in Seq(Int), NEW p \in {0, 1}, NEW n \in 0..Len(s), NEW e \in Int,
         HasAt(t, s, n, p)
  PROVE  HasAt(Append(t, e), s, n, p)
BY Appended DEF HasAt

\* A cleared buffer gathers nothing, and one that holds a text of before, nothing new.
LEMMA HasNothing ==
  /\ Gathers(<<>>, <<>>)
  /\ \A e \in Int : Gathers(<<e>>, <<>>)
<1>1. Len(<<>>) = 0 /\ 0 \in 0..Len(<<>>)
  OBVIOUS
<1>2. HasAt(<<>>, <<>>, 0, 0)
  BY DEF HasAt
<1>3. \A e \in Int : Len(<<e>>) = 1 /\ HasAt(<<e>>, <<>>, 0, 1)
  BY DEF HasAt
<1> QED
  BY <1>1, <1>2, <1>3 DEF Gathers

\* What stands in place is what SubSeq cuts out.
LEMMA HasSub ==
  ASSUME NEW t \in Seq(Int), NEW s \in Seq(Int), NEW p \in {0, 1}, NEW n \in 0..Len(s), HasAt(t, s, n, p)
  PROVE  SubSeq(t, p + 1, p + n) = SubSeq(s, 1, n)
<1> DEFINE u == SubSeq(t, p + 1, p + n)
           v == SubSeq(s, 1, n)
<1>1. n \in Nat /\ Len(s) \in Nat /\ n <= Len(s) /\ Len(t) \in Nat /\ p + n <= Len(t)
  BY DEF HasAt
<1>2. u \in Seq(Int) /\ Len(u) = n /\ \A i \in 1..n : u[i] = t[p + i]
  BY <1>1
<1>3. v \in Seq(Int) /\ Len(v) = n /\ \A i \in 1..n : v[i] = s[i]
  BY <1>1
<1>4. \A i \in 1..Len(u) : u[i] = v[i]
  BY <1>1, <1>2, <1>3 DEF HasAt
<1> HIDE DEF u, v
<1>5. u = v
  BY <1>2, <1>3, <1>4, SeqEqual
<1> QED
  BY <1>5 DEF u, v

\* The texts of the shell are numbers, as every text is.
LEMMA Texts ==
  /\ DOMAIN Own = {"e", "d", "v", "x"} /\ \A c \in DOMAIN Own : Own[c] \in Int
  /\ Scrap \in Int /\ \A c \in Int : CmdText(c) \in Int
BY DEF Own, Scrap, CmdText

-----------------------------------------------------------------------------
(* Types. *)

Types == TypeOK /\ Typed

\* The text the srv_v1 thread appends is the number of an answer that came.
LEMMA AddType == TypeOK => add \in Int /\ (add # 0 => add \in 1..coming)
BY ShellAssumption DEF TypeOK

\* The command that was read.
LEMMA ParsedType == Types /\ pc = "parse" => cur \in 1..Len(command) /\ Parsed \subseteq Commands
<1> SUFFICES ASSUME Types, pc = "parse" PROVE cur \in 1..Len(command) /\ Parsed \subseteq Commands
  OBVIOUS
<1>1. command \in Seq(Commands) /\ cur \in 0..Len(command) /\ cur # 0
  BY DEF Types, TypeOK
<1>2. cur \in 1..Len(command) /\ command[cur] \in Commands
  BY <1>1
<1>3. "x" \in Commands
  BY DEF Commands
<1> QED
  BY <1>2, <1>3 DEF Parsed

\* The answer that is handled next is one that came.
LEMMA HeadType ==
  ASSUME Typed, TypeOK, answers # <<>>
  PROVE  Head(answers).nr \in 1..coming /\ Head(answers).nr \in Int
<1> DEFINE A == [kind : Kinds, known : BOOLEAN, nr : 1..coming]
<1>1. answers \in Seq(A) /\ \A a \in A : a.nr \in 1..coming
  BY DEF Typed
<1>2. coming \in Nat
  BY ShellAssumption DEF TypeOK
<1> HIDE DEF A
<1>3. Head(answers) \in A
  BY <1>1
<1> QED
  BY <1>1, <1>2, <1>3

\* What a step puts into the sequences belongs there.
LEMMA NextTyped == Types /\ [Next]_vars => Typed'
<1> SUFFICES ASSUME Types, [Next]_vars PROVE Typed'
  OBVIOUS
<1>0. Typed /\ TypeOK
  BY DEF Types
<1>1. CASE Ask \/ Wake \/ Terminate \/ UNCHANGED vars
  BY <1>0, <1>1 DEF Ask, Wake, Terminate, vars, UnchangedByShell, Typed
<1>10. CASE Top
  <2>1. buf' = buf \/ buf' = <<>>
    BY <1>10 DEF Top, Write
  <2>2. buf' \in Seq(Int)
    <3>1. buf \in Seq(Int)
      BY <1>0 DEF Typed
    <3> QED
      BY <2>1, <3>1, EmptyText
  <2> QED
    BY <1>0, <1>10, <2>2 DEF Top, UnchangedByShell, Typed
<1>2. CASE Read
  <2>1. CASE inbox = <<>>
    BY <1>0, <1>2, <2>1 DEF Read, UnchangedByShell, Typed
  <2>2. CASE inbox # <<>>
    <3>1. Head(inbox) \in 1..Len(command) /\ Tail(inbox) \in Seq(1..Len(command)) /\ Len(command) \in Nat
      BY <1>0, <2>2 DEF Typed
    <3>2. CmdText(Head(inbox)) \in Int /\ Scrap \in Int
      BY <3>1 DEF CmdText, Scrap
    <3>3. inbox' = Tail(inbox) /\ (buf' = <<CmdText(Head(inbox))>> \/ buf' = <<CmdText(Head(inbox)), Scrap>>)
      BY <1>2, <2>2 DEF Read, Write
    <3>4. buf' \in Seq(Int)
      BY <3>2, <3>3, ShortSeqs
    <3> QED
      BY <1>0, <1>2, <2>2, <3>1, <3>3, <3>4 DEF Read, UnchangedByShell, Typed
  <2> QED
    BY <2>1, <2>2
<1>3. CASE Parse
  BY <1>0, <1>3 DEF Parse, UnchangedByShell, Write, Typed
<1>4. CASE Act
  <2>1. buf' \in Seq(Int)
    BY <1>4, Texts DEF Act, Write
  <2> QED
    BY <1>0, <1>4, <2>1 DEF Act, UnchangedByShell, Typed
<1>5. CASE Reply
  <2>1. PICK b \in {buf} \cup (IF add # 0 THEN {Append(buf, Scrap)} ELSE {})
                \cup (IF add # 0 /\ moved THEN {<<Scrap>>} ELSE {}) :
          replies' = Append(replies, [cmd |-> cur, as |-> branch, text |-> b, since |-> since])
    BY <1>5 DEF Reply
  <2>a. b = buf \/ b = Append(buf, Scrap) \/ b = <<Scrap>>
    BY <2>1
  <2>b. buf \in Seq(Int) /\ Scrap \in Int
    BY <1>0, Texts DEF Typed
  <2>2. b \in Seq(Int)
    <3>1. Append(buf, Scrap) \in Seq(Int)
      BY <2>b, AppendedIn
    <3>2. <<Scrap>> \in Seq(Int)
      BY <2>b, ShortSeqs
    <3> QED
      BY <2>a, <2>b, <3>1, <3>2
  <2>3. cur \in 1..Len(command) /\ branch \in Commands /\ since \in Seq(Int)
    BY <1>0, <1>5 DEF Reply, TypeOK, Typed
  <2> DEFINE R == [cmd : 1..Len(command), as : Commands, text : Seq(Int), since : Seq(Int)]
  <2>4. [cmd |-> cur, as |-> branch, text |-> b, since |-> since] \in R /\ replies \in Seq(R)
    BY <1>0, <2>2, <2>3 DEF Typed
  <2> HIDE DEF R
  <2>5. replies' \in Seq(R)
    BY <2>1, <2>4
  <2> QED
    BY <1>0, <1>5, <2>5 DEF Reply, UnchangedByShell, Typed, R
<1>6. CASE Dispatch
  <2>1. Tail(answers) \in Seq([kind : Kinds, known : BOOLEAN, nr : 1..coming])
    BY <1>0, <1>6 DEF Dispatch, Typed
  <2>2. since' \in Seq(Int)
    <3>1. Head(answers).nr \in Int
      BY <1>0, <1>6, HeadType DEF Dispatch
    <3>2. since \in Seq(Int) /\ Append(since, Head(answers).nr) \in Seq(Int)
      BY <1>0, <3>1, AppendedIn DEF Typed
    <3> QED
      BY <1>6, <3>2 DEF Dispatch
  <2> QED
    BY <1>0, <1>6, <2>1, <2>2 DEF Dispatch, UnchangedBySrvV1, Typed
<1>7. CASE AppendText
  <2>1. add \in Int
    BY <1>0, AddType
  <2>a. /\ buf' \in {buf, Append(buf, add), <<add>>, Append(buf, Scrap), <<Scrap>>}
        /\ since' \in {since, Append(since, add)}
    BY <1>7 DEF AppendText
  <2>b. buf \in Seq(Int) /\ since \in Seq(Int) /\ Scrap \in Int
    BY <1>0, Texts DEF Typed
  <2>2. buf' \in Seq(Int) /\ since' \in Seq(Int)
    <3>1. Append(buf, Scrap) \in Seq(Int) /\ Append(buf, add) \in Seq(Int) /\ Append(since, add) \in Seq(Int)
      BY <2>b, <2>1, AppendedIn
    <3>2. <<Scrap>> \in Seq(Int) /\ <<add>> \in Seq(Int)
      BY <2>b, <2>1, ShortSeqs
    <3> QED
      BY <2>a, <2>b, <3>1, <3>2
  <2> QED
    BY <1>0, <1>7, <2>2 DEF AppendText, UnchangedBySrvV1, Typed
<1>8. ASSUME NEW c \in Commands, Send(c) PROVE Typed'
  <2>1. command' \in Seq(Commands) /\ Len(command') = Len(command) + 1 /\ Len(command) \in Nat
    BY <1>0, <1>8, Appended DEF Send, Typed
  <2>2. \A k \in 1..Len(command) : k \in 1..Len(command')
    BY <2>1
  <2>3. inbox \in Seq(1..Len(command')) /\ Len(command') \in 1..Len(command')
    BY <1>0, <2>1, <2>2, SeqOfMore DEF Typed
  <2>4. inbox' \in Seq(1..Len(command'))
    BY <1>8, <2>3 DEF Send
  <2>5. replies \in Seq([cmd : 1..Len(command'), as : Commands, text : Seq(Int), since : Seq(Int)])
    <3> DEFINE R(n) == [cmd : 1..n, as : Commands, text : Seq(Int), since : Seq(Int)]
    <3>1. R(Len(command)) \subseteq R(Len(command'))
      BY <2>2
    <3>2. replies \in Seq(R(Len(command)))
      BY <1>0 DEF Typed
    <3> HIDE DEF R
    <3>3. replies \in Seq(R(Len(command')))
      BY <3>1, <3>2, SeqOfMore
    <3> QED
      BY <3>3 DEF R
  <2> QED
    BY <1>0, <1>8, <2>1, <2>4, <2>5 DEF Send, Typed
<1>9. ASSUME NEW m \in Menu, Answer(m) PROVE Typed'
  <2>1. coming' = coming + 1 /\ coming \in Nat
    BY <1>0, <1>9, ShellAssumption DEF Answer, TypeOK
  <2> DEFINE A(n) == [kind : Kinds, known : BOOLEAN, nr : 1..n]
  <2>2. answers \in Seq(A(coming'))
    <3>1. A(coming) \subseteq A(coming')
      BY <2>1
    <3>2. answers \in Seq(A(coming))
      BY <1>0 DEF Typed
    <3> HIDE DEF A
    <3> QED
      BY <3>1, <3>2, SeqOfMore
  <2>3. [kind |-> m.kind, known |-> m.known, nr |-> coming'] \in A(coming')
    BY <2>1, ShellAssumption
  <2>4. answers' = Append(answers, [kind |-> m.kind, known |-> m.known, nr |-> coming'])
    BY <1>9 DEF Answer
  <2> HIDE DEF A
  <2>5. answers' \in Seq(A(coming'))
    BY <2>2, <2>3, <2>4
  <2> QED
    BY <1>0, <1>9, <2>5 DEF Answer, Typed, A
<1> QED
  BY <1>1, <1>2, <1>3, <1>4, <1>5, <1>6, <1>7, <1>8, <1>9, <1>10 DEF Next, ShellThread, SrvV1Thread

\* The commands wait in the order in which they came.
InOrder == \A k \in DOMAIN inbox : k > 1 => inbox[k - 1] < inbox[k]

\* A thread that writes the buffer moves it for an append that is under way.
LEMMA WriteMoves ==
  ASSUME NEW b, Write(b)
  PROVE  buf' = b /\ moved' \in BOOLEAN /\ (moved' <=> add # 0)
BY DEF Write

\* The rest of TypeOK that is about one variable or two.
Small ==
  /\ Len(command) <= MaxCommands
  /\ pc \in {"top", "read", "parse", "wait", "reply", "done"} \cup Commands
  /\ cur \in 0..Len(command) /\ (pc \in {"parse", "wait", "reply"} \cup Commands => cur # 0)
  /\ branch \in Commands /\ run \in BOOLEAN /\ asked \in BOOLEAN /\ over \in BOOLEAN /\ moved \in BOOLEAN
  /\ coming \in 0..MaxAnswers /\ add \in 0..coming

\* The buffer has one text too many at most.
Fits == Len(buf) <= Room + 1

\* What Typed says of the numbers of commands is what TypeOK says of them.
LEMMA TypeParts == Typed /\ Small /\ InOrder /\ Fits => TypeOK
<1> SUFFICES ASSUME Typed, Small, InOrder, Fits PROVE TypeOK
  OBVIOUS
<1>1. DOMAIN command = 1..Len(command)
  BY DEF Typed
<1>2. \A k \in DOMAIN inbox : inbox[k] \in DOMAIN command
  BY <1>1 DEF Typed
<1>3. \A k \in DOMAIN replies : replies[k].cmd \in DOMAIN command
  <2> DEFINE R == [cmd : 1..Len(command), as : Commands, text : Seq(Int), since : Seq(Int)]
  <2>1. replies \in Seq(R) /\ \A r \in R : r.cmd \in 1..Len(command)
    BY DEF Typed
  <2> HIDE DEF R
  <2>2. \A k \in DOMAIN replies : replies[k] \in R
    BY <2>1
  <2> QED
    BY <1>1, <2>1, <2>2
<1> QED
  BY <1>2, <1>3 DEF Typed, Small, InOrder, Fits, TypeOK

\* Commands are taken from the front and added with a new number at the end.
LEMMA NextInOrder == Types /\ [Next]_vars => InOrder'
<1> SUFFICES ASSUME Types, [Next]_vars PROVE InOrder'
  OBVIOUS
<1>1. InOrder /\ inbox \in Seq(1..Len(command)) /\ Len(command) \in Nat
  BY DEF Types, TypeOK, Typed, InOrder
<1>2. CASE UNCHANGED inbox
  BY <1>1, <1>2 DEF InOrder
<1>3. CASE inbox # <<>> /\ inbox' = Tail(inbox)
  <2>1. Len(inbox') = Len(inbox) - 1 /\ Len(inbox) \in Nat /\ \A k \in 1..Len(inbox') : inbox'[k] = inbox[k + 1]
    BY <1>1, <1>3
  <2>2. DOMAIN inbox = 1..Len(inbox) /\ DOMAIN inbox' = 1..Len(inbox')
    BY <1>1, <1>3
  <2>3. ASSUME NEW k \in DOMAIN inbox', k > 1 PROVE inbox'[k - 1] < inbox'[k]
    <3>1. k \in 2..Len(inbox') /\ k - 1 \in 1..Len(inbox') /\ k + 1 \in DOMAIN inbox /\ k + 1 > 1
      BY <2>1, <2>2, <2>3
    <3>2. inbox'[k - 1] = inbox[k] /\ inbox'[k] = inbox[k + 1] /\ (k + 1) - 1 = k
      BY <2>1, <3>1
    <3> QED
      BY <1>1, <3>1, <3>2 DEF InOrder
  <2> QED
    BY <2>3 DEF InOrder
<1>4. ASSUME NEW c \in Commands, Send(c) PROVE InOrder'
  <2>1. Len(command') = Len(command) + 1
    BY <1>4 DEF Send, Types, Typed
  <2>2. inbox' = Append(inbox, Len(command'))
    BY <1>4 DEF Send
  <2>3. /\ Len(inbox') = Len(inbox) + 1 /\ Len(inbox) \in Nat
        /\ \A k \in 1..Len(inbox) : inbox'[k] = inbox[k] /\ inbox[k] \in 1..Len(command)
        /\ inbox'[Len(inbox) + 1] = Len(command) + 1
        /\ DOMAIN inbox = 1..Len(inbox) /\ DOMAIN inbox' = 1..Len(inbox')
    BY <1>1, <2>1, <2>2
  <2> QED
    BY <1>1, <2>3 DEF InOrder
<1> QED
  BY <1>2, <1>3, <1>4 DEF Next, ShellThread, SrvV1Thread, Top, Read, Parse, Act, Ask, Wake, Reply, Dispatch,
     AppendText, Answer, Terminate, UnchangedByShell, UnchangedBySrvV1, vars

\* Where the threads are, and the numbers they have.
LEMMA NextSmall == Types /\ [Next]_vars => Small'
<1> SUFFICES ASSUME Types, [Next]_vars PROVE Small'
  OBVIOUS
<1>0. Typed /\ TypeOK /\ Small /\ Len(command) \in Nat
  BY DEF Types, TypeOK, Typed, Small
<1>1. CASE Ask \/ Wake \/ Reply \/ Terminate \/ UNCHANGED vars
  BY <1>0, <1>1 DEF Ask, Wake, Reply, Terminate, vars, UnchangedByShell, Small, Commands
<1>8. CASE Top \/ Act
  <2>1. moved' \in BOOLEAN /\ run' \in BOOLEAN
    BY <1>0, <1>8, WriteMoves DEF Top, Act, Small
  <2>2. /\ pc \in {"top", "e", "d", "v", "x"} /\ pc' \in {"done", "read", "reply"} /\ (pc' = "reply" => pc # "top")
        /\ UNCHANGED <<command, cur, branch, asked, over, coming, add>>
    BY <1>8 DEF Top, Act, UnchangedByShell, Own
  <2> QED
    BY <1>0, <2>1, <2>2 DEF Small, Commands
<1>2. CASE Read
  <2>1. inbox # <<>> => Head(inbox) \in 1..Len(command)
    BY <1>0 DEF Typed
  <2>2. moved' \in BOOLEAN
    BY <1>0, <1>2, WriteMoves DEF Read, Small
  <2>3. /\ \/ pc' = "top" /\ cur' = cur
           \/ pc' = "parse" /\ cur' \in 1..Len(command)
        /\ UNCHANGED <<command, branch, run, asked, over, coming, add>>
    <3>1. UNCHANGED <<command, branch, run, asked, over, coming, add>>
      BY <1>2 DEF Read, UnchangedByShell
    <3>2. CASE inbox = <<>>
      <4>1. cur' = cur /\ pc' = "top"
        BY <1>2, <3>2 DEF Read
      <4> QED
        BY <3>1, <4>1
    <3>3. CASE inbox # <<>>
      <4>1. cur' = Head(inbox) /\ pc' = "parse"
        BY <1>2, <3>3 DEF Read
      <4> QED
        BY <2>1, <3>1, <3>3, <4>1
    <3> QED
      BY <3>2, <3>3
  <2>4. pc' \in {"top", "parse"} /\ (pc' = "parse" => cur' # 0) /\ cur' \in 0..Len(command)
    BY <1>0, <2>3 DEF Small
  <2>5. "top" \notin {"parse", "wait", "reply"} \cup Commands
    BY DEF Commands
  <2> QED
    BY <1>0, <2>2, <2>3, <2>4, <2>5 DEF Small
<1>3. CASE Parse
  BY <1>0, <1>3, ParsedType DEF Types, Parse, UnchangedByShell, Write, Small
<1>4. CASE Dispatch
  <2>1. Head(answers).nr \in 1..coming
    <3> DEFINE A == [kind : Kinds, known : BOOLEAN, nr : 1..coming]
    <3>1. answers \in Seq(A) /\ answers # <<>> /\ \A a \in A : a.nr \in 1..coming
      BY <1>0, <1>4 DEF Dispatch, Typed
    <3> HIDE DEF A
    <3>2. Head(answers) \in A
      BY <3>1
    <3> QED
      BY <3>1, <3>2
  <2>2. coming \in Nat
    BY <1>0, ShellAssumption DEF Small
  <2>3. add' = Head(answers).nr \/ add' = 0
    BY <1>4 DEF Dispatch
  <2>4. add' \in 0..coming
    BY <2>1, <2>2, <2>3
  <2>5. moved' = FALSE /\ UNCHANGED <<command, pc, cur, branch, run, asked, over, coming>>
    BY <1>4 DEF Dispatch, UnchangedBySrvV1
  <2> QED
    BY <1>0, <2>4, <2>5 DEF Small
<1>5. CASE AppendText
  BY <1>0, <1>5, ShellAssumption DEF AppendText, UnchangedBySrvV1, Small
<1>6. ASSUME NEW c \in Commands, Send(c) PROVE Small'
  <2>1. Len(command') = Len(command) + 1
    BY <1>0, <1>6, Appended DEF Send, Typed
  <2> QED
    BY <1>0, <1>6, <2>1, ShellAssumption DEF Send, Small
<1>7. ASSUME NEW m \in Menu, Answer(m) PROVE Small'
  BY <1>0, <1>7, ShellAssumption DEF Answer, Small
<1> QED
  BY <1>1, <1>2, <1>3, <1>4, <1>5, <1>6, <1>7, <1>8 DEF Next, ShellThread, SrvV1Thread

\* There is room for what the srv_v1 thread has looked for room for.
LEMMA NextRoomy == Types /\ Roomy /\ [Next]_vars => Roomy' /\ Fits'
<1> SUFFICES ASSUME Types, Roomy, [Next]_vars PROVE Roomy' /\ Fits'
  OBVIOUS
<1>0. /\ buf \in Seq(Int) /\ Len(buf) \in Nat /\ Len(buf) <= Room + 1 /\ Room \in Nat \ {0}
      /\ add \in Int /\ (buf # <<>> => Len(buf) > 0) /\ Scrap \in Int
  <2>1. buf \in Seq(Int) /\ Len(buf) <= Room + 1
    BY DEF Types, TypeOK, Typed
  <2>2. buf # <<>> => Len(buf) > 0
    BY <2>1
  <2> QED
    BY <2>1, <2>2, ShellAssumption, AddType, Texts DEF Types
<1>1. CASE Ask \/ Wake \/ Reply \/ Terminate \/ UNCHANGED vars
  <2>1. UNCHANGED <<buf, add, moved>> /\ (pc' = "read" => pc = "read")
    BY <1>1 DEF Ask, Wake, Reply, Terminate, vars, UnchangedByShell
  <2> QED
    BY <1>0, <2>1 DEF Roomy, Fits
<1>2. CASE Top
  BY <1>0, <1>2, EmptyText DEF Top, UnchangedByShell, Write, Roomy, Fits
<1>3. CASE Read
  <2>1. CASE inbox = <<>>
    BY <1>0, <1>3, <2>1 DEF Read, UnchangedByShell, Roomy, Fits
  <2>2. CASE inbox # <<>> /\ buf = <<>>
    <3>1. Len(buf') = 1 /\ pc' = "parse" /\ (moved' <=> add # 0) /\ add' = add
      BY <1>3, <2>2, WriteMoves, ShortSeqs, Texts DEF Read, UnchangedByShell
    <3> QED
      BY <1>0, <3>1 DEF Roomy, Fits
  <2>3. CASE inbox # <<>> /\ buf # <<>>
    <3>1. Len(buf') = 2 /\ pc' = "parse" /\ (moved' <=> add # 0) /\ add' = add /\ pc = "read"
      BY <1>3, <2>3, WriteMoves, ShortSeqs, Texts DEF Read, UnchangedByShell
    <3> QED
      BY <1>0, <2>3, <3>1 DEF Roomy, Fits
  <2> QED
    BY <2>1, <2>2, <2>3
<1>4. CASE Parse
  <2>1. pc' \in Commands
    BY <1>4, ParsedType DEF Parse
  <2>2. buf' = <<>> /\ (moved' <=> add # 0)
    BY <1>4, WriteMoves DEF Parse
  <2> QED
    BY <1>0, <2>1, <2>2, EmptyText DEF Roomy, Fits
<1>5. CASE Act
  <2>1. Len(buf') = 1 /\ pc' = "reply" /\ (moved' <=> add # 0) /\ add' = add
    BY <1>5, WriteMoves DEF Act, UnchangedByShell
  <2> QED
    BY <1>0, <2>1 DEF Roomy, Fits
<1>6. CASE Dispatch
  BY <1>0, <1>6 DEF Dispatch, UnchangedBySrvV1, Roomy, Fits
<1>7. CASE AppendText
  <2>1. CASE ~moved
    <3>1. buf' = Append(buf, add) /\ add' = 0 /\ Len(buf) < Room
      BY <1>7, <2>1 DEF AppendText, Roomy, Fits
    <3>2. Len(buf') = Len(buf) + 1
      BY <1>0, <3>1
    <3> QED
      BY <1>0, <3>1, <3>2 DEF Roomy, Fits
  <2>2. CASE moved
    <3>1. buf' \in {buf, Append(buf, add), <<add>>, Append(buf, Scrap), <<Scrap>>} /\ add' = 0 /\ Len(buf) <= Room
      BY <1>7, <2>2 DEF AppendText, Roomy, Fits
    <3>2. Len(Append(buf, add)) <= Room + 1 /\ Len(Append(buf, Scrap)) <= Room + 1 /\ Len(buf) <= Room + 1
      BY <1>0, <3>1
    <3>4. Len(<<add>>) <= Room + 1 /\ Len(<<Scrap>>) <= Room + 1
      BY <1>0
    <3>3. Len(buf') <= Room + 1
      <4> HIDE DEF Scrap
      <4> QED
        BY <3>1, <3>2, <3>4, Zenon
    <3> QED
      BY <3>1, <3>3 DEF Roomy, Fits
  <2> QED
    BY <1>0, <2>1, <2>2
<1>8. ASSUME NEW c \in Commands, Send(c) PROVE Roomy' /\ Fits'
  BY <1>0, <1>8 DEF Send, Roomy, Fits
<1>9. ASSUME NEW m \in Menu, Answer(m) PROVE Roomy' /\ Fits'
  BY <1>0, <1>9 DEF Answer, Roomy, Fits
<1> QED
  BY <1>1, <1>2, <1>3, <1>4, <1>5, <1>6, <1>7, <1>8, <1>9 DEF Next, ShellThread, SrvV1Thread

-----------------------------------------------------------------------------
(* The answer to a discovery. *)

\* While a discovery runs the shell leaves the buffer alone and the srv_v1 thread
\* puts its texts at the end, or whatever it puts into a cleared one.
LEMMA NextCollects == Types /\ Roomy /\ Collects /\ [Next]_vars => Collects'
<1> SUFFICES ASSUME Types, Roomy, Collects, [Next]_vars PROVE Collects'
  OBVIOUS
<1>0. /\ buf \in Seq(Int) /\ since \in Seq(Int) /\ add \in Int /\ Scrap \in Int
  BY AddType, Texts DEF Types, Typed
<1>r. Room \in Nat
  BY ShellAssumption
<1> DEFINE Waits == pc \in {"s", "s n", "wait", "reply"} /\ branch \in {"s", "s n"}
<1>1. CASE Ask \/ Wake \/ Terminate \/ UNCHANGED vars
  <2>1. UNCHANGED <<buf, since, add, moved, branch>> /\ (pc' = pc \/ pc' \in {"wait", "reply"})
    BY <1>1 DEF Ask, Wake, Terminate, vars, UnchangedByShell
  <2>2. pc' # pc => pc \in {"s", "s n", "b", "wait"}
    BY <1>1 DEF Ask, Wake, Terminate, vars
  <2>3. pc = "b" => branch = "b"
    BY DEF Collects, Commands
  <2> QED
    BY <2>1, <2>2, <2>3 DEF Collects, Commands
<1>2. CASE Top \/ Read \/ Act \/ Reply
  <2>1. pc' \in {"top", "done", "read", "parse", "reply"} /\ branch' = branch
    BY <1>2 DEF Top, Read, Act, Reply
  <2>2. pc' = "reply" => pc \in {"e", "d", "v", "x"}
    BY <1>2 DEF Top, Read, Act, Reply, Own
  <2>3. pc \in {"e", "d", "v", "x"} => branch = pc
    BY DEF Collects, Commands
  <2> QED
    BY <2>1, <2>2, <2>3 DEF Collects, Commands
<1>3. CASE Parse
  <2>1. buf' = <<>> /\ since' = <<>> /\ branch' = pc'
    BY <1>3, WriteMoves DEF Parse
  <2> QED
    BY <2>1, HasNothing DEF Collects
<1>4. CASE Dispatch
  <2>1. UNCHANGED <<buf, pc, branch>> /\ ~moved'
    BY <1>4 DEF Dispatch, UnchangedBySrvV1
  <2>2. since' = since \/ (~(Len(buf) < Room) /\ since' = Append(since, Head(answers).nr))
    <3>1. Len(buf) \in Nat
      BY <1>0
    <3> QED
      BY <1>4, <1>r, <3>1 DEF Dispatch
  <2>3. Head(answers).nr \in Int
    BY <1>4, HeadType DEF Types, Dispatch
  <2>4. ASSUME Waits PROVE Gathers(buf, since')
    BY <1>0, <2>2, <2>3, <2>4, HasDropped DEF Collects
  <2> QED
    BY <2>1, <2>4 DEF Collects
<1>5. CASE AppendText
  <2>1. UNCHANGED <<pc, branch>> /\ add' = 0
    BY <1>5 DEF AppendText, UnchangedBySrvV1
  <2>2. pc \in Commands => branch = pc
    BY DEF Collects
  <2>3. ASSUME Waits PROVE Gathers(buf', since')
    <3>2. CASE ~moved
      <4>1. buf' = Append(buf, add) /\ since' = Append(since, add) /\ add # 0
        BY <1>5, <3>2 DEF AppendText
      <4>2. Len(buf) < Room
        BY <3>2, <4>1 DEF Roomy
      <4> QED
        BY <1>0, <2>3, <4>1, <4>2, HasMore DEF Collects
    <3>3. CASE moved
      <4>1. /\ buf' \in {buf, Append(buf, add), <<add>>, Append(buf, Scrap), <<Scrap>>} /\ since' = since
            /\ buf = <<>> /\ since = <<>>
        BY <1>5, <2>3, <3>3 DEF AppendText, Collects
      <4>2. \A e \in Int : Append(<<>>, e) = <<e>>
        OBVIOUS
      <4>3. buf' = <<>> \/ \E e \in Int : buf' = <<e>>
        BY <1>0, <4>1, <4>2
      <4> QED
        BY <4>1, <4>3, HasNothing
    <3> QED
      BY <3>2, <3>3
  <2> QED
    BY <2>1, <2>2, <2>3 DEF Collects
<1>6. ASSUME NEW c \in Commands, Send(c) PROVE Collects'
  BY <1>6 DEF Send, Collects
<1>7. ASSUME NEW m \in Menu, Answer(m) PROVE Collects'
  BY <1>7 DEF Answer, Collects
<1> QED
  BY <1>1, <1>2, <1>3, <1>4, <1>5, <1>6, <1>7 DEF Next, ShellThread, SrvV1Thread

\* What is sent is what was collected, and a part of a text behind it at most.
LEMMA NextKept == Types /\ Collects /\ Kept /\ [Next]_vars => Kept'
<1> SUFFICES ASSUME Types, Collects, Kept, [Next]_vars PROVE Kept'
  OBVIOUS
<1>1. CASE UNCHANGED replies
  BY <1>1 DEF Kept
<1>2. CASE Reply
  <2>1. PICK b \in {buf} \cup (IF add # 0 THEN {Append(buf, Scrap)} ELSE {})
                \cup (IF add # 0 /\ moved THEN {<<Scrap>>} ELSE {}) :
          replies' = Append(replies, [cmd |-> cur, as |-> branch, text |-> b, since |-> since])
    BY <1>2 DEF Reply
  <2>2. b = buf \/ b = Append(buf, Scrap) \/ (add # 0 /\ moved /\ b = <<Scrap>>)
    BY <2>1
  <2>3. buf \in Seq(Int) /\ since \in Seq(Int) /\ Scrap \in Int
    BY Texts DEF Types, Typed
  <2>4. ASSUME branch \in {"s", "s n"} PROVE Answered(b, since)
    <3>1. pc = "reply"
      BY <1>2 DEF Reply
    <3>2. PICK p \in {0, 1}, n \in 0..Len(since) : Len(buf) = p + n /\ HasAt(buf, since, n, p)
      BY <2>4, <3>1 DEF Collects, Gathers
    <3>3. CASE b = buf
      BY <2>3, <3>2, <3>3 DEF Answered
    <3>4. CASE b = Append(buf, Scrap)
      <4>1. HasAt(b, since, n, p) /\ Len(b) = Len(buf) + 1
        BY <2>3, <3>2, <3>4, HasBefore, Appended
      <4> QED
        BY <2>3, <3>2, <4>1 DEF Answered
    <3>5. CASE add # 0 /\ moved /\ b = <<Scrap>>
      <4>1. since = <<>>
        BY <2>4, <3>1, <3>5 DEF Collects
      <4>2. Len(<<Scrap>>) = 1 /\ HasAt(<<Scrap>>, <<>>, 0, 1) /\ 0 \in 0..Len(<<>>)
        BY DEF HasAt
      <4> QED
        BY <3>5, <4>1, <4>2 DEF Answered
    <3> QED
      BY <2>2, <3>3, <3>4, <3>5
  <2> DEFINE r == [cmd |-> cur, as |-> branch, text |-> b, since |-> since]
  <2>5. r.as \in {"s", "s n"} => Answered(r.text, r.since)
    BY <2>4
  <2> DEFINE R == [cmd : 1..Len(command), as : Commands, text : Seq(Int), since : Seq(Int)]
  <2>6. replies \in Seq(R)
    BY DEF Types, Typed
  <2> HIDE DEF r, R
  <2>7. replies' = Append(replies, r)
    BY <2>1 DEF r
  <2>8. \A k \in DOMAIN replies' : (k \in DOMAIN replies /\ replies'[k] = replies[k]) \/ replies'[k] = r
    BY <2>6, <2>7
  <2> QED
    BY <2>5, <2>8 DEF Kept
<1> QED
  BY <1>1, <1>2 DEF Next, ShellThread, SrvV1Thread, Top, Read, Parse, Act, Ask, Wake, Dispatch, AppendText,
     Send, Answer, Terminate, UnchangedByShell, UnchangedBySrvV1, vars

-----------------------------------------------------------------------------
(* The theorems. *)

\* At the start the buffer is empty and nothing has been sent.
LEMMA InitIInv == Init => IInv
<1> SUFFICES ASSUME Init PROVE IInv
  OBVIOUS
<1>1. Typed
  BY DEF Init, Typed, Commands
<1>2. Small /\ InOrder /\ Fits
  <2>1. Len(command) = 0 /\ DOMAIN inbox = {} /\ Len(buf) = 0
    BY DEF Init
  <2>2. InOrder
    BY <2>1 DEF InOrder
  <2>3. Fits
    BY <2>1, ShellAssumption DEF Fits
  <2>4. Small
    <3>1. /\ cur = 0 /\ pc = "top" /\ branch = "x" /\ run = TRUE /\ asked = FALSE /\ over = FALSE
          /\ moved = FALSE /\ coming = 0 /\ add = 0
      BY DEF Init
    <3>2. "top" \notin {"parse", "wait", "reply"} \cup Commands /\ "x" \in Commands
      BY DEF Commands
    <3>3. Len(command) <= MaxCommands /\ cur \in 0..Len(command) /\ coming \in 0..MaxAnswers /\ add \in 0..coming
      BY <2>1, <3>1, ShellAssumption
    <3> QED
      BY <3>1, <3>2, <3>3 DEF Small
  <2> QED
    BY <2>2, <2>3, <2>4
<1>3. Roomy /\ Collects /\ Kept
  BY DEF Init, Roomy, Collects, Kept, Commands
<1> QED
  BY <1>1, <1>2, <1>3, TypeParts DEF IInv

\* Every step keeps the invariant.
LEMMA NextIInv == IInv /\ [Next]_vars => IInv'
<1> SUFFICES ASSUME IInv, [Next]_vars PROVE IInv'
  OBVIOUS
<1>1. Types
  BY DEF IInv, Types
<1>2. Typed' /\ Small' /\ InOrder' /\ Roomy' /\ Fits'
  BY <1>1, NextTyped, NextSmall, NextInOrder, NextRoomy DEF IInv
<1>3. TypeOK'
  BY <1>2, TypeParts, PTL
<1>4. Collects' /\ Kept'
  BY <1>1, NextCollects, NextKept DEF IInv
<1> QED
  BY <1>2, <1>3, <1>4 DEF IInv

\* What stands in its place is cut out of the reply by SubSeq.
LEMMA OneAnswer ==
  ASSUME NEW t \in Seq(Int), NEW s \in Seq(Int), Answered(t, s)
  PROVE  \E p \in {0, 1}, n \in 0..Len(s) :
           /\ Len(t) - (p + n) \in {0, 1}
           /\ SubSeq(t, p + 1, p + n) = SubSeq(s, 1, n)
           /\ n < Len(s) => p + n >= Room
<1>1. PICK p \in {0, 1}, n \in 0..Len(s) : Len(t) <= p + n + 1 /\ HasAt(t, s, n, p)
  BY DEF Answered
<1>2. Len(t) \in Nat /\ n \in Nat /\ p + n <= Len(t) /\ (n < Len(s) => p + n >= Room)
  BY <1>1 DEF HasAt
<1>3. Len(t) - (p + n) \in {0, 1}
  BY <1>1, <1>2
<1>4. SubSeq(t, p + 1, p + n) = SubSeq(s, 1, n)
  BY <1>1, HasSub
<1> QED
  BY <1>2, <1>3, <1>4

\* That is what WaitAnswers asks of every reply.
LEMMA AnswersFollow == IInv => WaitAnswers
<1> SUFFICES ASSUME IInv PROVE WaitAnswers
  OBVIOUS
<1> DEFINE R == [cmd : 1..Len(command), as : Commands, text : Seq(Int), since : Seq(Int)]
<1>1. replies \in Seq(R)
  BY DEF IInv, Typed
<1>2. \A r \in R : r.text \in Seq(Int) /\ r.since \in Seq(Int)
  OBVIOUS
<1> HIDE DEF R
<1>3. ASSUME NEW k \in DOMAIN replies, replies[k].as \in {"s", "s n"}
      PROVE  \E p \in {0, 1}, n \in 0..Len(replies[k].since) :
               /\ Len(replies[k].text) - (p + n) \in {0, 1}
               /\ SubSeq(replies[k].text, p + 1, p + n) = SubSeq(replies[k].since, 1, n)
               /\ n < Len(replies[k].since) => p + n >= Room
  <2>1. replies[k] \in R
    BY <1>1
  <2>2. replies[k].text \in Seq(Int) /\ replies[k].since \in Seq(Int)
    BY <1>2, <2>1
  <2>3. Answered(replies[k].text, replies[k].since)
    BY <1>3 DEF IInv, Kept
  <2> QED
    BY <2>2, <2>3, OneAnswer
<1> QED
  BY <1>3, Zenon DEF WaitAnswers

\* No command or answer has any other form than the code can handle, the buffer
\* never has more than the one text too many that an append may write over its
\* end, and the commands wait in their order (ddp_shell.c:105-203).
THEOREM TypeCorrect == Spec => []TypeOK
<1>1. IInv => TypeOK
  BY DEF IInv
<1> QED
  BY <1>1, InitIInv, NextIInv, PTL DEF Spec

\* The reply to a discovery has the answers of the nodes that were handled while it
\* waited, in their order, up to the first for which there was no room, with one
\* text before them and a part of one behind them at most; an answer that was being
\* appended when the buffer was cleared may be lost (ddp_shell.c:98-113, 174-201).
THEOREM AnswersWait == Spec => []WaitAnswers
  BY InitIInv, NextIInv, AnswersFollow, PTL DEF Spec
=============================================================================
