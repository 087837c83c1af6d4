--------------------------- MODULE Requests_proofs ---------------------------
(***************************************************************************)
(* The requests and the platform, proved for every menu of requests, every *)
(* content of the files, every set of settings a setter may refuse, and    *)
(* every number of requests, failures, rewritten files and ends of the     *)
(* process: what a client may conclude from an answer is what the platform *)
(* has, a configuration file is whole at every moment, and the pages of an *)
(* answer hold every name.                                                 *)
(*                                                                         *)
(* A setting of a request is on its way from the list todo to the place    *)
(* where the platform keeps it, and no other step may touch it there: the  *)
(* other setting in the same file, the programs that rewrite the file, and *)
(* what clients have concluded from earlier answers come in between.       *)
(***************************************************************************)
EXTENDS Requests, FiniteSetTheorems, SequenceTheorems, WellFoundedInduction, TLAPS

\* The messages in the queue and in the alarms.
Msgs == Menu \cup {DelayMsg(r) : r \in {q \in Menu : q.op \in Restarts}}

Calls == [at : {"none", "copy", "rename", "store"}, field : InFile \cup {"none"}, val : Nat,
          in : Seq(Lines), cut : BOOLEAN, ok : BOOLEAN]

Kept == InMemory \cup (InFile \ {"SYSTEM_NAME"})

\* What TypeOK leaves out.
Typed ==
  /\ names \in [Lists -> Seq(Nat)] /\ call \in Calls
  /\ mq \in Seq(Msgs) /\ (phase # "idle" => cur \in Msgs)
  /\ alarm \in [Restarts -> Msgs \cup {Nothing}]
  /\ todo \in Seq(Fields \X Nat)
  /\ DOMAIN view \subseteq Kept /\ unsure \subseteq Files
  /\ phase = "delay" => cur.delay > 0

\* The settings still to be applied are settings of the request, with its values.
Planned ==
  phase # "idle" =>
    \A i \in DOMAIN todo :
      /\ todo[i][1] \in DOMAIN cur.val
      /\ todo[i][1] \in KeptOf(cur) => todo[i][2] = cur.val[todo[i][1]]

\* A setting of the request is where the platform keeps it, unless its file is
\* in other hands.
Stored(f) ==
  IF f \in InMemory THEN pf[f] = cur.val[f]
  ELSE FileOf[f] \in unsure \cup short \/ Read(f) = cur.val[f]

\* As long as nothing has failed, a setting is still to be applied or is stored.
Progress ==
  phase \in {"apply", "called"} /\ code = "ok" =>
    \A f \in KeptOf(cur) : (\E i \in DOMAIN todo : todo[i][1] = f) \/ Stored(f)

\* A file that was in order when the request was taken, and is in no other hands, is.
Lined == phase # "idle" => \A n \in Files \ (unsure \cup short) : HasLines(n)

\* Nothing is concluded of a setting that the request in hand names.
Apart == phase # "idle" => DOMAIN view \cap DOMAIN cur.val = {}

\* What is concluded of a setting in a file is read from the file.
Seen ==
  \A f \in DOMAIN view :
    /\ f \in InMemory => pf[f] = view[f]
    /\ f \notin InMemory /\ FileOf[f] \notin short => HasLines(FileOf[f]) /\ Read(f) = view[f]

\* A call works on the content the file has, and gives the setting its value.
InCall ==
  phase = "called" =>
    LET n == FileOf[call.field] IN
      /\ todo # <<>> /\ call.field = todo[1][1] /\ call.val = todo[1][2]
      /\ call.at \in {"copy", "rename"} =>
           /\ n \in short => call.cut
           /\ n \notin unsure => call.in = file[n]
           /\ ~call.cut => \E c \in Contents[n] : EditOf(call.in, c)
      /\ call.at = "rename" /\ ~call.cut => tmp[n] = Edited(call.field, call.in, call.val)
      /\ call.at = "store" /\ n \notin unsure \cup short /\ call.field \in KeptOf(cur) =>
           Read(call.field) = call.val

IInv == TypeOK /\ Typed /\ Planned /\ Progress /\ Lined /\ Apart /\ Seen /\ InCall /\ FileWhole

-----------------------------------------------------------------------------
(* The n-th of a set of line numbers. *)

\* A set of numbers that is not empty has a least one.
LEMMA LeastOf ==
  ASSUME NEW I \in SUBSET Nat, I # {}
  PROVE  \E x \in I : \A y \in I : x <= y
<1> DEFINE Less == {p \in Nat \X Nat : p[1] < p[2]}
<1>1. IsWellFoundedOn(Less, Nat)
  BY NatLessThanWellFounded, Zenon DEF OpToRel
<1> HIDE DEF Less
<1>2. PICK x \in I : \A y \in I : <<y, x>> \notin Less
  BY <1>1, WFMin
<1>3. ASSUME NEW y \in I PROVE x <= y
  <2>1. x \in Nat /\ y \in Nat /\ <<y, x>> \notin Less
    BY <1>2
  <2>2. ~(y < x)
    BY <2>1 DEF Less
  <2> QED
    BY <2>1, <2>2
<1> QED
  BY <1>3

\* A set of line numbers is finite, and has a greatest one if it is not empty.
LEMMA GreatestOf ==
  ASSUME NEW k \in Nat, NEW I \in SUBSET (1..k)
  PROVE  /\ IsFiniteSet(I) /\ Cardinality(I) \in Nat /\ (I # {} => Cardinality(I) >= 1)
         /\ I # {} => \E x \in I : \A y \in I : y <= x
<1>1. IsFiniteSet(I)
  <2>1. IsFiniteSet(1..k)
    BY FS_Interval
  <2> QED
    BY <2>1, FS_Subset
<1>2. Cardinality(I) \in Nat /\ (I # {} => Cardinality(I) >= 1)
  BY <1>1, FS_CardinalityType, FS_EmptySet
<1>3. ASSUME I # {} PROVE \E x \in I : \A y \in I : y <= x
  <2> DEFINE U == {u \in Nat : \A y \in I : y <= u}
  <2>1. k \in U
    OBVIOUS
  <2>2. U # {} /\ U \in SUBSET Nat
    BY <2>1
  <2>3. PICK x \in U : \A u \in U : x <= u
    BY <2>2, LeastOf
  <2>4. x \in Nat /\ \A y \in I : y <= x
    BY <2>3
  <2>5. x \in I
    <3>1. SUFFICES ASSUME x \notin I PROVE FALSE
      OBVIOUS
    <3>a. ASSUME NEW y \in I PROVE y >= 1 /\ y \in Nat
      <4>1. y \in 1..k
        OBVIOUS
      <4> QED
        BY <4>1
    <3>b. \E y : y \in I
      BY <1>3
    <3>2. PICK y \in I : y >= 1 /\ y \in Nat
      BY <3>a, <3>b
    <3>3. x >= 1 /\ x - 1 \in Nat
      BY <2>4, <3>2
    <3>4. \A z \in I : z <= x - 1
      BY <2>4, <3>1, <3>3
    <3>5. x - 1 \in U
      BY <3>3, <3>4
    <3> QED
      BY <2>3, <2>4, <3>3, <3>5
  <2> QED
    BY <2>4, <2>5
<1> QED
  BY <1>1, <1>2, <1>3

\* How many numbers of I there are up to i.
Upto(I, i) == {j \in I : j <= i}

\* The first one has no other before it.
LEMMA FirstLine ==
  ASSUME NEW k \in Nat, NEW I \in SUBSET (1..k), HasNth(I, 1)
  PROVE  Nth(I, 1) \in I /\ Cardinality(Upto(I, Nth(I, 1))) = 1
<1>1. I # {}
  BY FS_EmptySet DEF HasNth
<1>2. I \in SUBSET Nat
  OBVIOUS
<1>3. PICK x \in I : \A y \in I : x <= y
  BY <1>1, <1>2, LeastOf
<1>4. Upto(I, x) = {x}
  <2>1. \A y \in I : y \in Nat /\ x \in Nat
    BY <1>2
  <2>2. \A y \in I : y <= x <=> y = x
    BY <1>3, <2>1
  <2> QED
    BY <2>2 DEF Upto
<1>5. Cardinality(Upto(I, x)) = 1
  BY <1>4, FS_Singleton
<1> QED
  BY <1>5, Zenon DEF Nth, Upto

\* The second one has the first one before it.
LEMMA SecondLine ==
  ASSUME NEW k \in Nat, NEW I \in SUBSET (1..k), HasNth(I, 2)
  PROVE  Nth(I, 2) \in I /\ Cardinality(Upto(I, Nth(I, 2))) = 2
<1>1. IsFiniteSet(I) /\ Cardinality(I) >= 2 /\ I \in SUBSET Nat
  <2>1. IsFiniteSet(I)
    BY GreatestOf
  <2> QED
    BY <2>1 DEF HasNth
<1>2. I # {}
  BY <1>1, FS_EmptySet
<1>3. PICK x \in I : \A y \in I : x <= y
  BY <1>1, <1>2, LeastOf
<1>4. IsFiniteSet(I \ {x}) /\ Cardinality(I \ {x}) = Cardinality(I) - 1 /\ Cardinality(I) \in Nat
  BY <1>1, FS_RemoveElement, GreatestOf
<1>5. I \ {x} # {} /\ I \ {x} \in SUBSET Nat
  BY <1>1, <1>4, FS_EmptySet
<1>6. PICK z \in I \ {x} : \A y \in I \ {x} : z <= y
  BY <1>5, LeastOf
<1>7. Upto(I, z) = {x} \cup {z} /\ z \notin {x}
  <2>1. \A y \in I : y \in Nat /\ x \in Nat /\ z \in Nat
    BY <1>1
  <2>2. x <= z /\ x # z
    BY <1>3, <1>6
  <2>3. \A y \in I : y <= z <=> y = x \/ y = z
    BY <1>6, <2>1, <2>2
  <2> QED
    BY <1>3, <1>6, <2>2, <2>3 DEF Upto
<1>8. IsFiniteSet({x}) /\ Cardinality({x}) = 1
  BY FS_Singleton
<1>9. Cardinality({x} \cup {z}) = 1 + 1
  BY <1>7, <1>8, FS_AddElement
<1>10. Cardinality(Upto(I, z)) = 2
  BY <1>7, <1>9
<1> QED
  BY <1>6, <1>10, Zenon DEF Nth, Upto

\* The last one has all of them before it.
LEMMA LastLine ==
  ASSUME NEW k \in Nat, NEW I \in SUBSET (1..k), I # {}
  PROVE  Nth(I, Cardinality(I)) \in I
<1>1. PICK x \in I : \A y \in I : y <= x
  BY GreatestOf
<1>2. Upto(I, x) = I
  BY <1>1 DEF Upto
<1>3. Cardinality(Upto(I, x)) = Cardinality(I)
  BY <1>2
<1> QED
  BY <1>3, Zenon DEF Nth, Upto

\* There are two different lines to two different numbers.
LEMMA TwoLines ==
  ASSUME NEW k \in Nat, NEW I \in SUBSET (1..k), HasNth(I, 2)
  PROVE  Nth(I, 1) \in I /\ Nth(I, 2) \in I /\ Nth(I, 1) # Nth(I, 2)
<1>1. HasNth(I, 1)
  <2>1. Cardinality(I) \in Nat
    BY GreatestOf
  <2> QED
    BY <2>1 DEF HasNth
<1>2. Nth(I, 1) \in I /\ Cardinality(Upto(I, Nth(I, 1))) = 1
  BY <1>1, FirstLine
<1>3. Nth(I, 2) \in I /\ Cardinality(Upto(I, Nth(I, 2))) = 2
  BY SecondLine
<1>4. ASSUME Nth(I, 1) = Nth(I, 2) PROVE FALSE
  <2>1. Upto(I, Nth(I, 1)) = Upto(I, Nth(I, 2))
    BY <1>4
  <2> QED
    BY <1>2, <1>3, <2>1
<1> QED
  BY <1>2, <1>3, <1>4

-----------------------------------------------------------------------------
(* The names of the settings and of the files. *)

\* Four settings are kept in three files.
LEMMA FilesAre ==
  /\ InFile = {"SYSTEM_NAME", "WEB_SERVICE_PORT", "PRIMARY_DNS", "SECONDARY_DNS"}
  /\ FileOf["SYSTEM_NAME"] = "hostname" /\ FileOf["WEB_SERVICE_PORT"] = "ddp_config"
  /\ FileOf["PRIMARY_DNS"] = "resolv.conf" /\ FileOf["SECONDARY_DNS"] = "resolv.conf"
  /\ Files = {"hostname", "ddp_config", "resolv.conf"}
  /\ \A f \in InFile : FileOf[f] \in Files
BY DEF InFile, FileOf, Files

\* The ways in which settings are kept are different ones.
LEMMA FieldsAre ==
  /\ InFile \cap (InMemory \cup Shadowed \cup Lists \cup Unkept \cup Restarts) = {}
  /\ InMemory \cap (Shadowed \cup Lists \cup Unkept \cup Restarts) = {}
  /\ InMemory \subseteq InPf /\ InFile \subseteq InPf /\ InPf \subseteq Fields /\ Kept \subseteq InPf
  /\ "SYSTEM_NAME" \in InFile /\ "none" \notin Fields
BY FilesAre DEF InMemory, Shadowed, Lists, Unkept, Restarts, InPf, Fields, Kept

-----------------------------------------------------------------------------
(* Files: what the setters make of the lines, and what the getters read. *)

Dns == {"PRIMARY_DNS", "SECONDARY_DNS"}
Servers(s) == Indices(s, {"nameserver"})
AnyServers(s) == Indices(s, {"nameserver", "#nameserver"})
Number(f) == IF f = "PRIMARY_DNS" THEN 1 ELSE 2

\* The lines s of the file of f are in order, and what f reads as from them.
InOrder(f, s) ==
  IF f \in Dns THEN Cardinality(Servers(s)) >= 2 /\ Indices(s, {"#nameserver"}) = {}
  ELSE Indices(s, {"webport"}) # {}
ReadIn(f, s) ==
  IF f \in Dns THEN s[Nth(Servers(s), Number(f))].val
  ELSE s[Nth(Indices(s, {"webport"}), Cardinality(Indices(s, {"webport"})))].val

\* Line numbers.
LEMMA IndicesType ==
  ASSUME NEW s \in Seq(Lines), NEW K
  PROVE  Indices(s, K) \in SUBSET (1..Len(s)) /\ Len(s) \in Nat /\ DOMAIN s = 1..Len(s)
BY DEF Indices

\* A line of a file.
LEMMA LineType ==
  ASSUME NEW s \in Seq(Lines), NEW i \in 1..Len(s)
  PROVE  s[i] \in Lines /\ s[i].val \in Nat /\ s[i].key \in Own \cup {"other"}
<1>1. s[i] \in Lines
  OBVIOUS
<1> QED
  BY <1>1 DEF Lines

\* One line is replaced and the others stay.
LEMMA PutOne ==
  ASSUME NEW s \in Seq(Lines), NEW i \in 1..Len(s), NEW v \in Nat
  PROVE  LET u == Put(s, i, "nameserver", v)
         IN  /\ u \in Seq(Lines) /\ Len(u) = Len(s) /\ u[i].key = "nameserver" /\ u[i].val = v
             /\ \A j \in 1..Len(s) : j # i => u[j] = s[j]
<1> DEFINE line == [key |-> "nameserver", val |-> v]
<1> DEFINE u == [s EXCEPT ![i] = line]
<1>1. line \in Lines /\ line.key = "nameserver" /\ line.val = v
  BY DEF Lines, Own
<1> HIDE DEF line
<1>2. u \in Seq(Lines) /\ Len(u) = Len(s) /\ u[i] = line /\ \A j \in 1..Len(s) : j # i => u[j] = s[j]
  BY <1>1
<1> QED
  BY <1>1, <1>2 DEF Put, line

\* A value for every port line.
LEMMA PortLines ==
  ASSUME NEW s \in Seq(Lines), NEW v \in Nat
  PROVE  LET u == SetPortLine(s, v)
         IN  /\ u \in Seq(Lines) /\ Len(u) = Len(s)
             /\ \A j \in 1..Len(s) : /\ s[j].key # "webport" => u[j] = s[j]
                                     /\ s[j].key = "webport" => u[j].key = "webport" /\ u[j].val = v % 256
<1> DEFINE L(j) == IF s[j].key = "webport" THEN [s[j] EXCEPT !.val = v % 256] ELSE s[j]
<1> DEFINE u == [j \in 1..Len(s) |-> L(j)]
<1>1. v % 256 \in Nat
  OBVIOUS
<1>2. ASSUME NEW j \in 1..Len(s)
      PROVE  /\ L(j) \in Lines /\ (s[j].key # "webport" => L(j) = s[j])
             /\ s[j].key = "webport" => L(j).key = "webport" /\ L(j).val = v % 256
  <2>1. s[j] \in Lines
    BY LineType
  <2> QED
    BY <1>1, <2>1 DEF Lines
<1> HIDE DEF L
<1>3. u \in Seq(Lines) /\ Len(u) = Len(s) /\ \A j \in 1..Len(s) : u[j] = L(j)
  BY <1>2
<1>4. SetPortLine(s, v) = u
  BY DEF SetPortLine, L
<1> QED
  BY <1>2, <1>3, <1>4

\* The n-th line with a name server is a line.
LEMMA ServerLine ==
  ASSUME NEW s \in Seq(Lines), NEW K, NEW n \in {1, 2}, HasNth(Indices(s, K), n)
  PROVE  Nth(Indices(s, K), n) \in Indices(s, K) /\ Nth(Indices(s, K), n) \in 1..Len(s)
<1>1. Indices(s, K) \in SUBSET (1..Len(s)) /\ Len(s) \in Nat
  BY IndicesType
<1> QED
  BY <1>1, FirstLine, SecondLine

\* What a setter writes are lines, as many as there were.
LEMMA EditedType ==
  ASSUME NEW f \in InFile, NEW s \in Seq(Lines), NEW v \in Nat
  PROVE  Edited(f, s, v) \in Seq(Lines) /\ Len(Edited(f, s, v)) = Len(s)
<1>1. ASSUME NEW n \in {1, 2}
      PROVE  SetDnsLine(s, n, v) \in Seq(Lines) /\ Len(SetDnsLine(s, n, v)) = Len(s)
  <2>1. CASE HasNth(AnyServers(s), n)
    <3>1. Nth(AnyServers(s), n) \in 1..Len(s)
      BY <2>1, ServerLine DEF AnyServers
    <3>2. SetDnsLine(s, n, v) = Put(s, Nth(AnyServers(s), n), "nameserver", v)
      BY <2>1 DEF SetDnsLine, AnyServers
    <3> QED
      BY <3>1, <3>2, PutOne
  <2>2. CASE ~HasNth(AnyServers(s), n)
    BY <2>2 DEF SetDnsLine, AnyServers
  <2> QED
    BY <2>1, <2>2
<1>2. SetPortLine(s, v) \in Seq(Lines) /\ Len(SetPortLine(s, v)) = Len(s)
  BY PortLines
<1>3. CASE f = "PRIMARY_DNS"
  BY <1>1, <1>3 DEF Edited
<1>4. CASE f = "SECONDARY_DNS"
  BY <1>1, <1>4 DEF Edited
<1>5. CASE f = "WEB_SERVICE_PORT"
  BY <1>2, <1>5 DEF Edited
<1>6. CASE f = "SYSTEM_NAME"
  BY <1>6 DEF Edited
<1> QED
  BY <1>3, <1>4, <1>5, <1>6, FilesAre

\* A setter replaces lines that are its own, so that the file remains an edit of
\* what somebody else wrote.
LEMMA EditedEdits ==
  ASSUME NEW f \in InFile, NEW s \in Seq(Lines), NEW v \in Nat, NEW c \in Seq(Lines), EditOf(s, c)
  PROVE  EditOf(Edited(f, s, v), c)
<1>0. /\ Len(s) = Len(c) /\ Len(s) \in Nat /\ DOMAIN c = 1..Len(c) /\ DOMAIN s = 1..Len(s)
      /\ \A i \in 1..Len(c) : s[i] = c[i] \/ (c[i].key \in Own /\ s[i].key \in Own \ {"#nameserver"})
  BY DEF EditOf
<1>1. ASSUME NEW n \in {1, 2} PROVE EditOf(SetDnsLine(s, n, v), c)
  <2>1. CASE HasNth(AnyServers(s), n)
    <3> DEFINE i == Nth(AnyServers(s), n)
    <3>1. i \in 1..Len(s) /\ i \in AnyServers(s)
      BY <2>1, ServerLine DEF AnyServers
    <3>2. SetDnsLine(s, n, v) = Put(s, i, "nameserver", v)
      BY <2>1 DEF SetDnsLine, AnyServers
    <3>3. s[i].key \in {"nameserver", "#nameserver"}
      BY <3>1 DEF AnyServers, Indices
    <3> HIDE DEF i
    <3> DEFINE u == Put(s, i, "nameserver", v)
    <3>4. /\ Len(u) = Len(s) /\ u[i].key = "nameserver"
          /\ \A j \in 1..Len(s) : j # i => u[j] = s[j]
      BY <3>1, PutOne
    <3> HIDE DEF u
    <3>5. c[i].key \in Own
      BY <1>0, <3>1, <3>3 DEF Own
    <3>6. \A j \in 1..Len(c) : u[j] = c[j] \/ (c[j].key \in Own /\ u[j].key \in Own \ {"#nameserver"})
      BY <1>0, <3>4, <3>5 DEF Own
    <3>7. EditOf(u, c)
      BY <1>0, <3>4, <3>6 DEF EditOf
    <3> QED
      BY <3>2, <3>7 DEF u
  <2>2. CASE ~HasNth(AnyServers(s), n)
    BY <2>2 DEF SetDnsLine, AnyServers
  <2> QED
    BY <2>1, <2>2
<1>2. EditOf(SetPortLine(s, v), c)
  <2> DEFINE u == SetPortLine(s, v)
  <2>1. /\ Len(u) = Len(s)
        /\ \A j \in 1..Len(s) : /\ s[j].key # "webport" => u[j] = s[j]
                                /\ s[j].key = "webport" => u[j].key = "webport"
    BY PortLines
  <2> HIDE DEF u
  <2>2. \A j \in 1..Len(c) : u[j] = c[j] \/ (c[j].key \in Own /\ u[j].key \in Own \ {"#nameserver"})
    BY <1>0, <2>1 DEF Own
  <2>3. EditOf(u, c)
    BY <1>0, <2>1, <2>2 DEF EditOf
  <2> QED
    BY <2>3 DEF u
<1>3. CASE f = "PRIMARY_DNS"
  BY <1>1, <1>3 DEF Edited
<1>4. CASE f = "SECONDARY_DNS"
  BY <1>1, <1>4 DEF Edited
<1>5. CASE f = "WEB_SERVICE_PORT"
  BY <1>2, <1>5 DEF Edited
<1>6. CASE f = "SYSTEM_NAME"
  BY <1>6 DEF Edited
<1> QED
  BY <1>3, <1>4, <1>5, <1>6, FilesAre

\* The line of one name server is replaced and that of the other one stays.
LEMMA DnsEdited ==
  ASSUME NEW f \in Dns, NEW s \in Seq(Lines), NEW v \in Nat, InOrder(f, s)
  PROVE  /\ \A g \in Dns : InOrder(g, Edited(f, s, v))
         /\ ReadIn(f, Edited(f, s, v)) = v
         /\ \A g \in Dns \ {f} : ReadIn(g, Edited(f, s, v)) = ReadIn(g, s)
<1> DEFINE I == Servers(s)
<1> DEFINE i == Nth(I, Number(f))
<1>1. Cardinality(I) >= 2 /\ Indices(s, {"#nameserver"}) = {} /\ DOMAIN s = 1..Len(s) /\ Len(s) \in Nat
  BY DEF InOrder
<1>2. I = AnyServers(s)
  BY <1>1 DEF Servers, AnyServers, Indices
<1>3. I \in SUBSET (1..Len(s)) /\ HasNth(I, 2) /\ HasNth(I, 1)
  <2>1. I \in SUBSET (1..Len(s))
    BY IndicesType DEF Servers
  <2>2. Cardinality(I) \in Nat
    BY <1>1, <2>1, GreatestOf
  <2> QED
    BY <1>1, <2>1, <2>2 DEF HasNth
<1>4. Nth(I, 1) \in I /\ Nth(I, 2) \in I /\ Nth(I, 1) # Nth(I, 2)
  BY <1>1, <1>3, TwoLines
<1>5. Number(f) \in {1, 2} /\ Edited(f, s, v) = SetDnsLine(s, Number(f), v)
  BY DEF Dns, Number, Edited
<1>6. i \in I /\ i \in 1..Len(s)
  BY <1>3, <1>4, <1>5
<1>7. Edited(f, s, v) = Put(s, i, "nameserver", v)
  BY <1>2, <1>3, <1>5 DEF SetDnsLine, AnyServers
<1> DEFINE u == Put(s, i, "nameserver", v)
<1>8. /\ u \in Seq(Lines) /\ Len(u) = Len(s) /\ u[i].key = "nameserver" /\ u[i].val = v
      /\ \A j \in 1..Len(s) : j # i => u[j] = s[j]
  BY <1>6, PutOne
<1>9. s[i].key = "nameserver"
  BY <1>6 DEF Servers, Indices
<1> HIDE DEF u
<1>10. \A j \in 1..Len(s) : u[j].key = s[j].key
  BY <1>6, <1>8, <1>9
<1>11. DOMAIN u = DOMAIN s
  BY <1>1, <1>8
<1>12. Servers(u) = I /\ Indices(u, {"#nameserver"}) = {}
  BY <1>1, <1>10, <1>11 DEF Servers, Indices
<1> HIDE DEF I
<1>13. \A g \in Dns : InOrder(g, u)
  BY <1>1, <1>12 DEF InOrder
<1>14. ReadIn(f, u) = v
  BY <1>8, <1>12 DEF ReadIn
<1>15. ASSUME NEW g \in Dns \ {f} PROVE ReadIn(g, u) = ReadIn(g, s)
  <2>a. Nth(I, 1) \in 1..Len(s) /\ Nth(I, 2) \in 1..Len(s)
    BY <1>3, <1>4
  <2>b. (Number(f) = 1 /\ Number(g) = 2) \/ (Number(f) = 2 /\ Number(g) = 1)
    BY DEF Dns, Number
  <2>1. Nth(I, Number(g)) \in 1..Len(s) /\ Nth(I, Number(g)) # i
    BY <1>4, <2>a, <2>b
  <2>2. u[Nth(I, Number(g))] = s[Nth(I, Number(g))]
    BY <1>8, <2>1
  <2> QED
    BY <1>12, <2>2 DEF ReadIn, I
<1> QED
  BY <1>7, <1>13, <1>14, <1>15 DEF u

\* The last port line has the value that every port line gets.
LEMMA PortEdited ==
  ASSUME NEW s \in Seq(Lines), NEW v \in Nat, InOrder("WEB_SERVICE_PORT", s)
  PROVE  /\ InOrder("WEB_SERVICE_PORT", Edited("WEB_SERVICE_PORT", s, v))
         /\ ReadIn("WEB_SERVICE_PORT", Edited("WEB_SERVICE_PORT", s, v)) = v % 256
<1> DEFINE I == Indices(s, {"webport"})
<1> DEFINE u == SetPortLine(s, v)
<1>1. I # {} /\ I \in SUBSET (1..Len(s)) /\ Len(s) \in Nat /\ DOMAIN s = 1..Len(s)
  BY IndicesType DEF InOrder, Dns
<1>2. /\ u \in Seq(Lines) /\ Len(u) = Len(s)
      /\ \A j \in 1..Len(s) : /\ s[j].key # "webport" => u[j] = s[j]
                              /\ s[j].key = "webport" => u[j].key = "webport" /\ u[j].val = v % 256
  BY PortLines
<1>3. Edited("WEB_SERVICE_PORT", s, v) = u
  BY DEF Edited
<1> HIDE DEF u
<1>4. DOMAIN u = DOMAIN s
  BY <1>1, <1>2
<1>5. Indices(u, {"webport"}) = I
  BY <1>1, <1>2, <1>4 DEF Indices
<1>6. Nth(I, Cardinality(I)) \in I
  BY <1>1, LastLine
<1>7. u[Nth(I, Cardinality(I))].val = v % 256
  BY <1>1, <1>2, <1>6 DEF Indices
<1> QED
  BY <1>1, <1>3, <1>5, <1>7 DEF InOrder, ReadIn, Dns

\* The setter of a setting that is kept writes what the getter reads, and leaves
\* the file in order for the others.
LEMMA KeptEdited ==
  ASSUME NEW f \in InFile \ {"SYSTEM_NAME"}, NEW s \in Seq(Lines), NEW v \in Nat, InOrder(f, s)
  PROVE  /\ ReadIn(f, Edited(f, s, v)) = IF f = "WEB_SERVICE_PORT" THEN v % 256 ELSE v
         /\ \A g \in InFile : FileOf[g] = FileOf[f] => InOrder(g, Edited(f, s, v))
         /\ \A g \in InFile \ {f} : FileOf[g] = FileOf[f] => ReadIn(g, Edited(f, s, v)) = ReadIn(g, s)
<1>1. CASE f = "WEB_SERVICE_PORT"
  <2>1. \A g \in InFile : FileOf[g] = FileOf[f] => g = f
    BY <1>1, FilesAre
  <2> QED
    BY <1>1, <2>1, PortEdited
<1>2. CASE f # "WEB_SERVICE_PORT"
  <2>1. f \in Dns
    BY <1>2, FilesAre DEF Dns
  <2>2. \A g \in InFile : FileOf[g] = FileOf[f] => g \in Dns
    BY <2>1, FilesAre DEF Dns
  <2> QED
    BY <1>2, <2>1, <2>2, DnsEdited
<1> QED
  BY <1>1, <1>2

\* HasLines says that the file is in order, for every setting in it.
LEMMA LinesInOrder ==
  ASSUME NEW f \in InFile \ {"SYSTEM_NAME"}
  PROVE  HasLines(FileOf[f]) <=> InOrder(f, file[FileOf[f]])
<1>1. CASE f \in Dns
  <2>1. FileOf[f] = "resolv.conf"
    BY <1>1, FilesAre DEF Dns
  <2> QED
    BY <1>1, <2>1 DEF HasLines, InOrder, Servers
<1>2. CASE f = "WEB_SERVICE_PORT"
  <2>1. FileOf[f] = "ddp_config" /\ f \notin Dns
    BY <1>2, FilesAre DEF Dns
  <2> QED
    BY <2>1 DEF HasLines, InOrder
<1> QED
  BY <1>1, <1>2, FilesAre DEF Dns

\* The getters.
LEMMA Getters ==
  /\ Read("PRIMARY_DNS") = ReadPrimaryDns /\ Read("SECONDARY_DNS") = ReadSecondaryDns
  /\ Read("WEB_SERVICE_PORT") = ReadWebPort
BY DEF Read, Shadowed

\* A getter reads from the file that is in order, whatever the variable is.
LEMMA ReadsFile ==
  ASSUME file \in [Files -> Seq(Lines)], NEW f \in InFile \ {"SYSTEM_NAME"}, HasLines(FileOf[f])
  PROVE  Read(f) = ReadIn(f, file[FileOf[f]])
<1>1. CASE f \in Dns
  <2>1. FileOf[f] = "resolv.conf" /\ Number(f) \in {1, 2}
    BY <1>1, FilesAre DEF Dns, Number
  <2> DEFINE I == Servers(file["resolv.conf"])
  <2>2. Cardinality(I) >= 2
    BY <2>1 DEF HasLines, Servers
  <2>3. file["resolv.conf"] \in Seq(Lines)
    BY FilesAre
  <2>4. Cardinality(I) \in Nat
    BY <2>3, IndicesType, GreatestOf DEF Servers
  <2>5. HasNth(I, 1) /\ HasNth(I, 2)
    BY <2>2, <2>4 DEF HasNth
  <2>6. CASE f = "PRIMARY_DNS"
    <3>1. Read(f) = file["resolv.conf"][Nth(I, 1)].val
      BY <2>5, <2>6, Getters DEF ReadPrimaryDns, FromFile, Servers
    <3>2. Number(f) = 1
      BY <2>6 DEF Number
    <3> QED
      BY <1>1, <2>1, <3>1, <3>2 DEF ReadIn
  <2>7. CASE f = "SECONDARY_DNS"
    <3>1. Read(f) = file["resolv.conf"][Nth(I, 2)].val
      BY <2>5, <2>7, Getters DEF ReadSecondaryDns, FromFile, Servers
    <3>2. Number(f) = 2
      BY <2>7 DEF Number
    <3> QED
      BY <1>1, <2>1, <3>1, <3>2 DEF ReadIn
  <2> QED
    BY <1>1, <2>6, <2>7 DEF Dns
<1>2. CASE f = "WEB_SERVICE_PORT"
  <2>1. FileOf[f] = "ddp_config" /\ f \notin Dns
    BY <1>2, FilesAre DEF Dns
  <2>2. Indices(file["ddp_config"], {"webport"}) # {}
    BY <2>1 DEF HasLines
  <2> QED
    BY <1>2, <2>1, <2>2, Getters DEF ReadWebPort, ReadIn
<1> QED
  BY <1>1, <1>2, FilesAre DEF Dns

\* A setting in memory is read from the variable.
LEMMA ReadsMemory ==
  ASSUME NEW f \in InMemory
  PROVE  Read(f) = pf[f]
BY FieldsAre, FilesAre DEF Read, InMemory, Shadowed

\* Every setting reads as a number, but for the two that the system may not tell.
LEMMA ReadType ==
  ASSUME file \in [Files -> Seq(Lines)], pf \in [InPf -> Nat],
         NEW f \in InPf \ {"DEVICE_IP_ADDR", "SUBNET_MASK"}
  PROVE  Read(f) \in Nat
<1>1. pf[f] \in Nat /\ file["resolv.conf"] \in Seq(Lines) /\ file["ddp_config"] \in Seq(Lines)
  BY FilesAre
<1>2. ASSUME NEW g \in InPf, NEW n \in {1, 2}, NEW K PROVE FromFile(g, file["resolv.conf"], n, K) \in Nat
  <2>1. CASE HasNth(Indices(file["resolv.conf"], K), n)
    BY <1>1, <2>1, ServerLine, LineType DEF FromFile
  <2>2. CASE ~HasNth(Indices(file["resolv.conf"], K), n)
    BY <2>2 DEF FromFile
  <2> QED
    BY <2>1, <2>2
<1>3. CASE f = "PRIMARY_DNS"
  BY <1>2, <1>3, Getters, FieldsAre, FilesAre DEF ReadPrimaryDns
<1>4. CASE f = "SECONDARY_DNS"
  BY <1>2, <1>4, Getters, FieldsAre, FilesAre DEF ReadSecondaryDns
<1>5. CASE f = "WEB_SERVICE_PORT"
  <2> DEFINE s == file["ddp_config"]
  <2> DEFINE I == Indices(s, {"webport"})
  <2>1. CASE I = {}
    BY <1>1, <1>5, <2>1, Getters DEF ReadWebPort
  <2>2. CASE I # {}
    <3>1. I \in SUBSET (1..Len(s)) /\ Len(s) \in Nat
      BY <1>1, IndicesType
    <3>2. Nth(I, Cardinality(I)) \in 1..Len(s)
      BY <2>2, <3>1, LastLine
    <3>3. s[Nth(I, Cardinality(I))].val \in Nat
      BY <1>1, <3>2, LineType
    <3> QED
      BY <1>5, <2>2, <3>3, Getters DEF ReadWebPort
  <2> QED
    BY <2>1, <2>2
<1>6. CASE f \in Shadowed \cup {"SYSTEM_NAME"}
  <2>1. ReadSystem(f) \in Nat
    BY <1>1, PlatformAssumption DEF ReadSystem
  <2>2. Read(f) = ReadSystem(f)
    BY <1>6 DEF Read, Shadowed
  <2> QED
    BY <2>1, <2>2
<1>7. CASE f \in InMemory
  BY <1>1, <1>7, ReadsMemory
<1> QED
  BY <1>3, <1>4, <1>5, <1>6, <1>7, FilesAre DEF InPf

-----------------------------------------------------------------------------
(* The messages and their settings. *)

\* What the alarm brings back is a request too.
LEMMA MsgShape ==
  ASSUME NEW m \in Msgs
  PROVE  /\ m \in Request(m.op, m.sel) /\ m.sel \in Nat /\ m # Nothing
         /\ m.val \in [FieldsOf(m.op, m.sel) -> Nat] /\ m.delay \in Nat
         /\ m.late => m.op \in Restarts
         /\ m.delay > 0 => m \in Menu
<1>1. ASSUME NEW r, NEW op, NEW sel, r \in Request(op, sel)
      PROVE  /\ r.val \in [FieldsOf(op, sel) -> Nat] /\ r.delay \in Nat /\ r # Nothing
             /\ DelayMsg(r) \in Request(op, sel) /\ DelayMsg(r).delay = 0
             /\ DelayMsg(r).op = r.op /\ DelayMsg(r).sel = r.sel
  <2> DEFINE V == [FieldsOf(op, sel) -> Nat]
  <2> HIDE DEF V
  <2>1. r \in [op : {op}, pass : Nat, len : {"ok", "bad", "none"}, sel : {sel}, val : V, delay : Nat,
                original : BOOLEAN, late : BOOLEAN]
    BY <1>1 DEF Request, V
  <2>2. r.val \in V /\ r.delay \in Nat
    BY <2>1
  <2>3. r # Nothing
    <3>1. "pass" \in DOMAIN r
      BY <2>1
    <3>2. "pass" \notin DOMAIN Nothing
      BY DEF Nothing
    <3> QED
      BY <3>1, <3>2
  <2>4. /\ DelayMsg(r) \in [op : {op}, pass : Nat, len : {"ok", "bad", "none"}, sel : {sel}, val : V, delay : Nat,
                            original : BOOLEAN, late : BOOLEAN]
        /\ DelayMsg(r).delay = 0 /\ DelayMsg(r).op = r.op /\ DelayMsg(r).sel = r.sel
    BY <2>1 DEF DelayMsg
  <2> QED
    BY <2>2, <2>3, <2>4 DEF Request, V
<1>2. CASE m \in Menu
  BY <1>1, <1>2, RequestsAssumption
<1>3. CASE m \notin Menu
  <2>1. PICK r \in Menu : r.op \in Restarts /\ m = DelayMsg(r)
    BY <1>3 DEF Msgs
  <2>2. r \in Request(r.op, r.sel) /\ r.sel \in Nat
    BY RequestsAssumption
  <2>3. /\ m \in Request(r.op, r.sel) /\ m.delay = 0 /\ m.op = r.op /\ m.sel = r.sel
    BY <1>1, <2>1, <2>2
  <2>4. m.val \in [FieldsOf(r.op, r.sel) -> Nat] /\ m.delay \in Nat /\ m # Nothing
    BY <1>1, <2>3
  <2> QED
    BY <2>1, <2>2, <2>3, <2>4
<1> QED
  BY <1>2, <1>3

\* The settings of a request are settings, and both name servers or none.
LEMMA FieldsType ==
  ASSUME NEW op, NEW sel
  PROVE  /\ FieldsOf(op, sel) \subseteq Fields
         /\ op \in Restarts \cup {"SNMP_GET"} => FieldsOf(op, sel) = {}
         /\ \A f, g \in InFile : f \in FieldsOf(op, sel) /\ FileOf[f] = FileOf[g] => g \in FieldsOf(op, sel)
<1>1. FieldsOf(op, sel) \subseteq Fields
  BY FilesAre DEF FieldsOf, BasicFields, Fields, InPf, InMemory, Shadowed, Lists, Unkept
<1>2. op \in Restarts \cup {"SNMP_GET"} => FieldsOf(op, sel) = {}
  BY DEF FieldsOf, Restarts
<1>3. "PRIMARY_DNS" \in FieldsOf(op, sel) <=> "SECONDARY_DNS" \in FieldsOf(op, sel)
  BY DEF FieldsOf, BasicFields, Lists
<1>4. ASSUME NEW f \in InFile, NEW g \in InFile, FileOf[f] = FileOf[g]
      PROVE  f = g \/ {f, g} = {"PRIMARY_DNS", "SECONDARY_DNS"}
  BY <1>4, FilesAre
<1> QED
  BY <1>1, <1>2, <1>3, <1>4

\* The answers' codes.
LEMMA CheckType ==
  ASSUME NEW m, m.op \in Operations
  PROVE  Check(m) \in {"ok", "fail", "authen", "type"}
<1> DEFINE C == {"ok", "fail", "authen", "type"}
<1>1. StrictCheck(m) \in C /\ LengthFirst(m) \in C /\ BodyFirst(m) \in C
  BY DEF StrictCheck, LengthFirst, BodyFirst
<1>2. TypeCheck(m) \in C /\ BasicInfoCheck(m) \in C /\ ChangeIdPswCheck(m) \in C /\ SetSsidCheck(m) \in C
      /\ GetSsidCheck(m) \in C
  BY <1>1 DEF TypeCheck, BasicInfoCheck, ChangeIdPswCheck, SetSsidCheck, GetSsidCheck
<1> QED
  BY <1>1, <1>2 DEF Check, Operations, UserVerifyCheck, SupportCheck, AlertCheck, InfoCheck, DiscoveryCheck,
     SnmpCfgCheck, SnmpGetCheck, RebootCheck, ResetCheck, FactoryResetCheck, GetDateCheck, SetDateCheck,
     SetIpv4Check, SetIpv6Check, SetDeviceInfoCheck

\* A type that was accepted is one of the two the handler knows.
LEMMA CheckSel ==
  ASSUME NEW m, Check(m) = "ok",
         m.op \in {"SET_IPV4_ADDR", "SET_IPV6_ADDR", "SET_DEVICE_INFO", "SET_MULTI_SSID"}
  PROVE  m.sel \in {0, 1}
<1>1. CASE m.op \in {"SET_IPV4_ADDR", "SET_IPV6_ADDR", "SET_DEVICE_INFO"}
  <2>1. TypeCheck(m) = "ok"
    BY <1>1 DEF Check, SetIpv4Check, SetIpv6Check, SetDeviceInfoCheck
  <2> QED
    BY <2>1 DEF TypeCheck
<1>2. CASE m.op = "SET_MULTI_SSID"
  <2>1. SetSsidCheck(m) = "ok"
    BY <1>2 DEF Check
  <2> QED
    BY <2>1 DEF SetSsidCheck
<1> QED
  BY <1>1, <1>2

\* The names that a sequence holds.
Has(q, f) == \E i \in DOMAIN q : q[i] = f

\* A sequence of one name.
LEMMA OneName == ASSUME NEW a PROVE <<a>> \in Seq({a}) /\ \A f \in {a} : Has(<<a>>, f)
BY DEF Has

\* What an SNMP configuration holds, whichever names are left out.
LEMMA SnmpOrder ==
  ASSUME NEW m
  PROVE  SnmpCfg(m) \in Seq(Lists \cup {"SNMP_GLOBAL_STATE"}) /\ Has(SnmpCfg(m), "SNMP_GLOBAL_STATE")
<1> DEFINE S == Lists \cup {"SNMP_GLOBAL_STATE"}
<1> DEFINE a == <<"SNMP_GLOBAL_STATE">>
<1> DEFINE b == IF m.val["COMMUNITY_RO"] = 0 THEN <<>> ELSE <<"COMMUNITY_RO">>
<1> DEFINE c == IF m.val["COMMUNITY_RW"] = 0 THEN <<>> ELSE <<"COMMUNITY_RW">>
<1> DEFINE d == <<"VIEW_RO", "VIEW_RW">>
<1>1. a \in Seq(S) /\ Len(a) = 1 /\ a[1] = "SNMP_GLOBAL_STATE"
  OBVIOUS
<1>2. b \in Seq(S) /\ c \in Seq(S)
  <2>1. "COMMUNITY_RO" \in S /\ "COMMUNITY_RW" \in S
    BY DEF Lists
  <2> HIDE DEF S
  <2>2. <<"COMMUNITY_RO">> \in Seq(S) /\ <<"COMMUNITY_RW">> \in Seq(S) /\ <<>> \in Seq(S)
    BY <2>1
  <2> QED
    BY <2>2, Zenon
<1>3. d \in Seq(S)
  <2>1. "VIEW_RO" \in S /\ "VIEW_RW" \in S
    BY DEF Lists
  <2> HIDE DEF S
  <2> QED
    BY <2>1
<1>4. SnmpCfg(m) = a \o b \o c \o d
  BY DEF SnmpCfg
<1> HIDE DEF S, a, b, c, d
<1>5. a \o b \in Seq(S) /\ Len(a \o b) >= 1 /\ (a \o b)[1] = "SNMP_GLOBAL_STATE"
  BY <1>1, <1>2, ConcatProperties
<1>6. a \o b \o c \in Seq(S) /\ Len(a \o b \o c) >= 1 /\ (a \o b \o c)[1] = "SNMP_GLOBAL_STATE"
  BY <1>2, <1>5, ConcatProperties
<1>7. a \o b \o c \o d \in Seq(S) /\ Len(a \o b \o c \o d) >= 1
      /\ (a \o b \o c \o d)[1] = "SNMP_GLOBAL_STATE"
  BY <1>3, <1>6, ConcatProperties
<1> DEFINE q == a \o b \o c \o d
<1> HIDE DEF q
<1>8. Has(q, "SNMP_GLOBAL_STATE")
  <2>1. q \in Seq(S) /\ Len(q) >= 1 /\ q[1] = "SNMP_GLOBAL_STATE"
    BY <1>7 DEF q
  <2>2. 1 \in DOMAIN q
    BY <2>1
  <2> QED
    BY <2>1, <2>2 DEF Has
<1> QED
  BY <1>4, <1>7, <1>8 DEF S, q

\* Of what a request holds, the handler takes settings it holds only, and all that
\* are kept as they are set.
LEMMA OrderType ==
  ASSUME NEW m \in Msgs, Check(m) = "ok" \/ m.op = "SET_BASIC_INFO"
  PROVE  /\ Order(m) \in Seq(FieldsOf(m.op, m.sel))
         /\ \A f \in KeptOf(m) : Has(Order(m), f)
<1> DEFINE F == FieldsOf(m.op, m.sel)
<1> DEFINE q == Order(m)
<1>0. KeptOf(m) \subseteq F \cap (InMemory \cup InFile)
  BY MsgShape DEF KeptOf
<1>1. CASE m.op = "SET_BASIC_INFO"
  <2>1. F = BasicFields /\ q = SetBasicInfo(m)
    BY <1>1 DEF FieldsOf, Order
  <2>2. /\ q \in Seq(BasicFields) /\ Len(q) = 15
        /\ q[1] = "SYSTEM_NAME" /\ q[3] = "WEB_SERVICE_PORT" /\ q[7] = "PRIMARY_DNS" /\ q[8] = "SECONDARY_DNS"
    BY <2>1 DEF SetBasicInfo, BasicFields
  <2>3. F \cap (InMemory \cup InFile) = InFile
    BY <2>1, FilesAre DEF BasicFields, InMemory
  <2> HIDE DEF q, F
  <2>4. {1, 3, 7, 8} \subseteq DOMAIN q
    BY <2>2
  <2>5. \A f \in InFile : Has(q, f)
    BY <2>2, <2>4, FilesAre DEF Has
  <2> QED
    BY <1>0, <2>1, <2>2, <2>3, <2>5 DEF q, F
<1>2. CASE m.op = "SET_IPV4_ADDR" /\ m.sel = 1
  <2>1. F = {"CUSTOMIZED_DNS", "PRIMARY_DNS", "SECONDARY_DNS"} /\ q = <<"CUSTOMIZED_DNS", "PRIMARY_DNS", "SECONDARY_DNS">>
    BY <1>2 DEF FieldsOf, Order, SetIpv4Addr
  <2> HIDE DEF q, F
  <2>2. q \in Seq(F) /\ \A f \in F : Has(q, f)
    BY <2>1 DEF Has
  <2> QED
    BY <1>0, <2>2 DEF q, F
<1>3. CASE m.op = "SET_IPV4_ADDR" /\ m.sel = 0
  <2>1. /\ F = {"DHCP", "DEVICE_IP_ADDR", "SUBNET_MASK", "DEFAULT_GATEWAY"}
        /\ (q = <<"DHCP">> \/ q = <<"DHCP", "DEVICE_IP_ADDR", "SUBNET_MASK", "DEFAULT_GATEWAY">>)
    BY <1>3 DEF FieldsOf, Order, SetIpv4Addr
  <2>2. F \cap (InMemory \cup InFile) = {}
    BY <2>1, FilesAre DEF InMemory
  <2> HIDE DEF q, F
  <2>a. <<"DHCP">> \in Seq(F)
    BY <2>1
  <2>b. <<"DHCP", "DEVICE_IP_ADDR", "SUBNET_MASK", "DEFAULT_GATEWAY">> \in Seq(F)
    BY <2>1
  <2>3. q \in Seq(F)
    BY <2>1, <2>a, <2>b, Zenon
  <2> QED
    BY <1>0, <2>2, <2>3 DEF q, F
<1>4. CASE m.op = "SET_IPV6_ADDR" /\ m.sel = 1
  <2>1. /\ F = {"PRIMARY_DNS_IPV6", "SECONDARY_DNS_IPV6"} /\ q = <<"PRIMARY_DNS_IPV6", "SECONDARY_DNS_IPV6">>
    BY <1>4 DEF FieldsOf, Order, SetIpv6Addr
  <2> HIDE DEF q, F
  <2>2. q \in Seq(F) /\ \A f \in F : Has(q, f)
    BY <2>1 DEF Has
  <2> QED
    BY <1>0, <2>2 DEF q, F
<1>5. CASE m.op = "SET_IPV6_ADDR" /\ m.sel = 0
  <2>1. /\ F = {"DHCP_IPV6", "DEVICE_IPV6_ADDR", "DEVICE_IPV6_PREFIX", "DEFAULT_GATEWAY_IPV6"}
        /\ \/ q = <<"DHCP_IPV6", "DEVICE_IPV6_PREFIX">>
           \/ q = <<"DHCP_IPV6", "DEVICE_IPV6_ADDR", "DEVICE_IPV6_PREFIX", "DEFAULT_GATEWAY_IPV6">>
    BY <1>5 DEF FieldsOf, Order, SetIpv6Addr
  <2>2. F \cap (InMemory \cup InFile) = {}
    BY <2>1, FilesAre DEF InMemory
  <2> HIDE DEF q, F
  <2>a. <<"DHCP_IPV6", "DEVICE_IPV6_PREFIX">> \in Seq(F)
    BY <2>1
  <2>b. <<"DHCP_IPV6", "DEVICE_IPV6_ADDR", "DEVICE_IPV6_PREFIX", "DEFAULT_GATEWAY_IPV6">> \in Seq(F)
    BY <2>1
  <2>3. q \in Seq(F)
    BY <2>1, <2>a, <2>b, Zenon
  <2> QED
    BY <1>0, <2>2, <2>3 DEF q, F
<1>6. CASE m.op = "SET_DEVICE_INFO" /\ m.sel \in {0, 1}
  <2>1. \/ F = {"SYSTEM_NAME"} /\ q = <<"SYSTEM_NAME">>
        \/ F = {"WEB_SERVICE_PORT"} /\ q = <<"WEB_SERVICE_PORT">>
    BY <1>6 DEF FieldsOf, Order, SetDeviceInfo
  <2> HIDE DEF q, F
  <2>2. q \in Seq(F) /\ \A f \in F : Has(q, f)
    BY <2>1, OneName
  <2> QED
    BY <1>0, <2>2 DEF q, F
<1>7. CASE m.op = "SET_SYS_DATE_TIME"
  <2>1. F = {"DATE_TIME", "TIMEZONE", "NTP_ENABLE", "NTP_SERVER", "DST_SETTING"}
    BY <1>7 DEF FieldsOf
  <2>2. \/ m.val["NTP_ENABLE"] = 1 /\ q = <<"NTP_ENABLE", "NTP_SERVER", "DST_SETTING">>
        \/ m.val["NTP_ENABLE"] # 1 /\ q = <<"DATE_TIME", "TIMEZONE", "DST_SETTING">>
    BY <1>7 DEF Order, SetSysDateTime
  <2>3. KeptOf(m) \subseteq {"NTP_ENABLE", "NTP_SERVER", "DST_SETTING"}
    BY <1>0, <2>1 DEF InMemory, InFile, FileOf
  <2>4. m.val["NTP_ENABLE"] # 1 => KeptOf(m) \subseteq {"DST_SETTING"}
    BY <2>3 DEF KeptOf
  <2> HIDE DEF q, F
  <2>a. CASE m.val["NTP_ENABLE"] = 1 /\ q = <<"NTP_ENABLE", "NTP_SERVER", "DST_SETTING">>
    <3>1. q \in Seq(F) /\ \A f \in {"NTP_ENABLE", "NTP_SERVER", "DST_SETTING"} : Has(q, f)
      BY <2>1, <2>a DEF Has
    <3> QED
      BY <2>3, <3>1 DEF q, F
  <2>b. CASE m.val["NTP_ENABLE"] # 1 /\ q = <<"DATE_TIME", "TIMEZONE", "DST_SETTING">>
    <3>1. q \in Seq(F) /\ \A f \in {"DST_SETTING"} : Has(q, f)
      BY <2>1, <2>b DEF Has
    <3> QED
      BY <2>4, <2>b, <3>1 DEF q, F
  <2> QED
    BY <2>2, <2>a, <2>b
<1>8. CASE m.op = "SNMP_CFG"
  <2>1. F = Lists \cup {"SNMP_GLOBAL_STATE"} /\ q = SnmpCfg(m)
    BY <1>8 DEF FieldsOf, Order
  <2>2. F \cap (InMemory \cup InFile) = {"SNMP_GLOBAL_STATE"}
    BY <2>1, FilesAre DEF InMemory, Lists
  <2> QED
    BY <1>0, <2>1, <2>2, SnmpOrder
<1>9. CASE m.op = "SET_MULTI_SSID" /\ m.sel \in {0, 1}
  <2>1. (F = {"SSID_24"} /\ q = <<"SSID_24">>) \/ (F = {"SSID_5"} /\ q = <<"SSID_5">>)
    BY <1>9 DEF FieldsOf, Order, SetMultiSsid
  <2> HIDE DEF q, F
  <2>2. q \in Seq(F) /\ \A f \in F : Has(q, f)
    BY <2>1, OneName
  <2> QED
    BY <1>0, <2>2 DEF q, F
<1>10. CASE m.op \notin {"SET_BASIC_INFO", "SET_IPV4_ADDR", "SET_IPV6_ADDR", "SET_DEVICE_INFO", "SET_SYS_DATE_TIME",
                         "SNMP_CFG", "SET_MULTI_SSID"}
  <2>1. F = {} /\ q = <<>>
    BY <1>10 DEF FieldsOf, Order
  <2> HIDE DEF q, F
  <2>2. q \in Seq(F)
    BY <2>1
  <2> QED
    BY <1>0, <2>1, <2>2 DEF q, F
<1> QED
  BY <1>1, <1>2, <1>3, <1>4, <1>5, <1>6, <1>7, <1>8, <1>9, <1>10, CheckSel

\* The pairs of settings and values that are to be applied.
LEMMA SettingsType ==
  ASSUME NEW m \in Msgs, Check(m) = "ok" \/ m.op = "SET_BASIC_INFO"
  PROVE  /\ Settings(m) \in Seq(Fields \X Nat)
         /\ \A i \in DOMAIN Settings(m) :
              /\ Settings(m)[i][1] \in DOMAIN m.val
              /\ Settings(m)[i][1] \in KeptOf(m) => Settings(m)[i][2] = m.val[Settings(m)[i][1]]
         /\ \A f \in KeptOf(m) : \E i \in DOMAIN Settings(m) : Settings(m)[i][1] = f
<1> DEFINE q == Order(m)
<1>1. /\ q \in Seq(FieldsOf(m.op, m.sel)) /\ \A f \in KeptOf(m) : Has(q, f)
      /\ m.val \in [FieldsOf(m.op, m.sel) -> Nat] /\ FieldsOf(m.op, m.sel) \subseteq Fields
  BY OrderType, MsgShape, FieldsType
<1>2. ASSUME NEW f \in FieldsOf(m.op, m.sel) PROVE ValueOf(m, f) \in Nat
  <2>1. m.val[f] \in Nat
    BY <1>1
  <2>2. (m.val[f] \div 256) * 256 \in Nat
    BY <2>1
  <2> QED
    BY <2>1, <2>2 DEF ValueOf
<1>3. ASSUME NEW f \in KeptOf(m) PROVE ValueOf(m, f) = m.val[f]
  BY DEF ValueOf, KeptOf
<1>4. Settings(m) = [i \in DOMAIN q |-> <<q[i], ValueOf(m, q[i])>>]
  BY DEF Settings
<1> HIDE DEF q
<1>5. DOMAIN q = 1..Len(q) /\ Len(q) \in Nat /\ \A i \in 1..Len(q) : q[i] \in FieldsOf(m.op, m.sel)
  BY <1>1
<1>6. \A i \in 1..Len(q) : <<q[i], ValueOf(m, q[i])>> \in Fields \X Nat
  BY <1>1, <1>2, <1>5
<1>7. Settings(m) \in Seq(Fields \X Nat) /\ DOMAIN Settings(m) = 1..Len(q)
  BY <1>4, <1>5, <1>6
<1>8. \A i \in 1..Len(q) : Settings(m)[i][1] = q[i] /\ Settings(m)[i][2] = ValueOf(m, q[i])
  BY <1>4, <1>5
<1> QED
  BY <1>1, <1>3, <1>5, <1>7, <1>8 DEF Has

-----------------------------------------------------------------------------
(* The kinds of steps. *)

\* A step that touches neither the platform nor the request in hand.
Quiet == UNCHANGED <<pf, names, file, tmp, call, short, cur, phase, todo, code, view, unsure>>

\* A step of a request that sets nothing.
PhaseStep ==
  /\ phase \in {"delay", "restart", "collect", "pages", "wild"}
  /\ UNCHANGED <<pf, names, file, tmp, short, todo, view, unsure>>
  /\ call' = call \/ \E ok \in BOOLEAN : call' = NoCall(ok)
  /\ code' \in {"ok", "fail", code}
  /\ \/ phase = "delay" /\ phase' = "apply" /\ cur' = cur
     \/ phase \in {"collect", "pages"} /\ phase' \in {"pages", "wild"} /\ cur' = cur
     \/ phase' = "idle" /\ cur' = Nothing

\* A restart sets nothing on this platform.
LEMMA RestartSets ==
  ASSUME NEW ok \in BOOLEAN, cur.op \in Restarts, SetAtOnce(cur.op, 1, ok)
  PROVE  UNCHANGED <<pf, names, file, tmp, short, faults, others>> /\ call' = NoCall(ok)
BY DEF SetAtOnce, Assign, Restarts, Lists, Unkept

\* Every step is one of these.
LEMMA StepKinds ==
  ASSUME TypeOK, [Next]_vars
  PROVE  \/ Quiet \/ PhaseStep \/ Take \/ Apply \/ Called \/ Answer \/ End
         \/ \E n \in Files : Others(n)
<1>1. CASE Ignore \/ NoMemory \/ ChangePassword \/ UNCHANGED vars
  BY <1>1 DEF Ignore, NoMemory, ChangePassword, vars, platformVars, requestVars, Quiet
<1>2. CASE (\E op \in Restarts : AlarmUp(op)) \/ (\E r \in Menu : Send(r))
  BY <1>2 DEF AlarmUp, Send, platformVars, Quiet
<1>3. CASE Delay
  BY <1>3 DEF Delay, platformVars, PhaseStep
<1>4. CASE DelayFails
  BY <1>4 DEF DelayFails, PhaseStep
<1>5. CASE SnmpCollect
  BY <1>5 DEF SnmpCollect, platformVars, PhaseStep
<1>6. CASE SnmpCollectFails \/ SnmpWild
  BY <1>6 DEF SnmpCollectFails, SnmpWild, platformVars, PhaseStep
<1>7. CASE SnmpPage
  <2>1. /\ phase = "pages" /\ UNCHANGED <<pf, names, file, tmp, call, short, todo, view, unsure>>
        /\ (UNCHANGED <<phase, cur, code>> \/ (phase' = "idle" /\ cur' = Nothing /\ code' = "ok"))
    BY <1>7 DEF SnmpPage, platformVars
  <2> QED
    BY <2>1 DEF PhaseStep
<1>8. CASE Restart
  <2>1. phase = "restart" /\ cur.op \in Restarts
    BY <1>8 DEF Restart, TypeOK
  <2>2. PICK ok \in BOOLEAN : SetAtOnce(cur.op, 1, ok)
    BY <1>8 DEF Restart
  <2>3. UNCHANGED <<pf, names, file, tmp, short>> /\ call' = NoCall(ok)
    BY <2>1, <2>2, RestartSets
  <2> QED
    BY <1>8, <2>1, <2>3 DEF Restart, PhaseStep
<1> QED
  BY <1>1, <1>2, <1>3, <1>4, <1>5, <1>6, <1>7, <1>8 DEF Next, Proc

-----------------------------------------------------------------------------
(* Types of the platform. *)

PlatformTypes ==
  /\ pf \in [InPf -> Nat] /\ names \in [Lists -> Seq(Nat)] /\ \A l \in Lists : Len(names[l]) <= NamesMax
  /\ file \in [Files -> Seq(Lines)]
  /\ DOMAIN tmp \subseteq Files /\ \A n \in DOMAIN tmp : tmp[n] \in Seq(Lines)
  /\ call \in Calls /\ short \subseteq Files
  /\ ~Idle => call.field \in InFile /\ (call.at = "rename" => FileOf[call.field] \in DOMAIN tmp)
Bounds == faults \in 0..MaxFaults /\ others \in 0..MaxOthers

\* That is what PlatformTypeOK asks for, and what Typed adds.
LEMMA PlatformParts ==
  PlatformTypes /\ Bounds <=> PlatformTypeOK /\ names \in [Lists -> Seq(Nat)] /\ call \in Calls
<1>1. call \in Calls => call.at \in {"none", "copy", "rename", "store"} /\ call.in \in Seq(Lines)
  BY DEF Calls
<1> QED
  BY <1>1 DEF PlatformTypes, Bounds, PlatformTypeOK

\* No call is a call of the right form.
LEMMA NoCallType == \A ok \in BOOLEAN : NoCall(ok) \in Calls /\ NoCall(ok).at = "none"
<1>1. <<>> \in Seq(Lines)
  OBVIOUS
<1> QED
  BY <1>1 DEF NoCall, Calls

\* A setter that needs no file.
LEMMA SetAtOnceType ==
  ASSUME PlatformTypes, NEW f \in Fields, NEW v \in Nat, NEW ok \in BOOLEAN, SetAtOnce(f, v, ok)
  PROVE  PlatformTypes'
<1>1. UNCHANGED <<file, tmp, short>> /\ call' = NoCall(ok)
  BY DEF SetAtOnce
<1>2. call' \in Calls /\ call'.at = "none"
  BY <1>1, NoCallType
<1>3. pf' \in [InPf -> Nat] /\ names' \in [Lists -> Seq(Nat)] /\ \A l \in Lists : Len(names'[l]) <= NamesMax
  <2>1. CASE ~ok
    BY <2>1 DEF SetAtOnce, PlatformTypes
  <2>2. CASE ok /\ f \in Lists
    <3>1. Len(names[f]) < NamesMax
      BY <2>2 DEF SetAtOnce, Accepts, Lists
    <3>2. names' = [names EXCEPT ![f] = Append(names[f], v)] /\ pf' = pf
      BY <2>2 DEF SetAtOnce, Assign, AddName, Lists, Unkept, Restarts
    <3>3. Append(names[f], v) \in Seq(Nat) /\ Len(Append(names[f], v)) = Len(names[f]) + 1 /\ Len(names[f]) \in Nat
      BY <2>2 DEF PlatformTypes
    <3>4. Len(names'[f]) <= NamesMax
      BY <2>2, <3>1, <3>2, <3>3, PlatformAssumption DEF PlatformTypes
    <3> QED
      BY <3>2, <3>3, <3>4 DEF PlatformTypes
  <2>3. CASE ok /\ f \in Unkept \cup Restarts
    BY <2>3 DEF SetAtOnce, Assign, Lists, Unkept, Restarts, PlatformTypes
  <2>4. CASE ok /\ f \notin Lists \cup Unkept \cup Restarts
    <3>1. pf' = [pf EXCEPT ![f] = v] /\ names' = names
      BY <2>4 DEF SetAtOnce, Assign
    <3> QED
      BY <3>1 DEF PlatformTypes
  <2> QED
    BY <2>1, <2>2, <2>3, <2>4
<1> QED
  BY <1>1, <1>2, <1>3 DEF PlatformTypes, Idle

\* A temporary file is written, or is gone.
LEMMA TmpType ==
  ASSUME PlatformTypes, NEW n \in Files, NEW s \in Seq(Lines)
  PROVE  /\ DOMAIN TmpWith(n, s) = DOMAIN tmp \cup {n} /\ TmpWith(n, s)[n] = s
         /\ DOMAIN TmpWith(n, s) \subseteq Files
         /\ \A m \in DOMAIN TmpWith(n, s) : TmpWith(n, s)[m] \in Seq(Lines)
         /\ DOMAIN TmpWithout(n) \subseteq Files
         /\ \A m \in DOMAIN TmpWithout(n) : TmpWithout(n)[m] \in Seq(Lines)
BY DEF PlatformTypes, TmpWith, TmpWithout

\* A call with another place, or cut short.
LEMMA CallParts ==
  ASSUME NEW c \in Calls
  PROVE  /\ c.at \in {"none", "copy", "rename", "store"} /\ c.val \in Nat /\ c.in \in Seq(Lines)
         /\ c.field \in InFile \cup {"none"} /\ c.cut \in BOOLEAN
         /\ \A p \in {"copy", "rename", "store"} : 
              [c EXCEPT !.at = p] \in Calls /\ [c EXCEPT !.at = p, !.cut = TRUE] \in Calls
<1> DEFINE P == {"none", "copy", "rename", "store"}
<1> DEFINE F == InFile \cup {"none"}
<1> DEFINE L == Seq(Lines)
<1>1. \A p \in {"copy", "rename", "store"} : p \in P
  OBVIOUS
<1>2. Calls = [at : P, field : F, val : Nat, in : L, cut : BOOLEAN, ok : BOOLEAN]
  BY DEF Calls
<1> HIDE DEF P, F, L
<1>3. /\ c.at \in P /\ c.val \in Nat /\ c.in \in L /\ c.field \in F /\ c.cut \in BOOLEAN
      /\ \A p \in P : [c EXCEPT !.at = p] \in Calls /\ [c EXCEPT !.at = p, !.cut = TRUE] \in Calls
  BY <1>2
<1> QED
  BY <1>1, <1>3 DEF P, F, L

\* The setter of a setting in a file begins.
LEMMA SetOpenType ==
  ASSUME PlatformTypes, NEW f \in InFile, NEW v \in Nat, SetOpen(f, v)
  PROVE  PlatformTypes' /\ ~Idle'
<1> DEFINE n == FileOf[f]
<1>1. n \in Files /\ f \in InFile
  BY FilesAre
<1>2. call' = Opened(f, v) /\ tmp' = TmpWith(n, <<>>) /\ UNCHANGED <<pf, names, file, short>>
  BY DEF SetOpen
<1>3. Opened(f, v) \in Calls /\ Opened(f, v).at = "copy" /\ Opened(f, v).field = f
  <2>1. file[n] \in Seq(Lines)
    BY <1>1 DEF PlatformTypes
  <2> QED
    BY <2>1 DEF Opened, Calls
<1>4. <<>> \in Seq(Lines)
  OBVIOUS
<1>5. DOMAIN tmp' \subseteq Files /\ \A m \in DOMAIN tmp' : tmp'[m] \in Seq(Lines)
  BY <1>1, <1>2, <1>4, TmpType
<1> QED
  BY <1>1, <1>2, <1>3, <1>5 DEF PlatformTypes, Idle

\* It cannot open its files.
LEMMA SetOpenFailsType ==
  ASSUME PlatformTypes, NEW f \in InFile, SetOpenFails(f)
  PROVE  PlatformTypes' /\ Idle'
<1>1. FileOf[f] \in Files /\ <<>> \in Seq(Lines)
  BY FilesAre
<1>2. call' = NoCall(FALSE) /\ tmp' \in {tmp, TmpWith(FileOf[f], <<>>)} /\ UNCHANGED <<pf, names, file, short>>
  BY DEF SetOpenFails
<1>3. DOMAIN tmp' \subseteq Files /\ \A m \in DOMAIN tmp' : tmp'[m] \in Seq(Lines)
  BY <1>1, <1>2, TmpType DEF PlatformTypes
<1>4. call' \in Calls /\ call'.at = "none"
  BY <1>2, NoCallType
<1> QED
  BY <1>2, <1>3, <1>4 DEF PlatformTypes, Idle

\* It copies, in full or not.
LEMMA SetCopyType ==
  ASSUME PlatformTypes, SetCopy \/ SetCopyShort
  PROVE  /\ PlatformTypes' /\ ~Idle /\ ~Idle' /\ call.at = "copy" /\ call'.at = "rename"
         /\ UNCHANGED <<pf, names, file, short>>
         /\ call'.field = call.field /\ call'.val = call.val /\ call'.in = call.in
         /\ (SetCopyShort => call'.cut)
         /\ ~call'.cut => ~call.cut /\ tmp'[FileOf[call.field]] = Edited(call.field, call.in, call.val)
<1> DEFINE n == FileOf[call.field]
<1> DEFINE all == Edited(call.field, call.in, call.val)
<1>1. call.at = "copy" /\ UNCHANGED <<pf, names, file, short>>
  BY DEF SetCopy, SetCopyShort
<1>2. call \in Calls /\ call.field \in InFile /\ n \in Files
  BY <1>1, FilesAre DEF PlatformTypes, Idle
<1>3. all \in Seq(Lines)
  BY <1>2, CallParts, EditedType
<1> HIDE DEF all
<1>4. /\ \/ SetCopyShort /\ call' = [call EXCEPT !.at = "rename", !.cut = TRUE]
         \/ SetCopy /\ ~SetCopyShort /\ call' = [call EXCEPT !.at = "rename"]
      /\ \E s \in Seq(Lines) : tmp' = TmpWith(n, s) /\ (~SetCopyShort => s = all)
  <2>1. CASE SetCopyShort
    <3>1. PICK k \in 0..(Len(all) - 1) : tmp' = TmpWith(n, SubSeq(all, 1, k))
      BY <2>1 DEF SetCopyShort, all
    <3>2. SubSeq(all, 1, k) \in Seq(Lines)
      BY <1>3, <3>1
    <3> QED
      BY <2>1, <3>1, <3>2 DEF SetCopyShort
  <2>2. CASE ~SetCopyShort
    BY <1>3, <2>2 DEF SetCopy, all
  <2> QED
    BY <2>1, <2>2
<1>5. /\ call' \in Calls /\ call'.at = "rename" /\ call'.field = call.field /\ call'.val = call.val
      /\ call'.in = call.in /\ (SetCopyShort => call'.cut) /\ (~SetCopyShort => call'.cut = call.cut)
  <2>1. [call EXCEPT !.at = "rename"] \in Calls /\ [call EXCEPT !.at = "rename", !.cut = TRUE] \in Calls
    BY <1>2, CallParts
  <2>2. DOMAIN call = {"at", "field", "val", "in", "cut", "ok"}
    BY <1>2 DEF Calls
  <2> QED
    BY <1>4, <2>1, <2>2
<1>6. /\ DOMAIN tmp' \subseteq Files /\ (\A m \in DOMAIN tmp' : tmp'[m] \in Seq(Lines)) /\ n \in DOMAIN tmp'
      /\ ~SetCopyShort => tmp'[n] = all
  <2>1. PICK s \in Seq(Lines) : tmp' = TmpWith(n, s) /\ (~SetCopyShort => s = all)
    BY <1>4
  <2>2. /\ DOMAIN tmp' = DOMAIN tmp \cup {n} /\ tmp'[n] = s
        /\ DOMAIN tmp' \subseteq Files /\ \A m \in DOMAIN tmp' : tmp'[m] \in Seq(Lines)
    BY <1>2, <2>1, TmpType
  <2> QED
    BY <2>1, <2>2
<1>7. PlatformTypes' /\ ~Idle' /\ ~Idle
  BY <1>1, <1>2, <1>5, <1>6 DEF PlatformTypes, Idle
<1>8. ~call'.cut => ~call.cut /\ tmp'[n] = all
  BY <1>5, <1>6
<1> QED
  BY <1>1, <1>5, <1>7, <1>8 DEF all

\* The copy replaces the file.
LEMMA SetRenameType ==
  ASSUME PlatformTypes, SetRename
  PROVE  /\ PlatformTypes' /\ ~Idle /\ ~Idle' /\ call.field \in InFile /\ FileOf[call.field] \in Files
         /\ call.at = "rename" /\ call' = [call EXCEPT !.at = "store"]
         /\ call'.at = "store" /\ call'.field = call.field /\ call'.val = call.val
         /\ UNCHANGED <<pf, names>>
         /\ FileOf[call.field] \in DOMAIN tmp
         /\ file'[FileOf[call.field]] = tmp[FileOf[call.field]]
         /\ \A n \in Files \ {FileOf[call.field]} : file'[n] = file[n]
<1> DEFINE n == FileOf[call.field]
<1>1. /\ call.at = "rename" /\ file' = [file EXCEPT ![n] = tmp[n]] /\ tmp' = TmpWithout(n)
      /\ short' = (IF call.cut THEN short \cup {n} ELSE short \ {n})
      /\ call' = [call EXCEPT !.at = "store"] /\ UNCHANGED <<pf, names>>
  BY DEF SetRename
<1>2. call \in Calls /\ call.field \in InFile /\ n \in Files /\ n \in DOMAIN tmp /\ tmp[n] \in Seq(Lines)
  BY <1>1, FilesAre DEF PlatformTypes, Idle
<1>3. call' \in Calls /\ call'.at = "store" /\ call'.field = call.field /\ call'.val = call.val
  <2>1. call' \in Calls
    BY <1>1, <1>2, CallParts
  <2>2. DOMAIN call = {"at", "field", "val", "in", "cut", "ok"}
    BY <1>2 DEF Calls
  <2> QED
    BY <1>1, <2>1, <2>2
<1>4. DOMAIN tmp' \subseteq Files /\ \A m \in DOMAIN tmp' : tmp'[m] \in Seq(Lines)
  BY <1>1, <1>2, TmpType
<1>5. file' \in [Files -> Seq(Lines)] /\ file'[n] = tmp[n] /\ \A m \in Files \ {n} : file'[m] = file[m]
  BY <1>1, <1>2 DEF PlatformTypes
<1>6. short' \subseteq Files
  BY <1>1, <1>2 DEF PlatformTypes
<1> HIDE DEF n
<1>7. PlatformTypes' /\ ~Idle /\ ~Idle'
  BY <1>1, <1>2, <1>3, <1>4, <1>5, <1>6 DEF PlatformTypes, Idle
<1> QED
  BY <1>1, <1>2, <1>3, <1>5, <1>7 DEF n

\* The variable is assigned.
LEMMA SetStoreType ==
  ASSUME PlatformTypes, SetStore
  PROVE  /\ PlatformTypes' /\ ~Idle /\ Idle' /\ call.at = "store" /\ call.field \in InFile
         /\ UNCHANGED <<file, short>> /\ \A f \in InPf \ {call.field} : pf'[f] = pf[f]
<1>1. /\ call.at = "store" /\ call' = NoCall(TRUE) /\ UNCHANGED <<names, file, tmp, short>>
      /\ pf' = [pf EXCEPT ![call.field] =
                  IF call.field = "WEB_SERVICE_PORT" THEN call.val % 256 ELSE call.val]
  BY DEF SetStore
<1>2. call \in Calls /\ call.field \in InFile /\ call.val \in Nat
  BY <1>1, CallParts DEF PlatformTypes, Idle
<1>3. call.val % 256 \in Nat
  BY <1>2
<1>4. pf' \in [InPf -> Nat] /\ \A f \in InPf \ {call.field} : pf'[f] = pf[f]
  BY <1>1, <1>2, <1>3 DEF PlatformTypes
<1>5. call' \in Calls /\ call'.at = "none"
  BY <1>1, NoCallType
<1> QED
  BY <1>1, <1>2, <1>4, <1>5 DEF PlatformTypes, Idle

\* Another program writes a file.
LEMMA OthersType ==
  ASSUME PlatformTypes, NEW n \in Files, OthersWrite(n)
  PROVE  /\ PlatformTypes' /\ UNCHANGED <<pf, names, tmp, call>> /\ short' = short \ {n}
         /\ file'[n] \in Contents[n] /\ \A m \in Files \ {n} : file'[m] = file[m]
<1>1. PICK c \in Contents[n] : file' = [file EXCEPT ![n] = c]
  BY DEF OthersWrite
<1>2. UNCHANGED <<pf, names, tmp, call>> /\ short' = short \ {n}
  BY DEF OthersWrite
<1>3. c \in Seq(Lines)
  BY PlatformAssumption
<1> QED
  BY <1>1, <1>2, <1>3 DEF PlatformTypes, Idle

\* The lists are half full at the start.
LEMMA FreshNamesType == FreshNames \in [Lists -> Seq(Nat)] /\ \A l \in Lists : Len(FreshNames[l]) <= NamesMax
<1> DEFINE k == NamesMax \div 2
<1> DEFINE q == [i \in 1..k |-> i]
<1>0. NamesMax \in Nat
  BY PlatformAssumption
<1>1. k \in Nat /\ k <= NamesMax
  BY <1>0
<1> HIDE DEF k
<1>2. q \in Seq(Nat) /\ Len(q) = k
  BY <1>1
<1>3. FreshNames = [l \in Lists |-> q]
  BY DEF FreshNames, k
<1> QED
  BY <1>1, <1>2, <1>3

\* The process starts again.
LEMMA RestartType ==
  ASSUME PlatformTypes, RestartPlatform
  PROVE  PlatformTypes' /\ Idle' /\ UNCHANGED <<file, tmp, short>>
<1>1. /\ pf' = Defaults /\ names' = FreshNames /\ call' = NoCall(TRUE) /\ UNCHANGED <<file, tmp, short>>
  BY DEF RestartPlatform
<1>2. Defaults \in [InPf -> Nat]
  BY PlatformAssumption
<1>3. FreshNames \in [Lists -> Seq(Nat)] /\ \A l \in Lists : Len(FreshNames[l]) <= NamesMax
  BY FreshNamesType
<1>4. call' \in Calls /\ call'.at = "none"
  BY <1>1, NoCallType
<1> QED
  BY <1>1, <1>2, <1>3, <1>4 DEF PlatformTypes, Idle

\* The first pair of the list.
LEMMA HeadTodo ==
  ASSUME todo \in Seq(Fields \X Nat), todo # <<>>
  PROVE  /\ Head(todo) = todo[1] /\ 1 \in DOMAIN todo /\ todo[1] \in Fields \X Nat
         /\ todo[1][1] \in Fields /\ todo[1][2] \in Nat
         /\ Tail(todo) \in Seq(Fields \X Nat) /\ DOMAIN todo = 1..Len(todo) /\ Len(todo) \in Nat
         /\ \A i \in DOMAIN Tail(todo) : i + 1 \in DOMAIN todo /\ Tail(todo)[i] = todo[i + 1]
         /\ \A i \in DOMAIN todo : i # 1 => i - 1 \in DOMAIN Tail(todo) /\ Tail(todo)[i - 1] = todo[i]
BY DEF Head, Tail

\* What the handler of a setting does.
LEMMA ApplyKinds ==
  ASSUME Apply, todo \in Seq(Fields \X Nat)
  PROVE  /\ phase = "apply" /\ todo # <<>> /\ UNCHANGED <<mq, cur, alarm, view, unsure>>
         /\ \/ \E ok \in BOOLEAN : SetAtOnce(todo[1][1], todo[1][2], ok) /\ Applied(ok) /\ phase' = phase
            \/ todo[1][1] \in InFile /\ SetOpenFails(todo[1][1]) /\ Applied(FALSE) /\ phase' = phase
            \/ /\ todo[1][1] \in InFile /\ SetOpen(todo[1][1], todo[1][2]) /\ phase' = "called"
               /\ UNCHANGED <<todo, code>>
<1>1. phase = "apply" /\ todo # <<>> /\ UNCHANGED <<mq, cur, alarm, view, unsure>>
  BY DEF Apply, UnchangedByApply, UnchangedBounds
<1>2. Head(todo) = todo[1]
  BY <1>1, HeadTodo
<1> QED
  BY <1>1, <1>2 DEF Apply, SetOpenFails, SetOpen

\* What the call of a setter does.
LEMMA CalledKinds ==
  ASSUME Called
  PROVE  /\ phase = "called" /\ UNCHANGED <<mq, cur, alarm, view, unsure>>
         /\ \/ (SetCopy \/ SetCopyShort) /\ UNCHANGED <<phase, todo, code>>
            \/ SetRename /\ UNCHANGED <<phase, todo, code>>
            \/ SetStore /\ phase' = "apply" /\ Applied(TRUE)
BY DEF Called, UnchangedByApply, UnchangedBounds

\* Reading the settings that are told.
LEMMA RefreshType ==
  ASSUME PlatformTypes, NEW F, Refresh(F), UNCHANGED <<names, file, tmp, call, short>>
  PROVE  PlatformTypes'
<1>1. /\ \A f \in InPf : pf[f] \in Nat
      /\ \A f \in InPf \ {"DEVICE_IP_ADDR", "SUBNET_MASK"} : Read(f) \in Nat
  BY ReadType DEF PlatformTypes
<1>2. pf' \in [InPf -> Nat]
  BY <1>1 DEF Refresh
<1> QED
  BY <1>2 DEF PlatformTypes, Idle

\* Every step keeps the platform of its type.
LEMMA NextPlatformTypes ==
  ASSUME PlatformTypes, TypeOK, Typed, [Next]_vars
  PROVE  PlatformTypes'
<1>1. CASE Quiet
  BY <1>1 DEF Quiet, PlatformTypes, Idle
<1>2. CASE PhaseStep
  <2>1. call' = call \/ (call' \in Calls /\ call'.at = "none")
    BY <1>2, NoCallType DEF PhaseStep
  <2> QED
    BY <1>2, <2>1 DEF PhaseStep, PlatformTypes, Idle
<1>3. CASE Take
  BY <1>3 DEF Take, platformVars, PlatformTypes, Idle
<1>4. CASE Apply
  <2>1. todo \in Seq(Fields \X Nat)
    BY DEF Typed
  <2>2. todo # <<>> /\ todo[1][1] \in Fields /\ todo[1][2] \in Nat
    BY <1>4, <2>1, ApplyKinds, HeadTodo
  <2>3. CASE \E ok \in BOOLEAN : SetAtOnce(todo[1][1], todo[1][2], ok)
    BY <2>2, <2>3, SetAtOnceType
  <2>4. CASE todo[1][1] \in InFile /\ SetOpenFails(todo[1][1])
    BY <2>4, SetOpenFailsType
  <2>5. CASE todo[1][1] \in InFile /\ SetOpen(todo[1][1], todo[1][2])
    BY <2>2, <2>5, SetOpenType
  <2> QED
    BY <1>4, <2>1, <2>3, <2>4, <2>5, ApplyKinds
<1>5. CASE Called
  BY <1>5, CalledKinds, SetCopyType, SetRenameType, SetStoreType
<1>6. CASE Answer
  <2>1. Refresh(ReadBy(cur)) /\ UNCHANGED <<names, file, tmp, call, short>>
    BY <1>6 DEF Answer
  <2> QED
    BY <2>1, RefreshType
<1>7. CASE End
  BY <1>7, RestartType DEF End
<1>8. CASE \E n \in Files : Others(n)
  BY <1>8, OthersType DEF Others
<1> QED
  BY <1>1, <1>2, <1>3, <1>4, <1>5, <1>6, <1>7, <1>8, StepKinds

\* The counters of what goes wrong stay in their bounds.
LEMMA NextBounds ==
  ASSUME Bounds, TypeOK, Typed, [Next]_vars
  PROVE  Bounds'
<1> DEFINE Counted == /\ faults' = faults \/ (faults < MaxFaults /\ faults' = faults + 1)
                      /\ others' = others \/ (others < MaxOthers /\ others' = others + 1)
<1>a. SUFFICES Counted
  BY PlatformAssumption DEF Bounds
<1>0. ASSUME UNCHANGED platformVars PROVE Counted
  BY <1>0 DEF platformVars
<1>1. CASE Take \/ Ignore \/ Delay \/ SnmpCollect \/ SnmpPage \/ SnmpWild \/ ChangePassword \/ UNCHANGED vars
  BY <1>0, <1>1 DEF Take, Ignore, Delay, SnmpCollect, SnmpPage, SnmpWild, ChangePassword, vars
<1>2. CASE NoMemory \/ DelayFails \/ SnmpCollectFails
  BY <1>2 DEF NoMemory, DelayFails, SnmpCollectFails
<1>3. CASE Apply
  BY <1>3 DEF Apply, SetAtOnce, SetOpen, SetOpenFails
<1>4. CASE Called
  BY <1>4 DEF Called, SetCopy, SetCopyShort, SetRename, SetStore
<1>5. CASE Answer
  BY <1>5 DEF Answer
<1>6. CASE Restart
  BY <1>6 DEF Restart, SetAtOnce
<1>7. CASE End
  BY <1>7 DEF End, RestartPlatform
<1>8. CASE (\E op \in Restarts : AlarmUp(op)) \/ (\E r \in Menu : Send(r))
  BY <1>8 DEF AlarmUp, Send, platformVars
<1>9. CASE \E n \in Files : Others(n)
  BY <1>9 DEF Others, OthersWrite
<1> QED
  BY <1>1, <1>2, <1>3, <1>4, <1>5, <1>6, <1>7, <1>8, <1>9 DEF Next, Proc

-----------------------------------------------------------------------------
(* Types of the requests. *)

QueueTypes ==
  /\ mq \in Seq(Msgs)
  /\ alarm \in [Restarts -> Msgs \cup {Nothing}]
  /\ \A op \in Restarts : alarm[op] # Nothing => alarm[op].op = op
HandTypes ==
  /\ phase \in {"idle", "apply", "called", "delay", "restart", "collect", "pages", "wild"}
  /\ code \in {"ok", "fail", "authen", "type"}
  /\ (phase = "idle") <=> (cur = Nothing)
  /\ phase # "idle" => cur \in Msgs
  /\ (phase = "called") <=> ~Idle
  /\ phase \in {"idle", "delay", "restart", "collect", "pages", "wild"} => todo = <<>>
  /\ phase \in {"delay", "restart"} => cur.op \in Restarts
  /\ phase = "delay" => cur.delay > 0
  /\ todo \in Seq(Fields \X Nat)
  /\ DOMAIN view \subseteq Kept /\ unsure \subseteq Files

\* TypeOK and Typed have these parts.
LEMMA TypesParts ==
  TypeOK /\ Typed <=> PlatformTypes /\ Bounds /\ QueueTypes /\ HandTypes
<1>1. Kept \subseteq InMemory \cup InFile
  BY DEF Kept
<1>2. ASSUME todo \in Seq(Fields \X Nat) PROVE \A i \in DOMAIN todo : todo[i] \in Fields \X Nat
  BY <1>2
<1>3. ASSUME mq \in Seq(Msgs) PROVE \A i \in DOMAIN mq : DOMAIN mq[i].val \subseteq Fields
  <2>1. ASSUME NEW i \in DOMAIN mq PROVE DOMAIN mq[i].val \subseteq Fields
    <3>1. mq[i] \in Msgs
      BY <1>3
    <3> QED
      BY <3>1, MsgShape, FieldsType
  <2> QED
    BY <2>1
<1>4. ASSUME TypeOK, Typed PROVE PlatformTypes /\ Bounds /\ QueueTypes /\ HandTypes
  <2>1. PlatformTypes /\ Bounds
    BY <1>4, PlatformParts DEF TypeOK, Typed
  <2> QED
    BY <1>4, <2>1 DEF TypeOK, Typed, QueueTypes, HandTypes
<1>5. ASSUME PlatformTypes, Bounds, QueueTypes, HandTypes PROVE TypeOK /\ Typed
  <2>1. PlatformTypeOK /\ names \in [Lists -> Seq(Nat)] /\ call \in Calls
    BY <1>5, PlatformParts
  <2> QED
    BY <1>1, <1>2, <1>3, <1>5, <2>1 DEF TypeOK, Typed, QueueTypes, HandTypes
<1> QED
  BY <1>4, <1>5

\* The request at the head of the queue.
LEMMA HeadMsg ==
  ASSUME mq \in Seq(Msgs), mq # <<>>
  PROVE  Head(mq) \in Msgs /\ Tail(mq) \in Seq(Msgs)
OBVIOUS

\* Messages go into the queue and out of it, and into the alarms.
LEMMA NextQueueTypes ==
  ASSUME QueueTypes, HandTypes, [Next]_vars
  PROVE  QueueTypes'
<1>1. CASE Take \/ Ignore \/ NoMemory
  <2>1. mq # <<>> /\ mq' = Tail(mq) /\ alarm' = alarm
    BY <1>1 DEF Take, Ignore, NoMemory, UnchangedBounds
  <2>2. mq' \in Seq(Msgs)
    BY <2>1, HeadMsg DEF QueueTypes
  <2> QED
    BY <2>1, <2>2 DEF QueueTypes
<1>2. CASE Apply \/ Called \/ Answer \/ DelayFails \/ Restart \/ SnmpCollect \/ SnmpCollectFails \/ SnmpPage
           \/ SnmpWild \/ ChangePassword \/ UNCHANGED vars \/ \E n \in Files : Others(n)
  <2>1. UNCHANGED <<mq, alarm>>
    BY <1>2 DEF Apply, Called, UnchangedByApply, Answer, DelayFails, Restart, SnmpCollect, SnmpCollectFails,
       SnmpPage, SnmpWild, ChangePassword, vars, requestVars, Others, UnchangedBounds
  <2> QED
    BY <2>1 DEF QueueTypes
<1>3. CASE Delay
  <2>1. phase = "delay" /\ mq' = mq /\ alarm' = [alarm EXCEPT ![cur.op] = DelayMsg(cur)]
    BY <1>3 DEF Delay
  <2>2. cur \in Msgs /\ cur.op \in Restarts /\ cur.delay > 0
    BY <2>1 DEF HandTypes
  <2>3. cur \in Menu
    BY <2>2, MsgShape
  <2>4. DelayMsg(cur) \in Msgs
    BY <2>2, <2>3 DEF Msgs
  <2>5. DelayMsg(cur).op = cur.op
    <3>1. cur \in Request(cur.op, cur.sel)
      BY <2>2, MsgShape
    <3>2. DOMAIN cur = {"op", "pass", "len", "sel", "val", "delay", "original", "late"}
      BY <3>1 DEF Request
    <3> QED
      BY <3>2 DEF DelayMsg
  <2> QED
    BY <2>1, <2>2, <2>4, <2>5 DEF QueueTypes
<1>4. ASSUME NEW op \in Restarts, AlarmUp(op) PROVE QueueTypes'
  <2>1. /\ alarm[op] # Nothing /\ alarm' = [alarm EXCEPT ![op] = Nothing]
        /\ mq' = Append(mq, alarm[op]) \/ mq' = mq
    BY <1>4 DEF AlarmUp
  <2>2. alarm[op] \in Msgs
    BY <2>1 DEF QueueTypes
  <2>3. mq' \in Seq(Msgs)
    BY <2>1, <2>2 DEF QueueTypes
  <2> QED
    BY <2>1, <2>3 DEF QueueTypes
<1>5. ASSUME NEW r \in Menu, Send(r) PROVE QueueTypes'
  <2>1. mq' = Append(mq, r) /\ alarm' = alarm /\ r \in Msgs
    BY <1>5 DEF Send, Msgs
  <2> QED
    BY <2>1 DEF QueueTypes
<1>6. CASE End
  <2>1. mq' = <<>> /\ alarm' = [op \in Restarts |-> Nothing]
    BY <1>6 DEF End
  <2> QED
    BY <2>1 DEF QueueTypes
<1> QED
  BY <1>1, <1>2, <1>3, <1>4, <1>5, <1>6 DEF Next, Proc

\* Of a request without settings none are applied.
LEMMA NoSettings ==
  ASSUME NEW m \in Msgs, m.op \in Restarts \cup {"SNMP_GET"}
  PROVE  Settings(m) = <<>> /\ DOMAIN m.val = {} /\ KeptOf(m) = {}
<1>1. Order(m) = <<>>
  BY DEF Order, Restarts
<1>2. DOMAIN m.val = {}
  BY MsgShape, FieldsType
<1>3. Settings(m) = <<>>
  BY <1>1 DEF Settings
<1> QED
  BY <1>2, <1>3 DEF KeptOf

\* What Take makes of the request.
LEMMA Taken ==
  ASSUME QueueTypes, HandTypes, Take
  PROVE  /\ cur' \in Msgs /\ phase = "idle" /\ phase' # "idle" /\ phase' # "called"
         /\ code' = Check(cur') /\ code' \in {"ok", "fail", "authen", "type"}
         /\ phase' = NextPhase(cur', code')
         /\ \/ todo' = Settings(cur') /\ (code' = "ok" \/ cur'.op = "SET_BASIC_INFO")
            \/ todo' = <<>> /\ code' # "ok" /\ cur'.op # "SET_BASIC_INFO"
         /\ view' = Forget(DOMAIN cur'.val) /\ unsure' = {n \in Files : ~HasLines(n)}
         /\ UNCHANGED platformVars
<1> DEFINE r == Head(mq)
<1>1. r \in Msgs
  BY HeadMsg DEF QueueTypes, Take
<1>2. /\ cur' = r /\ code' = Check(r) /\ phase' = NextPhase(r, Check(r)) /\ IsEnabled(r) /\ phase = "idle"
      /\ todo' = (IF Check(r) = "ok" \/ r.op = "SET_BASIC_INFO" THEN Settings(r) ELSE <<>>)
      /\ view' = Forget(DOMAIN r.val) /\ unsure' = {n \in Files : ~HasLines(n)} /\ UNCHANGED platformVars
  BY DEF Take
<1> HIDE DEF r
<1>3. r.op \in Operations
  BY <1>2, RequestsAssumption DEF IsEnabled
<1>4. Check(r) \in {"ok", "fail", "authen", "type"}
  BY <1>3, CheckType
<1>5. phase' # "idle" /\ phase' # "called"
  BY <1>2 DEF NextPhase
<1> QED
  BY <1>1, <1>2, <1>4, <1>5

\* A setting has been applied, or not.
LEMMA AppliedType ==
  ASSUME HandTypes, todo # <<>>, NEW ok \in BOOLEAN, Applied(ok)
  PROVE  todo' \in Seq(Fields \X Nat) /\ code' \in {"ok", "fail", "authen", "type"}
<1>1. Tail(todo) \in Seq(Fields \X Nat) /\ <<>> \in Seq(Fields \X Nat)
  BY HeadTodo DEF HandTypes
<1>2. /\ todo' = (IF ok THEN Tail(todo) ELSE <<>>)
      /\ code' = IF ok THEN code ELSE "fail"
  BY DEF Applied
<1> HIDE DEF Applied
<1> QED
  BY <1>1, <1>2 DEF HandTypes


\* What is no longer concluded.
LEMMA ForgetType ==
  ASSUME NEW F
  PROVE  DOMAIN Forget(F) = DOMAIN view \ F /\ \A f \in DOMAIN view \ F : Forget(F)[f] = view[f]
BY DEF Forget

\* What is concluded as well.
LEMMA LearnType ==
  ASSUME NEW v
  PROVE  /\ DOMAIN Learn(v) = DOMAIN v \cup DOMAIN view
         /\ \A f \in DOMAIN v : Learn(v)[f] = v[f]
         /\ \A f \in DOMAIN view \ DOMAIN v : Learn(v)[f] = view[f]
BY DEF Learn

\* What is concluded of a request.
LEMMA ConcludesType == \A r : Concludes(r) \subseteq KeptOf(r) /\ KeptOf(r) \subseteq Kept \cap DOMAIN r.val
BY DEF Concludes, KeptOf, Kept

\* The answer to a request.
LEMMA Answered ==
  ASSUME Answer, HandTypes
  PROVE  /\ phase = "apply" /\ todo = <<>> /\ phase' = "idle" /\ cur' = Nothing /\ code' = "ok"
         /\ UNCHANGED <<names, file, tmp, call, short, todo, unsure>> /\ Refresh(ReadBy(cur))
         /\ DOMAIN view' = Concludes(cur) \cup DOMAIN view
         /\ \A f \in Concludes(cur) : view'[f] = cur.val[f]
         /\ \A f \in DOMAIN view \ Concludes(cur) : view'[f] = view[f]
<1> DEFINE v == [f \in Concludes(cur) |-> cur.val[f]]
<1>1. view' = Learn(v)
  BY DEF Answer
<1>2. DOMAIN v = Concludes(cur) /\ \A f \in Concludes(cur) : v[f] = cur.val[f]
  OBVIOUS
<1> HIDE DEF v
<1>3. /\ DOMAIN view' = Concludes(cur) \cup DOMAIN view
      /\ \A f \in Concludes(cur) : view'[f] = cur.val[f]
      /\ \A f \in DOMAIN view \ Concludes(cur) : view'[f] = view[f]
  BY <1>1, <1>2, LearnType
<1> QED
  BY <1>3 DEF Answer

\* Every step keeps the request in hand of its type.
LEMMA NextHandTypes ==
  ASSUME PlatformTypes, QueueTypes, HandTypes, InCall, TypeOK, [Next]_vars
  PROVE  HandTypes'
<1>1. CASE Quiet
  BY <1>1 DEF Quiet, HandTypes, Idle
<1>2. CASE PhaseStep
  <2>1. /\ phase \in {"delay", "restart", "collect", "pages", "wild"} /\ UNCHANGED <<todo, view, unsure>>
        /\ call' = call \/ \E ok \in BOOLEAN : call' = NoCall(ok)
        /\ code' \in {"ok", "fail", code}
    BY <1>2 DEF PhaseStep
  <2>2. todo = <<>> /\ Idle /\ cur \in Msgs /\ cur # Nothing
    BY <2>1 DEF HandTypes
  <2>3. Idle'
    BY <2>1, <2>2, NoCallType DEF Idle
  <2>4. \/ phase' = "apply" /\ cur' = cur
        \/ phase' \in {"pages", "wild"} /\ cur' = cur
        \/ phase' = "idle" /\ cur' = Nothing
    BY <1>2 DEF PhaseStep
  <2> QED
    BY <2>1, <2>2, <2>3, <2>4 DEF HandTypes
<1>3. CASE Take
  <2>1. /\ cur' \in Msgs /\ phase = "idle" /\ phase' # "idle" /\ phase' # "called"
        /\ code' \in {"ok", "fail", "authen", "type"} /\ phase' = NextPhase(cur', code')
        /\ \/ todo' = Settings(cur') /\ (code' = "ok" \/ cur'.op = "SET_BASIC_INFO") /\ code' = Check(cur')
           \/ todo' = <<>> /\ code' # "ok" /\ cur'.op # "SET_BASIC_INFO"
        /\ view' = Forget(DOMAIN cur'.val) /\ unsure' = {n \in Files : ~HasLines(n)}
        /\ UNCHANGED platformVars
    BY <1>3, Taken
  <2>2. cur' # Nothing
    BY <2>1, MsgShape
  <2>3. DOMAIN view' \subseteq Kept
    BY <2>1, ForgetType DEF HandTypes
  <2>4. Idle'
    BY <2>1 DEF HandTypes, Idle, platformVars
  <2>5. todo' \in Seq(Fields \X Nat)
    <3>1. CASE todo' = <<>>
      BY <3>1
    <3>2. CASE todo' # <<>>
      <4>1. todo' = Settings(cur') /\ (Check(cur') = "ok" \/ cur'.op = "SET_BASIC_INFO") /\ cur' \in Msgs
        BY <2>1, <3>2
      <4> QED
        BY <4>1, SettingsType
    <3> QED
      BY <3>1, <3>2
  <2>6. /\ phase' \in {"delay", "restart", "collect", "apply"}
        /\ phase' # "apply" => cur'.op \in Restarts \cup {"SNMP_GET"}
        /\ phase' \in {"delay", "restart"} => cur'.op \in Restarts
        /\ phase' = "delay" => cur'.delay > 0
    BY <2>1 DEF NextPhase
  <2>7. phase' # "apply" => todo' = <<>>
    BY <2>1, <2>6, NoSettings
  <2> QED
    BY <2>1, <2>2, <2>3, <2>4, <2>5, <2>6, <2>7 DEF HandTypes
<1>4. CASE Apply
  <2>0. todo \in Seq(Fields \X Nat)
    BY DEF HandTypes
  <2>1. /\ phase = "apply" /\ todo # <<>> /\ UNCHANGED <<cur, view, unsure>>
    BY <1>4, <2>0, ApplyKinds
  <2>2. CASE \E ok \in BOOLEAN : SetAtOnce(todo[1][1], todo[1][2], ok) /\ Applied(ok) /\ phase' = phase
    <3>1. PICK ok \in BOOLEAN : SetAtOnce(todo[1][1], todo[1][2], ok) /\ Applied(ok) /\ phase' = phase
      BY <2>2
    <3>2. Idle'
      BY <3>1, NoCallType DEF SetAtOnce, Idle
    <3>3. todo' \in Seq(Fields \X Nat) /\ code' \in {"ok", "fail", "authen", "type"}
      BY <2>1, <3>1, AppliedType
    <3> QED
      BY <2>1, <3>1, <3>2, <3>3 DEF HandTypes
  <2>3. CASE todo[1][1] \in InFile /\ SetOpenFails(todo[1][1]) /\ Applied(FALSE) /\ phase' = phase
    <3>1. Idle'
      BY <2>3, SetOpenFailsType
    <3>2. todo' \in Seq(Fields \X Nat) /\ code' \in {"ok", "fail", "authen", "type"}
      BY <2>1, <2>3, AppliedType
    <3> QED
      BY <2>1, <2>3, <3>1, <3>2 DEF HandTypes
  <2>4. CASE /\ todo[1][1] \in InFile /\ SetOpen(todo[1][1], todo[1][2]) /\ phase' = "called"
             /\ UNCHANGED <<todo, code>>
    <3>1. todo[1][2] \in Nat
      BY <2>0, <2>1, HeadTodo
    <3>2. ~Idle'
      BY <2>4, <3>1, SetOpenType
    <3> QED
      BY <2>1, <2>4, <3>2 DEF HandTypes
  <2> QED
    BY <1>4, <2>0, <2>2, <2>3, <2>4, ApplyKinds
<1>5. CASE Called
  <2>1. phase = "called" /\ UNCHANGED <<cur, view, unsure>>
    BY <1>5, CalledKinds
  <2>2. CASE (SetCopy \/ SetCopyShort \/ SetRename) /\ UNCHANGED <<phase, todo, code>>
    <3>1. ~Idle'
      BY <2>2, SetCopyType, SetRenameType
    <3> QED
      BY <2>1, <2>2, <3>1 DEF HandTypes
  <2>3. CASE SetStore /\ phase' = "apply" /\ Applied(TRUE)
    <3>1. Idle'
      BY <2>3, SetStoreType
    <3>2. todo' \in Seq(Fields \X Nat) /\ code' \in {"ok", "fail", "authen", "type"}
      BY <2>1, <2>3, AppliedType DEF InCall
    <3> QED
      BY <2>1, <2>3, <3>1, <3>2 DEF HandTypes
  <2> QED
    BY <1>5, <2>2, <2>3, CalledKinds
<1>6. CASE Answer
  <2>1. /\ phase = "apply" /\ todo = <<>> /\ phase' = "idle" /\ cur' = Nothing /\ code' = "ok"
        /\ UNCHANGED <<call, todo, unsure>> /\ DOMAIN view' = Concludes(cur) \cup DOMAIN view
    BY <1>6, Answered
  <2>2. DOMAIN view' \subseteq Kept
    BY <2>1, ConcludesType DEF HandTypes
  <2>3. Idle'
    BY <2>1 DEF HandTypes, Idle
  <2> QED
    BY <2>1, <2>2, <2>3 DEF HandTypes
<1>7. CASE End
  <2>1. /\ phase' = "idle" /\ cur' = Nothing /\ todo' = <<>> /\ code' = "ok" /\ unsure' = unsure
        /\ view' = Forget(InMemory)
    BY <1>7 DEF End
  <2>2. Idle'
    BY <1>7, RestartType DEF End
  <2>3. DOMAIN view' \subseteq Kept
    BY <2>1, ForgetType DEF HandTypes
  <2> QED
    BY <2>1, <2>2, <2>3 DEF HandTypes
<1>8. CASE \E n \in Files : Others(n)
  <2>1. PICK n \in Files : Others(n)
    BY <1>8
  <2>2. /\ UNCHANGED <<cur, phase, todo, code, call>> /\ unsure' = unsure \cup {n}
        /\ view' = Forget({f \in InFile : FileOf[f] = n})
    BY <2>1, OthersType DEF Others
  <2>3. DOMAIN view' \subseteq Kept
    BY <2>2, ForgetType DEF HandTypes
  <2>4. Idle' = Idle
    BY <2>2 DEF Idle
  <2> QED
    BY <2>2, <2>3, <2>4 DEF HandTypes
<1> QED
  BY <1>1, <1>2, <1>3, <1>4, <1>5, <1>6, <1>7, <1>8, StepKinds

-----------------------------------------------------------------------------
(* What steps do to the list of settings, and to what is read. *)

\* The list of settings only gets shorter while a request is handled.
LEMMA TodoStep ==
  ASSUME HandTypes, InCall, Apply \/ Called
  PROVE  /\ phase \in {"apply", "called"} /\ UNCHANGED <<cur, view, unsure>> /\ todo # <<>>
         /\ \A i \in DOMAIN todo' : \E j \in DOMAIN todo : todo'[i] = todo[j]
<1>0. todo \in Seq(Fields \X Nat)
  BY DEF HandTypes
<1>1. phase \in {"apply", "called"} /\ UNCHANGED <<cur, view, unsure>> /\ todo # <<>>
  BY <1>0, ApplyKinds, CalledKinds DEF InCall
<1>2. todo' = todo \/ \E ok \in BOOLEAN : Applied(ok)
  BY <1>0, ApplyKinds, CalledKinds
<1>3. todo' = todo \/ todo' = Tail(todo) \/ todo' = <<>>
  BY <1>2 DEF Applied
<1>4. \A i \in DOMAIN Tail(todo) : \E j \in DOMAIN todo : Tail(todo)[i] = todo[j]
  BY <1>0, <1>1, HeadTodo
<1>5. CASE todo' = todo
  BY <1>1, <1>5
<1>6. CASE todo' = Tail(todo)
  BY <1>1, <1>4, <1>6
<1>7. CASE todo' = <<>>
  BY <1>1, <1>7
<1> QED
  BY <1>3, <1>5, <1>6, <1>7

\* What is in order is read from the file.
ReadsRight ==
  \A f \in InFile \ {"SYSTEM_NAME"} :
    /\ HasLines(FileOf[f]) <=> InOrder(f, file[FileOf[f]])
    /\ HasLines(FileOf[f]) => Read(f) = ReadIn(f, file[FileOf[f]])

\* It is, in every state.
LEMMA ReadsRightType == PlatformTypes => ReadsRight
BY LinesInOrder, ReadsFile DEF PlatformTypes, ReadsRight

\* A file that nobody writes keeps its lines.
LEMMA LinesStay ==
  ASSUME NEW n \in Files, file'[n] = file[n]
  PROVE  HasLines(n)' <=> HasLines(n)
<1>1. CASE n = "resolv.conf"
  BY <1>1 DEF HasLines
<1>2. CASE n = "ddp_config"
  BY <1>2 DEF HasLines
<1>3. CASE n = "hostname"
  BY <1>3 DEF HasLines
<1> QED
  BY <1>1, <1>2, <1>3, FilesAre

\* A setting in a file that nobody writes reads as before, whatever is assigned.
LEMMA ReadStays ==
  ASSUME PlatformTypes, PlatformTypes', NEW f \in InFile \ {"SYSTEM_NAME"},
         file'[FileOf[f]] = file[FileOf[f]], HasLines(FileOf[f])
  PROVE  HasLines(FileOf[f])' /\ Read(f)' = Read(f)
<1>1. ReadsRight
  BY ReadsRightType
<1>2. ReadsRight'
  BY ReadsRightType, PTL
<1>3. HasLines(FileOf[f])'
  BY LinesStay, FilesAre
<1>4. Read(f) = ReadIn(f, file[FileOf[f]])
  BY <1>1 DEF ReadsRight
<1>5. Read(f)' = ReadIn(f, file'[FileOf[f]])
  BY <1>2, <1>3 DEF ReadsRight
<1> QED
  BY <1>3, <1>4, <1>5

\* The copy that replaces a file in order: the setting has its value, the other
\* one in the file has the value it had, and the file is in order.
LEMMA RenameReads ==
  ASSUME PlatformTypes, PlatformTypes', SetRename, NEW f \in InFile, NEW n \in Files,
         f = call.field, n = FileOf[f], HasLines(n), tmp[n] = Edited(f, file[n], call.val)
  PROVE  /\ HasLines(n)'
         /\ f # "SYSTEM_NAME" =>
              /\ Read(f)' = IF f = "WEB_SERVICE_PORT" THEN call.val % 256 ELSE call.val
              /\ \A g \in InFile \ {f} : FileOf[g] = n => Read(g)' = Read(g)
<1>1. CASE f = "SYSTEM_NAME"
  BY <1>1, FilesAre DEF HasLines
<1>2. CASE f # "SYSTEM_NAME"
  <2>1. f \in InFile \ {"SYSTEM_NAME"} /\ n \in Files
    BY <1>2, FilesAre
  <2>2. file[n] \in Seq(Lines) /\ call.val \in Nat
    BY <2>1, CallParts DEF PlatformTypes
  <2>3. ReadsRight
    BY ReadsRightType
  <2>4. ReadsRight'
    BY ReadsRightType, PTL
  <2>5. file'[n] = Edited(f, file[n], call.val)
    BY SetRenameType
  <2>6. InOrder(f, file[n])
    BY <2>1, <2>3 DEF ReadsRight
  <2>7. /\ ReadIn(f, file'[n]) = IF f = "WEB_SERVICE_PORT" THEN call.val % 256 ELSE call.val
        /\ \A g \in InFile : FileOf[g] = n => InOrder(g, file'[n])
        /\ \A g \in InFile \ {f} : FileOf[g] = n => ReadIn(g, file'[n]) = ReadIn(g, file[n])
    BY <2>1, <2>2, <2>5, <2>6, KeptEdited
  <2>8. \A g \in InFile : FileOf[g] = n => g \in InFile \ {"SYSTEM_NAME"}
    BY <1>2, FilesAre
  <2>9. HasLines(n)'
    BY <2>1, <2>4, <2>7 DEF ReadsRight
  <2>10. Read(f)' = ReadIn(f, file'[n])
    BY <2>1, <2>4, <2>9 DEF ReadsRight
  <2>11. ASSUME NEW g \in InFile \ {f}, FileOf[g] = n PROVE Read(g)' = Read(g)
    <3>1. g \in InFile \ {"SYSTEM_NAME"}
      BY <2>8, <2>11
    <3>2. Read(g) = ReadIn(g, file[n])
      BY <2>3, <2>11, <3>1 DEF ReadsRight
    <3>3. HasLines(FileOf[g])'
      BY <2>9, <2>11
    <3>4. Read(g)' = ReadIn(g, file'[n])
      BY <2>4, <2>11, <3>1, <3>3 DEF ReadsRight
    <3> QED
      BY <2>7, <2>11, <3>2, <3>4
  <2> QED
    BY <2>7, <2>9, <2>10, <2>11
<1> QED
  BY <1>1, <1>2

\* The copy that replaces the file: what InCall says of it when it is whole.
LEMMA RenameFacts ==
  ASSUME PlatformTypes, HandTypes, InCall, Lined, FileWhole, SetRename, phase = "called"
  PROVE  LET n == FileOf[call.field] IN
         /\ call.field = todo[1][1] /\ call.val = todo[1][2]
         /\ (n \in short') <=> call.cut
         /\ \A m \in Files \ {n} : (m \in short') <=> (m \in short)
         /\ n \notin short' =>
              /\ n \notin short /\ tmp[n] = Edited(call.field, call.in, call.val)
              /\ n \notin unsure => call.in = file[n] /\ HasLines(n)
              /\ \E c \in Contents[n] : EditOf(call.in, c)
<1> DEFINE n == FileOf[call.field]
<1>1. call.at = "rename" /\ n \in Files /\ call \in Calls
  BY SetRenameType DEF PlatformTypes
<1>2. /\ call.field = todo[1][1] /\ call.val = todo[1][2]
      /\ (n \in short => call.cut) /\ (n \notin unsure => call.in = file[n])
      /\ (~call.cut => \E c \in Contents[n] : EditOf(call.in, c))
      /\ ~call.cut => tmp[n] = Edited(call.field, call.in, call.val)
  BY <1>1 DEF InCall
<1>3. call.cut \in BOOLEAN /\ short' = IF call.cut THEN short \cup {n} ELSE short \ {n}
  BY <1>1, CallParts DEF SetRename
<1>4. n \notin short /\ n \notin unsure => HasLines(n)
  BY <1>1 DEF Lined
<1> HIDE DEF n
<1>5. ((n \in short') <=> call.cut) /\ \A m \in Files \ {n} : (m \in short') <=> (m \in short)
  BY <1>3
<1>6. n \notin short' => n \notin short /\ ~call.cut
  BY <1>2, <1>5
<1>7. n \notin short' => tmp[n] = Edited(call.field, call.in, call.val) /\ \E c \in Contents[n] : EditOf(call.in, c)
  BY <1>2, <1>6
<1> QED
  BY <1>2, <1>4, <1>5, <1>6, <1>7 DEF n

-----------------------------------------------------------------------------
(* The invariant, one part after the other. *)

Types == PlatformTypes /\ QueueTypes /\ HandTypes

\* What is still to be applied is of the request.
LEMMA NextPlanned ==
  ASSUME Types, TypeOK, InCall, Planned, [Next]_vars
  PROVE  Planned'
<1>1. CASE Quiet
  BY <1>1 DEF Quiet, Planned, KeptOf
<1>2. CASE PhaseStep
  <2>1. todo' = <<>>
    BY <1>2 DEF PhaseStep, Types, HandTypes
  <2> QED
    BY <2>1 DEF Planned
<1>3. CASE Take
  <2>1. /\ cur' \in Msgs
        /\ \/ todo' = Settings(cur') /\ (Check(cur') = "ok" \/ cur'.op = "SET_BASIC_INFO")
           \/ todo' = <<>>
    BY <1>3, Taken DEF Types
  <2>2. CASE todo' = <<>>
    BY <2>2 DEF Planned
  <2>3. CASE todo' = Settings(cur') /\ (Check(cur') = "ok" \/ cur'.op = "SET_BASIC_INFO")
    <3>1. \A i \in DOMAIN Settings(cur') :
            /\ Settings(cur')[i][1] \in DOMAIN cur'.val
            /\ Settings(cur')[i][1] \in KeptOf(cur') => Settings(cur')[i][2] = cur'.val[Settings(cur')[i][1]]
      BY <2>1, <2>3, SettingsType
    <3>2. \A i \in DOMAIN todo' :
            /\ todo'[i][1] \in DOMAIN cur'.val
            /\ todo'[i][1] \in KeptOf(cur') => todo'[i][2] = cur'.val[todo'[i][1]]
      BY <2>3, <3>1
    <3> QED
      BY <3>2 DEF Planned, KeptOf
  <2> QED
    BY <2>1, <2>2, <2>3
<1>4. CASE Apply \/ Called
  <2>1. /\ phase \in {"apply", "called"} /\ cur' = cur
        /\ \A i \in DOMAIN todo' : \E j \in DOMAIN todo : todo'[i] = todo[j]
    BY <1>4, TodoStep DEF Types
  <2>2. \A j \in DOMAIN todo :
          todo[j][1] \in DOMAIN cur.val /\ (todo[j][1] \in KeptOf(cur) => todo[j][2] = cur.val[todo[j][1]])
    BY <2>1 DEF Planned
  <2>3. \A i \in DOMAIN todo' :
          todo'[i][1] \in DOMAIN cur.val /\ (todo'[i][1] \in KeptOf(cur) => todo'[i][2] = cur.val[todo'[i][1]])
    BY <2>1, <2>2
  <2> QED
    BY <2>1, <2>3 DEF Planned, KeptOf
<1>5. CASE Answer \/ End
  BY <1>5 DEF Answer, End, Planned
<1>6. CASE \E n \in Files : Others(n)
  BY <1>6 DEF Others, Planned, KeptOf
<1> QED
  BY <1>1, <1>2, <1>3, <1>4, <1>5, <1>6, StepKinds

\* What the steps of a setter leave of the files.
LEMMA FileSteps ==
  ASSUME Types, TypeOK, [Next]_vars
  PROVE  \/ UNCHANGED <<file, short>>
         \/ SetRename /\ Called /\ phase = "called" /\ phase' = "called" /\ UNCHANGED <<cur, unsure, pf, view, todo, code>>
         \/ \E n \in Files : Others(n)
<1>1. CASE Quiet \/ PhaseStep \/ Take \/ Answer \/ End
  BY <1>1 DEF Quiet, PhaseStep, Take, Answer, End, RestartPlatform, platformVars
<1>2. CASE Apply
  BY <1>2 DEF Apply, SetAtOnce, SetOpen, SetOpenFails
<1>3. CASE Called
  <2>1. CASE SetCopy \/ SetCopyShort \/ SetStore
    BY <2>1 DEF SetCopy, SetCopyShort, SetStore
  <2>2. CASE SetRename /\ UNCHANGED <<phase, todo, code>>
    BY <1>3, <2>2, CalledKinds DEF SetRename
  <2> QED
    BY <1>3, <2>1, <2>2, CalledKinds
<1> QED
  BY <1>1, <1>2, <1>3, StepKinds

\* A file is whole.
LEMMA NextFileWhole ==
  ASSUME Types, TypeOK, InCall, Lined, FileWhole, [Next]_vars
  PROVE  FileWhole'
<1>1. CASE UNCHANGED <<file, short>>
  BY <1>1 DEF FileWhole, EditOf
<1>2. CASE SetRename /\ phase = "called"
  <2> DEFINE n == FileOf[call.field]
  <2>1. /\ call.field \in InFile /\ n \in Files /\ file'[n] = tmp[n]
        /\ \A m \in Files \ {n} : file'[m] = file[m]
    BY <1>2, SetRenameType DEF Types
  <2>2. /\ \A m \in Files \ {n} : (m \in short') <=> (m \in short)
        /\ n \notin short' => /\ tmp[n] = Edited(call.field, call.in, call.val)
                              /\ \E c \in Contents[n] : EditOf(call.in, c)
    BY <1>2, RenameFacts DEF Types
  <2>3. call.in \in Seq(Lines) /\ call.val \in Nat
    BY CallParts DEF Types, PlatformTypes
  <2>4. ASSUME n \notin short' PROVE \E c \in Contents[n] : EditOf(file'[n], c)
    <3>1. PICK c \in Contents[n] : EditOf(call.in, c)
      BY <2>2, <2>4
    <3>2. c \in Seq(Lines)
      BY <2>1, PlatformAssumption
    <3>3. EditOf(Edited(call.field, call.in, call.val), c)
      BY <2>1, <2>3, <3>1, <3>2, EditedEdits
    <3> QED
      BY <2>1, <2>2, <2>4, <3>3
  <2>5. ASSUME NEW m \in Files \ {n}, m \notin short' PROVE \E c \in Contents[m] : EditOf(file'[m], c)
    BY <2>1, <2>2, <2>5 DEF FileWhole
  <2> HIDE DEF n
  <2> QED
    BY <2>4, <2>5 DEF FileWhole, EditOf
<1>3. CASE \E n \in Files : Others(n)
  <2>1. PICK n \in Files : Others(n)
    BY <1>3
  <2>2. /\ short' = short \ {n} /\ file'[n] \in Contents[n] /\ \A m \in Files \ {n} : file'[m] = file[m]
    BY <2>1, OthersType DEF Others, Types
  <2>3. EditOf(file'[n], file'[n])
    BY DEF EditOf
  <2>4. \A m \in Files \ short' : \E c \in Contents[m] : EditOf(file'[m], c)
    BY <2>2, <2>3 DEF FileWhole
  <2> QED
    BY <2>4 DEF FileWhole, EditOf
<1> QED
  BY <1>1, <1>2, <1>3, FileSteps

\* A file that is in no other hands is in order.
LEMMA NextLined ==
  ASSUME Types, Types', TypeOK, InCall, Lined, FileWhole, [Next]_vars
  PROVE  Lined'
<1>1. ASSUME UNCHANGED <<file, short, unsure>>, phase # "idle" PROVE Lined'
  <2>1. \A n \in Files : HasLines(n)' <=> HasLines(n)
    BY <1>1, LinesStay
  <2> QED
    BY <1>1, <2>1 DEF Lined
<1>2. CASE Take
  <2>1. unsure' = {n \in Files : ~HasLines(n)} /\ file' = file
    BY <1>2, Taken DEF Types, platformVars
  <2>2. \A n \in Files : HasLines(n)' <=> HasLines(n)
    BY <2>1, LinesStay
  <2>3. \A n \in Files \ (unsure' \cup short') : HasLines(n)'
    BY <2>1, <2>2
  <2> QED
    BY <2>3 DEF Lined
<1>3. CASE Quiet \/ PhaseStep
  <2>1. phase' # "idle" => phase # "idle" /\ UNCHANGED <<file, short, unsure>>
    BY <1>3 DEF Quiet, PhaseStep
  <2> QED
    BY <1>1, <2>1 DEF Lined
<1>4. CASE Answer \/ End
  BY <1>4 DEF Answer, End, Lined
<1>5. CASE (Apply \/ Called) /\ UNCHANGED <<file, short>>
  BY <1>1, <1>5, TodoStep DEF Types
<1>6. CASE SetRename /\ Called /\ phase = "called" /\ unsure' = unsure
  <2>0. PICK f \in InFile, n \in Files : f = call.field /\ n = FileOf[f]
    BY <1>6, SetRenameType DEF Types
  <2>1. \A m \in Files \ {n} : file'[m] = file[m]
    BY <1>6, <2>0, SetRenameType DEF Types
  <2>2. /\ \A m \in Files \ {n} : (m \in short') <=> (m \in short)
        /\ n \notin short' =>
             /\ tmp[n] = Edited(f, call.in, call.val)
             /\ n \notin unsure => call.in = file[n] /\ HasLines(n)
    BY <1>6, <2>0, RenameFacts DEF Types
  <2>3. ASSUME n \notin unsure \cup short' PROVE HasLines(n)'
    <3>1. HasLines(n) /\ tmp[n] = Edited(f, file[n], call.val)
      BY <2>2, <2>3
    <3> QED
      BY <1>6, <2>0, <3>1, RenameReads DEF Types
  <2>4. ASSUME NEW m \in Files \ {n}, m \notin unsure \cup short' PROVE HasLines(m)'
    <3>1. HasLines(m)
      BY <1>6, <2>2, <2>4 DEF Lined
    <3> QED
      BY <2>1, <3>1, LinesStay
  <2>5. \A m \in Files \ (unsure' \cup short') : HasLines(m)'
    BY <1>6, <2>3, <2>4
  <2> QED
    BY <2>5 DEF Lined
<1>7. CASE \E n \in Files : Others(n)
  <2>1. PICK n \in Files : Others(n)
    BY <1>7
  <2>2. /\ short' = short \ {n} /\ phase' = phase /\ unsure' = unsure \cup {n}
        /\ \A m \in Files \ {n} : file'[m] = file[m]
    BY <2>1, OthersType DEF Others, Types
  <2>3. ASSUME NEW m \in Files \ (unsure' \cup short'), phase' # "idle" PROVE HasLines(m)'
    <3>1. m \in Files \ {n} /\ m \notin unsure \cup short /\ phase # "idle"
      BY <2>2, <2>3
    <3>2. HasLines(m)
      BY <3>1 DEF Lined
    <3> QED
      BY <2>2, <3>1, <3>2, LinesStay
  <2> QED
    BY <2>3 DEF Lined
<1> QED
  BY <1>2, <1>3, <1>4, <1>5, <1>6, <1>7, StepKinds, FileSteps

\* Nothing is concluded of what the request in hand names.
LEMMA NextApart ==
  ASSUME Types, TypeOK, InCall, Apart, [Next]_vars
  PROVE  Apart'
<1>1. CASE Quiet
  BY <1>1 DEF Quiet, Apart
<1>2. CASE PhaseStep
  <2>1. phase # "idle" /\ view' = view /\ (phase' = "idle" \/ cur' = cur)
    BY <1>2 DEF PhaseStep
  <2> QED
    BY <2>1 DEF Apart
<1>3. CASE Take
  <2>1. view' = Forget(DOMAIN cur'.val)
    BY <1>3, Taken DEF Types
  <2>2. DOMAIN view' = DOMAIN view \ DOMAIN cur'.val
    BY <2>1, ForgetType
  <2> QED
    BY <2>2 DEF Apart
<1>4. CASE Apply \/ Called
  <2>1. phase \in {"apply", "called"} /\ UNCHANGED <<cur, view>>
    BY <1>4, TodoStep DEF Types
  <2> QED
    BY <2>1 DEF Apart
<1>5. CASE Answer \/ End
  BY <1>5 DEF Answer, End, Apart
<1>6. ASSUME NEW n \in Files, Others(n) PROVE Apart'
  <2>1. UNCHANGED <<cur, phase>> /\ view' = Forget({f \in InFile : FileOf[f] = n})
    BY <1>6 DEF Others
  <2>2. DOMAIN view' \subseteq DOMAIN view
    BY <2>1, ForgetType
  <2> QED
    BY <2>1, <2>2 DEF Apart
<1> QED
  BY <1>1, <1>2, <1>3, <1>4, <1>5, <1>6, StepKinds

\* The setting in hand, and with it every setting in its file, is one of the
\* request: nothing is concluded of it.
LEMMA InHand ==
  ASSUME Types, Planned, Apart, phase # "idle", todo # <<>>
  PROVE  /\ todo[1][1] \in DOMAIN cur.val /\ todo[1][1] \notin DOMAIN view
         /\ todo[1][1] \in InFile => \A g \in InFile : FileOf[g] = FileOf[todo[1][1]] => g \notin DOMAIN view
<1>1. 1 \in DOMAIN todo
  BY HeadTodo DEF Types, HandTypes
<1>2. todo[1][1] \in DOMAIN cur.val /\ cur \in Msgs
  BY <1>1 DEF Planned, Types, HandTypes
<1>3. DOMAIN cur.val = FieldsOf(cur.op, cur.sel)
  BY <1>2, MsgShape
<1>4. DOMAIN view \cap DOMAIN cur.val = {}
  BY DEF Apart
<1>5. ASSUME todo[1][1] \in InFile, NEW g \in InFile, FileOf[g] = FileOf[todo[1][1]] PROVE g \in DOMAIN cur.val
  BY <1>2, <1>3, <1>5, FieldsType
<1> QED
  BY <1>2, <1>4, <1>5

\* What a setter that needs no file does to the variables.
LEMMA AssignOne ==
  ASSUME PlatformTypes, NEW f \in Fields, NEW v \in Nat, NEW ok \in BOOLEAN, SetAtOnce(f, v, ok)
  PROVE  /\ \A g \in InPf : g # f => pf'[g] = pf[g]
         /\ ok /\ f \in InMemory => pf'[f] = v
         /\ f \notin InFile /\ UNCHANGED <<file, short>>
<1>1. f \notin InFile /\ UNCHANGED <<file, short>>
  BY DEF SetAtOnce
<1>2. CASE ~ok
  BY <1>1, <1>2 DEF SetAtOnce
<1>3. CASE ok /\ f \in Lists \cup Unkept \cup Restarts
  <2>1. pf' = pf
    BY <1>3 DEF SetAtOnce, Assign, AddName
  <2> QED
    BY <1>1, <1>3, <2>1, FieldsAre
<1>4. CASE ok /\ f \notin Lists \cup Unkept \cup Restarts
  <2>1. pf' = [pf EXCEPT ![f] = v] /\ f \in InPf
    BY <1>4 DEF SetAtOnce, Assign, Fields
  <2> QED
    BY <1>1, <2>1 DEF PlatformTypes
<1> QED
  BY <1>2, <1>3, <1>4

\* What is concluded of one setting.
SeenOf(f) ==
  /\ f \in InMemory => pf[f] = view[f]
  /\ f \notin InMemory /\ FileOf[f] \notin short => HasLines(FileOf[f]) /\ Read(f) = view[f]

\* A setting whose place is not touched is as it was.
LEMMA StaysSeen ==
  ASSUME PlatformTypes, PlatformTypes', NEW f \in Kept, SeenOf(f), view'[f] = view[f],
         f \in InMemory => pf'[f] = pf[f],
         f \notin InMemory => file'[FileOf[f]] = file[FileOf[f]] /\ (FileOf[f] \in short => FileOf[f] \in short')
  PROVE  SeenOf(f)'
<1>1. CASE f \in InMemory
  BY <1>1 DEF SeenOf
<1>2. CASE f \notin InMemory /\ FileOf[f] \in short'
  BY <1>2 DEF SeenOf
<1>3. CASE f \notin InMemory /\ FileOf[f] \notin short'
  <2>1. f \in InFile \ {"SYSTEM_NAME"} /\ HasLines(FileOf[f]) /\ Read(f) = view[f]
    BY <1>3 DEF Kept, SeenOf
  <2>2. HasLines(FileOf[f])' /\ Read(f)' = Read(f)
    BY <1>3, <2>1, ReadStays
  <2> QED
    BY <1>3, <2>1, <2>2 DEF SeenOf
<1> QED
  BY <1>1, <1>2, <1>3

\* Telling the settings leaves those in memory as they are.
LEMMA RefreshMemory ==
  ASSUME NEW F, Refresh(F), NEW f \in InMemory
  PROVE  pf'[f] = pf[f]
<1>1. f \in InPf /\ f \notin {"WEB_SERVICE_PORT", "SYSTEM_NAME", "CUSTOMIZED_DNS", "DHCP"}
  BY FieldsAre DEF InMemory
<1> QED
  BY <1>1 DEF Refresh

\* What is concluded is what is read.
LEMMA NextSeen ==
  ASSUME Types, Types', TypeOK, InCall, Planned, Progress, Lined, Apart, Seen, FileWhole, [Next]_vars
  PROVE  Seen'
<1>1. SUFFICES ASSUME NEW f \in DOMAIN view' PROVE SeenOf(f)'
  BY DEF Seen, SeenOf
<1>2. \A g \in DOMAIN view : g \in Kept /\ SeenOf(g)
  BY DEF Seen, SeenOf, Types, HandTypes
<1>3. ASSUME f \in DOMAIN view, view'[f] = view[f],
             f \in InMemory => pf'[f] = pf[f],
             f \notin InMemory => file'[FileOf[f]] = file[FileOf[f]] /\ (FileOf[f] \in short => FileOf[f] \in short')
      PROVE  SeenOf(f)'
  BY <1>2, <1>3, StaysSeen DEF Types
<1>4. CASE Quiet \/ PhaseStep
  BY <1>3, <1>4 DEF Quiet, PhaseStep
<1>5. CASE Take
  <2>1. view' = Forget(DOMAIN cur'.val) /\ UNCHANGED platformVars
    BY <1>5, Taken DEF Types
  <2>2. f \in DOMAIN view /\ view'[f] = view[f]
    BY <2>1, ForgetType
  <2> QED
    BY <1>3, <2>1, <2>2 DEF platformVars
<1>6. CASE Apply
  <2>1. todo \in Seq(Fields \X Nat)
    BY DEF Types, HandTypes
  <2>2. phase = "apply" /\ todo # <<>> /\ view' = view
    BY <1>6, <2>1, ApplyKinds
  <2>3. todo[1][1] \in Fields /\ todo[1][2] \in Nat /\ todo[1][1] \notin DOMAIN view
    BY <2>1, <2>2, HeadTodo, InHand
  <2>4. UNCHANGED <<file, short>>
    BY <1>6, <2>2 DEF Apply, SetAtOnce, SetOpen, SetOpenFails
  <2>5. f \in InMemory => pf'[f] = pf[f]
    <3>1. CASE \E ok \in BOOLEAN : SetAtOnce(todo[1][1], todo[1][2], ok)
      <4>1. \A g \in InPf : g # todo[1][1] => pf'[g] = pf[g]
        BY <2>3, <3>1, AssignOne DEF Types
      <4> QED
        BY <2>2, <2>3, <4>1, FieldsAre
    <3>2. CASE SetOpen(todo[1][1], todo[1][2]) \/ SetOpenFails(todo[1][1])
      BY <3>2 DEF SetOpen, SetOpenFails
    <3> QED
      BY <1>6, <2>1, <3>1, <3>2, ApplyKinds
  <2> QED
    BY <1>3, <2>2, <2>4, <2>5
<1>7. CASE Called
  <2>1. phase = "called" /\ view' = view
    BY <1>7, CalledKinds
  <2>2. CASE SetCopy \/ SetCopyShort
    <3>1. UNCHANGED <<pf, file, short>>
      BY <2>2, SetCopyType DEF Types
    <3> QED
      BY <1>3, <2>1, <3>1
  <2>3. CASE SetStore
    <3>1. UNCHANGED <<file, short>> /\ call.field \in InFile /\ \A g \in InPf \ {call.field} : pf'[g] = pf[g]
      BY <2>3, SetStoreType DEF Types
    <3>2. f \in InMemory => pf'[f] = pf[f]
      BY <3>1, FieldsAre
    <3> QED
      BY <1>3, <2>1, <3>1, <3>2
  <2>4. CASE SetRename
    <3> DEFINE n == FileOf[call.field]
    <3>1. /\ call.field \in InFile /\ n \in Files /\ UNCHANGED pf
          /\ \A m \in Files \ {n} : file'[m] = file[m]
      BY <2>4, SetRenameType DEF Types
    <3>2. /\ call.field = todo[1][1] /\ \A m \in Files \ {n} : (m \in short') <=> (m \in short)
      BY <2>1, <2>4, RenameFacts DEF Types
    <3>3. todo # <<>>
      BY <2>1 DEF InCall
    <3>4. \A g \in InFile : FileOf[g] = n => g \notin DOMAIN view
      BY <2>1, <3>1, <3>2, <3>3, InHand
    <3> HIDE DEF n
    <3>5. f \notin InMemory => f \in InFile /\ FileOf[f] \in Files \ {n}
      BY <1>2, <2>1, <3>4, FilesAre DEF Kept
    <3> QED
      BY <1>3, <2>1, <3>1, <3>2, <3>5
  <2> QED
    BY <1>7, <2>2, <2>3, <2>4, CalledKinds
<1>8. CASE Answer
  <2>1. /\ phase = "apply" /\ todo = <<>> /\ UNCHANGED <<file, short>> /\ Refresh(ReadBy(cur))
        /\ DOMAIN view' = Concludes(cur) \cup DOMAIN view
        /\ \A g \in Concludes(cur) : view'[g] = cur.val[g]
        /\ \A g \in DOMAIN view \ Concludes(cur) : view'[g] = view[g]
    BY <1>8, Answered DEF Types
  <2>2. f \in InMemory => pf'[f] = pf[f]
    BY <2>1, RefreshMemory
  <2>3. CASE f \notin Concludes(cur)
    BY <1>3, <2>1, <2>2, <2>3
  <2>4. CASE f \in Concludes(cur)
    <3>1. code = "ok" /\ f \in KeptOf(cur) /\ (f \in InMemory \/ FileOf[f] \notin unsure) /\ f \in Kept
      BY <2>4, ConcludesType DEF Concludes
    <3>2. Stored(f)
      <4>1. \A i \in DOMAIN todo : FALSE
        BY <2>1
      <4> QED
        BY <2>1, <3>1, <4>1 DEF Progress
    <3>3. CASE f \in InMemory
      BY <2>1, <2>2, <2>4, <3>2, <3>3 DEF Stored, SeenOf
    <3>4. CASE f \notin InMemory /\ FileOf[f] \in short'
      BY <3>4 DEF SeenOf
    <3>5. CASE f \notin InMemory /\ FileOf[f] \notin short'
      <4>1. f \in InFile \ {"SYSTEM_NAME"} /\ FileOf[f] \in Files \ (unsure \cup short)
        BY <2>1, <3>1, <3>5, FilesAre DEF Kept
      <4>2. Read(f) = cur.val[f] /\ HasLines(FileOf[f])
        BY <2>1, <3>2, <3>5, <4>1 DEF Stored, Lined
      <4>3. HasLines(FileOf[f])' /\ Read(f)' = Read(f)
        BY <2>1, <4>1, <4>2, ReadStays DEF Types
      <4> QED
        BY <2>1, <2>4, <3>5, <4>2, <4>3 DEF SeenOf
    <3> QED
      BY <3>3, <3>4, <3>5
  <2> QED
    BY <2>3, <2>4
<1>9. CASE End
  <2>1. view' = Forget(InMemory) /\ UNCHANGED <<file, short>>
    BY <1>9, RestartType DEF End, Types
  <2>2. f \in DOMAIN view \ InMemory /\ view'[f] = view[f]
    BY <2>1, ForgetType
  <2> QED
    BY <1>3, <2>1, <2>2
<1>10. CASE \E n \in Files : Others(n)
  <2>1. PICK n \in Files : Others(n)
    BY <1>10
  <2>2. /\ view' = Forget({g \in InFile : FileOf[g] = n}) /\ pf' = pf /\ short' = short \ {n}
        /\ \A m \in Files \ {n} : file'[m] = file[m]
    BY <2>1, OthersType DEF Others, Types
  <2>3. f \in DOMAIN view /\ view'[f] = view[f] /\ f \notin {g \in InFile : FileOf[g] = n}
    BY <2>2, ForgetType
  <2>4. f \notin InMemory => FileOf[f] \in Files \ {n}
    BY <1>2, <2>3, FilesAre DEF Kept
  <2> QED
    BY <1>3, <2>2, <2>3, <2>4
<1> QED
  BY <1>4, <1>5, <1>6, <1>7, <1>8, <1>9, <1>10, StepKinds

\* A setting that is stored stays so, as long as its place is not touched or its
\* file is in other hands.
LEMMA StaysStored ==
  ASSUME Types, Types', Lined, phase # "idle", cur' = cur, NEW f \in Kept, Stored(f),
         f \in InMemory => pf'[f] = pf[f],
         f \notin InMemory => \/ FileOf[f] \in unsure' \cup short'
                              \/ file'[FileOf[f]] = file[FileOf[f]] /\ FileOf[f] \notin unsure \cup short
  PROVE  Stored(f)'
<1>1. CASE f \in InMemory
  BY <1>1 DEF Stored
<1>2. CASE f \notin InMemory /\ FileOf[f] \in unsure' \cup short'
  BY <1>2 DEF Stored
<1>3. CASE f \notin InMemory /\ FileOf[f] \notin unsure' \cup short'
  <2>1. f \in InFile \ {"SYSTEM_NAME"} /\ FileOf[f] \in Files \ (unsure \cup short)
    BY <1>3, FilesAre DEF Kept
  <2>2. Read(f) = cur.val[f] /\ HasLines(FileOf[f])
    BY <1>3, <2>1 DEF Stored, Lined
  <2>3. Read(f)' = Read(f)
    BY <1>3, <2>1, <2>2, ReadStays DEF Types
  <2> QED
    BY <1>3, <2>2, <2>3 DEF Stored
<1> QED
  BY <1>1, <1>2, <1>3

\* A setting in memory, or in a file that is in the same hands as before.
LEMMA SameStored ==
  ASSUME Types, Types', Lined, phase # "idle", UNCHANGED <<cur, pf, file, short, unsure>>, NEW f \in Kept, Stored(f)
  PROVE  Stored(f)'
BY StaysStored DEF Stored

\* The first setting of the list has been applied: the others are still in it.
LEMMA AppliedRest ==
  ASSUME HandTypes, todo # <<>>, Applied(TRUE), NEW f, f # todo[1][1], \E i \in DOMAIN todo : todo[i][1] = f
  PROVE  \E i \in DOMAIN todo' : todo'[i][1] = f
<1>1. PICK i \in DOMAIN todo : todo[i][1] = f
  OBVIOUS
<1>2. i # 1
  BY <1>1
<1>3. i - 1 \in DOMAIN Tail(todo) /\ Tail(todo)[i - 1] = todo[i]
  BY <1>2, HeadTodo DEF HandTypes
<1>4. todo' = Tail(todo)
  BY DEF Applied
<1>5. i - 1 \in DOMAIN todo' /\ todo'[i - 1][1] = f
  BY <1>1, <1>3, <1>4
<1> QED
  BY <1>5

\* As long as nothing has failed, the settings are on their way or stored.
LEMMA NextProgress ==
  ASSUME Types, Types', TypeOK, InCall, Planned, Progress, Lined, FileWhole, [Next]_vars
  PROVE  Progress'
<1>1. SUFFICES ASSUME phase' \in {"apply", "called"}, code' = "ok", NEW f \in KeptOf(cur')
               PROVE  (\E i \in DOMAIN todo' : todo'[i][1] = f) \/ Stored(f)'
  BY DEF Progress, KeptOf
<1>2. f \in Kept /\ (f \notin InMemory => f \in InFile /\ FileOf[f] \in Files)
  BY <1>1, ConcludesType, FilesAre DEF Kept
<1>3. ASSUME UNCHANGED <<cur, todo>>, phase \in {"apply", "called"}, code = "ok",
             Stored(f) => Stored(f)'
      PROVE  (\E i \in DOMAIN todo' : todo'[i][1] = f) \/ Stored(f)'
  BY <1>1, <1>3 DEF Progress
<1>4. CASE Quiet
  <2>1. UNCHANGED <<cur, todo, pf, file, short, unsure, phase, code>>
    BY <1>4 DEF Quiet
  <2>2. Stored(f) => Stored(f)'
    BY <1>1, <1>2, <2>1, SameStored
  <2> QED
    BY <1>1, <1>3, <2>1, <2>2
<1>5. CASE PhaseStep
  <2>1. phase = "delay" /\ cur' = cur
    BY <1>1, <1>5 DEF PhaseStep
  <2>2. cur \in Msgs /\ cur.op \in Restarts
    BY <2>1 DEF Types, HandTypes
  <2>3. KeptOf(cur') = {}
    BY <2>1, <2>2, NoSettings
  <2> QED
    BY <1>1, <2>3
<1>6. CASE Take
  <2>1. cur' \in Msgs /\ todo' = Settings(cur') /\ Check(cur') = "ok"
    BY <1>1, <1>6, Taken DEF Types
  <2>2. \E i \in DOMAIN Settings(cur') : Settings(cur')[i][1] = f
    BY <1>1, <2>1, SettingsType
  <2> QED
    BY <2>1, <2>2
<1>7. CASE Apply
  <2>0. todo \in Seq(Fields \X Nat)
    BY DEF Types, HandTypes
  <2>1. phase = "apply" /\ todo # <<>> /\ UNCHANGED <<cur, unsure>> /\ 1 \in DOMAIN todo
    BY <1>7, <2>0, ApplyKinds, HeadTodo
  <2>2. CASE \E ok \in BOOLEAN : SetAtOnce(todo[1][1], todo[1][2], ok) /\ Applied(ok)
    <3>1. PICK ok \in BOOLEAN : SetAtOnce(todo[1][1], todo[1][2], ok) /\ Applied(ok)
      BY <2>2
    <3>2. ok = TRUE /\ code = "ok"
      BY <1>1, <3>1 DEF Applied
    <3>3. todo[1][1] \in Fields /\ todo[1][2] \in Nat
      BY <2>0, <2>1, HeadTodo
    <3>4. /\ \A g \in InPf : g # todo[1][1] => pf'[g] = pf[g]
          /\ ok /\ todo[1][1] \in InMemory => pf'[todo[1][1]] = todo[1][2]
          /\ todo[1][1] \notin InFile /\ UNCHANGED <<file, short>>
      BY <3>1, <3>3, AssignOne DEF Types
    <3>5. CASE f = todo[1][1]
      <4>1. f \in InMemory
        BY <1>2, <3>4, <3>5
      <4>2. todo[1][2] = cur.val[f]
        BY <1>1, <2>1, <3>5 DEF Planned
      <4>3. pf'[f] = cur'.val[f]
        BY <2>1, <3>2, <3>4, <3>5, <4>1, <4>2
      <4> QED
        BY <4>1, <4>3 DEF Stored
    <3>6. CASE f # todo[1][1]
      <4>1. (\E i \in DOMAIN todo : todo[i][1] = f) \/ Stored(f)
        BY <1>1, <2>1, <3>2 DEF Progress
      <4>2. ASSUME Stored(f) PROVE Stored(f)'
        <5>1. f \in InMemory => pf'[f] = pf[f]
          BY <3>4, <3>6, FieldsAre
        <5>2. f \notin InMemory => \/ FileOf[f] \in unsure' \cup short'
                                   \/ file'[FileOf[f]] = file[FileOf[f]] /\ FileOf[f] \notin unsure \cup short
          BY <2>1, <3>4
        <5> QED
          BY <1>2, <2>1, <4>2, <5>1, <5>2, StaysStored
      <4>3. ASSUME \E i \in DOMAIN todo : todo[i][1] = f PROVE \E i \in DOMAIN todo' : todo'[i][1] = f
        BY <2>1, <3>1, <3>2, <3>6, <4>3, AppliedRest DEF Types
      <4> QED
        BY <4>1, <4>2, <4>3
    <3> QED
      BY <3>5, <3>6
  <2>3. CASE SetOpenFails(todo[1][1]) /\ Applied(FALSE)
    BY <1>1, <2>3 DEF Applied
  <2>4. CASE SetOpen(todo[1][1], todo[1][2]) /\ UNCHANGED <<todo, code>>
    <3>1. UNCHANGED <<pf, file, short>>
      BY <2>4 DEF SetOpen
    <3>2. Stored(f) => Stored(f)'
      BY <1>2, <2>1, <3>1, SameStored
    <3> QED
      BY <1>1, <1>3, <2>1, <2>4, <3>2
  <2> QED
    BY <1>7, <2>0, <2>2, <2>3, <2>4, ApplyKinds
<1>8. CASE Called
  <2>1. phase = "called" /\ UNCHANGED <<cur, unsure>> /\ todo # <<>> /\ 1 \in DOMAIN todo
    BY <1>8, CalledKinds, HeadTodo DEF InCall, Types, HandTypes
  <2>2. CASE (SetCopy \/ SetCopyShort) /\ UNCHANGED <<todo, code>>
    <3>1. UNCHANGED <<pf, file, short>>
      BY <2>2, SetCopyType DEF Types
    <3>2. Stored(f) => Stored(f)'
      BY <1>2, <2>1, <3>1, SameStored
    <3> QED
      BY <1>1, <1>3, <2>1, <2>2, <3>2
  <2>3. CASE SetRename /\ UNCHANGED <<todo, code>>
    <3>0. PICK g \in InFile, n \in Files : g = call.field /\ n = FileOf[g]
      BY <2>3, SetRenameType DEF Types
    <3>1. UNCHANGED pf /\ \A m \in Files \ {n} : file'[m] = file[m]
      BY <2>3, <3>0, SetRenameType DEF Types
    <3>2. /\ call.field = todo[1][1] /\ \A m \in Files \ {n} : (m \in short') <=> (m \in short)
          /\ n \notin short' =>
               /\ n \notin short /\ tmp[n] = Edited(g, call.in, call.val)
               /\ n \notin unsure => call.in = file[n] /\ HasLines(n)
      BY <2>1, <2>3, <3>0, RenameFacts DEF Types
    <3>3. CASE f = g
      <4>1. todo'[1][1] = f /\ 1 \in DOMAIN todo'
        BY <2>1, <2>3, <3>0, <3>2, <3>3
      <4> QED
        BY <4>1
    <3>4. CASE f # g /\ (f \in InMemory \/ FileOf[f] # n)
      <4>1. ASSUME Stored(f) PROVE Stored(f)'
        <5>1. f \notin InMemory => \/ FileOf[f] \in unsure' \cup short'
                                   \/ file'[FileOf[f]] = file[FileOf[f]] /\ FileOf[f] \notin unsure \cup short
          BY <1>2, <2>1, <3>1, <3>2, <3>4
        <5> QED
          BY <1>2, <2>1, <3>1, <4>1, <5>1, StaysStored
      <4> QED
        BY <1>1, <1>3, <2>1, <2>3, <4>1
    <3>5. CASE f # g /\ f \notin InMemory /\ FileOf[f] = n
      <4>1. ASSUME Stored(f) PROVE Stored(f)'
        <5>1. CASE n \in unsure' \cup short'
          BY <3>5, <5>1 DEF Stored
        <5>2. CASE n \notin unsure' \cup short'
          <6>1. n \notin unsure \cup short /\ HasLines(n) /\ tmp[n] = Edited(g, file[n], call.val)
            BY <2>1, <3>2, <5>2
          <6>2. g # "SYSTEM_NAME" /\ f \in InFile \ {g}
            BY <1>2, <3>0, <3>5, FilesAre DEF Kept
          <6>3. Read(f)' = Read(f)
            BY <2>3, <3>0, <3>5, <6>1, <6>2, RenameReads DEF Types
          <6>4. Read(f) = cur.val[f]
            BY <3>5, <4>1, <6>1 DEF Stored
          <6> QED
            BY <2>1, <3>5, <6>3, <6>4 DEF Stored
        <5> QED
          BY <5>1, <5>2
      <4> QED
        BY <1>1, <1>3, <2>1, <2>3, <4>1
    <3> QED
      BY <3>3, <3>4, <3>5
  <2>4. CASE SetStore /\ Applied(TRUE)
    <3>1. /\ call.at = "store" /\ call.field \in InFile /\ UNCHANGED <<file, short>>
          /\ \A g \in InPf \ {call.field} : pf'[g] = pf[g]
      BY <2>4, SetStoreType DEF Types
    <3>2. /\ call.field = todo[1][1] /\ call.val = todo[1][2]
          /\ FileOf[call.field] \notin unsure \cup short /\ call.field \in KeptOf(cur) => Read(call.field) = call.val
      BY <2>1, <3>1 DEF InCall
    <3>3. code = "ok"
      BY <1>1, <2>4 DEF Applied
    <3>4. ASSUME Stored(f) PROVE Stored(f)'
      <4>1. f \in InMemory => pf'[f] = pf[f]
        BY <3>1, FieldsAre
      <4>2. f \notin InMemory => \/ FileOf[f] \in unsure' \cup short'
                                 \/ file'[FileOf[f]] = file[FileOf[f]] /\ FileOf[f] \notin unsure \cup short
        BY <2>1, <3>1
      <4> QED
        BY <1>2, <2>1, <3>4, <4>1, <4>2, StaysStored
    <3>5. CASE f = todo[1][1]
      <4>1. f \notin InMemory /\ f \in KeptOf(cur)
        BY <1>1, <2>1, <3>1, <3>2, <3>5, FieldsAre
      <4>2. todo[1][2] = cur.val[f]
        BY <2>1, <3>5, <4>1 DEF Planned
      <4>3. Stored(f)
        BY <3>2, <3>5, <4>1, <4>2 DEF Stored
      <4> QED
        BY <3>4, <4>3
    <3>6. CASE f # todo[1][1]
      <4>1. (\E i \in DOMAIN todo : todo[i][1] = f) \/ Stored(f)
        BY <1>1, <2>1, <3>3 DEF Progress
      <4>2. ASSUME \E i \in DOMAIN todo : todo[i][1] = f PROVE \E i \in DOMAIN todo' : todo'[i][1] = f
        BY <2>1, <2>4, <3>6, <4>2, AppliedRest DEF Types
      <4> QED
        BY <3>4, <4>1, <4>2
    <3> QED
      BY <3>5, <3>6
  <2> QED
    BY <1>8, <2>2, <2>3, <2>4, CalledKinds
<1>9. CASE Answer \/ End
  BY <1>1, <1>9 DEF Answer, End
<1>10. CASE \E n \in Files : Others(n)
  <2>1. PICK n \in Files : Others(n)
    BY <1>10
  <2>2. /\ UNCHANGED <<pf, cur, phase, todo, code>> /\ short' = short \ {n} /\ unsure' = unsure \cup {n}
        /\ \A m \in Files \ {n} : file'[m] = file[m]
    BY <2>1, OthersType DEF Others, Types
  <2>3. ASSUME Stored(f) PROVE Stored(f)'
    <3>1. f \notin InMemory => \/ FileOf[f] \in unsure' \cup short'
                               \/ file'[FileOf[f]] = file[FileOf[f]] /\ FileOf[f] \notin unsure \cup short
      BY <1>2, <2>2
    <3> QED
      BY <1>1, <1>2, <2>2, <2>3, <3>1, StaysStored
  <2> QED
    BY <1>1, <1>3, <2>2, <2>3
<1> QED
  BY <1>4, <1>5, <1>6, <1>7, <1>8, <1>9, <1>10, StepKinds

\* What InCall says of a call c on field f in file n.
CallOk(f, n) ==
  /\ todo # <<>> /\ f = todo[1][1] /\ call.val = todo[1][2]
  /\ call.at \in {"copy", "rename"} =>
       /\ n \in short => call.cut
       /\ n \notin unsure => call.in = file[n]
       /\ ~call.cut => \E c \in Contents[n] : EditOf(call.in, c)
  /\ call.at = "rename" /\ ~call.cut => tmp[n] = Edited(f, call.in, call.val)
  /\ call.at = "store" /\ n \notin unsure \cup short /\ f \in KeptOf(cur) => Read(f) = call.val

\* The call in progress fits.
CallFits == phase = "called" => \E f \in InFile : f = call.field /\ CallOk(f, FileOf[f])

\* That is InCall.
LEMMA InCallOf == (InCall /\ phase = "called" => CallOk(call.field, FileOf[call.field])) /\ (CallFits => InCall)
BY DEF InCall, CallOk, CallFits

\* A call works on the content the file has.
LEMMA NextInCall ==
  ASSUME Types, Types', TypeOK, InCall, Planned, Lined, FileWhole, [Next]_vars
  PROVE  InCall'
<1>1. SUFFICES ASSUME phase' = "called" PROVE \E f \in InFile : f = call'.field /\ CallOk(f, FileOf[f])'
  <2>1. SUFFICES CallFits'
    BY InCallOf, PTL
  <2> QED
    BY DEF CallFits
<1>2. CASE phase = "called"
  <2>0. PICK f \in InFile, n \in Files : f = call.field /\ n = FileOf[f]
    BY <1>2, FilesAre DEF Types, HandTypes, PlatformTypes
  <2>1. CallOk(f, n)
    BY <1>2, <2>0, InCallOf
  <2>2. ASSUME Lined, call.at = "store", n \notin unsure \cup short, f \in KeptOf(cur), file'[n] = file[n]
        PROVE  Read(f)' = call.val
    <3>1. f \in InFile \ {"SYSTEM_NAME"} /\ HasLines(n)
      BY <1>2, <2>2, ConcludesType, FieldsAre DEF Lined, Kept
    <3>2. Read(f)' = Read(f)
      BY <2>0, <2>2, <3>1, ReadStays DEF Types
    <3> QED
      BY <2>1, <2>2, <3>2 DEF CallOk
  <2>3. CASE Quiet \/ UNCHANGED <<todo, call, tmp, file, short, unsure, cur, pf>>
    <3>1. UNCHANGED <<todo, call, tmp, file, short, unsure, cur>>
      BY <2>3 DEF Quiet
    <3>2. CallOk(f, n)'
      BY <2>1, <2>2, <3>1 DEF CallOk, KeptOf, EditOf
    <3> QED
      BY <2>0, <3>1, <3>2
  <2>4. CASE Called
    <3>1. UNCHANGED <<cur, unsure>>
      BY <2>4, CalledKinds
    <3>2. CASE (SetCopy \/ SetCopyShort) /\ UNCHANGED todo
      <4>1. /\ call.at = "copy" /\ call'.at = "rename" /\ UNCHANGED <<pf, names, file, short>>
            /\ call'.field = call.field /\ call'.val = call.val /\ call'.in = call.in
            /\ ~call'.cut => ~call.cut /\ tmp'[n] = Edited(f, call.in, call.val)
        BY <2>0, <3>2, SetCopyType DEF Types
      <4>2. call.cut \in BOOLEAN /\ call'.cut \in BOOLEAN
        <5>1. call \in Calls /\ call' \in Calls
          BY DEF Types, PlatformTypes
        <5> QED
          BY <5>1, CallParts
      <4>3. /\ todo' # <<>> /\ f = todo'[1][1] /\ call'.val = todo'[1][2]
            /\ n \in short' => call'.cut
            /\ n \notin unsure' => call'.in = file'[n]
            /\ ~call'.cut => \E c \in Contents[n] : EditOf(call'.in, c)
            /\ ~call'.cut => tmp'[n] = Edited(f, call'.in, call'.val)
        BY <2>1, <3>1, <3>2, <4>1, <4>2 DEF CallOk
      <4>4. CallOk(f, n)'
        BY <4>1, <4>3 DEF CallOk, EditOf, Edited, SetDnsLine, SetPortLine, Put
      <4> QED
        BY <2>0, <4>1, <4>4
    <3>3. CASE SetRename /\ UNCHANGED todo
      <4>1. call'.at = "store" /\ call'.field = call.field /\ call'.val = call.val
        BY <3>3, SetRenameType DEF Types
      <4>2. /\ n \notin short' =>
                 /\ n \notin short /\ tmp[n] = Edited(f, call.in, call.val)
                 /\ n \notin unsure => call.in = file[n] /\ HasLines(n)
        BY <1>2, <2>0, <3>3, RenameFacts DEF Types
      <4>3. ASSUME n \notin unsure \cup short', f \in KeptOf(cur) PROVE Read(f)' = call.val
        <5>1. HasLines(n) /\ tmp[n] = Edited(f, file[n], call.val)
          BY <4>2, <4>3
        <5>2. f # "SYSTEM_NAME"
          BY <4>3, ConcludesType, FieldsAre DEF Kept
        <5>3. Read(f)' = IF f = "WEB_SERVICE_PORT" THEN call.val % 256 ELSE call.val
          BY <2>0, <3>3, <5>1, <5>2, RenameReads DEF Types
        <5>4. todo[1][2] = cur.val[f] /\ call.val = todo[1][2]
          <6>1. 1 \in DOMAIN todo
            BY <2>1, HeadTodo DEF CallOk, Types, HandTypes
          <6> QED
            BY <1>2, <2>1, <4>3, <6>1 DEF CallOk, Planned
        <5>5. f = "WEB_SERVICE_PORT" => call.val < 256
          BY <4>3, <5>4 DEF KeptOf
        <5>6. call.val \in Nat
          BY CallParts DEF Types, PlatformTypes
        <5>7. call.val < 256 => call.val % 256 = call.val
          BY <5>6
        <5> QED
          BY <5>3, <5>5, <5>7
      <4>4. /\ todo' # <<>> /\ f = todo'[1][1] /\ call'.val = todo'[1][2]
            /\ n \notin unsure' \cup short' /\ f \in KeptOf(cur') => Read(f)' = call'.val
        BY <2>1, <3>1, <3>3, <4>1, <4>3 DEF CallOk
      <4>5. CallOk(f, n)'
        BY <4>1, <4>4 DEF CallOk, KeptOf
      <4> QED
        BY <2>0, <4>1, <4>5
    <3> QED
      BY <1>1, <2>4, <3>2, <3>3, CalledKinds
  <2>5. CASE \E m \in Files : Others(m)
    <3>1. PICK m \in Files : Others(m)
      BY <2>5
    <3>2. /\ UNCHANGED <<pf, cur, todo, call, tmp>> /\ short' = short \ {m} /\ unsure' = unsure \cup {m}
          /\ \A k \in Files \ {m} : file'[k] = file[k]
      BY <3>1, OthersType DEF Others, Types
    <3>3. n = m \/ file'[n] = file[n]
      BY <3>2
    <3>4. CallOk(f, n)'
      BY <2>1, <2>2, <3>2, <3>3 DEF CallOk, KeptOf, EditOf, Edited, SetDnsLine, SetPortLine, Put
    <3> QED
      BY <2>0, <3>2, <3>4
  <2>6. CASE PhaseStep \/ Take \/ Apply \/ Answer \/ End
    BY <1>1, <1>2, <2>6 DEF PhaseStep, Take, Apply, Answer, End
  <2> QED
    BY <2>3, <2>4, <2>5, <2>6, StepKinds
<1>3. CASE phase # "called"
  <2>0. todo \in Seq(Fields \X Nat)
    BY DEF Types, HandTypes
  <2>1. Apply
    <3>1. ~Quiet /\ ~PhaseStep /\ ~Called /\ ~Answer /\ ~End /\ ~\E m \in Files : Others(m)
      BY <1>1, <1>3 DEF Quiet, PhaseStep, Called, Answer, End, Others
    <3>2. ~Take
      BY <1>1, Taken DEF Types
    <3> QED
      BY <3>1, <3>2, StepKinds
  <2>2. todo # <<>> /\ todo[1][1] \in InFile /\ SetOpen(todo[1][1], todo[1][2]) /\ UNCHANGED <<todo, unsure, cur>>
    BY <1>1, <1>3, <2>0, <2>1, ApplyKinds
  <2>3. PICK f \in InFile, n \in Files : f = todo[1][1] /\ n = FileOf[f]
    BY <2>2, FilesAre
  <2>4. /\ call' = Opened(f, todo[1][2]) /\ UNCHANGED <<file, short>>
    BY <2>2, <2>3 DEF SetOpen
  <2>5. /\ call'.at = "copy" /\ call'.field = f /\ call'.val = todo[1][2] /\ call'.in = file[n]
        /\ call'.cut <=> n \in short
    BY <2>3, <2>4 DEF Opened
  <2>6. n \notin short => \E c \in Contents[n] : EditOf(file[n], c)
    BY <2>3 DEF FileWhole
  <2>7. CallOk(f, n)'
    BY <2>2, <2>3, <2>4, <2>5, <2>6 DEF CallOk, EditOf
  <2> QED
    BY <2>3, <2>5, <2>7
<1> QED
  BY <1>2, <1>3

-----------------------------------------------------------------------------
(* Sequences after one another. *)

\* The first k sequences of s after one another, for every k.
Laid(s, n, f) == f = [i \in 1..n |-> IF i = 1 THEN s[i] ELSE f[i - 1] \o s[i]]

LEMMA LaidExists ==
  ASSUME NEW s, NEW n \in Nat
  PROVE  \E f : Laid(s, n, f)
<1> DEFINE Bad == {k \in 0..n : ~ \E f : Laid(s, k, f)}
<1>1. SUFFICES ASSUME Bad # {} PROVE FALSE
  OBVIOUS
<1>2. PICK k \in Bad : \A m \in Bad : k <= m
  <2>1. Bad \in SUBSET Nat
    OBVIOUS
  <2> HIDE DEF Bad
  <2> QED
    BY <1>1, <2>1, LeastOf
<1>3. k \in 0..n
  OBVIOUS
<1>4. k # 0
  <2>1. Laid(s, 0, <<>>)
    BY DEF Laid
  <2> QED
    BY <2>1
<1>5. k - 1 \in 0..n /\ k - 1 \notin Bad
  BY <1>2, <1>3, <1>4
<1>6. PICK g : Laid(s, k - 1, g)
  BY <1>5
<1> DEFINE f == [i \in 1..k |-> IF i = 1 THEN s[i] ELSE g[i - 1] \o s[i]]
<1>7. \A i \in 1..(k - 1) : f[i] = g[i]
  <2>1. g = [i \in 1..(k - 1) |-> IF i = 1 THEN s[i] ELSE g[i - 1] \o s[i]]
    BY <1>6 DEF Laid
  <2>2. ASSUME NEW i \in 1..(k - 1) PROVE f[i] = g[i]
    <3>1. g[i] = IF i = 1 THEN s[i] ELSE g[i - 1] \o s[i]
      BY <2>1, Zenon
    <3>2. i \in 1..k
      BY <1>3
    <3> QED
      BY <3>1, <3>2
  <2> QED
    BY <2>2
<1>8. f = [i \in 1..k |-> IF i = 1 THEN s[i] ELSE f[i - 1] \o s[i]]
  <2>1. \A i \in 1..k : i # 1 => i - 1 \in 1..(k - 1)
    BY <1>3
  <2>2. \A i \in 1..k : (IF i = 1 THEN s[i] ELSE g[i - 1] \o s[i]) = (IF i = 1 THEN s[i] ELSE f[i - 1] \o s[i])
    BY <1>7, <2>1
  <2> HIDE DEF f
  <2> QED
    BY <2>2 DEF f
<1> HIDE DEF f
<1>9. Laid(s, k, f)
  BY <1>8 DEF Laid
<1> QED
  BY <1>9

\* FlattenSeq is the last of them.
LEMMA Flattened ==
  ASSUME NEW s, Len(s) \in Nat, Len(s) # 0
  PROVE  \E f : Laid(s, Len(s), f) /\ FlattenSeq(s) = f[Len(s)]
<1> DEFINE g == CHOOSE f : Laid(s, Len(s), f)
<1>1. Laid(s, Len(s), g)
  BY LaidExists, Zenon
<1>2. FlattenSeq(s) = g[Len(s)]
  BY Zenon DEF FlattenSeq, Laid
<1> QED
  BY <1>1, <1>2

\* Two such functions agree as far as the sequences do.
LEMMA LaidAgrees ==
  ASSUME NEW A, NEW s \in Seq(Seq(A)), NEW t \in Seq(Seq(A)), NEW m \in 0..Len(s), m <= Len(t),
         \A i \in 1..m : s[i] = t[i],
         NEW f, Laid(s, Len(s), f), NEW g, Laid(t, Len(t), g)
  PROVE  \A i \in 1..m : f[i] = g[i] /\ f[i] \in Seq(A)
<1> DEFINE Bad == {k \in 1..m : ~ (f[k] = g[k] /\ f[k] \in Seq(A))}
<1>0. f = [i \in 1..Len(s) |-> IF i = 1 THEN s[i] ELSE f[i - 1] \o s[i]]
  BY DEF Laid
<1>00. g = [i \in 1..Len(t) |-> IF i = 1 THEN t[i] ELSE g[i - 1] \o t[i]]
  BY DEF Laid
<1>1. SUFFICES ASSUME Bad # {} PROVE FALSE
  OBVIOUS
<1>2. PICK k \in Bad : \A j \in Bad : k <= j
  <2>1. Bad \in SUBSET Nat
    OBVIOUS
  <2> HIDE DEF Bad
  <2> QED
    BY <1>1, <2>1, LeastOf
<1>3. k \in 1..m /\ k \in 1..Len(s) /\ k \in 1..Len(t) /\ s[k] = t[k] /\ s[k] \in Seq(A)
  OBVIOUS
<1>f. f[k] = IF k = 1 THEN s[k] ELSE f[k - 1] \o s[k]
  BY <1>0, <1>3
<1>g. g[k] = IF k = 1 THEN t[k] ELSE g[k - 1] \o t[k]
  BY <1>00, <1>3
<1>4. CASE k = 1
  BY <1>3, <1>4, <1>f, <1>g
<1>5. CASE k # 1
  <2>1. k - 1 \in 1..m /\ k - 1 \notin Bad
    BY <1>2, <1>3, <1>5
  <2>2. f[k - 1] = g[k - 1] /\ f[k - 1] \in Seq(A)
    BY <2>1
  <2>3. f[k - 1] \o s[k] \in Seq(A)
    BY <1>3, <2>2, ConcatProperties
  <2> QED
    BY <1>3, <1>5, <1>f, <1>g, <2>2, <2>3
<1> QED
  BY <1>4, <1>5

\* Sequences after one another are a sequence.
LEMMA FlattenType ==
  ASSUME NEW A, NEW s \in Seq(Seq(A))
  PROVE  FlattenSeq(s) \in Seq(A)
<1>1. CASE Len(s) = 0
  BY <1>1 DEF FlattenSeq
<1>2. CASE Len(s) # 0
  <2>1. PICK f : Laid(s, Len(s), f) /\ FlattenSeq(s) = f[Len(s)]
    BY <1>2, Flattened
  <2>2. \A i \in 1..Len(s) : f[i] \in Seq(A)
    BY <2>1, LaidAgrees
  <2> QED
    BY <1>2, <2>1, <2>2
<1> QED
  BY <1>1, <1>2

\* One more sequence comes after the others.
LEMMA FlattenAppend ==
  ASSUME NEW A, NEW s \in Seq(Seq(A)), NEW e \in Seq(A)
  PROVE  FlattenSeq(Append(s, e)) = FlattenSeq(s) \o e
<1> DEFINE t == Append(s, e)
<1>1. t \in Seq(Seq(A)) /\ Len(t) = Len(s) + 1 /\ t[Len(t)] = e /\ \A i \in 1..Len(s) : t[i] = s[i]
  OBVIOUS
<1> HIDE DEF t
<1>2. PICK g : Laid(t, Len(t), g) /\ FlattenSeq(t) = g[Len(t)]
  BY <1>1, Flattened
<1>3. g[Len(t)] = IF Len(t) = 1 THEN e ELSE g[Len(s)] \o e
  <2>1. g = [i \in 1..Len(t) |-> IF i = 1 THEN t[i] ELSE g[i - 1] \o t[i]]
    BY <1>2 DEF Laid
  <2>2. Len(t) \in 1..Len(t) /\ Len(t) - 1 = Len(s)
    BY <1>1
  <2> QED
    BY <1>1, <2>1, <2>2
<1>4. CASE Len(s) = 0
  <2>1. FlattenSeq(s) = <<>>
    BY <1>4 DEF FlattenSeq
  <2>2. FlattenSeq(t) = e
    BY <1>1, <1>2, <1>3, <1>4
  <2> QED
    BY <2>1, <2>2 DEF t
<1>5. CASE Len(s) # 0
  <2>1. PICK f : Laid(s, Len(s), f) /\ FlattenSeq(s) = f[Len(s)]
    BY <1>5, Flattened
  <2>2. f[Len(s)] = g[Len(s)]
    <3>1. Len(s) \in 0..Len(s) /\ Len(s) <= Len(t)
      BY <1>1
    <3>2. \A i \in 1..Len(s) : f[i] = g[i] /\ f[i] \in Seq(A)
      BY <1>1, <1>2, <2>1, <3>1, LaidAgrees
    <3> QED
      BY <1>5, <3>2
  <2>3. Len(t) # 1
    BY <1>1, <1>5
  <2> QED
    BY <1>2, <1>3, <2>1, <2>2, <2>3 DEF t
<1> QED
  BY <1>4, <1>5

-----------------------------------------------------------------------------
(* The pages of SNMP_GET. *)

Entries == Lists \X Nat
Pages == [names : Seq(Entries), more : BOOLEAN, code : {"ok", "fail", "authen", "type"}]

\* The names of each page, and those of the first k lists.
Texts(q) == [i \in DOMAIN q |-> q[i].names]
Listed(k) == [i \in 1..k |-> Reverse(Tagged(ListOrder[i]))]
AllNames == FlattenSeq(Listed(4))

\* What has been sent and what is left are all there is, and every page but the
\* last one says that others follow.
Paged ==
  /\ rest \in Seq(Entries) /\ pages \in Seq(Pages)
  /\ phase \notin {"idle", "pages"} => pages = <<>>
  /\ \A i \in DOMAIN pages : Len(pages[i].names) <= PageMax
  /\ \A i \in DOMAIN pages : i < Len(pages) \/ phase = "pages" => pages[i].more
  /\ phase = "pages" /\ code = "ok" => FlattenSeq(Texts(pages)) \o rest = AllNames
  /\ phase # "pages" /\ pages # <<>> =>
       ~Last(pages).more /\ (Last(pages).code = "ok" => FlattenSeq(Texts(pages)) = AllNames)

\* The names of a list, from its end.
LEMMA ListedType ==
  ASSUME PlatformTypes
  PROVE  /\ \A i \in 1..4 : Reverse(Tagged(ListOrder[i])) \in Seq(Entries)
         /\ \A k \in 0..4 : Listed(k) \in Seq(Seq(Entries)) /\ Len(Listed(k)) = k
<1>1. ASSUME NEW l \in Lists PROVE Reverse(Tagged(l)) \in Seq(Entries)
  <2>1. names[l] \in Seq(Nat)
    BY DEF PlatformTypes
  <2>2. Len(names[l]) \in Nat /\ \A i \in 1..Len(names[l]) : <<l, names[l][i]>> \in Entries
    BY <2>1 DEF Entries
  <2>3. Tagged(l) = [i \in 1..Len(names[l]) |-> <<l, names[l][i]>>]
    BY <2>1 DEF Tagged
  <2>4. Tagged(l) \in Seq(Entries)
    BY <2>2, <2>3
  <2> QED
    BY <2>4 DEF Reverse
<1>2. \A i \in 1..4 : ListOrder[i] \in Lists
  BY DEF ListOrder, Lists
<1>3. \A i \in 1..4 : Reverse(Tagged(ListOrder[i])) \in Seq(Entries)
  BY <1>1, <1>2
<1>4. ASSUME NEW k \in 0..4 PROVE Listed(k) \in Seq(Seq(Entries)) /\ Len(Listed(k)) = k
  <2>1. k \in Nat /\ \A i \in 1..k : i \in 1..4
    OBVIOUS
  <2> QED
    BY <1>3, <2>1 DEF Listed
<1> QED
  BY <1>3, <1>4

\* The four lists after one another.
LEMMA FourLists ==
  ASSUME PlatformTypes
  PROVE  /\ AllNames = Reverse(Tagged("COMMUNITY_RO")) \o Reverse(Tagged("COMMUNITY_RW"))
                         \o Reverse(Tagged("VIEW_RO")) \o Reverse(Tagged("VIEW_RW"))
         /\ AllNames \in Seq(Entries)
<1> DEFINE R(i) == Reverse(Tagged(ListOrder[i]))
<1>1. \A i \in 1..4 : R(i) \in Seq(Entries)
  BY ListedType
<1>2. ASSUME NEW k \in 0..3 PROVE Listed(k + 1) = Append(Listed(k), R(k + 1))
  <2>1. k + 1 \in 0..4 /\ k \in 0..4 /\ k + 1 \in 1..4
    OBVIOUS
  <2>2. Listed(k) \in Seq(Seq(Entries)) /\ Len(Listed(k)) = k /\ R(k + 1) \in Seq(Entries)
    BY <1>1, <2>1, ListedType
  <2>3. Listed(k + 1) \in Seq(Seq(Entries)) /\ Len(Listed(k + 1)) = k + 1
    BY <2>1, ListedType
  <2>4. \A i \in 1..k : Listed(k + 1)[i] = Listed(k)[i]
    BY DEF Listed
  <2>5. Listed(k + 1)[k + 1] = R(k + 1)
    BY <2>1 DEF Listed
  <2> HIDE DEF R
  <2> QED
    BY <2>1, <2>2, <2>3, <2>4, <2>5
<1>3. \A k \in 0..3 : Listed(k) \in Seq(Seq(Entries)) /\ R(k + 1) \in Seq(Entries)
  BY <1>1, ListedType
<1> HIDE DEF R
<1>4. ASSUME NEW k \in 0..3 PROVE FlattenSeq(Listed(k + 1)) = FlattenSeq(Listed(k)) \o R(k + 1)
  BY <1>2, <1>3, FlattenAppend
<1>5. FlattenSeq(Listed(0)) = <<>>
  <2>1. Listed(0) \in Seq(Seq(Entries)) /\ Len(Listed(0)) = 0
    BY ListedType
  <2> QED
    BY <2>1 DEF FlattenSeq
<1>6. FlattenSeq(Listed(1)) = R(1)
  <2>1. FlattenSeq(Listed(0 + 1)) = FlattenSeq(Listed(0)) \o R(0 + 1)
    BY <1>4
  <2>2. 1 \in 1..4 /\ 0 + 1 = 1
    OBVIOUS
  <2>3. R(1) \in Seq(Entries)
    BY <1>1, <2>2, Zenon
  <2>4. <<>> \o R(1) = R(1)
    BY <2>3, ConcatEmptySeq
  <2> QED
    BY <1>5, <2>1, <2>2, <2>4
<1>7. FlattenSeq(Listed(2)) = R(1) \o R(2)
  <2>1. FlattenSeq(Listed(1 + 1)) = FlattenSeq(Listed(1)) \o R(1 + 1)
    BY <1>4
  <2> QED
    BY <1>6, <2>1
<1>8. FlattenSeq(Listed(3)) = R(1) \o R(2) \o R(3)
  <2>1. FlattenSeq(Listed(2 + 1)) = FlattenSeq(Listed(2)) \o R(2 + 1)
    BY <1>4
  <2> QED
    BY <1>7, <2>1
<1>9. AllNames = R(1) \o R(2) \o R(3) \o R(4)
  <2>1. FlattenSeq(Listed(3 + 1)) = FlattenSeq(Listed(3)) \o R(3 + 1)
    BY <1>4
  <2>2. 3 + 1 = 4
    OBVIOUS
  <2>3. FlattenSeq(Listed(4)) = FlattenSeq(Listed(3)) \o R(4)
    BY <2>1, <2>2
  <2> QED
    BY <1>8, <2>3 DEF AllNames
<1>10. /\ R(1) = Reverse(Tagged("COMMUNITY_RO")) /\ R(2) = Reverse(Tagged("COMMUNITY_RW"))
       /\ R(3) = Reverse(Tagged("VIEW_RO")) /\ R(4) = Reverse(Tagged("VIEW_RW"))
  BY DEF R, ListOrder
<1>11. AllNames \in Seq(Entries)
  <2>1. Listed(4) \in Seq(Seq(Entries))
    BY ListedType
  <2> QED
    BY <2>1, FlattenType DEF AllNames
<1> QED
  BY <1>9, <1>10, <1>11

\* A page and what is left after it are what was left before it.
LEMMA PageParts ==
  ASSUME NEW s \in Seq(Entries)
  PROVE  LET p == PageOf(s) IN
           /\ p.names \in Seq(Entries) /\ p.rest \in Seq(Entries) /\ p.more \in BOOLEAN
           /\ Len(p.names) <= PageMax /\ p.names \o p.rest = s
           /\ ~p.more => p.names = s
<1> DEFINE m == IF Len(s) < PageMax THEN Len(s) ELSE PageMax
           head == SubSeq(s, 1, m)
           tail == SubSeq(s, PageMax + 1, Len(s))
<1>1. PageMax \in Nat \ {0} /\ Len(s) \in Nat /\ m \in 0..Len(s) /\ m <= PageMax
  BY RequestsAssumption
<1>2. PageOf(s) = [names |-> head, more |-> Len(s) > PageMax, rest |-> tail]
  BY DEF PageOf
<1>3. head \in Seq(Entries) /\ Len(head) = m
  BY <1>1
<1>4. tail \in Seq(Entries)
  BY <1>1
<1>5. head \o tail = s
  <2>1. CASE Len(s) > PageMax
    <3>1. m = PageMax /\ 1 \in 1..(Len(s) + 1) /\ PageMax \in (1 - 1)..Len(s) /\ Len(s) \in PageMax..Len(s)
      BY <1>1, <2>1
    <3>2. SubSeq(s, 1, PageMax) \o SubSeq(s, PageMax + 1, Len(s)) = SubSeq(s, 1, Len(s))
      BY <3>1, ConcatAdjacentSubSeq, Zenon
    <3> QED
      BY <3>1, <3>2, SubSeqFull
  <2>2. CASE ~(Len(s) > PageMax)
    <3>1. m = Len(s) /\ Len(s) < PageMax + 1
      BY <1>1, <2>2
    <3>2. head = s
      BY <3>1, SubSeqFull
    <3>3. tail = <<>>
      BY <1>1, <3>1, SubSeqEmpty
    <3> QED
      BY <3>2, <3>3, ConcatEmptySeq
  <2> QED
    BY <2>1, <2>2
<1>6. ~(Len(s) > PageMax) => head = s
  <2>1. ASSUME ~(Len(s) > PageMax) PROVE m = Len(s)
    BY <1>1, <2>1
  <2> QED
    BY <2>1, SubSeqFull
<1> HIDE DEF m, head, tail
<1>7. PageOf(s).names = head /\ PageOf(s).rest = tail /\ PageOf(s).more = (Len(s) > PageMax)
  BY <1>2
<1>8. PageOf(s).more \in BOOLEAN /\ (~PageOf(s).more => ~(Len(s) > PageMax))
  <2>1. (Len(s) > PageMax) \in BOOLEAN
    OBVIOUS
  <2> QED
    BY <1>7, <2>1, Zenon
<1> QED
  BY <1>1, <1>3, <1>4, <1>5, <1>6, <1>7, <1>8

\* The names of the pages, with one page more.
LEMMA TextsAppend ==
  ASSUME NEW q \in Seq(Pages), NEW e \in Pages
  PROVE  /\ Texts(q) \in Seq(Seq(Entries))
         /\ Texts(Append(q, e)) = Append(Texts(q), e.names)
         /\ FlattenSeq(Texts(Append(q, e))) = FlattenSeq(Texts(q)) \o e.names
         /\ FlattenSeq(Texts(q)) \in Seq(Entries)
<1>1. ASSUME NEW r \in Seq(Pages)
      PROVE  Texts(r) \in Seq(Seq(Entries)) /\ Len(Texts(r)) = Len(r)
  <2>1. \A i \in 1..Len(r) : r[i].names \in Seq(Entries)
    <3>1. ASSUME NEW i \in 1..Len(r) PROVE r[i].names \in Seq(Entries)
      <4>1. r[i] \in Pages
        OBVIOUS
      <4> QED
        BY <4>1 DEF Pages
    <3> QED
      BY <3>1
  <2> QED
    BY <2>1 DEF Texts
<1>2. e.names \in Seq(Entries)
  BY DEF Pages
<1>3. Append(q, e) \in Seq(Pages) /\ Len(Append(q, e)) = Len(q) + 1
  OBVIOUS
<1>4. Texts(Append(q, e)) = Append(Texts(q), e.names)
  <2>1. Texts(Append(q, e)) \in Seq(Seq(Entries)) /\ Len(Texts(Append(q, e))) = Len(q) + 1
    BY <1>1, <1>3
  <2>2. Texts(q) \in Seq(Seq(Entries)) /\ Len(Texts(q)) = Len(q)
    BY <1>1
  <2>3. \A i \in 1..(Len(q) + 1) : Texts(Append(q, e))[i] = Append(q, e)[i].names
    BY <1>3 DEF Texts
  <2>4. \A i \in 1..Len(q) : Texts(q)[i] = q[i].names
    BY DEF Texts
  <2>5. \A i \in 1..(Len(q) + 1) : Append(q, e)[i] = IF i <= Len(q) THEN q[i] ELSE e
    OBVIOUS
  <2>6. \A i \in 1..(Len(q) + 1) : Texts(Append(q, e))[i] = IF i <= Len(q) THEN Texts(q)[i] ELSE e.names
    BY <2>3, <2>4, <2>5
  <2> DEFINE a == Texts(Append(q, e))
             b == Texts(q)
             c == Append(b, e.names)
  <2> HIDE DEF a, b
  <2>7. /\ c \in Seq(Seq(Entries)) /\ Len(c) = Len(q) + 1
        /\ \A i \in 1..(Len(q) + 1) : c[i] = IF i <= Len(q) THEN b[i] ELSE e.names
    BY <1>2, <2>2 DEF b
  <2> HIDE DEF c
  <2>8. a \in Seq(Seq(Entries)) /\ Len(a) = Len(c) /\ \A i \in 1..Len(a) : a[i] = c[i]
    BY <2>1, <2>6, <2>7 DEF a, b
  <2>9. a = c
    BY <2>7, <2>8, SeqEqual
  <2> QED
    BY <2>9 DEF a, b, c
<1>5. FlattenSeq(Append(Texts(q), e.names)) = FlattenSeq(Texts(q)) \o e.names
  BY <1>1, <1>2, FlattenAppend
<1>6. FlattenSeq(Texts(q)) \in Seq(Entries)
  BY <1>1, FlattenType
<1> QED
  BY <1>1, <1>4, <1>5, <1>6

\* Nothing is said of the pages once the names may change.
LEMMA NextNamed ==
  ASSUME HandTypes, TypeOK, [Next]_vars
  PROVE  \/ UNCHANGED <<names, phase, code, rest, pages>>
         \/ rest' = rest /\ pages' = <<>> /\ phase' # "pages"
         \/ rest' = <<>> /\ pages' = <<>> /\ phase' # "pages"
         \/ phase \in {"apply", "called", "delay", "restart", "wild"} /\ phase' # "pages" /\ UNCHANGED <<rest, pages>>
         \/ SnmpCollect \/ SnmpCollectFails \/ SnmpPage
<1>1. CASE Ignore \/ NoMemory \/ ChangePassword \/ UNCHANGED vars
  BY <1>1 DEF Ignore, NoMemory, ChangePassword, vars, platformVars, requestVars
<1>2. CASE (\E op \in Restarts : AlarmUp(op)) \/ (\E r \in Menu : Send(r))
  BY <1>2 DEF AlarmUp, Send, platformVars
<1>3. CASE Delay \/ DelayFails \/ Restart \/ Answer \/ SnmpWild
  BY <1>3 DEF Delay, DelayFails, Restart, Answer, SnmpWild
<1>4. CASE Apply \/ Called
  <2>1. phase \in {"apply", "called"} /\ UNCHANGED <<rest, pages>> /\ phase' \in {phase, "apply", "called"}
    BY <1>4 DEF Apply, Called, UnchangedByApply
  <2> QED
    BY <2>1
<1>5. CASE Take
  <2>1. rest' = rest /\ pages' = <<>> /\ phase' = NextPhase(Head(mq), Check(Head(mq)))
    BY <1>5 DEF Take
  <2> QED
    BY <2>1 DEF NextPhase
<1>6. CASE End
  BY <1>6 DEF End
<1>7. CASE \E n \in Files : Others(n)
  BY <1>7 DEF Others, OthersWrite
<1> QED
  BY <1>1, <1>2, <1>3, <1>4, <1>5, <1>6, <1>7 DEF Next, Proc

\* Every step keeps the pages in order.
LEMMA NextPaged ==
  ASSUME PlatformTypes, HandTypes, TypeOK, Paged, [Next]_vars
  PROVE  Paged'
<1>a. rest \in Seq(Entries) /\ pages \in Seq(Pages)
  BY DEF Paged
<1>1. CASE UNCHANGED <<names, phase, code, rest, pages>>
  BY <1>1 DEF Paged, AllNames, Listed, Tagged
<1>2. CASE rest' \in {rest, <<>>} /\ pages' = <<>> /\ phase' # "pages"
  <2>a. <<>> \in Seq(Entries) /\ <<>> \in Seq(Pages) /\ DOMAIN <<>> = {}
    OBVIOUS
  <2>1. rest' \in Seq(Entries) /\ pages' \in Seq(Pages) /\ DOMAIN <<>> = {}
    BY <1>2, <1>a, <2>a
  <2> QED
    BY <1>2, <2>1 DEF Paged
<1>3. CASE phase \in {"apply", "called", "delay", "restart", "wild"} /\ phase' # "pages" /\ UNCHANGED <<rest, pages>>
  <2>1. pages' = <<>> /\ rest' = rest
    BY <1>3 DEF Paged
  <2> QED
    BY <1>2, <1>3, <2>1
<1>4. CASE SnmpCollect
  <2>1. /\ phase = "collect" /\ phase' = "pages" /\ UNCHANGED <<code, pages, names>>
        /\ rest' = AllNames
    BY <1>4, FourLists DEF SnmpCollect, platformVars
  <2>2. pages = <<>> /\ DOMAIN pages = {}
    BY <2>1 DEF Paged
  <2>3. AllNames' = AllNames
    BY <2>1 DEF AllNames, Listed, Tagged
  <2>4. AllNames \in Seq(Entries)
    BY FourLists
  <2>5. FlattenSeq(Texts(<<>>)) \o AllNames = AllNames
    <3>1. Texts(<<>>) = <<>>
      BY DEF Texts
    <3>2. FlattenSeq(<<>>) = <<>>
      BY DEF FlattenSeq
    <3> QED
      BY <2>4, <3>1, <3>2, ConcatEmptySeq
  <2> QED
    BY <1>a, <2>1, <2>2, <2>3, <2>4, <2>5 DEF Paged
<1>5. CASE SnmpCollectFails
  <2>1. phase = "collect" /\ code' = "fail" /\ pages' = pages
    BY <1>5 DEF SnmpCollectFails
  <2>2. pages = <<>> /\ DOMAIN pages = {}
    BY <2>1 DEF Paged
  <2>3. CASE phase' = "pages" /\ \E k \in 1..4 : rest' = FlattenSeq(Listed(k - 1))
    <3>1. PICK k \in 1..4 : rest' = FlattenSeq(Listed(k - 1))
      BY <2>3
    <3>2. k - 1 \in 0..4
      OBVIOUS
    <3>3. Listed(k - 1) \in Seq(Seq(Entries))
      BY <3>2, ListedType
    <3>4. rest' \in Seq(Entries)
      BY <3>1, <3>3, FlattenType
    <3> QED
      BY <1>a, <2>1, <2>2, <2>3, <3>4 DEF Paged
  <2>4. CASE phase' = "wild" /\ rest' = rest
    BY <1>a, <2>1, <2>2, <2>4 DEF Paged
  <2> QED
    BY <1>5, <2>3, <2>4 DEF SnmpCollectFails, Listed
<1>6. CASE SnmpPage
  <2> DEFINE p == PageOf(rest)
             e == [names |-> p.names, more |-> p.more, code |-> code]
  <2>1. /\ phase = "pages" /\ names' = names
        /\ pages' = Append(pages, e) /\ rest' = p.rest
        /\ IF p.more THEN UNCHANGED <<phase, code>> ELSE phase' = "idle" /\ code' = "ok"
    BY <1>6 DEF SnmpPage, platformVars
  <2>2. /\ p.names \in Seq(Entries) /\ p.rest \in Seq(Entries) /\ p.more \in BOOLEAN
        /\ Len(p.names) <= PageMax /\ p.names \o p.rest = rest
        /\ ~p.more => p.names = rest
    BY <1>a, PageParts
  <2> HIDE DEF p
  <2>3. e \in Pages /\ e.names = p.names /\ e.more = p.more /\ e.code = code
    <3>1. code \in {"ok", "fail", "authen", "type"}
      BY DEF HandTypes
    <3> QED
      BY <2>2, <3>1 DEF Pages
  <2> HIDE DEF e
  <2>4. /\ FlattenSeq(Texts(pages')) = FlattenSeq(Texts(pages)) \o p.names
        /\ FlattenSeq(Texts(pages)) \in Seq(Entries)
    BY <1>a, <2>1, <2>3, TextsAppend
  <2>5. FlattenSeq(Texts(pages')) \o rest' = FlattenSeq(Texts(pages)) \o rest
    <3>a. \A a, b, c \in Seq(Entries) : (a \o b) \o c = a \o (b \o c)
      BY ConcatAssociative
    <3>1. (FlattenSeq(Texts(pages)) \o p.names) \o p.rest = FlattenSeq(Texts(pages)) \o (p.names \o p.rest)
      BY <2>2, <2>4, <3>a
    <3> QED
      BY <2>1, <2>2, <2>4, <3>1
  <2>6. /\ pages' \in Seq(Pages) /\ Len(pages') = Len(pages) + 1 /\ pages'[Len(pages) + 1] = e
        /\ \A i \in 1..Len(pages) : pages'[i] = pages[i]
        /\ pages' # <<>> /\ Last(pages') = e
    BY <1>a, <2>1, <2>3 DEF Last
  <2>7. AllNames' = AllNames
    BY <2>1 DEF AllNames, Listed, Tagged
  <2>8. code = "ok" => FlattenSeq(Texts(pages)) \o rest = AllNames
    BY <2>1 DEF Paged
  <2>9. \A i \in DOMAIN pages' : Len(pages'[i].names) <= PageMax
    BY <1>a, <2>2, <2>3, <2>6 DEF Paged
  <2>10. \A i \in 1..Len(pages) : pages[i].more
    BY <1>a, <2>1 DEF Paged
  <2>11. \A i \in DOMAIN pages' : i < Len(pages') \/ p.more => pages'[i].more
    BY <1>a, <2>3, <2>6, <2>10
  <2>12. phase' # "pages" => ~p.more
    BY <2>1
  <2>13. phase' = "pages" => p.more
    BY <2>1
  <2>14. rest' \in Seq(Entries) /\ phase' \in {"idle", "pages"}
    BY <2>1, <2>2
  <2>15. phase' = "pages" /\ code' = "ok" => FlattenSeq(Texts(pages')) \o rest' = AllNames
    BY <2>1, <2>5, <2>8
  <2>16. phase' # "pages" => ~Last(pages').more /\ (Last(pages').code = "ok" => FlattenSeq(Texts(pages')) = AllNames)
    BY <2>2, <2>3, <2>4, <2>6, <2>8, <2>12
  <2>17. \A i \in DOMAIN pages' : i < Len(pages') \/ phase' = "pages" => pages'[i].more
    BY <2>11, <2>13
  <2> QED
    BY <2>6, <2>7, <2>9, <2>14, <2>15, <2>16, <2>17 DEF Paged
<1> QED
  BY <1>1, <1>2, <1>3, <1>4, <1>5, <1>6, NextNamed

-----------------------------------------------------------------------------
(* Theorems. *)

\* The invariant holds at first.
LEMMA InitIInv == Init => IInv
<1> SUFFICES ASSUME Init PROVE IInv
  OBVIOUS
<1>1. /\ pf = Defaults /\ names = FreshNames /\ tmp = <<>> /\ call = NoCall(TRUE) /\ faults = 0 /\ others = 0
      /\ short = {} /\ file \in [Files -> UNION {Contents[n] : n \in Files}]
      /\ \A n \in Files : file[n] \in Contents[n]
  BY DEF Init, InitPlatform
<1>2. /\ mq = <<>> /\ cur = Nothing /\ phase = "idle" /\ todo = <<>> /\ code = "ok" /\ view = <<>> /\ unsure = {}
      /\ alarm = [op \in Restarts |-> Nothing]
  BY DEF Init
<1>3. pf \in [InPf -> Nat]
  BY <1>1, PlatformAssumption
<1>4. file \in [Files -> Seq(Lines)]
  <2>1. \A n \in Files : file[n] \in Seq(Lines)
    BY <1>1, PlatformAssumption
  <2> QED
    BY <1>1, <2>1
<1>5. names \in [Lists -> Seq(Nat)] /\ \A l \in Lists : Len(names[l]) <= NamesMax
  BY <1>1, FreshNamesType
<1>6. call \in Calls /\ Idle
  BY <1>1, NoCallType DEF Idle
<1>7. PlatformTypes
  <2>1. DOMAIN tmp = {}
    BY <1>1
  <2> QED
    BY <1>1, <1>3, <1>4, <1>5, <1>6, <2>1 DEF PlatformTypes
<1>8. Bounds
  BY <1>1, PlatformAssumption DEF Bounds
<1>9. QueueTypes
  BY <1>2 DEF QueueTypes
<1>10. HandTypes
  BY <1>2, <1>6 DEF HandTypes
<1>11. TypeOK /\ Typed
  BY <1>7, <1>8, <1>9, <1>10, TypesParts
<1>12. Planned /\ Progress /\ Lined /\ Apart /\ Seen /\ InCall
  BY <1>2 DEF Planned, Progress, Lined, Apart, Seen, InCall
<1>13. \A n \in Files : EditOf(file[n], file[n])
  BY DEF EditOf
<1>14. FileWhole
  BY <1>1, <1>13 DEF FileWhole
<1> QED
  BY <1>11, <1>12, <1>14 DEF IInv

\* Every step keeps it.
LEMMA NextIInv == IInv /\ [Next]_vars => IInv'
<1> SUFFICES ASSUME IInv, [Next]_vars PROVE IInv'
  OBVIOUS
<1>1. TypeOK /\ Typed /\ Planned /\ Progress /\ Lined /\ Apart /\ Seen /\ InCall /\ FileWhole
  BY DEF IInv
<1>2. Types /\ PlatformTypes /\ Bounds /\ QueueTypes /\ HandTypes
  BY <1>1, TypesParts DEF Types
<1>3. PlatformTypes' /\ Bounds'
  BY <1>1, <1>2, NextPlatformTypes, NextBounds
<1>4. QueueTypes' /\ HandTypes'
  BY <1>1, <1>2, NextQueueTypes, NextHandTypes
<1>5. Types'
  BY <1>3, <1>4 DEF Types
<1>6. TypeOK' /\ Typed'
  BY <1>3, <1>4, TypesParts, PTL
<1>7. Planned' /\ Lined' /\ Apart' /\ InCall' /\ FileWhole'
  BY <1>1, <1>2, <1>5, NextPlanned, NextLined, NextApart, NextInCall, NextFileWhole
<1>8. Progress' /\ Seen'
  BY <1>1, <1>2, <1>5, NextProgress, NextSeen
<1> QED
  BY <1>6, <1>7, <1>8 DEF IInv

\* Every reachable state satisfies the invariant.
LEMMA SpecIInv == Spec => []IInv
BY InitIInv, NextIInv, PTL DEF Spec

\* The queue, the request in hand, the alarms, the variables, files and calls of
\* the platform are of their types, the name lists have room, a call is in
\* progress exactly while a handler waits for it.
THEOREM TypeCorrect == Spec => []TypeOK
<1>1. IInv => TypeOK
  BY DEF IInv
<1> QED
  BY <1>1, SpecIInv, PTL

\* A configuration file is whole at every moment, whatever setter runs, whoever
\* else writes it and whenever the process ends, except after a full disk.
THEOREM WholeFiles == Spec => []FileWhole
<1>1. IInv => FileWhole
  BY DEF IInv
<1> QED
  BY <1>1, SpecIInv, PTL

\* A setting of KeptOf (DNS servers, a port of one byte, NTP switched on and its
\* server, daylight saving, SNMP state, SSIDs) whose request was answered with
\* success reads back as it was sent, until another request names it, its file is
\* rewritten or truncated, or, for one in memory, the process ends.
THEOREM ViewHolds == Spec => []ClientView
<1>1. IInv => ClientView
  BY ReadsMemory DEF IInv, Seen, ClientView
<1> QED
  BY <1>1, SpecIInv, PTL

\* The pages are in order in every reachable state.
LEMMA SpecPaged == Spec => []Paged
<1>1. Init => Paged
  <2>1. <<>> \in Seq(Entries) /\ <<>> \in Seq(Pages) /\ DOMAIN <<>> = {}
    OBVIOUS
  <2> QED
    BY <2>1 DEF Init, Paged
<1>2. IInv /\ Paged /\ [Next]_vars => Paged'
  <2> SUFFICES ASSUME IInv, Paged, [Next]_vars PROVE Paged'
    OBVIOUS
  <2>1. TypeOK /\ Typed
    BY DEF IInv
  <2>2. PlatformTypes /\ HandTypes
    BY <2>1, TypesParts
  <2> QED
    BY <2>1, <2>2, NextPaged
<1> QED
  BY <1>1, <1>2, SpecIInv, PTL DEF Spec

\* The pages of an answer to SNMP_GET whose four lists could be read, with memory
\* for each of them, hold every name of the four lists once, in
\* the order the handler sends them, none holds more than fits, and only the last
\* one says that nothing follows, however long the lists and the pages are.
THEOREM PagesAreComplete == Spec => []PagesComplete
<1>1. Paged => PagesComplete
  <2> SUFFICES ASSUME Paged PROVE PagesComplete
    OBVIOUS
  <2>1. /\ Texts(pages) = [i \in DOMAIN pages |-> pages[i].names]
        /\ AllNames = FlattenSeq([i \in 1..4 |-> Reverse(Tagged(ListOrder[i]))])
    BY DEF Texts, AllNames, Listed
  <2>2. ASSUME pages # <<>>, \A i \in DOMAIN pages : pages[i].code = "ok" PROVE Last(pages).code = "ok"
    <3>1. Last(pages) = pages[Len(pages)] /\ Len(pages) \in DOMAIN pages
      BY <2>2 DEF Paged, Last
    <3> QED
      BY <2>2, <3>1
  <2> QED
    BY <2>1, <2>2 DEF Paged, PagesComplete
<1> QED
  BY <1>1, SpecPaged, PTL
==============================================================================
