--------------------------- MODULE Switch_proofs ---------------------------
(***************************************************************************)
(* The tables of a switch.                                                 *)
(*                                                                         *)
(* Switch: for any number of slots and any addresses that clients send, no *)
(* two slots hold addresses that strcmp takes for the same, so that the    *)
(* slots are a set; the VLANs and settings keep their types, whatever the  *)
(* setters refuse, and read back as they were set.  NeighbTable and        *)
(* NeighbLife: no port takes more than one neighbour over its limit, and   *)
(* every record lasts exactly as long as the switch's own reports let it.  *)
(*                                                                         *)
(* What Key computes does not matter: only that the addresses are compared *)
(* by it, always the same way.                                             *)
(***************************************************************************)
EXTENDS Switch, NeighbLife, FiniteSetTheorems, SequenceTheorems, WellFoundedInduction, TLAPS

\* Two slots with one key are both free.
SlotsDistinct ==
  \A i, j \in Slots : Key(macs[i]) = Key(macs[j]) => i = j \/ Key(macs[i]) = NoKey

IInv == TypeOK /\ SlotsDistinct

-----------------------------------------------------------------------------
\* The order of the settings, written out.
LEMMA FieldOrder ==
  /\ VlanFields = <<"name", "id", "tagType", "tags", "untagType", "untags">>
  /\ AsvFields = <<"id", "priority", "state", "tagType", "tags">>
<1> DEFINE S == {"name", "id", "tagType", "tags", "untagType", "untags", "priority", "state"}
<1>1. /\ <<"name", "id">> \in Seq(S) /\ <<"id", "priority", "state">> \in Seq(S)
      /\ TagFields \in Seq(S) /\ UntagFields \in Seq(S)
  BY DEF TagFields, UntagFields
<1>2. ASSUME NEW s \in Seq(S), NEW t \in Seq(S)
      PROVE  /\ s \o t \in Seq(S) /\ Len(s \o t) = Len(s) + Len(t)
             /\ \A i \in 1..(Len(s) + Len(t)) :
                  (s \o t)[i] = IF i <= Len(s) THEN s[i] ELSE t[i - Len(s)]
  BY ConcatProperties
<1>3. <<"name", "id">> \o TagFields = <<"name", "id", "tagType", "tags">>
  <2> DEFINE s == <<"name", "id">> \o TagFields
  <2>1. s \in Seq(S) /\ Len(s) = 4 /\ \A i \in 1..4 : s[i] = <<"name", "id", "tagType", "tags">>[i]
    BY <1>1, <1>2 DEF TagFields
  <2>2. <<"name", "id", "tagType", "tags">> \in Seq(S)
    OBVIOUS
  <2> QED
    BY <2>1, <2>2, SeqEqual
<1>4. VlanFields = <<"name", "id", "tagType", "tags", "untagType", "untags">>
  <2> DEFINE all == <<"name", "id", "tagType", "tags", "untagType", "untags">>
  <2>1. VlanFields = <<"name", "id", "tagType", "tags">> \o UntagFields
    BY <1>3 DEF VlanFields
  <2>2. <<"name", "id", "tagType", "tags">> \in Seq(S) /\ all \in Seq(S)
    OBVIOUS
  <2>3. VlanFields \in Seq(S) /\ Len(VlanFields) = 6
    BY <1>1, <1>2, <2>1, <2>2 DEF UntagFields
  <2>4. \A i \in 1..6 : VlanFields[i] = all[i]
    BY <1>1, <1>2, <2>1, <2>2 DEF UntagFields
  <2> QED
    BY <2>2, <2>3, <2>4, SeqEqual
<1>5. AsvFields = <<"id", "priority", "state", "tagType", "tags">>
  <2> DEFINE all == <<"id", "priority", "state", "tagType", "tags">>
  <2>1. AsvFields \in Seq(S) /\ Len(AsvFields) = 5
    BY <1>1, <1>2 DEF AsvFields, TagFields
  <2>2. \A i \in 1..5 : AsvFields[i] = all[i]
    BY <1>1, <1>2 DEF AsvFields, TagFields
  <2>3. all \in Seq(S)
    OBVIOUS
  <2> QED
    BY <2>1, <2>2, <2>3, SeqEqual
<1> QED
  BY <1>4, <1>5

-----------------------------------------------------------------------------
\* The types hold at the start.
LEMMA InitType == Init => TypeOK
<1> SUFFICES ASSUME Init PROVE TypeOK
  OBVIOUS
<1> USE SwitchAssumption DEF Init
<1>1. DefaultVlan \in Vlan /\ NoVlan \in Vlan /\ DefaultVlan.id = 1 /\ NoVlan.id = 0
  BY DEF DefaultVlan, NoVlan, Vlan
<1>2. staged \in Vlan /\ staged.id \in VlanIds
  BY <1>1
<1>3. vlans \in [VlanIds -> Vlan] /\ \A v \in VlanIds : vlans[v].id \in {0, v}
  BY <1>1
<1>4. asv \in Asv
  BY DEF DefaultAsv, Asv
<1>5. macs \in [Slots -> MacMenu \cup {DefaultMac}]
  OBVIOUS
<1> QED
  BY <1>2, <1>3, <1>4, <1>5 DEF TypeOK

\* The VLAN that has been staged is one, and its id is a slot: only the name and
\* the id of a request get there, each by its own setter.
LEMMA StageType ==
  ASSUME staged \in Vlan, staged.id \in VlanIds, NEW r \in VlanMenu, NEW n \in Nat
  PROVE  Stage(r, n) \in Vlan /\ Stage(r, n).id \in VlanIds
<1>1. r \in Vlan /\ r.id \in VlanIds
  BY SwitchAssumption
<1>2. DOMAIN staged = {"name", "id", "tagType", "tags", "untagType", "untags"}
  BY DEF Vlan
<1>3. \A f \in DOMAIN staged : Stage(r, n)[f] \in {r[f], staged[f]}
  BY DEF Stage
<1>4. Stage(r, n).id \in VlanIds
  BY <1>1, <1>2, <1>3
<1>5. Stage(r, n) \in Vlan
  <2>1. Stage(r, n) = [name |-> Stage(r, n).name, id |-> Stage(r, n).id,
                       tagType |-> Stage(r, n).tagType, tags |-> Stage(r, n).tags,
                       untagType |-> Stage(r, n).untagType, untags |-> Stage(r, n).untags]
    BY <1>2 DEF Stage
  <2>2. \A f \in DOMAIN staged : Stage(r, n)[f] \in Nat
    BY <1>1, <1>2, <1>3 DEF Vlan
  <2> QED
    BY <1>2, <2>1, <2>2 DEF Vlan
<1> QED
  BY <1>4, <1>5

\* The settings of the ASV keep their types: id and priority take one byte.
LEMMA AsvStageType ==
  ASSUME asv \in Asv, NEW r \in AsvMenu, NEW n \in Nat
  PROVE  AsvStage(r, n) \in Asv
<1>1. r \in Asv
  BY SwitchAssumption
<1>2. DOMAIN asv = {"id", "priority", "state", "tagType", "tags"}
  BY DEF Asv
<1>3. FirstByte(r.id) \in Nat \X Nat /\ FirstByte(r.priority) \in Nat \X Nat
  BY <1>1 DEF Asv, FirstByte
<1>4. /\ AsvStage(r, n).id \in {FirstByte(r.id), asv.id}
      /\ AsvStage(r, n).priority \in {FirstByte(r.priority), asv.priority}
      /\ \A f \in {"state", "tagType", "tags"} : AsvStage(r, n)[f] \in {r[f], asv[f]}
  BY <1>2 DEF AsvStage, AsvValue
<1>5. AsvStage(r, n) = [id |-> AsvStage(r, n).id, priority |-> AsvStage(r, n).priority,
                        state |-> AsvStage(r, n).state, tagType |-> AsvStage(r, n).tagType,
                        tags |-> AsvStage(r, n).tags]
  BY <1>2 DEF AsvStage
<1> QED
  BY <1>1, <1>3, <1>4, <1>5 DEF Asv

-----------------------------------------------------------------------------
(* The slots.                                                              *)

\* A set of slots that is not empty has a first one.
LEMMA FirstIsOne ==
  ASSUME NEW I \in SUBSET Slots, I # {}
  PROVE  First(I) \in I
<1> DEFINE Less == {p \in Nat \X Nat : p[1] < p[2]}
<1>1. IsWellFoundedOn(Less, Nat)
  BY NatLessThanWellFounded, Zenon DEF OpToRel
<1>2. I \subseteq Nat
  BY SwitchAssumption DEF Slots
<1> HIDE DEF Less
<1>3. PICK x \in I : \A y \in I : <<y, x>> \notin Less
  BY <1>1, <1>2, WFMin
<1>4. ASSUME NEW y \in I PROVE x <= y
  <2>1. x \in Nat /\ y \in Nat
    BY <1>2
  <2>2. <<y, x>> \in Less <=> y < x
    BY <2>1 DEF Less
  <2> QED
    BY <1>3, <2>1, <2>2
<1> QED
  BY <1>4 DEF First

\* The slot that an order to add fills, or one to delete frees.
LEMMA FirstHolds ==
  ASSUME NEW k, Holding(k) # {}
  PROVE  First(Holding(k)) \in Slots /\ Key(macs[First(Holding(k))]) = k
BY FirstIsOne DEF Holding

\* Every order on the MAC addresses keeps the table a table without duplicates.
LEMMA MacStep ==
  ASSUME macs \in [Slots -> MacMenu \cup {DefaultMac}], SlotsDistinct, MacCfg
  PROVE  /\ macs' \in [Slots -> MacMenu \cup {DefaultMac}]
         /\ SlotsDistinct'
         /\ reply'.code \in {"ok", "fail", "authen"}
<1>1. ASSUME UNCHANGED macs, reply'.code \in {"ok", "fail", "authen"}
      PROVE  /\ macs' \in [Slots -> MacMenu \cup {DefaultMac}]
             /\ SlotsDistinct'
             /\ reply'.code \in {"ok", "fail", "authen"}
  BY <1>1 DEF SlotsDistinct
<1>2. ASSUME NEW m \in MacMenu, MacAdd(m)
      PROVE  /\ macs' \in [Slots -> MacMenu \cup {DefaultMac}]
             /\ SlotsDistinct'
             /\ reply'.code \in {"ok", "fail", "authen"}
  <2>1. CASE Holding(Key(m)) # {} \/ Holding(NoKey) = {}
    BY <1>1, <1>2, <2>1 DEF MacAdd, MacAnswer, Reply
  <2>2. CASE Holding(Key(m)) = {} /\ Holding(NoKey) # {}
    <3> DEFINE p == First(Holding(NoKey))
    <3>1. p \in Slots /\ macs' = [macs EXCEPT ![p] = m] /\ reply'.code = "ok"
      BY <1>2, <2>2, FirstHolds DEF MacAdd, MacAnswer, Reply
    <3> HIDE DEF p
    <3>2. \A i \in Slots : Key(macs[i]) # Key(m)
      BY <2>2 DEF Holding
    <3>3. macs' \in [Slots -> MacMenu \cup {DefaultMac}]
      BY <3>1
    <3>4. \A i \in Slots : macs'[i] = IF i = p THEN m ELSE macs[i]
      BY <3>1
    <3>5. SlotsDistinct'
      BY <3>2, <3>4 DEF SlotsDistinct
    <3> QED
      BY <3>1, <3>3, <3>5
  <2> QED
    BY <2>1, <2>2
<1>3. ASSUME NEW m \in MacMenu, MacDel(m)
      PROVE  /\ macs' \in [Slots -> MacMenu \cup {DefaultMac}]
             /\ SlotsDistinct'
             /\ reply'.code \in {"ok", "fail", "authen"}
  <2>1. CASE Holding(Key(m)) = {}
    BY <1>1, <1>3, <2>1 DEF MacDel, MacAnswer, Reply
  <2>2. CASE Holding(Key(m)) # {}
    <3> DEFINE p == First(Holding(Key(m)))
    <3>1. p \in Slots /\ macs' = [macs EXCEPT ![p] = DefaultMac] /\ reply'.code = "ok"
      BY <1>3, <2>2, FirstHolds DEF MacDel, MacAnswer, Reply
    <3> HIDE DEF p
    <3>2. macs' \in [Slots -> MacMenu \cup {DefaultMac}]
      BY <3>1
    <3>3. \A i \in Slots : macs'[i] = IF i = p THEN DefaultMac ELSE macs[i]
      BY <3>1
    <3>4. SlotsDistinct'
      BY <3>3 DEF SlotsDistinct, NoKey
    <3> QED
      BY <3>1, <3>2, <3>4
  <2> QED
    BY <2>1, <2>2
<1>4. CASE MacOther
  BY <1>1, <1>4 DEF MacOther, MacAnswer, Reply
<1>5. CASE MacRefused
  BY <1>1, <1>5 DEF MacRefused, MacAnswer, Reply
<1> QED
  BY <1>2, <1>3, <1>4, <1>5 DEF MacCfg

-----------------------------------------------------------------------------
(* The invariant.                                                          *)

LEMMA InitInv == Init => IInv
<1> SUFFICES ASSUME Init PROVE SlotsDistinct
  BY InitType DEF IInv
<1>1. \A i \in Slots : macs[i] = DefaultMac
  BY DEF Init
<1> QED
  BY <1>1 DEF SlotsDistinct, NoKey

LEMMA NextInv == IInv /\ [Next]_vars => IInv'
<1> SUFFICES ASSUME IInv, [Next]_vars PROVE IInv'
  OBVIOUS
<1> USE DEF IInv
<1>1. ASSUME NEW r \in VlanMenu, VlanCfg(r) PROVE IInv'
  <2>1. PICK n \in 0..Len(VlanFields) :
          /\ staged' = Stage(r, n) /\ Commit(Stage(r, n))
          /\ asked' = [asked EXCEPT ![r.id] = IF n = Len(VlanFields) THEN r ELSE Unasked]
          /\ UNCHANGED <<asv, macs, asvAsked>>
    BY <1>1 DEF VlanCfg
  <2>2. n \in Nat
    BY FieldOrder
  <2>3. staged' \in Vlan /\ staged'.id \in VlanIds
    BY <2>1, <2>2, StageType DEF TypeOK
  <2>4. vlans' = [vlans EXCEPT ![staged'.id] = staged']
    BY <2>1 DEF Commit
  <2>5. vlans' \in [VlanIds -> Vlan] /\ \A v \in VlanIds : vlans'[v].id \in {0, v}
    BY <2>3, <2>4 DEF TypeOK
  <2>9. reply'.code \in {"ok", "fail"}
    BY <1>1 DEF VlanCfg, Reply
  <2>6. asked' \in [VlanIds -> VlanMenu \cup {Unasked}]
    BY <2>1 DEF TypeOK
  <2>7. TypeOK'
    BY <2>1, <2>3, <2>5, <2>6, <2>9 DEF TypeOK
  <2>8. SlotsDistinct'
    BY <2>1 DEF SlotsDistinct
  <2> QED
    BY <2>7, <2>8
<1>2. ASSUME NEW r \in AsvMenu, AsvCfg(r) PROVE IInv'
  <2>1. PICK n \in 0..Len(AsvFields) :
          /\ asv' = AsvStage(r, n)
          /\ UNCHANGED <<staged, vlans, macs, asked>>
    BY <1>2 DEF AsvCfg
  <2>2. n \in Nat
    BY FieldOrder
  <2>3. asv' \in Asv
    BY <2>1, <2>2, AsvStageType DEF TypeOK
  <2>4. reply'.code \in {"ok", "fail"}
    BY <1>2 DEF AsvCfg, Reply
  <2> QED
    BY <2>1, <2>3, <2>4 DEF TypeOK, SlotsDistinct
<1>3. CASE MacCfg
  <2>1. /\ macs' \in [Slots -> MacMenu \cup {DefaultMac}]
        /\ SlotsDistinct'
        /\ reply'.code \in {"ok", "fail", "authen"}
    BY <1>3, MacStep DEF TypeOK
  <2>2. UNCHANGED <<staged, vlans, asv, asked>>
    BY <1>3 DEF MacCfg
  <2> QED
    BY <2>1, <2>2 DEF TypeOK
<1>4. CASE /\ UNCHANGED <<staged, vlans, asv, macs, asked>>
           /\ reply'.code \in {"ok", "fail", "authen"}
  BY <1>4 DEF TypeOK, SlotsDistinct
<1>5. ASSUME NEW code \in {"authen", "fail"}, VlanCfgRefused(code) PROVE IInv'
  BY <1>4, <1>5 DEF VlanCfgRefused, Reply
<1>6. CASE VlanGet
  BY <1>4, <1>6 DEF VlanGet, Reply
<1>7. CASE AsvCfgRefused \/ AsvGet
  BY <1>4, <1>7 DEF AsvCfgRefused, AsvGet, Reply
<1>8. CASE MacGet \/ PortNumberGet
  BY <1>4, <1>8 DEF MacGet, PortNumberGet, Reply
<1>9. CASE UNCHANGED vars
  BY <1>4, <1>9 DEF vars, TypeOK
<1> QED
  BY <1>1, <1>2, <1>3, <1>5, <1>6, <1>7, <1>8, <1>9 DEF Next

\* For every menu of VLANs, of settings and of addresses, every size of the
\* table and every setter that refuses: the settings keep their shape, and a
\* slot of the VLAN array holds the VLAN of its own number or none
\* (i4fnDDP_proto_switch_vlan_cfg, i4fnDDP_proto_switch_asv_cfg).
THEOREM TypeCorrect == Spec => []TypeOK
<1>1. IInv => TypeOK
  BY DEF IInv
<1> QED
  BY InitInv, NextInv, <1>1, PTL DEF Spec

-----------------------------------------------------------------------------
(* The table of slots is the set of its addresses.                         *)

\* What the slots hold, the free key included.
AllKeys == {Key(macs[i]) : i \in Slots}

\* Without a duplicate, the set has room exactly when a slot is free.
LEMMA RoomIsAFreeSlot ==
  ASSUME SlotsDistinct
  PROVE  Set!HasRoom <=> Holding(NoKey) # {}
<1> DEFINE f == [i \in Slots |-> Key(macs[i])]
<1>1. f \in Surjection(Slots, AllKeys)
  BY DEF Surjection, AllKeys
<1>2. IsFiniteSet(Slots) /\ Cardinality(Slots) = MacsMax /\ MacsMax \in Nat
  <2>1. 1 \in Int /\ MacsMax \in Int /\ MacsMax >= 1
    BY SwitchAssumption
  <2> QED
    BY <2>1, FS_Interval DEF Slots
<1>3. /\ IsFiniteSet(AllKeys) /\ Cardinality(AllKeys) <= MacsMax
      /\ f \in Injection(Slots, AllKeys) => Cardinality(AllKeys) = MacsMax
  BY <1>1, <1>2, FS_Surjection
<1>4. Cardinality(AllKeys) \in Nat
  BY <1>3, FS_CardinalityType
<1>5. Members = AllKeys \ {NoKey}
  BY DEF Members, AllKeys
<1>8. Set!HasRoom <=> Cardinality(Members) < MacsMax
  <2>1. Set!Cardinality(Members) = Cardinality(Members)
    BY DEF Set!Cardinality, Cardinality
  <2> QED
    BY <2>1 DEF Set!HasRoom
<1>6. CASE Holding(NoKey) = {}
  <2>1. NoKey \notin AllKeys
    BY <1>6 DEF Holding, AllKeys
  <2>2. f \in Injection(Slots, AllKeys)
    BY <1>1, <1>6 DEF Holding, SlotsDistinct, Injection, Surjection, IsInjective
  <2>3. Members = AllKeys
    BY <1>5, <2>1
  <2> QED
    BY <1>2, <1>3, <1>6, <1>8, <2>2, <2>3
<1>7. CASE Holding(NoKey) # {}
  <2>1. NoKey \in AllKeys
    BY <1>7 DEF Holding, AllKeys
  <2>2. Cardinality(Members) = Cardinality(AllKeys) - 1
    BY <1>3, <1>5, <2>1, FS_RemoveElement
  <2> QED
    BY <1>2, <1>3, <1>4, <1>7, <1>8, <2>2
<1> QED
  BY <1>6, <1>7

\* A key is a member when a slot holds it and it is not the free one.
LEMMA MemberIsHeld ==
  \A k : k \in Members <=> k # NoKey /\ Holding(k) # {}
BY DEF Members, Holding

\* A request answered in MAC terms.
LEMMA MacAnswered ==
  ASSUME NEW order, NEW k, NEW code, MacAnswer(order, k, code)
  PROVE  MacReply' = [order |-> order, key |-> k, code |-> code]
BY DEF MacAnswer, Reply, MacReply

\* An order to add is one of the set, refused or not.
LEMMA AddRefines ==
  ASSUME macs \in [Slots -> MacMenu \cup {DefaultMac}], SlotsDistinct,
         NEW m \in MacMenu, MacAdd(m)
  PROVE  Set!Add(Key(m))
<1> DEFINE k == Key(m)
<1>1. CASE Holding(k) # {} \/ Holding(NoKey) = {}
  <2>1. MacReply' = [order |-> "add", key |-> k, code |-> "fail"] /\ UNCHANGED macs
    BY <1>1, MacAnswered DEF MacAdd
  <2>2. UNCHANGED Members
    BY <2>1 DEF Members
  <2>3. ~(k # NoKey /\ k \notin Members /\ Set!HasRoom)
    BY <1>1, RoomIsAFreeSlot, MemberIsHeld
  <2> QED
    BY <2>1, <2>2, <2>3 DEF Set!Add, Set!Answer
<1>2. CASE Holding(k) = {} /\ Holding(NoKey) # {}
  <2> DEFINE p == First(Holding(NoKey))
  <2>1. /\ MacReply' = [order |-> "add", key |-> k, code |-> "ok"]
        /\ macs' = [macs EXCEPT ![p] = m]
    BY <1>2, MacAnswered DEF MacAdd
  <2>2. p \in Slots /\ Key(macs[p]) = NoKey
    BY <1>2, FirstHolds
  <2> HIDE DEF p
  <2>3. k # NoKey /\ k \notin Members /\ Set!HasRoom
    BY <1>2, RoomIsAFreeSlot, MemberIsHeld
  <2>4. \A i \in Slots : macs'[i] = IF i = p THEN m ELSE macs[i]
    BY <2>1
  <2>5. Members' = Members \cup {k}
    BY <2>2, <2>3, <2>4 DEF Members, NoKey
  <2> QED
    BY <2>1, <2>3, <2>5 DEF Set!Add, Set!Answer
<1> QED
  BY <1>1, <1>2

\* An order to delete is one of the set, refused or not: a duplicate that stayed
\* behind would keep the key a member.
LEMMA DelRefines ==
  ASSUME macs \in [Slots -> MacMenu \cup {DefaultMac}], SlotsDistinct,
         NEW m \in MacMenu, MacDel(m)
  PROVE  Set!Remove(Key(m))
<1> DEFINE k == Key(m)
<1>1. CASE Holding(k) = {}
  <2>1. MacReply' = [order |-> "del", key |-> k, code |-> "fail"] /\ UNCHANGED macs
    BY <1>1, MacAnswered DEF MacDel
  <2>2. UNCHANGED Members
    BY <2>1 DEF Members
  <2>3. ~(k \in Members \/ (k = NoKey /\ Set!HasRoom))
    BY <1>1, RoomIsAFreeSlot, MemberIsHeld
  <2> QED
    BY <2>1, <2>2, <2>3 DEF Set!Remove, Set!Answer
<1>2. CASE Holding(k) # {}
  <2> DEFINE p == First(Holding(k))
  <2>1. /\ MacReply' = [order |-> "del", key |-> k, code |-> "ok"]
        /\ macs' = [macs EXCEPT ![p] = DefaultMac]
    BY <1>2, MacAnswered DEF MacDel
  <2>2. p \in Slots /\ Key(macs[p]) = k
    BY <1>2, FirstHolds
  <2> HIDE DEF p
  <2>3. k \in Members \/ (k = NoKey /\ Set!HasRoom)
    BY <1>2, RoomIsAFreeSlot, MemberIsHeld
  <2>4. \A i \in Slots : macs'[i] = IF i = p THEN DefaultMac ELSE macs[i]
    BY <2>1
  <2>5. \A i \in Slots : Key(macs'[i]) = IF i = p THEN NoKey ELSE Key(macs[i])
    BY <2>4 DEF NoKey
  <2>6. \A i \in Slots : i # p => Key(macs[i]) # k \/ k = NoKey
    BY <2>2 DEF SlotsDistinct
  <2>7. Members' = {Key(macs'[i]) : i \in Slots} \ {NoKey}
    BY DEF Members, NoKey
  <2>8. Members' = Members \ {k}
    BY <2>2, <2>5, <2>6, <2>7 DEF Members
  <2> QED
    BY <2>1, <2>3, <2>8 DEF Set!Remove, Set!Answer
<1> QED
  BY <1>1, <1>2

\* Any other request leaves the table alone and answers nothing about a MAC.
LEMMA OtherRefines ==
  ASSUME UNCHANGED macs,
         \/ reply'.op # "ASV_USR_MAC_CFG"
         \/ \E code : MacAnswer("none", NoKey, code)
  PROVE  Set!Other
<1>1. UNCHANGED Members
  BY DEF Members
<1>2. MacReply'.order = "none"
  BY MacAnswered DEF MacReply, NoAnswer
<1> QED
  BY <1>1, <1>2 DEF Set!Other

LEMMA NextRefines == IInv /\ [Next]_vars => [Set!Next]_(Set!vars)
<1> SUFFICES ASSUME IInv, [Next]_vars PROVE [Set!Next]_(Set!vars)
  OBVIOUS
<1>1. macs \in [Slots -> MacMenu \cup {DefaultMac}] /\ SlotsDistinct
  BY DEF IInv, TypeOK
<1>2. CASE MacCfg
  <2>1. ASSUME NEW m \in MacMenu, MacAdd(m) PROVE Set!Next
    BY <1>1, <2>1, AddRefines DEF Set!Next
  <2>2. ASSUME NEW m \in MacMenu, MacDel(m) PROVE Set!Next
    BY <1>1, <2>2, DelRefines DEF Set!Next
  <2>3. CASE MacOther \/ MacRefused
    BY <2>3, OtherRefines DEF MacOther, MacRefused, Set!Next
  <2> QED
    BY <1>2, <2>1, <2>2, <2>3 DEF MacCfg
<1>3. CASE UNCHANGED macs /\ reply'.op # "ASV_USR_MAC_CFG"
  BY <1>3, OtherRefines DEF Set!Next
<1>4. ASSUME NEW r \in VlanMenu, VlanCfg(r)
      PROVE  [Set!Next]_(Set!vars)
  <2>1. UNCHANGED macs /\ reply'.op # "ASV_USR_MAC_CFG"
    BY <1>4 DEF VlanCfg, Reply
  <2> QED
    BY <1>3, <2>1
<1>5. ASSUME NEW code \in {"authen", "fail"}, VlanCfgRefused(code)
      PROVE  [Set!Next]_(Set!vars)
  <2>1. UNCHANGED macs /\ reply'.op # "ASV_USR_MAC_CFG"
    BY <1>5 DEF VlanCfgRefused, Reply
  <2> QED
    BY <1>3, <2>1
<1>6. ASSUME NEW r \in AsvMenu, AsvCfg(r)
      PROVE  [Set!Next]_(Set!vars)
  <2>1. UNCHANGED macs /\ reply'.op # "ASV_USR_MAC_CFG"
    BY <1>6 DEF AsvCfg, Reply
  <2> QED
    BY <1>3, <2>1
<1>7. CASE VlanGet \/ AsvCfgRefused \/ AsvGet
  BY <1>3, <1>7 DEF VlanGet, AsvCfgRefused, AsvGet, Reply
<1>8. CASE MacGet \/ PortNumberGet
  BY <1>3, <1>8 DEF MacGet, PortNumberGet, Reply
<1>9. CASE UNCHANGED vars
  <2>1. UNCHANGED <<Members, MacReply>>
    BY <1>9 DEF vars, Members, MacReply
  <2> QED
    BY <2>1 DEF Set!vars
<1> QED
  BY <1>2, <1>4, <1>5, <1>6, <1>7, <1>8, <1>9 DEF Next

LEMMA InitRefines == Init => Set!Init
<1> SUFFICES ASSUME Init PROVE Set!Init
  OBVIOUS
<1>1. Members = {}
  BY DEF Init, Members, NoKey
<1>2. MacReply = NoAnswer
  BY DEF Init, MacReply
<1> QED
  BY <1>1, <1>2 DEF Set!Init, NoAnswer

\* The table of user-defined MAC addresses is the set MacSet, for any size of it
\* and any addresses: an answer "ok" to an order to add or to delete means that
\* the set has changed as asked, another that it has not
\* (ddp_platform_set_if_asv_usr_def_mac).
THEOREM TableIsASet == Spec => ImplementsMacSet
<1>1. Spec => Set!Spec
  BY InitInv, NextInv, InitRefines, NextRefines, PTL DEF Spec, Set!Spec
<1> QED
  BY <1>1 DEF ImplementsMacSet

-----------------------------------------------------------------------------
(* What is read is what was set.                                           *)

\* The VLAN that is staged is the one in the slot of its id, under the name that
\* was given last; a VLAN whose last request succeeded has what that asked for.
VlansKept ==
  /\ vlans[staged.id] = staged
  /\ staged.name = named
  /\ \A v \in VlanIds :
       LET r == asked[v] IN
       r # Unasked =>
         /\ vlans[v].id = v
         /\ vlans[v].tagType = r.tagType /\ vlans[v].tags = r.tags
         /\ vlans[v].untagType = r.untagType /\ vlans[v].untags = r.untags
         /\ r.name # 0 => vlans[v].name = r.name

\* The ASV has what its last request asked for, of two numbers the first byte.
AsvKept ==
  asvAsked # Unasked =>
    /\ asv.id = FirstByte(asvAsked.id) /\ asv.priority = FirstByte(asvAsked.priority)
    /\ asv.state = asvAsked.state
    /\ asv.tagType = asvAsked.tagType /\ asv.tags = asvAsked.tags

\* The bit of a VLAN is in the byte of its list exactly when the VLAN exists and
\* its id is no multiple of 8: the bits of one byte are distinct.
LEMMA ListTellsState ==
  ASSUME TypeOK, NEW v \in VlanIds
  PROVE  Mask(v) \in VlanList[v \div 8] <=> (VlanState(v) = 1 /\ v % 8 # 0)
<1> DEFINE Byte(b) == {w \in VlanIds : w \div 8 = b /\ vlans[w].id # 0}
<1>1. \A w \in VlanIds : w \in Nat /\ w = 8 * (w \div 8) + (w % 8) /\ w % 8 \in 0..7
  BY SwitchAssumption
<1>2. \A i, j \in 1..8 : Shifted[i] = Shifted[j] => i = j
  BY DEF Shifted
<1>3. \A i \in 1..8 : Shifted[i] < 256 <=> i # 8
  BY DEF Shifted
<1>4. \A w \in VlanIds : 8 - (w % 8) \in 1..8
  BY <1>1
<1>5. \A w \in VlanIds : Mask(w) < 256 <=> w % 8 # 0
  <2> SUFFICES ASSUME NEW w \in VlanIds PROVE Mask(w) < 256 <=> w % 8 # 0
    OBVIOUS
  <2> DEFINE k == w % 8
  <2>1. k \in 0..7
    BY <1>1
  <2> HIDE DEF k
  <2>2. 8 - k \in 1..8 /\ (8 - k = 8 <=> k = 0)
    BY <2>1
  <2>3. Mask(w) = Shifted[8 - k]
    BY DEF Mask, k
  <2>4. Mask(w) < 256 <=> k # 0
    BY <1>3, <2>2, <2>3
  <2> QED
    BY <2>4 DEF k
<1>6. ASSUME NEW w \in VlanIds, w \div 8 = v \div 8, Mask(w) = Mask(v) PROVE w = v
  <2>1. 8 - (w % 8) = 8 - (v % 8)
    BY <1>2, <1>4, <1>6 DEF Mask
  <2> QED
    BY <1>1, <1>6, <2>1
<1>7. VlanList[v \div 8] = {m \in {Mask(w) : w \in Byte(v \div 8)} : m < 256}
  BY DEF VlanList
<1>8. VlanState(v) = 1 <=> vlans[v].id # 0
  <2>1. vlans[v].id \in Nat
    BY DEF TypeOK, Vlan
  <2> QED
    BY <2>1 DEF VlanState
<1>9. Mask(v) \in {Mask(w) : w \in Byte(v \div 8)} <=> v \in Byte(v \div 8)
  BY <1>6
<1> QED
  BY <1>5, <1>7, <1>8, <1>9

\* Name and id are never refused: what is staged of a request has its id, and
\* its name, if it gives one.
LEMMA VlanStep ==
  ASSUME Refused \cap {"name", "id"} = {}, TypeOK, VlansKept,
         NEW r \in VlanMenu, VlanCfg(r)
  PROVE  VlansKept'
<1>1. PICK n \in 0..Len(VlanFields) :
        /\ StopsAfter(VlanFields, n)
        /\ staged' = Stage(r, n) /\ Commit(Stage(r, n))
        /\ asked' = [asked EXCEPT ![r.id] = IF n = Len(VlanFields) THEN r ELSE Unasked]
        /\ named' = IF n > 0 /\ r.name # 0 THEN r.name ELSE named
  BY DEF VlanCfg
<1>2. VlanFields = <<"name", "id", "tagType", "tags", "untagType", "untags">>
  BY FieldOrder
<1>3. n \in 2..6
  <2>1. n \in 0..6
    BY <1>2
  <2>2. n # 0 /\ n # 1
    BY <1>1, <1>2 DEF StopsAfter
  <2> QED
    BY <2>1, <2>2
<1>4. Applied(VlanFields, n) \subseteq DOMAIN staged /\ {"name", "id"} \subseteq Applied(VlanFields, n)
  <2>1. DOMAIN staged = {"name", "id", "tagType", "tags", "untagType", "untags"}
    BY DEF TypeOK, Vlan
  <2>2. 1 \in 1..n /\ 2 \in 1..n
    BY <1>3
  <2> QED
    BY <1>2, <1>3, <2>1, <2>2 DEF Applied
<1>5. DOMAIN staged = {"name", "id", "tagType", "tags", "untagType", "untags"}
  BY DEF TypeOK, Vlan
<1>6. r.id \in VlanIds /\ r \in Vlan
  BY SwitchAssumption
<1>7. staged'.id = r.id /\ staged'.name = IF r.name = 0 THEN staged.name ELSE r.name
  BY <1>1, <1>4, <1>5 DEF Stage
<1>8. vlans' = [vlans EXCEPT ![r.id] = staged']
  BY <1>1, <1>7 DEF Commit
<1>9. vlans'[r.id] = staged' /\ \A v \in VlanIds \ {r.id} : vlans'[v] = vlans[v]
  BY <1>6, <1>8 DEF TypeOK
<1>10. staged'.name = named'
  BY <1>1, <1>3, <1>7 DEF VlansKept
<1>11. asked'[r.id] = (IF n = 6 THEN r ELSE Unasked) /\ \A v \in VlanIds \ {r.id} : asked'[v] = asked[v]
  BY <1>1, <1>2, <1>6 DEF TypeOK
<1>12. n = 6 => \A f \in {"tagType", "tags", "untagType", "untags"} : staged'[f] = r[f]
  <2> SUFFICES ASSUME n = 6, NEW f \in {"tagType", "tags", "untagType", "untags"}
               PROVE  staged'[f] = r[f]
    OBVIOUS
  <2>1. f \in Applied(VlanFields, n)
    BY <1>2 DEF Applied
  <2> QED
    BY <1>1, <1>5, <2>1 DEF Stage
<1>13. ASSUME NEW v \in VlanIds, asked'[v] # Unasked
       PROVE  /\ vlans'[v].id = v
              /\ vlans'[v].tagType = asked'[v].tagType /\ vlans'[v].tags = asked'[v].tags
              /\ vlans'[v].untagType = asked'[v].untagType /\ vlans'[v].untags = asked'[v].untags
              /\ asked'[v].name # 0 => vlans'[v].name = asked'[v].name
  <2>1. CASE v = r.id
    <3>1. n = 6 /\ asked'[v] = r /\ vlans'[v] = staged'
      BY <1>9, <1>11, <1>13, <2>1
    <3> QED
      BY <1>7, <1>12, <2>1, <3>1
  <2>2. CASE v # r.id
    BY <1>9, <1>11, <1>13, <2>2 DEF VlansKept
  <2> QED
    BY <2>1, <2>2
<1> QED
  BY <1>7, <1>9, <1>10, <1>13 DEF VlansKept

\* A request for the ASV that succeeds sets all five settings.
LEMMA AsvStep ==
  ASSUME TypeOK, NEW r \in AsvMenu, AsvCfg(r)
  PROVE  AsvKept'
<1>1. PICK n \in 0..Len(AsvFields) :
        /\ asv' = AsvStage(r, n)
        /\ asvAsked' = IF n = Len(AsvFields) THEN r ELSE Unasked
  BY DEF AsvCfg
<1>2. AsvFields = <<"id", "priority", "state", "tagType", "tags">>
  BY FieldOrder
<1> SUFFICES ASSUME n = 5
             PROVE  /\ asv'.id = FirstByte(r.id) /\ asv'.priority = FirstByte(r.priority)
                    /\ asv'.state = r.state /\ asv'.tagType = r.tagType /\ asv'.tags = r.tags
  BY <1>1, <1>2 DEF AsvKept
<1>3. DOMAIN asv = {"id", "priority", "state", "tagType", "tags"}
  BY DEF TypeOK, Asv
<1>4. \A f \in DOMAIN asv : f \in Applied(AsvFields, n)
  BY <1>2, <1>3 DEF Applied
<1>5. \A f \in DOMAIN asv : asv'[f] = AsvValue(r, f)
  BY <1>1, <1>4 DEF AsvStage
<1> QED
  BY <1>3, <1>5 DEF AsvValue

\* Both, and the types they rest on, are kept by every step.
LEMMA KeptStep ==
  ASSUME Refused \cap {"name", "id"} = {}
  PROVE  IInv /\ VlansKept /\ AsvKept /\ [Next]_vars => VlansKept' /\ AsvKept'
<1> SUFFICES ASSUME TypeOK, VlansKept, AsvKept, [Next]_vars PROVE VlansKept' /\ AsvKept'
  BY DEF IInv
<1>1. ASSUME UNCHANGED <<staged, vlans, asked, named>> PROVE VlansKept'
  BY <1>1 DEF VlansKept
<1>2. ASSUME UNCHANGED <<asv, asvAsked>> PROVE AsvKept'
  BY <1>2 DEF AsvKept
<1>3. ASSUME NEW r \in VlanMenu, VlanCfg(r) PROVE VlansKept' /\ AsvKept'
  BY <1>2, <1>3, VlanStep DEF VlanCfg
<1>4. ASSUME NEW r \in AsvMenu, AsvCfg(r) PROVE VlansKept' /\ AsvKept'
  BY <1>1, <1>4, AsvStep DEF AsvCfg
<1>5. ASSUME NEW code \in {"authen", "fail"}, VlanCfgRefused(code) PROVE VlansKept' /\ AsvKept'
  BY <1>1, <1>2, <1>5 DEF VlanCfgRefused
<1>6. CASE VlanGet \/ AsvCfgRefused \/ AsvGet
  BY <1>1, <1>2, <1>6 DEF VlanGet, AsvCfgRefused, AsvGet
<1>7. CASE MacCfg \/ MacGet \/ PortNumberGet
  BY <1>1, <1>2, <1>7 DEF MacCfg, MacGet, PortNumberGet
<1>8. CASE UNCHANGED vars
  BY <1>1, <1>2, <1>8 DEF vars
<1> QED
  BY <1>3, <1>4, <1>5, <1>6, <1>7, <1>8 DEF Next

\* What the properties say follows from what is kept.
LEMMA KeptReadsBack == TypeOK /\ VlansKept /\ AsvKept => SettingsReadBack
<1> SUFFICES ASSUME TypeOK, VlansKept, AsvKept PROVE SettingsReadBack
  OBVIOUS
<1>1. ASSUME NEW v \in VlanIds, asked[v] # Unasked
      PROVE  LET r == asked[v] IN
             /\ VlanInfo(v).state = 1
             /\ VlanInfo(v).tag = <<r.tagType, r.tags>>
             /\ VlanInfo(v).untag = <<r.untagType, r.untags>>
             /\ r.name # 0 => VlanInfo(v).name = r.name
             /\ (staged.id = v /\ r.name = 0) => VlanInfo(v).name = named
  <2>1. VlanInfo(v).state = 1
    BY <1>1, SwitchAssumption DEF VlanInfo, VlanState, VlansKept
  <2>2. staged.id = v => VlanInfo(v).name = named
    BY <1>1 DEF VlanInfo, VlansKept
  <2> QED
    BY <1>1, <2>1, <2>2 DEF VlanInfo, TagInfo, UntagInfo, VlansKept
<1>2. ASSUME asvAsked # Unasked
      PROVE  /\ asv.state = asvAsked.state /\ AsvTags = <<asvAsked.tagType, asvAsked.tags>>
             /\ AsvNumbers[1][1] = asvAsked.id[1] /\ AsvNumbers[2][1] = asvAsked.priority[1]
  BY <1>2 DEF AsvKept, AsvTags, AsvNumbers, FirstByte
<1> QED
  BY <1>1, <1>2, ListTellsState DEF SettingsReadBack

\* For any VLANs and settings that clients send, in any order and with any
\* refusal of tags: what was acknowledged is what the getters tell, and the list
\* shows the VLANs there are (i4fnDDP_proto_switch_vlan_get,
\* i4fnDDP_proto_switch_asv_get).  Name and id must not be refused, as on this
\* platform: a refusal of them would leave the staged VLAN in another slot.
THEOREM ReadsBack ==
  ASSUME Refused \cap {"name", "id"} = {}
  PROVE  Spec => []SettingsReadBack
<1>1. Init => VlansKept /\ AsvKept
  <2> SUFFICES ASSUME Init PROVE VlansKept /\ AsvKept
    OBVIOUS
  <2>1. DefaultVlan.id = 1 /\ vlans[1] = DefaultVlan
    BY SwitchAssumption DEF Init, DefaultVlan, NoVlan
  <2> QED
    BY <2>1 DEF Init, VlansKept, AsvKept
<1>2. IInv /\ VlansKept /\ AsvKept => SettingsReadBack
  BY KeptReadsBack DEF IInv
<1> QED
  BY <1>1, <1>2, InitInv, NextInv, KeptStep, PTL DEF Spec

-----------------------------------------------------------------------------
(* The table of neighbours, for any neighbours, ports and interfaces.      *)

\* A general report ages every record at least once.
LEMMA PassesPositive == Passes \in Nat \ {0}
  BY TableAssumption, FS_EmptySet, FS_CardinalityType DEF Passes

\* The neighbours of a port are finitely many, so that they can be counted.
LEMMA OnFinite == \A p : IsFiniteSet(On(p)) /\ Cardinality(On(p)) \in Nat
<1>1. \A p : On(p) \subseteq Macs  BY DEF On
<1> QED  BY <1>1, TableAssumption, FS_Subset, FS_CardinalityType

\* Learning stores a port of the switch, ageing subtracts no more than there is.
LEMMA TypeStep == TableTypeOK /\ [TableNext]_tableVars => TableTypeOK'
<1> SUFFICES ASSUME TableTypeOK, [TableNext]_tableVars PROVE TableTypeOK'  OBVIOUS
<1> USE DEF TableTypeOK
<1>1. ASSUME NEW m \in Macs, NEW p \in IfIndexes \cap Ports, Learn(m, p)
      PROVE TableTypeOK'
  BY <1>1, TableAssumption DEF Learn, Record, Ports
<1>2. ASSUME Age PROVE TableTypeOK'
  <2> SUFFICES ASSUME NEW m \in Macs PROVE known'[m] \in Record \cup {Nobody}
    BY <1>2 DEF Age
  <2>1. CASE known[m] = Nobody \/ known[m].ttl < Passes  BY <1>2, <2>1 DEF Age
  <2>2. CASE known[m] # Nobody /\ ~ (known[m].ttl < Passes)
    <3>1. known'[m] = [known[m] EXCEPT !.ttl = @ - Passes]  BY <1>2, <2>2 DEF Age
    <3>2. known[m] \in Record  BY <2>2
    <3>3. known[m].ttl - Passes \in 0..UpdateTTL
      BY <2>2, <3>2, PassesPositive, TableAssumption DEF Record
    <3> QED  BY <3>1, <3>2, <3>3 DEF Record
  <2> QED  BY <2>1, <2>2
<1>3. ASSUME NEW i \in IfIndexes, Answer(i) PROVE TableTypeOK'
  BY <1>3, OnFinite DEF Answer
<1>4. CASE UNCHANGED tableVars  BY <1>4 DEF tableVars
<1> QED  BY <1>1, <1>2, <1>3, <1>4 DEF TableNext

\* The table holds records of real ports with times to live in range; ageing
\* subtracts a pass count from times to live that are at least as large.
THEOREM NeighbTypeCorrect == TableSpec => []TableTypeOK
<1>1. TableInit => TableTypeOK  BY DEF TableInit, TableTypeOK
<1> QED  BY <1>1, TypeStep, PTL DEF TableSpec

\* What the test before an append leaves of the limit of a port: "max %d devices"
\* (ddp_proto_switch.c:930-931) is passed by one.
OneOverAtMost == \A p \in Ports : Cardinality(On(p)) <= MaxEntry + 1

\* A report adds at most the reporting neighbour to a port, and only when no
\* more than MaxEntry others are there.
LEMMA LearnBound ==
  ASSUME TableTypeOK, OneOverAtMost, NEW m \in Macs, NEW p \in Ports, Learn(m, p)
  PROVE  OneOverAtMost'
<1> SUFFICES ASSUME NEW q \in Ports PROVE Cardinality(On(q)') <= MaxEntry + 1
  BY DEF OneOverAtMost
<1>1. \A k \in Macs \ {m} : known'[k] = known[k]  BY DEF Learn, TableTypeOK
<1>2. IsFiniteSet(On(q) \ {m})  BY OnFinite, FS_Subset
<1>3. Cardinality(On(q) \ {m}) \in Nat /\ Cardinality(On(q)) \in Nat
  BY OnFinite, <1>2, FS_CardinalityType
<1>4. CASE m \in On(q)'
  <2>1. known'[m] # Nobody /\ known'[m].port = q  BY <1>4 DEF On
  <2>2. p = q /\ ~ (Cardinality(On(q) \ {m}) > MaxEntry)
    BY <2>1 DEF Learn, TableTypeOK
  <2>3. On(q)' = (On(q) \ {m}) \cup {m}  BY <1>1, <1>4 DEF On
  <2>4. Cardinality(On(q)') = Cardinality(On(q) \ {m}) + 1
    BY <2>3, <1>2, FS_AddElement
  <2> QED  BY <2>2, <2>4, <1>3, TableAssumption
<1>5. CASE m \notin On(q)'
  <2>1. On(q)' \subseteq On(q)  BY <1>1, <1>5 DEF On
  <2>2. Cardinality(On(q)') <= Cardinality(On(q)) /\ Cardinality(On(q)') \in Nat
    BY <2>1, OnFinite, FS_Subset, FS_CardinalityType
  <2>3. Cardinality(On(q)) <= MaxEntry + 1  BY DEF OneOverAtMost
  <2> QED  BY <2>2, <2>3, <1>3, TableAssumption
<1> QED  BY <1>4, <1>5

\* Ageing only takes neighbours away.
LEMMA AgeBound == ASSUME TableTypeOK, OneOverAtMost, Age PROVE OneOverAtMost'
<1> SUFFICES ASSUME NEW q \in Ports PROVE Cardinality(On(q)') <= MaxEntry + 1
  BY DEF OneOverAtMost
<1>1. ASSUME NEW k \in On(q)' PROVE k \in On(q)
  <2>1. k \in Macs /\ known'[k] # Nobody /\ known'[k].port = q  BY <1>1 DEF On
  <2>2. known[k] # Nobody /\ known'[k] = [known[k] EXCEPT !.ttl = @ - Passes]
    BY <2>1 DEF Age
  <2>3. known[k] \in Record  BY <2>1, <2>2 DEF TableTypeOK
  <2>4. known'[k].port = known[k].port  BY <2>2, <2>3 DEF Record
  <2> QED  BY <2>1, <2>2, <2>4 DEF On
<1>2. Cardinality(On(q)') <= Cardinality(On(q)) /\ Cardinality(On(q)') \in Nat
  BY <1>1, OnFinite, FS_Subset, FS_CardinalityType
<1>3. Cardinality(On(q)) <= MaxEntry + 1 /\ Cardinality(On(q)) \in Nat
  BY OnFinite DEF OneOverAtMost
<1> QED  BY <1>2, <1>3, TableAssumption

\* No port ever holds more than MaxEntry + 1 neighbours, however many there are
\* and however they move.
THEOREM Bounded == TableSpec => []OneOverAtMost
<1>1. TableInit => OneOverAtMost
  <2> SUFFICES ASSUME TableInit, NEW p \in Ports
               PROVE Cardinality(On(p)) <= MaxEntry + 1
    BY DEF OneOverAtMost
  <2>1. On(p) = {}  BY DEF TableInit, On
  <2> QED  BY <2>1, FS_EmptySet, TableAssumption
<1>2. TableTypeOK /\ OneOverAtMost /\ [TableNext]_tableVars => OneOverAtMost'
  <2> SUFFICES ASSUME TableTypeOK, OneOverAtMost, [TableNext]_tableVars
               PROVE OneOverAtMost'
    OBVIOUS
  <2>1. ASSUME known' = known PROVE OneOverAtMost'  BY <2>1 DEF OneOverAtMost, On
  <2> QED  BY <2>1, LearnBound, AgeBound DEF TableNext, Answer, tableVars
<1>3. TableSpec => []TableTypeOK  BY NeighbTypeCorrect
<1> QED  BY <1>1, <1>2, <1>3, PTL DEF TableSpec


-----------------------------------------------------------------------------
(* How long a record lasts, for any interfaces and time to live.           *)

HeardTypeOK ==
  /\ heard \in [Macs -> [port : Nat, reports : 0..Never]]
  /\ \A m \in Macs : heard[m].reports # Never => heard[m].port \in Ports

LifeInv == TableTypeOK /\ HeardTypeOK /\ Lifespan

\* One report more is one sending more on every interface; more reports than
\* UpdateTTL are more sendings than UpdateTTL.
LEMMA MorePasses ==
  ASSUME NEW r \in Nat
  PROVE  /\ r * Passes \in Nat /\ (r + 1) * Passes = r * Passes + Passes
         /\ r > UpdateTTL => r * Passes > UpdateTTL
         /\ r = 0 => r * Passes = 0
<1> DEFINE P == Passes
<1>1. P \in Nat /\ P >= 1  BY PassesPositive
<1> HIDE DEF P
<1>2. r * P \in Nat /\ (r + 1) * P = r * P + P /\ (r = 0 => r * P = 0)  BY <1>1
<1>3. r * P >= r
  <2>1. PICK q \in Nat : P = q + 1  BY <1>1
  <2>2. r * P = r * q + r /\ r * q \in Nat  BY <2>1
  <2> QED  BY <2>2
<1>4. UpdateTTL \in Nat  BY TableAssumption
<1> QED  BY <1>2, <1>3, <1>4 DEF P

\* A recorded report starts the life of a record anew, one that was not recorded
\* ends it.
LEMMA LifeLearnStep ==
  ASSUME LifeInv, NEW m \in Macs, NEW p \in IfIndexes \cap Ports, LifeLearn(m, p)
  PROVE  HeardTypeOK' /\ Lifespan'
<1> USE DEF LifeInv
<1>1. UpdateTTL \in Nat /\ Never \in Nat /\ Never > UpdateTTL /\ p \in Nat
  BY TableAssumption DEF Never
<1>2. HeardTypeOK'
  <2>1. heard' = [heard EXCEPT ![m] = [port |-> p, reports |-> IF known'[m] = Nobody THEN Never ELSE 0]]
    BY DEF LifeLearn
  <2>2. \A k \in Macs \ {m} : heard'[k] = heard[k]  BY <2>1 DEF HeardTypeOK
  <2>3. heard'[m] = [port |-> p, reports |-> IF known'[m] = Nobody THEN Never ELSE 0]
    BY <2>1 DEF HeardTypeOK
  <2>4. heard' \in [Macs -> [port : Nat, reports : 0..Never]]
    BY <1>1, <2>1 DEF HeardTypeOK
  <2> QED  BY <2>2, <2>3, <2>4 DEF HeardTypeOK, Ports
<1>3. ASSUME NEW k \in Macs
      PROVE known'[k] = IF heard'[k].reports * Passes > UpdateTTL THEN Nobody
                        ELSE [port |-> heard'[k].port, ttl |-> UpdateTTL - heard'[k].reports * Passes]
  <2>1. CASE k # m
    <3>1. known'[k] = known[k] /\ heard'[k] = heard[k]
      BY <2>1 DEF LifeLearn, Learn, TableTypeOK, HeardTypeOK
    <3> QED  BY <3>1 DEF Lifespan
  <2>2. CASE k = m
    <3>1. known'[m] = Nobody \/ known'[m] = [port |-> p, ttl |-> UpdateTTL]
      BY DEF LifeLearn, Learn, TableTypeOK
    <3>2. heard'[m] = [port |-> p, reports |-> IF known'[m] = Nobody THEN Never ELSE 0]
      BY DEF LifeLearn, HeardTypeOK
    <3>3. [port |-> p, ttl |-> UpdateTTL] # Nobody
      BY <1>1, TableAssumption DEF Ports
    <3>4. Never * Passes > UpdateTTL /\ 0 * Passes = 0 /\ ~ (0 > UpdateTTL)
      BY <1>1, MorePasses
    <3>5. CASE known'[m] = Nobody
      <4>1. heard'[m].reports = Never  BY <3>2, <3>5
      <4> QED  BY <2>2, <3>4, <3>5, <4>1
    <3>6. CASE known'[m] = [port |-> p, ttl |-> UpdateTTL]
      <4>1. heard'[m].reports = 0 /\ heard'[m].port = p  BY <3>2, <3>3, <3>6
      <4>2. UpdateTTL - 0 = UpdateTTL  BY <1>1
      <4> QED  BY <2>2, <3>4, <3>6, <4>1, <4>2
    <3> QED  BY <3>1, <3>5, <3>6
  <2> QED  BY <2>1, <2>2
<1>4. Lifespan'  BY <1>3 DEF Lifespan
<1> QED  BY <1>2, <1>4

\* A report of the switch takes from every time to live what the count of reports
\* gains, on all interfaces.
LEMMA LifeAgeStep == ASSUME LifeInv, LifeAge PROVE HeardTypeOK' /\ Lifespan'
<1> USE DEF LifeInv
<1>1. UpdateTTL \in Nat /\ Never = UpdateTTL + 1  BY TableAssumption DEF Never
<1>2. ASSUME NEW k \in Macs
      PROVE /\ heard[k].port \in Nat /\ heard[k].reports \in 0..Never
            /\ heard'[k] \in [port : Nat, reports : 0..Never]
            /\ heard'[k].port = heard[k].port
            /\ heard[k].reports = Never => heard'[k].reports = Never
            /\ heard[k].reports # Never => heard'[k].reports = heard[k].reports + 1
  <2>1. heard[k] \in [port : Nat, reports : 0..Never]  BY DEF HeardTypeOK
  <2>2. heard'[k] = [heard[k] EXCEPT !.reports = IF @ = Never THEN @ ELSE @ + 1]
    BY DEF LifeAge
  <2>3. heard[k].port \in Nat /\ heard[k].reports \in 0..Never  BY <2>1
  <2>4. CASE heard[k].reports = Never
    <3>1. heard'[k] = [heard[k] EXCEPT !.reports = Never]  BY <2>2, <2>4
    <3> QED  BY <1>1, <2>1, <2>3, <2>4, <3>1
  <2>5. CASE heard[k].reports # Never
    <3>1. heard'[k] = [heard[k] EXCEPT !.reports = heard[k].reports + 1]  BY <2>2, <2>5
    <3>2. heard[k].reports + 1 \in 0..Never  BY <1>1, <2>3, <2>5
    <3> QED  BY <2>1, <2>3, <2>5, <3>1, <3>2
  <2> QED  BY <2>4, <2>5
<1>3. HeardTypeOK'
  <2>1. heard' = [m \in Macs |-> heard'[m]]  BY DEF LifeAge
  <2>2. \A k \in Macs : heard'[k] \in [port : Nat, reports : 0..Never]  BY <1>1, <1>2
  <2>3. \A k \in Macs : heard'[k].reports # Never => heard'[k].port \in Ports
    BY <1>2 DEF HeardTypeOK
  <2> QED  BY <2>1, <2>2, <2>3 DEF HeardTypeOK, Ports
<1>4. ASSUME NEW k \in Macs
      PROVE known'[k] = IF heard'[k].reports * Passes > UpdateTTL THEN Nobody
                        ELSE [port |-> heard'[k].port, ttl |-> UpdateTTL - heard'[k].reports * Passes]
  <2> DEFINE r == heard[k].reports
             rP == r * Passes
  <2>1. r \in Nat /\ r <= Never /\ Passes \in Nat /\ Passes >= 1
    BY <1>1, <1>2, PassesPositive
  <2>2. rP \in Nat /\ (r + 1) * Passes = rP + Passes /\ (r > UpdateTTL => rP > UpdateTTL)
    BY <2>1, MorePasses
  <2>3. known[k] = IF rP > UpdateTTL THEN Nobody
                   ELSE [port |-> heard[k].port, ttl |-> UpdateTTL - rP]
    BY DEF Lifespan
  <2>4. known'[k] = IF known[k] = Nobody \/ known[k].ttl < Passes THEN Nobody
                    ELSE [known[k] EXCEPT !.ttl = @ - Passes]
    BY DEF LifeAge, Age
  <2>5. heard'[k].port = heard[k].port
        /\ heard'[k].reports = IF r = Never THEN Never ELSE r + 1
    BY <1>2
  <2> HIDE DEF rP
  <2>6. CASE rP > UpdateTTL
    <3>1. known'[k] = Nobody  BY <2>3, <2>4, <2>6
    <3>2. heard'[k].reports * Passes > UpdateTTL
      <4>1. CASE r = Never
        <5>1. heard'[k].reports = r  BY <2>5, <4>1
        <5> QED  BY <2>6, <5>1 DEF rP
      <4>2. CASE r # Never
        <5>1. heard'[k].reports * Passes = rP + Passes  BY <2>2, <2>5, <4>2
        <5> QED  BY <1>1, <2>1, <2>2, <2>6, <5>1
      <4> QED  BY <4>1, <4>2
    <3> QED  BY <3>1, <3>2
  <2>7. CASE ~ (rP > UpdateTTL)
    <3>1. r # Never  BY <1>1, <2>1, <2>2, <2>7
    <3>2. heard'[k].reports * Passes = rP + Passes  BY <2>2, <2>5, <3>1
    <3>3. known[k] = [port |-> heard[k].port, ttl |-> UpdateTTL - rP]  BY <2>3, <2>7
    <3>4. known[k] # Nobody
      <4>1. heard[k].port \in Ports  BY <3>1 DEF HeardTypeOK
      <4>2. UpdateTTL - rP \in 0..UpdateTTL  BY <1>1, <2>2, <2>7
      <4> QED  BY <3>3, <4>1, <4>2, TableAssumption DEF Ports
    <3>5. CASE UpdateTTL - rP < Passes
      <4>1. known'[k] = Nobody  BY <2>4, <3>3, <3>5
      <4>2. rP + Passes > UpdateTTL  BY <1>1, <2>1, <2>2, <3>5
      <4> QED  BY <3>2, <4>1, <4>2
    <3>6. CASE ~ (UpdateTTL - rP < Passes)
      <4>1. known'[k] = [port |-> heard[k].port, ttl |-> (UpdateTTL - rP) - Passes]
        BY <2>4, <3>3, <3>4, <3>6
      <4>2. ~ (rP + Passes > UpdateTTL) /\ (UpdateTTL - rP) - Passes = UpdateTTL - (rP + Passes)
        BY <1>1, <2>1, <2>2, <3>6
      <4> QED  BY <2>5, <3>2, <4>1, <4>2
    <3> QED  BY <3>5, <3>6
  <2> QED  BY <2>6, <2>7
<1>5. Lifespan'  BY <1>4 DEF Lifespan
<1> QED  BY <1>3, <1>5

\* A neighbour is listed on the port of its last recorded report, for as many
\* reports of the switch as UpdateTTL has sendings on all its interfaces, and not
\* for one more, for any number of interfaces and neighbours.
THEOREM RecordsLast == LifeSpec => []Lifespan
<1>1. LifeInit => LifeInv
  <2> SUFFICES ASSUME LifeInit PROVE LifeInv  OBVIOUS
  <2>1. UpdateTTL \in Nat /\ Never \in Nat /\ Never > UpdateTTL
    BY TableAssumption DEF Never
  <2>2. Never * Passes > UpdateTTL  BY <2>1, MorePasses
  <2>3. TableTypeOK  BY DEF LifeInit, TableInit, TableTypeOK
  <2>4. HeardTypeOK  BY <2>1 DEF LifeInit, HeardTypeOK
  <2>5. Lifespan  BY <2>2 DEF LifeInit, TableInit, Lifespan
  <2> QED  BY <2>3, <2>4, <2>5 DEF LifeInv
<1>2. LifeInv /\ [LifeNext]_lifeVars => LifeInv'
  <2> SUFFICES ASSUME LifeInv, [LifeNext]_lifeVars PROVE LifeInv'  OBVIOUS
  <2>1. TableTypeOK'
    <3>1. [TableNext]_tableVars
      BY DEF LifeNext, LifeLearn, LifeAge, LifeAnswer, TableNext, lifeVars, tableVars
    <3> QED  BY <3>1, TypeStep DEF LifeInv
  <2>2. ASSUME UNCHANGED <<known, heard>> PROVE HeardTypeOK' /\ Lifespan'
    BY <2>2 DEF LifeInv, HeardTypeOK, Lifespan
  <2>3. HeardTypeOK' /\ Lifespan'
    BY <2>2, LifeLearnStep, LifeAgeStep DEF LifeNext, LifeAnswer, Answer, lifeVars
  <2> QED  BY <2>1, <2>3 DEF LifeInv
<1>3. LifeInv => Lifespan  BY DEF LifeInv
<1> QED  BY <1>1, <1>2, <1>3, PTL DEF LifeSpec
=============================================================================
