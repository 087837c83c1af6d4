------------------------------- MODULE Switch -------------------------------
(***************************************************************************)
(* The configuration of a switch: the VLANs, the surveillance VLAN (ASV)   *)
(* and its user-defined MAC addresses (handlers in ddp_proto_switch.c,     *)
(* setters and getters in ddp_platform_switch.c).                          *)
(*                                                                         *)
(* A VLAN_CFG request is staged field by field in gstDDP_PF_VLAN, until a  *)
(* setter refuses, and whatever is staged then is copied to the slot of    *)
(* pf_vlan_arr that the staged id names.  The ASV settings are set in      *)
(* place.  The MAC addresses sit in an array of slots, of which one is     *)
(* free when its address is the default, all zeros; addresses are compared *)
(* with strcmp.  The proc thread handles one request at a time and no      *)
(* other thread touches this state, so a request is one step.              *)
(*                                                                         *)
(* A 4-byte number is a pair: its first byte in the message, and the rest. *)
(* A VLAN id that a request carries is one of the array's: the setter does *)
(* not check it.  Type and category of a MAC address are left out.         *)
(***************************************************************************)
EXTENDS Integers, Sequences, FiniteSets

CONSTANTS
  VlanIds,    \* DDP_VLANID_MIN..DDP_VLANID_MAX, or a part of it that has id 1
  VlanMenu,   \* the VLANs that clients configure; name 0 is the empty name
  AsvMenu,    \* the ASV settings that clients send
  MacMenu,    \* the MAC addresses that clients add and delete
  MacsMax,    \* kDDP_SWITCH_MAX_ENTRY_PER_PACKET, the slots of the MAC table
  Units,      \* what the vendor's driver tells: the switch units, <<id, ports>>
  AuthenOn,   \* the operations that g_opList authenticates
  Refused     \* settings whose setter may refuse the value on another product

\* The settings of a VLAN and of the ASV in the order in which they are set,
\* each with a setter of its own.
TagFields == <<"tagType", "tags">>
UntagFields == <<"untagType", "untags">>
VlanFields == <<"name", "id">> \o TagFields \o UntagFields
AsvFields == <<"id", "priority", "state">> \o TagFields
Vlan == [name : Nat, id : Nat, tagType : Nat, tags : Nat, untagType : Nat, untags : Nat]
Asv == [id : Nat \X Nat, priority : Nat \X Nat, state : Nat, tagType : Nat, tags : Nat]
Mac == [addr : Seq(0..255), desc : Seq(0..255)]

ASSUME SwitchAssumption ==
  /\ VlanIds \subseteq Nat \ {0} /\ 1 \in VlanIds
  /\ VlanMenu \subseteq Vlan /\ \A r \in VlanMenu : r.id \in VlanIds
  /\ AsvMenu \subseteq Asv /\ MacMenu \subseteq Mac
  /\ MacsMax \in Nat \ {0}
  /\ Units \in Seq(Nat \X Nat) /\ Units # <<>>

VARIABLES
  staged,    \* gstDDP_PF_VLAN, the VLAN being set
  vlans,     \* pf_vlan_arr, the VLANs; id 0 in a slot: no VLAN
  asv,       \* gstDDP_PF_ASV
  macs,      \* gastDDP_ASV_MAC_List, the slots 1..MacsMax
  reply,     \* the last reply: operation, return code, body
  asked,     \* history: the last VLAN_CFG for each id, if it was answered "ok"
  named,     \* history: the last name that a request gave to any VLAN
  asvAsked   \* history: the last ASV_CFG, if it was answered "ok"

vars == <<staged, vlans, asv, macs, reply, asked, named, asvAsked>>

-----------------------------------------------------------------------------
(* MAC addresses.                                                          *)

Slots == 1..MacsMax
DefaultMac == [addr |-> <<0, 0>>, desc |-> <<1>>]

\* What strcmp sees of an address: the bytes up to the first zero.  An address
\* with no zero byte runs on into the description that follows it in memory.
Key(m) ==
  LET bytes == m.addr \o m.desc
      ends  == {i \in DOMAIN bytes : bytes[i] = 0}
  IN IF ends = {} THEN bytes
     ELSE SubSeq(bytes, 1, (CHOOSE i \in ends : \A j \in ends : i <= j) - 1)

NoKey == Key(DefaultMac)

Holding(k) == {i \in Slots : Key(macs[i]) = k}
First(I) == CHOOSE i \in I : \A j \in I : i <= j
Members == {Key(macs[i]) : i \in Slots} \ {NoKey}

-----------------------------------------------------------------------------

NoVlan == [name |-> 0, id |-> 0, tagType |-> 0, tags |-> 0, untagType |-> 0, untags |-> 0]
DefaultVlan == [NoVlan EXCEPT !.name = 1, !.id = 1, !.tagType = 1, !.untagType = 1]
DefaultAsv == [id |-> <<0, 1>>, priority |-> <<0, 1>>, state |-> 0, tagType |-> 1, tags |-> 0]
Unasked == [id |-> 0]

\* ddp_platform_init.
Init ==
  /\ staged = DefaultVlan
  /\ vlans = [i \in VlanIds |-> IF i = 1 THEN DefaultVlan ELSE NoVlan]
  /\ asv = DefaultAsv
  /\ macs = [i \in Slots |-> DefaultMac]
  /\ reply = [op |-> "none", code |-> "ok", body |-> 0]
  /\ asked = [i \in VlanIds |-> Unasked]
  /\ named = DefaultVlan.name
  /\ asvAsked = Unasked

Reply(op, code, body) == reply' = [op |-> op, code |-> code, body |-> body]

\* A wrong password, of an operation that is authenticated.
AuthenFails(op) == op \in AuthenOn

\* The first n settings of r are applied; the next one, if any, is refused.
StopsAfter(fields, n) == n < Len(fields) => fields[n + 1] \in Refused
Applied(fields, n) == {fields[i] : i \in 1..n}

\* MUTANT: a VLAN without a name loses the name it had.
Stage_EmptyName(r, n) ==
  [f \in DOMAIN staged |-> IF f \in Applied(VlanFields, n) THEN r[f] ELSE staged[f]]

\* The staged VLAN after the first n settings of r.  An empty name is not set.
Stage(r, n) ==
  [f \in DOMAIN staged |->
     IF f \in Applied(VlanFields, n) /\ ~(f = "name" /\ r.name = 0) THEN r[f] ELSE staged[f]]

\* MUTANT: the slot is that of the id staged by the request before.
Commit_OldSlot(s) == vlans' = [vlans EXCEPT ![staged.id] = s]

\* ddp_platform_set_if_vlan.
Commit(s) == vlans' = [vlans EXCEPT ![s.id] = s]

\* i4fnDDP_proto_switch_vlan_cfg.  What is staged is committed even when a
\* setter has refused, to the slot of the id staged last.
VlanCfg(r) ==
  \E n \in 0..Len(VlanFields) :
    /\ StopsAfter(VlanFields, n)
    /\ n = 0 => r.name # 0
    /\ LET s == Stage(r, n)
           ok == n = Len(VlanFields)
       IN /\ staged' = s
          /\ Commit(s)
          /\ Reply("VLAN_CFG", IF ok THEN "ok" ELSE "fail", 0)
          /\ asked' = [asked EXCEPT ![r.id] = IF ok THEN r ELSE Unasked]
          /\ named' = IF n > 0 /\ r.name # 0 THEN r.name ELSE named
    /\ UNCHANGED <<asv, macs, asvAsked>>

\* A wrong password, or a request without a body.
VlanCfgRefused(code) ==
  /\ code = "authen" => AuthenFails("VLAN_CFG")
  /\ Reply("VLAN_CFG", code, 0)
  /\ UNCHANGED <<staged, vlans, asv, macs, asked, named, asvAsked>>

-----------------------------------------------------------------------------
(* Reading the VLANs.                                                       *)

\* The bit of VLAN v in byte v / 8 of the list: 0x1 << (8 - v % 8), a shift by
\* 1 to 8.
Shifted == <<2, 4, 8, 16, 32, 64, 128, 256>>
Mask(v) == Shifted[8 - (v % 8)]

\* ddp_platform_get_if_vlan_list.  A byte keeps what fits in it, and the bit of
\* a VLAN whose id is a multiple of 8 does not.
VlanList ==
  LET On(b) == {Mask(v) : v \in {w \in VlanIds : w \div 8 = b /\ vlans[w].id # 0}}
  IN [b \in {v \div 8 : v \in VlanIds} |-> {m \in On(b) : m < 256}]

\* ddp_platform_get_if_vlan_state: the id of a slot tells whether it is used.
VlanState(v) == IF vlans[v].id > 0 THEN 1 ELSE 0

\* The getters of one VLAN.  The id in the answer is that of the request.
TagInfo(v) == <<vlans[v].tagType, vlans[v].tags>>
UntagInfo(v) == <<vlans[v].untagType, vlans[v].untags>>
VlanInfo(v) == [state |-> VlanState(v), name |-> vlans[v].name,
                tag |-> TagInfo(v), untag |-> UntagInfo(v)]

\* i4fnDDP_proto_switch_vlan_get: type 0 asks for the list, type 1 for one VLAN.
VlanGet ==
  /\ \/ Reply("VLAN_GET", "fail", 0)     \* no body, another type, or no such id
     \/ Reply("VLAN_GET", "ok", VlanList)
     \/ \E v \in VlanIds : Reply("VLAN_GET", "ok", VlanInfo(v))
  /\ UNCHANGED <<staged, vlans, asv, macs, asked, named, asvAsked>>

-----------------------------------------------------------------------------
(* The surveillance VLAN.                                                   *)

\* DDP_NTOHL(*pu1data) reads one byte, and a little-endian machine sends it
\* back as the first.
FirstByte(n) == <<n[1], 0>>

\* The setters of the ASV fields: id and priority keep one byte.
AsvValue(r, f) == IF f \in {"id", "priority"} THEN FirstByte(r[f]) ELSE r[f]

AsvStage(r, n) ==
  [f \in DOMAIN asv |-> IF f \in Applied(AsvFields, n) THEN AsvValue(r, f) ELSE asv[f]]

\* i4fnDDP_proto_switch_asv_cfg: the settings up to the refused one stay.
AsvCfg(r) ==
  \E n \in 0..Len(AsvFields) :
    /\ StopsAfter(AsvFields, n)
    /\ asv' = AsvStage(r, n)
    /\ Reply("ASV_CFG", IF n = Len(AsvFields) THEN "ok" ELSE "fail", 0)
    /\ asvAsked' = IF n = Len(AsvFields) THEN r ELSE Unasked
    /\ UNCHANGED <<staged, vlans, macs, asked, named>>

AsvCfgRefused ==
  /\ AuthenFails("ASV_CFG")
  /\ Reply("ASV_CFG", "authen", 0)
  /\ UNCHANGED <<staged, vlans, asv, macs, asked, named, asvAsked>>

\* The getters of the ASV.
AsvNumbers == <<asv.id, asv.priority>>
AsvTags == <<asv.tagType, asv.tags>>
AsvInfo == [defined |-> 1, numbers |-> AsvNumbers, state |-> asv.state, tag |-> AsvTags]

\* i4fnDDP_proto_switch_asv_get: a state other than 0 and 1 is "not defined".
AsvGet ==
  /\ Reply("ASV_GET", "ok", IF asv.state \in {0, 1} THEN AsvInfo ELSE [defined |-> 0])
  /\ UNCHANGED <<staged, vlans, asv, macs, asked, named, asvAsked>>

-----------------------------------------------------------------------------
(* The user-defined MAC addresses.                                          *)

\* Order and key, which the reply does not carry, are for the client's view.
MacAnswer(order, k, code) == Reply("ASV_USR_MAC_CFG", code, <<order, k>>)

\* MUTANT: the first free slot is taken without a look for the address.
MacAdd_NoDuplicateCheck(m) ==
  IF Holding(NoKey) = {} THEN MacAnswer("add", Key(m), "fail") /\ UNCHANGED macs
  ELSE /\ MacAnswer("add", Key(m), "ok")
       /\ macs' = [macs EXCEPT ![First(Holding(NoKey))] = m]

\* Sub-type ADD: refused when a slot holds the address or none is free.
MacAdd(m) ==
  IF Holding(Key(m)) # {} \/ Holding(NoKey) = {}
  THEN MacAnswer("add", Key(m), "fail") /\ UNCHANGED macs
  ELSE /\ MacAnswer("add", Key(m), "ok")
       /\ macs' = [macs EXCEPT ![First(Holding(NoKey))] = m]

\* Sub-type DEL: the first slot with the address is freed.
MacDel(m) ==
  IF Holding(Key(m)) = {}
  THEN MacAnswer("del", Key(m), "fail") /\ UNCHANGED macs
  ELSE /\ MacAnswer("del", Key(m), "ok")
       /\ macs' = [macs EXCEPT ![First(Holding(Key(m)))] = DefaultMac]

\* Another sub-type is answered with success.
MacOther == MacAnswer("none", NoKey, "ok") /\ UNCHANGED macs

MacRefused ==
  AuthenFails("ASV_USR_MAC_CFG") /\ MacAnswer("none", NoKey, "authen") /\ UNCHANGED macs

\* i4fnDDP_proto_switch_asv_usr_mac_cfg.
MacCfg ==
  /\ \/ \E m \in MacMenu : MacAdd(m) \/ MacDel(m)
     \/ MacOther
     \/ MacRefused
  /\ UNCHANGED <<staged, vlans, asv, asked, named, asvAsked>>

\* ddp_platform_get_if_asv_usr_def_mac: the addresses in the order of the slots.
\* The buffer of the reply has room for all of them.
MacEntries == LET Taken(m) == Key(m) # NoKey IN SelectSeq(macs, Taken)

\* i4fnDDP_proto_switch_asv_usr_mac_get.
MacGet ==
  /\ Reply("ASV_USR_MAC_GET", "ok", MacEntries)
  /\ UNCHANGED <<staged, vlans, asv, macs, asked, named, asvAsked>>

-----------------------------------------------------------------------------

\* ddp_platform_get_if_port_number: id and ports of the first unit are repeated
\* for the units that follow it.
PortNumbers == [i \in DOMAIN Units |-> Units[1]]

\* i4fnDDP_proto_switch_get_port_number.
PortNumberGet ==
  /\ Reply("GET_SYS_PORT_NUM", "ok", PortNumbers)
  /\ UNCHANGED <<staged, vlans, asv, macs, asked, named, asvAsked>>

Next ==
  \/ \E r \in VlanMenu : VlanCfg(r)
  \/ \E code \in {"authen", "fail"} : VlanCfgRefused(code)
  \/ VlanGet
  \/ \E r \in AsvMenu : AsvCfg(r)
  \/ AsvCfgRefused
  \/ AsvGet
  \/ MacCfg
  \/ MacGet
  \/ PortNumberGet

Spec == Init /\ [][Next]_vars

-----------------------------------------------------------------------------
(* Properties.                                                             *)

\* Settings, slots and replies keep their shape.  In particular every slot of
\* the VLAN array is empty or holds the VLAN of its own number: the copy of the
\* staged VLAN goes to the slot its id names, whatever was refused before.
TypeOK ==
  /\ staged \in Vlan /\ staged.id \in VlanIds
  /\ vlans \in [VlanIds -> Vlan]
  /\ \A v \in VlanIds : vlans[v].id \in {0, v}
  /\ asv \in Asv
  /\ macs \in [Slots -> MacMenu \cup {DefaultMac}]
  /\ reply.code \in {"ok", "fail", "authen"}
  /\ asked \in [VlanIds -> VlanMenu \cup {Unasked}]

\* What a read tells is what clients have set (i4fnDDP_proto_switch_vlan_get,
\* i4fnDDP_proto_switch_asv_get).  A VLAN whose last request succeeded has the
\* fields of that request; if its name was empty, the name that any client last
\* gave to any VLAN.  The list shows the VLANs that exist, except those with a
\* multiple of 8 as id, and no other.  The ASV has the settings of the last
\* request if that succeeded, of id and priority the first byte.
SettingsReadBack ==
  /\ \A v \in VlanIds :
       LET r == asked[v] IN
       r # Unasked =>
         /\ VlanInfo(v).state = 1
         /\ VlanInfo(v).tag = <<r.tagType, r.tags>>
         /\ VlanInfo(v).untag = <<r.untagType, r.untags>>
         /\ r.name # 0 => VlanInfo(v).name = r.name
         /\ (staged.id = v /\ r.name = 0) => VlanInfo(v).name = named
  /\ \A v \in VlanIds :
       Mask(v) \in VlanList[v \div 8] <=> (VlanState(v) = 1 /\ v % 8 # 0)
  /\ asvAsked # Unasked =>
       /\ asv.state = asvAsked.state /\ AsvTags = <<asvAsked.tagType, asvAsked.tags>>
       /\ AsvNumbers[1][1] = asvAsked.id[1] /\ AsvNumbers[2][1] = asvAsked.priority[1]

\* "Get the VLAN list" (ddp_platform.h:311), of the VLANs whose "u4vlan_id: 0 ->
\* disabled, others -> enabled" (ddp_platform_switch.c:1143): the bit of a VLAN is set
\* in the list exactly when the VLAN is enabled.
ListComplete == \A v \in VlanIds : Mask(v) \in VlanList[v \div 8] <=> vlans[v].id # 0

\* The table of MAC addresses is a set of what strcmp tells apart, and each
\* answer says truly whether the request took effect
\* (ddp_platform_set_if_asv_usr_def_mac).
NoAnswer == [order |-> "none", key |-> NoKey, code |-> "ok"]
MacReply ==
  IF reply.op = "ASV_USR_MAC_CFG"
  THEN [order |-> reply.body[1], key |-> reply.body[2], code |-> reply.code]
  ELSE NoAnswer

Set == INSTANCE MacSet WITH members <- Members, answer <- MacReply,
         Keys <- {Key(m) : m \in MacMenu}, NoKey <- NoKey, Capacity <- MacsMax
ImplementsMacSet == Set!Spec

=============================================================================
