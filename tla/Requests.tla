------------------------------ MODULE Requests ------------------------------
(***************************************************************************)
(* The requests that read and set the device (ddp_proto_basic.c,           *)
(* ddp_proto_opt.c, ddp_proto_ap.c), as the proc thread handles them: it   *)
(* takes a message from g_mq, verifies its length and its password,        *)
(* applies its settings one after the other to the platform until one      *)
(* fails, and answers.  A reboot or a reset may be asked for with a delay: *)
(* it is answered at once, and a copy of the request comes back through    *)
(* the queue when its alarm goes off (AlarmQueue), to be authenticated     *)
(* once more.                                                              *)
(*                                                                         *)
(* The module composes the handlers with the setters of Platform, with the *)
(* programs that write the same files, and with the end of the process.    *)
(***************************************************************************)
EXTENDS Platform

CONSTANTS
  Menu,       \* the requests that clients may send
  Enabled,    \* the operations that g_opList enables
  AuthenOn,   \* the operations that g_opList authenticates
  PageMax,    \* SNMP_MAX_NUMBER, the names in one answer to SNMP_GET
  MaxSends,   \* bound: requests sent
  MaxPass,    \* bound: changes of the system password
  MaxEnds     \* bound: ends of the process

\* The operations that ddp_proto_process_message knows, without those of Upgrade
\* and Switch and the general report.
Operations ==
  {"DISCOVERY", "SET_BASIC_INFO", "USER_VERIFY", "CHANGE_ID_PSW", "QUERY_SUPPORT_OPT",
   "DEVICE_ALERT_INFO", "DDP_INFO", "SNMP_CFG", "SNMP_GET", "REBOOT", "RESET", "FACTORY_RESET",
   "GET_SYS_DATE_TIME", "SET_SYS_DATE_TIME", "SET_IPV4_ADDR", "SET_IPV6_ADDR",
   "SET_DEVICE_INFO", "SET_MULTI_SSID", "GET_MULTI_SSID"}

BasicFields ==
  {"SYSTEM_NAME", "DEVICE_IP_ADDR", "WEB_SERVICE_PORT", "CUSTOMIZED_DNS", "SUBNET_MASK",
   "DEFAULT_GATEWAY", "PRIMARY_DNS", "SECONDARY_DNS", "DHCP", "DEVICE_IPV6_ADDR",
   "DEVICE_IPV6_PREFIX", "DEFAULT_GATEWAY_IPV6", "PRIMARY_DNS_IPV6", "SECONDARY_DNS_IPV6",
   "DHCP_IPV6"}

\* The settings that the body of a request holds: its operation says which, and
\* the type or band in it.
FieldsOf(op, sel) ==
  CASE op = "SET_BASIC_INFO" -> BasicFields
    [] op = "SET_IPV4_ADDR" /\ sel = 0 -> {"DHCP", "DEVICE_IP_ADDR", "SUBNET_MASK", "DEFAULT_GATEWAY"}
    [] op = "SET_IPV4_ADDR" /\ sel = 1 -> {"CUSTOMIZED_DNS", "PRIMARY_DNS", "SECONDARY_DNS"}
    [] op = "SET_IPV6_ADDR" /\ sel = 0 ->
         {"DHCP_IPV6", "DEVICE_IPV6_ADDR", "DEVICE_IPV6_PREFIX", "DEFAULT_GATEWAY_IPV6"}
    [] op = "SET_IPV6_ADDR" /\ sel = 1 -> {"PRIMARY_DNS_IPV6", "SECONDARY_DNS_IPV6"}
    [] op = "SET_DEVICE_INFO" /\ sel = 0 -> {"SYSTEM_NAME"}
    [] op = "SET_DEVICE_INFO" /\ sel = 1 -> {"WEB_SERVICE_PORT"}
    [] op = "SET_SYS_DATE_TIME" ->
         {"DATE_TIME", "TIMEZONE", "NTP_ENABLE", "NTP_SERVER", "DST_SETTING"}
    [] op = "SNMP_CFG" -> Lists \cup {"SNMP_GLOBAL_STATE"}
    [] op = "SET_MULTI_SSID" /\ sel = 0 -> {"SSID_24"}
    [] op = "SET_MULTI_SSID" /\ sel = 1 -> {"SSID_5"}
    [] OTHER -> {}

\* A request: the password it carries, whether its body has the length the
\* handler wants ("ok", "bad", or "none" for no body), the type or band it
\* holds, its settings, its delay, and whether its code asks for the
\* answer a restart gives before it starts (0x7777).  late marks the copy that
\* an alarm brings back, which nothing in the code tells from another request.
Request(op, sel) ==
  [op : {op}, pass : Nat, len : {"ok", "bad", "none"}, sel : {sel},
   val : [FieldsOf(op, sel) -> Nat], delay : Nat, original : BOOLEAN, late : BOOLEAN]

ASSUME RequestsAssumption ==
  /\ \A r \in Menu : r \in Request(r.op, r.sel) /\ r.sel \in Nat /\ ~r.late
  /\ Enabled \subseteq Operations
  /\ PageMax \in Nat \ {0}
  /\ MaxSends \in Nat /\ MaxPass \in Nat /\ MaxEnds \in Nat

VARIABLES
  mq,        \* g_mq, the messages for the proc thread
  cur,       \* the message that is handled
  phase,     \* where its handler is
  todo,      \* the settings still to be applied, pairs of setting and value
  code,      \* the return code of the answer so far
  rest,      \* the names SNMP_GET has still to send
  pages,     \* history: the pages it has sent
  alarm,     \* alarm[op]: the delayed message of op, or none
  password,  \* the password the system has for the user
  sent, passes, ends,   \* counters for the bounds
  view,      \* history: what clients may conclude about the settings
  unsure,    \* history: files with no line for a setting of cur, or rewritten since
  owed       \* history: owed[op]: the password with which a restart was promised
             \* that has not been carried out yet, or 0

requestVars == <<mq, cur, phase, todo, code, rest, pages, alarm, password,
                 sent, passes, ends, view, unsure, owed>>
vars == <<platformVars, requestVars>>

Nothing == [op |-> "none"]

Init ==
  /\ InitPlatform
  /\ mq = <<>> /\ cur = Nothing /\ phase = "idle" /\ todo = <<>> /\ code = "ok"
  /\ rest = <<>> /\ pages = <<>>
  /\ alarm = [op \in Restarts |-> Nothing]
  /\ password = 1
  /\ sent = 0 /\ passes = 0 /\ ends = 0
  /\ view = <<>> /\ unsure = {} /\ owed = [op \in Restarts |-> 0]

-----------------------------------------------------------------------------
(* The checks of a request.  The result is the code of the answer.          *)

\* ddp_proto_check_op_authen, ddp_proto_check_op_enable.
Authenticated(r) == r.op \in AuthenOn
IsEnabled(r) == r.op \in Enabled

\* ddp_proto_verify_authen, against the password of the system.
PasswordOk(r) == r.pass = password

\* Length and password are one failure when the operation is authenticated.
StrictCheck(r) ==
  IF Authenticated(r) THEN IF r.len = "ok" /\ PasswordOk(r) THEN "ok" ELSE "authen"
  ELSE IF r.len = "ok" THEN "ok" ELSE "fail"

\* The length is refused, with another code, before the password is read.
LengthFirst(r) ==
  IF r.len # "ok" THEN "fail"
  ELSE IF Authenticated(r) /\ ~PasswordOk(r) THEN "authen" ELSE "ok"

\* Any body will do: requests with a type have bodies of several lengths.
BodyFirst(r) ==
  IF r.len = "none" THEN "fail"
  ELSE IF Authenticated(r) /\ ~PasswordOk(r) THEN "authen" ELSE "ok"

\* An unknown type is told in the body of the answer, its header says success.
TypeCheck(r) == IF BodyFirst(r) = "ok" /\ r.sel \notin {0, 1} THEN "type" ELSE BodyFirst(r)

\* The password is not asked for; a wrong length is reported and changes nothing else.
BasicInfoCheck(r) == IF r.len = "ok" THEN "ok" ELSE "fail"
UserVerifyCheck(r) == StrictCheck(r)
\* This platform has no place for a new user: ddp_platform_set_user returns -3.
ChangeIdPswCheck(r) == IF StrictCheck(r) = "ok" THEN "fail" ELSE StrictCheck(r)
SupportCheck(r) == StrictCheck(r)
AlertCheck(r) == "ok"
InfoCheck(r) == "ok"
DiscoveryCheck(r) == "ok"
SnmpCfgCheck(r) == LengthFirst(r)
SnmpGetCheck(r) == "ok"
RebootCheck(r) == StrictCheck(r)
ResetCheck(r) == StrictCheck(r)
FactoryResetCheck(r) == StrictCheck(r)
GetDateCheck(r) == StrictCheck(r)
SetDateCheck(r) == StrictCheck(r)
SetIpv4Check(r) == TypeCheck(r)
SetIpv6Check(r) == TypeCheck(r)
SetDeviceInfoCheck(r) == TypeCheck(r)
\* The bands are 0 and 1 here, and 2 for both of them.
SetSsidCheck(r) == IF LengthFirst(r) = "ok" /\ r.sel \notin {0, 1} THEN "fail" ELSE LengthFirst(r)
GetSsidCheck(r) == IF r.len = "ok" /\ r.sel \in {0, 1, 2} THEN "ok" ELSE "fail"

\* ddp_proto_process_message: the handler of each operation.
Check(r) ==
  CASE r.op = "DISCOVERY"         -> DiscoveryCheck(r)
    [] r.op = "SET_BASIC_INFO"    -> BasicInfoCheck(r)
    [] r.op = "USER_VERIFY"       -> UserVerifyCheck(r)
    [] r.op = "CHANGE_ID_PSW"     -> ChangeIdPswCheck(r)
    [] r.op = "QUERY_SUPPORT_OPT" -> SupportCheck(r)
    [] r.op = "DEVICE_ALERT_INFO" -> AlertCheck(r)
    [] r.op = "DDP_INFO"          -> InfoCheck(r)
    [] r.op = "SNMP_CFG"          -> SnmpCfgCheck(r)
    [] r.op = "SNMP_GET"          -> SnmpGetCheck(r)
    [] r.op = "REBOOT"            -> RebootCheck(r)
    [] r.op = "RESET"             -> ResetCheck(r)
    [] r.op = "FACTORY_RESET"     -> FactoryResetCheck(r)
    [] r.op = "GET_SYS_DATE_TIME" -> GetDateCheck(r)
    [] r.op = "SET_SYS_DATE_TIME" -> SetDateCheck(r)
    [] r.op = "SET_IPV4_ADDR"     -> SetIpv4Check(r)
    [] r.op = "SET_IPV6_ADDR"     -> SetIpv6Check(r)
    [] r.op = "SET_DEVICE_INFO"   -> SetDeviceInfoCheck(r)
    [] r.op = "SET_MULTI_SSID"    -> SetSsidCheck(r)
    [] r.op = "GET_MULTI_SSID"    -> GetSsidCheck(r)

-----------------------------------------------------------------------------
(* The settings of a request, in the order the handler applies them. *)

SetBasicInfo(r) ==
  <<"SYSTEM_NAME", "DEVICE_IP_ADDR", "WEB_SERVICE_PORT", "CUSTOMIZED_DNS", "SUBNET_MASK",
    "DEFAULT_GATEWAY", "PRIMARY_DNS", "SECONDARY_DNS", "DHCP", "DEVICE_IPV6_ADDR",
    "DEVICE_IPV6_PREFIX", "DEFAULT_GATEWAY_IPV6", "PRIMARY_DNS_IPV6", "SECONDARY_DNS_IPV6",
    "DHCP_IPV6">>

\* With DHCP (1) the addresses that follow are not set.
SetIpv4Addr(r) ==
  IF r.sel = 1 THEN <<"CUSTOMIZED_DNS", "PRIMARY_DNS", "SECONDARY_DNS">>
  ELSE IF r.val["DHCP"] = 1 THEN <<"DHCP">>
  ELSE <<"DHCP", "DEVICE_IP_ADDR", "SUBNET_MASK", "DEFAULT_GATEWAY">>

SetIpv6Addr(r) ==
  IF r.sel = 1 THEN <<"PRIMARY_DNS_IPV6", "SECONDARY_DNS_IPV6">>
  ELSE IF r.val["DHCP_IPV6"] = 1 THEN <<"DHCP_IPV6", "DEVICE_IPV6_PREFIX">>
  ELSE <<"DHCP_IPV6", "DEVICE_IPV6_ADDR", "DEVICE_IPV6_PREFIX", "DEFAULT_GATEWAY_IPV6">>

SetDeviceInfo(r) == IF r.sel = 0 THEN <<"SYSTEM_NAME">> ELSE <<"WEB_SERVICE_PORT">>

\* The NTP switch on, the server is set; off, the clock is, and the switch stays as it is.
SetSysDateTime(r) ==
  IF r.val["NTP_ENABLE"] = 1 THEN <<"NTP_ENABLE", "NTP_SERVER", "DST_SETTING">>
  ELSE <<"DATE_TIME", "TIMEZONE", "DST_SETTING">>

\* An empty community name is skipped; an empty view name fails.
SnmpCfg(r) ==
  <<"SNMP_GLOBAL_STATE">>
    \o (IF r.val["COMMUNITY_RO"] = 0 THEN <<>> ELSE <<"COMMUNITY_RO">>)
    \o (IF r.val["COMMUNITY_RW"] = 0 THEN <<>> ELSE <<"COMMUNITY_RW">>)
    \o <<"VIEW_RO", "VIEW_RW">>

SetMultiSsid(r) == IF r.sel = 0 THEN <<"SSID_24">> ELSE <<"SSID_5">>

Order(r) ==
  CASE r.op = "SET_BASIC_INFO"    -> SetBasicInfo(r)
    [] r.op = "SET_IPV4_ADDR"     -> SetIpv4Addr(r)
    [] r.op = "SET_IPV6_ADDR"     -> SetIpv6Addr(r)
    [] r.op = "SET_DEVICE_INFO"   -> SetDeviceInfo(r)
    [] r.op = "SET_SYS_DATE_TIME" -> SetSysDateTime(r)
    [] r.op = "SNMP_CFG"          -> SnmpCfg(r)
    [] r.op = "SET_MULTI_SSID"    -> SetMultiSsid(r)
    [] OTHER                      -> <<>>

\* Of the port SET_BASIC_INFO reads only the first, high byte, and moves it to the
\* high byte again.
ValueOf(r, f) ==
  IF r.op = "SET_BASIC_INFO" /\ f = "WEB_SERVICE_PORT" THEN (r.val[f] \div 256) * 256
  ELSE r.val[f]

Settings(r) == [i \in DOMAIN Order(r) |-> <<Order(r)[i], ValueOf(r, Order(r)[i])>>]

-----------------------------------------------------------------------------
(* The proc thread. *)

UnchangedBounds == UNCHANGED <<alarm, password, sent, passes, ends>>
Forget(F) == [f \in DOMAIN view \ F |-> view[f]]
Learn(v) == [f \in DOMAIN v \cup DOMAIN view |-> IF f \in DOMAIN v THEN v[f] ELSE view[f]]

\* The settings that are kept as they are sent, among those that r asks for.  Not
\* among them: what the platform does not store or does not read back (the system
\* name, addresses, DHCP, IPv6, date and time zone, names of SNMP), a port of more
\* than one byte and any port of SET_BASIC_INFO, and NTP when it is switched off.
KeptOf(r) ==
  {f \in DOMAIN r.val \cap (InMemory \cup (InFile \ {"SYSTEM_NAME"})) :
     /\ f = "WEB_SERVICE_PORT" => r.val[f] < 256 /\ r.op # "SET_BASIC_INFO"
     /\ f \in {"NTP_ENABLE", "NTP_SERVER"} => r.val["NTP_ENABLE"] = 1}

\* The file has the lines that the setters replace and the getters read.
HasLines(n) ==
  CASE n = "resolv.conf" -> /\ Cardinality(Indices(file[n], {"nameserver"})) >= 2
                            /\ Indices(file[n], {"#nameserver"}) = {}
    [] n = "ddp_config"  -> Indices(file[n], {"webport"}) # {}
    [] OTHER             -> TRUE

NextPhase(r, c) ==
  IF c # "ok" THEN "apply"
  ELSE IF r.op \in Restarts THEN IF r.delay > 0 THEN "delay" ELSE "restart"
  ELSE IF r.op = "SNMP_GET" THEN "collect"
  ELSE "apply"

\* A message is taken and verified.  With SET_BASIC_INFO the wrong length is
\* reported and the settings are applied all the same.
Take ==
  /\ phase = "idle" /\ mq # <<>> /\ IsEnabled(Head(mq))
  /\ LET r == Head(mq) IN
       /\ mq' = Tail(mq)
       /\ cur' = r
       /\ code' = Check(r)
       /\ phase' = NextPhase(r, Check(r))
       /\ todo' = IF Check(r) = "ok" \/ r.op = "SET_BASIC_INFO" THEN Settings(r) ELSE <<>>
       /\ view' = Forget(DOMAIN r.val)
       /\ owed' = IF r.op \in Restarts /\ Check(r) # "ok" /\ r.late /\ owed[r.op] # password
                  THEN [owed EXCEPT ![r.op] = 0] ELSE owed
  /\ unsure' = {n \in Files : ~HasLines(n)}
  /\ pages' = <<>>
  /\ UnchangedBounds
  /\ UNCHANGED <<platformVars, rest>>

\* g_opList does not enable the operation: the message is dropped.
Ignore ==
  /\ phase = "idle" /\ mq # <<>> /\ ~IsEnabled(Head(mq))
  /\ mq' = Tail(mq)
  /\ UnchangedBounds
  /\ UNCHANGED <<platformVars, cur, phase, todo, code, rest, pages, view, unsure, owed>>

\* There is no memory for the answer: the request is dropped without one.
NoMemory ==
  /\ phase = "idle" /\ mq # <<>> /\ faults < MaxFaults
  /\ faults' = faults + 1
  /\ mq' = Tail(mq)
  /\ owed' = IF Head(mq).late THEN [owed EXCEPT ![Head(mq).op] = 0] ELSE owed
  /\ UnchangedBounds
  /\ UNCHANGED <<pf, names, file, tmp, call, others, short,
                 cur, phase, todo, code, rest, pages, view, unsure>>

\* The first setting that fails ends the request.
Applied(ok) ==
  /\ todo' = IF ok THEN Tail(todo) ELSE <<>>
  /\ code' = IF ok THEN code ELSE "fail"

UnchangedByApply == UnchangedBounds /\ UNCHANGED <<mq, cur, rest, pages, view, unsure, owed>>

Apply ==
  /\ phase = "apply" /\ todo # <<>>
  /\ LET f == Head(todo)[1]  v == Head(todo)[2] IN
       \/ \E ok \in BOOLEAN : SetAtOnce(f, v, ok) /\ Applied(ok) /\ UNCHANGED phase
       \/ SetOpenFails(f) /\ Applied(FALSE) /\ UNCHANGED phase
       \/ SetOpen(f, v) /\ phase' = "called" /\ UNCHANGED <<todo, code>>
  /\ UnchangedByApply

\* The call for a setting in a file goes on, and returns.
Called ==
  /\ phase = "called"
  /\ \/ (SetCopy \/ SetCopyShort \/ SetRename) /\ UNCHANGED <<phase, todo, code>>
     \/ SetStore /\ phase' = "apply" /\ Applied(TRUE)
  /\ UnchangedByApply

\* DISCOVERY reads every setting it sends.
ReadBy(r) == IF r.op = "DISCOVERY" THEN InPf ELSE {}

\* What the client may conclude from the answer.
Concludes(r) ==
  IF code # "ok" THEN {}
  ELSE {f \in KeptOf(r) : f \in InMemory \/ FileOf[f] \notin unsure}

\* The answer is sent.
Answer ==
  /\ phase = "apply" /\ todo = <<>>
  /\ phase' = "idle" /\ cur' = Nothing /\ code' = "ok"
  /\ view' = Learn([f \in Concludes(cur) |-> cur.val[f]])
  /\ Refresh(ReadBy(cur))
  /\ UnchangedBounds
  /\ UNCHANGED <<names, file, tmp, call, faults, others, short,
                 mq, todo, rest, pages, unsure, owed>>

-----------------------------------------------------------------------------
(* Restarts. *)

\* MUTANT: the copy keeps the delay of the original.
DelayMsg_KeepsDelay(r) == [r EXCEPT !.original = FALSE, !.late = TRUE]

\* create_delay_msg: the same operation and password, no delay.
DelayMsg(r) == [r EXCEPT !.original = FALSE, !.late = TRUE, !.delay = 0]

\* A delayed restart replaces the one that waits, and is answered.
Delay ==
  /\ phase = "delay"
  /\ alarm' = [alarm EXCEPT ![cur.op] = DelayMsg(cur)]
  /\ owed' = [owed EXCEPT ![cur.op] = cur.pass]
  /\ phase' = "apply"
  /\ UNCHANGED <<platformVars, mq, cur, todo, code, rest, pages,
                 password, sent, passes, ends, view, unsure>>

\* There is no memory for the copy.
DelayFails ==
  /\ phase = "delay" /\ faults < MaxFaults
  /\ faults' = faults + 1
  /\ code' = "fail" /\ phase' = "apply"
  /\ UnchangedBounds
  /\ UNCHANGED <<pf, names, file, tmp, call, others, short,
                 mq, cur, todo, rest, pages, view, unsure, owed>>

\* The original has been answered before; the copy is answered only if it fails.
\* On this platform the setter returns and the daemon goes on.
Restart ==
  /\ phase = "restart"
  /\ \E ok \in BOOLEAN : SetAtOnce(cur.op, 1, ok)
  /\ phase' = "idle" /\ cur' = Nothing
  /\ owed' = [owed EXCEPT ![cur.op] = 0]
  /\ UnchangedBounds
  /\ UNCHANGED <<mq, todo, code, rest, pages, view, unsure>>

\* The alarm of a delayed restart goes off: its message goes into the queue, or,
\* when there is no memory for that, is lost: nobody looks at the result.
AlarmUp(op) ==
  /\ alarm[op] # Nothing
  /\ alarm' = [alarm EXCEPT ![op] = Nothing]
  /\ \/ mq' = Append(mq, alarm[op]) /\ UNCHANGED <<faults, owed>>
     \/ /\ faults < MaxFaults
        /\ faults' = faults + 1
        /\ owed' = [owed EXCEPT ![op] = 0]
        /\ UNCHANGED mq
  /\ UNCHANGED <<pf, names, file, tmp, call, others, short, cur, phase, todo, code,
                 rest, pages, password, sent, passes, ends, view, unsure>>

-----------------------------------------------------------------------------
(* SNMP_GET. *)

ListOrder == <<"COMMUNITY_RO", "COMMUNITY_RW", "VIEW_RO", "VIEW_RW">>
Tagged(l) == [i \in DOMAIN names[l] |-> <<l, names[l][i]>>]

\* The lists are copied and sent from their ends.
SnmpCollect ==
  /\ phase = "collect"
  /\ rest' = Reverse(Tagged("COMMUNITY_RO")) \o Reverse(Tagged("COMMUNITY_RW"))
              \o Reverse(Tagged("VIEW_RO")) \o Reverse(Tagged("VIEW_RW"))
  /\ phase' = "pages"
  /\ UnchangedBounds
  /\ UNCHANGED <<platformVars, mq, cur, todo, code, pages, view, unsure, owed>>

\* There is no memory for the k-th list.  Its number is 0, but its list and the
\* containers of the lists after it are whatever is on the stack, and are sent and
\* freed all the same.  If that is all zero, the answer is a shorter one.  If not,
\* nothing is certain any more ("wild"): a promised restart may not come either.
SnmpCollectFails ==
  /\ phase = "collect" /\ faults < MaxFaults
  /\ faults' = faults + 1
  /\ code' = "fail"
  /\ \/ /\ phase' = "pages"
        /\ \E k \in 1..4 :
             rest' = FlattenSeq([i \in 1..(k - 1) |-> Reverse(Tagged(ListOrder[i]))])
        /\ UNCHANGED owed
     \/ /\ phase' = "wild"
        /\ owed' = [op \in Restarts |-> 0]
        /\ UNCHANGED rest
  /\ UnchangedBounds
  /\ UNCHANGED <<pf, names, file, tmp, call, others, short,
                 mq, cur, todo, pages, view, unsure>>

\* With numbers and pointers that were never set the handler sends pages for ever
\* (it stays here), the process ends (End), or the handler returns in the end.
SnmpWild ==
  /\ phase = "wild"
  /\ phase' = "idle" /\ cur' = Nothing /\ code' = "ok"
  /\ UnchangedBounds
  /\ UNCHANGED <<platformVars, mq, todo, rest, pages, view, unsure, owed>>

\* MUTANT: the last name of a full page is taken again with the next page.
PageOf_Overlaps(s) ==
  [names |-> SubSeq(s, 1, IF Len(s) < PageMax THEN Len(s) ELSE PageMax),
   more |-> Len(s) > PageMax, rest |-> SubSeq(s, IF Len(s) > PageMax THEN PageMax ELSE PageMax + 1, Len(s))]

\* One answer: as many names as it holds, and whether others follow.
PageOf(s) ==
  [names |-> SubSeq(s, 1, IF Len(s) < PageMax THEN Len(s) ELSE PageMax),
   more |-> Len(s) > PageMax, rest |-> SubSeq(s, PageMax + 1, Len(s))]

SnmpPage ==
  /\ phase = "pages"
  /\ LET p == PageOf(rest) IN
       /\ pages' = Append(pages, [names |-> p.names, more |-> p.more, code |-> code])
       /\ rest' = p.rest
       /\ IF p.more THEN UNCHANGED <<phase, cur, code>>
          ELSE phase' = "idle" /\ cur' = Nothing /\ code' = "ok"
  /\ UnchangedBounds
  /\ UNCHANGED <<platformVars, mq, todo, view, unsure, owed>>

-----------------------------------------------------------------------------
(* Outside. *)

Send(r) ==
  /\ sent < MaxSends
  /\ sent' = sent + 1
  /\ mq' = Append(mq, r)
  /\ UNCHANGED <<platformVars, cur, phase, todo, code, rest, pages, alarm,
                 password, passes, ends, view, unsure, owed>>

\* The administrator gives the user another password.
ChangePassword ==
  /\ passes < MaxPass
  /\ passes' = passes + 1
  /\ password' = password + 1
  /\ UNCHANGED <<platformVars, mq, cur, phase, todo, code, rest, pages, alarm,
                 sent, ends, view, unsure, owed>>

Others(n) ==
  /\ OthersWrite(n)
  /\ view' = Forget({f \in InFile : FileOf[f] = n})
  /\ unsure' = unsure \cup {n}
  /\ UnchangedBounds
  /\ UNCHANGED <<mq, cur, phase, todo, code, rest, pages, owed>>

\* The process ends, whatever it is doing, and starts again: what it held in
\* memory is gone, promises included.
End ==
  /\ ends < MaxEnds
  /\ ends' = ends + 1
  /\ RestartPlatform
  /\ mq' = <<>> /\ cur' = Nothing /\ phase' = "idle" /\ todo' = <<>> /\ code' = "ok"
  /\ rest' = <<>> /\ pages' = <<>>
  /\ alarm' = [op \in Restarts |-> Nothing]
  /\ view' = Forget(InMemory)
  /\ owed' = [op \in Restarts |-> 0]
  /\ UNCHANGED <<password, sent, passes, unsure>>

Proc == \/ Take \/ Ignore \/ NoMemory \/ Apply \/ Called \/ Answer
        \/ Delay \/ DelayFails \/ Restart
        \/ SnmpCollect \/ SnmpCollectFails \/ SnmpPage

Next == \/ Proc \/ ChangePassword \/ End
        \/ SnmpWild
        \/ \E op \in Restarts : AlarmUp(op)
        \/ \E r \in Menu : Send(r)
        \/ \E n \in Files : Others(n)

\* The proc thread runs, and the alarm thread counts.  Nothing is assumed of a
\* handler that works on what was never set.
Fairness == WF_vars(Proc) /\ \A op \in Restarts : WF_vars(AlarmUp(op))

Spec == Init /\ [][Next]_vars
FairSpec == Spec /\ Fairness

-----------------------------------------------------------------------------
(* Properties. *)

TypeOK ==
  /\ PlatformTypeOK
  /\ \A i \in DOMAIN mq : DOMAIN mq[i].val \subseteq Fields
  /\ phase \in {"idle", "apply", "called", "delay", "restart", "collect", "pages", "wild"}
  /\ code \in {"ok", "fail", "authen", "type"}
  /\ phase = "idle" <=> cur = Nothing
  /\ phase = "called" <=> ~Idle
  /\ phase \in {"idle", "delay", "restart", "collect", "pages", "wild"} => todo = <<>>
  /\ phase \in {"delay", "restart"} => cur.op \in Restarts
  /\ \A i \in DOMAIN todo : todo[i] \in Fields \X Nat
  /\ DOMAIN view \subseteq InMemory \cup InFile
  /\ \A op \in Restarts : alarm[op] # Nothing => alarm[op].op = op

\* What a client may conclude is what the platform has: a setting of those that
\* are kept as they are sent (KeptOf: the DNS servers, a port of one byte set by
\* SET_DEVICE_INFO, NTP switched on and its server, daylight saving, the SNMP state,
\* the SSIDs) whose request was answered with success reads back as it was sent,
\* until another request names it, another program rewrites its file or, for one
\* in memory, the process ends.  Of the other settings nothing is promised;
\* ResultIsTrue says what the code gets wrong there.  The settings of one request
\* are applied in up to sixty steps (ddp_proto_opt.c:1026-1119,
\* ddp_platform.c:2243-2273), some of which fail, and two of them share a file.
ClientView ==
  \A f \in DOMAIN view :
    f \in InMemory \/ FileOf[f] \notin short => Read(f) = view[f]

\* The execute result in an answer is true: when a request is about to be answered
\* with success, each setting of its body that the platform keeps, and that no other
\* program has touched, reads back as it was sent (the NTP server, while NTP is
\* switched on).  The code breaks it for a port of more than one byte
\* (ddp_platform.c:2131, 2151) and for NTP switched off (ddp_proto_opt.c:802-838).
ResultIsTrue ==
  phase = "apply" /\ todo = <<>> /\ code = "ok" =>
    \A f \in DOMAIN cur.val \cap (InMemory \cup {"WEB_SERVICE_PORT"}) :
      \/ f \notin InMemory /\ FileOf[f] \in unsure \cup short
      \/ f = "NTP_SERVER" /\ cur.val["NTP_ENABLE"] # 1
      \/ Read(f) = cur.val[f]

\* A promised restart comes: when a delayed restart has been answered with
\* success, it is carried out, unless its password is changed meanwhile, a later
\* request replaces it, the process ends, there is no memory for its answer or
\* for the place in the queue that its message needs (ddp_alrm_queue.c:193), or
\* an SNMP_GET has lost its way before (ddp_proto_basic.c:1713, 1770-1786).
DelayedRuns == \A op \in Restarts : owed[op] # 0 ~> owed[op] = 0

\* The pages of an answer to SNMP_GET whose four lists could be read hold every
\* name of them once, list after list and each from its end, no page holds more than
\* fits, and only the last one says that nothing follows
\* (ddp_proto_basic.c:1508-1618).  Of an answer for which the memory did not
\* suffice nothing is promised: its containers were never set.
PagesComplete ==
  (\A i \in DOMAIN pages : pages[i].code = "ok") =>
    /\ \A i \in DOMAIN pages : Len(pages[i].names) <= PageMax
    /\ \A i \in DOMAIN pages : i < Len(pages) => pages[i].more
    /\ phase # "pages" /\ pages # <<>> =>
         /\ ~Last(pages).more
         /\ FlattenSeq([i \in DOMAIN pages |-> pages[i].names])
              = FlattenSeq([i \in 1..4 |-> Reverse(Tagged(ListOrder[i]))])
=============================================================================
