----------------------------- MODULE MCRequests -----------------------------
EXTENDS Requests

\* A request whose password, length and code are as they should be.
Req(op, sel, val) ==
  [op |-> op, pass |-> 1, len |-> "ok", sel |-> sel, val |-> val, delay |-> 0,
   original |-> TRUE, late |-> FALSE]
NoVal == [f \in {} |-> 0]

\* NTP is on at the start, as vc_ntpEnable has it.
MCDefaults == [f \in InPf |-> IF f = "NTP_ENABLE" THEN 1 ELSE 0]
MCSystem == [f \in {"DEVICE_IP_ADDR", "SYSTEM_NAME", "DHCP"} |-> 7]

Line(k, v) == [key |-> k, val |-> v]
MCContents ==
  [n \in Files |->
     CASE n = "resolv.conf" -> {<<Line("nameserver", 8), Line("other", 0), Line("nameserver", 9)>>,
                                <<Line("#nameserver", 8), Line("nameserver", 9)>>}
       [] n = "ddp_config"  -> {<<Line("webport", 80), Line("other", 0)>>}
       [] n = "hostname"    -> {<<Line("other", 1)>>}]

Basic == Req("SET_BASIC_INFO", 0, [f \in BasicFields |-> 3])

Ipv4 == {Req("SET_IPV4_ADDR", 0, [f \in {"DHCP", "DEVICE_IP_ADDR", "SUBNET_MASK", "DEFAULT_GATEWAY"} |-> v])
           : v \in {1, 2}}
Dns == {Req("SET_IPV4_ADDR", 1, [f \in {"CUSTOMIZED_DNS", "PRIMARY_DNS", "SECONDARY_DNS"} |-> 1])}
Ipv6 == {Req("SET_IPV6_ADDR", 0, [f \in {"DHCP_IPV6", "DEVICE_IPV6_ADDR", "DEVICE_IPV6_PREFIX",
                                         "DEFAULT_GATEWAY_IPV6"} |-> 1]),
         Req("SET_IPV6_ADDR", 2, NoVal)}
Device == {Req("SET_DEVICE_INFO", 0, [f \in {"SYSTEM_NAME"} |-> 2]),
           Req("SET_DEVICE_INFO", 1, [f \in {"WEB_SERVICE_PORT"} |-> 81]),
           Req("SET_DEVICE_INFO", 1, [f \in {"WEB_SERVICE_PORT"} |-> 8080])}
\* NTP switched on (with a server that is accepted, or not), or off.
DateTime(on, server) ==
  Req("SET_SYS_DATE_TIME", 0,
      [f \in {"DATE_TIME", "TIMEZONE", "NTP_ENABLE", "NTP_SERVER", "DST_SETTING"} |->
         CASE f = "NTP_ENABLE" -> on [] f = "NTP_SERVER" -> server [] OTHER -> 1])
Date == {DateTime(1, 0), DateTime(1, 1), DateTime(0, 1)}
Snmp == {Req("SNMP_CFG", 0, [f \in Lists \cup {"SNMP_GLOBAL_STATE"} |-> IF f = "COMMUNITY_RO" THEN 0 ELSE 5])}
Ssid == {Req("SET_MULTI_SSID", 1, [f \in {"SSID_5"} |-> 3])}
Late == {[Req("REBOOT", 0, NoVal) EXCEPT !.delay = 1]}
Now == {Req("RESET", 0, NoVal)}
Queries == {Req("SNMP_GET", 0, NoVal), Req("DISCOVERY", 0, NoVal), Req("DEVICE_ALERT_INFO", 0, NoVal)}
Bad == {[Req("RESET", 0, NoVal) EXCEPT !.pass = 2], [Req("USER_VERIFY", 0, NoVal) EXCEPT !.len = "none"]}

MCMenu == {Basic} \cup Ipv4 \cup Dns \cup Ipv6 \cup Device \cup Date \cup Snmp \cup Ssid
          \cup Late \cup Now \cup Queries \cup Bad

\* For the runs that end in a counterexample: NTP is switched off; a port of two bytes.
MCNtp == {DateTime(0, 1)}
MCPort == {Req("SET_DEVICE_INFO", 1, [f \in {"WEB_SERVICE_PORT"} |-> 8080])}

MCAuthenOn == {"CHANGE_ID_PSW", "USER_VERIFY", "SNMP_CFG", "REBOOT", "RESET", "FACTORY_RESET",
               "SET_SYS_DATE_TIME", "SET_MULTI_SSID", "SET_IPV4_ADDR", "SET_IPV6_ADDR",
               "SET_DEVICE_INFO", "SET_BASIC_INFO"}
MCEnabled == {r.op : r \in MCMenu} \ {"DEVICE_ALERT_INFO"}
=============================================================================
