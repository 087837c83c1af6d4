------------------------------ MODULE Platform ------------------------------
(***************************************************************************)
(* The platform layer of the virtual client (ddp_platform.c): the settings *)
(* of the device, where each is kept, how it is set and how it is read.    *)
(*                                                                         *)
(* A setting lives in up to three places: a variable pf_* of the process,  *)
(* a line of a configuration file, and the running system.  The setters of *)
(* the DNS servers, the web port and the system name rewrite a file: they  *)
(* open it and a temporary file, copy line by line with their own line     *)
(* replaced, rename the copy over the original, and only then assign the   *)
(* pf_* variable.  The process may end between two of these steps, others  *)
(* rewrite the same files, and the disk may be full while the copy is      *)
(* written, which the setter does not notice.                              *)
(*                                                                         *)
(* The actions of this module are steps of one call of                     *)
(* ddp_platform_set_field; Requests says who calls it.                     *)
(***************************************************************************)
EXTENDS Integers, Sequences, FiniteSets, SequencesExt

CONSTANTS
  Defaults,   \* the values vc_* that ddp_platform_init gives the settings
  System,     \* what the running system tells of some settings; no setter changes it
  Contents,   \* Contents[n]: the contents that others give the file n
  NamesMax,   \* DDP_PLATFORM_SNMP_NAMES_MAX, the length of an SNMP name list
  Refused,    \* settings whose setter may refuse the value on another product
  MaxFaults,  \* bound: failed opens, short writes and failed allocations
  MaxOthers   \* bound: times that others rewrite a file

InMemory == {"NTP_ENABLE", "NTP_SERVER", "DST_SETTING", "SNMP_GLOBAL_STATE",
             "SSID_24", "SSID_5"}
Lists == {"COMMUNITY_RO", "COMMUNITY_RW", "VIEW_RO", "VIEW_RW"}
FileOf == [SYSTEM_NAME |-> "hostname", WEB_SERVICE_PORT |-> "ddp_config",
           PRIMARY_DNS |-> "resolv.conf", SECONDARY_DNS |-> "resolv.conf"]
InFile == DOMAIN FileOf
Files == {FileOf[f] : f \in InFile}
\* Set in memory, but read from the system as long as that can tell.
Shadowed == {"DEVICE_IP_ADDR", "SUBNET_MASK", "DEFAULT_GATEWAY", "CUSTOMIZED_DNS", "DHCP"}
\* The setter accepts the value and stores nothing.
Unkept == {"DATE_TIME", "TIMEZONE", "DEVICE_IPV6_ADDR", "DEVICE_IPV6_PREFIX",
           "DEFAULT_GATEWAY_IPV6", "PRIMARY_DNS_IPV6", "SECONDARY_DNS_IPV6", "DHCP_IPV6"}
Restarts == {"REBOOT", "RESET", "FACTORY_RESET"}

InPf == InMemory \cup InFile \cup Shadowed
Fields == InPf \cup Lists \cup Unkept \cup Restarts

\* A line of a configuration file: the word the setters and the getters look for,
\* or "other", and the value that follows.
Own == {"nameserver", "#nameserver", "webport"}
Lines == [key : Own \cup {"other"}, val : Nat]

ASSUME PlatformAssumption ==
  /\ Defaults \in [InPf -> Nat]
  /\ DOMAIN System \subseteq Shadowed \cup {"SYSTEM_NAME"}
  /\ \A f \in DOMAIN System : System[f] \in Nat
  /\ DOMAIN Contents = Files
  /\ \A n \in Files : \A c \in Contents[n] : c \in Seq(Lines)
  /\ NamesMax \in Nat \ {0} /\ Refused \subseteq Fields
  /\ MaxFaults \in Nat /\ MaxOthers \in Nat

VARIABLES
  pf,      \* the variables pf_* of the process
  names,   \* the four SNMP name lists, also variables of the process
  file,    \* the configuration files, sequences of lines
  tmp,     \* the temporary files that exist
  call,    \* the call of ddp_platform_set_field in progress
  faults,  \* how many failures there have been
  others,  \* how often others have rewritten a file
  short    \* history: files that a full disk has left truncated

platformVars == <<pf, names, file, tmp, call, faults, others, short>>

\* No call in progress; result is what the last one returned, 0 or not.
NoCall(ok) == [at |-> "none", field |-> "none", val |-> 0, in |-> <<>>, cut |-> FALSE, ok |-> ok]
Idle == call.at = "none"

\* ddp_platform_init fills half of each list (5 of 10).
FreshNames == [l \in Lists |-> [i \in 1..(NamesMax \div 2) |-> i]]

InitPlatform ==
  /\ pf = Defaults
  /\ names = FreshNames
  /\ file \in {c \in [Files -> UNION {Contents[n] : n \in Files}] : \A n \in Files : c[n] \in Contents[n]}
  /\ tmp = <<>>
  /\ call = NoCall(TRUE)
  /\ faults = 0 /\ others = 0 /\ short = {}

-----------------------------------------------------------------------------
(* Lines.  The setters look for "nameserver " anywhere in a line, comments  *)
(* included; the getters take the first word of the line.                   *)

Indices(s, keys) == {i \in DOMAIN s : s[i].key \in keys}
Nth(I, n) == CHOOSE i \in I : Cardinality({j \in I : j <= i}) = n
HasNth(I, n) == Cardinality(I) >= n
Put(s, i, key, val) == [s EXCEPT ![i] = [key |-> key, val |-> val]]

\* The n-th line with a name server becomes v, if there are that many.
SetDnsLine(s, n, v) ==
  LET I == Indices(s, {"nameserver", "#nameserver"})
  IN IF HasNth(I, n) THEN Put(s, Nth(I, n), "nameserver", v) ELSE s

\* Every line "webport=" gets the value of the first byte of the port.
SetPortLine(s, v) ==
  [i \in DOMAIN s |-> IF s[i].key = "webport" THEN [s[i] EXCEPT !.val = v % 256] ELSE s[i]]

\* What the copy of the file holds when field f is set to v.
Edited(f, s, v) ==
  CASE f = "PRIMARY_DNS"      -> SetDnsLine(s, 1, v)
    [] f = "SECONDARY_DNS"    -> SetDnsLine(s, 2, v)
    [] f = "WEB_SERVICE_PORT" -> SetPortLine(s, v)
    [] f = "SYSTEM_NAME"      -> s

-----------------------------------------------------------------------------
(* Getters. *)

FromFile(f, s, n, keys) ==
  IF HasNth(Indices(s, keys), n) THEN s[Nth(Indices(s, keys), n)].val ELSE pf[f]

ReadPrimaryDns == FromFile("PRIMARY_DNS", file["resolv.conf"], 1, {"nameserver"})
ReadSecondaryDns == FromFile("SECONDARY_DNS", file["resolv.conf"], 2, {"nameserver"})
\* The last line "webport=" wins.
ReadWebPort ==
  LET s == file["ddp_config"]
      I == Indices(s, {"webport"})
  IN IF I = {} THEN pf["WEB_SERVICE_PORT"] ELSE s[Nth(I, Cardinality(I))].val
\* The getters of address and mask copy nothing when the system cannot tell.
NoValue == -1
ReadSystem(f) ==
  IF f \in DOMAIN System THEN System[f]
  ELSE IF f \in {"DEVICE_IP_ADDR", "SUBNET_MASK"} THEN NoValue ELSE pf[f]

Read(f) ==
  CASE f = "PRIMARY_DNS"      -> ReadPrimaryDns
    [] f = "SECONDARY_DNS"    -> ReadSecondaryDns
    [] f = "WEB_SERVICE_PORT" -> ReadWebPort
    [] f \in Shadowed \cup {"SYSTEM_NAME"} -> ReadSystem(f)
    [] OTHER                  -> pf[f]

\* Reading the web port and the settings below assigns the variable as well.
Refresh(F) ==
  pf' = [f \in InPf |->
           IF f \in F \cap {"WEB_SERVICE_PORT", "SYSTEM_NAME", "CUSTOMIZED_DNS", "DHCP"}
           THEN Read(f) ELSE pf[f]]

-----------------------------------------------------------------------------
(* ddp_platform_set_field, for the settings that are set in one step. *)

\* MUTANT: a setter of the name lists does not look for a free place.
Accepts_NoLimit(f, v) == f \in Lists => v # 0

\* The setter returns 0.  The address of an NTP server stands for its format:
\* 0, a name, is refused, since its first byte is taken for an empty string.
Accepts(f, v) ==
  CASE f = "NTP_SERVER" -> v \in {1, 2}
    [] f = "DATE_TIME"  -> v # 0
    [] f \in Lists      -> v # 0 /\ Len(names[f]) < NamesMax
    [] OTHER            -> TRUE

\* A name goes into the first free place of its list.
AddName(l, v) == names' = [names EXCEPT ![l] = Append(@, v)] /\ UNCHANGED pf

\* MUTANT: a setter prints the new value and forgets to keep it.
Assign_Forgets(f, v) == UNCHANGED <<pf, names>>

Assign(f, v) ==
  CASE f \in Lists               -> AddName(f, v)
    [] f \in Unkept \cup Restarts -> UNCHANGED <<pf, names>>
    [] OTHER                     -> pf' = [pf EXCEPT ![f] = v] /\ UNCHANGED names

\* One call for a setting that no file holds; ok is what it returns.
SetAtOnce(f, v, ok) ==
  /\ Idle /\ f \in Fields \ InFile
  /\ ok \/ ~Accepts(f, v) \/ f \in Refused
  /\ ok => Accepts(f, v)
  /\ IF ok THEN Assign(f, v) ELSE UNCHANGED <<pf, names>>
  /\ call' = NoCall(ok)
  /\ UNCHANGED <<file, tmp, faults, others, short>>

-----------------------------------------------------------------------------
(* ddp_platform_set_field, for the settings in a file. *)

TmpWith(n, s) == [m \in DOMAIN tmp \cup {n} |-> IF m = n THEN s ELSE tmp[m]]
TmpWithout(n) == [m \in DOMAIN tmp \ {n} |-> tmp[m]]

Opened(f, v) ==
  [at |-> "copy", field |-> f, val |-> v, in |-> file[FileOf[f]],
   cut |-> FileOf[f] \in short, ok |-> TRUE]

\* MUTANT: the file itself is opened for writing, which empties it.
SetOpen_InPlace(f, v) ==
  /\ Idle /\ f \in InFile
  /\ call' = Opened(f, v)
  /\ tmp' = TmpWith(FileOf[f], <<>>)
  /\ file' = [file EXCEPT ![FileOf[f]] = <<>>]
  /\ UNCHANGED <<pf, names, faults, others, short>>

\* Both fopen succeed: the old content can be read to its end from now on,
\* whatever replaces the file, and the temporary file is empty.
SetOpen(f, v) ==
  /\ Idle /\ f \in InFile
  /\ call' = Opened(f, v)
  /\ tmp' = TmpWith(FileOf[f], <<>>)
  /\ UNCHANGED <<pf, names, file, faults, others, short>>

\* One of the two fopen fails: the call returns -2.  The stream that the other
\* one opened is left open, and a temporary file may be left behind.
SetOpenFails(f) ==
  /\ Idle /\ f \in InFile /\ faults < MaxFaults
  /\ faults' = faults + 1
  /\ call' = NoCall(FALSE)
  /\ tmp' \in {tmp, TmpWith(FileOf[f], <<>>)}
  /\ UNCHANGED <<pf, names, file, others, short>>

\* The lines are copied, one of them replaced.
SetCopy ==
  /\ call.at = "copy"
  /\ tmp' = TmpWith(FileOf[call.field], Edited(call.field, call.in, call.val))
  /\ call' = [call EXCEPT !.at = "rename"]
  /\ UNCHANGED <<pf, names, file, faults, others, short>>

\* The disk is full: the results of fputs and fclose are not looked at.
SetCopyShort ==
  LET n == FileOf[call.field]
      all == Edited(call.field, call.in, call.val)
  IN /\ call.at = "copy" /\ faults < MaxFaults
     /\ faults' = faults + 1
     /\ \E k \in 0..(Len(all) - 1) : tmp' = TmpWith(n, SubSeq(all, 1, k))
     /\ call' = [call EXCEPT !.at = "rename", !.cut = TRUE]
     /\ UNCHANGED <<pf, names, file, others, short>>

SetRename ==
  /\ call.at = "rename"
  /\ file' = [file EXCEPT ![FileOf[call.field]] = tmp[FileOf[call.field]]]
  /\ tmp' = TmpWithout(FileOf[call.field])
  /\ short' = IF call.cut THEN short \cup {FileOf[call.field]} ELSE short \ {FileOf[call.field]}
  /\ call' = [call EXCEPT !.at = "store"]
  /\ UNCHANGED <<pf, names, faults, others>>

\* The variable is assigned and the call returns 0; of the port, one byte.
SetStore ==
  /\ call.at = "store"
  /\ pf' = [pf EXCEPT ![call.field] =
               IF call.field = "WEB_SERVICE_PORT" THEN call.val % 256 ELSE call.val]
  /\ call' = NoCall(TRUE)
  /\ UNCHANGED <<names, file, tmp, faults, others, short>>

-----------------------------------------------------------------------------
(* Outside. *)

\* The DHCP client, an administrator: another program replaces a file.
OthersWrite(n) ==
  /\ others < MaxOthers
  /\ others' = others + 1
  /\ \E c \in Contents[n] : c # file[n] /\ file' = [file EXCEPT ![n] = c]
  /\ short' = short \ {n}
  /\ UNCHANGED <<pf, names, tmp, call, faults>>

\* The process ends and is started again: the files stay, the rest is fresh.
RestartPlatform ==
  /\ pf' = Defaults
  /\ names' = FreshNames
  /\ call' = NoCall(TRUE)
  /\ UNCHANGED <<file, tmp, faults, others, short>>

-----------------------------------------------------------------------------
(* Properties. *)

PlatformTypeOK ==
  /\ pf \in [InPf -> Nat]
  /\ \A l \in Lists : names[l] \in Seq(Nat) /\ Len(names[l]) <= NamesMax
  /\ file \in [Files -> Seq(Lines)]
  /\ DOMAIN tmp \subseteq Files /\ \A n \in DOMAIN tmp : tmp[n] \in Seq(Lines)
  /\ call.at \in {"none", "copy", "rename", "store"}
  /\ ~Idle => /\ call.field \in InFile /\ call.in \in Seq(Lines)
              /\ call.at = "rename" => FileOf[call.field] \in DOMAIN tmp
  /\ faults \in 0..MaxFaults /\ others \in 0..MaxOthers /\ short \subseteq Files

\* s is the content c in which only lines that setters replace have changed.
EditOf(s, c) ==
  /\ Len(s) = Len(c)
  /\ \A i \in DOMAIN c :
       \/ s[i] = c[i]
       \/ c[i].key \in Own /\ s[i].key \in Own \ {"#nameserver"}

\* A configuration file is whole at every moment, also when the process ends
\* in the middle of a setter (ddp_platform.c:2056-2067): it has all the lines
\* that somebody else has given it, with other values in the lines the setters
\* replace.  A full disk, which they do not notice, is the one exception.
FileWhole ==
  \A n \in Files \ short : \E c \in Contents[n] : EditOf(file[n], c)
=============================================================================
