------------------------------ MODULE Upgrade ------------------------------
(***************************************************************************)
(* Firmware upgrade, configuration backup and restore                      *)
(* (ddp_proto_upgrade.c and the part of tftp_cli.c the build uses,         *)
(* USE_SYS_TFTP).  The proc thread answers CONFIG and QUERY requests.  A   *)
(* CONFIG takes g_upgradeFlag, fills g_tftpInfo and creates a detached     *)
(* thread that runs the tftp command, writes the status and gives the flag *)
(* back.  A QUERY answers the status.  At the end of the daemon the main   *)
(* thread waits for the flag, having joined the others (module Lifecycle). *)
(*                                                                         *)
(* The flag is read and set under g_upgradeMutex, one call after another;  *)
(* g_tftpInfo is shared without a lock.                                    *)
(***************************************************************************)
EXTENDS Integers

CONSTANTS
  Workers,  \* names for the detached tftp threads
  Urls,     \* the file paths a CONFIG may carry
  Empty     \* the empty file path

ASSUME UpgradeAssumption == Workers # {} /\ Urls # {}

Ops == {"fw", "backup", "restore"}
Families == {"ip", "other"}  \* ipType: IPv4 and IPv6, or an unsupported value
Configs == [op : Ops, url : Urls, fam : Families]
Statuses == {"SUCCESS", "FAIL", "UNDER_PROCESS"}
Outcomes == {"none", "pending", "ok", "failed", "killed"}

VARIABLES
  flag,     \* g_upgradeFlag
  info,     \* g_tftpInfo: the action, remote file and server of a CONFIG ...
  status,   \* ... and g_tftpInfo.status
  wpc,      \* wpc[w]: where a tftp thread is, "none" when it does not exist
  job,      \* job[w]: history, the CONFIG it was created for
  ppc, req, \* the proc thread: location, CONFIG in progress
  reply,    \* the last answer sent: retCode and status, "none" before the first
  over,     \* DDP_OVER_SIG
  main,     \* the main thread: waiting for the flag, or exited
  last      \* history: how the transfer of the last CONFIG that took the flag went

upgradeVars == <<flag, info, status, wpc, job, ppc, req, reply, over, main, last>>
NoConfig == [op |-> "fw", url |-> Empty, fam |-> "other"]   \* a cleared tftp_info
NoReply == [sub |-> "none", ret |-> "ok", status |-> "SUCCESS"]

UpgradeInit ==
  /\ flag = 0
  /\ info = NoConfig /\ status = "SUCCESS"
  /\ wpc = [w \in Workers |-> "none"]
  /\ job = [w \in Workers |-> NoConfig]
  /\ ppc = "top" /\ req = NoConfig
  /\ reply = NoReply
  /\ over = FALSE /\ main = "wait"
  /\ last = "none"

Active == {w \in Workers : wpc[w] # "none"}
Answer(sub, ret, st) == reply' = [sub |-> sub, ret |-> ret, status |-> st]

-----------------------------------------------------------------------------
(* The proc thread. *)

LoopTop ==
  /\ ppc = "top"
  /\ ppc' = IF over THEN "stopped" ELSE "idle"
  /\ UNCHANGED <<flag, info, status, wpc, job, req, reply, over, main, last>>

\* An empty queue, a message for another handler, or no memory for an answer.
NoMessage ==
  /\ ppc = "idle"
  /\ ppc' = "top"
  /\ UNCHANGED <<flag, info, status, wpc, job, req, reply, over, main, last>>

\* Refused: a CONFIG of the wrong length; no body, or a wrong user or password,
\* where the body of the answer stays cleared.
Refuse ==
  /\ ppc = "idle"
  /\ Answer("config", "fail", "FAIL") \/ Answer("none", "fail", "SUCCESS")
  /\ ppc' = "top"
  /\ UNCHANGED <<flag, info, status, wpc, job, req, over, main, last>>

\* A sub service type that is neither CONFIG nor QUERY: an empty success.
Unknown ==
  /\ ppc = "idle"
  /\ Answer("none", "ok", "SUCCESS")
  /\ ppc' = "top"
  /\ UNCHANGED <<flag, info, status, wpc, job, req, over, main, last>>

\* A CONFIG with a local tftp_info made from it.
Config ==
  /\ ppc = "idle"
  /\ req' \in Configs
  /\ ppc' = "get"
  /\ UNCHANGED <<flag, info, status, wpc, job, reply, over, main, last>>

\* ddp_upgrade_get_flag() == 0; there is no else: the answer is a success.
GetFlag ==
  /\ ppc = "get"
  /\ \/ flag = 0 /\ ppc' = "set" /\ UNCHANGED reply
     \/ flag # 0 /\ ppc' = "top" /\ Answer("config", "ok", "SUCCESS")
  /\ UNCHANGED <<flag, info, status, wpc, job, req, over, main, last>>

\* ddp_upgrade_set_flag(1).  Its failure, which would be answered "Tftp is running
\* already", needs a second thread that sets the flag: the daemon has none.
SetFlag ==
  /\ ppc = "set"
  /\ flag = 0
  /\ flag' = 1
  /\ ppc' = "fill"
  /\ last' = "pending"
  /\ UNCHANGED <<info, status, wpc, job, req, reply, over, main>>

\* memset and memcpy of g_tftpInfo; a cleared status reads SUCCESS.
Fill ==
  /\ ppc = "fill"
  /\ info' = req
  /\ status' = "SUCCESS"
  /\ ppc' = "cli"
  /\ UNCHANGED <<flag, wpc, job, req, reply, over, main, last>>

\* tftp_cli refuses an empty remote file; nobody gives the flag back.
CliInvalid ==
  /\ ppc = "cli" /\ info.url = Empty
  /\ status' = "FAIL"
  /\ Answer("config", "fail", "FAIL")
  /\ ppc' = "top"
  /\ last' = "failed"
  /\ UNCHANGED <<flag, info, wpc, job, req, over, main>>

\* MUTANT: the flag is given back once the thread is created.
CliCreate_ClearsFlag ==
  /\ ppc = "cli" /\ info.url # Empty
  /\ \E w \in Workers :
       /\ wpc[w] = "none"
       /\ wpc' = [wpc EXCEPT ![w] = "start"]
       /\ job' = [job EXCEPT ![w] = info]
  /\ flag' = 0
  /\ Answer("config", "ok", "SUCCESS")
  /\ ppc' = "top"
  /\ UNCHANGED <<info, status, req, over, main, last>>

\* The detached thread is created.
CliCreate ==
  /\ ppc = "cli" /\ info.url # Empty
  /\ \E w \in Workers :
       /\ wpc[w] = "none"
       /\ wpc' = [wpc EXCEPT ![w] = "start"]
       /\ job' = [job EXCEPT ![w] = info]
  /\ Answer("config", "ok", "SUCCESS")
  /\ ppc' = "top"
  /\ UNCHANGED <<flag, info, status, req, over, main, last>>

\* MUTANT: the flag is kept when no thread could be created.
CliCreateFails_KeepsFlag ==
  /\ ppc = "cli" /\ info.url # Empty
  /\ status' = "FAIL"
  /\ Answer("config", "fail", "FAIL")
  /\ ppc' = "top"
  /\ last' = "failed"
  /\ UNCHANGED <<flag, info, wpc, job, req, over, main>>

\* pthread_create fails, "in case of failing to create thread".
CliCreateFails ==
  /\ ppc = "cli" /\ info.url # Empty
  /\ status' = "FAIL"
  /\ flag' = 0
  /\ Answer("config", "fail", "FAIL")
  /\ ppc' = "top"
  /\ last' = "failed"
  /\ UNCHANGED <<info, wpc, job, req, over, main>>

\* QUERY, whatever the flag.
Query ==
  /\ ppc = "idle"
  /\ Answer("query", "ok", status)
  /\ ppc' = "top"
  /\ UNCHANGED <<flag, info, status, wpc, job, req, over, main, last>>

-----------------------------------------------------------------------------
(* A tftp thread, sys_tftp_get or sys_tftp_put. *)

\* An address family it does not know, or inet_ntop fails.
AddressFails(w) ==
  /\ wpc[w] = "start"
  /\ wpc' = [wpc EXCEPT ![w] = "failed"]
  /\ last' = "failed"
  /\ UNCHANGED <<flag, info, status, job, ppc, req, reply, over, main>>

\* The status before the command is run.
StartTransfer(w) ==
  /\ wpc[w] = "start" /\ info.fam = "ip"
  /\ status' = "UNDER_PROCESS"
  /\ wpc' = [wpc EXCEPT ![w] = "transfer"]
  /\ UNCHANGED <<flag, info, job, ppc, req, reply, over, main, last>>

\* system() returns: the command succeeded, failed, or was killed by a signal.
\* ret is WEXITSTATUS, which is 0 for a command that a signal killed.
Transferred(w) ==
  /\ wpc[w] = "transfer"
  /\ last' \in {"ok", "failed", "killed"}
  /\ wpc' = [wpc EXCEPT ![w] = IF last' = "failed" THEN "failed" ELSE "succeeded"]
  /\ UNCHANGED <<flag, info, status, job, ppc, req, reply, over, main>>

\* MUTANT: a failure is not reported.
Report_OnlySuccess(w) ==
  /\ wpc[w] \in {"failed", "succeeded"}
  /\ status' = IF wpc[w] = "failed" THEN status ELSE "SUCCESS"
  /\ wpc' = [wpc EXCEPT ![w] = "clear"]
  /\ UNCHANGED <<flag, info, job, ppc, req, reply, over, main, last>>

\* info->status, by ret.
Report(w) ==
  /\ wpc[w] \in {"failed", "succeeded"}
  /\ status' = IF wpc[w] = "failed" THEN "FAIL" ELSE "SUCCESS"
  /\ wpc' = [wpc EXCEPT ![w] = "clear"]
  /\ UNCHANGED <<flag, info, job, ppc, req, reply, over, main, last>>

\* MUTANT: the flag is kept.
ClearFlag_Keeps(w) ==
  /\ wpc[w] = "clear"
  /\ wpc' = [wpc EXCEPT ![w] = "none"]
  /\ UNCHANGED <<flag, info, status, job, ppc, req, reply, over, main, last>>

\* ddp_upgrade_set_flag(0), and the thread ends.
ClearFlag(w) ==
  /\ wpc[w] = "clear"
  /\ flag' = 0
  /\ wpc' = [wpc EXCEPT ![w] = "none"]
  /\ UNCHANGED <<info, status, job, ppc, req, reply, over, main, last>>

-----------------------------------------------------------------------------
(* ddp_terminate, and the end of ddp_entrance. *)

Terminate ==
  /\ ~over
  /\ over' = TRUE
  /\ UNCHANGED <<flag, info, status, wpc, job, ppc, req, reply, main, last>>

\* MUTANT: the main thread does not wait for the flag.
MainExit_NoWait ==
  /\ main = "wait" /\ ppc = "stopped"
  /\ main' = "exit"
  /\ UNCHANGED <<flag, info, status, wpc, job, ppc, req, reply, over, last>>

\* while (ddp_upgrade_get_flag() != 0) sleep(1), after the other threads ended.
MainExit ==
  /\ main = "wait" /\ ppc = "stopped"
  /\ flag = 0
  /\ main' = "exit"
  /\ UNCHANGED <<flag, info, status, wpc, job, ppc, req, reply, over, last>>

Handler == GetFlag \/ SetFlag \/ Fill \/ CliInvalid \/ CliCreate \/ CliCreateFails
Proc == LoopTop \/ NoMessage \/ Refuse \/ Unknown \/ Config \/ Query \/ Handler
Tftp(w) == \/ AddressFails(w) \/ StartTransfer(w) \/ Transferred(w)
           \/ Report(w) \/ ClearFlag(w)
UpgradeNext == Proc \/ (\E w \in Workers : Tftp(w)) \/ Terminate \/ MainExit

\* The threads are scheduled and the tftp command ends by itself (it has its own
\* timeout; tftp_terminate does not reach it).  Requests and the signal may not come.
UpgradeFairness == WF_upgradeVars(Proc) /\ WF_upgradeVars(MainExit) /\ \A w \in Workers : WF_upgradeVars(Tftp(w))

UpgradeSpec == UpgradeInit /\ [][UpgradeNext]_upgradeVars
UpgradeFairSpec == UpgradeSpec /\ UpgradeFairness

-----------------------------------------------------------------------------
\* The types of the variables.
UpgradeTypeOK ==
  /\ flag \in {0, 1}
  /\ info \in Configs \cup {NoConfig}
  /\ status \in Statuses
  /\ wpc \in [Workers -> {"none", "start", "transfer", "failed", "succeeded", "clear"}]
  /\ job \in [Workers -> Configs \cup {NoConfig}]
  /\ ppc \in {"top", "idle", "get", "set", "fill", "cli", "stopped"}
  /\ req \in Configs \cup {NoConfig}
  /\ reply \in [sub : {"none", "config", "query"}, ret : {"ok", "fail"}, status : Statuses]
  /\ over \in BOOLEAN /\ main \in {"wait", "exit"}
  /\ last \in Outcomes

\* ddp_proto_upgrade.c, "Only 1 tftp thread is allowed, this flag is designed to
\* do mutex": never two tftp threads, although the flag is tested and taken in
\* two calls, given back by another thread, and g_tftpInfo has no lock.
OneTransfer == \A v, w \in Active : v = w

\* While a tftp thread lives, g_tftpInfo, which it reads as it goes, is the
\* request it was created for: no later request gets into it.
NoOverwrite == \A w \in Active : info = job[w]

\* A tftp thread is never alive without the flag, and the flag is only ever kept
\* without one while the proc thread starts it or by a request without a file.
FlagAccounted ==
  /\ Active # {} => flag = 1
  /\ flag = 1 => Active # {} \/ ppc \in {"fill", "cli"} \/ info.url = Empty

\* With the flag free, what a QUERY is answered is how the last transfer ended
\* (where, to the code, a killed command is one that succeeded).
SettledStatus ==
  flag = 0 /\ last # "none" =>
    /\ last # "pending"
    /\ status = IF last = "failed" THEN "FAIL" ELSE "SUCCESS"

\* ddp.c, "main thread check upgrade flag to confirm no tftp thread is running":
\* when the main thread goes on, none is, and none will start.
ExitSafe == main = "exit" => Active = {} /\ ppc = "stopped"

\* ... and in the end the main thread does go on, unless a CONFIG without a file
\* took the flag, which nobody gives back then (tftp_cli.c:757).
Exits == over ~> (main = "exit" \/ (flag = 1 /\ info.url = Empty))

\* "Since tftp thread is detached thread, main thread check upgrade flag to confirm
\* no tftp thread is running" (ddp.c:1167-1168): as each ends, so does the wait.
ExitsAlways == over ~> main = "exit"

\* A tftp thread that was started gives the flag back.
TransferEnds == \A w \in Workers : (wpc[w] # "none") ~> (wpc[w] = "none" /\ flag = 0)
=============================================================================
