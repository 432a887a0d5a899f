------------------------------- MODULE Reports ------------------------------
(***************************************************************************)
(* aureport: the command line (aureport-options.c), the choice of events   *)
(* and the counters (aureport-scan.c), the lists of distinct strings and   *)
(* numbers (ausearch-string.c, ausearch-int.c), the lines and the totals   *)
(* (aureport-output.c) and the main loop (aureport.c).  Record types are   *)
(* the numbers of libaudit.h.  An event carries everything its records     *)
(* say; extraction keeps what the report asked for.  Titles, dates and     *)
(* escapes are left out.  The lines that come out of the log while a file  *)
(* is open are that file's events.                                         *)
(***************************************************************************)
EXTENDS Integers, Sequences, FiniteSets, SequencesExt, TLC

CONSTANTS RptWorlds,     \* command lines with logs
          LoginName      \* uid -> login name, "" for none (getpwuid)

VARIABLES rworld,        \* the words of the command line and the log files
          rq,            \* what the options set
          rpc,           \* "options", "read", "done"
          rpos,          \* file and event to read next
          sd,            \* the counters and lists of the summary
          lines,         \* what has been printed
          span,          \* times: this file's first and last, the log's first and last
          rexit          \* exit status
rptVars == <<rworld, rq, rpc, rpos, sd, lines, span, rexit>>

T == [USER_AUTH |-> 1100, USER_MGMT |-> 1102, USER_AVC |-> 1107, USER_CHAUTHTOK |-> 1108, USER_LOGIN |-> 1112,
      ADD_USER |-> 1114, DEL_USER |-> 1115, ADD_GROUP |-> 1116, DEL_GROUP |-> 1117, USYS_CONFIG |-> 1111,
      USER_TTY |-> 1124, GRP_AUTH |-> 1126, GRP_MGMT |-> 1132, DAEMON_CONFIG |-> 1203, SYSCALL |-> 1300,
      CONFIG_CHANGE |-> 1305, TTY |-> 1319, NETFILTER_CFG |-> 1325, SECCOMP |-> 1326, FEATURE_CHANGE |-> 1328,
      AVC |-> 1400, MAC_POLICY_LOAD |-> 1403, MAC_CIPSOV4_ADD |-> 1407, MAC_CIPSOV4_DEL |-> 1408,
      MAC_MAP_ADD |-> 1409, MAC_MAP_DEL |-> 1410, MAC_IPSEC_ADDSA |-> 1411, MAC_IPSEC_DELSA |-> 1412,
      MAC_IPSEC_ADDSPD |-> 1413, MAC_IPSEC_DELSPD |-> 1414, MAC_UNLBL_STCADD |-> 1416, MAC_UNLBL_STCDEL |-> 1417,
      ROLE_ASSIGN |-> 2301, ROLE_REMOVE |-> 2302, USER_MAC_CONFIG_CHANGE |-> 2312]
KernCrypto == 1600..1699
KernAnom == 1700..1799
Integrity == 1800..1899
Anom == 2100..2199
AnomResp == 2200..2299
UserLspp == 2300..2399
Crypto == 2400..2499
Virt == 2500..2599

----------------------------------------------------------------------------
(* Options.  What each report asks the parsers for, besides what they      *)
(* always take (the pid, the result, the system call and the account).     *)
LoginUid == {"loginuid"}
Place == {"hostname", "terminal"}
AuthAsks == {"exe", "uid"} \cup Place
AsksPlain(r) ==
  CASE r = "AVC" -> {"comm", "scontext", "tcontext"}
    [] r = "AUTH" -> AuthAsks
    [] r \in {"MAC", "INTEG", "CONFIG", "CRYPTO", "EVENT"} -> LoginUid
    [] r \in {"LOGIN", "ACCT_MOD"} -> {"exe"} \cup Place \cup LoginUid
    [] r = "TTY" -> {"session_id", "terminal", "comm"} \cup LoginUid
    [] r = "SUMMARY" -> {"filename", "exe", "comm", "key"} \cup Place \cup LoginUid
    [] OTHER -> {}                                       \* VIRT, TIME
AsksItem(r) ==
  CASE r = "FILE" -> {"filename", "exe"} \cup LoginUid
    [] r = "HOST" -> {"hostname"} \cup LoginUid
    [] r = "PID" -> {"exe"} \cup LoginUid
    [] r = "SYSCALL" -> {"comm"} \cup LoginUid
    [] r \in {"TERM", "EXE"} -> {"exe"} \cup Place \cup LoginUid
    [] r = "USER" -> {"exe", "uid"} \cup Place \cup LoginUid
    [] r = "COMM" -> {"comm"} \cup Place \cup LoginUid
    [] r = "ANOMALY" -> {"exe", "comm"} \cup Place \cup LoginUid
    [] r = "KEY" -> {"exe", "key"} \cup LoginUid
    [] r = "RESPONSE" -> {}

NoArgument == {"FILE", "HOST", "PID", "SYSCALL", "TERM", "USER", "EXE", "COMM", "ANOMALY", "RESPONSE", "KEY"}
ReportNames == NoArgument \cup {"TIME", "AVC", "AUTH", "MAC", "INTEG", "VIRT", "CONFIG", "CRYPTO", "LOGIN", "ACCT_MOD",
                                "EVENT", "TTY"}
NoReport == [report |-> "UNSET", detail |-> "UNSET", interp |-> FALSE, failed |-> "both", act |-> "both", nodes |-> {},
             no_config |-> FALSE, start |-> 0, end |-> 0]

(* A summary asked for wins over the lines, in either order.               *)
set_detail(q, d) == IF q.detail = "UNSET" \/ d = "SUM" THEN [q EXCEPT !.detail = d] ELSE q

RefuseOptions(st) == [st EXCEPT !.ret = 1]
RptOption(st, w) ==
  LET opt == w[st.c].opt
      arg == IF st.c < Len(w) /\ ~w[st.c + 1].dash THEN <<w[st.c + 1]>> ELSE <<>>
      Take(q) == [st EXCEPT !.q = q, !.c = @ + 1]
  IN CASE opt \in ReportNames ->
            IF st.q.report # "UNSET" \/ (opt \in NoArgument /\ arg # <<>>) THEN RefuseOptions(st)
            ELSE [st EXCEPT !.q = set_detail([@ EXCEPT !.report = opt], "DETAILED")]
       [] opt = "summary" -> [st EXCEPT !.q = set_detail(@, "SUM")]
       [] opt = "interpret" -> IF arg # <<>> THEN RefuseOptions(st) ELSE [st EXCEPT !.q.interp = TRUE]
       [] opt \in {"failed", "success"} -> [st EXCEPT !.q.failed = opt]
       [] opt \in {"add", "delete"} -> [st EXCEPT !.q.act = opt]
       [] opt = "no-config" -> [st EXCEPT !.q.no_config = TRUE]
       [] opt \in {"node", "start", "end"} /\ arg = <<>> -> RefuseOptions(st)
       [] opt = "node" -> Take([st.q EXCEPT !.nodes = @ \cup {arg[1].opt}])
       [] opt \in {"start", "end"} -> Take([st.q EXCEPT ![opt] = arg[1].n])
       [] OTHER -> RefuseOptions(st)

RECURSIVE RptOptionLoop(_, _)
RptOptionLoop(st, w) ==
  IF st.ret # 0 \/ st.c > Len(w) THEN st
  ELSE LET after == RptOption(st, w) IN RptOptionLoop([after EXCEPT !.c = @ + 1], w)

(* With no report named it is the main summary.                            *)
RptParams(w) ==
  LET st == RptOptionLoop([q |-> NoReport, c |-> 1, ret |-> 0], w)
  IN IF st.ret = 0 /\ st.q.report = "UNSET"
     THEN [st EXCEPT !.q = set_detail([@ EXCEPT !.report = "SUMMARY"], "SUM")] ELSE st

----------------------------------------------------------------------------
(* The lists: strings by first appearance, numbers in order; each with its *)
(* hits.  The sort swaps the first pair that is out of order and starts    *)
(* over.                                                                   *)
Hits(l, x) == \E i \in DOMAIN l : l[i].of = x
Again_Keep(l, x) == l
Again(l, x) == [i \in DOMAIN l |-> IF l[i].of = x THEN [l[i] EXCEPT !.hits = @ + 1] ELSE l[i]]
slist_add_if_uniq(l, x) ==
  IF x = "" THEN l ELSE IF Hits(l, x) THEN Again(l, x) ELSE Append(l, [of |-> x, hits |-> 1])
ilist_add_if_uniq(l, x) ==
  IF Hits(l, x) THEN Again(l, x)
  ELSE LET below == Len(SelectSeq(l, LAMBDA e : e.of < x)) IN InsertAt(l, below + 1, [of |-> x, hits |-> 1])
AddAll(l, xs) == FoldLeft(slist_add_if_uniq, l, xs)

OutOfOrder(l) == {i \in 1..(Len(l) - 1) : l[i].hits < l[i + 1].hits}
RECURSIVE sort_by_hits(_)
sort_by_hits(l) ==
  IF OutOfOrder(l) = {} THEN l
  ELSE LET i == CHOOSE k \in OutOfOrder(l) : \A j \in OutOfOrder(l) : k <= j
       IN sort_by_hits([l EXCEPT ![i] = l[i + 1], ![i + 1] = l[i]])

reset_counters ==
  [changes |-> 0, crypto |-> 0, acct_changes |-> 0, good_logins |-> 0, bad_logins |-> 0, good_auth |-> 0,
   bad_auth |-> 0, events |-> 0, avcs |-> 0, mac |-> 0, failed_syscalls |-> 0, anomalies |-> 0, responses |-> 0,
   virt |-> 0, integ |-> 0, users |-> <<>>, terms |-> <<>>, files |-> <<>>, hosts |-> <<>>, exes |-> <<>>,
   comms |-> <<>>, avc_objs |-> <<>>, keys |-> <<>>, sys_list |-> <<>>,
   pids |-> <<>>, types |-> <<>>]            \* types: the list of a report on types, whichever one it is

----------------------------------------------------------------------------
(* The choice of events.                                                   *)
list_find_msg(e, t) == \E i \in DOMAIN e.types : e.types[i] = t
list_find_msg_range(e, r) == \E i \in DOMAIN e.types : e.types[i] \in r
NotSet == [success |-> -1, loginuid |-> -2, uid |-> -1, pid |-> -1, syscall |-> 0, session_id |-> -2, terminal |-> "",
          hostname |-> "", exe |-> "", comm |-> "", acct |-> "", filename |-> <<>>, key |-> <<>>, avc |-> <<>>]
AlwaysTaken == {"success", "pid", "syscall", "acct", "avc"}

Extract(q, e) ==
  LET wanted == AlwaysTaken \cup (IF q.report \in NoArgument THEN AsksItem(q.report) ELSE AsksPlain(q.report))
      Context(x, c) == IF c \in wanted THEN x[c] ELSE ""
  IN [[f \in DOMAIN NotSet |-> IF f \in wanted THEN e.items[f] ELSE NotSet[f]]
       EXCEPT !.avc = [i \in DOMAIN @ |-> [@[i] EXCEPT !.scontext = Context(e.items.avc[i], "scontext"),
                                                       !.tcontext = Context(e.items.avc[i], "tcontext")]]]

classify_success(q, s) ==
  CASE q.failed = "failed" -> s.success = 0 [] q.failed = "success" -> s.success = 1 [] OTHER -> TRUE

Additions == {T.ADD_USER, T.ADD_GROUP, T.MAC_CIPSOV4_ADD, T.MAC_MAP_ADD, T.MAC_IPSEC_ADDSA, T.MAC_IPSEC_ADDSPD,
              T.MAC_UNLBL_STCADD}
Deletions == {T.DEL_USER, T.DEL_GROUP, T.MAC_CIPSOV4_DEL, T.MAC_MAP_DEL, T.MAC_IPSEC_DELSA, T.MAC_IPSEC_DELSPD,
              T.MAC_UNLBL_STCDEL}
classify_conf(q, e) ==
  /\ ~(e.types[1] = T.CONFIG_CHANGE /\ q.no_config)
  /\ ~(e.types[1] \in Additions /\ q.act = "delete")
  /\ ~(e.types[1] \in Deletions /\ q.act = "add")

scan(q, e) ==
  /\ ~e.malformed
  /\ q.nodes = {} \/ e.node \in q.nodes
  /\ classify_success(q, Extract(q, e)) /\ classify_conf(q, e)

(* A name for a uid: what the event's enrichment says of its auid, when it *)
(* is loaded (one record, or a system call), else the password file's.     *)
aulookup_uid(q, e, uid) ==
  CASE ~q.interp -> ToString(uid)
    [] q.interp /\ uid = -1 -> "unset"
    [] q.interp /\ uid # -1 /\ e.enriched # "" /\ (Len(e.types) = 1 \/ e.types[1] = T.SYSCALL) -> e.enriched
    [] OTHER -> IF uid \in DOMAIN LoginName THEN LoginName[uid] ELSE "unknown"

----------------------------------------------------------------------------
(* The detailed reports: which events are listed, and with what.           *)
ConfigTypes == {T.CONFIG_CHANGE, T.DAEMON_CONFIG, T.USYS_CONFIG, T.NETFILTER_CFG, T.FEATURE_CHANGE,
                T.USER_MAC_CONFIG_CHANGE}
MacRange == T.MAC_POLICY_LOAD..T.MAC_UNLBL_STCDEL
ListedType(r, e, s) ==
  CASE r = "AVC" -> list_find_msg(e, T.AVC) \/ list_find_msg(e, T.USER_AVC)
    [] r = "MAC" -> list_find_msg_range(e, MacRange) \/ list_find_msg_range(e, UserLspp)
    [] r = "INTEG" -> list_find_msg_range(e, Integrity)
    [] r = "VIRT" -> list_find_msg_range(e, Virt)
    [] r = "CONFIG" -> (\E t \in ConfigTypes : list_find_msg(e, t)) \/ list_find_msg_range(e, MacRange)
    [] r = "AUTH" -> list_find_msg(e, T.USER_AUTH) \/ (list_find_msg(e, T.USER_MGMT) /\ s.success = 0)
    [] r = "LOGIN" -> list_find_msg(e, T.USER_LOGIN)
    [] r = "ACCT_MOD" ->
         \/ \E t \in {T.USER_CHAUTHTOK, T.USER_MGMT, T.GRP_MGMT} : list_find_msg(e, t)
         \/ list_find_msg_range(e, T.ADD_USER..T.DEL_GROUP) \/ list_find_msg_range(e, T.ROLE_ASSIGN..T.ROLE_REMOVE)
    [] r = "EVENT" -> TRUE
    [] r = "TTY" -> e.types[1] \in {T.TTY, T.USER_TTY}
    [] OTHER -> FALSE                                    \* TIME
ListedItem(r, e, s) ==
  CASE r = "FILE" -> s.filename # <<>>
    [] r = "HOST" -> s.hostname # ""
    [] r = "PID" -> s.pid >= 0
    [] r = "SYSCALL" -> s.syscall # 0
    [] r = "TERM" -> s.terminal # ""
    [] r = "USER" -> s.uid # -1
    [] r = "EXE" -> s.exe # ""
    [] r = "COMM" -> s.comm # ""
    [] r = "ANOMALY" -> list_find_msg_range(e, Anom \cup KernAnom) \/ list_find_msg(e, T.SECCOMP)
    [] r = "RESPONSE" -> list_find_msg_range(e, AnomResp)
    [] r = "CRYPTO" -> list_find_msg_range(e, KernCrypto \cup Crypto)
    [] r = "KEY" -> s.key # <<>> /\ s.key[1] # "(null)"
Listed(r, e, s) == IF r \in NoArgument \cup {"CRYPTO"} THEN ListedItem(r, e, s) ELSE ListedType(r, e, s)

(* The file of a line is the first that is not the directory's.            *)
LineFile(s) ==
  LET own == SelectSeq(s.filename, LAMBDA f : f.kind # "PARENT")
  IN IF Len(s.filename) = 1 THEN s.filename[1].str ELSE IF own = <<>> THEN "" ELSE own[1].str

CellsType(r, type, who, user, res, s) ==
  CASE r \in {"CONFIG", "MAC", "CRYPTO", "EVENT"} -> <<type, who, res>>
    [] r = "AUTH" -> <<IF s.acct # "" THEN s.acct ELSE user, s.hostname, s.terminal, s.exe, res>>
    [] r = "LOGIN" -> <<IF s.success = 0 /\ s.acct # "" THEN s.acct ELSE who, s.hostname, s.terminal, s.exe, res>>
    [] r = "ACCT_MOD" -> <<who, s.hostname, s.terminal, s.exe, s.acct, res>>
    [] r \in {"INTEG", "VIRT"} -> <<type, res>>
    [] r = "TTY" -> <<who, s.terminal, ToString(s.session_id), s.comm>>
CellsItem(r, type, who, call, res, s) ==
  CASE r = "FILE" -> <<LineFile(s), call, res, s.exe, who>>
    [] r = "HOST" -> <<s.hostname, call, who>>
    [] r = "PID" -> <<ToString(s.pid), s.exe, call, who>>
    [] r = "SYSCALL" -> <<call, ToString(s.pid), s.comm, who>>
    [] r = "TERM" -> <<s.terminal, s.hostname, s.exe, who>>
    [] r \in {"USER", "EXE"} -> <<who, s.terminal, s.hostname, s.exe>>
    [] r = "COMM" -> <<s.comm, s.terminal, s.hostname, who>>
    [] r = "ANOMALY" -> <<type, IF s.exe # "" THEN s.exe ELSE s.comm, s.terminal, s.hostname, who>>
    [] r = "RESPONSE" -> <<type, res>>
    [] r = "KEY" -> <<s.key[1], res, s.exe, who>>

(* The access decisions of the event, from alist_find_avc on; an event     *)
(* with none shows what the cursor is at, the node that was added last.    *)
Decisions(s) == SelectSeq(s.avc, LAMBDA a : a.result # "unset")
PrintedAccess(s) == IF Decisions(s) = <<>> THEN <<Last(s.avc)>> ELSE Decisions(s)

(* One line, or one for each access decision of the event.                 *)
print_per_event_item(q, e, s) ==
  LET who == aulookup_uid(q, e, s.loginuid)
      type == ToString(e.types[1])
      call == ToString(s.syscall)
      res == ToString(s.success)
      some == PrintedAccess(s)
  IN IF q.report = "AVC"
     THEN [i \in DOMAIN some |->
            [e |-> e, cells |-> <<s.comm, some[i].scontext, call, some[i].tcontext, some[i].result>>]]
     ELSE << [e |-> e, cells |-> IF q.report \in NoArgument THEN CellsItem(q.report, type, who, call, res, s)
                                 ELSE CellsType(q.report, type, who, aulookup_uid(q, e, s.uid), res, s)] >>
per_event_detailed(q, e, s) == IF Listed(q.report, e, s) THEN print_per_event_item(q, e, s) ELSE <<>>

----------------------------------------------------------------------------
(* The summary of one report: what each event adds to its list.            *)
MacSummaryRange == T.MAC_POLICY_LOAD..T.MAC_MAP_DEL
AddType(d, e) == [d EXCEPT !.types = ilist_add_if_uniq(@, e.types[1])]
FileNames(s) == [i \in DOMAIN s.filename |-> s.filename[i].str]
RealKeys(s) == SelectSeq(s.key, LAMBDA k : k # "(null)")
UserOf(q, e, s, unknown) ==
  IF s.loginuid \in unknown /\ s.acct # "" THEN s.acct ELSE aulookup_uid(q, e, s.loginuid)

summary_type(q, e, s, d) ==
  LET r == q.report
  IN CASE r = "AVC" ->
            IF Listed(r, e, s)
            THEN [d EXCEPT !.avc_objs = AddAll(@, [i \in DOMAIN Decisions(s) |-> Decisions(s)[i].tcontext])] ELSE d
       [] r = "MAC" -> IF list_find_msg_range(e, MacSummaryRange) \/ list_find_msg_range(e, UserLspp) THEN AddType(d, e) ELSE d
       [] r \in {"INTEG", "VIRT", "CONFIG", "ACCT_MOD", "CRYPTO"} -> IF Listed(r, e, s) THEN AddType(d, e) ELSE d
       [] r = "EVENT" -> AddType(d, e)
       [] r = "AUTH" -> IF Listed(r, e, s) THEN [d EXCEPT !.users = slist_add_if_uniq(@, UserOf(q, e, s, {-2}))] ELSE d
       [] r = "LOGIN" -> IF Listed(r, e, s) THEN [d EXCEPT !.users = slist_add_if_uniq(@, UserOf(q, e, s, {-1, -2}))] ELSE d
       [] OTHER -> d                                     \* TIME
summary_item(q, e, s, d) ==
  LET r == q.report
  IN CASE r = "FILE" -> [d EXCEPT !.files = AddAll(@, FileNames(s))]
       [] r = "HOST" -> [d EXCEPT !.hosts = slist_add_if_uniq(@, s.hostname)]
       [] r = "PID" -> IF s.pid = -1 THEN d ELSE [d EXCEPT !.pids = ilist_add_if_uniq(@, s.pid)]
       [] r = "SYSCALL" -> IF s.syscall > 0 THEN [d EXCEPT !.sys_list = slist_add_if_uniq(@, ToString(s.syscall))] ELSE d
       [] r = "TERM" -> [d EXCEPT !.terms = slist_add_if_uniq(@, s.terminal)]
       [] r = "USER" -> IF s.loginuid = -2 THEN d
                        ELSE [d EXCEPT !.users = slist_add_if_uniq(@, aulookup_uid(q, e, s.loginuid))]
       [] r = "EXE" -> [d EXCEPT !.exes = slist_add_if_uniq(@, s.exe)]
       [] r = "COMM" -> [d EXCEPT !.comms = slist_add_if_uniq(@, s.comm)]
       [] r \in {"ANOMALY", "RESPONSE"} -> IF Listed(r, e, s) THEN AddType(d, e) ELSE d
       [] r = "KEY" -> [d EXCEPT !.keys = AddAll(@, RealKeys(s))]

(* The main summary.  A test of its own for each type: an event that has   *)
(* several counts several times.                                           *)
One(b) == IF b THEN 1 ELSE 0
Msgs(e, ts) == Cardinality({t \in ts : list_find_msg(e, t)})
Ranges(e, rs) == Cardinality({r \in rs : list_find_msg_range(e, r)})
Verdicts(e, s, good) ==
  One(list_find_msg(e, T.USER_LOGIN) /\ s.success = good)
AuthVerdicts(e, s, good) ==
  IF list_find_msg(e, T.USER_AUTH) THEN One(s.success = good)
  ELSE IF list_find_msg(e, T.USER_MGMT) THEN One(good = 0 /\ s.success = 0)
  ELSE One(list_find_msg(e, T.GRP_AUTH) /\ s.success = good)

total_types(e, s, d) ==
  [d EXCEPT !.events = @ + 1,
            !.changes = @ + Msgs(e, ConfigTypes) + Ranges(e, {MacRange}),
            !.acct_changes = @ + Msgs(e, {T.USER_CHAUTHTOK, T.USER_MGMT, T.GRP_MGMT})
                               + Ranges(e, {T.ADD_USER..T.DEL_GROUP, T.ROLE_ASSIGN..T.ROLE_REMOVE}),
            !.crypto = @ + Ranges(e, {KernCrypto, Crypto}),
            !.good_logins = @ + Verdicts(e, s, 1), !.bad_logins = @ + Verdicts(e, s, 0),
            !.good_auth = @ + AuthVerdicts(e, s, 1), !.bad_auth = @ + AuthVerdicts(e, s, 0)]
total_items(e, s, d) ==
  [d EXCEPT !.users = IF s.loginuid = -2 THEN @ ELSE slist_add_if_uniq(@, ToString(s.loginuid)),
            !.terms = slist_add_if_uniq(@, s.terminal), !.hosts = slist_add_if_uniq(@, s.hostname),
            !.exes = slist_add_if_uniq(@, s.exe), !.comms = slist_add_if_uniq(@, s.comm),
            !.files = AddAll(@, FileNames(s)),
            !.avcs = @ + One(list_find_msg(e, T.AVC) \/ list_find_msg(e, T.USER_AVC)),
            !.mac = @ + Ranges(e, {MacRange, UserLspp}),
            !.virt = @ + Ranges(e, {Virt}), !.integ = @ + Ranges(e, {Integrity}),
            !.failed_syscalls = @ + One(s.success = 0 /\ s.syscall > 0),
            !.pids = IF s.pid = -1 THEN @ ELSE ilist_add_if_uniq(@, s.pid),
            !.anomalies = @ + Ranges(e, {Anom, KernAnom}), !.responses = @ + Ranges(e, {AnomResp}),
            !.keys = AddAll(@, RealKeys(s))]
do_summary_total(e, s, d) == total_items(e, s, total_types(e, s, d))

per_event_summary(q, e, s, d) ==
  IF q.report = "SUMMARY" THEN do_summary_total(e, s, d)
  ELSE IF q.report \in NoArgument THEN summary_item(q, e, s, d) ELSE summary_type(q, e, s, d)

(* print_wrap_up: the list that a summary shows, most hits first.          *)
ListOf(r) ==
  CASE r = "AVC" -> "avc_objs" [] r \in {"AUTH", "LOGIN", "USER"} -> "users" [] r = "FILE" -> "files"
    [] r = "HOST" -> "hosts" [] r = "PID" -> "pids" [] r = "SYSCALL" -> "sys_list" [] r = "TERM" -> "terms"
    [] r = "EXE" -> "exes" [] r = "COMM" -> "comms" [] r = "KEY" -> "keys" [] OTHER -> "types"
print_wrap_up(q, d) ==
  IF q.detail # "SUM" \/ q.report = "SUMMARY" THEN <<>> ELSE sort_by_hits(d[ListOf(q.report)])

----------------------------------------------------------------------------
(* main, process_logs, process_log_fd, get_event.                          *)
RptStart(w) ==
  /\ rworld = w /\ rq = NoReport /\ rpc = "options" /\ rpos = [file |-> 1, event |-> 1]
  /\ sd = reset_counters /\ lines = <<>> /\ rexit = -1
  /\ span = [first |-> 0, last |-> 0, vfirst |-> 0, vlast |-> 0]
RptInit == \E w \in RptWorlds : RptStart(w)

RptLeave(status) == rpc' = "done" /\ rexit' = status

(* Neither times nor keystrokes have a summary.                            *)
RptOptions ==
  LET st == RptParams(rworld.words)
  IN /\ rpc = "options"
     /\ rq' = st.q
     /\ IF st.ret # 0 \/ (st.q.detail = "SUM" /\ st.q.report \in {"TIME", "TTY"}) THEN RptLeave(1)
        ELSE rpc' = "read" /\ rexit' = rexit
     /\ UNCHANGED <<rworld, rpos, sd, lines, span>>

FileNow == rworld.log[rpos.file]
InPeriod(q, e) == (q.start = 0 \/ e.sec >= q.start) /\ (q.end = 0 \/ e.sec <= q.end)

KeepsTimes(q) == q.report \in {"TIME", "SUMMARY"}

RptEvent ==
  /\ rpc = "read" /\ rpos.file <= Len(rworld.log) /\ FileNow.opens /\ rpos.event <= Len(FileNow.events)
  /\ LET e == FileNow.events[rpos.event]
         s == Extract(rq, e)
         process_event == InPeriod(rq, e) /\ scan(rq, e)
     IN /\ span' = [span EXCEPT !.vfirst = IF @ = 0 THEN e.sec ELSE @,
                                 !.first = IF KeepsTimes(rq) /\ rpos.event = 1 THEN e.sec ELSE @,
                                 !.last = IF KeepsTimes(rq) THEN e.sec ELSE @]
        /\ lines' = IF process_event /\ rq.detail = "DETAILED" THEN lines \o per_event_detailed(rq, e, s) ELSE lines
        /\ sd' = IF process_event /\ rq.detail = "SUM" THEN per_event_summary(rq, e, s, sd) ELSE sd
  /\ rpos' = [rpos EXCEPT !.event = @ + 1]
  /\ UNCHANGED <<rworld, rq, rpc, rexit>>

(* The end of a file, or one that cannot be opened any more.               *)
RptFile ==
  /\ rpc = "read" /\ rpos.file <= Len(rworld.log) /\ FileNow.opens /\ rpos.event > Len(FileNow.events)
  /\ span' = [span EXCEPT !.vlast = span.last, !.first = 0, !.last = 0]
  /\ lines' = IF rq.report = "TIME" THEN Append(lines, [e |-> rpos.file, cells |-> <<ToString(span.first), ToString(span.last)>>])
               ELSE lines
  /\ rpos' = [file |-> rpos.file + 1, event |-> 1]
  /\ UNCHANGED <<rworld, rq, rpc, sd, rexit>>
RptGone ==
  /\ rpc = "read" /\ rpos.file <= Len(rworld.log) /\ ~FileNow.opens
  /\ RptLeave(1)
  /\ UNCHANGED <<rworld, rq, rpos, sd, lines, span>>

RptWrap ==
  /\ rpc = "read" /\ rpos.file > Len(rworld.log)
  /\ IF rq.detail = "DETAILED" /\ lines = <<>> /\ rq.report # "TIME" THEN RptLeave(1) /\ lines' = lines
     ELSE RptLeave(0) /\ lines' = lines \o print_wrap_up(rq, sd)
  /\ UNCHANGED <<rworld, rq, rpos, sd, span>>

RptNext == RptOptions \/ RptEvent \/ RptFile \/ RptGone \/ RptWrap
RptSpec == RptInit /\ [][RptNext]_rptVars

----------------------------------------------------------------------------
(* The events read so far that the options select, and how many of them    *)
(* the detailed report r would list.                                       *)
ReadSoFar ==
  FlattenSeq([f \in 1..Len(rworld.log) |->
               IF f < rpos.file THEN rworld.log[f].events
               ELSE IF f = rpos.file THEN SubSeq(rworld.log[f].events, 1, rpos.event - 1) ELSE <<>>])
Selected == SelectSeq(ReadSoFar, LAMBDA e : InPeriod(rq, e) /\ scan(rq, e))
ShowsNothing(r, e) == r = "AVC" /\ Decisions(e.items) = <<>>
DetailLines(r) ==
  FoldLeft(LAMBDA n, e : n + Len(per_event_detailed([rq EXCEPT !.report = r], e, Extract([rq EXCEPT !.report = r], e))),
           0, SelectSeq(Selected, LAMBDA e : ~ShowsNothing(r, e)))
DetailEvents(r) == Len(SelectSeq(Selected, LAMBDA e : Listed(r, e, e.items)))
OfType(type) == Len(SelectSeq(Selected, LAMBDA e : list_find_msg(e, type)))
FailedCalls == Len(SelectSeq(Selected, LAMBDA e : Listed("SYSCALL", e, e.items) /\ e.items.success = 0))
AllHits(l) == FoldLeft(LAMBDA n, x : n + x.hits, 0, l)

(* The counts of the main summary (do_summary_total) agree with the        *)
(* detailed reports (per_event_detailed), whatever the filters: as many    *)
(* events as the report of each kind lists.  Two of them differ by a type: *)
(* the summary counts the authentications of groups, which the report does *)
(* not list, and does not count the SECCOMP events among the anomalies.    *)
RptTotals ==
  (rq.report = "SUMMARY" /\ rpc # "options") =>
    /\ sd.events = Len(Selected)
    /\ sd.changes = DetailEvents("CONFIG") /\ sd.acct_changes = DetailEvents("ACCT_MOD")
    /\ sd.crypto = DetailEvents("CRYPTO") /\ sd.mac = DetailEvents("MAC") /\ sd.virt = DetailEvents("VIRT")
    /\ sd.integ = DetailEvents("INTEG") /\ sd.responses = DetailEvents("RESPONSE") /\ sd.avcs = DetailEvents("AVC")
    /\ sd.good_logins + sd.bad_logins = DetailEvents("LOGIN")
    /\ sd.good_auth + sd.bad_auth = DetailEvents("AUTH") + OfType(T.GRP_AUTH)
    /\ sd.anomalies + OfType(T.SECCOMP) = DetailEvents("ANOMALY")
    /\ sd.failed_syscalls = FailedCalls

(* A report's summary (per_event_summary) has as many hits as the same     *)
(* report (per_event_detailed) has lines, not counting the line of an AVC  *)
(* event without a decision ("received setenforce notice"), which is no    *)
(* hit; the mac, file, key and user reports count otherwise.               *)
RptHits ==
  (rq.detail = "SUM" /\ rq.report \notin {"SUMMARY", "TIME", "TTY", "UNSET", "MAC", "FILE", "KEY", "USER"}) =>
    AllHits(sd[ListOf(rq.report)]) = DetailLines(rq.report)

(* What a finished summary prints (slist_sort_by_hits, ilist_sort_by_hits) *)
(* is its list, each element once, most hits first.                        *)
RptSorted ==
  (rpc = "done" /\ rexit = 0 /\ rq.detail = "SUM" /\ rq.report # "SUMMARY") =>
    /\ \A i, j \in DOMAIN lines : i < j => (lines[i].hits >= lines[j].hits /\ lines[i].of # lines[j].of)
    /\ {lines[i] : i \in DOMAIN lines} = {sd[ListOf(rq.report)][i] : i \in DOMAIN sd[ListOf(rq.report)]}

(* Each column of a line (print_per_event_item) shows what the event says: *)
(* the report's option asked the parsers for everything the line prints.   *)
RptColumns ==
  (rq.detail = "DETAILED" /\ rq.report # "TIME") =>
    \A i \in DOMAIN lines : \E k \in DOMAIN print_per_event_item(rq, lines[i].e, lines[i].e.items) :
      lines[i] = print_per_event_item(rq, lines[i].e, lines[i].e.items)[k]

(* The range of time the main summary prints (do_summary_output) runs from *)
(* the first event of the logs to the last, if the newest file has one.    *)
RptRange ==
  (rpc = "done" /\ rexit = 0 /\ rq.report = "SUMMARY" /\ Last(rworld.log).events # <<>>) =>
    span.vfirst = ReadSoFar[1].sec /\ span.vlast = Last(ReadSoFar).sec

\* aureport's totals, lists and lines are those of the events in the period.
RptTrue == RptTotals /\ RptHits /\ RptSorted /\ RptColumns /\ RptRange
=============================================================================
