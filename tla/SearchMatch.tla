----------------------------- MODULE SearchMatch ----------------------------
(***************************************************************************)
(* What ausearch is asked for on its command line (ausearch-options.c) and *)
(* what it does with each event of the log (process_log_fd,                *)
(* ausearch-match.c, ausearch-avc.c, ausearch-report.c): take the fields   *)
(* from its records (ausearch-parse.c), match them against the query and   *)
(* print the records.  The supplemental data of one record at a time is    *)
(* loaded for the names it gives the ids.                                  *)
(***************************************************************************)
EXTENDS Integers, Sequences, FiniteSets, SequencesExt

CONSTANTS PwName,       \* uid -> login name, <<>> for none (getpwuid)
          PwUid,        \* login name -> uid (getpwnam)
          GrGid,        \* group name -> gid (getgrnam)
          HostMachine,  \* audit_detect_machine
          MachineOf,    \* ELF number -> machine
          SyscallOf,    \* machine -> system call's name -> its number
          ErrnoOf,      \* name of an errno -> its number
          MsgTypes      \* the record types that have a name

CONSTANT MatchWorlds   \* [one, two, events]: two parts of a command line, and the log

VARIABLES mworld,      \* the world
          query,       \* check_params' result
          cursor,      \* the event at hand
          interp,      \* [loaded, list]: ausearch-report.c's loaded, and the list
          mpc,         \* "start", "match", "print", "next", "done"
          left,        \* its records still to be printed, last first
          hits,        \* the events that matched
          shown        \* <<event, record, list it was interpreted with>>, printed
matchVars == <<mworld, query, cursor, interp, mpc, left, hits, shown>>

----------------------------------------------------------------------------
(* The fields.  A record is its type and its fields in the order of the    *)
(* text, [n, v]; text values are sequences of words.  The parsers look for *)
(* the next field from a place in the record, only for what the query asks *)
(* for, and strstr also finds a name that ends in the one wanted: "uid="   *)
(* is part of "auid=".  Each parser is the list of its searches.  The      *)
(* encoded form of texts, and the return codes that only a debugging       *)
(* message tells apart, are left out.                                      *)
NULL == <<>>            \* no string

(* list_create: the search items of a new event.                           *)
NoItems ==
  [gid |-> -1, egid |-> -1, ppid |-> -1, pid |-> -1, success |-> -1, uid |-> -1, euid |-> -1,
   loginuid |-> -2, session_id |-> -2, arch |-> 0, syscall |-> 0, exit |-> NULL,
   tuid |-> NULL, teuid |-> NULL, tauid |-> NULL,
   hostname |-> NULL, terminal |-> NULL, cwd |-> NULL, exe |-> NULL, comm |-> NULL, acct |-> NULL,
   uuid |-> NULL, vmname |-> NULL, filename |-> <<>>, key |-> <<>>,
   avc |-> FALSE, scontext |-> <<>>, tcontext |-> <<>>]

----------------------------------------------------------------------------
(* What one search writes.  lookup_uid: the name the record's enrichment   *)
(* gives, else root, unset or the password file's.                         *)
lookup_uid(il, field, uid) ==
  IF field \in DOMAIN il THEN il[field]
  ELSE IF uid = 0 THEN <<"root">> ELSE IF uid = -1 THEN <<"unset">> ELSE PwName[uid]

(* The conversions of a result: the words of each kind of record.          *)
Success(how, v) ==
  CASE how = "yes" -> IF v = "yes" THEN 1 ELSE 0
    [] how = "failed" -> IF v = "failed" THEN 0 ELSE 1
    [] how = "number" -> IF v = "1" THEN 1 ELSE 0

(* common_path_parser: a path that starts with a dot follows the cwd.      *)
common_path_parser(s, path) ==
  Append(s.filename, IF Len(path) > 0 /\ path[1] \in {".", ".."} /\ s.cwd # NULL
                     THEN s.cwd \o <<"/">> \o path ELSE path)

Stored(s, il, x, v) ==
  CASE x.to = "uid" -> [s EXCEPT !.uid = v, !.tuid = IF x.how = "unnamed" THEN @ ELSE lookup_uid(il, "uid", v)]
    [] x.to = "auid" -> [s EXCEPT !.loginuid = v, !.tauid = lookup_uid(il, "auid", v)]
    [] x.to = "euid" -> [s EXCEPT !.euid = v, !.teuid = lookup_uid(il, "euid", v)]
    [] x.to = "subj" -> [s EXCEPT !.avc = TRUE, !.scontext = Append(@, IF x.how = "named" THEN <<"subj=">> \o v ELSE v)]
    [] x.to = "obj" -> [s EXCEPT !.avc = TRUE, !.tcontext = Append(@, v)]
    [] x.to = "res" -> [s EXCEPT !.success = Success(x.how, v)]
    [] x.to = "key" -> [s EXCEPT !.key = @ \o v]                \* split at the separator
    [] x.to = "file" -> [s EXCEPT !.filename = common_path_parser(s, v)]
    [] x.to = "ses" -> [s EXCEPT !.session_id = v]
    [] x.to = "tclass" -> s                                     \* for reports only
    [] x.to = "exit" -> [s EXCEPT !.exit = <<v>>]
    [] OTHER -> [s EXCEPT ![x.to] = v]

(* A place already filled, for the parsers that keep the first value.      *)
Filled(s, to) ==
  CASE to = "auid" -> s.loginuid # -2 \/ s.tauid # NULL
    [] to = "uid" -> s.uid # -1 \/ s.tuid # NULL
    [] to = "pid" -> s.pid # -1
    [] to = "ses" -> s.session_id # -2
    [] to = "subj" -> s.avc
    [] to = "success" -> s.success # -1
    [] OTHER -> s[to] # NULL

(* What the query must ask for, for a search to be made at all.            *)
Wanted(o, to) ==
  CASE to = "pid" -> o.pid # -1
    [] to = "ppid" -> o.ppid # -1
    [] to = "auid" -> o.loginuid # -2 \/ o.tauid # NULL
    [] to = "uid" -> o.uid # -1 \/ o.tuid # NULL
    [] to = "euid" -> o.euid # -1 \/ o.teuid # NULL
    [] to = "gid" -> o.gid # -1
    [] to = "egid" -> o.egid # -1
    [] to = "ses" -> o.session_id # -2
    [] to = "terminal" -> o.terminal # NULL
    [] to = "comm" -> o.comm # NULL
    [] to = "exe" -> o.exe # NULL
    [] to = "subj" -> o.subject # NULL
    [] to = "obj" -> o.object # NULL
    [] to = "res" -> o.success # -1
    [] to = "key" -> o.key # NULL
    [] to \in {"file", "cwd"} -> o.filename # NULL
    [] to = "hostname" -> o.hostname # NULL
    [] to = "vmname" -> o.vmname # NULL
    [] to = "uuid" -> o.uuid # NULL
    [] to = "exit" -> o.exit # NULL
    [] to = "arch" -> o.report \notin {"raw", "default"} \/ o.machine # -1
    [] OTHER -> TRUE                                   \* syscall, acct, tclass

----------------------------------------------------------------------------
(* One search: the sets of names that its patterns hit, tried in order,    *)
(* from the current place or from the mark (mptr, the message).  A field   *)
(* that is not quoted ends at a space, so unless it may be last another    *)
(* one must follow it.                                                     *)
Find(to, pats) ==
  [to |-> to, pats |-> pats, need |-> FALSE, last |-> FALSE, mark |-> FALSE, once |-> FALSE, wrap |-> FALSE, any |-> FALSE,
   how |-> "number", else |-> <<>>]
Need(x) == [x EXCEPT !.need = TRUE]
MayEnd(x) == [x EXCEPT !.last = TRUE]
Wrap(x) == [x EXCEPT !.last = TRUE, !.wrap = TRUE]      \* at the end, start over
FromMark(x) == [x EXCEPT !.mark = TRUE]
Always(x) == [x EXCEPT !.any = TRUE]                     \* asked for or not
Once(x) == [x EXCEPT !.once = TRUE]
Else(x, v) == [x EXCEPT !.else = <<v>>]
How(x, how) == [x EXCEPT !.how = how]
SetMark == Find("mark", <<>>)

Quoted == {"comm", "exe", "key", "vmname", "file", "cwd", "acct"}

Hit(f, names, from) ==
  LET at == {i \in from..Len(f) : f[i].n \in names}
  IN IF at = {} THEN 0 ELSE CHOOSE i \in at : \A j \in at : i <= j
FirstHit(f, pats, from) ==
  LET good == {k \in DOMAIN pats : Hit(f, pats[k], from) # 0}
  IN IF good = {} THEN 0 ELSE Hit(f, pats[CHOOSE k \in good : \A j \in good : k <= j], from)

(* A hostname of "?" gives way to the address that follows it.             *)
ValueAt(f, i, x) ==
  LET addr == Hit(f, {"addr"}, i + 1)
  IN IF x.how = "zero" THEN 0                         \* strtoul of "=500": the pattern is one longer
     ELSE IF x.to = "hostname" /\ f[i].v = <<"?">> /\ addr # 0 THEN f[addr].v ELSE f[i].v

Missed(st, il, x) ==
  IF x.need THEN [st EXCEPT !.rc = 1]
  ELSE IF x.else # <<>> THEN [st EXCEPT !.s = Stored(@, il, x, x.else[1])] ELSE st
FoundAt(st, f, il, x, i) ==
  IF i = 0 THEN Missed(st, il, x)
  ELSE IF i = Len(f) /\ ~x.last /\ x.to \notin Quoted THEN [st EXCEPT !.rc = 1]
  ELSE [st EXCEPT !.s = Stored(@, il, x, ValueAt(f, i, x)), !.term = IF x.wrap /\ i = Len(f) THEN 1 ELSE i + 1]

Search(st, f, il, o, x) ==
  IF x.to = "mark" THEN [st EXCEPT !.mark = st.term]
  ELSE IF st.rc # 0 \/ ~(x.any \/ Wanted(o, x.to)) \/ (x.once /\ Filled(st.s, x.to)) THEN st
  ELSE FoundAt(st, f, il, x, FirstHit(f, x.pats, IF x.mark THEN st.mark ELSE st.term))

Searches(st, f, il, o, xs) == FoldLeft(LAMBDA acc, x : Search(acc, f, il, o, x), st, xs)
Begin(s) == [s |-> s, term |-> 1, mark |-> 1, rc |-> 0]
Parse(s, f, il, o, xs) == Searches(Begin(s), f, il, o, xs)

AnyAuid == {"auid", "old-auid", "new auid", "old auid"}
AnyUid == {"uid", "euid", "suid", "fsuid", "uuid"} \cup AnyAuid
AnyPid == {"pid", "ppid"}
AnyGid == {"gid", "egid", "sgid", "fsgid"}
AnySes == {"ses", "old-ses", "new ses", "old ses"}

----------------------------------------------------------------------------
Subj == Find("subj", <<{"subj"}>>)
Obj == MayEnd(Find("obj", <<{"obj"}>>))
Ses == Find("ses", <<AnySes>>)
Comm == Find("comm", <<{"comm"}>>)
Exe == Find("exe", <<{"exe"}>>)
Auid == Find("auid", <<AnyAuid>>)
Uid == Find("uid", <<AnyUid>>)
Res == MayEnd(Find("res", <<{"res"}>>))
Pid == Find("pid", <<AnyPid>>)
File(name) == Find("file", <<{name}>>)

(* "This sometimes hits auid instead of uid. If so, retry."                *)
TaskUid == Find("uid", <<AnyUid \ AnyAuid>>)
parse_task_info ==
  << Find("ppid", <<{"ppid"}>>), Need(Find("pid", <<{"pid"}>>)), Need(Find("auid", <<AnyAuid, {"loginuid"}>>)),
     Need(TaskUid), Need(Find("gid", <<AnyGid>>)), Need(Find("euid", <<{"euid"}>>)), Need(Find("egid", <<{"egid"}>>)),
     Find("terminal", <<{"tty"}>>), Ses, Need(Comm), Need(FromMark(Exe)), Subj, Res >>

(* The task's fields are searched from the start again, and the key from   *)
(* after the arguments.                                                    *)
CallSearches ==
  << Need(Find("arch", <<{"arch"}>>)), Need(Find("syscall", <<{"syscall"}>>)),
     How(Find("res", <<{"success"}>>), "yes"), Need(Find("exit", <<{"exit"}>>)) >>
TaskOfCall(call, f, il, o) ==
  LET a0 == Hit(f, {"a0"}, call.term)
      a1 == Hit(f, {"a1"}, a0 + 1)
  IN IF call.rc # 0 THEN call
     ELSE IF a0 = 0 \/ a1 \in {0, Len(f)} THEN [call EXCEPT !.rc = 11]
     ELSE [Parse(call.s, f, il, o, parse_task_info) EXCEPT !.term = a1 + 1]
parse_syscall(s, f, il, o) ==
  Searches(TaskOfCall(Parse(s, f, il, o, CallSearches), f, il, o), f, il, o, << Find("key", <<{"key"}>>) >>)

parse_dir == << Once(Find("cwd", <<{"cwd"}>>)) >>
avc_parse_path == << Need(File("path")) >>
parse_path == << File("name"), Obj >>
parse_obj == << Obj >>

parse_login ==
  << Need(Pid), Need(Uid), How(Subj, "named"),
     Need(Wrap(Find("auid", <<{"new auid"}, {"auid", "old auid"}, {"new loginuid"}>>))),
     Else(Wrap(Res), "1"), Need(Wrap(Find("ses", <<{"new ses"}, {"ses", "old ses"}>>))) >>

(* The name of the user is never looked up here.                           *)
parse_daemon1 ==
  << Need(FromMark(Auid)), Need(Pid), How(Find("uid", <<{"uid"}>>), "unnamed"), Ses, MayEnd(Subj),
     How(FromMark(Res), "failed") >>
parse_daemon2 == << Find("hostname", <<{"addr"}>>), How(Res, "failed") >>

(* An address of the internet is a host, one of a local socket a file.     *)
parse_sockaddr(s, f, il, o) ==
  LET st == Begin(s)  i == Hit(f, {"saddr"}, 1)  v == f[i].v
  IN IF (o.hostname = NULL /\ o.filename = NULL) \/ i = 0 THEN st
     ELSE IF v.short THEN [st EXCEPT !.rc = 1]
     ELSE [st EXCEPT !.s.hostname = IF v.family = "inet" /\ o.hostname # NULL THEN v.text ELSE NULL,
                     !.s.filename = IF v.family = "unix" /\ o.filename # NULL THEN Append(@, v.text) ELSE @]

(* The value of " uid=" is read one character early and is always 0.       *)
MisreadUid == How(Find("uid", <<{"uid"}>>), "zero")
parse_integrity ==
  << Always(Pid), MisreadUid, FromMark(Auid), Ses, Subj, Comm, File("name"), Res >>
parse_tty == << Pid, MisreadUid, MayEnd(Need(Auid)), Ses, Comm >>

parse_kernel_anom(type, f) ==
  << MayEnd(Need(Auid)), Uid, Find("gid", <<AnyGid>>), MayEnd(Ses) >> \o
  (IF type = "ANOM_PROMISCUOUS" THEN <<>>
   ELSE << Subj, Pid, Comm, IF type = "ANOM_ABEND" THEN Exe ELSE Need(Exe) >>) \o
  (IF type = "SECCOMP" /\ Hit(f, {"arch"}, 1) # 0
   THEN << Always(Need(Find("arch", <<{"arch"}>>))), Need(Find("syscall", <<{"syscall"}>>)) >> ELSE <<>>)

parse_pkt == << Find("hostname", <<{"saddr"}>>), Obj >>

(* What a kernel record of an event with a system call already gave stays. *)
parse_kernel ==
  << Once(Need(Find("pid", <<{"pid"}>>))), Else(Once(Uid), 0), Else(Once(Auid), -1),
     Else(Once(Find("terminal", <<{"tty"}>>)), <<"(none)">>), Else(Once(Ses), -1), Once(Need(Subj)),
     Once(Need(Comm)), Else(Once(FromMark(Exe)), <<"(null)">>) >>

(* A change of the configuration succeeded unless it says otherwise, and   *)
(* the path it names may be missing.                                       *)
MessageSearches(type) ==
  << IF type = "CONFIG_CHANGE" THEN MayEnd(Auid) ELSE MayEnd(Need(Auid)), MayEnd(Ses), MayEnd(Subj),
     Find("key", <<{"key"}>>) >>
DefaultSuccess(st, type) == [st EXCEPT !.s.success = IF st.rc = 0 /\ type = "CONFIG_CHANGE" THEN 1 ELSE @]
parse_simple_message(s, type, f, il, o) ==
  Searches(DefaultSuccess(Parse(s, f, il, o, MessageSearches(type)), type), f, il, o, << Res >>)
config_change(s, f, il, o) ==
  [parse_simple_message(s, "CONFIG_CHANGE", f, il, o) EXCEPT !.s = Parse(@, f, il, o, avc_parse_path).s]

----------------------------------------------------------------------------
(* User space's records: the fields the kernel puts first, those of the    *)
(* groups, guests and disks, a second uid ("some records the second uid is *)
(* what we want"), and the tail of the message, searched from one place.   *)
parse_user_head(type, o) ==
  << Need(Pid), Need(Uid), Need(Find("auid", <<AnyAuid, {"loginuid"}>>)), Ses, Subj >> \o
  (IF type = "USER_AVC" /\ o.object # NULL
   THEN << MayEnd(Find("obj", <<{"tcontext"}>>)), MayEnd(Find("tclass", <<{"tclass"}>>)) >> ELSE <<>>) \o
  (IF type \in {"ADD_GROUP", "DEL_GROUP"} THEN << Find("gid", <<{"id"}>>) >>
   ELSE IF type = "GRP_MGMT" THEN << Find("gid", <<{"id"}, AnyGid>>) >> ELSE <<>>) \o
  << Find("vmname", <<{"vm"}>>), Find("uuid", <<{"uuid"}>>) >>

parse_user_guest(type) ==
  IF type = "VIRT_MACHINE_ID" THEN << Find("subj", <<{"vm-ctx"}>>), Find("obj", <<{"img-ctx"}>>) >>
  ELSE IF type = "VIRT_RESOURCE" THEN << Find("file", <<{"path"}, {"new-disk"}>>) >> ELSE <<>>

(* Fields that end in auid are stepped over; suid, fsuid and uuid end it.  *)
SecondUid(st, f, il, o) ==
  LET i == Hit(f, AnyUid \ AnyAuid, st.term)
      over == {j \in st.term..Len(f) : f[j].n \in AnyAuid /\ (i = 0 \/ j < i)}
      from == IF over = {} THEN st.term ELSE 1 + CHOOSE j \in over : \A k \in over : k <= j
  IN IF st.rc # 0 \/ ~Wanted(o, "uid") THEN st
     ELSE IF i = 0 \/ f[i].n \in {"suid", "fsuid", "uuid"} THEN [st EXCEPT !.term = from]
     ELSE IF f[i].n # "uid" THEN [st EXCEPT !.rc = 25]
     ELSE [st EXCEPT !.s = Stored(@, il, Uid, f[i].v), !.term = i + 1]

parse_user_tail ==
  << SetMark, FromMark(Comm), FromMark(Find("acct", <<{"acct"}>>)), SetMark,
     FromMark(Find("hostname", <<{"hostname"}>>)), FromMark(Find("cwd", <<{"cwd"}>>)),
     FromMark(Find("terminal", <<{"terminal"}>>)), FromMark(Exe),
     How(FromMark(MayEnd(Find("res", <<{"res"}, {"result"}>>))), "failed") >>

parse_user(s, type, f, il, o) ==
  LET first == Parse(s, f, il, o, parse_user_head(type, o) \o parse_user_guest(type))
  IN Searches(SecondUid(first, f, il, o), f, il, o, parse_user_tail)

(* The verdict of an access check overrides the result of the system call; *)
(* a user space one has user space's fields, most of whose faults are      *)
(* forgiven.                                                               *)
Verdict(s, f, o) ==
  LET i == Hit(f, {"avc"}, 1)
  IN IF i # 0 /\ o.success # -1 THEN [s EXCEPT !.success = IF f[i].v = "denied" THEN 0 ELSE 1] ELSE s

avc_steps ==
  << Pid, Once(Need(Comm)), Find("file", <<{"path"}, {"name"}>>), Find("subj", <<{"scontext"}>>),
     Find("obj", <<{"tcontext"}>>), MayEnd(Need(Find("tclass", <<{"tclass"}>>))) >>

AvcResult(st, user) ==
  LET rc == IF user /\ st.rc > 20 THEN 0 ELSE st.rc
  IN [st EXCEPT !.rc = rc, !.s.avc = @ \/ user \/ rc = 0]
parse_avc(s, type, f, il, o) ==
  IF type = "USER_AVC" THEN AvcResult(parse_user(Verdict(s, f, o), type, f, il, o), TRUE)
  ELSE AvcResult(Parse(Verdict(s, f, o), f, il, o, avc_steps), FALSE)

----------------------------------------------------------------------------
(* extract_search_items: the record's type chooses the parser, and the     *)
(* first fault ends the event.                                             *)
UserTypes == {"USER", "USER_LOGIN", "USER_START", "USER_CMD", "ADD_GROUP", "DEL_GROUP", "GRP_MGMT",
              "VIRT_MACHINE_ID", "VIRT_RESOURCE", "VIRT_CONTROL"}
Daemon1Types == {"DAEMON_START", "DAEMON_END", "DAEMON_ABORT", "DAEMON_CONFIG", "DAEMON_ROTATE", "DAEMON_RESUME"}

(* The parsers that are nothing but their searches.                        *)
SearchesOf(type, f) ==
  CASE type = "CWD" -> parse_dir
    [] type = "AVC_PATH" -> avc_parse_path
    [] type = "PATH" -> parse_path
    [] type = "LOGIN" -> parse_login
    [] type \in {"IPC", "OBJ_PID"} -> parse_obj
    [] type \in Daemon1Types -> parse_daemon1
    [] type \in {"DAEMON_ACCEPT", "DAEMON_CLOSE"} -> parse_daemon2
    [] type = "NETFILTER_PKT" -> parse_pkt
    [] type \in {"FEATURE_CHANGE", "ANOM_LINK"} -> parse_task_info
    [] type \in {"SECCOMP", "ANOM_PROMISCUOUS", "ANOM_ABEND"} -> parse_kernel_anom(type, f)
    [] type = "INTEGRITY_DATA" -> parse_integrity
    [] type \in {"NETFILTER_CFG", "EVENT_LISTENER"} -> parse_kernel
    [] type = "TTY" -> parse_tty
    [] OTHER -> <<>>                               \* nothing to parse

ParseRecord(s, r, il, o) ==
  CASE r.type = "SYSCALL" -> parse_syscall(s, r.f, il, o)
    [] r.type \in UserTypes -> parse_user(s, r.type, r.f, il, o)
    [] r.type = "SOCKADDR" -> parse_sockaddr(s, r.f, il, o)
    [] r.type = "CONFIG_CHANGE" -> config_change(s, r.f, il, o)
    [] r.type \in {"AVC", "USER_AVC"} -> parse_avc(s, r.type, r.f, il, o)
    [] r.type = "MAC_POLICY_LOAD" -> parse_simple_message(s, r.type, r.f, il, o)
    [] OTHER -> Parse(s, r.f, il, o, SearchesOf(r.type, r.f))

extract_search_items(records, il, o) ==
  FoldLeft(LAMBDA st, r : IF st.rc # 0 THEN st ELSE ParseRecord(st.s, r, il, o), Begin(NoItems), records)

----------------------------------------------------------------------------
(* The words of the command line and the query they set.  An option is     *)
(* named by its short form without the dash; a text is a sequence of       *)
(* words.  An option's argument is the next word unless that one starts    *)
(* with a dash.  A word of -ts or -te carries its seconds here; which ones *)
(* those are is the subject of the last part.                              *)
Opt(name) == [dash |-> TRUE, opt |-> name, digit |-> FALSE, n |-> 0, text |-> <<>>]
Num(n) == [dash |-> n < 0, opt |-> "", digit |-> TRUE, n |-> n, text |-> <<>>]
Text(t) == [dash |-> FALSE, opt |-> "", digit |-> FALSE, n |-> 0, text |-> t]

(* The globals of the match model, with what they start as.                *)
NoQuery ==
  [event_id |-> -1, pid |-> -1, ppid |-> -1, success |-> -1, exact |-> FALSE, type |-> <<>>, nodes |-> <<>>,
   uid |-> -1, euid |-> -1, loginuid |-> -2, tuid |-> <<>>, teuid |-> <<>>, tauid |-> <<>>, ua |-> FALSE,
   gid |-> -1, egid |-> -1, ga |-> FALSE, subject |-> <<>>, object |-> <<>>, se |-> FALSE,
   syscall |-> -1, machine |-> -1, session_id |-> -2, exit |-> <<>>, start |-> 0, end |-> 0, timeonly |-> FALSE,
   key |-> <<>>, filename |-> <<>>, exe |-> <<>>, comm |-> <<>>, hostname |-> <<>>, terminal |-> <<>>,
   uuid |-> <<>>, vmname |-> <<>>, infile |-> <<>>, checkpt |-> <<>>,
   report |-> "default", escape |-> "tty", extra |-> {}, flags |-> {}]

TextOf ==
  [c |-> "comm", f |-> "filename", k |-> "key", hn |-> "hostname", if |-> "infile", o |-> "object", tm |-> "terminal",
   x |-> "exe", uu |-> "uuid", vm |-> "vmname", su |-> "subject", checkpoint |-> "checkpt"]
NumberOption == [a |-> "event_id", p |-> "pid", pp |-> "ppid"]
Formats == {"raw", "default", "interpret", "csv", "text"}
Escapes == {"raw", "tty", "shell", "shell_quote"}
HasYesOrNo == {<<"yes">>, <<"no">>, <<"none">>, <<"yesterday">>}      \* strstr

----------------------------------------------------------------------------
(* What an identity sets: the number, and the name when one was given.     *)
Named(old, name) == IF name = <<>> THEN old ELSE name
SetId(q, opt, v, name) ==
  CASE opt = "ui" -> [q EXCEPT !.uid = v, !.tuid = Named(@, name)]
    [] opt = "ue" -> [q EXCEPT !.euid = v, !.teuid = Named(@, name)]
    [] opt = "ul" -> [q EXCEPT !.loginuid = v, !.tauid = Named(@, name)]
    [] opt = "ua" -> [q EXCEPT !.uid = v, !.euid = v, !.loginuid = v, !.ua = TRUE, !.tuid = Named(@, name),
                               !.teuid = Named(@, name), !.tauid = Named(@, name)]
    [] opt = "gi" -> [q EXCEPT !.gid = v]
    [] opt = "ge" -> [q EXCEPT !.egid = v]
    [] opt = "ga" -> [q EXCEPT !.gid = v, !.egid = v, !.ga = TRUE]

Fail(st) == [st EXCEPT !.ret = -1]
Use(st, q) == [st EXCEPT !.q = q, !.c = @ + 1]                       \* c++ for the argument

IdOption(st, opt, a, known) ==
  IF a.digit THEN Use(st, SetId(st.q, opt, a.n, <<>>))
  ELSE IF a.text \in DOMAIN known THEN Use(st, SetId(st.q, opt, known[a.text], a.text)) ELSE Fail(st)
UserOption(st, opt, a) == IdOption(st, opt, a, PwUid)
GroupOption(st, opt, a) == IdOption(st, opt, a, GrGid)

(* parse_msg, convert_str_to_msg: the types of a comma separated list.     *)
parse_msg(st, a) ==
  IF a.text = <<"ALL">> THEN Use(st, st.q)
  ELSE IF \A i \in DOMAIN a.text : a.text[i] \in MsgTypes
  THEN Use(st, [st.q EXCEPT !.type = @ \o a.text]) ELSE Fail(st)

SyscallOption(st, a) ==
  LET m == IF st.q.machine = -1 THEN HostMachine ELSE st.q.machine
  IN IF a.digit THEN Use(st, [st.q EXCEPT !.syscall = a.n])
     ELSE IF a.text \in DOMAIN SyscallOf[m]
     THEN Use(st, [st.q EXCEPT !.machine = m, !.syscall = SyscallOf[m][a.text]]) ELSE Fail(st)

ArchOption(st, a) ==
  IF st.q.machine # -1 \/ ~a.digit THEN Fail(st) ELSE Use(st, [st.q EXCEPT !.machine = a.n])

ReportOption(st, opt, a) ==                                         \* -i, -r: no argument, no other format
  IF st.q.report # "default" \/ a # <<>> THEN Fail(st)
  ELSE [st EXCEPT !.q.report = IF opt = "i" THEN "interpret" ELSE "raw"]

(* One or two words give the time.                                         *)
TimeOption(st, w, opt, a) ==
  LET both == st.c + 2 <= Len(w) /\ ~w[st.c + 2].dash
      at == a.n + (IF both THEN w[st.c + 2].n ELSE 0)
      q == IF opt = "te" THEN [st.q EXCEPT !.end = at]
           ELSE IF ~both /\ a.text = <<"checkpoint">> THEN [st.q EXCEPT !.timeonly = TRUE]
           ELSE [st.q EXCEPT !.start = at]
  IN [Use(st, q) EXCEPT !.c = @ + IF both THEN 1 ELSE 0]

(* The options that take a word, once there is one.                        *)
WithArgument(st, w, opt, a) ==
  CASE opt \in DOMAIN TextOf -> Use(st, [st.q EXCEPT ![TextOf[opt]] = a.text])
    [] opt \in DOMAIN NumberOption ->
         IF a.digit THEN Use(st, [st.q EXCEPT ![NumberOption[opt]] = a.n]) ELSE Fail(st)
    [] opt \in {"ui", "ue", "ul", "ua"} -> UserOption(st, opt, a)
    [] opt \in {"gi", "ge", "ga"} -> GroupOption(st, opt, a)
    [] opt = "m" -> parse_msg(st, a)
    [] opt = "n" -> Use(st, [st.q EXCEPT !.nodes = Append(@, a.text)])
    [] opt = "sc" -> SyscallOption(st, a)
    [] opt = "arch" -> ArchOption(st, a)
    [] opt = "se" -> Use(st, [st.q EXCEPT !.subject = a.text, !.object = a.text, !.se = TRUE])
    [] opt = "sv" ->
         IF a.text \in HasYesOrNo THEN Use(st, [st.q EXCEPT !.success = IF a.text = <<"yes">> THEN 1 ELSE 0]) ELSE Fail(st)
    [] opt = "session" -> IF a.digit THEN Use(st, [st.q EXCEPT !.session_id = a.n]) ELSE Fail(st)
    [] opt = "e" -> IF a.digit THEN Use(st, [st.q EXCEPT !.exit = <<a.n>>])
                    ELSE IF a.text \in DOMAIN ErrnoOf THEN Use(st, [st.q EXCEPT !.exit = <<ErrnoOf[a.text]>>]) ELSE Fail(st)
    [] opt = "format" ->
         IF st.q.report = "default" /\ a.text[1] \in Formats THEN Use(st, [st.q EXCEPT !.report = a.text[1]]) ELSE Fail(st)
    [] opt = "escape" -> IF a.text[1] \in Escapes THEN Use(st, [st.q EXCEPT !.escape = a.text[1]]) ELSE Fail(st)
    [] opt \in {"ts", "te"} -> TimeOption(st, w, opt, a)
    [] OTHER -> Fail(st)                                            \* unsupported

(* -ul, --session and -e also take a negative number.                      *)
OneOption(st, w) ==
  LET opt == w[st.c].opt
      next == IF st.c < Len(w) THEN <<w[st.c + 1]>> ELSE <<>>
      a == IF next # <<>> /\ (~next[1].dash \/ opt \in {"ul", "session", "e"}) THEN next ELSE <<>>
  IN CASE opt \in {"w", "input-logs", "just-one", "l", "debug"} ->
            [st EXCEPT !.q.flags = @ \cup {opt}, !.q.exact = @ \/ opt = "w"]
       [] opt \in {"extra-keys", "extra-labels", "extra-obj2", "extra-time"} ->
            IF a # <<>> THEN Fail(st) ELSE [st EXCEPT !.q.extra = @ \cup {opt}]
       [] opt \in {"i", "r"} -> ReportOption(st, opt, a)
       [] opt \in {"h", "v"} -> [st EXCEPT !.ret = 1]                \* exit(0)
       [] OTHER -> IF a = <<>> THEN Fail(st) ELSE WithArgument(st, w, opt, a[1])

RECURSIVE Options(_, _)
Options(st, w) ==
  IF st.ret # 0 \/ st.c > Len(w) THEN st
  ELSE LET after == OneOption(st, w) IN Options([after EXCEPT !.c = @ + 1], w)

check_params(w) ==
  LET st == Options([q |-> NoQuery, c |-> 1, ret |-> IF w = <<>> THEN -1 ELSE 0], w)
  IN IF st.q.extra \ {"extra-obj2"} # {} /\ st.q.report # "csv" THEN Fail(st) ELSE st

----------------------------------------------------------------------------
Unloaded == [loaded |-> FALSE, list |-> <<>>]
ausearch_load_interpretations(ip, r) == IF ip.loaded THEN ip ELSE [loaded |-> TRUE, list |-> r.il]
ausearch_free_interpretations == Unloaded

(* load_interpretations: only for a search by name, of a record that       *)
(* stands alone or of the system call.                                     *)
load_interpretations(ip, q, e) ==
  IF q.tuid = NULL /\ q.teuid = NULL /\ q.tauid = NULL THEN ip
  ELSE IF Len(e.records) = 1 \/ e.records[1].type = "SYSCALL"
  THEN ausearch_load_interpretations(ip, e.records[1]) ELSE ip

----------------------------------------------------------------------------
Within(needle, hay) ==
  \E i \in 0..(Len(hay) - Len(needle)) : SubSeq(hay, i + 1, i + Len(needle)) = needle
strmatch(q, needle, hay) == IF q.exact THEN hay = needle ELSE Within(needle, hay)

NameIs(want, got) == got # NULL /\ want = got
user_match(q, s) ==
  IF q.ua /\ q.tuid # NULL
  THEN NameIs(q.tuid, s.tuid) \/ NameIs(q.teuid, s.teuid) \/ NameIs(q.tauid, s.tauid)
  ELSE IF q.ua THEN q.uid = s.uid \/ q.euid = s.euid \/ q.loginuid = s.loginuid
  ELSE IF q.tuid # NULL \/ q.teuid # NULL \/ q.tauid # NULL
  THEN /\ q.tuid # NULL => NameIs(q.tuid, s.tuid)
       /\ q.teuid # NULL => NameIs(q.teuid, s.teuid)
       /\ q.tauid # NULL => NameIs(q.tauid, s.tauid)
  ELSE /\ q.uid # -1 => q.uid = s.uid
       /\ q.euid # -1 => q.euid = s.euid
       /\ q.loginuid # -2 => q.loginuid = s.loginuid

group_match(q, s) ==
  IF q.ga THEN q.gid = s.gid \/ q.egid = s.egid
  ELSE (q.gid # -1 => q.gid = s.gid) /\ (q.egid # -1 => q.egid = s.egid)

(* alist_find_subj, alist_next_subj and their like for objects.            *)
SomeContext(q, want, contexts) == \E i \in DOMAIN contexts : strmatch(q, want, contexts[i])
context_match(q, s) ==
  IF q.se
  THEN \/ q.subject # NULL /\ s.avc /\ SomeContext(q, q.subject, s.scontext)
       \/ q.object # NULL /\ s.avc /\ SomeContext(q, q.object, s.tcontext)
  ELSE IF q.subject # NULL THEN s.avc /\ SomeContext(q, q.subject, s.scontext)
  ELSE q.object # NULL => s.avc /\ SomeContext(q, q.object, s.tcontext)

file_match(q, s) ==
  q.filename # NULL => \/ \E i \in DOMAIN s.filename : strmatch(q, q.filename, s.filename[i])
                       \/ s.cwd # NULL /\ strmatch(q, q.filename, s.cwd)
TextAgrees(q, want, got) == want # NULL => got # NULL /\ strmatch(q, want, got)

InTime(q, e) == (q.start = 0 \/ e.sec >= q.start) /\ (q.end = 0 \/ e.sec <= q.end)
Candidate(q, e) == InTime(q, e) /\ (q.event_id = -1 \/ q.event_id = e.serial)

(* The machine an ELF number stands for, -1 for one that is not known.     *)
audit_elf_to_machine(elf) == IF elf \in DOMAIN MachineOf THEN MachineOf[elf] ELSE -1

numbers_match(q, e, s) ==
  /\ q.ppid # -1 => q.ppid = s.ppid
  /\ q.pid # -1 => q.pid = s.pid
  /\ q.machine # -1 => q.machine = audit_elf_to_machine(s.arch)
  /\ q.syscall # -1 => q.syscall = s.syscall
  /\ q.session_id # -2 => q.session_id = s.session_id
  /\ q.exit # NULL => q.exit = s.exit
  /\ q.success # -1 => q.success = s.success
  /\ q.type # <<>> => \E i \in DOMAIN e.records, j \in DOMAIN q.type : e.records[i].type = q.type[j]

texts_match(q, s) ==
  /\ file_match(q, s)
  /\ TextAgrees(q, q.hostname, s.hostname) /\ TextAgrees(q, q.terminal, s.terminal)
  /\ TextAgrees(q, q.exe, s.exe) /\ TextAgrees(q, q.comm, s.comm)
  /\ q.key # NULL => \E i \in DOMAIN s.key : strmatch(q, q.key, s.key[i])
  /\ TextAgrees(q, q.vmname, s.vmname) /\ TextAgrees(q, q.uuid, s.uuid)
  /\ context_match(q, s)

ItemsMatch(q, e, st) ==
  /\ st.rc = 0
  /\ q.nodes # <<>> => \E i \in DOMAIN q.nodes : q.nodes[i] = e.node
  /\ user_match(q, st.s) /\ group_match(q, st.s)
  /\ numbers_match(q, e, st.s) /\ texts_match(q, st.s)
match(q, e, list) == Candidate(q, e) /\ ItemsMatch(q, e, extract_search_items(e.records, list, q))

----------------------------------------------------------------------------
MatchStart(w) ==
  /\ mworld = w /\ query = NoQuery /\ cursor = 1 /\ interp = Unloaded
  /\ mpc = "start" /\ left = <<>> /\ hits = {} /\ shown = <<>>
MatchInit == \E w \in MatchWorlds : MatchStart(w)

ReadOptions ==
  /\ mpc = "start"
  /\ LET st == check_params(mworld.one \o mworld.two)
     IN query' = st.q /\ mpc' = IF st.ret = 0 /\ mworld.events # <<>> THEN "match" ELSE "done"
  /\ UNCHANGED <<mworld, cursor, interp, left, hits, shown>>

(* The order of printing: daemon records, and the other formats at once.   *)
Daemonic(type) == type \in Daemon1Types \cup {"DAEMON_ACCEPT", "DAEMON_CLOSE"}
output_record(e) ==
  IF Daemonic(Last(e.records).type) THEN << Len(e.records) >>
  ELSE [k \in 1..Len(e.records) |-> Len(e.records) + 1 - k]

MatchEvent ==
  LET e == mworld.events[cursor]
      ip == IF Candidate(query, e) THEN load_interpretations(interp, query, e) ELSE interp
  IN /\ mpc = "match"
     /\ interp' = ip
     /\ \E hit \in {match(query, e, ip.list)} :
          /\ hits' = IF hit THEN hits \cup {cursor} ELSE hits
          /\ left' = IF hit /\ query.report = "interpret" THEN output_record(e) ELSE <<>>
          /\ mpc' = IF ~hit THEN "next" ELSE IF query.report = "interpret" THEN "print"
                    ELSE IF "just-one" \in query.flags THEN "done" ELSE "next"
     /\ UNCHANGED <<mworld, query, cursor, shown>>

(* output_interpreted_record: the record's own data unless something is    *)
(* loaded, freed at its end.                                               *)
AfterRecord(ip) == ausearch_free_interpretations
PrintRecord ==
  LET r == mworld.events[cursor].records[left[1]]
      ip == ausearch_load_interpretations(interp, r)
  IN /\ mpc = "print"
     /\ shown' = Append(shown, <<cursor, left[1], ip.list>>)
     /\ interp' = AfterRecord(ip)
     /\ left' = Tail(left)
     /\ mpc' = IF Len(left) > 1 THEN "print" ELSE IF "just-one" \in query.flags THEN "done" ELSE "next"
     /\ UNCHANGED <<mworld, query, cursor, hits>>

AfterEvent_Keep(ip) == ip
AfterEvent(ip) == ausearch_free_interpretations
NextEvent ==
  /\ mpc = "next"
  /\ interp' = AfterEvent(interp)
  /\ cursor' = cursor + 1
  /\ mpc' = IF cursor < Len(mworld.events) THEN "match" ELSE "done"
  /\ UNCHANGED <<mworld, query, left, hits, shown>>

MatchNext == ReadOptions \/ MatchEvent \/ PrintRecord \/ NextEvent
MatchSpec == MatchInit /\ [][MatchNext]_matchVars

----------------------------------------------------------------------------
Alone(line, e) ==
  LET q == check_params(line).q
      ip == IF Candidate(q, e) THEN load_interpretations(Unloaded, q, e) ELSE Unloaded
  IN match(q, e, ip.list)
UserOpts == {"ui", "ue", "ul", "ua"}
OptsOf(line) == {line[i].opt : i \in {i \in DOMAIN line : line[i].dash /\ line[i].opt # ""}}
ByName(line) == \E i \in DOMAIN line : line[i].opt \in UserOpts /\ ~line[i + 1].digit
Both(x, y, opts) == OptsOf(x) \cap opts # {} /\ OptsOf(y) \cap opts # {}

(* Parts that speak of the same thing: one option twice, one that stands   *)
(* for the other, an architecture beside the name of a call, which is      *)
(* looked up in its table, or -w, which says how texts compare.            *)
SameThing(x, y) ==
  \/ OptsOf(x) \cap OptsOf(y) # {} \/ "w" \in OptsOf(x) \cup OptsOf(y)
  \/ "ga" \in OptsOf(x) \cup OptsOf(y) /\ Both(x, y, {"ga", "gi", "ge"})
  \/ "se" \in OptsOf(x) \cup OptsOf(y) /\ Both(x, y, {"se", "su", "o"})
  \/ "ua" \in OptsOf(x) \cup OptsOf(y) /\ Both(x, y, UserOpts)
  \/ "arch" \in OptsOf(x) /\ "sc" \in OptsOf(y) /\ ~y[2].digit
(* Parts the code combines otherwise: an id by number beside one by name,  *)
(* and an object beside a subject, are not looked at.                      *)
Overlooked(x, y) == (Both(x, y, UserOpts) /\ ByName(x) # ByName(y)) \/ Both(x, y, {"su", "o"})

(* Records whose uid is not the one read: the value is read from the wrong *)
(* place, or "uid=" finds a longer name first and is not tried again.      *)
MisreadsRecord(r) ==
  \/ r.type \in {"INTEGRITY_DATA", "TTY"}
  \/ /\ r.type \in UserTypes \cup {"USER_AVC", "LOGIN", "SECCOMP", "ANOM_ABEND", "ANOM_PROMISCUOUS",
                                    "NETFILTER_CFG", "EVENT_LISTENER"}
     /\ Hit(r.f, AnyUid, 1) # Hit(r.f, {"uid"}, 1)
MisreadsUid(e) == \E i \in DOMAIN e.records : MisreadsRecord(e.records[i])

(* "Each commandline option given forms an 'and' statement"                *)
(* (docs/ausearch.8:8): an event matches the whole command line exactly    *)
(* when it matches each of two parts of it, but for those named above.     *)
MatchAnd ==
  (/\ mpc = "done" /\ mworld.two # <<>> /\ Len(mworld.events) = 1
   /\ ~SameThing(mworld.one, mworld.two) /\ ~Overlooked(mworld.one, mworld.two)
   /\ ~(Both(mworld.one, mworld.two, UserOpts) /\ MisreadsUid(mworld.events[1])))
  => (1 \in hits <=> Alone(mworld.one, mworld.events[1]) /\ Alone(mworld.two, mworld.events[1]))
(* Whether an event matches depends on that event alone: the supplemental  *)
(* data of an earlier one is not left loaded for it (ausearch.c:489).      *)
MatchAlone ==
  mpc = "done" /\ mworld.two = <<>> /\ "just-one" \notin query.flags /\ check_params(mworld.one).ret = 0
  => \A i \in DOMAIN mworld.events : i \in hits <=> Alone(mworld.one, mworld.events[i])

OwnData(print) == print[3] = mworld.events[print[1]].records[print[2]].il

(* A record printed with -i is interpreted with its own supplemental data  *)
(* (output_interpreted_record).  A search by a user's name leaves that of  *)
(* the event's first record loaded, and the record printed first, its last *)
(* one, is interpreted with it: never another, and never another event's.  *)
SearchedByName == query.tuid # NULL \/ query.teuid # NULL \/ query.tauid # NULL
FirstPrinted(print) == print[2] = Len(mworld.events[print[1]].records)
InterpOwn ==
  \A i \in DOMAIN shown :
    \/ OwnData(shown[i])
    \/ SearchedByName /\ FirstPrinted(shown[i]) /\ shown[i][3] = mworld.events[shown[i][1]].records[1].il

Says(r, name, v) == \E j \in DOMAIN r.f : r.f[j].n = name /\ r.f[j].v = v
SaysNo(r, name) == \A j \in DOMAIN r.f : r.f[j].n # name
TheRecords(i) == {mworld.events[i].records[k] : k \in DOMAIN mworld.events[i].records}

(* A search by a user's number finds only events one of whose records says *)
(* so in its uid field: a name that merely ends in uid does not count.  A  *)
(* record of the kernel with no such field counts as root's (parse_kernel).*)
MatchUid ==
  \A i \in hits :
    query.uid # -1 /\ ~query.ua /\ ~SearchedByName /\ ~MisreadsUid(mworld.events[i])
    => \E r \in TheRecords(i) :
         \/ Says(r, "uid", query.uid)
         \/ query.uid = 0 /\ r.type \in {"NETFILTER_CFG", "EVENT_LISTENER"} /\ SaysNo(r, "uid")

(* A search by system call finds only events one of whose records says so, *)
(* with the architecture the number belongs to when one was named or the   *)
(* call was; call 0 is also what an event with no call has (list_create).  *)
(* Asked for nothing else, it finds every such record of a system call.    *)
SaysCall(r) ==
  /\ Says(r, "syscall", query.syscall)
  /\ query.machine # -1 => \E elf \in DOMAIN MachineOf : MachineOf[elf] = query.machine /\ Says(r, "arch", elf)
MatchCall ==
  query.syscall # -1 =>
    /\ \A i \in hits : \/ \E r \in TheRecords(i) : SaysCall(r)
                       \/ query.syscall = 0 /\ \A r \in TheRecords(i) : SaysNo(r, "syscall")
    /\ mpc = "done" /\ OptsOf(mworld.one \o mworld.two) = {"arch", "sc"} /\ query.machine # -1 =>
         \A i \in DOMAIN mworld.events :
           (\E r \in TheRecords(i) : r.type = "SYSCALL" /\ SaysCall(r)) => i \in hits

\* What a search finds and prints depends on its options together and on the
\* event alone, and finds what the records say.
MatchMeaning == MatchAnd /\ MatchAlone /\ InterpOwn /\ MatchUid /\ MatchCall

----------------------------------------------------------------------------
(* The time range (ausearch-time.c): the words and dates of -ts and -te    *)
(* turned into start_time and end_time.  An instant counts hours; a        *)
(* broken-down time is a day, an hour of it and the summer time flag,      *)
(* which mktime believes.  Day 0 is 1 January 2020, a Wednesday.  The      *)
(* clocks may change once.                                                 *)
CONSTANTS ClockWorlds   \* [now, boot, change, dst]: an instant, the hours up, the instant of the
                        \* change, and the flag before and after it

VARIABLES clock, asked, range
clockVars == <<clock, asked, range>>

TimeWords == {"now", "recent", "boot", "today", "yesterday", "this-week", "week-ago", "this-month", "this-year"}
NoTime == -1000                       \* start_time or end_time still 0
ClockStart(w) == clock = w /\ asked = <<>> /\ range = [start |-> NoTime, end |-> NoTime, rc |-> 0]
ClockInit == \E w \in ClockWorlds : ClockStart(w)

----------------------------------------------------------------------------
(* The C library's calendar.                                               *)
tm_isdst(t) == clock.dst[IF t >= clock.change THEN 2 ELSE 1]
localtime(t) == [day |-> (t + tm_isdst(t)) \div 24, hour |-> (t + tm_isdst(t)) % 24, isdst |-> tm_isdst(t)]
mktime(d) == 24 * d.day + d.hour - d.isdst
tm_wday(day) == (day + 3) % 7
MonthDay(day) == IF day >= 60 THEN 60 ELSE IF day >= 31 THEN 31 ELSE IF day >= 0 THEN 0 ELSE -31
YearDay(day) == IF day >= 0 THEN 0 ELSE -365

----------------------------------------------------------------------------
(* lookup_and_set_time and the set_tm functions.                           *)
Ago(hours) == localtime(clock.now - hours)
Midnight(d) == [d EXCEPT !.hour = 0]             \* replace_date: the flag of the moment comes along

set_tm_now == Ago(0)
set_tm_today == Midnight(Ago(0))
set_tm_yesterday == Midnight(Ago(24))
set_tm_recent == Ago(0)                          \* ten minutes are less than the hours counted here
set_tm_boot == Ago(clock.boot)
set_tm_this_week_Monday == Midnight(Ago(24 * ((tm_wday(Ago(0).day) + 6) % 7)))
set_tm_this_week == Midnight(Ago(24 * tm_wday(Ago(0).day)))
set_tm_week_ago == Midnight(Ago(24 * 7))
set_tm_this_month == [Midnight(Ago(0)) EXCEPT !.day = MonthDay(@)]
set_tm_this_year == [Midnight(Ago(0)) EXCEPT !.day = YearDay(@), !.isdst = 0]

(* A date in digits: midnight with the flag cleared, normalised by mktime  *)
(* ("FIX DST flag"), the hour then overridden by the time.                 *)
Dated(day) == localtime(mktime([day |-> day, hour |-> 0, isdst |-> 0]))

lookup_and_set_time(da) ==
  CASE da = "now" -> set_tm_now
    [] da = "recent" -> set_tm_recent
    [] da = "boot" -> set_tm_boot
    [] da = "today" -> set_tm_today
    [] da = "yesterday" -> set_tm_yesterday
    [] da = "this-week" -> set_tm_this_week
    [] da = "week-ago" -> set_tm_week_ago
    [] da = "this-month" -> set_tm_this_month
    [] da = "this-year" -> set_tm_this_year

(* The words whose own time of day counts unless another one is given.     *)
Timed == {"recent", "now", "boot"}

(* A date is a word or a day, "" when only a time was given; a time is an  *)
(* hour, -1 when absent.  The year check refuses a date with no year.      *)
ausearch_time_start(da, day, ti) ==
  LET d == IF da = "" THEN set_tm_now ELSE IF da = "date" THEN Dated(day) ELSE lookup_and_set_time(da)
  IN IF da \in Timed /\ ti \in {-1, 0} THEN [range EXCEPT !.start = mktime(d)]
     ELSE IF ti = -1 THEN [range EXCEPT !.rc = -1]            \* clear_tm leaves the year 1900
     ELSE [range EXCEPT !.start = mktime([d EXCEPT !.hour = ti])]

ausearch_time_end(da, day, ti) ==
  LET d == IF da \in {"", "today"} THEN set_tm_now
           ELSE IF da = "date" THEN Dated(day) ELSE lookup_and_set_time(da)
  IN IF da \in Timed \cup {"today"} /\ ti \in {-1, 0} THEN [range EXCEPT !.end = mktime(d)]
     ELSE [range EXCEPT !.end = mktime(IF ti = -1 THEN [Ago(0) EXCEPT !.day = d.day] ELSE [d EXCEPT !.hour = ti])]

----------------------------------------------------------------------------
(* -ts and -te: a date and a time in either order, or one of the two; a    *)
(* word or a date alone starts, and a word alone ends, at midnight.        *)
TimeArg == [da : TimeWords \cup {"", "date"}, day : {-1, 31}, ti : {-1, 0, 5}]
UsableTime(a) == (a.da # "" \/ a.ti # -1) /\ (a.da = "date") = (a.day = 31)
Hour(a, words) == IF a.ti = -1 /\ a.da \in words THEN 0 ELSE a.ti

TimeStart(a) ==
  /\ UsableTime(a) /\ Len(asked) = 0
  /\ range' = ausearch_time_start(a.da, a.day, Hour(a, TimeWords \cup {"date"}))
  /\ asked' = Append(asked, [a EXCEPT !.ti = Hour(a, TimeWords \cup {"date"})])
  /\ UNCHANGED clock

TimeEnd(a) ==
  /\ UsableTime(a) /\ Len(asked) = 1 /\ range.rc = 0
  /\ range' = ausearch_time_end(a.da, a.day, Hour(a, TimeWords))
  /\ asked' = Append(asked, a)
  /\ UNCHANGED clock

ClockNext == \E a \in TimeArg : TimeStart(a) \/ TimeEnd(a)
ClockSpec == ClockInit /\ [][ClockNext]_clockVars

----------------------------------------------------------------------------
(* The day each word stands for, from the calendar alone.                  *)
Today == localtime(clock.now).day
DayNamed(a) ==
  CASE a.da \in {"", "now", "recent", "today"} -> Today
    [] a.da = "yesterday" -> Today - 1
    [] a.da = "week-ago" -> Today - 7
    [] a.da = "this-week" -> CHOOSE day \in (Today - 6)..Today : tm_wday(day) = 0
    [] a.da = "this-month" -> MonthDay(Today)
    [] a.da = "this-year" -> YearDay(Today)
    [] a.da = "boot" -> localtime(clock.now - clock.boot).day
    [] a.da = "date" -> a.day
ClocksSteady(a) ==
  /\ clock.dst[1] = clock.dst[2] \/ localtime(clock.change).day \notin DayNamed(a)..Today
  /\ a.da = "this-year" => clock.dst[1] = 0        \* set_tm_this_year takes January for winter

(* The search starts on the day the word of -ts names in the calendar, at  *)
(* the hour given or else at midnight.  Across a change of the clocks,     *)
(* where counting back in seconds and the copied summer time flag are      *)
(* wrong (set_tm_yesterday and the others, replace_date), it starts at     *)
(* most a day and an hour away from there.                                 *)
ClockFrom ==
  Len(asked) >= 1 /\ range.rc = 0 /\ ~(asked[1].da \in Timed \cup {""} /\ asked[1].ti <= 0) =>
    LET a == asked[1]  at == localtime(range.start)  away == 24 * (at.day - DayNamed(a)) + at.hour - a.ti
    IN IF ClocksSteady(a) THEN away = 0 ELSE away \in -25..25

(* "today" and "now" as the end of the range mean the present moment when  *)
(* no hour is given, though midnight is what check_params asks for with    *)
(* them: the special case of ausearch_time_end.                            *)
ClockUntil ==
  Len(asked) = 2 /\ asked[2].ti \in {-1, 0} /\ asked[2].da \in {"now", "today"} => range.end = clock.now

\* The two ends of the period that the words of -ts and -te name.
ClockRange == ClockFrom /\ ClockUntil
=============================================================================
