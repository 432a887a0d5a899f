----------------------------- MODULE MCLogTools -----------------------------
(***************************************************************************)
(* The programs that read the log, one at a time: ausearch (its files and  *)
(* checkpoint in Search; its options, its times, what it matches and       *)
(* prints in SearchMatch), aulast and aulastlog (Sessions), auvirt         *)
(* (Guests) and aureport (Reports).  tool is chosen at the start; the      *)
(* others stand still.                                                     *)
(***************************************************************************)
EXTENDS Search, SearchMatch, Sessions, Guests, Reports, TLC

-----------------------------------------------------------------------------
(* Logs and command lines for ausearch's files and checkpoint.             *)
Ev(sec, serial, wanted) == [sec |-> sec, serial |-> serial, match |-> wanted]
Ln(ev, k, type) == [ev |-> ev, k |-> k, type |-> type, node |-> ""]

E1 == Ev(1, 1, TRUE)
E2 == Ev(1, 2, TRUE)
E2n == Ev(1, 2, FALSE)
E3 == Ev(2, 3, TRUE)
E4 == Ev(4, 4, TRUE)
E5 == Ev(5, 5, TRUE)

\* Two events whose records interleave, closed by later ones.
Interleaved(a, b) == <<Ln(a, 1, "multi"), Ln(b, 1, "multi"), Ln(a, 2, "multi"), Ln(b, 2, "eoe"),
                       Ln(E4, 1, "one")>>
Single(a, b) == <<Ln(a, 1, "one"), Ln(b, 1, "one"), Ln(E3, 1, "multi"), Ln(E4, 1, "one"),
                  Ln(E5, 1, "one")>>
Broken == <<Ln(E1, 1, "multi"), NoLine, Ln(E1, 2, "eoe"), Ln(E2, 1, "multi"), Ln(E4, 1, "one")>>
Pause  == [NoLine EXCEPT !.type = "pause"]
Piped  == {<<Ln(E1, 1, "multi"), Ln(E1, 2, "multi"), Pause, Ln(E2, 1, "one"), Pause, Ln(E3, 1, "multi")>>,
           <<Pause, Ln(E1, 1, "one"), Pause, Ln(E2n, 1, "multi"), Pause, Ln(E4, 1, "one")>>}

SW(log, checkpoint, justOne, start, pipe, searches, rotations) ==
  [lines |-> log, checkpoint |-> checkpoint, justOne |-> justOne, start |-> start, pipe |-> pipe,
   searches |-> searches, rotations |-> rotations]

Logs == {Interleaved(E1, E2), Interleaved(E1, E2n), Single(E1, E2), Single(E1, E2n), Broken}

MCSearchWorlds ==
  {SW(x, TRUE, FALSE, 0, FALSE, 2, 2) : x \in Logs}
  \cup {SW(x, FALSE, one, start, FALSE, 1, 2) : x \in Logs, one \in BOOLEAN, start \in {0, 2}}
  \cup {SW(Single(E1, E2), TRUE, TRUE, 0, FALSE, 2, 1)}
  \cup {SW(x, FALSE, FALSE, 0, TRUE, 1, 0) : x \in Piped}

-----------------------------------------------------------------------------
(* The hours at which ausearch is asked, and a change of the clock.        *)
MCClockWorlds ==
  [now : {24 * 59 + 1, 24 * 31 + 5, 24 * 2}, boot : {3, 30}, change : {0}, dst : {<<0, 0>>, <<1, 1>>}]
  \cup [now : {24 * 31, 24 * 30 + 1, 24 * 30 + 4, 24 * 32 + 22, 24 * 36}, boot : {30},
        change : {24 * 30 + 2}, dst : {<<0, 1>>, <<1, 0>>}]

-----------------------------------------------------------------------------
(* Events of each kind of record, and command lines, for the matching.     *)
MCPwName == (-1 :> <<"unset">>) @@ (0 :> <<"root">>) @@ (5 :> <<"bob">>) @@ (6 :> <<>>)
MCPwUid == (<<"root">> :> 0) @@ (<<"bob">> :> 5)
MCGrGid == (<<"staff">> :> 5)
MCMachineOf == (11 :> 1) @@ (12 :> 2)
MCSyscallOf == (1 :> (<<"open">> :> 2)) @@ (2 :> (<<"open">> :> 3))
MCErrnoOf == (<<"EPERM">> :> 1)
MCMsgTypes == {"SYSCALL", "LOGIN", "AVC", "PATH"}

F(n, v) == [n |-> n, v |-> v]
R(type, f) == [type |-> type, f |-> f, il |-> <<>>]
Rich(r, il) == [r EXCEPT !.il = il]
Event(records) == [records |-> records, sec |-> 7, serial |-> 3, node |-> <<"h1">>]
Ids(au, u, g) == <<F("auid", au), F("uid", u), F("gid", g)>>

Sys(au, u, eu) == R("SYSCALL",
  <<F("arch", 11), F("syscall", 2), F("success", "yes"), F("exit", 0), F("a0", 0), F("a1", 0), F("items", 1),
    F("ppid", 1), F("pid", 2)>> \o Ids(au, u, 5) \o
  <<F("euid", eu), F("suid", eu), F("fsuid", eu), F("egid", 6), F("sgid", 6), F("fsgid", 6), F("tty", <<"pts0">>),
    F("ses", 1), F("comm", <<"cat">>), F("exe", <<"bin", "cat">>), F("subj", <<"u_r">>), F("key", <<<<"k1">>>>)>>)
Elsewhere == [Sys(5, 5, 5) EXCEPT !.f[1].v = 12, !.f[2].v = 3]      \* a call of the other machine
Cwd == R("CWD", <<F("cwd", <<"home">>)>>)
Path == R("PATH", <<F("item", 0), F("name", <<".", "x">>), F("inode", 9), F("obj", <<"o_r">>)>>)
Sock(family, text) == R("SOCKADDR", <<F("saddr", [family |-> family, text |-> text, short |-> FALSE])>>)
Avc == R("AVC", <<F("avc", "denied"), F("pid", 2), F("comm", <<"cat">>), F("name", <<"x">>), F("scontext", <<"u_r">>),
                  F("tcontext", <<"o_r">>), F("tclass", <<"file">>)>>)
User(type, mid, au, u) == R(type,
  <<F("pid", 2), F("uid", 0), F("auid", au), F("ses", 1), F("subj", <<"u_r">>)>> \o mid \o
  <<F("acct", <<"bob">>), F("exe", <<"bin", "su">>), F("hostname", <<"?">>), F("addr", <<"h2">>),
    F("terminal", <<"pts0">>), F("res", "failed")>>)

Kernel == <<F("pid", 2), F("uid", 5), F("auid", 6), F("tty", <<"pts0">>), F("ses", 1), F("subj", <<"u_r">>),
            F("comm", <<"nft">>), F("exe", <<"bin", "nft">>)>>
Table == <<F("table", <<"nat">>), F("family", 2), F("entries", 4)>>
AnomRecord(type, more) == R(type, Ids(6, 5, 5) \o <<F("ses", 1), F("subj", <<"u_r">>), F("pid", 2), F("comm", <<"cat">>),
                                              F("exe", <<"bin", "cat">>)>> \o more \o <<F("sig", 9)>>)

MCEvents == { Event(rs) : rs \in {
  <<Sys(5, 5, 0), Cwd, Path>>, <<Sys(6, 0, 5), Avc>>, <<Sys(5, 6, 6), Sock("inet", <<"h2">>)>>,
  <<Sys(5, 0, 0), Sock("unix", <<"x">>)>>, <<Sys(-1, 5, 5), R("NETFILTER_CFG", Kernel)>>, <<R("NETFILTER_CFG", Kernel)>>,
  <<Elsewhere>>, <<R("NETFILTER_CFG", Table)>>, <<Sys(5, 5, 5), R("NETFILTER_CFG", Table)>>, <<R("EVENT_LISTENER", Tail(Tail(Kernel)))>>,
  <<Avc>>, <<R("LOGIN", <<F("pid", 2), F("uid", 0), F("subj", <<"u_r">>), F("old auid", -1), F("new auid", 5),
                          F("old ses", -1), F("new ses", 1)>>)>>,
  <<User("USER_LOGIN", <<F("uid", 5)>>, 5, 5)>>, <<User("USER_CMD", <<F("cwd", <<"home">>)>>, 5, 0)>>,
  <<User("ADD_GROUP", <<F("id", 5)>>, 5, 0)>>, <<User("VIRT_CONTROL", <<F("vm", <<"vm1">>), F("uuid", <<"u1">>)>>, 5, 0)>>,
  <<User("VIRT_MACHINE_ID", <<F("vm", <<"vm1">>), F("uuid", <<"u1">>), F("vm-ctx", <<"u_r">>), F("img-ctx", <<"o_r">>)>>, 5, 0)>>,
  <<User("VIRT_RESOURCE", <<F("vm", <<"vm1">>), F("uuid", <<"u1">>), F("new-disk", <<"x">>)>>, 5, 0)>>,
  <<User("USER_AVC", <<F("avc", "denied"), F("scontext", <<"u_r">>), F("tcontext", <<"o_r">>), F("tclass", <<"dbus">>)>>, 5, 0)>>,
  <<AnomRecord("ANOM_ABEND", <<>>)>>, <<AnomRecord("SECCOMP", <<F("arch", 11), F("syscall", 2)>>)>>,
  <<R("ANOM_PROMISCUOUS", <<F("dev", <<"eth0">>)>> \o Ids(5, 0, 5) \o <<F("ses", 1)>>)>>,
  <<R("CONFIG_CHANGE", <<F("auid", 5), F("ses", 1), F("subj", <<"u_r">>), F("path", <<"x">>), F("key", <<<<"k1">>>>), F("res", "1")>>)>>,
  <<R("MAC_POLICY_LOAD", <<F("policy", 1), F("auid", 5), F("ses", 1)>>)>>,
  <<R("INTEGRITY_DATA", <<F("pid", 2), F("uid", 5), F("auid", 5), F("ses", 1), F("subj", <<"u_r">>), F("comm", <<"cat">>),
                          F("name", <<"x">>), F("res", "1")>>)>>,
  <<R("TTY", <<F("pid", 2), F("uid", 5), F("auid", 5), F("ses", 1), F("comm", <<"cat">>), F("data", 1)>>)>>,
  <<R("DAEMON_START", <<F("auid", 5), F("pid", 2), F("uid", 5), F("ses", 1), F("subj", <<"u_r">>), F("res", "failed")>>)>>,
  <<R("DAEMON_ACCEPT", <<F("addr", <<"h2">>), F("res", "success")>>)>>,
  <<R("NETFILTER_PKT", <<F("saddr", <<"h2">>), F("obj", <<"o_r">>)>>)>>,
  <<R("FEATURE_CHANGE", Tail(SubSeq(Sys(5, 5, 0).f, 7, 23)) \o <<F("res", "1")>>)>>,
  <<R("IPC", <<F("ouid", 5), F("obj", <<"o_r">>)>>)>>, <<R("EOE", <<>>)>> } }

\* Single options; each with an argument some of the events carry.
O(name, word) == <<Opt(name), word>>
MCLines ==
  << O("ui", Num(5)), O("ui", Num(0)), O("ui", Text(<<"bob">>)), O("ue", Num(5)), O("ue", Text(<<"root">>)), O("ul", Num(5)),
     O("ul", Text(<<"bob">>)), O("ul", Num(-1)), O("ua", Num(5)), O("ua", Text(<<"bob">>)), O("gi", Num(5)),
     O("ge", Text(<<"staff">>)), O("ga", Num(6)), O("p", Num(2)), O("pp", Num(1)), O("c", Text(<<"cat">>)),
     O("x", Text(<<"bin">>)), O("f", Text(<<"x">>)), O("k", Text(<<"k1">>)), O("hn", Text(<<"h2">>)), O("tm", Text(<<"pts0">>)),
     O("su", Text(<<"u_r">>)), O("o", Text(<<"u_r">>)), O("se", Text(<<"o_r">>)), O("sv", Text(<<"yes">>)), O("sv", Text(<<"no">>)),
     O("arch", Num(2)), O("arch", Num(1)), O("sc", Num(2)), O("sc", Num(0)), O("sc", Text(<<"open">>)), O("session", Num(1)), O("e", Num(0)),
     O("m", Text(<<"LOGIN", "AVC">>)), O("n", Text(<<"h1">>)), O("vm", Text(<<"vm1">>)), O("uu", Text(<<"u1">>)), O("te", Num(6)),
     O("a", Num(3)), <<Opt("i")>>, <<Opt("w")>> >>

BadLines == { <<>>, <<Opt("ui")>>, O("ui", Text(<<"eve">>)), O("p", Text(<<"cat">>)), <<Opt("i"), Text(<<"x">>)>>, <<Opt("i"), Opt("r")>>,
              <<Opt("extra-keys")>>, O("arch", Num(1)) \o O("arch", Num(1)), <<Opt("h")>>, O("ul", Opt("i")), O("m", Text(<<"NONE">>)),
              O("format", Text(<<"csv">>)) \o <<Opt("extra-keys")>>, O("format", Text(<<"xml">>)), O("escape", Text(<<"tty">>)),
              <<Opt("ts"), Num(3), Num(2)>>, O("ts", Text(<<"checkpoint">>)), O("e", Text(<<"EPERM">>)), <<Text(<<"x">>)>>, O("sv", Text(<<"on">>)) }

MW(one, two, es) == [one |-> one, two |-> two, events |-> es]
Named1 == Event(<<Rich(Sys(6, 6, 6), [auid |-> <<"bob">>, uid |-> <<"bob">>, euid |-> <<"bob">>]), Cwd, Rich(Path, [ouid |-> <<"amy">>])>>)
Named2 == Event(<<Sys(6, 6, 6), Cwd, Rich(Path, [ouid |-> <<"amy">>])>>)
Named3 == Event(<<Rich(Sys(5, 5, 5), [auid |-> <<"eve">>, uid |-> <<"eve">>, euid |-> <<"eve">>])>>)
UserLines == {MCLines[i] : i \in {3, 5, 7, 9, 10}} \cup {O("ul", Num(6))}

MCMatchWorlds ==
  {MW(MCLines[p[1]], MCLines[p[2]], <<e>>) : p \in {p \in (DOMAIN MCLines) \X (DOMAIN MCLines) : p[1] < p[2]}, e \in MCEvents}
  \cup {MW(x, <<>>, <<e>>) : x \in BadLines, e \in {Named1, Named2}}
  \cup {MW(x \o more, <<>>, <<a, b, c>>) : x \in UserLines, a \in {Named1, Named2, Named3}, b \in {Named1, Named2, Named3},
        c \in {Named1, Named3}, more \in {<<>>, <<Opt("i")>>, <<Opt("i"), Opt("just-one")>>}}

-----------------------------------------------------------------------------
(* Logins for aulast and aulastlog.                                        *)
MCLogins == {[auid |-> 1, pid |-> 1, ses |-> 1], [auid |-> 2, pid |-> 2, ses |-> 2],
             [auid |-> 2, pid |-> 3, ses |-> 1], [auid |-> -1, pid |-> 3, ses |-> 2]}
MCAulWorlds == {[bad |-> FALSE, user |-> -1, cterm |-> "any"], [bad |-> TRUE, user |-> -1, cterm |-> "any"],
                [bad |-> FALSE, user |-> 2, cterm |-> "any"], [bad |-> FALSE, user |-> -1, cterm |-> "tty1"]}
MCLastEvents == [type : {"USER_LOGIN"}, res : {"success"}, auid : 1..3, host : {"a", "b", "none"}, term : {"tty1"}]
                \cup {[type |-> "USER_LOGIN", res |-> "failed", auid |-> 1, host |-> "a", term |-> "tty1"],
                      [type |-> "USER_END", res |-> "success", auid |-> 1, host |-> "a", term |-> "tty1"]}
MCLastWorlds == [users : {{1, 2}, {2}}, log : UNION {[1..n -> MCLastEvents] : n \in 0..4}]

-----------------------------------------------------------------------------
(* Records of two guests for auvirt.                                       *)
VirtWorld(guest, from, all, apparmor, max) ==
  [guest |-> guest, from |-> from, to |-> IF from = 0 THEN 0 ELSE max - 1, all |-> all,
   proof |-> TRUE, apparmor |-> apparmor, max |-> max]
MCVirtWorlds == {VirtWorld("any", 0, TRUE, FALSE, 4), VirtWorld("any", 0, TRUE, TRUE, 5), VirtWorld("u1", 2, TRUE, FALSE, 4)}
MCMachines == [uuid : {"u1", "u2"}, model : {"selinux"}, success : {TRUE}, level : {"c1"}, whole : {TRUE}]
  \cup {[uuid |-> "u1", model |-> "dac", success |-> TRUE, level |-> "c1", whole |-> TRUE]}
PidOf(u) == IF u = "u1" THEN 1 ELSE 2
MCControls == {[op |-> op, uuid |-> u, success |-> s, pid |-> PidOf(u), whole |-> TRUE] :
                 op \in {"start", "stop"}, u \in {"u1", "u2"}, s \in BOOLEAN}
  \cup {[op |-> "start", uuid |-> "u1", success |-> TRUE, pid |-> 1, whole |-> FALSE]}
MCResources == [uuid : {"u1", "u2"}, success : {TRUE}, kind : {"disk"}, old : {"none", "a"}, new : {"none", "a"}, whole : {TRUE}]
  \cup {[uuid |-> "u1", success |-> FALSE, kind |-> "disk", old |-> "a", new |-> "a", whole |-> TRUE],
        [uuid |-> "u1", success |-> TRUE, kind |-> "cgroup", old |-> "none", new |-> "b", whole |-> TRUE],
        [uuid |-> "u1", success |-> TRUE, kind |-> "net", old |-> "none", new |-> "a", whole |-> TRUE]}
MCDenials == {[by |-> "selinux", level |-> "c1", profile |-> "none", target |-> "none", whole |-> TRUE],
              [by |-> "apparmor", level |-> "none", profile |-> "u1", target |-> "a", whole |-> TRUE],
              [by |-> "selinux", level |-> "c1", profile |-> "none", target |-> "none", whole |-> FALSE]}
MCAnomalies == {[pid |-> 1, level |-> "none", whole |-> TRUE], [pid |-> -1, level |-> "c1", whole |-> TRUE],
                [pid |-> 1, level |-> "none", whole |-> FALSE]}

-----------------------------------------------------------------------------
(* Logs and command lines for aureport: every report, in lines and in      *)
(* summary, over events of every kind that a counter tells apart.          *)
MCLoginName == [u \in {0, 5} |-> IF u = 0 THEN "root" ELSE "amy"]

Items == [NotSet EXCEPT !.success = 1, !.loginuid = 5, !.uid = 0, !.pid = 7]
Person == [Items EXCEPT !.terminal = "tty1", !.hostname = "h1", !.exe = "su", !.acct = "amy"]
Program == [Items EXCEPT !.syscall = 2, !.exe = "cat", !.comm = "cat", !.terminal = "tty1"]
Name(str, kind) == [str |-> str, kind |-> kind]
E(types, items) ==
  [types |-> types, items |-> items, sec |-> 1, node |-> "n1", malformed |-> FALSE, enriched |-> ""]

UserEvents ==
  { E(<<T.USER_AUTH>>, Person), E(<<T.USER_AUTH>>, [Person EXCEPT !.success = 0, !.acct = "bob", !.loginuid = -1]),
    E(<<T.USER_MGMT>>, [Person EXCEPT !.success = 0]), E(<<T.USER_LOGIN>>, Person),
    E(<<T.USER_LOGIN>>, [Person EXCEPT !.success = 0, !.loginuid = -1]), E(<<T.ADD_USER>>, Person), E(<<T.DEL_GROUP>>, Person),
    E(<<T.USER_CHAUTHTOK>>, Person), E(<<T.ROLE_ASSIGN>>, Person), E(<<T.USER_MAC_CONFIG_CHANGE>>, Person),
    E(<<2400>>, Person), E(<<2500>>, Person), E(<<2100>>, Person), E(<<2200>>, Person), E(<<T.GRP_AUTH>>, Person),
    E(<<T.USER_TTY>>, [Program EXCEPT !.session_id = 1]) }
Access == [scontext |-> "s1", tcontext |-> "o1", result |-> "denied"]
KernelEvents ==
  { E(<<T.CONFIG_CHANGE>>, [Items EXCEPT !.key = <<"k1">>]), E(<<T.DAEMON_CONFIG>>, Items), E(<<T.MAC_POLICY_LOAD, T.SYSCALL>>, Program),
    E(<<T.MAC_UNLBL_STCADD, T.SYSCALL>>, Program), E(<<T.AVC, T.SYSCALL>>, [Program EXCEPT !.avc = <<Access, [Access EXCEPT !.tcontext = "o2"]>>]),
    E(<<T.USER_AVC>>, [Person EXCEPT !.avc = <<Access, [Access EXCEPT !.result = "unset", !.tcontext = ""]>>]),
    E(<<T.USER_AVC>>, [Person EXCEPT !.avc = <<[Access EXCEPT !.result = "unset", !.tcontext = ""]>>]),
    E(<<1600>>, Items), E(<<1701, T.SYSCALL>>, Program), E(<<1800>>, Items), E(<<T.SECCOMP>>, Program),
    E(<<T.SYSCALL>>, [Program EXCEPT !.success = 0, !.key = <<"k1", "k2">>]),
    E(<<T.SYSCALL>>, [Program EXCEPT !.key = <<"(null)">>, !.filename = <<Name("d", "PARENT"), Name("f", "NORMAL")>>]),
    E(<<T.SYSCALL>>, [Program EXCEPT !.filename = <<Name("f", "")>>, !.pid = 8, !.comm = "ls", !.exe = "ls", !.hostname = "h2"]) }
Odd == { [E(<<T.SYSCALL>>, Program) EXCEPT !.enriched = "ann", !.node = "n2"], [E(<<T.SYSCALL>>, Program) EXCEPT !.malformed = TRUE] }

At(e, t) == [e EXCEPT !.sec = t]
Logfile(es) == [opens |-> TRUE, events |-> es]
Pairs == {<<At(a, 1), At(b, 2)>> : a \in UserEvents, b \in KernelEvents \cup Odd}
Triples == {<<At(a, 1), At(b, 2), At(b, 3)>> : a \in UserEvents, b \in UserEvents} \cup
           {<<At(a, 1), At(b, 2), At(b, 3)>> : a \in KernelEvents, b \in KernelEvents}
MCLogs == {<<Logfile(p)>> : p \in Pairs \cup Triples} \cup {<<Logfile(<<p[1]>>), Logfile(<<p[2]>>)>> : p \in Pairs} 
FewLogs == {<<Logfile(p)>> : p \in Pairs} \cup {<<Logfile(<<p[1]>>), [opens |-> FALSE, events |-> <<>>]>> : p \in Pairs}
           \cup {<<Logfile(<<p[1]>>), Logfile(<<>>)>> : p \in Pairs}

W(o) == [dash |-> TRUE, opt |-> o, n |-> 0]
Arg(o, n) == [dash |-> FALSE, opt |-> o, n |-> n]
MainLines == {<<W(r)>> : r \in ReportNames} \cup {<<W(r), W("summary")>> : r \in ReportNames} \cup {<<>>}
OtherLines ==
  { <<W("summary"), W("MAC")>>, <<W("MAC"), W("AVC")>>, <<W("FILE"), Arg("x", 0)>>, <<W("failed")>>, <<W("success"), W("EVENT")>>,
    <<W("add"), W("ACCT_MOD")>>, <<W("delete")>>, <<W("no-config")>>, <<W("node"), Arg("n2", 0)>>, <<W("node")>>,
    <<W("start"), Arg("t", 2)>>, <<W("end"), Arg("t", 1), W("LOGIN")>>, <<W("interpret"), W("USER")>>,
    <<W("interpret"), W("USER"), W("summary")>>, <<W("interpret"), Arg("x", 0)>>, <<W("EVENT"), Arg("x", 0)>> }
MCRptWorlds == [words : MainLines, log : MCLogs] \cup [words : OtherLines, log : FewLogs]

-----------------------------------------------------------------------------
VARIABLE tool

toolVars == <<tool, searchVars, clockVars, matchVars, aulVars, lastVars, virtVars, rptVars>>

IdleSearch == SearchStart(SW(<<>>, FALSE, FALSE, 0, FALSE, 0, 0))
IdleClock  == ClockStart([now |-> 0, boot |-> 0, change |-> 0, dst |-> <<0, 0>>])
IdleMatch  == MatchStart(MW(<<>>, <<>>, <<>>))
IdleAul    == AulStart([bad |-> FALSE, user |-> -1, cterm |-> "any"])
IdleLast   == LastStart([users |-> {}, log |-> <<>>])
IdleVirt   == VirtStart(VirtWorld("any", 0, FALSE, FALSE, 0))
IdleRpt    == RptStart([words |-> <<>>, log |-> <<>>])

ToolInit ==
  \/ tool = "search"    /\ SearchInit /\ IdleClock /\ IdleMatch /\ IdleAul /\ IdleLast /\ IdleVirt /\ IdleRpt
  \/ tool = "clock"     /\ IdleSearch /\ ClockInit /\ IdleMatch /\ IdleAul /\ IdleLast /\ IdleVirt /\ IdleRpt
  \/ tool = "match"     /\ IdleSearch /\ IdleClock /\ MatchInit /\ IdleAul /\ IdleLast /\ IdleVirt /\ IdleRpt
  \/ tool = "aulast"    /\ IdleSearch /\ IdleClock /\ IdleMatch /\ AulInit /\ IdleLast /\ IdleVirt /\ IdleRpt
  \/ tool = "aulastlog" /\ IdleSearch /\ IdleClock /\ IdleMatch /\ IdleAul /\ LastInit /\ IdleVirt /\ IdleRpt
  \/ tool = "auvirt"    /\ IdleSearch /\ IdleClock /\ IdleMatch /\ IdleAul /\ IdleLast /\ VirtInit /\ IdleRpt
  \/ tool = "aureport"  /\ IdleSearch /\ IdleClock /\ IdleMatch /\ IdleAul /\ IdleLast /\ IdleVirt /\ RptInit

ToolNext ==
  \/ tool = "search"    /\ SearchNext /\ UNCHANGED <<tool, clockVars, matchVars, aulVars, lastVars, virtVars, rptVars>>
  \/ tool = "clock"     /\ ClockNext  /\ UNCHANGED <<tool, searchVars, matchVars, aulVars, lastVars, virtVars, rptVars>>
  \/ tool = "match"     /\ MatchNext  /\ UNCHANGED <<tool, searchVars, clockVars, aulVars, lastVars, virtVars, rptVars>>
  \/ tool = "aulast"    /\ AulNext    /\ UNCHANGED <<tool, searchVars, clockVars, matchVars, lastVars, virtVars, rptVars>>
  \/ tool = "aulastlog" /\ LastNext   /\ UNCHANGED <<tool, searchVars, clockVars, matchVars, aulVars, virtVars, rptVars>>
  \/ tool = "auvirt"    /\ VirtNext   /\ UNCHANGED <<tool, searchVars, clockVars, matchVars, aulVars, lastVars, rptVars>>
  \/ tool = "aureport"  /\ RptNext    /\ UNCHANGED <<tool, searchVars, clockVars, matchVars, aulVars, lastVars, virtVars>>

Spec == ToolInit /\ [][ToolNext]_toolVars
=============================================================================
