------------------------------ MODULE MCAdmin -------------------------------
(***************************************************************************)
(* What the administrator does, one tool at a time: the configuration      *)
(* files (Configs), rule lines (RuleOptions), auditctl (RuleControl),      *)
(* autrace (Autrace). tool is chosen at the start; the others stand still. *)
(***************************************************************************)
EXTENDS Configs, RuleOptions, RuleControl, Autrace, TLC

-----------------------------------------------------------------------------
(* Configuration files: groups of lines whose parsers touch common fields, *)
(* in files of up to four lines, and every keyword of every program with   *)
(* values that are good, at a limit and beyond it, two at a time.          *)
W(w)        == [word |-> w, n |-> 0, to |-> 0]
N(n)        == [word |-> "#", n |-> n, to |-> 0]
Pct(n)      == [word |-> "%", n |-> n, to |-> 0]
Span(n, to) == [word |-> "-", n |-> n, to |-> to]

L(kind, name, v, o, e) == [kind |-> kind, name |-> name, value |-> v, option |-> o, ending |-> e]
Pair(name, v)   == L("pair", name, v, NULL, "newline")
Extra(name, v, o) == L("pair", name, v, o, "newline")
Cut(name, v)    == L("pair", name, v, NULL, "none")
Long(name, v)   == L("pair", name, v, NULL, "long")
Blank           == L("blank", "", W(NULL), NULL, "newline")
LongBlank       == L("blank", "", W(NULL), NULL, "long")
Bare(name)      == L("bare", name, W(NULL), NULL, "newline")

Pairs(f) == UNION {{Pair(name, v) : v \in f[name]} : name \in DOMAIN f}

MCStatus ==
  ("good" :> "ok") @@ ("new" :> "absent") @@ ("loose" :> "mode") @@ ("other" :> "foreign") @@
  ("locked" :> "closed") @@ ("x" :> "short") @@ ("#" :> "short")
MCValidity == ("admin" :> 0) @@ ("far" :> 1) @@ ("a!" :> 2)
MCExeOk == {"good"}
MCAbsolute == {"good", "new"}
MCInode == ("good" :> 11) @@ ("loose" :> 12)
MCBuiltin == {"builtin_af_unix"}
MCHosts == {"here", "NULL"}

YesNos == {W("yes"), W("no")}

DaemonSpace ==
  Pairs([flush |-> {W("incremental"), W("none")}, freq |-> {N(0), N(5)},
         space_left |-> {N(100), N(10), Pct(5)}, admin_space_left |-> {N(50), Pct(3)}])
  \cup {Blank, Long("space_left", N(7)), Cut("freq", N(5))}

DaemonCoupled ==
  Pairs([write_logs |-> YesNos, log_format |-> {W("nolog"), W("raw")},
         transport |-> {W("tcp"), W("krb5")}, enable_krb5 |-> YesNos,
         verify_email |-> YesNos, action_mail_acct |-> {W("a!"), W("far")}])

DaemonFiles ==
  Pairs([log_file |-> {W(w) : w \in DOMAIN MCStatus}])
  \cup {Extra("space_left_action", W("exec"), o) : o \in {"good", "loose", NULL}}
  \cup {Extra("disk_full_action", W(w), "good") : w \in {"exec", "email", "halt"}}
  \cup {Pair("disk_error_action", W("syslog")), Extra("log_file", W("good"), "extra"),
        Extra("disk_error_action", W("exec"), "good"), Pair("space_left_action", W("email")),
        Extra("admin_space_left_action", W("exec"), "good"), Bare("log_file"), Pair("colour", W("red"))}

DaemonAll ==
  Pairs([local_events |-> YesNos, log_group |-> {N(4), N(1000004), W("adm"), W("nobody")},
         num_logs |-> {N(999), N(1000)}, dispatcher |-> {W("x")}, disp_qos |-> {W("x")},
         name_format |-> {W("none"), W("hostname"), W("user")}, name |-> {W("node")},
         max_log_file |-> {N(8), N(1000008), N(2000000)},
         max_log_file_action |-> {W("rotate"), W("halt")},
         priority_boost |-> {N(4), N(500000)}, tcp_listen_port |-> {N(0), N(1), N(65535), N(65536)},
         tcp_listen_queue |-> {N(5)}, tcp_max_per_addr |-> {N(1024), N(1025)},
         use_libwrap |-> YesNos, tcp_client_ports |-> {N(1), Span(1, 2), Span(2, 1), Span(1, 65536)},
         tcp_client_max_idle |-> {N(0), Pct(1)}, krb5_principal |-> {W("p")},
         krb5_key_file |-> {W("k")}, distribute_network |-> YesNos, q_depth |-> {N(400), N(100000)},
         overflow_action |-> {W("halt"), W("reboot")}, max_restarts |-> {N(0)},
         plugin_dir |-> {W("d")}])

RemoteActions ==
  UNION {{Pair(k, W("halt")), Extra(k, W("exec"), "good"), Extra(k, W("exec"), "loose")} :
           k \in {"startup_failure_action", "disk_low_action", "remote_ending_action"}}
  \cup Pairs([mode |-> {W("forward"), W("immediate")}, format |-> {W("ascii"), W("managed")},
              remote_ending_action |-> {W("reconnect")},
              transport |-> {W("tcp")}, enable_krb5 |-> YesNos])

RemoteAll ==
  Pairs([remote_server |-> {W("s")}, port |-> {N(0), N(65535), N(65536), N(1000060)},
         local_port |-> {W("any"), N(60), N(65536)}, queue_file |-> {W("good"), W("x")},
         queue_depth |-> {N(0), N(1), N(1000000), N(1000001), N(500000)},
         network_retry_time |-> {N(1), N(1000000)}, max_tries_per_record |-> {N(0), N(2)},
         max_time_per_record |-> {N(1), N(2000000)}, heartbeat_timeout |-> {N(0), W("x")},
         krb5_principal |-> {W("p")}, krb5_client_name |-> {W("c")}, krb5_key_file |-> {W("k")},
         overflow_action |-> {W("halt"), W("stop")}, transport |-> {W("udp")}, enable_krb5 |-> {W("maybe")}])
  \cup {Blank, LongBlank, Bare("port"), Cut("port", N(61)), Pair("colour", W("red")),
        Extra("port", N(60), "extra")}

ZosAll ==
  Pairs([server |-> {W("s")}, user |-> {W("u")}, password |-> {W("p")}, timeout |-> {N(0), N(5), N(1000000)},
         port |-> {N(1), N(1000001), W("x")}, q_depth |-> {N(15), N(16), N(100000)}])
  \cup {LongBlank}

PluginAll ==
  Pairs([active |-> YesNos, direction |-> {W("out"), W("in")},
         path |-> {W("good"), W("loose"), W("x"), W("builtin_af_unix")},
         type |-> {W("builtin"), W("always")}, args |-> {W("a")}, format |-> {W("binary"), W("xml")}])
  \cup {Extra("args", W("b"), "c"), Cut("active", W("yes")), Blank}

ConfWorld(p, st, base, lines, max) ==
  [prog |-> p, status |-> st, base |-> base, lines |-> lines, max |-> Len(base) + max]

Enough == <<Pair("space_left", N(100))>>

MCConfWorlds ==
  <<ConfWorld("auditd", "present", << >>, DaemonSpace, 4),
    ConfWorld("auditd", "present", Enough, DaemonCoupled, 3),
    ConfWorld("auditd", "present", Enough, DaemonFiles, 2),
    ConfWorld("auditd", "present", Enough, DaemonAll, 2),
    ConfWorld("auditd", "missing", << >>, {Blank}, 1),
    ConfWorld("auditd", "unsafe", Enough, {Blank}, 1),
    ConfWorld("remote", "present", << >>, RemoteActions, 3),
    ConfWorld("remote", "present", << >>, RemoteAll, 2),
    ConfWorld("zos", "present", << >>, ZosAll, 4),
    ConfWorld("zos", "missing", << >>, {Blank}, 1),
    ConfWorld("plugin", "present", << >>, PluginAll, 3)>>

-----------------------------------------------------------------------------
(* Rule lines: the options that may follow each beginning.                 *)
MCSyscallNumber == ("elf64" :> ("open" :> 2 @@ "execve" :> 59)) @@ ("elf32" :> ("open" :> 5 @@ "execve" :> 11)) @@
            ("elfppc" :> ("open" :> 5 @@ "execve" :> 11))
MCDigits == "7" :> 7
MCFeatures == {"exclude_extend", "filter_fs", "executable_path", "sessionid_filter"}

ExitAlways == OnList("a", "exit", "always")
Open == Calls(<<"open">>)
FV(f, vs) == {Field(f, "=", v) : v \in vs}
FO(f, v)  == {Field(f, op, v) : op \in {"=", "!=", ">="}}

RuleWorld(b, o, m) == [base |-> b, options |-> o, max |-> m]
MCRuleWorlds ==
  (1 :> RuleWorld(<<>>,
        {OnList(o, x, "always") : o \in {"a", "d"}, x \in Lists \cup {"junk"}} \cup
        {OnList("A", "never", "exit"), OnList("a", "possible", "exit"), Open, Calls(<<"all">>),
         Field("pid", "=", "0"), Field("exe", "!=", "file"), Arg("k", "key"), Arg("w", "dir")}, 4)) @@
  (2 :> RuleWorld(<<ExitAlways>>,
        FO("path", "file") \cup {Field("exe", op, "file") : op \in {"!=", ">="}} \cup
        {Field("key", "!=", "x"), Field("key", "=", "y"), Arg("p", "rwxa"),
         Field("obj_user", "!=", "root"), Calls(<<"7", "open">>)}, 4)) @@
  (3 :> RuleWorld(<<>>,
        FV("arch", {"b64", "b32", "0x32", "ppc64", "junk"}) \cup
        {Field("arch", "!=", "b64"), Field("arch", ">=", "b64"), Calls(<<"open", "execve">>),
         Calls(<<"open", "junk">>), Open, ExitAlways, Field("uid", "=", "0")}, 4)) @@
  (4 :> RuleWorld(<<>>,
        {Arg("w", "file"), Arg("w", "long"), Arg("W", "dir"), Arg("p", "r"), Arg("p", "junk"),
         Arg("k", "a"), Arg("k", "long"), ExitAlways, OnList("a", "user", "never"), Open,
         Field("path", "=", "file")}, 4)) @@
  (5 :> RuleWorld(<<ExitAlways>>,
        UNION {FV(f, {"0", "max", "-1", "name", "unset", "junk", ""}) :
               f \in FieldNames \ {"arch", "perm", "key"}}, 2)) @@
  (6 :> RuleWorld(<<OnList("a", "never", "exit")>>,
        {Field("path", "=", "file"), Field("dir", "=", "dir"), Field("perm", "=", "r"), Arg("p", "r"),
         Arg("k", "a"), Field("key", "=", "b")}, 5)) @@
  (7 :> RuleWorld(<<ExitAlways>>,
        {Compare(f, "!=", g) : f, g \in {"uid", "auid", "obj_uid", "gid", "fsgid", "pid"}} \cup
        {Compare("uid", ">=", "euid")}, 2)) @@
  (8 :> RuleWorld(<<>>,
        {OnList("a", x, "never") : x \in Lists} \cup
        UNION {FV(f, {"0", "name"}) : f \in {"msgtype", "fstype", "sessionid", "saddr_fam", "pid", "ppid",
                                           "exit", "subj_user", "exe"}} \cup {Arg("k", "a")}, 3)) @@
  (9 :> RuleWorld(<<OnList("a", "always", "exit")>>,
        {Field("uid", "=", "0"), Field("key", "=", "a"), Field("key", "=", "b"), Arg("k", "c"), Open,
         Field("subj_user", "=", "s"), Field("path", "=", "file"), Field("exe", "=", "dir")}, 5))

-----------------------------------------------------------------------------
(* What auditctl is asked, by the command line or by a file of rules.      *)
Keyed(k) == <<OnList("a", "exit", "always"), Calls(<<"open">>), Arg("k", k)>>
Plain    == <<OnList("a", "exit", "always"), Field("uid", "=", "0")>>
User     == <<OnList("a", "user", "never")>>
WatchDir == <<Arg("w", "dir")>>
Made(l)  == Outgoing(setopt(l))
Remove_(l) == [l EXCEPT ![1].o = "d"]
Old      == <<OnList("a", "possible", "exit")>>
One(o)   == <<Opt(o)>>
DelKey   == <<Opt("D"), Arg("k", "a")>>

CtlWorld(m, ls, rs, en, leg, ref, adm) ==
  [mode |-> m, lines |-> ls, rules |-> [i \in DOMAIN rs |-> Made(rs[i])], enabled |-> en,
   legacy |-> leg, refuses |-> ref, admin |-> adm]
File(ls, rs, adm) == CtlWorld("file", ls, rs, 1, FALSE, {}, adm)

MCCtlWorlds ==
  {File(<<x, y>>, <<Keyed("a")>>, <<>>) :
     x \in {One("c"), <<Arg("e", "2")>>, <<Arg("e", "x")>>, Old, <<Calls(<<"open">>)>>,
            <<Arg("e", "1"), OnList("a", "possible", "exit")>>},
     y \in {Keyed("a"), Remove_(Keyed("a")), One("t")}} \cup
  {File(<<One("c"), x, y>>, <<Keyed("a")>>, <<>>) :
     x \in {Keyed("a"), <<Calls(<<"open">>)>>, <<Arg("e", "2")>>}, y \in {Plain, One("c")}} \cup
  {File(<<One("i"), Keyed("a"), <<Opt("l"), Arg("k", "a")>> >>, <<Keyed("a")>>, <<>>),
   File(<<<<Arg("b", "1"), Arg("f", "1")>>, One("v")>>, <<Plain>>, <<Set("enabled", 2)>>)} \cup
  {File(<<d>>, <<Keyed("a"), Keyed("b")>>, <<a>>) :
     d \in {One("D"), DelKey},
     a \in {Change("add", Made(Keyed("c"))), Change("del", Made(Keyed("b"))), Change("del", Made(Keyed("a"))),
            Set("enabled", 2)}} \cup
  {CtlWorld("line", <<WatchDir>>, <<Keyed("a")>>, 1, leg, {}, <<>>) : leg \in BOOLEAN} \cup
  {CtlWorld("line", <<l>>, <<Keyed("a")>>, en, FALSE, {"user"}, <<>>) :
     en \in {1, 2},
     l \in {Keyed("a"), User, One("D"), One("l"), One("s"), One("signal"),
            One("c"), One("zz"), <<OnList("q", "mnt", "sub")>>, <<Opt("q")>>, Old, <<Arg("r", "1")>>,
            <<Arg("e", "2"), Arg("f", "1")>>, <<Arg("p", "r")>>, <<Field("arch", "=", "b64"), Opt("t")>>}}

-----------------------------------------------------------------------------
(* What may go wrong for autrace.                                          *)
AutWorld(rs, en, net, op, wr, lk) ==
  [rules |-> rs, enabled |-> en, net |-> net, opens |-> op, writes |-> wr, locks |-> lk]
MCAutWorlds ==
  {AutWorld(<<>>, 1, net, op, wr, lk) : net, op, wr, lk \in BOOLEAN}
  \cup {AutWorld(<<[flags |-> "exit", fields |-> <<>>, what |-> <<"uid", "all">>]>>, 1, FALSE, TRUE, TRUE, FALSE),
        AutWorld(<<>>, 2, FALSE, TRUE, TRUE, FALSE)}

-----------------------------------------------------------------------------
VARIABLE tool

adminVars == <<tool, confWorld, file, ruleWorld, line, ctlVars, autVars>>

IdleConf == confWorld = 0 /\ file = <<>>
IdleRule == ruleWorld = 0 /\ line = <<>>
IdleCtl  == ctlWorld = <<>> /\ kern = <<>> /\ chan = <<>> /\ ctl = [pc |-> "idle"] /\ hist = [deleted |-> FALSE]
IdleAut  == autWorld = <<>> /\ autKern = <<>> /\ autChan = <<>> /\ aut = [pc |-> "idle", child |-> "none"]

AdminInit ==
  \/ tool = "config"   /\ ConfInit /\ IdleRule /\ IdleCtl /\ IdleAut
  \/ tool = "rules"    /\ RuleInit /\ IdleConf /\ IdleCtl /\ IdleAut
  \/ tool = "auditctl" /\ CtlInit  /\ IdleConf /\ IdleRule /\ IdleAut
  \/ tool = "autrace"  /\ AutInit  /\ IdleConf /\ IdleRule /\ IdleCtl

AdminNext ==
  \/ tool = "config"   /\ ConfNext /\ UNCHANGED <<tool, ruleWorld, line, ctlVars, autVars>>
  \/ tool = "rules"    /\ RuleNext /\ UNCHANGED <<tool, confWorld, file, ctlVars, autVars>>
  \/ tool = "auditctl" /\ CtlNext  /\ UNCHANGED <<tool, confWorld, file, ruleWorld, line, autVars>>
  \/ tool = "autrace"  /\ AutNext  /\ UNCHANGED <<tool, confWorld, file, ruleWorld, line, ctlVars>>

Spec ==
  /\ AdminInit /\ [][AdminNext]_adminVars
  /\ WF_adminVars(tool = "auditctl" /\ Program /\ UNCHANGED <<tool, confWorld, file, ruleWorld, line, autVars>>)
  /\ WF_adminVars(tool = "autrace" /\ Parent /\ UNCHANGED <<tool, confWorld, file, ruleWorld, line, ctlVars>>)
  /\ WF_adminVars(tool = "autrace" /\ Child /\ UNCHANGED <<tool, confWorld, file, ruleWorld, line, ctlVars>>)
=============================================================================
