------------------------------ MODULE Configs -------------------------------
(***************************************************************************)
(* The configuration files as an administrator may write them: a file is   *)
(* extended by one line at a time, in every order, and each of the five    *)
(* readers is asked what it makes of it.                                   *)
(*                                                                         *)
(* A world is [prog, status, base, lines, max]: the program, what open and *)
(* fstat find, the lines the file begins with, the lines that may be       *)
(* added, and how many.                                                    *)
(***************************************************************************)
EXTENDS Integers, Sequences, FiniteSets

CONSTANTS ConfWorlds, Status, Validity, ExeOk, Absolute, Inode, Builtin, Hosts

VARIABLES confWorld, file

D == INSTANCE DaemonConfig
G == INSTANCE PluginConfig

NULL == D!NULL

\* World 0: nobody reads a configuration.
prog == IF confWorld = 0 THEN "none" ELSE ConfWorlds[confWorld].prog

LoadOf(p, f) ==
  LET status == ConfWorlds[confWorld].status
  IN  CASE p = "auditd"  -> D!load_config(status, f)
        [] p = "auparse" -> D!aup_load_config(status, f)
        [] p = "remote"  -> G!load_config(status, f)
        [] p = "zos"     -> G!plugin_load_config(status, f)
        [] p = "plugin"  -> G!load_pconfig(status, f)

ConfInit ==
  /\ confWorld \in DOMAIN ConfWorlds
  /\ file = ConfWorlds[confWorld].base

\* Nothing follows a line without a newline.
ConfNext ==
  \E line \in ConfWorlds[confWorld].lines :
    /\ Len(file) < ConfWorlds[confWorld].max
    /\ \A i \in DOMAIN file : file[i].ending # "none"
    /\ file' = Append(file, line)
    /\ UNCHANGED confWorld

----------------------------------------------------------------------------
\* The parsers that read or write a field of another keyword.
Coupled ==
  CASE prog = "auditd" -> {{"write_logs", "log_format"}, {"transport", "enable_krb5"},
                           {"verify_email", "action_mail_acct"}}
    [] prog = "remote" -> {{"transport", "enable_krb5"}}
    [] OTHER -> {}

\* Keywords whose earlier occurrence outlives a later one: "nolog" turned
\* the logs off, "yes" chose Kerberos, an account was read unverified, "any"
\* does not undo a port.
Sticky ==
  CASE prog = "auditd" -> {"log_format", "enable_krb5", "verify_email"}
    [] prog = "remote" -> {"enable_krb5", "local_port"}
    [] OTHER -> {}

ExeFields ==
  {<<"space_left_action", "space_left_exe">>, <<"disk_full_action", "disk_full_exe">>,
   <<"admin_space_left_action", "admin_space_left_exe">>,
   <<"disk_error_action", "disk_error_exe">>}

\* A configuration as the rest of the program sees it: the program of an
\* action counts only if the action is exec, an inode only if the path is
\* not a builtin's.
Seen(c) ==
  CASE prog = "auditd" ->
         [f \in DOMAIN c |->
            IF \E p \in ExeFields : p[2] = f /\ c[p[1]] # "exec" THEN NULL ELSE c[f]]
    [] prog = "remote" ->
         [c EXCEPT !.exe = [x \in DOMAIN c.exe |-> IF c[x] = "exec" THEN c.exe[x] ELSE NULL]]
    [] prog = "plugin" -> IF c.path \in Builtin THEN [c EXCEPT !.inode = 0] ELSE c
    [] OTHER -> c

SameLoad(a, b) == a.rc = b.rc /\ (a.rc = 0 => a.conf = b.conf)

\* The order of two lines matters only if their parsers are coupled, or they
\* set the same keyword: exchanging any other neighbours changes neither the
\* verdict on the file nor the configuration.  A parser that looked at
\* another keyword's current value, as a check does that belongs in
\* sanity_check, would make the file depend on the order it is written in.
ConfOrderFree ==
  \A i \in 1 .. Len(file) - 1 :
    (/\ file[i].name # file[i + 1].name
     /\ {file[i].name, file[i + 1].name} \notin Coupled
     /\ "none" \notin {file[i].ending, file[i + 1].ending})
    => SameLoad(LoadOf(prog, file), LoadOf(prog, D!Swapped(file, i)))

SameSeen(a, b) == a.rc = 0 => b.rc = 0 /\ Seen(a.conf) = Seen(b.conf)

\* The last line of a keyword decides: an accepted file means the same as
\* the file without the earlier lines of a keyword that occurs again, for
\* every keyword that is not sticky.  space_left, which keeps a percentage
\* and a size in two fields, and args, which keeps two words, must clear
\* what an earlier line left.
ConfLastWins ==
  (/\ prog # "none"
   /\ \A i \in DOMAIN file : file[i].ending = "newline"
   /\ \A i \in DOMAIN file : D!Repeated(file, i) => file[i].name \notin Sticky)
  => SameSeen(LoadOf(prog, file), LoadOf(prog, D!LastOnes(file)))

\* What each program takes for granted about its configuration, see ConfSane.
Trusted(c) ==
  CASE prog = "auditd" ->
         /\ \A p \in ExeFields : c[p[1]] = "exec" => c[p[2]] # NULL
         /\ c.flush \in {"incremental", "incremental_async"} => c.freq > 0
         /\ c.space_left_percent = 0 /\ c.admin_space_left_percent = 0
              => c.space_left > c.admin_space_left
         /\ c.space_left_percent # 0 => c.space_left = 0
         /\ c.admin_space_left_percent # 0 => c.admin_space_left = 0
         /\ c.tcp_client_min_port <= c.tcp_client_max_port
         /\ \A host \in Hosts :
              LET r == D!resolve_node(c, host)
              IN  r.rc = 0 /\ c.node_name_format # "none" => r.conf.node_name # NULL
    [] prog = "remote" ->
         /\ \A x \in G!actions : c[x] = "exec" => c.exe[x] # NULL
         /\ c.mode = "forward" => c.format = "managed"
         /\ c.startup_failure \notin {"suspend", "single", "halt", "stop"}
         /\ c.network_retry_time > 0
         /\ c.max_tries_per_record > 0
         /\ c.max_time_per_record > 0
         /\ c.queue_depth > 0
    [] prog = "zos" ->
         /\ {c.server, c.user, c.password} \cap {NULL} = {}
         /\ c.timeout # 0
         /\ c.q_depth \in 16..99999
    [] OTHER -> c.active = "yes" => c.path # NULL

\* What the programs rely on without checking again.  auditd: an exec action
\* has its program (auditd-event.c runs it), incremental flushing has a
\* non-zero frequency (auditd-event.c counts up to it), two absolute limits
\* are in the right order, a percentage stands alone, the ports make a range,
\* and a resolved node has a name.  audisp-remote: store and forward only in
\* the managed format, retries and times at least one even for numbers that
\* do not fit an unsigned int.  zos-remote: the bind has all it needs and the
\* queue its minimum.  A plugin that is active has a program.
ConfSane ==
  (/\ prog # "none"
   /\ ConfWorlds[confWorld].status = "present"
   /\ \E i \in DOMAIN file : file[i].ending # "none")
  => \A ld \in {LoadOf(prog, file)} : ld.rc = 0 => Trusted(ld.conf)

SameLog(a, b) == a.rc = 0 => b.rc = 0 /\ b.conf.log_file = a.conf.log_file

\* Whatever file the daemon accepts, the reduced reader of the auparse
\* library accepts too and finds the same log, so the search tools look
\* where the daemon writes.
ConfReadersAgree ==
  prog = "auditd" => SameLog(LoadOf("auditd", file), LoadOf("auparse", file))

\* What a configuration file means: independent of the order of its lines,
\* given by the last line of a keyword, within limits and the same for both
\* readers of auditd.conf, with the exceptions each part names.
ConfMeaning == ConfOrderFree /\ ConfLastWins /\ ConfSane /\ ConfReadersAgree
=============================================================================
