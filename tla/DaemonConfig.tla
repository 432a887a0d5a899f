---------------------------- MODULE DaemonConfig ----------------------------
(***************************************************************************)
(* auditd.conf as src/auditd-config.c reads it for the daemon, and as the  *)
(* reduced reader of auparse/auditd-config.c reads it to find the log.     *)
(* Status gives, for every path a line may name, what the checks of        *)
(* log_file_parser and check_exe_name find: "ok", "absent" (the directory  *)
(* exists, the file does not), "mode" (unexpected permissions), "short"    *)
(* (directory name too short, or a relative path), "foreign" (not regular, *)
(* or not owned by root), "closed" (no such directory, or it cannot be     *)
(* opened).  Validity gives what validate_email returns for an account.    *)
(***************************************************************************)
EXTENDS ConfigFile

CONSTANTS Status, Validity

failure_actions == {"ignore", "syslog", "rotate", "email", "exec", "suspend", "single", "halt"}

clear_config ==
  [local_events |-> 1, write_logs |-> 1, log_file |-> "default", log_format |-> "enriched",
   log_group |-> 0, priority_boost |-> 4, flush |-> "none", freq |-> 0, num_logs |-> 0,
   node_name_format |-> "none", node_name |-> NULL, max_log_size |-> 0,
   max_log_size_action |-> "ignore", space_left |-> 0, space_left_percent |-> 0,
   space_left_action |-> "ignore", space_left_exe |-> NULL, action_mail_acct |-> "root",
   verify_email |-> 1, admin_space_left |-> 0, admin_space_left_percent |-> 0,
   admin_space_left_action |-> "ignore", admin_space_left_exe |-> NULL,
   disk_full_action |-> "ignore", disk_full_exe |-> NULL, disk_error_action |-> "syslog",
   disk_error_exe |-> NULL, tcp_listen_port |-> 0, tcp_listen_queue |-> 5,
   tcp_max_per_addr |-> 1, use_libwrap |-> 1, tcp_client_min_port |-> 0,
   tcp_client_max_port |-> 65535, tcp_client_max_idle |-> 0, transport |-> "tcp",
   krb5_principal |-> NULL, krb5_key_file |-> NULL, distribute_network_events |-> 0,
   q_depth |-> 400, overflow_action |-> "syslog", max_restarts |-> 10,
   plugin_dir |-> "default"]

----------------------------------------------------------------------------
\* The keyword parsers.
local_events_parser(c, nv) == YesNo(c, nv, "local_events")

write_logs_parser(c, nv) == YesNo(c, nv, "write_logs")

log_file_parser(c, nv) ==
  IF Status[nv.value.word] \in {"ok", "absent", "mode"}
  THEN Text(c, nv, "log_file") ELSE Bad(c)

num_logs_parser(c, nv) == Number(c, nv, "num_logs", 0, 999)

qos_parser(c, nv) == Ok(c)

dispatch_parser(c, nv) == Ok(c)

name_format_parser(c, nv) ==
  Word(c, nv, "node_name_format", {"none", "hostname", "fqd", "numeric", "user"})

name_parser(c, nv) == Text(c, nv, "node_name")

max_log_size_parser(c, nv) == Number(c, nv, "max_log_size", 0, Two64 - 1)

max_log_size_action_parser(c, nv) ==
  Word(c, nv, "max_log_size_action", {"ignore", "syslog", "suspend", "rotate", "keep_logs"})

\* nolog also turns write_logs off, whatever it was set to.
log_format_parser(c, nv) ==
  LET r == Word(c, nv, "log_format", {"raw", "nolog", "enriched"})
  IN  IF r.rc = 0 /\ nv.value.word = "nolog" THEN Set(r.conf, "write_logs", 0) ELSE r

\* A group name is looked up; unknown ones are refused.
log_group_parser(c, nv) ==
  CASE nv.value.word = "#" /\ nv.value.n < Two64 -> Set(c, "log_group", nv.value.n % Two32)
    [] nv.value.word = "adm" -> Set(c, "log_group", 4)
    [] OTHER -> Bad(c)

flush_parser_Eager(c, nv) ==
  IF nv.value.word \in {"incremental", "incremental_async"} /\ c.freq = 0 THEN Bad(c)
  ELSE Word(c, nv, "flush", {"none", "incremental", "incremental_async", "data", "sync"})

flush_parser(c, nv) ==
  Word(c, nv, "flush", {"none", "incremental", "incremental_async", "data", "sync"})

freq_parser(c, nv) == Number(c, nv, "freq", 0, INT_MAX)

\* space_left and admin_space_left: megabytes, or a percentage below 100.
\* Each form clears the other.
Space(c, nv, field, percent) ==
  LET c0 == [c EXCEPT ![percent] = 0]
  IN  CASE nv.value.word = "#" /\ nv.value.n < Two64 -> Ok([c0 EXCEPT ![field] = nv.value.n])
        [] nv.value.word = "%" /\ nv.value.n <= 99 ->
             Ok([c0 EXCEPT ![percent] = nv.value.n, ![field] = 0])
        [] OTHER -> Bad(c0)

space_left_parser(c, nv) == Space(c, nv, "space_left", "space_left_percent")

admin_space_left_parser(c, nv) == Space(c, nv, "admin_space_left", "admin_space_left_percent")

\* 0750, 0755 and 0555 pass; "mode" stands for any other permission bits.
check_exe_name(path) == Status[path] = "ok"

space_action_parser(c, nv) ==
  Action(c, nv, "space_left_action", "space_left_exe", failure_actions, check_exe_name)

admin_space_left_action_parser(c, nv) ==
  Action(c, nv, "admin_space_left_action", "admin_space_left_exe", failure_actions,
         check_exe_name)

disk_full_action_parser(c, nv) ==
  Action(c, nv, "disk_full_action", "disk_full_exe", failure_actions \ {"email"},
         check_exe_name)

disk_error_action_parser(c, nv) ==
  Action(c, nv, "disk_error_action", "disk_error_exe",
         failure_actions \ {"email", "rotate"}, check_exe_name)

\* validate_email: 0 good, 1 the host cannot be resolved now, 2 malformed.
validate_email(acct) == Validity[acct]

\* The account is verified only if verify_email is set when its line is read.
action_mail_acct_parser(c, nv) ==
  IF c.verify_email = 1 /\ validate_email(nv.value.word) > 1
  THEN Bad(c) ELSE Text(c, nv, "action_mail_acct")

verify_email_parser(c, nv) == YesNo(c, nv, "verify_email")

priority_boost_parser(c, nv) == Number(c, nv, "priority_boost", 0, INT_MAX)

tcp_listen_port_parser(c, nv) == Number(c, nv, "tcp_listen_port", 1, 65535)

tcp_listen_queue_parser(c, nv) == Number(c, nv, "tcp_listen_queue", 1, 65535)

tcp_max_per_addr_parser(c, nv) == Number(c, nv, "tcp_max_per_addr", 1, 1024)

use_libwrap_parser(c, nv) == YesNo(c, nv, "use_libwrap")

\* One port is a range of one.
tcp_client_ports_parser(c, nv) ==
  LET max == IF nv.value.word = "-" THEN nv.value.to ELSE nv.value.n
  IN  IF nv.value.word \in {"#", "-"} /\ nv.value.n <= max /\ max <= 65535
      THEN Ok([c EXCEPT !.tcp_client_min_port = nv.value.n, !.tcp_client_max_port = max])
      ELSE Bad(c)

tcp_client_max_idle_parser(c, nv) == Number(c, nv, "tcp_client_max_idle", 0, INT_MAX)

transport_parser(c, nv) == Word(c, nv, "transport", {"tcp", "krb5"})

\* "no" leaves the transport alone.
enable_krb5_parser(c, nv) ==
  CASE nv.value.word = "yes" -> Set(c, "transport", "krb5")
    [] nv.value.word = "no"  -> Ok(c)
    [] OTHER -> Bad(c)

krb5_principal_parser(c, nv) == Text(c, nv, "krb5_principal")

krb5_key_file_parser(c, nv) == Text(c, nv, "krb5_key_file")

distribute_network_parser(c, nv) == YesNo(c, nv, "distribute_network_events")

q_depth_parser(c, nv) == Number(c, nv, "q_depth", 0, 99999)

overflow_action_parser(c, nv) ==
  Word(c, nv, "overflow_action", {"ignore", "syslog", "suspend", "single", "halt"})

max_restarts_parser(c, nv) == Number(c, nv, "max_restarts", 0, INT_MAX)

plugin_dir_parser(c, nv) == Text(c, nv, "plugin_dir")

----------------------------------------------------------------------------
keywords ==
  [skips |-> TRUE, strict |-> TRUE, checked |-> TRUE, missing |-> 0,
   options |-> {"space_left_action", "admin_space_left_action", "disk_full_action",
                "disk_error_action"},
   keywords |->
     {"local_events", "write_logs", "log_file", "log_format", "log_group", "flush", "freq",
      "num_logs", "dispatcher", "name_format", "name", "disp_qos", "max_log_file",
      "max_log_file_action", "space_left", "space_left_action", "action_mail_acct",
      "verify_email", "admin_space_left", "admin_space_left_action", "disk_full_action",
      "disk_error_action", "priority_boost", "tcp_listen_port", "tcp_listen_queue",
      "tcp_max_per_addr", "use_libwrap", "tcp_client_ports", "tcp_client_max_idle",
      "transport", "enable_krb5", "krb5_principal", "krb5_key_file", "distribute_network",
      "q_depth", "overflow_action", "max_restarts", "plugin_dir"}]

\* kw->parser(&nv, lineno, config)
parser(c, nv) ==
  CASE nv.name = "local_events"        -> local_events_parser(c, nv)
    [] nv.name = "write_logs"          -> write_logs_parser(c, nv)
    [] nv.name = "log_file"            -> log_file_parser(c, nv)
    [] nv.name = "log_format"          -> log_format_parser(c, nv)
    [] nv.name = "log_group"           -> log_group_parser(c, nv)
    [] nv.name = "flush"               -> flush_parser(c, nv)
    [] nv.name = "freq"                -> freq_parser(c, nv)
    [] nv.name = "num_logs"            -> num_logs_parser(c, nv)
    [] nv.name = "dispatcher"          -> dispatch_parser(c, nv)
    [] nv.name = "name_format"         -> name_format_parser(c, nv)
    [] nv.name = "name"                -> name_parser(c, nv)
    [] nv.name = "disp_qos"            -> qos_parser(c, nv)
    [] nv.name = "max_log_file"        -> max_log_size_parser(c, nv)
    [] nv.name = "max_log_file_action" -> max_log_size_action_parser(c, nv)
    [] nv.name = "space_left"          -> space_left_parser(c, nv)
    [] nv.name = "space_left_action"   -> space_action_parser(c, nv)
    [] nv.name = "action_mail_acct"    -> action_mail_acct_parser(c, nv)
    [] nv.name = "verify_email"        -> verify_email_parser(c, nv)
    [] nv.name = "admin_space_left"    -> admin_space_left_parser(c, nv)
    [] nv.name = "admin_space_left_action" -> admin_space_left_action_parser(c, nv)
    [] nv.name = "disk_full_action"    -> disk_full_action_parser(c, nv)
    [] nv.name = "disk_error_action"   -> disk_error_action_parser(c, nv)
    [] nv.name = "priority_boost"      -> priority_boost_parser(c, nv)
    [] nv.name = "tcp_listen_port"     -> tcp_listen_port_parser(c, nv)
    [] nv.name = "tcp_listen_queue"    -> tcp_listen_queue_parser(c, nv)
    [] nv.name = "tcp_max_per_addr"    -> tcp_max_per_addr_parser(c, nv)
    [] nv.name = "use_libwrap"         -> use_libwrap_parser(c, nv)
    [] nv.name = "tcp_client_ports"    -> tcp_client_ports_parser(c, nv)
    [] nv.name = "tcp_client_max_idle" -> tcp_client_max_idle_parser(c, nv)
    [] nv.name = "transport"           -> transport_parser(c, nv)
    [] nv.name = "enable_krb5"         -> enable_krb5_parser(c, nv)
    [] nv.name = "krb5_principal"      -> krb5_principal_parser(c, nv)
    [] nv.name = "krb5_key_file"       -> krb5_key_file_parser(c, nv)
    [] nv.name = "distribute_network"  -> distribute_network_parser(c, nv)
    [] nv.name = "q_depth"             -> q_depth_parser(c, nv)
    [] nv.name = "overflow_action"     -> overflow_action_parser(c, nv)
    [] nv.name = "max_restarts"        -> max_restarts_parser(c, nv)
    [] nv.name = "plugin_dir"          -> plugin_dir_parser(c, nv)

\* Percentages are compared with nothing here, only when the log is opened.
sanity_check(c) ==
  /\ \/ c.space_left_percent # 0
     \/ c.admin_space_left_percent # 0
     \/ c.space_left > c.admin_space_left
  /\ c.flush \in {"incremental", "incremental_async"} => c.freq # 0

load_config(status, file) ==
  Load(keywords, parser, sanity_check, clear_config, status, file)

\* resolve_node: host is what gethostname and getaddrinfo make of this
\* machine, NULL when they fail.
resolve_node(c, host) ==
  CASE c.node_name_format = "none" -> Ok(c)
    [] c.node_name_format = "user" -> IF c.node_name = NULL THEN Bad(c) ELSE Ok(c)
    [] OTHER -> IF host = NULL THEN Bad(c) ELSE Set(c, "node_name", host)

----------------------------------------------------------------------------
\* auparse's reader knows one keyword and ignores the rest.  By the time it
\* runs the daemon has created the log that was absent.
aup_log_file_parser(c, nv) ==
  IF Status[nv.value.word] \in {"ok", "absent", "mode", "foreign"}
  THEN Text(c, nv, "log_file") ELSE Bad(c)

aup_keywords ==
  [skips |-> TRUE, strict |-> FALSE, checked |-> FALSE, missing |-> 0, options |-> {},
   keywords |-> {"log_file"}]

aup_load_config(status, file) ==
  Load(aup_keywords, aup_log_file_parser, LAMBDA c : TRUE, clear_config, status, file)
=============================================================================
