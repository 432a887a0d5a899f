---------------------------- MODULE PluginConfig ----------------------------
(***************************************************************************)
(* The configuration of the plugins: the files of plugins.d, as            *)
(* audisp/audispd-pconfig.c reads them, zos-remote.conf, as                *)
(* zos-remote-config.c does, and audisp-remote.conf, as remote-config.c    *)
(* does.  The three have keywords and parsers of the same names: those of  *)
(* the last two begin with zos_ and remote_ where they would clash.        *)
(*                                                                         *)
(* Inode gives the inode of every program path_parser accepts; Builtin     *)
(* holds the names that begin with builtin_, which are not looked up;      *)
(* ExeOk the programs check_exe_name accepts, Absolute the paths that      *)
(* begin with a slash.                                                     *)
(***************************************************************************)
EXTENDS ConfigFile

CONSTANTS Inode, Builtin, ExeOk, Absolute

clear_pconfig ==
  [active |-> "no", direction |-> "unset", path |-> NULL, type |-> "always",
   args |-> <<NULL, NULL>>, format |-> "string", inode |-> 0]

active_parser(c, nv) == Word(c, nv, "active", {"yes", "no"})

direction_parser(c, nv) == Word(c, nv, "direction", {"out"})

path_parser(c, nv) ==
  CASE nv.value.word \in Builtin -> Text(c, nv, "path")
    [] nv.value.word \in DOMAIN Inode ->
         Ok([c EXCEPT !.path = nv.value.word, !.inode = Inode[nv.value.word]])
    [] OTHER -> Bad(c)

service_type_parser(c, nv) == Word(c, nv, "type", {"builtin", "always"})

\* Both arguments are forgotten first.
args_parser(c, nv) == Set(c, "args", <<nv.value.word, nv.option>>)

format_parser(c, nv) == Word(c, nv, "format", {"binary", "string"})

keywords ==
  [skips |-> TRUE, strict |-> TRUE, checked |-> TRUE, missing |-> 0, options |-> {"args"},
   keywords |-> {"active", "direction", "path", "type", "args", "format"}]

parser(c, nv) ==
  CASE nv.name = "active"    -> active_parser(c, nv)
    [] nv.name = "direction" -> direction_parser(c, nv)
    [] nv.name = "path"      -> path_parser(c, nv)
    [] nv.name = "type"      -> service_type_parser(c, nv)
    [] nv.name = "args"      -> args_parser(c, nv)
    [] nv.name = "format"    -> format_parser(c, nv)

sanity_check(c) == c.active = "yes" => c.path # NULL

load_pconfig(status, file) ==
  Load(keywords, parser, sanity_check, clear_pconfig, status, file)

----------------------------------------------------------------------------
\* zos-remote.conf.  Unlike the others a missing file is an error here.
plugin_clear_config ==
  [server |-> NULL, port |-> 0, user |-> NULL, password |-> NULL, timeout |-> 15,
   q_depth |-> 64]

server_parser(c, nv) == Text(c, nv, "server")

\* The unsigned int port keeps the low 32 bits.
port_parser(c, nv) ==
  IF nv.value.word = "#" /\ nv.value.n < Two64
  THEN Set(c, "port", nv.value.n % Two32) ELSE Bad(c)

timeout_parser(c, nv) == Number(c, nv, "timeout", 0, Two64 - 1)

user_parser(c, nv) == Text(c, nv, "user")

password_parser(c, nv) == Text(c, nv, "password")

q_depth_parser(c, nv) == Number(c, nv, "q_depth", 16, 99999)

zos_keywords ==
  [skips |-> FALSE, strict |-> TRUE, checked |-> TRUE, missing |-> 1, options |-> {},
   keywords |-> {"server", "port", "timeout", "user", "password", "q_depth"}]

zos_parser(c, nv) ==
  CASE nv.name = "server"   -> server_parser(c, nv)
    [] nv.name = "port"     -> port_parser(c, nv)
    [] nv.name = "timeout"  -> timeout_parser(c, nv)
    [] nv.name = "user"     -> user_parser(c, nv)
    [] nv.name = "password" -> password_parser(c, nv)
    [] nv.name = "q_depth"  -> q_depth_parser(c, nv)

zos_sanity_check(c) ==
  /\ c.server # NULL
  /\ c.user # NULL
  /\ c.password # NULL
  /\ c.timeout # 0

plugin_load_config(status, file) ==
  Load(zos_keywords, zos_parser, zos_sanity_check, plugin_clear_config, status, file)

----------------------------------------------------------------------------
\* audisp-remote.conf.
actions == {"network_failure", "disk_low", "disk_full", "disk_error", "remote_ending",
            "generic_error", "generic_warning", "queue_error", "startup_failure"}

fail_action_words ==
  {"ignore", "syslog", "exec", "warn_once_continue", "warn_once", "suspend", "single",
   "halt", "stop"}

\* The action fields are named after their keyword, the programs after it too.
clear_config ==
  [remote_server |-> NULL, port |-> 60, local_port |-> 0, transport |-> "tcp",
   mode |-> "immediate", queue_file |-> NULL, queue_depth |-> 2048, format |-> "managed",
   network_retry_time |-> 1, max_tries_per_record |-> 3, max_time_per_record |-> 5,
   heartbeat_timeout |-> 0, overflow_action |-> "syslog", krb5_principal |-> NULL,
   krb5_client_name |-> NULL, krb5_key_file |-> NULL,
   network_failure |-> "stop", disk_low |-> "ignore", disk_full |-> "warn_once",
   disk_error |-> "warn_once", remote_ending |-> "reconnect", generic_error |-> "syslog",
   generic_warning |-> "syslog", queue_error |-> "stop",
   startup_failure |-> "warn_once_continue",
   exe |-> [x \in actions |-> NULL]]

check_exe_name(path) == path \in ExeOk

remote_server_parser(c, nv) == Text(c, nv, "remote_server")

\* parse_uint keeps the low 32 bits of the number before it looks at the
\* range; a limit of zero is no limit.
parse_uint(c, nv, field, min, max) ==
  LET i == nv.value.n % Two32
  IN  IF nv.value.word = "#" /\ nv.value.n < Two64
         /\ (min # 0 => i >= min) /\ (max # 0 => i <= max)
      THEN Set(c, field, i) ELSE Bad(c)

remote_port_parser(c, nv) == parse_uint(c, nv, "port", 0, 65535)

\* "any" leaves whatever an earlier line set.
local_port_parser(c, nv) ==
  IF nv.value.word = "any" THEN Ok(c) ELSE parse_uint(c, nv, "local_port", 0, 65535)

transport_parser(c, nv) == Word(c, nv, "transport", {"tcp", "krb5"})

mode_parser(c, nv) == Word(c, nv, "mode", {"immediate", "forward"})

queue_file_parser(c, nv) ==
  IF nv.value.word \in Absolute THEN Text(c, nv, "queue_file") ELSE Bad(c)

depth_parser(c, nv) == parse_uint(c, nv, "queue_depth", 1, INT_MAX)

\* For exec the program is checked and kept; another action forgets nothing.
action_parser(c, nv, x) ==
  CASE nv.value.word \notin fail_action_words -> Bad(c)
    [] nv.value.word = "exec" ->
         IF nv.option = NULL \/ ~check_exe_name(nv.option) THEN Bad(c)
         ELSE Ok([c EXCEPT ![x] = "exec", !.exe[x] = nv.option])
    [] OTHER -> Set(c, x, nv.value.word)

overflow_action_parser(c, nv) ==
  Word(c, nv, "overflow_action", {"ignore", "syslog", "suspend", "single", "halt"})

remote_ending_action_parser(c, nv) ==
  IF nv.value.word = "reconnect" THEN Set(c, "remote_ending", "reconnect")
  ELSE action_parser(c, nv, "remote_ending")

remote_format_parser(c, nv) == Word(c, nv, "format", {"ascii", "managed"})

network_retry_time_parser(c, nv) == parse_uint(c, nv, "network_retry_time", 1, INT_MAX)

max_tries_per_record_parser(c, nv) == parse_uint(c, nv, "max_tries_per_record", 1, INT_MAX)

max_time_per_record_parser(c, nv) == parse_uint(c, nv, "max_time_per_record", 1, INT_MAX)

heartbeat_timeout_parser(c, nv) == parse_uint(c, nv, "heartbeat_timeout", 0, INT_MAX)

enable_krb5_parser(c, nv) ==
  CASE nv.value.word = "yes" -> Set(c, "transport", "krb5")
    [] nv.value.word = "no"  -> Ok(c)
    [] OTHER -> Bad(c)

krb5_principal_parser(c, nv) == Text(c, nv, "krb5_principal")

krb5_client_name_parser(c, nv) == Text(c, nv, "krb5_client_name")

krb5_key_file_parser(c, nv) == Text(c, nv, "krb5_key_file")

\* The action keywords, with the field each one sets.
ActionOf ==
  [network_failure_action |-> "network_failure", disk_low_action |-> "disk_low",
   disk_full_action |-> "disk_full", disk_error_action |-> "disk_error",
   generic_error_action |-> "generic_error", generic_warning_action |-> "generic_warning",
   queue_error_action |-> "queue_error", startup_failure_action |-> "startup_failure"]

remote_keywords ==
  [skips |-> FALSE, strict |-> TRUE, checked |-> TRUE, missing |-> 0,
   options |-> DOMAIN ActionOf \cup {"remote_ending_action", "overflow_action"},
   keywords |->
     DOMAIN ActionOf \cup
     {"remote_server", "port", "local_port", "transport", "mode", "queue_file",
      "queue_depth", "format", "network_retry_time", "max_tries_per_record",
      "max_time_per_record", "heartbeat_timeout", "enable_krb5", "krb5_principal",
      "krb5_client_name", "krb5_key_file", "remote_ending_action", "overflow_action"}]

remote_parser(c, nv) ==
  CASE nv.name \in DOMAIN ActionOf     -> action_parser(c, nv, ActionOf[nv.name])
    [] nv.name = "remote_server"       -> remote_server_parser(c, nv)
    [] nv.name = "port"                -> remote_port_parser(c, nv)
    [] nv.name = "local_port"          -> local_port_parser(c, nv)
    [] nv.name = "transport"           -> transport_parser(c, nv)
    [] nv.name = "mode"                -> mode_parser(c, nv)
    [] nv.name = "queue_file"          -> queue_file_parser(c, nv)
    [] nv.name = "queue_depth"         -> depth_parser(c, nv)
    [] nv.name = "format"              -> remote_format_parser(c, nv)
    [] nv.name = "network_retry_time"  -> network_retry_time_parser(c, nv)
    [] nv.name = "max_tries_per_record" -> max_tries_per_record_parser(c, nv)
    [] nv.name = "max_time_per_record" -> max_time_per_record_parser(c, nv)
    [] nv.name = "heartbeat_timeout"   -> heartbeat_timeout_parser(c, nv)
    [] nv.name = "enable_krb5"         -> enable_krb5_parser(c, nv)
    [] nv.name = "krb5_principal"      -> krb5_principal_parser(c, nv)
    [] nv.name = "krb5_client_name"    -> krb5_client_name_parser(c, nv)
    [] nv.name = "krb5_key_file"       -> krb5_key_file_parser(c, nv)
    [] nv.name = "remote_ending_action" -> remote_ending_action_parser(c, nv)
    [] nv.name = "overflow_action"     -> overflow_action_parser(c, nv)

\* At start-up the plugin may only complain or run a program: the enumeration
\* is cut after FA_EXEC.
remote_sanity_check(c) ==
  /\ c.mode = "forward" => c.format = "managed"
  /\ c.startup_failure \in {"ignore", "syslog", "warn_once_continue", "warn_once", "exec"}

load_config(status, file) ==
  Load(remote_keywords, remote_parser, remote_sanity_check, clear_config, status, file)
=============================================================================
