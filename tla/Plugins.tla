------------------------------- MODULE Plugins -------------------------------
(***************************************************************************)
(* The plugins of auditd: their configuration files                        *)
(* (audisp/audispd-pconfig.c), the list of them (audispd-llist.c), what    *)
(* the outbound thread does with it (audispd.c) and the builtin plugin     *)
(* af_unix (audispd-builtins.c).                                           *)
(*                                                                         *)
(* The outbound thread hands event after event to plugin after plugin,     *)
(* restarts those that broke, and on SIGHUP compares the list with the     *)
(* files.  Beside it plugins exit, the main thread accepts a listener of   *)
(* af_unix and asks the thread to stop, and the administrator edits files. *)
(* The queue between the threads is Dispatcher's.                          *)
(*                                                                         *)
(* A pid is the number of the process, never used again; a descriptor is   *)
(* the lowest that is free, and is.  Left out: a plugin that blocks the    *)
(* thread, builtins other than af_unix, and the end of the pipe that the   *)
(* plugin reads from, which auditd closes at once.                         *)
(***************************************************************************)
EXTENDS Integers, Sequences, FiniteSets, SequencesExt

CONSTANTS
    Names,          \* of configuration files
    PWorlds         \* a sequence, one of them in each behaviour:
                    \*   files         the content of the directory, see PFileType
                    \*   max_restarts
                    \*   events, hups, exits, forks, listeners
                    \*                 bounds: events, SIGHUPs, exits of plugins,
                    \*                 failures to start one, listeners of af_unix

\* What load_pconfig makes of a file; inode is the program's.
PFileType == [name : Names, ok : BOOLEAN, active : BOOLEAN,
              type : {"S_ALWAYS", "S_BUILTIN"}, inode : Nat,
              args : Seq({"mode", "path", "word"})]

ASSUME PluginsAssumption == \A w \in Range(PWorlds) :
    \A d \in w.files : \A i, j \in DOMAIN d : d[i] \in PFileType /\ (d[i].name = d[j].name => i = j)

NoFd == 0                       \* plug_pipe[1] = -1, pid 0, a descriptor not in use

VARIABLES
    plugin_conf,    \* the list: entries of PEntry
    files,          \* the directory, as readdir returns it
    thread, pos,    \* of the outbound thread: what it does, for which entry
    stop, disp_hup,
    event,          \* events taken from the queue
    procs,          \* the processes: "running", "deaf" (it closed its pipe), "dead"
    told,           \* those sent SIGTERM
    fds,            \* auditd's descriptors: the process at the other end of each
    failed,         \* failures to start a plugin
    crossed,        \* one entry has closed the pipe of another
    \* af_unix
    sock, watching,
    conn,           \* "no", "up", "gone" (the listener hung up)
    backlog,        \* listeners that connected and are not yet accepted
    accepting,      \* where af_unix_accept is
    raced,          \* the two threads have used conn or the watcher at once
    hups, exits, listeners, pworld

pvars == <<plugin_conf, files, thread, pos, stop, disp_hup, event, procs, told, fds, failed,
           crossed, sock, conn, watching, backlog, accepting, raced, hups, exits, listeners, pworld>>
lists == <<plugin_conf, procs, told, fds, failed, crossed, exits>>
unix == <<sock, conn, watching, backlog>>
pbounds == <<hups, listeners, pworld>>

PWorld == PWorlds[pworld]

\* An entry as load_pconfig leaves it.  seen is the last event written for the
\* entry or that it was not there for, restarts those made of it, lost the
\* events written to a process that was gone.
PEntry(f) == [name |-> f.name, type |-> f.type, active |-> f.active, inode |-> f.inode,
              args |-> f.args, pid |-> NoFd, fd |-> NoFd, restart_cnt |-> 0,
              checked |-> FALSE, seen |-> event, restarts |-> 0, lost |-> 0]

\* load_plugin_conf: the files that can be read and are active.
load_plugin_conf ==
    LET good == SelectSeq(files, LAMBDA f : f.ok /\ f.active)
    IN [i \in DOMAIN good |-> PEntry(good[i])]

-----------------------------------------------------------------------------
(* Steps of the thread, from a record of what they change to another: l the *)
(* list, procs, told, fds, failed, crossed, exits and u for af_unix.        *)

Now == [l |-> plugin_conf, procs |-> procs, told |-> told, fds |-> fds, failed |-> failed,
        crossed |-> crossed, exits |-> exits,
        u |-> [sock |-> sock, conn |-> conn, watching |-> watching]]

Becomes(s) ==
    /\ plugin_conf' = s.l /\ procs' = s.procs /\ told' = s.told /\ fds' = s.fds
    /\ failed' = s.failed /\ crossed' = s.crossed /\ exits' = s.exits
    /\ sock' = s.u.sock /\ conn' = s.u.conn /\ watching' = s.u.watching
    /\ backlog' = IF s.u.sock THEN backlog ELSE 0
    /\ raced' = (raced \/ (accepting # "no" /\ s.u # Now.u))

kill(s, p) == IF p = NoFd THEN s ELSE [s EXCEPT !.told = @ \cup {p}]

\* close(plug_pipe[1]) of the entry c, whose process it need not be the pipe of.
Open(s, d) == d \in DOMAIN s.fds /\ s.fds[d] # NoFd
closefd(s, c) ==
    IF Open(s, c.fd)
    THEN [s EXCEPT !.fds[c.fd] = NoFd, !.crossed = @ \/ s.fds[c.fd] # c.pid]
    ELSE s

\* The descriptors with one more, for process p, and its number.
Lowest(fd) == LET d == SelectInSeq(fd, LAMBDA x : x = NoFd)
              IN IF d = 0 THEN Len(fd) + 1 ELSE d
WithFd(fd, p) == IF Lowest(fd) > Len(fd) THEN Append(fd, p) ELSE [fd EXCEPT ![Lowest(fd)] = p]

Destroyed == [sock |-> FALSE, conn |-> "no", watching |-> FALSE]

\* init_af_unix: a mode is kept for a path that follows or set on the one before;
\* argument number bad (0: none) cannot be used.
init_af_unix(u, args, bad) ==
    LET step(v, i) ==
          IF v.over THEN v
          ELSE IF i = bad \/ args[i] = "word"
            THEN [over |-> TRUE, u |-> Destroyed]
          ELSE IF args[i] = "path"
            THEN [v EXCEPT !.u.sock = TRUE, !.u.watching = TRUE]
          ELSE v
    IN FoldLeft(step, [over |-> FALSE, u |-> u], [i \in DOMAIN args |-> i]).u

\* safe_exec of entry i: a process, or a failure of socketpair or fork; the
\* latter leaves the number of a closed descriptor behind.
safe_exec(s, i) ==
    LET p == Len(s.procs) + 1
        d == Lowest(s.fds)
    IN {[s EXCEPT !.procs = Append(@, "running"), !.fds = WithFd(@, p),
                  !.l[i].pid = p, !.l[i].fd = d]}
       \cup {[s EXCEPT !.failed = @ + 1, !.l[i].pid = NoFd, !.l[i].fd = x,
                       !.l[i].active = FALSE] :
               x \in IF s.failed < PWorld.forks THEN {s.l[i].fd, d} ELSE {}}

MayStart(c) == c.restart_cnt <= PWorld.max_restarts

\* start_one_plugin: it returns 0 only if safe_exec failed.
start_one_plugin(s, i) ==
    LET c == s.l[i] IN
    CASE ~MayStart(c) -> {s}
      [] MayStart(c) /\ c.type = "S_BUILTIN" ->
           {[s EXCEPT !.l[i].type = "S_AF_UNIX", !.u = init_af_unix(s.u, c.args, bad)] :
              bad \in 0 .. Len(c.args)}
      [] MayStart(c) /\ c.type = "S_ALWAYS" -> safe_exec(s, i)
      [] OTHER -> {s}

\* reconfigure for the entry t of the files.
Position(l, n) == SelectInSeq(l, LAMBDA c : c.name = n)

\* "Binary changed, restart", up to the start.
Upgraded(s, i) == closefd(kill(s, s.l[i].pid), s.l[i])

Compare(s, t) ==
    LET i == Position(s.l, t.name)
        c == s.l[i]
        done == [s EXCEPT !.l[i].checked = TRUE]
    IN CASE i = 0 ->
              start_one_plugin([s EXCEPT !.l = Append(@, [t EXCEPT !.checked = TRUE])],
                               Len(s.l) + 1)
         [] i # 0 /\ c.active /\ c.type = "S_ALWAYS" /\ c.inode # t.inode ->
              LET gone == Upgraded(done, i)
              IN {[x EXCEPT !.l[i].inode = t.inode] :
                    x \in start_one_plugin([gone EXCEPT !.l[i].pid = NoFd, !.l[i].fd = NoFd], i)}
         [] i # 0 /\ ~c.active ->
              start_one_plugin([closefd(s, c) EXCEPT !.l[i] = [t EXCEPT !.checked = TRUE]], i)
         [] OTHER -> {done}

\* An entry that is not in the files any more.
Leftover(s, i) ==
    CASE s.l[i].type = "S_ALWAYS" -> closefd(kill(s, s.l[i].pid), s.l[i])
      [] s.l[i].type = "S_AF_UNIX" -> [s EXCEPT !.u = Destroyed]
      [] OTHER -> s

Terminate(s, i) ==
    IF s.l[i].checked THEN s
    ELSE [Leftover(s, i) EXCEPT !.l[i].active = FALSE, !.l[i].fd = NoFd, !.l[i].pid = NoFd,
                                !.l[i].checked = TRUE]

reconfigured ==
    LET unchecked == [Now EXCEPT !.l = [i \in DOMAIN @ |-> [@[i] EXCEPT !.checked = FALSE]]]
        each(ss, t) == UNION {Compare(s, t) : s \in ss}
    IN {FoldLeft(Terminate, s, [i \in DOMAIN s.l |-> i]) :
          s \in FoldLeft(each, {unchecked}, load_plugin_conf)}

-----------------------------------------------------------------------------
(* The outbound thread and what starts it. *)

PStart(w, d) ==
    /\ pworld = w /\ files = d
    /\ plugin_conf = <<>> /\ procs = <<>> /\ told = {} /\ fds = <<>> /\ failed = 0
    /\ crossed = FALSE
    /\ thread = "none" /\ pos = 0 /\ stop = FALSE /\ disp_hup = FALSE /\ event = 0
    /\ sock = FALSE /\ conn = "no" /\ watching = FALSE /\ backlog = 0
    /\ accepting = "no" /\ raced = FALSE
    /\ hups = 0 /\ exits = 0 /\ listeners = 0

PInit == \E w \in DOMAIN PWorlds : \E d \in PWorlds[w].files : PStart(w, d)

\* At the start, and from libdisp_reconfigure if there is no thread.
libdisp_init(d) ==
    /\ thread = "none" /\ ~stop /\ hups <= PWorld.hups
    /\ hups' = hups + 1 /\ files' = d
    /\ LET good == SelectSeq(d, LAMBDA f : f.ok /\ f.active)
           new == [i \in DOMAIN good |-> PEntry(good[i])]
           each(ss, i) == UNION {start_one_plugin(s, i) : s \in ss}
       IN /\ \E s \in FoldLeft(each, {[Now EXCEPT !.l = new]}, [i \in DOMAIN new |-> i]) :
               Becomes(s)
          /\ thread' = IF new = <<>> THEN "none" ELSE "loop"
    /\ UNCHANGED <<pos, stop, disp_hup, event, accepting, listeners, pworld>>

\* dequeue returns an event.
TakeEvent ==
    /\ thread = "loop" /\ ~stop /\ ~disp_hup /\ event < PWorld.events
    /\ event' = event + 1 /\ thread' = "deliver" /\ pos' = 1
    /\ UNCHANGED <<lists, files, stop, disp_hup, unix, accepting, raced, pbounds>>

\* dequeue returns no event.
LeaveLoop ==
    /\ thread = "loop" /\ (stop \/ disp_hup)
    /\ thread' = IF stop THEN "quit" ELSE "reconfigure"
    /\ UNCHANGED <<lists, files, pos, stop, disp_hup, event, unix, accepting, raced, pbounds>>

\* The second write, to the process that start_one_plugin made of entry i if it
\* made one; it may have exited already.  Nobody looks at the result.
WriteAgain(s, x, i) ==
    LET on == [x EXCEPT !.l[i].active = TRUE]
        written == [on EXCEPT !.l[i].seen = event, !.l[i].restarts = @ + 1]
    IN CASE x.failed > s.failed -> {x}
         [] x.failed = s.failed /\ x.l[i].fd = NoFd -> {on}
         [] x.failed = s.failed /\ x.l[i].fd # NoFd ->
              {written} \cup
              IF x.exits >= PWorld.exits THEN {}
              ELSE {[written EXCEPT !.l[i].lost = @ + 1, !.exits = @ + 1,
                                    !.procs[x.l[i].pid] = "dead"]}

\* A write to a plugin that is not there any more: restart it and write again.
Broken_Forgets(s, i) == {[closefd(s, s.l[i]) EXCEPT !.l[i].fd = NoFd, !.l[i].pid = NoFd]}
Broken(s, i) ==
    LET gone == [closefd(s, s.l[i]) EXCEPT !.l[i].pid = NoFd, !.l[i].fd = NoFd,
                    !.l[i].restart_cnt = @ + 1, !.l[i].active = FALSE]
    IN UNION {WriteAgain(s, x, i) : x \in start_one_plugin(gone, i)}

\* send_af_unix_string, send_af_unix_binary: if the listener has hung up, wait for
\* the next one.
Sent(u) == IF u.sock /\ u.conn = "gone" THEN [u EXCEPT !.conn = "no", !.watching = TRUE] ELSE u

\* The current event is handed to entry i.
Handed(s, i) ==
    LET c == s.l[i] IN
    CASE ~c.active -> {s}
      [] c.active /\ c.type = "S_AF_UNIX" -> {[s EXCEPT !.u = Sent(@)]}
      [] c.active /\ c.type = "S_ALWAYS" /\ Open(s, c.fd) ->
           IF s.procs[s.fds[c.fd]] # "running" THEN Broken(s, i)
           ELSE IF s.fds[c.fd] = c.pid THEN {[s EXCEPT !.l[i].seen = event]}
           ELSE {s}
      [] OTHER -> {s}

Deliver ==
    /\ thread = "deliver"
    /\ IF stop THEN UNCHANGED <<lists, unix, raced>> ELSE \E s \in Handed(Now, pos) : Becomes(s)
    /\ IF ~stop /\ pos < Len(plugin_conf)
         THEN pos' = pos + 1 /\ UNCHANGED thread
         ELSE /\ pos' = 0
              /\ thread' = IF stop THEN "quit" ELSE IF disp_hup THEN "reconfigure" ELSE "loop"
    /\ UNCHANGED <<files, stop, disp_hup, event, accepting, pbounds>>

reconfigure ==
    /\ thread = "reconfigure"
    /\ \E s \in reconfigured :
         /\ Becomes(s)
         /\ IF \E i \in DOMAIN s.l : s.l[i].active
              THEN thread' = "loop" /\ disp_hup' = FALSE
              ELSE thread' = "quit" /\ UNCHANGED disp_hup
    /\ UNCHANGED <<files, pos, stop, event, accepting, pbounds>>

\* The end of outbound_thread_main.
Quit ==
    /\ thread = "quit"
    /\ thread' = "none"
    /\ LET each(s, c) == closefd(IF c.type = "S_ALWAYS" THEN kill(s, c.pid) ELSE s, c)
       IN Becomes([FoldLeft(each, Now, plugin_conf) EXCEPT !.l = <<>>, !.u = Destroyed])
    /\ UNCHANGED <<files, pos, stop, disp_hup, event, accepting, pbounds>>

-----------------------------------------------------------------------------
(* The main thread. *)

libdisp_reconfigure(d) ==
    /\ thread # "none" /\ ~stop /\ hups <= PWorld.hups
    /\ hups' = hups + 1 /\ files' = d /\ disp_hup' = TRUE
    /\ UNCHANGED <<lists, thread, pos, stop, event, unix, accepting, raced, listeners,
                   pworld>>

libdisp_shutdown ==
    /\ ~stop /\ stop' = TRUE
    /\ UNCHANGED <<lists, files, thread, pos, disp_hup, event, unix, accepting, raced, pbounds>>

\* accept returns, conn is assigned, the watcher is stopped.
af_unix_accept ==
    /\ \/ /\ accepting = "no" /\ watching /\ backlog > 0
          /\ accepting' = "accepted" /\ backlog' = backlog - 1
          /\ UNCHANGED <<conn, watching>>
       \/ /\ accepting = "accepted" /\ accepting' = "assigned"
          /\ conn' = "up" /\ UNCHANGED <<watching, backlog>>
       \/ /\ accepting = "assigned" /\ accepting' = "no"
          /\ watching' = FALSE /\ UNCHANGED <<conn, backlog>>
    /\ UNCHANGED <<lists, files, thread, pos, stop, disp_hup, event, sock, raced, pbounds>>

-----------------------------------------------------------------------------
(* Processes of others. *)

PluginExits(p) ==
    /\ procs[p] = "running" /\ p \notin told /\ exits < PWorld.exits
    /\ exits' = exits + 1
    /\ \E x \in {"deaf", "dead"} : procs' = [procs EXCEPT ![p] = x]
    /\ UNCHANGED <<plugin_conf, told, fds, failed, crossed, files, thread, pos, stop, disp_hup, event,
                   unix, accepting, raced, hups, listeners, pworld>>

ListenerConnects ==
    /\ sock /\ listeners < PWorld.listeners
    /\ listeners' = listeners + 1 /\ backlog' = backlog + 1
    /\ UNCHANGED <<lists, files, thread, pos, stop, disp_hup, event, sock, conn, watching,
                   accepting, raced, hups, pworld>>

ListenerHangsUp ==
    /\ conn = "up" /\ conn' = "gone"
    /\ UNCHANGED <<lists, files, thread, pos, stop, disp_hup, event, sock, watching,
                   backlog, accepting, raced, pbounds>>

PNext ==
    \/ \E d \in PWorld.files : libdisp_init(d) \/ libdisp_reconfigure(d)
    \/ TakeEvent \/ LeaveLoop \/ Deliver \/ reconfigure \/ Quit
    \/ libdisp_shutdown \/ af_unix_accept
    \/ \E p \in DOMAIN procs : PluginExits(p)
    \/ ListenerConnects \/ ListenerHangsUp

PSpec == PInit /\ [][PNext]_pvars

-----------------------------------------------------------------------------
(* Properties. *)

\* The variables of audispd.c have their types; restart_cnt passes max_restarts by
\* at most one (start_one_plugin).
PluginsOK ==
    /\ \A i \in DOMAIN plugin_conf : LET c == plugin_conf[i] IN
         /\ c.name \in Names /\ c.type \in {"S_ALWAYS", "S_BUILTIN", "S_AF_UNIX"}
         /\ c.pid \in DOMAIN procs \cup {NoFd} /\ c.fd \in Nat
         /\ c.restart_cnt \in 0 .. PWorld.max_restarts + 1 /\ c.seen \in 0 .. event
    /\ thread \in {"none", "loop", "deliver", "reconfigure", "quit"}
    /\ pos \in 0 .. Len(plugin_conf)
    /\ procs \in Seq({"running", "deaf", "dead"})
    /\ told \subseteq DOMAIN procs /\ fds \in Seq({NoFd} \cup DOMAIN procs)
    /\ conn \in {"no", "up", "gone"} /\ accepting \in {"no", "accepted", "assigned"}

\* The descriptor of an entry leads to its process.
OwnPipe(c) == Open(Now, c.fd) /\ fds[c.fd] = c.pid

\* auditd has a pipe open for each entry with a process, which leads to that
\* process, and no other: none is leaked by a restart, a replaced program or a
\* removed file, and none used after it was closed.  This ends only when an entry
\* whose start failed closes the descriptor a second time and another entry has
\* got it in the meantime (free_pconfig).
OwnDescriptors ==
    /\ \A d \in DOMAIN fds : fds[d] # NoFd => \E i \in DOMAIN plugin_conf : plugin_conf[i].fd = d
    /\ ~crossed => \A i \in DOMAIN plugin_conf : LET c == plugin_conf[i] IN
                      IF c.pid = NoFd THEN failed = 0 => c.fd = NoFd ELSE OwnPipe(c)
    /\ crossed => failed > 0

\* A plugin that runs is the process of an active entry of the list or was sent
\* SIGTERM: no copy of a plugin is forgotten (start_one_plugin, reconfigure).
NoneForgotten ==
    ~crossed => \A p \in DOMAIN procs : procs[p] = "running" /\ p \notin told =>
        \E i \in DOMAIN plugin_conf : plugin_conf[i].active /\ plugin_conf[i].pid = p

\* "If the plugin has a problem and exits, it will be started a maximum of
\* max_restarts times" (auditd-plugins.5).
RestartBound ==
    \A i \in DOMAIN plugin_conf : plugin_conf[i].restarts <= PWorld.max_restarts

\* Every event is written for every active plugin, once and in order; the event
\* that finds the pipe broken is the first for the new process, and SIGHUP or a
\* replaced program costs none.  A plugin loses at most one event for each
\* restart, the one written to a new process that has already exited (event_loop).
NoGap ==
    \A i \in DOMAIN plugin_conf : LET c == plugin_conf[i] IN
        /\ c.active /\ c.type = "S_ALWAYS" /\ MayStart(c) /\ ~stop /\ ~crossed =>
            c.seen = IF thread = "deliver" /\ i >= pos THEN event - 1 ELSE event
        /\ c.lost <= c.restarts

\* af_unix has a listener or watches for one, "since this is intended to be one
\* listener", as long as the two threads do not get in each other's way.
OneListener ==
    ~raced => /\ watching => sock
              /\ sock /\ accepting = "no" => (watching <=> conn = "no")

\* After SIGHUP those plugins are active whose files say so (reconfigure).
FollowsFiles ==
    [][thread = "reconfigure" /\ thread' # "reconfigure" /\ failed' = failed =>
         {plugin_conf'[i].name : i \in {k \in DOMAIN plugin_conf' : plugin_conf'[k].active}}
           = {f.name : f \in {g \in Range(files) : g.ok /\ g.active}}]_pvars

\* auditd's list of plugins, its pipes and the processes agree, every plugin
\* gets every event, and a SIGHUP leaves active what the files say, however
\* plugins exit, fail to start and are replaced.
PluginsSound ==
    /\ [](PluginsOK /\ OwnDescriptors /\ NoneForgotten /\ RestartBound /\ NoGap /\ OneListener)
    /\ FollowsFiles
=============================================================================
