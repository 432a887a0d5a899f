---------------------------- MODULE MCForwarding ----------------------------
(***************************************************************************)
(* The plugins of auditd: how auditd starts, feeds and restarts them       *)
(* (Plugins), two of them at work, audispd-zos-remote (ZosPlugin) and      *)
(* audisp-syslog (SyslogPlugin), and the queue of a third, audisp-remote   *)
(* (RemoteQueue).  side is chosen at the start; the others stand still.    *)
(***************************************************************************)
EXTENDS Plugins, ZosPlugin, SyslogPlugin, RemoteQueue

-----------------------------------------------------------------------------
(* Plugin files: two programs and af_unix.                                 *)
FileNames == {"a", "b", "u"}
File(n, i) == [name |-> n, ok |-> TRUE, active |-> TRUE, type |-> "S_ALWAYS", inode |-> i,
               args |-> <<>>]
Unix(args) == [name |-> "u", ok |-> TRUE, active |-> TRUE, type |-> "S_BUILTIN", inode |-> 0,
               args |-> args]
Off(f) == [f EXCEPT !.active = FALSE]
Bad(f) == [f EXCEPT !.ok = FALSE]

\* Plugins exit and are restarted, while files come, go and change.
Changing ==
    [files |-> {<<File("a", 1), File("b", 1)>>, <<File("b", 2), File("a", 1)>>,
                <<File("a", 1), Off(File("b", 2))>>, <<Bad(File("a", 1))>>},
     max_restarts |-> 1, events |-> 2, hups |-> 2, exits |-> 2, forks |-> 0, listeners |-> 0]

\* One plugin exits again and again, or cannot be started.
Failing ==
    [files |-> {<<File("a", 1)>>, <<File("a", 2)>>, <<>>}, max_restarts |-> 1, events |-> 4,
     hups |-> 1, exits |-> 3, forks |-> 1, listeners |-> 0]

\* One of two cannot be started, and may be started later.
Unstarted ==
    [files |-> {<<File("a", 1), File("b", 1)>>, <<File("b", 1)>>}, max_restarts |-> 1,
     events |-> 3, hups |-> 1, exits |-> 2, forks |-> 1, listeners |-> 0]

\* Listeners of af_unix come and go.
Listening ==
    [files |-> {<<Unix(<<"mode", "path">>)>>, <<Unix(<<"path", "mode">>)>>,
                <<Unix(<<"word">>)>>, <<Off(Unix(<<"path">>)), File("a", 1)>>},
     max_restarts |-> 1, events |-> 3, hups |-> 2, exits |-> 0, forks |-> 0, listeners |-> 2]

SomePWorlds == <<Changing, Failing, Unstarted, Listening>>

-----------------------------------------------------------------------------
VARIABLE side

forwardVars == <<side, pvars, zosVars, sysVars, vars>>

\* A ring of two slots, that a SIGHUP may enlarge; streams of records.
MCZosWorlds == {[first |-> 2, later |-> 2], [first |-> 2, later |-> 3]}
MCStreams == UNION {[1..n -> {"x", "nl"}] : n \in 5..6}

\* The flags of audisp-remote (store and forward mode, immediate mode) and those
\* test-queue.c uses on a file.
QueueFlags == {{"Q_IN_MEMORY", "Q_IN_FILE", "Q_CREAT", "Q_RESIZE"}, {"Q_IN_MEMORY"},
               {"Q_IN_FILE"}, {"Q_IN_FILE", "Q_CREAT", "Q_EXCL"}, {"Q_IN_FILE", "Q_RESIZE"}}

IdlePlugins == PStart(1, <<>>)
IdleZos == ZosStart([first |-> 2, later |-> 2])
IdleSys == SysStart(<<>>)
IdleQueue == Init

ForwardInit ==
  \/ side = "auditd" /\ PInit       /\ IdleZos /\ IdleSys /\ IdleQueue
  \/ side = "zos"    /\ IdlePlugins /\ ZosInit /\ IdleSys /\ IdleQueue
  \/ side = "syslog" /\ IdlePlugins /\ IdleZos /\ SysInit /\ IdleQueue
  \/ side = "queue"  /\ IdlePlugins /\ IdleZos /\ IdleSys /\ Init

OnlyZos == side = "zos" /\ UNCHANGED <<side, pvars, sysVars, vars>>

ForwardNext ==
  \/ side = "auditd" /\ PNext   /\ UNCHANGED <<side, zosVars, sysVars, vars>>
  \/ side = "zos"    /\ ZosNext /\ UNCHANGED <<side, pvars, sysVars, vars>>
  \/ side = "syslog" /\ SysNext /\ UNCHANGED <<side, pvars, zosVars, vars>>
  \/ side = "queue"  /\ Next    /\ UNCHANGED <<side, pvars, zosVars, sysVars>>

ForwardSpec ==
  /\ ForwardInit /\ [][ForwardNext]_forwardVars
  /\ WF_forwardVars(MainStep /\ OnlyZos)
  /\ WF_forwardVars(ThreadStep /\ OnlyZos)
  /\ WF_forwardVars(Alarm /\ OnlyZos)
=============================================================================
