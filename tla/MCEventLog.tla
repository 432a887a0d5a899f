------------------------------ MODULE MCEventLog ------------------------------
(***************************************************************************)
(* Instances of EventLog.  A world is a small set of configurations with   *)
(* what may happen under them.                                             *)
(***************************************************************************)
EXTENDS EventLog

Base ==
    [write_logs |-> TRUE, num_logs |-> 3, max_log_size |-> 2,
     max_log_size_action |-> "SZ_ROTATE", space_left_action |-> "FA_SYSLOG",
     admin_space_left_action |-> "FA_SUSPEND", disk_full_action |-> "FA_SUSPEND",
     disk_error_action |-> "FA_SYSLOG", fsync |-> FALSE]

Keeping == [Base EXCEPT !.max_log_size_action = "SZ_KEEP_LOGS", !.fsync = TRUE]
Emailing == [Base EXCEPT !.space_left_action = "FA_EMAIL",
                         !.admin_space_left_action = "FA_SINGLE",
                         !.disk_full_action = "FA_HALT", !.disk_error_action = "FA_HALT"]
Rotating == [Base EXCEPT !.space_left_action = "FA_ROTATE",
                         !.admin_space_left_action = "FA_ROTATE"]
Filling == [Base EXCEPT !.disk_full_action = "FA_ROTATE", !.disk_error_action = "FA_SUSPEND"]
Stopping == [Base EXCEPT !.max_log_size_action = "SZ_SUSPEND"]
Growing == [Base EXCEPT !.max_log_size_action = "SZ_IGNORE", !.num_logs = 1]
Executing == [Base EXCEPT !.space_left_action = "FA_EXEC", !.fsync = TRUE]
Silent == [Base EXCEPT !.write_logs = FALSE]
Scripted == [Executing EXCEPT !.admin_space_left_action = "FA_EXEC", !.disk_error_action = "FA_EXEC"]

World == [configs |-> {Base}, old |-> 0, records |-> 5, faults |-> 0,
          mayStayClosed |-> FALSE, removals |-> 0, rotates |-> 0, hups |-> 0]

\* Renames and writes that fail, SIGUSR1, logs moved away, more old logs than
\* num_logs; one configuration at a time.
Steady == {[World EXCEPT !.configs = {c}, !.old = 3, !.records = 7, !.faults = 1,
                         !.removals = 1, !.rotates = 1] :
             c \in {Base, Keeping, Emailing, Rotating, Stopping, Growing}}

\* Opening the log fails; a script closes it; disk_full_action = rotate.
Reopening == {[World EXCEPT !.configs = {c}, !.faults = 2, !.mayStayClosed = TRUE,
                            !.removals = 1] : c \in {Base, Keeping, Executing, Silent}}
             \cup {[World EXCEPT !.configs = {Filling}, !.rotates = 1]}

\* SIGHUP.
Changing == {[World EXCEPT !.configs = cs, !.faults = 1, !.hups = 2] :
                cs \in {{Base, Rotating, [Base EXCEPT !.max_log_size = 1]},
                        {Base, Stopping, [Base EXCEPT !.fsync = TRUE]},
                        {Base, Emailing}}}

\* Signals that meet a log that is closed, and actions that close it twice.
Closing == {[World EXCEPT !.configs = cs, !.records = 3, !.faults = 1, !.mayStayClosed = TRUE,
                          !.rotates = 1, !.hups = 1] :
              cs \in {{Base, Silent}, {Keeping, Executing},
                      {Executing, [Executing EXCEPT !.max_log_size = 1]}, {Scripted}, {Filling}}}

SafeWorlds == Closing \cup Steady \cup Reopening \cup Changing
=============================================================================
