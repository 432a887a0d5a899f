--------------------------- MODULE MCRemoteLogging ---------------------------
(* Configurations of audisp-remote for model checking. *)
EXTENDS RemoteLogging

\* audisp-remote.conf as shipped, except for the heartbeat.
Default ==
    [network_failure |-> "FA_STOP", disk_low |-> "FA_IGNORE",
     disk_full |-> "FA_WARN_ONCE", disk_error |-> "FA_WARN_ONCE",
     remote_ending |-> "FA_RECONNECT", startup_failure |-> "FA_WARN_ONCE_CONT",
     overflow_suspends |-> FALSE, heartbeat |-> TRUE, pipe |-> FALSE]

Suspending == [Default EXCEPT !.network_failure = "FA_SUSPEND", !.disk_low = "FA_SUSPEND",
                              !.disk_full = "FA_SUSPEND", !.disk_error = "FA_STOP",
                              !.overflow_suspends = TRUE, !.pipe = TRUE]
Keeping == {Default, Suspending}

\* An action with which the record is said to be dequeued.
Logging == {[Default EXCEPT !.network_failure = "FA_SYSLOG"]}
=============================================================================
