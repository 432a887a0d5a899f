------------------------------- MODULE EventLog -------------------------------
(***************************************************************************)
(* How auditd writes events to disk (src/auditd-event.c): handle_event and *)
(* everything it calls, the rotation of log files, what is done about a    *)
(* full or failing disk, SIGHUP, SIGUSR1 and SIGUSR2.                      *)
(*                                                                         *)
(* All of it runs in the main thread, one handler after the other, but a   *)
(* handler makes many calls that may fail in the middle.  Each function of *)
(* the source is an operator here: it maps the state s it is called in to  *)
(* the set of states it may leave, one for each way its system calls may   *)
(* turn out.  The actions at the end pick one of them.                     *)
(*                                                                         *)
(* The log file with suffix .i is files[i], the current one files[0]; a    *)
(* file is the sequence of its records, numbered 1, 2, ... as they come,   *)
(* and sizes are counted in records.  log_fd is valid when log_file is.    *)
(*                                                                         *)
(* Left out: the foreground mode, ownership and permissions of the files,  *)
(* known_logs, the flush thread, a SIGHUP that changes the log's name or   *)
(* the thresholds.                                                         *)
(***************************************************************************)
EXTENDS Integers, Sequences, SequencesExt

CONSTANTS
    Worlds,             \* the circumstances auditd may run in, see WorldType
    MaxFiles            \* bound: the highest number of a log file

FailureActions == {"FA_IGNORE", "FA_SYSLOG", "FA_ROTATE", "FA_EMAIL", "FA_EXEC",
                   "FA_SUSPEND", "FA_SINGLE", "FA_HALT"}
SizeActions == {"SZ_IGNORE", "SZ_SYSLOG", "SZ_SUSPEND", "SZ_ROTATE", "SZ_KEEP_LOGS"}

ConfigType ==
    [write_logs : BOOLEAN, num_logs : Nat, max_log_size : Nat,
     max_log_size_action : SizeActions,
     space_left_action : FailureActions, admin_space_left_action : FailureActions,
     disk_full_action : FailureActions, disk_error_action : FailureActions,
     fsync : BOOLEAN]           \* flush = incremental

\* The configurations that are used, and bounds on what happens.
WorldType ==
    [configs : SUBSET ConfigType,
     old : Nat,                 \* log files there before auditd starts
     records : Nat,             \* events that come, old ones included
     faults : Nat,              \* system calls that fail ...
     mayStayClosed : BOOLEAN,   \* ... those that leave the log closed among them
     removals : Nat,            \* log files moved away
     rotates : Nat, hups : Nat] \* SIGUSR1 and SIGHUP

ASSUME ConstantsAssumption ==
    /\ MaxFiles \in Nat
    /\ \A w \in Worlds :
         /\ DOMAIN w = {"configs", "old", "records", "faults", "mayStayClosed",
                         "removals", "rotates", "hups"}
         /\ \A c \in w.configs : c \in ConfigType /\ c.max_log_size > 0

VARIABLES
    s,          \* the static variables of auditd-event.c, its files and config
    space,      \* of the partition: "plenty", "low", "admin" (very low), "none"
    record,     \* number of the last record
    world       \* what may still happen

vars == <<s, space, record, world>>

None == <<0>>          \* no such file: records are numbered from 1
Exists(t, i) == t.files[i] # None

Start(c, old) ==
    [config |-> c,
     log_file |-> FALSE,        \* log_file # NULL
     logging_suspended |-> FALSE,
     fs_space_left |-> TRUE, fs_space_warning |-> FALSE,
     fs_admin_space_warning |-> FALSE, disk_err_warning |-> 0,
     log_size |-> 0, last_log |-> 1,
     files |-> [i \in 0 .. MaxFiles |-> IF i \in 1 .. old THEN <<old + 1 - i>> ELSE None],
     rc |-> 0, crashed |-> FALSE, faults |-> 0, runlevel |-> "same"]

-----------------------------------------------------------------------------
(* Sequential composition, and calls that may fail. *)

\* After any of the states of S comes F; a crashed daemon does nothing more.
Then(S, F(_)) == UNION {IF t.crashed THEN {t} ELSE F(t) : t \in S}

\* What happens if a system call fails, as long as some may.
OrFails(t, S) == IF t.faults < world.faults THEN S ELSE {}
Failed(t) == [t EXCEPT !.faults = @ + 1]

\* The same for those that leave the log closed.
OrStaysClosed(t, S) == IF world.mayStayClosed THEN OrFails(t, S) ELSE {}

\* fclose(log_file): a null pointer is undefined behaviour, a crash in glibc.
fclose(t) == IF t.log_file THEN {[t EXCEPT !.log_file = FALSE]}
                           ELSE {[t EXCEPT !.crashed = TRUE]}

Suspended(t) == {[t EXCEPT !.logging_suspended = TRUE]}

\* change_runlevel.
change_runlevel(t, level) == {[t EXCEPT !.runlevel = level]}

\* "Get initial size".
Sized(t) == [t EXCEPT !.log_size = Len(t.files[0])]

open_audit_log(t) ==
    IF ~t.config.write_logs
    THEN {[t EXCEPT !.rc = 0]}
    ELSE {Sized([t EXCEPT !.rc = 0, !.log_file = TRUE,
                          !.files[0] = IF @ = None THEN <<>> ELSE @])}
         \cup OrStaysClosed(t, {Failed([t EXCEPT !.rc = 1])})

\* The cases common to the failure actions; FA_EXEC closes the file "in case
\* the script zips or moves the file".
FailureAction(t, action) ==
    CASE action = "FA_EXEC" -> Then(fclose(t), Suspended)
      [] action = "FA_SUSPEND" -> Suspended(t)
      [] action = "FA_SINGLE" -> change_runlevel(t, "single")
      [] action = "FA_HALT" -> change_runlevel(t, "halt")
      [] OTHER -> {t}

\* Limited to 5 consecutive messages.
do_disk_error_action(t) ==
    IF t.config.disk_error_action = "FA_SYSLOG"
    THEN {[t EXCEPT !.disk_err_warning = IF @ < 5 THEN @ + 1 ELSE @]}
    ELSE FailureAction(t, t.config.disk_error_action)

-----------------------------------------------------------------------------
(* Rotation. *)

\* do_disk_full_action while rotate_logs has the log closed: to rotate again is
\* to close it again.
FullWhileRotating(t) ==
    IF t.config.disk_full_action = "FA_ROTATE"
    THEN IF t.config.num_logs > 1 THEN fclose(t) ELSE {t}
    ELSE FailureAction(t, t.config.disk_full_action)

\* A rename failed, with ENOSPC or another error.
RenameFailed(t) ==
    do_disk_error_action(t)
    \cup (IF t.fs_space_left
          THEN FullWhileRotating([t EXCEPT !.fs_space_left = FALSE])
          ELSE {})

Moved(t, i, j) == [t EXCEPT !.files[j] = t.files[i], !.files[i] = None]

rename(t, i, j) ==
    IF Exists(t, i) THEN {Moved(t, i, j)} \cup OrFails(t, RenameFailed(Failed(t)))
                    ELSE {t}

\* i = num_logs - 1 down to 2.
Order(num_logs) == [k \in 1 .. num_logs - 2 |-> num_logs - k]

\* Mutant: the name left over is the highest.
Lowest_High(num_logs) == num_logs - 1

\* "oldname should point to lowest number - use it".
Lowest(num_logs) == 1

\* After opening the log again.
Reopened(t) == IF t.rc = 0 THEN {t} ELSE Then(Suspended(t), do_disk_error_action)

\* rotate_logs, num_logs being the number to use.
rotate_logs(t, num_logs, keep_logs) ==
    IF t.config.num_logs < 2 /\ ~keep_logs
    THEN {t}
    ELSE LET closed == fclose(t)
             Shift(S, i) == Then(S, LAMBDA u : rename(u, i - 1, i))
             shifted == FoldLeft(Shift, closed, Order(num_logs))
             renamed == Then(shifted, LAMBDA u : rename(u, 0, Lowest(num_logs)))
             noMemory == Then(OrStaysClosed(t, closed), LAMBDA u : Suspended(Failed(u)))
         IN noMemory \cup Then(Then(renamed, open_audit_log), Reopened)

rotate(t) == rotate_logs(t, t.config.num_logs, FALSE)

\* The first number at or after i without a file.
FirstFree(t, i) == CHOOSE j \in i .. MaxFiles :
    ~Exists(t, j) /\ \A k \in i .. j - 1 : Exists(t, k)

\* Mutant: the last known log is taken to be the last.
LastLog_Cached(t) == t.last_log

\* Where shift_logs finds the end of the logs.
LastLog(t) == IF ~Exists(t, t.last_log) /\ t.last_log > 1
              THEN FirstFree(t, 1)      \* "Our last known file disappeared"
              ELSE FirstFree(t, t.last_log)

shift_logs(t) ==
    LET n == LastLog(t) IN rotate_logs([t EXCEPT !.last_log = n], n + 1, TRUE)

rotate_logs_now(t) ==
    IF t.config.max_log_size_action = "SZ_KEEP_LOGS" THEN shift_logs(t) ELSE rotate(t)

\* "Did we cross the size limit?"
TooLarge(t) == t.log_size >= t.config.max_log_size

check_log_file_size(t) ==
    IF t.config.write_logs /\ TooLarge(t)
    THEN CASE t.config.max_log_size_action = "SZ_SUSPEND" -> Suspended(t)
           [] t.config.max_log_size_action = "SZ_ROTATE" -> rotate(t)
           [] t.config.max_log_size_action = "SZ_KEEP_LOGS" -> shift_logs(t)
           [] OTHER -> {t}
    ELSE {t}

\* check_excess_logs removes the files from num_logs up to the first gap.
check_excess_logs(t) ==
    IF t.config.max_log_size_action # "SZ_ROTATE" \/ t.config.num_logs < 2
    THEN {t}
    ELSE LET first == t.config.num_logs      \* "1 beyond the normal logs"
             excess == first .. FirstFree(t, first)
         IN {[t EXCEPT !.files = [i \in 0 .. MaxFiles |->
                 IF i \in excess THEN None ELSE t.files[i]]]}

-----------------------------------------------------------------------------
(* Free space. *)

do_disk_full_action(t) ==
    IF t.config.disk_full_action = "FA_ROTATE"
    THEN rotate(t)
    ELSE FailureAction(t, t.config.disk_full_action)

do_space_left_action(t, action) ==
    IF action = "FA_ROTATE" THEN rotate(t) ELSE FailureAction(t, action)

\* Act on space below space_left once; "allow unlimited rotation", "auto reset
\* only if failure action is syslog".
CheckSpace(t, low) ==
    LET action == t.config.space_left_action
    IN IF low
       THEN IF t.fs_space_warning
            THEN {t}
            ELSE Then(do_space_left_action(t, action),
                      LAMBDA u : {[u EXCEPT !.fs_space_warning = action # "FA_ROTATE"]})
       ELSE {[t EXCEPT !.fs_space_warning = @ /\ action # "FA_SYSLOG"]}

\* The same for admin_space_left.
CheckAdminSpace(t, low) ==
    LET action == t.config.admin_space_left_action
    IN IF low
       THEN IF t.fs_admin_space_warning
            THEN {t}
            ELSE Then(do_space_left_action(t, action),
                      LAMBDA u : {[u EXCEPT !.fs_admin_space_warning = action # "FA_ROTATE"]})
       ELSE {[t EXCEPT !.fs_admin_space_warning = @ /\ action # "FA_SYSLOG"]}

\* fstatfs fails if the log is closed.
check_space_left(t) ==
    CASE ~t.log_file -> {t}
      [] t.log_file /\ space = "none" ->
            do_disk_full_action([t EXCEPT !.fs_space_left = FALSE])
      [] OTHER -> Then(CheckSpace(t, space \in {"low", "admin"}),
                       LAMBDA u : CheckAdminSpace(u, space = "admin"))

-----------------------------------------------------------------------------
(* Writing an event. *)

\* A call that writes failed: ENOSPC is acted on once, other errors always.
Full(t) == IF t.fs_space_left THEN do_disk_full_action([t EXCEPT !.fs_space_left = FALSE])
                              ELSE {t}

\* fprintf(log_file) with a null pointer is a crash too.
write_to_log(t, r) ==
    LET put == [t EXCEPT !.files[0] = Append(@, r), !.log_size = @ + 1]
        sized == check_log_file_size(put)
        \* "Keep loose tabs on the free space": now and then
        checked == sized \cup Then(sized, check_space_left)
        done == Then(checked, LAMBDA u : {[u EXCEPT !.disk_err_warning = 0]})
        failed == Failed(t)
    IN IF t.log_file
       THEN done \cup OrFails(t, Full(failed) \cup do_disk_error_action(failed))
       ELSE {[t EXCEPT !.crashed = TRUE]}

\* fflush; ENOSPC counts as an error once it has been acted on.
Flush(t) == {t} \cup OrFails(t, LET failed == Failed(t) IN
                Full(failed) \cup do_disk_error_action(failed))

\* fsync(log_fd) fails if write_to_log left the log closed.
Fsync(t) ==
    IF t.log_file
    THEN {t} \cup OrFails(t, do_disk_error_action(Failed(t)))
    ELSE do_disk_error_action(t)

\* The rest of handle_event, after what is particular to an event's type.
Logged(t, r) ==
    IF ~t.logging_suspended /\ t.config.write_logs
    THEN LET done == write_to_log(t, r)
         IN IF t.config.fsync THEN done \cup Then(Then(done, Flush), Fsync) ELSE done
    ELSE {t}

\* Mutant: the log is not opened again.
MustReopen_Not(t) == FALSE

\* "User space action scripts cause fd to close".
MustReopen(t) == ~t.log_file

resume_logging(t) ==
    LET on == [t EXCEPT !.logging_suspended = FALSE, !.fs_space_left = TRUE]
        Checked(u) == IF u.rc = 0 THEN check_log_file_size(u)
                                  ELSE Then(Suspended(u), do_disk_error_action)
    IN Then(IF MustReopen(on) THEN Then(open_audit_log(on), Checked) ELSE {on},
            LAMBDA u : {[u EXCEPT !.disk_err_warning = 0, !.fs_space_warning = FALSE,
                                  !.fs_admin_space_warning = FALSE]})

-----------------------------------------------------------------------------
(* SIGHUP: reconfigure, in the order of the source. *)

\* Disk error action, number of logs, write_logs; then the size of the log.
ReconfigureSize(t, c) ==
    LET o == t.config
        u == [t EXCEPT !.disk_err_warning = 0,
                       !.config.disk_error_action = c.disk_error_action,
                       !.config.num_logs = c.num_logs,
                       !.config.write_logs = c.write_logs,
                       !.config.max_log_size_action = c.max_log_size_action,
                       !.config.max_log_size = c.max_log_size]
    IN IF <<o.max_log_size_action, o.max_log_size>> # <<c.max_log_size_action, c.max_log_size>>
       THEN check_log_file_size([u EXCEPT !.logging_suspended = FALSE])
       ELSE {u}

\* The log is opened again if write_logs or the flush technique changed.
ReconfigureLog(t, c, reopen) ==
    LET u == [t EXCEPT !.config.fsync = c.fsync]
        Checked(v) ==
            IF v.rc = 0 THEN check_log_file_size([v EXCEPT !.logging_suspended = FALSE])
                        ELSE Then(Suspended(v), do_disk_error_action)
    IN IF reopen THEN Then(Then(fclose(u), open_audit_log), Checked) ELSE {u}

\* "If suspended is still 0, then copy saved suspended back."
StaysSuspended(t, saved) == t.logging_suspended \/ saved

ReconfigureSpace(t, c) ==
    LET u == [t EXCEPT !.config = c, !.fs_space_warning = FALSE,
                       !.fs_admin_space_warning = FALSE, !.fs_space_left = TRUE,
                       !.logging_suspended = FALSE]
        Restored(v) ==
            {[v EXCEPT !.logging_suspended = StaysSuspended(v, t.logging_suspended)]}
    IN IF t.config = c
       THEN {t}
       ELSE Then(Then(check_excess_logs(u), check_space_left), Restored)

reconfigure(t, c) ==
    LET reopen == t.config.write_logs # c.write_logs \/ t.config.fsync # c.fsync
    IN Then(Then(ReconfigureSize(t, c), LAMBDA u : ReconfigureLog(u, c, reopen)),
            LAMBDA u : ReconfigureSpace(u, c))

-----------------------------------------------------------------------------
(* The handlers. *)

init_event(t) ==
    Then(Then(Then({u \in open_audit_log(t) : u.rc = 0}, check_log_file_size),
              check_excess_logs), check_space_left)

Init ==
    /\ world \in Worlds
    /\ space \in {"plenty", "low"}
    /\ record = world.old
    /\ \E c \in world.configs : s \in init_event(Start(c, world.old))

\* An event comes in.
Event ==
    /\ ~s.crashed
    /\ record < world.records
    /\ record' = record + 1
    /\ s' \in Logged(s, record')
    /\ UNCHANGED <<space, world>>

\* SIGUSR1: an AUDIT_DAEMON_ROTATE event.
Rotate ==
    /\ ~s.crashed
    /\ world.rotates > 0
    /\ world' = [world EXCEPT !.rotates = @ - 1]
    /\ record' = record + 1
    /\ s' \in Then(rotate_logs_now(s), LAMBDA t : Logged(t, record'))
    /\ UNCHANGED space

\* SIGHUP: the AUDIT_DAEMON_RECONFIG event that the reconfigure thread sends.
Reconfigure ==
    /\ ~s.crashed
    /\ world.hups > 0
    /\ world' = [world EXCEPT !.hups = @ - 1]
    /\ record' = record + 1
    /\ \E c \in world.configs :
         s' \in Then(reconfigure(s, c), LAMBDA t : Logged(t, record'))
    /\ UNCHANGED space

\* SIGUSR2.
Resume ==
    /\ ~s.crashed
    /\ s' \in resume_logging(s)
    /\ UNCHANGED <<space, record, world>>

\* The administrator, or the script of an exec action, moves a log away.
RemoveLog ==
    /\ world.removals > 0
    /\ world' = [world EXCEPT !.removals = @ - 1]
    /\ \E i \in 0 .. MaxFiles :
         /\ Exists(s, i)
         /\ i = 0 => ~s.log_file
         /\ s' = [s EXCEPT !.files[i] = None]
    /\ UNCHANGED <<space, record>>

\* The partition fills up or gets freed.
SpaceChanges ==
    /\ ~s.crashed
    /\ space' \in {"plenty", "low", "admin", "none"} \ {space}
    /\ UNCHANGED <<s, record, world>>

Next == Event \/ Rotate \/ Reconfigure \/ Resume \/ RemoveLog \/ SpaceChanges

Spec == Init /\ [][Next]_vars

-----------------------------------------------------------------------------
(* Properties. *)

\* The records in the files, the oldest first.
Kept(t) == FlattenSeq([k \in 1 .. MaxFiles + 1 |->
    IF Exists(t, MaxFiles + 1 - k) THEN t.files[MaxFiles + 1 - k] ELSE <<>>])
KeptSet(t) == Range(Kept(t))

\* The variables of auditd-event.c have their types: a log is a sequence of
\* records that came in, and the count of disk error messages is at most 5.
TypeOK ==
    /\ s.config \in ConfigType
    /\ \A v \in {s.log_file, s.logging_suspended, s.fs_space_left, s.fs_space_warning,
                   s.fs_admin_space_warning, s.crashed} : v \in BOOLEAN
    /\ s.disk_err_warning \in 0 .. 5
    /\ s.log_size \in 0 .. record
    /\ s.last_log \in 1 .. MaxFiles
    /\ KeptSet(s) \subseteq 1 .. record
    /\ s.faults \in 0 .. world.faults
    /\ s.runlevel \in {"same", "single", "halt"}

\* Read from the highest number to the current log, the files hold the records
\* in the order they came in, whatever renames failed and whatever was removed
\* (rotate_logs).
InOrder == \A i, j \in DOMAIN Kept(s) : i < j => Kept(s)[i] < Kept(s)[j]

\* A daemon that is to write logs and has not suspended doing so has its log
\* open, for the fprintf of write_to_log.
LoggingMeansOpen == s.config.write_logs /\ ~s.logging_suspended => s.log_file

\* log_size, which is counted up by write_to_log, is the size of the file: the
\* limit max_log_size is applied to the right number.
SizeTracked == s.log_file => s.log_size = Len(s.files[0])

Rotates(t) == \/ t.config.max_log_size_action = "SZ_KEEP_LOGS"
              \/ t.config.max_log_size_action = "SZ_ROTATE" /\ t.config.num_logs > 1

NoExcess(t) == \A i \in t.config.num_logs .. MaxFiles : ~Exists(t, i)

\* While nothing fails, a log that is rotated is below max_log_size after every
\* event, and with "rotate" there are no more than num_logs of them
\* (check_log_file_size, check_excess_logs; SIGHUP does not enforce the latter).
Bounded ==
    s.faults = 0 /\ Rotates(s) =>
        /\ s.log_file => s.log_size < s.config.max_log_size
        /\ s.config.max_log_size_action = "SZ_ROTATE" /\ world.hups = 0 =>
              NoExcess(s)

NoRotateAction(t) == "FA_ROTATE" \notin
    {t.config.space_left_action, t.config.admin_space_left_action, t.config.disk_full_action}

\* With max_log_file_action = keep_logs, and nothing failing, no record that is
\* in a file is ever overwritten, also if the last known log disappeared
\* (shift_logs).  With any other action what a rotation loses is older than all
\* that it keeps, unless there were logs beyond num_logs already: rotate_logs
\* leaves those and overwrites a younger one.
LosesOldest ==
    [][s'.faults = s.faults /\ world'.removals = world.removals =>
         /\ s.config.max_log_size_action = "SZ_KEEP_LOGS" /\ s'.config = s.config
              /\ NoRotateAction(s) => KeptSet(s) \subseteq KeptSet(s')
         /\ NoExcess(s) =>
              \A lost \in KeptSet(s) \ KeptSet(s'), r \in KeptSet(s') : lost < r]_vars

\* Logging that was suspended stays so until SIGUSR2, or until a SIGHUP that
\* changes the limit on the size of the log or opens it again (reconfigure).
StaysOff ==
    [][s.logging_suspended /\ ~s'.logging_suspended =>
         \/ Resume
         \/ LET o == s.config  c == s'.config IN
            \/ o.max_log_size_action # c.max_log_size_action
            \/ o.max_log_size # c.max_log_size
            \/ o.write_logs # c.write_logs
            \/ o.fsync # c.fsync]_vars

\* The cases in which fclose or fprintf is given a null pointer: the log was
\* closed already when SIGUSR1 or SIGHUP came; or it was open, and an action
\* closes it that rotate_logs or another action has just closed.
ClosedBefore ==
    ~s.log_file /\ (world'.rotates < world.rotates \/ world'.hups < world.hups)
ExecActions(c) == {a \in {"space_left_action", "admin_space_left_action", "disk_full_action",
                          "disk_error_action"} : c[a] = "FA_EXEC"}
ClosedTwice(c) ==
    \/ \E a, b \in ExecActions(c) : a # b
    \/ /\ s'.faults > s.faults
       /\ c.disk_full_action \in {"FA_EXEC", "FA_ROTATE"} \/ c.disk_error_action = "FA_EXEC"

\* The log files are in order and within their limits: rotate_logs and
\* shift_logs keep the order of the records, write_to_log the size,
\* check_log_file_size and check_excess_logs the two limits.
FilesSound == TypeOK /\ InOrder /\ SizeTracked /\ Bounded

\* Whatever open, rename or write failed, a daemon that is to write its log has
\* it open; and no handler uses a null pointer but in the cases of ClosedBefore
\* and ClosedTwice: an event, a resumption and a rotation that find the log open
\* are safe, unless an exec or rotate action answers what fails in them.
LogUsable ==
    /\ [](s.crashed \/ LoggingMeansOpen)
    /\ [][s'.crashed /\ ~s.crashed => ClosedBefore \/ ClosedTwice(s'.config)]_vars

\* What a rotation may lose, and what may turn logging on again.
LogKept == LosesOldest /\ StaysOff
=============================================================================
