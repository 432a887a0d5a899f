-------------------------------- MODULE Daemon --------------------------------
(***************************************************************************)
(* The auditd process (src/auditd.c, src/auditd-reconfig.c and the flush   *)
(* thread of src/auditd-event.c): its startup, the handlers of the event   *)
(* loop, the thread that loads a new configuration, the thread that syncs  *)
(* the log, and the way out.                                               *)
(*                                                                         *)
(* A handler runs to its end before the next one, so each is one action;   *)
(* the two threads run between them.  What handle_event does to the files  *)
(* is the module EventLog: of an event that is logged only the request to  *)
(* the flush thread is left here.  The audit daemon learns who sent a      *)
(* signal by asking the kernel; what the signal is for is done when the    *)
(* answer comes in over the same socket as the events.                     *)
(*                                                                         *)
(* Events are buffers on the heap; a pointer is the number of one, 0 is    *)
(* the null pointer.                                                       *)
(***************************************************************************)
EXTENDS Integers, Sequences, FiniteSets, Functions

CONSTANTS
    Buffers,            \* bound: events allocated at a time
    Freq,               \* freq of auditd.conf
    MaxEvents,          \* bound: events from the kernel
    MaxSignals,         \* bound: signals, SIGTERM not counted
    MaxFaults,          \* bound: failing requests, bad configuration files, spurious
                        \*   wakeups
    Careful             \* SIGHUP comes only when the last one is done with

ASSUME ConstantsAssumption ==
    /\ Buffers \in Nat \ {0} /\ Freq \in Nat \ {0}
    /\ MaxEvents \in Nat /\ MaxSignals \in Nat /\ MaxFaults \in Nat
    /\ Careful \in BOOLEAN

Signals == {"SIGHUP", "SIGUSR1", "SIGUSR2"}

\* What main does before its event loop, in this order.
Startup == <<"become_daemon", "audit_open", "init_event", "init_dispatcher",
             "resolve_node", "pipes", "start_event", "set_enabled", "set_pid", "listen">>

VARIABLES
    pc,             \* of main: a step of Startup, "abort", "loop", "ending",
                    \*   "closing", "joining", "exited"
    stop,
    told,           \* what the daemon wrote to its parent, which waits for it:
                    \*   "nothing", "success", "failure"
    pending,        \* signals libev has not handed to their handlers
    requested,      \* hup_, usr1_ and usr2_info_requested
    owed,           \* requests the kernel has not answered
    socket,         \* messages of the kernel: "event" or "info"
    cur_event, reconfig_ev,
    heap,           \* of each buffer: Free, Live or the version of a configuration
    config_thread,  \* [pc, ev]: "none", "loading", "unlocking"
    pipe,           \* bytes in the pipe from that thread
    file, active,   \* versions of the configuration: on disk, in use
    refused,        \* highest version that was answered with a failure
    async, count, flush, flush_lock,    \* flush = incremental_async
    flusher,        \* "none", "top", "locked", "waiting", "woken", "fsync",
                    \*   "ended"
    sent,           \* [Signals -> Nat]: signals that came
    served,         \* [Signals -> Nat]: what was done for them
    events, faults, undefined

mainVars == <<pc, stop, told>>
signalVars == <<pending, requested, owed, sent, served>>
eventVars == <<cur_event, reconfig_ev, heap>>
configVars == <<config_thread, pipe, file, active, refused>>
flushVars == <<async, count, flush, flush_lock, flusher>>
boundVars == <<events, faults, undefined>>
vars == <<mainVars, signalVars, eventVars, configVars, flushVars, boundVars, socket>>

Ptr == 0 .. Buffers
Free == -1
Live == 0

Init ==
    /\ pc = Startup[1] /\ stop = FALSE /\ told = "nothing"
    /\ pending = {} /\ requested = {} /\ owed = 0 /\ socket = <<>>
    /\ cur_event = 0 /\ reconfig_ev = 0 /\ heap = [b \in 1 .. Buffers |-> Free]
    /\ config_thread = [pc |-> "none", ev |-> 0] /\ pipe = 0
    /\ file = 0 /\ active = 0 /\ refused = 0
    /\ async \in BOOLEAN /\ count = 0 /\ flush = FALSE /\ flush_lock = "free"
    /\ flusher = "none"
    /\ sent = [g \in Signals |-> 0] /\ served = [g \in Signals |-> 0]
    /\ events = 0 /\ faults = 0 /\ undefined = FALSE

-----------------------------------------------------------------------------
(* Logging an event, as far as the flush thread goes. *)

\* pthread_cond_signal(&do_flush).
Signalled(thread) == IF thread = "waiting" THEN "woken" ELSE thread

\* handle_event: with incremental_async, every freq-th event asks for a flush,
\* under flush_lock.
handle_event ==
    LET due == async /\ (count + 1) % Freq = 0
    IN /\ due => flush_lock = "free"
       /\ count' = (count + 1) % Freq
       /\ flush' = (flush \/ due)
       /\ flusher' = IF due THEN Signalled(flusher) ELSE flusher
       /\ UNCHANGED <<async, flush_lock>>

\* The loop of flush_thread_main.
FlusherLocks ==
    /\ flusher = "top"
    /\ \/ stop /\ flusher' = "ended" /\ UNCHANGED flush_lock
       \/ ~stop /\ flush_lock = "free" /\ flush_lock' = "flusher" /\ flusher' = "locked"
    /\ UNCHANGED <<async, count, flush>>

FlusherLooks ==
    /\ flusher = "locked"
    /\ flusher' = IF flush THEN "fsync" ELSE "waiting"
    /\ flush' = FALSE
    /\ flush_lock' = "free"
    /\ UNCHANGED <<async, count>>

\* It leaves with the lock held.
FlusherWakes ==
    /\ flusher = "woken"
    /\ flush_lock = "free"
    /\ flush_lock' = "flusher"
    /\ flusher' = IF stop THEN "ended" ELSE "locked"
    /\ UNCHANGED <<async, count, flush>>

FlusherSyncs == flusher = "fsync" /\ flusher' = "top" /\ UNCHANGED <<async, count, flush, flush_lock>>

FlushThread ==
    /\ FlusherLocks \/ FlusherLooks \/ FlusherWakes \/ FlusherSyncs
    /\ UNCHANGED <<mainVars, signalVars, eventVars, configVars, boundVars, socket>>

SpuriousWakeup ==
    /\ flusher = "waiting"
    /\ flusher' = "woken"
    /\ faults < MaxFaults
    /\ faults' = faults + 1
    /\ UNCHANGED <<mainVars, signalVars, eventVars, configVars, events, undefined, socket,
                   async, count, flush, flush_lock>>

-----------------------------------------------------------------------------
(* Startup. *)

\* Mutant: the parent is told before the listener is there.
Tells_Early(step) == IF step = "set_pid" THEN "success" ELSE "nothing"

\* tell_parent(SUCCESS) comes after the last step.
Tells(step) == IF step = "listen" THEN "success" ELSE "nothing"

StepDone(i) ==
    /\ pc = Startup[i]
    /\ pc' = IF i = Len(Startup) THEN "loop" ELSE Startup[i + 1]
    /\ told' = IF told = "nothing" THEN Tells(pc) ELSE told
    /\ \/ pc = "init_event" /\ flusher' = "top" /\ UNCHANGED <<async, count, flush, flush_lock>>
       \/ pc = "start_event" /\ handle_event
       \/ pc \notin {"init_event", "start_event"} /\ UNCHANGED flushVars
    /\ UNCHANGED <<stop, signalVars, eventVars, configVars, boundVars, socket>>

\* The steps before the event loop's signals are there end the process at once;
\* the next two log an abort and close down; the last one goes the way of
\* SIGTERM.
StepFails(i) ==
    /\ pc = Startup[i]
    /\ faults < MaxFaults
    /\ faults' = faults + 1
    /\ \/ /\ pc \notin {"set_enabled", "set_pid", "listen"}
          /\ pc' = "exited" /\ told' = "failure"
          /\ UNCHANGED <<stop, flushVars>>
       \/ /\ pc \in {"set_enabled", "set_pid"}
          /\ pc' = "abort" /\ stop' = TRUE
          /\ handle_event
          /\ UNCHANGED told
       \/ /\ pc = "listen"
          /\ pc' = "loop" /\ stop' = TRUE /\ told' = "failure"
          /\ handle_event
    /\ UNCHANGED <<signalVars, eventVars, configVars, events, undefined, socket>>

-----------------------------------------------------------------------------
(* Signals and their answers. *)

\* The administrator, for SIGHUP with a new configuration file in place.
Kill(g) ==
    /\ pc = "loop" /\ ~stop
    /\ sent["SIGHUP"] + sent["SIGUSR1"] + sent["SIGUSR2"] < MaxSignals
    /\ g = "SIGHUP" /\ Careful =>
         sent[g] = served[g] /\ config_thread.pc = "none" /\ g \notin requested
    /\ sent' = [sent EXCEPT ![g] = @ + 1]
    /\ pending' = pending \cup {g}
    /\ file' = IF g = "SIGHUP" THEN file + 1 ELSE file
    /\ UNCHANGED <<mainVars, requested, owed, served, eventVars, config_thread, pipe,
                   active, refused, flushVars, boundVars, socket>>

\* Mutant: one variable for all signals.
Awaited_Last(g, ok) == IF ok THEN {g} ELSE requested

\* The flags that are set after a request.
Awaited(g, ok) == IF ok THEN requested \cup {g} ELSE requested

\* hup_handler, user1_handler and user2_handler ask who sent the signal.  If
\* they cannot, SIGHUP is refused and the others are obeyed.
SignalHandler(g) ==
    /\ pc = "loop"
    /\ g \in pending
    /\ pending' = pending \ {g}
    /\ \/ /\ requested' = Awaited(g, TRUE)
          /\ owed' = owed + 1
          /\ UNCHANGED <<served, refused, flushVars, faults>>
       \/ /\ faults < MaxFaults
          /\ faults' = faults + 1
          /\ requested' = Awaited(g, FALSE)
          /\ served' = [served EXCEPT ![g] = sent[g]]
          /\ refused' = IF g = "SIGHUP" THEN file ELSE refused
          /\ handle_event
          /\ UNCHANGED owed
    /\ UNCHANGED <<mainVars, sent, eventVars, config_thread, pipe, file, active, events,
                   undefined, socket>>

\* The kernel sends its answer when it gets to it.
KernelAnswers ==
    /\ owed > 0
    /\ owed' = owed - 1
    /\ socket' = Append(socket, "info")
    /\ UNCHANGED <<mainVars, pending, requested, sent, served, eventVars, configVars,
                   flushVars, boundVars>>

KernelEvent ==
    /\ pc = "loop" /\ ~stop
    /\ events < MaxEvents
    /\ events' = events + 1
    /\ socket' = Append(socket, "event")
    /\ UNCHANGED <<mainVars, signalVars, eventVars, configVars, flushVars, faults, undefined>>

-----------------------------------------------------------------------------
(* netlink_handler, by what it receives into cur_event. *)

\* The buffer that is received into, a new one if there is none.
Received(b) == IF cur_event # 0 THEN b = cur_event ELSE heap[b] = Free

\* An event is logged, passed on and freed.
NetlinkEvent(b) ==
    /\ Received(b) /\ Head(socket) = "event"
    /\ handle_event
    /\ heap' = [heap EXCEPT ![b] = Free]
    /\ cur_event' = 0
    /\ UNCHANGED <<requested, served, reconfig_ev, config_thread, refused, undefined>>

\* Mutant: the buffer given to the thread is used again.
Given_Kept(b) == b

\* "cur_event = NULL": the buffer is the thread's.
Given(b) == 0

\* SIGHUP: start_config_manager, which frees the event if a thread is running;
\* the message about that is made from the freed event.
NetlinkHup(b) ==
    /\ Received(b) /\ Head(socket) = "info"
    /\ "SIGHUP" \in requested
    /\ requested' = requested \ {"SIGHUP"}
    /\ reconfig_ev' = b
    /\ cur_event' = Given(b)
    /\ \/ /\ config_thread.pc = "none"
          /\ config_thread' = [pc |-> "loading", ev |-> b]
          /\ heap' = [heap EXCEPT ![b] = Live]
          /\ UNCHANGED <<served, refused, flushVars, undefined>>
       \/ /\ config_thread.pc # "none"
          /\ heap' = [heap EXCEPT ![b] = Free]
          /\ undefined' = TRUE
          /\ refused' = file
          /\ served' = [served EXCEPT !["SIGHUP"] = sent["SIGHUP"]]
          /\ handle_event
          /\ UNCHANGED config_thread

\* SIGUSR1 comes before SIGUSR2.
Answers == IF "SIGUSR1" \in requested THEN {"SIGUSR1"} ELSE requested

\* SIGUSR1 or SIGUSR2, or an answer too many, which is dropped.
NetlinkUsr(b) ==
    /\ Received(b) /\ Head(socket) = "info"
    /\ "SIGHUP" \notin requested
    /\ requested' = requested \ Answers
    /\ served' = [g \in Signals |-> IF g \in Answers THEN sent[g] ELSE served[g]]
    /\ heap' = [heap EXCEPT ![b] = Live]
    /\ cur_event' = b
    /\ IF requested # {} THEN handle_event ELSE UNCHANGED flushVars
    /\ UNCHANGED <<reconfig_ev, config_thread, refused, undefined>>

netlink_handler ==
    /\ pc = "loop" /\ ~undefined
    /\ socket # <<>>
    /\ socket' = Tail(socket)
    /\ \E b \in 1 .. Buffers : NetlinkEvent(b) \/ NetlinkHup(b) \/ NetlinkUsr(b)
    /\ UNCHANGED <<mainVars, pending, owed, sent, pipe, file, active, events, faults>>

-----------------------------------------------------------------------------
(* The configuration thread and the pipe it reports on. *)

\* load_config: a file that is in order becomes an AUDIT_DAEMON_RECONFIG event,
\* for a bad one the event is freed.
ConfigLoads ==
    /\ config_thread.pc = "loading"
    /\ config_thread' = [pc |-> "unlocking", ev |-> 0]    \* the event is not used again
    /\ \/ /\ heap' = [heap EXCEPT ![config_thread.ev] = file]
          /\ pipe' = pipe + 6               \* "ready\n"
          /\ UNCHANGED <<refused, served, faults>>
       \/ /\ faults < MaxFaults
          /\ faults' = faults + 1
          /\ heap' = [heap EXCEPT ![config_thread.ev] = Free]
          /\ refused' = file
          /\ served' = [served EXCEPT !["SIGHUP"] = sent["SIGHUP"]]
          /\ UNCHANGED pipe
    /\ UNCHANGED <<mainVars, pending, requested, owed, sent, cur_event, reconfig_ev,
                   file, active, flushVars, events, undefined, socket>>

ConfigUnlocks ==
    /\ config_thread.pc = "unlocking"
    /\ config_thread' = [pc |-> "none", ev |-> 0]
    /\ UNCHANGED <<mainVars, signalVars, eventVars, pipe, file, active, refused, flushVars,
                   boundVars, socket>>

\* Reads up to 16 bytes and reconfigures from reconfig_ev.
pipe_handler ==
    /\ pc = "loop" /\ ~undefined
    /\ pipe > 0
    /\ pipe' = IF pipe > 16 THEN pipe - 16 ELSE 0
    /\ reconfig_ev' = 0
    /\ \/ /\ reconfig_ev # 0 /\ heap[reconfig_ev] > 0
          /\ active' = heap[reconfig_ev]
          /\ heap' = [heap EXCEPT ![reconfig_ev] = Free]
          /\ served' = [served EXCEPT !["SIGHUP"] = sent["SIGHUP"]]
          /\ handle_event
          /\ UNCHANGED undefined
       \/ /\ reconfig_ev = 0 \/ heap[reconfig_ev] <= 0
          /\ undefined' = TRUE
          /\ UNCHANGED <<active, heap, served, flushVars>>
    /\ UNCHANGED <<mainVars, pending, requested, owed, sent, cur_event, config_thread,
                   file, refused, events, faults, socket>>

-----------------------------------------------------------------------------
(* The way out. *)

\* SIGTERM; handlers of the same round of the loop still run.
term_handler ==
    /\ pc = "loop" /\ ~stop
    /\ stop' = TRUE
    /\ UNCHANGED <<pc, told, signalVars, eventVars, configVars, flushVars, boundVars,
                   socket>>

LeaveLoop ==
    /\ pc = "loop" /\ stop
    /\ pc' = "ending"
    /\ UNCHANGED <<stop, told, signalVars, eventVars, configVars, flushVars,
                   boundVars, socket>>

\* get_reply looks for the answer about SIGTERM and drops what comes before;
\* then the DAEMON_END event.
DaemonEnd ==
    /\ pc = "ending"
    /\ pc' = "closing"
    /\ \E n \in 0 .. Len(socket) : socket' = SubSeq(socket, n + 1, Len(socket))
    /\ handle_event
    /\ cur_event' = 0
    /\ heap' = IF cur_event = 0 THEN heap ELSE [heap EXCEPT ![cur_event] = Free]
    /\ UNCHANGED <<stop, told, signalVars, reconfig_ev, configVars, boundVars>>

\* close_down sets the alarm; shutdown_events nudges the flush thread, without
\* its lock, and joins it.
close_down ==
    /\ pc \in {"abort", "closing"}
    /\ pc' = "joining"
    /\ flusher' = Signalled(flusher)
    /\ UNCHANGED <<stop, told, signalVars, eventVars, configVars, async, count, flush,
                   flush_lock, boundVars, socket>>

Joined ==
    /\ pc = "joining" /\ flusher = "ended"
    /\ pc' = "exited"
    /\ told' = IF told = "nothing" THEN "failure" ELSE told
    /\ UNCHANGED <<stop, signalVars, eventVars, configVars, flushVars, boundVars, socket>>

\* alarm(5) is on from close_down to the end.
Alarm == pc = "joining"

thread_killer ==
    /\ Alarm
    /\ pc' = "exited"
    /\ UNCHANGED <<stop, told, signalVars, eventVars, configVars, flushVars,
                   boundVars, socket>>

Exited == pc = "exited" /\ UNCHANGED vars

Next ==
    \/ \E i \in 1 .. Len(Startup) : StepDone(i) \/ StepFails(i)
    \/ \E g \in Signals : Kill(g) \/ SignalHandler(g)
    \/ KernelAnswers \/ KernelEvent
    \/ netlink_handler
    \/ ConfigLoads \/ ConfigUnlocks \/ pipe_handler
    \/ term_handler \/ LeaveLoop \/ DaemonEnd \/ close_down \/ Joined \/ thread_killer
    \/ FlushThread \/ SpuriousWakeup
    \/ Exited

Spec == Init /\ [][Next]_vars

\* libev hands out every event that is pending; the threads are scheduled, the
\* kernel answers and the alarm goes off.  Nobody has to send anything.
Fairness ==
    /\ \A i \in 1 .. Len(Startup) : WF_vars(StepDone(i))
    /\ \A g \in Signals : WF_vars(SignalHandler(g))
    /\ WF_vars(KernelAnswers)
    /\ WF_vars(netlink_handler) /\ WF_vars(pipe_handler)
    /\ WF_vars(ConfigLoads) /\ WF_vars(ConfigUnlocks)
    /\ WF_vars(LeaveLoop) /\ WF_vars(DaemonEnd) /\ WF_vars(close_down)
    /\ WF_vars(Joined) /\ WF_vars(thread_killer)
    /\ WF_vars(FlushThread)

FairSpec == Spec /\ Fairness

-----------------------------------------------------------------------------
(* Properties. *)

\* The variables of auditd.c, auditd-reconfig.c and the flush thread have their
\* types.
TypeOK ==
    /\ pc \in Range(Startup) \cup {"abort", "loop", "ending", "closing", "joining", "exited"}
    /\ told \in {"nothing", "success", "failure"}
    /\ pending \subseteq Signals /\ requested \subseteq Signals
    /\ owed \in 0 .. MaxSignals
    /\ cur_event \in Ptr /\ reconfig_ev \in Ptr
    /\ \A b \in 1 .. Buffers : heap[b] \in Free .. file
    /\ config_thread.ev \in Ptr
    /\ active \in 0 .. file /\ refused \in 0 .. file
    /\ count \in 0 .. Freq - 1
    /\ flush_lock \in {"free", "flusher"}
    /\ (flusher = "locked") => (flush_lock = "flusher")

\* No handler uses an event that was freed, is null or is still being made, the
\* buffer received into is not the one the configuration thread works on, and
\* every buffer in use has a pointer to it: cur_event, reconfig_ev and the
\* argument of that thread hand events over without losing or sharing one.
EventsOwned ==
    /\ ~undefined
    /\ cur_event # 0 => heap[cur_event] = Live
    /\ cur_event # 0 => cur_event # config_thread.ev
    /\ \A b \in 1 .. Buffers :
         heap[b] # Free => b \in {cur_event, reconfig_ev, config_thread.ev}

\* There are as many answers on their way as flags waiting for one, so no
\* signal's work waits for an answer that does not come (netlink_handler takes
\* answers and flags in different orders).
AnswersSuffice ==
    LET InFlight == owed + Cardinality({i \in DOMAIN socket : socket[i] = "info"})
    IN pc = "loop" => Cardinality(requested) <= InFlight

\* The parent process, which reports how the start went, is told of success only
\* when auditd gets to its event loop, and never left waiting once it is there
\* (tell_parent).
ParentTruthful ==
    LET running == {"loop", "ending", "closing"}
    IN /\ told = "success" => pc \in running \cup {"joining", "exited"}
       /\ pc \in running => told # "nothing"

\* SIGHUP ends in the new configuration being used or refused, SIGUSR1 in a
\* rotation and SIGUSR2 in resuming, unless auditd ends first.
Obeyed == \A g \in Signals : \A n \in 1 .. MaxSignals :
    (sent[g] = n) ~> (served[g] >= n \/ stop)

\* The configuration in use, or the one refused last, is the one on disk, when
\* nothing is going on.
Current ==
    pc = "loop" /\ ~stop /\ "SIGHUP" \notin pending \cup requested
        /\ config_thread.pc = "none" /\ pipe = 0 => file \in {active, refused}

\* A flush that was asked for is followed by an fsync (handle_event and
\* flush_thread_main), unless auditd ends first.
Flushed == flush ~> (flusher = "fsync" \/ stop)

\* SIGTERM ends auditd, also if the flush thread misses its nudge, provided that
\* flush is not incremental_async.
Terminates == stop /\ ~async ~> pc = "exited"

\* The flags, the answers on their way, the report to the parent and the
\* configuration agree with each other, however signals, answers and the
\* configuration thread interleave.
Consistent == TypeOK /\ AnswersSuffice /\ ParentTruthful /\ Current

\* Every request is answered in the end: a signal by its work, a flush by an
\* fsync, SIGTERM by the end of the daemon.
Responds == Obeyed /\ Flushed /\ Terminates
=============================================================================
