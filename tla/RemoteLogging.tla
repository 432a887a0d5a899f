---------------------------- MODULE RemoteLogging ----------------------------
(***************************************************************************)
(* audisp-remote (audisp/plugins/remote/audisp-remote.c), the plugin that  *)
(* forwards events to the auditd of another machine, together with the     *)
(* connection and what that auditd does with a message                     *)
(* (src/auditd-listen.c, src/auditd-event.c).                              *)
(*                                                                         *)
(* This is the managed format over TCP in mode forward: the client sends   *)
(* one record, waits for the answer to it, and drops the record from its   *)
(* queue (RemoteQueue) when the answer, or the action configured for it,   *)
(* says so.  Its globals sock and transport_ok change together without     *)
(* Kerberos: conn is both, "none" standing for sock = -1 and               *)
(* transport_ok = 0.                                                       *)
(*                                                                         *)
(* Left out: Kerberos, the ascii format, SIGUSR1 and errors of the queue   *)
(* other than being full.                                                  *)
(***************************************************************************)
EXTENDS Integers, Sequences, FiniteSets, Functions

CONSTANTS
    Configs,            \* the configurations of interest, see ConfigType
    MaxTries,           \* max_tries_per_record
    QueueDepth,         \* queue_depth
    MaxEvents,          \* bound: audit records queued; they are numbered
    MaxMishaps,         \* bound: cut connections, late answers, failed connects,
                        \*   ends and disk problems of the server, SIGHUP and
                        \*   restarts of the client, all together
    SeqMod              \* sequence_id is kept modulo SeqMod

FailureActions == {"FA_IGNORE", "FA_SYSLOG", "FA_EXEC", "FA_WARN_ONCE_CONT",
                   "FA_WARN_ONCE", "FA_SUSPEND", "FA_RECONNECT", "FA_SINGLE",
                   "FA_HALT", "FA_STOP"}

ConfigType ==
    [network_failure : FailureActions, disk_low : FailureActions,
     disk_full : FailureActions, disk_error : FailureActions,
     remote_ending : FailureActions, startup_failure : FailureActions,
     overflow_suspends : BOOLEAN,       \* overflow_action = suspend
     heartbeat : BOOLEAN,               \* heartbeat_timeout > 0
     pipe : BOOLEAN]                    \* is_pipe(0): not when auditd starts it

ASSUME ConstantsAssumption ==
    /\ Configs \subseteq ConfigType
    /\ \A n \in {MaxTries, QueueDepth, SeqMod} : n \in Nat \ {0}
    /\ MaxEvents \in Nat /\ MaxMishaps \in Nat

VARIABLES
    config,
    queue,              \* outlives the client
    \* the client
    remote_ended, connected_once, suspend, stop, hup, warned,
    pc, ready,          \* where main is; what select reported
    relay,              \* relay_sock_managed: record, tries and where to return
    sequence_id,
    \* the connection
    conn,               \* "none", "ok", "fin" (closed by the server) or "cut"
    toServer, toClient,
    late,               \* records sent on connections closed since
    \* the server
    server, disk, log,  \* log: the records written, each where it came first
    \* the bounds: events seen so far, mishaps so far
    seen, mishaps

flags == <<remote_ended, connected_once, suspend, stop, hup, warned>>
call == <<relay, sequence_id>>
net == <<conn, toServer, toClient, late>>
peer == <<server, disk, log>>
vars == <<config, queue, flags, pc, ready, call, net, peer, seen, mishaps>>

Heartbeat == 0
Idle == [record |-> Heartbeat, tries |-> 0, back |-> "top"]

\* The globals when the program starts ("We start with remote_ended true so it
\* retries on startup").
Fresh ==
    /\ remote_ended' = TRUE /\ connected_once' = FALSE
    /\ suspend' = FALSE /\ stop' = FALSE /\ hup' = FALSE /\ warned' = {}

Init ==
    /\ config \in Configs
    /\ queue = <<>>
    /\ remote_ended = TRUE /\ connected_once = FALSE
    /\ suspend = FALSE /\ stop = FALSE /\ hup = FALSE /\ warned = {}
    /\ pc = "top" /\ ready = {}
    /\ relay = Idle /\ sequence_id = 1
    /\ conn = "none" /\ toServer = <<>> /\ toClient = <<>> /\ late = {}
    /\ server = "up" /\ disk = "ok" /\ log = <<>>
    /\ seen = 0
    /\ mishaps = 0

-----------------------------------------------------------------------------
(* Helpers of the client. *)

MayGoWrong == mishaps < MaxMishaps
GoesWrong == mishaps' = mishaps + 1

Unread == {m.record : m \in Range(toServer)} \ {Heartbeat}

\* stop_transport: what the server has not read yet may still reach it.
stop_transport ==
    /\ conn' = "none"
    /\ toServer' = <<>> /\ toClient' = <<>>
    /\ late' = late \cup Unread

\* A new connection, which the server accepts.
Connect == server = "up" /\ conn' = "ok" /\ UNCHANGED <<toServer, toClient, late>>

\* Mutant: "return 0" after the first warning of warn_once too.
Continues_Warns(action) ==
    \/ action \in {"FA_IGNORE", "FA_SYSLOG", "FA_EXEC"}
    \/ action = "FA_WARN_ONCE_CONT" /\ 1 \notin warned
    \/ action = "FA_WARN_ONCE" /\ 2 \notin warned

\* What do_action returns ...
Continues(action) ==
    \/ action \in {"FA_IGNORE", "FA_SYSLOG", "FA_EXEC"}
    \/ action = "FA_WARN_ONCE_CONT" /\ 1 \notin warned

\* ... and what it does to the flags, warned aside.
do_action(action) ==
    /\ suspend' = (suspend \/ action = "FA_SUSPEND")
    /\ stop' = (stop \/ action = "FA_STOP")

Warned(action) == CASE action = "FA_WARN_ONCE_CONT" -> warned \cup {1}
                    [] action = "FA_WARN_ONCE" -> warned \cup {2}
                    [] OTHER -> warned

NoAction == UNCHANGED <<suspend, stop, warned>>

\* The handler called for an answer of the server.
Action(type) == CASE type = "ENDING" -> config.remote_ending
                  [] type = "DISKLOW" -> config.disk_low
                  [] type = "DISKFULL" -> config.disk_full
                  [] type = "DISKERROR" -> config.disk_error
                  [] type = "ACK" -> "FA_IGNORE"

\* The answers after which the connection is closed.
Closing == {"ENDING", "DISKFULL", "DISKERROR"}

-----------------------------------------------------------------------------
(* main *)

\* The top of the loop.
LoopTop ==
    /\ pc = "top"
    /\ \/ /\ stop
          /\ pc' = "flush"
          /\ UNCHANGED <<hup, net>>
       \/ /\ ~stop /\ hup       \* reload_config
          /\ hup' = FALSE
          /\ stop_transport
          /\ pc' = "select"
       \/ /\ ~stop /\ ~hup
          /\ pc' = "select"
          /\ UNCHANGED <<hup, net>>
    /\ UNCHANGED <<config, queue, remote_ended, connected_once, suspend, stop,
                   warned, ready, call, peer, seen, mishaps>>

\* The socket is in the write set only with something to send, and is writable
\* then: at most one message is on its way.
Writable == conn # "none" /\ queue # <<>> /\ ~suspend

\* select finds something to do.  There may always be an input line; a cut
\* connection may or may not have been noticed.
SelectReady ==
    /\ pc = "select"
    /\ ready' \in SUBSET {"sock", "in", "out"} \ {{}}
    /\ "out" \in ready' <=> Writable
    /\ toClient # <<>> \/ conn = "fin" => "sock" \in ready'
    /\ toClient = <<>> /\ conn \in {"none", "ok"} => "sock" \notin ready'
    /\ pc' = "check"
    /\ UNCHANGED <<config, queue, flags, call, net, peer, seen, mishaps>>

SelectInterrupted ==
    /\ pc = "select"
    /\ hup \/ stop
    /\ pc' = "top"
    /\ UNCHANGED <<config, queue, flags, ready, call, net, peer, seen, mishaps>>

Relay(record, back) ==
    /\ relay' = [record |-> record, tries |-> 0, back |-> back]
    /\ sequence_id' = (sequence_id + 1) % SeqMod
    /\ pc' = "try"

\* heartbeat_timeout has passed and nothing is ready.
SelectTimeout ==
    /\ pc = "select"
    /\ config.heartbeat
    /\ toClient = <<>> /\ conn # "fin" /\ ~Writable
    /\ \/ ~remote_ended /\ Relay(Heartbeat, "top")
       \/ remote_ended /\ pc' = "top" /\ UNCHANGED call
    /\ UNCHANGED <<config, queue, flags, ready, net, peer, seen, mishaps>>

\* check_message.
check_message ==
    /\ pc = "check"
    /\ \/ /\ ~("sock" \in ready /\ conn # "none")
          /\ UNCHANGED <<net, remote_ended>> /\ NoAction
       \/ /\ "sock" \in ready
          /\ conn # "none" /\ toClient # <<>>
          /\ LET type == Head(toClient).type IN
             /\ do_action(Action(type))
             /\ warned' = Warned(Action(type))
             /\ remote_ended' = (remote_ended \/ type = "ENDING")
             /\ IF type \in Closing
                THEN stop_transport
                ELSE toClient' = Tail(toClient) /\ UNCHANGED <<conn, toServer, late>>
       \/ /\ "sock" \in ready
          /\ conn # "none" /\ toClient = <<>>
          /\ stop_transport
          /\ remote_ended' = (remote_ended \/ conn = "fin")
          /\ NoAction
    /\ pc' = IF hup \/ stop' THEN "top" ELSE "input"
    /\ UNCHANGED <<config, queue, connected_once, hup, ready, call, peer, seen, mishaps>>

\* Mutant: the first connection is the only one.
MayReconnect_Once == conn = "none" /\ remote_ended /\ ~connected_once

MayReconnect ==
    /\ conn = "none" /\ remote_ended
    /\ config.remote_ending = "FA_RECONNECT" \/ ~connected_once

\* init_transport when an input line is there.
Reconnect ==
    IF MayReconnect
    THEN \/ /\ Connect
            /\ remote_ended' = FALSE /\ connected_once' = TRUE
            /\ NoAction
            /\ UNCHANGED mishaps
         \/ /\ server = "down" \/ MayGoWrong
            /\ mishaps' = IF server = "down" THEN mishaps ELSE mishaps + 1
            /\ IF connected_once
               THEN NoAction
               ELSE /\ do_action(config.startup_failure)
                    /\ warned' = Warned(config.startup_failure)
            /\ UNCHANGED <<net, remote_ended, connected_once>>
    ELSE UNCHANGED <<net, remote_ended, connected_once, mishaps>> /\ NoAction

\* audit_fgets returns a line: an EOE record, of which nothing is kept, or one
\* to be queued.
InputLine ==
    /\ pc = "input"
    /\ "in" \in ready
    /\ Reconnect
    /\ \/ pc' \in {"input", "drain"}    \* audit_fgets_more
       \/ /\ seen < MaxEvents \/ Len(queue) = QueueDepth
          /\ pc' = "append"
    /\ UNCHANGED <<config, queue, hup, ready, call, peer, seen>>

\* q_append, or do_overflow_action: the record is lost and gets no number.
q_append ==
    /\ pc = "append"
    /\ \/ /\ Len(queue) < QueueDepth
          /\ seen' = seen + 1
          /\ queue' = Append(queue, seen')
          /\ UNCHANGED suspend
       \/ /\ Len(queue) = QueueDepth
          /\ suspend' = (suspend \/ config.overflow_suspends)
          /\ UNCHANGED <<queue, seen>>
    /\ pc' \in {"input", "drain"}
    /\ UNCHANGED <<config, remote_ended, connected_once, stop, hup, warned, ready,
                   call, net, peer, mishaps>>

\* audit_fgets_eof: auditd has closed its end.
InputEnds ==
    /\ pc = "input"
    /\ "in" \in ready
    /\ stop' = TRUE
    /\ pc' = "drain"
    /\ UNCHANGED <<config, queue, remote_ended, connected_once, suspend, hup, warned,
                   ready, call, net, peer, seen, mishaps>>

InputNone ==
    /\ pc = "input"
    /\ "in" \notin ready
    /\ pc' = "drain"
    /\ UNCHANGED <<config, queue, flags, ready, call, net, peer, seen, mishaps>>

\* "try to drain backlog".
Drain ==
    /\ pc = "drain"
    /\ \/ /\ "out" \in ready
          /\ conn # "none" /\ queue # <<>> /\ ~suspend /\ ~stop
          /\ Relay(Head(queue), "drain")
       \/ /\ \/ "out" \notin ready
             \/ conn = "none" \/ queue = <<>> \/ suspend \/ stop
          /\ pc' = "top"
          /\ UNCHANGED call
    /\ UNCHANGED <<config, queue, flags, ready, net, peer, seen, mishaps>>

\* "If stdin is a pipe, then flush the queue", and the end of main.
Flush ==
    /\ pc = "flush"
    /\ \/ /\ config.pipe /\ queue # <<>> /\ conn # "none"
          /\ \/ ~suspend /\ Relay(Head(queue), "flush")
             \/ suspend /\ UNCHANGED <<pc, call>>
          /\ UNCHANGED net
       \/ /\ ~config.pipe \/ queue = <<>> \/ conn = "none"
          /\ stop_transport
          /\ pc' = "exited"
          /\ UNCHANGED call
    /\ UNCHANGED <<config, queue, flags, ready, peer, seen, mishaps>>

-----------------------------------------------------------------------------
(* relay_sock_managed *)

\* send_one drops the record if relay_event did not fail.
Return(ok, action) ==
    /\ pc' = relay.back
    /\ relay' = Idle
    /\ queue' = IF ok /\ relay.record # Heartbeat THEN Tail(queue) ELSE queue
    /\ warned' = IF ok /\ relay.record # Heartbeat THEN {} ELSE Warned(action)

MayTry == relay.tries <= MaxTries

\* "return -1", whatever network_failure_handler returned.
GaveUp == FALSE

\* max_tries_per_record or max_time_per_record is exceeded.
GiveUp ==
    /\ pc = "try"
    /\ \/ ~MayTry
       \/ relay.tries > 0 /\ MayGoWrong
    /\ mishaps' = IF MayTry THEN mishaps + 1 ELSE mishaps
    /\ do_action(config.network_failure)
    /\ Return(GaveUp, config.network_failure)
    /\ UNCHANGED <<config, remote_ended, connected_once, hup, ready, sequence_id, net,
                   peer, seen>>

\* A try: connect if need be.
Try ==
    /\ pc = "try"
    /\ MayTry
    /\ relay' = [relay EXCEPT !.tries = @ + 1]
    /\ \/ /\ conn # "none"
          /\ pc' = "send"
          /\ UNCHANGED <<net, remote_ended, mishaps>>
       \/ /\ conn = "none"
          /\ Connect
          /\ pc' = "send"
          /\ UNCHANGED <<remote_ended, mishaps>>
       \/ /\ conn = "none"
          /\ server = "down" \/ MayGoWrong
          /\ mishaps' = IF server = "down" THEN mishaps ELSE mishaps + 1
          /\ remote_ended' \in {remote_ended, TRUE}     \* ET_TEMPORARY or not
          /\ UNCHANGED <<pc, net>>
    /\ UNCHANGED <<config, queue, connected_once, suspend, stop, hup, warned, ready,
                   sequence_id, peer, seen>>

\* send_msg_tcp: what is written to a broken connection fails or is lost.
Send ==
    /\ pc = "send"
    /\ \/ /\ conn = "ok"
          /\ toServer' = Append(toServer, [record |-> relay.record, seq |-> sequence_id])
          /\ pc' = "recv"
          /\ UNCHANGED <<conn, toClient, late>>
       \/ conn # "ok" /\ pc' = "recv" /\ UNCHANGED net
       \/ conn # "ok" /\ pc' = "try" /\ stop_transport
    /\ UNCHANGED <<config, queue, flags, ready, call, peer, seen, mishaps>>

\* Mutant: the connection is used again.
Abandon_Not == UNCHANGED net

\* The connection, after an answer that did not come.
Abandon == stop_transport

\* recv_msg_tcp fails: the end of the connection, or no answer in time.
RecvFails ==
    /\ pc = "recv"
    /\ toClient = <<>>
    /\ conn # "ok" \/ MayGoWrong
    /\ mishaps' = IF conn = "ok" THEN mishaps + 1 ELSE mishaps
    /\ remote_ended' = (remote_ended \/ conn = "fin")
    /\ Abandon
    /\ pc' = "try"
    /\ UNCHANGED <<config, queue, connected_once, suspend, stop, hup, warned, ready,
                   call, peer, seen>>

\* The answer is to this message; an ENDING need not be.
Answered(m) == m.type = "ENDING" \/ m.seq = sequence_id

\* The answer is read.
RecvAnswer ==
    /\ pc = "recv"
    /\ toClient # <<>>
    /\ LET m == Head(toClient)
           action == Action(m.type)
       IN
       \/ /\ Answered(m)
          /\ do_action(action)
          /\ Return(Continues(action), action)
          /\ remote_ended' = (remote_ended \/ m.type = "ENDING")
          /\ IF m.type \in Closing
             THEN stop_transport
             ELSE toClient' = Tail(toClient) /\ UNCHANGED <<conn, toServer, late>>
       \/ /\ ~Answered(m)       \* sync_error_handler
          /\ stop_transport
          /\ pc' = "try"
          /\ UNCHANGED <<queue, relay, remote_ended, suspend, stop, warned>>
    /\ UNCHANGED <<config, connected_once, hup, ready, sequence_id, peer, seen, mishaps>>

-----------------------------------------------------------------------------
(* Signals, and the end of the process at any point. *)

hup_handler ==
    /\ MayGoWrong
    /\ pc # "exited"
    /\ GoesWrong
    /\ hup' = TRUE
    /\ UNCHANGED <<config, queue, remote_ended, connected_once, suspend, stop, warned,
                   pc, ready, call, net, peer, seen>>

user2_handler ==
    /\ suspend
    /\ suspend' = FALSE
    /\ UNCHANGED <<config, queue, remote_ended, connected_once, stop, hup, warned,
                   pc, ready, call, net, peer, seen, mishaps>>

term_handler ==
    /\ pc # "exited" /\ ~stop
    /\ MayGoWrong
    /\ stop' = TRUE
    /\ UNCHANGED <<config, queue, remote_ended, connected_once, suspend, hup, warned,
                   pc, ready, call, net, peer, seen, mishaps>>

Crash ==
    /\ pc # "exited"
    /\ MayGoWrong
    /\ pc' = "exited"
    /\ stop_transport
    /\ UNCHANGED <<config, queue, flags, ready, call, peer, seen, mishaps>>

\* auditd starts the plugin again.
Restart ==
    /\ pc = "exited"
    /\ MayGoWrong
    /\ GoesWrong
    /\ pc' = "top" /\ ready' = {} /\ relay' = Idle /\ sequence_id' = 1
    /\ Fresh
    /\ UNCHANGED <<config, queue, net, peer, seen>>

-----------------------------------------------------------------------------
(* The server and the network. *)

Writes == disk \in {"ok", "low"}
Logged(record) == IF Writes /\ record \notin Range(log) THEN Append(log, record) ELSE log

\* client_message: a heartbeat is answered, a record goes through handle_event
\* and write_to_log, which answer after the write.
client_message ==
    /\ server = "up" /\ conn = "ok"
    /\ toServer # <<>>
    /\ LET m == Head(toServer)
           type == IF m.record = Heartbeat
                   THEN "ACK"
                   ELSE CASE disk = "ok" -> "ACK" [] disk = "low" -> "DISKLOW"
                          [] disk = "full" -> "DISKFULL" [] disk = "error" -> "DISKERROR"
       IN /\ toClient' = Append(toClient, [type |-> type, seq |-> m.seq])
          /\ log' = IF m.record = Heartbeat THEN log ELSE Logged(m.record)
    /\ toServer' = Tail(toServer)
    /\ UNCHANGED <<config, queue, flags, pc, ready, call, conn, late, server, disk,
                   seen, mishaps>>

\* The same for a record on a connection the client has closed: nobody is there
\* to be answered.
LateMessage ==
    /\ server = "up"
    /\ \E record \in late :
          /\ log' = Logged(record)
          /\ late' = late \ {record}
    /\ UNCHANGED <<config, queue, flags, pc, ready, call, conn, toServer, toClient,
                   server, disk, seen, mishaps>>

\* auditd_tcp_listen_uninit: ENDING to the client, and its socket is closed.
listen_uninit ==
    /\ server = "up"
    /\ MayGoWrong
    /\ GoesWrong
    /\ server' = "down"
    /\ IF conn = "ok"
       THEN /\ toClient' = Append(toClient, [type |-> "ENDING", seq |-> 0])
            /\ conn' = "fin"
       ELSE UNCHANGED <<toClient, conn>>
    /\ toServer' = <<>> /\ late' = {}
    /\ UNCHANGED <<config, queue, flags, pc, ready, call, disk, log, seen>>

ServerStarts ==
    /\ server = "down"
    /\ server' = "up"
    /\ UNCHANGED <<config, queue, flags, pc, ready, call, net, disk, log, seen, mishaps>>

DiskTrouble ==
    /\ disk = "ok"
    /\ MayGoWrong
    /\ GoesWrong
    /\ disk' \in {"low", "full", "error"}
    /\ UNCHANGED <<config, queue, flags, pc, ready, call, net, server, log, seen>>

DiskRepaired ==
    /\ disk # "ok"
    /\ disk' = "ok"
    /\ UNCHANGED <<config, queue, flags, pc, ready, call, net, server, log, seen, mishaps>>

\* The connection breaks; answers that have arrived may be lost with it.
NetworkFault ==
    /\ conn \in {"ok", "fin"}
    /\ MayGoWrong
    /\ GoesWrong
    /\ conn' = "cut"
    /\ toClient' \in {toClient, <<>>}
    /\ toServer' = <<>>
    /\ late' = late \cup Unread
    /\ UNCHANGED <<config, queue, flags, pc, ready, call, peer, seen>>

ClientStep ==
    \/ LoopTop
    \/ SelectReady
    \/ SelectInterrupted
    \/ SelectTimeout
    \/ check_message
    \/ InputLine
    \/ q_append
    \/ InputNone
    \/ Drain
    \/ Flush
    \/ GiveUp
    \/ Try
    \/ Send
    \/ RecvFails
    \/ RecvAnswer

Environment ==
    \/ InputEnds
    \/ hup_handler
    \/ user2_handler
    \/ term_handler
    \/ Crash
    \/ Restart
    \/ client_message
    \/ LateMessage
    \/ listen_uninit
    \/ ServerStarts
    \/ DiskTrouble
    \/ DiskRepaired
    \/ NetworkFault

Next == ClientStep \/ Environment

Spec == Init /\ [][Next]_vars

\* The processes run; records, if only EOE ones, keep arriving, with pauses
\* long enough for a heartbeat; the server comes back, its disk is repaired and
\* the administrator resumes a suspended client.
FairSpec ==
    /\ Spec
    /\ WF_vars(ClientStep)
    /\ WF_vars(client_message)
    /\ SF_vars(InputLine /\ pc' = "drain")
    /\ SF_vars(SelectReady /\ "in" \in ready')
    /\ SF_vars(SelectTimeout)
    /\ WF_vars(ServerStarts)
    /\ WF_vars(DiskRepaired)
    /\ WF_vars(user2_handler)

-----------------------------------------------------------------------------
(* Properties. *)

\* The variables of audisp-remote.c have their types.
TypeOK ==
    /\ config \in Configs
    /\ queue \in Seq(1 .. MaxEvents) /\ Len(queue) <= QueueDepth
    /\ {remote_ended, connected_once, suspend, stop, hup} \subseteq BOOLEAN
    /\ warned \subseteq {1, 2}
    /\ pc \in {"top", "select", "check", "input", "append", "drain", "flush",
               "try", "send", "recv", "exited"}
    /\ ready \subseteq {"sock", "in", "out"}
    /\ relay \in [record : 0 .. MaxEvents, tries : 0 .. MaxTries + 1,
                  back : {"top", "drain", "flush"}]
    /\ sequence_id \in 0 .. SeqMod
    /\ conn \in {"none", "ok", "fin", "cut"}
    /\ toServer \in Seq([record : 0 .. MaxEvents, seq : 0 .. SeqMod])
    /\ toClient \in Seq([type : Closing \cup {"ACK", "DISKLOW"}, seq : 0 .. SeqMod])
    /\ late \subseteq 1 .. MaxEvents
    /\ server \in {"up", "down"} /\ disk \in {"ok", "low", "full", "error"}
    /\ log \in Seq(1 .. MaxEvents)
    /\ seen \in 0 .. MaxEvents

\* The actions with which, by audisp-remote.conf(5), a record the server has not
\* written is not dequeued.
Keeps(c) == \A a \in {c.network_failure, c.disk_full, c.disk_error, c.remote_ending} :
    a \notin {"FA_IGNORE", "FA_SYSLOG", "FA_EXEC", "FA_WARN_ONCE_CONT"}

\* Delivery at least once: with such a configuration, send_one drops a record
\* from the queue only after the server has written it, whatever is cut, late,
\* duplicated or restarted.
DropsOnlyWritten ==
    [][Keeps(config) /\ queue # <<>> /\ queue' = Tail(queue)
         => Head(queue) \in Range(log)]_vars

\* The server gets the records in their order: when one is written for the
\* first time, those queued before it have been written.
InOrder ==
    Keeps(config) =>
       /\ \A i, j \in DOMAIN log : i < j => log[i] < log[j]
       /\ \A i \in DOMAIN queue, j \in DOMAIN log :
             queue[i] < log[j] => queue[i] \in Range(log)

\* "mismatched response" never happens: the client is never more than one
\* message ahead of the answers, so an answer other than ENDING is for the
\* message it has just sent, and none is left over for check_message.
AnswersMatch ==
    /\ Len(toServer) + Cardinality({i \in DOMAIN toClient : toClient[i].type # "ENDING"}) <= 1
    /\ toClient # <<>> /\ Head(toClient).type # "ENDING" =>
          pc = "recv" /\ Head(toClient).seq = sequence_id

\* A record that finds the queue full and suspends the client.
Overflows == pc = "append" /\ Len(queue) = QueueDepth /\ config.overflow_suspends

\* With a heartbeat, a queued record is written by the server in the end, unless
\* the client is told to stop, its process ends or the queue goes on overflowing
\* with an action that suspends: a lost connection, a server that was away and a
\* suspension are all overcome, after a restart as before.
Sent == \A e \in 1 .. MaxEvents :
    config.heartbeat /\ e \in Range(queue) ~>
        e \in Range(log) \/ stop \/ pc = "exited" \/ Overflows

\* Delivery at least once and in order, whatever is cut, late, duplicated or
\* restarted: a record leaves the queue only when the server has it, and is not
\* written before those queued earlier.
AtLeastOnce == [](TypeOK /\ InOrder) /\ DropsOnlyWritten

\* What audisp-remote.conf(5) says of network_failure_action ignore, syslog and
\* exec: "If an event was sent, its dequeued."  relay_sock_managed returns -1
\* whatever network_failure_handler returned, and send_one keeps the record.
GivenUpIsDequeued ==
    [][GiveUp /\ Continues(config.network_failure)
         /\ relay.record # Heartbeat /\ relay.record \in late \cup Range(log)
         => queue' = Tail(queue)]_vars
=============================================================================
