------------------------------- MODULE Listener -------------------------------
(***************************************************************************)
(* The TCP listener of auditd (src/auditd-listen.c): connections and their *)
(* limits, the framing of messages in a stream that read cuts anywhere,    *)
(* answers, idle clients, SIGHUP and the end of the daemon.                *)
(*                                                                         *)
(* The handlers run one at a time in libev's loop.  The clients run beside *)
(* them, so the loop of the client handler is cut at each read and at each *)
(* message it finds.                                                       *)
(*                                                                         *)
(* Bytes are grouped into units.  The header of a managed message is m1    *)
(* and m2, the two halves of the magic number, and hd (hb for a heartbeat) *)
(* with length and sequence number; tok is the length in front of a GSS    *)
(* token.  A unit is <<kind, number of the message, length or index>>.     *)
(*                                                                         *)
(* An event is logged and answered in the step that passes it on (the way  *)
(* of an event through the log is EventLog's).                             *)
(* Left out: answers that do not fit the socket's buffer, the newline that *)
(* may end a record, the steps of the Kerberos negotiation.                *)
(***************************************************************************)
EXTENDS Integers, Sequences, FiniteSets, SequencesExt

CONSTANTS
    Conns,          \* the connections clients may make, numbered from 1
    Addr,           \* [Conns -> addresses]
    Port,           \* [Conns -> ports]
    Denied,         \* addresses tcp_wrappers refuses
    MAX,            \* MAX_AUDIT_MESSAGE_LENGTH, in units
    Worlds          \* what may happen, a sequence, one of them in each behaviour:
                    \*   transport  "T_TCP" or "T_KRB5"
                    \*   configs    of [max_per_addr, max_idle, ports, use_libwrap]
                    \*   conns      the connections that are made
                    \*   messages   what a client may send: [kind, len]
                    \*   sent       bound: messages, of all connections
                    \*   ticks      bound: calls of periodic_handler
                    \*   hups       bound: SIGHUPs

ASSUME ListenerAssumption ==
    /\ Conns \subseteq Nat \ {0} /\ IsFiniteSet(Conns)
    /\ MAX \in Nat /\ MAX >= 3
    /\ \A w \in Range(Worlds) :
         /\ w.transport \in {"T_TCP", "T_KRB5"} /\ w.conns \subseteq Conns
         /\ \A f \in w.configs : f.max_per_addr \in Nat \ {0}    \* tcp_max_per_addr_parser
         /\ \A m \in w.messages : m.kind \in {"event", "heartbeat", "line", "token"} /\ m.len \in Nat

HEADER == 3                     \* AUDIT_RMW_HEADER_SIZE, in units
NUL == <<"nul", 0, 0>>
Garbage == <<"hd", 0, 0>>

Body(kind, n, len) == [i \in 1 .. len |-> <<kind, n, i>>]

\* What a client puts into its socket for message n of the connection.
Units(m, n) ==
    CASE m.kind = "event" ->
           <<<<"m1", n, 0>>, <<"m2", n, 0>>, <<"hd", n, m.len>>>> \o Body("b", n, m.len)
      [] m.kind = "heartbeat" ->
           <<<<"m1", n, 0>>, <<"m2", n, 0>>, <<"hb", n, m.len>>>> \o Body("b", n, m.len)
      [] m.kind = "line" -> Append(Body("c", n, m.len), <<"LF", n, 0>>)
      [] m.kind = "token" -> <<<<"tok", n, m.len>>>> \o Body("b", n, m.len)

VARIABLES
    transport, config,
    listening,      \* nlsocks > 0
    chain,          \* client_chain: [head, next, prev], 0 for a null pointer
    conn,           \* "none", "pending", "open" (the daemon has its fd), "closed"
    buffer, bufptr, client_active,
    io, step,       \* the connection whose handler runs (0: none) and where
    r, total_this_call,
    \* the other ends
    wire,           \* sent and not yet read
    peer,           \* "up", "fin", "reset"
    sent,           \* messages sent
    \* what came of it
    logged,         \* records passed to distribute_event, per connection
    answers,        \* per connection
    quiet,          \* whole periods without a call of the client's handler
    ticks, hups,
    world           \* the number of the world

vars == <<transport, config, listening, chain, conn, buffer, bufptr, client_active, io,
          step, r, total_this_call, wire, peer, sent, logged, answers, quiet, ticks, hups,
          world>>
network == <<wire, peer, sent>>
handler == <<io, step, r, total_this_call>>
client == <<buffer, bufptr, client_active>>
results == <<logged, answers>>
setup == <<transport, config, listening, ticks, hups, world>>

World == Worlds[world]
Ptr == Conns \cup {0}
NoClients == [head |-> 0, next |-> [c \in Conns |-> 0], prev |-> [c \in Conns |-> 0]]

\* auditd_tcp_listen_init got a socket.
Init ==
    /\ world \in DOMAIN Worlds
    /\ transport = World.transport /\ config \in World.configs /\ listening = TRUE
    /\ chain = NoClients
    /\ conn = [c \in Conns |-> "none"]
    /\ buffer = [c \in Conns |-> [i \in 1 .. MAX + 1 |-> NUL]]
    /\ bufptr = [c \in Conns |-> 0]
    /\ client_active = [c \in Conns |-> FALSE]
    /\ io = 0 /\ step = "loop" /\ r = 0 /\ total_this_call = 0
    /\ wire = [c \in Conns |-> <<>>] /\ peer = [c \in Conns |-> "up"]
    /\ sent = [c \in Conns |-> <<>>]
    /\ logged = [c \in Conns |-> <<>>] /\ answers = [c \in Conns |-> <<>>]
    /\ quiet = [c \in Conns |-> 0] /\ ticks = 0 /\ hups = 0

-----------------------------------------------------------------------------
(* The list of clients. *)

\* The list in its order; a list with a cycle is followed for a while only.
Walk(l) ==
    LET walk[k \in 0 .. Cardinality(Conns)] ==
          IF k = 0 THEN (IF l.head = 0 THEN <<>> ELSE <<l.head>>)
          ELSE LET w == walk[k - 1]
               IN IF w = <<>> \/ l.next[w[Len(w)]] = 0 THEN w ELSE Append(w, l.next[w[Len(w)]])
    IN walk[Cardinality(Conns)]
Clients == Walk(chain)

\* A new client goes to the front.
Linked(l, c) ==
    [head |-> c,
     next |-> [l.next EXCEPT ![c] = l.head],
     prev |-> [k \in Conns |-> IF k = c THEN 0 ELSE IF k = l.head THEN c ELSE l.prev[k]]]

Unlinked_NoPrev(l, c) ==
    [l EXCEPT !.head = IF l.head = c THEN l.next[c] ELSE l.head,
              !.next = [k \in Conns |->
                          IF k = l.prev[c] THEN l.next[c] ELSE l.next[k]]]
Unlinked(l, c) ==
    [head |-> IF l.head = c THEN l.next[c] ELSE l.head,
     next |-> [k \in Conns |-> IF k = l.prev[c] THEN l.next[c] ELSE l.next[k]],
     prev |-> [k \in Conns |-> IF k = l.next[c] THEN l.prev[c] ELSE l.prev[k]]]

\* release_client for each of cs that is in gone, in the order of cs.
Without(l, cs, gone) ==
    LET after[k \in 0 .. Len(cs)] ==
          IF k = 0 THEN l
          ELSE IF cs[k] \in gone THEN Unlinked(after[k - 1], cs[k]) ELSE after[k - 1]
    IN after[Len(cs)]
Released(cs, gone) ==
    /\ chain' = Without(chain, cs, gone)
    /\ conn' = [c \in Conns |-> IF c \in gone THEN "closed" ELSE conn[c]]

-----------------------------------------------------------------------------
(* Connections. *)

check_num_connections(a) ==
    Cardinality({i \in DOMAIN Clients : Addr[Clients[i]] = a}) >= config.max_per_addr

\* Wrappers, port, number of connections; then malloc and the negotiation.
Refused(c) ==
    \/ config.use_libwrap /\ Addr[c] \in Denied
    \/ Port[c] \notin config.ports
    \/ check_num_connections(Addr[c])

StartsActive == TRUE

auditd_tcp_listen_handler(c) ==
    /\ step = "loop" /\ listening /\ conn[c] = "pending"
    /\ \E ok \in BOOLEAN :
         IF Refused(c) \/ ~ok
           THEN /\ conn' = [conn EXCEPT ![c] = "closed"]
                /\ UNCHANGED <<chain, client_active>>
           ELSE /\ conn' = [conn EXCEPT ![c] = "open"]
                /\ chain' = Linked(chain, c)
                /\ client_active' = [client_active EXCEPT ![c] = StartsActive]
    /\ UNCHANGED <<setup, network, handler, results, buffer, bufptr, quiet>>

\* Unless config->tcp_client_max_idle is 0, in which case the timer is off.
periodic_handler ==
    /\ step = "loop" /\ listening /\ config.max_idle # 0 /\ ticks < World.ticks
    /\ Released(Clients, {c \in Range(Clients) : ~client_active[c]})
    /\ client_active' = [c \in Conns |-> client_active[c] /\ c \notin Range(Clients)]
    /\ quiet' = [c \in Conns |-> IF conn[c] = "open" THEN quiet[c] + 1 ELSE quiet[c]]
    /\ ticks' = ticks + 1
    /\ UNCHANGED <<transport, config, listening, hups, world, network, handler, results,
                   buffer, bufptr>>

\* SIGHUP: limits and timer are changed, port and queue of the socket are not.
auditd_tcp_listen_reconfigure ==
    /\ step = "loop" /\ listening /\ hups < World.hups
    /\ config' \in World.configs
    /\ hups' = hups + 1
    /\ UNCHANGED <<transport, listening, chain, conn, client, handler, network, results,
                   quiet, ticks, world>>

\* The end of the daemon: every client is told and closed.
auditd_tcp_listen_uninit ==
    /\ step = "loop" /\ listening
    /\ listening' = FALSE
    /\ answers' = [c \in Conns |-> IF c \in Range(Clients)
                                     THEN Append(answers[c], [type |-> "ENDING", seq |-> 0])
                                     ELSE answers[c]]
    /\ Released(Clients, Range(Clients))
    /\ transport' = "T_TCP"
    /\ UNCHANGED <<config, client, handler, network, logged, quiet, ticks, hups, world>>

-----------------------------------------------------------------------------
(* Messages. *)

IsMagic(b, n) == n >= 2 /\ b[1][1] = "m1" /\ b[2][1] = "m2"

\* The string that starts at b[from], when position n + 1 is made a NUL.
StringAt(b, from, n) ==
    LET c == [b EXCEPT ![n + 1] = NUL]
        end == CHOOSE i \in from .. MAX + 2 :
                 /\ i = MAX + 2 \/ c[i] = NUL
                 /\ \A j \in from .. i - 1 : c[j] # NUL
    IN SubSeq(c, from, end - 1)

\* client_message with n units: header and text are taken from the buffer even
\* where n does not cover them.  A message without the magic number is dropped.
client_message(c, b, n) ==
    IF ~IsMagic(b, n) THEN UNCHANGED <<logged, answers>>
    ELSE LET hd == IF b[3][1] \in {"hd", "hb"} THEN b[3] ELSE Garbage
         IN /\ answers' = [answers EXCEPT ![c] = Append(@, [type |-> "ACK", seq |-> hd[2]])]
            /\ logged' = IF hd[1] = "hb" THEN logged
                         ELSE [logged EXCEPT ![c] = Append(@, StringAt(b, HEADER + 1, n))]

\* The handler returns to the loop.
Return == io' = 0 /\ step' = "loop" /\ r' = 0 /\ total_this_call' = 0

CallHandler(c) ==
    /\ step = "loop" /\ listening /\ conn[c] = "open"
    /\ wire[c] # <<>> \/ peer[c] # "up"
    /\ io' = c /\ step' = "read" /\ r' = 0 /\ total_this_call' = 0
    /\ client_active' = [client_active EXCEPT ![c] = TRUE]
    /\ quiet' = [quiet EXCEPT ![c] = 0]
    /\ UNCHANGED <<setup, chain, conn, buffer, bufptr, network, results>>

\* read returns some of what is there.
ReadSome ==
    /\ step = "read" /\ peer[io] # "reset"
    /\ \E k \in 1 .. Len(wire[io]) :
         /\ k <= MAX - bufptr[io]
         /\ buffer' = [buffer EXCEPT ![io] = [i \in 1 .. MAX + 1 |->
                         IF i - bufptr[io] \in 1 .. k THEN wire[io][i - bufptr[io]]
                         ELSE buffer[io][i]]]
         /\ wire' = [wire EXCEPT ![io] = SubSeq(@, k + 1, Len(@))]
         /\ r' = k /\ total_this_call' = total_this_call + k
    /\ step' = "more"
    /\ UNCHANGED <<setup, chain, conn, bufptr, client_active, io, peer, sent, results, quiet>>

\* read returns 0 after it has returned some: EAGAIN, what is on the wire has not
\* arrived yet, or the end.
ReadAll ==
    /\ step = "read" /\ peer[io] # "reset" /\ total_this_call > 0
    /\ Return
    /\ UNCHANGED <<setup, chain, conn, client, network, results, quiet>>

FinalMessage(c) ==
    IF bufptr[c] = 0 THEN UNCHANGED <<logged, answers>>
    ELSE client_message(c, buffer[c], bufptr[c])

\* The first read returns 0, as it does also if there is no room, or any read
\* fails: what is in the buffer is the last message.
ReadEnds ==
    /\ step = "read"
    /\ \/ peer[io] = "reset"
       \/ total_this_call = 0 /\ (wire[io] = <<>> \/ bufptr[io] = MAX)
    /\ FinalMessage(io)
    /\ Released(<<io>>, {io})
    /\ Return
    /\ UNCHANGED <<setup, client, network, quiet>>

-----------------------------------------------------------------------------
(* Finding messages in the buffer. *)

\* In each case the n units of b hold, at their beginning, a message of so many
\* units; 0 if none is complete.  old of them were looked at before.
TokenSize(b, n) ==
    IF n < 1 \/ b[1][1] # "tok" \/ b[1][3] > MAX \/ n < 1 + b[1][3] THEN 0 ELSE 1 + b[1][3]
ManagedSize(b, n) ==
    IF n < HEADER \/ b[3][3] > MAX \/ n < HEADER + b[3][3] THEN 0 ELSE HEADER + b[3][3]
LineSize_Old(b, old, n) ==
    IF \E i \in old + 2 .. n : b[i][1] = "LF"
      THEN CHOOSE i \in old + 2 .. n : b[i][1] = "LF" /\ \A j \in old + 2 .. i - 1 : b[j][1] # "LF"
      ELSE 0
LineSize(b, old, n) ==
    IF \E i \in old + 1 .. n : b[i][1] = "LF"
      THEN CHOOSE i \in old + 1 .. n : b[i][1] = "LF" /\ \A j \in old + 1 .. i - 1 : b[j][1] # "LF"
      ELSE 0

MessageSize(b, old, n) ==
    CASE transport = "T_KRB5" -> TokenSize(b, n)
      [] transport = "T_TCP" /\ IsMagic(b, n) -> ManagedSize(b, n)
      [] OTHER -> LineSize(b, old, n)

\* A token is unwrapped, which may fail, to one record and its header.
UnwrapToken(c, b) ==
    \/ UNCHANGED <<logged, answers>>
    \/ /\ logged' = [logged EXCEPT ![c] = Append(@, Body("b", b[1][2], b[1][3]))]
       /\ answers' = [answers EXCEPT ![c] = Append(@, [type |-> "ACK", seq |-> b[1][2]])]

\* memmove of what follows the first i of n units.
Moved_Short(b, i, n) == [k \in 1 .. MAX + 1 |-> IF k < n - i THEN b[k + i] ELSE b[k]]
Moved(b, i, n) == [k \in 1 .. MAX + 1 |-> IF k <= n - i THEN b[k + i] ELSE b[k]]

\* One round of more_messages.
MoreMessages ==
    /\ step = "more"
    /\ LET b == buffer[io]
           n == bufptr[io] + r
           i == MessageSize(b, bufptr[io], n)
       IN IF i = 0
          THEN /\ bufptr' = [bufptr EXCEPT ![io] = n]
               /\ Return
               /\ UNCHANGED <<buffer, results>>
          ELSE /\ IF transport = "T_KRB5" THEN UnwrapToken(io, b) ELSE client_message(io, b, i)
               /\ buffer' = [buffer EXCEPT ![io] = Moved(b, i, n)]
               /\ bufptr' = [bufptr EXCEPT ![io] = 0]
               /\ r' = n - i
               /\ step' = IF n > i THEN "more" ELSE "read"
               /\ UNCHANGED <<io, total_this_call>>
    /\ UNCHANGED <<setup, chain, conn, client_active, network, quiet>>

-----------------------------------------------------------------------------
(* The clients. *)

Connect(c) ==
    /\ conn[c] = "none" /\ listening /\ c \in World.conns
    /\ conn' = [conn EXCEPT ![c] = "pending"]
    /\ UNCHANGED <<setup, chain, client, handler, network, results, quiet>>

Send(c, m) ==
    /\ conn[c] = "open" /\ peer[c] = "up" /\ Len(FlattenSeq(sent)) < World.sent
    /\ sent' = [sent EXCEPT ![c] = Append(@, m)]
    /\ wire' = [wire EXCEPT ![c] = @ \o Units(m, Len(sent[c]) + 1)]
    /\ UNCHANGED <<setup, chain, conn, client, handler, peer, results, quiet>>

\* A client that ends may have sent a part of its last message only.
CloseOrReset(c) ==
    /\ conn[c] = "open" /\ peer[c] = "up"
    /\ \/ /\ peer' = [peer EXCEPT ![c] = "fin"]
          /\ \E k \in 0 .. Len(wire[c]) : wire' = [wire EXCEPT ![c] = SubSeq(@, 1, k)]
       \/ /\ peer' = [peer EXCEPT ![c] = "reset"]
          /\ wire' = [wire EXCEPT ![c] = <<>>]
    /\ UNCHANGED <<setup, chain, conn, client, handler, sent, results, quiet>>

ClientHandler == ReadSome \/ ReadAll \/ ReadEnds \/ MoreMessages

Next ==
    \/ \E c \in Conns : Connect(c) \/ CloseOrReset(c) \/ \E m \in World.messages : Send(c, m)
    \/ \E c \in Conns : auditd_tcp_listen_handler(c) \/ CallHandler(c)
    \/ ClientHandler
    \/ periodic_handler
    \/ auditd_tcp_listen_reconfigure
    \/ auditd_tcp_listen_uninit

Spec == Init /\ [][Next]_vars

\* libev calls the handler of every socket that has something, and the handler
\* itself goes on.
FairSpec == Spec /\ WF_vars(ClientHandler) /\ \A c \in Conns : SF_vars(CallHandler(c))

-----------------------------------------------------------------------------
(* Properties. *)

\* The variables of auditd-listen.c have their types, and a read never goes past
\* the end of a client's buffer.
TypeOK ==
    /\ transport \in {"T_TCP", "T_KRB5"} /\ config \in World.configs
    /\ chain.head \in Ptr /\ chain.next \in [Conns -> Ptr] /\ chain.prev \in [Conns -> Ptr]
    /\ conn \in [Conns -> {"none", "pending", "open", "closed"}]
    /\ bufptr \in [Conns -> 0 .. MAX]
    /\ io \in Ptr /\ step \in {"loop", "read", "more"} /\ (step = "loop") = (io = 0)
    /\ r \in 0 .. MAX /\ \A c \in Conns : bufptr[c] + r <= MAX \/ c # io
    /\ peer \in [Conns -> {"up", "fin", "reset"}]

\* client_chain links exactly the connections whose descriptor auditd has open,
\* each once, also after clients were released from its front, its middle or
\* its end by any of the three handlers that do so: none is leaked and none
\* used after it was freed.
ChainIsOpen ==
    /\ Range(Clients) = {c \in Conns : conn[c] = "open"}
    /\ IsInjective(Clients)
    /\ \A i \in DOMAIN Clients : chain.prev[Clients[i]] = IF i = 1 THEN 0 ELSE Clients[i - 1]

\* An address has no more connections than tcp_max_per_addr, as long as SIGHUP
\* does not lower it (check_num_connections).
PerAddress ==
    hups = 0 => \A a \in Range(Addr) :
        Cardinality({c \in Conns : conn[c] = "open" /\ Addr[c] = a}) <= config.max_per_addr

\* The records and the answers that the messages of s call for, if they are
\* framed as they were sent.
Numbered(s) == [n \in DOMAIN s |-> [m |-> s[n], n |-> n]]
Records(s) ==
    LET e == SelectSeq(Numbered(s), LAMBDA x : x.m.kind \in {"event", "token"})
    IN [i \in DOMAIN e |-> Body("b", e[i].n, e[i].m.len)]
Acks(s) ==
    LET e == SelectSeq(Numbered(s), LAMBDA x : x.m.kind # "line")
    IN [i \in DOMAIN e |-> [type |-> "ACK", seq |-> e[i].n]]

\* However the stream is cut into reads, an open connection has logged the first
\* so many of the records sent on it, whole and in order, and answered the
\* messages one by one (auditd_tcp_client_handler).  Of GSS tokens those that
\* cannot be unwrapped are missing.
Framed ==
    \A c \in Conns : conn[c] = "open" =>
        IF World.transport = "T_TCP"
          THEN /\ IsPrefix(logged[c], Records(sent[c]))
               /\ IsPrefix(answers[c], Acks(sent[c]))
          ELSE /\ Range(logged[c]) \subseteq Range(Records(sent[c]))
               /\ \A i, j \in DOMAIN logged[c] :
                     i < j => logged[c][i][1][2] < logged[c][j][1][2]

\* The log ends with a part of a record.
Cut(c) == \E n \in DOMAIN sent[c] : \E k \in 0 .. sent[c][n].len :
    IsPrefix(logged[c], Append(Records(SubSeq(sent[c], 1, n - 1)), Body("b", n, k)))

\* What is logged of a connection that was closed is that, and perhaps a part of
\* one more record, the one it was cut in.  This does not hold if it was cut in
\* a header: client_message then takes the rest from what is left in the buffer.
Truthful ==
    World.transport = "T_TCP" => \A c \in Conns :
        \/ logged[c] = <<>> \/ bufptr[c] \in 1 .. HEADER - 1
        \/ IsPrefix(logged[c], Records(sent[c])) \/ Cut(c)

\* A client is closed for being idle only if for a whole period nothing came
\* from it (client_active, tcp_client_max_idle).
IdleMeansIdle ==
    [][\A c \in Conns : ticks' > ticks /\ conn[c] = "open" /\ conn'[c] = "closed"
         => quiet[c] >= 1]_vars

\* What a client has sent is read, or its connection is closed, unless the
\* daemon ends: no message waits in the buffer for the next one.
Handled == \A c \in Conns :
    (conn[c] = "open" /\ transport = "T_TCP")
        ~> (conn[c] = "closed" \/ Len(answers[c]) = Len(Acks(sent[c])))

\* client_chain and the buffers in it are well formed, link exactly the open
\* connections, and no address has more of them than it may.
ClientsSound == TypeOK /\ ChainIsOpen /\ PerAddress

\* What is logged of a connection is what was sent on it, however the stream is
\* cut into reads and wherever it ends.
RecordsWhole == Framed /\ Truthful

\* A client that sends is answered or closed, and is not closed for being idle.
Attended == IdleMeansIdle /\ Handled
=============================================================================
