------------------------- MODULE RemoteLoggingProofs -------------------------
(***************************************************************************)
(* Proofs about RemoteLogging, for every set of configurations, depth of   *)
(* the queue, number of tries, width of the sequence number and number of  *)
(* records and mishaps.                                                    *)
(***************************************************************************)
EXTENDS RemoteLogging, FiniteSetTheorems, TLAPS

LEMMA ConstantFacts ==
    /\ MaxTries \in Nat /\ QueueDepth \in Nat \ {0} /\ SeqMod \in Nat \ {0}
    /\ MaxEvents \in Nat /\ Configs \subseteq ConfigType
  BY ConstantsAssumption

-----------------------------------------------------------------------------
(* Sequences. *)

LEMMA Appended ==
    ASSUME NEW S, NEW s \in Seq(S), NEW e \in S
    PROVE  /\ Append(s, e) \in Seq(S) /\ Len(Append(s, e)) = Len(s) + 1
           /\ Append(s, e)[Len(s) + 1] = e
           /\ \A i \in 1 .. Len(s) : Append(s, e)[i] = s[i]
           /\ Append(s, e) # <<>>
           /\ s # <<>> => Head(Append(s, e)) = Head(s)
           /\ s = <<>> => Head(Append(s, e)) = e
  OBVIOUS

LEMMA Dropped ==
    ASSUME NEW S, NEW s \in Seq(S), s # <<>>
    PROVE  /\ Tail(s) \in Seq(S) /\ Len(Tail(s)) = Len(s) - 1 /\ Tail(s) # s
           /\ \A i \in 1 .. Len(s) - 1 : Tail(s)[i] = s[i + 1]
           /\ Head(s) \in S /\ Head(s) = s[1] /\ Len(s) \in Nat /\ Len(s) >= 1
  OBVIOUS

LEMMA Elements ==
    ASSUME NEW S, NEW s \in Seq(S)
    PROVE  /\ DOMAIN s = 1 .. Len(s) /\ Len(s) \in Nat
           /\ \A e : e \in Range(s) <=> \E i \in 1 .. Len(s) : s[i] = e
           /\ \A i \in 1 .. Len(s) : s[i] \in S
           /\ s # <<>> <=> Len(s) > 0
  BY DEF Range

LEMMA ElementsAppended ==
    ASSUME NEW S, NEW s \in Seq(S), NEW e \in S
    PROVE  \A x : x \in Range(Append(s, e)) <=> x \in Range(s) \/ x = e
  <1>1. /\ Append(s, e) \in Seq(S) /\ Len(Append(s, e)) = Len(s) + 1
        /\ Append(s, e)[Len(s) + 1] = e
        /\ \A i \in 1 .. Len(s) : Append(s, e)[i] = s[i]
    BY Appended
  <1> DEFINE t == Append(s, e)
  <1> HIDE DEF t
  <1>2. t \in Seq(S) => \A x : x \in Range(t) <=> \E i \in 1 .. Len(t) : t[i] = x
    BY Elements
  <1>3. Len(s) \in Nat /\ \A x : x \in Range(s) <=> \E i \in 1 .. Len(s) : s[i] = x
    BY Elements
  <1> QED
    BY <1>1, <1>2, <1>3 DEF t

-----------------------------------------------------------------------------
(* Types. *)

Message == [record : 0 .. MaxEvents, seq : 0 .. SeqMod]
Answer == [type : Closing \cup {"ACK", "DISKLOW"}, seq : 0 .. SeqMod]

NetType ==
    /\ conn \in {"none", "ok", "fin", "cut"}
    /\ toServer \in Seq(Message) /\ toClient \in Seq(Answer)
    /\ late \subseteq 1 .. MaxEvents

PeerType ==
    /\ server \in {"up", "down"} /\ disk \in {"ok", "low", "full", "error"}
    /\ log \in Seq(1 .. MaxEvents)

FlagType ==
    /\ {remote_ended, connected_once, suspend, stop, hup} \subseteq BOOLEAN
    /\ warned \subseteq {1, 2}
    /\ ready \subseteq {"sock", "in", "out"}

\* The record being relayed is the one at the head of the queue, so that the one
\* send_one drops is the one that was sent.
AtHead ==
    pc \in {"try", "send", "recv"} /\ relay.record # Heartbeat =>
        queue # <<>> /\ relay.record = Head(queue)

CallType ==
    /\ config \in Configs
    /\ queue \in Seq(1 .. MaxEvents) /\ Len(queue) <= QueueDepth
    /\ pc \in {"top", "select", "check", "input", "append", "drain", "flush",
               "try", "send", "recv", "exited"}
    /\ relay \in [record : 0 .. MaxEvents, tries : 0 .. MaxTries + 1,
                  back : {"top", "drain", "flush"}]
    /\ sequence_id \in 0 .. SeqMod
    /\ seen \in 0 .. MaxEvents
    /\ pc = "append" /\ Len(queue) < QueueDepth => seen < MaxEvents
    /\ AtHead

RType == NetType /\ PeerType /\ FlagType /\ CallType

LEMMA TypeParts == RType => TypeOK
  BY DEF RType, TypeOK, NetType, PeerType, FlagType, CallType, Message, Answer

LEMMA EmptySeq == \A S : <<>> \in Seq(S)
  OBVIOUS

LEMMA InitRType == Init => RType
  <1> SUFFICES ASSUME Init PROVE RType
    OBVIOUS
  <1>1. NetType /\ PeerType
    BY EmptySeq DEF Init, NetType, PeerType
  <1>2. FlagType
    BY Zenon DEF Init, FlagType
  <1>3. relay \in [record : 0 .. MaxEvents, tries : 0 .. MaxTries + 1, back : {"top", "drain", "flush"}]
    BY ConstantFacts DEF Init, Idle, Heartbeat
  <1>4. /\ sequence_id \in 0 .. SeqMod /\ seen \in 0 .. MaxEvents
        /\ queue \in Seq(1 .. MaxEvents) /\ Len(queue) <= QueueDepth
    BY ConstantFacts, EmptySeq DEF Init
  <1>5. CallType
    BY <1>3, <1>4 DEF Init, CallType, AtHead
  <1> QED
    BY <1>1, <1>2, <1>5 DEF RType

LEMMA UnreadType == NetType => Unread \subseteq 1 .. MaxEvents
  <1> SUFFICES ASSUME NetType, NEW m \in Range(toServer), m.record # 0
               PROVE  m.record \in 1 .. MaxEvents
    BY DEF Unread, Heartbeat
  <1>1. m \in Message
    BY Elements DEF NetType
  <1> QED
    BY <1>1, ConstantFacts DEF Message

\* The ways in which a step of the client changes the connection.
LEMMA StopNet ==
    ASSUME NetType, stop_transport
    PROVE  NetType'
  BY UnreadType, EmptySeq, Zenon DEF NetType, stop_transport

LEMMA SameNet ==
    ASSUME NetType, UNCHANGED net
    PROVE  NetType'
  BY DEF NetType, net

LEMMA ConnectNet ==
    ASSUME NetType, Connect
    PROVE  NetType'
  BY DEF NetType, Connect

LEMMA NextNetType ==
    ASSUME RType, [Next]_vars
    PROVE  NetType'
  <1>0. NetType /\ CallType /\ SeqMod \in Nat
    BY ConstantFacts DEF RType
  <1>1. CASE LoopTop
    BY <1>0, <1>1, StopNet, SameNet DEF LoopTop
  <1>2. CASE SelectReady \/ SelectInterrupted \/ SelectTimeout \/ q_append \/ InputNone \/ Drain \/ GiveUp
    BY <1>0, <1>2, SameNet DEF SelectReady, SelectInterrupted, SelectTimeout, q_append, InputNone, Drain, GiveUp
  <1>3. CASE check_message
    BY <1>0, <1>3, StopNet, SameNet, Dropped, Zenon DEF check_message, NetType
  <1>4. CASE InputLine
    BY <1>0, <1>4, SameNet, ConnectNet DEF InputLine, Reconnect
  <1>5. CASE Flush
    BY <1>0, <1>5, SameNet, StopNet DEF Flush
  <1>6. CASE Try
    BY <1>0, <1>6, SameNet, ConnectNet, Zenon DEF Try
  <1>7. CASE Send
    <2>1. [record |-> relay.record, seq |-> sequence_id] \in Message
      BY <1>0 DEF CallType, Message
    <2>2. CASE UNCHANGED net \/ stop_transport
      BY <1>0, <2>2, SameNet, StopNet
    <2>3. CASE toServer' = Append(toServer, [record |-> relay.record, seq |-> sequence_id])
               /\ UNCHANGED <<conn, toClient, late>>
      BY <1>0, <2>1, <2>3, Appended DEF NetType
    <2> QED
      BY <1>7, <2>2, <2>3 DEF Send
  <1>8. CASE RecvFails
    BY <1>0, <1>8, StopNet DEF RecvFails, Abandon
  <1>9. CASE RecvAnswer
    BY <1>0, <1>9, StopNet, Dropped, Zenon DEF RecvAnswer, NetType
  <1>10. CASE InputEnds \/ hup_handler \/ user2_handler \/ term_handler \/ Restart
    BY <1>0, <1>10, SameNet DEF InputEnds, hup_handler, user2_handler, term_handler, Restart
  <1>11. CASE Crash
    BY <1>0, <1>11, StopNet DEF Crash
  <1>12. CASE client_message
    <2>1. toServer # <<>> /\ Head(toServer) \in Message /\ Tail(toServer) \in Seq(Message)
      BY <1>0, <1>12, Dropped DEF client_message, NetType
    <2>2. \E t \in Closing \cup {"ACK", "DISKLOW"} :
             toClient' = Append(toClient, [type |-> t, seq |-> Head(toServer).seq])
      BY <1>12, RType DEF client_message, RType, PeerType, Closing
    <2>3. PICK t \in Closing \cup {"ACK", "DISKLOW"} :
             toClient' = Append(toClient, [type |-> t, seq |-> Head(toServer).seq])
      BY <2>2
    <2>4. [type |-> t, seq |-> Head(toServer).seq] \in Answer
      BY <2>1 DEF Message, Answer
    <2>5. toClient' \in Seq(Answer)
      BY <1>0, <2>3, <2>4, Appended DEF NetType
    <2> QED
      BY <1>0, <1>12, <2>1, <2>5, Zenon DEF client_message, NetType
  <1>13. CASE LateMessage
    BY <1>0, <1>13 DEF LateMessage, NetType
  <1>14. CASE listen_uninit
    <2>1. [type |-> "ENDING", seq |-> 0] \in Answer
      BY <1>0 DEF Answer, Closing
    <2>2. toClient' \in Seq(Answer)
      <3>1. toClient \in Seq(Answer)
        BY <1>0 DEF NetType
      <3>2. Append(toClient, [type |-> "ENDING", seq |-> 0]) \in Seq(Answer)
        BY ONLY <2>1, <3>1, Appended
      <3> QED
        BY <1>14, <3>1, <3>2 DEF listen_uninit
    <2> QED
      BY <1>0, <1>14, <2>2, EmptySeq DEF listen_uninit, NetType
  <1>15. CASE ServerStarts \/ DiskTrouble \/ DiskRepaired
    BY <1>0, <1>15, SameNet DEF ServerStarts, DiskTrouble, DiskRepaired
  <1>16. CASE NetworkFault
    BY <1>0, <1>16, UnreadType, EmptySeq, Zenon DEF NetworkFault, NetType
  <1>17. CASE UNCHANGED vars
    BY <1>0, <1>17, SameNet DEF vars
  <1> QED
    BY <1>1, <1>2, <1>3, <1>4, <1>5, <1>6, <1>7, <1>8, <1>9, <1>10, <1>11, <1>12, <1>13,
       <1>14, <1>15, <1>16, <1>17 DEF Next, ClientStep, Environment

LEMMA LoggedType ==
    ASSUME PeerType, NEW r \in 1 .. MaxEvents
    PROVE  Logged(r) \in Seq(1 .. MaxEvents)
  BY Appended, Zenon DEF PeerType, Logged

LEMMA NextPeerType ==
    ASSUME RType, [Next]_vars
    PROVE  PeerType'
  <1>0. NetType /\ PeerType /\ MaxEvents \in Nat
    BY ConstantFacts DEF RType
  <1>1. CASE UNCHANGED peer
    BY <1>0, <1>1 DEF peer, PeerType
  <1>2. CASE ClientStep
    BY <1>1, <1>2, Zenon DEF ClientStep, LoopTop, SelectReady, SelectInterrupted, SelectTimeout,
       check_message, InputLine, q_append, InputNone, Drain, Flush, GiveUp, Try, Send,
       RecvFails, RecvAnswer
  <1>3. CASE client_message
    <2>1. toServer # <<>> /\ Head(toServer) \in Message
      BY <1>0, <1>3, Dropped DEF client_message, NetType
    <2>2. Head(toServer).record # Heartbeat => Head(toServer).record \in 1 .. MaxEvents
      BY <1>0, <2>1 DEF Message, Heartbeat
    <2>3. log' \in Seq(1 .. MaxEvents)
      BY <1>0, <1>3, <2>2, LoggedType DEF client_message, PeerType
    <2> QED
      BY <1>0, <1>3, <2>3 DEF client_message, PeerType
  <1>4. CASE LateMessage
    BY <1>0, <1>4, LoggedType DEF LateMessage, NetType, PeerType
  <1>5. CASE listen_uninit \/ ServerStarts \/ DiskTrouble \/ DiskRepaired
    BY <1>0, <1>5 DEF listen_uninit, ServerStarts, DiskTrouble, DiskRepaired, PeerType
  <1>6. CASE InputEnds \/ hup_handler \/ user2_handler \/ term_handler \/ Crash \/ Restart \/ NetworkFault
    BY <1>1, <1>6 DEF InputEnds, hup_handler, user2_handler, term_handler, Crash, Restart, NetworkFault
  <1>7. CASE UNCHANGED vars
    BY <1>1, <1>7 DEF vars
  <1> QED
    BY <1>2, <1>3, <1>4, <1>5, <1>6, <1>7 DEF Next, Environment

LEMMA NextFlagType ==
    ASSUME RType, [Next]_vars
    PROVE  FlagType'
  <1> USE DEF flags, FlagType
  <1>0. FlagType
    BY DEF RType
  <1>1. ASSUME NEW a PROVE Warned(a) \subseteq {1, 2}
    BY <1>0 DEF Warned
  <1>2. CASE LoopTop \/ SelectReady \/ SelectInterrupted \/ SelectTimeout
    BY <1>0, <1>2, Zenon DEF LoopTop, SelectReady, SelectInterrupted, SelectTimeout
  <1>3. CASE check_message
    BY <1>0, <1>1, <1>3, Zenon DEF check_message, do_action, NoAction
  <1>4. CASE InputLine
    BY <1>0, <1>1, <1>4, Zenon DEF InputLine, Reconnect, do_action, NoAction
  <1>5. CASE q_append \/ InputNone \/ Drain \/ Flush
    BY <1>0, <1>5, Zenon DEF q_append, InputNone, Drain, Flush
  <1>6. CASE GiveUp
    BY <1>0, <1>1, <1>6 DEF GiveUp, do_action, Return
  <1>7. CASE Try \/ Send \/ RecvFails
    BY <1>0, <1>7, Zenon DEF Try, Send, RecvFails
  <1>8. CASE RecvAnswer
    BY <1>0, <1>1, <1>8, Zenon DEF RecvAnswer, do_action, Return
  <1>9. CASE InputEnds \/ hup_handler \/ user2_handler \/ term_handler \/ Crash \/ Restart
    BY <1>0, <1>9, Zenon DEF InputEnds, hup_handler, user2_handler, term_handler, Crash, Restart, Fresh
  <1>10. CASE client_message \/ LateMessage \/ listen_uninit \/ ServerStarts \/ DiskTrouble
              \/ DiskRepaired \/ NetworkFault
    BY <1>0, <1>10, Zenon DEF client_message, LateMessage, listen_uninit, ServerStarts, DiskTrouble,
       DiskRepaired, NetworkFault
  <1>11. CASE UNCHANGED vars
    BY <1>0, <1>11 DEF vars
  <1> QED
    BY <1>2, <1>3, <1>4, <1>5, <1>6, <1>7, <1>8, <1>9, <1>10, <1>11
    DEF Next, ClientStep, Environment

LEMMA RelayCall ==
    ASSUME CallType, NEW r \in 0 .. MaxEvents, NEW b \in {"top", "drain", "flush"}, Relay(r, b),
           r # Heartbeat => queue # <<>> /\ r = Head(queue), UNCHANGED <<config, queue, seen>>
    PROVE  CallType'
  <1>1. sequence_id + 1 \in Int /\ SeqMod \in Nat \ {0} /\ MaxTries \in Nat
    BY ConstantFacts DEF CallType
  <1>2. sequence_id' \in 0 .. SeqMod
    BY <1>1 DEF Relay
  <1>3. relay' \in [record : 0 .. MaxEvents, tries : 0 .. MaxTries + 1, back : {"top", "drain", "flush"}]
    BY <1>1 DEF Relay
  <1>4. AtHead'
    BY DEF Relay, AtHead
  <1> QED
    BY <1>2, <1>3, <1>4 DEF CallType, Relay

LEMMA IdleCall ==
    Idle \in [record : 0 .. MaxEvents, tries : 0 .. MaxTries + 1, back : {"top", "drain", "flush"}]
  BY ConstantFacts DEF Idle, Heartbeat

LEMMA ReturnCall ==
    ASSUME CallType, NEW ok \in BOOLEAN, NEW a, Return(ok, a), pc \in {"try", "recv"},
           UNCHANGED <<config, seen, sequence_id>>
    PROVE  CallType'
  <1>1. relay.back \in {"top", "drain", "flush"} /\ relay.back # "append"
    BY DEF CallType
  <1>2. queue' \in Seq(1 .. MaxEvents) /\ Len(queue') <= QueueDepth
    <2>1. CASE ok /\ relay.record # Heartbeat
      <3>1. queue # <<>>
        BY <2>1 DEF CallType, AtHead
      <3> QED
        BY <2>1, <3>1, Dropped, ConstantFacts DEF CallType, Return
    <2>2. CASE ~(ok /\ relay.record # Heartbeat)
      BY <2>2 DEF CallType, Return
    <2> QED
      BY <2>1, <2>2
  <1>3. pc' = relay.back /\ relay' = Idle
    BY DEF Return
  <1>4. AtHead'
    BY <1>1, <1>3 DEF AtHead
  <1> QED
    BY <1>1, <1>2, <1>3, <1>4, IdleCall DEF CallType

LEMMA NextCallType ==
    ASSUME RType, [Next]_vars
    PROVE  CallType'
  <1> USE DEF flags, call
  <1>0. CallType /\ MaxEvents \in Nat
    BY ConstantFacts DEF RType
  <1> DEFINE Same == UNCHANGED <<config, queue, relay, sequence_id, seen>>
  <1>1. ASSUME Same, pc' = pc \/ pc' \in {"top", "select", "check", "input", "drain", "flush", "exited"}
                    \/ (pc \in {"try", "send", "recv"} /\ pc' \in {"try", "send", "recv"})
        PROVE CallType'
    BY <1>0, <1>1 DEF CallType, AtHead
  <1>2. CASE LoopTop \/ SelectReady \/ SelectInterrupted
    BY <1>1, <1>2 DEF LoopTop, SelectReady, SelectInterrupted
  <1>3. CASE SelectTimeout
    <2>1. CASE Relay(Heartbeat, "top")
      BY <1>0, <1>3, <2>1, RelayCall DEF SelectTimeout, Heartbeat
    <2> QED
      BY <1>1, <1>3, <2>1 DEF SelectTimeout
  <1>4. CASE check_message
    BY <1>1, <1>4 DEF check_message
  <1>5. CASE InputLine
    <2>1. CASE pc' = "append"
      BY <1>0, <1>5, <2>1 DEF InputLine, CallType, AtHead
    <2> QED
      BY <1>1, <1>5, <2>1 DEF InputLine
  <1>6. CASE q_append
    <2>1. pc' \in {"input", "drain"}
      BY <1>6 DEF q_append
    <2>2. seen' \in 0 .. MaxEvents /\ queue' \in Seq(1 .. MaxEvents) /\ Len(queue') <= QueueDepth
      <3>1. /\ queue \in Seq(1 .. MaxEvents) /\ QueueDepth \in Nat /\ MaxEvents \in Nat
            /\ seen \in 0 .. MaxEvents
        BY <1>0, ConstantFacts DEF CallType
      <3>2. CASE Len(queue) < QueueDepth /\ seen' = seen + 1 /\ queue' = Append(queue, seen')
        <4>1. seen < MaxEvents
          BY <1>0, <1>6, <3>2 DEF q_append, CallType
        <4>2. seen' \in 1 .. MaxEvents
          BY ONLY <3>1, <3>2, <4>1
        <4>3. /\ Append(queue, seen') \in Seq(1 .. MaxEvents)
              /\ Len(Append(queue, seen')) = Len(queue) + 1 /\ Len(queue) \in Nat
          BY <3>1, <4>2, Appended
        <4> QED
          BY ONLY <3>1, <3>2, <4>2, <4>3
      <3>3. CASE Len(queue) = QueueDepth /\ queue' = queue /\ seen' = seen
        BY ONLY <3>1, <3>3
      <3> QED
        BY <1>6, <3>2, <3>3 DEF q_append
    <2>3. AtHead'
      BY <2>1 DEF AtHead
    <2> QED
      BY <1>0, <1>6, <2>1, <2>2, <2>3 DEF q_append, CallType
  <1>7. CASE InputNone
    BY <1>1, <1>7 DEF InputNone
  <1>8. CASE Drain
    <2>1. CASE queue # <<>> /\ Relay(Head(queue), "drain")
      <3>1. Head(queue) \in 0 .. MaxEvents
        BY <1>0, <2>1, Dropped DEF CallType
      <3> QED
        BY <1>0, <1>8, <2>1, <3>1, RelayCall DEF Drain
    <2> QED
      BY <1>1, <1>8, <2>1 DEF Drain
  <1>9. CASE Flush
    <2>1. CASE queue # <<>> /\ Relay(Head(queue), "flush")
      <3>1. Head(queue) \in 0 .. MaxEvents
        BY <1>0, <2>1, Dropped DEF CallType
      <3> QED
        BY <1>0, <1>9, <2>1, <3>1, RelayCall DEF Flush
    <2> QED
      BY <1>1, <1>9, <2>1 DEF Flush
  <1>10. CASE GiveUp
    BY <1>0, <1>10, ReturnCall, Zenon DEF GiveUp, GaveUp
  <1>11. CASE Try
    <2>1. relay' \in [record : 0 .. MaxEvents, tries : 0 .. MaxTries + 1, back : {"top", "drain", "flush"}]
      <3>1. relay' = [relay EXCEPT !.tries = relay.tries + 1] /\ relay.tries <= MaxTries
        BY <1>11 DEF Try, MayTry
      <3>2. relay.tries \in Nat /\ MaxTries \in Nat
        BY <1>0, ConstantFacts DEF CallType
      <3>3. relay.tries + 1 \in 0 .. MaxTries + 1
        BY <3>1, <3>2
      <3> QED
        BY <1>0, <3>1, <3>3 DEF CallType
    <2>2. relay'.record = relay.record /\ pc = "try" /\ pc' \in {"try", "send"}
      BY <1>0, <1>11, Zenon DEF Try, CallType
    <2> QED
      BY <1>0, <1>11, <2>1, <2>2 DEF Try, CallType, AtHead
  <1>12. CASE Send \/ RecvFails
    BY <1>1, <1>12 DEF Send, RecvFails
  <1>13. CASE RecvAnswer
    <2>1. \A a : Continues(a) \in BOOLEAN
      BY DEF Continues
    <2>2. CASE \E a : Return(Continues(a), a)
      BY <1>0, <1>13, <2>1, <2>2, ReturnCall DEF RecvAnswer
    <2> QED
      BY <1>1, <1>13, <2>2 DEF RecvAnswer
  <1>14. CASE InputEnds \/ hup_handler \/ user2_handler \/ term_handler \/ Crash
    BY <1>1, <1>14 DEF InputEnds, hup_handler, user2_handler, term_handler, Crash
  <1>15. CASE Restart
    BY <1>0, <1>15, IdleCall, ConstantFacts DEF Restart, CallType, AtHead
  <1>16. CASE client_message \/ LateMessage \/ listen_uninit \/ ServerStarts \/ DiskTrouble
              \/ DiskRepaired \/ NetworkFault
    BY <1>1, <1>16 DEF client_message, LateMessage, listen_uninit, ServerStarts, DiskTrouble,
       DiskRepaired, NetworkFault
  <1>17. CASE UNCHANGED vars
    BY <1>1, <1>17 DEF vars
  <1> QED
    BY <1>2, <1>3, <1>4, <1>5, <1>6, <1>7, <1>8, <1>9, <1>10, <1>11, <1>12, <1>13,
       <1>14, <1>15, <1>16, <1>17 DEF Next, ClientStep, Environment

LEMMA NextRType == RType /\ [Next]_vars => RType'
  BY NextNetType, NextPeerType, NextFlagType, NextCallType DEF RType

-----------------------------------------------------------------------------
(* Answers. *)

\* AnswersMatch is not inductive: what makes the next answer the right one is that
\* the message and its answer are on their way only while the client waits in
\* recv_msg_tcp, and that ENDING is the last thing the server says.
InFlight ==
    /\ conn = "none" => toClient = <<>>
    /\ conn # "ok" => toServer = <<>>
    /\ conn = "ok" => \A i \in 1 .. Len(toClient) : toClient[i].type # "ENDING"
    /\ toServer # <<>> =>
          /\ pc = "recv" /\ toClient = <<>> /\ Len(toServer) = 1
          /\ toServer[1].record = relay.record /\ toServer[1].seq = sequence_id
    /\ \A i \in 1 .. Len(toClient) :
          toClient[i].type # "ENDING" =>
             /\ i = 1 /\ pc = "recv" /\ toClient[i].seq = sequence_id
             /\ toClient[i].type \in {"ACK", "DISKLOW"} /\ relay.record # Heartbeat =>
                   relay.record \in Range(log)

LEMMA InitInFlight == Init => InFlight
  BY DEF Init, InFlight

LEMMA StopInFlight ==
    ASSUME stop_transport
    PROVE  InFlight'
  BY DEF InFlight, stop_transport

\* Outside recv_msg_tcp there is nothing on the way but an ENDING.
LEMMA QuietInFlight ==
    ASSUME InFlight, pc # "recv", UNCHANGED <<conn, toServer, toClient>>
    PROVE  InFlight'
  BY DEF InFlight

LEMMA NextInFlight ==
    ASSUME RType, InFlight, [Next]_vars
    PROVE  InFlight'
  <1> USE DEF net, flags, call, peer
  <1>0. NetType /\ CallType /\ PeerType
    BY DEF RType
  <1>1. CASE LoopTop
    BY <1>1, StopInFlight, QuietInFlight DEF LoopTop
  <1>2. CASE SelectReady \/ SelectInterrupted \/ SelectTimeout \/ q_append \/ InputNone \/ Drain \/ GiveUp
    BY <1>2, QuietInFlight DEF SelectReady, SelectInterrupted, SelectTimeout, q_append, InputNone, Drain, GiveUp
  <1>3. CASE check_message
    <2>1. CASE UNCHANGED net \/ stop_transport
      BY <1>3, <2>1, StopInFlight, QuietInFlight DEF check_message
    <2>2. ASSUME toClient # <<>>, Head(toClient).type \notin Closing
          PROVE  FALSE
      <3>1. Head(toClient) = toClient[1] /\ Len(toClient) >= 1 /\ Len(toClient) \in Nat
        BY <1>0, <2>2, Dropped DEF NetType
      <3>2. toClient[1].type # "ENDING"
        BY <2>2, <3>1 DEF Closing
      <3> QED
        BY <1>3, <3>1, <3>2 DEF InFlight, check_message
    <2> QED
      BY <1>3, <2>1, <2>2, Zenon DEF check_message
  <1>4. CASE InputLine
    <2>1. CASE UNCHANGED <<conn, toServer, toClient>>
      BY <1>4, <2>1, QuietInFlight DEF InputLine
    <2>2. CASE conn = "none" /\ Connect
      BY <2>2 DEF Connect, InFlight
    <2> QED
      BY <1>4, <2>1, <2>2 DEF InputLine, Reconnect, MayReconnect
  <1>5. CASE Flush
    BY <1>5, StopInFlight, QuietInFlight DEF Flush
  <1>6. CASE Try
    <2>1. CASE UNCHANGED <<conn, toServer, toClient>>
      BY <1>6, <2>1, QuietInFlight DEF Try
    <2>2. CASE conn = "none" /\ Connect
      BY <2>2 DEF Connect, InFlight
    <2> QED
      BY <1>6, <2>1, <2>2, Zenon DEF Try
  <1>7. CASE Send
    <2>1. CASE UNCHANGED net \/ stop_transport
      BY <1>7, <2>1, StopInFlight, QuietInFlight DEF Send
    <2>2. ASSUME conn = "ok", pc' = "recv", UNCHANGED <<conn, toClient, relay, sequence_id>>,
                 toServer' = Append(toServer, [record |-> relay.record, seq |-> sequence_id])
          PROVE  InFlight'
      <3>1. toServer = <<>> /\ Len(toClient) = 0 /\ toClient = <<>>
        BY <1>0, <1>7, <2>2, Elements DEF InFlight, Send, NetType
      <3>2. toServer' = <<[record |-> relay.record, seq |-> sequence_id]>>
        BY <2>2, <3>1
      <3> QED
        BY <2>2, <3>1, <3>2 DEF InFlight
    <2> QED
      BY <1>7, <2>1, <2>2 DEF Send
  <1>8. CASE RecvFails
    BY <1>8, StopInFlight DEF RecvFails, Abandon
  <1>9. CASE RecvAnswer
    <2>1. CASE stop_transport
      BY <2>1, StopInFlight
    <2>2. ASSUME toClient # <<>>, Head(toClient).type \notin Closing,
                 toClient' = Tail(toClient), UNCHANGED <<conn, toServer>>
          PROVE  InFlight'
      <3>1. /\ Len(toClient') = Len(toClient) - 1 /\ Len(toClient) \in Nat
            /\ \A i \in 1 .. Len(toClient') : toClient'[i] = toClient[i + 1]
        BY <1>0, <2>2, Dropped DEF NetType
      <3>2. \A i \in 1 .. Len(toClient') : toClient'[i].type = "ENDING"
        BY <3>1 DEF InFlight
      <3>3. toServer' = <<>>
        BY <2>2 DEF InFlight
      <3>4. conn' # "none"
        BY <2>2 DEF InFlight
      <3>5. conn' = "ok" => \A i \in 1 .. Len(toClient') : toClient'[i].type # "ENDING"
        BY <2>2, <3>1 DEF InFlight
      <3> QED
        BY <3>2, <3>3, <3>4, <3>5 DEF InFlight
    <2> QED
      BY <1>9, <2>1, <2>2 DEF RecvAnswer
  <1>10. CASE InputEnds \/ Restart
    BY <1>10, QuietInFlight DEF InputEnds, Restart
  <1>11. CASE hup_handler \/ user2_handler \/ term_handler
    BY <1>11 DEF hup_handler, user2_handler, term_handler, InFlight
  <1>12. CASE Crash
    BY <1>12, StopInFlight DEF Crash
  <1>13. CASE client_message
    <2>1. /\ pc = "recv" /\ toClient = <<>> /\ Len(toServer) = 1 /\ Head(toServer) = toServer[1]
          /\ toServer[1].record = relay.record /\ toServer[1].seq = sequence_id
      BY <1>0, <1>13, Dropped DEF client_message, InFlight, NetType
    <2>2. toServer' = <<>>
      BY <1>0, <1>13, <2>1, Dropped DEF client_message, NetType
    <2>3. \E t \in {"ACK", "DISKLOW", "DISKFULL", "DISKERROR"} :
             /\ toClient' = <<[type |-> t, seq |-> sequence_id]>>
             /\ t \in {"ACK", "DISKLOW"} /\ relay.record # Heartbeat =>
                   Writes /\ log' = Logged(relay.record)
      BY <1>0, <1>13, <2>1 DEF client_message, PeerType, Writes
    <2>4. PICK t \in {"ACK", "DISKLOW", "DISKFULL", "DISKERROR"} :
             /\ toClient' = <<[type |-> t, seq |-> sequence_id]>>
             /\ t \in {"ACK", "DISKLOW"} /\ relay.record # Heartbeat =>
                   Writes /\ log' = Logged(relay.record)
      BY <2>3
    <2>5. Len(toClient') = 1 /\ toClient'[1].type = t /\ toClient'[1].seq = sequence_id
      BY <2>4
    <2>6. t \in {"ACK", "DISKLOW"} /\ relay.record # Heartbeat => relay.record \in Range(log')
      <3> SUFFICES ASSUME t \in {"ACK", "DISKLOW"}, relay.record # Heartbeat
                   PROVE  relay.record \in Range(log')
        OBVIOUS
      <3>1. relay.record \in 1 .. MaxEvents
        BY <1>0, ConstantFacts DEF CallType, Heartbeat
      <3>2. Writes /\ log' = Logged(relay.record) /\ log \in Seq(1 .. MaxEvents)
        BY <1>0, <2>4 DEF PeerType
      <3>3. CASE relay.record \notin Range(log)
        <4>1. log' = Append(log, relay.record)
          BY <3>2, <3>3 DEF Logged
        <4>2. relay.record \in Range(Append(log, relay.record))
          BY ONLY <3>1, <3>2, ElementsAppended, Zenon
        <4> QED
          BY ONLY <4>1, <4>2
      <3>4. CASE relay.record \in Range(log)
        BY <3>2, <3>4 DEF Logged
      <3> QED
        BY <3>3, <3>4
    <2>7. UNCHANGED <<conn, pc, relay, sequence_id>> /\ conn = "ok"
      BY <1>13 DEF client_message
    <2> QED
      BY <2>1, <2>2, <2>5, <2>6, <2>7 DEF InFlight
  <1>14. CASE LateMessage
    <2>1. \A r : r \in Range(log) => r \in Range(log')
      <3>1. log \in Seq(1 .. MaxEvents)
        BY <1>0 DEF PeerType
      <3>2. \A r \in 1 .. MaxEvents : \A x : x \in Range(log) => x \in Range(Logged(r))
        BY <3>1, ElementsAppended, Zenon DEF Logged
      <3> QED
        BY <1>0, <1>14, <3>2 DEF LateMessage, NetType
    <2> QED
      BY <1>14, <2>1 DEF LateMessage, InFlight
  <1>15. CASE listen_uninit
    <2>1. toServer' = <<>>
      BY <1>15 DEF listen_uninit
    <2>2. CASE conn # "ok"
      BY <1>15, <2>1, <2>2 DEF listen_uninit, InFlight
    <2>3. CASE conn = "ok"
      <3>1. [type |-> "ENDING", seq |-> 0] \in Answer /\ toClient \in Seq(Answer)
        BY <1>0, ConstantFacts DEF Answer, Closing, NetType
      <3>2. /\ toClient' = Append(toClient, [type |-> "ENDING", seq |-> 0]) /\ conn' = "fin"
            /\ UNCHANGED <<pc, relay, sequence_id, log>>
        BY <1>15, <2>3 DEF listen_uninit
      <3>3. /\ Len(toClient') = Len(toClient) + 1 /\ Len(toClient) \in Nat
            /\ toClient'[Len(toClient) + 1] = [type |-> "ENDING", seq |-> 0]
            /\ \A i \in 1 .. Len(toClient) : toClient'[i] = toClient[i]
        BY <3>1, <3>2, Appended
      <3>4. \A i \in 1 .. Len(toClient') : toClient'[i].type # "ENDING" =>
               i \in 1 .. Len(toClient) /\ toClient'[i] = toClient[i]
        BY <3>3
      <3> QED
        BY <2>1, <3>2, <3>4 DEF InFlight
    <2> QED
      BY <2>2, <2>3
  <1>16. CASE ServerStarts \/ DiskTrouble \/ DiskRepaired
    BY <1>16 DEF ServerStarts, DiskTrouble, DiskRepaired, InFlight
  <1>17. CASE NetworkFault
    <2>1. conn' = "cut" /\ toServer' = <<>> /\ UNCHANGED <<pc, relay, sequence_id, log>>
      BY <1>17 DEF NetworkFault
    <2>2. CASE toClient' = toClient
      BY <2>1, <2>2 DEF InFlight
    <2>3. CASE toClient' = <<>>
      BY <2>1, <2>3 DEF InFlight
    <2> QED
      BY <1>17, <2>2, <2>3 DEF NetworkFault
  <1>18. CASE UNCHANGED vars
    BY <1>18 DEF vars, InFlight
  <1> QED
    BY <1>1, <1>2, <1>3, <1>4, <1>5, <1>6, <1>7, <1>8, <1>9, <1>10, <1>11, <1>12, <1>13,
       <1>14, <1>15, <1>16, <1>17, <1>18 DEF Next, ClientStep, Environment

\* The answer audisp-remote reads is the answer to the message it has just sent,
\* whatever was cut, late or restarted before: "mismatched response" never happens
\* (recv_msg_tcp and relay_sock_managed, audisp-remote.c).
THEOREM AnswersAreMatched == Spec => []AnswersMatch
  <1> DEFINE Inv == RType /\ InFlight
  <1>1. Init => Inv
    BY InitRType, InitInFlight
  <1>2. Inv /\ [Next]_vars => Inv'
    BY NextRType, NextInFlight
  <1>3. Inv => AnswersMatch
    <2> SUFFICES ASSUME RType, InFlight PROVE AnswersMatch
      OBVIOUS
    <2> DEFINE A == {i \in DOMAIN toClient : toClient[i].type # "ENDING"}
    <2>0. toClient \in Seq(Answer) /\ toServer \in Seq(Message)
      BY DEF RType, NetType
    <2>1. DOMAIN toClient = 1 .. Len(toClient) /\ Len(toServer) \in Nat
      BY <2>0, Elements
    <2>2. A \subseteq {1}
      BY <2>1 DEF InFlight
    <2>3. Cardinality({1}) = 1 /\ IsFiniteSet({1}) /\ Cardinality({}) = 0
      BY FS_Singleton, FS_EmptySet, Zenon
    <2>4. A = {} \/ A = {1}
      BY <2>2
    <2>5. Len(toServer) + Cardinality(A) <= 1
      <3>1. CASE A = {}
        <4>1. Len(toServer) <= 1
          BY <2>1 DEF InFlight
        <4>2. Cardinality(A) = 0
          BY <2>3, <3>1
        <4> HIDE DEF A
        <4> QED
          BY <2>1, <4>1, <4>2
      <3>2. CASE A = {1}
        <4>1. toClient # <<>>
          BY <2>0, <2>1, <3>2, Elements
        <4>2. toServer = <<>>
          BY <4>1 DEF InFlight
        <4>3. Cardinality(A) = 1 /\ Len(toServer) = 0
          BY <2>3, <3>2, <4>2
        <4> HIDE DEF A
        <4> QED
          BY <4>3
      <3> QED
        BY <2>4, <3>1, <3>2
    <2>6. ASSUME toClient # <<>>, Head(toClient).type # "ENDING"
          PROVE  pc = "recv" /\ Head(toClient).seq = sequence_id
      BY <2>0, <2>6, Dropped DEF InFlight
    <2> QED
      BY <2>5, <2>6 DEF AnswersMatch
  <1> QED
    BY <1>1, <1>2, <1>3, PTL DEF Spec

-----------------------------------------------------------------------------
(* Delivery. *)

\* The records are numbered as they come, and the queue has them in that order.
Numbered ==
    /\ \A i, j \in 1 .. Len(queue) : i < j => queue[i] < queue[j]
    /\ \A i \in 1 .. Len(queue) : queue[i] <= seen
    /\ \A i \in 1 .. Len(log) : log[i] <= seen
    /\ \A r \in late : r <= seen

\* InOrder is not inductive: a record on a connection that was closed may be
\* written at any time, so it must be one that was written or the next one.
Ordered ==
    /\ \A i, j \in 1 .. Len(log) : i < j => log[i] < log[j]
    /\ \A i \in 1 .. Len(queue), j \in 1 .. Len(log) :
          queue[i] < log[j] => queue[i] \in Range(log)
    /\ \A r \in late : r \in Range(log) \/ (queue # <<>> /\ r = Head(queue))

LEMMA Types ==
    ASSUME RType
    PROVE  /\ queue \in Seq(1 .. MaxEvents) /\ log \in Seq(1 .. MaxEvents)
           /\ Len(queue) \in Nat /\ Len(log) \in Nat /\ seen \in Nat /\ MaxEvents \in Nat
           /\ late \subseteq 1 .. MaxEvents
           /\ \A i \in 1 .. Len(queue) : queue[i] \in Nat
           /\ \A i \in 1 .. Len(log) : log[i] \in Nat
           /\ queue # <<>> => Head(queue) = queue[1] /\ Len(queue) >= 1 /\ queue[1] \in 1 .. MaxEvents
  <1>1. /\ queue \in Seq(1 .. MaxEvents) /\ log \in Seq(1 .. MaxEvents) /\ MaxEvents \in Nat
        /\ late \subseteq 1 .. MaxEvents /\ seen \in Nat
    BY ConstantFacts DEF RType, CallType, PeerType, NetType
  <1>2. /\ Len(queue) \in Nat /\ \A i \in 1 .. Len(queue) : queue[i] \in 1 .. MaxEvents
        /\ Len(log) \in Nat /\ \A i \in 1 .. Len(log) : log[i] \in 1 .. MaxEvents
    BY <1>1, Elements
  <1>3. queue # <<>> => Head(queue) = queue[1] /\ Len(queue) >= 1 /\ queue[1] \in 1 .. MaxEvents
    BY ONLY <1>1, Dropped
  <1> QED
    BY <1>1, <1>2, <1>3

\* What is still unread when a connection ends is the head of the queue.
LEMMA UnreadIsHead ==
    ASSUME RType, InFlight, NEW r \in Unread
    PROVE  queue # <<>> /\ r = Head(queue) /\ toServer # <<>>
  <1>1. PICK m \in Range(toServer) : r = m.record /\ r # Heartbeat
    BY DEF Unread
  <1>2. toServer \in Seq(Message)
    BY DEF RType, NetType
  <1>3. PICK i \in 1 .. Len(toServer) : toServer[i] = m
    BY <1>2, Elements
  <1>4. toServer # <<>> /\ Len(toServer) \in Nat
    BY <1>2, <1>3, Elements
  <1>5. i = 1 /\ pc = "recv" /\ toServer[1].record = relay.record
    BY <1>3, <1>4 DEF InFlight
  <1> QED
    BY <1>1, <1>3, <1>4, <1>5 DEF RType, CallType, AtHead

\* A record is written, or was: the log stays within the records that came.
LEMMA WriteLimit ==
    ASSUME RType, Numbered, NEW r \in 1 .. MaxEvents, r <= seen, log' = Logged(r),
           late' \subseteq late, UNCHANGED <<queue, seen>>
    PROVE  Numbered'
  <1>1. CASE log' = log
    BY <1>1 DEF Numbered
  <1>2. CASE log' = Append(log, r)
    <2>1. log \in Seq(1 .. MaxEvents) /\ Len(log) \in Nat
      BY Types
    <2>2. /\ Len(log') = Len(log) + 1 /\ log'[Len(log) + 1] = r
          /\ \A i \in 1 .. Len(log) : log'[i] = log[i]
      BY <1>2, <2>1, Appended
    <2>3. \A i \in 1 .. Len(log') : log'[i] <= seen
      BY <2>1, <2>2 DEF Numbered
    <2> QED
      BY <2>3 DEF Numbered
  <1> QED
    BY <1>1, <1>2 DEF Logged

\* If it is the next one, the order is kept.
LEMMA WriteNumbered ==
    ASSUME RType, Numbered, Ordered, NEW r \in 1 .. MaxEvents, r <= seen,
           r \in Range(log) \/ (queue # <<>> /\ r = Head(queue)), log' = Logged(r),
           late' \subseteq late, UNCHANGED <<queue, seen>>
    PROVE  Ordered'
  <1>1. CASE log' = log
    BY <1>1 DEF Ordered
  <1>2. CASE log' # log
    <2>1. log' = Append(log, r) /\ queue # <<>> /\ r = Head(queue) /\ r \notin Range(log)
      BY <1>2 DEF Logged
    <2>2. /\ log \in Seq(1 .. MaxEvents) /\ Len(log) \in Nat /\ Len(queue) \in Nat
          /\ r = queue[1] /\ Len(queue) >= 1
      BY <2>1, Types
    <2>3. /\ Len(log') = Len(log) + 1 /\ log'[Len(log) + 1] = r
          /\ \A i \in 1 .. Len(log) : log'[i] = log[i]
      BY <2>1, <2>2, Appended
    <2>4. \A x : x \in Range(log) => x \in Range(log')
      <3>1. log' \in Seq(1 .. MaxEvents)
        BY <2>1, <2>2, Appended
      <3>2. /\ \A x : x \in Range(log) <=> \E i \in 1 .. Len(log) : log[i] = x
            /\ \A x : x \in Range(log') <=> \E i \in 1 .. Len(log') : log'[i] = x
        BY <2>2, <3>1, Elements
      <3> QED
        BY ONLY <2>2, <2>3, <3>2
    <2>5. \A i \in 1 .. Len(log) : log[i] \in Nat /\ log[i] # r
      BY <2>1, <2>2, Types, Elements
    <2>6. \A i \in 1 .. Len(log) : log[i] < r
      BY <2>1, <2>2, <2>5 DEF Ordered
    <2>7. \A i, j \in 1 .. Len(log') : i < j => log'[i] < log'[j]
      <3> SUFFICES ASSUME NEW i \in 1 .. Len(log'), NEW j \in 1 .. Len(log'), i < j
                   PROVE  log'[i] < log'[j]
        OBVIOUS
      <3>1. i \in 1 .. Len(log) /\ log'[i] = log[i]
        BY <2>2, <2>3
      <3>2. CASE j = Len(log) + 1
        BY ONLY <2>3, <2>6, <3>1, <3>2
      <3>3. CASE j \in 1 .. Len(log)
        BY <2>3, <3>1, <3>3 DEF Ordered
      <3> QED
        BY <2>2, <2>3, <3>2, <3>3
    <2>8. \A i \in 1 .. Len(queue) : ~(queue[i] < r)
      BY <2>2, Types DEF Numbered
    <2>9. \A i \in 1 .. Len(queue), j \in 1 .. Len(log') : queue[i] < log'[j] => queue[i] \in Range(log')
      BY <2>2, <2>3, <2>4, <2>8 DEF Ordered
    <2> QED
      BY <2>4, <2>7, <2>9 DEF Ordered
  <1> QED
    BY <1>1, <1>2

\* send_one drops the record it sent.
LEMMA DropNumbered ==
    ASSUME RType, Numbered, queue # <<>>, queue' = Tail(queue), UNCHANGED <<log, seen>>, late' \subseteq late
    PROVE  Numbered' /\ (Ordered /\ Head(queue) \in Range(log) => Ordered')
  <1>1. /\ queue \in Seq(1 .. MaxEvents) /\ Len(queue) \in Nat /\ Head(queue) = queue[1]
    BY Types
  <1>2. /\ Len(queue') = Len(queue) - 1
        /\ \A i \in 1 .. Len(queue') : queue'[i] = queue[i + 1] /\ i + 1 \in 1 .. Len(queue)
    BY <1>1, Dropped
  <1>3. Numbered'
    BY <1>1, <1>2 DEF Numbered
  <1>4. ASSUME Ordered, Head(queue) \in Range(log)
        PROVE  Ordered'
    <2>1. \A r \in late' : r \in Range(log')
      BY <1>4 DEF Ordered
    <2>2. \A i \in 1 .. Len(queue'), j \in 1 .. Len(log) : queue'[i] < log[j] => queue'[i] \in Range(log)
      BY <1>1, <1>2, <1>4 DEF Ordered
    <2> QED
      BY <1>4, <2>1, <2>2 DEF Ordered
  <1> QED
    BY <1>3, <1>4

\* q_append puts the next record at the end.
LEMMA AppendNumbered ==
    ASSUME RType, Numbered, seen' = seen + 1, queue' = Append(queue, seen'),
           seen' \in 1 .. MaxEvents, UNCHANGED <<log, late>>
    PROVE  Numbered' /\ (Ordered => Ordered')
  <1>1. queue \in Seq(1 .. MaxEvents) /\ Len(queue) \in Nat /\ seen \in Nat /\ Len(log) \in Nat
    BY Types
  <1>2. /\ Len(queue') = Len(queue) + 1 /\ queue'[Len(queue) + 1] = seen + 1
        /\ \A i \in 1 .. Len(queue) : queue'[i] = queue[i]
        /\ queue' # <<>> /\ (queue # <<>> => Head(queue') = Head(queue))
    BY <1>1, Appended
  <1>3. Numbered'
    <2>0. \A i \in 1 .. Len(queue) : queue[i] \in Nat /\ queue[i] <= seen
      BY Types DEF Numbered
    <2>4. \A i, j \in 1 .. Len(queue) : i < j => queue[i] < queue[j]
      BY DEF Numbered
    <2>1. \A i, j \in 1 .. Len(queue') : i < j => queue'[i] < queue'[j]
      <3> SUFFICES ASSUME NEW i \in 1 .. Len(queue'), NEW j \in 1 .. Len(queue'), i < j
                   PROVE  queue'[i] < queue'[j]
        OBVIOUS
      <3>1. i \in 1 .. Len(queue) /\ queue'[i] = queue[i]
        BY <1>1, <1>2
      <3>2. CASE j \in 1 .. Len(queue)
        BY <1>2, <2>4, <3>1, <3>2
      <3>3. CASE j = Len(queue) + 1
        BY <1>1, <1>2, <2>0, <3>1, <3>3
      <3> QED
        BY <1>1, <1>2, <3>2, <3>3
    <2>2. \A i \in 1 .. Len(queue') : queue'[i] <= seen + 1
      BY <1>1, <1>2, Types DEF Numbered
    <2>3. /\ \A i \in 1 .. Len(log) : log[i] <= seen + 1
          /\ \A r \in late : r <= seen + 1
      BY <1>1, Types DEF Numbered
    <2> QED
      BY <2>1, <2>2, <2>3 DEF Numbered
  <1>4. ASSUME Ordered PROVE Ordered'
    <2>1. \A j \in 1 .. Len(log) : ~(seen + 1 < log[j])
      BY <1>1, Types DEF Numbered
    <2>2. \A i \in 1 .. Len(queue'), j \in 1 .. Len(log) : queue'[i] < log[j] => queue'[i] \in Range(log)
      BY <1>1, <1>2, <1>4, <2>1 DEF Ordered
    <2>3. \A r \in late' : r \in Range(log') \/ (queue' # <<>> /\ r = Head(queue'))
      BY <1>2, <1>4 DEF Ordered
    <2> QED
      BY <1>4, <2>2, <2>3 DEF Ordered
  <1> QED
    BY <1>3, <1>4

\* What is unread joins the records that may still come.
LEMMA LateNumbered ==
    ASSUME RType, InFlight, Numbered, late' \subseteq late \cup Unread, UNCHANGED <<queue, log, seen>>
    PROVE  Numbered' /\ (Ordered => Ordered')
  <1>1. \A r \in Unread : queue # <<>> /\ r = Head(queue) /\ r <= seen
    BY UnreadIsHead, Types DEF Numbered
  <1> QED
    BY <1>1 DEF Numbered, Ordered

LEMMA SameNumbered ==
    ASSUME Numbered, UNCHANGED <<queue, log, seen, late>>
    PROVE  Numbered' /\ (Ordered => Ordered')
  BY DEF Numbered, Ordered

\* send_one is told to drop a record that was not written: never.
LEMMA DropsWritten ==
    ASSUME RType, InFlight, Keeps(config), RecvAnswer, queue' # queue
    PROVE  /\ queue # <<>> /\ queue' = Tail(queue) /\ Head(queue) \in Range(log)
           /\ late' = late
  <1> DEFINE m == Head(toClient)
  <1>1. /\ pc = "recv" /\ toClient # <<>> /\ Return(Continues(Action(m.type)), Action(m.type))
        /\ late' = late \/ late' = late \cup Unread
    BY DEF RecvAnswer, stop_transport
  <1>2. Continues(Action(m.type)) /\ relay.record # Heartbeat /\ queue' = Tail(queue)
    BY <1>1 DEF Return
  <1>3. queue # <<>> /\ relay.record = Head(queue)
    BY <1>1, <1>2 DEF RType, CallType, AtHead
  <1>4. m = toClient[1] /\ 1 \in 1 .. Len(toClient) /\ m \in Answer
    BY <1>1, Dropped DEF RType, NetType
  <1>5. m.type \notin {"ENDING", "DISKFULL", "DISKERROR"}
    BY <1>2 DEF Keeps, Continues, Action
  <1>6. m.type \in {"ACK", "DISKLOW"}
    BY <1>4, <1>5 DEF Answer, Closing
  <1>7. relay.record \in Range(log)
    BY <1>2, <1>4, <1>6 DEF InFlight
  <1>8. Unread = {}
    BY <1>1, UnreadIsHead DEF InFlight
  <1> QED
    BY <1>1, <1>2, <1>3, <1>7, <1>8

LEMMA NextNumbered ==
    ASSUME RType, InFlight, Numbered, Keeps(config) => Ordered, [Next]_vars
    PROVE  Numbered' /\ (Keeps(config) => Ordered')
  <1> USE DEF net, peer
  <1>1. CASE LoopTop
    BY <1>1, LateNumbered, SameNumbered DEF LoopTop, stop_transport
  <1>2. CASE SelectReady \/ SelectInterrupted \/ SelectTimeout \/ InputNone \/ Drain
    BY <1>2, SameNumbered DEF SelectReady, SelectInterrupted, SelectTimeout, InputNone, Drain
  <1>3. CASE check_message
    BY <1>3, LateNumbered, SameNumbered, Zenon DEF check_message, stop_transport
  <1>4. CASE InputLine
    BY <1>4, SameNumbered DEF InputLine, Reconnect, Connect
  <1>5. CASE q_append
    <2>1. UNCHANGED <<log, late>>
      BY <1>5 DEF q_append
    <2>2. CASE Len(queue) < QueueDepth /\ seen' = seen + 1 /\ queue' = Append(queue, seen')
      <3>1. seen' \in 1 .. MaxEvents
        BY <1>5, <2>2, ConstantFacts DEF q_append, RType, CallType
      <3> QED
        BY <2>1, <2>2, <3>1, AppendNumbered
    <2>3. CASE UNCHANGED <<queue, seen>>
      BY <2>1, <2>3, SameNumbered
    <2> QED
      BY <1>5, <2>2, <2>3 DEF q_append
  <1>6. CASE Flush
    BY <1>6, LateNumbered, SameNumbered DEF Flush, stop_transport
  <1>7. CASE GiveUp
    BY <1>7, SameNumbered DEF GiveUp, Return, GaveUp
  <1>8. CASE Try
    BY <1>8, SameNumbered, Zenon DEF Try, Connect
  <1>9. CASE Send
    BY <1>9, LateNumbered, SameNumbered DEF Send, stop_transport
  <1>10. CASE RecvFails
    BY <1>10, LateNumbered DEF RecvFails, Abandon, stop_transport
  <1>11. CASE RecvAnswer
    <2>1. late' \subseteq late \cup Unread /\ UNCHANGED <<log, seen>>
      BY <1>11 DEF RecvAnswer, stop_transport
    <2>2. CASE queue' = queue
      BY <2>1, <2>2, LateNumbered
    <2>3. CASE queue' # queue
      <3>1. queue' = Tail(queue) /\ queue # <<>>
        BY <1>11, <2>3 DEF RecvAnswer, Return, RType, CallType, AtHead
      <3>2. Unread = {}
        BY <1>11, UnreadIsHead DEF RecvAnswer, InFlight
      <3>3. late' \subseteq late
        BY <2>1, <3>2
      <3> QED
        BY <1>11, <2>1, <2>3, <3>1, <3>3, DropNumbered, DropsWritten
    <2> QED
      BY <2>2, <2>3
  <1>12. CASE InputEnds \/ hup_handler \/ user2_handler \/ term_handler \/ Restart
    BY <1>12, SameNumbered DEF InputEnds, hup_handler, user2_handler, term_handler, Restart
  <1>13. CASE Crash
    BY <1>13, LateNumbered DEF Crash, stop_transport
  <1>14. CASE client_message
    <2>1. UNCHANGED <<queue, seen, late>>
      BY <1>14 DEF client_message
    <2>2. CASE log' = log
      BY <2>1, <2>2, SameNumbered
    <2>3. CASE log' # log
      <3> DEFINE r == Head(toServer).record
      <3>1. log' = Logged(r) /\ r # Heartbeat /\ toServer # <<>>
        BY <1>14, <2>3 DEF client_message
      <3>2. Head(toServer) = toServer[1]
        BY <3>1, Dropped DEF RType, NetType
      <3>3. r = relay.record /\ pc = "recv"
        BY <3>1, <3>2 DEF InFlight
      <3>4. queue # <<>> /\ r = Head(queue)
        BY <3>1, <3>3 DEF RType, CallType, AtHead
      <3>5. r \in 1 .. MaxEvents /\ r <= seen
        BY <3>4, Types DEF Numbered
      <3> HIDE DEF r
      <3>6. Numbered'
        BY <2>1, <3>1, <3>5, WriteLimit
      <3> QED
        BY <2>1, <3>1, <3>4, <3>5, <3>6, WriteNumbered
    <2> QED
      BY <2>2, <2>3
  <1>15. CASE LateMessage
    <2>1. PICK r \in late : log' = Logged(r) /\ late' = late \ {r}
      BY <1>15 DEF LateMessage
    <2>2. UNCHANGED <<queue, seen>> /\ r \in 1 .. MaxEvents /\ r <= seen
      BY <1>15, Types DEF LateMessage, Numbered
    <2>3. Numbered'
      BY <2>1, <2>2, WriteLimit
    <2>4. Keeps(config) => r \in Range(log) \/ (queue # <<>> /\ r = Head(queue))
      BY DEF Ordered
    <2> QED
      BY <2>1, <2>2, <2>3, <2>4, WriteNumbered
  <1>16. CASE listen_uninit
    BY <1>16, LateNumbered DEF listen_uninit
  <1>17. CASE ServerStarts \/ DiskTrouble \/ DiskRepaired
    BY <1>17, SameNumbered DEF ServerStarts, DiskTrouble, DiskRepaired
  <1>18. CASE NetworkFault
    BY <1>18, LateNumbered DEF NetworkFault
  <1>19. CASE UNCHANGED vars
    BY <1>19, SameNumbered DEF vars
  <1> QED
    BY <1>1, <1>2, <1>3, <1>4, <1>5, <1>6, <1>7, <1>8, <1>9, <1>10, <1>11, <1>12, <1>13,
       <1>14, <1>15, <1>16, <1>17, <1>18, <1>19 DEF Next, ClientStep, Environment

LEMMA ConfigStays == [Next]_vars => config' = config
  BY Zenon DEF Next, ClientStep, Environment, vars, LoopTop, SelectReady, SelectInterrupted,
     SelectTimeout, check_message, InputLine, q_append, InputNone, Drain, Flush, GiveUp, Try,
     Send, RecvFails, RecvAnswer, InputEnds, hup_handler, user2_handler, term_handler, Crash,
     Restart, client_message, LateMessage, listen_uninit, ServerStarts, DiskTrouble,
     DiskRepaired, NetworkFault

DInv == RType /\ InFlight /\ Numbered /\ (Keeps(config) => Ordered)

LEMMA InitDInv == Init => DInv
  BY InitRType, InitInFlight DEF Init, DInv, Numbered, Ordered

LEMMA NextDInv == DInv /\ [Next]_vars => DInv'
  <1> SUFFICES ASSUME DInv, [Next]_vars PROVE DInv'
    OBVIOUS
  <1>1. RType' /\ InFlight' /\ Numbered' /\ (Keeps(config) => Ordered')
    BY NextRType, NextInFlight, NextNumbered DEF DInv
  <1>2. Keeps(config)' = Keeps(config)
    BY ConfigStays DEF Keeps
  <1> QED
    BY <1>1, <1>2 DEF DInv

\* Only an answer changes the queue other than by an append.
LEMMA OnlyAnswersDrop ==
    ASSUME RType, [Next]_vars, queue # <<>>, queue' = Tail(queue)
    PROVE  RecvAnswer /\ queue' # queue
  <1>1. queue' # queue /\ Len(queue') = Len(queue) - 1 /\ Len(queue) \in Nat /\ queue \in Seq(1 .. MaxEvents)
    BY Dropped, Types
  <1>2. ~q_append
    <2> SUFFICES ASSUME q_append PROVE FALSE
      OBVIOUS
    <2>0. Len(queue) < QueueDepth /\ seen' = seen + 1 /\ queue' = Append(queue, seen')
      BY <1>1, Zenon DEF q_append
    <2>1. seen' \in 1 .. MaxEvents
      BY <2>0, ConstantFacts DEF q_append, RType, CallType
    <2>2. Len(Append(queue, seen')) = Len(queue) + 1
      <3>1. queue \in Seq(1 .. MaxEvents)
        BY <1>1, Zenon
      <3> QED
        BY ONLY <2>1, <3>1, Appended
    <2>4. Len(queue') = Len(queue) + 1
      BY ONLY <2>0, <2>2
    <2>5. Len(queue') = Len(queue) - 1 /\ Len(queue) \in Nat
      BY <1>1, Zenon
    <2> QED
      BY ONLY <2>4, <2>5
  <1> QED
    BY <1>1, <1>2, Zenon DEF Next, ClientStep, Environment, vars, LoopTop, SelectReady, SelectInterrupted,
     SelectTimeout, check_message, InputLine, InputNone, Drain, Flush, GiveUp, GaveUp, Return, Try,
     Send, RecvFails, InputEnds, hup_handler, user2_handler, term_handler, Crash,
     Restart, client_message, LateMessage, listen_uninit, ServerStarts, DiskTrouble,
     DiskRepaired, NetworkFault

\* With actions that keep what the server did not take, a record leaves the queue
\* only after the server has written it, and the server writes the records in the
\* order in which they were queued, whatever connections are cut, answers late and
\* processes restarted (send_one and relay_sock_managed, audisp-remote.c).
THEOREM DeliversAtLeastOnce == Spec => AtLeastOnce
  <1>1. DInv => TypeOK /\ InOrder
    <2> SUFFICES ASSUME DInv PROVE InOrder
      BY TypeParts DEF DInv
    <2>1. DOMAIN log = 1 .. Len(log) /\ DOMAIN queue = 1 .. Len(queue)
      <3>1. log \in Seq(1 .. MaxEvents) /\ queue \in Seq(1 .. MaxEvents)
        BY Types DEF DInv
      <3> QED
        BY ONLY <3>1, Elements
    <2> QED
      BY <2>1 DEF DInv, InOrder, Ordered
  <1>2. DInv /\ [Next]_vars =>
          [Keeps(config) /\ queue # <<>> /\ queue' = Tail(queue) => Head(queue) \in Range(log)]_vars
    BY OnlyAnswersDrop, DropsWritten DEF DInv
  <1> QED
    BY <1>1, <1>2, InitDInv, NextDInv, PTL DEF Spec, AtLeastOnce, DropsOnlyWritten
=============================================================================
