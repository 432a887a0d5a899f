---------------------------- MODULE DaemonProofs ----------------------------
(***************************************************************************)
(* Proofs about Daemon, for any number of buffers, events, signals and     *)
(* faults and every freq.                                                  *)
(*                                                                         *)
(* The event of a SIGHUP is handed from the netlink handler to the         *)
(* configuration thread and back through the pipe.  The invariant says     *)
(* where it is: at most one of the pending signal, the request, the thread *)
(* and the pipe has the SIGHUP, and as long as one has it the signal is    *)
(* not served, so that a careful administrator does not send the next.     *)
(***************************************************************************)
EXTENDS Daemon, FiniteSetTheorems, TLAPS

LEMMA ConstantFacts ==
    /\ Buffers \in Nat \ {0} /\ Freq \in Nat \ {0} /\ MaxSignals \in Nat
  BY ConstantsAssumption

-----------------------------------------------------------------------------
(* The flush thread. *)

FlushInv ==
    /\ async \in BOOLEAN /\ count \in 0 .. Freq - 1 /\ flush \in BOOLEAN
    /\ flush_lock \in {"free", "flusher"}
    /\ flusher \in {"none", "top", "locked", "waiting", "woken", "fsync", "ended"}
    /\ flusher = "locked" => flush_lock = "flusher"

LEMMA HandleFlush ==
    ASSUME FlushInv, handle_event
    PROVE  FlushInv'
  <1>1. (count + 1) % Freq \in 0 .. Freq - 1
    BY ConstantFacts DEF FlushInv
  <1> QED
    BY <1>1 DEF FlushInv, handle_event, Signalled

LEMMA SameFlush ==
    ASSUME FlushInv, UNCHANGED flushVars
    PROVE  FlushInv'
  BY DEF FlushInv, flushVars

LEMMA NextFlush ==
    ASSUME FlushInv, [Next]_vars
    PROVE  FlushInv'
  <1>1. CASE \E i \in 1 .. Len(Startup) : StepDone(i) \/ StepFails(i)
    <2>1. CASE handle_event
      BY <2>1, HandleFlush
    <2>2. CASE UNCHANGED flushVars
      BY <2>2, SameFlush
    <2>3. CASE flusher' = "top" /\ UNCHANGED <<async, count, flush, flush_lock>>
      BY <2>3 DEF FlushInv
    <2> QED
      BY <1>1, <2>1, <2>2, <2>3 DEF StepDone, StepFails
  <1>2. CASE \E g \in Signals : Kill(g) \/ SignalHandler(g)
    BY <1>2, HandleFlush, SameFlush, Zenon DEF Kill, SignalHandler
  <1>3. CASE netlink_handler
    BY <1>3, HandleFlush, SameFlush DEF netlink_handler, NetlinkEvent, NetlinkHup, NetlinkUsr
  <1>4. CASE pipe_handler \/ DaemonEnd
    BY <1>4, HandleFlush, SameFlush DEF pipe_handler, DaemonEnd
  <1>5. CASE \/ KernelAnswers \/ KernelEvent \/ ConfigLoads \/ ConfigUnlocks
             \/ term_handler \/ LeaveLoop \/ Joined \/ thread_killer
    BY <1>5, SameFlush DEF KernelAnswers, KernelEvent, ConfigLoads, ConfigUnlocks,
       term_handler, LeaveLoop, Joined, thread_killer
  <1>6. CASE close_down
    BY <1>6 DEF close_down, FlushInv, Signalled
  <1>7. CASE FlushThread \/ SpuriousWakeup
    BY <1>7, Zenon DEF FlushThread, FlusherLocks, FlusherLooks, FlusherWakes, FlusherSyncs,
       SpuriousWakeup, FlushInv
  <1>8. CASE UNCHANGED vars
    BY <1>8, SameFlush DEF vars
  <1> QED
    BY <1>1, <1>2, <1>3, <1>4, <1>5, <1>6, <1>7, <1>8 DEF Next, Exited

-----------------------------------------------------------------------------
(* Startup, the event loop and the way out. *)

StartSteps == {"become_daemon", "audit_open", "init_event", "init_dispatcher",
               "resolve_node", "pipes", "start_event", "set_enabled", "set_pid", "listen"}
Starting == StartSteps \cup {"abort"}
Running == {"loop", "ending", "closing"}

MainInv ==
    /\ pc \in Starting \cup Running \cup {"joining", "exited"}
    /\ told \in {"nothing", "success", "failure"}
    /\ pc \in Starting => told = "nothing" /\ requested = {}
    /\ pc \in Running => told # "nothing"

LEMMA StartupSteps ==
    /\ Len(Startup) = 10
    /\ \A i \in 1 .. 10 : Startup[i] \in StartSteps
    /\ \A i \in 1 .. 9 : Startup[i] # "listen"
    /\ Startup[10] = "listen"
    /\ Range(Startup) = StartSteps
  BY DEF Startup, StartSteps, Range

LEMMA SameMain ==
    ASSUME MainInv, UNCHANGED <<pc, told>>, pc \in Starting => requested' = {}
    PROVE  MainInv'
  BY DEF MainInv, Starting, Running, StartSteps

LEMMA NextMain ==
    ASSUME MainInv, [Next]_vars
    PROVE  MainInv'
  <1>1. ASSUME NEW i \in 1 .. Len(Startup), StepDone(i)
        PROVE  MainInv'
    <2>1. pc \in StartSteps /\ (pc = "listen" <=> i = 10)
      BY <1>1, StartupSteps DEF StepDone
    <2>2. told = "nothing" /\ requested = {} /\ requested' = {}
      BY <2>1, <1>1 DEF MainInv, Starting, StepDone, signalVars
    <2>3. told' = (IF i = 10 THEN "success" ELSE "nothing")
      BY <2>1, <2>2, <1>1 DEF StepDone, Tells
    <2>4. pc' = IF i = 10 THEN "loop" ELSE Startup[i + 1]
      BY <1>1, StartupSteps DEF StepDone
    <2>5. i # 10 => pc' \in StartSteps
      BY <2>4, StartupSteps
    <2> QED
      BY <2>2, <2>3, <2>4, <2>5 DEF MainInv, Starting, Running, StartSteps
  <1>2. ASSUME NEW i \in 1 .. Len(Startup), StepFails(i)
        PROVE  MainInv'
    <2>1. pc \in StartSteps
      BY <1>2, StartupSteps DEF StepFails
    <2>2. told = "nothing" /\ requested = {} /\ requested' = {}
      BY <2>1, <1>2 DEF MainInv, Starting, StepFails, signalVars
    <2> QED
      BY <2>2, <1>2 DEF StepFails, MainInv, Starting, Running, StartSteps
  <1>3. CASE \/ \E g \in Signals : Kill(g) \/ SignalHandler(g)
             \/ netlink_handler
    BY <1>3, SameMain, Zenon DEF Kill, SignalHandler, netlink_handler, mainVars, Starting, StartSteps
  <1>4. CASE \/ KernelAnswers \/ KernelEvent \/ ConfigLoads \/ ConfigUnlocks \/ pipe_handler
             \/ FlushThread \/ SpuriousWakeup \/ UNCHANGED vars
    <2>1. UNCHANGED <<pc, told, requested>>
      BY <1>4 DEF KernelAnswers, KernelEvent, ConfigLoads, ConfigUnlocks, pipe_handler,
         FlushThread, SpuriousWakeup, vars, mainVars, signalVars
    <2> QED
      BY <2>1 DEF MainInv
  <1>5. CASE \/ term_handler \/ LeaveLoop \/ DaemonEnd \/ close_down \/ Joined
             \/ thread_killer
    BY <1>5 DEF term_handler, LeaveLoop, DaemonEnd, close_down, Joined, thread_killer,
       Alarm, signalVars, MainInv, Starting, Running, StartSteps
  <1> QED
    BY <1>1, <1>2, <1>3, <1>4, <1>5 DEF Next, Exited
-----------------------------------------------------------------------------
(* Signals, the questions to the kernel and its answers. *)

SignalType ==
    /\ pending \subseteq Signals /\ requested \subseteq Signals /\ owed \in Nat
    /\ socket \in Seq({"event", "info"})
    /\ sent \in [Signals -> Nat] /\ served \in [Signals -> Nat]

\* Answers in the socket.
Infos(s) == Cardinality({i \in DOMAIN s : s[i] = "info"})

\* Signals that came.
Sum(f) == f["SIGHUP"] + f["SIGUSR1"] + f["SIGUSR2"]

SignalInv ==
    /\ owed + Cardinality(pending) <= Sum(sent)
    /\ Sum(sent) <= MaxSignals
    /\ pc = "loop" => Cardinality(requested) <= owed + Infos(socket)

Messages == {"event", "info"}

LEMMA InfosFinite ==
    ASSUME NEW s \in Seq(Messages)
    PROVE  /\ IsFiniteSet({i \in DOMAIN s : s[i] = "info"})
           /\ Infos(s) \in Nat
  <1>1. IsFiniteSet(1 .. Len(s))
    BY FS_Interval
  <1>2. {i \in DOMAIN s : s[i] = "info"} \in SUBSET (1 .. Len(s))
    OBVIOUS
  <1>3. IsFiniteSet({i \in DOMAIN s : s[i] = "info"})
    BY <1>1, <1>2, FS_Subset
  <1> QED
    BY <1>3, FS_CardinalityType DEF Infos

LEMMA InfosAppend ==
    ASSUME NEW s \in Seq(Messages), NEW m \in Messages
    PROVE  /\ Append(s, m) \in Seq(Messages)
           /\ Infos(Append(s, m)) = IF m = "info" THEN Infos(s) + 1 ELSE Infos(s)
  <1> DEFINE I == {i \in DOMAIN s : s[i] = "info"}
             J == {i \in DOMAIN Append(s, m) : Append(s, m)[i] = "info"}
  <1>1. Append(s, m) \in Seq(Messages)
    OBVIOUS
  <1>2. J = IF m = "info" THEN I \cup {Len(s) + 1} ELSE I
    OBVIOUS
  <1>3. Len(s) + 1 \notin I
    OBVIOUS
  <1>4. IsFiniteSet(I)
    BY InfosFinite
  <1> HIDE DEF I, J
  <1>5. Cardinality(I \cup {Len(s) + 1}) = Cardinality(I) + 1
    BY <1>3, <1>4, FS_AddElement, Zenon
  <1>6. Cardinality(J) = IF m = "info" THEN Cardinality(I) + 1 ELSE Cardinality(I)
    BY <1>2, <1>5
  <1> QED
    BY <1>1, <1>6, Zenon DEF Infos, I, J

\* The places of a tail are those of the sequence but the first, moved by one.
LEMMA InfosTail ==
    ASSUME NEW s \in Seq(Messages), s # <<>>
    PROVE  /\ Tail(s) \in Seq(Messages)
           /\ Infos(Tail(s)) = IF Head(s) = "info" THEN Infos(s) - 1 ELSE Infos(s)
  <1> DEFINE I == {i \in DOMAIN s : s[i] = "info"}
             J == {i \in DOMAIN Tail(s) : Tail(s)[i] = "info"}
             f == [i \in I \ {1} |-> i - 1]
  <1>1. /\ Tail(s) \in Seq(Messages) /\ Len(Tail(s)) = Len(s) - 1 /\ Head(s) = s[1]
        /\ \A i \in 1 .. Len(s) - 1 : Tail(s)[i] = s[i + 1]
        /\ Len(s) \in Nat \ {0} /\ DOMAIN s = 1 .. Len(s)
        /\ DOMAIN Tail(s) = 1 .. Len(s) - 1
    OBVIOUS
  <1>2. 1 \in I <=> Head(s) = "info"
    BY <1>1
  <1>3. \A i : i \in I <=> i \in 1 .. Len(s) /\ s[i] = "info"
    BY <1>1
  <1>4. \A i : i \in J <=> i \in 1 .. Len(s) - 1 /\ s[i + 1] = "info"
    BY <1>1
  <1>5. IsFiniteSet(I)
    BY InfosFinite, Zenon
  <1> HIDE DEF I, J
  <1>6. \A i \in I \ {1} : i \in Nat /\ i - 1 \in J
    BY <1>1, <1>3, <1>4
  <1>7. \A j \in J : j + 1 \in I \ {1} /\ (j + 1) - 1 = j
    BY <1>1, <1>3, <1>4
  <1>8. f \in Injection(I \ {1}, J)
    BY <1>6 DEF Injection, IsInjective
  <1>9. f \in Surjection(I \ {1}, J)
    BY <1>6, <1>7 DEF Surjection
  <1>10. ExistsBijection(I \ {1}, J)
    BY <1>8, <1>9, Zenon DEF ExistsBijection, Bijection
  <1>11. /\ IsFiniteSet(I \ {1})
         /\ Cardinality(I \ {1}) = IF 1 \in I THEN Cardinality(I) - 1 ELSE Cardinality(I)
    BY <1>5, FS_RemoveElement
  <1>12. Cardinality(J) = Cardinality(I \ {1})
    BY <1>10, <1>11, FS_Bijection
  <1> QED
    BY <1>1, <1>2, <1>11, <1>12, Zenon DEF Infos, I, J

\* Sets of signals are finite.
LEMMA SignalSets ==
    ASSUME NEW P \in SUBSET Signals
    PROVE  /\ IsFiniteSet(P) /\ Cardinality(P) \in Nat
           /\ \A g : Cardinality(P \cup {g}) = IF g \in P THEN Cardinality(P) ELSE Cardinality(P) + 1
           /\ \A g : Cardinality(P \ {g}) = IF g \in P THEN Cardinality(P) - 1 ELSE Cardinality(P)
           /\ P = {} => Cardinality(P) = 0
  <1>1. IsFiniteSet({"SIGHUP"} \cup {"SIGUSR1"})
    BY FS_Singleton, FS_AddElement, Zenon
  <1>2. IsFiniteSet(({"SIGHUP"} \cup {"SIGUSR1"}) \cup {"SIGUSR2"})
    BY <1>1, FS_AddElement
  <1>3. Signals = ({"SIGHUP"} \cup {"SIGUSR1"}) \cup {"SIGUSR2"}
    BY DEF Signals
  <1>4. IsFiniteSet(P)
    BY <1>2, <1>3, FS_Subset, Zenon
  <1> QED
    BY <1>4, FS_CardinalityType, FS_AddElement, FS_RemoveElement, FS_EmptySet, Zenon

LEMMA SameSignals ==
    ASSUME SignalType, SignalInv, UNCHANGED <<pending, requested, owed, sent, socket>>,
           served' \in [Signals -> Nat], pc' = "loop" => pc = "loop" \/ requested = {}
    PROVE  SignalType' /\ SignalInv'
  <1>1. Infos(socket) \in Nat /\ (requested = {} => Cardinality(requested) = 0)
    BY InfosFinite, SignalSets, Zenon DEF SignalType, Messages
  <1> QED
    BY <1>1 DEF SignalType, SignalInv

LEMMA KillSignals ==
    ASSUME SignalType, SignalInv, NEW g \in Signals, Kill(g)
    PROVE  SignalType' /\ SignalInv'
  <1> USE DEF SignalType
  <1>1. /\ pending' = pending \cup {g} /\ sent' = [sent EXCEPT ![g] = @ + 1]
        /\ UNCHANGED <<pc, requested, owed, served, socket>> /\ Sum(sent) < MaxSignals
    BY DEF Kill, Sum, mainVars
  <1>2. Sum(sent') = Sum(sent) + 1 /\ Sum(sent) \in Nat /\ sent' \in [Signals -> Nat]
    <2>1. /\ \A h \in Signals : sent[h] \in Nat
          /\ \A h \in Signals : sent'[h] = IF h = g THEN sent[h] + 1 ELSE sent[h]
      BY <1>1
    <2>2. sent' \in [Signals -> Nat]
      BY <1>1
    <2> QED
      BY ONLY <2>1, <2>2, g \in Signals DEF Sum, Signals
  <1>3. /\ Cardinality(pending \cup {g}) <= Cardinality(pending) + 1
        /\ Cardinality(pending) \in Nat /\ Cardinality(pending \cup {g}) \in Nat
    BY SignalSets
  <1>4. SignalType'
    BY <1>1, <1>2
  <1>5. owed \in Nat
    OBVIOUS
  <1> QED
    BY ONLY <1>1, <1>2, <1>3, <1>4, <1>5, SignalInv, ConstantFacts DEF SignalInv

LEMMA HandlerSignals ==
    ASSUME SignalType, SignalInv, NEW g \in Signals, SignalHandler(g)
    PROVE  SignalType' /\ SignalInv'
  <1> USE DEF SignalType
  <1>1. /\ pending' = pending \ {g} /\ g \in pending
        /\ UNCHANGED <<pc, sent, socket>>
        /\ \/ requested' = requested \cup {g} /\ owed' = owed + 1 /\ served' = served
           \/ requested' = requested /\ owed' = owed /\ served' = [served EXCEPT ![g] = sent[g]]
    BY DEF SignalHandler, Awaited, mainVars
  <1>2. Cardinality(pending') = Cardinality(pending) - 1 /\ Cardinality(pending) \in Nat
    BY <1>1, SignalSets
  <1>3. /\ Cardinality(requested \cup {g}) <= Cardinality(requested) + 1
        /\ Cardinality(requested) \in Nat /\ Cardinality(requested \cup {g}) \in Nat
    BY SignalSets
  <1>4. Infos(socket) \in Nat
    BY InfosFinite, Zenon DEF Messages
  <1>5. SignalType'
    BY <1>1
  <1>6. Sum(sent) \in Nat /\ owed \in Nat
    BY DEF Sum, Signals
  <1>7. owed' + Cardinality(pending') <= Sum(sent)
    BY ONLY <1>1, <1>2, <1>6, SignalInv DEF SignalInv
  <1>8. pc' = "loop" => Cardinality(requested') <= owed' + Infos(socket)
    <2>1. pc = "loop" => Cardinality(requested) <= owed + Infos(socket)
      BY DEF SignalInv
    <2>2. \/ Cardinality(requested') = Cardinality(requested \cup {g}) /\ owed' = owed + 1
          \/ Cardinality(requested') = Cardinality(requested) /\ owed' = owed
      BY ONLY <1>1
    <2> QED
      BY ONLY <1>1, <2>1, <2>2, <1>3, <1>4, <1>6
  <1> QED
    BY ONLY <1>1, <1>5, <1>7, <1>8, SignalInv DEF SignalInv

LEMMA KernelSignals ==
    ASSUME SignalType, SignalInv, KernelAnswers \/ KernelEvent
    PROVE  SignalType' /\ SignalInv'
  <1> USE DEF SignalType
  <1>1. /\ UNCHANGED <<pc, pending, requested, sent, served>>
        /\ \/ owed > 0 /\ owed' = owed - 1 /\ socket' = Append(socket, "info")
           \/ owed' = owed /\ socket' = Append(socket, "event")
    BY DEF KernelAnswers, KernelEvent, mainVars, signalVars
  <1>2. /\ Append(socket, "info") \in Seq(Messages) /\ Append(socket, "event") \in Seq(Messages)
        /\ Infos(Append(socket, "info")) = Infos(socket) + 1
        /\ Infos(Append(socket, "event")) = Infos(socket)
        /\ Infos(socket) \in Nat
    BY InfosAppend, InfosFinite, Zenon DEF Messages
  <1>3. Cardinality(requested) \in Nat /\ Cardinality(pending) \in Nat
    BY SignalSets
  <1>4. SignalType'
    <2>1. owed' \in Nat
      BY <1>1
    <2> QED
      BY <1>1, <1>2, <2>1, Zenon DEF Messages
  <1>5. Sum(sent) \in Nat /\ owed \in Nat
    BY DEF Sum, Signals
  <1>6. /\ owed' + Infos(socket') >= owed + Infos(socket) /\ owed' <= owed
        /\ owed' \in Nat /\ Infos(socket') \in Nat
    <2>1. \/ owed > 0 /\ owed' = owed - 1 /\ Infos(socket') = Infos(socket) + 1
          \/ owed' = owed /\ Infos(socket') = Infos(socket)
      BY ONLY <1>1, <1>2, Zenon
    <2> QED
      BY ONLY <2>1, <1>2, <1>5
  <1>7. /\ owed' + Cardinality(pending) <= Sum(sent)
        /\ pc = "loop" => Cardinality(requested) <= owed' + Infos(socket')
    BY ONLY <1>2, <1>3, <1>5, <1>6, SignalInv DEF SignalInv
  <1> QED
    BY ONLY <1>1, <1>4, <1>7, SignalInv DEF SignalInv

LEMMA NetlinkSignals ==
    ASSUME SignalType, SignalInv, netlink_handler
    PROVE  SignalType' /\ SignalInv'
  <1> USE DEF SignalType
  <1>1. /\ UNCHANGED <<pc, pending, owed, sent>> /\ socket # <<>> /\ socket' = Tail(socket)
    BY DEF netlink_handler, mainVars
  <1>2. /\ Tail(socket) \in Seq(Messages) /\ Infos(socket) \in Nat /\ Infos(Tail(socket)) \in Nat
        /\ Infos(Tail(socket)) = IF Head(socket) = "info" THEN Infos(socket) - 1 ELSE Infos(socket)
    BY <1>1, InfosTail, InfosFinite, Zenon DEF Messages
  <1>3. /\ requested' \subseteq Signals /\ served' \in [Signals -> Nat]
        /\ \/ Head(socket) = "event" /\ requested' = requested
           \/ Head(socket) = "info" /\ \E g \in requested : requested' = requested \ {g}
           \/ requested' = {}
    BY Zenon DEF netlink_handler, NetlinkEvent, NetlinkHup, NetlinkUsr, Answers, Signals
  <1>4. /\ Cardinality(requested) \in Nat
        /\ \/ Cardinality(requested') = Cardinality(requested) /\ Head(socket) = "event"
           \/ Cardinality(requested') = Cardinality(requested) - 1 /\ Head(socket) = "info"
           \/ Cardinality(requested') = 0
    <2>1. /\ Cardinality(requested) \in Nat
          /\ \A g \in requested : Cardinality(requested \ {g}) = Cardinality(requested) - 1
          /\ Cardinality({}) = 0
      BY SignalSets, FS_EmptySet
    <2> QED
      BY ONLY <1>3, <2>1, Zenon
  <1>5. SignalType'
    BY <1>1, <1>2, <1>3 DEF Messages
  <1> QED
    BY <1>1, <1>2, <1>4, <1>5 DEF SignalInv

LEMMA NextSignals ==
    ASSUME SignalType, SignalInv, MainInv, [Next]_vars
    PROVE  SignalType' /\ SignalInv'
  <1>1. CASE \E i \in 1 .. Len(Startup) : StepDone(i) \/ StepFails(i)
    <2>1. pc \in StartSteps
      BY <1>1, StartupSteps DEF StepDone, StepFails
    <2>2. requested = {}
      BY <2>1 DEF MainInv, Starting
    <2> QED
      BY <1>1, <2>2, SameSignals DEF StepDone, StepFails, signalVars, SignalType
  <1>2. CASE \E g \in Signals : Kill(g) \/ SignalHandler(g)
    BY <1>2, KillSignals, HandlerSignals
  <1>3. CASE KernelAnswers \/ KernelEvent
    BY <1>3, KernelSignals
  <1>4. CASE netlink_handler
    BY <1>4, NetlinkSignals
  <1>5. CASE ConfigLoads \/ pipe_handler
    <2>1. [served EXCEPT !["SIGHUP"] = sent["SIGHUP"]] \in [Signals -> Nat]
      BY DEF SignalType, Signals
    <2>2. served' \in [Signals -> Nat]
      BY <1>5, <2>1 DEF ConfigLoads, pipe_handler, SignalType
    <2> QED
      BY <1>5, <2>2, SameSignals DEF ConfigLoads, pipe_handler, mainVars
  <1>6. CASE DaemonEnd
    <2>1. SubSeq(socket, 1, 0) \in Seq(Messages)
      BY DEF SignalType, Messages
    <2>2. \A n \in 0 .. Len(socket) : SubSeq(socket, n + 1, Len(socket)) \in Seq(Messages)
      BY DEF SignalType, Messages
    <2> QED
      BY <1>6, <2>2 DEF DaemonEnd, signalVars, SignalType, SignalInv, Messages
  <1>7. CASE \/ ConfigUnlocks \/ term_handler \/ LeaveLoop \/ close_down \/ Joined
             \/ thread_killer \/ FlushThread \/ SpuriousWakeup \/ UNCHANGED vars
    <2>1. UNCHANGED <<pending, requested, owed, sent, served, socket>>
          /\ (pc' = "loop" => pc = "loop")
      BY <1>7 DEF ConfigUnlocks, term_handler, LeaveLoop, close_down, Joined, thread_killer,
         FlushThread, SpuriousWakeup, vars, mainVars, signalVars
    <2> QED
      BY <2>1, SameSignals DEF SignalType
  <1> QED
    BY <1>1, <1>2, <1>3, <1>4, <1>5, <1>6, <1>7 DEF Next, Exited

-----------------------------------------------------------------------------
(* SIGHUP and its event. *)

ConfigType ==
    /\ cur_event \in Ptr /\ reconfig_ev \in Ptr /\ heap \in [1 .. Buffers -> Free .. file]
    /\ config_thread \in [pc : {"none", "loading", "unlocking"}, ev : Ptr]
    /\ pipe \in {0, 6}
    /\ file \in Nat /\ active \in 0 .. file /\ refused \in 0 .. file

Asked == "SIGHUP" \in pending \/ "SIGHUP" \in requested

Busy == Asked \/ config_thread.pc = "loading" \/ pipe # 0

ConfigInv ==
    /\ ~undefined
    /\ "SIGHUP" \in pending => "SIGHUP" \notin requested
    /\ Asked => config_thread.pc = "none" /\ pipe = 0
    /\ IF config_thread.pc = "loading"
         THEN /\ pipe = 0 /\ config_thread.ev = reconfig_ev /\ reconfig_ev # 0
              /\ heap[reconfig_ev] = Live /\ reconfig_ev # cur_event
         ELSE config_thread.ev = 0
    /\ pipe # 0 => reconfig_ev # 0 /\ heap[reconfig_ev] = file
    /\ cur_event # 0 => heap[cur_event] = Live
    /\ \A b \in 1 .. Buffers : heap[b] # Free =>
          \/ b \in {cur_event, config_thread.ev}
          \/ pipe # 0 /\ b = reconfig_ev
    /\ IF Busy THEN file > 0 /\ sent["SIGHUP"] # served["SIGHUP"] ELSE file \in {active, refused}

LEMMA HeapUpdate ==
    ASSUME ConfigType, NEW b \in 1 .. Buffers
    PROVE  /\ file \in Free .. file /\ Free \in Free .. file /\ Live \in Free .. file
           /\ \A v \in Free .. file : [heap EXCEPT ![b] = v] \in [1 .. Buffers -> Free .. file]
  BY DEF ConfigType, Free, Live

LEMMA SameConfig ==
    ASSUME ConfigType, ConfigInv, UNCHANGED <<eventVars, configVars, undefined>>,
           "SIGHUP" \in pending' <=> "SIGHUP" \in pending,
           "SIGHUP" \in requested' <=> "SIGHUP" \in requested,
           sent'["SIGHUP"] = sent["SIGHUP"], served'["SIGHUP"] = served["SIGHUP"]
    PROVE  ConfigType' /\ ConfigInv'
  BY DEF ConfigType, ConfigInv, Asked, Busy, eventVars, configVars

LEMMA KillConfig ==
    ASSUME Careful, SignalType, ConfigType, ConfigInv, NEW g \in Signals, Kill(g)
    PROVE  ConfigType' /\ ConfigInv'
  <1>1. CASE g # "SIGHUP"
    <2>1. UNCHANGED <<eventVars, configVars, undefined, requested, served>>
          /\ ("SIGHUP" \in pending' <=> "SIGHUP" \in pending)
          /\ sent'["SIGHUP"] = sent["SIGHUP"]
      BY <1>1 DEF Kill, configVars, boundVars, SignalType, Signals
    <2> QED
      BY <2>1, SameConfig
  <1>2. CASE g = "SIGHUP"
    <2>1. /\ sent["SIGHUP"] = served["SIGHUP"] /\ config_thread.pc = "none"
          /\ sent'["SIGHUP"] = sent["SIGHUP"] + 1 /\ sent["SIGHUP"] \in Nat
          /\ file' = file + 1 /\ "SIGHUP" \in pending' /\ served' = served
          /\ UNCHANGED <<requested, cur_event, reconfig_ev, heap, config_thread, pipe, active,
                         refused, undefined>>
      BY <1>2 DEF Kill, SignalType, Signals, eventVars, boundVars
    <2>2. ~Busy
      BY <2>1 DEF ConfigInv
    <2>3. ConfigType'
      BY <2>1 DEF ConfigType, Free
    <2>4. ConfigInv'
      BY <2>1, <2>2 DEF ConfigInv, ConfigType, Asked, Busy, Ptr
    <2> QED
      BY <2>3, <2>4
  <1> QED
    BY <1>1, <1>2

LEMMA HandlerConfig ==
    ASSUME SignalType, ConfigType, ConfigInv, NEW g \in Signals, SignalHandler(g)
    PROVE  ConfigType' /\ ConfigInv'
  <1>1. CASE g # "SIGHUP"
    <2>1. UNCHANGED <<eventVars, configVars, undefined, sent>>
          /\ ("SIGHUP" \in pending' <=> "SIGHUP" \in pending)
          /\ ("SIGHUP" \in requested' <=> "SIGHUP" \in requested)
          /\ served'["SIGHUP"] = served["SIGHUP"]
      BY <1>1 DEF SignalHandler, Awaited, configVars, SignalType, Signals
    <2> QED
      BY <2>1, SameConfig
  <1>2. CASE g = "SIGHUP"
    <2>1. /\ "SIGHUP" \in pending /\ "SIGHUP" \notin pending'
          /\ UNCHANGED <<sent, cur_event, reconfig_ev, heap, config_thread, pipe, file, active,
                         undefined>>
          /\ \/ "SIGHUP" \in requested' /\ served' = served /\ refused' = refused
             \/ /\ requested' = requested /\ served'["SIGHUP"] = sent["SIGHUP"]
                /\ refused' = file
      BY <1>2 DEF SignalHandler, Awaited, SignalType, Signals, eventVars
    <2>2. ConfigType'
      BY <2>1 DEF ConfigType
    <2>3. ConfigInv'
      BY <2>1 DEF ConfigInv, ConfigType, Asked, Busy
    <2> QED
      BY <2>2, <2>3
  <1> QED
    BY <1>1, <1>2

LEMMA NetlinkConfig ==
    ASSUME SignalType, ConfigType, ConfigInv, netlink_handler
    PROVE  ConfigType' /\ ConfigInv'
  <1> PICK b \in 1 .. Buffers : NetlinkEvent(b) \/ NetlinkHup(b) \/ NetlinkUsr(b)
    BY DEF netlink_handler
  <1>1. UNCHANGED <<pending, sent, pipe, file, active>>
    BY DEF netlink_handler
  <1>2. /\ b # 0 /\ (heap[b] = Live \/ heap[b] = Free)
        /\ cur_event # 0 => b = cur_event
        /\ b # config_thread.ev
        /\ pipe # 0 => b # reconfig_ev
    BY DEF NetlinkEvent, NetlinkHup, NetlinkUsr, Received, ConfigInv, ConfigType, Live, Free,
       Busy, Ptr
  <1>3. CASE NetlinkEvent(b)
    <2>1. /\ heap' = [heap EXCEPT ![b] = Free] /\ cur_event' = 0
          /\ UNCHANGED <<requested, served, reconfig_ev, config_thread, refused, undefined>>
      BY <1>3 DEF NetlinkEvent
    <2>2. ConfigType'
      <3>1. heap' \in [1 .. Buffers -> Free .. file]
        BY <2>1, HeapUpdate
      <3> QED
        BY <1>1, <2>1, <3>1, ConstantFacts DEF ConfigType, Ptr
    <2> QED
      BY <1>1, <1>2, <2>1, <2>2 DEF ConfigInv, ConfigType, Asked, Busy, Ptr, Live, Free
  <1>4. CASE NetlinkHup(b)
    <2>1. config_thread.pc = "none" /\ pipe = 0 /\ "SIGHUP" \in requested
      BY <1>4 DEF NetlinkHup, ConfigInv, Asked
    <2>2. /\ heap' = [heap EXCEPT ![b] = Live] /\ cur_event' = 0 /\ reconfig_ev' = b
          /\ config_thread' = [pc |-> "loading", ev |-> b] /\ "SIGHUP" \notin requested'
          /\ UNCHANGED <<served, refused, undefined>>
      BY <1>4, <2>1 DEF NetlinkHup, Given
    <2>3. ConfigType'
      <3>1. heap' \in [1 .. Buffers -> Free .. file]
        BY <2>2, HeapUpdate
      <3> QED
        BY <1>1, <2>2, <3>1, ConstantFacts DEF ConfigType, Ptr
    <2> QED
      BY <1>1, <1>2, <2>1, <2>2, <2>3 DEF ConfigInv, ConfigType, Asked, Busy, Ptr, Live, Free
  <1>5. CASE NetlinkUsr(b)
    <2>1. /\ heap' = [heap EXCEPT ![b] = Live] /\ cur_event' = b
          /\ "SIGHUP" \notin requested /\ "SIGHUP" \notin requested'
          /\ UNCHANGED <<reconfig_ev, config_thread, refused, undefined>>
      BY <1>5 DEF NetlinkUsr
    <2>2. served'["SIGHUP"] = served["SIGHUP"]
      BY <1>5, <2>1 DEF NetlinkUsr, Answers, Signals
    <2>3. ConfigType'
      BY <1>1, <2>1, HeapUpdate, ConstantFacts DEF ConfigType, Ptr
    <2> QED
      BY <1>1, <1>2, <2>1, <2>2, <2>3 DEF ConfigInv, ConfigType, Asked, Busy, Ptr, Live, Free
  <1> QED
    BY <1>3, <1>4, <1>5

LEMMA LoadsConfig ==
    ASSUME SignalType, ConfigType, ConfigInv, ConfigLoads
    PROVE  ConfigType' /\ ConfigInv'
  <1>1. /\ UNCHANGED <<pending, requested, sent, cur_event, reconfig_ev, file, active, undefined>>
        /\ config_thread.pc = "loading" /\ config_thread' = [pc |-> "unlocking", ev |-> 0]
    BY DEF ConfigLoads
  <1>2. /\ ~Asked /\ pipe = 0 /\ config_thread.ev = reconfig_ev /\ reconfig_ev \in 1 .. Buffers
        /\ reconfig_ev # cur_event /\ file > 0
    BY <1>1 DEF ConfigInv, ConfigType, Busy, Ptr
  <1>3. \/ /\ heap' = [heap EXCEPT ![reconfig_ev] = file] /\ pipe' = 6
           /\ UNCHANGED <<refused, served>>
        \/ /\ heap' = [heap EXCEPT ![reconfig_ev] = Free] /\ pipe' = 0 /\ refused' = file
           /\ served'["SIGHUP"] = sent["SIGHUP"]
    BY <1>2 DEF ConfigLoads, SignalType, Signals
  <1>4. ConfigType'
    <2>1. heap' \in [1 .. Buffers -> Free .. file]
      <3>1. /\ [heap EXCEPT ![reconfig_ev] = file] \in [1 .. Buffers -> Free .. file]
            /\ [heap EXCEPT ![reconfig_ev] = Free] \in [1 .. Buffers -> Free .. file]
        BY <1>2, HeapUpdate
      <3> QED
        BY ONLY <1>3, <3>1
    <2>2. refused' \in 0 .. file /\ pipe' \in {0, 6}
      BY <1>3 DEF ConfigType
    <2> QED
      BY <1>1, <2>1, <2>2, ConstantFacts DEF ConfigType, Ptr
  <1>5. heap \in [1 .. Buffers -> Free .. file]
    BY DEF ConfigType
  <1>6. /\ \A b \in 1 .. Buffers : b # reconfig_ev => heap'[b] = heap[b]
        /\ cur_event' # 0 => heap'[cur_event'] = Live
        /\ \A b \in 1 .. Buffers : heap'[b] # Free => b \in {cur_event, reconfig_ev}
    <2>1. \A b \in 1 .. Buffers : b # reconfig_ev => heap'[b] = heap[b]
      BY ONLY <1>2, <1>3, <1>5, Zenon
    <2>2. cur_event # 0 => cur_event \in 1 .. Buffers /\ heap[cur_event] = Live
      BY DEF ConfigInv, ConfigType, Ptr
    <2>3. \A b \in 1 .. Buffers : heap[b] # Free => b \in {cur_event, reconfig_ev}
      BY <1>2 DEF ConfigInv
    <2> QED
      BY ONLY <1>1, <1>2, <2>1, <2>2, <2>3
  <1>7. \/ pipe' = 6 /\ heap'[reconfig_ev] = file /\ served' = served
        \/ pipe' = 0 /\ heap'[reconfig_ev] = Free /\ refused' = file
    BY ONLY <1>2, <1>3, <1>5, Zenon
  <1>8. ~undefined /\ ~Asked' /\ reconfig_ev' = reconfig_ev /\ reconfig_ev # 0
    BY <1>1, <1>2 DEF ConfigInv, Asked
  <1>9. sent["SIGHUP"] # served["SIGHUP"]
    BY <1>1 DEF ConfigInv, Busy
  <1> QED
    BY ONLY <1>1, <1>2, <1>4, <1>6, <1>7, <1>8, <1>9 DEF ConfigInv, Asked, Busy

LEMMA PipeConfig ==
    ASSUME SignalType, ConfigType, ConfigInv, pipe_handler
    PROVE  ConfigType' /\ ConfigInv'
  <1>1. /\ UNCHANGED <<pending, requested, sent, cur_event, config_thread, file, refused>>
        /\ pipe # 0 /\ reconfig_ev' = 0
    BY DEF pipe_handler
  <1>2. /\ pipe = 6 /\ pipe' = 0 /\ ~Asked /\ config_thread.pc # "loading"
        /\ reconfig_ev \in 1 .. Buffers /\ heap[reconfig_ev] = file /\ file > 0
        /\ reconfig_ev # cur_event
    BY <1>1 DEF pipe_handler, ConfigInv, ConfigType, Busy, Ptr, Live
  <1>3. /\ active' = file /\ heap' = [heap EXCEPT ![reconfig_ev] = Free]
        /\ served'["SIGHUP"] = sent["SIGHUP"] /\ undefined' = undefined
    BY <1>2 DEF pipe_handler, SignalType, Signals, ConfigType
  <1>4. ConfigType'
    <2>1. heap' \in [1 .. Buffers -> Free .. file]
      BY <1>2, <1>3, HeapUpdate
    <2> QED
      BY <1>1, <1>2, <1>3, <2>1, ConstantFacts DEF ConfigType, Ptr
  <1> QED
    BY <1>1, <1>2, <1>3, <1>4 DEF ConfigInv, ConfigType, Asked, Busy, Ptr, Live, Free

LEMMA EndConfig ==
    ASSUME ConfigType, ConfigInv, DaemonEnd
    PROVE  ConfigType' /\ ConfigInv'
  <1>1. /\ UNCHANGED <<pending, requested, sent, served, reconfig_ev, configVars, undefined>>
        /\ cur_event' = 0
        /\ heap' = IF cur_event = 0 THEN heap ELSE [heap EXCEPT ![cur_event] = Free]
    BY DEF DaemonEnd, signalVars, boundVars
  <1>2. ConfigType'
    BY <1>1, HeapUpdate, ConstantFacts DEF ConfigType, Ptr, configVars
  <1> QED
    BY <1>1, <1>2 DEF ConfigInv, ConfigType, Asked, Busy, Ptr, Live, Free, configVars

LEMMA NextConfig ==
    ASSUME Careful, SignalType, ConfigType, ConfigInv, [Next]_vars
    PROVE  ConfigType' /\ ConfigInv'
  <1>1. CASE \E g \in Signals : Kill(g) \/ SignalHandler(g)
    BY <1>1, KillConfig, HandlerConfig
  <1>2. CASE netlink_handler
    BY <1>2, NetlinkConfig
  <1>3. CASE ConfigLoads \/ pipe_handler \/ DaemonEnd
    BY <1>3, LoadsConfig, PipeConfig, EndConfig
  <1>4. CASE ConfigUnlocks
    BY <1>4 DEF ConfigUnlocks, ConfigType, ConfigInv, Asked, Busy, Ptr, eventVars, signalVars,
       boundVars
  <1>5. CASE \/ \E i \in 1 .. Len(Startup) : StepDone(i) \/ StepFails(i)
             \/ KernelAnswers \/ KernelEvent \/ term_handler \/ LeaveLoop \/ close_down
             \/ Joined \/ thread_killer \/ FlushThread \/ SpuriousWakeup \/ UNCHANGED vars
    <2>1. UNCHANGED <<pending, requested, sent, served, eventVars, configVars, undefined>>
      BY <1>5 DEF StepDone, StepFails, KernelAnswers, KernelEvent, term_handler, LeaveLoop,
         close_down, Joined, thread_killer, FlushThread, SpuriousWakeup, vars, signalVars,
         boundVars
    <2> QED
      BY <2>1, SameConfig
  <1> QED
    BY <1>1, <1>2, <1>3, <1>4, <1>5 DEF Next, Exited

-----------------------------------------------------------------------------
(* The theorems. *)

DInv == FlushInv /\ MainInv /\ SignalType /\ SignalInv /\ ConfigType /\ ConfigInv

LEMMA InitDInv == Init => DInv
  <1> SUFFICES ASSUME Init PROVE DInv
    OBVIOUS
  <1> USE DEF Init
  <1>1. FlushInv
    <2>1. async \in BOOLEAN /\ flush \in BOOLEAN
      BY Zenon
    <2>2. count \in 0 .. Freq - 1
      BY ConstantFacts
    <2> QED
      BY <2>1, <2>2 DEF FlushInv
  <1>2. MainInv
    <2>1. pc \in StartSteps
      BY StartupSteps
    <2> QED
      BY <2>1 DEF MainInv, Starting, Running, StartSteps
  <1>3. SignalType
    BY DEF SignalType
  <1>4. SignalInv
    <2>1. Cardinality(pending) = 0 /\ Sum(sent) = 0
      BY FS_EmptySet DEF Sum, Signals
    <2>2. pc # "loop"
      BY StartupSteps DEF StartSteps
    <2> QED
      BY <2>1, <2>2, ConstantFacts DEF SignalInv
  <1>5. ConfigType
    BY ConstantFacts DEF ConfigType, Ptr, Free
  <1>6. ConfigInv
    BY DEF ConfigInv, Asked, Busy
  <1> QED
    BY <1>1, <1>2, <1>3, <1>4, <1>5, <1>6 DEF DInv

LEMMA NextDInv ==
    ASSUME Careful, DInv, [Next]_vars
    PROVE  DInv'
  BY NextFlush, NextMain, NextSignals, NextConfig DEF DInv

LEMMA Invariant ==
    ASSUME Careful
    PROVE  Spec => []DInv
  BY InitDInv, NextDInv, PTL DEF Spec

\* The events of auditd, with any number of buffers, signals and faults: none is
\* used after it was freed, lost, or shared by the event loop and the
\* configuration thread (netlink_handler, start_config_manager, config_thread_main
\* and pipe_handler), if a SIGHUP comes only when the one before is done with.
THEOREM EventsAreOwned ==
    ASSUME Careful
    PROVE  Spec => []EventsOwned
  <1>1. DInv => EventsOwned
    BY DEF DInv, ConfigType, ConfigInv, EventsOwned, Ptr, Live
  <1> QED
    BY <1>1, Invariant, PTL

\* The state of auditd stays consistent: every flag has an answer on its way, the
\* parent was told the truth, and when nothing is going on the configuration on
\* disk is the one in use or the one refused last.
THEOREM StaysConsistent ==
    ASSUME Careful
    PROVE  Spec => []Consistent
  <1>1. DInv => TypeOK
    <2> SUFFICES ASSUME DInv PROVE TypeOK
      OBVIOUS
    <2>1. owed \in 0 .. MaxSignals
      <3>1. Cardinality(pending) \in Nat /\ Sum(sent) \in Nat /\ owed \in Nat
        BY SignalSets DEF DInv, SignalType, Sum, Signals
      <3> QED
        BY <3>1, ConstantFacts DEF DInv, SignalInv
    <2>2. /\ pc \in Range(Startup) \cup {"abort", "loop", "ending", "closing", "joining", "exited"}
          /\ told \in {"nothing", "success", "failure"}
      BY StartupSteps DEF DInv, MainInv, Starting, Running
    <2> QED
      BY <2>1, <2>2 DEF DInv, FlushInv, SignalType, ConfigType, TypeOK
  <1>2. DInv => AnswersSuffice
    BY DEF DInv, SignalInv, AnswersSuffice, Infos
  <1>3. DInv => ParentTruthful
    BY DEF DInv, MainInv, Starting, Running, ParentTruthful
  <1>4. DInv => Current
    BY DEF DInv, ConfigType, ConfigInv, Asked, Busy, Current
  <1> QED
    BY <1>1, <1>2, <1>3, <1>4, Invariant, PTL DEF Consistent
=============================================================================
