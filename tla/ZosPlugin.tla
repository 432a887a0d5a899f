------------------------------ MODULE ZosPlugin ------------------------------
(***************************************************************************)
(* audispd-zos-remote (zos-remote-plugin.c, -queue.c, -ldap.c): the main   *)
(* thread encodes events and puts them into a ring, the submission thread  *)
(* takes them out and submits each to the server.  SIGHUP and SIGTERM end  *)
(* the main loop; main then gives the submission thread ten seconds,       *)
(* cancels it, and starts over or exits.                                   *)
(*                                                                         *)
(* A critical section of queue_lock is one step that needs the lock to be  *)
(* free; what keeps the lock is a thread that is cancelled in              *)
(* pthread_cond_wait, which takes the lock back before it ends.            *)
(***************************************************************************)
EXTENDS Integers, Sequences, FiniteSets

CONSTANTS ZosWorlds,    \* [first, later: q_depth of the file, at start and after a SIGHUP]
          MaxZosEvents, \* bound: events that auparse hands to push_event
          MaxZosHups,   \* bound: SIGHUPs
          MaxZosFaults  \* bound: failing calls and timeouts of the LDAP session

\* q_depth_parser bounds q_depth from below.
ASSUME ZosAssumption == \A w \in ZosWorlds : {w.first, w.later} \subseteq Nat \ {0}

DefaultDepth == 1       \* stands for the 64 of plugin_clear_config

VARIABLES
    zworld,
    zpc,            \* of main: "load", "grow", "run", "select", "enqueue", "flush",
                    \*   "join", "again", "exited"
    hand,           \* push_event's: [ev, tries, back: where main goes on]
    zq,             \* [slots, next, last]: q, q_next, q_last
    zlock,          \* queue_lock is held for good
    zstop, zhup,
    tpc,            \* of the submission thread: "none", "init", "head", "dequeue",
                    \*   "wait", "woken", "submit", "sent"
    ber,            \* the event it submits, 0 none
    retry, connected,
    session,        \* the LDAP session, counted
    cancelled,      \* pthread_cancel was called
    made,           \* events handed to push_event
    reached,        \* requests that were sent: <<event, session>>
    accepted,       \* events the server took
    dropped,        \* events given up, with a message in the log
    gone,           \* events that ended with their thread or with the process
    zhups, zfaults

mainVars == <<zpc, hand, zstop, zhup>>
ldapVars == <<ber, retry, connected, session, reached>>
zosVars == <<zworld, mainVars, zq, zlock, tpc, ldapVars, cancelled, made, accepted, dropped, gone, zhups, zfaults>>

NoHand == [ev |-> 0, tries |-> 0, back |-> "run"]

ZosStart(w) ==
  /\ zworld = w /\ zpc = "load" /\ hand = NoHand
  /\ zq = [slots |-> [i \in 0..DefaultDepth - 1 |-> 0], next |-> 0, last |-> 0] /\ zlock = FALSE
  /\ zstop = FALSE /\ zhup = FALSE /\ tpc = "none" /\ ber = 0 /\ retry = 0 /\ connected = FALSE /\ session = 0
  /\ cancelled = FALSE /\ made = 0 /\ reached = <<>> /\ accepted = {} /\ dropped = {} /\ gone = {}
  /\ zhups = 0 /\ zfaults = 0
ZosInit == \E w \in ZosWorlds : ZosStart(w)

----------------------------------------------------------------------------
(* The ring (zos-remote-queue.c).                                          *)
Depth(r) == Cardinality(DOMAIN r.slots)
InQueue == {zq.slots[i] : i \in DOMAIN zq.slots} \ {0}

nudge_queue_Lost(pc) == pc
nudge_queue(pc) == IF pc = "wait" THEN "woken" ELSE pc               \* pthread_cond_signal

Put(r, ev) == [r EXCEPT !.slots[r.next % Depth(r)] = ev, !.next = ((@ % Depth(r)) + 1) % Depth(r)]

Take(r) == [r EXCEPT !.slots[r.last % Depth(r)] = 0, !.last = ((@ % Depth(r)) + 1) % Depth(r)]
AtLast(r) == r.slots[r.last % Depth(r)]

increase_queue_depth(r, size) ==
  IF size > Depth(r)
  THEN [r EXCEPT !.slots = [i \in 0..size - 1 |-> IF i \in DOMAIN @ THEN @[i] ELSE 0]] ELSE r

----------------------------------------------------------------------------
(* Signals, handled on the main thread.                                    *)
Signalled == zpc # "exited"

Term ==
  /\ Signalled /\ ~zstop
  /\ zstop' = TRUE /\ tpc' = nudge_queue(tpc)
  /\ UNCHANGED <<zworld, zpc, hand, zhup, zq, zlock, ldapVars, cancelled, made, accepted, dropped, gone, zhups, zfaults>>

Hup ==
  /\ Signalled /\ zhups < MaxZosHups
  /\ zhup' = TRUE /\ zhups' = zhups + 1 /\ tpc' = nudge_queue(tpc)
  /\ UNCHANGED <<zworld, zpc, hand, zstop, zq, zlock, ldapVars, cancelled, made, accepted, dropped, gone, zfaults>>

----------------------------------------------------------------------------
(* main.                                                                   *)
Exit == zpc' = "exited" /\ gone' = gone \cup InQueue /\ tpc' = "none"    \* destroy_queue; the process ends

Load ==
  /\ zpc = "load"
  /\ zhup' = FALSE
  /\ \/ zpc' = "grow" /\ UNCHANGED <<gone, tpc>>
     \/ Exit                                                         \* bad configuration, or no auparse
  /\ UNCHANGED <<zworld, hand, zstop, zq, zlock, ldapVars, cancelled, made, accepted, dropped, zhups, zfaults>>

Grow ==
  /\ zpc = "grow" /\ ~zlock
  /\ zq' = increase_queue_depth(zq, IF zhups = 0 THEN zworld.first ELSE zworld.later)
  /\ zpc' = "run" /\ tpc' = "init" /\ cancelled' = FALSE
  /\ UNCHANGED <<zworld, hand, zstop, zhup, zlock, ldapVars, made, accepted, dropped, gone, zhups, zfaults>>

LoopHead ==
  /\ zpc = "run"
  /\ zpc' = IF zhup \/ zstop THEN "flush" ELSE "select"
  /\ UNCHANGED <<zworld, hand, zstop, zhup, zq, zlock, tpc, ldapVars, cancelled, made, accepted, dropped, gone, zhups, zfaults>>

(* auparse hands out an event that is complete: push_event encodes it and  *)
(* queues it, skips it, or gives up.                                       *)
push_event(back) ==
  /\ made < MaxZosEvents /\ made' = made + 1
  /\ \/ zpc' = "enqueue" /\ hand' = [ev |-> made + 1, tries |-> 0, back |-> back] /\ UNCHANGED <<zstop, dropped>>
     \/ zpc' = back /\ dropped' = dropped \cup {made + 1} /\ UNCHANGED <<hand, zstop>>
     \/ zpc' = back /\ dropped' = dropped \cup {made + 1} /\ zstop' = TRUE /\ UNCHANGED hand

(* select returns after five seconds at the latest.                        *)
Select ==
  /\ zpc = "select"
  /\ \/ push_event("run")
     \/ zpc' = "run" /\ UNCHANGED <<hand, made, dropped, zstop>>     \* no event yet, a signal, or time to age events
     \/ zpc' = "run" /\ zstop' = TRUE /\ UNCHANGED <<hand, made, dropped>>     \* end of input, or an error
  /\ UNCHANGED <<zworld, zhup, zq, zlock, tpc, ldapVars, cancelled, accepted, gone, zhups, zfaults>>

(* enqueue: four tries, the lock free between them.                        *)
Enqueue ==
  /\ zpc = "enqueue" /\ ~zlock
  /\ LET full == zq.slots[zq.next % Depth(zq)] # 0
     IN \/ /\ ~full /\ zq' = Put(zq, hand.ev) /\ tpc' = nudge_queue(tpc)
           /\ zpc' = hand.back /\ hand' = NoHand /\ UNCHANGED dropped
        \/ /\ full /\ hand.tries < 3 /\ hand' = [hand EXCEPT !.tries = @ + 1]
           /\ UNCHANGED <<zq, zpc, dropped, tpc>>
        \/ /\ full /\ hand.tries = 3 /\ dropped' = dropped \cup {hand.ev}
           /\ zpc' = hand.back /\ hand' = NoHand /\ UNCHANGED <<zq, tpc>>
  /\ UNCHANGED <<zworld, zstop, zhup, zlock, ldapVars, cancelled, made, accepted, gone, zhups, zfaults>>

(* auparse_flush_feed hands out what it still holds.                       *)
Flush ==
  /\ zpc = "flush"
  /\ \/ push_event("flush")
     \/ zpc' = "join" /\ UNCHANGED <<hand, made, dropped, zstop>>
  /\ UNCHANGED <<zworld, zhup, zq, zlock, tpc, ldapVars, cancelled, accepted, gone, zhups, zfaults>>

alarm_handler_Log == FALSE
alarm_handler == TRUE                                                \* pthread_cancel(submission_thread)

Alarm ==
  /\ zpc = "join" /\ tpc # "none" /\ ~cancelled
  /\ cancelled' = alarm_handler
  /\ UNCHANGED <<zworld, mainVars, zq, zlock, tpc, ldapVars, made, accepted, dropped, gone, zhups, zfaults>>

Join ==
  /\ zpc = "join" /\ tpc = "none"
  /\ zpc' = "again"
  /\ UNCHANGED <<zworld, hand, zstop, zhup, zq, zlock, tpc, ldapVars, cancelled, made, accepted, dropped, gone, zhups, zfaults>>

Again ==
  /\ zpc = "again"
  /\ IF zhup /\ ~zstop THEN zpc' = "load" /\ UNCHANGED <<gone, tpc>> ELSE Exit
  /\ UNCHANGED <<zworld, hand, zstop, zhup, zq, zlock, ldapVars, cancelled, made, accepted, dropped, zhups, zfaults>>

----------------------------------------------------------------------------
(* submission_thread_main.                                                 *)
Ends == tpc' = "none" /\ connected' = FALSE                          \* zos_remote_destroy

ThreadInit ==
  /\ tpc = "init"
  /\ session' = session + 1 /\ connected' = FALSE
  /\ \/ tpc' = "head" /\ UNCHANGED <<zstop, zfaults>>
     \/ zfaults < MaxZosFaults /\ zfaults' = zfaults + 1 /\ tpc' = "none" /\ zstop' = TRUE
  /\ UNCHANGED <<zworld, zpc, hand, zhup, zq, zlock, ber, retry, reached, cancelled, made, accepted, dropped, gone, zhups>>

ThreadHead ==
  /\ tpc = "head"
  /\ IF zstop THEN Ends ELSE tpc' = "dequeue" /\ UNCHANGED connected
  /\ UNCHANGED <<zworld, mainVars, zq, zlock, ber, retry, session, reached, cancelled, made, accepted, dropped, gone, zhups, zfaults>>

(* What dequeue does once there is an event: take it and go to submit it.  *)
Grab == zq' = Take(zq) /\ ber' = AtLast(zq) /\ retry' = 1 /\ tpc' = "submit"

Dequeue ==
  /\ tpc = "dequeue" /\ ~zlock
  /\ IF AtLast(zq) # 0 THEN Grab ELSE tpc' = "wait" /\ UNCHANGED <<zq, ber, retry>>
  /\ UNCHANGED <<zworld, mainVars, zlock, connected, session, reached, cancelled, made, accepted, dropped, gone, zhups, zfaults>>

(* pthread_cond_wait returns: there is an event, or dequeue returns NULL   *)
(* and the thread asks for hup.                                            *)
Woken ==
  /\ tpc = "woken" /\ ~zlock
  /\ IF AtLast(zq) # 0 THEN Grab /\ UNCHANGED connected
     ELSE /\ IF zhup THEN Ends ELSE tpc' = "head" /\ UNCHANGED connected
          /\ UNCHANGED <<zq, ber, retry>>
  /\ UNCHANGED <<zworld, mainVars, zlock, session, reached, cancelled, made, accepted, dropped, gone, zhups, zfaults>>

Spurious ==
  /\ tpc = "wait" /\ zfaults < MaxZosFaults
  /\ tpc' = "woken" /\ zfaults' = zfaults + 1
  /\ UNCHANGED <<zworld, mainVars, zq, zlock, ldapVars, cancelled, made, accepted, dropped, gone, zhups>>

(* The result of submit_request_s.  It gives up what is not a success;     *)
(* a fatal error also stops the plugin.                                    *)
Finish(rc) ==
  /\ ber' = 0 /\ tpc' = "head"
  /\ accepted' = IF rc = "success" THEN accepted \cup {ber} ELSE accepted
  /\ dropped' = IF rc = "success" THEN dropped ELSE dropped \cup {ber}
  /\ zstop' = (zstop \/ rc = "fatal")

(* ICTX_E_TRYAGAIN: a new session, once.                                   *)
TryAgain ==
  /\ connected' = FALSE
  /\ \/ retry > 0 /\ session' = session + 1 /\ retry' = retry - 1
        /\ tpc' = "submit" /\ UNCHANGED <<ber, accepted, dropped, zstop>>
     \/ retry > 0 /\ session' = session + 1 /\ retry' = retry - 1 /\ Finish("fatal")
     \/ retry = 0 /\ Finish("tryagain") /\ UNCHANGED <<session, retry>>

(* zos_remote_connect when not connected, then the request.                *)
Submit ==
  /\ tpc = "submit"
  /\ \/ /\ tpc' = "sent" /\ connected' = TRUE /\ reached' = Append(reached, <<ber, session>>)
        /\ UNCHANGED <<ber, retry, session, accepted, dropped, zstop, zfaults>>
     \/ /\ zfaults < MaxZosFaults /\ zfaults' = zfaults + 1 /\ UNCHANGED reached
        /\ \/ TryAgain                                               \* the server is down or busy
           \/ Finish("abort") /\ UNCHANGED <<retry, connected, session>>
           \/ ~connected /\ Finish("fatal") /\ UNCHANGED <<retry, connected, session>>
  /\ UNCHANGED <<zworld, zpc, hand, zhup, zq, zlock, cancelled, made, gone, zhups>>

(* ldap_result and what the answer says; the wait has a timeout.           *)
Result ==
  /\ tpc = "sent"
  /\ \/ Finish("success") /\ UNCHANGED <<retry, connected, session, zfaults>>
     \/ /\ zfaults < MaxZosFaults /\ zfaults' = zfaults + 1
        /\ \/ TryAgain                                               \* the connection went down
           \/ \E rc \in {"abort", "fatal"} :                         \* timeout, refusal; no memory for the answer
                Finish(rc) /\ UNCHANGED <<retry, connected, session>>
  /\ UNCHANGED <<zworld, zpc, hand, zhup, zq, zlock, reached, cancelled, made, gone, zhups>>

(* pthread_cancel takes effect where the thread blocks: in the wait for an *)
(* event, which it leaves with the lock taken, or in a call of the LDAP    *)
(* library.                                                                *)
CancelledAt == {"wait", "submit", "sent"}
Cancelled ==
  /\ cancelled /\ tpc \in CancelledAt
  /\ tpc' = "none" /\ gone' = gone \cup ({ber} \ {0}) /\ ber' = 0
  /\ IF tpc = "wait" THEN ~zlock /\ zlock' = TRUE ELSE UNCHANGED zlock
  /\ UNCHANGED <<zworld, mainVars, zq, retry, connected, session, reached, made, cancelled, accepted, dropped, zhups, zfaults>>

----------------------------------------------------------------------------
MainStep == Load \/ Grow \/ LoopHead \/ Select \/ Enqueue \/ Flush \/ Join \/ Again
ThreadStep == ThreadInit \/ ThreadHead \/ Dequeue \/ Woken \/ Result \/ Cancelled
ZosNext == MainStep \/ ThreadStep \/ Submit \/ Spurious \/ Term \/ Hup \/ Alarm

(* The threads run, select and ldap_result time out, the alarm goes off.   *)
(* Nothing bounds a bind: Submit is left out.                              *)
ZosFair == WF_zosVars(MainStep) /\ WF_zosVars(ThreadStep) /\ WF_zosVars(Alarm)
ZosSpec == ZosInit /\ [][ZosNext]_zosVars /\ ZosFair

----------------------------------------------------------------------------
Enlarged == Depth(zq) > zworld.first                                 \* by a SIGHUP

(* Every event given to push_event is in one place: in a hand, in the      *)
(* ring, taken by the server, dropped with a message, or gone with the     *)
(* thread or the process that held it; and no slot repeats another.        *)
ZosConserve ==
  LET places == <<{hand.ev} \ {0}, InQueue, {ber} \ {0}, accepted, dropped, gone>>
      queued == {i \in DOMAIN zq.slots : zq.slots[i] # 0}
  IN zpc # "exited" =>
     /\ 1..made = UNION {places[i] : i \in DOMAIN places}
     /\ \A i, j \in DOMAIN places : i # j => places[i] \cap places[j] = {}
     /\ Cardinality(queued) = Cardinality(InQueue)

(* Requests reach the server in the order of the events, and none is       *)
(* overtaken in the ring, as long as no SIGHUP made the ring larger.       *)
ZosOrder ==
  ~Enlarged => \A i \in DOMAIN reached :
                 /\ \A j \in DOMAIN reached : i < j => reached[i][1] <= reached[j][1]
                 /\ \A e \in InQueue : reached[i][1] < e

(* The submission thread sleeps only over an empty ring (no signal is lost *)
(* between enqueue and dequeue), as long as no SIGHUP made it larger.      *)
ZosAwake == tpc = "wait" /\ ~Enlarged => InQueue = {}

(* submit_request_s: "retry once and give up", and on a new session: no    *)
(* event is sent more than twice, never twice over one session.            *)
ZosRetry ==
  /\ \A i, j \in DOMAIN reached : i # j => reached[i] # reached[j]
  /\ \A e \in 1..made : Cardinality({i \in DOMAIN reached : reached[i][1] = e}) <= 2

(* Once stop is set the plugin exits, whatever the server does, thanks to  *)
(* the alarm; except when a cancelled thread left with queue_lock.         *)
ZosExits == zstop ~> (zpc = "exited" \/ zlock)

(* After SIGHUP the plugin reads its configuration again and serves, or it *)
(* exits ("re-read config, reconnect to ITDS").                            *)
ZosReload == zhup ~> (~zhup /\ zpc = "run") \/ zpc = "exited"

\* The ring between the two threads (zos-remote-queue.c) loses, repeats and
\* reorders nothing, and the thread that empties it does not miss a signal.
ZosQueue == ZosConserve /\ ZosOrder /\ ZosAwake /\ ZosRetry
=============================================================================
