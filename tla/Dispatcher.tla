----------------------------- MODULE Dispatcher -----------------------------
(***************************************************************************)
(* The event dispatcher inside auditd: its queue (audisp/queue.c), the     *)
(* outbound thread and the libdisp_* calls of the main thread              *)
(* (audisp/audispd.c).                                                     *)
(*                                                                         *)
(* The main thread receives events, numbered 1, 2, ..., and runs the       *)
(* signal work: SIGHUP (libdisp_reconfigure), SIGUSR2 (libdisp_resume) and *)
(* the end of the daemon (libdisp_shutdown).  The outbound thread dequeues *)
(* events and hands them to the plugins.  The threads share the queue      *)
(* under queue_lock, and disp_hup, stop and the condition variable without *)
(* it.  A plugin takes an event or blocks the thread.                      *)
(*                                                                         *)
(* Left out: queue_full_warning, which only limits log messages, and       *)
(* copy_config is one step.                                                *)
(***************************************************************************)
EXTENDS Integers, Sequences, FiniteSets, FiniteSetsExt, Functions

CONSTANTS
    NULL,
    UINT,               \* unsigned int is modulo UINT
    Worlds              \* one of them in each behaviour:
                        \*   depths   the values of q_depth in auditd.conf
                        \*   actions  the values of overflow_action
                        \*   go       a SIGHUP may find no active plugin
                        \*   spurious pthread_cond_wait may return without a signal
                        \*   reading  the plugins read what they are sent
                        \*   events, hups   bounds: events received, SIGHUPs

ASSUME NumberAssumption == UINT \in Nat /\ NULL \notin Nat

ASSUME WorldAssumption ==
    \A w \in Worlds :
       /\ w.depths \subseteq 1 .. UINT - 1 /\ w.depths # {}
       /\ w.actions \subseteq {"O_IGNORE", "O_SYSLOG", "O_SUSPEND", "O_SINGLE", "O_HALT"}
       /\ w.actions # {}
       /\ w.events \in Nat /\ w.hups \in Nat

\* The largest ring of all.
Deepest == Max(UNION {w.depths : w \in Worlds})

ASSUME DepthAssumption ==
    Deepest \in Nat /\ \A w \in Worlds : \A d \in w.depths : d <= Deepest

VARIABLES
    \* queue.c
    q, q_next, q_last, q_depth,     \* the ring
    currently_used, max_used,
    processing_suspended, overflowed,
    memory,                         \* of the ring: "none", "live" or "freed"
    \* audispd.c
    disp_hup, stop, need_queue_depth_change,
    daemon_config,                  \* q_depth and overflow_action
    listed,                         \* plugin_conf has entries
    \* the threads
    main, retry_cnt,                \* where main is; enqueue's counter
    outbound,                       \* where the outbound thread is
    dying,                          \* number of those past plist_clear
    \* what is going on
    seen,                           \* events received
    wanted, loaded,                 \* plugin configuration: asked for, in use
    sent, out,                      \* events enqueue accepted, events taken
    dropped,                        \* those freed with a ring, never taken
    world

ring == <<q, q_next, q_last, q_depth>>
counts == <<currently_used, max_used>>
flags == <<disp_hup, stop, need_queue_depth_change, daemon_config, listed>>
history == <<seen, wanted, loaded, sent, out, dropped>>
vars == <<ring, counts, processing_suspended, overflowed, memory, flags,
          main, retry_cnt, outbound, dying, history, world>>

Configs == [q_depth : world.depths, overflow_action : world.actions]
EmptyRing(n) == [i \in 0 .. n - 1 |-> NULL]
Entries == {q[i] : i \in 0 .. q_depth - 1} \ {NULL}

NextSlot(n) == (n + 1) % q_depth

\* Mutant: dequeue does not count.
OneLess_Not == currently_used

\* currently_used-- of dequeue.
OneLess == (currently_used - 1) % UINT

\* Mutant: the new array starts empty.
Grown_Fresh(size) == EmptyRing(size)

\* The ring after realloc.
Grown(size) == [i \in 0 .. size - 1 |-> IF i < q_depth THEN q[i] ELSE NULL]

\* Mutant: the counter stays.
Retried_Same == retry_cnt

Retried == retry_cnt + 1

\* After libdisp_init: plugins were found, the thread is running.
Init ==
    /\ world \in Worlds
    /\ daemon_config \in Configs
    /\ q_depth = daemon_config.q_depth
    /\ q = EmptyRing(q_depth)
    /\ q_next = 0 /\ q_last = 0
    /\ currently_used = 0 /\ max_used = 0
    /\ processing_suspended = FALSE /\ overflowed = FALSE
    /\ memory = "live"
    /\ disp_hup = FALSE /\ stop = FALSE
    /\ need_queue_depth_change = TRUE   \* copy_config compared with 0
    /\ listed = TRUE
    /\ main = "idle" /\ retry_cnt = 0
    /\ outbound = "top" /\ dying = 0
    /\ seen = 0 /\ wanted = 1 /\ loaded = 1
    /\ sent = {} /\ out = <<>> /\ dropped = {}

-----------------------------------------------------------------------------
(* The main thread. *)

\* Mutant: enqueue does not signal.
Signal_Lost == UNCHANGED outbound

\* pthread_cond_signal: lost unless the thread is waiting.
Signal == outbound' = IF outbound = "waiting" THEN "woken" ELSE outbound

\* A freed queue is used: undefined behaviour, from where the model says
\* nothing any more.
Undefined ==
    /\ main' = "undefined"
    /\ UNCHANGED <<ring, counts, processing_suspended, overflowed, memory, flags,
                   retry_cnt, outbound, dying, history>>

\* dispatch_event: libdisp_active, then enqueue's look at processing_suspended.
dispatch_event ==
    /\ main = "idle"
    /\ seen < world.events
    /\ seen' = seen + 1
    /\ main' = IF listed /\ ~processing_suspended THEN "enqueue" ELSE "idle"
    /\ retry_cnt' = 0
    /\ UNCHANGED <<ring, counts, processing_suspended, overflowed, memory, flags,
                   outbound, dying, wanted, loaded, sent, out,
                   dropped>>

\* One turn of enqueue's loop, under queue_lock.
EnqueueTry ==
    /\ main = "enqueue"
    /\ retry_cnt <= 3
    /\ outbound # "locked"
    /\ LET n == q_next % q_depth IN
       \/ memory # "live" /\ Undefined
       \/ /\ memory = "live"
          /\ q[n] = NULL
          /\ q' = [q EXCEPT ![n] = seen]
          /\ q_next' = NextSlot(n)
          /\ currently_used' = (currently_used + 1) % UINT
          /\ max_used' = IF currently_used' > max_used THEN currently_used'
                                                       ELSE max_used
          /\ Signal
          /\ main' = "idle"
          /\ sent' = sent \cup {seen}
          /\ UNCHANGED <<q_last, q_depth, processing_suspended, overflowed,
                         memory, flags, retry_cnt, dying, seen, wanted, loaded,
                         out, dropped>>
       \/ /\ memory = "live"
          /\ q[n] # NULL
          /\ retry_cnt' = Retried
          /\ UNCHANGED <<ring, counts, processing_suspended, overflowed, memory,
                         flags, main, outbound, dying, history>>

\* do_overflow_action, and the event is gone.
do_overflow_action ==
    /\ main = "enqueue"
    /\ retry_cnt > 3
    /\ overflowed' = TRUE
    /\ processing_suspended' = (\/ processing_suspended
                                \/ daemon_config.overflow_action = "O_SUSPEND")
    /\ main' = "idle"
    /\ UNCHANGED <<ring, counts, memory, flags, retry_cnt, outbound, dying, history>>

\* libdisp_resume, on SIGUSR2.
libdisp_resume ==
    /\ main = "idle"
    /\ processing_suspended
    /\ processing_suspended' = FALSE
    /\ UNCHANGED <<ring, counts, overflowed, memory, flags, main, retry_cnt,
                   outbound, dying, history>>

copy_config(c) ==
    /\ daemon_config' = c
    /\ need_queue_depth_change' = (\/ need_queue_depth_change
                                   \/ c.q_depth > daemon_config.q_depth)

\* libdisp_reconfigure while the list has plugins: the flag, then (nudge_queue)
\* the signal.
libdisp_reconfigure(c) ==
    /\ main = "idle"
    /\ wanted <= world.hups
    /\ listed
    /\ wanted' = wanted + 1
    /\ copy_config(c)
    /\ disp_hup' = TRUE
    /\ main' = "nudge"
    /\ UNCHANGED <<ring, counts, processing_suspended, overflowed, memory, stop,
                   listed, retry_cnt, outbound, dying, seen, loaded, sent, out,
                   dropped>>

\* libdisp_reconfigure when it has none, so libdisp_init: no plugin found, or
\* a new queue and a new thread.
libdisp_init(c) ==
    /\ main = "idle"
    /\ wanted <= world.hups
    /\ ~listed
    /\ wanted' = wanted + 1
    /\ copy_config(c)
    /\ loaded' = wanted'
    /\ \/ UNCHANGED <<ring, counts, processing_suspended, overflowed, memory,
                      listed, outbound, dropped>>
       \/ /\ listed' = TRUE
          /\ q_depth' = c.q_depth
          /\ q' = EmptyRing(c.q_depth)
          /\ q_next' = 0 /\ q_last' = 0
          /\ currently_used' = 0 /\ max_used' = 0
          /\ processing_suspended' = FALSE /\ overflowed' = FALSE
          /\ memory' = "live"
          /\ outbound' = "top"
          /\ dropped' = sent \ Range(out)
    /\ UNCHANGED <<disp_hup, stop, main, retry_cnt, dying, seen, sent, out>>

\* libdisp_shutdown, at the end of main.
libdisp_shutdown ==
    /\ main = "idle"
    /\ ~stop
    /\ stop' = TRUE
    /\ main' = IF listed THEN "nudge" ELSE "ended"
    /\ UNCHANGED <<ring, counts, processing_suspended, overflowed, memory, disp_hup,
                   need_queue_depth_change, daemon_config, listed, retry_cnt,
                   outbound, dying, history>>

nudge_queue ==
    /\ main = "nudge"
    /\ Signal
    /\ main' = IF stop THEN "ended" ELSE "idle"
    /\ UNCHANGED <<ring, counts, processing_suspended, overflowed, memory, flags,
                   retry_cnt, dying, history>>

-----------------------------------------------------------------------------
(* The outbound thread. *)

\* The test of event_loop, and dequeue up to its first look at disp_hup.
DequeueEnter ==
    /\ outbound = "top"
    /\ outbound' = CASE stop -> "quit"
                     [] ~stop /\ disp_hup -> "grow"
                     [] OTHER -> "locked"
    /\ UNCHANGED <<ring, counts, processing_suspended, overflowed, memory, flags,
                   main, retry_cnt, dying, history>>

\* Mutant: q[n] = NULL is forgotten.
Grab_Keeps(n) ==
    /\ q[n] # NULL
    /\ out' = Append(out, q[n])
    /\ q_last' = NextSlot(n)
    /\ currently_used' = OneLess
    /\ outbound' = "deliver"
    /\ UNCHANGED <<q, q_next, q_depth, max_used, seen, wanted, loaded, sent,
                   dropped>>

\* "OK, grab the next event".
Grab(n) ==
    /\ q[n] # NULL
    /\ out' = Append(out, q[n])
    /\ q' = [q EXCEPT ![n] = NULL]
    /\ q_last' = NextSlot(n)
    /\ currently_used' = OneLess
    /\ outbound' = "deliver"
    /\ UNCHANGED <<q_next, q_depth, max_used, seen, wanted, loaded, sent,
                   dropped>>

\* With queue_lock held, the slot at q_last is full or the thread waits.
DequeueLook ==
    /\ outbound = "locked"
    /\ \/ /\ memory # "live"
          /\ Undefined
       \/ /\ memory = "live"
          /\ \/ Grab(q_last % q_depth)
             \/ /\ q[q_last % q_depth] = NULL
                /\ outbound' = "waiting"
                /\ UNCHANGED <<ring, counts, history>>
          /\ UNCHANGED <<processing_suspended, overflowed, memory, flags, main,
                         retry_cnt, dying>>

\* Back from pthread_cond_wait, with the lock.
DequeueWoken ==
    /\ \/ outbound = "woken"
       \/ outbound = "waiting" /\ world.spurious
    /\ \/ /\ memory # "live"
          /\ Undefined
       \/ /\ memory = "live"
          /\ \/ /\ disp_hup
                /\ outbound' = "grow"
                /\ UNCHANGED <<ring, counts, history>>
             \/ ~disp_hup /\ Grab(q_last % q_depth)
             \/ /\ ~disp_hup
                /\ q[q_last % q_depth] = NULL
                /\ currently_used' = OneLess
                /\ outbound' = "top"
                /\ UNCHANGED <<ring, max_used, history>>
          /\ UNCHANGED <<processing_suspended, overflowed, memory, flags, main,
                         retry_cnt, dying>>

\* The event has been passed to the plugins; back to the top of event_loop, or
\* out of it.
Delivered ==
    /\ outbound = "deliver"
    /\ outbound' = CASE ~disp_hup -> "top"
                     [] disp_hup /\ stop -> "quit"
                     [] disp_hup /\ ~stop -> "grow"
    /\ UNCHANGED <<ring, counts, processing_suspended, overflowed, memory, flags,
                   main, retry_cnt, dying, history>>

\* increase_queue_depth, called by reconfigure.
increase_queue_depth ==
    /\ outbound = "grow"
    /\ need_queue_depth_change' = FALSE
    /\ LET size == daemon_config.q_depth IN
       IF need_queue_depth_change /\ size > q_depth
       THEN /\ q' = Grown(size)
            /\ q_depth' = size
       ELSE UNCHANGED <<q, q_depth>>
    /\ outbound' = "reconfigure"
    /\ UNCHANGED <<q_next, q_last, counts, processing_suspended, overflowed, memory,
                   disp_hup, stop, daemon_config, listed, main, retry_cnt, dying,
                   history>>

\* The rest of reconfigure: the plugins' configuration is read anew.
reconfigure ==
    /\ outbound = "reconfigure"
    /\ processing_suspended' = FALSE
    /\ loaded' = wanted
    /\ \/ outbound' = "reconfigured"
       \/ world.go /\ outbound' = "quit"
    /\ UNCHANGED <<ring, counts, overflowed, memory, flags, main, retry_cnt, dying,
                   seen, wanted, sent, out, dropped>>

\* disp_hup = 0, in outbound_thread_main.
HupDone ==
    /\ outbound = "reconfigured"
    /\ disp_hup' = FALSE
    /\ outbound' = "top"
    /\ UNCHANGED <<ring, counts, processing_suspended, overflowed, memory, stop,
                   need_queue_depth_change, daemon_config, listed, main, retry_cnt,
                   dying, history>>

\* The plugins are told, the list is cleared ...
ThreadQuits ==
    /\ outbound = "quit"
    /\ listed' = FALSE
    /\ outbound' = "none"
    /\ dying' = dying + 1
    /\ UNCHANGED <<ring, counts, processing_suspended, overflowed, memory, disp_hup,
                   stop, need_queue_depth_change, daemon_config, main, retry_cnt,
                   history>>

\* ... and then the queue is freed, whoever's it is by now.
destroy_queue ==
    /\ dying > 0
    /\ \/ memory # "live" /\ Undefined
       \/ /\ memory = "live"
          /\ dying' = dying - 1
          /\ memory' = "freed"
          /\ UNCHANGED <<ring, counts, processing_suspended, overflowed, flags,
                         main, retry_cnt, outbound, history>>

MainStep ==
    \/ dispatch_event
    \/ EnqueueTry
    \/ do_overflow_action
    \/ libdisp_resume
    \/ \E c \in Configs : libdisp_reconfigure(c) \/ libdisp_init(c)
    \/ libdisp_shutdown
    \/ nudge_queue

OutboundStep ==
    \/ DequeueEnter
    \/ DequeueLook
    \/ DequeueWoken
    \/ Delivered
    \/ increase_queue_depth
    \/ reconfigure
    \/ HupDone
    \/ ThreadQuits
    \/ destroy_queue

Next ==
    \/ MainStep /\ UNCHANGED world
    \/ OutboundStep /\ UNCHANGED world

Spec == Init /\ [][Next]_vars

\* The main thread runs, and queue_lock is neither kept for ever nor refused
\* for ever; a plugin that does not read may block the outbound thread
\* elsewhere.
MainSpec ==
    /\ Spec
    /\ WF_vars((do_overflow_action \/ nudge_queue) /\ UNCHANGED world)
    /\ SF_vars(EnqueueTry /\ UNCHANGED world)
    /\ WF_vars(DequeueLook /\ UNCHANGED world)

\* When the plugins read what they are sent, the outbound thread runs too.
FairSpec == MainSpec /\ WF_vars(world.reading /\ OutboundStep /\ UNCHANGED world)

-----------------------------------------------------------------------------
(* Properties. *)

\* No SIGHUP in this world.
Still == world.hups = 0

\* The variables of audisp/queue.c and audispd.c have their types: the indices stay
\* inside the ring through every change of its depth.
TypeOK ==
    /\ daemon_config \in Configs
    /\ q_depth \in world.depths
    /\ q \in [0 .. q_depth - 1 -> 1 .. world.events \cup {NULL}]
    /\ q_next \in 0 .. q_depth - 1 /\ q_last \in 0 .. q_depth - 1
    /\ currently_used \in 0 .. UINT - 1 /\ max_used \in 0 .. UINT - 1
    /\ {processing_suspended, overflowed, disp_hup, stop, listed,
        need_queue_depth_change} \subseteq BOOLEAN
    /\ memory \in {"live", "freed"}
    /\ main \in {"idle", "enqueue", "nudge", "ended", "undefined"}
    /\ retry_cnt \in 0 .. 4
    /\ outbound \in {"top", "locked", "waiting", "woken", "deliver", "grow",
                     "reconfigure", "reconfigured", "quit", "none"}
    /\ dying \in Nat
    /\ seen \in 0 .. world.events
    /\ wanted \in 1 .. world.hups + 1 /\ loaded \in 1 .. world.hups + 1
    /\ Range(out) \subseteq 1 .. world.events

Places == {i \in 0 .. q_depth - 1 : q[(q_last + i) % q_depth] # NULL}
Pending == [i \in 1 .. Cardinality(Places) |-> q[(q_last + i - 1) % q_depth]]
Channel == INSTANCE EventChannel WITH
    Cap <- Deepest, seen <- IF Still THEN seen ELSE 0,
    chan <- IF Still THEN Pending ELSE <<>>, out <- IF Still THEN out ELSE <<>>

\* The queue is a bounded FIFO (EventChannel): with one size of the ring, no
\* event that enqueue accepted is lost, repeated or overtaken, whatever the
\* two threads, retries and overflows do.
RefinesChannel == Channel!Spec

\* The state report's "current plugin queue depth" (write_queue_state) is the
\* number of events in the queue, and the maximum is one it has had, as long
\* as no SIGHUP and no spurious wakeup makes dequeue count for nothing.
UsedIsCount == Still /\ ~world.spurious /\ ~stop =>
    /\ currently_used = Cardinality({i \in DOMAIN q : q[i] # NULL})
    /\ currently_used <= max_used /\ max_used <= q_depth

\* dequeue sleeps only while there is nothing to dequeue ("Wait until its got
\* something in it"): no wakeup is lost between enqueue and dequeue, as long
\* as the ring keeps its size.
SleepsOnlyWhenEmpty == Still /\ memory = "live" /\ outbound = "waiting" => Entries = {}

EventNumbers == 1 .. Max({w.events : w \in Worlds})

\* Whatever is accepted gets to the plugins, if they read, unless the daemon
\* ends first or a SIGHUP comes between.
AllDelivered ==
    \A e \in EventNumbers : Still /\ e \in Entries ~> e \in Range(out) \/ stop

\* Accepted by enqueue and not freed with the ring of a thread that ended.
Kept == sent \ dropped

\* Growing the ring on SIGHUP loses and repeats no event: each one accepted
\* is either still in the ring or was taken, once.  Events are only ever lost
\* with the whole ring, and only where a SIGHUP may find no active plugin.
NothingLost ==
    memory = "live" =>
       /\ Entries \cup Range(out) = Kept
       /\ Cardinality({i \in DOMAIN q : q[i] # NULL}) + Len(out) = Cardinality(Kept)
       /\ dropped # {} => world.go

\* A plugin that stops reading never stops the daemon: enqueue comes back.
EnqueueReturns == main = "enqueue" ~> main # "enqueue"

\* The ring of audisp/queue.c is well formed through every change of its depth,
\* and each event accepted is in it or was taken, once.
QueueSound == TypeOK /\ NothingLost

\* Neither thread waits for ever: what is accepted gets to the plugins, and a
\* plugin that stops reading never stops enqueue.
Progress == AllDelivered /\ EnqueueReturns
=============================================================================
