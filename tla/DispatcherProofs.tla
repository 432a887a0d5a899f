-------------------------- MODULE DispatcherProofs ---------------------------
(***************************************************************************)
(* Proofs about Dispatcher, for every depth of the ring, every number of   *)
(* events and SIGHUPs and every width of unsigned int.                     *)
(***************************************************************************)
EXTENDS Dispatcher, FiniteSetTheorems, SequenceTheorems, TLAPS

-----------------------------------------------------------------------------
(* Arithmetic of the ring. *)

LEMMA SlotInRing ==
    ASSUME NEW d \in Nat \ {0}, NEW n \in 0 .. d - 1
    PROVE  n % d = n
  OBVIOUS

LEMMA SlotAfter ==
    ASSUME NEW d \in Nat \ {0}, NEW n \in 0 .. d - 1
    PROVE  /\ (n + 1) % d = IF n + 1 = d THEN 0 ELSE n + 1
           /\ (n + 1) % d \in 0 .. d - 1
  OBVIOUS

LEMMA Unsigned ==
    ASSUME NEW m \in Nat \ {0}, NEW k \in Int
    PROVE  k % m \in 0 .. m - 1
  OBVIOUS

-----------------------------------------------------------------------------
(* Types. *)

\* TypeOK is not inductive: an event is put into the ring by its number, which
\* must have been counted, and what is taken from it is appended to a sequence.
DType ==
    /\ TypeOK
    /\ world \in Worlds
    /\ out \in Seq(1 .. world.events)
    /\ main = "enqueue" => seen >= 1

LEMMA WorldFacts ==
    ASSUME world \in Worlds
    PROVE  /\ world.events \in Nat /\ world.hups \in Nat
           /\ world.depths \subseteq 1 .. UINT - 1
           /\ UINT \in Nat /\ NULL \notin Nat
           /\ world.depths \subseteq Nat \ {0}
  BY WorldAssumption, NumberAssumption

LEMMA InitDType == Init => DType
  <1> SUFFICES ASSUME Init PROVE DType
    OBVIOUS
  <1>1. world \in Worlds /\ daemon_config.q_depth \in world.depths
    BY DEF Init, Configs
  <1>2. q_depth \in Nat \ {0} /\ q_depth < UINT /\ UINT \in Nat
    BY <1>1, WorldFacts DEF Init
  <1>3. q \in [0 .. q_depth - 1 -> 1 .. world.events \cup {NULL}]
    BY DEF Init, EmptyRing
  <1>4. Range(out) = {} /\ out \in Seq(1 .. world.events)
    BY DEF Init, Range
  <1>5. /\ {processing_suspended, overflowed, disp_hup, stop, listed,
             need_queue_depth_change} \subseteq BOOLEAN
        /\ world.events \in Nat /\ world.hups \in Nat
    BY <1>1, WorldFacts DEF Init
  <1>6. /\ seen \in 0 .. world.events /\ dying \in Nat /\ retry_cnt \in 0 .. 4
        /\ wanted \in 1 .. world.hups + 1 /\ loaded \in 1 .. world.hups + 1
        /\ q_next \in 0 .. q_depth - 1 /\ q_last \in 0 .. q_depth - 1
        /\ currently_used \in 0 .. UINT - 1 /\ max_used \in 0 .. UINT - 1
    BY <1>2, <1>5 DEF Init
  <1>7. /\ daemon_config \in Configs /\ q_depth \in world.depths
        /\ memory = "live" /\ main = "idle" /\ outbound = "top"
    BY <1>1 DEF Init
  <1> QED
    BY <1>1, <1>3, <1>4, <1>5, <1>6, <1>7 DEF DType, TypeOK

LEMMA RangeAppended ==
    ASSUME NEW S, NEW s \in Seq(S), NEW e \in S
    PROVE  /\ Append(s, e) \in Seq(S)
           /\ Range(Append(s, e)) \subseteq S
  BY DEF Range

LEMMA MainDType ==
    ASSUME DType, MainStep, UNCHANGED world
    PROVE  DType'
  <1> USE DEF DType, TypeOK, ring, counts, flags, history
  <1>0. /\ world.events \in Nat /\ world.hups \in Nat
        /\ world.depths \subseteq Nat \ {0} /\ UINT \in Nat \ {0}
    BY WorldFacts
  <1>1. CASE dispatch_event
    BY <1>0, <1>1 DEF dispatch_event, Configs
  <1>2. CASE EnqueueTry
    <2>1. CASE Undefined
      BY <1>0, <2>1, <1>2 DEF Undefined, Configs
    <2>2. ASSUME q[q_next % q_depth] = NULL, main = "enqueue",
                 q' = [q EXCEPT ![q_next % q_depth] = seen],
                 q_next' = NextSlot(q_next % q_depth),
                 currently_used' = (currently_used + 1) % UINT,
                 max_used' = IF currently_used' > max_used THEN currently_used' ELSE max_used,
                 Signal, main' = "idle",
                 UNCHANGED <<q_last, q_depth, processing_suspended, overflowed,
                             memory, flags, retry_cnt, dying, seen, wanted, loaded, out>>
          PROVE DType'
      <3>1. q_depth \in Nat \ {0} /\ q_next % q_depth = q_next
        BY <1>0, SlotInRing
      <3>2. q_next' \in 0 .. q_depth' - 1
        BY <2>2, <3>1, SlotAfter DEF NextSlot
      <3>3. q' \in [0 .. q_depth' - 1 -> 1 .. world'.events \cup {NULL}]
        BY <2>2, <3>1, <1>0
      <3>4a. currently_used + 1 \in Int
        BY <1>0
      <3>4b. currently_used' \in 0 .. UINT - 1
        BY ONLY <2>2, <1>0, <3>4a, Unsigned
      <3>4. currently_used' \in 0 .. UINT - 1 /\ max_used' \in 0 .. UINT - 1
        BY <2>2, <3>4b
      <3>5. outbound' \in {"top", "locked", "waiting", "woken", "deliver", "grow",
                            "reconfigure", "reconfigured", "quit", "none"}
        BY <2>2 DEF Signal
      <3>6. /\ daemon_config' \in Configs' /\ q_depth' \in world'.depths
            /\ q_last' \in 0 .. q_depth' - 1
        BY <2>2 DEF Configs
      <3>7. {processing_suspended, overflowed, disp_hup, stop, listed,
             need_queue_depth_change}' \subseteq BOOLEAN
        BY <2>2
      <3>8. /\ memory' \in {"live", "freed"} /\ retry_cnt' \in 0 .. 4 /\ dying' \in Nat
            /\ seen' \in 0 .. world'.events
            /\ wanted' \in 1 .. world'.hups + 1 /\ loaded' \in 1 .. world'.hups + 1
        BY <2>2
      <3>9. Range(out)' \subseteq 1 .. world'.events /\ out' \in Seq(1 .. world'.events)
        BY <2>2
      <3> QED
        BY <2>2, <3>2, <3>3, <3>4, <3>5, <3>6, <3>7, <3>8, <3>9
    <2>3. CASE retry_cnt' = Retried /\ retry_cnt <= 3
               /\ UNCHANGED <<ring, counts, processing_suspended, overflowed, memory,
                              flags, main, outbound, dying, history>>
      BY <1>0, <2>3 DEF Retried, Configs
    <2> QED
      BY <1>2, <2>1, <2>2, <2>3 DEF EnqueueTry
  <1>3. CASE do_overflow_action
    BY <1>0, <1>3 DEF do_overflow_action, Configs
  <1>4. CASE libdisp_resume
    BY <1>0, <1>4 DEF libdisp_resume, Configs
  <1>5. ASSUME NEW c \in Configs, libdisp_reconfigure(c)
        PROVE DType'
    BY <1>0, <1>5 DEF libdisp_reconfigure, copy_config, Configs
  <1>6. ASSUME NEW c \in Configs, libdisp_init(c)
        PROVE DType'
    <2>1. c.q_depth \in world.depths /\ c.q_depth \in Nat \ {0}
      BY <1>0 DEF Configs
    <2>2. EmptyRing(c.q_depth) \in [0 .. c.q_depth - 1 -> 1 .. world.events \cup {NULL}]
      BY DEF EmptyRing
    <2>3a. /\ main = "idle" /\ wanted <= world.hups
           /\ wanted' = wanted + 1 /\ loaded' = wanted' /\ daemon_config' = c
           /\ need_queue_depth_change' = (\/ need_queue_depth_change
                                          \/ c.q_depth > daemon_config.q_depth)
           /\ UNCHANGED <<disp_hup, stop, main, retry_cnt, dying, seen, sent, out>>
      BY ONLY libdisp_init(c) DEF libdisp_init, copy_config
    <2>3b. wanted' \in 1 .. world'.hups + 1 /\ loaded' \in 1 .. world'.hups + 1
      BY <1>0, <2>3a
    <2>3c. daemon_config' \in Configs' /\ need_queue_depth_change' \in BOOLEAN
      BY ONLY <2>3a, world' = world, c \in Configs DEF Configs
    <2>3. /\ daemon_config' \in Configs' /\ need_queue_depth_change' \in BOOLEAN
          /\ wanted' \in 1 .. world'.hups + 1 /\ loaded' \in 1 .. world'.hups + 1
          /\ main' = "idle"
          /\ UNCHANGED <<disp_hup, stop, retry_cnt, dying, seen, out>>
      BY ONLY <2>3a, <2>3b, <2>3c
    <2>4. CASE UNCHANGED <<ring, counts, processing_suspended, overflowed, memory,
                           listed, outbound, dropped>>
      BY <2>3, <2>4
    <2>5. CASE /\ listed' = TRUE
               /\ q_depth' = c.q_depth
               /\ q' = EmptyRing(c.q_depth)
               /\ q_next' = 0 /\ q_last' = 0
               /\ currently_used' = 0 /\ max_used' = 0
               /\ processing_suspended' = FALSE /\ overflowed' = FALSE
               /\ memory' = "live"
               /\ outbound' = "top"
      <3>1. {processing_suspended, overflowed, disp_hup, stop, listed,
             need_queue_depth_change}' \subseteq BOOLEAN
        BY <2>3, <2>5
      <3>2. /\ q_depth' \in world'.depths /\ q' \in [0 .. q_depth' - 1 -> 1 .. world'.events \cup {NULL}]
            /\ q_next' \in 0 .. q_depth' - 1 /\ q_last' \in 0 .. q_depth' - 1
            /\ currently_used' \in 0 .. UINT - 1 /\ max_used' \in 0 .. UINT - 1
        BY <1>0, <2>1, <2>2, <2>5
      <3>3. Range(out)' \subseteq 1 .. world'.events /\ out' \in Seq(1 .. world'.events)
        BY <2>3
      <3> QED
        BY <2>3, <2>5, <3>1, <3>2, <3>3
    <2> QED
      BY <1>6, <2>4, <2>5 DEF libdisp_init
  <1>7. CASE libdisp_shutdown
    BY <1>0, <1>7 DEF libdisp_shutdown, Configs
  <1>8. CASE nudge_queue
    BY <1>0, <1>8 DEF nudge_queue, Signal, Configs
  <1> QED
    BY <1>1, <1>2, <1>3, <1>4, <1>5, <1>6, <1>7, <1>8 DEF MainStep

LEMMA GrabDType ==
    ASSUME DType, Grab(q_last % q_depth), UNCHANGED world,
           UNCHANGED <<processing_suspended, overflowed, memory, flags, main, retry_cnt, dying>>
    PROVE  DType'
  <1> USE DEF DType, TypeOK, flags
  <1>0. world.depths \subseteq Nat \ {0} /\ UINT \in Nat \ {0} /\ world.events \in Nat
    BY WorldFacts
  <1>1. q_depth \in Nat \ {0} /\ q_last % q_depth = q_last
    BY <1>0, SlotInRing
  <1>2. q[q_last] \in 1 .. world.events
    BY <1>1 DEF Grab
  <1>3. q' \in [0 .. q_depth' - 1 -> 1 .. world'.events \cup {NULL}]
    BY <1>1 DEF Grab
  <1>4. q_last' \in 0 .. q_depth' - 1
    BY <1>1, SlotAfter DEF Grab, NextSlot
  <1>5. currently_used - 1 \in Int
    BY <1>0
  <1>6. currently_used' \in 0 .. UINT - 1
    BY ONLY Grab(q_last % q_depth), <1>0, <1>5, Unsigned DEF Grab, OneLess
  <1>7. out' = Append(out, q[q_last])
    BY <1>1 DEF Grab
  <1>8. out' \in Seq(1 .. world'.events) /\ Range(out)' \subseteq 1 .. world'.events
    BY <1>2, <1>7, RangeAppended
  <1> QED
    BY <1>3, <1>4, <1>6, <1>8 DEF Grab, Configs

LEMMA OutboundDType ==
    ASSUME DType, OutboundStep, UNCHANGED world
    PROVE  DType'
  <1> USE DEF DType, TypeOK, ring, counts, flags, history
  <1>0. /\ world.events \in Nat /\ world.hups \in Nat
        /\ world.depths \subseteq Nat \ {0} /\ UINT \in Nat \ {0}
    BY WorldFacts
  <1>1. CASE DequeueEnter
    BY <1>0, <1>1 DEF DequeueEnter, Configs
  <1>2. CASE Undefined
    BY <1>0, <1>2 DEF Undefined, Configs
  <1>3. CASE DequeueLook
    <2>1. CASE Grab(q_last % q_depth) /\ ~Undefined
      BY <1>3, <2>1, GrabDType DEF DequeueLook
    <2>2. CASE ~Grab(q_last % q_depth) /\ ~Undefined
      BY <1>3, <2>2, <1>0 DEF DequeueLook, Configs
    <2> QED
      BY <1>2, <2>1, <2>2
  <1>4. CASE DequeueWoken
    <2>1. CASE Grab(q_last % q_depth) /\ ~Undefined
      BY <1>4, <2>1, GrabDType DEF DequeueWoken
    <2>2. CASE ~Grab(q_last % q_depth) /\ ~Undefined
      <3>1. currently_used - 1 \in Int
        BY <1>0
      <3>2. OneLess \in 0 .. UINT - 1
        BY ONLY <1>0, <3>1, Unsigned DEF OneLess
      <3> QED
        BY <1>4, <2>2, <1>0, <3>2 DEF DequeueWoken, Configs
    <2> QED
      BY <1>2, <2>1, <2>2
  <1>5. CASE Delivered
    BY <1>0, <1>5 DEF Delivered, Configs
  <1>6. CASE increase_queue_depth
    <2> DEFINE size == daemon_config.q_depth
    <2>1. size \in world.depths /\ size \in Nat \ {0}
      BY <1>0 DEF Configs
    <2>2. q_depth \in Nat \ {0}
      BY <1>0
    <2>3. CASE need_queue_depth_change /\ size > q_depth
      <3>1. q' \in [0 .. q_depth' - 1 -> 1 .. world'.events \cup {NULL}]
        BY <1>6, <2>1, <2>2, <2>3 DEF increase_queue_depth, Grown
      <3>2. q_next \in 0 .. q_depth' - 1 /\ q_last \in 0 .. q_depth' - 1
        BY <1>6, <2>1, <2>2, <2>3 DEF increase_queue_depth
      <3> QED
        BY <1>0, <1>6, <2>1, <2>3, <3>1, <3>2 DEF increase_queue_depth, Configs
    <2>4. CASE ~(need_queue_depth_change /\ size > q_depth)
      BY <1>0, <1>6, <2>4 DEF increase_queue_depth, Configs
    <2> QED
      BY <2>3, <2>4
  <1>7. CASE reconfigure
    BY <1>0, <1>7 DEF reconfigure, Configs
  <1>8. CASE HupDone
    BY <1>0, <1>8 DEF HupDone, Configs
  <1>9. CASE ThreadQuits
    <2>1. dying' \in Nat
      BY <1>9 DEF ThreadQuits
    <2>2. {processing_suspended, overflowed, disp_hup, stop, listed,
           need_queue_depth_change}' \subseteq BOOLEAN
      BY <1>9 DEF ThreadQuits
    <2> QED
      BY <1>9, <2>1, <2>2 DEF ThreadQuits, Configs
  <1>10. CASE destroy_queue
    <2>1. CASE ~Undefined
      <3>1. dying' \in Nat
        BY <1>10, <2>1 DEF destroy_queue
      <3> QED
        BY <1>10, <2>1, <3>1 DEF destroy_queue, Configs
    <2> QED
      BY <1>2, <2>1
  <1> QED
    BY <1>1, <1>3, <1>4, <1>5, <1>6, <1>7, <1>8, <1>9, <1>10 DEF OutboundStep

LEMMA NextDType == DType /\ [Next]_vars => DType'
  <1>1. CASE UNCHANGED vars
    BY <1>1 DEF DType, TypeOK, Configs, vars, ring, counts, flags, history
  <1> QED
    BY <1>1, MainDType, OutboundDType DEF Next

\* The indices stay inside the ring and the slots hold events that were received,
\* for every depth and whatever SIGHUPs make of it (audisp/queue.c).
THEOREM TypeCorrect == Spec => []TypeOK
  <1>1. DType => TypeOK
    BY DEF DType
  <1> QED
    BY <1>1, InitDType, NextDType, PTL DEF Spec

-----------------------------------------------------------------------------
(* Sleeping. *)

Slots == 0 .. q_depth - 1

LEMMA RingFacts ==
    ASSUME DType
    PROVE  /\ q_depth \in Nat \ {0} /\ q_depth < UINT
           /\ q_last \in Slots /\ q_last % q_depth = q_last
           /\ q_next \in Slots /\ q_next % q_depth = q_next
           /\ seen \in Nat /\ seen # NULL
  <1>1. /\ world \in Worlds /\ q_depth \in world.depths /\ seen \in 0 .. world.events
        /\ q_last \in Slots /\ q_next \in Slots
    BY DEF DType, TypeOK, Slots
  <1>2. q_depth \in Nat \ {0} /\ q_depth < UINT /\ seen \in Nat
    BY ONLY <1>1, WorldFacts
  <1>3. seen # NULL
    BY ONLY <1>2, NumberAssumption
  <1>4. q_last % q_depth = q_last /\ q_next % q_depth = q_next
    BY ONLY <1>1, <1>2, SlotInRing DEF Slots
  <1> QED
    BY ONLY <1>1, <1>2, <1>3, <1>4

\* The full slots are those from q_last up to q_next, round the end of the ring.
Contiguous ==
    \/ q_last < q_next /\ \A i \in Slots : q[i] # NULL <=> (q_last <= i /\ i < q_next)
    \/ q_next < q_last /\ \A i \in Slots : q[i] # NULL <=> (q_last <= i \/ i < q_next)
    \/ q_next = q_last /\ \A i \in Slots : q[i] = NULL
    \/ q_next = q_last /\ \A i \in Slots : q[i] # NULL

\* SleepsOnlyWhenEmpty is not inductive: dequeue looks at one slot only, and that
\* the others are empty too follows from the order in which they are filled.
SInv ==
    /\ wanted = 1 /\ disp_hup = FALSE
    /\ outbound \notin {"grow", "reconfigure", "reconfigured"}
    /\ Contiguous
    /\ outbound = "waiting" => \A i \in Slots : q[i] = NULL

LEMMA SInvEmpty == DType /\ Contiguous /\ q[q_last] = NULL => \A i \in Slots : q[i] = NULL
  BY RingFacts DEF Contiguous, Slots

LEMMA GrabContiguous ==
    ASSUME DType, Contiguous, Grab(q_last % q_depth)
    PROVE  Contiguous'
  <1>1. q_depth \in Nat \ {0} /\ q_last \in Slots /\ q_next \in Slots
    BY ONLY DType, RingFacts
  <1>2. q_last % q_depth = q_last
    BY <1>1, SlotInRing DEF Slots
  <1>3. q_last' = IF q_last + 1 = q_depth THEN 0 ELSE q_last + 1
    BY <1>1, <1>2, SlotAfter DEF Grab, NextSlot, Slots
  <1>4. \A i \in Slots : q'[i] = IF i = q_last THEN NULL ELSE q[i]
    BY <1>2 DEF Grab, DType, TypeOK, Slots
  <1>5. q[q_last] # NULL /\ q_next' = q_next /\ Slots' = Slots
    BY <1>2 DEF Grab, Slots
  <1> DEFINE l == q_last'
             one == l < q_next /\ \A i \in Slots : q'[i] # NULL <=> (l <= i /\ i < q_next)
             two == q_next < l /\ \A i \in Slots : q'[i] # NULL <=> (l <= i \/ i < q_next)
             none == q_next = l /\ \A i \in Slots : q'[i] = NULL
  <1>7. one \/ two \/ none => Contiguous'
    BY <1>5 DEF Contiguous
  <1>8. CASE q_last < q_next /\ \A i \in Slots : q[i] # NULL <=> (q_last <= i /\ i < q_next)
    <2>1. l = q_last + 1
      BY <1>1, <1>3, <1>8 DEF Slots
    <2>2. CASE l = q_next
      <3>1. none
        BY <1>1, <1>4, <1>8, <2>1, <2>2 DEF Slots
      <3> QED
        BY <1>7, <3>1
    <2>3. CASE l # q_next
      <3>1. one
        BY <1>1, <1>4, <1>8, <2>1, <2>3 DEF Slots
      <3> QED
        BY <1>7, <3>1
    <2> QED
      BY <2>2, <2>3
  <1>9. CASE q_next < q_last /\ \A i \in Slots : q[i] # NULL <=> (q_last <= i \/ i < q_next)
    <2>1. CASE q_last + 1 # q_depth
      <3>1. two
        BY <1>1, <1>3, <1>4, <1>9, <2>1 DEF Slots
      <3> QED
        BY <1>7, <3>1
    <2>2. CASE q_last + 1 = q_depth /\ q_next = 0
      <3>1. none
        BY <1>1, <1>3, <1>4, <1>9, <2>2 DEF Slots
      <3> QED
        BY <1>7, <3>1
    <2>3. CASE q_last + 1 = q_depth /\ q_next # 0
      <3>1. one
        BY <1>1, <1>3, <1>4, <1>9, <2>3 DEF Slots
      <3> QED
        BY <1>7, <3>1
    <2> QED
      BY <2>1, <2>2, <2>3
  <1>10. CASE q_next = q_last /\ \A i \in Slots : q[i] # NULL
    <2>1. CASE q_last + 1 # q_depth
      <3>1. two
        BY <1>1, <1>3, <1>4, <1>10, <2>1 DEF Slots
      <3> QED
        BY <1>7, <3>1
    <2>2. CASE q_last + 1 = q_depth /\ q_depth = 1
      <3>1. none
        BY <1>1, <1>3, <1>4, <1>10, <2>2 DEF Slots
      <3> QED
        BY <1>7, <3>1
    <2>3. CASE q_last + 1 = q_depth /\ q_depth # 1
      <3>1. one
        BY <1>1, <1>3, <1>4, <1>10, <2>3 DEF Slots
      <3> QED
        BY <1>7, <3>1
    <2> QED
      BY <2>1, <2>2, <2>3
  <1> QED
    BY <1>1, <1>5, <1>8, <1>9, <1>10 DEF Contiguous

LEMMA EnqueueContiguous ==
    ASSUME DType, Contiguous, main = "enqueue", q[q_next % q_depth] = NULL,
           q' = [q EXCEPT ![q_next % q_depth] = seen],
           q_next' = NextSlot(q_next % q_depth), UNCHANGED <<q_last, q_depth>>
    PROVE  Contiguous'
  <1>1. /\ q_depth \in Nat \ {0} /\ q_last \in Slots /\ q_next \in Slots
        /\ seen # NULL
    BY ONLY DType, RingFacts
  <1>2. q_next % q_depth = q_next
    BY <1>1, SlotInRing DEF Slots
  <1>3. q_next' = IF q_next + 1 = q_depth THEN 0 ELSE q_next + 1
    BY <1>1, <1>2, SlotAfter DEF NextSlot, Slots
  <1>4. \A i \in Slots : q'[i] = IF i = q_next THEN seen ELSE q[i]
    BY <1>2 DEF DType, TypeOK, Slots
  <1>5. q[q_next] = NULL /\ q_last' = q_last /\ Slots' = Slots
    BY <1>2 DEF Slots
  <1> QED
    BY <1>1, <1>3, <1>4, <1>5 DEF Contiguous, Slots

LEMMA InitSInv == Init /\ Still => SInv
  BY InitDType DEF Init, DType, TypeOK, SInv, Contiguous, Slots, EmptyRing

LEMMA NextSInv ==
    ASSUME DType, Still, SInv, [Next]_vars
    PROVE  SInv'
  <1> USE DEF SInv, ring, counts, flags, history
  <1>0. world.hups = 0 /\ DType' /\ q_depth \in Nat \ {0}
    BY NextDType, WorldFacts DEF Still, DType, TypeOK
  <1> DEFINE Ring == UNCHANGED <<q, q_next, q_last, q_depth>>
  <1>1. Ring => Contiguous' /\ Slots' = Slots
    BY DEF Contiguous, Slots
  <1>2. CASE dispatch_event
    BY <1>1, <1>2 DEF dispatch_event
  <1>3. CASE EnqueueTry
    <2>1. CASE Ring
      BY <1>1, <1>3, <2>1 DEF EnqueueTry, Undefined, Signal
    <2>2. CASE ~Ring
      <3>1. Contiguous'
        BY <1>3, <2>2, EnqueueContiguous DEF EnqueueTry, Undefined
      <3>2. outbound' # "waiting"
        BY <1>3, <2>2 DEF EnqueueTry, Undefined, Signal
      <3> QED
        BY <1>3, <2>2, <3>1, <3>2 DEF EnqueueTry, Undefined, Signal
    <2> QED
      BY <2>1, <2>2
  <1>4. CASE do_overflow_action
    BY <1>1, <1>4 DEF do_overflow_action
  <1>5. CASE libdisp_resume
    BY <1>1, <1>5 DEF libdisp_resume
  <1>6. ASSUME NEW c \in Configs, libdisp_reconfigure(c) \/ libdisp_init(c)
        PROVE FALSE
    BY <1>0, <1>6 DEF libdisp_reconfigure, libdisp_init
  <1>7. CASE libdisp_shutdown
    BY <1>1, <1>7 DEF libdisp_shutdown
  <1>8. CASE nudge_queue
    BY <1>1, <1>8 DEF nudge_queue, Signal
  <1>9. CASE DequeueEnter
    BY <1>1, <1>9 DEF DequeueEnter
  <1>10. CASE DequeueLook
    <2>1. CASE Undefined
      BY <1>1, <2>1 DEF Undefined
    <2>2. CASE Grab(q_last % q_depth) /\ ~Undefined
      BY <1>10, <2>2, GrabContiguous DEF DequeueLook, Grab
    <2>3. CASE ~Grab(q_last % q_depth) /\ ~Undefined
      <3>1. Ring /\ q[q_last % q_depth] = NULL /\ disp_hup' = FALSE /\ wanted' = 1
        BY <1>10, <2>3 DEF DequeueLook
      <3>2. q_last % q_depth = q_last
        BY <1>0, SlotInRing DEF DType, TypeOK
      <3>3. \A i \in Slots : q[i] = NULL
        BY <3>1, <3>2, SInvEmpty
      <3> QED
        BY <1>1, <1>10, <2>3, <3>1, <3>3 DEF DequeueLook
    <2> QED
      BY <2>1, <2>2, <2>3
  <1>11. CASE DequeueWoken
    <2>1. CASE Undefined
      BY <1>1, <2>1 DEF Undefined
    <2>2. CASE Grab(q_last % q_depth) /\ ~Undefined
      BY <1>11, <2>2, GrabContiguous DEF DequeueWoken, Grab
    <2>3. CASE ~Grab(q_last % q_depth) /\ ~Undefined
      BY <1>1, <1>11, <2>3 DEF DequeueWoken
    <2> QED
      BY <2>1, <2>2, <2>3
  <1>12. CASE Delivered
    BY <1>1, <1>12 DEF Delivered
  <1>13. CASE increase_queue_depth \/ reconfigure \/ HupDone
    BY <1>13 DEF increase_queue_depth, reconfigure, HupDone
  <1>14. CASE ThreadQuits
    BY <1>1, <1>14 DEF ThreadQuits
  <1>15. CASE destroy_queue
    BY <1>1, <1>15 DEF destroy_queue, Undefined
  <1>16. CASE UNCHANGED vars
    BY <1>1, <1>16 DEF vars
  <1> QED
    BY <1>2, <1>3, <1>4, <1>5, <1>6, <1>7, <1>8, <1>9, <1>10, <1>11, <1>12, <1>13,
       <1>14, <1>15, <1>16 DEF Next, MainStep, OutboundStep

\* dequeue never sleeps over an event, for every depth of the ring: no wakeup is
\* lost between enqueue and dequeue while no SIGHUP comes (audisp/queue.c).
THEOREM NoLostWakeup == Spec => []SleepsOnlyWhenEmpty
  <1> DEFINE Inv == DType /\ (Still => SInv)
  <1>1. Init => Inv
    BY InitDType, InitSInv
  <1>2. Inv /\ [Next]_vars => Inv'
    <2> SUFFICES ASSUME Inv, [Next]_vars, Still' PROVE SInv'
      BY NextDType
    <2>1. world' = world
      BY DEF Next, vars
    <2> QED
      BY <2>1, NextSInv DEF Still
  <1>3. Inv => SleepsOnlyWhenEmpty
    BY DEF SInv, SleepsOnlyWhenEmpty, Entries, Slots
  <1> QED
    BY <1>1, <1>2, <1>3, PTL DEF Spec

-----------------------------------------------------------------------------
(* The reported depth. *)

Full == {i \in DOMAIN q : q[i] # NULL}

\* UsedIsCount is not inductive: dequeue counts one less whenever it is woken, so
\* it must not be woken over an empty slot, and nudge_queue comes with stop only.
UInv ==
    ~stop =>
        /\ main # "nudge"
        /\ ~world.spurious =>
              /\ outbound = "woken" => q[q_last] # NULL
              /\ currently_used = Cardinality(Full)
              /\ currently_used <= max_used /\ max_used <= q_depth

LEMMA SubsetOfRing ==
    ASSUME NEW d \in Nat, NEW T \in SUBSET (0 .. d - 1)
    PROVE  IsFiniteSet(T) /\ Cardinality(T) <= d
  <1>1. IsFiniteSet(0 .. d - 1) /\ Cardinality(0 .. d - 1) = d
    BY FS_Interval
  <1> QED
    BY <1>1, FS_Subset

LEMMA FullFinite ==
    ASSUME DType
    PROVE  /\ IsFiniteSet(Full) /\ Cardinality(Full) \in Nat
           /\ Cardinality(Full) <= q_depth /\ q_depth \in Nat \ {0} /\ q_depth < UINT
  <1>1. q_depth \in Nat \ {0} /\ q_depth < UINT
    BY WorldFacts DEF DType, TypeOK
  <1>2. Full \subseteq 0 .. q_depth - 1
    BY DEF Full, DType, TypeOK
  <1>3. IsFiniteSet(Full) /\ Cardinality(Full) <= q_depth
    BY <1>1, <1>2, SubsetOfRing
  <1> QED
    BY <1>1, <1>3, FS_CardinalityType

LEMMA InitUInv == Init => UInv
  <1> SUFFICES ASSUME Init PROVE UInv
    OBVIOUS
  <1>1. Full = {}
    BY DEF Init, Full, EmptyRing
  <1>2. Cardinality(Full) = 0
    BY <1>1, FS_EmptySet
  <1>3. q_depth \in Nat
    BY InitDType, FullFinite
  <1> QED
    BY <1>2, <1>3 DEF Init, UInv

LEMMA EnqueueUInv ==
    ASSUME DType, SInv, UInv, world' = world, main = "enqueue", q[q_next % q_depth] = NULL,
           q' = [q EXCEPT ![q_next % q_depth] = seen],
           currently_used' = (currently_used + 1) % UINT,
           max_used' = IF currently_used' > max_used THEN currently_used' ELSE max_used,
           Signal, main' = "idle", UNCHANGED <<q_last, q_depth, stop>>
    PROVE  UInv'
  <1> SUFFICES ASSUME ~world.spurious, ~stop
               PROVE  /\ outbound' = "woken" => q'[q_last] # NULL
                      /\ currently_used' = Cardinality(Full')
                      /\ currently_used' <= max_used' /\ max_used' <= q_depth
    BY DEF UInv
  <1>1. /\ q_depth \in Nat \ {0} /\ q_last \in Slots /\ q_next \in Slots
        /\ seen # NULL /\ q_next % q_depth = q_next
    BY ONLY DType, RingFacts
  <1>2. \A i \in Slots : q'[i] = IF i = q_next THEN seen ELSE q[i]
    BY <1>1 DEF DType, TypeOK, Slots
  <1>3. DOMAIN q = Slots /\ DOMAIN q' = Slots
    BY DEF DType, TypeOK, Slots
  <1>4. outbound' = "woken" => q'[q_last] # NULL
    <2>1. CASE outbound = "waiting"
      <3>1. q_next = q_last
        BY <1>1, <2>1 DEF SInv, Contiguous, Slots
      <3> QED
        BY <1>1, <1>2, <3>1
    <2>2. CASE outbound # "waiting"
      BY <1>1, <1>2, <2>2 DEF Signal, UInv
    <2> QED
      BY <2>1, <2>2
  <1>5. Full' = Full \cup {q_next} /\ q_next \notin Full
    BY <1>1, <1>2, <1>3 DEF Full
  <1>6. Cardinality(Full') = Cardinality(Full) + 1
    BY <1>5, FullFinite, FS_AddElement
  <1>7. Cardinality(Full') <= q_depth /\ q_depth < UINT /\ UINT \in Nat
    <2>1. Full \cup {q_next} \subseteq 0 .. q_depth - 1
      BY <1>1, <1>3 DEF Full, Slots
    <2>2. Cardinality(Full \cup {q_next}) <= q_depth
      BY <1>1, <2>1, SubsetOfRing
    <2> QED
      BY <1>5, <2>2, FullFinite, NumberAssumption
  <1>8. currently_used = Cardinality(Full) /\ Cardinality(Full) \in Nat
    BY FullFinite DEF UInv
  <1>9. currently_used' = currently_used + 1
    BY ONLY <1>1, <1>6, <1>7, <1>8, currently_used' = (currently_used + 1) % UINT
  <1>10. max_used \in Nat /\ max_used <= q_depth
    BY DEF UInv, DType, TypeOK
  <1> QED
    BY <1>1, <1>4, <1>6, <1>7, <1>8, <1>9, <1>10

LEMMA GrabUInv ==
    ASSUME DType, UInv, Grab(q_last % q_depth), world' = world, UNCHANGED <<main, stop>>
    PROVE  UInv'
  <1> SUFFICES ASSUME ~world.spurious, ~stop
               PROVE  /\ currently_used' = Cardinality(Full')
                      /\ currently_used' <= max_used' /\ max_used' <= q_depth'
    BY DEF UInv, Grab
  <1>1. /\ q_depth \in Nat \ {0} /\ q_last \in Slots /\ q_last % q_depth = q_last
    BY ONLY DType, RingFacts
  <1>2. q[q_last] # NULL /\ \A i \in Slots : q'[i] = IF i = q_last THEN NULL ELSE q[i]
    BY <1>1 DEF DType, TypeOK, Slots, Grab
  <1>3. DOMAIN q = Slots /\ DOMAIN q' = Slots
    BY <1>1 DEF DType, TypeOK, Slots, Grab
  <1>4. Full' = Full \ {q_last} /\ q_last \in Full
    BY <1>1, <1>2, <1>3 DEF Full
  <1>5. Cardinality(Full') = Cardinality(Full) - 1
    BY <1>4, FullFinite, FS_RemoveElement
  <1>6. Cardinality(Full') \in Nat
    BY <1>4, FullFinite, FS_RemoveElement, FS_CardinalityType
  <1>7. currently_used = Cardinality(Full) /\ q_depth < UINT /\ UINT \in Nat
        /\ Cardinality(Full) <= q_depth /\ Cardinality(Full) \in Nat
    BY FullFinite, NumberAssumption DEF UInv
  <1>8. currently_used' = (currently_used - 1) % UINT
    BY DEF Grab, OneLess
  <1>9. currently_used' = currently_used - 1
    BY ONLY <1>1, <1>5, <1>6, <1>7, <1>8
  <1>10. max_used \in Nat /\ max_used <= q_depth /\ currently_used <= max_used
    BY DEF UInv, DType, TypeOK
  <1> QED
    BY <1>1, <1>5, <1>7, <1>9, <1>10 DEF Grab

LEMMA NextUInv ==
    ASSUME DType, Still, SInv, UInv, [Next]_vars
    PROVE  UInv'
  <1> USE DEF ring, counts, flags, history
  <1>0. world' = world /\ world.hups = 0
    BY DEF Next, vars, Still
  <1> DEFINE Same == UNCHANGED <<q, q_last, q_depth, currently_used, max_used>>
  <1>1. ASSUME Same, stop' = stop, ~stop => main' # "nudge", outbound' = "woken" => outbound = "woken"
        PROVE UInv'
    BY <1>0, <1>1 DEF UInv, Full
  <1>2. CASE dispatch_event
    BY <1>1, <1>2 DEF dispatch_event
  <1>3. CASE EnqueueTry
    <2>1. CASE Undefined
      BY <1>1, <2>1 DEF Undefined
    <2>2. CASE retry_cnt' = Retried /\ UNCHANGED <<ring, counts, flags, main, outbound>>
      BY <1>1, <1>3, <2>2 DEF EnqueueTry
    <2> QED
      BY <1>0, <1>3, <2>1, <2>2, EnqueueUInv DEF EnqueueTry
  <1>4. CASE do_overflow_action
    BY <1>1, <1>4 DEF do_overflow_action
  <1>5. CASE libdisp_resume
    BY <1>1, <1>5 DEF libdisp_resume
  <1>6. ASSUME NEW c \in Configs, libdisp_reconfigure(c) \/ libdisp_init(c)
        PROVE FALSE
    BY <1>0, <1>6 DEF libdisp_reconfigure, libdisp_init, SInv
  <1>7. CASE libdisp_shutdown \/ (nudge_queue /\ stop)
    BY <1>7 DEF libdisp_shutdown, nudge_queue, UInv
  <1>8. CASE nudge_queue /\ ~stop
    BY <1>0, <1>8 DEF nudge_queue, UInv
  <1>9. CASE DequeueEnter
    BY <1>1, <1>9 DEF DequeueEnter, UInv
  <1>10. CASE DequeueLook
    <2>1. CASE Undefined
      BY <1>1, <2>1 DEF Undefined
    <2>2. CASE Grab(q_last % q_depth) /\ ~Undefined
      BY <1>0, <1>10, <2>2, GrabUInv DEF DequeueLook
    <2>3. CASE ~Grab(q_last % q_depth) /\ ~Undefined
      BY <1>1, <1>10, <2>3 DEF DequeueLook, UInv
    <2> QED
      BY <2>1, <2>2, <2>3
  <1>11. CASE DequeueWoken
    <2>1. CASE Undefined
      BY <1>1, <2>1 DEF Undefined
    <2>2. CASE Grab(q_last % q_depth) /\ ~Undefined
      BY <1>0, <1>11, <2>2, GrabUInv DEF DequeueWoken
    <2>3. CASE ~Grab(q_last % q_depth) /\ ~Undefined
      <3>1. q_last % q_depth = q_last
        BY ONLY DType, RingFacts
      <3>2. q[q_last] = NULL /\ stop' = stop
        BY <1>11, <2>3, <3>1 DEF DequeueWoken, SInv
      <3>3. CASE ~world.spurious
        BY <1>0, <1>11, <3>2, <3>3 DEF DequeueWoken, UInv
      <3> QED
        BY <1>0, <1>11, <2>3, <3>2, <3>3 DEF DequeueWoken, UInv
    <2> QED
      BY <2>1, <2>2, <2>3
  <1>12. CASE Delivered
    BY <1>1, <1>12 DEF Delivered, UInv
  <1>13. CASE increase_queue_depth \/ reconfigure \/ HupDone
    BY <1>13 DEF increase_queue_depth, reconfigure, HupDone, SInv
  <1>14. CASE ThreadQuits
    BY <1>1, <1>14 DEF ThreadQuits, UInv
  <1>15. CASE destroy_queue
    BY <1>1, <1>15 DEF destroy_queue, Undefined, UInv
  <1>16. CASE UNCHANGED vars
    BY <1>0, <1>16 DEF vars, UInv, Full
  <1> QED
    BY <1>2, <1>3, <1>4, <1>5, <1>6, <1>7, <1>8, <1>9, <1>10, <1>11, <1>12, <1>13,
       <1>14, <1>15, <1>16 DEF Next, MainStep, OutboundStep

\* The depth that write_queue_state reports is the number of events in the ring,
\* for every depth and every width of the counter that can hold the depth.
THEOREM DepthReported == Spec => []UsedIsCount
  <1> DEFINE Inv == DType /\ (Still => SInv /\ UInv)
  <1>1. Init => Inv
    BY InitDType, InitSInv, InitUInv
  <1>2. Inv /\ [Next]_vars => Inv'
    <2> SUFFICES ASSUME Inv, [Next]_vars, Still' PROVE SInv' /\ UInv'
      BY NextDType
    <2>1. Still
      BY DEF Next, vars, Still
    <2> QED
      BY <2>1, NextDType, NextSInv, NextUInv
  <1>3. Inv => UsedIsCount
    BY DEF UInv, UsedIsCount, Full
  <1> QED
    BY <1>1, <1>2, <1>3, PTL DEF Spec

-----------------------------------------------------------------------------
(* Nothing is lost. *)

\* NothingLost is not inductive: that an event taken was not taken before, and that
\* a new ring starts with what was taken, needs the events in the ring and the ones
\* taken to be different from each other and from the one enqueue has in hand.
KInv ==
    /\ IsFiniteSet(sent) /\ sent \subseteq 1 .. seen /\ dropped \subseteq sent
    /\ main = "enqueue" => seen \notin sent
    /\ \A i, j \in Slots : i # j /\ q[i] # NULL => q[i] # q[j]
    /\ \A i \in Slots : q[i] # NULL => q[i] \notin Range(out)
    /\ Cardinality(Range(out)) = Len(out)
    /\ Entries \cup Range(out) = Kept
    /\ Cardinality(Full) + Len(out) = Cardinality(Kept)

LEMMA KeptFinite == KInv => IsFiniteSet(Kept) /\ Kept \subseteq sent
  BY FS_Subset DEF KInv, Kept

LEMMA EntriesAre == Entries = {q[i] : i \in Slots} \ {NULL}
  BY DEF Entries, Slots

LEMMA FullIs == DType => Full = {i \in Slots : q[i] # NULL}
  BY DEF Full, DType, TypeOK, Slots

LEMMA InitKInv == Init => KInv
  <1> SUFFICES ASSUME Init PROVE KInv
    OBVIOUS
  <1>1. \A i \in Slots : q[i] = NULL
    BY DEF Init, EmptyRing, Slots
  <1>2. Full = {} /\ Range(out) = {} /\ sent = {} /\ dropped = {} /\ Kept = {} /\ Len(out) = 0
    BY <1>1, InitDType, FullIs DEF Init, Range, Kept
  <1>3. Entries = {}
    BY <1>1, EntriesAre
  <1>4. Cardinality({}) = 0 /\ IsFiniteSet({})
    BY FS_EmptySet
  <1>5. main # "enqueue"
    BY DEF Init
  <1> QED
    BY <1>1, <1>2, <1>3, <1>4, <1>5 DEF KInv

LEMMA RangeOfAppend ==
    ASSUME NEW S, NEW s \in Seq(S), NEW e \in S
    PROVE  Range(Append(s, e)) = Range(s) \cup {e} /\ Len(Append(s, e)) = Len(s) + 1
  <1> DEFINE t == Append(s, e)
  <1>1. Len(t) = Len(s) + 1 /\ DOMAIN t = 1 .. Len(s) + 1 /\ DOMAIN s = 1 .. Len(s) /\ Len(s) \in Nat
    OBVIOUS
  <1>2. t[Len(s) + 1] = e /\ \A i \in 1 .. Len(s) : t[i] = s[i]
    OBVIOUS
  <1> HIDE DEF t
  <1>3. DOMAIN t = DOMAIN s \cup {Len(s) + 1}
    BY <1>1
  <1>4. Range(t) = Range(s) \cup {e}
    BY <1>1, <1>2, <1>3 DEF Range
  <1> QED
    BY <1>1, <1>4 DEF t

LEMMA OutFacts ==
    ASSUME DType
    PROVE  /\ out \in Seq(1 .. world.events) /\ Len(out) \in Nat
           /\ Cardinality(Full) \in Nat /\ IsFiniteSet(Full)
  BY FullFinite DEF DType

LEMMA EnqueueKInv ==
    ASSUME DType, KInv, main = "enqueue", main' = "idle", q[q_next % q_depth] = NULL,
           q' = [q EXCEPT ![q_next % q_depth] = seen], sent' = sent \cup {seen},
           UNCHANGED <<q_depth, seen, out, dropped>>
    PROVE  KInv'
  <1>1. q_next \in Slots /\ q_next % q_depth = q_next /\ seen # NULL /\ seen \in Nat
    BY ONLY DType, RingFacts
  <1>2. seen >= 1 /\ seen \notin sent
    BY DEF DType, KInv
  <1>3. DOMAIN q = Slots /\ Slots' = Slots
    BY DEF DType, TypeOK, Slots
  <1>4. /\ \A i \in Slots : q'[i] = IF i = q_next THEN seen ELSE q[i]
        /\ DOMAIN q' = Slots /\ q[q_next] = NULL
    BY <1>1, <1>3
  <1>5. \A i \in Slots : q[i] # NULL => q[i] \in sent
    BY EntriesAre, KeptFinite DEF KInv
  <1>6. \A i, j \in Slots : i # j /\ q'[i] # NULL => q'[i] # q'[j]
    BY <1>1, <1>2, <1>4, <1>5 DEF KInv
  <1>7. \A i \in Slots : q'[i] # NULL => q'[i] \notin Range(out)
    BY <1>2, <1>4, KeptFinite DEF KInv
  <1>8. Entries' = Entries \cup {seen}
    <2>1. Entries' = {q'[i] : i \in Slots} \ {NULL}
      BY <1>3 DEF Entries, Slots
    <2> QED
      BY <1>1, <1>4, <2>1, EntriesAre
  <1>9. Full' = Full \cup {q_next} /\ q_next \notin Full
    BY <1>1, <1>3, <1>4 DEF Full
  <1>10. Cardinality(Full') = Cardinality(Full) + 1
    BY <1>9, OutFacts, FS_AddElement
  <1>11a. Kept' = Kept \cup {seen} /\ seen \notin Kept
    BY <1>2 DEF KInv, Kept
  <1>11. IsFiniteSet(sent') /\ Cardinality(Kept') = Cardinality(Kept) + 1
    BY <1>11a, KeptFinite, FS_AddElement DEF KInv
  <1>12. sent' \subseteq 1 .. seen /\ dropped \subseteq sent'
    BY <1>1, <1>2 DEF KInv
  <1>13. Cardinality(Full') + Len(out) = Cardinality(Kept')
    <2>1. Cardinality(Kept) \in Nat
      BY KeptFinite, FS_CardinalityType
    <2> QED
      BY <1>10, <1>11, <2>1, OutFacts DEF KInv
  <1>14. Entries' \cup Range(out) = Kept'
    BY <1>8, <1>11a DEF KInv
  <1> QED
    BY <1>3, <1>6, <1>7, <1>11, <1>12, <1>13, <1>14 DEF KInv

LEMMA GrabKInv ==
    ASSUME DType, KInv, Grab(q_last % q_depth), main' = main
    PROVE  KInv'
  <1> DEFINE e == q[q_last]
  <1>1. q_last \in Slots /\ q_last % q_depth = q_last
    BY ONLY DType, RingFacts
  <1>2. /\ e # NULL /\ out' = Append(out, e) /\ q' = [q EXCEPT ![q_last] = NULL]
        /\ UNCHANGED <<q_depth, seen, sent, dropped>> /\ Kept' = Kept
    BY <1>1 DEF Grab, Kept
  <1>3. DOMAIN q = Slots /\ Slots' = Slots /\ e \in 1 .. world.events
    BY <1>1, <1>2 DEF DType, TypeOK, Slots
  <1>4. /\ \A i \in Slots : q'[i] = IF i = q_last THEN NULL ELSE q[i]
        /\ DOMAIN q' = Slots
    BY <1>1, <1>2, <1>3
  <1>5. Range(out') = Range(out) \cup {e} /\ Len(out') = Len(out) + 1
    <2> HIDE DEF e
    <2>1. out \in Seq(1 .. world.events)
      BY OutFacts
    <2>2. Range(Append(out, e)) = Range(out) \cup {e} /\ Len(Append(out, e)) = Len(out) + 1
      BY ONLY <1>3, <2>1, RangeOfAppend
    <2> QED
      BY ONLY <1>2, <2>2
  <1>6. e \notin Range(out) /\ \A i \in Slots : i # q_last => q[i] # e
    BY <1>1, <1>2 DEF KInv
  <1>7. \A i, j \in Slots : i # j /\ q'[i] # NULL => q'[i] # q'[j]
    BY <1>4 DEF KInv
  <1>8. \A i \in Slots : q'[i] # NULL => q'[i] \notin Range(out')
    BY <1>4, <1>5, <1>6 DEF KInv
  <1>9. Entries' = Entries \ {e} /\ e \in Entries
    <2>1. Entries' = {q'[i] : i \in Slots} \ {NULL}
      BY <1>3 DEF Entries, Slots
    <2> HIDE DEF e
    <2>2. e = q[q_last]
      BY DEF e
    <2> QED
      BY <1>1, <1>2, <1>4, <1>6, <2>1, <2>2, EntriesAre
  <1>10. Entries' \cup Range(out') = Kept
    BY <1>5, <1>9 DEF KInv
  <1>11. Full' = Full \ {q_last} /\ q_last \in Full
    BY <1>1, <1>2, <1>3, <1>4 DEF Full
  <1>12. Cardinality(Full') = Cardinality(Full) - 1
    BY <1>11, OutFacts, FS_RemoveElement
  <1>13. Cardinality(Full') + Len(out') = Cardinality(Kept)
    BY <1>5, <1>12, OutFacts DEF KInv
  <1>14. Cardinality(Range(out')) = Len(out')
    <2>1. IsFiniteSet(Range(out))
      BY KeptFinite, FS_Subset DEF KInv
    <2>2. Cardinality(Range(out) \cup {e}) = Cardinality(Range(out)) + 1
      BY ONLY <1>6, <2>1, FS_AddElement
    <2> QED
      BY <1>5, <2>2 DEF KInv
  <1> QED
    BY <1>2, <1>3, <1>7, <1>8, <1>10, <1>13, <1>14 DEF KInv

LEMMA GrowKInv ==
    ASSUME DType, KInv, NEW size \in Nat, size > q_depth, q' = Grown(size), q_depth' = size,
           UNCHANGED <<seen, main, sent, out, dropped>>
    PROVE  KInv'
  <1>1. q_depth \in Nat \ {0} /\ DOMAIN q = Slots
    BY RingFacts DEF DType, TypeOK, Slots
  <1>2. Slots \subseteq Slots' /\ DOMAIN q' = Slots'
    BY <1>1 DEF Slots, Grown
  <1>3. \A i \in Slots' : q'[i] = IF i \in Slots THEN q[i] ELSE NULL
    BY <1>1 DEF Slots, Grown
  <1>4. \A i, j \in Slots' : i # j /\ q'[i] # NULL => q'[i] # q'[j]
    BY <1>3 DEF KInv
  <1>5. \A i \in Slots' : q'[i] # NULL => q'[i] \notin Range(out)
    BY <1>3 DEF KInv
  <1>6. Full' = Full
    BY <1>1, <1>2, <1>3 DEF Full
  <1>7. Entries' = Entries
    <2>1. Entries' = {q'[i] : i \in Slots'} \ {NULL}
      BY DEF Entries, Slots
    <2> QED
      BY <1>2, <1>3, <2>1, EntriesAre
  <1> QED
    BY <1>4, <1>5, <1>6, <1>7 DEF KInv, Kept

LEMMA FreshKInv ==
    ASSUME DType, KInv, NEW n \in Nat, q' = EmptyRing(n), q_depth' = n,
           dropped' = sent \ Range(out), main' # "enqueue", UNCHANGED <<seen, sent, out>>
    PROVE  KInv'
  <1>1. \A i \in Slots' : q'[i] = NULL
    BY DEF EmptyRing, Slots
  <1>2. Full' = {} /\ Cardinality(Full') = 0
    BY FS_EmptySet DEF EmptyRing, Full
  <1>3. Entries' = {}
    <2>1. Entries' = {q'[i] : i \in Slots'} \ {NULL}
      BY DEF Entries, Slots
    <2> QED
      BY <1>1, <2>1
  <1>4. Range(out) \subseteq sent
    BY KeptFinite DEF KInv
  <1>5. Kept' = Range(out)
    BY <1>4 DEF Kept
  <1>6. Cardinality(Full') + Len(out) = Cardinality(Kept')
    BY <1>2, <1>5, OutFacts DEF KInv
  <1> QED
    BY <1>1, <1>3, <1>4, <1>5, <1>6 DEF KInv

LEMMA NextKInv ==
    ASSUME DType, KInv, [Next]_vars
    PROVE  KInv'
  <1> USE DEF ring, counts, flags, history
  <1> DEFINE Same == UNCHANGED <<q, q_depth, sent, out, dropped>>
  <1>1. ASSUME Same, seen' = seen, main' = "enqueue" => main = "enqueue"
        PROVE KInv'
    BY <1>1 DEF KInv, Full, Slots, Entries, Kept
  <1>2. CASE dispatch_event
    <2>1. Same /\ seen' = seen + 1 /\ seen \in Nat
      BY <1>2, RingFacts DEF dispatch_event
    <2>2. sent \subseteq 1 .. seen + 1 /\ seen + 1 \notin sent
      BY <2>1 DEF KInv
    <2> QED
      BY <2>1, <2>2 DEF KInv, Full, Slots, Entries, Kept
  <1>3. CASE EnqueueTry
    <2>1. CASE Undefined
      BY <1>1, <2>1 DEF Undefined
    <2>2. CASE retry_cnt' = Retried /\ UNCHANGED <<ring, counts, flags, main, history>>
      BY <1>1, <2>2
    <2> QED
      BY <1>3, <2>1, <2>2, EnqueueKInv DEF EnqueueTry
  <1>4. CASE do_overflow_action
    BY <1>1, <1>4 DEF do_overflow_action
  <1>5. CASE libdisp_resume
    BY <1>1, <1>5 DEF libdisp_resume
  <1>6. ASSUME NEW c \in Configs, libdisp_reconfigure(c)
        PROVE KInv'
    BY <1>1, <1>6 DEF libdisp_reconfigure
  <1>7. ASSUME NEW c \in Configs, libdisp_init(c)
        PROVE KInv'
    <2>1. main' = "idle" /\ UNCHANGED <<seen, sent, out>>
      BY <1>7 DEF libdisp_init
    <2>2. c.q_depth \in Nat
      BY WorldFacts DEF Configs, DType
    <2>3. CASE UNCHANGED <<ring, dropped>>
      BY <1>1, <2>1, <2>3
    <2>4. CASE q_depth' = c.q_depth /\ q' = EmptyRing(c.q_depth) /\ dropped' = sent \ Range(out)
      BY <2>1, <2>2, <2>4, FreshKInv
    <2> QED
      BY <1>7, <2>3, <2>4 DEF libdisp_init
  <1>8. CASE libdisp_shutdown
    BY <1>1, <1>8 DEF libdisp_shutdown
  <1>9. CASE nudge_queue
    BY <1>1, <1>9 DEF nudge_queue
  <1>10. CASE DequeueEnter
    BY <1>1, <1>10 DEF DequeueEnter
  <1>11. CASE DequeueLook
    <2>1. CASE Undefined
      BY <1>1, <2>1 DEF Undefined
    <2>2. CASE Grab(q_last % q_depth) /\ ~Undefined
      BY <1>11, <2>2, GrabKInv DEF DequeueLook
    <2>3. CASE ~Grab(q_last % q_depth) /\ ~Undefined
      BY <1>1, <1>11, <2>3 DEF DequeueLook
    <2> QED
      BY <2>1, <2>2, <2>3
  <1>12. CASE DequeueWoken
    <2>1. CASE Undefined
      BY <1>1, <2>1 DEF Undefined
    <2>2. CASE Grab(q_last % q_depth) /\ ~Undefined
      BY <1>12, <2>2, GrabKInv DEF DequeueWoken
    <2>3. CASE ~Grab(q_last % q_depth) /\ ~Undefined
      BY <1>1, <1>12, <2>3 DEF DequeueWoken
    <2> QED
      BY <2>1, <2>2, <2>3
  <1>13. CASE Delivered
    BY <1>1, <1>13 DEF Delivered
  <1>14. CASE increase_queue_depth
    <2>1. daemon_config.q_depth \in Nat
      BY WorldFacts DEF Configs, DType, TypeOK
    <2>2. CASE UNCHANGED <<q, q_depth>>
      BY <1>1, <1>14, <2>2 DEF increase_queue_depth
    <2>3. CASE ~UNCHANGED <<q, q_depth>>
      BY <1>14, <2>1, <2>3, GrowKInv DEF increase_queue_depth
    <2> QED
      BY <2>2, <2>3
  <1>15. CASE reconfigure \/ HupDone
    BY <1>1, <1>15 DEF reconfigure, HupDone
  <1>16. CASE ThreadQuits
    BY <1>1, <1>16 DEF ThreadQuits
  <1>17. CASE destroy_queue
    BY <1>1, <1>17 DEF destroy_queue, Undefined
  <1>18. CASE UNCHANGED vars
    BY <1>1, <1>18 DEF vars
  <1> QED
    BY <1>2, <1>3, <1>4, <1>5, <1>6, <1>7, <1>8, <1>9, <1>10, <1>11, <1>12, <1>13,
       <1>14, <1>15, <1>16, <1>17, <1>18 DEF Next, MainStep, OutboundStep

\* That a ring is replaced only where a SIGHUP may find no active plugin: the
\* thread ends only then or when the daemon does.
GInv ==
    /\ dropped # {} => world.go
    /\ ~listed \/ outbound = "quit" => world.go \/ stop
    /\ stop => main \in {"nudge", "ended", "undefined"}

LEMMA InitGInv == Init => GInv
  BY DEF Init, GInv

LEMMA NextGInv ==
    ASSUME GInv, [Next]_vars
    PROVE  GInv'
  <1> USE DEF GInv, ring, counts, flags, history
  <1>0. world' = world
    BY DEF Next, vars
  <1>1. CASE dispatch_event \/ do_overflow_action \/ libdisp_resume \/ libdisp_shutdown
    <2>1. CASE dispatch_event
      BY <1>0, <2>1 DEF dispatch_event
    <2>2. CASE do_overflow_action
      BY <1>0, <2>2 DEF do_overflow_action
    <2>3. CASE libdisp_resume
      BY <1>0, <2>3 DEF libdisp_resume
    <2>4. CASE libdisp_shutdown
      BY <1>0, <2>4 DEF libdisp_shutdown
    <2> QED
      BY <1>1, <2>1, <2>2, <2>3, <2>4
  <1>2. CASE EnqueueTry
    BY <1>0, <1>2 DEF EnqueueTry, Undefined, Signal
  <1>3. CASE nudge_queue
    BY <1>0, <1>3 DEF nudge_queue, Signal
  <1>4. ASSUME NEW c \in Configs, libdisp_reconfigure(c)
        PROVE GInv'
    BY <1>0, <1>4 DEF libdisp_reconfigure
  <1>5. ASSUME NEW c \in Configs, libdisp_init(c)
        PROVE GInv'
    <2>1. world.go /\ main' = main /\ stop' = stop
      BY <1>5 DEF libdisp_init
    <2> QED
      BY <1>0, <2>1
  <1>6. CASE DequeueEnter \/ Delivered \/ increase_queue_depth \/ HupDone
    BY <1>0, <1>6 DEF DequeueEnter, Delivered, increase_queue_depth, HupDone
  <1>7. CASE DequeueLook
    BY <1>0, <1>7 DEF DequeueLook, Undefined, Grab
  <1>8. CASE DequeueWoken
    BY <1>0, <1>8 DEF DequeueWoken, Undefined, Grab
  <1>9. CASE reconfigure \/ ThreadQuits
    BY <1>0, <1>9 DEF reconfigure, ThreadQuits
  <1>10. CASE destroy_queue
    BY <1>0, <1>10 DEF destroy_queue, Undefined
  <1>11. CASE UNCHANGED vars
    BY <1>11 DEF vars
  <1> QED
    BY <1>1, <1>2, <1>3, <1>4, <1>5, <1>6, <1>7, <1>8, <1>9, <1>10, <1>11
    DEF Next, MainStep, OutboundStep

\* Each event that enqueue accepted is in the ring or was taken by dequeue, once,
\* for every depth and through every increase_queue_depth; the exception are the
\* events a new ring of libdisp_init leaves behind (audisp/queue.c).
THEOREM NothingIsLost == Spec => []QueueSound
  <1> DEFINE Inv == DType /\ KInv /\ GInv
  <1>1. Init => Inv
    BY InitDType, InitKInv, InitGInv
  <1>2. Inv /\ [Next]_vars => Inv'
    BY NextDType, NextKInv, NextGInv
  <1>3. Inv => QueueSound
    BY DEF DType, KInv, GInv, QueueSound, NothingLost, Full
  <1> QED
    BY <1>1, <1>2, <1>3, PTL DEF Spec

-----------------------------------------------------------------------------
(***************************************************************************)
(* The dispatcher's queue implements a bounded FIFO (EventChannel), for    *)
(* every depth of the ring and any number of events.                       *)
(*                                                                         *)
(* First the ring without the program: the full slots, read from q_last on *)
(* and round the end, are a sequence, to which a full slot at q_next       *)
(* appends and from which an empty one at q_last takes the head.  Then the *)
(* steps of the two threads.                                               *)
(***************************************************************************)

-----------------------------------------------------------------------------
(* The ring as a sequence. *)

Contig(f, n, l, d) ==
    \/ l < n /\ \A i \in 0 .. d - 1 : f[i] # NULL <=> (l <= i /\ i < n)
    \/ n < l /\ \A i \in 0 .. d - 1 : f[i] # NULL <=> (l <= i \/ i < n)
    \/ n = l /\ \A i \in 0 .. d - 1 : f[i] = NULL
    \/ n = l /\ \A i \in 0 .. d - 1 : f[i] # NULL

\* The number of full slots.
Count(f, n, l, d) ==
    IF l < n THEN n - l ELSE IF n < l THEN d - l + n ELSE IF f[l] = NULL THEN 0 ELSE d

FullPlaces(f, l, d) == {i \in 0 .. d - 1 : f[(l + i) % d] # NULL}

LEMMA PlaceValue ==
    ASSUME NEW d \in Nat \ {0}, NEW l \in 0 .. d - 1, NEW i \in 0 .. d - 1
    PROVE  /\ (l + i) % d = IF l + i < d THEN l + i ELSE l + i - d
           /\ (l + i) % d \in 0 .. d - 1
  OBVIOUS

LEMMA CountPlaces ==
    ASSUME NEW d \in Nat \ {0}, NEW l \in 0 .. d - 1, NEW n \in 0 .. d - 1, NEW f,
           Contig(f, n, l, d)
    PROVE  /\ Count(f, n, l, d) \in 0 .. d
           /\ FullPlaces(f, l, d) = 0 .. Count(f, n, l, d) - 1
           /\ Cardinality(FullPlaces(f, l, d)) = Count(f, n, l, d)
  <1> DEFINE k == Count(f, n, l, d)
  <1>1. k \in 0 .. d
    BY DEF Count
  <1>2. ASSUME NEW i \in 0 .. d - 1
        PROVE f[(l + i) % d] # NULL <=> i < k
    <2>1. (l + i) % d = IF l + i < d THEN l + i ELSE l + i - d
      BY PlaceValue
    <2>2. CASE l < n /\ \A j \in 0 .. d - 1 : f[j] # NULL <=> (l <= j /\ j < n)
      BY <2>1, <2>2 DEF Count
    <2>3. CASE n < l /\ \A j \in 0 .. d - 1 : f[j] # NULL <=> (l <= j \/ j < n)
      BY <2>1, <2>3 DEF Count
    <2>4. CASE n = l /\ \A j \in 0 .. d - 1 : f[j] = NULL
      BY <2>1, <2>4 DEF Count
    <2>5. CASE n = l /\ \A j \in 0 .. d - 1 : f[j] # NULL
      BY <2>1, <2>5 DEF Count
    <2> QED
      BY <2>2, <2>3, <2>4, <2>5 DEF Contig
  <1> HIDE DEF k
  <1>3. FullPlaces(f, l, d) = 0 .. k - 1
    <2>1. ASSUME NEW i \in FullPlaces(f, l, d) PROVE i \in 0 .. k - 1
      BY <1>1, <1>2, <2>1 DEF FullPlaces
    <2>2. ASSUME NEW i \in 0 .. k - 1 PROVE i \in FullPlaces(f, l, d)
      <3>1. i \in 0 .. d - 1 /\ i < k
        BY <1>1
      <3> QED
        BY <1>2, <3>1, Zenon DEF FullPlaces
    <2> QED
      BY <2>1, <2>2
  <1>4. Cardinality(0 .. k - 1) = k
    BY <1>1, FS_Interval
  <1> QED
    BY <1>1, <1>3, <1>4 DEF k

\* What is pending, with the ring as an argument.
PendingOf(f, l, d) == [i \in 1 .. Cardinality(FullPlaces(f, l, d)) |-> f[(l + i - 1) % d]]

LEMMA PendingValue ==
    ASSUME NEW d \in Nat \ {0}, NEW l \in 0 .. d - 1, NEW n \in 0 .. d - 1, NEW f,
           Contig(f, n, l, d)
    PROVE  LET k == Count(f, n, l, d) IN
           /\ k \in 0 .. d
           /\ PendingOf(f, l, d) =
                [i \in 1 .. k |-> f[IF l + i - 1 < d THEN l + i - 1 ELSE l + i - 1 - d]]
  <1> DEFINE k == Count(f, n, l, d)
  <1>1. k \in 0 .. d /\ Cardinality(FullPlaces(f, l, d)) = k
    BY CountPlaces
  <1> HIDE DEF k
  <1>2. ASSUME NEW i \in 1 .. k
        PROVE  (l + i - 1) % d = IF l + i - 1 < d THEN l + i - 1 ELSE l + i - 1 - d
    <2>1. i - 1 \in 0 .. d - 1 /\ l + (i - 1) = l + i - 1
      BY <1>1
    <2>2. (l + (i - 1)) % d = IF l + (i - 1) < d THEN l + (i - 1) ELSE l + (i - 1) - d
      BY <2>1, PlaceValue
    <2> QED
      BY <2>1, <2>2
  <1>3. PendingOf(f, l, d) = [i \in 1 .. k |-> f[(l + i - 1) % d]]
    BY <1>1 DEF PendingOf
  <1>4. [i \in 1 .. k |-> f[(l + i - 1) % d]]
          = [i \in 1 .. k |-> f[IF l + i - 1 < d THEN l + i - 1 ELSE l + i - 1 - d]]
    BY <1>2, Zenon
  <1> QED
    BY <1>1, <1>3, <1>4 DEF k

\* What Append, Head and Tail do to a sequence given by its places.
LEMMA AppendPlaces ==
    ASSUME NEW k \in Nat, NEW S, NEW a \in [1 .. k -> S], NEW b \in [1 .. k + 1 -> S],
           \A i \in 1 .. k : b[i] = a[i]
    PROVE  Len(a) = k /\ b = Append(a, b[k + 1])
  <1>1. a \in Seq(S) /\ Len(a) = k /\ b \in Seq(S) /\ Len(b) = k + 1 /\ b[k + 1] \in S
    OBVIOUS
  <1> DEFINE s == Append(a, b[k + 1])
  <1>2. /\ s \in Seq(S) /\ Len(s) = k + 1
        /\ (\A i \in 1 .. k : s[i] = a[i]) /\ s[k + 1] = b[k + 1]
    BY <1>1, AppendProperties
  <1> HIDE DEF s
  <1>3. \A i \in 1 .. k + 1 : b[i] = s[i]
    BY <1>2
  <1>4. b = s
    BY ONLY <1>1, <1>2, <1>3, SeqEqual
  <1> QED
    BY <1>1, <1>4 DEF s

LEMMA TailPlaces ==
    ASSUME NEW k \in Nat \ {0}, NEW S, NEW a \in [1 .. k -> S], NEW b \in [1 .. k - 1 -> S],
           \A i \in 1 .. k - 1 : b[i] = a[i + 1]
    PROVE  a # <<>> /\ Head(a) = a[1] /\ b = Tail(a)
  <1>1. /\ a \in Seq(S) /\ Len(a) = k /\ a # <<>> /\ Head(a) = a[1]
        /\ b \in Seq(S) /\ Len(b) = k - 1
    OBVIOUS
  <1> DEFINE s == Tail(a)
  <1>2. s \in Seq(S) /\ Len(s) = k - 1 /\ \A i \in 1 .. k - 1 : s[i] = a[i + 1]
    BY <1>1, HeadTailProperties
  <1> HIDE DEF s
  <1>3. \A i \in 1 .. k - 1 : b[i] = s[i]
    BY <1>2
  <1>4. b = s
    BY ONLY <1>1, <1>2, <1>3, SeqEqual
  <1> QED
    BY <1>1, <1>4 DEF s

\* enqueue adds the event at the end.
LEMMA Appended ==
    ASSUME NEW d \in Nat \ {0}, NEW l \in 0 .. d - 1, NEW n \in 0 .. d - 1,
           NEW f, Contig(f, n, l, d), f[n] = NULL,
           NEW g, g[n] # NULL, \A i \in 0 .. d - 1 : i # n => g[i] = f[i],
           NEW m \in 0 .. d - 1, m = IF n + 1 = d THEN 0 ELSE n + 1, Contig(g, m, l, d)
    PROVE  /\ Len(PendingOf(f, l, d)) < d
           /\ PendingOf(g, l, d) = Append(PendingOf(f, l, d), g[n])
  <1> DEFINE k == Count(f, n, l, d)
             at(i) == IF l + i - 1 < d THEN l + i - 1 ELSE l + i - 1 - d
             S == {f[i] : i \in 0 .. d - 1} \cup {g[i] : i \in 0 .. d - 1}
  <1>0. \A i \in 0 .. d - 1 : i # n => g[i] = f[i]
    OBVIOUS
  <1>1. k \in 0 .. d - 1 /\ (n = IF l + k < d THEN l + k ELSE l + k - d) /\ Count(g, m, l, d) = k + 1
    <2>1. CASE l < n /\ \A j \in 0 .. d - 1 : f[j] # NULL <=> (l <= j /\ j < n)
      <3>1. k = n - l
        BY <2>1 DEF Count
      <3>2. g[l] # NULL
        BY <1>0, <2>1
      <3> HIDE DEF k
      <3>3. CASE n + 1 = d
        BY <2>1, <3>1, <3>2, <3>3 DEF Count
      <3>4. CASE n + 1 # d
        BY <2>1, <3>1, <3>2, <3>4 DEF Count
      <3> QED
        BY <3>3, <3>4
    <2>2. CASE n < l /\ \A j \in 0 .. d - 1 : f[j] # NULL <=> (l <= j \/ j < n)
      <3>1. k = d - l + n
        BY <2>2 DEF Count
      <3>2. g[l] # NULL
        BY <1>0, <2>2
      <3> HIDE DEF k
      <3> QED
        BY <2>2, <3>1, <3>2 DEF Count
    <2>3. CASE n = l /\ \A j \in 0 .. d - 1 : f[j] = NULL
      <3>1. k = 0
        BY <2>3 DEF Count
      <3>2. g[l] # NULL
        BY <1>0, <2>3
      <3> HIDE DEF k
      <3>3. CASE n + 1 = d
        BY <2>3, <3>1, <3>2, <3>3 DEF Count
      <3>4. CASE n + 1 # d
        BY <2>3, <3>1, <3>2, <3>4 DEF Count
      <3> QED
        BY <3>3, <3>4
    <2> HIDE DEF k
    <2> QED
      BY <2>1, <2>2, <2>3 DEF Contig
  <1>2. Count(g, m, l, d) = k + 1
    BY <1>1
  <1>3. PendingOf(f, l, d) = [i \in 1 .. k |-> f[at(i)]]
    BY PendingValue
  <1>4a. PendingOf(g, l, d) = [i \in 1 .. Count(g, m, l, d) |-> g[at(i)]]
    BY ONLY d \in Nat \ {0}, l \in 0 .. d - 1, m \in 0 .. d - 1, Contig(g, m, l, d), PendingValue
  <1>4. PendingOf(g, l, d) = [i \in 1 .. k + 1 |-> g[at(i)]]
    BY ONLY <1>2, <1>4a
  <1> HIDE DEF k
  <1>5. \A i \in 1 .. k : at(i) \in 0 .. d - 1 /\ at(i) # n /\ g[at(i)] = f[at(i)]
    BY <1>1
  <1>6. at(k + 1) = n /\ g[at(k + 1)] = g[n]
    BY <1>1
  <1>7. \A i \in 1 .. k + 1 : at(i) \in 0 .. d - 1
    BY <1>1
  <1>8. \A i \in 0 .. d - 1 : f[i] \in S /\ g[i] \in S
    OBVIOUS
  <1> HIDE DEF at, S
  <1>9. PendingOf(f, l, d) \in [1 .. k -> S]
    BY <1>3, <1>5, <1>8
  <1>10. PendingOf(g, l, d) \in [1 .. k + 1 -> S]
    BY <1>4, <1>7, <1>8
  <1>11. \A i \in 1 .. k : PendingOf(g, l, d)[i] = PendingOf(f, l, d)[i]
    BY <1>1, <1>3, <1>4, <1>5
  <1>12. PendingOf(g, l, d)[k + 1] = g[n]
    BY <1>1, <1>4, <1>6
  <1>13. k \in Nat
    BY <1>1
  <1>14. /\ Len(PendingOf(f, l, d)) = k
         /\ PendingOf(g, l, d) = Append(PendingOf(f, l, d), PendingOf(g, l, d)[k + 1])
    BY ONLY <1>9, <1>10, <1>11, <1>13, AppendPlaces
  <1>15. Len(PendingOf(f, l, d)) < d
    BY ONLY <1>1, <1>14, d \in Nat \ {0}
  <1>16. PendingOf(g, l, d) = Append(PendingOf(f, l, d), g[n])
    BY ONLY <1>12, <1>14
  <1> QED
    BY <1>15, <1>16

\* dequeue takes the event at the front.
LEMMA Taken ==
    ASSUME NEW d \in Nat \ {0}, NEW l \in 0 .. d - 1, NEW n \in 0 .. d - 1,
           NEW f, Contig(f, n, l, d), f[l] # NULL,
           NEW g, g[l] = NULL, \A i \in 0 .. d - 1 : i # l => g[i] = f[i],
           NEW r \in 0 .. d - 1, r = IF l + 1 = d THEN 0 ELSE l + 1, Contig(g, n, r, d)
    PROVE  /\ PendingOf(f, l, d) # <<>>
           /\ Head(PendingOf(f, l, d)) = f[l]
           /\ PendingOf(g, r, d) = Tail(PendingOf(f, l, d))
  <1> DEFINE k == Count(f, n, l, d)
             at(i) == IF l + i - 1 < d THEN l + i - 1 ELSE l + i - 1 - d
             S == {f[i] : i \in 0 .. d - 1} \cup {g[i] : i \in 0 .. d - 1}
             after(i) == IF r + i - 1 < d THEN r + i - 1 ELSE r + i - 1 - d
  <1>0. g[l] = NULL /\ \A i \in 0 .. d - 1 : i # l => g[i] = f[i]
    OBVIOUS
  <1>1. k \in 1 .. d /\ Count(g, n, r, d) = k - 1
    <2>1. CASE l < n /\ \A j \in 0 .. d - 1 : f[j] # NULL <=> (l <= j /\ j < n)
      <3>1. k = n - l
        BY <2>1 DEF Count
      <3>2. n = r => g[r] = NULL
        BY <1>0, <2>1
      <3> HIDE DEF k
      <3> QED
        BY <2>1, <3>1, <3>2 DEF Count
    <2>2. CASE n < l /\ \A j \in 0 .. d - 1 : f[j] # NULL <=> (l <= j \/ j < n)
      <3>1. k = d - l + n
        BY <2>2 DEF Count
      <3>2. n = r => g[r] = NULL
        BY <1>0, <2>2
      <3> HIDE DEF k
      <3>3. CASE l + 1 = d
        BY <2>2, <3>1, <3>2, <3>3 DEF Count
      <3>4. CASE l + 1 # d
        BY <2>2, <3>1, <3>2, <3>4 DEF Count
      <3> QED
        BY <3>3, <3>4
    <2>3. CASE n = l /\ \A j \in 0 .. d - 1 : f[j] # NULL
      <3>1. k = d
        BY <2>3 DEF Count
      <3>2. n = r => g[r] = NULL
        BY <1>0, <2>3
      <3> HIDE DEF k
      <3>3. CASE l + 1 = d
        BY <2>3, <3>1, <3>2, <3>3 DEF Count
      <3>4. CASE l + 1 # d
        BY <2>3, <3>1, <3>2, <3>4 DEF Count
      <3> QED
        BY <3>3, <3>4
    <2> HIDE DEF k
    <2> QED
      BY <2>1, <2>2, <2>3 DEF Contig
  <1>2. Count(g, n, r, d) = k - 1
    BY <1>1
  <1>3. PendingOf(f, l, d) = [i \in 1 .. k |-> f[at(i)]]
    BY PendingValue
  <1>4a. PendingOf(g, r, d) = [i \in 1 .. Count(g, n, r, d) |-> g[after(i)]]
    BY ONLY d \in Nat \ {0}, r \in 0 .. d - 1, n \in 0 .. d - 1, Contig(g, n, r, d), PendingValue
  <1>4. PendingOf(g, r, d) = [i \in 1 .. k - 1 |-> g[after(i)]]
    BY ONLY <1>2, <1>4a
  <1> HIDE DEF k
  <1>5. \A i \in 1 .. k - 1 : after(i) = at(i + 1) /\ at(i + 1) \in 0 .. d - 1 /\ at(i + 1) # l
    BY <1>1
  <1>6. at(1) = l
    OBVIOUS
  <1>7. \A i \in 1 .. k : at(i) \in 0 .. d - 1
    BY <1>1
  <1>8a. \A i \in 0 .. d - 1 : f[i] \in S
    OBVIOUS
  <1> HIDE DEF at, after, S
  <1>8. PendingOf(f, l, d) \in [1 .. k -> S]
    BY <1>3, <1>7, <1>8a
  <1>9. \A i \in 1 .. k - 1 : g[after(i)] = f[at(i + 1)] /\ f[at(i + 1)] \in S
    BY <1>0, <1>5, <1>8a
  <1>10. PendingOf(g, r, d) \in [1 .. k - 1 -> S]
    BY ONLY <1>4, <1>9
  <1>11a. \A i \in 1 .. k - 1 : PendingOf(g, r, d)[i] = g[after(i)]
    BY ONLY <1>4, Zenon
  <1>11b. \A i \in 1 .. k - 1 : i + 1 \in 1 .. k
    BY ONLY <1>1
  <1>11c. \A i \in 1 .. k : PendingOf(f, l, d)[i] = f[at(i)]
    BY ONLY <1>3, Zenon
  <1>11. \A i \in 1 .. k - 1 : PendingOf(g, r, d)[i] = PendingOf(f, l, d)[i + 1]
    BY ONLY <1>9, <1>11a, <1>11b, <1>11c
  <1>12. PendingOf(f, l, d)[1] = f[l]
    BY <1>1, <1>3, <1>6
  <1>13. k \in Nat \ {0}
    BY <1>1
  <1>14. /\ PendingOf(f, l, d) # <<>> /\ Head(PendingOf(f, l, d)) = PendingOf(f, l, d)[1]
         /\ PendingOf(g, r, d) = Tail(PendingOf(f, l, d))
    BY ONLY <1>8, <1>10, <1>11, <1>13, TailPlaces
  <1> QED
    BY <1>12, <1>14
LEMMA PendingEmpty ==
    ASSUME NEW d \in Nat \ {0}, NEW f, \A i \in 0 .. d - 1 : f[i] = NULL
    PROVE  PendingOf(f, 0, d) = <<>>
  <1>1. Contig(f, 0, 0, d) /\ Count(f, 0, 0, d) = 0
    BY DEF Contig, Count
  <1>2. 0 \in 0 .. d - 1
    OBVIOUS
  <1>3. Cardinality(FullPlaces(f, 0, d)) = 0
    BY ONLY <1>1, <1>2, d \in Nat \ {0}, CountPlaces
  <1> QED
    BY <1>3 DEF PendingOf

LEMMA PendingOlder ==
    ASSUME NEW d \in Nat \ {0}, NEW l \in 0 .. d - 1, NEW n \in 0 .. d - 1, NEW f,
           Contig(f, n, l, d)
    PROVE  /\ Len(PendingOf(f, l, d)) \in Nat
           /\ \A i \in 1 .. Len(PendingOf(f, l, d)) :
                 \E j \in 0 .. d - 1 : f[j] # NULL /\ PendingOf(f, l, d)[i] = f[j]
  <1> DEFINE k == Count(f, n, l, d)
  <1>1. /\ k \in 0 .. d /\ FullPlaces(f, l, d) = 0 .. k - 1
        /\ Cardinality(FullPlaces(f, l, d)) = k
    BY CountPlaces
  <1> HIDE DEF k
  <1>2. PendingOf(f, l, d) = [i \in 1 .. k |-> f[(l + i - 1) % d]]
    BY <1>1 DEF PendingOf
  <1>3. Len(PendingOf(f, l, d)) = k
    BY <1>1, <1>2
  <1>4. ASSUME NEW i \in 1 .. k
        PROVE  \E j \in 0 .. d - 1 : f[j] # NULL /\ PendingOf(f, l, d)[i] = f[j]
    <2>1. i - 1 \in 0 .. k - 1 /\ i - 1 \in 0 .. d - 1 /\ l + (i - 1) = l + i - 1
      BY <1>1
    <2>2. f[(l + (i - 1)) % d] # NULL
      BY <1>1, <2>1 DEF FullPlaces
    <2>3. (l + (i - 1)) % d \in 0 .. d - 1
      BY <2>1, PlaceValue
    <2>4. PendingOf(f, l, d)[i] = f[(l + (i - 1)) % d]
      BY <1>2, <2>1
    <2> QED
      BY <2>2, <2>3, <2>4
  <1> QED
    BY <1>1, <1>3, <1>4

-----------------------------------------------------------------------------
(* The refinement. *)

LEMMA PendingIs ==
    /\ Pending = PendingOf(q, q_last, q_depth)
    /\ Contiguous = Contig(q, q_next, q_last, q_depth)
  BY DEF Pending, Places, PendingOf, FullPlaces, Contiguous, Slots, Contig

LEMMA PendingIsNext ==
    /\ Pending' = PendingOf(q', q_last', q_depth')
    /\ Contiguous' = Contig(q', q_next', q_last', q_depth')
  BY DEF Pending, Places, PendingOf, FullPlaces, Contiguous, Slots, Contig

\* That events keep their order is not inductive by itself: nothing in the ring or
\* behind it is younger than the event enqueue is busy with.
OInv ==
    /\ \A i \in Slots : q[i] # NULL => q[i] <= seen /\ (main = "enqueue" => q[i] < seen)
    /\ \A i \in 1 .. Len(out) : out[i] <= seen /\ (main = "enqueue" => out[i] < seen)

LEMMA InitOInv == Init => OInv
  BY DEF Init, OInv, EmptyRing, Slots

LEMMA GrabOInv ==
    ASSUME DType, OInv, Grab(q_last % q_depth), main' = main
    PROVE  OInv'
  <1>1. /\ q_depth \in Nat \ {0} /\ q_last \in Slots /\ q_last % q_depth = q_last
    BY WorldFacts, SlotInRing DEF DType, TypeOK, Slots
  <1>2. q[q_last] # NULL /\ \A i \in Slots : q'[i] = IF i = q_last THEN NULL ELSE q[i]
    BY <1>1 DEF DType, TypeOK, Slots, Grab
  <1>3. out' = Append(out, q[q_last]) /\ out \in Seq(1 .. world.events)
        /\ q[q_last] \in 1 .. world.events
    BY <1>1, <1>2 DEF DType, TypeOK, Slots, Grab
  <1>4. /\ Len(out') = Len(out) + 1 /\ Len(out) \in Nat
        /\ (\A i \in 1 .. Len(out) : out'[i] = out[i]) /\ out'[Len(out) + 1] = q[q_last]
    BY <1>3, AppendProperties, LenProperties
  <1>5. seen' = seen /\ Slots' = Slots
    BY DEF Grab, Slots
  <1>6. \A i \in Slots' : q'[i] # NULL => q'[i] <= seen' /\ (main' = "enqueue" => q'[i] < seen')
    BY <1>2, <1>5 DEF OInv
  <1>7. \A i \in 1 .. Len(out') : out'[i] <= seen' /\ (main' = "enqueue" => out'[i] < seen')
    BY <1>1, <1>2, <1>4, <1>5 DEF OInv
  <1> QED
    BY <1>6, <1>7 DEF OInv

LEMMA NextOInv ==
    ASSUME DType, Still, SInv, OInv, [Next]_vars
    PROVE  OInv'
  <1> USE DEF ring, counts, flags, history
  <1>0. world.hups = 0 /\ q_depth \in Nat \ {0} /\ seen \in Nat
    BY WorldFacts DEF Still, DType, TypeOK
  <1>1. ASSUME UNCHANGED <<q, q_depth, seen, out>>, main' = "enqueue" => main = "enqueue"
        PROVE OInv'
    BY <1>1 DEF OInv, Slots
  <1>2. CASE dispatch_event
    <2>1. seen' = seen + 1 /\ UNCHANGED <<q, q_depth, out>>
      BY <1>2 DEF dispatch_event
    <2>2. \A i \in Slots : q[i] # NULL => q[i] \in Nat
      <3>1. q \in [Slots -> 1 .. world.events \cup {NULL}] /\ world.events \in Nat
        BY WorldFacts DEF DType, TypeOK, Slots
      <3> QED
        BY ONLY <3>1
    <2>3. \A i \in 1 .. Len(out) : out[i] \in Nat
      BY WorldFacts DEF DType
    <2> QED
      BY <1>0, <2>1, <2>2, <2>3 DEF OInv, Slots
  <1>3. CASE EnqueueTry
    <2>1. CASE UNCHANGED <<ring, history>>
      BY <1>1, <1>3, <2>1 DEF EnqueueTry, Undefined
    <2>2. CASE main' = "idle" /\ q' = [q EXCEPT ![q_next % q_depth] = seen]
               /\ UNCHANGED <<q_depth, seen, out>>
      <3>1. \A i \in Slots : q'[i] = seen \/ q'[i] = q[i]
        BY <2>2 DEF DType, TypeOK, Slots
      <3> QED
        BY <1>0, <2>2, <3>1 DEF OInv, Slots
    <2> QED
      BY <1>3, <2>1, <2>2 DEF EnqueueTry, Undefined
  <1>4. CASE do_overflow_action
    BY <1>1, <1>4 DEF do_overflow_action
  <1>5. CASE libdisp_resume
    BY <1>1, <1>5 DEF libdisp_resume
  <1>6. ASSUME NEW c \in Configs, libdisp_reconfigure(c) \/ libdisp_init(c)
        PROVE FALSE
    BY <1>0, <1>6 DEF libdisp_reconfigure, libdisp_init, SInv
  <1>7. CASE libdisp_shutdown \/ nudge_queue
    BY <1>1, <1>7 DEF libdisp_shutdown, nudge_queue
  <1>8. CASE DequeueEnter \/ Delivered \/ ThreadQuits
    BY <1>1, <1>8 DEF DequeueEnter, Delivered, ThreadQuits
  <1>9. CASE DequeueLook
    <2>1. CASE Grab(q_last % q_depth) /\ ~Undefined
      BY <1>9, <2>1, GrabOInv DEF DequeueLook
    <2>2. CASE ~Grab(q_last % q_depth) \/ Undefined
      BY <1>1, <1>9, <2>2 DEF DequeueLook, Undefined
    <2> QED
      BY <2>1, <2>2
  <1>10. CASE DequeueWoken
    <2>1. CASE Grab(q_last % q_depth) /\ ~Undefined
      BY <1>10, <2>1, GrabOInv DEF DequeueWoken
    <2>2. CASE ~Grab(q_last % q_depth) \/ Undefined
      BY <1>1, <1>10, <2>2 DEF DequeueWoken, Undefined
    <2> QED
      BY <2>1, <2>2
  <1>11. CASE increase_queue_depth \/ reconfigure \/ HupDone
    BY <1>11 DEF increase_queue_depth, reconfigure, HupDone, SInv
  <1>12. CASE destroy_queue
    BY <1>1, <1>12 DEF destroy_queue, Undefined
  <1>13. CASE UNCHANGED vars
    BY <1>1, <1>13 DEF vars
  <1> QED
    BY <1>2, <1>3, <1>4, <1>5, <1>6, <1>7, <1>8, <1>9, <1>10, <1>11, <1>12, <1>13
       DEF Next, MainStep, OutboundStep
LEMMA AcceptStep ==
    ASSUME DType, DType', Still, world' = world, SInv, SInv', OInv, main = "enqueue",
           q[q_next % q_depth] = NULL,
           q' = [q EXCEPT ![q_next % q_depth] = seen],
           q_next' = NextSlot(q_next % q_depth), UNCHANGED <<q_last, q_depth, seen, out>>
    PROVE  Channel!Accept
  <1>1. /\ q_depth \in Nat \ {0} /\ q_last \in 0 .. q_depth - 1 /\ q_next \in 0 .. q_depth - 1
        /\ seen # NULL
    <2>1. world \in Worlds /\ seen \in 0 .. world.events /\ q_depth \in world.depths
          /\ q_last \in 0 .. q_depth - 1 /\ q_next \in 0 .. q_depth - 1
      BY DEF DType, TypeOK
    <2> QED
      BY ONLY <2>1, WorldFacts
  <1>1b. /\ q \in [0 .. q_depth - 1 -> 1 .. world.events \cup {NULL}]
         /\ q_next' \in 0 .. q_depth - 1
    BY DEF DType, TypeOK
  <1>1a. q_depth <= Deepest /\ Deepest \in Nat
    BY DepthAssumption DEF DType, TypeOK
  <1>2. q_next % q_depth = q_next
    BY ONLY <1>1, SlotInRing
  <1>3. q_next' = IF q_next + 1 = q_depth THEN 0 ELSE q_next + 1
    BY <1>1, <1>2, SlotAfter DEF NextSlot
  <1>4. /\ q[q_next] = NULL /\ q'[q_next] = seen /\ q'[q_next] # NULL
        /\ \A i \in 0 .. q_depth - 1 : i # q_next => q'[i] = q[i]
    BY <1>1, <1>1b, <1>2
  <1>5. Contig(q, q_next, q_last, q_depth) /\ Contig(q', q_next', q_last, q_depth)
    BY PendingIs, PendingIsNext DEF SInv
  <1>6. /\ Len(PendingOf(q, q_last, q_depth)) < q_depth
        /\ PendingOf(q', q_last, q_depth) = Append(PendingOf(q, q_last, q_depth), q'[q_next])
    BY ONLY <1>1, <1>1b, <1>3, <1>4, <1>5, Appended
  <1>7. /\ Len(Pending) < q_depth /\ Pending' = Append(Pending, seen)
    BY <1>4, <1>6, PendingIs, PendingIsNext
  <1>8. \A i \in 1 .. Len(Pending) : Pending[i] < seen
    BY <1>1, <1>5, PendingIs, PendingOlder DEF OInv, Slots
  <1>9. Still' /\ \A i \in 1 .. Len(out) : out[i] < seen
    BY DEF OInv, Still
  <1>10. Len(Pending) < Deepest
    BY <1>1, <1>1a, <1>5, <1>7, PendingIs, PendingOlder
  <1> QED
    BY <1>7, <1>8, <1>9, <1>10 DEF Channel!Accept

LEMMA HandOverStep ==
    ASSUME DType, DType', Still, world' = world, SInv, SInv', Grab(q_last % q_depth)
    PROVE  Channel!HandOver
  <1>1. /\ q_depth \in Nat \ {0} /\ q_last \in 0 .. q_depth - 1 /\ q_next \in 0 .. q_depth - 1
        /\ q_last' \in 0 .. q_depth - 1
    BY WorldFacts DEF DType, TypeOK, Grab
  <1>1a. q \in [0 .. q_depth - 1 -> 1 .. world.events \cup {NULL}]
    BY DEF DType, TypeOK
  <1>2. q_last % q_depth = q_last
    BY ONLY <1>1, SlotInRing
  <1>3. q_last' = IF q_last + 1 = q_depth THEN 0 ELSE q_last + 1
    BY <1>1, <1>2, SlotAfter DEF NextSlot, Grab
  <1>4. /\ q[q_last] # NULL /\ q'[q_last] = NULL
        /\ \A i \in 0 .. q_depth - 1 : i # q_last => q'[i] = q[i]
        /\ out' = Append(out, q[q_last]) /\ UNCHANGED <<q_next, q_depth, seen>>
    BY <1>1, <1>1a, <1>2 DEF Grab
  <1>5. Contig(q, q_next, q_last, q_depth) /\ Contig(q', q_next, q_last', q_depth)
    BY <1>4, PendingIs, PendingIsNext DEF SInv
  <1>6. /\ PendingOf(q, q_last, q_depth) # <<>>
        /\ Head(PendingOf(q, q_last, q_depth)) = q[q_last]
        /\ PendingOf(q', q_last', q_depth) = Tail(PendingOf(q, q_last, q_depth))
    <2>1. /\ q[q_last] # NULL /\ q'[q_last] = NULL
          /\ \A i \in 0 .. q_depth - 1 : i # q_last => q'[i] = q[i]
      BY <1>4
    <2> QED
      BY ONLY <1>1, <1>3, <1>5, <2>1, Taken
  <1>7. Pending # <<>> /\ Head(Pending) = q[q_last] /\ Pending' = Tail(Pending)
    BY <1>4, <1>6, PendingIs, PendingIsNext
  <1>8. Still'
    BY DEF Still
  <1> QED
    BY <1>4, <1>7, <1>8 DEF Channel!HandOver

LEMMA StepRefines ==
    ASSUME DType, DType', Still, SInv, SInv', OInv, [Next]_vars
    PROVE  [Channel!Next]_Channel!vars
  <1> USE DEF ring, counts, flags, history
  <1>0. world.hups = 0 /\ world' = world /\ Still'
    BY DEF Still, Next, vars
  <1>1. ASSUME UNCHANGED <<q, q_last, q_depth, seen, out>>
        PROVE Channel!vars' = Channel!vars
    <2>1. Pending' = Pending
      BY <1>1, PendingIs, PendingIsNext
    <2> QED
      BY <1>0, <1>1, <2>1 DEF Channel!vars
  <1>2. CASE dispatch_event
    <2>1. seen' = seen + 1 /\ out' = out /\ UNCHANGED <<q, q_last, q_depth>>
      BY <1>2 DEF dispatch_event
    <2>2. Pending' = Pending
      BY <2>1, PendingIs, PendingIsNext
    <2>3. Channel!Receive
      BY <1>0, <2>1, <2>2 DEF Channel!Receive
    <2> QED
      BY <2>3 DEF Channel!Next
  <1>3. CASE EnqueueTry
    <2>1. CASE UNCHANGED <<ring, history>>
      BY <1>1, <2>1
    <2>2. CASE ~UNCHANGED <<ring, history>>
      <3>1. Channel!Accept
        BY <1>0, <1>3, <2>2, AcceptStep DEF EnqueueTry, Undefined
      <3> QED
        BY <3>1 DEF Channel!Next
    <2> QED
      BY <2>1, <2>2
  <1>4. CASE do_overflow_action
    BY <1>1, <1>4 DEF do_overflow_action
  <1>5. CASE libdisp_resume
    BY <1>1, <1>5 DEF libdisp_resume
  <1>6. ASSUME NEW c \in Configs, libdisp_reconfigure(c) \/ libdisp_init(c)
        PROVE FALSE
    BY <1>0, <1>6 DEF libdisp_reconfigure, libdisp_init, SInv
  <1>7. CASE libdisp_shutdown \/ nudge_queue
    BY <1>1, <1>7 DEF libdisp_shutdown, nudge_queue
  <1>8. CASE DequeueEnter \/ Delivered \/ ThreadQuits
    BY <1>1, <1>8 DEF DequeueEnter, Delivered, ThreadQuits
  <1>9. CASE DequeueLook
    <2>1. CASE Grab(q_last % q_depth) /\ ~Undefined
      BY <1>0, <2>1, HandOverStep DEF Channel!Next
    <2>2. CASE ~Grab(q_last % q_depth) \/ Undefined
      BY <1>1, <1>9, <2>2 DEF DequeueLook, Undefined
    <2> QED
      BY <2>1, <2>2
  <1>10. CASE DequeueWoken
    <2>1. CASE Grab(q_last % q_depth) /\ ~Undefined
      BY <1>0, <2>1, HandOverStep DEF Channel!Next
    <2>2. CASE ~Grab(q_last % q_depth) \/ Undefined
      BY <1>1, <1>10, <2>2 DEF DequeueWoken, Undefined
    <2> QED
      BY <2>1, <2>2
  <1>11. CASE increase_queue_depth \/ reconfigure \/ HupDone
    BY <1>11 DEF increase_queue_depth, reconfigure, HupDone, SInv
  <1>12. CASE destroy_queue
    BY <1>1, <1>12 DEF destroy_queue, Undefined
  <1>13. CASE UNCHANGED vars
    BY <1>1, <1>13 DEF vars
  <1> QED
    BY <1>2, <1>3, <1>4, <1>5, <1>6, <1>7, <1>8, <1>9, <1>10, <1>11, <1>12, <1>13
       DEF Next, MainStep, OutboundStep

\* The ring and the two threads of audisp/queue.c are a bounded FIFO for every depth
\* and any number of events, while no SIGHUP comes: no event that enqueue accepted
\* is lost, repeated or overtaken.
THEOREM QueueIsChannel == Spec => RefinesChannel
  <1> DEFINE Inv == DType /\ (Still => SInv /\ OInv)
  <1>1. Init => Inv
    BY InitDType, InitSInv, InitOInv
  <1>2. Inv /\ [Next]_vars => Inv'
    <2> SUFFICES ASSUME Inv, [Next]_vars PROVE Still' => SInv' /\ OInv'
      BY NextDType
    <2>1. world' = world
      BY DEF Next, vars
    <2> QED
      BY <2>1, NextSInv, NextOInv DEF Still
  <1>3. Init => Channel!Init
    <2> SUFFICES ASSUME Init PROVE Channel!Init
      OBVIOUS
    <2>1. q_depth \in Nat \ {0} /\ q_last = 0 /\ \A i \in 0 .. q_depth - 1 : q[i] = NULL
      BY InitDType, WorldFacts DEF Init, DType, TypeOK, EmptyRing
    <2>2. Pending = <<>>
      BY <2>1, PendingIs, PendingEmpty
    <2> QED
      BY <2>2 DEF Init, Channel!Init
  <1>4. Inv /\ Inv' /\ [Next]_vars => [Channel!Next]_Channel!vars
    <2> SUFFICES ASSUME Inv, Inv', [Next]_vars PROVE [Channel!Next]_Channel!vars
      OBVIOUS
    <2>1. world' = world
      BY DEF Next, vars
    <2>2. CASE Still
      BY <2>1, <2>2, StepRefines DEF Still
    <2>3. CASE ~Still
      BY <2>1, <2>3 DEF Still, Channel!vars
    <2> QED
      BY <2>2, <2>3
  <1> QED
    BY <1>1, <1>2, <1>3, <1>4, PTL DEF Spec, RefinesChannel, Channel!Spec
=============================================================================
