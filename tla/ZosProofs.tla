------------------------------ MODULE ZosProofs ------------------------------
(***************************************************************************)
(* Proofs about ZosPlugin, for every depth of the ring and every number of *)
(* events, SIGHUPs and faults.                                             *)
(***************************************************************************)
EXTENDS ZosPlugin, FiniteSetTheorems, TLAPS

-----------------------------------------------------------------------------
(* The inductive invariant.                                                *)

\* A ring of d slots.
IsRing(r, d) == /\ d \in Nat \ {0}
                /\ r \in [slots : [0 .. d - 1 -> Nat], next : 0 .. d - 1, last : 0 .. d - 1]

ZType ==
  /\ zworld \in ZosWorlds
  /\ zpc \in {"load", "grow", "run", "select", "enqueue", "flush", "join", "again", "exited"}
  /\ hand \in [ev : Nat, tries : Nat, back : {"run", "flush"}]
  /\ \E d \in Nat \ {0} : IsRing(zq, d)
  /\ tpc \in {"none", "init", "head", "dequeue", "wait", "woken", "submit", "sent"}
  /\ ber \in Nat /\ retry \in {0, 1} /\ session \in Nat /\ made \in Nat /\ zhups \in Nat
  /\ reached \in Seq(Nat \X Nat)

\* Who has something in hand: main while it enqueues, always the event made
\* last; the thread while it submits.  Main starts over, and exits, without a
\* submission thread.
ZHands ==
  /\ hand.ev # 0 <=> zpc = "enqueue"
  /\ hand.ev # 0 => hand.ev = made
  /\ ber # 0 <=> tpc \in {"submit", "sent"}
  /\ zpc \in {"load", "grow", "again", "exited"} => tpc = "none"

\* Six sets divide u among them.
Divides(u, h, q, b, a, d, g) ==
  /\ u = h \cup q \cup b \cup a \cup d \cup g
  /\ h \cap q = {} /\ h \cap b = {} /\ h \cap a = {} /\ h \cap d = {} /\ h \cap g = {}
  /\ q \cap b = {} /\ q \cap a = {} /\ q \cap d = {} /\ q \cap g = {}
  /\ b \cap a = {} /\ b \cap d = {} /\ b \cap g = {}
  /\ a \cap d = {} /\ a \cap g = {} /\ d \cap g = {}

Held(e) == {e} \ {0}
Queued(r) == {r.slots[i] : i \in DOMAIN r.slots} \ {0}
Once(r) == \A i, j \in DOMAIN r.slots : r.slots[i] # 0 /\ r.slots[i] = r.slots[j] => i = j

ZPlaces ==
  /\ Once(zq)
  /\ zpc # "exited" => Divides(1 .. made, Held(hand.ev), Queued(zq), Held(ber), accepted, dropped, gone)

\* The requests made for event e.
Requests(s, e) == {i \in DOMAIN s : s[i][1] = e}
\* None for what waits, and those of the event that is submitted were made in
\* earlier sessions.
SentWhere ==
  \A i \in DOMAIN reached : /\ reached[i][1] \in 1 .. made /\ reached[i][2] <= session
                            /\ reached[i][1] # hand.ev /\ reached[i][1] \notin Queued(zq)
                            /\ tpc = "submit" /\ reached[i][1] = ber => reached[i][2] < session
\* As many as submit_request_s has used up of its tries.
SentTimes ==
  /\ \A i, j \in DOMAIN reached : i # j => reached[i] # reached[j]
  /\ \A e \in Nat : Cardinality(Requests(reached, e)) <= 2
  /\ tpc = "submit" => Cardinality(Requests(reached, ber)) <= 1 - retry
  /\ tpc = "sent" => Cardinality(Requests(reached, ber)) <= 2 - retry
ZSent == SentWhere /\ SentTimes

\* In a ring of d slots: how far slot i is behind slot l, and the slot n places
\* behind it.
Dist(l, d, i) == IF i >= l THEN i - l ELSE i + d - l
At(l, d, n) == IF l + n < d THEN l + n ELSE l + n - d
\* The n slots from l on hold events, in the order of the events; k comes next.
Sorted(f, l, k, d, n) ==
  /\ k = At(l, d, n)
  /\ \A i \in 0 .. d - 1 : f[i] # 0 <=> Dist(l, d, i) < n
  /\ \A i, j \in 0 .. d - 1 : Dist(l, d, i) < Dist(l, d, j) /\ Dist(l, d, j) < n => f[i] < f[j]
Ordered(r, d, n) == Sorted(r.slots, r.last, r.next, d, n)

\* A ring r of d slots, the event b that is submitted, the requests s and the
\* submission thread at t: events leave in the order they came, and the thread
\* waits for the first one only.
InLine(r, d, b, s, t) ==
  /\ \E n \in 0 .. d : Ordered(r, d, n)
  /\ \A e \in Queued(r) : b < e
  /\ \A i \in DOMAIN s :
       /\ \A j \in DOMAIN s : i < j => s[i][1] <= s[j][1]
       /\ \A e \in Queued(r) : s[i][1] < e
       /\ b # 0 => s[i][1] <= b
  /\ t = "wait" => Queued(r) = {}
ZLine == ~Enlarged => InLine(zq, Depth(zq), ber, reached, tpc)

\* The ring has its depth from the file before the first event comes.
Idle(r) == r.next = 0 /\ r.last = 0 /\ \A i \in DOMAIN r.slots : r.slots[i] = 0
Started == \/ Depth(zq) >= zworld.first
           \/ zhups > 0 /\ Depth(zq) >= zworld.later
ZStarted == \/ Started
            \/ zpc \in {"load", "grow", "exited"} /\ Idle(zq)

ZInv == ZType /\ ZHands /\ ZPlaces /\ ZSent /\ ZLine /\ ZStarted

-----------------------------------------------------------------------------
(* The ring.                                                               *)

Succ(d, i) == IF i + 1 = d THEN 0 ELSE i + 1

LEMMA Modulo ==
    ASSUME NEW d \in Nat \ {0}, NEW i \in 0 .. d - 1
    PROVE  /\ i % d = i
           /\ (i + 1) % d = Succ(d, i)
           /\ Succ(d, i) \in 0 .. d - 1
  BY DEF Succ

LEMMA RingDepth ==
    ASSUME NEW r, NEW d, IsRing(r, d)
    PROVE  /\ d \in Nat \ {0} /\ Depth(r) = d /\ DOMAIN r.slots = 0 .. d - 1
           /\ AtLast(r) = r.slots[r.last] /\ r.slots[r.next % Depth(r)] = r.slots[r.next]
           /\ AtLast(r) \in Nat
  <1>1. d \in Nat \ {0} /\ DOMAIN r.slots = 0 .. d - 1 /\ 0 \in Int /\ d - 1 \in Int
    BY DEF IsRing
  <1>2. Cardinality(0 .. d - 1) = d
    <2>1. Cardinality(0 .. d - 1) = IF 0 > d - 1 THEN 0 ELSE (d - 1) - 0 + 1
      BY ONLY <1>1, FS_Interval
    <2> QED BY <2>1, <1>1
  <1>3. Depth(r) = d
    BY <1>1, <1>2 DEF Depth
  <1>4. r.last % d = r.last /\ r.next % d = r.next
    BY Modulo, Zenon DEF IsRing
  <1> QED
    BY <1>1, <1>3, <1>4 DEF AtLast, IsRing

LEMMA PutIs ==
    ASSUME NEW r, NEW d, IsRing(r, d), NEW e \in Nat
    PROVE  /\ Put(r, e) = [slots |-> [r.slots EXCEPT ![r.next] = e],
                           next |-> Succ(d, r.next), last |-> r.last]
           /\ IsRing(Put(r, e), d)
  <1>1. /\ Depth(r) = d /\ d \in Nat \ {0} /\ r.next \in 0 .. d - 1
        /\ r.next % d = r.next /\ (r.next + 1) % d = Succ(d, r.next) /\ Succ(d, r.next) \in 0 .. d - 1
    BY RingDepth, Modulo, Zenon DEF IsRing
  <1>2. r \in [slots : [0 .. d - 1 -> Nat], next : 0 .. d - 1, last : 0 .. d - 1]
    BY DEF IsRing
  <1>3. Put(r, e) = [r EXCEPT !.slots[r.next] = e, !.next = Succ(d, r.next)]
    BY ONLY <1>1, <1>2, Zenon DEF Put
  <1>4. Put(r, e) = [slots |-> [r.slots EXCEPT ![r.next] = e],
                     next |-> Succ(d, r.next), last |-> r.last]
    BY ONLY <1>2, <1>3, Zenon
  <1>5. [r.slots EXCEPT ![r.next] = e] \in [0 .. d - 1 -> Nat]
    BY <1>2
  <1> QED
    BY ONLY <1>1, <1>2, <1>4, <1>5 DEF IsRing

LEMMA TakeIs ==
    ASSUME NEW r, NEW d, IsRing(r, d)
    PROVE  /\ Take(r) = [slots |-> [r.slots EXCEPT ![r.last] = 0],
                         next |-> r.next, last |-> Succ(d, r.last)]
           /\ IsRing(Take(r), d)
  <1>1. /\ Depth(r) = d /\ d \in Nat \ {0} /\ r.last \in 0 .. d - 1
        /\ r.last % d = r.last /\ (r.last + 1) % d = Succ(d, r.last) /\ Succ(d, r.last) \in 0 .. d - 1
    BY RingDepth, Modulo, Zenon DEF IsRing
  <1>2. r \in [slots : [0 .. d - 1 -> Nat], next : 0 .. d - 1, last : 0 .. d - 1]
    BY DEF IsRing
  <1>3. Take(r) = [r EXCEPT !.slots[r.last] = 0, !.last = Succ(d, r.last)]
    BY ONLY <1>1, <1>2, Zenon DEF Take
  <1>4. Take(r) = [slots |-> [r.slots EXCEPT ![r.last] = 0],
                   next |-> r.next, last |-> Succ(d, r.last)]
    BY ONLY <1>2, <1>3, Zenon
  <1>5. [r.slots EXCEPT ![r.last] = 0] \in [0 .. d - 1 -> Nat]
    BY <1>2
  <1> QED
    BY ONLY <1>1, <1>2, <1>4, <1>5 DEF IsRing

Larger(r, size) == [slots |-> [i \in 0 .. size - 1 |-> IF i \in DOMAIN r.slots THEN r.slots[i] ELSE 0],
                    next |-> r.next, last |-> r.last]

LEMMA GrowIs ==
    ASSUME NEW r, NEW d, IsRing(r, d), NEW size \in Nat
    PROVE  /\ size > d => /\ increase_queue_depth(r, size) = Larger(r, size)
                          /\ IsRing(increase_queue_depth(r, size), size)
           /\ ~(size > d) => increase_queue_depth(r, size) = r
  <1>1. Depth(r) = d /\ d \in Nat \ {0} /\ DOMAIN r.slots = 0 .. d - 1
    BY RingDepth
  <1>2. r \in [slots : [0 .. d - 1 -> Nat], next : 0 .. d - 1, last : 0 .. d - 1]
    BY DEF IsRing
  <1>3. ASSUME size > d PROVE increase_queue_depth(r, size) = Larger(r, size)
    BY <1>1, <1>2, <1>3, Zenon DEF increase_queue_depth, Larger
  <1>4. ASSUME size > d PROVE IsRing(Larger(r, size), size)
    BY <1>1, <1>4 DEF Larger, IsRing
  <1> QED
    BY <1>1, <1>3, <1>4, Zenon DEF increase_queue_depth

-----------------------------------------------------------------------------
(* What the ring holds.                                                    *)

LEMMA PutQueued ==
    ASSUME NEW r, NEW d, IsRing(r, d), NEW e \in Nat \ {0}, r.slots[r.next] = 0
    PROVE  /\ Queued(Put(r, e)) = Queued(r) \cup {e}
           /\ Once(r) /\ e \notin Queued(r) => Once(Put(r, e))
  <1> DEFINE f == r.slots
             g == Put(r, e).slots
             k == r.next
  <1>0. Put(r, e) = [slots |-> [r.slots EXCEPT ![r.next] = e],
                     next |-> Succ(d, r.next), last |-> r.last]
    BY PutIs
  <1>1. g = [f EXCEPT ![k] = e] /\ DOMAIN f = 0 .. d - 1 /\ k \in 0 .. d - 1
    BY <1>0, RingDepth DEF IsRing
  <1>2. /\ DOMAIN g = DOMAIN f /\ g[k] = e /\ k \in DOMAIN f /\ f[k] = 0
        /\ \A i \in DOMAIN f : i # k => g[i] = f[i]
    BY <1>1, Zenon
  <1>3. Queued(r) = {f[i] : i \in DOMAIN f} \ {0} /\ Queued(Put(r, e)) = {g[i] : i \in DOMAIN g} \ {0}
    BY DEF Queued
  <1>4. /\ Once(r) => \A i, j \in DOMAIN f : f[i] # 0 /\ f[i] = f[j] => i = j
        /\ Once(Put(r, e)) <=> \A i, j \in DOMAIN g : g[i] # 0 /\ g[i] = g[j] => i = j
    BY DEF Once
  <1> HIDE DEF f, g, k
  <1>5. Queued(Put(r, e)) = Queued(r) \cup {e}
    BY ONLY <1>2, <1>3, e # 0
  <1>6. Once(r) /\ e \notin Queued(r) => Once(Put(r, e))
    BY ONLY <1>2, <1>3, <1>4, e # 0
  <1> QED
    BY <1>5, <1>6

LEMMA TakeQueued ==
    ASSUME NEW r, NEW d, IsRing(r, d), Once(r), AtLast(r) # 0
    PROVE  /\ Queued(Take(r)) = Queued(r) \ {AtLast(r)}
           /\ AtLast(r) \in Queued(r)
           /\ Once(Take(r))
  <1> DEFINE f == r.slots
             g == Take(r).slots
             k == r.last
  <1>0. Take(r) = [slots |-> [r.slots EXCEPT ![r.last] = 0],
                   next |-> r.next, last |-> Succ(d, r.last)]
    BY TakeIs, Zenon
  <1>a. DOMAIN f = 0 .. d - 1 /\ k \in 0 .. d - 1 /\ AtLast(r) = f[k]
    BY RingDepth, Zenon DEF IsRing
  <1>1. g = [f EXCEPT ![k] = 0] /\ DOMAIN f = 0 .. d - 1 /\ k \in 0 .. d - 1 /\ AtLast(r) = f[k]
    BY ONLY <1>0, <1>a
  <1>2. /\ DOMAIN g = DOMAIN f /\ g[k] = 0 /\ k \in DOMAIN f
        /\ \A i \in DOMAIN f : i # k => g[i] = f[i]
    BY <1>1, Zenon
  <1>3. Queued(r) = {f[i] : i \in DOMAIN f} \ {0} /\ Queued(Take(r)) = {g[i] : i \in DOMAIN g} \ {0}
    BY DEF Queued
  <1>4. /\ \A i, j \in DOMAIN f : f[i] # 0 /\ f[i] = f[j] => i = j
        /\ Once(Take(r)) <=> \A i, j \in DOMAIN g : g[i] # 0 /\ g[i] = g[j] => i = j
    BY DEF Once
  <1>5. f[k] # 0
    BY <1>1
  <1> HIDE DEF f, g, k
  <1>6. Queued(Take(r)) = Queued(r) \ {f[k]}
    BY ONLY <1>2, <1>3, <1>4, <1>5
  <1>7. Once(Take(r))
    BY ONLY <1>2, <1>4
  <1> QED
    BY ONLY <1>1, <1>2, <1>3, <1>5, <1>6, <1>7, Zenon

LEMMA GrowQueued ==
    ASSUME NEW r, NEW d, IsRing(r, d), NEW size \in Nat, size > d
    PROVE  /\ Queued(Larger(r, size)) = Queued(r)
           /\ Once(r) => Once(Larger(r, size))
  <1>1. /\ DOMAIN r.slots = 0 .. d - 1 /\ d \in Nat
        /\ Larger(r, size).slots = [i \in 0 .. size - 1 |-> IF i \in DOMAIN r.slots THEN r.slots[i] ELSE 0]
    BY RingDepth DEF Larger
  <1>2. 0 .. d - 1 \subseteq 0 .. size - 1
    BY <1>1
  <1>3. Queued(Larger(r, size)) = Queued(r)
    BY <1>1, <1>2 DEF Queued
  <1> QED
    BY <1>1, <1>2, <1>3 DEF Once

LEMMA QueuedNumbers ==
    ASSUME NEW r, NEW d, IsRing(r, d)
    PROVE  Queued(r) \subseteq Nat \ {0}
  BY RingDepth DEF IsRing, Queued

-----------------------------------------------------------------------------
(* The order of what the ring holds.                                       *)

LEMMA Distance ==
    ASSUME NEW d \in Nat \ {0}, NEW l \in 0 .. d - 1
    PROVE  /\ \A i \in 0 .. d - 1 : Dist(l, d, i) \in 0 .. d - 1
           /\ \A i, j \in 0 .. d - 1 : Dist(l, d, i) = Dist(l, d, j) => i = j
           /\ Dist(l, d, l) = 0
  BY DEF Dist

LEMMA Places ==
    ASSUME NEW d \in Nat \ {0}, NEW l \in 0 .. d - 1, NEW n \in 0 .. d
    PROVE  /\ n < d => Dist(l, d, At(l, d, n)) = n
           /\ At(l, d, d) = l /\ At(l, d, 0) = l
  BY DEF Dist, At

LEMMA Advance ==
    ASSUME NEW d \in Nat \ {0}, NEW l \in 0 .. d - 1, NEW n \in 0 .. d
    PROVE  /\ n < d => At(l, d, n + 1) = Succ(d, At(l, d, n))
           /\ 0 < n => At(Succ(d, l), d, n - 1) = At(l, d, n)
           /\ Dist(Succ(d, l), d, l) = d - 1
           /\ \A i \in 0 .. d - 1 : i # l => Dist(Succ(d, l), d, i) = Dist(l, d, i) - 1
  <1>1. /\ n < d => At(l, d, n + 1) = Succ(d, At(l, d, n))
        /\ 0 < n => At(Succ(d, l), d, n - 1) = At(l, d, n)
    BY DEF At, Succ
  <1>2. Dist(Succ(d, l), d, l) = d - 1
    BY DEF Dist, Succ
  <1>3. \A i \in 0 .. d - 1 : i # l => Dist(Succ(d, l), d, i) = Dist(l, d, i) - 1
    BY DEF Dist, Succ
  <1> QED
    BY ONLY <1>1, <1>2, <1>3

LEMMA PutSorted ==
    ASSUME NEW d \in Nat \ {0}, NEW l \in 0 .. d - 1, NEW k \in 0 .. d - 1, NEW n \in 0 .. d,
           NEW f, NEW g, NEW e, e # 0, Sorted(f, l, k, d, n), f[k] = 0,
           g[k] = e, \A i \in 0 .. d - 1 : i # k => g[i] = f[i],
           \A i \in 0 .. d - 1 : f[i] # 0 => f[i] < e
    PROVE  n + 1 \in 0 .. d /\ Sorted(g, l, Succ(d, k), d, n + 1)
  <1>1. /\ \A i \in 0 .. d - 1 : Dist(l, d, i) \in 0 .. d - 1
        /\ \A i, j \in 0 .. d - 1 : Dist(l, d, i) = Dist(l, d, j) => i = j
        /\ Dist(l, d, l) = 0
    BY Distance, Zenon
  <1>0. (n < d => Dist(l, d, At(l, d, n)) = n) /\ At(l, d, d) = l
    BY Places, Zenon
  <1>2. /\ k = At(l, d, n)
        /\ \A i \in 0 .. d - 1 : f[i] # 0 <=> Dist(l, d, i) < n
        /\ \A i, j \in 0 .. d - 1 : Dist(l, d, i) < Dist(l, d, j) /\ Dist(l, d, j) < n => f[i] < f[j]
    BY Zenon DEF Sorted
  <1>3. ~(Dist(l, d, k) < n)
    BY ONLY <1>2, f[k] = 0, k \in 0 .. d - 1
  <1>4. Dist(l, d, k) = n /\ n < d
    BY ONLY <1>0, <1>1, <1>2, <1>3, d \in Nat \ {0}, n \in 0 .. d
  <1>5. Succ(d, k) = At(l, d, n + 1) /\ n + 1 \in 0 .. d
    BY <1>2, <1>4, Advance
  <1>6. \A i \in 0 .. d - 1 : i # k => /\ Dist(l, d, i) < n + 1 <=> Dist(l, d, i) < n
                                       /\ Dist(l, d, i) < Dist(l, d, k) <=> Dist(l, d, i) < n
    BY ONLY <1>1, <1>4, k \in 0 .. d - 1, n \in 0 .. d
  <1>7. Dist(l, d, k) < n + 1
    BY ONLY <1>4, n \in 0 .. d
  <1>8. ASSUME NEW i \in 0 .. d - 1
        PROVE  g[i] # 0 <=> Dist(l, d, i) < n + 1
    <2>1. CASE i = k
      BY <2>1, <1>7
    <2>2. CASE i # k
      BY <2>2, <1>2, <1>6
    <2> QED
      BY ONLY <2>1, <2>2
  <1>9. ASSUME NEW i \in 0 .. d - 1, NEW j \in 0 .. d - 1,
               Dist(l, d, i) < Dist(l, d, j), Dist(l, d, j) < n + 1
        PROVE  g[i] < g[j]
    <2>0. i # k
      BY ONLY <1>1, <1>4, <1>9, n \in 0 .. d
    <2>1. CASE j = k
      BY <2>0, <2>1, <1>9, <1>2, <1>6
    <2>2. CASE j # k
      BY <2>0, <2>2, <1>9, <1>2, <1>6
    <2> QED
      BY ONLY <2>1, <2>2
  <1> QED
    BY ONLY <1>5, <1>8, <1>9, Zenon DEF Sorted

LEMMA TakeSorted ==
    ASSUME NEW d \in Nat \ {0}, NEW l \in 0 .. d - 1, NEW k, NEW n \in 0 .. d,
           NEW f, NEW g, Sorted(f, l, k, d, n), f[l] # 0,
           g[l] = 0, \A i \in 0 .. d - 1 : i # l => g[i] = f[i]
    PROVE  /\ n - 1 \in 0 .. d /\ Sorted(g, Succ(d, l), k, d, n - 1)
           /\ \A i \in 0 .. d - 1 : f[i] # 0 /\ i # l => f[l] < f[i]
  <1> DEFINE m == Succ(d, l)
  <1>1. /\ \A i \in 0 .. d - 1 : Dist(l, d, i) \in 0 .. d - 1
        /\ \A i, j \in 0 .. d - 1 : Dist(l, d, i) = Dist(l, d, j) => i = j
        /\ Dist(l, d, l) = 0
    BY Distance, Zenon
  <1>2. /\ k = At(l, d, n)
        /\ \A i \in 0 .. d - 1 : f[i] # 0 <=> Dist(l, d, i) < n
        /\ \A i, j \in 0 .. d - 1 : Dist(l, d, i) < Dist(l, d, j) /\ Dist(l, d, j) < n => f[i] < f[j]
    BY Zenon DEF Sorted
  <1>3. 0 < n
    BY ONLY <1>1, <1>2, f[l] # 0, l \in 0 .. d - 1
  <1>4. /\ Dist(m, d, l) = d - 1
        /\ \A i \in 0 .. d - 1 : i # l => Dist(m, d, i) = Dist(l, d, i) - 1
        /\ k = At(m, d, n - 1)
    BY <1>2, <1>3, Advance
  <1> HIDE DEF m
  <1>5. /\ ~(Dist(m, d, l) < n - 1) /\ n - 1 \in 0 .. d
        /\ \A i \in 0 .. d - 1 : i # l => Dist(m, d, i) < n - 1 <=> Dist(l, d, i) < n
    BY ONLY <1>1, <1>3, <1>4, n \in 0 .. d, d \in Nat \ {0}
  <1>6. ASSUME NEW i \in 0 .. d - 1
        PROVE  g[i] # 0 <=> Dist(m, d, i) < n - 1
    <2>1. CASE i = l
      BY <2>1, <1>5
    <2>2. CASE i # l
      BY <2>2, <1>2, <1>5
    <2> QED
      BY ONLY <2>1, <2>2
  <1>7. ASSUME NEW i \in 0 .. d - 1, NEW j \in 0 .. d - 1,
               Dist(m, d, i) < Dist(m, d, j), Dist(m, d, j) < n - 1
        PROVE  g[i] < g[j]
    <2>1. j # l
      BY ONLY <1>5, <1>7
    <2>2. i # l
      BY ONLY <1>1, <1>4, <1>7, <2>1, d \in Nat \ {0}
    <2>3. Dist(l, d, i) < Dist(l, d, j) /\ Dist(l, d, j) < n
      BY ONLY <2>1, <2>2, <1>1, <1>4, <1>5, <1>7
    <2> QED
      BY <2>1, <2>2, <2>3, <1>2
  <1>8. Sorted(g, m, k, d, n - 1)
    BY ONLY <1>4, <1>6, <1>7, Zenon DEF Sorted
  <1>9. ASSUME NEW i \in 0 .. d - 1, f[i] # 0, i # l PROVE f[l] < f[i]
    <2>1. Dist(l, d, l) < Dist(l, d, i) /\ Dist(l, d, i) < n
      BY ONLY <1>1, <1>2, <1>9, l \in 0 .. d - 1
    <2> QED
      BY ONLY <1>2, <1>9, <2>1, l \in 0 .. d - 1
  <1> QED
    BY ONLY <1>5, <1>8, <1>9 DEF m

LEMMA PutOrdered ==
    ASSUME NEW r, NEW d, IsRing(r, d), NEW n \in 0 .. d, Ordered(r, d, n),
           NEW e \in Nat \ {0}, r.slots[r.next] = 0, \A x \in Queued(r) : x < e
    PROVE  n + 1 \in 0 .. d /\ Ordered(Put(r, e), d, n + 1)
  <1>1. Put(r, e) = [slots |-> [r.slots EXCEPT ![r.next] = e], next |-> Succ(d, r.next), last |-> r.last]
    BY PutIs, Zenon
  <1>2. /\ d \in Nat \ {0} /\ DOMAIN r.slots = 0 .. d - 1
        /\ r.next \in 0 .. d - 1 /\ r.last \in 0 .. d - 1
    BY RingDepth DEF IsRing
  <1>3. /\ Put(r, e).last = r.last /\ Put(r, e).next = Succ(d, r.next)
        /\ Put(r, e).slots = [r.slots EXCEPT ![r.next] = e]
    BY ONLY <1>1
  <1>4. /\ Put(r, e).slots[r.next] = e
        /\ \A i \in 0 .. d - 1 : i # r.next => Put(r, e).slots[i] = r.slots[i]
    BY ONLY <1>2, <1>3
  <1>5. \A i \in 0 .. d - 1 : r.slots[i] # 0 => r.slots[i] < e
    <2>1. \A i \in 0 .. d - 1 : r.slots[i] # 0 => r.slots[i] \in Queued(r)
      BY ONLY <1>2 DEF Queued
    <2> QED
      BY ONLY <2>1, \A x \in Queued(r) : x < e
  <1>6. Sorted(r.slots, r.last, r.next, d, n) /\ e # 0 /\ n \in 0 .. d /\ r.slots[r.next] = 0
    BY DEF Ordered
  <1>7. n + 1 \in 0 .. d /\ Sorted(Put(r, e).slots, r.last, Succ(d, r.next), d, n + 1)
    BY ONLY <1>2, <1>4, <1>5, <1>6, PutSorted, Zenon
  <1> QED
    BY ONLY <1>3, <1>7 DEF Ordered

LEMMA TakeOrdered ==
    ASSUME NEW r, NEW d, IsRing(r, d), NEW n \in 0 .. d, Ordered(r, d, n), AtLast(r) # 0
    PROVE  /\ n - 1 \in 0 .. d /\ Ordered(Take(r), d, n - 1)
           /\ \A x \in Queued(r) : x # AtLast(r) => AtLast(r) < x
  <1>1. Take(r) = [slots |-> [r.slots EXCEPT ![r.last] = 0], next |-> r.next, last |-> Succ(d, r.last)]
    BY TakeIs, Zenon
  <1>2. /\ d \in Nat \ {0} /\ DOMAIN r.slots = 0 .. d - 1 /\ r.last \in 0 .. d - 1
        /\ AtLast(r) = r.slots[r.last]
    BY RingDepth, Zenon DEF IsRing
  <1>3. /\ Take(r).next = r.next /\ Take(r).last = Succ(d, r.last)
        /\ Take(r).slots = [r.slots EXCEPT ![r.last] = 0]
    BY ONLY <1>1
  <1>4. /\ Take(r).slots[r.last] = 0
        /\ \A i \in 0 .. d - 1 : i # r.last => Take(r).slots[i] = r.slots[i]
    BY ONLY <1>2, <1>3
  <1>5. Sorted(r.slots, r.last, r.next, d, n) /\ r.slots[r.last] # 0 /\ n \in 0 .. d
    BY <1>2 DEF Ordered
  <1>6. /\ n - 1 \in 0 .. d /\ Sorted(Take(r).slots, Succ(d, r.last), r.next, d, n - 1)
        /\ \A i \in 0 .. d - 1 : r.slots[i] # 0 /\ i # r.last => r.slots[r.last] < r.slots[i]
    BY ONLY <1>2, <1>4, <1>5, TakeSorted, Zenon
  <1>7. \A x \in Queued(r) : \E i \in 0 .. d - 1 : x = r.slots[i] /\ r.slots[i] # 0
    BY ONLY <1>2 DEF Queued
  <1>8. \A x \in Queued(r) : x # AtLast(r) => AtLast(r) < x
    BY ONLY <1>2, <1>6, <1>7
  <1>9. Ordered(Take(r), d, n - 1)
    BY ONLY <1>3, <1>6 DEF Ordered
  <1> QED
    BY ONLY <1>6, <1>8, <1>9

LEMMA EmptyOrdered ==
    ASSUME NEW r, NEW d, IsRing(r, d), NEW n \in 0 .. d, Ordered(r, d, n), AtLast(r) = 0
    PROVE  Queued(r) = {}
  <1>0. /\ d \in Nat \ {0} /\ r.last \in 0 .. d - 1
        /\ r.slots[r.last] = 0 /\ DOMAIN r.slots = 0 .. d - 1
    BY RingDepth, Zenon DEF IsRing
  <1>1. /\ Dist(r.last, d, r.last) = 0
        /\ \A i \in 0 .. d - 1 : Dist(r.last, d, i) \in 0 .. d - 1
    BY ONLY <1>0, Distance, Zenon
  <1>2. \A i \in 0 .. d - 1 : r.slots[i] # 0 <=> Dist(r.last, d, i) < n
    BY Zenon DEF Ordered, Sorted
  <1>3. n = 0
    BY ONLY <1>0, <1>1, <1>2, n \in 0 .. d
  <1>4. \A i \in 0 .. d - 1 : r.slots[i] = 0
    <2>1. \A i \in 0 .. d - 1 : ~(Dist(r.last, d, i) < n)
      BY ONLY <1>1, <1>3
    <2> QED
      BY ONLY <1>2, <2>1
  <1> QED
    BY ONLY <1>0, <1>4 DEF Queued

LEMMA IdleOrdered ==
    ASSUME NEW r, NEW d, IsRing(r, d), Idle(r)
    PROVE  Ordered(r, d, 0) /\ 0 \in 0 .. d /\ Queued(r) = {}
  <1>0. d \in Nat \ {0} /\ DOMAIN r.slots = 0 .. d - 1 /\ 0 \in 0 .. d - 1
    BY RingDepth
  <1>1. At(0, d, 0) = 0 /\ \A i \in 0 .. d - 1 : Dist(0, d, i) \in 0 .. d - 1
    BY ONLY <1>0, Distance DEF At
  <1>2. r.next = 0 /\ r.last = 0 /\ \A i \in 0 .. d - 1 : r.slots[i] = 0
    BY <1>0 DEF Idle
  <1>3. Queued(r) = {}
    BY ONLY <1>0, <1>2 DEF Queued
  <1>4. \A i \in 0 .. d - 1 : ~(Dist(0, d, i) < 0)
    BY ONLY <1>1
  <1>5. Ordered(r, d, 0)
    BY ONLY <1>1, <1>2, <1>4 DEF Ordered, Sorted
  <1> QED
    BY ONLY <1>0, <1>3, <1>5

LEMMA IdleGrown ==
    ASSUME NEW r, NEW d, IsRing(r, d), Idle(r), NEW size \in Nat
    PROVE  Idle(Larger(r, size))
  BY RingDepth DEF Idle, Larger

-----------------------------------------------------------------------------
(* One request more.                                                       *)

LEMMA Numbered ==
    ASSUME NEW s \in Seq(Nat \X Nat), NEW i \in DOMAIN s
    PROVE  s[i][1] \in Nat /\ s[i][2] \in Nat
  <1>1. s[i] \in Nat \X Nat
    OBVIOUS
  <1> QED
    BY ONLY <1>1

LEMMA OneMore ==
    ASSUME NEW s \in Seq(Nat \X Nat), NEW e \in Nat, NEW x \in Nat
    PROVE  /\ Append(s, <<e, x>>) \in Seq(Nat \X Nat)
           /\ Len(s) + 1 \in Nat /\ Len(s) + 1 \notin DOMAIN s
           /\ DOMAIN Append(s, <<e, x>>) = DOMAIN s \cup {Len(s) + 1}
           /\ Append(s, <<e, x>>)[Len(s) + 1] = <<e, x>>
           /\ \A i \in DOMAIN s : Append(s, <<e, x>>)[i] = s[i] /\ ~(Len(s) + 1 < i)
  OBVIOUS

LEMMA RequestsFinite ==
    ASSUME NEW s \in Seq(Nat \X Nat), NEW e
    PROVE  IsFiniteSet(Requests(s, e)) /\ Cardinality(Requests(s, e)) \in Nat
  <1>1. DOMAIN s = 1 .. Len(s) /\ Len(s) \in Nat /\ 1 \in Int
    OBVIOUS
  <1>2. IsFiniteSet(DOMAIN s)
    BY <1>1, FS_Interval
  <1>3. Requests(s, e) \in SUBSET DOMAIN s
    BY DEF Requests
  <1>4. IsFiniteSet(Requests(s, e))
    BY ONLY <1>2, <1>3, FS_Subset
  <1> QED
    BY ONLY <1>4, FS_CardinalityType

LEMMA OneRequestMore ==
    ASSUME NEW s \in Seq(Nat \X Nat), NEW e \in Nat, NEW x \in Nat
    PROVE  /\ Cardinality(Requests(Append(s, <<e, x>>), e)) = Cardinality(Requests(s, e)) + 1
           /\ \A f \in Nat : f # e => Requests(Append(s, <<e, x>>), f) = Requests(s, f)
  <1> DEFINE t == Append(s, <<e, x>>)
  <1>1. /\ Len(s) + 1 \notin DOMAIN s /\ DOMAIN t = DOMAIN s \cup {Len(s) + 1}
        /\ t[Len(s) + 1] = <<e, x>>
        /\ \A i \in DOMAIN s : t[i] = s[i]
    BY OneMore
  <1>2. Requests(t, e) = Requests(s, e) \cup {Len(s) + 1} /\ Len(s) + 1 \notin Requests(s, e)
    BY ONLY <1>1 DEF Requests
  <1>3. \A f \in Nat : f # e => Requests(t, f) = Requests(s, f)
    BY ONLY <1>1 DEF Requests
  <1>4. IsFiniteSet(Requests(s, e))
    BY RequestsFinite
  <1>5. Cardinality(Requests(s, e) \cup {Len(s) + 1}) = Cardinality(Requests(s, e)) + 1
    BY ONLY <1>2, <1>4, FS_AddElement, Zenon
  <1> QED
    BY ONLY <1>2, <1>3, <1>5, Zenon DEF t

-----------------------------------------------------------------------------
(* Types.                                                                  *)

LEMMA InitZType == ZosInit => ZType
  <1> SUFFICES ASSUME NEW w \in ZosWorlds, ZosStart(w) PROVE ZType
    BY DEF ZosInit
  <1>1. IsRing(zq, 1)
    BY DEF ZosStart, DefaultDepth, IsRing
  <1>2. reached \in Seq(Nat \X Nat)
    BY DEF ZosStart
  <1> QED
    BY <1>1, <1>2 DEF ZType, ZosStart, NoHand

\* Each operation on the ring leaves a ring.
LEMMA RingStep ==
    ASSUME ZType, ZosNext
    PROVE  \E d \in Nat \ {0} : IsRing(zq, d)'
  <1> PICK d \in Nat \ {0} : IsRing(zq, d)
    BY DEF ZType
  <1>1. CASE UNCHANGED zq
    BY <1>1 DEF IsRing
  <1>2. CASE Grow
    <2>1. PICK size \in Nat : zq' = increase_queue_depth(zq, size)
      BY <1>2, ZosAssumption DEF Grow, ZType
    <2>2. CASE size > d
      <3>1. IsRing(zq', size) /\ size \in Nat \ {0}
        BY <2>1, <2>2, GrowIs
      <3> QED
        BY <3>1, Zenon DEF IsRing
    <2>3. CASE ~(size > d)
      <3>1. zq' = zq
        BY <2>1, <2>3, GrowIs
      <3> QED
        BY <3>1, Zenon DEF IsRing
    <2> QED BY <2>2, <2>3
  <1>3. CASE zq' = Put(zq, hand.ev)
    <2>1. hand.ev \in Nat
      BY DEF ZType
    <2>2. IsRing(zq', d)
      BY <1>3, <2>1, PutIs
    <2> QED
      BY <2>2, Zenon DEF IsRing
  <1>4. CASE zq' = Take(zq)
    <2>2. IsRing(zq', d)
      BY <1>4, TakeIs
    <2> QED
      BY <2>2, Zenon DEF IsRing
  <1> QED
    BY <1>1, <1>2, <1>3, <1>4
       DEF ZosNext, MainStep, ThreadStep, Load, LoopHead, Select, push_event, Enqueue, Flush, Join, Again,
           ThreadInit, ThreadHead, Dequeue, Woken, Grab, Result, Cancelled, Submit, Spurious, Term, Hup, Alarm

LEMMA StepZType ==
    ASSUME ZType, ZosNext
    PROVE  ZType'
  <1>0. \E d \in Nat \ {0} : IsRing(zq, d)'
    BY RingStep
  <1>a. AtLast(zq) \in Nat
    BY RingDepth DEF ZType
  <1> USE DEF ZType, mainVars, ldapVars, nudge_queue
  <1>1. CASE Load \/ Grow \/ LoopHead \/ Join \/ Again
    BY <1>0, <1>1, Zenon DEF Load, Grow, LoopHead, Join, Again, Exit
  <1>2. CASE Select \/ Flush
    <2>1. /\ UNCHANGED <<zworld, tpc, ber, retry, session, zhups, reached>>
          /\ zpc' \in {"enqueue", "run", "flush", "join"} /\ made' \in {made, made + 1}
      BY <1>2 DEF Select, Flush, push_event
    <2>2. hand' \in [ev : Nat, tries : Nat, back : {"run", "flush"}]
      <3>1. hand' = hand \/ \E b \in {"run", "flush"} : hand' = [ev |-> made + 1, tries |-> 0, back |-> b]
        BY <1>2 DEF Select, Flush, push_event
      <3> QED
        BY ONLY <3>1, ZType DEF ZType
    <2> QED
      BY ONLY <1>0, <2>1, <2>2, ZType DEF ZType
  <1>3. CASE Enqueue
    <2>1. hand' \in [ev : Nat, tries : Nat, back : {"run", "flush"}]
      <3>1. hand' = NoHand \/ hand' = [hand EXCEPT !.tries = @ + 1]
        BY <1>3 DEF Enqueue
      <3>2. hand \in [ev : Nat, tries : Nat, back : {"run", "flush"}]
        OBVIOUS
      <3> QED
        BY ONLY <3>1, <3>2 DEF NoHand
    <2> QED
      BY <1>0, <1>3, <2>1 DEF Enqueue
  <1>4. CASE ThreadInit \/ ThreadHead
    <2>1. /\ UNCHANGED <<zworld, zpc, hand, ber, retry, made, zhups, reached>>
          /\ tpc' \in {"none", "init", "head", "dequeue"} /\ session' \in {session, session + 1}
      BY <1>4 DEF ThreadInit, ThreadHead, Ends
    <2> QED
      BY ONLY <1>0, <2>1, ZType DEF ZType
  <1>5. CASE Dequeue \/ Woken
    BY <1>0, <1>a, <1>5 DEF Dequeue, Woken, Grab, Ends
  <1>6. CASE Result
    BY <1>0, <1>6 DEF Result, TryAgain, Finish
  <1>7. CASE Submit
    <2>1. reached' \in Seq(Nat \X Nat)
      <3>1. reached' = reached \/ reached' = Append(reached, <<ber, session>>)
        BY <1>7 DEF Submit
      <3>2. reached \in Seq(Nat \X Nat) /\ ber \in Nat /\ session \in Nat
        OBVIOUS
      <3>3. Append(reached, <<ber, session>>) \in Seq(Nat \X Nat)
        BY ONLY <3>2, OneMore
      <3> QED
        BY ONLY <3>1, <3>2, <3>3, Zenon
    <2>2. /\ UNCHANGED <<zworld, zpc, hand, made, zhups>> /\ tpc' \in {"sent", "submit", "head"}
          /\ ber' \in {ber, 0} /\ session' \in {session, session + 1}
          /\ \/ retry' = retry \/ (retry > 0 /\ retry' = retry - 1)
      BY <1>7 DEF Submit, TryAgain, Finish
    <2> QED
      BY ONLY <1>0, <2>1, <2>2, ZType DEF ZType
  <1>8. CASE Cancelled \/ Spurious \/ Term \/ Hup \/ Alarm
    <2>1. /\ UNCHANGED <<zworld, zpc, hand, made, retry, session, reached>>
          /\ ber' \in {ber, 0} /\ zhups' \in {zhups, zhups + 1} /\ tpc' \in {tpc, "none", "woken"}
      BY <1>8 DEF Cancelled, Spurious, Term, Hup, Alarm
    <2> QED
      BY ONLY <1>0, <2>1, ZType DEF ZType
  <1> QED
    BY <1>1, <1>2, <1>3, <1>4, <1>5, <1>6, <1>7, <1>8 DEF ZosNext, MainStep, ThreadStep

-----------------------------------------------------------------------------
(* Who holds what.                                                         *)

LEMMA InitZHands == ZosInit => ZHands
  BY DEF ZosInit, ZosStart, ZHands, NoHand

LEMMA StepZHands ==
    ASSUME ZType, ZHands, ZosNext
    PROVE  ZHands'
  <1>a. AtLast(zq) \in Nat
    BY RingDepth DEF ZType
  <1> USE DEF ZType, ZHands, mainVars, ldapVars, nudge_queue
  <1>1. CASE Load \/ Grow \/ LoopHead \/ Join \/ Again
    BY <1>1 DEF Load, Grow, LoopHead, Join, Again, Exit
  <1>2. CASE Select \/ Flush
    BY <1>2 DEF Select, Flush, push_event
  <1>3. CASE Enqueue
    BY <1>3 DEF Enqueue, NoHand
  <1>4. CASE ThreadInit \/ ThreadHead
    BY <1>4 DEF ThreadInit, ThreadHead, Ends
  <1>5. CASE Dequeue \/ Woken
    BY <1>a, <1>5 DEF Dequeue, Woken, Grab, Ends
  <1>6. CASE Result
    BY <1>6 DEF Result, TryAgain, Finish
  <1>7. CASE Submit
    BY <1>7 DEF Submit, TryAgain, Finish
  <1>8. CASE Cancelled \/ Spurious \/ Term \/ Hup \/ Alarm
    BY <1>8 DEF Cancelled, CancelledAt, Spurious, Term, Hup, Alarm
  <1> QED
    BY <1>1, <1>2, <1>3, <1>4, <1>5, <1>6, <1>7, <1>8 DEF ZosNext, MainStep, ThreadStep

-----------------------------------------------------------------------------
(* Every event in one place.                                               *)

\* The moves between the six places.
LEMMA Moves ==
    ASSUME NEW u, NEW h, NEW q, NEW b, NEW a, NEW d, NEW g, Divides(u, h, q, b, a, d, g)
    PROVE  /\ \A x : x \notin u /\ h = {} => Divides(u \cup {x}, {x}, q, b, a, d, g)
           /\ \A x : x \notin u => Divides(u \cup {x}, h, q, b, a, d \cup {x}, g)
           /\ Divides(u, {}, q \cup h, b, a, d, g)
           /\ Divides(u, {}, q, b, a, d \cup h, g)
           /\ \A x \in q : b = {} => Divides(u, h, q \ {x}, {x}, a, d, g)
           /\ Divides(u, h, q, {}, a \cup b, d, g)
           /\ Divides(u, h, q, {}, a, d \cup b, g)
           /\ Divides(u, h, q, {}, a, d, g \cup b)
  <1>2. ASSUME NEW x, x \notin u, h = {} PROVE Divides(u \cup {x}, {x}, q, b, a, d, g)
    BY ONLY <1>2, Divides(u, h, q, b, a, d, g) DEF Divides
  <1>3. ASSUME NEW x, x \notin u PROVE Divides(u \cup {x}, h, q, b, a, d \cup {x}, g)
    BY ONLY <1>3, Divides(u, h, q, b, a, d, g) DEF Divides
  <1>4. /\ Divides(u, {}, q \cup h, b, a, d, g)
        /\ Divides(u, {}, q, b, a, d \cup h, g)
    BY ONLY Divides(u, h, q, b, a, d, g) DEF Divides
  <1>5. ASSUME NEW x \in q, b = {} PROVE Divides(u, h, q \ {x}, {x}, a, d, g)
    BY ONLY <1>5, Divides(u, h, q, b, a, d, g) DEF Divides
  <1>6. /\ Divides(u, h, q, {}, a \cup b, d, g)
        /\ Divides(u, h, q, {}, a, d \cup b, g)
        /\ Divides(u, h, q, {}, a, d, g \cup b)
    BY ONLY Divides(u, h, q, b, a, d, g) DEF Divides
  <1> QED
    BY ONLY <1>2, <1>3, <1>4, <1>5, <1>6

LEMMA InitZPlaces == ZosInit => ZPlaces
  <1> SUFFICES ASSUME NEW w \in ZosWorlds, ZosStart(w) PROVE ZPlaces
    BY DEF ZosInit
  <1>1. zq.slots = [i \in 0 .. 0 |-> 0]
    BY DEF ZosStart, DefaultDepth
  <1>2. Queued(zq) = {} /\ Once(zq)
    BY <1>1 DEF Queued, Once
  <1>3. Held(hand.ev) = {} /\ Held(ber) = {} /\ accepted = {} /\ dropped = {} /\ gone = {} /\ 1 .. made = {}
    BY DEF ZosStart, Held, NoHand
  <1> QED
    BY ONLY <1>2, <1>3 DEF ZPlaces, Divides

\* What is in the ring after a step, and that it is there once.
LEMMA PutStep ==
    ASSUME ZType, ZHands, ZPlaces, zpc = "enqueue",
           zq.slots[zq.next % Depth(zq)] = 0, zq' = Put(zq, hand.ev)
    PROVE  Once(zq)' /\ Queued(zq)' = Queued(zq) \cup {hand.ev}
  <1> PICK d \in Nat \ {0} : IsRing(zq, d)
    BY DEF ZType
  <1>1. hand.ev \in Nat \ {0} /\ zq.slots[zq.next] = 0
    BY RingDepth DEF ZType, ZHands
  <1>2. hand.ev \notin Queued(zq)
    BY <1>1 DEF ZPlaces, Divides, Held
  <1>3. Queued(zq') = Queued(zq) \cup {hand.ev} /\ Once(zq')
    BY <1>1, <1>2, PutQueued DEF ZPlaces
  <1> QED BY <1>3 DEF Queued, Once

LEMMA GrabStep ==
    ASSUME ZType, ZPlaces, Grab, AtLast(zq) # 0
    PROVE  Once(zq)' /\ ber' \in Queued(zq) /\ Queued(zq)' = Queued(zq) \ {ber'}
  <1> PICK d \in Nat \ {0} : IsRing(zq, d)
    BY DEF ZType
  <1>1. Queued(zq') = Queued(zq) \ {ber'} /\ Once(zq') /\ ber' \in Queued(zq)
    BY TakeQueued DEF ZPlaces, Grab
  <1> QED BY <1>1 DEF Queued, Once

LEMMA GrowStep ==
    ASSUME ZType, ZPlaces, Grow
    PROVE  Once(zq)' /\ Queued(zq)' = Queued(zq)
  <1> PICK d \in Nat \ {0} : IsRing(zq, d)
    BY DEF ZType
  <1>1. PICK size \in Nat : zq' = increase_queue_depth(zq, size)
    BY ZosAssumption DEF Grow, ZType
  <1>2. CASE size > d
    <2>1. zq' = Larger(zq, size)
      BY <1>1, <1>2, GrowIs
    <2>2. Queued(zq') = Queued(zq) /\ Once(zq')
      BY <2>1, <1>2, GrowQueued DEF ZPlaces
    <2> QED BY <2>2 DEF Queued, Once
  <1>3. CASE ~(size > d)
    <2>1. zq' = zq
      BY <1>1, <1>3, GrowIs
    <2> QED BY <2>1 DEF ZPlaces, Once, Queued
  <1> QED BY <1>2, <1>3

LEMMA SameStep ==
    ASSUME ZPlaces, UNCHANGED zq
    PROVE  Once(zq)' /\ Queued(zq)' = Queued(zq)
  BY DEF ZPlaces, Once, Queued

\* The actions that leave the ring alone.
LEMMA RingUse ==
    ASSUME ZosNext
    PROVE  \/ UNCHANGED zq
           \/ Grow
           \/ Enqueue /\ zq.slots[zq.next % Depth(zq)] = 0 /\ zq' = Put(zq, hand.ev)
           \/ (Dequeue \/ Woken) /\ AtLast(zq) # 0 /\ Grab
  BY DEF ZosNext, MainStep, ThreadStep, Load, LoopHead, Select, push_event, Enqueue, Flush, Join, Again,
         ThreadInit, ThreadHead, Dequeue, Woken, Result, Cancelled, Submit, Spurious, Term, Hup, Alarm

LEMMA StepZPlaces ==
    ASSUME ZType, ZHands, ZPlaces, ZosNext
    PROVE  ZPlaces'
  <1> DEFINE u == 1 .. made
             h == Held(hand.ev)
             q == Queued(zq)
             b == Held(ber)
             Divided == Divides(u, h, q, b, accepted, dropped, gone)
  <1>a. Once(zq)'
    BY RingUse, SameStep, GrowStep, PutStep, GrabStep DEF Enqueue
  <1>b. zpc # "exited"
    BY DEF ZHands, ZType, ZosNext, MainStep, ThreadStep, Load, Grow, LoopHead, Select, Enqueue, Flush, Join,
           Again, ThreadInit, ThreadHead, Dequeue, Woken, Result, Cancelled, CancelledAt, Submit, Spurious,
           Term, Hup, Alarm, Signalled
  <1>c. Divided
    BY <1>b DEF ZPlaces
  <1>d. /\ made' = made + 1 => u' = u \cup {made + 1}
        /\ made + 1 \notin u /\ made + 1 # 0 /\ made + 1 \in Nat
    BY DEF ZType
  <1>e. ASSUME UNCHANGED zq PROVE q' = q
    BY <1>e DEF Queued
  <1>f. Held(0) = {} /\ \A e \in Nat : e # 0 => Held(e) = {e}
    BY DEF Held
  <1>z. SUFFICES ASSUME zpc' # "exited" PROVE Divided'
    BY <1>a DEF ZPlaces
  <1>1. CASE UNCHANGED <<made, hand, zq, ber, accepted, dropped, gone>>
    BY <1>1, <1>c, <1>e
  <1>2. CASE Load \/ LoopHead \/ Join \/ Again
    BY <1>2, <1>1, <1>z DEF Load, LoopHead, Join, Again, Exit, ldapVars
  <1>3. CASE Grow
    <2>1. q' = q /\ UNCHANGED <<made, hand, ber, accepted, dropped, gone>>
      BY <1>3, GrowStep, Zenon DEF Grow, ldapVars
    <2> QED BY <2>1, <1>c
  <1>4. CASE Select \/ Flush
    <2>1. /\ UNCHANGED <<zq, ber, accepted, gone>> /\ hand.ev = 0
          /\ \/ made' = made + 1 /\ hand'.ev = made + 1 /\ dropped' = dropped
             \/ made' = made + 1 /\ hand' = hand /\ dropped' = dropped \cup {made + 1}
             \/ UNCHANGED <<made, hand, dropped>>
      BY <1>4 DEF Select, Flush, push_event, ldapVars, ZHands
    <2>2. q' = q /\ b' = b /\ h = {}
      BY <2>1, <1>e, <1>f
    <2>3. CASE made' = made + 1 /\ hand'.ev = made + 1 /\ dropped' = dropped
      <3>1. h' = {made + 1} /\ u' = u \cup {made + 1}
        BY ONLY <2>3, <1>d, <1>f
      <3> HIDE DEF u, h, q, b
      <3>2. Divides(u \cup {made + 1}, {made + 1}, q, b, accepted, dropped, gone)
        BY ONLY <1>c, <1>d, <2>2, Moves, Zenon
      <3> QED
        BY ONLY <2>1, <2>2, <2>3, <3>1, <3>2
    <2>4. CASE made' = made + 1 /\ hand' = hand /\ dropped' = dropped \cup {made + 1}
      <3>1. h' = h /\ u' = u \cup {made + 1}
        BY <2>4, <1>d
      <3> HIDE DEF u, h, q, b
      <3>2. Divides(u \cup {made + 1}, h, q, b, accepted, dropped \cup {made + 1}, gone)
        BY ONLY <1>c, <1>d, Moves, Zenon
      <3> QED
        BY ONLY <2>1, <2>2, <2>4, <3>1, <3>2
    <2> QED
      BY <2>1, <2>3, <2>4, <1>1
  <1>5. CASE Enqueue
    <2>1. u' = u /\ b' = b /\ UNCHANGED <<accepted, gone>> /\ h = {hand.ev}
      BY <1>5, <1>f DEF Enqueue, ldapVars, ZHands, ZType
    <2>2. CASE zq.slots[zq.next % Depth(zq)] = 0 /\ zq' = Put(zq, hand.ev) /\ hand' = NoHand /\ dropped' = dropped
      <3>1. h' = {}
        BY <2>2, <1>f DEF NoHand
      <3>2. q' = q \cup {hand.ev}
        BY <2>2, <1>5, PutStep DEF Enqueue
      <3> HIDE DEF u, h, q, b
      <3>3. Divides(u, {}, q \cup h, b, accepted, dropped, gone)
        BY ONLY <1>c, Moves, Zenon
      <3> QED
        BY ONLY <2>1, <2>2, <3>1, <3>2, <3>3
    <2>3. CASE hand'.ev = hand.ev /\ UNCHANGED <<zq, dropped>>
      BY <2>1, <2>3, <1>c, <1>e
    <2>4. CASE hand' = NoHand /\ dropped' = dropped \cup {hand.ev} /\ UNCHANGED zq
      <3>1. h' = {}
        BY <2>4, <1>f DEF NoHand
      <3> HIDE DEF u, h, q, b
      <3>2. Divides(u, {}, q, b, accepted, dropped \cup h, gone)
        BY ONLY <1>c, Moves, Zenon
      <3> QED
        BY ONLY <2>1, <2>4, <3>1, <3>2, <1>e
    <2> QED
      BY <1>5, <2>2, <2>3, <2>4 DEF Enqueue, ZType
  <1>6. CASE ThreadInit \/ ThreadHead \/ Spurious \/ Term \/ Hup \/ Alarm
    BY <1>6, <1>1 DEF ThreadInit, ThreadHead, Spurious, Term, Hup, Alarm, mainVars, ldapVars
  <1>7. CASE Dequeue \/ Woken
    <2>1. UNCHANGED <<made, hand, accepted, dropped, gone>> /\ ber = 0 /\ b = {}
      BY <1>7, <1>f DEF Dequeue, Woken, mainVars, ZHands
    <2>2. CASE UNCHANGED <<zq, ber>>
      BY <2>1, <2>2, <1>1
    <2>3. CASE Grab /\ AtLast(zq) # 0
      <3>0. ber' \in q /\ q' = q \ {ber'}
        BY <2>3, GrabStep
      <3>1. b' = {ber'}
        BY <3>0, <1>f, QueuedNumbers DEF ZType
      <3> HIDE DEF u, h, q, b
      <3>2. Divides(u, h, q \ {ber'}, {ber'}, accepted, dropped, gone)
        BY ONLY <1>c, <2>1, <3>0, Moves, Zenon
      <3>3. u' = u /\ h' = h
        BY ONLY <2>1 DEF u, h
      <3> QED
        BY ONLY <2>1, <3>0, <3>1, <3>2, <3>3
    <2> QED
      BY <1>7, <2>2, <2>3 DEF Dequeue, Woken
  <1>8. CASE Result \/ Submit
    <2>1. /\ UNCHANGED <<made, hand, zq, gone>> /\ b = {ber} /\ u' = u /\ h' = h
          /\ \/ UNCHANGED <<ber, accepted, dropped>>
             \/ ber' = 0 /\ accepted' = accepted \cup {ber} /\ dropped' = dropped
             \/ ber' = 0 /\ accepted' = accepted /\ dropped' = dropped \cup {ber}
      BY <1>8, <1>f DEF Result, Submit, TryAgain, Finish, ZHands, ZType
    <2>2. ber' = 0 => b' = {}
      BY <1>f
    <2> HIDE DEF u, h, q, b
    <2>3. /\ Divides(u, h, q, {}, accepted \cup b, dropped, gone)
          /\ Divides(u, h, q, {}, accepted, dropped \cup b, gone)
      BY ONLY <1>c, Moves, Zenon
    <2>4. ber' = ber => b' = b
      BY ONLY DEF b
    <2> QED
      BY ONLY <2>1, <2>2, <2>3, <2>4, <1>c, <1>e
  <1>9. CASE Cancelled
    <2>1. UNCHANGED <<made, hand, zq, accepted, dropped>> /\ gone' = gone \cup b /\ ber' = 0
      BY <1>9 DEF Cancelled, mainVars, Held
    <2>2. u' = u /\ h' = h /\ b' = {}
      BY <2>1, <1>f
    <2> HIDE DEF u, h, q, b
    <2>3. Divides(u, h, q, {}, accepted, dropped, gone \cup b)
      BY ONLY <1>c, Moves, Zenon
    <2> QED
      BY ONLY <2>1, <2>2, <2>3, <1>e
  <1> QED
    BY <1>2, <1>3, <1>4, <1>5, <1>6, <1>7, <1>8, <1>9 DEF ZosNext, MainStep, ThreadStep

-----------------------------------------------------------------------------
(* At most two requests for an event.                                      *)

LEMMA InitZSent == ZosInit => ZSent
  <1> SUFFICES ASSUME NEW w \in ZosWorlds, ZosStart(w) PROVE ZSent
    BY DEF ZosInit
  <1>1. reached = <<>> /\ tpc = "none"
    BY DEF ZosStart
  <1>2. DOMAIN reached = {} /\ \A e : Requests(reached, e) = {}
    BY <1>1 DEF Requests
  <1>3. \A e : Cardinality(Requests(reached, e)) <= 2
    BY <1>2, FS_EmptySet
  <1> QED
    BY ONLY <1>1, <1>2, <1>3 DEF ZSent, SentWhere, SentTimes

\* No request is made and the thread does not begin with another.
LEMMA SentKept ==
    ASSUME ZType, ZSent, UNCHANGED <<reached, hand, made>>, Queued(zq)' \subseteq Queued(zq),
           session' \in {session, session + 1},
           tpc' \notin {"submit", "sent"} \/ UNCHANGED <<tpc, ber, retry, session>>
    PROVE  ZSent'
  <1>1. \A i \in DOMAIN reached' : /\ reached'[i][1] \in 1 .. made' /\ reached'[i][2] <= session'
                                   /\ reached'[i][1] # hand'.ev /\ reached'[i][1] \notin Queued(zq)'
                                   /\ tpc' = "submit" /\ reached'[i][1] = ber' => reached'[i][2] < session'
    <2>1. \A i \in DOMAIN reached : reached[i][2] \in Nat
      BY Numbered DEF ZType
    <2>2. SentWhere /\ session \in Nat
      BY DEF ZSent, ZType
    <2>3. \A i \in DOMAIN reached : reached[i][2] <= session'
      BY ONLY <2>1, <2>2, session' \in {session, session + 1} DEF SentWhere
    <2> QED
      BY <2>2, <2>3 DEF SentWhere
  <1>2. \A e : Requests(reached, e)' = Requests(reached', e)
    BY DEF Requests
  <1> QED
    BY <1>1, <1>2 DEF ZSent, SentWhere, SentTimes, Requests

LEMMA BerPlace ==
    ASSUME ZType, ZHands, ZPlaces, ber # 0
    PROVE  ber \in 1 .. made /\ ber \notin Queued(zq) /\ ber # hand.ev
  <1>1. zpc # "exited" /\ Held(ber) = {ber}
    BY DEF ZHands, Held
  <1> QED
    BY <1>1 DEF ZPlaces, Divides, Held

LEMMA StepZSent ==
    ASSUME ZType, ZHands, ZPlaces, ZSent, ZosNext, ZType'
    PROVE  ZSent'
  <1>a. UNCHANGED zq => Queued(zq)' = Queued(zq)
    BY DEF Queued
  <1>b. \A i \in DOMAIN reached : reached[i][1] \in Nat /\ reached[i][2] \in Nat
    BY Numbered DEF ZType
  <1>1. CASE \/ Load \/ Grow \/ LoopHead \/ Join \/ Again \/ ThreadInit \/ ThreadHead
             \/ Spurious \/ Term \/ Hup \/ Alarm \/ Cancelled
    <2>1. /\ UNCHANGED <<reached, hand, made>> /\ session' \in {session, session + 1}
          /\ tpc' \notin {"submit", "sent"} \/ UNCHANGED <<tpc, ber, retry, session>>
      BY <1>1 DEF Load, Grow, LoopHead, Join, Again, Exit, ThreadInit, ThreadHead, Ends, Spurious, Term, Hup,
                  Alarm, Cancelled, mainVars, ldapVars, nudge_queue
    <2>2. Queued(zq)' = Queued(zq)
      BY <1>1, <1>a, GrowStep DEF Load, LoopHead, Join, Again, ThreadInit, ThreadHead, Spurious, Term, Hup,
                                  Alarm, Cancelled
    <2> QED
      BY <2>1, <2>2, SentKept
  <1>2. CASE Select \/ Flush
    <2>1. /\ UNCHANGED <<reached, zq, session, tpc, ber, retry>> /\ made' \in {made, made + 1}
          /\ hand' = hand \/ (hand'.ev = made + 1 /\ made' = made + 1)
      BY <1>2 DEF Select, Flush, push_event, ldapVars
    <2>2. SentWhere'
      <3> SUFFICES ASSUME NEW i \in DOMAIN reached
                   PROVE  /\ reached[i][1] \in 1 .. made' /\ reached[i][1] # hand'.ev
                          /\ reached[i][2] <= session /\ reached[i][1] \notin Queued(zq)
                          /\ tpc = "submit" /\ reached[i][1] = ber => reached[i][2] < session
        BY <2>1, <1>a DEF SentWhere
      <3>1. reached[i][1] \in 1 .. made /\ reached[i][1] # hand.ev /\ made \in Nat
        BY DEF ZSent, SentWhere, ZType
      <3>2. reached[i][1] \in 1 .. made' /\ reached[i][1] # hand'.ev
        BY ONLY <3>1, <2>1
      <3> QED
        BY <3>2 DEF ZSent, SentWhere
    <2>3. SentTimes'
      BY <2>1 DEF ZSent, SentTimes, Requests
    <2> QED
      BY <2>2, <2>3 DEF ZSent
  <1>3. CASE Enqueue
    <2>1. /\ UNCHANGED <<reached, session, ber, retry, made>>
          /\ tpc' = "submit" => tpc = "submit"
          /\ tpc' = "sent" => tpc = "sent"
          /\ hand'.ev = 0 \/ hand'.ev = hand.ev
      BY <1>3 DEF Enqueue, ldapVars, NoHand, nudge_queue, ZType
    <2>2. Queued(zq)' = Queued(zq) \/ Queued(zq)' = Queued(zq) \cup {hand.ev}
      BY <1>3, <1>a, PutStep DEF Enqueue
    <2>3. SentWhere'
      <3> SUFFICES ASSUME NEW i \in DOMAIN reached
                   PROVE  /\ reached[i][1] \in 1 .. made /\ reached[i][1] # hand'.ev
                          /\ reached[i][2] <= session /\ reached[i][1] \notin Queued(zq)'
                          /\ tpc' = "submit" /\ reached[i][1] = ber => reached[i][2] < session
        BY <2>1 DEF SentWhere
      <3>1. reached[i][1] \in 1 .. made /\ reached[i][1] # hand.ev /\ reached[i][1] \notin Queued(zq)
        BY DEF ZSent, SentWhere
      <3>2. reached[i][1] # hand'.ev /\ reached[i][1] \notin Queued(zq)'
        BY ONLY <3>1, <2>1, <2>2
      <3> QED
        BY <2>1, <3>2 DEF ZSent, SentWhere
    <2>4. SentTimes'
      BY <2>1 DEF ZSent, SentTimes, Requests
    <2> QED
      BY <2>3, <2>4 DEF ZSent
  <1>4. CASE Dequeue \/ Woken
    <2>1. CASE Grab /\ AtLast(zq) # 0
      <3>1. ber' \in Queued(zq) /\ Queued(zq)' \subseteq Queued(zq)
        BY <2>1, GrabStep
      <3>2. UNCHANGED <<reached, session, made, hand>> /\ tpc' = "submit" /\ retry' = 1
        BY <2>1, <1>4 DEF Dequeue, Woken, Grab, mainVars
      <3>3. \A i \in DOMAIN reached : reached[i][1] # ber'
        BY <3>1 DEF ZSent, SentWhere, SentTimes
      <3>4. Requests(reached', ber') = {}
        BY <3>2, <3>3 DEF Requests
      <3>5. Cardinality(Requests(reached', ber')) <= 1 - retry'
        BY ONLY <3>2, <3>4, FS_EmptySet
      <3> QED
        BY <3>1, <3>2, <3>3, <3>5 DEF ZSent, SentWhere, SentTimes, Requests
    <2>2. CASE UNCHANGED <<zq, ber, retry>> /\ tpc' \notin {"submit", "sent"}
      BY <1>4, <1>a, <2>2, SentKept DEF Dequeue, Woken, mainVars
    <2> QED
      BY <1>4, <2>1, <2>2 DEF Dequeue, Woken, Ends
  <1>5. CASE /\ UNCHANGED <<reached, hand, made, zq>> /\ tpc' = "head" /\ session' \in {session, session + 1}
    BY <1>5, <1>a, SentKept
  <1>6. CASE /\ UNCHANGED <<reached, hand, made, zq, ber>> /\ tpc \in {"submit", "sent"} /\ tpc' = "submit"
             /\ session' = session + 1 /\ retry > 0 /\ retry' = retry - 1
    <2>1. retry = 1 /\ retry' = 0
      BY <1>6 DEF ZType
    <2>2. Cardinality(Requests(reached, ber)) <= 1 /\ Cardinality(Requests(reached, ber)) \in Nat
      <3>1. reached \in Seq(Nat \X Nat)
        BY DEF ZType
      <3>2. Cardinality(Requests(reached, ber)) \in Nat
        BY ONLY <3>1, RequestsFinite
      <3> QED
        BY <1>6, <2>1, <3>2 DEF ZSent, SentTimes
    <2>3. SentWhere'
      <3>1. SentWhere /\ Queued(zq)' = Queued(zq) /\ session \in Nat
        BY <1>6, <1>a DEF ZSent, ZType
      <3>2. \A i \in DOMAIN reached : reached[i][2] \in Nat
        BY <1>b
      <3>3. \A i \in DOMAIN reached : reached[i][2] < session' /\ reached[i][2] <= session'
        BY ONLY <3>1, <3>2, <1>6 DEF SentWhere
      <3> QED
        BY ONLY <3>1, <3>3, <1>6 DEF SentWhere
    <2>4. Cardinality(Requests(reached, ber))' <= 1 - retry' /\ tpc' = "submit"
      BY <1>6, <2>1, <2>2 DEF Requests
    <2>5. SentTimes'
      BY <1>6, <2>4 DEF ZSent, SentTimes, Requests
    <2> QED
      BY <2>3, <2>5 DEF ZSent
  <1>7. CASE /\ tpc = "submit" /\ tpc' = "sent" /\ reached' = Append(reached, <<ber, session>>)
             /\ UNCHANGED <<ber, retry, session, hand, made, zq>>
    <2> DEFINE n == Len(reached) + 1
    <2>1. ber \in Nat /\ ber # 0 /\ session \in Nat /\ reached \in Seq(Nat \X Nat) /\ retry \in {0, 1}
      BY <1>7 DEF ZHands, ZType
    <2>2. ber \in 1 .. made /\ ber \notin Queued(zq) /\ ber # hand.ev
      BY <2>1, BerPlace
    <2>3. /\ n \notin DOMAIN reached /\ DOMAIN reached' = DOMAIN reached \cup {n}
          /\ reached'[n] = <<ber, session>> /\ \A i \in DOMAIN reached : reached'[i] = reached[i]
      <3>1. reached' = Append(reached, <<ber, session>>)
        BY <1>7
      <3>2. reached \in Seq(Nat \X Nat) /\ <<ber, session>> \in Nat \X Nat
        BY ONLY <2>1
      <3>3. DOMAIN reached = 1 .. Len(reached) /\ Len(reached) \in Nat
        BY ONLY <3>2
      <3>4. /\ DOMAIN Append(reached, <<ber, session>>) = 1 .. n
            /\ Append(reached, <<ber, session>>)[n] = <<ber, session>>
            /\ \A i \in 1 .. Len(reached) : Append(reached, <<ber, session>>)[i] = reached[i]
        BY ONLY <3>2, <3>3
      <3>5. 1 .. n = (1 .. Len(reached)) \cup {n} /\ n \notin 1 .. Len(reached)
        BY ONLY <3>3
      <3> HIDE DEF n
      <3> QED
        BY ONLY <3>1, <3>3, <3>4, <3>5
    <2>4. /\ Cardinality(Requests(reached', ber)) = Cardinality(Requests(reached, ber)) + 1
          /\ \A f \in Nat : f # ber => Requests(reached', f) = Requests(reached, f)
      <3>1. reached' = Append(reached, <<ber, session>>)
        BY <1>7
      <3>2. /\ Cardinality(Requests(Append(reached, <<ber, session>>), ber)) = Cardinality(Requests(reached, ber)) + 1
            /\ \A f \in Nat : f # ber => Requests(Append(reached, <<ber, session>>), f) = Requests(reached, f)
        BY ONLY <2>1, OneRequestMore, Zenon
      <3> QED
        BY ONLY <3>1, <3>2
    <2>5. Cardinality(Requests(reached, ber)) \in Nat
      BY ONLY <2>1, RequestsFinite
    <2>6. Cardinality(Requests(reached, ber)) <= 1 - retry
      BY <1>7 DEF ZSent, SentWhere, SentTimes
    <2> HIDE DEF n
    <2>7. \A i \in DOMAIN reached' : /\ reached'[i][1] \in 1 .. made' /\ reached'[i][2] <= session'
                                     /\ reached'[i][1] # hand'.ev /\ reached'[i][1] \notin Queued(zq)'
      <3>1. /\ made' = made /\ session' = session /\ hand' = hand /\ Queued(zq)' = Queued(zq)
            /\ session <= session /\ reached'[n][1] = ber /\ reached'[n][2] = session
        <4>1. made' = made /\ session' = session /\ hand' = hand /\ Queued(zq)' = Queued(zq)
          BY <1>7, <1>a
        <4>2. session <= session
          BY ONLY <2>1
        <4>3. reached'[n][1] = ber /\ reached'[n][2] = session
          BY ONLY <2>3
        <4> QED
          BY ONLY <4>1, <4>2, <4>3
      <3>2. SentWhere
        BY DEF ZSent
      <3> QED
        BY ONLY <2>2, <2>3, <3>1, <3>2, Zenon DEF SentWhere
    <2>8. \A i \in DOMAIN reached : reached'[i] # reached'[n]
      <3>1. \A i \in DOMAIN reached : reached[i][1] = ber => reached[i][2] < session
        BY <1>7 DEF ZSent, SentWhere, SentTimes
      <3>2. reached'[n][1] = ber /\ reached'[n][2] = session /\ ~(session < session)
        BY ONLY <2>1, <2>3
      <3> QED
        BY ONLY <3>1, <3>2, <2>3
    <2>9. \A i, j \in DOMAIN reached' : i # j => reached'[i] # reached'[j]
      BY <2>3, <2>8 DEF ZSent, SentWhere, SentTimes
    <2>10. \A e \in Nat : Cardinality(Requests(reached', e)) <= 2
      <3>1. Cardinality(Requests(reached', ber)) <= 2
        BY ONLY <2>1, <2>4, <2>5, <2>6
      <3>2. \A e \in Nat : Cardinality(Requests(reached, e)) <= 2
        BY DEF ZSent, SentTimes
      <3> QED
        BY ONLY <2>4, <3>1, <3>2
    <2>11. Cardinality(Requests(reached', ber')) <= 2 - retry'
      BY ONLY <1>7, <2>1, <2>4, <2>5, <2>6
    <2>12. tpc' # "submit"
      BY <1>7
    <2> QED
      BY ONLY <2>7, <2>9, <2>10, <2>11, <2>12 DEF ZSent, SentWhere, SentTimes, Requests
  <1>8. CASE Submit \/ Result
    BY <1>8, <1>5, <1>6, <1>7, Zenon DEF Submit, Result, TryAgain, Finish, ZType
  <1> QED
    BY <1>1, <1>2, <1>3, <1>4, <1>8 DEF ZosNext, MainStep, ThreadStep

-----------------------------------------------------------------------------
(* The depth of the ring.                                                  *)

LEMMA GrowDepth ==
    ASSUME ZType, Grow
    PROVE  LET size == IF zhups = 0 THEN zworld.first ELSE zworld.later
           IN  /\ Depth(zq) \in Nat /\ size \in Nat \ {0} /\ Depth(zq)' \in Nat /\ IsRing(zq, Depth(zq))
               /\ size > Depth(zq) => /\ Depth(zq)' = size /\ zq' = Larger(zq, size)
                                      /\ IsRing(zq', size)
               /\ ~(size > Depth(zq)) => zq' = zq /\ Depth(zq)' = Depth(zq)
  <1> DEFINE size == IF zhups = 0 THEN zworld.first ELSE zworld.later
  <1>1. PICK d \in Nat \ {0} : IsRing(zq, d)
    BY DEF ZType
  <1>2. Depth(zq) = d /\ size \in Nat \ {0}
    BY <1>1, RingDepth, ZosAssumption DEF ZType
  <1>3. zq' = increase_queue_depth(zq, size)
    BY DEF Grow
  <1>4. size > d => zq' = Larger(zq, size) /\ IsRing(zq', size)
    BY ONLY <1>1, <1>2, <1>3, GrowIs
  <1>5. ~(size > d) => zq' = zq
    BY ONLY <1>1, <1>2, <1>3, GrowIs
  <1>6. size > d => Depth(zq') = size
    BY <1>4, RingDepth
  <1>7. Depth(zq)' = Depth(zq')
    BY DEF Depth
  <1> HIDE DEF size
  <1>8. /\ Depth(zq) \in Nat /\ size \in Nat \ {0} /\ Depth(zq)' \in Nat /\ IsRing(zq, Depth(zq))
        /\ size > Depth(zq) => Depth(zq)' = size /\ zq' = Larger(zq, size) /\ IsRing(zq', size)
        /\ ~(size > Depth(zq)) => zq' = zq /\ Depth(zq)' = Depth(zq)
    BY ONLY <1>1, <1>2, <1>4, <1>5, <1>6, <1>7
  <1> QED
    BY ONLY <1>8 DEF size

LEMMA SameDepth ==
    ASSUME ZType, zq' = zq \/ zq' = Put(zq, hand.ev) \/ zq' = Take(zq)
    PROVE  Depth(zq) \in Nat /\ IsRing(zq, Depth(zq)) /\ IsRing(zq', Depth(zq)) /\ Depth(zq)' = Depth(zq)
  <1>1. PICK d \in Nat \ {0} : IsRing(zq, d)
    BY DEF ZType
  <1>2. hand.ev \in Nat
    BY DEF ZType
  <1>3. IsRing(zq', d)
    BY <1>1, <1>2, PutIs, TakeIs
  <1>4. Depth(zq) = d /\ Depth(zq') = d
    BY <1>1, <1>3, RingDepth
  <1>5. Depth(zq)' = Depth(zq')
    BY DEF Depth
  <1> QED
    BY ONLY <1>1, <1>3, <1>4, <1>5

LEMMA InitZStarted == ZosInit => ZStarted
  BY DEF ZosInit, ZosStart, ZStarted, Idle, DefaultDepth

LEMMA StepZStarted ==
    ASSUME ZType, ZHands, ZStarted, ZosNext
    PROVE  ZStarted'
  <1>a. zworld' = zworld /\ zhups' \in {zhups, zhups + 1} /\ zhups \in Nat
        /\ zworld.first \in Nat /\ zworld.later \in Nat
    BY ZosAssumption
       DEF ZType, ZosNext, MainStep, ThreadStep, Load, Grow, LoopHead, Select, Enqueue, Flush, Join, Again,
           ThreadInit, ThreadHead, Dequeue, Woken, Result, Cancelled, Submit, Spurious, Term, Hup, Alarm
  <1>1. CASE Grow
    <2>1. Depth(zq)' >= IF zhups = 0 THEN zworld.first ELSE zworld.later
      BY ONLY <1>1, ZType, GrowDepth
    <2>2. zhups' = zhups
      BY <1>1 DEF Grow
    <2>3. Started'
      BY ONLY <2>1, <2>2, <1>a DEF Started, Depth
    <2> QED BY <2>3 DEF ZStarted
  <1>2. CASE zq' = zq \/ zq' = Put(zq, hand.ev) \/ zq' = Take(zq)
    <2>1. Depth(zq) \in Nat /\ Depth(zq)' = Depth(zq)
      BY <1>2, SameDepth
    <2>2. CASE Started
      BY <2>1, <2>2, <1>a DEF Started, ZStarted
    <2>3. CASE Idle(zq) /\ zpc \in {"load", "grow", "exited"} /\ ~Grow
      <3>1. zq' = zq /\ zpc' \in {"load", "grow", "exited"}
        BY <2>3 DEF ZHands, mainVars, CancelledAt, ZosNext, MainStep, ThreadStep, Load, LoopHead, Select, Enqueue, Flush, Join,
             Again, Exit, ThreadInit, ThreadHead, Dequeue, Woken, Result, Cancelled, Submit, Spurious, Term, Hup, Alarm
      <3> QED BY <3>1, <2>3 DEF ZStarted, Idle
    <2> QED BY <1>1, <2>2, <2>3 DEF ZStarted
  <1> QED
    BY <1>1, <1>2, RingUse DEF Grab

-----------------------------------------------------------------------------
(* The order of the events.                                                *)

LEMMA LineKept ==
    ASSUME NEW r, NEW d, IsRing(r, d), NEW b \in Nat, NEW s, NEW t, InLine(r, d, b, s, t),
           NEW c \in {b, 0}, NEW v, v = "wait" => t = "wait" \/ Queued(r) = {}
    PROVE  InLine(r, d, c, s, v)
  <1>1. Queued(r) \subseteq Nat \ {0}
    BY QueuedNumbers
  <1>2. \A e \in Queued(r) : c < e
    BY <1>1 DEF InLine
  <1> QED
    BY <1>2 DEF InLine

LEMMA LinePut ==
    ASSUME NEW r, NEW d, IsRing(r, d), NEW b \in Nat, NEW s, NEW t, InLine(r, d, b, s, t),
           NEW e \in Nat \ {0}, r.slots[r.next] = 0, b < e, \A x \in Queued(r) : x < e,
           \A i \in DOMAIN s : s[i][1] < e, NEW v, v # "wait"
    PROVE  InLine(Put(r, e), d, b, s, v)
  <1>1. Queued(Put(r, e)) = Queued(r) \cup {e}
    BY PutQueued
  <1>2. \E n \in 0 .. d : Ordered(Put(r, e), d, n)
    <2>1. PICK n \in 0 .. d : Ordered(r, d, n)
      BY DEF InLine
    <2> QED BY <2>1, PutOrdered
  <1> QED
    BY <1>1, <1>2 DEF InLine

LEMMA LineTake ==
    ASSUME NEW r, NEW d, IsRing(r, d), Once(r), NEW s, NEW t, InLine(r, d, 0, s, t),
           AtLast(r) # 0, NEW v, v # "wait", \A i \in DOMAIN s : s[i][1] \in Nat
    PROVE  InLine(Take(r), d, AtLast(r), s, v)
  <1>1. Queued(Take(r)) = Queued(r) \ {AtLast(r)} /\ AtLast(r) \in Queued(r) /\ AtLast(r) \in Nat
    BY TakeQueued, RingDepth, Zenon
  <1>2. PICK n \in 0 .. d : Ordered(r, d, n)
    BY DEF InLine
  <1>3. /\ \E m \in 0 .. d : Ordered(Take(r), d, m)
        /\ \A x \in Queued(r) : x # AtLast(r) => AtLast(r) < x
    BY <1>2, TakeOrdered, Zenon
  <1>4. \A i \in DOMAIN s : s[i][1] <= AtLast(r)
    <2>1. \A i \in DOMAIN s : s[i][1] < AtLast(r)
      BY ONLY <1>1, InLine(r, d, 0, s, t), Zenon DEF InLine
    <2> QED
      BY ONLY <2>1, <1>1, \A i \in DOMAIN s : s[i][1] \in Nat
  <1> QED
    BY <1>1, <1>3, <1>4, Zenon DEF InLine

LEMMA LineSend ==
    ASSUME NEW r, NEW d, NEW b \in Nat \ {0}, NEW s \in Seq(Nat \X Nat), NEW t, InLine(r, d, b, s, t),
           NEW x \in Nat, NEW v, v # "wait"
    PROVE  InLine(r, d, b, Append(s, <<b, x>>), v)
  <1> DEFINE n == Len(s) + 1
             a == Append(s, <<b, x>>)
  <1>1. /\ n \notin DOMAIN s /\ DOMAIN a = DOMAIN s \cup {n} /\ a[n] = <<b, x>>
        /\ \A i \in DOMAIN s : a[i] = s[i] /\ ~(n < i)
    <2>1. b \in Nat /\ s \in Seq(Nat \X Nat) /\ x \in Nat
      OBVIOUS
    <2> QED
      BY ONLY <2>1, OneMore
  <1>2. a[n][1] = b
    BY <1>1
  <1>3. ~(n < n)
    OBVIOUS
  <1> HIDE DEF n, a
  <1>4. \A i \in DOMAIN a : a[i][1] <= b
    <2>1. b <= b /\ \A i \in DOMAIN s : s[i][1] <= b
      BY DEF InLine
    <2> QED
      BY ONLY <1>1, <1>2, <2>1
  <1>5. ASSUME NEW i \in DOMAIN a, NEW j \in DOMAIN a, i < j PROVE a[i][1] <= a[j][1]
    BY <1>1, <1>2, <1>3, <1>4, <1>5 DEF InLine
  <1>6. ASSUME NEW i \in DOMAIN a, NEW e \in Queued(r) PROVE a[i][1] < e
    BY <1>1, <1>2, <1>6 DEF InLine
  <1> QED
    BY <1>4, <1>5, <1>6 DEF InLine, a

LEMMA InitZLine == ZosInit => ZLine
  <1> SUFFICES ASSUME NEW w \in ZosWorlds, ZosStart(w) PROVE ZLine
    BY DEF ZosInit
  <1>1. IsRing(zq, 1) /\ Idle(zq) /\ reached = <<>> /\ tpc = "none"
    BY DEF ZosStart, DefaultDepth, IsRing, Idle
  <1>2. Depth(zq) = 1 /\ Queued(zq) = {} /\ Ordered(zq, 1, 0) /\ DOMAIN reached = {}
    <2>1. Depth(zq) = 1
      BY ONLY <1>1, RingDepth
    <2>2. Queued(zq) = {} /\ Ordered(zq, 1, 0)
      BY ONLY <1>1, IdleOrdered
    <2> QED
      BY ONLY <1>1, <2>1, <2>2
  <1> QED
    BY ONLY <1>1, <1>2 DEF ZLine, InLine

\* The step that enlarges the ring: before the first event, or by a SIGHUP.
LEMMA GrowZLine ==
    ASSUME ZType, ZHands, ZStarted, ZLine, Grow
    PROVE  ZLine'
  <1> DEFINE size == IF zhups = 0 THEN zworld.first ELSE zworld.later
             d == Depth(zq)
  <1>1. /\ d \in Nat /\ size \in Nat \ {0} /\ d' \in Nat /\ IsRing(zq, d)
        /\ size > d => d' = size /\ zq' = Larger(zq, size) /\ IsRing(zq', size)
        /\ ~(size > d) => zq' = zq /\ d' = d
    BY ONLY ZType, Grow, GrowDepth
  <1>2. UNCHANGED <<zworld, ber, reached>> /\ tpc' = "init" /\ zpc = "grow" /\ zworld.first \in Nat
    BY ZosAssumption DEF Grow, ldapVars, ZType
  <1>3. ber = 0 /\ ber \in Nat
    BY <1>2 DEF ZHands, ZType
  <1> SUFFICES ASSUME ~Enlarged' PROVE InLine(zq', d', ber', reached', tpc')
    BY Zenon DEF ZLine, InLine, Ordered, Queued
  <1>4. ~(d' > zworld.first)
    BY <1>2 DEF Enlarged
  <1>5. InLine(zq, d, ber, reached, tpc)
    <2>1. ~(d > zworld.first)
      BY ONLY <1>1, <1>2, <1>4
    <2> QED BY <2>1 DEF ZLine, Enlarged
  <1>6. CASE zq' = zq /\ d' = d
    <2>1. InLine(zq, d, ber, reached, "init")
      BY ONLY <1>1, <1>3, <1>5, LineKept
    <2> QED BY ONLY <2>1, <1>2, <1>6
  <1>7. CASE size > d
    <2>1. ~Started
      BY ONLY <1>1, <1>2, <1>4, <1>7, ZType DEF Started, ZType
    <2>2. Idle(zq)
      BY <2>1 DEF ZStarted
    <2>3. IsRing(zq', d') /\ Idle(zq')
      BY <1>1, <1>7, <2>2, IdleGrown
    <2>4. (\E n \in 0 .. d' : Ordered(zq', d', n)) /\ Queued(zq') = {}
      BY <2>3, IdleOrdered
    <2> QED
      BY ONLY <2>4, <1>2, <1>3, <1>5 DEF InLine
  <1> QED
    BY <1>1, <1>6, <1>7

LEMMA StepZLine ==
    ASSUME ZType, ZHands, ZPlaces, ZSent, ZStarted, ZLine, ZosNext
    PROVE  ZLine'
  <1> DEFINE d == Depth(zq)
  <1>a. CASE Grow
    BY <1>a, GrowZLine
  <1>b. CASE ~Grow /\ (zq' = zq \/ zq' = Put(zq, hand.ev) \/ zq' = Take(zq))
    <2>1. d \in Nat /\ IsRing(zq, d) /\ IsRing(zq', d) /\ d' = d
      BY <1>b, SameDepth
    <2>2. zworld' = zworld
      BY DEF ZosNext, MainStep, ThreadStep, Load, Grow, LoopHead, Select, Enqueue, Flush, Join, Again,
             ThreadInit, ThreadHead, Dequeue, Woken, Result, Cancelled, Submit, Spurious, Term, Hup, Alarm
    <2>3. SUFFICES ASSUME ~Enlarged PROVE InLine(zq', d, ber', reached', tpc')
      BY <2>1, <2>2, Zenon DEF ZLine, Enlarged, InLine, Ordered, Queued
    <2>4. InLine(zq, d, ber, reached, tpc)
      BY <2>3 DEF ZLine
    <2>5. ber \in Nat /\ reached \in Seq(Nat \X Nat) /\ session \in Nat
      BY DEF ZType
    <2>6. CASE /\ UNCHANGED <<zq, reached>> /\ ber' \in {ber, 0}
               /\ tpc' = "wait" => tpc = "wait" \/ Queued(zq) = {}
      <3>1. InLine(zq, d, ber', reached, tpc')
        BY ONLY <2>1, <2>4, <2>5, <2>6, LineKept
      <3> QED BY ONLY <3>1, <2>6
    <2>7. CASE \/ Load \/ LoopHead \/ Select \/ Flush \/ Join \/ Again \/ ThreadInit \/ ThreadHead
               \/ Result \/ Cancelled \/ Spurious \/ Term \/ Hup \/ Alarm
      BY <2>6, <2>7, Zenon DEF Load, LoopHead, Select, Flush, Join, Again, Exit, push_event, ThreadInit, ThreadHead,
                        Ends, Result, TryAgain, Finish, Cancelled, Spurious, Term, Hup, Alarm, mainVars,
                        ldapVars, nudge_queue
    <2>8. CASE Submit
      <3>1. CASE tpc' = "sent" /\ reached' = Append(reached, <<ber, session>>) /\ UNCHANGED <<zq, ber>>
        <4>1. ber \in Nat \ {0}
          BY <2>8, <2>5 DEF Submit, ZHands
        <4>2. InLine(zq, d, ber, Append(reached, <<ber, session>>), "sent")
          BY ONLY <4>1, <2>4, <2>5, LineSend
        <4> QED BY ONLY <4>2, <3>1
      <3>2. CASE UNCHANGED <<zq, reached>> /\ ber' \in {ber, 0} /\ tpc' # "wait"
        BY <3>2, <2>6
      <3> QED
        BY <2>8, <3>1, <3>2 DEF Submit, TryAgain, Finish
    <2>9. CASE Enqueue
      <3>1. CASE UNCHANGED <<zq, tpc>>
        BY <3>1, <2>9, <2>6 DEF Enqueue, ldapVars
      <3>2. CASE zq.slots[zq.next % Depth(zq)] = 0 /\ zq' = Put(zq, hand.ev) /\ tpc' = nudge_queue(tpc)
        <4> DEFINE e == hand.ev
        <4>1. /\ e \in Nat \ {0} /\ e = made /\ made \in Nat /\ UNCHANGED <<ber, reached>>
              /\ zpc = "enqueue" /\ zq.slots[zq.next] = 0 /\ tpc' # "wait"
          BY <2>1, <2>9, <3>2, RingDepth DEF Enqueue, ldapVars, ZType, ZHands, nudge_queue
        <4>2. Divides(1 .. made, {e}, Queued(zq), Held(ber), accepted, dropped, gone)
          BY <4>1, Zenon DEF ZPlaces, Held
        <4>3. \A x \in Queued(zq) : x < e
          <5> SUFFICES ASSUME NEW x \in Queued(zq) PROVE x < e
            OBVIOUS
          <5>1. x \in 1 .. made /\ x # e
            BY ONLY <4>2, Zenon DEF Divides
          <5> QED
            BY ONLY <4>1, <5>1
        <4>4. ber < e
          <5>1. ber = 0 \/ (ber \in 1 .. made /\ ber # e)
            BY ONLY <4>2, Zenon DEF Divides, Held
          <5> QED
            BY ONLY <5>1, <4>1
        <4>5. \A i \in DOMAIN reached : reached[i][1] < e
          <5>1. \A i \in DOMAIN reached : reached[i][1] \in 1 .. made /\ reached[i][1] # e
            BY ONLY ZSent, Zenon DEF ZSent, SentWhere
          <5>2. \A x \in 1 .. made : x # e => x < e
            BY ONLY <4>1
          <5> QED
            BY ONLY <5>1, <5>2, Zenon
        <4> HIDE DEF e
        <4>6. InLine(Put(zq, e), d, ber, reached, tpc')
          BY ONLY <2>1, <2>4, <2>5, <4>1, <4>3, <4>4, <4>5, LinePut, Zenon
        <4> QED
          BY ONLY <4>1, <4>6, <3>2, Zenon DEF e
      <3> QED
        BY <2>9, <3>1, <3>2 DEF Enqueue
    <2>10. CASE Dequeue \/ Woken
      <3>0. ber = 0 /\ reached' = reached
        BY <2>10 DEF ZHands, Dequeue, Woken
      <3>1. CASE AtLast(zq) # 0 /\ Grab
        <4>1. /\ zq' = Take(zq) /\ ber' = AtLast(zq) /\ tpc' # "wait" /\ Once(zq)
              /\ \A i \in DOMAIN reached : reached[i][1] \in Nat
          BY <3>1, <2>5, Numbered, Zenon DEF Grab, ZPlaces
        <4>2. InLine(Take(zq), d, AtLast(zq), reached, tpc')
          BY ONLY <2>1, <2>4, <3>0, <3>1, <4>1, LineTake, Zenon
        <4> QED
          BY ONLY <3>0, <4>1, <4>2
      <3>2. CASE AtLast(zq) = 0 /\ UNCHANGED <<zq, ber>>
        <4>1. Queued(zq) = {}
          BY <2>1, <2>4, <3>2, EmptyOrdered DEF InLine
        <4> QED
          BY <4>1, <3>0, <3>2, <2>6
      <3> QED
        BY <2>10, <3>1, <3>2 DEF Dequeue, Woken
    <2> QED
      BY <1>b, <2>7, <2>8, <2>9, <2>10 DEF ZosNext, MainStep, ThreadStep
  <1> QED
    BY <1>a, <1>b, RingUse DEF Grab

-----------------------------------------------------------------------------
(* The invariant, and what it implies.                                     *)

LEMMA StutterZInv ==
    ASSUME ZInv, UNCHANGED zosVars
    PROVE  ZInv'
  <1>1. /\ UNCHANGED <<zworld, zpc, hand, zq, tpc, ber, retry, session, reached, made>>
        /\ UNCHANGED <<accepted, dropped, gone, zhups>>
    BY DEF zosVars, mainVars, ldapVars
  <1>2. ZType' /\ ZHands'
    BY <1>1, Zenon DEF ZInv, ZType, ZHands, IsRing
  <1>a. Queued(zq)' = Queued(zq) /\ (Once(zq) => Once(zq)')
    BY <1>1 DEF Queued, Once
  <1>3. ZPlaces'
    <2>1. ZPlaces
      BY DEF ZInv
    <2> QED
      BY ONLY <2>1, <1>1, <1>a DEF ZPlaces
  <1>4. ZSent'
    <2>1. SentWhere /\ SentTimes
      BY DEF ZInv, ZSent
    <2>2. SentWhere'
      BY ONLY <2>1, <1>1, <1>a DEF SentWhere
    <2>3. SentTimes'
      BY ONLY <2>1, <1>1 DEF SentTimes, Requests
    <2> QED
      BY <2>2, <2>3 DEF ZSent
  <1>5. ZLine'
    BY <1>1, Zenon DEF ZInv, ZLine, InLine, Enlarged, Depth, Ordered, Dist, Queued
  <1>6. ZStarted'
    BY <1>1 DEF ZInv, ZStarted, Started, Idle, Depth
  <1> QED
    BY <1>2, <1>3, <1>4, <1>5, <1>6 DEF ZInv

LEMMA ZInvInvariant == ZosSpec => []ZInv
  <1>1. ZosInit => ZInv
    BY InitZType, InitZHands, InitZPlaces, InitZSent, InitZLine, InitZStarted DEF ZInv
  <1>2. ZInv /\ [ZosNext]_zosVars => ZInv'
    BY StepZType, StepZHands, StepZPlaces, StepZSent, StepZLine, StepZStarted, StutterZInv DEF ZInv
  <1> QED
    BY <1>1, <1>2, PTL DEF ZosSpec

\* Distinct slots hold distinct events.
LEMMA SlotsCounted ==
    ASSUME NEW r, NEW d, IsRing(r, d), Once(r)
    PROVE  Cardinality({i \in DOMAIN r.slots : r.slots[i] # 0}) = Cardinality(Queued(r))
  <1> DEFINE S == {i \in DOMAIN r.slots : r.slots[i] # 0}
             f == [i \in S |-> r.slots[i]]
  <1>1. S \in SUBSET (0 .. d - 1) /\ IsFiniteSet(0 .. d - 1)
    <2>0. DOMAIN r.slots = 0 .. d - 1 /\ d \in Nat \ {0}
      BY ONLY IsRing(r, d), RingDepth
    <2>1. DOMAIN r.slots = 0 .. d - 1 /\ 0 \in Int /\ d - 1 \in Int
      BY ONLY <2>0
    <2>2. IsFiniteSet(0 .. d - 1)
      BY ONLY <2>1, FS_Interval, Zenon
    <2> QED BY ONLY <2>1, <2>2
  <1>2. IsFiniteSet(S)
    BY ONLY <1>1, FS_Subset, Zenon
  <1>3. f \in Bijection(S, Queued(r))
    BY DEF Bijection, Injection, Surjection, Queued, Once, IsInjective
  <1>4. ExistsBijection(S, Queued(r))
    BY <1>3 DEF ExistsBijection
  <1> QED
    BY ONLY <1>2, <1>4, FS_Bijection

LEMMA InvConserves == ZInv => ZosConserve
  <1> SUFFICES ASSUME ZInv, zpc # "exited" PROVE ZosConserve
    BY DEF ZosConserve
  <1> DEFINE places == <<{hand.ev} \ {0}, InQueue, {ber} \ {0}, accepted, dropped, gone>>
             Apart(i, j) == places[i] \cap places[j] = {}
  <1>1. Divides(1 .. made, {hand.ev} \ {0}, InQueue, {ber} \ {0}, accepted, dropped, gone)
    BY Zenon DEF ZInv, ZPlaces, Held, InQueue, Queued
  <1>2. /\ DOMAIN places = 1 .. 6
        /\ places[1] = {hand.ev} \ {0} /\ places[2] = InQueue /\ places[3] = {ber} \ {0}
        /\ places[4] = accepted /\ places[5] = dropped /\ places[6] = gone
    OBVIOUS
  <1>3. Cardinality({i \in DOMAIN zq.slots : zq.slots[i] # 0}) = Cardinality(InQueue)
    <2>1. InQueue = Queued(zq)
      BY DEF Queued, InQueue
    <2> QED
      BY <2>1, SlotsCounted DEF ZInv, ZPlaces, ZType
  <1> HIDE DEF places
  <1>4. 1 .. made = UNION {places[i] : i \in DOMAIN places}
    <2>1. {places[i] : i \in DOMAIN places} = {places[1], places[2], places[3], places[4], places[5], places[6]}
      BY ONLY <1>2
    <2>2. 1 .. made = places[1] \cup places[2] \cup places[3] \cup places[4] \cup places[5] \cup places[6]
      BY ONLY <1>1, <1>2 DEF Divides
    <2>3. UNION {places[1], places[2], places[3], places[4], places[5], places[6]}
            = places[1] \cup places[2] \cup places[3] \cup places[4] \cup places[5] \cup places[6]
      OBVIOUS
    <2> QED
      BY ONLY <2>1, <2>2, <2>3
  <1>5. ASSUME NEW i \in DOMAIN places, NEW j \in DOMAIN places, i # j
        PROVE  places[i] \cap places[j] = {}
    <2>1. /\ Apart(1, 2) /\ Apart(1, 3) /\ Apart(1, 4) /\ Apart(1, 5) /\ Apart(1, 6)
          /\ Apart(2, 3) /\ Apart(2, 4) /\ Apart(2, 5) /\ Apart(2, 6)
          /\ Apart(3, 4) /\ Apart(3, 5) /\ Apart(3, 6)
          /\ Apart(4, 5) /\ Apart(4, 6) /\ Apart(5, 6)
      BY ONLY <1>1, <1>2, Zenon DEF Divides
    <2>2. \A k, l : Apart(k, l) => Apart(l, k)
      BY Zenon
    <2>3. i \in 1 .. 6 /\ j \in 1 .. 6
      BY ONLY <1>2, <1>5
    <2> HIDE DEF Apart
    <2>4. Apart(i, j)
      BY ONLY <2>1, <2>2, <2>3, <1>5
    <2> QED
      BY ONLY <2>4 DEF Apart
  <1> QED
    BY ONLY <1>3, <1>4, <1>5, Zenon DEF ZosConserve, places

\* The ring between main and the submission thread (enqueue, dequeue,
\* increase_queue_depth) keeps every event in one place until it is submitted,
\* dropped with a message or gone with its thread; it is first in, first out as
\* long as no SIGHUP enlarges it; the thread never waits on a ring with events;
\* and submit_request_s makes at most two requests per event, never two on one
\* session.  For every q_depth, and any number of events, signals and faults.
THEOREM RingKeepsEvents == ZosSpec => []ZosQueue
  <1>1. ZInv => ZosConserve
    BY InvConserves
  <1>0. InQueue = Queued(zq)
    BY DEF InQueue, Queued
  <1>2. ZInv => ZosOrder
    BY <1>0, Zenon DEF ZInv, ZLine, InLine, ZosOrder
  <1>3. ZInv => ZosAwake
    BY <1>0 DEF ZInv, ZLine, InLine, ZosAwake
  <1>4. ASSUME ZInv PROVE ZosRetry
    <2>1. /\ \A i, j \in DOMAIN reached : i # j => reached[i] # reached[j]
          /\ \A e \in Nat : Cardinality({i \in DOMAIN reached : reached[i][1] = e}) <= 2
      BY <1>4, Zenon DEF ZInv, ZSent, SentTimes, Requests
    <2>2. 1 .. made \subseteq Nat
      OBVIOUS
    <2> QED
      BY ONLY <2>1, <2>2, Zenon DEF ZosRetry
  <1> QED
    BY <1>1, <1>2, <1>3, <1>4, ZInvInvariant, PTL DEF ZosQueue
=============================================================================
