------------------------------ MODULE IdCache --------------------------------
(***************************************************************************)
(* The cache of user and group names auparse interprets ids with: a queue  *)
(* of nodes linked both ways, most recent first, and an array that finds   *)
(* the node of a key. aulookup_uid and aulookup_gid differ only in the     *)
(* database they ask. Pointers are node numbers, 0 is NULL; freed nodes    *)
(* are reused, so a pointer kept to one is seen to dangle.                 *)
(***************************************************************************)
EXTENDS Integers, FiniteSets

CONSTANTS
  Total,          \* slots of the cache (19 in the code)
  Uids,           \* ids looked up, other than 0 and -1
  MaxLookups,     \* bound on lookups of one cache
  MaxChanges      \* bound on changes of the database

ASSUME IdCacheAssumption == Total \in Nat \ {0} /\ Uids \subseteq Nat \ {0}

VARIABLES
  lru,            \* Queue: its nodes, front, end, count, hash, and aborted
  passwd,         \* the database: the generation of each id's name, 0 for none
  answer          \* what the last lookup returned, and the counters

NULLP   == 0
NodeIds == 1..(Total + 2)
Keys    == 0..(Total - 1)
Ptrs    == NodeIds \cup {NULLP}

\* A node is a number; the fields of QNode are the functions id, str, prev
\* and next.
init_lru == [id |-> [n \in NodeIds |-> -1], str |-> [n \in NodeIds |-> <<>>],
             prev |-> [n \in NodeIds |-> NULLP], next |-> [n \in NodeIds |-> NULLP],
             live |-> [n \in NodeIds |-> FALSE], front |-> NULLP, end |-> NULLP,
             count |-> 0, hash |-> [k \in Keys |-> NULLP], aborted |-> FALSE]

\* malloc and free: both leave a node blank, malloc one that is in use.
Blank(q, n, live) == [q EXCEPT !.id[n] = -1, !.str[n] = <<>>, !.prev[n] = NULLP,
                               !.next[n] = NULLP, !.live[n] = live]
new_QNode(q, n) == Blank(q, n, TRUE)
Freed(q, n) == [Blank(q, n, FALSE) EXCEPT !.count = @ - 1]

\* The nodes a walk from n meets.
Along(link, n) ==
  LET at[i \in 0..(Total + 2)] ==
        IF i = 0 THEN n ELSE IF at[i - 1] = NULLP THEN NULLP ELSE link[at[i - 1]]
  IN  at

\* A walk of sanity_check_queue: every link is answered by its opposite,
\* and the walk is not longer than allowed.
WalkOk(at, link, back, limit) ==
  \A i \in 0..limit : at[i] /= NULLP /\ link[at[i]] /= NULLP => back[link[at[i]]] = at[i] /\ i /= limit

Hops(at) == Cardinality({i \in 1..(Total + 2) : at[i] /= NULLP})

\* abort() is a state the queue does not leave.
sanity_check_queue(q) ==
  LET up == Along(q.next, q.front)
  IN  IF q.aborted \/ q.front = NULLP
         \/ (/\ WalkOk(up, q.next, q.prev, q.count)
             /\ q.end /= NULLP /\ WalkOk(Along(q.prev, q.end), q.prev, q.next, Hops(up)))
      THEN q ELSE [q EXCEPT !.aborted = TRUE]

insert_before(q, n, new) ==
  LET p == q.prev[n]
      l == [q EXCEPT !.prev = [@ EXCEPT ![new] = p, ![n] = new], !.next[new] = n]
  IN  sanity_check_queue(IF p = NULLP THEN [l EXCEPT !.front = new] ELSE [l EXCEPT !.next[p] = new])

insert_beginning(q, new) ==
  IF q.aborted THEN q
  ELSE IF q.front = NULLP
  THEN [q EXCEPT !.front = new, !.end = new, !.prev[new] = NULLP, !.next[new] = NULLP]
  ELSE insert_before(q, q.front, new)

\* Removing the first node leaves end alone, also when it was the only one.
RemoveFront(q, n) ==
  LET s == q.next[n]
  IN  IF s = NULLP THEN [q EXCEPT !.front = NULLP]
      ELSE [q EXCEPT !.front = s, !.prev[s] = NULLP]

RemoveLater(q, n) ==
  LET p == q.prev[n]
      s == q.next[n]
      l == [q EXCEPT !.next[p] = s]
  IN  IF s = NULLP THEN [l EXCEPT !.end = p] ELSE [l EXCEPT !.prev[s] = p]

remove_node(q, n) ==
  IF q.aborted THEN q
  ELSE sanity_check_queue(IF q.prev[n] = NULLP THEN RemoveFront(q, n) ELSE RemoveLater(q, n))

dequeue(q) == IF q.end = NULLP THEN q ELSE Freed(remove_node(q, q.end), q.end)

lru_evict_KeepHash(q, key) ==
  IF q.end = NULLP THEN q ELSE Freed(remove_node(q, q.front), q.front)

\* The caller has just moved the node of the key to the front.
lru_evict(q, key) ==
  IF q.end = NULLP THEN q ELSE Freed(remove_node([q EXCEPT !.hash[key] = NULLP], q.front), q.front)

enqueue(q, key) ==
  LET d == IF q.count = Total THEN dequeue([q EXCEPT !.hash[key] = NULLP]) ELSE q
      n == CHOOSE m \in NodeIds : ~d.live[m]
      i == insert_beginning(new_QNode(d, n), n)
  IN  [i EXCEPT !.hash[key] = n, !.count = @ + 1]

check_lru_cache(q, key) ==
  LET n == q.hash[key]
      r == remove_node(q, n)
  IN  IF n = NULLP THEN enqueue(q, key)
      ELSE IF n /= q.front
      THEN insert_beginning([r EXCEPT !.next[n] = NULLP, !.prev[n] = NULLP], n)
      ELSE q

compute_subject_key(uid) == uid % Total

\* while (queue->count) dequeue(queue): as many times as there are nodes.
destroy_queue(q) ==
  LET after[i \in 0..q.count] ==
        IF i = 0 THEN q ELSE IF after[i - 1].aborted THEN after[i - 1] ELSE dequeue(after[i - 1])
  IN  after[q.count]

\* <<uid, generation>> is a name, <<>> is "unknown".
NameOf(uid) == IF passwd[uid] = 0 THEN <<>> ELSE <<uid, passwd[uid]>>

Looked(q, uid) == [q |-> q, name |-> q.str[q.front]]

aulookup_uid(q, uid) ==
  LET key == compute_subject_key(uid)
      c   == check_lru_cache(q, key)
      e   == check_lru_cache(lru_evict(c, key), key)
  IN  IF c.id[c.front] = uid THEN Looked(c, uid)
      ELSE Looked([e EXCEPT !.str[e.front] = NameOf(uid),
                            !.id[e.front] = IF passwd[uid] = 0 THEN -1 ELSE uid], uid)

---------------------------------------------------------------------------
LruStart(names) ==
  /\ lru = init_lru
  /\ passwd = names
  /\ answer = [uid |-> 0, name |-> <<>>, lookups |-> 0, changes |-> 0]

LruInit == \E names \in [Uids -> {0, 1}] : LruStart(names)

LookupUid ==
  /\ answer.lookups < MaxLookups /\ ~lru.aborted
  /\ \E uid \in Uids : LET l == aulookup_uid(lru, uid) IN
       /\ lru' = l.q
       /\ answer' = [answer EXCEPT !.uid = uid, !.name = l.name, !.lookups = @ + 1]
  /\ UNCHANGED passwd

\* aulookup_destroy_uid_list at the end of a parser; the next lookup makes
\* a new cache, unless the loop above aborted or could not end.
DestroyList ==
  /\ lru /= init_lru /\ ~lru.aborted
  /\ LET d == destroy_queue(lru) IN lru' = IF d.aborted \/ d.count /= 0 THEN d ELSE init_lru
  /\ UNCHANGED <<passwd, answer>>

\* An account is added, renamed or removed.
ChangeAccount ==
  /\ answer.changes < MaxChanges
  /\ \E uid \in Uids, g \in 0..2 : passwd[uid] /= g /\ passwd' = [passwd EXCEPT ![uid] = g]
  /\ answer' = [answer EXCEPT !.changes = @ + 1]
  /\ UNCHANGED lru

LruNext == LookupUid \/ DestroyList \/ ChangeAccount

lruVars == <<lru, passwd, answer>>
LruSpec == LruInit /\ [][LruNext]_lruVars

---------------------------------------------------------------------------
(* Properties *)

Reached == {Along(lru.next, lru.front)[i] : i \in 0..(Total + 2)} \ {NULLP}
LiveNodes == {n \in NodeIds : lru.live[n]}

\* The queue survives every mix of hits, collisions and evictions: no
\* sanity check aborts, the nodes reached from the front are the live ones,
\* as many as counted and no more than the slots, and end is the last.
LruList ==
  /\ ~lru.aborted
  /\ Reached = LiveNodes
  /\ Cardinality(LiveNodes) = lru.count /\ lru.count <= Total
  /\ \A n \in LiveNodes : lru.next[n] = NULLP <=> lru.end = n

\* The array and the queue agree: a key leads to a live node that holds an
\* id of that key or none, and two keys never to the same node, so no
\* eviction frees what another key still points at.
LruHash ==
  /\ {lru.hash[k] : k \in Keys} \ {NULLP} = LiveNodes
  /\ \A k \in Keys : lru.hash[k] /= NULLP =>
       /\ lru.live[lru.hash[k]]
       /\ lru.id[lru.hash[k]] \in {-1} \cup {u \in Uids : u % Total = k}
       /\ \A j \in Keys \ {k} : lru.hash[j] /= lru.hash[k]

\* A lookup answers with a name the database has had for that very id,
\* never with the name of an id that shares its slot.
LruName == answer.name = <<>> \/ answer.name[1] = answer.uid

\* The list, the hash table and the names of the cache agree through every
\* lookup, eviction and reuse of a node.
LruCoherent == LruList /\ LruHash /\ LruName
=============================================================================
