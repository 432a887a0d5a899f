---------------------------- MODULE IdCacheProofs ----------------------------
(***************************************************************************)
(* Proofs about IdCache, for every number of slots, every set of ids and   *)
(* every sequence of lookups, changes of the database and ends of parsers. *)
(***************************************************************************)
EXTENDS IdCache, FiniteSetTheorems, SequenceTheorems, WellFoundedInduction, TLAPS

-----------------------------------------------------------------------------
(* Induction, with the property as a set of numbers. *)

LEMMA LessIsWellFounded == IsWellFoundedOn({p \in Nat \X Nat : p[1] < p[2]}, Nat)
  BY ONLY NatLessThanWellFounded DEF OpToRel

LEMMA LeastElement ==
    ASSUME NEW T \in SUBSET Nat, T # {}
    PROVE  \E n \in T : \A m \in T : n <= m
  <1> DEFINE R == {p \in Nat \X Nat : p[1] < p[2]}
  <1>1. IsWellFoundedOn(R, Nat)
    BY LessIsWellFounded
  <1>2. PICK x \in T : \A y \in T : ~(<<y, x>> \in R)
    <2> HIDE DEF R
    <2> QED BY ONLY <1>1, WFMin, T \subseteq Nat, T # {}
  <1>3. \A y \in T : ~(y < x)
    BY <1>2
  <1> QED
    BY <1>3

LEMMA SetInduction ==
    ASSUME NEW S \in SUBSET Nat, 0 \in S, \A n \in S : n + 1 \in S
    PROVE  S = Nat
  <1> SUFFICES ASSUME Nat \ S # {} PROVE FALSE
    OBVIOUS
  <1>1. PICK n \in Nat \ S : \A m \in Nat \ S : n <= m
    BY LeastElement
  <1>2. n # 0 /\ n - 1 \in Nat /\ n - 1 \in S
    BY <1>1
  <1> QED
    BY <1>2

-----------------------------------------------------------------------------
(* The queue, as a list that links the members of a sequence.             *)

Pointers == [head : Ptrs, next : [NodeIds -> Ptrs], prev : [NodeIds -> Ptrs]]

\* The list l links the members of m in this order.
Links(l, m) ==
    /\ l \in Pointers /\ m \in Seq(NodeIds)
    /\ \A i, j \in 1 .. Len(m) : m[i] = m[j] => i = j
    /\ l.head = IF Len(m) = 0 THEN 0 ELSE m[1]
    /\ \A i \in 1 .. Len(m) : l.next[m[i]] = IF i = Len(m) THEN 0 ELSE m[i + 1]
    /\ \A i \in 1 .. Len(m) : l.prev[m[i]] = IF i = 1 THEN 0 ELSE m[i - 1]

Members(m) == {m[i] : i \in 1 .. Len(m)}
Pushed(c, m) == [i \in 1 .. Len(m) + 1 |-> IF i = 1 THEN c ELSE m[i - 1]]
Removed(m, p) == [i \in 1 .. Len(m) - 1 |-> IF i < p THEN m[i] ELSE m[i + 1]]

LEMMA NotNull == 0 \notin NodeIds /\ Ptrs = NodeIds \cup {0}
  BY IdCacheAssumption DEF Ptrs, NodeIds, NULLP

\* k is l with c put in front.
PutFirst(l, c, k) ==
    /\ k \in Pointers /\ k.head = c /\ k.next[c] = l.head /\ k.prev[c] = 0
    /\ \A x \in NodeIds : x # c => /\ k.next[x] = l.next[x]
                                  /\ k.prev[x] = IF x = l.head THEN c ELSE l.prev[x]

\* insert_beginning puts c in front.
LEMMA LinkedPuts ==
    ASSUME NEW l, NEW m, Links(l, m), NEW c \in NodeIds, c \notin Members(m),
           NEW k, PutFirst(l, c, k)
    PROVE  Links(k, Pushed(c, m)) /\ Members(Pushed(c, m)) = Members(m) \cup {c}
  <1> DEFINE t == Pushed(c, m)
  <1>1. /\ m \in Seq(NodeIds) /\ Len(m) \in Nat /\ l \in Pointers
        /\ \A i \in 1 .. Len(m) : m[i] \in NodeIds /\ m[i] # c
    BY DEF Links, Members
  <1>2. /\ t \in Seq(NodeIds) /\ Len(t) = Len(m) + 1 /\ t[1] = c
        /\ \A i \in 1 .. Len(m) : t[i + 1] = m[i]
    BY <1>1 DEF Pushed
  <1>3. /\ k \in Pointers /\ k.head = c /\ k.next[c] = l.head /\ k.prev[c] = 0
        /\ \A x \in NodeIds : x # c => k.next[x] = l.next[x] /\ k.prev[x] = IF x = l.head THEN c ELSE l.prev[x]
    BY DEF PutFirst
  <1> HIDE DEF t
  <1>4. /\ l.head = IF Len(m) = 0 THEN 0 ELSE m[1]
        /\ \A i, j \in 1 .. Len(m) : m[i] = m[j] => i = j
        /\ \A i \in 1 .. Len(m) : l.next[m[i]] = IF i = Len(m) THEN 0 ELSE m[i + 1]
        /\ \A i \in 1 .. Len(m) : l.prev[m[i]] = IF i = 1 THEN 0 ELSE m[i - 1]
    BY Zenon DEF Links
  <1>5. \A i \in 1 .. Len(t) : i = 1 \/ \E h \in 1 .. Len(m) : i = h + 1
    <2> SUFFICES ASSUME NEW i \in 1 .. Len(t), i # 1 PROVE i - 1 \in 1 .. Len(m) /\ i = (i - 1) + 1
      OBVIOUS
    <2> QED
      BY ONLY <1>1, <1>2, i \in 1 .. Len(t), i # 1
  <1>a. \A h \in 1 .. Len(m) : /\ t[h + 1] = m[h] /\ m[h] \in NodeIds /\ m[h] # c /\ h + 1 # 1
                               /\ k.next[m[h]] = l.next[m[h]] 
                               /\ k.prev[m[h]] = IF m[h] = l.head THEN c ELSE l.prev[m[h]]
    BY ONLY <1>1, <1>2, <1>3
  <1>6. ASSUME NEW i \in 1 .. Len(t), NEW j \in 1 .. Len(t), t[i] = t[j]
        PROVE  i = j
    <2>1. \A x \in 1 .. Len(t) : x # 1 => \E h \in 1 .. Len(m) : x = h + 1 /\ t[x] = m[h] /\ m[h] # c
      <3> SUFFICES ASSUME NEW x \in 1 .. Len(t), x # 1
                   PROVE  \E h \in 1 .. Len(m) : x = h + 1 /\ t[x] = m[h] /\ m[h] # c
        OBVIOUS
      <3>1. PICK h \in 1 .. Len(m) : x = h + 1
        BY ONLY <1>5, x \in 1 .. Len(t), x # 1
      <3>2. t[h + 1] = m[h] /\ m[h] # c
        BY ONLY <1>a, h \in 1 .. Len(m)
      <3> QED
        BY ONLY <3>1, <3>2
    <2>2. t[1] = c
      BY ONLY <1>2
    <2>3. i = 1 <=> j = 1
      BY ONLY <2>1, <2>2, <1>6
    <2>4. CASE i # 1 /\ j # 1
      <3>1. PICK g \in 1 .. Len(m) : i = g + 1 /\ t[i] = m[g]
        BY ONLY <2>1, <2>4, i \in 1 .. Len(t)
      <3>2. PICK h \in 1 .. Len(m) : j = h + 1 /\ t[j] = m[h]
        BY ONLY <2>1, <2>4, j \in 1 .. Len(t)
      <3>3. g = h
        <4>1. m[g] = m[h]
          BY ONLY <3>1, <3>2, <1>6
        <4>2. \A x, y \in 1 .. Len(m) : m[x] = m[y] => x = y
          BY ONLY <1>4
        <4> QED
          BY ONLY <4>1, <4>2
      <3> QED
        BY ONLY <3>1, <3>2, <3>3
    <2> QED
      BY ONLY <2>3, <2>4
  <1>7. ASSUME NEW i \in 1 .. Len(t)
        PROVE  k.next[t[i]] = IF i = Len(t) THEN 0 ELSE t[i + 1]
    <2>1. CASE i = 1
      BY ONLY <1>1, <1>2, <1>3, <1>4, <2>1
    <2>2. CASE \E h \in 1 .. Len(m) : i = h + 1
      <3>1. PICK h \in 1 .. Len(m) : i = h + 1
        BY ONLY <2>2
      <3>2. k.next[t[i]] = IF h = Len(m) THEN 0 ELSE m[h + 1]
        BY ONLY <3>1, <1>a, <1>4
      <3>3. h # Len(m) => t[i + 1] = m[h + 1]
        BY ONLY <3>1, <1>1, <1>2
      <3>4. i = Len(t) <=> h = Len(m)
        BY ONLY <3>1, <1>1, <1>2
      <3> QED
        BY ONLY <3>2, <3>3, <3>4
    <2> QED
      BY ONLY <1>5, <2>1, <2>2
  <1>8. ASSUME NEW i \in 1 .. Len(t)
        PROVE  k.prev[t[i]] = IF i = 1 THEN 0 ELSE t[i - 1]
    <2>1. CASE i = 1
      BY ONLY <1>2, <1>3, <2>1
    <2>2. CASE \E h \in 1 .. Len(m) : i = h + 1
      <3>1. PICK h \in 1 .. Len(m) : i = h + 1
        BY ONLY <2>2
      <3>2. /\ 1 \in 1 .. Len(m) /\ i - 1 = h /\ i # 1 /\ Len(m) # 0 /\ l.head = m[1]
            /\ h # 1 => h - 1 \in 1 .. Len(m) /\ h = (h - 1) + 1
        BY ONLY <3>1, <1>1, <1>4
      <3>3. CASE h = 1
        BY ONLY <3>1, <3>2, <3>3, <1>a, <1>2
      <3>4. CASE h # 1
        <4>1. t[h] = m[h - 1]
          BY ONLY <3>2, <3>4, <1>2
        <4>2. m[h] # m[1] /\ l.prev[m[h]] = m[h - 1]
          BY ONLY <3>1, <3>2, <3>4, <1>4
        <4> QED
          BY ONLY <3>1, <3>2, <4>1, <4>2, <1>a
      <3> QED
        BY ONLY <3>3, <3>4
    <2> QED
      BY ONLY <1>5, <2>1, <2>2
  <1>9. k.head = IF Len(t) = 0 THEN 0 ELSE t[1]
    BY ONLY <1>1, <1>2, <1>3
  <1>10. Links(k, t)
    BY ONLY <1>2, <1>3, <1>6, <1>7, <1>8, <1>9 DEF Links
  <1>11. Members(t) = Members(m) \cup {c}
    <2>1. \A x \in Members(t) : x \in Members(m) \cup {c}
      BY ONLY <1>2, <1>5, <1>a DEF Members
    <2>2. 1 \in 1 .. Len(t) /\ \A h \in 1 .. Len(m) : h + 1 \in 1 .. Len(t)
      BY ONLY <1>1, <1>2
    <2>3. c \in Members(t)
      BY ONLY <1>2, <2>2 DEF Members
    <2>4. ASSUME NEW x \in Members(m) PROVE x \in Members(t)
      <3>1. PICK h \in 1 .. Len(m) : x = m[h]
        BY ONLY <2>4 DEF Members
      <3>2. x = t[h + 1] /\ h + 1 \in 1 .. Len(t)
        BY ONLY <3>1, <1>a, <2>2
      <3> QED
        BY ONLY <3>2 DEF Members
    <2> QED
      BY ONLY <2>1, <2>3, <2>4
  <1> QED
    BY ONLY <1>10, <1>11 DEF t

\* remove_node takes out the node at p.
LEMMA UnlinkedTakes ==
    ASSUME NEW l, NEW m, Links(l, m), NEW p \in 1 .. Len(m), NEW k \in Pointers,
           k.head = (IF l.head = m[p] THEN l.next[m[p]] ELSE l.head),
           \A x \in NodeIds : k.next[x] = IF x = l.prev[m[p]] THEN l.next[m[p]] ELSE l.next[x],
           \A x \in NodeIds : k.prev[x] = IF x = l.next[m[p]] THEN l.prev[m[p]] ELSE l.prev[x]
    PROVE  Links(k, Removed(m, p)) /\ Members(Removed(m, p)) = Members(m) \ {m[p]}
  <1> DEFINE t == Removed(m, p)
             n == Len(m)
  <1>0. p \in 1 .. n
    OBVIOUS
  <1>1. /\ m \in Seq(NodeIds) /\ n \in Nat /\ l \in Pointers /\ n # 0
        /\ \A i \in 1 .. n : m[i] \in NodeIds /\ m[i] # 0
    BY NotNull DEF Links
  <1>2. /\ t \in Seq(NodeIds) /\ Len(t) = n - 1 /\ n - 1 \in Nat
        /\ \A i \in 1 .. n - 1 : t[i] = IF i < p THEN m[i] ELSE m[i + 1]
    BY <1>1 DEF Removed
  <1>3. /\ l.head = m[1]
        /\ \A i, j \in 1 .. n : m[i] = m[j] => i = j
        /\ \A i \in 1 .. n : l.next[m[i]] = IF i = n THEN 0 ELSE m[i + 1]
        /\ \A i \in 1 .. n : l.prev[m[i]] = IF i = 1 THEN 0 ELSE m[i - 1]
    BY <1>1 DEF Links
  <1>4. /\ k \in Pointers /\ k.head = IF l.head = m[p] THEN l.next[m[p]] ELSE l.head
        /\ \A x \in NodeIds : k.next[x] = IF x = l.prev[m[p]] THEN l.next[m[p]] ELSE l.next[x]
        /\ \A x \in NodeIds : k.prev[x] = IF x = l.next[m[p]] THEN l.prev[m[p]] ELSE l.prev[x]
    OBVIOUS
  <1>5. ASSUME NEW i \in 1 .. n, i # p
        PROVE  /\ k.next[m[i]] = IF i + 1 = p THEN (IF p = n THEN 0 ELSE m[p + 1])
                                 ELSE IF i = n THEN 0 ELSE m[i + 1]
               /\ k.prev[m[i]] = IF i = p + 1 THEN (IF p = 1 THEN 0 ELSE m[p - 1])
                                 ELSE IF i = 1 THEN 0 ELSE m[i - 1]
    <2>1. m[i] = l.prev[m[p]] <=> i + 1 = p
      <3>1. CASE p = 1
        BY ONLY <3>1, <1>1, <1>3, <1>5, <1>0
      <3>2. CASE p # 1
        <4>1. p - 1 \in 1 .. n /\ l.prev[m[p]] = m[p - 1] /\ (i + 1 = p <=> i = p - 1)
          BY ONLY <3>2, <1>1, <1>3, <1>5, <1>0
        <4> QED
          BY ONLY <4>1, <1>3, <1>5
      <3> QED
        BY ONLY <3>1, <3>2
    <2>2. m[i] = l.next[m[p]] <=> i = p + 1
      <3>1. CASE p = n
        BY ONLY <3>1, <1>1, <1>3, <1>5, <1>0
      <3>2. CASE p # n
        <4>1. p + 1 \in 1 .. n /\ l.next[m[p]] = m[p + 1]
          BY ONLY <3>2, <1>1, <1>3, <1>0
        <4> QED
          BY ONLY <4>1, <1>3, <1>5
      <3> QED
        BY ONLY <3>1, <3>2
    <2>3. m[i] \in NodeIds
      BY ONLY <1>1, <1>5
    <2>4. k.next[m[i]] = IF i + 1 = p THEN l.next[m[p]] ELSE l.next[m[i]]
      BY ONLY <2>1, <2>3, <1>4
    <2>5. k.prev[m[i]] = IF i = p + 1 THEN l.prev[m[p]] ELSE l.prev[m[i]]
      BY ONLY <2>2, <2>3, <1>4
    <2> QED
      BY ONLY <2>4, <2>5, <1>3, <1>5, <1>0
  <1> HIDE DEF t, n
  <1>6. \A i \in 1 .. n - 1 : /\ i < p => i \in 1 .. n /\ i # p /\ t[i] = m[i] /\ i # n
                              /\ ~(i < p) => i + 1 \in 1 .. n /\ i + 1 # p /\ t[i] = m[i + 1] /\ i + 1 # 1
    BY ONLY <1>1, <1>2, <1>0 DEF n
  <1>7. ASSUME NEW i \in 1 .. n - 1, NEW j \in 1 .. n - 1, t[i] = t[j] PROVE i = j
    <2>1. CASE i < p /\ j < p
      BY ONLY <2>1, <1>3, <1>6, <1>7
    <2>2. CASE ~(i < p) /\ ~(j < p)
      <3>1. i + 1 = j + 1
        BY ONLY <2>2, <1>3, <1>6, <1>7
      <3> QED
        BY ONLY <3>1, i \in 1 .. n - 1, j \in 1 .. n - 1, <1>1
    <2>3. CASE i < p /\ ~(j < p)
      <3>1. i = j + 1
        BY ONLY <2>3, <1>3, <1>6, <1>7
      <3> QED
        BY ONLY <2>3, <3>1, i \in 1 .. n - 1, j \in 1 .. n - 1, <1>1, <1>0
    <2>4. CASE ~(i < p) /\ j < p
      <3>1. j = i + 1
        BY ONLY <2>4, <1>3, <1>6, <1>7
      <3> QED
        BY ONLY <2>4, <3>1, i \in 1 .. n - 1, j \in 1 .. n - 1, <1>1, <1>0
    <2> QED
      BY ONLY <2>1, <2>2, <2>3, <2>4
  <1>8. ASSUME NEW i \in 1 .. n - 1
        PROVE  k.next[t[i]] = IF i = n - 1 THEN 0 ELSE t[i + 1]
    <2>0. i # n - 1 => i + 1 \in 1 .. n - 1
      BY ONLY <1>1, <1>8
    <2>1. CASE i + 1 < p
      <3>1. i < p /\ i # n - 1 /\ i + 1 # p
        BY ONLY <2>1, <1>1, <1>8, <1>0
      <3>2. t[i] = m[i] /\ t[i + 1] = m[i + 1] /\ i \in 1 .. n /\ i # p /\ i # n
        BY ONLY <2>0, <2>1, <3>1, <1>6, <1>8
      <3> QED
        BY ONLY <3>1, <3>2, <1>5
    <2>2. CASE i + 1 = p
      <3>1. i < p /\ (i = n - 1 <=> p = n) /\ ~(i + 1 < p)
        BY ONLY <2>2, <1>1, <1>8, <1>0
      <3>2. t[i] = m[i] /\ i \in 1 .. n /\ i # p /\ (i # n - 1 => t[i + 1] = m[(i + 1) + 1])
        BY ONLY <2>0, <3>1, <1>6, <1>8
      <3>3. k.next[m[i]] = IF p = n THEN 0 ELSE m[p + 1]
        BY ONLY <2>2, <3>2, <1>5
      <3> QED
        BY ONLY <2>2, <3>1, <3>2, <3>3
    <2>3. CASE ~(i < p)
      <3>1. ~(i + 1 < p) /\ (i = n - 1 <=> i + 1 = n) /\ (i + 1) + 1 # p
        BY ONLY <2>3, <1>1, <1>8, <1>0
      <3>2. /\ t[i] = m[i + 1] /\ i + 1 \in 1 .. n /\ i + 1 # p
            /\ i # n - 1 => t[i + 1] = m[(i + 1) + 1]
        BY ONLY <2>0, <2>3, <3>1, <1>6, <1>8
      <3>3. k.next[m[i + 1]] = IF i + 1 = n THEN 0 ELSE m[(i + 1) + 1]
        BY ONLY <3>1, <3>2, <1>5
      <3> QED
        BY ONLY <3>1, <3>2, <3>3
    <2> QED
      BY ONLY <2>1, <2>2, <2>3, <1>1, <1>8, <1>0
  <1>9. ASSUME NEW i \in 1 .. n - 1
        PROVE  k.prev[t[i]] = IF i = 1 THEN 0 ELSE t[i - 1]
    <2>0. i # 1 => i - 1 \in 1 .. n - 1
      BY ONLY <1>1, <1>9
    <2>1. CASE i < p
      <3>1. i - 1 < p /\ i # p + 1
        BY ONLY <2>1, <1>1, <1>9, <1>0
      <3>2. t[i] = m[i] /\ (i # 1 => t[i - 1] = m[i - 1]) /\ i \in 1 .. n /\ i # p
        BY ONLY <2>0, <2>1, <3>1, <1>6, <1>9
      <3> QED
        BY ONLY <3>1, <3>2, <1>5
    <2>2. CASE i = p
      <3>1. ~(i < p) /\ i - 1 < p
        BY ONLY <2>2, <1>1, <1>9, <1>0
      <3>2. t[i] = m[i + 1] /\ i + 1 \in 1 .. n /\ i + 1 # p /\ (i # 1 => t[i - 1] = m[i - 1])
        BY ONLY <2>0, <3>1, <1>6, <1>9
      <3>3. k.prev[m[i + 1]] = IF p = 1 THEN 0 ELSE m[p - 1]
        BY ONLY <2>2, <3>2, <1>5
      <3> QED
        BY ONLY <2>2, <3>2, <3>3
    <2>3. CASE i > p
      <3>1. ~(i < p) /\ ~(i - 1 < p) /\ i # 1 /\ i + 1 # p + 1 /\ (i - 1) + 1 = i /\ (i + 1) - 1 = i
        BY ONLY <2>3, <1>1, <1>9, <1>0
      <3>2. t[i] = m[i + 1] /\ i + 1 \in 1 .. n /\ i + 1 # p /\ i + 1 # 1 /\ t[i - 1] = m[i]
        <4>1. t[i - 1] = m[(i - 1) + 1]
          BY ONLY <2>0, <3>1, <1>6
        <4> QED
          BY ONLY <4>1, <3>1, <1>6, <1>9
      <3>3. k.prev[m[i + 1]] = m[(i + 1) - 1]
        BY ONLY <3>1, <3>2, <1>5
      <3> QED
        BY ONLY <3>1, <3>2, <3>3
    <2> QED
      BY ONLY <2>1, <2>2, <2>3, <1>1, <1>9, <1>0
  <1>10. k.head = IF n - 1 = 0 THEN 0 ELSE t[1]
    <2>1. l.head = m[p] <=> p = 1
      BY ONLY <1>1, <1>3, <1>0
    <2>2. p = 1 => l.next[m[p]] = IF n = 1 THEN 0 ELSE m[2]
      BY ONLY <1>1, <1>3, <1>0
    <2>3. n - 1 # 0 => t[1] = IF p = 1 THEN m[2] ELSE m[1]
      BY ONLY <1>1, <1>2, <1>0
    <2>4. (n - 1 = 0 <=> n = 1) /\ (n = 1 => p = 1)
      BY ONLY <1>1, <1>0
    <2> QED
      BY ONLY <2>1, <2>2, <2>3, <2>4, <1>3, <1>4
  <1>11. Links(k, t)
    BY ONLY <1>2, <1>4, <1>7, <1>8, <1>9, <1>10 DEF Links
  <1>12. Members(t) = Members(m) \ {m[p]}
    <2>1. ASSUME NEW x \in Members(t) PROVE x \in Members(m) \ {m[p]}
      <3>1. PICK i \in 1 .. n - 1 : x = t[i]
        BY ONLY <2>1, <1>2 DEF Members
      <3>2. PICK j \in 1 .. n : x = m[j] /\ j # p
        BY ONLY <3>1, <1>6
      <3> QED
        BY ONLY <3>2, <1>3, <1>0 DEF Members, n
    <2>2. ASSUME NEW x \in Members(m) \ {m[p]} PROVE x \in Members(t)
      <3>1. PICK j \in 1 .. n : x = m[j] /\ j # p
        BY ONLY <2>2 DEF Members, n
      <3>2. CASE j < p
        <4>1. j \in 1 .. n - 1
          BY ONLY <3>2, <1>1, <1>0
        <4> QED
          BY ONLY <3>1, <3>2, <4>1, <1>2 DEF Members
      <3>3. CASE ~(j < p)
        <4>1. j - 1 \in 1 .. n - 1 /\ ~(j - 1 < p) /\ (j - 1) + 1 = j
          BY ONLY <3>1, <3>3, <1>1, <1>0
        <4>2. t[j - 1] = m[j]
          BY ONLY <4>1, <1>2
        <4> QED
          BY ONLY <3>1, <4>1, <4>2, <1>2 DEF Members
      <3> QED
        BY ONLY <3>2, <3>3
    <2> QED
      BY ONLY <2>1, <2>2
  <1> QED
    BY ONLY <1>11, <1>12 DEF t

\* Only the links of the members matter.
LEMMA LinksFrame ==
    ASSUME NEW l, NEW m, Links(l, m), NEW k \in Pointers, k.head = l.head,
           \A x \in Members(m) : k.next[x] = l.next[x] /\ k.prev[x] = l.prev[x]
    PROVE  Links(k, m)
  <1>1. \A i \in 1 .. Len(m) : m[i] \in Members(m)
    BY DEF Members
  <1> QED
    BY <1>1 DEF Links

-----------------------------------------------------------------------------
(* The walks of sanity_check_queue.                                        *)

Walked(link, n, g) ==
    /\ g = [i \in 0..(Total + 2) |-> g[i]] /\ g[0] = n
    /\ \A i \in 0..(Total + 1) : g[i + 1] = IF g[i] = 0 THEN 0 ELSE link[g[i]]

\* A walk meets what any function with its equations meets.
LEMMA AlongIs ==
    ASSUME NEW link, NEW n, NEW g, Walked(link, n, g)
    PROVE  Along(link, n) = g
  <1>0. /\ g = [i \in 0..(Total + 2) |-> g[i]] /\ g[0] = n
        /\ \A i \in 0..(Total + 1) : g[i + 1] = IF g[i] = 0 THEN 0 ELSE link[g[i]]
    BY DEF Walked
  <1> DEFINE N == Total + 2
             Steps(f) == [i \in 0..N |-> IF i = 0 THEN n ELSE IF f[i - 1] = 0 THEN 0 ELSE link[f[i - 1]]]
             f == CHOOSE f : f = Steps(f)
  <1>1. N \in Nat /\ \A i \in 0..N : i # 0 => i - 1 \in 0..(Total + 1) /\ (i - 1) + 1 = i
    BY IdCacheAssumption
  <1>2. Along(link, n) = f
    BY DEF Along, NULLP
  <1>3. g = Steps(g)
    <2>1. \A i \in 0..N : g[i] = IF i = 0 THEN n ELSE IF g[i - 1] = 0 THEN 0 ELSE link[g[i - 1]]
      BY <1>0, <1>1
    <2> QED
      BY <1>0, <2>1
  <1>4. f = Steps(f)
    <2> HIDE DEF Steps
    <2> QED
      BY ONLY <1>3
  <1> HIDE DEF f, N
  <1> DEFINE S == {i \in Nat : i <= N => f[i] = g[i]}
  <1>5. 0 \in S
    <2>1. 0 \in 0..N /\ f[0] = n
      BY ONLY <1>1, <1>4
    <2> QED
      BY <1>0, <2>1
  <1>6. ASSUME NEW i \in S PROVE i + 1 \in S
    <2> SUFFICES ASSUME i + 1 <= N PROVE f[i + 1] = g[i + 1]
      OBVIOUS
    <2>1. i \in Nat /\ i + 1 \in 0..N /\ i <= N /\ i + 1 # 0 /\ (i + 1) - 1 = i
      BY <1>1
    <2>2. f[i + 1] = IF f[i] = 0 THEN 0 ELSE link[f[i]]
      BY ONLY <1>4, <2>1
    <2>3. g[i + 1] = IF g[i] = 0 THEN 0 ELSE link[g[i]]
      BY ONLY <1>3, <2>1
    <2>4. f[i] = g[i]
      BY <2>1
    <2> QED
      BY ONLY <2>2, <2>3, <2>4
  <1>7. S = Nat
    <2> HIDE DEF S
    <2>1. S \in SUBSET Nat
      BY DEF S
    <2> QED
      BY ONLY <2>1, <1>5, <1>6, SetInduction
  <1>8. \A i \in 0..N : f[i] = g[i]
    BY ONLY <1>7, <1>1
  <1>9. f = [i \in 0..N |-> f[i]]
    BY ONLY <1>4
  <1> QED
    <2>1. g = [i \in 0..N |-> g[i]]
      BY <1>0 DEF N
    <2>2. f = g
      BY ONLY <1>8, <1>9, <2>1
    <2> QED
      BY ONLY <1>2, <2>2

Up(m) == [i \in 0..(Total + 2) |-> IF i < Len(m) THEN m[i + 1] ELSE 0]
Down(m) == [i \in 0..(Total + 2) |-> IF i < Len(m) THEN m[Len(m) - i] ELSE 0]

\* From the front along next, the walk meets the members in order.
LEMMA AlongNext ==
    ASSUME NEW l, NEW m, Links(l, m)
    PROVE  Along(l.next, l.head) = Up(m)
  <1> DEFINE g == Up(m)
             n == Len(m)
  <1>1. n \in Nat /\ \A i \in 1..n : m[i] # 0
    BY NotNull DEF Links
  <1>2. l.head = (IF n = 0 THEN 0 ELSE m[1]) /\ \A i \in 1..n : l.next[m[i]] = IF i = n THEN 0 ELSE m[i + 1]
    BY DEF Links
  <1>3. g = [i \in 0..(Total + 2) |-> IF i < n THEN m[i + 1] ELSE 0]
    BY DEF Up
  <1> HIDE DEF g, n
  <1>4. g[0] = l.head
    <2>1. 0 \in 0..(Total + 2) /\ (0 < n <=> n # 0) /\ 0 + 1 = 1
      BY <1>1, IdCacheAssumption
    <2> QED
      BY ONLY <1>2, <1>3, <2>1
  <1>5. ASSUME NEW i \in 0..(Total + 1)
        PROVE  g[i + 1] = IF g[i] = 0 THEN 0 ELSE l.next[g[i]]
    <2>1. i \in 0..(Total + 2) /\ i + 1 \in 0..(Total + 2)
      BY IdCacheAssumption
    <2>2. g[i] = (IF i < n THEN m[i + 1] ELSE 0) /\ g[i + 1] = IF i + 1 < n THEN m[(i + 1) + 1] ELSE 0
      BY ONLY <1>3, <2>1
    <2>3. /\ i < n => i + 1 \in 1..n
          /\ i + 1 < n => i < n
          /\ i + 1 < n => i + 1 # n
          /\ i < n /\ ~(i + 1 < n) => i + 1 = n
      BY ONLY <1>1, <2>1
    <2> QED
      BY ONLY <1>1, <1>2, <2>2, <2>3
  <1>6. g = [i \in 0..(Total + 2) |-> g[i]]
    BY ONLY <1>3
  <1> QED
    <2> DEFINE x == l.next
               h == l.head
    <2>1. g[0] = h /\ \A i \in 0..(Total + 1) : g[i + 1] = IF g[i] = 0 THEN 0 ELSE x[g[i]]
      BY ONLY <1>4, <1>5
    <2> HIDE DEF x, h
    <2>3. Walked(x, h, g)
      BY ONLY <2>1, <1>6 DEF Walked
    <2>2. Along(x, h) = g
      BY ONLY <2>3, AlongIs
    <2> QED
      BY ONLY <2>2 DEF g, x, h

\* From the end along prev, it meets them backwards.
LEMMA AlongPrev ==
    ASSUME NEW l, NEW m, Links(l, m), Len(m) # 0
    PROVE  Along(l.prev, m[Len(m)]) = Down(m)
  <1> DEFINE g == Down(m)
             n == Len(m)
             e == m[n]
  <1>1. n \in Nat /\ n # 0 /\ \A i \in 1..n : m[i] # 0
    BY NotNull DEF Links
  <1>2. \A i \in 1..n : l.prev[m[i]] = IF i = 1 THEN 0 ELSE m[i - 1]
    BY DEF Links
  <1>3. g = [i \in 0..(Total + 2) |-> IF i < n THEN m[n - i] ELSE 0]
    BY DEF Down
  <1>9. e = m[n]
    OBVIOUS
  <1> HIDE DEF g, n, e
  <1>4. g[0] = e
    <2>1. 0 \in 0..(Total + 2) /\ 0 < n /\ n - 0 = n
      BY <1>1, IdCacheAssumption
    <2> QED
      BY ONLY <1>9, <1>3, <2>1
  <1>5. ASSUME NEW i \in 0..(Total + 1)
        PROVE  g[i + 1] = IF g[i] = 0 THEN 0 ELSE l.prev[g[i]]
    <2>1. i \in 0..(Total + 2) /\ i + 1 \in 0..(Total + 2)
      BY IdCacheAssumption
    <2>2. g[i] = (IF i < n THEN m[n - i] ELSE 0) /\ g[i + 1] = IF i + 1 < n THEN m[n - (i + 1)] ELSE 0
      BY ONLY <1>3, <2>1
    <2>3. /\ i < n => n - i \in 1..n
          /\ i + 1 < n => i < n /\ n - i # 1 /\ n - (i + 1) = (n - i) - 1
          /\ i < n /\ ~(i + 1 < n) => n - i = 1
      BY ONLY <1>1, <2>1
    <2> QED
      BY ONLY <1>1, <1>2, <2>2, <2>3
  <1>6. g = [i \in 0..(Total + 2) |-> g[i]]
    BY ONLY <1>3
  <1> QED
    <2> DEFINE x == l.prev
    <2>1. g[0] = e /\ \A i \in 0..(Total + 1) : g[i + 1] = IF g[i] = 0 THEN 0 ELSE x[g[i]]
      BY ONLY <1>4, <1>5
    <2> HIDE DEF x
    <2>3. Walked(x, e, g)
      BY ONLY <2>1, <1>6 DEF Walked
    <2>2. Along(x, e) = g
      BY ONLY <2>3, AlongIs
    <2> QED
      BY ONLY <2>2 DEF g, e, n, x
-----------------------------------------------------------------------------
(* The operations on the queue.                                            *)

Queues == [id : [NodeIds -> Int], str : [NodeIds -> Seq(Nat)], prev : [NodeIds -> Ptrs],
           next : [NodeIds -> Ptrs], live : [NodeIds -> BOOLEAN], front : Ptrs, end : Ptrs,
           count : Int, hash : [Keys -> Ptrs], aborted : BOOLEAN]

List(q) == [head |-> q.front, next |-> q.next, prev |-> q.prev]

\* The queue links m, and end is its last node.
Queue(q, m) ==
    /\ q \in Queues /\ q.aborted = FALSE /\ Links(List(q), m)
    /\ Len(m) # 0 => q.end = m[Len(m)]
    /\ q.count \in 0..Total

\* Neither of the walks of sanity_check_queue aborts as long as the list has
\* at most one node more than are counted.
LEMMA SanityPasses ==
    ASSUME NEW q, NEW m, Queue(q, m), Len(m) <= q.count + 1
    PROVE  sanity_check_queue(q) = q
  <1> DEFINE n == Len(m)
             up == Along(q.next, q.front)
             down == Along(q.prev, q.end)
             c == q.count
  <1>1. /\ Links(List(q), m) /\ List(q).head = q.front /\ List(q).next = q.next
        /\ List(q).prev = q.prev /\ q.aborted = FALSE
    BY DEF Queue, List
  <1>2. /\ n \in Nat /\ c \in 0..Total /\ n <= c + 1 /\ Total \in Nat
        /\ \A i \in 1..n : m[i] # 0
    BY NotNull, IdCacheAssumption DEF Queue, Links
  <1>3. /\ \A i \in 1..n : q.next[m[i]] = IF i = n THEN 0 ELSE m[i + 1]
        /\ \A i \in 1..n : q.prev[m[i]] = IF i = 1 THEN 0 ELSE m[i - 1]
        /\ q.front = IF n = 0 THEN 0 ELSE m[1]
    BY <1>1 DEF Links
  <1>4. CASE n = 0
    <2>1. q.front = NULLP
      BY <1>3, <1>4 DEF NULLP
    <2> QED
      BY <2>1 DEF sanity_check_queue
  <1>5. CASE n # 0
    <2>1. up = Up(m)
      BY ONLY <1>1, AlongNext
    <2>2. q.end = m[n] /\ q.end # 0
      BY <1>2, <1>5 DEF Queue
    <2>3. down = Down(m)
      <3>1. Along(q.prev, m[Len(m)]) = Down(m)
        BY ONLY <1>1, <1>5, AlongPrev
      <3> QED
        BY ONLY <3>1, <2>2
    <2> HIDE DEF up, down, n, c
    <2>4. \A i \in 0..(Total + 2) : up[i] = (IF i < n THEN m[i + 1] ELSE 0) /\ down[i] = IF i < n THEN m[n - i] ELSE 0
      BY ONLY <2>1, <2>3 DEF Up, Down, n
    <2>5. WalkOk(up, q.next, q.prev, c)
      <3> SUFFICES ASSUME NEW i \in 0..c, up[i] # 0, q.next[up[i]] # 0
                   PROVE  q.prev[q.next[up[i]]] = up[i] /\ i # c
        BY DEF WalkOk, NULLP
      <3>1. i \in 0..(Total + 2)
        BY <1>2
      <3>2. i < n /\ up[i] = m[i + 1]
        BY ONLY <3>1, <2>4, up[i] # 0
      <3>3. i + 1 \in 1..n
        BY ONLY <3>1, <3>2, <1>2
      <3>4. i + 1 # n /\ q.next[up[i]] = m[(i + 1) + 1]
        BY ONLY <3>2, <3>3, <1>3, q.next[up[i]] # 0
      <3>5. (i + 1) + 1 \in 1..n /\ (i + 1) + 1 # 1 /\ ((i + 1) + 1) - 1 = i + 1 /\ i # c
        BY ONLY <3>1, <3>3, <3>4, <1>2
      <3>6. q.prev[m[(i + 1) + 1]] = m[i + 1]
        BY ONLY <3>5, <1>3
      <3> QED
        BY ONLY <3>2, <3>4, <3>5, <3>6
    <2>6. Hops(up) = n - 1
      <3>1. {i \in 1..(Total + 2) : up[i] # 0} = 1..(n - 1)
        <4>1. \A i \in 1..(Total + 2) : i \in 0..(Total + 2) /\ (i < n <=> i \in 1..(n - 1)) /\ (i < n => i + 1 \in 1..n)
          BY ONLY <1>2
        <4>2. \A i \in 1..(Total + 2) : up[i] # 0 <=> i \in 1..(n - 1)
          BY ONLY <4>1, <2>4, <1>2
        <4>3. \A i \in 1..(n - 1) : i \in 1..(Total + 2)
          BY ONLY <1>2
        <4> QED
          BY ONLY <4>2, <4>3
      <3>2. Cardinality(1..(n - 1)) = n - 1
        <4> DEFINE k == n - 1
        <4>1. 1 \in Int /\ k \in Int /\ k \in Nat
          BY ONLY <1>2, <1>5
        <4> HIDE DEF k
        <4>2. Cardinality(1..k) = IF 1 > k THEN 0 ELSE k - 1 + 1
          BY ONLY <4>1, FS_Interval
        <4>3. Cardinality(1..k) = k
          BY ONLY <4>1, <4>2
        <4> QED
          BY ONLY <4>3 DEF k
      <3> QED
        BY ONLY <3>1, <3>2 DEF Hops, NULLP
    <2>7. WalkOk(down, q.prev, q.next, n - 1)
      <3> SUFFICES ASSUME NEW i \in 0..(n - 1), down[i] # 0, q.prev[down[i]] # 0
                   PROVE  q.next[q.prev[down[i]]] = down[i] /\ i # n - 1
        BY DEF WalkOk, NULLP
      <3>1. i \in 0..(Total + 2) /\ i < n /\ n - i \in 1..n
        BY <1>2
      <3>2. down[i] = m[n - i]
        BY ONLY <3>1, <2>4
      <3>3. n - i # 1 /\ q.prev[down[i]] = m[(n - i) - 1]
        BY ONLY <3>1, <3>2, <1>3, q.prev[down[i]] # 0
      <3>4. (n - i) - 1 \in 1..n /\ (n - i) - 1 # n /\ ((n - i) - 1) + 1 = n - i /\ i # n - 1
        BY ONLY <3>1, <3>3, <1>2
      <3>5. q.next[m[(n - i) - 1]] = m[n - i]
        BY ONLY <3>4, <1>3
      <3> QED
        BY ONLY <3>2, <3>3, <3>4, <3>5
    <2> QED
      BY ONLY <2>2, <2>5, <2>6, <2>7 DEF sanity_check_queue, up, down, c, NULLP
  <1> QED
    BY <1>4, <1>5

\* r differs from q in the links only.
SameNodes(q, r) ==
    /\ r.id = q.id /\ r.str = q.str /\ r.live = q.live /\ r.count = q.count /\ r.hash = q.hash

LEMMA PushedLast ==
    ASSUME NEW c \in NodeIds, NEW m \in Seq(NodeIds)
    PROVE  /\ Len(Pushed(c, m)) = Len(m) + 1 /\ Pushed(c, m)[1] = c
           /\ Pushed(c, m)[Len(m) + 1] = IF Len(m) = 0 THEN c ELSE m[Len(m)]
  <1>1. Len(m) \in Nat /\ 1 \in 1..(Len(m) + 1) /\ Len(m) + 1 \in 1..(Len(m) + 1) /\ (Len(m) + 1) - 1 = Len(m)
    OBVIOUS
  <1>2. Len(Pushed(c, m)) = Len(m) + 1
    BY <1>1 DEF Pushed
  <1>3. Pushed(c, m)[1] = c
    BY <1>1 DEF Pushed
  <1>4. Pushed(c, m)[Len(m) + 1] = IF Len(m) + 1 = 1 THEN c ELSE m[(Len(m) + 1) - 1]
    BY <1>1 DEF Pushed
  <1> QED
    BY ONLY <1>1, <1>2, <1>3, <1>4

LEMMA RemovedLast ==
    ASSUME NEW m \in Seq(NodeIds), NEW p \in 1..Len(m)
    PROVE  /\ Len(Removed(m, p)) = Len(m) - 1
           /\ Len(m) # 1 => Removed(m, p)[Len(m) - 1] = IF p = Len(m) THEN m[Len(m) - 1] ELSE m[Len(m)]
  <1>1. Len(m) \in Nat /\ Len(m) - 1 \in Nat
    OBVIOUS
  <1>2. Len(Removed(m, p)) = Len(m) - 1
    BY <1>1 DEF Removed
  <1>3. ASSUME Len(m) # 1
        PROVE  Removed(m, p)[Len(m) - 1] = IF p = Len(m) THEN m[Len(m) - 1] ELSE m[Len(m)]
    <2>1. Len(m) - 1 \in 1..(Len(m) - 1) /\ (Len(m) - 1) + 1 = Len(m) /\ (Len(m) - 1 < p <=> p = Len(m))
      <3> DEFINE n == Len(m)
      <3>1. n \in Nat /\ n # 1 /\ p \in 1..n
        BY <1>1, <1>3
      <3> HIDE DEF n
      <3>2. n - 1 \in 1..(n - 1) /\ (n - 1) + 1 = n /\ (n - 1 < p <=> p = n)
        BY ONLY <3>1
      <3> QED
        BY ONLY <3>2 DEF n
    <2>2. Removed(m, p)[Len(m) - 1] = IF Len(m) - 1 < p THEN m[Len(m) - 1] ELSE m[(Len(m) - 1) + 1]
      BY <2>1 DEF Removed
    <2> QED
      BY ONLY <2>1, <2>2
  <1> QED
    BY ONLY <1>2, <1>3

\* insert_beginning: c comes first, whether or not the queue was empty.
LEMMA InsertKeeps ==
    ASSUME NEW q, NEW m, Queue(q, m), NEW c \in NodeIds, c \notin Members(m),
           Len(m) <= q.count, NEW r, r = insert_beginning(q, c)
    PROVE  Queue(r, Pushed(c, m)) /\ Members(Pushed(c, m)) = Members(m) \cup {c} /\ SameNodes(q, r)
  <1> DEFINE n == Len(m)
             t == IF q.front = 0
                  THEN [q EXCEPT !.front = c, !.end = c, !.prev[c] = 0, !.next[c] = 0]
                  ELSE [q EXCEPT !.prev = [q.prev EXCEPT ![c] = 0, ![q.front] = c], !.next[c] = q.front, !.front = c]
  <1>1. /\ q \in Queues /\ q.aborted = FALSE /\ Links(List(q), m) /\ m \in Seq(NodeIds) /\ n \in Nat
        /\ q.front = (IF n = 0 THEN 0 ELSE m[1]) /\ q.count \in 0..Total
        /\ \A i \in 1..n : m[i] \in NodeIds /\ m[i] # 0
        /\ n # 0 => q.end = m[n] /\ q.prev[m[1]] = 0
    BY NotNull DEF Queue, Links, List
  <1>2. q.front # 0 => q.front \in NodeIds /\ q.prev[q.front] = 0
    BY <1>1
  <1>3. /\ t \in Queues /\ SameNodes(q, t) /\ t.aborted = FALSE /\ t.front = c
        /\ t.end = (IF q.front = 0 THEN c ELSE q.end)
        /\ t.next = [q.next EXCEPT ![c] = q.front]
        /\ t.prev = IF q.front = 0 THEN [q.prev EXCEPT ![c] = 0] ELSE [q.prev EXCEPT ![c] = 0, ![q.front] = c]
    <2>1. CASE q.front = 0
      BY <1>1, <2>1, NotNull DEF Queues, SameNodes
    <2>2. CASE q.front # 0
      BY <1>1, <1>2, <2>2, NotNull DEF Queues, SameNodes
    <2> QED
      BY ONLY <2>1, <2>2
  <1>4. r = IF q.front = 0 THEN t ELSE sanity_check_queue(t)
    <2>1. CASE q.front = 0
      BY <1>1, <2>1 DEF insert_beginning, NULLP
    <2>2. CASE q.front # 0
      <3> DEFINE l == [q EXCEPT !.prev = [@ EXCEPT ![c] = 0, ![q.front] = c], !.next[c] = q.front]
      <3>1. r = insert_before(q, q.front, c)
        BY <1>1, <2>2 DEF insert_beginning, NULLP
      <3>2. r = sanity_check_queue([l EXCEPT !.front = c])
        BY <3>1, <1>2, <2>2 DEF insert_before, NULLP
      <3>3. [l EXCEPT !.front = c] = t
        BY <1>1, <2>2 DEF Queues
      <3> QED
        BY ONLY <2>2, <3>2, <3>3
    <2> QED
      BY ONLY <2>1, <2>2
  <1> HIDE DEF t
  <1>5. Links(List(t), Pushed(c, m)) /\ Members(Pushed(c, m)) = Members(m) \cup {c}
    <2> DEFINE l == List(q)
               k == List(t)
    <2>1. /\ k \in Pointers /\ k.head = c /\ k.next = [q.next EXCEPT ![c] = q.front] /\ k.prev = t.prev
          /\ l.head = q.front /\ l.next = q.next /\ l.prev = q.prev
      BY <1>1, <1>3 DEF List, Pointers, Queues
    <2>2. q.next \in [NodeIds -> Ptrs] /\ q.prev \in [NodeIds -> Ptrs]
      BY <1>1 DEF Queues
    <2>3. c # q.front
      BY <1>1, <1>2, NotNull DEF Members
    <2>4. k.next[c] = l.head /\ \A x \in NodeIds : x # c => k.next[x] = l.next[x]
      BY ONLY <2>1, <2>2, c \in NodeIds
    <2>5. k.prev[c] = 0 /\ \A x \in NodeIds : x # c => k.prev[x] = IF x = l.head THEN c ELSE l.prev[x]
      <3>1. CASE q.front = 0
        BY ONLY <3>1, <2>1, <2>2, <1>3, c \in NodeIds, NotNull
      <3>2. CASE q.front # 0
        BY ONLY <3>2, <2>1, <2>2, <2>3, <1>2, <1>3, c \in NodeIds
      <3> QED
        BY ONLY <3>1, <3>2
    <2>6. Links(l, m)
      BY <1>1
    <2> HIDE DEF l, k
    <2>8. \A y \in NodeIds : y # c => /\ k.next[y] = l.next[y]
                                     /\ k.prev[y] = IF y = l.head THEN c ELSE l.prev[y]
      BY ONLY <2>4, <2>5
    <2>9. k \in Pointers /\ k.head = c /\ k.next[c] = l.head /\ k.prev[c] = 0
      BY ONLY <2>1, <2>4, <2>5
    <2>10. PutFirst(l, c, k)
      BY ONLY <2>8, <2>9 DEF PutFirst
    <2>7. Links(k, Pushed(c, m)) /\ Members(Pushed(c, m)) = Members(m) \cup {c}
      BY ONLY <2>6, <2>10, c \in NodeIds, c \notin Members(m), LinkedPuts
    <2> QED
      BY ONLY <2>7 DEF k
  <1>6. /\ Len(Pushed(c, m)) = n + 1 /\ n + 1 # 0
        /\ Pushed(c, m)[n + 1] = IF n = 0 THEN c ELSE m[n]
    BY <1>1, PushedLast
  <1>7. t.end = Pushed(c, m)[n + 1]
    <2>1. q.front = 0 <=> n = 0
      BY <1>1
    <2> QED
      BY ONLY <2>1, <1>1, <1>3, <1>6
  <1>8. Queue(t, Pushed(c, m)) /\ Len(Pushed(c, m)) <= t.count + 1
    <2>1. t.count = q.count /\ n <= q.count
      BY <1>3 DEF SameNodes
    <2>2. n + 1 <= t.count + 1
      BY ONLY <1>1, <2>1
    <2> QED
      BY ONLY <1>1, <1>3, <1>5, <1>6, <1>7, <2>1, <2>2 DEF Queue
  <1>9. r = t
    <2>1. sanity_check_queue(t) = t
      BY ONLY <1>8, SanityPasses
    <2> QED
      BY ONLY <1>4, <2>1
  <1> QED
    BY ONLY <1>3, <1>5, <1>8, <1>9

\* remove_node: the node at p is out, and end moves when it was the last.
LEMMA RemoveKeeps ==
    ASSUME NEW q, NEW m, Queue(q, m), NEW p \in 1..Len(m), Len(m) <= q.count + 1,
           NEW r, r = remove_node(q, m[p])
    PROVE  /\ Queue(r, Removed(m, p)) /\ Len(Removed(m, p)) = Len(m) - 1
           /\ Members(Removed(m, p)) = Members(m) \ {m[p]} /\ SameNodes(q, r)
  <1> DEFINE n == Len(m)
             x == m[p]
             a == q.prev[x]
             z == q.next[x]
             t == IF a = 0 THEN RemoveFront(q, x) ELSE RemoveLater(q, x)
  <1>1. /\ q \in Queues /\ q.aborted = FALSE /\ Links(List(q), m) /\ m \in Seq(NodeIds) /\ n \in Nat
        /\ q.front = (IF n = 0 THEN 0 ELSE m[1]) /\ q.count \in 0..Total
        /\ \A i \in 1..n : m[i] \in NodeIds /\ m[i] # 0
        /\ n # 0 => q.end = m[n]
    BY NotNull DEF Queue, Links, List
  <1>2. /\ \A i \in 1..n : q.next[m[i]] = IF i = n THEN 0 ELSE m[i + 1]
        /\ \A i \in 1..n : q.prev[m[i]] = IF i = 1 THEN 0 ELSE m[i - 1]
        /\ \A i, j \in 1..n : m[i] = m[j] => i = j
    BY <1>1 DEF Links, List
  <1>0. p \in 1..n /\ n # 0 /\ 1 \in 1..n
    BY <1>1
  <1>3. /\ x \in NodeIds /\ x # 0 /\ (a = 0 <=> p = 1) /\ (z = 0 <=> p = n)
        /\ a \in Ptrs /\ z \in Ptrs /\ (q.front = x <=> p = 1) /\ (p # 1 => a = m[p - 1])
    <2>1. p # 1 => p - 1 \in 1..n
      BY <1>0, <1>1
    <2>2. p # n => p + 1 \in 1..n
      BY <1>0, <1>1
    <2>3. (a = 0 <=> p = 1) /\ (p # 1 => a = m[p - 1])
      BY ONLY <1>0, <1>1, <1>2, <2>1
    <2>4. z = 0 <=> p = n
      BY ONLY <1>0, <1>1, <1>2, <2>2
    <2>5. q.front = x <=> p = 1
      BY ONLY <1>0, <1>1, <1>2
    <2>6. x \in NodeIds /\ x # 0
      BY ONLY <1>0, <1>1
    <2>7. a \in Ptrs /\ z \in Ptrs
      BY ONLY <2>6, <1>1 DEF Queues
    <2> QED
      BY ONLY <2>3, <2>4, <2>5, <2>6, <2>7
  <1> HIDE DEF x, a, z, n
  <1>9. q.prev[x] = a /\ q.next[x] = z /\ x = m[p]
    BY DEF x, a, z
  <1>q. q \in Queues /\ q.aborted = FALSE /\ a \in Ptrs /\ z \in Ptrs /\ 0 \in Ptrs
    BY ONLY <1>1, <1>3, NotNull
  <1>4. /\ t \in Queues /\ SameNodes(q, t) /\ t.aborted = FALSE
        /\ t.front = (IF a = 0 THEN z ELSE q.front)
        /\ t.end = (IF a # 0 /\ z = 0 THEN a ELSE q.end)
        /\ t.next = (IF a = 0 THEN q.next ELSE [q.next EXCEPT ![a] = z])
        /\ t.prev = (IF z = 0 THEN q.prev ELSE [q.prev EXCEPT ![z] = a])
    <2>1. CASE a = 0 /\ z = 0
      <3>1. t = [q EXCEPT !.front = 0]
        BY <2>1, <1>9 DEF RemoveFront, NULLP
      <3> HIDE DEF t
      <3> QED
        BY ONLY <2>1, <3>1, <1>q DEF Queues, SameNodes
    <2>2. CASE a = 0 /\ z # 0
      <3>1. t = [q EXCEPT !.front = z, !.prev[z] = 0]
        BY <2>2, <1>9 DEF RemoveFront, NULLP
      <3> DEFINE v == [q.prev EXCEPT ![z] = 0]
      <3>2. v \in [NodeIds -> Ptrs] /\ v = [q.prev EXCEPT ![z] = a]
        BY <2>2, <1>1, <1>3, NotNull DEF Queues
      <3>3. t = [q EXCEPT !.front = z, !.prev = v]
        BY <3>1, <1>1 DEF Queues
      <3> HIDE DEF v, t
      <3> QED
        BY ONLY <2>2, <3>2, <3>3, <1>q DEF Queues, SameNodes
    <2>3. CASE a # 0 /\ z = 0
      <3>1. t = [[q EXCEPT !.next[a] = z] EXCEPT !.end = a]
        BY <2>3, <1>9 DEF RemoveLater, NULLP
      <3> DEFINE w == [q.next EXCEPT ![a] = z]
      <3>2. w \in [NodeIds -> Ptrs]
        BY <2>3, <1>1, <1>3, NotNull DEF Queues
      <3>3. t = [q EXCEPT !.next = w, !.end = a]
        BY <3>1, <1>1 DEF Queues
      <3>4. w = [q.next EXCEPT ![a] = z]
        OBVIOUS
      <3> HIDE DEF w, t
      <3> QED
        BY ONLY <2>3, <3>2, <3>3, <3>4, <1>q DEF Queues, SameNodes
    <2>4. CASE a # 0 /\ z # 0
      <3>1. t = [[q EXCEPT !.next[a] = z] EXCEPT !.prev[z] = a]
        BY <2>4, <1>9 DEF RemoveLater, NULLP
      <3> DEFINE w == [q.next EXCEPT ![a] = z]
                 v == [q.prev EXCEPT ![z] = a]
      <3>2. w \in [NodeIds -> Ptrs] /\ v \in [NodeIds -> Ptrs]
        BY <2>4, <1>1, <1>3, NotNull DEF Queues
      <3>3. t = [q EXCEPT !.next = w, !.prev = v]
        BY <3>1, <1>1 DEF Queues
      <3>4. w = [q.next EXCEPT ![a] = z] /\ v = [q.prev EXCEPT ![z] = a]
        OBVIOUS
      <3> HIDE DEF w, v, t
      <3> QED
        BY <2>4, <3>2, <3>3, <3>4, <1>1, <1>3 DEF Queues, SameNodes
    <2> QED
      BY ONLY <2>1, <2>2, <2>3, <2>4
  <1>5. r = sanity_check_queue(t)
    BY <1>1, <1>9 DEF remove_node, NULLP
  <1> HIDE DEF t
  <1>6. Links(List(t), Removed(m, p)) /\ Members(Removed(m, p)) = Members(m) \ {m[p]}
    <2> DEFINE l == List(q)
               k == List(t)
    <2>1. /\ k \in Pointers /\ k.head = t.front /\ k.next = t.next /\ k.prev = t.prev
          /\ l.head = q.front /\ l.next = q.next /\ l.prev = q.prev
      BY <1>1, <1>4 DEF List, Pointers, Queues
    <2>2. q.next \in [NodeIds -> Ptrs] /\ q.prev \in [NodeIds -> Ptrs]
      BY <1>1 DEF Queues
    <2>3. k.head = IF l.head = m[p] THEN l.next[m[p]] ELSE l.head
      BY ONLY <2>1, <1>3, <1>4, <1>9
    <2>4. \A y \in NodeIds : k.next[y] = IF y = l.prev[m[p]] THEN l.next[m[p]] ELSE l.next[y]
      <3>1. CASE a = 0
        BY ONLY <3>1, <2>1, <1>4, <1>9, NotNull
      <3>2. CASE a # 0
        BY ONLY <3>2, <2>1, <2>2, <1>3, <1>4, <1>9
      <3> QED
        BY ONLY <3>1, <3>2
    <2>5. \A y \in NodeIds : k.prev[y] = IF y = l.next[m[p]] THEN l.prev[m[p]] ELSE l.prev[y]
      <3>1. CASE z = 0
        BY ONLY <3>1, <2>1, <1>4, <1>9, NotNull
      <3>2. CASE z # 0
        BY ONLY <3>2, <2>1, <2>2, <1>3, <1>4, <1>9
      <3> QED
        BY ONLY <3>1, <3>2
    <2>6. Links(l, m)
      BY <1>1
    <2> HIDE DEF l, k
    <2>7. Links(k, Removed(m, p)) /\ Members(Removed(m, p)) = Members(m) \ {m[p]}
      BY ONLY <2>1, <2>3, <2>4, <2>5, <2>6, p \in 1..Len(m), UnlinkedTakes
    <2> QED
      BY ONLY <2>7 DEF k
  <1>7. /\ Len(Removed(m, p)) = n - 1
        /\ n # 1 => Removed(m, p)[n - 1] = IF p = n THEN m[n - 1] ELSE m[n]
    BY <1>1, RemovedLast DEF n
  <1>8. n - 1 # 0 => t.end = Removed(m, p)[n - 1]
    <2>1. n - 1 # 0 => n # 1 /\ (p = n => p # 1)
      BY <1>0, <1>1
    <2> QED
      BY ONLY <2>1, <1>0, <1>1, <1>3, <1>4, <1>7
  <1>10. Queue(t, Removed(m, p)) /\ Len(Removed(m, p)) <= t.count + 1
    <2>1. t.count = q.count /\ n <= q.count + 1
      BY <1>4 DEF SameNodes, n
    <2>2. n - 1 <= t.count + 1
      BY ONLY <1>1, <2>1
    <2> QED
      BY ONLY <1>1, <1>4, <1>6, <1>7, <1>8, <2>1, <2>2 DEF Queue
  <1>11. r = t
    <2>1. sanity_check_queue(t) = t
      BY ONLY <1>10, SanityPasses
    <2> QED
      BY ONLY <1>5, <2>1
  <1> QED
    BY ONLY <1>4, <1>6, <1>7, <1>10, <1>11 DEF n
-----------------------------------------------------------------------------
(* The hash table and the names.                                           *)

\* Every live node has its own key, and holds an id of that key or none.
Hashed(L, id, hash) ==
    /\ L \in SUBSET NodeIds /\ id \in [NodeIds -> Int] /\ hash \in [Keys -> Ptrs]
    /\ \A k \in Keys : hash[k] # 0 => /\ hash[k] \in L
                                      /\ id[hash[k]] \in {-1} \cup {u \in Uids : u % Total = k}
    /\ \A j, k \in Keys : hash[j] = hash[k] /\ hash[k] # 0 => j = k
    /\ \A n \in L : \E k \in Keys : hash[k] = n

LEMMA HashedPut ==
    ASSUME NEW L, NEW id, NEW hash, Hashed(L, id, hash), NEW n \in NodeIds, n \notin L,
           NEW key \in Keys, hash[key] = 0
    PROVE  Hashed(L \cup {n}, [id EXCEPT ![n] = -1], [hash EXCEPT ![key] = n])
  <1> DEFINE h == [hash EXCEPT ![key] = n]
             d == [id EXCEPT ![n] = -1]
  <1>1. /\ L \in SUBSET NodeIds /\ id \in [NodeIds -> Int] /\ hash \in [Keys -> Ptrs]
        /\ \A k \in Keys : hash[k] # 0 => /\ hash[k] \in L
                                          /\ id[hash[k]] \in {-1} \cup {u \in Uids : u % Total = k}
        /\ \A j, k \in Keys : hash[j] = hash[k] /\ hash[k] # 0 => j = k
        /\ \A x \in L : \E k \in Keys : hash[k] = x
    BY DEF Hashed
  <1>2. /\ h \in [Keys -> Ptrs] /\ h[key] = n /\ \A k \in Keys : k # key => h[k] = hash[k]
    BY <1>1, NotNull
  <1>3. /\ d \in [NodeIds -> Int] /\ d[n] = -1 /\ \A x \in NodeIds : x # n => d[x] = id[x]
    BY <1>1
  <1> HIDE DEF h, d
  <1>4. ASSUME NEW k \in Keys, h[k] # 0
        PROVE  h[k] \in L \cup {n} /\ d[h[k]] \in {-1} \cup {u \in Uids : u % Total = k}
    <2>1. CASE k = key
      BY ONLY <2>1, <1>2, <1>3
    <2>2. CASE k # key
      <3>1. h[k] = hash[k] /\ hash[k] \in L /\ hash[k] # n /\ hash[k] \in NodeIds
        BY <2>2, <1>1, <1>2, <1>4
      <3>2. d[h[k]] = id[hash[k]]
        BY ONLY <3>1, <1>3
      <3> QED
        BY ONLY <3>1, <3>2, <1>1, <1>4
    <2> QED
      BY ONLY <2>1, <2>2
  <1>5. ASSUME NEW j \in Keys, NEW k \in Keys, h[j] = h[k], h[k] # 0
        PROVE  j = k
    <2>1. \A x \in Keys : x # key => h[x] = hash[x] /\ (hash[x] # 0 => hash[x] # n)
      BY <1>1, <1>2
    <2>2. n # 0
      BY NotNull
    <2> QED
      BY ONLY <2>1, <2>2, <1>1, <1>2, <1>5
  <1>6. ASSUME NEW x \in L \cup {n}
        PROVE  \E k \in Keys : h[k] = x
    <2>1. CASE x = n
      BY ONLY <2>1, <1>2, key \in Keys
    <2>2. CASE x \in L
      <3>1. PICK k \in Keys : hash[k] = x
        BY ONLY <2>2, <1>1
      <3>2. k # key
        BY <3>1, <2>2, <1>1, NotNull
      <3> QED
        BY ONLY <3>1, <3>2, <1>2
    <2> QED
      BY ONLY <2>1, <2>2, <1>6
  <1>7. Hashed(L \cup {n}, d, h)
    <2>1. L \cup {n} \in SUBSET NodeIds
      BY <1>1
    <2> QED
      BY ONLY <2>1, <1>2, <1>3, <1>4, <1>5, <1>6 DEF Hashed
  <1> QED
    BY ONLY <1>7 DEF h, d

LEMMA HashedTake ==
    ASSUME NEW L, NEW id, NEW hash, Hashed(L, id, hash), NEW key \in Keys, NEW n \in NodeIds,
           hash[key] = n
    PROVE  Hashed(L \ {n}, [id EXCEPT ![n] = -1], [hash EXCEPT ![key] = 0])
  <1> DEFINE h == [hash EXCEPT ![key] = 0]
             d == [id EXCEPT ![n] = -1]
  <1>1. /\ L \in SUBSET NodeIds /\ id \in [NodeIds -> Int] /\ hash \in [Keys -> Ptrs]
        /\ \A k \in Keys : hash[k] # 0 => /\ hash[k] \in L
                                          /\ id[hash[k]] \in {-1} \cup {u \in Uids : u % Total = k}
        /\ \A j, k \in Keys : hash[j] = hash[k] /\ hash[k] # 0 => j = k
        /\ \A x \in L : \E k \in Keys : hash[k] = x
    BY DEF Hashed
  <1>2. /\ h \in [Keys -> Ptrs] /\ h[key] = 0 /\ \A k \in Keys : k # key => h[k] = hash[k]
    BY <1>1, NotNull
  <1>3. /\ d \in [NodeIds -> Int] /\ \A x \in NodeIds : x # n => d[x] = id[x]
    BY <1>1
  <1>0. n # 0
    BY NotNull
  <1> HIDE DEF h, d
  <1>4. ASSUME NEW k \in Keys, h[k] # 0
        PROVE  h[k] \in L \ {n} /\ d[h[k]] \in {-1} \cup {u \in Uids : u % Total = k}
    <2>1. k # key /\ h[k] = hash[k]
      BY ONLY <1>2, <1>4
    <2>2. hash[k] \in L /\ hash[k] # n /\ hash[k] \in NodeIds
      BY <2>1, <1>0, <1>1, <1>4
    <2>3. d[h[k]] = id[hash[k]]
      BY ONLY <2>1, <2>2, <1>3
    <2> QED
      BY ONLY <2>1, <2>2, <2>3, <1>1, <1>4
  <1>5. ASSUME NEW j \in Keys, NEW k \in Keys, h[j] = h[k], h[k] # 0
        PROVE  j = k
    BY ONLY <1>1, <1>2, <1>5
  <1>6. ASSUME NEW x \in L \ {n}
        PROVE  \E k \in Keys : h[k] = x
    <2>1. PICK k \in Keys : hash[k] = x
      BY ONLY <1>6, <1>1
    <2>2. k # key
      BY <2>1
    <2> QED
      BY ONLY <2>1, <2>2, <1>2
  <1>7. Hashed(L \ {n}, d, h)
    <2>1. L \ {n} \in SUBSET NodeIds
      BY <1>1
    <2> QED
      BY ONLY <2>1, <1>2, <1>3, <1>4, <1>5, <1>6 DEF Hashed
  <1> QED
    BY ONLY <1>7 DEF h, d

LEMMA HashedSet ==
    ASSUME NEW L, NEW id, NEW hash, Hashed(L, id, hash), NEW key \in Keys, NEW n \in NodeIds,
           hash[key] = n, NEW u \in {-1} \cup {v \in Uids : v % Total = key}
    PROVE  Hashed(L, [id EXCEPT ![n] = u], hash)
  <1> DEFINE d == [id EXCEPT ![n] = u]
  <1>1. /\ L \in SUBSET NodeIds /\ id \in [NodeIds -> Int] /\ hash \in [Keys -> Ptrs]
        /\ \A k \in Keys : hash[k] # 0 => /\ hash[k] \in L
                                          /\ id[hash[k]] \in {-1} \cup {v \in Uids : v % Total = k}
        /\ \A j, k \in Keys : hash[j] = hash[k] /\ hash[k] # 0 => j = k
        /\ \A x \in L : \E k \in Keys : hash[k] = x
    BY DEF Hashed
  <1>0. u \in Int
    BY IdCacheAssumption
  <1>3. /\ d \in [NodeIds -> Int] /\ d[n] = u /\ \A x \in NodeIds : x # n => d[x] = id[x]
    BY <1>0, <1>1
  <1> HIDE DEF d
  <1>4. ASSUME NEW k \in Keys, hash[k] # 0
        PROVE  hash[k] \in L /\ d[hash[k]] \in {-1} \cup {v \in Uids : v % Total = k}
    <2>1. CASE hash[k] = n
      <3>1. k = key
        BY <2>1, <1>1, <1>4
      <3> QED
        BY <2>1, <3>1, <1>1, <1>3, <1>4
    <2>2. CASE hash[k] # n
      <3>1. hash[k] \in L /\ hash[k] \in NodeIds
        BY ONLY <1>1, <1>4
      <3>2. d[hash[k]] = id[hash[k]]
        BY ONLY <3>1, <2>2, <1>3
      <3> QED
        BY ONLY <3>1, <3>2, <1>1, <1>4
    <2> QED
      BY ONLY <2>1, <2>2
  <1> QED
    BY ONLY <1>1, <1>3, <1>4 DEF Hashed, d

\* A node for each of the keys but one: there is room for another.
LEMMA KeysBound ==
    ASSUME NEW L, NEW id, NEW hash, Hashed(L, id, hash), NEW key \in Keys, hash[key] = 0,
           NEW m \in Seq(NodeIds), \A i, j \in 1..Len(m) : m[i] = m[j] => i = j, Members(m) = L
    PROVE  Len(m) <= Total - 1
  <1> DEFINE n == Len(m)
             R == Keys \ {key}
             f == [i \in 1..n |-> CHOOSE k \in R : hash[k] = m[i]]
  <1>0. n \in Nat /\ Total \in Nat \ {0}
    BY IdCacheAssumption
  <1>1. \A i \in 1..n : \E k \in R : hash[k] = m[i]
    <2> SUFFICES ASSUME NEW i \in 1..n PROVE \E k \in R : hash[k] = m[i]
      OBVIOUS
    <2>1. m[i] \in L /\ m[i] # 0
      BY NotNull DEF Members
    <2>2. PICK k \in Keys : hash[k] = m[i]
      BY <2>1 DEF Hashed
    <2> QED
      BY <2>1, <2>2
  <1>2. \A i \in 1..n : f[i] \in R /\ hash[f[i]] = m[i]
    BY <1>1
  <1>3. f \in Injection(1..n, R)
    <2>1. f \in [1..n -> R]
      BY <1>2
    <2> HIDE DEF f
    <2>2. \A i, j \in 1..n : f[i] = f[j] => i = j
      BY <1>2
    <2> QED
      BY ONLY <2>1, <2>2 DEF Injection, IsInjective
  <1> HIDE DEF f, R, n
  <1>4. IsFiniteSet(Keys) /\ Cardinality(Keys) = Total
    <2> DEFINE t == Total - 1
    <2>1. 0 \in Int /\ t \in Int /\ t \in Nat /\ t + 1 = Total
      BY <1>0
    <2> HIDE DEF t
    <2>2. IsFiniteSet(0..t) /\ Cardinality(0..t) = IF 0 > t THEN 0 ELSE t - 0 + 1
      BY ONLY <2>1, FS_Interval
    <2>3. Cardinality(0..t) = Total
      BY ONLY <2>1, <2>2
    <2> QED
      BY ONLY <2>2, <2>3 DEF t, Keys
  <1>5. IsFiniteSet(R) /\ Cardinality(R) = Total - 1
    BY <1>4, FS_RemoveElement DEF R
  <1>6. Cardinality(1..n) <= Cardinality(R)
    <2>1. Injection(1..n, R) # {}
      BY ONLY <1>3
    <2> QED
      BY ONLY <2>1, <1>5, FS_Injection
  <1>7. Cardinality(1..n) = n
    <2>1. 1 \in Int /\ n \in Int
      BY ONLY <1>0
    <2>2. Cardinality(1..n) = IF 1 > n THEN 0 ELSE n - 1 + 1
      BY ONLY <2>1, FS_Interval
    <2> QED
      BY ONLY <2>2, <1>0
  <1> QED
    BY ONLY <1>5, <1>6, <1>7 DEF n

\* A list counts its members.
LEMMA MembersCount ==
    ASSUME NEW m \in Seq(NodeIds), \A i, j \in 1..Len(m) : m[i] = m[j] => i = j
    PROVE  IsFiniteSet(Members(m)) /\ Cardinality(Members(m)) = Len(m)
  <1> DEFINE n == Len(m)
             M == Members(m)
  <1>0. n \in Nat
    OBVIOUS
  <1>1. m \in Bijection(1..n, M)
    <2>1. m \in [1..n -> M] /\ \A x \in M : \E i \in 1..n : m[i] = x
      BY DEF Members
    <2>2. \A i, j \in 1..n : m[i] = m[j] => i = j
      OBVIOUS
    <2> HIDE DEF n, M
    <2> QED
      BY ONLY <2>1, <2>2 DEF Bijection, Injection, Surjection, IsInjective
  <1> HIDE DEF n, M
  <1>2. IsFiniteSet(1..n) /\ Cardinality(1..n) = n
    <2>1. 1 \in Int /\ n \in Int
      BY ONLY <1>0
    <2>2. IsFiniteSet(1..n) /\ Cardinality(1..n) = IF 1 > n THEN 0 ELSE n - 1 + 1
      BY ONLY <2>1, FS_Interval
    <2> QED
      BY ONLY <2>2, <1>0
  <1>3. ExistsBijection(1..n, M)
    BY ONLY <1>1 DEF ExistsBijection
  <1>4. IsFiniteSet(M) /\ Cardinality(M) = Cardinality(1..n)
    BY ONLY <1>2, <1>3, FS_Bijection
  <1> QED
    BY ONLY <1>2, <1>4 DEF n, M
-----------------------------------------------------------------------------
(* A node that is not in the list is made, or freed.                       *)

LEMMA BlankKeeps ==
    ASSUME NEW q, NEW m, Queue(q, m), NEW n \in NodeIds, n \notin Members(m), NEW v \in BOOLEAN
    PROVE  /\ Queue(Blank(q, n, v), m)
           /\ Blank(q, n, v).id = [q.id EXCEPT ![n] = -1] /\ Blank(q, n, v).str = [q.str EXCEPT ![n] = <<>>]
           /\ Blank(q, n, v).live = [q.live EXCEPT ![n] = v] /\ Blank(q, n, v).hash = q.hash
           /\ Blank(q, n, v).count = q.count
  <1> DEFINE id == [q.id EXCEPT ![n] = -1]
             str == [q.str EXCEPT ![n] = <<>>]
             prev == [q.prev EXCEPT ![n] = 0]
             next == [q.next EXCEPT ![n] = 0]
             live == [q.live EXCEPT ![n] = v]
             b == [q EXCEPT !.id = id, !.str = str, !.prev = prev, !.next = next, !.live = live]
  <1>1. q \in Queues /\ q.aborted = FALSE /\ Links(List(q), m) /\ q.count \in 0..Total
    BY DEF Queue
  <1>2. Blank(q, n, v) = b
    BY <1>1 DEF Queues, Blank, NULLP
  <1>3. id \in [NodeIds -> Int] /\ live \in [NodeIds -> BOOLEAN]
    BY <1>1 DEF Queues
  <1>4. str \in [NodeIds -> Seq(Nat)]
    BY <1>1, EmptySeq DEF Queues
  <1>5. /\ prev \in [NodeIds -> Ptrs] /\ next \in [NodeIds -> Ptrs]
        /\ \A x \in NodeIds : x # n => prev[x] = q.prev[x] /\ next[x] = q.next[x]
    BY <1>1, NotNull DEF Queues
  <1> HIDE DEF id, str, prev, next, live
  <1>6. /\ b \in Queues /\ b.id = id /\ b.str = str /\ b.prev = prev /\ b.next = next /\ b.live = live
        /\ b.front = q.front /\ b.end = q.end /\ b.count = q.count /\ b.hash = q.hash /\ b.aborted = q.aborted
    BY ONLY <1>1, <1>3, <1>4, <1>5 DEF Queues
  <1> HIDE DEF b
  <1>7. Links(List(b), m)
    <2>1. List(b) \in Pointers /\ List(b).head = List(q).head
      BY ONLY <1>1, <1>5, <1>6 DEF List, Pointers, Queues
    <2>2. \A x \in Members(m) : x \in NodeIds /\ x # n
      BY <1>1 DEF Links, Members
    <2>3. \A x \in Members(m) : List(b).next[x] = List(q).next[x] /\ List(b).prev[x] = List(q).prev[x]
      BY ONLY <2>2, <1>5, <1>6 DEF List
    <2> QED
      BY ONLY <1>1, <2>1, <2>3, LinksFrame
  <1>8. Queue(b, m)
    BY ONLY <1>1, <1>6, <1>7, Queue(q, m) DEF Queue
  <1> QED
    BY ONLY <1>2, <1>6, <1>8 DEF id, str, live

LEMMA FreedKeeps ==
    ASSUME NEW q, NEW m, Queue(q, m), NEW n \in NodeIds, n \notin Members(m), q.count # 0
    PROVE  /\ Queue(Freed(q, n), m)
           /\ Freed(q, n).id = [q.id EXCEPT ![n] = -1] /\ Freed(q, n).str = [q.str EXCEPT ![n] = <<>>]
           /\ Freed(q, n).live = [q.live EXCEPT ![n] = FALSE] /\ Freed(q, n).hash = q.hash
           /\ Freed(q, n).count = q.count - 1
  <1> DEFINE no == FALSE
             b == Blank(q, n, no)
             c == b.count - 1
             f == [b EXCEPT !.count = c]
  <1>1. no \in BOOLEAN
    OBVIOUS
  <1> HIDE DEF no
  <1>2. /\ Queue(b, m) /\ b.id = [q.id EXCEPT ![n] = -1] /\ b.str = [q.str EXCEPT ![n] = <<>>]
        /\ b.live = [q.live EXCEPT ![n] = no] /\ b.hash = q.hash /\ b.count = q.count
    BY ONLY <1>1, BlankKeeps, Queue(q, m), n \in NodeIds, n \notin Members(m)
  <1>3. f = Freed(q, n)
    BY DEF Freed, no
  <1> HIDE DEF b
  <1>4. b \in Queues /\ b.aborted = FALSE /\ Links(List(b), m) /\ b.count \in 0..Total
    BY ONLY <1>2 DEF Queue
  <1>5. c \in 0..Total /\ c \in Int /\ c = q.count - 1
    BY ONLY <1>2, <1>4, q.count # 0, IdCacheAssumption
  <1> HIDE DEF c
  <1>6. /\ f \in Queues /\ f.id = b.id /\ f.str = b.str /\ f.prev = b.prev /\ f.next = b.next /\ f.live = b.live
        /\ f.front = b.front /\ f.end = b.end /\ f.count = c /\ f.hash = b.hash /\ f.aborted = b.aborted
    BY ONLY <1>4, <1>5 DEF Queues
  <1> HIDE DEF f
  <1>7. List(f) = List(b)
    BY ONLY <1>6 DEF List
  <1>8. Queue(f, m)
    BY ONLY <1>2, <1>4, <1>5, <1>6, <1>7 DEF Queue
  <1> QED
    BY ONLY <1>2, <1>3, <1>5, <1>6, <1>8 DEF no

-----------------------------------------------------------------------------
(* The cache: its list, its table and its names.                           *)

Live(live) == {n \in NodeIds : live[n]}

\* A node that has an id has a name of that id.
Named(L, id, str) ==
    /\ str \in [NodeIds -> Seq(Nat)]
    /\ \A n \in L : id[n] # -1 => str[n][1] = id[n]

Cache(q, m) ==
    /\ Queue(q, m) /\ q.count = Len(m) /\ Members(m) = Live(q.live)
    /\ Hashed(Live(q.live), q.id, q.hash) /\ Named(Live(q.live), q.id, q.str)

IsCache(q) == \E m : Cache(q, m)

LEMMA CacheFacts ==
    ASSUME NEW q, NEW m, Cache(q, m)
    PROVE  /\ Queue(q, m) /\ q \in Queues /\ q.aborted = FALSE /\ Links(List(q), m)
           /\ m \in Seq(NodeIds) /\ Len(m) \in Nat /\ q.count = Len(m) /\ q.count \in 0..Total
           /\ Members(m) = Live(q.live)
           /\ Hashed(Live(q.live), q.id, q.hash) /\ Named(Live(q.live), q.id, q.str)
           /\ \A i, j \in 1..Len(m) : m[i] = m[j] => i = j
           /\ q.front = IF Len(m) = 0 THEN 0 ELSE m[1]
           /\ Len(m) # 0 => q.end = m[Len(m)]
           /\ \A i \in 1..Len(m) : q.next[m[i]] = IF i = Len(m) THEN 0 ELSE m[i + 1]
  <1>1. /\ Queue(q, m) /\ q.count = Len(m) /\ Members(m) = Live(q.live)
        /\ Hashed(Live(q.live), q.id, q.hash) /\ Named(Live(q.live), q.id, q.str)
    BY DEF Cache
  <1>2. /\ q \in Queues /\ q.aborted = FALSE /\ Links(List(q), m) /\ q.count \in 0..Total
        /\ Len(m) # 0 => q.end = m[Len(m)]
    BY ONLY <1>1 DEF Queue
  <1>3. /\ m \in Seq(NodeIds)
        /\ \A i, j \in 1..Len(m) : m[i] = m[j] => i = j
        /\ List(q).head = IF Len(m) = 0 THEN 0 ELSE m[1]
        /\ \A i \in 1..Len(m) : List(q).next[m[i]] = IF i = Len(m) THEN 0 ELSE m[i + 1]
    BY ONLY <1>2 DEF Links
  <1>4. List(q).head = q.front /\ List(q).next = q.next
    BY DEF List
  <1>5. Len(m) \in Nat
    BY ONLY <1>3
  <1> QED
    BY ONLY <1>1, <1>2, <1>3, <1>4, <1>5

LEMMA LivePut ==
    ASSUME NEW live \in [NodeIds -> BOOLEAN], NEW n \in NodeIds
    PROVE  /\ Live([live EXCEPT ![n] = TRUE]) = Live(live) \cup {n}
           /\ Live([live EXCEPT ![n] = FALSE]) = Live(live) \ {n}
  BY DEF Live

LEMMA NamedBlank ==
    ASSUME NEW L \in SUBSET NodeIds, NEW id \in [NodeIds -> Int], NEW str, Named(L, id, str), NEW n \in NodeIds,
           NEW M \in SUBSET (L \cup {n})
    PROVE  Named(M, [id EXCEPT ![n] = -1], [str EXCEPT ![n] = <<>>])
  <1>1. str \in [NodeIds -> Seq(Nat)] /\ \A x \in L : id[x] # -1 => str[x][1] = id[x]
    BY DEF Named
  <1> DEFINE d == [id EXCEPT ![n] = -1]
             s == [str EXCEPT ![n] = <<>>]
  <1>2. s \in [NodeIds -> Seq(Nat)]
    BY <1>1, EmptySeq
  <1>3. d[n] = -1 /\ \A x \in NodeIds : x # n => d[x] = id[x] /\ s[x] = str[x]
    BY <1>1
  <1> HIDE DEF d, s
  <1>4. \A x \in M : d[x] # -1 => s[x][1] = d[x]
    BY <1>1, <1>3
  <1>5. Named(M, d, s)
    BY ONLY <1>2, <1>4 DEF Named
  <1> QED
    BY ONLY <1>5 DEF d, s
LEMMA UnlinkKeeps ==
    ASSUME NEW q, NEW m, Queue(q, m), NEW n \in NodeIds, n \notin Members(m)
    PROVE  /\ Queue([q EXCEPT !.next[n] = NULLP, !.prev[n] = NULLP], m)
           /\ SameNodes(q, [q EXCEPT !.next[n] = NULLP, !.prev[n] = NULLP])
  <1> DEFINE prev == [q.prev EXCEPT ![n] = 0]
             next == [q.next EXCEPT ![n] = 0]
             b == [q EXCEPT !.next = next, !.prev = prev]
  <1>1. q \in Queues /\ q.aborted = FALSE /\ Links(List(q), m) /\ q.count \in 0..Total
    BY DEF Queue
  <1>2. [q EXCEPT !.next[n] = NULLP, !.prev[n] = NULLP] = b
    BY <1>1 DEF Queues, NULLP
  <1>3. /\ prev \in [NodeIds -> Ptrs] /\ next \in [NodeIds -> Ptrs]
        /\ \A x \in NodeIds : x # n => prev[x] = q.prev[x] /\ next[x] = q.next[x]
    BY <1>1, NotNull DEF Queues
  <1> HIDE DEF prev, next
  <1>4. /\ b \in Queues /\ b.id = q.id /\ b.str = q.str /\ b.prev = prev /\ b.next = next /\ b.live = q.live
        /\ b.front = q.front /\ b.end = q.end /\ b.count = q.count /\ b.hash = q.hash /\ b.aborted = q.aborted
    BY ONLY <1>1, <1>3 DEF Queues
  <1> HIDE DEF b
  <1>5. Links(List(b), m)
    <2>1. List(b) \in Pointers /\ List(b).head = List(q).head
      BY ONLY <1>1, <1>3, <1>4 DEF List, Pointers, Queues
    <2>2. \A x \in Members(m) : x \in NodeIds /\ x # n
      BY <1>1 DEF Links, Members
    <2>3. \A x \in Members(m) : List(b).next[x] = List(q).next[x] /\ List(b).prev[x] = List(q).prev[x]
      BY ONLY <2>2, <1>3, <1>4 DEF List
    <2> QED
      BY ONLY <1>1, <2>1, <2>3, LinksFrame
  <1>6. Queue(b, m)
    BY ONLY <1>1, <1>4, <1>5, Queue(q, m) DEF Queue
  <1>7. SameNodes(q, b)
    BY ONLY <1>4 DEF SameNodes
  <1> QED
    BY ONLY <1>2, <1>6, <1>7

Table(q, h, c) == [q EXCEPT !.hash = h, !.count = c]

LEMMA TableKeeps ==
    ASSUME NEW q, NEW m, Queue(q, m), NEW h \in [Keys -> Ptrs], NEW c \in 0..Total
    PROVE  /\ Queue(Table(q, h, c), m)
           /\ Table(q, h, c).id = q.id /\ Table(q, h, c).str = q.str /\ Table(q, h, c).live = q.live
           /\ Table(q, h, c).hash = h /\ Table(q, h, c).count = c
           /\ Table(q, h, c).front = q.front /\ Table(q, h, c).end = q.end
  <1> DEFINE b == [q EXCEPT !.hash = h, !.count = c]
  <1>1. q \in Queues /\ q.aborted = FALSE /\ Links(List(q), m)
    BY DEF Queue
  <1>2. c \in Int
    BY IdCacheAssumption
  <1>3. /\ b \in Queues /\ b.id = q.id /\ b.str = q.str /\ b.prev = q.prev /\ b.next = q.next /\ b.live = q.live
        /\ b.front = q.front /\ b.end = q.end /\ b.count = c /\ b.hash = h /\ b.aborted = q.aborted
    BY ONLY <1>1, <1>2, h \in [Keys -> Ptrs] DEF Queues
  <1> HIDE DEF b
  <1>4. List(b) = List(q)
    BY ONLY <1>3 DEF List
  <1>5. Queue(b, m)
    BY ONLY <1>1, <1>3, <1>4, Queue(q, m), c \in 0..Total DEF Queue
  <1> QED
    BY ONLY <1>3, <1>5 DEF b, Table

\* While a key has no node there is one that nobody uses, and the queue is
\* not full.
LEMMA SomeFree ==
    ASSUME NEW q, NEW m, Cache(q, m), NEW key \in Keys, q.hash[key] = 0
    PROVE  q.count < Total /\ \E n \in NodeIds : ~q.live[n]
  <1> DEFINE L == Live(q.live)
  <1>1. /\ Hashed(L, q.id, q.hash) /\ m \in Seq(NodeIds) /\ Members(m) = L /\ q.count = Len(m)
        /\ \A i, j \in 1..Len(m) : m[i] = m[j] => i = j
    BY ONLY CacheFacts, Cache(q, m)
  <1>2. Len(m) <= Total - 1
    BY ONLY <1>1, KeysBound, key \in Keys, q.hash[key] = 0
  <1>3. Cardinality(L) = Len(m)
    BY ONLY <1>1, MembersCount
  <1>0. Len(m) \in Nat /\ Total \in Nat
    BY ONLY <1>1, IdCacheAssumption
  <1>4. Cardinality(NodeIds) = Total + 2
    <2> DEFINE t == Total + 2
    <2>1. 1 \in Int /\ t \in Int /\ t > 1
      BY ONLY <1>0
    <2> HIDE DEF t
    <2>2. Cardinality(1..t) = IF 1 > t THEN 0 ELSE t - 1 + 1
      BY ONLY <2>1, FS_Interval
    <2>3. Cardinality(1..t) = t
      BY ONLY <2>1, <2>2
    <2> QED
      BY ONLY <2>3 DEF t, NodeIds
  <1>5. L # NodeIds
    BY ONLY <1>0, <1>2, <1>3, <1>4
  <1>6. \E n \in NodeIds : ~q.live[n]
    BY ONLY <1>5 DEF L, Live
  <1>7. q.count < Total
    BY ONLY <1>0, <1>1, <1>2
  <1> QED
    BY ONLY <1>6, <1>7

\* The node of the key is the first of the list.
AtFront(q, key) == q.front \in NodeIds /\ q.hash[key] = q.front

LEMMA EnqueueKeeps ==
    ASSUME NEW q, NEW m, Cache(q, m), NEW key \in Keys, q.hash[key] = 0
    PROVE  /\ IsCache(enqueue(q, key))
           /\ AtFront(enqueue(q, key), key)
  <1> DEFINE n == CHOOSE x \in NodeIds : ~q.live[x]
             yes == TRUE
             b == Blank(q, n, yes)
             i == insert_beginning(b, n)
             t == Pushed(n, m)
             h == [i.hash EXCEPT ![key] = n]
             c == i.count + 1
             r == Table(i, h, c)
             L == Live(q.live)
  <1>1. /\ Queue(q, m) /\ q.count = Len(m) /\ Members(m) = L /\ Hashed(L, q.id, q.hash)
        /\ Named(L, q.id, q.str) /\ q \in Queues /\ m \in Seq(NodeIds) /\ Len(m) \in Nat
    BY ONLY CacheFacts, Cache(q, m)
  <1>2. q.count < Total /\ n \in NodeIds /\ ~q.live[n]
    BY SomeFree
  <1>3. n \notin Members(m) /\ n \notin L
    BY ONLY <1>1, <1>2 DEF Live
  <1>4. q.count # Total /\ q.count + 1 \in 0..Total
    BY ONLY <1>1, <1>2, IdCacheAssumption
  <1>5. yes \in BOOLEAN
    OBVIOUS
  <1>6. enqueue(q, key) = [i EXCEPT !.hash[key] = n, !.count = @ + 1]
    BY <1>4 DEF enqueue, new_QNode
  <1> HIDE DEF n, yes
  <1>7. /\ Queue(b, m) /\ b.id = [q.id EXCEPT ![n] = -1] /\ b.str = [q.str EXCEPT ![n] = <<>>]
        /\ b.live = [q.live EXCEPT ![n] = yes] /\ b.hash = q.hash /\ b.count = q.count
    BY ONLY <1>1, <1>2, <1>3, <1>5, BlankKeeps
  <1> HIDE DEF b
  <1>8. Len(m) <= b.count
    <2>1. b.count = Len(m) /\ Len(m) \in Nat
      BY ONLY <1>1, <1>7
    <2> QED
      BY ONLY <2>1
  <1> HIDE DEF i
  <1>9. i = insert_beginning(b, n)
    BY DEF i
  <1>10. Queue(i, t) /\ Members(t) = Members(m) \cup {n} /\ SameNodes(b, i)
    BY ONLY <1>2, <1>3, <1>7, <1>8, <1>9, InsertKeeps
  <1>11. /\ i.id = b.id /\ i.str = b.str /\ i.live = b.live /\ i.count = b.count /\ i.hash = b.hash
    BY ONLY <1>10 DEF SameNodes
  <1>12. i \in Queues /\ i.front = n /\ Len(t) = Len(m) + 1
    <2>1. Len(t) = Len(m) + 1 /\ t[1] = n
      BY ONLY <1>1, <1>2, PushedLast
    <2>2. i \in Queues /\ i.front = IF Len(t) = 0 THEN 0 ELSE t[1]
      BY ONLY <1>10 DEF Queue, Links, List
    <2> QED
      BY ONLY <1>1, <2>1, <2>2
  <1>13. enqueue(q, key) = r
    BY ONLY <1>6, <1>12 DEF Queues, r, h, c, Table
  <1>14. h = [q.hash EXCEPT ![key] = n] /\ h \in [Keys -> Ptrs] /\ h[key] = n
    BY <1>1, <1>2, <1>7, <1>11, NotNull DEF Queues
  <1>15. c = Len(m) + 1 /\ c \in 0..Total
    BY ONLY <1>1, <1>4, <1>7, <1>11
  <1> HIDE DEF h, c
  <1>16. /\ Queue(r, t) /\ r.id = i.id /\ r.str = i.str /\ r.live = i.live /\ r.hash = h /\ r.count = c
         /\ r.front = i.front
    <2>1. Queue(i, t) /\ h \in [Keys -> Ptrs] /\ c \in 0..Total
      BY ONLY <1>10, <1>14, <1>15
    <2> HIDE DEF t
    <2> QED
      BY ONLY <2>1, TableKeeps
  <1> HIDE DEF r, t
  <1>17. Live(r.live) = L \cup {n}
    <2>1. q.live \in [NodeIds -> BOOLEAN]
      BY ONLY <1>1 DEF Queues
    <2>2. Live([q.live EXCEPT ![n] = TRUE]) = Live(q.live) \cup {n}
      BY ONLY <2>1, <1>2, LivePut
    <2> QED
      BY ONLY <2>2, <1>7, <1>11, <1>16 DEF yes, L
  <1> HIDE DEF L
  <1>18. Hashed(L \cup {n}, r.id, r.hash)
    <2>1. Hashed(L \cup {n}, [q.id EXCEPT ![n] = -1], [q.hash EXCEPT ![key] = n])
      BY ONLY <1>1, <1>2, <1>3, HashedPut, key \in Keys, q.hash[key] = 0
    <2> QED
      BY ONLY <2>1, <1>7, <1>11, <1>14, <1>16
  <1>19. Named(L \cup {n}, r.id, r.str)
    <2>1. L \in SUBSET NodeIds /\ q.id \in [NodeIds -> Int] /\ L \cup {n} \in SUBSET (L \cup {n})
      BY ONLY <1>1 DEF Hashed
    <2>2. Named(L \cup {n}, [q.id EXCEPT ![n] = -1], [q.str EXCEPT ![n] = <<>>])
      BY ONLY <2>1, <1>1, <1>2, NamedBlank
    <2> QED
      BY ONLY <2>2, <1>7, <1>11, <1>16
  <1>20. Cache(r, t)
    BY ONLY <1>1, <1>10, <1>12, <1>15, <1>16, <1>17, <1>18, <1>19 DEF Cache
  <1>21. AtFront(r, key)
    BY ONLY <1>2, <1>12, <1>14, <1>16 DEF AtFront
  <1> QED
    BY ONLY <1>13, <1>20, <1>21 DEF IsCache

\* What the list looks like from the table: the node of a key is in it.
LEMMA HashPlace ==
    ASSUME NEW q, NEW m, Cache(q, m), NEW key \in Keys, q.hash[key] # 0
    PROVE  q.hash[key] \in NodeIds /\ \E p \in 1..Len(m) : m[p] = q.hash[key]
  <1>1. q.hash[key] \in Live(q.live) /\ Members(m) = Live(q.live)
    BY DEF Cache, Hashed
  <1> QED
    BY <1>1 DEF Members, Live

\* A hit moves the node of the key to the front.
LEMMA TouchKeeps ==
    ASSUME NEW q, NEW m, Cache(q, m), NEW key \in Keys, q.hash[key] # 0, q.hash[key] # q.front
    PROVE  /\ IsCache(check_lru_cache(q, key))
           /\ AtFront(check_lru_cache(q, key), key)
  <1> DEFINE n == q.hash[key]
             r == remove_node(q, n)
             u == [r EXCEPT !.next[n] = NULLP, !.prev[n] = NULLP]
             i == insert_beginning(u, n)
  <1>1. /\ Queue(q, m) /\ q.count = Len(m) /\ Members(m) = Live(q.live)
        /\ Hashed(Live(q.live), q.id, q.hash) /\ Named(Live(q.live), q.id, q.str)
        /\ m \in Seq(NodeIds) /\ Len(m) \in Nat
    BY ONLY CacheFacts, Cache(q, m)
  <1>2. n \in NodeIds /\ \E x \in 1..Len(m) : m[x] = n
    BY HashPlace
  <1>3. PICK p \in 1..Len(m) : m[p] = n
    BY ONLY <1>2
  <1> DEFINE s == Removed(m, p)
             t == Pushed(n, s)
  <1>4. check_lru_cache(q, key) = i
    BY DEF check_lru_cache, NULLP
  <1> HIDE DEF n
  <1>5. Len(m) <= q.count + 1
    BY ONLY <1>1
  <1> HIDE DEF r
  <1>6. r = remove_node(q, m[p])
    BY ONLY <1>3 DEF r
  <1>7. Queue(r, s) /\ Len(s) = Len(m) - 1 /\ Members(s) = Members(m) \ {m[p]} /\ SameNodes(q, r)
    BY ONLY <1>1, <1>3, <1>5, <1>6, RemoveKeeps
  <1> HIDE DEF s
  <1>8. n \notin Members(s) /\ Members(s) \cup {n} = Members(m)
    <2>1. n \in Members(m)
      BY ONLY <1>3 DEF Members
    <2> QED
      BY ONLY <2>1, <1>3, <1>7
  <1>9. Queue(u, s) /\ SameNodes(r, u)
    BY ONLY <1>2, <1>7, <1>8, UnlinkKeeps
  <1> HIDE DEF u
  <1>10. u.count = q.count /\ Len(s) <= u.count
    BY ONLY <1>1, <1>7, <1>9 DEF SameNodes
  <1> HIDE DEF i
  <1>11. i = insert_beginning(u, n)
    BY DEF i
  <1>12. Queue(i, t) /\ Members(t) = Members(s) \cup {n} /\ SameNodes(u, i)
    BY ONLY <1>2, <1>8, <1>9, <1>10, <1>11, InsertKeeps
  <1>13. /\ i.id = q.id /\ i.str = q.str /\ i.live = q.live /\ i.count = q.count /\ i.hash = q.hash
    BY ONLY <1>7, <1>9, <1>12 DEF SameNodes
  <1>14. Len(t) = Len(m) /\ i.front = n
    <2>0. s \in Seq(NodeIds)
      BY ONLY <1>7 DEF Queue, Links
    <2>1. Len(t) = Len(s) + 1 /\ t[1] = n
      BY ONLY <1>2, <2>0, PushedLast
    <2>2. i.front = IF Len(t) = 0 THEN 0 ELSE t[1]
      BY ONLY <1>12 DEF Queue, Links, List
    <2>3. Len(s) + 1 = Len(m) /\ Len(m) # 0
      BY ONLY <1>1, <1>3, <1>7
    <2> QED
      BY ONLY <2>1, <2>2, <2>3
  <1> HIDE DEF t
  <1>15. Cache(i, t)
    BY ONLY <1>1, <1>8, <1>12, <1>13, <1>14 DEF Cache
  <1>16. AtFront(i, key)
    BY ONLY <1>2, <1>13, <1>14 DEF AtFront, n
  <1> QED
    BY ONLY <1>4, <1>15, <1>16 DEF IsCache

\* check_lru_cache leaves the node of the key, old or new, at the front.
LEMMA CheckKeeps ==
    ASSUME NEW q, NEW m, Cache(q, m), NEW key \in Keys
    PROVE  /\ IsCache(check_lru_cache(q, key))
           /\ AtFront(check_lru_cache(q, key), key)
  <1>1. CASE q.hash[key] = 0
    <2>1. check_lru_cache(q, key) = enqueue(q, key)
      BY <1>1 DEF check_lru_cache, NULLP
    <2> QED
      BY ONLY <1>1, <2>1, EnqueueKeeps, Cache(q, m), key \in Keys
  <1>2. CASE q.hash[key] # 0 /\ q.hash[key] # q.front
    BY ONLY <1>2, TouchKeeps, Cache(q, m), key \in Keys
  <1>3. CASE q.hash[key] # 0 /\ q.hash[key] = q.front
    <2>1. check_lru_cache(q, key) = q
      BY <1>3 DEF check_lru_cache, NULLP
    <2>2. q.hash[key] \in NodeIds
      BY ONLY <1>3, HashPlace, Cache(q, m), key \in Keys
    <2> QED
      BY ONLY <1>3, <2>1, <2>2, Cache(q, m) DEF AtFront, IsCache
  <1> QED
    BY ONLY <1>1, <1>2, <1>3

\* lru_evict frees the node at the front and takes it from the table.
LEMMA EvictKeeps ==
    ASSUME NEW q, NEW m, Cache(q, m), NEW key \in Keys, AtFront(q, key)
    PROVE  IsCache(lru_evict(q, key))
  <1> DEFINE n == q.front
             h == [q.hash EXCEPT ![key] = 0]
             c == q.count
             z == Table(q, h, c)
             w == remove_node(z, n)
             f == Freed(w, n)
             t == Removed(m, 1)
             L == Live(q.live)
  <1>1. /\ Queue(q, m) /\ q.count = Len(m) /\ Members(m) = L
        /\ Hashed(L, q.id, q.hash) /\ Named(L, q.id, q.str)
        /\ m \in Seq(NodeIds) /\ Len(m) \in Nat /\ q \in Queues /\ q.count \in 0..Total
        /\ n = IF Len(m) = 0 THEN 0 ELSE m[1]
    BY ONLY CacheFacts, Cache(q, m)
  <1>2. n \in NodeIds /\ q.hash[key] = n /\ n # 0
    BY NotNull DEF AtFront
  <1>3. Len(m) # 0 /\ n = m[1] /\ 1 \in 1..Len(m) /\ q.count # 0 /\ Len(m) <= c + 1
    <2>1. Len(m) # 0 /\ n = m[1]
      BY ONLY <1>1, <1>2
    <2>2. Len(m) \in Nat /\ c = Len(m)
      BY ONLY <1>1
    <2>3. 1 \in 1..Len(m) /\ Len(m) <= c + 1
      BY ONLY <2>1, <2>2
    <2> QED
      BY ONLY <1>1, <2>1, <2>3
  <1>4. q.end # 0
    <2>1. q.end = m[Len(m)] /\ Len(m) \in 1..Len(m)
      BY ONLY <1>1, <1>3 DEF Queue
    <2>2. m[Len(m)] \in NodeIds
      BY ONLY <1>1, <2>1
    <2> QED
      BY ONLY <2>1, <2>2, NotNull
  <1>5. z = [q EXCEPT !.hash[key] = NULLP]
    BY <1>1 DEF Queues, Table, NULLP
  <1>6. lru_evict(q, key) = f
    BY ONLY <1>4, <1>5 DEF lru_evict, NULLP, f, w, n
  <1>7. h \in [Keys -> Ptrs]
    BY <1>1, NotNull DEF Queues
  <1> HIDE DEF h, c, n
  <1>8. /\ Queue(z, m) /\ z.id = q.id /\ z.str = q.str /\ z.live = q.live /\ z.hash = h /\ z.count = c
    <2>1. c \in 0..Total
      BY ONLY <1>1 DEF c
    <2>2. Queue(q, m)
      BY ONLY <1>1
    <2> QED
      BY ONLY <2>2, <1>7, <2>1, TableKeeps
  <1> HIDE DEF z
  <1>9. Len(m) <= z.count + 1
    BY ONLY <1>3, <1>8
  <1> HIDE DEF w
  <1>10. w = remove_node(z, m[1])
    BY ONLY <1>3 DEF w
  <1>11. Queue(w, t) /\ Len(t) = Len(m) - 1 /\ Members(t) = Members(m) \ {m[1]} /\ SameNodes(z, w)
    BY ONLY <1>3, <1>8, <1>9, <1>10, RemoveKeeps
  <1> HIDE DEF t
  <1>12. n \notin Members(t)
    BY ONLY <1>3, <1>11
  <1>13. w.id = q.id /\ w.str = q.str /\ w.live = q.live /\ w.hash = h /\ w.count = q.count /\ w.count # 0
    BY ONLY <1>3, <1>8, <1>11 DEF SameNodes, c
  <1>14. /\ Queue(f, t) /\ f.id = [w.id EXCEPT ![n] = -1] /\ f.str = [w.str EXCEPT ![n] = <<>>]
         /\ f.live = [w.live EXCEPT ![n] = FALSE] /\ f.hash = w.hash /\ f.count = w.count - 1
    <2>1. Queue(w, t) /\ n \in NodeIds /\ n \notin Members(t) /\ w.count # 0
      BY ONLY <1>2, <1>11, <1>12, <1>13
    <2> QED
      BY ONLY <2>1, FreedKeeps
  <1> HIDE DEF f
  <1>15. Live(f.live) = L \ {n}
    <2>1. q.live \in [NodeIds -> BOOLEAN]
      BY ONLY <1>1 DEF Queues
    <2>2. Live([q.live EXCEPT ![n] = FALSE]) = Live(q.live) \ {n}
      BY ONLY <2>1, <1>2, LivePut
    <2> QED
      BY ONLY <2>2, <1>13, <1>14 DEF L
  <1> HIDE DEF L
  <1>16. Hashed(L \ {n}, f.id, f.hash)
    <2>1. Hashed(L \ {n}, [q.id EXCEPT ![n] = -1], [q.hash EXCEPT ![key] = 0])
      BY ONLY <1>1, <1>2, HashedTake, key \in Keys
    <2> QED
      BY ONLY <2>1, <1>13, <1>14 DEF h
  <1>17. Named(L \ {n}, f.id, f.str)
    <2>1. L \in SUBSET NodeIds /\ q.id \in [NodeIds -> Int] /\ L \ {n} \in SUBSET (L \cup {n})
      BY ONLY <1>1 DEF Hashed
    <2>2. Named(L \ {n}, [q.id EXCEPT ![n] = -1], [q.str EXCEPT ![n] = <<>>])
      BY ONLY <2>1, <1>1, <1>2, NamedBlank
    <2> QED
      BY ONLY <2>2, <1>13, <1>14
  <1>18. f.count = Len(t) /\ Members(t) = L \ {n}
    BY ONLY <1>1, <1>3, <1>11, <1>13, <1>14
  <1>19. Cache(f, t)
    BY ONLY <1>14, <1>15, <1>16, <1>17, <1>18 DEF Cache
  <1> QED
    BY ONLY <1>6, <1>19 DEF IsCache

\* The node at the front is given an id and a name.
Entered(q, s, u) == [q EXCEPT !.str[q.front] = s, !.id[q.front] = u]

LEMMA EnteredKeeps ==
    ASSUME NEW q, NEW m, Cache(q, m), NEW key \in Keys, AtFront(q, key), NEW s \in Seq(Nat),
           NEW u \in {-1} \cup {v \in Uids : v % Total = key}, u # -1 => s[1] = u
    PROVE  /\ IsCache(Entered(q, s, u))
           /\ Entered(q, s, u).str[Entered(q, s, u).front] = s
  <1> DEFINE n == q.front
             L == Live(q.live)
             str == [q.str EXCEPT ![n] = s]
             id == [q.id EXCEPT ![n] = u]
             r == [q EXCEPT !.str = str, !.id = id]
  <1>1. /\ Queue(q, m) /\ q.count = Len(m) /\ Members(m) = L
        /\ Hashed(L, q.id, q.hash) /\ Named(L, q.id, q.str)
        /\ q \in Queues /\ Links(List(q), m) /\ q.aborted = FALSE /\ q.count \in 0..Total
        /\ Len(m) # 0 => q.end = m[Len(m)]
    BY DEF Cache, Queue
  <1>2. n \in NodeIds /\ q.hash[key] = n
    BY DEF AtFront
  <1>3. Entered(q, s, u) = r
    BY ONLY <1>1, <1>2 DEF Queues, Entered, r, str, id, n
  <1>4. u \in Int
    BY IdCacheAssumption
  <1>5. /\ str \in [NodeIds -> Seq(Nat)] /\ str[n] = s /\ \A x \in NodeIds : x # n => str[x] = q.str[x]
    BY ONLY <1>1, <1>2, s \in Seq(Nat) DEF Queues, str
  <1>6. /\ id \in [NodeIds -> Int] /\ id[n] = u /\ \A x \in NodeIds : x # n => id[x] = q.id[x]
    BY ONLY <1>1, <1>2, <1>4 DEF Queues, id
  <1>7. Hashed(L, id, q.hash)
    BY ONLY <1>1, <1>2, HashedSet, key \in Keys, u \in {-1} \cup {v \in Uids : v % Total = key} DEF id
  <1> HIDE DEF str, id
  <1>8. /\ r \in Queues /\ r.id = id /\ r.str = str /\ r.prev = q.prev /\ r.next = q.next /\ r.live = q.live
        /\ r.front = q.front /\ r.end = q.end /\ r.count = q.count /\ r.hash = q.hash /\ r.aborted = q.aborted
    BY ONLY <1>1, <1>5, <1>6 DEF Queues
  <1> HIDE DEF r
  <1>9. Named(L, id, str)
    <2>1. L \in SUBSET NodeIds
      BY DEF Live
    <2>2. \A x \in L : x # n => (q.id[x] # -1 => q.str[x][1] = q.id[x])
      BY ONLY <1>1 DEF Named
    <2>3. \A x \in L : id[x] # -1 => str[x][1] = id[x]
      BY ONLY <2>1, <2>2, <1>5, <1>6, u # -1 => s[1] = u
    <2> QED
      BY ONLY <2>3, <1>5 DEF Named
  <1>10. List(r) = List(q)
    BY ONLY <1>8 DEF List
  <1>11. Queue(r, m)
    BY ONLY <1>1, <1>8, <1>10 DEF Queue
  <1>12. Live(r.live) = L
    BY ONLY <1>8 DEF L
  <1> HIDE DEF L
  <1>13. Cache(r, m)
    BY ONLY <1>1, <1>7, <1>8, <1>9, <1>11, <1>12 DEF Cache
  <1>14. r.str[r.front] = s
    BY ONLY <1>5, <1>8 DEF n
  <1> QED
    BY ONLY <1>3, <1>13, <1>14 DEF IsCache

\* A lookup, whether it finds its id, finds another one in its slot, or
\* finds none.
LEMMA LookupKeeps ==
    ASSUME NEW q, IsCache(q), NEW uid \in Uids, passwd \in [Uids -> 0..2]
    PROVE  /\ IsCache(aulookup_uid(q, uid).q)
           /\ aulookup_uid(q, uid).name = <<>> \/ aulookup_uid(q, uid).name[1] = uid
  <1> DEFINE key == compute_subject_key(uid)
             c == check_lru_cache(q, key)
             v == lru_evict(c, key)
             e == check_lru_cache(v, key)
             s == NameOf(uid)
             u == IF passwd[uid] = 0 THEN -1 ELSE uid
             r == Entered(e, s, u)
  <1>0. uid \in Nat /\ uid # 0 /\ Total \in Nat \ {0}
    BY IdCacheAssumption
  <1>1. key \in Keys /\ key = uid % Total
    BY ONLY <1>0 DEF Keys, compute_subject_key
  <1>2. aulookup_uid(q, uid) = IF c.id[c.front] = uid THEN Looked(c, uid) ELSE Looked(r, uid)
    BY DEF aulookup_uid, Entered
  <1>3. passwd[uid] \in Nat
    OBVIOUS
  <1>4. s \in Seq(Nat) /\ (u # -1 => s[1] = u) /\ (s = <<>> \/ s[1] = uid)
    <2>1. CASE passwd[uid] = 0
      BY <2>1, EmptySeq DEF NameOf
    <2>2. CASE passwd[uid] # 0
      BY <2>2, <1>0, <1>3 DEF NameOf
    <2> QED
      BY ONLY <2>1, <2>2
  <1>5. u \in {-1} \cup {x \in Uids : x % Total = key}
    BY ONLY <1>1, uid \in Uids
  <1> HIDE DEF key, s, u
  <1>6. IsCache(c) /\ AtFront(c, key)
    BY ONLY <1>1, IsCache(q), CheckKeeps DEF IsCache
  <1> HIDE DEF c
  <1>7. IsCache(v)
    BY ONLY <1>1, <1>6, EvictKeeps DEF IsCache
  <1> HIDE DEF v
  <1>8. IsCache(e) /\ AtFront(e, key)
    BY ONLY <1>1, <1>7, CheckKeeps DEF IsCache
  <1> HIDE DEF e
  <1>9. IsCache(r) /\ r.str[r.front] = s
    <2>1. PICK m : Cache(e, m)
      BY ONLY <1>8 DEF IsCache
    <2> QED
      BY ONLY <2>1, <1>1, <1>4, <1>5, <1>8, EnteredKeeps
  <1> HIDE DEF r
  <1>10. CASE c.id[c.front] = uid
    <2>1. PICK m : Cache(c, m)
      BY ONLY <1>6 DEF IsCache
    <2>2. c.front \in Live(c.live)
      <3>1. c.hash[key] = c.front /\ c.front # 0
        BY ONLY <1>6, NotNull DEF AtFront
      <3>2. Hashed(Live(c.live), c.id, c.hash)
        BY ONLY <2>1 DEF Cache
      <3> QED
        BY ONLY <1>1, <3>1, <3>2 DEF Hashed
    <2>3. c.str[c.front][1] = uid
      <3>1. Named(Live(c.live), c.id, c.str)
        BY ONLY <2>1 DEF Cache
      <3>2. uid # -1
        BY ONLY <1>0
      <3> QED
        BY ONLY <2>2, <3>1, <3>2, <1>10 DEF Named
    <2>4. aulookup_uid(q, uid).q = c /\ aulookup_uid(q, uid).name = c.str[c.front]
      BY ONLY <1>2, <1>10 DEF Looked
    <2> QED
      BY ONLY <2>3, <2>4, <1>6
  <1>11. CASE c.id[c.front] # uid
    <2>1. aulookup_uid(q, uid).q = r /\ aulookup_uid(q, uid).name = r.str[r.front]
      BY ONLY <1>2, <1>11 DEF Looked
    <2> QED
      BY ONLY <2>1, <1>4, <1>9
  <1> QED
    BY ONLY <1>10, <1>11

-----------------------------------------------------------------------------
(* destroy_queue: as many nodes are dequeued as are counted.               *)

IsQueue(q, k) == \E m : Queue(q, m) /\ q.count = Len(m) /\ q.count = k

LEMMA DequeueKeeps ==
    ASSUME NEW q, NEW k \in Nat, IsQueue(q, k + 1)
    PROVE  IsQueue(dequeue(q), k) /\ q.aborted = FALSE
  <1>1. PICK m : Queue(q, m) /\ q.count = Len(m) /\ q.count = k + 1
    BY DEF IsQueue
  <1>2. m \in Seq(NodeIds) /\ q.aborted = FALSE /\ q.end = m[Len(m)] /\ Len(m) \in 1..Len(m)
    <2>1. m \in Seq(NodeIds) /\ q.aborted = FALSE /\ (Len(m) # 0 => q.end = m[Len(m)])
      BY ONLY <1>1 DEF Queue, Links
    <2>2. Len(m) = k + 1 /\ k \in Nat
      BY ONLY <1>1, k \in Nat
    <2>3. Len(m) # 0 /\ Len(m) \in 1..Len(m)
      BY ONLY <2>2
    <2> QED
      BY ONLY <2>1, <2>3
  <1> DEFINE n == q.end
             p == Len(m)
             w == remove_node(q, n)
             f == Freed(w, n)
             t == Removed(m, p)
  <1>3. n \in NodeIds /\ n # 0
    BY ONLY <1>2, NotNull
  <1>4. dequeue(q) = f
    BY ONLY <1>3 DEF dequeue, NULLP, f, w, n
  <1>5. n = m[p] /\ p \in 1..Len(m) /\ Len(m) <= q.count + 1
    <2>1. Len(m) = k + 1 /\ q.count = k + 1 /\ k \in Nat
      BY ONLY <1>1, k \in Nat
    <2>2. Len(m) <= q.count + 1
      BY ONLY <2>1
    <2> QED
      BY ONLY <2>2, <1>2
  <1> HIDE DEF n, p
  <1> HIDE DEF w
  <1>6. w = remove_node(q, m[p])
    BY ONLY <1>5 DEF w
  <1>7. Queue(w, t) /\ Len(t) = Len(m) - 1 /\ Members(t) = Members(m) \ {m[p]} /\ SameNodes(q, w)
    BY ONLY <1>1, <1>5, <1>6, RemoveKeeps
  <1> HIDE DEF t
  <1>8. Queue(w, t) /\ n \in NodeIds /\ n \notin Members(t) /\ w.count # 0
    BY ONLY <1>1, <1>3, <1>5, <1>7, k \in Nat DEF SameNodes
  <1>9. Queue(f, t) /\ f.count = w.count - 1
    BY ONLY <1>8, FreedKeeps
  <1> HIDE DEF f
  <1>10. f.count = Len(t) /\ f.count = k
    <2>1. w.count = k + 1 /\ Len(m) = k + 1 /\ k \in Nat
      BY ONLY <1>1, <1>7, k \in Nat DEF SameNodes
    <2>2. f.count = k
      BY ONLY <2>1, <1>9
    <2>3. Len(t) = k
      BY ONLY <2>1, <1>7
    <2> QED
      BY ONLY <2>2, <2>3
  <1> QED
    BY ONLY <1>2, <1>4, <1>9, <1>10 DEF IsQueue

Emptied(q, b, f) ==
    f = [i \in 0..b |-> IF i = 0 THEN q ELSE IF f[i - 1].aborted THEN f[i - 1] ELSE dequeue(f[i - 1])]

LEMMA EmptiedExists ==
    ASSUME NEW q, NEW n \in Nat
    PROVE  \E f : Emptied(q, n, f)
  <1> DEFINE D(x) == IF x.aborted THEN x ELSE dequeue(x)
             T == {b \in Nat : \E f : Emptied(q, b, f)}
  <1>1. 0 \in T
    <2> DEFINE g == [i \in 0..0 |-> q]
    <2>1. \A i \in 0..0 : i = 0
      OBVIOUS
    <2>2. Emptied(q, 0, g)
      BY <2>1 DEF Emptied
    <2> QED
      BY ONLY <2>2
  <1>2. ASSUME NEW b \in T PROVE b + 1 \in T
    <2>1. PICK g : Emptied(q, b, g)
      OBVIOUS
    <2>2. b \in Nat /\ b + 1 \in Nat
      OBVIOUS
    <2>0. \A i \in 0..b : g[i] = IF i = 0 THEN q ELSE D(g[i - 1])
      BY ONLY <2>1 DEF Emptied
    <2> HIDE DEF D
    <2> DEFINE h == [i \in 0..(b + 1) |-> IF i = b + 1 THEN D(g[b]) ELSE g[i]]
    <2>3. ASSUME NEW i \in 0..(b + 1)
          PROVE  h[i] = IF i = 0 THEN q ELSE D(h[i - 1])
      <3>1. CASE i = b + 1
        <4>1. i # 0 /\ i - 1 = b /\ b \in 0..(b + 1) /\ b # b + 1
          BY ONLY <3>1, <2>2
        <4>2. h[b] = g[b] /\ h[i] = D(g[b])
          BY ONLY <4>1, <3>1, <2>3
        <4> QED
          BY ONLY <4>1, <4>2
      <3>2. CASE i # b + 1
        <4>1. i \in 0..b /\ (i # 0 => i - 1 \in 0..(b + 1) /\ i - 1 # b + 1)
          BY ONLY <3>2, <2>2, <2>3
        <4>2. h[i] = g[i] /\ (i # 0 => h[i - 1] = g[i - 1])
          BY ONLY <4>1, <3>2, <2>3
        <4>3. g[i] = IF i = 0 THEN q ELSE D(g[i - 1])
          BY ONLY <4>1, <2>0
        <4> QED
          BY ONLY <4>2, <4>3
      <3> QED
        BY ONLY <3>1, <3>2
    <2>4. h = [i \in 0..(b + 1) |-> h[i]]
      OBVIOUS
    <2> HIDE DEF h
    <2>5. h = [i \in 0..(b + 1) |-> IF i = 0 THEN q ELSE D(h[i - 1])]
      BY ONLY <2>3, <2>4
    <2>6. Emptied(q, b + 1, h)
      BY ONLY <2>5 DEF Emptied, D
    <2> QED
      BY ONLY <2>2, <2>6
  <1>3. T = Nat
    <2> HIDE DEF T
    <2>1. T \in SUBSET Nat
      BY DEF T
    <2> QED
      BY ONLY <2>1, <1>1, <1>2, SetInduction
  <1> QED
    BY ONLY <1>3, n \in Nat

LEMMA DestroyEmpties ==
    ASSUME NEW q, IsCache(q)
    PROVE  destroy_queue(q).count = 0 /\ destroy_queue(q).aborted = FALSE
  <1> DEFINE n == q.count
             f == CHOOSE f : Emptied(q, n, f)
  <1>1. n \in Nat /\ IsQueue(q, n)
    BY IdCacheAssumption DEF IsCache, Cache, Queue, IsQueue
  <1>2. Emptied(q, n, f)
    BY ONLY <1>1, EmptiedExists
  <1>3. destroy_queue(q) = f[n]
    BY DEF destroy_queue, Emptied
  <1> HIDE DEF f, n
  <1>4. /\ f[0] = q
        /\ \A i \in Nat : i + 1 \in 0..n => f[i + 1] = IF f[i].aborted THEN f[i] ELSE dequeue(f[i])
    <2>1. 0 \in 0..n /\ \A i \in Nat : i + 1 # 0 /\ (i + 1) - 1 = i
      BY ONLY <1>1
    <2> QED
      BY ONLY <1>2, <2>1 DEF Emptied
  <1> DEFINE T == {i \in Nat : i <= n => IsQueue(f[i], n - i)}
  <1>5. 0 \in T
    BY ONLY <1>1, <1>4
  <1>6. ASSUME NEW i \in T PROVE i + 1 \in T
    <2> SUFFICES ASSUME i + 1 <= n PROVE IsQueue(f[i + 1], n - (i + 1))
      OBVIOUS
    <2> DEFINE k == n - (i + 1)
    <2>1. i \in Nat /\ i <= n /\ k \in Nat /\ n - i = k + 1 /\ i + 1 \in 0..n
      BY ONLY <1>1, <1>6, i + 1 <= n
    <2>2. IsQueue(f[i], k + 1)
      BY ONLY <1>6, <2>1
    <2> HIDE DEF k
    <2>3. IsQueue(dequeue(f[i]), k) /\ f[i].aborted = FALSE
      BY ONLY <2>1, <2>2, DequeueKeeps
    <2>4. f[i + 1] = dequeue(f[i])
      BY ONLY <1>4, <2>1, <2>3
    <2> QED
      BY ONLY <2>3, <2>4 DEF k
  <1>7. T = Nat
    <2> HIDE DEF T
    <2>1. T \in SUBSET Nat
      BY DEF T
    <2> QED
      BY ONLY <2>1, <1>5, <1>6, SetInduction
  <1>8. IsQueue(f[n], 0)
    <2>1. n - n = 0 /\ n <= n
      BY ONLY <1>1
    <2> QED
      BY ONLY <1>1, <1>7, <2>1
  <1> QED
    BY ONLY <1>3, <1>8 DEF IsQueue, Queue

-----------------------------------------------------------------------------
(* The invariant.                                                          *)

LInv ==
    /\ IsCache(lru) /\ passwd \in [Uids -> 0..2] /\ LruName

\* A new cache is empty.
LEMMA NewCache == IsCache(init_lru)
  <1> DEFINE q == init_lru
             m == <<>>
  <1>1. /\ q.live = [n \in NodeIds |-> FALSE] /\ q.id = [n \in NodeIds |-> -1] /\ q.hash = [k \in Keys |-> 0]
        /\ q.str = [n \in NodeIds |-> <<>>] /\ q.count = 0 /\ q.front = 0 /\ q.aborted = FALSE
        /\ q.next = [n \in NodeIds |-> 0] /\ q.prev = [n \in NodeIds |-> 0] /\ q.end = 0
    BY DEF init_lru, NULLP
  <1>2. m \in Seq(NodeIds) /\ Len(m) = 0
    OBVIOUS
  <1>3. Members(m) = {}
    BY <1>2 DEF Members
  <1>4. Live(q.live) = {}
    BY ONLY <1>1 DEF Live
  <1>5. <<>> \in Seq(Nat) /\ -1 \in Int /\ 0 \in Ptrs /\ 0 \in 0..Total /\ 0 \in Int
    BY NotNull, IdCacheAssumption
  <1>6. q \in Queues
    BY <1>5 DEF init_lru, NULLP, Queues
  <1> HIDE DEF q, m
  <1>7. Links(List(q), m)
    <2>1. List(q) \in Pointers /\ List(q).head = 0
      BY ONLY <1>1, <1>5 DEF List, Pointers
    <2> QED
      BY ONLY <1>2, <2>1 DEF Links
  <1>8. Queue(q, m)
    BY ONLY <1>1, <1>2, <1>5, <1>6, <1>7 DEF Queue
  <1>9. Hashed({}, q.id, q.hash)
    BY ONLY <1>1, <1>5 DEF Hashed
  <1>10. Named({}, q.id, q.str)
    BY ONLY <1>1, <1>5 DEF Named
  <1>11. Cache(q, m)
    BY ONLY <1>1, <1>2, <1>3, <1>4, <1>8, <1>9, <1>10 DEF Cache
  <1> QED
    BY ONLY <1>11 DEF IsCache, q

LEMMA LruStarts == LruInit => LInv
  <1> SUFFICES ASSUME NEW names \in [Uids -> {0, 1}], LruStart(names) PROVE LInv
    BY DEF LruInit
  <1>1. IsCache(lru)
    BY NewCache DEF LruStart
  <1>2. passwd \in [Uids -> 0..2]
    BY DEF LruStart
  <1>3. LruName
    BY DEF LruStart, LruName
  <1> QED
    BY <1>1, <1>2, <1>3 DEF LInv

LEMMA LruSteps == LInv /\ [LruNext]_lruVars => LInv'
  <1> SUFFICES ASSUME LInv, [LruNext]_lruVars PROVE LInv'
    OBVIOUS
  <1>0. IsCache(lru) /\ passwd \in [Uids -> 0..2] /\ LruName
    BY DEF LInv
  <1>1. CASE LookupUid
    <2>1. PICK uid \in Uids : /\ lru' = aulookup_uid(lru, uid).q
                              /\ answer' = [answer EXCEPT !.uid = uid, !.name = aulookup_uid(lru, uid).name,
                                                          !.lookups = @ + 1]
      BY <1>1 DEF LookupUid
    <2> DEFINE l == aulookup_uid(lru, uid)
    <2>2. IsCache(l.q) /\ (l.name = <<>> \/ l.name[1] = uid)
      BY ONLY <1>0, LookupKeeps, uid \in Uids
    <2>3. lru' = l.q /\ answer' = [answer EXCEPT !.uid = uid, !.name = l.name, !.lookups = @ + 1]
      BY ONLY <2>1
    <2> HIDE DEF l
    <2>4. IsCache(lru')
      BY ONLY <2>2, <2>3
    <2>5. passwd' \in [Uids -> 0..2]
      BY <1>0, <1>1 DEF LookupUid
    <2>6. LruName'
      BY <2>2, <2>3 DEF LruName
    <2> QED
      BY ONLY <2>4, <2>5, <2>6 DEF LInv, IsCache
  <1>2. CASE DestroyList
    <2>1. lru' = init_lru /\ passwd' = passwd /\ answer' = answer
      BY <1>0, <1>2, DestroyEmpties DEF DestroyList
    <2>2. IsCache(lru')
      BY ONLY <2>1, NewCache
    <2> QED
      BY ONLY <1>0, <2>1, <2>2 DEF LInv, IsCache, LruName
  <1>3. CASE ChangeAccount
    <2>1. lru' = lru /\ passwd' \in [Uids -> 0..2] /\ answer' = [answer EXCEPT !.changes = @ + 1]
      BY <1>0, <1>3 DEF ChangeAccount
    <2>2. LruName'
      BY ONLY <1>0, <2>1 DEF LruName
    <2> QED
      BY ONLY <1>0, <2>1, <2>2 DEF LInv, IsCache
  <1>4. CASE UNCHANGED lruVars
    BY <1>0, <1>4 DEF LInv, IsCache, LruName, lruVars
  <1> QED
    BY <1>1, <1>2, <1>3, <1>4 DEF LruNext

LEMMA CacheList ==
    ASSUME NEW m, Cache(lru, m)
    PROVE  LruList
  <1> DEFINE n == Len(m)
  <1>1. /\ Links(List(lru), m) /\ m \in Seq(NodeIds) /\ n \in Nat /\ lru.aborted = FALSE
        /\ lru.count = n /\ lru.count \in 0..Total /\ Members(m) = LiveNodes
        /\ \A i, j \in 1..n : m[i] = m[j] => i = j
        /\ \A i \in 1..n : lru.next[m[i]] = IF i = n THEN 0 ELSE m[i + 1]
        /\ n # 0 => lru.end = m[n]
    <2>1. Live(lru.live) = LiveNodes
      BY DEF Live, LiveNodes
    <2> QED
      BY ONLY <2>1, CacheFacts, Cache(lru, m)
  <1>2. n <= Total /\ Total \in Nat
    <2>1. n \in 0..Total
      BY ONLY <1>1
    <2> QED
      BY ONLY <2>1, IdCacheAssumption
  <1>3. Reached = Members(m)
    <2>1. Along(List(lru).next, List(lru).head) = Up(m)
      BY ONLY <1>1, AlongNext
    <2>2. Along(lru.next, lru.front) = Up(m)
      BY ONLY <2>1 DEF List
    <2>3. Reached = {Up(m)[i] : i \in 0..(Total + 2)} \ {0}
      BY ONLY <2>2 DEF Reached, NULLP
    <2>4. ASSUME NEW x \in Reached PROVE x \in Members(m)
      <3>1. PICK i \in 0..(Total + 2) : x = Up(m)[i] /\ x # 0
        BY ONLY <2>3, <2>4
      <3>2. i < n /\ x = m[i + 1]
        BY ONLY <3>1 DEF Up, n
      <3>3. i + 1 \in 1..n
        BY ONLY <3>2, <1>1, <1>2
      <3> QED
        BY ONLY <3>2, <3>3 DEF Members, n
    <2>5. ASSUME NEW x \in Members(m) PROVE x \in Reached
      <3>1. PICK i \in 1..n : x = m[i]
        BY ONLY <2>5 DEF Members, n
      <3>2. PICK h \in Nat : i = h + 1
        BY ONLY <1>1, i \in 1..n
      <3>3. h \in 0..(Total + 2) /\ h < n
        BY ONLY <3>2, <1>1, <1>2, i \in 1..n
      <3>4. Up(m)[h] = x
        BY ONLY <3>1, <3>2, <3>3 DEF Up, n
      <3>5. x # 0
        BY ONLY <3>1, <1>1, NotNull
      <3> QED
        BY ONLY <2>3, <3>3, <3>4, <3>5
    <2> QED
      BY ONLY <2>4, <2>5
  <1>4. Cardinality(LiveNodes) = lru.count
    <2>1. Cardinality(Members(m)) = Len(m)
      BY ONLY <1>1, MembersCount
    <2> QED
      BY ONLY <2>1, <1>1
  <1>5. ASSUME NEW x \in LiveNodes PROVE lru.next[x] = 0 <=> lru.end = x
    <2>1. PICK i \in 1..n : x = m[i]
      BY ONLY <1>1, <1>5 DEF Members, n
    <2>2. n # 0 /\ n \in 1..n /\ (i # n => i + 1 \in 1..n)
      BY ONLY <1>1, i \in 1..n
    <2>3. i # n => m[i + 1] # 0
      BY ONLY <2>2, <1>1, NotNull
    <2>4. lru.next[x] = 0 <=> i = n
      BY ONLY <2>1, <2>3, <1>1
    <2>5. lru.end = x <=> i = n
      BY ONLY <2>1, <2>2, <1>1
    <2> QED
      BY ONLY <2>4, <2>5
  <1> QED
    BY <1>1, <1>2, <1>3, <1>4, <1>5 DEF LruList, NULLP

LEMMA CacheHash ==
    ASSUME NEW m, Cache(lru, m)
    PROVE  LruHash
  <1>1. Hashed(LiveNodes, lru.id, lru.hash)
    BY DEF Cache, Live, LiveNodes
  <1>2. \A n \in LiveNodes : lru.live[n] /\ n # 0
    BY NotNull DEF LiveNodes
  <1>3. {lru.hash[k] : k \in Keys} \ {0} = LiveNodes
    <2>1. \A k \in Keys : lru.hash[k] # 0 => lru.hash[k] \in LiveNodes
      BY ONLY <1>1 DEF Hashed
    <2>2. \A n \in LiveNodes : \E k \in Keys : lru.hash[k] = n
      BY ONLY <1>1 DEF Hashed
    <2> QED
      BY ONLY <2>1, <2>2, <1>2
  <1>4. ASSUME NEW k \in Keys, lru.hash[k] # 0
        PROVE  /\ lru.live[lru.hash[k]]
               /\ lru.id[lru.hash[k]] \in {-1} \cup {u \in Uids : u % Total = k}
               /\ \A j \in Keys \ {k} : lru.hash[j] # lru.hash[k]
    <2>1. /\ lru.hash[k] \in LiveNodes
          /\ lru.id[lru.hash[k]] \in {-1} \cup {u \in Uids : u % Total = k}
      BY ONLY <1>1, <1>4 DEF Hashed
    <2>2. \A j \in Keys : lru.hash[j] = lru.hash[k] => j = k
      BY ONLY <1>1, <1>4 DEF Hashed
    <2> QED
      BY ONLY <1>2, <2>1, <2>2
  <1> QED
    BY ONLY <1>3, <1>4 DEF LruHash, NULLP

\* The cache of names stays coherent whatever the number of its slots: no
\* sanity_check_queue aborts, the list from the front is made of the live
\* nodes, as many as counted, the hash array leads to them one to one, and
\* a lookup never answers with another id's name (lru.c, interpret.c).
THEOREM CacheIsCoherent == LruSpec => []LruCoherent
  <1>1. LInv => LruCoherent
    BY CacheList, CacheHash DEF LInv, IsCache, LruCoherent
  <1> QED
    BY <1>1, LruStarts, LruSteps, PTL DEF LruSpec
=============================================================================
