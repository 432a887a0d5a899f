--------------------------- MODULE ListenerProofs ---------------------------
(***************************************************************************)
(* Proofs about Listener, for any number of connections, addresses and     *)
(* messages, any size of the buffer and any number of SIGHUPs.             *)
(*                                                                         *)
(* First the list of clients without the program: a list that links the    *)
(* sequence m is walked in the order of m, a client put in front comes     *)
(* first, and release_client takes one out wherever it is.  Then the       *)
(* invariant: client_chain links the open connections, each once.          *)
(***************************************************************************)
EXTENDS Listener, FiniteSetTheorems, WellFoundedInduction, TLAPS

-----------------------------------------------------------------------------
(* Induction, with the property as a set of numbers. *)

LEMMA LessIsWellFounded == IsWellFoundedOn({p \in Nat \X Nat : p[1] < p[2]}, Nat)
  BY ONLY NatLessThanWellFounded DEF OpToRel

LEMMA LeastElement ==
    ASSUME NEW T \in SUBSET Nat, T # {}
    PROVE  \E n \in T : \A m \in T : n <= m
  <1> DEFINE R == {p \in Nat \X Nat : p[1] < p[2]}
  <1>1. IsWellFoundedOn(R, Nat)
    BY LessIsWellFounded
  <1>2. PICK x \in T : \A y \in T : ~(<<y, x>> \in R)
    <2> HIDE DEF R
    <2> QED BY ONLY <1>1, WFMin, T \subseteq Nat, T # {}
  <1>3. \A y \in T : ~(y < x)
    BY <1>2
  <1> QED
    BY <1>3

LEMMA SetInduction ==
    ASSUME NEW S \in SUBSET Nat, 0 \in S, \A n \in S : n + 1 \in S
    PROVE  S = Nat
  <1> SUFFICES ASSUME Nat \ S # {} PROVE FALSE
    OBVIOUS
  <1>1. PICK n \in Nat \ S : \A m \in Nat \ S : n <= m
    BY LeastElement
  <1>2. n # 0 /\ n - 1 \in Nat /\ n - 1 \in S
    BY <1>1
  <1> QED
    BY <1>2

-----------------------------------------------------------------------------
(* Lists. *)

Pointers == [head : Ptr, next : [Conns -> Ptr], prev : [Conns -> Ptr]]

\* The list l links the members of m in this order.
Links(l, m) ==
    /\ l \in Pointers /\ m \in Seq(Conns)
    /\ \A i, j \in 1 .. Len(m) : m[i] = m[j] => i = j
    /\ l.head = IF Len(m) = 0 THEN 0 ELSE m[1]
    /\ \A i \in 1 .. Len(m) : l.next[m[i]] = IF i = Len(m) THEN 0 ELSE m[i + 1]
    /\ \A i \in 1 .. Len(m) : l.prev[m[i]] = IF i = 1 THEN 0 ELSE m[i - 1]

Members(m) == {m[i] : i \in 1 .. Len(m)}
Pushed(c, m) == [i \in 1 .. Len(m) + 1 |-> IF i = 1 THEN c ELSE m[i - 1]]
Removed(m, p) == [i \in 1 .. Len(m) - 1 |-> IF i < p THEN m[i] ELSE m[i + 1]]

LEMMA NotNull == 0 \notin Conns /\ Ptr = Conns \cup {0}
  BY ListenerAssumption DEF Ptr

LEMMA LinkedPuts ==
    ASSUME NEW l, NEW m, Links(l, m), NEW c \in Conns, c \notin Members(m)
    PROVE  Links(Linked(l, c), Pushed(c, m)) /\ Members(Pushed(c, m)) = Members(m) \cup {c}
  <1> DEFINE t == Pushed(c, m)
             k == Linked(l, c)
  <1>1. /\ m \in Seq(Conns) /\ Len(m) \in Nat /\ l \in Pointers
        /\ \A i \in 1 .. Len(m) : m[i] \in Conns /\ m[i] # c
    BY DEF Links, Members
  <1>2. /\ t \in Seq(Conns) /\ Len(t) = Len(m) + 1 /\ t[1] = c
        /\ \A i \in 1 .. Len(m) : t[i + 1] = m[i]
    BY <1>1 DEF Pushed
  <1>3. /\ k \in Pointers /\ k.head = c /\ k.next[c] = l.head /\ k.prev[c] = 0
        /\ \A x \in Conns : x # c => k.next[x] = l.next[x] /\ k.prev[x] = IF x = l.head THEN c ELSE l.prev[x]
    BY <1>1, NotNull DEF Linked, Pointers
  <1> HIDE DEF t, k
  <1>4. /\ l.head = IF Len(m) = 0 THEN 0 ELSE m[1]
        /\ \A i, j \in 1 .. Len(m) : m[i] = m[j] => i = j
        /\ \A i \in 1 .. Len(m) : l.next[m[i]] = IF i = Len(m) THEN 0 ELSE m[i + 1]
        /\ \A i \in 1 .. Len(m) : l.prev[m[i]] = IF i = 1 THEN 0 ELSE m[i - 1]
    BY Zenon DEF Links
  <1>5. \A i \in 1 .. Len(t) : i = 1 \/ \E h \in 1 .. Len(m) : i = h + 1
    <2> SUFFICES ASSUME NEW i \in 1 .. Len(t), i # 1 PROVE i - 1 \in 1 .. Len(m) /\ i = (i - 1) + 1
      OBVIOUS
    <2> QED
      BY ONLY <1>1, <1>2, i \in 1 .. Len(t), i # 1
  <1>a. \A h \in 1 .. Len(m) : /\ t[h + 1] = m[h] /\ m[h] \in Conns /\ m[h] # c /\ h + 1 # 1
                               /\ k.next[m[h]] = l.next[m[h]] 
                               /\ k.prev[m[h]] = IF m[h] = l.head THEN c ELSE l.prev[m[h]]
    BY ONLY <1>1, <1>2, <1>3
  <1>6. ASSUME NEW i \in 1 .. Len(t), NEW j \in 1 .. Len(t), t[i] = t[j]
        PROVE  i = j
    BY ONLY <1>2, <1>4, <1>5, <1>6, <1>a
  <1>7. ASSUME NEW i \in 1 .. Len(t)
        PROVE  k.next[t[i]] = IF i = Len(t) THEN 0 ELSE t[i + 1]
    <2>1. CASE i = 1
      BY ONLY <1>1, <1>2, <1>3, <1>4, <2>1
    <2>2. CASE \E h \in 1 .. Len(m) : i = h + 1
      <3>1. PICK h \in 1 .. Len(m) : i = h + 1
        BY ONLY <2>2
      <3>2. k.next[t[i]] = IF h = Len(m) THEN 0 ELSE m[h + 1]
        BY ONLY <3>1, <1>a, <1>4
      <3>3. h # Len(m) => t[i + 1] = m[h + 1]
        BY ONLY <3>1, <1>1, <1>2
      <3>4. i = Len(t) <=> h = Len(m)
        BY ONLY <3>1, <1>1, <1>2
      <3> QED
        BY ONLY <3>2, <3>3, <3>4
    <2> QED
      BY ONLY <1>5, <2>1, <2>2
  <1>8. ASSUME NEW i \in 1 .. Len(t)
        PROVE  k.prev[t[i]] = IF i = 1 THEN 0 ELSE t[i - 1]
    <2>1. CASE i = 1
      BY ONLY <1>2, <1>3, <2>1
    <2>2. CASE \E h \in 1 .. Len(m) : i = h + 1
      <3>1. PICK h \in 1 .. Len(m) : i = h + 1
        BY ONLY <2>2
      <3>2. /\ 1 \in 1 .. Len(m) /\ i - 1 = h /\ i # 1 /\ Len(m) # 0 /\ l.head = m[1]
            /\ h # 1 => h - 1 \in 1 .. Len(m) /\ h = (h - 1) + 1
        BY ONLY <3>1, <1>1, <1>4
      <3>3. CASE h = 1
        BY ONLY <3>1, <3>2, <3>3, <1>a, <1>2
      <3>4. CASE h # 1
        <4>1. t[h] = m[h - 1]
          BY ONLY <3>2, <3>4, <1>2
        <4>2. m[h] # m[1] /\ l.prev[m[h]] = m[h - 1]
          BY ONLY <3>1, <3>2, <3>4, <1>4
        <4> QED
          BY ONLY <3>1, <3>2, <4>1, <4>2, <1>a
      <3> QED
        BY ONLY <3>3, <3>4
    <2> QED
      BY ONLY <1>5, <2>1, <2>2
  <1>9. k.head = IF Len(t) = 0 THEN 0 ELSE t[1]
    BY ONLY <1>1, <1>2, <1>3
  <1>10. Links(k, t)
    BY ONLY <1>2, <1>3, <1>6, <1>7, <1>8, <1>9 DEF Links
  <1>11. Members(t) = Members(m) \cup {c}
    <2>1. \A x \in Members(t) : x \in Members(m) \cup {c}
      BY ONLY <1>2, <1>5, <1>a DEF Members
    <2>2. 1 \in 1 .. Len(t) /\ \A h \in 1 .. Len(m) : h + 1 \in 1 .. Len(t)
      BY ONLY <1>1, <1>2
    <2>3. c \in Members(t)
      BY ONLY <1>2, <2>2 DEF Members
    <2>4. ASSUME NEW x \in Members(m) PROVE x \in Members(t)
      <3>1. PICK h \in 1 .. Len(m) : x = m[h]
        BY ONLY <2>4 DEF Members
      <3>2. x = t[h + 1] /\ h + 1 \in 1 .. Len(t)
        BY ONLY <3>1, <1>a, <2>2
      <3> QED
        BY ONLY <3>2 DEF Members
    <2> QED
      BY ONLY <2>1, <2>3, <2>4
  <1> QED
    BY ONLY <1>10, <1>11 DEF t, k

LEMMA UnlinkedTakes ==
    ASSUME NEW l, NEW m, Links(l, m), NEW p \in 1 .. Len(m)
    PROVE  Links(Unlinked(l, m[p]), Removed(m, p)) /\ Members(Removed(m, p)) = Members(m) \ {m[p]}
  <1> DEFINE t == Removed(m, p)
             k == Unlinked(l, m[p])
             n == Len(m)
  <1>0. p \in 1 .. n
    OBVIOUS
  <1>1. /\ m \in Seq(Conns) /\ n \in Nat /\ l \in Pointers /\ n # 0
        /\ \A i \in 1 .. n : m[i] \in Conns /\ m[i] # 0
    BY NotNull DEF Links
  <1>2. /\ t \in Seq(Conns) /\ Len(t) = n - 1 /\ n - 1 \in Nat
        /\ \A i \in 1 .. n - 1 : t[i] = IF i < p THEN m[i] ELSE m[i + 1]
    BY <1>1 DEF Removed
  <1>3. /\ l.head = m[1]
        /\ \A i, j \in 1 .. n : m[i] = m[j] => i = j
        /\ \A i \in 1 .. n : l.next[m[i]] = IF i = n THEN 0 ELSE m[i + 1]
        /\ \A i \in 1 .. n : l.prev[m[i]] = IF i = 1 THEN 0 ELSE m[i - 1]
    BY <1>1 DEF Links
  <1>4. /\ k \in Pointers /\ k.head = IF l.head = m[p] THEN l.next[m[p]] ELSE l.head
        /\ \A x \in Conns : k.next[x] = IF x = l.prev[m[p]] THEN l.next[m[p]] ELSE l.next[x]
        /\ \A x \in Conns : k.prev[x] = IF x = l.next[m[p]] THEN l.prev[m[p]] ELSE l.prev[x]
    <2>1. m[p] \in Conns /\ l.next[m[p]] \in Ptr /\ l.prev[m[p]] \in Ptr
      BY <1>1 DEF Pointers
    <2> QED
      BY <1>1, <2>1 DEF Unlinked, Pointers
  <1>5. ASSUME NEW i \in 1 .. n, i # p
        PROVE  /\ k.next[m[i]] = IF i + 1 = p THEN (IF p = n THEN 0 ELSE m[p + 1])
                                 ELSE IF i = n THEN 0 ELSE m[i + 1]
               /\ k.prev[m[i]] = IF i = p + 1 THEN (IF p = 1 THEN 0 ELSE m[p - 1])
                                 ELSE IF i = 1 THEN 0 ELSE m[i - 1]
    <2>1. m[i] = l.prev[m[p]] <=> i + 1 = p
      <3>1. CASE p = 1
        BY ONLY <3>1, <1>1, <1>3, <1>5, <1>0
      <3>2. CASE p # 1
        <4>1. p - 1 \in 1 .. n /\ l.prev[m[p]] = m[p - 1] /\ (i + 1 = p <=> i = p - 1)
          BY ONLY <3>2, <1>1, <1>3, <1>5, <1>0
        <4> QED
          BY ONLY <4>1, <1>3, <1>5
      <3> QED
        BY ONLY <3>1, <3>2
    <2>2. m[i] = l.next[m[p]] <=> i = p + 1
      <3>1. CASE p = n
        BY ONLY <3>1, <1>1, <1>3, <1>5, <1>0
      <3>2. CASE p # n
        <4>1. p + 1 \in 1 .. n /\ l.next[m[p]] = m[p + 1]
          BY ONLY <3>2, <1>1, <1>3, <1>0
        <4> QED
          BY ONLY <4>1, <1>3, <1>5
      <3> QED
        BY ONLY <3>1, <3>2
    <2>3. m[i] \in Conns
      BY ONLY <1>1, <1>5
    <2>4. k.next[m[i]] = IF i + 1 = p THEN l.next[m[p]] ELSE l.next[m[i]]
      BY ONLY <2>1, <2>3, <1>4
    <2>5. k.prev[m[i]] = IF i = p + 1 THEN l.prev[m[p]] ELSE l.prev[m[i]]
      BY ONLY <2>2, <2>3, <1>4
    <2> QED
      BY ONLY <2>4, <2>5, <1>3, <1>5, <1>0
  <1> HIDE DEF t, k, n
  <1>6. \A i \in 1 .. n - 1 : /\ i < p => i \in 1 .. n /\ i # p /\ t[i] = m[i] /\ i # n
                              /\ ~(i < p) => i + 1 \in 1 .. n /\ i + 1 # p /\ t[i] = m[i + 1] /\ i + 1 # 1
    BY ONLY <1>1, <1>2, <1>0 DEF n
  <1>7. ASSUME NEW i \in 1 .. n - 1, NEW j \in 1 .. n - 1, t[i] = t[j] PROVE i = j
    <2>1. CASE i < p /\ j < p
      BY ONLY <2>1, <1>3, <1>6, <1>7
    <2>2. CASE ~(i < p) /\ ~(j < p)
      <3>1. i + 1 = j + 1
        BY ONLY <2>2, <1>3, <1>6, <1>7
      <3> QED
        BY ONLY <3>1, i \in 1 .. n - 1, j \in 1 .. n - 1, <1>1
    <2>3. CASE i < p /\ ~(j < p)
      <3>1. i = j + 1
        BY ONLY <2>3, <1>3, <1>6, <1>7
      <3> QED
        BY ONLY <2>3, <3>1, i \in 1 .. n - 1, j \in 1 .. n - 1, <1>1, <1>0
    <2>4. CASE ~(i < p) /\ j < p
      <3>1. j = i + 1
        BY ONLY <2>4, <1>3, <1>6, <1>7
      <3> QED
        BY ONLY <2>4, <3>1, i \in 1 .. n - 1, j \in 1 .. n - 1, <1>1, <1>0
    <2> QED
      BY ONLY <2>1, <2>2, <2>3, <2>4
  <1>8. ASSUME NEW i \in 1 .. n - 1
        PROVE  k.next[t[i]] = IF i = n - 1 THEN 0 ELSE t[i + 1]
    <2>0. i # n - 1 => i + 1 \in 1 .. n - 1
      BY ONLY <1>1, <1>8
    <2>1. CASE i + 1 < p
      <3>1. i < p /\ i # n - 1 /\ i + 1 # p
        BY ONLY <2>1, <1>1, <1>8, <1>0
      <3>2. t[i] = m[i] /\ t[i + 1] = m[i + 1] /\ i \in 1 .. n /\ i # p /\ i # n
        BY ONLY <2>0, <2>1, <3>1, <1>6, <1>8
      <3> QED
        BY ONLY <3>1, <3>2, <1>5
    <2>2. CASE i + 1 = p
      <3>1. i < p /\ (i = n - 1 <=> p = n) /\ ~(i + 1 < p)
        BY ONLY <2>2, <1>1, <1>8, <1>0
      <3>2. t[i] = m[i] /\ i \in 1 .. n /\ i # p /\ (i # n - 1 => t[i + 1] = m[(i + 1) + 1])
        BY ONLY <2>0, <3>1, <1>6, <1>8
      <3>3. k.next[m[i]] = IF p = n THEN 0 ELSE m[p + 1]
        BY ONLY <2>2, <3>2, <1>5
      <3> QED
        BY ONLY <2>2, <3>1, <3>2, <3>3
    <2>3. CASE ~(i < p)
      <3>1. ~(i + 1 < p) /\ (i = n - 1 <=> i + 1 = n) /\ (i + 1) + 1 # p
        BY ONLY <2>3, <1>1, <1>8, <1>0
      <3>2. /\ t[i] = m[i + 1] /\ i + 1 \in 1 .. n /\ i + 1 # p
            /\ i # n - 1 => t[i + 1] = m[(i + 1) + 1]
        BY ONLY <2>0, <2>3, <3>1, <1>6, <1>8
      <3>3. k.next[m[i + 1]] = IF i + 1 = n THEN 0 ELSE m[(i + 1) + 1]
        BY ONLY <3>1, <3>2, <1>5
      <3> QED
        BY ONLY <3>1, <3>2, <3>3
    <2> QED
      BY ONLY <2>1, <2>2, <2>3, <1>1, <1>8, <1>0
  <1>9. ASSUME NEW i \in 1 .. n - 1
        PROVE  k.prev[t[i]] = IF i = 1 THEN 0 ELSE t[i - 1]
    <2>0. i # 1 => i - 1 \in 1 .. n - 1
      BY ONLY <1>1, <1>9
    <2>1. CASE i < p
      <3>1. i - 1 < p /\ i # p + 1
        BY ONLY <2>1, <1>1, <1>9, <1>0
      <3>2. t[i] = m[i] /\ (i # 1 => t[i - 1] = m[i - 1]) /\ i \in 1 .. n /\ i # p
        BY ONLY <2>0, <2>1, <3>1, <1>6, <1>9
      <3> QED
        BY ONLY <3>1, <3>2, <1>5
    <2>2. CASE i = p
      <3>1. ~(i < p) /\ i - 1 < p
        BY ONLY <2>2, <1>1, <1>9, <1>0
      <3>2. t[i] = m[i + 1] /\ i + 1 \in 1 .. n /\ i + 1 # p /\ (i # 1 => t[i - 1] = m[i - 1])
        BY ONLY <2>0, <3>1, <1>6, <1>9
      <3>3. k.prev[m[i + 1]] = IF p = 1 THEN 0 ELSE m[p - 1]
        BY ONLY <2>2, <3>2, <1>5
      <3> QED
        BY ONLY <2>2, <3>2, <3>3
    <2>3. CASE i > p
      <3>1. ~(i < p) /\ ~(i - 1 < p) /\ i # 1 /\ i + 1 # p + 1 /\ (i - 1) + 1 = i /\ (i + 1) - 1 = i
        BY ONLY <2>3, <1>1, <1>9, <1>0
      <3>2. t[i] = m[i + 1] /\ i + 1 \in 1 .. n /\ i + 1 # p /\ i + 1 # 1 /\ t[i - 1] = m[i]
        <4>1. t[i - 1] = m[(i - 1) + 1]
          BY ONLY <2>0, <3>1, <1>6
        <4> QED
          BY ONLY <4>1, <3>1, <1>6, <1>9
      <3>3. k.prev[m[i + 1]] = m[(i + 1) - 1]
        BY ONLY <3>1, <3>2, <1>5
      <3> QED
        BY ONLY <3>1, <3>2, <3>3
    <2> QED
      BY ONLY <2>1, <2>2, <2>3, <1>1, <1>9, <1>0
  <1>10. k.head = IF n - 1 = 0 THEN 0 ELSE t[1]
    <2>1. l.head = m[p] <=> p = 1
      BY ONLY <1>1, <1>3, <1>0
    <2>2. p = 1 => l.next[m[p]] = IF n = 1 THEN 0 ELSE m[2]
      BY ONLY <1>1, <1>3, <1>0
    <2>3. n - 1 # 0 => t[1] = IF p = 1 THEN m[2] ELSE m[1]
      BY ONLY <1>1, <1>2, <1>0
    <2>4. (n - 1 = 0 <=> n = 1) /\ (n = 1 => p = 1)
      BY ONLY <1>1, <1>0
    <2> QED
      BY ONLY <2>1, <2>2, <2>3, <2>4, <1>3, <1>4
  <1>11. Links(k, t)
    BY ONLY <1>2, <1>4, <1>7, <1>8, <1>9, <1>10 DEF Links
  <1>12. Members(t) = Members(m) \ {m[p]}
    <2>1. ASSUME NEW x \in Members(t) PROVE x \in Members(m) \ {m[p]}
      <3>1. PICK i \in 1 .. n - 1 : x = t[i]
        BY ONLY <2>1, <1>2 DEF Members
      <3>2. PICK j \in 1 .. n : x = m[j] /\ j # p
        BY ONLY <3>1, <1>6
      <3> QED
        BY ONLY <3>2, <1>3, <1>0 DEF Members, n
    <2>2. ASSUME NEW x \in Members(m) \ {m[p]} PROVE x \in Members(t)
      <3>1. PICK j \in 1 .. n : x = m[j] /\ j # p
        BY ONLY <2>2 DEF Members, n
      <3>2. CASE j < p
        <4>1. j \in 1 .. n - 1
          BY ONLY <3>2, <1>1, <1>0
        <4> QED
          BY ONLY <3>1, <3>2, <4>1, <1>2 DEF Members
      <3>3. CASE ~(j < p)
        <4>1. j - 1 \in 1 .. n - 1 /\ ~(j - 1 < p) /\ (j - 1) + 1 = j
          BY ONLY <3>1, <3>3, <1>1, <1>0
        <4>2. t[j - 1] = m[j]
          BY ONLY <4>1, <1>2
        <4> QED
          BY ONLY <3>1, <4>1, <4>2, <1>2 DEF Members
      <3> QED
        BY ONLY <3>2, <3>3
    <2> QED
      BY ONLY <2>1, <2>2
  <1> QED
    BY ONLY <1>11, <1>12 DEF t, k

\* What Walk has seen of m after k steps.
Seen(m, k) == [i \in 1 .. (IF k < Len(m) THEN k + 1 ELSE Len(m)) |-> m[i]]
Further(l, w) == IF w = <<>> \/ l.next[w[Len(w)]] = 0 THEN w ELSE Append(w, l.next[w[Len(w)]])

LEMMA SeenIs ==
    ASSUME NEW m \in Seq(Conns), NEW k \in Nat
    PROVE  /\ Seen(m, k) \in Seq(Conns)
           /\ Len(Seen(m, k)) = IF k < Len(m) THEN k + 1 ELSE Len(m)
           /\ \A i \in 1 .. Len(Seen(m, k)) : Seen(m, k)[i] = m[i]
  BY DEF Seen

LEMMA SameSequence ==
    ASSUME NEW S, NEW s \in Seq(S), NEW t \in Seq(S), Len(s) = Len(t),
           \A i \in 1 .. Len(s) : s[i] = t[i]
    PROVE  s = t
  OBVIOUS

LEMMA SeenFirst ==
    ASSUME NEW l, NEW m, Links(l, m)
    PROVE  Seen(m, 0) = IF l.head = 0 THEN <<>> ELSE <<l.head>>
  <1>1. m \in Seq(Conns) /\ Len(m) \in Nat /\ (Len(m) # 0 => m[1] \in Conns)
    BY DEF Links
  <1>2. l.head = IF Len(m) = 0 THEN 0 ELSE m[1]
    BY DEF Links
  <1>3. /\ Seen(m, 0) \in Seq(Conns) /\ Len(Seen(m, 0)) = IF 0 < Len(m) THEN 1 ELSE Len(m)
        /\ \A i \in 1 .. Len(Seen(m, 0)) : Seen(m, 0)[i] = m[i]
    <2>1. 0 \in Nat /\ 0 + 1 = 1
      OBVIOUS
    <2> QED
      BY ONLY <1>1, <2>1, SeenIs
  <1>4. CASE Len(m) = 0
    BY <1>2, <1>3, <1>4
  <1>5. CASE Len(m) # 0
    <2>1. l.head = m[1] /\ l.head # 0 /\ <<m[1]>> \in Seq(Conns)
      BY <1>1, <1>2, <1>5, NotNull
    <2>2. Len(Seen(m, 0)) = 1 /\ Seen(m, 0)[1] = m[1]
      BY ONLY <1>1, <1>3, <1>5
    <2>3. Seen(m, 0) = <<m[1]>>
      BY ONLY <1>3, <2>1, <2>2
    <2> QED
      BY ONLY <2>1, <2>3
  <1> QED
    BY ONLY <1>4, <1>5

LEMMA SeenFurther ==
    ASSUME NEW l, NEW m, Links(l, m), NEW k \in Nat
    PROVE  Seen(m, k + 1) = Further(l, Seen(m, k))
  <1> DEFINE v == Seen(m, k)
             w == Seen(m, k + 1)
             n == Len(m)
  <1>1. m \in Seq(Conns) /\ n \in Nat /\ \A i \in 1 .. n : m[i] \in Conns /\ m[i] # 0
    BY NotNull DEF Links
  <1>2. \A i \in 1 .. n : l.next[m[i]] = IF i = n THEN 0 ELSE m[i + 1]
    BY DEF Links
  <1>3. /\ v \in Seq(Conns) /\ Len(v) = IF k < n THEN k + 1 ELSE n
        /\ \A i \in 1 .. Len(v) : v[i] = m[i]
    BY <1>1, SeenIs
  <1>4. /\ w \in Seq(Conns) /\ Len(w) = IF k + 1 < n THEN (k + 1) + 1 ELSE n
        /\ \A i \in 1 .. Len(w) : w[i] = m[i]
    BY <1>1, SeenIs
  <1> HIDE DEF v, w, n
  <1>5. CASE n = 0
    <2>1. v = <<>> /\ w = <<>>
      BY <1>3, <1>4, <1>5
    <2> QED
      BY ONLY <2>1 DEF Further, v, w
  <1>6. CASE n # 0 /\ ~(k + 1 < n)
    <2>1. Len(v) = n /\ Len(w) = n /\ n \in 1 .. n
      BY ONLY <1>1, <1>3, <1>4, <1>6, k \in Nat
    <2>2. v = w
      BY ONLY <2>1, <1>3, <1>4, SameSequence
    <2>3. l.next[v[Len(v)]] = 0
      BY ONLY <2>1, <1>2, <1>3
    <2> QED
      BY ONLY <2>2, <2>3 DEF Further, v, w
  <1>7. CASE k + 1 < n
    <2>1. /\ Len(v) = k + 1 /\ Len(w) = (k + 1) + 1 /\ k + 1 \in 1 .. n /\ (k + 1) + 1 \in 1 .. n /\ k + 1 # n
          /\ v # <<>>
      BY ONLY <1>1, <1>3, <1>4, <1>7, k \in Nat
    <2>2. l.next[v[Len(v)]] = m[(k + 1) + 1] /\ m[(k + 1) + 1] \in Conns /\ m[(k + 1) + 1] # 0
      BY ONLY <2>1, <1>1, <1>2, <1>3
    <2> DEFINE a == m[(k + 1) + 1]
               t == Append(v, a)
    <2>3. /\ t \in Seq(Conns) /\ Len(t) = Len(v) + 1 /\ t[Len(v) + 1] = a
          /\ \A i \in 1 .. Len(v) : t[i] = v[i]
      BY ONLY <1>3, <2>2
    <2> HIDE DEF a, t
    <2>4. ASSUME NEW i \in 1 .. Len(w) PROVE w[i] = t[i]
      <3>1. i \in 1 .. Len(v) \/ i = (k + 1) + 1
        BY ONLY <2>1, <2>4, k \in Nat
      <3> QED
        BY ONLY <3>1, <2>1, <2>3, <2>4, <1>3, <1>4 DEF a
    <2>5. w = t
      BY ONLY <2>1, <2>3, <2>4, <1>4, SameSequence
    <2> QED
      BY ONLY <2>1, <2>2, <2>5 DEF Further, v, w, t, a
  <1> QED
    BY ONLY <1>1, <1>5, <1>6, <1>7

LEMMA Bound ==
    ASSUME NEW l, NEW m, Links(l, m)
    PROVE  Cardinality(Conns) \in Nat /\ Len(m) <= Cardinality(Conns)
  <1>1. IsFiniteSet(Conns)
    BY ListenerAssumption
  <1>2. m \in Injection(1 .. Len(m), Conns) /\ Len(m) \in Nat
    BY DEF Links, Injection, IsInjective
  <1>3. Cardinality(1 .. Len(m)) = Len(m)
    <2> DEFINE n == Len(m)
    <2>1. 1 \in Int /\ n \in Int /\ n \in Nat
      BY ONLY <1>2
    <2> HIDE DEF n
    <2>2. Cardinality(1 .. n) = IF 1 > n THEN 0 ELSE n - 1 + 1
      BY ONLY <2>1, FS_Interval
    <2>3. Cardinality(1 .. n) = n
      BY ONLY <2>1, <2>2
    <2> QED
      BY ONLY <2>3 DEF n
  <1> QED
    <2>1. Cardinality(Conns) \in Nat
      BY ONLY <1>1, FS_CardinalityType
    <2>2. Injection(1 .. Len(m), Conns) # {}
      BY ONLY <1>2
    <2>3. Cardinality(1 .. Len(m)) <= Cardinality(Conns)
      BY ONLY <1>1, <2>2, FS_Injection
    <2> QED
      BY ONLY <2>1, <2>3, <1>3

LEMMA WalkIs ==
    ASSUME NEW l, NEW m, Links(l, m)
    PROVE  Walk(l) = m
  <1> DEFINE n == Cardinality(Conns)
             first == IF l.head = 0 THEN <<>> ELSE <<l.head>>
             Steps(f) == [k \in 0 .. n |-> IF k = 0 THEN first ELSE Further(l, f[k - 1])]
             f == CHOOSE f : f = Steps(f)
             g == [k \in 0 .. n |-> Seen(m, k)]
  <1>1. n \in Nat /\ Len(m) <= n /\ m \in Seq(Conns)
    BY Bound DEF Links
  <1>2. Walk(l) = f[n]
    BY DEF Walk, Further
  <1> HIDE DEF n, first
  <1>3. g = Steps(g)
    <2> SUFFICES ASSUME NEW k \in 0 .. n
                 PROVE  Seen(m, k) = IF k = 0 THEN first ELSE Further(l, g[k - 1])
      OBVIOUS
    <2>1. CASE k = 0
      BY <2>1, SeenFirst DEF first
    <2>2. CASE k # 0
      <3>1. k - 1 \in Nat /\ (k - 1) + 1 = k /\ k - 1 \in 0 .. n
        BY <2>2, <1>1
      <3>2. g[k - 1] = Seen(m, k - 1)
        BY ONLY <3>1
      <3>3. Seen(m, (k - 1) + 1) = Further(l, Seen(m, k - 1))
        BY <3>1, SeenFurther
      <3> QED
        BY ONLY <3>1, <3>2, <3>3, <2>2
    <2> QED
      BY ONLY <2>1, <2>2
  <1> HIDE DEF g
  <1>4. f = Steps(f)
    BY ONLY <1>3
  <1> HIDE DEF f
  <1> DEFINE S == {k \in Nat : k <= n => f[k] = Seen(m, k)}
  <1>5. 0 \in S
    <2>1. 0 \in 0 .. n /\ f[0] = first
      BY ONLY <1>1, <1>4
    <2>2. Seen(m, 0) = first
      BY SeenFirst DEF first
    <2> QED
      BY ONLY <2>1, <2>2
  <1>6. ASSUME NEW k \in S PROVE k + 1 \in S
    <2> SUFFICES ASSUME k + 1 <= n PROVE f[k + 1] = Seen(m, k + 1)
      OBVIOUS
    <2>1. k \in Nat /\ k + 1 \in 0 .. n /\ k <= n /\ k + 1 # 0 /\ (k + 1) - 1 = k
      BY <1>1
    <2>2. f[k] = Seen(m, k)
      BY <2>1
    <2>3. f[k + 1] = Further(l, f[k])
      BY ONLY <1>4, <2>1
    <2> QED
      BY <2>1, <2>2, <2>3, SeenFurther
  <1>7. S = Nat
    <2> HIDE DEF S
    <2>1. S \in SUBSET Nat
      BY DEF S
    <2> QED
      BY ONLY <2>1, <1>5, <1>6, SetInduction
  <1>8. f[n] = Seen(m, n)
    BY ONLY <1>7, <1>1
  <1>9. Seen(m, n) = m
    <2>1. /\ Seen(m, n) \in Seq(Conns) /\ Len(Seen(m, n)) = Len(m)
          /\ \A i \in 1 .. Len(Seen(m, n)) : Seen(m, n)[i] = m[i]
      BY <1>1, SeenIs
    <2> QED
      BY ONLY <2>1, <1>1, SameSequence
  <1> QED
    BY ONLY <1>2, <1>8, <1>9

\* release_client for the first k of cs.
LEMMA WithoutTakes ==
    ASSUME NEW l, NEW m, Links(l, m), NEW cs \in Seq(Conns), NEW gone,
           \A i, j \in 1 .. Len(cs) : cs[i] = cs[j] => i = j,
           Members(cs) \subseteq Members(m)
    PROVE  \E t : Links(Without(l, cs, gone), t) /\ Members(t) = Members(m) \ (Members(cs) \cap gone)
  <1> DEFINE n == Len(cs)
             Gone(k) == {cs[j] : j \in 1 .. k} \cap gone
             One(v, k) == IF cs[k] \in gone THEN Unlinked(v, cs[k]) ELSE v
             Upto(f, b) == f = [k \in 0 .. b |-> IF k = 0 THEN l ELSE One(f[k - 1], k)]
             f == CHOOSE f : f = [k \in 0 .. n |-> IF k = 0 THEN l ELSE One(f[k - 1], k)]
             S == {b \in Nat : \E g : Upto(g, b)}
             T == {k \in Nat : k <= n => \E t : Links(f[k], t) /\ Members(t) = Members(m) \ Gone(k)}
  <1>1. n \in Nat
    OBVIOUS
  <1>2. Without(l, cs, gone) = f[n]
    BY DEF Without
  <1> HIDE DEF n
  <1>3. 0 \in S
    <2> DEFINE g == [k \in 0 .. 0 |-> l]
    <2>1. Upto(g, 0)
      OBVIOUS
    <2> QED
      BY ONLY <2>1
  <1>4. ASSUME NEW b \in S PROVE b + 1 \in S
    <2>1. PICK g : Upto(g, b)
      OBVIOUS
    <2> DEFINE h == [k \in 0 .. b + 1 |-> IF k = b + 1 THEN One(g[b], k) ELSE g[k]]
    <2>2. Upto(h, b + 1)
      <3> HIDE DEF One
      <3>1. b \in Nat /\ g = [k \in 0 .. b |-> IF k = 0 THEN l ELSE One(g[k - 1], k)]
        BY <2>1
      <3> SUFFICES ASSUME NEW k \in 0 .. b + 1
                   PROVE  h[k] = IF k = 0 THEN l ELSE One(h[k - 1], k)
        <4> QED
          BY DEF h
      <3>2. CASE k = 0
        BY ONLY <3>1, <3>2
      <3>3. CASE k # 0 /\ k # b + 1
        <4>1. k \in 0 .. b /\ k - 1 \in 0 .. b + 1 /\ k - 1 # b + 1
          BY ONLY <3>1, <3>3, k \in 0 .. b + 1
        <4>2. h[k] = g[k] /\ h[k - 1] = g[k - 1]
          BY ONLY <4>1, <3>3, k \in 0 .. b + 1
        <4>3. g[k] = One(g[k - 1], k)
          BY ONLY <4>1, <3>1, <3>3
        <4> QED
          BY ONLY <4>2, <4>3, <3>3
      <3>4. CASE k = b + 1
        <4>1. k # 0 /\ k - 1 = b /\ b \in 0 .. b + 1 /\ b # b + 1
          BY ONLY <3>1, <3>4
        <4>2. h[k] = One(g[b], k) /\ h[b] = g[b]
          BY ONLY <4>1, <3>4, k \in 0 .. b + 1
        <4> QED
          BY ONLY <4>1, <4>2
      <3> QED
        BY ONLY <3>2, <3>3, <3>4
    <2>3. b + 1 \in Nat
      OBVIOUS
    <2> HIDE DEF h, Upto
    <2> QED
      BY ONLY <2>2, <2>3
  <1>5. S = Nat
    <2> HIDE DEF S
    <2>1. S \in SUBSET Nat
      BY DEF S
    <2> QED
      BY ONLY <2>1, <1>3, <1>4, SetInduction
  <1>6. f = [k \in 0 .. n |-> IF k = 0 THEN l ELSE One(f[k - 1], k)]
    <2> HIDE DEF One
    <2>1. \E g : Upto(g, n)
      BY ONLY <1>1, <1>5
    <2> QED
      BY ONLY <2>1
  <1> HIDE DEF f, S
  <1>7. 0 \in T
    <2>1. f[0] = l /\ Gone(0) = {}
      BY ONLY <1>1, <1>6
    <2> QED
      BY <2>1
  <1>8. ASSUME NEW k \in T PROVE k + 1 \in T
    <2> SUFFICES ASSUME k + 1 <= n
                 PROVE  \E t : Links(f[k + 1], t) /\ Members(t) = Members(m) \ Gone(k + 1)
      OBVIOUS
    <2>1. k \in Nat /\ k <= n /\ k + 1 \in 1 .. n /\ k + 1 \in 0 .. n /\ k + 1 # 0 /\ (k + 1) - 1 = k
      BY <1>1
    <2>2. PICK t : Links(f[k], t) /\ Members(t) = Members(m) \ Gone(k)
      BY <2>1
    <2>3. f[k + 1] = One(f[k], k + 1)
      <3> HIDE DEF One
      <3> QED
        BY ONLY <1>6, <2>1
    <2> DEFINE c == cs[k + 1]
    <2>4. {cs[j] : j \in 1 .. k + 1} = {cs[j] : j \in 1 .. k} \cup {c}
      <3>1. 1 .. k + 1 = (1 .. k) \cup {k + 1}
        BY ONLY <2>1
      <3> QED
        BY ONLY <3>1
    <2>5. CASE c \notin gone
      <3>1. Gone(k + 1) = Gone(k)
        BY ONLY <2>4, <2>5
      <3>2. f[k + 1] = f[k]
        BY ONLY <2>3, <2>5
      <3> QED
        BY ONLY <2>2, <3>1, <3>2
    <2>6. CASE c \in gone
      <3>1. Gone(k + 1) = Gone(k) \cup {c}
        BY ONLY <2>4, <2>6
      <3>2. f[k + 1] = Unlinked(f[k], c)
        BY ONLY <2>3, <2>6
      <3>3. c \in Members(m)
        BY <2>1 DEF Members, n
      <3>4. c \notin Gone(k)
        <4> SUFFICES ASSUME NEW j \in 1 .. k, cs[j] = c PROVE FALSE
          OBVIOUS
        <4>1. j \in 1 .. Len(cs) /\ k + 1 \in 1 .. Len(cs) /\ j # k + 1
          BY ONLY <2>1, j \in 1 .. k DEF n
        <4> QED
          BY <4>1
      <3>5. PICK p \in 1 .. Len(t) : t[p] = c
        <4> HIDE DEF Gone, c
        <4>1. c \in Members(t)
          BY ONLY <2>2, <3>3, <3>4
        <4> QED
          BY ONLY <4>1 DEF Members
      <3>6. Links(Unlinked(f[k], c), Removed(t, p)) /\ Members(Removed(t, p)) = Members(t) \ {c}
        BY <2>2, <3>5, UnlinkedTakes
      <3>7. Members(Removed(t, p)) = Members(m) \ Gone(k + 1)
        <4> HIDE DEF Gone, c
        <4> QED
          BY ONLY <2>2, <3>1, <3>6
      <3> QED
        BY ONLY <3>2, <3>6, <3>7
    <2> QED
      BY ONLY <2>5, <2>6
  <1>9. T = Nat
    <2> HIDE DEF T
    <2>1. T \in SUBSET Nat
      BY DEF T
    <2> QED
      BY ONLY <2>1, <1>7, <1>8, SetInduction
  <1>10. \E t : Links(f[n], t) /\ Members(t) = Members(m) \ Gone(n)
    BY ONLY <1>9, <1>1
  <1>11. Gone(n) = Members(cs) \cap gone
    BY DEF Members, n
  <1> HIDE DEF Gone
  <1> QED
    BY ONLY <1>2, <1>10, <1>11

-----------------------------------------------------------------------------
(* The number of connections of an address. *)

Opened(cn) == {c \in Conns : cn[c] = "open"}
Of(o, a) == {c \in o : Addr[c] = a}

LEMMA OfFinite ==
    ASSUME NEW o \in SUBSET Conns, NEW a
    PROVE  IsFiniteSet(Of(o, a)) /\ Cardinality(Of(o, a)) \in Nat
  <1>1. IsFiniteSet(Conns) /\ Of(o, a) \in SUBSET Conns
    BY ListenerAssumption DEF Of
  <1> QED
    BY ONLY <1>1, FS_Subset, FS_CardinalityType

LEMMA Fewer ==
    ASSUME NEW o \in SUBSET Conns, NEW p \in SUBSET o, NEW a
    PROVE  Cardinality(Of(p, a)) <= Cardinality(Of(o, a))
  <1>1. Of(p, a) \in SUBSET Of(o, a)
    BY DEF Of
  <1> QED
    BY <1>1, OfFinite, FS_Subset

\* check_num_connections counts what it walks over.
LEMMA Counted ==
    ASSUME NEW l, NEW m, Links(l, m), NEW a
    PROVE  Cardinality({i \in DOMAIN m : Addr[m[i]] = a}) = Cardinality(Of(Members(m), a))
  <1> DEFINE S == {i \in DOMAIN m : Addr[m[i]] = a}
             T == Of(Members(m), a)
             f == [i \in S |-> m[i]]
  <1>1. DOMAIN m = 1 .. Len(m) /\ Len(m) \in Nat /\ \A i, j \in 1 .. Len(m) : m[i] = m[j] => i = j
    BY DEF Links
  <1>2. f \in Bijection(S, T)
    <2>1. f \in [S -> T]
      BY <1>1 DEF Of, Members
    <2>2. \A i, j \in S : f[i] = f[j] => i = j
      BY <1>1
    <2>3. \A t \in T : \E i \in S : f[i] = t
      BY <1>1 DEF Of, Members
    <2> HIDE DEF S, T, f
    <2>4. DOMAIN f = S
      BY ONLY <2>1
    <2> QED
      BY ONLY <2>1, <2>2, <2>3, <2>4 DEF Bijection, Injection, Surjection, IsInjective
  <1>3. IsFiniteSet(S)
    <2>1. S \in SUBSET (1 .. Len(m)) /\ 1 \in Int /\ Len(m) \in Int
      BY <1>1
    <2>2. IsFiniteSet(1 .. Len(m))
      BY ONLY <2>1, FS_Interval
    <2> QED
      BY ONLY <2>1, <2>2, FS_Subset
  <1> HIDE DEF S, T, f
  <1>4. Cardinality(T) = Cardinality(S)
    BY ONLY <1>2, <1>3, FS_Bijection DEF ExistsBijection
  <1> QED
    BY ONLY <1>4 DEF S, T

-----------------------------------------------------------------------------
(* The invariant. *)

Kinds == {"m1", "m2", "hd", "hb", "b", "c", "LF", "tok", "nul"}
Unit == Kinds \X Nat \X Nat

LType ==
    /\ world \in DOMAIN Worlds
    /\ transport \in {"T_TCP", "T_KRB5"} /\ config \in World.configs /\ hups \in Nat /\ ticks \in Nat
    /\ conn \in [Conns -> {"none", "pending", "open", "closed"}]
    /\ bufptr \in [Conns -> 0 .. MAX] /\ r \in 0 .. MAX
    /\ buffer \in [Conns -> [1 .. MAX + 1 -> Unit]]
    /\ peer \in [Conns -> {"up", "fin", "reset"}]
    /\ wire \in [Conns -> Seq(Unit)] /\ sent \in [Conns -> Seq(World.messages)]
    /\ client_active \in [Conns -> BOOLEAN] /\ quiet \in [Conns -> Nat]

\* The connection whose handler runs is open until the handler returns.
LHandler ==
    /\ step \in {"loop", "read", "more"}
    /\ step = "loop" => io = 0
    /\ step # "loop" => io \in Conns /\ conn[io] = "open" /\ bufptr[io] + r <= MAX

LChain == \E m : Links(chain, m) /\ Members(m) = Opened(conn)

LQuiet == \A c \in Conns : conn[c] = "open" => client_active[c] \/ quiet[c] >= 1

LLimit == hups = 0 => \A a \in Range(Addr) : Cardinality(Of(Opened(conn), a)) <= config.max_per_addr

LInv == LType /\ LHandler /\ LChain /\ LQuiet /\ LLimit

LEMMA CountsNat == LInv => hups \in Nat /\ ticks \in Nat
  BY Zenon DEF LInv, LType

LEMMA WorldIs ==
    ASSUME LType
    PROVE  /\ World.transport \in {"T_TCP", "T_KRB5"} /\ config.max_per_addr \in Nat \ {0}
           /\ \A m \in World.messages : m.kind \in {"event", "heartbeat", "line", "token"} /\ m.len \in Nat
  <1>1. World \in Range(Worlds)
    BY DEF LType, World, Range
  <1>2. config \in World.configs
    BY DEF LType
  <1> HIDE DEF World
  <1> QED
    BY <1>1, <1>2, ListenerAssumption

LEMMA ClientsAre ==
    ASSUME NEW m, Links(chain, m)
    PROVE  Clients = m /\ Range(Clients) = Members(m)
  <1>1. Clients = m
    BY WalkIs DEF Clients
  <1>2. DOMAIN m = 1 .. Len(m)
    BY DEF Links
  <1> QED
    BY ONLY <1>1, <1>2 DEF Range, Members

LEMMA LInit == Init => LInv
  <1> SUFFICES ASSUME Init PROVE LInv
    OBVIOUS
  <1> USE DEF Init
  <1>1. MAX \in Nat
    BY ListenerAssumption
  <1>2. World \in Range(Worlds)
    BY DEF World, Range
  <1>3. World.transport \in {"T_TCP", "T_KRB5"} /\ \A f \in World.configs : f.max_per_addr \in Nat
    <2> HIDE DEF World
    <2> QED
      BY <1>2, ListenerAssumption
  <1>4. LType
    <2> HIDE DEF World
    <2>1. NUL \in Unit
      BY DEF NUL, Unit, Kinds
    <2> QED
      BY <1>1, <1>3, <2>1 DEF LType
  <1>5. LHandler /\ LQuiet
    BY DEF LHandler, LQuiet
  <1>6. Opened(conn) = {}
    BY DEF Opened
  <1>7. LChain
    <2>1. Links(NoClients, <<>>)
      BY NotNull DEF Links, NoClients, Pointers
    <2>2. Members(<<>>) = {}
      BY DEF Members
    <2> QED
      BY <1>6, <2>1, <2>2 DEF LChain
  <1>8. LLimit
    <2>1. \A a : Of(Opened(conn), a) = {}
      BY <1>6 DEF Of
    <2>2. config.max_per_addr \in Nat
      BY <1>3
    <2> QED
      BY ONLY <2>1, <2>2, FS_EmptySet DEF LLimit
  <1> QED
    BY ONLY <1>4, <1>5, <1>7, <1>8 DEF LInv

\* The steps that leave the list and the open connections alone.
LEMMA KeepsClients ==
    ASSUME LChain, LLimit, UNCHANGED <<chain, config, hups>>, Opened(conn)' = Opened(conn)
    PROVE  LChain' /\ LLimit'
  <1>1. LChain'
    BY DEF LChain
  <1>2. LLimit'
    <2> HIDE DEF Opened
    <2> QED
      BY DEF LLimit, Of
  <1> QED
    BY ONLY <1>1, <1>2

-----------------------------------------------------------------------------
(* What is read. *)

LEMMA UnitsTyped ==
    ASSUME NEW m, m.kind \in {"event", "heartbeat", "line", "token"}, m.len \in Nat, NEW n \in Nat
    PROVE  Units(m, n) \in Seq(Unit)
  <1>1. \A kind \in Kinds : Body(kind, n, m.len) \in Seq(Unit)
    BY DEF Body, Unit
  <1>2. \A kind \in Kinds : \A k \in Nat : <<kind, n, k>> \in Unit
    BY DEF Unit
  <1>3. Body("b", n, m.len) \in Seq(Unit) /\ Body("c", n, m.len) \in Seq(Unit)
    BY ONLY <1>1 DEF Kinds
  <1>4. /\ <<"m1", n, 0>> \in Unit /\ <<"m2", n, 0>> \in Unit /\ <<"hd", n, m.len>> \in Unit
        /\ <<"hb", n, m.len>> \in Unit /\ <<"LF", n, 0>> \in Unit /\ <<"tok", n, m.len>> \in Unit
    BY <1>2 DEF Kinds
  <1> HIDE DEF Unit
  <1>5. CASE m.kind = "event"
    BY ONLY <1>3, <1>4, <1>5 DEF Units
  <1>6. CASE m.kind = "heartbeat"
    BY ONLY <1>3, <1>4, <1>6 DEF Units
  <1>7. CASE m.kind = "line"
    BY ONLY <1>3, <1>4, <1>7 DEF Units
  <1>8. CASE m.kind = "token"
    BY ONLY <1>3, <1>4, <1>8 DEF Units
  <1> QED
    BY <1>5, <1>6, <1>7, <1>8

\* A message that is found ends where what was read ends, or before.
LEMMA MessageFits ==
    ASSUME NEW b \in [1 .. MAX + 1 -> Unit], NEW old \in Nat, NEW n \in 0 .. MAX, old <= n
    PROVE  MessageSize(b, old, n) \in 0 .. n
  <1>1. MAX \in Nat /\ MAX >= 3
    BY ListenerAssumption
  <1>2. b[1] \in Unit /\ b[3] \in Unit
    BY <1>1
  <1>3. b[1][3] \in Nat /\ b[3][3] \in Nat
    BY ONLY <1>2 DEF Unit
  <1>4. TokenSize(b, n) \in 0 .. n
    BY <1>1, <1>3 DEF TokenSize
  <1>5. ManagedSize(b, n) \in 0 .. n
    BY <1>1, <1>3 DEF ManagedSize, HEADER
  <1>6. LineSize(b, old, n) \in 0 .. n
    <2>1. CASE \E i \in old + 1 .. n : b[i][1] = "LF"
      <3> DEFINE T == {i \in old + 1 .. n : b[i][1] = "LF"}
                 First(i) == b[i][1] = "LF" /\ \A j \in old + 1 .. i - 1 : b[j][1] # "LF"
      <3>1. T \in SUBSET Nat /\ T # {}
        BY <2>1, <1>1
      <3>2. PICK i \in T : \A j \in T : i <= j
        BY ONLY <3>1, LeastElement
      <3>3. First(i)
        <4> SUFFICES ASSUME NEW j \in old + 1 .. i - 1, b[j][1] = "LF" PROVE FALSE
          BY <3>2
        <4>1. i \in old + 1 .. n /\ i \in Nat /\ j \in old + 1 .. n /\ j < i
          BY <3>2, <1>1
        <4> QED
          BY <4>1, <3>2
      <3>4. \E k \in old + 1 .. n : First(k)
        BY ONLY <3>3, <3>2
      <3>5. LineSize(b, old, n) = CHOOSE k \in old + 1 .. n : First(k)
        BY <2>1 DEF LineSize
      <3> HIDE DEF First
      <3>6. LineSize(b, old, n) \in old + 1 .. n
        BY ONLY <3>4, <3>5
      <3> QED
        BY <3>6, <1>1
    <2>2. CASE ~\E i \in old + 1 .. n : b[i][1] = "LF"
      BY <2>2, <1>1 DEF LineSize
    <2> QED
      BY ONLY <2>1, <2>2
  <1> QED
    BY ONLY <1>4, <1>5, <1>6 DEF MessageSize

-----------------------------------------------------------------------------
(* The clients. *)

LEMMA ConnectKeeps == ASSUME LInv, NEW c \in Conns, Connect(c) PROVE LInv'
  <1> USE DEF Connect, setup, client, handler, network, results
  <1>1. LType' /\ LHandler' /\ LQuiet'
    <2>1. LType'
      BY DEF LInv, LType, World
    <2> QED
      BY <2>1 DEF LInv, LType, LHandler, LQuiet
  <1>2. Opened(conn)' = Opened(conn)
    BY DEF LInv, LType, Opened
  <1>3. LChain' /\ LLimit'
    BY <1>2, KeepsClients DEF LInv
  <1> QED
    BY ONLY <1>1, <1>3 DEF LInv

LEMMA SendKeeps ==
    ASSUME LInv, NEW c \in Conns, NEW m \in World.messages, Send(c, m) PROVE LInv'
  <1> USE DEF Send, setup, client, handler, network, results
  <1>1. LType'
    <2>1. Len(sent[c]) + 1 \in Nat
      BY DEF LInv, LType
    <2>2. m.kind \in {"event", "heartbeat", "line", "token"} /\ m.len \in Nat
      BY WorldIs DEF LInv
    <2>3. Units(m, Len(sent[c]) + 1) \in Seq(Unit)
      BY ONLY <2>1, <2>2, UnitsTyped
    <2>4. wire[c] \in Seq(Unit) /\ sent[c] \in Seq(World.messages)
      BY DEF LInv, LType
    <2>5. wire[c] \o Units(m, Len(sent[c]) + 1) \in Seq(Unit) /\ Append(sent[c], m) \in Seq(World.messages)
      <3>1. \A u, v \in Seq(Unit) : u \o v \in Seq(Unit)
        OBVIOUS
      <3>2. wire[c] \o Units(m, Len(sent[c]) + 1) \in Seq(Unit)
        BY ONLY <2>3, <2>4, <3>1
      <3>3. Append(sent[c], m) \in Seq(World.messages)
        <4>1. \A S : \A q \in Seq(S) : \A x \in S : Append(q, x) \in Seq(S)
          OBVIOUS
        <4>2. m \in World.messages
          OBVIOUS
        <4> QED
          BY ONLY <2>4, <4>1, <4>2
      <3> QED
        BY ONLY <3>2, <3>3
    <2>6. wire' \in [Conns -> Seq(Unit)] /\ sent' \in [Conns -> Seq(World.messages)]
      BY <2>5 DEF LInv, LType
    <2>7. World' = World
      BY DEF World
    <2> QED
      BY <2>6, <2>7 DEF LInv, LType
  <1>2. LHandler' /\ LQuiet'
    BY DEF LInv, LHandler, LQuiet
  <1>3. Opened(conn)' = Opened(conn)
    BY DEF Opened
  <1>4. LChain' /\ LLimit'
    BY <1>3, KeepsClients DEF LInv
  <1> QED
    BY ONLY <1>1, <1>2, <1>4 DEF LInv

LEMMA CloseKeeps == ASSUME LInv, NEW c \in Conns, CloseOrReset(c) PROVE LInv'
  <1> USE DEF setup, client, handler, network, results
  <1>1. /\ UNCHANGED <<setup, chain, conn, client, handler, sent, results, quiet>>
        /\ \/ /\ peer' = [peer EXCEPT ![c] = "fin"]
              /\ \E k \in 0 .. Len(wire[c]) : wire' = [wire EXCEPT ![c] = SubSeq(@, 1, k)]
           \/ /\ peer' = [peer EXCEPT ![c] = "reset"]
              /\ wire' = [wire EXCEPT ![c] = <<>>]
    BY DEF CloseOrReset
  <1>2. LType'
    <2>1. wire \in [Conns -> Seq(Unit)] /\ peer \in [Conns -> {"up", "fin", "reset"}]
      BY DEF LInv, LType
    <2>2. peer' \in [Conns -> {"up", "fin", "reset"}]
      BY ONLY <2>1, <1>1
    <2>3. wire[c] \in Seq(Unit) /\ Len(wire[c]) \in Nat
      BY <2>1
    <2>4. \A k \in 0 .. Len(wire[c]) : SubSeq(wire[c], 1, k) \in Seq(Unit)
      BY ONLY <2>3
    <2>5. wire' \in [Conns -> Seq(Unit)]
      <3> HIDE DEF Unit
      <3>1. <<>> \in Seq(Unit)
        OBVIOUS
      <3> QED
        BY ONLY <2>1, <2>4, <1>1, <3>1
    <2>6. World' = World
      BY <1>1 DEF World
    <2> QED
      BY <1>1, <2>2, <2>5, <2>6 DEF LInv, LType
  <1>3. LHandler' /\ LQuiet'
    BY <1>1 DEF LInv, LHandler, LQuiet
  <1>4. Opened(conn)' = Opened(conn)
    BY <1>1 DEF Opened
  <1>5. LChain' /\ LLimit'
    BY <1>1, <1>4, KeepsClients DEF LInv
  <1> QED
    BY ONLY <1>2, <1>3, <1>5 DEF LInv

-----------------------------------------------------------------------------
(* The client handler. *)

LEMMA CallKeeps == ASSUME LInv, NEW c \in Conns, CallHandler(c) PROVE LInv'
  <1> USE DEF CallHandler, setup, network, results
  <1>1. MAX \in Nat /\ c # 0
    BY ListenerAssumption
  <1>2. LType'
    <2>1. World' = World
      BY DEF World
    <2>2. client_active' \in [Conns -> BOOLEAN] /\ quiet' \in [Conns -> Nat]
      BY DEF LInv, LType
    <2> QED
      BY <1>1, <2>1, <2>2 DEF LInv, LType
  <1>3. LHandler'
    BY <1>1 DEF LInv, LType, LHandler
  <1>4. LQuiet'
    <2>1. \A k \in Conns : k = c => client_active'[k]
      BY DEF LInv, LType
    <2>2. \A k \in Conns : k # c => client_active'[k] = client_active[k] /\ quiet'[k] = quiet[k]
      BY DEF LInv, LType
    <2> QED
      BY <2>1, <2>2 DEF LInv, LQuiet
  <1>5. Opened(conn)' = Opened(conn)
    BY DEF Opened
  <1>6. LChain' /\ LLimit'
    BY <1>5, KeepsClients DEF LInv
  <1> QED
    BY ONLY <1>2, <1>3, <1>4, <1>6 DEF LInv

LEMMA ReadSomeKeeps == ASSUME LInv, ReadSome PROVE LInv'
  <1> USE DEF setup, results
  <1>1. /\ step = "read" /\ step' = "more"
        /\ UNCHANGED <<setup, chain, conn, bufptr, client_active, io, peer, sent, results, quiet>>
    BY DEF ReadSome
  <1>2. PICK k \in 1 .. Len(wire[io]) :
         /\ k <= MAX - bufptr[io]
         /\ buffer' = [buffer EXCEPT ![io] = [i \in 1 .. MAX + 1 |->
                         IF i - bufptr[io] \in 1 .. k THEN wire[io][i - bufptr[io]]
                         ELSE buffer[io][i]]]
         /\ wire' = [wire EXCEPT ![io] = SubSeq(@, k + 1, Len(@))]
         /\ r' = k
    BY DEF ReadSome
  <1>3. io \in Conns /\ conn[io] = "open"
    BY <1>1 DEF LInv, LHandler
  <1>4. /\ MAX \in Nat /\ bufptr[io] \in 0 .. MAX /\ wire[io] \in Seq(Unit) /\ Len(wire[io]) \in Nat
        /\ buffer[io] \in [1 .. MAX + 1 -> Unit]
    BY <1>3, ListenerAssumption DEF LInv, LType
  <1>5. k \in Nat /\ k <= MAX /\ bufptr[io] + k <= MAX /\ k <= Len(wire[io])
    BY ONLY <1>2, <1>4
  <1>6. buffer' \in [Conns -> [1 .. MAX + 1 -> Unit]]
    <2> DEFINE new == [i \in 1 .. MAX + 1 |-> IF i - bufptr[io] \in 1 .. k THEN wire[io][i - bufptr[io]]
                                              ELSE buffer[io][i]]
    <2>1. ASSUME NEW i \in 1 .. MAX + 1 PROVE new[i] \in Unit
      <3>1. CASE i - bufptr[io] \in 1 .. k
        <4>1. i - bufptr[io] \in 1 .. Len(wire[io])
          BY ONLY <3>1, <1>4, <1>5, i \in 1 .. MAX + 1
        <4>2. wire[io][i - bufptr[io]] \in Unit
          BY ONLY <4>1, <1>4
        <4> QED
          BY ONLY <3>1, <4>2, <2>1
      <3>2. CASE ~(i - bufptr[io] \in 1 .. k)
        <4>1. buffer[io][i] \in Unit
          BY ONLY <1>4, <2>1
        <4> QED
          BY ONLY <3>2, <4>1, <2>1
      <3> QED
        BY ONLY <3>1, <3>2
    <2>2. new \in [1 .. MAX + 1 -> Unit]
      BY ONLY <2>1
    <2>3. buffer' = [buffer EXCEPT ![io] = new]
      BY <1>2
    <2> HIDE DEF new
    <2>4. buffer \in [Conns -> [1 .. MAX + 1 -> Unit]]
      BY DEF LInv, LType
    <2> QED
      BY ONLY <2>2, <2>3, <2>4
  <1>7. wire' \in [Conns -> Seq(Unit)]
    <2>1. SubSeq(wire[io], k + 1, Len(wire[io])) \in Seq(Unit)
      BY ONLY <1>4, <1>5
    <2>2. wire \in [Conns -> Seq(Unit)]
      BY DEF LInv, LType
    <2> QED
      BY ONLY <1>2, <2>1, <2>2
  <1>8. LType'
    <2>1. World' = World
      BY <1>1 DEF World
    <2>2. r' \in 0 .. MAX
      BY ONLY <1>2, <1>4, <1>5
    <2> QED
      BY <1>1, <1>6, <1>7, <2>1, <2>2 DEF LInv, LType
  <1>9. LHandler' /\ LQuiet'
    <2>1. r' = k
      BY <1>2
    <2> QED
      BY <1>1, <1>3, <1>5, <2>1 DEF LInv, LHandler, LQuiet
  <1>10. Opened(conn)' = Opened(conn)
    BY <1>1 DEF Opened
  <1>11. LChain' /\ LLimit'
    BY <1>1, <1>10, KeepsClients DEF LInv
  <1> QED
    BY ONLY <1>8, <1>9, <1>11 DEF LInv

LEMMA ReadAllKeeps == ASSUME LInv, ReadAll PROVE LInv'
  <1> USE DEF ReadAll, Return, setup, client, network, results
  <1>1. LType'
    <2>1. World' = World
      BY DEF World
    <2>2. 0 \in 0 .. MAX
      BY ListenerAssumption
    <2> QED
      BY <2>1, <2>2 DEF LInv, LType
  <1>2. LHandler' /\ LQuiet'
    BY DEF LInv, LHandler, LQuiet
  <1>3. Opened(conn)' = Opened(conn)
    BY DEF Opened
  <1>4. LChain' /\ LLimit'
    BY <1>3, KeepsClients DEF LInv
  <1> QED
    BY ONLY <1>1, <1>2, <1>4 DEF LInv

LEMMA MoreKeeps == ASSUME LInv, MoreMessages PROVE LInv'
  <1> USE DEF setup, network
  <1> DEFINE b == buffer[io]
             n == bufptr[io] + r
             i == MessageSize(b, bufptr[io], n)
  <1>1. /\ step = "more"
        /\ UNCHANGED <<setup, chain, conn, client_active, network, quiet>>
    BY DEF MoreMessages
  <1>2. \/ i = 0 /\ bufptr' = [bufptr EXCEPT ![io] = n] /\ Return /\ UNCHANGED buffer
        \/ /\ i # 0 /\ buffer' = [buffer EXCEPT ![io] = Moved(b, i, n)]
           /\ bufptr' = [bufptr EXCEPT ![io] = 0]
           /\ r' = n - i
           /\ step' = IF n > i THEN "more" ELSE "read"
           /\ UNCHANGED io
    BY DEF MoreMessages
  <1>3. io \in Conns /\ conn[io] = "open" /\ bufptr[io] + r <= MAX
    BY <1>1 DEF LInv, LHandler
  <1>4. MAX \in Nat /\ bufptr[io] \in 0 .. MAX /\ r \in 0 .. MAX /\ b \in [1 .. MAX + 1 -> Unit]
    BY <1>3, ListenerAssumption DEF LInv, LType
  <1>5. bufptr[io] \in Nat /\ n \in 0 .. MAX /\ bufptr[io] <= n
    BY ONLY <1>3, <1>4
  <1>6. i \in 0 .. n
    BY ONLY <1>4, <1>5, MessageFits
  <1>7. Moved(b, i, n) \in [1 .. MAX + 1 -> Unit]
    <2> HIDE DEF i, n, b
    <2>1. ASSUME NEW k \in 1 .. MAX + 1, k <= n - i PROVE k + i \in 1 .. MAX + 1
      BY ONLY <1>4, <1>5, <1>6, <2>1
    <2> QED
      BY ONLY <1>4, <2>1 DEF Moved
  <1> HIDE DEF i, n, b
  <1>8. /\ bufptr' \in [Conns -> 0 .. MAX] /\ r' \in 0 .. MAX
        /\ buffer' \in [Conns -> [1 .. MAX + 1 -> Unit]]
    <2>1. bufptr \in [Conns -> 0 .. MAX] /\ buffer \in [Conns -> [1 .. MAX + 1 -> Unit]]
      BY DEF LInv, LType
    <2>2. 0 \in 0 .. MAX /\ n - i \in 0 .. MAX
      BY ONLY <1>4, <1>5, <1>6
    <2> QED
      BY ONLY <2>1, <2>2, <1>2, <1>5, <1>7 DEF Return
  <1>9. LType'
    <2>1. World' = World
      BY <1>1 DEF World
    <2> QED
      BY <1>1, <1>8, <2>1 DEF LInv, LType
  <1>10. LHandler'
    <2>1. CASE i = 0
      BY <2>1, <1>1, <1>2 DEF LHandler, Return
    <2>2. CASE i # 0
      <3>1. bufptr'[io] = 0 /\ io' = io /\ r' = n - i /\ step' \in {"more", "read"}
        BY <2>2, <1>2, <1>3 DEF LInv, LType
      <3>2. bufptr'[io] + r' <= MAX
        BY ONLY <3>1, <1>4, <1>5, <1>6
      <3> QED
        BY <3>1, <3>2, <1>1, <1>3 DEF LHandler
    <2> QED
      BY ONLY <2>1, <2>2
  <1>11. LQuiet'
    BY <1>1 DEF LInv, LQuiet
  <1>12. Opened(conn)' = Opened(conn)
    BY <1>1 DEF Opened
  <1>13. LChain' /\ LLimit'
    BY <1>1, <1>12, KeepsClients DEF LInv
  <1> QED
    BY ONLY <1>9, <1>10, <1>11, <1>13 DEF LInv

-----------------------------------------------------------------------------
(* Connections that begin and end. *)

\* The handlers that release clients.
LEMMA ReleasedKeeps ==
    ASSUME LType, LChain, LLimit, NEW cs \in Seq(Conns), NEW gone \in SUBSET Opened(conn),
           \A i, j \in 1 .. Len(cs) : cs[i] = cs[j] => i = j,
           gone \subseteq Members(cs), Members(cs) \subseteq Opened(conn),
           Released(cs, gone), UNCHANGED <<config, hups>>
    PROVE  /\ Opened(conn)' = Opened(conn) \ gone
           /\ LChain' /\ LLimit'
  <1>1. Opened(conn)' = Opened(conn) \ gone
    BY DEF Released, Opened, LType
  <1>2. LChain'
    <2>1. PICK m : Links(chain, m) /\ Members(m) = Opened(conn)
      BY DEF LChain
    <2>2. PICK t : /\ Links(Without(chain, cs, gone), t)
                   /\ Members(t) = Members(m) \ (Members(cs) \cap gone)
      BY <2>1, WithoutTakes
    <2>3. Members(cs) \cap gone = gone
      OBVIOUS
    <2>4. Members(t) = Opened(conn)'
      BY ONLY <1>1, <2>1, <2>2, <2>3
    <2>5. chain' = Without(chain, cs, gone)
      BY DEF Released
    <2> QED
      BY ONLY <2>2, <2>4, <2>5 DEF LChain
  <1>3. LLimit'
    <2> SUFFICES ASSUME hups = 0, NEW a \in Range(Addr)
                 PROVE  Cardinality(Of(Opened(conn)', a)) <= config.max_per_addr
      BY DEF LLimit
    <2> DEFINE o == Opened(conn)
               p == Opened(conn)'
    <2>1. o \in SUBSET Conns /\ p \in SUBSET o /\ p \in SUBSET Conns
      BY <1>1 DEF Opened
    <2>2. Cardinality(Of(o, a)) <= config.max_per_addr
      BY DEF LLimit
    <2>3. config.max_per_addr \in Nat
      BY WorldIs
    <2> HIDE DEF o, p
    <2>4. /\ Cardinality(Of(p, a)) <= Cardinality(Of(o, a))
          /\ Cardinality(Of(p, a)) \in Nat /\ Cardinality(Of(o, a)) \in Nat
      BY ONLY <2>1, Fewer, OfFinite, ListenerAssumption
    <2>5. Cardinality(Of(p, a)) <= config.max_per_addr
      BY ONLY <2>2, <2>3, <2>4
    <2> QED
      BY ONLY <2>5 DEF p
  <1> QED
    BY ONLY <1>1, <1>2, <1>3

LEMMA AcceptKeeps == ASSUME LInv, NEW c \in Conns, auditd_tcp_listen_handler(c) PROVE LInv'
  <1> USE DEF setup, network, handler, results
  <1>1. /\ step = "loop" /\ conn[c] = "pending"
        /\ UNCHANGED <<setup, network, handler, results, buffer, bufptr, quiet>>
    BY DEF auditd_tcp_listen_handler
  <1>2. \/ conn' = [conn EXCEPT ![c] = "closed"] /\ UNCHANGED <<chain, client_active>>
        \/ /\ ~check_num_connections(Addr[c])
           /\ conn' = [conn EXCEPT ![c] = "open"]
           /\ chain' = Linked(chain, c)
           /\ client_active' = [client_active EXCEPT ![c] = TRUE]
    BY DEF auditd_tcp_listen_handler, Refused, StartsActive
  <1>3. World' = World
    BY <1>1 DEF World
  <1>4. conn \in [Conns -> {"none", "pending", "open", "closed"}] /\ client_active \in [Conns -> BOOLEAN]
    BY DEF LInv, LType
  <1>5. LType'
    <2>1. conn' \in [Conns -> {"none", "pending", "open", "closed"}] /\ client_active' \in [Conns -> BOOLEAN]
      BY ONLY <1>2, <1>4
    <2> QED
      BY <1>1, <1>3, <2>1 DEF LInv, LType
  <1>6. LHandler'
    BY <1>1 DEF LInv, LHandler
  <1>7. CASE conn' = [conn EXCEPT ![c] = "closed"] /\ UNCHANGED <<chain, client_active>>
    <2>1. Opened(conn)' = Opened(conn)
      BY <1>1, <1>4, <1>7 DEF Opened
    <2>2. LChain' /\ LLimit'
      BY <1>1, <1>7, <2>1, KeepsClients DEF LInv
    <2>3. LQuiet'
      BY <1>1, <1>4, <1>7 DEF LInv, LQuiet
    <2> QED
      BY ONLY <1>5, <1>6, <2>2, <2>3 DEF LInv
  <1>8. CASE /\ ~check_num_connections(Addr[c])
             /\ conn' = [conn EXCEPT ![c] = "open"]
             /\ chain' = Linked(chain, c)
             /\ client_active' = [client_active EXCEPT ![c] = TRUE]
    <2> DEFINE o == Opened(conn)
    <2>1. Opened(conn)' = o \cup {c} /\ c \notin o /\ o \in SUBSET Conns
      BY <1>1, <1>4, <1>8 DEF Opened
    <2>2. PICK m : Links(chain, m) /\ Members(m) = o
      BY DEF LInv, LChain
    <2>3. LChain'
      <3>1. Links(Linked(chain, c), Pushed(c, m)) /\ Members(Pushed(c, m)) = Members(m) \cup {c}
        BY <2>1, <2>2, LinkedPuts
      <3> HIDE DEF o
      <3> QED
        BY ONLY <3>1, <2>1, <2>2, <1>8 DEF LChain
    <2>4. LQuiet'
      <3>1. \A k \in Conns : IF k = c THEN client_active'[k]
                             ELSE client_active'[k] = client_active[k] /\ conn'[k] = conn[k]
        BY ONLY <1>4, <1>8
      <3> QED
        BY <3>1, <1>1 DEF LInv, LQuiet
    <2>5. LLimit'
      <3> SUFFICES ASSUME hups = 0, NEW a \in Range(Addr)
                   PROVE  Cardinality(Of(Opened(conn)', a)) <= config.max_per_addr
        BY <1>1 DEF LLimit
      <3>1. config.max_per_addr \in Nat
        BY WorldIs DEF LInv
      <3>2. IsFiniteSet(Of(o, a)) /\ Cardinality(Of(o, a)) \in Nat
        BY ONLY <2>1, OfFinite, ListenerAssumption
      <3>3. CASE Addr[c] # a
        <4>1. Of(Opened(conn)', a) = Of(o, a)
          BY ONLY <2>1, <3>3 DEF Of
        <4>2. Cardinality(Of(o, a)) <= config.max_per_addr
          BY DEF LInv, LLimit
        <4> QED
          BY ONLY <4>1, <4>2
      <3>4. CASE Addr[c] = a
        <4>1. Of(Opened(conn)', a) = Of(o, a) \cup {c} /\ c \notin Of(o, a)
          <5> HIDE DEF o
          <5> QED
            BY ONLY <2>1, <3>4 DEF Of
        <4>2. Clients = m
          BY <2>2, ClientsAre
        <4>3. Cardinality({i \in DOMAIN m : Addr[m[i]] = a}) = Cardinality(Of(o, a))
          BY ONLY <2>2, Counted, ListenerAssumption
        <4>4. ~(Cardinality(Of(o, a)) >= config.max_per_addr)
          BY ONLY <1>8, <3>4, <4>2, <4>3 DEF check_num_connections
        <4> HIDE DEF o
        <4>5. Cardinality(Of(o, a) \cup {c}) = Cardinality(Of(o, a)) + 1
          BY ONLY <3>2, <4>1, FS_AddElement
        <4>6. Cardinality(Of(o, a) \cup {c}) <= config.max_per_addr
          BY ONLY <3>1, <3>2, <4>4, <4>5
        <4> QED
          BY ONLY <4>1, <4>6
      <3> QED
        BY ONLY <3>3, <3>4
    <2> QED
      BY ONLY <1>5, <1>6, <2>3, <2>4, <2>5 DEF LInv
  <1> QED
    BY ONLY <1>2, <1>7, <1>8

LEMMA ReadEndsKeeps == ASSUME LInv, ReadEnds PROVE LInv'
  <1> USE DEF setup, client, network
  <1>1. /\ step = "read" /\ Released(<<io>>, {io}) /\ Return
        /\ UNCHANGED <<setup, client, network, quiet>>
    BY DEF ReadEnds
  <1>2. io \in Conns /\ conn[io] = "open"
    BY <1>1 DEF LInv, LHandler
  <1>3. conn' = [c \in Conns |-> IF c \in {io} THEN "closed" ELSE conn[c]]
    BY <1>1 DEF Released
  <1>4. conn \in [Conns -> {"none", "pending", "open", "closed"}]
    BY DEF LInv, LType
  <1>5. LType'
    <2>1. World' = World
      BY <1>1 DEF World
    <2>2. conn' \in [Conns -> {"none", "pending", "open", "closed"}]
      BY ONLY <1>3, <1>4
    <2>3. r' \in 0 .. MAX
      BY <1>1, ListenerAssumption DEF Return
    <2> QED
      BY <1>1, <2>1, <2>2, <2>3 DEF LInv, LType
  <1>6. LHandler'
    BY <1>1 DEF LHandler, Return
  <1>7. LQuiet'
    BY <1>1, <1>3 DEF LInv, LQuiet
  <1>8. LChain' /\ LLimit'
    <2> DEFINE cs == <<io>>
    <2>1. cs \in Seq(Conns) /\ Len(cs) = 1 /\ cs[1] = io
      BY <1>2
    <2>2. Members(cs) = {io}
      <3>1. 1 .. Len(cs) = {1}
        BY ONLY <2>1
      <3> QED
        BY ONLY <2>1, <3>1 DEF Members
    <2>3. \A i, j \in 1 .. Len(cs) : cs[i] = cs[j] => i = j
      BY ONLY <2>1
    <2>4. {io} \in SUBSET Opened(conn)
      BY <1>2 DEF Opened
    <2>5. Released(cs, {io}) /\ UNCHANGED <<config, hups>>
      BY <1>1
    <2> HIDE DEF cs
    <2> QED
      BY <2>1, <2>2, <2>3, <2>4, <2>5, ReleasedKeeps DEF LInv
  <1> QED
    BY ONLY <1>5, <1>6, <1>7, <1>8 DEF LInv

LEMMA PeriodicKeeps == ASSUME LInv, periodic_handler PROVE LInv'
  <1> USE DEF network, handler, results
  <1> DEFINE gone == {c \in Range(Clients) : ~client_active[c]}
  <1>1. /\ step = "loop" /\ Released(Clients, gone)
        /\ client_active' = [c \in Conns |-> client_active[c] /\ c \notin Range(Clients)]
        /\ quiet' = [c \in Conns |-> IF conn[c] = "open" THEN quiet[c] + 1 ELSE quiet[c]]
        /\ ticks' = ticks + 1
        /\ UNCHANGED <<transport, config, listening, hups, world, network, handler, results, buffer, bufptr>>
    BY DEF periodic_handler
  <1>2. PICK m : Links(chain, m) /\ Members(m) = Opened(conn)
    BY DEF LInv, LChain
  <1>3. Clients = m /\ Range(Clients) = Opened(conn)
    BY <1>2, ClientsAre
  <1>4. gone \in SUBSET Opened(conn)
    BY <1>3
  <1> HIDE DEF gone
  <1>5. conn' = [c \in Conns |-> IF c \in gone THEN "closed" ELSE conn[c]]
    BY <1>1 DEF Released
  <1>6. /\ conn \in [Conns -> {"none", "pending", "open", "closed"}]
        /\ client_active \in [Conns -> BOOLEAN] /\ quiet \in [Conns -> Nat]
    BY DEF LInv, LType
  <1>7. LType'
    <2>1. World' = World
      BY <1>1 DEF World
    <2>2. conn' \in [Conns -> {"none", "pending", "open", "closed"}]
      BY ONLY <1>5, <1>6
    <2>3. client_active' \in [Conns -> BOOLEAN] /\ quiet' \in [Conns -> Nat]
      <3>1. client_active' \in [Conns -> BOOLEAN]
        BY ONLY <1>1, <1>6
      <3>2. quiet' \in [Conns -> Nat]
        BY ONLY <1>1, <1>6
      <3> QED
        BY ONLY <3>1, <3>2
    <2>4. /\ world' \in DOMAIN Worlds /\ transport' \in {"T_TCP", "T_KRB5"}
          /\ config' \in World'.configs /\ hups' \in Nat /\ ticks' \in Nat
      <3>1. hups \in Nat /\ ticks \in Nat
        BY CountsNat
      <3>2. hups' \in Nat /\ ticks' \in Nat
        BY ONLY <1>1, <3>1
      <3>3. /\ world' \in DOMAIN Worlds /\ transport' \in {"T_TCP", "T_KRB5"}
            /\ config' \in World'.configs
        BY <1>1, <2>1, Zenon DEF LInv, LType
      <3> QED
        BY ONLY <3>2, <3>3
    <2>5. /\ bufptr' \in [Conns -> 0 .. MAX] /\ r' \in 0 .. MAX
          /\ buffer' \in [Conns -> [1 .. MAX + 1 -> Unit]]
          /\ peer' \in [Conns -> {"up", "fin", "reset"}]
          /\ wire' \in [Conns -> Seq(Unit)] /\ sent' \in [Conns -> Seq(World'.messages)]
      BY <1>1, <2>1 DEF LInv, LType
    <2> QED
      BY ONLY <2>2, <2>3, <2>4, <2>5 DEF LType
  <1>8. LHandler'
    BY <1>1 DEF LInv, LHandler
  <1>9. LQuiet'
    <2>1. ASSUME NEW c \in Conns, conn'[c] = "open" PROVE quiet'[c] >= 1
      <3>1. conn[c] = "open"
        BY <1>5, <2>1
      <3>2. quiet'[c] = quiet[c] + 1 /\ quiet[c] \in Nat
        BY <3>1, <1>1, <1>6
      <3> QED
        BY ONLY <3>2
    <2> QED
      BY <2>1 DEF LQuiet
  <1>10. LChain' /\ LLimit'
    <2>1. m \in Seq(Conns) /\ \A i, j \in 1 .. Len(m) : m[i] = m[j] => i = j
      BY <1>2 DEF Links
    <2>2. Released(m, gone) /\ UNCHANGED <<config, hups>>
      BY <1>1, <1>3
    <2> QED
      BY <1>2, <1>4, <2>1, <2>2, ReleasedKeeps DEF LInv
  <1> QED
    BY ONLY <1>7, <1>8, <1>9, <1>10 DEF LInv

LEMMA UninitKeeps == ASSUME LInv, auditd_tcp_listen_uninit PROVE LInv'
  <1> USE DEF network, handler, client
  <1>1. /\ step = "loop" /\ Released(Clients, Range(Clients)) /\ transport' = "T_TCP"
        /\ UNCHANGED <<config, client, handler, network, logged, quiet, ticks, hups, world>>
    BY DEF auditd_tcp_listen_uninit
  <1>2. PICK m : Links(chain, m) /\ Members(m) = Opened(conn)
    BY DEF LInv, LChain
  <1>3. Clients = m /\ Range(Clients) = Opened(conn)
    BY <1>2, ClientsAre
  <1>4. conn' = [c \in Conns |-> IF c \in Range(Clients) THEN "closed" ELSE conn[c]]
    BY <1>1 DEF Released
  <1>5. conn \in [Conns -> {"none", "pending", "open", "closed"}]
    BY DEF LInv, LType
  <1>6. LType'
    <2>1. World' = World
      BY <1>1 DEF World
    <2>2. conn' \in [Conns -> {"none", "pending", "open", "closed"}]
      BY ONLY <1>4, <1>5
    <2> QED
      BY <1>1, <2>1, <2>2 DEF LInv, LType
  <1>7. LHandler'
    BY <1>1 DEF LInv, LHandler
  <1>8. LQuiet'
    BY <1>1, <1>4 DEF LInv, LQuiet
  <1>9. LChain' /\ LLimit'
    <2>1. m \in Seq(Conns) /\ \A i, j \in 1 .. Len(m) : m[i] = m[j] => i = j
      BY <1>2 DEF Links
    <2>2. Released(m, Opened(conn)) /\ UNCHANGED <<config, hups>>
      BY <1>1, <1>3
    <2>3. Opened(conn) \in SUBSET Opened(conn)
      OBVIOUS
    <2> QED
      BY <1>2, <2>1, <2>2, <2>3, ReleasedKeeps DEF LInv
  <1> QED
    BY ONLY <1>6, <1>7, <1>8, <1>9 DEF LInv

LEMMA ReconfigureKeeps == ASSUME LInv, auditd_tcp_listen_reconfigure PROVE LInv'
  <1> USE DEF auditd_tcp_listen_reconfigure, client, handler, network, results
  <1>1. LType'
    <2>1. World' = World
      BY DEF World
    <2>2. hups' \in Nat
      <3>1. hups \in Nat
        BY CountsNat
      <3>2. hups' = hups + 1
        BY Zenon
      <3> QED
        BY ONLY <3>1, <3>2
    <2>3. /\ world' \in DOMAIN Worlds /\ transport' \in {"T_TCP", "T_KRB5"}
          /\ config' \in World'.configs /\ hups' \in Nat /\ ticks' \in Nat
      BY <2>1, <2>2 DEF LInv, LType
    <2>4. /\ bufptr' \in [Conns -> 0 .. MAX] /\ r' \in 0 .. MAX
          /\ buffer' \in [Conns -> [1 .. MAX + 1 -> Unit]]
          /\ peer' \in [Conns -> {"up", "fin", "reset"}]
          /\ wire' \in [Conns -> Seq(Unit)] /\ sent' \in [Conns -> Seq(World'.messages)]
      BY <2>1 DEF LInv, LType
    <2>5. /\ conn' \in [Conns -> {"none", "pending", "open", "closed"}]
          /\ client_active' \in [Conns -> BOOLEAN] /\ quiet' \in [Conns -> Nat]
      BY DEF LInv, LType
    <2> QED
      BY ONLY <2>3, <2>4, <2>5 DEF LType
  <1>2. LHandler' /\ LQuiet'
    BY DEF LInv, LHandler, LQuiet
  <1>3. LChain'
    BY DEF LInv, LChain, Opened
  <1>4. LLimit'
    <2>1. hups' # 0
      <3>1. hups \in Nat
        BY CountsNat
      <3>2. hups' = hups + 1
        BY Zenon
      <3> QED
        BY ONLY <3>1, <3>2
    <2> QED
      BY <2>1 DEF LLimit
  <1> QED
    BY ONLY <1>1, <1>2, <1>3, <1>4 DEF LInv

LEMMA LNext == LInv /\ [Next]_vars => LInv'
  <1> SUFFICES ASSUME LInv, [Next]_vars PROVE LInv'
    OBVIOUS
  <1>1. CASE \E c \in Conns : Connect(c) \/ CloseOrReset(c) \/ \E m \in World.messages : Send(c, m)
    BY <1>1, ConnectKeeps, CloseKeeps, SendKeeps
  <1>2. CASE \E c \in Conns : auditd_tcp_listen_handler(c) \/ CallHandler(c)
    BY <1>2, AcceptKeeps, CallKeeps
  <1>3. CASE ClientHandler
    BY <1>3, ReadSomeKeeps, ReadAllKeeps, ReadEndsKeeps, MoreKeeps DEF ClientHandler
  <1>4. CASE periodic_handler
    BY <1>4, PeriodicKeeps
  <1>5. CASE auditd_tcp_listen_reconfigure
    BY <1>5, ReconfigureKeeps
  <1>6. CASE auditd_tcp_listen_uninit
    BY <1>6, UninitKeeps
  <1>7. CASE UNCHANGED vars
    <2> USE <1>7 DEF vars
    <2>1. LType'
      BY DEF LInv, LType, World
    <2>2. LHandler' /\ LQuiet'
      BY DEF LInv, LHandler, LQuiet
    <2>3. Opened(conn)' = Opened(conn)
      BY DEF Opened
    <2>4. LChain' /\ LLimit'
      BY <2>3, KeepsClients DEF LInv
    <2> QED
      BY ONLY <2>1, <2>2, <2>4 DEF LInv
  <1> QED
    BY <1>1, <1>2, <1>3, <1>4, <1>5, <1>6, <1>7 DEF Next

LEMMA LSound == LInv => ClientsSound
  <1> SUFFICES ASSUME LInv PROVE ClientsSound
    OBVIOUS
  <1>1. PICK m : Links(chain, m) /\ Members(m) = Opened(conn)
    BY DEF LInv, LChain
  <1>2. Clients = m /\ Range(Clients) = Opened(conn) /\ DOMAIN m = 1 .. Len(m)
    BY <1>1, ClientsAre DEF Links
  <1>3. TypeOK
    <2>1. chain.head \in Ptr /\ chain.next \in [Conns -> Ptr] /\ chain.prev \in [Conns -> Ptr]
      BY <1>1 DEF Links, Pointers
    <2>2. io \in Ptr /\ step \in {"loop", "read", "more"} /\ (step = "loop") = (io = 0)
      BY NotNull DEF LInv, LHandler
    <2>3. \A c \in Conns : bufptr[c] + r <= MAX \/ c # io
      BY NotNull DEF LInv, LHandler
    <2> QED
      BY <2>1, <2>2, <2>3 DEF LInv, LType, TypeOK
  <1>4. ChainIsOpen
    <2>1. IsInjective(m)
      BY <1>1, <1>2 DEF Links, IsInjective
    <2>2. \A i \in DOMAIN m : chain.prev[m[i]] = IF i = 1 THEN 0 ELSE m[i - 1]
      BY <1>1, <1>2 DEF Links
    <2> QED
      BY ONLY <1>2, <2>1, <2>2 DEF ChainIsOpen, Opened
  <1>5. PerAddress
    <2>1. \A a : {c \in Conns : conn[c] = "open" /\ Addr[c] = a} = Of(Opened(conn), a)
      BY DEF Of, Opened
    <2>2. LLimit
      BY DEF LInv
    <2> QED
      BY ONLY <2>1, <2>2 DEF PerAddress, LLimit
  <1> QED
    BY ONLY <1>3, <1>4, <1>5 DEF ClientsSound

\* However clients come, send, end, fall idle and are released, and whatever
\* SIGHUP changes, client_chain links exactly the connections auditd has open,
\* each once, no read goes past the end of a buffer, and until the first SIGHUP no
\* address has more connections than tcp_max_per_addr (auditd_tcp_listen_handler,
\* release_client, auditd_tcp_client_handler).
THEOREM ClientsAreSound == Spec => []ClientsSound
  BY LInit, LNext, LSound, PTL DEF Spec

LEMMA IdleStep ==
    ASSUME LInv, Next
    PROVE  \A c \in Conns : ticks' > ticks /\ conn[c] = "open" /\ conn'[c] = "closed" => quiet[c] >= 1
  <1> SUFFICES ASSUME NEW c \in Conns, ticks' > ticks, conn[c] = "open", conn'[c] = "closed"
               PROVE  quiet[c] >= 1
    OBVIOUS
  <1>1. CASE periodic_handler
    <2>1. conn'[c] = IF c \in Range(Clients) /\ ~client_active[c] THEN "closed" ELSE conn[c]
      BY <1>1 DEF periodic_handler, Released
    <2>2. ~client_active[c]
      BY <2>1
    <2> QED
      BY <2>2 DEF LInv, LQuiet
  <1>2. CASE UNCHANGED ticks
    <2>1. ticks \in Nat
      BY CountsNat
    <2> QED
      BY <1>2, <2>1
  <1>3. periodic_handler \/ UNCHANGED ticks
    <2>1. CASE \E d \in Conns : Connect(d) \/ CloseOrReset(d) \/ \E m \in World.messages : Send(d, m)
      <3>1. \A d \in Conns : Connect(d) \/ CloseOrReset(d) => UNCHANGED ticks
        BY Zenon DEF Connect, CloseOrReset, setup
      <3>2. \A d \in Conns, m \in World.messages : Send(d, m) => UNCHANGED ticks
        BY Zenon DEF Send, setup
      <3> QED
        BY <2>1, <3>1, <3>2, Zenon
    <2>2. CASE \E d \in Conns : auditd_tcp_listen_handler(d) \/ CallHandler(d)
      BY <2>2 DEF auditd_tcp_listen_handler, CallHandler, setup
    <2>3. CASE ClientHandler
      BY <2>3 DEF ClientHandler, ReadSome, ReadAll, ReadEnds, MoreMessages, setup
    <2>4. CASE auditd_tcp_listen_reconfigure \/ auditd_tcp_listen_uninit
      BY <2>4 DEF auditd_tcp_listen_reconfigure, auditd_tcp_listen_uninit, setup
    <2> QED
      BY <2>1, <2>2, <2>3, <2>4 DEF Next
  <1> QED
    BY ONLY <1>1, <1>2, <1>3

\* The timer closes a connection only after a whole period in which the client's
\* handler was not called once (periodic_handler, client_active).
THEOREM IdleIsIdle == Spec => IdleMeansIdle
  <1>1. LInv /\ [Next]_vars =>
          [\A c \in Conns : ticks' > ticks /\ conn[c] = "open" /\ conn'[c] = "closed"
               => quiet[c] >= 1]_vars
    BY IdleStep
  <1> QED
    BY <1>1, LInit, LNext, PTL DEF Spec, IdleMeansIdle
=============================================================================
