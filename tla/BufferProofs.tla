----------------------------- MODULE BufferProofs -----------------------------
(***************************************************************************)
(* Proofs about the two buffers bytes pass through on their way to a line: *)
(* the line reader of audisp-syslog (SyslogPlugin), for every stream, any   *)
(* size of its buffer and of the caller's and every way in which reads cut *)
(* the stream; and the buffer of a feed (DataBuf), for every number and    *)
(* size of the pieces.                                                     *)
(***************************************************************************)
EXTENDS SyslogPlugin, DataBuf, SequenceTheorems, WellFoundedInduction, TLAPS

-----------------------------------------------------------------------------
(* Induction, with the property as a set of numbers. *)

LEMMA LessIsWellFounded == IsWellFoundedOn({p \in Nat \X Nat : p[1] < p[2]}, Nat)
  BY ONLY NatLessThanWellFounded DEF OpToRel

LEMMA LeastElement ==
    ASSUME NEW T \in SUBSET Nat, T # {}
    PROVE  \E n \in T : \A m \in T : n <= m
  <1> DEFINE R == {p \in Nat \X Nat : p[1] < p[2]}
  <1>1. IsWellFoundedOn(R, Nat)
    BY LessIsWellFounded
  <1>2. PICK x \in T : \A y \in T : ~(<<y, x>> \in R)
    <2> HIDE DEF R
    <2> QED BY ONLY <1>1, WFMin, T \subseteq Nat, T # {}
  <1>3. \A y \in T : ~(y < x)
    BY <1>2
  <1> QED
    BY <1>3

LEMMA SetInduction ==
    ASSUME NEW S \in SUBSET Nat, 0 \in S, \A n \in S : n + 1 \in S
    PROVE  S = Nat
  <1> SUFFICES ASSUME Nat \ S # {} PROVE FALSE
    OBVIOUS
  <1>1. PICK n \in Nat \ S : \A m \in Nat \ S : n <= m
    BY LeastElement
  <1>2. n # 0 /\ n - 1 \in Nat /\ n - 1 \in S
    BY <1>1
  <1> QED
    BY <1>2

-----------------------------------------------------------------------------
(* Sequences. *)

LEMMA Joined ==
    ASSUME NEW S, NEW s \in Seq(S), NEW a \in Nat, NEW b \in Nat, a <= b, b <= Len(s)
    PROVE  SubSeq(s, 1, a) \o SubSeq(s, a + 1, b) = SubSeq(s, 1, b)
  <1>1. Len(s) \in Nat
    OBVIOUS
  <1>2. 1 \in 1 .. Len(s) + 1 /\ a \in 1 - 1 .. Len(s) /\ b \in a .. Len(s)
    BY <1>1
  <1> QED
    BY ONLY <1>2, s \in Seq(S), ConcatAdjacentSubSeq

\* The first n of a sequence and the rest.
LEMMA Divided ==
    ASSUME NEW S, NEW s \in Seq(S), NEW n \in 0 .. Len(s)
    PROVE  /\ SubSeq(s, 1, n) \in Seq(S) /\ Len(SubSeq(s, 1, n)) = n
           /\ \A i \in 1 .. n : SubSeq(s, 1, n)[i] = s[i]
           /\ SubSeq(s, n + 1, Len(s)) \in Seq(S) /\ Len(SubSeq(s, n + 1, Len(s))) = Len(s) - n
           /\ SubSeq(s, 1, n) \o SubSeq(s, n + 1, Len(s)) = s
  <1>1. Len(s) \in Nat /\ n \in Nat /\ n <= Len(s)
    OBVIOUS
  <1>2. SubSeq(s, 1, n) \o SubSeq(s, n + 1, Len(s)) = SubSeq(s, 1, Len(s))
    <2> DEFINE m == Len(s)
    <2>1. m \in Nat /\ n \in Nat /\ n <= m /\ m <= Len(s)
      BY <1>1
    <2> HIDE DEF m
    <2>2. SubSeq(s, 1, n) \o SubSeq(s, n + 1, m) = SubSeq(s, 1, m)
      BY ONLY <2>1, s \in Seq(S), Joined
    <2> QED
      BY ONLY <2>2 DEF m
  <1>3. SubSeq(s, 1, Len(s)) = s
    BY ONLY s \in Seq(S), SubSeqFull
  <1>4. /\ SubSeq(s, 1, n) \in Seq(S) /\ Len(SubSeq(s, 1, n)) = n
        /\ \A i \in 1 .. n : SubSeq(s, 1, n)[i] = s[i]
    BY <1>1
  <1>5. SubSeq(s, n + 1, Len(s)) \in Seq(S) /\ Len(SubSeq(s, n + 1, Len(s))) = Len(s) - n
    BY <1>1
  <1> QED
    BY ONLY <1>2, <1>3, <1>4, <1>5

Flattened(q, b, f) == f = [i \in 1 .. b |-> IF i = 1 THEN q[i] ELSE f[i - 1] \o q[i]]

LEMMA FlattenExists ==
    ASSUME NEW q, NEW n \in Nat
    PROVE  \E f : Flattened(q, n, f)
  <1> DEFINE T == {b \in Nat : \E f : Flattened(q, b, f)}
  <1>1. 0 \in T
    <2> DEFINE g == [i \in 1 .. 0 |-> <<>>]
    <2>1. Flattened(q, 0, g)
      BY DEF Flattened
    <2> QED
      BY ONLY <2>1
  <1>2. ASSUME NEW b \in T PROVE b + 1 \in T
    <2>1. PICK g : Flattened(q, b, g)
      OBVIOUS
    <2>2. b \in Nat /\ b + 1 \in Nat
      OBVIOUS
    <2> DEFINE h == [i \in 1 .. b + 1 |-> IF i = b + 1 THEN (IF i = 1 THEN q[i] ELSE g[i - 1] \o q[i]) ELSE g[i]]
    <2>3. ASSUME NEW i \in 1 .. b + 1
          PROVE  h[i] = IF i = 1 THEN q[i] ELSE h[i - 1] \o q[i]
      <3>1. CASE i = b + 1
        <4>1. i # 1 => i - 1 \in 1 .. b + 1 /\ i - 1 # b + 1
          BY ONLY <3>1, <2>2, <2>3
        <4>2. i # 1 => h[i - 1] = g[i - 1]
          BY ONLY <4>1
        <4> QED
          BY ONLY <3>1, <4>2, <2>3
      <3>2. CASE i # b + 1
        <4>1. i \in 1 .. b /\ (i # 1 => i - 1 \in 1 .. b + 1 /\ i - 1 # b + 1)
          BY ONLY <3>2, <2>2, <2>3
        <4>2. h[i] = g[i] /\ (i # 1 => h[i - 1] = g[i - 1])
          BY ONLY <4>1, <3>2, <2>3
        <4>3. g[i] = IF i = 1 THEN q[i] ELSE g[i - 1] \o q[i]
          BY ONLY <4>1, <2>1 DEF Flattened
        <4> QED
          BY ONLY <4>2, <4>3
      <3> QED
        BY ONLY <3>1, <3>2
    <2>4. h = [i \in 1 .. b + 1 |-> h[i]]
      OBVIOUS
    <2> HIDE DEF h
    <2>5. Flattened(q, b + 1, h)
      BY ONLY <2>3, <2>4 DEF Flattened
    <2> QED
      BY ONLY <2>2, <2>5
  <1>3. T = Nat
    <2> HIDE DEF T
    <2>1. T \in SUBSET Nat
      BY DEF T
    <2> QED
      BY ONLY <2>1, <1>1, <1>2, SetInduction
  <1> QED
    BY ONLY <1>3, n \in Nat

LEMMA FlattenIs ==
    ASSUME NEW q, NEW n \in Nat, Len(q) = n, n # 0
    PROVE  \E f : Flattened(q, n, f) /\ FlattenSeq(q) = f[n]
  <1> DEFINE f == CHOOSE f : Flattened(q, n, f)
  <1>1. Flattened(q, n, f)
    BY FlattenExists
  <1>2. FlattenSeq(q) = f[n]
    BY DEF FlattenSeq, Flattened
  <1> QED
    BY ONLY <1>1, <1>2

\* A line more.
LEMMA FlattenAppend ==
    ASSUME NEW S, NEW q \in Seq(Seq(S)), NEW s \in Seq(S)
    PROVE  /\ FlattenSeq(q) \in Seq(S)
           /\ FlattenSeq(Append(q, s)) = FlattenSeq(q) \o s
  <1> DEFINE n == Len(q)
             t == Append(q, s)
  <1>1. n \in Nat /\ Len(t) = n + 1 /\ t[n + 1] = s /\ \A i \in 1 .. n : t[i] = q[i] /\ q[i] \in Seq(S)
    OBVIOUS
  <1>2. CASE n = 0
    <2>1. q = <<>> /\ FlattenSeq(q) = q
      BY <1>2 DEF FlattenSeq
    <2>2. Len(t) = 1 /\ 1 # 0 /\ 1 \in Nat /\ t[1] = s
      BY ONLY <1>1, <1>2
    <2>3. PICK f : Flattened(t, 1, f) /\ FlattenSeq(t) = f[1]
      <3> HIDE DEF t
      <3> QED
        BY ONLY <2>2, FlattenIs
    <2>4. FlattenSeq(t) = s
      BY ONLY <2>2, <2>3 DEF Flattened
    <2>5. <<>> \in Seq(S) /\ <<>> \o s = s
      OBVIOUS
    <2> QED
      BY ONLY <2>1, <2>4, <2>5
  <1>3. CASE n # 0
    <2> HIDE DEF t, n
    <2>0. n + 1 \in Nat /\ n + 1 # 0 /\ n \in 1 .. n /\ n + 1 \in 1 .. n + 1 /\ n + 1 # 1 /\ (n + 1) - 1 = n
      BY ONLY <1>1, <1>3
    <2>1. PICK f : Flattened(q, n, f) /\ FlattenSeq(q) = f[n]
      BY ONLY <1>1, <1>3, FlattenIs DEF n
    <2>2. PICK g : Flattened(t, n + 1, g) /\ FlattenSeq(t) = g[n + 1]
      BY ONLY <1>1, <2>0, FlattenIs
    <2> DEFINE T == {i \in Nat : i + 1 \in 1 .. n => g[i + 1] = f[i + 1] /\ f[i + 1] \in Seq(S)}
    <2>3. 0 \in T
      <3>1. 1 \in 1 .. n /\ 1 \in 1 .. n + 1 /\ 0 + 1 = 1
        BY ONLY <1>1, <1>3
      <3>2. f[1] = q[1] /\ g[1] = t[1] /\ t[1] = q[1] /\ q[1] \in Seq(S)
        BY ONLY <3>1, <1>1, <2>1, <2>2 DEF Flattened
      <3> QED
        BY ONLY <3>1, <3>2
    <2>4. ASSUME NEW i \in T PROVE i + 1 \in T
      <3> SUFFICES ASSUME (i + 1) + 1 \in 1 .. n
                   PROVE  g[(i + 1) + 1] = f[(i + 1) + 1] /\ f[(i + 1) + 1] \in Seq(S)
        OBVIOUS
      <3> DEFINE j == i + 1
      <3>1. i \in Nat /\ j \in 1 .. n /\ j + 1 \in 1 .. n /\ j + 1 \in 1 .. n + 1 /\ j + 1 # 1 /\ (j + 1) - 1 = j
        BY <1>1
      <3>2. g[j] = f[j] /\ f[j] \in Seq(S)
        BY ONLY <2>4, <3>1
      <3> HIDE DEF j
      <3>3. f[j + 1] = f[j] \o q[j + 1]
        BY ONLY <3>1, <2>1 DEF Flattened
      <3>4. g[j + 1] = g[j] \o t[j + 1]
        BY ONLY <3>1, <2>2 DEF Flattened
      <3>5. t[j + 1] = q[j + 1] /\ q[j + 1] \in Seq(S)
        BY ONLY <3>1, <1>1
      <3>6. f[j] \o q[j + 1] \in Seq(S)
        BY ONLY <3>2, <3>5, ConcatProperties
      <3> QED
        BY ONLY <3>2, <3>3, <3>4, <3>5, <3>6 DEF j
    <2>5. T = Nat
      <3> HIDE DEF T
      <3>1. T \in SUBSET Nat
        BY DEF T
      <3> QED
        BY ONLY <3>1, <2>3, <2>4, SetInduction
    <2>6. g[n] = f[n] /\ f[n] \in Seq(S)
      <3>1. n - 1 \in Nat /\ (n - 1) + 1 = n
        BY ONLY <1>1, <1>3
      <3>2. n - 1 \in T
        BY ONLY <3>1, <2>5
      <3> QED
        BY ONLY <3>1, <3>2, <2>0
    <2>7. g[n + 1] = g[n] \o t[n + 1]
      BY ONLY <2>0, <2>2 DEF Flattened
    <2> QED
      BY ONLY <1>1, <2>1, <2>2, <2>6, <2>7 DEF t
  <1> QED
    BY ONLY <1>2, <1>3

-----------------------------------------------------------------------------
(* The line reader. *)

Byte == {"x", "nl"}

LEMMA FirstIs ==
    ASSUME NEW b \in Seq(Byte), HasLine(b)
    PROVE  /\ FirstNewline(b) \in 1 .. Len(b) /\ b[FirstNewline(b)] = "nl"
           /\ \A j \in 1 .. FirstNewline(b) - 1 : b[j] # "nl"
  <1> DEFINE T == {i \in 1 .. Len(b) : b[i] = "nl"}
             P(i) == b[i] = "nl" /\ \A j \in 1 .. i - 1 : b[j] # "nl"
  <1>1. DOMAIN b = 1 .. Len(b) /\ Len(b) \in Nat
    OBVIOUS
  <1>2. T \in SUBSET Nat /\ T # {}
    BY <1>1 DEF HasLine
  <1>3. PICK i \in T : \A j \in T : i <= j
    BY ONLY <1>2, LeastElement
  <1>4. P(i)
    <2> SUFFICES ASSUME NEW j \in 1 .. i - 1, b[j] = "nl" PROVE FALSE
      BY <1>3
    <2>1. i \in 1 .. Len(b) /\ j \in 1 .. Len(b) /\ j < i /\ i \in Nat
      BY <1>1, <1>3
    <2> QED
      BY <2>1, <1>3
  <1>5. \E k \in DOMAIN b : P(k)
    BY ONLY <1>1, <1>3, <1>4
  <1>6. FirstNewline(b) = CHOOSE k \in DOMAIN b : P(k)
    BY DEF FirstNewline
  <1>7. FirstNewline(b) \in DOMAIN b /\ P(FirstNewline(b))
    <2> HIDE DEF P
    <2> QED
      BY ONLY <1>5, <1>6
  <1> QED
    BY ONLY <1>1, <1>7

\* What audit_fgets takes is there, and is a line or as much as fits.
LEMMA LineIs ==
    ASSUME NEW b \in Seq(Byte)
    PROVE  /\ LineLen(b) \in 0 .. Len(b) /\ LineLen(b) <= Blen - 1
           /\ (LineLen(b) = 0) <=> ~audit_fgets_more(b)
           /\ \A i \in 1 .. LineLen(b) - 1 : b[i] # "nl"
           /\ LineLen(b) # 0 => b[LineLen(b)] = "nl" \/ LineLen(b) = Blen - 1
  <1>1. Len(b) \in Nat /\ DOMAIN b = 1 .. Len(b) /\ Blen \in Nat /\ Blen >= 2
    BY SyslogAssumption
  <1>2. CASE HasLine(b)
    <2> DEFINE f == FirstNewline(b)
    <2>1. f \in 1 .. Len(b) /\ b[f] = "nl" /\ \A j \in 1 .. f - 1 : b[j] # "nl"
      BY <1>2, FirstIs
    <2>2. LineLen(b) = IF f < Blen - 1 THEN f ELSE Blen - 1
      BY <1>2 DEF LineLen
    <2>3. audit_fgets_more(b)
      BY <1>2 DEF audit_fgets_more
    <2> HIDE DEF f
    <2>4. CASE f < Blen - 1
      BY ONLY <2>1, <2>2, <2>3, <2>4, <1>1
    <2>5. CASE ~(f < Blen - 1)
      <3>1. LineLen(b) = Blen - 1 /\ Blen - 1 \in 0 .. Len(b) /\ Blen - 1 # 0 /\ Blen - 1 <= Blen - 1
        BY ONLY <2>1, <2>2, <2>5, <1>1
      <3>2. \A i \in 1 .. (Blen - 1) - 1 : i \in 1 .. f - 1
        BY ONLY <2>1, <2>5, <1>1
      <3> QED
        BY ONLY <2>1, <2>3, <3>1, <3>2
    <2> QED
      BY ONLY <2>4, <2>5
  <1>3. CASE ~HasLine(b)
    <2>1. \A i \in 1 .. Len(b) : b[i] # "nl"
      BY <1>1, <1>3 DEF HasLine
    <2>2. LineLen(b) = IF Len(b) >= Blen - 1 THEN Blen - 1 ELSE 0
      BY <1>3 DEF LineLen
    <2>3. audit_fgets_more(b) <=> Len(b) >= Blen - 1
      BY <1>3 DEF audit_fgets_more
    <2>4. CASE Len(b) >= Blen - 1
      <3>1. LineLen(b) = Blen - 1 /\ Blen - 1 \in 0 .. Len(b) /\ Blen - 1 # 0 /\ Blen - 1 <= Blen - 1
        BY ONLY <2>2, <2>4, <1>1
      <3>2. \A i \in 1 .. (Blen - 1) - 1 : i \in 1 .. Len(b)
        BY ONLY <2>4, <1>1
      <3> QED
        BY ONLY <2>1, <2>3, <2>4, <3>1, <3>2
    <2>5. CASE ~(Len(b) >= Blen - 1)
      BY ONLY <2>2, <2>3, <2>5, <1>1
    <2> QED
      BY ONLY <2>4, <2>5
  <1> QED
    BY ONLY <1>2, <1>3

-----------------------------------------------------------------------------
(* The invariant. *)

SType ==
    /\ sstream \in Seq(Byte) /\ written \in 0 .. Len(sstream) /\ taken \in 0 .. written
    /\ sbuffer \in Seq(Byte) /\ tmp \in Seq(Byte) /\ out \in Seq(Seq(Byte))
    /\ spc \in {"select", "lines", "exited"}

\* The end of the input is seen only when there is no more of it.
SEnd == eof => taken = written /\ closed

SExit == spc = "exited" /\ ~sstop => eof

SInv == SType /\ SEnd /\ SExit /\ SysStream

Cuts(o) ==
    \A k \in DOMAIN o :
         LET n == Len(o[k])
         IN /\ n \in 1..Blen - 1
            /\ \A i \in 1..n - 1 : o[k][i] # "nl"
            /\ o[k][n] = "nl" \/ n = Blen - 1

LEMMA LinesAre == SysLines <=> (~readFailed => FlattenSeq(out) \o sbuffer = SubSeq(sstream, 1, taken) /\ Cuts(out))
  BY DEF SysLines, Cuts

LEMMA SInit == SysInit => SInv
  <1> SUFFICES ASSUME SysInit PROVE SInv
    OBVIOUS
  <1> USE DEF SysInit, SysStart
  <1>1. sstream \in Seq(Byte)
    BY SyslogAssumption DEF Byte
  <1>2. SType /\ SEnd /\ SExit
    BY <1>1 DEF SType, SEnd, SExit
  <1>3. SysLines
    <2>1. FlattenSeq(out) = <<>>
      BY DEF FlattenSeq
    <2>2. <<>> \o sbuffer = <<>> /\ SubSeq(sstream, 1, taken) = <<>>
      BY <1>1
    <2>3. Cuts(out)
      BY DEF Cuts
    <2> QED
      BY <2>1, <2>2, <2>3, LinesAre
  <1>4. SysNoBlock /\ SysDrained
    BY DEF SysNoBlock, SysDrained, HasLine
  <1> QED
    BY ONLY <1>2, <1>3, <1>4 DEF SInv, SysStream

\* audit_fgets moves a line from the buffer to the caller, or nothing.
LEMMA FgetsKeeps ==
    ASSUME tmp \in Seq(Byte), out \in Seq(Seq(Byte)), NEW b \in Seq(Byte), audit_fgets(b)
    PROVE  /\ sbuffer' \in Seq(Byte) /\ tmp' \in Seq(Byte) /\ out' \in Seq(Seq(Byte))
           /\ FlattenSeq(out') \o sbuffer' = FlattenSeq(out) \o b
           /\ Cuts(out) => Cuts(out')
  <1> DEFINE n == LineLen(b)
             u == SubSeq(b, 1, n)
             v == SubSeq(b, n + 1, Len(b))
  <1>1. /\ sbuffer' = v
        /\ n > 0 => tmp' = u /\ out' = Append(out, u)
        /\ ~(n > 0) => tmp' = tmp /\ out' = out
    BY DEF audit_fgets
  <1>2. /\ n \in 0 .. Len(b) /\ n <= Blen - 1
        /\ \A i \in 1 .. n - 1 : b[i] # "nl"
        /\ n # 0 => b[n] = "nl" \/ n = Blen - 1
    BY LineIs
  <1> HIDE DEF n
  <1>3. u \in Seq(Byte) /\ Len(u) = n /\ (\A i \in 1 .. n : u[i] = b[i]) /\ v \in Seq(Byte) /\ u \o v = b
    BY ONLY <1>2, b \in Seq(Byte), Divided
  <1> HIDE DEF u, v
  <1>4. FlattenSeq(out) \in Seq(Byte) /\ FlattenSeq(Append(out, u)) = FlattenSeq(out) \o u
    BY <1>3, FlattenAppend
  <1>5. Blen \in Nat /\ n \in Nat
    BY <1>2, SyslogAssumption
  <1>6. CASE n > 0
    <2>1. Append(out, u) \in Seq(Seq(Byte))
      BY <1>3
    <2>2. (FlattenSeq(out) \o u) \o v = FlattenSeq(out) \o (u \o v)
      <3> DEFINE w == FlattenSeq(out)
      <3>1. w \in Seq(Byte) /\ u \in Seq(Byte) /\ v \in Seq(Byte)
        BY ONLY <1>3, <1>4
      <3> HIDE DEF w
      <3>2. (w \o u) \o v = w \o (u \o v)
        BY ONLY <3>1, ConcatAssociative
      <3> QED
        BY ONLY <3>2 DEF w
    <2>3. ASSUME Cuts(out) PROVE Cuts(Append(out, u))
      <3> DEFINE o == Append(out, u)
      <3>1. DOMAIN o = 1 .. Len(out) + 1 /\ DOMAIN out = 1 .. Len(out) /\ Len(out) \in Nat
        OBVIOUS
      <3>2. o[Len(out) + 1] = u /\ \A k \in 1 .. Len(out) : o[k] = out[k]
        BY <3>1
      <3> HIDE DEF o
      <3>3. ASSUME NEW k \in DOMAIN o
            PROVE  /\ Len(o[k]) \in 1 .. Blen - 1
                   /\ \A i \in 1 .. Len(o[k]) - 1 : o[k][i] # "nl"
                   /\ o[k][Len(o[k])] = "nl" \/ Len(o[k]) = Blen - 1
        <4>1. CASE k \in 1 .. Len(out)
          BY ONLY <4>1, <3>1, <3>2, <2>3 DEF Cuts
        <4>2. CASE k = Len(out) + 1
          <5>1. o[k] = u /\ n \in 1 .. Blen - 1 /\ n \in 1 .. n /\ \A i \in 1 .. n - 1 : i \in 1 .. n
            BY ONLY <4>2, <3>2, <1>2, <1>5, <1>6
          <5>2. u[n] = b[n] /\ n # 0 /\ \A i \in 1 .. n - 1 : u[i] # "nl"
            BY ONLY <5>1, <1>2, <1>3, <1>5, <1>6
          <5> QED
            BY ONLY <5>1, <5>2, <1>2, <1>3
        <4> QED
          BY ONLY <4>1, <4>2, <3>1, <3>3
      <3> QED
        BY ONLY <3>3 DEF Cuts, o
    <2> QED
      BY ONLY <1>1, <1>3, <1>4, <1>6, <2>1, <2>2, <2>3
  <1>7. CASE ~(n > 0)
    <2>1. n = 0 /\ u = <<>> /\ v = b
      <3>1. n = 0
        BY ONLY <1>5, <1>7
      <3>2. u = <<>>
        BY ONLY <3>1, <1>3
      <3>3. <<>> \o v = v
        BY ONLY <1>3
      <3> QED
        BY ONLY <1>3, <3>1, <3>2, <3>3
    <2> QED
      BY <1>1, <1>3, <1>7, <2>1
  <1> QED
    BY ONLY <1>6, <1>7

\* The loop of main goes on as long as there is a line.
LEMMA AfterKeeps ==
    ASSUME After, UNCHANGED sstop, SEnd'
    PROVE  SysNoBlock' /\ SysDrained' /\ SExit' /\ spc' \in {"select", "lines", "exited"}
  <1>1. spc' = IF audit_fgets_more(sbuffer') THEN "lines" ELSE IF eof' \/ sstop THEN "exited" ELSE "select"
    BY DEF After
  <1>2. SysNoBlock'
    BY <1>1 DEF SysNoBlock, NeedsRead, audit_fgets_more
  <1>3. SysDrained'
    BY <1>1 DEF SysDrained, SEnd, audit_fgets_more
  <1>4. SExit'
    BY <1>1 DEF SExit
  <1> QED
    BY ONLY <1>1, <1>2, <1>3, <1>4

LEMMA LineBufferedKeeps == ASSUME SInv, LineBuffered PROVE SInv'
  <1>1. /\ spc = "lines" /\ audit_fgets(sbuffer) /\ After
        /\ UNCHANGED <<sstream, written, taken, closed, readFailed, eof, sstop, shup>>
    BY DEF LineBuffered
  <1>2. SEnd'
    BY <1>1 DEF SInv, SEnd
  <1>3. SysNoBlock' /\ SysDrained' /\ SExit' /\ spc' \in {"select", "lines", "exited"}
    BY <1>1, <1>2, AfterKeeps
  <1>4. sbuffer \in Seq(Byte) /\ tmp \in Seq(Byte) /\ out \in Seq(Seq(Byte))
    BY DEF SInv, SType
  <1>5. /\ sbuffer' \in Seq(Byte) /\ tmp' \in Seq(Byte) /\ out' \in Seq(Seq(Byte))
        /\ FlattenSeq(out') \o sbuffer' = FlattenSeq(out) \o sbuffer
        /\ Cuts(out) => Cuts(out')
    BY <1>1, <1>4, FgetsKeeps
  <1>6. SType'
    BY <1>1, <1>3, <1>5 DEF SInv, SType
  <1>7. SysLines'
    <2>1. ~readFailed => FlattenSeq(out) \o sbuffer = SubSeq(sstream, 1, taken) /\ Cuts(out)
      BY LinesAre DEF SInv, SysStream
    <2> QED
      BY ONLY <1>1, <1>5, <2>1 DEF SysLines, Cuts
  <1> QED
    BY ONLY <1>2, <1>3, <1>6, <1>7 DEF SInv, SysStream

LEMMA LineEndKeeps == ASSUME SInv, LineEnd PROVE SInv'
  <1>1. /\ spc = "lines" /\ audit_fgets(sbuffer) /\ After /\ taken = written /\ closed /\ eof' = TRUE
        /\ UNCHANGED <<sstream, written, taken, closed, readFailed, sstop, shup>>
    BY DEF LineEnd
  <1>2. SEnd'
    BY <1>1 DEF SEnd
  <1>3. SysNoBlock' /\ SysDrained' /\ SExit' /\ spc' \in {"select", "lines", "exited"}
    BY <1>1, <1>2, AfterKeeps
  <1>4. sbuffer \in Seq(Byte) /\ tmp \in Seq(Byte) /\ out \in Seq(Seq(Byte))
    BY DEF SInv, SType
  <1>5. /\ sbuffer' \in Seq(Byte) /\ tmp' \in Seq(Byte) /\ out' \in Seq(Seq(Byte))
        /\ FlattenSeq(out') \o sbuffer' = FlattenSeq(out) \o sbuffer
        /\ Cuts(out) => Cuts(out')
    BY <1>1, <1>4, FgetsKeeps
  <1>6. SType'
    BY <1>1, <1>3, <1>5 DEF SInv, SType
  <1>7. SysLines'
    <2>1. ~readFailed => FlattenSeq(out) \o sbuffer = SubSeq(sstream, 1, taken) /\ Cuts(out)
      BY LinesAre DEF SInv, SysStream
    <2> QED
      BY ONLY <1>1, <1>5, <2>1 DEF SysLines, Cuts
  <1> QED
    BY ONLY <1>2, <1>3, <1>6, <1>7 DEF SInv, SysStream

LEMMA LineReadKeeps == ASSUME SInv, LineRead PROVE SInv'
  <1>1. /\ spc = "lines" /\ After /\ NeedsRead
        /\ UNCHANGED <<sstream, written, closed, readFailed, eof, sstop, shup>>
    BY DEF LineRead
  <1>2. PICK n \in 1 .. written - taken :
           taken' = taken + n /\ audit_fgets(sbuffer \o SubSeq(sstream, taken + 1, taken + n))
    BY DEF LineRead
  <1> DEFINE more == SubSeq(sstream, taken + 1, taken + n)
             b == sbuffer \o more
  <1>3. /\ sbuffer \in Seq(Byte) /\ tmp \in Seq(Byte) /\ out \in Seq(Seq(Byte)) /\ sstream \in Seq(Byte)
        /\ written \in 0 .. Len(sstream) /\ taken \in 0 .. written /\ Len(sstream) \in Nat
    BY DEF SInv, SType
  <1>4. /\ taken \in Nat /\ n \in Nat /\ taken + n \in Nat /\ taken <= taken + n /\ taken + n <= Len(sstream)
        /\ taken + n \in 0 .. written
    BY ONLY <1>2, <1>3
  <1>5. more \in Seq(Byte) /\ SubSeq(sstream, 1, taken) \o more = SubSeq(sstream, 1, taken + n)
    <2>1. more \in Seq(Byte)
      BY ONLY <1>3, <1>4
    <2>2. SubSeq(sstream, 1, taken) \o more = SubSeq(sstream, 1, taken + n)
      BY ONLY <1>3, <1>4, Joined
    <2> QED
      BY ONLY <2>1, <2>2
  <1> HIDE DEF more
  <1>6. b \in Seq(Byte)
    BY ONLY <1>3, <1>5, ConcatProperties
  <1>7. /\ sbuffer' \in Seq(Byte) /\ tmp' \in Seq(Byte) /\ out' \in Seq(Seq(Byte))
        /\ FlattenSeq(out') \o sbuffer' = FlattenSeq(out) \o b
        /\ Cuts(out) => Cuts(out')
    BY <1>2, <1>3, <1>6, FgetsKeeps DEF more
  <1>8. SEnd'
    BY <1>1 DEF SEnd, NeedsRead
  <1>9. SysNoBlock' /\ SysDrained' /\ SExit' /\ spc' \in {"select", "lines", "exited"}
    BY <1>1, <1>8, AfterKeeps
  <1>10. SType'
    BY <1>1, <1>2, <1>3, <1>4, <1>7, <1>9 DEF SType
  <1>11. SysLines'
    <2>1. ~readFailed => FlattenSeq(out) \o sbuffer = SubSeq(sstream, 1, taken) /\ Cuts(out)
      BY LinesAre DEF SInv, SysStream
    <2>2. FlattenSeq(out) \in Seq(Byte)
      BY ONLY <1>3, FlattenAppend
    <2>3. FlattenSeq(out) \o b = (FlattenSeq(out) \o sbuffer) \o more
      <3> DEFINE w == FlattenSeq(out)
      <3>1. w \in Seq(Byte) /\ sbuffer \in Seq(Byte) /\ more \in Seq(Byte)
        BY ONLY <1>3, <1>5, <2>2
      <3> HIDE DEF w
      <3>2. (w \o sbuffer) \o more = w \o (sbuffer \o more)
        BY ONLY <3>1, ConcatAssociative
      <3> QED
        BY ONLY <3>2 DEF w
    <2>4. ~readFailed' => FlattenSeq(out') \o sbuffer' = SubSeq(sstream', 1, taken') /\ Cuts(out')
      BY ONLY <1>1, <1>2, <1>5, <1>7, <2>1, <2>3
    <2> QED
      BY ONLY <2>4 DEF SysLines, Cuts
  <1> QED
    BY ONLY <1>8, <1>9, <1>10, <1>11 DEF SInv, SysStream

LEMMA LineErrorKeeps == ASSUME SInv, LineError PROVE SInv'
  <1>1. /\ spc = "lines" /\ After /\ readFailed' = TRUE /\ out' = Append(out, tmp)
        /\ UNCHANGED <<sstream, written, taken, closed, sbuffer, eof, tmp, sstop, shup>>
    BY DEF LineError
  <1>2. SEnd'
    BY <1>1 DEF SInv, SEnd
  <1>3. SysNoBlock' /\ SysDrained' /\ SExit' /\ spc' \in {"select", "lines", "exited"}
    BY <1>1, <1>2, AfterKeeps
  <1>4. Append(out, tmp) \in Seq(Seq(Byte))
    BY DEF SInv, SType
  <1>5. SType'
    BY <1>1, <1>3, <1>4 DEF SInv, SType
  <1>6. SysLines'
    BY <1>1 DEF SysLines
  <1> QED
    BY ONLY <1>2, <1>3, <1>5, <1>6 DEF SInv, SysStream

\* The steps that leave the lines alone.
LEMMA OthersKeep ==
    ASSUME SInv, Write \/ Close \/ SysSignal \/ SysSelect \/ UNCHANGED sysVars PROVE SInv'
  <1>1. UNCHANGED <<sstream, taken, readFailed, sbuffer, eof, tmp, out>>
    BY DEF Write, Close, SysSignal, SysSelect, sysVars
  <1>2. /\ written \in 0 .. Len(sstream) /\ taken \in 0 .. written /\ Len(sstream) \in Nat
    BY DEF SInv, SType
  <1>3. written' \in 0 .. Len(sstream) /\ written' >= written /\ (closed => closed' /\ written' = written)
    <2>1. CASE Write
      BY <1>2, <2>1 DEF Write
    <2>2. CASE ~Write
      BY <1>2, <2>2 DEF Close, SysSignal, SysSelect, sysVars
    <2> QED
      BY ONLY <2>1, <2>2
  <1>4. taken' \in 0 .. written'
    BY <1>1, <1>2, <1>3
  <1>5. spc' \in {"select", "lines", "exited"}
    BY DEF SInv, SType, Write, Close, SysSignal, SysSelect, sysVars
  <1>6. SType'
    BY <1>1, <1>3, <1>4, <1>5 DEF SInv, SType
  <1>7. SEnd'
    BY <1>1, <1>3 DEF SInv, SEnd
  <1>8. SysLines'
    BY <1>1 DEF SInv, SysStream, SysLines
  <1>9. SysNoBlock'
    <2>1. Readable => Readable'
      BY <1>1, <1>2, <1>3 DEF Readable
    <2>2. NeedsRead' = NeedsRead
      BY <1>1 DEF NeedsRead
    <2>3. spc' = "lines" => spc = "lines" \/ Readable
      BY DEF Write, Close, SysSignal, SysSelect, sysVars
    <2> QED
      BY ONLY <2>1, <2>2, <2>3, SInv DEF SInv, SysStream, SysNoBlock
  <1>10. SysDrained'
    <2>1. spc' = "select" => spc = "select"
      BY DEF Write, Close, SysSignal, SysSelect, sysVars
    <2>2. spc' = "exited" /\ ~sstop' => spc = "exited" /\ ~sstop
      BY DEF Write, Close, SysSignal, SysSelect, sysVars
    <2>3. spc = "exited" /\ ~sstop => written' = written
      BY <1>3 DEF SInv, SExit, SEnd
    <2> QED
      BY <1>1, <2>1, <2>2, <2>3 DEF SInv, SysStream, SysDrained
  <1>11. SExit'
    BY <1>1 DEF SInv, SExit, Write, Close, SysSignal, SysSelect, sysVars
  <1> QED
    BY ONLY <1>6, <1>7, <1>8, <1>9, <1>10, <1>11 DEF SInv, SysStream

\* Whatever the pieces in which the dispatcher's bytes arrive and are read, and
\* whatever signals come: until a read fails syslog gets every byte in order, in
\* lines that end where records end or where the caller's buffer does; main
\* never blocks in read (audit_fgets_more), nor sleeps or ends with a whole
\* record in the buffer (audit-fgets.c, audisp-syslog.c).
THEOREM StreamIsCutIntoLines == SysSpec => []SysStream
  <1>1. SInv /\ [SysNext]_sysVars => SInv'
    BY OthersKeep, LineBufferedKeeps, LineReadKeeps, LineEndKeeps, LineErrorKeeps DEF SysNext
  <1>2. SInv => SysStream
    BY DEF SInv
  <1> QED
    BY SInit, <1>1, <1>2, PTL DEF SysSpec

-----------------------------------------------------------------------------
(* The least and the greatest of two numbers.                              *)

\* Min of two numbers, as databuf_advance and databuf_reset take it.
LEMMA MinOfTwo ==
  ASSUME NEW a \in Int, NEW b \in Int
  PROVE  Min({a, b}) = IF a <= b THEN a ELSE b
<1> DEFINE m == IF a <= b THEN a ELSE b
<1>1. m \in {a, b} /\ (\A y \in {a, b} : m =< y)
  OBVIOUS
<1>2. \A x \in {a, b} : (\A y \in {a, b} : x =< y) => x = m
  OBVIOUS
<1> QED
  BY ONLY <1>1, <1>2 DEF Min

\* Max of two numbers, as the append raises max_len.
LEMMA MaxOfTwo ==
  ASSUME NEW a \in Int, NEW b \in Int
  PROVE  Max({a, b}) = IF a >= b THEN a ELSE b
<1> DEFINE m == IF a >= b THEN a ELSE b
<1>1. m \in {a, b} /\ (\A y \in {a, b} : m >= y)
  OBVIOUS
<1>2. \A x \in {a, b} : (\A y \in {a, b} : x >= y) => x = m
  OBVIOUS
<1> QED
  BY ONLY <1>1, <1>2 DEF Max

-----------------------------------------------------------------------------
(* What the three operations do to the block of memory.                    *)

\* Two pieces of memory one after the other.
LEMMA JoinedBytes ==
  ASSUME NEW a \in Seq(Nat), NEW b \in Seq(Nat)
  PROVE  /\ a \o b \in Seq(Nat) /\ Len(a \o b) = Len(a) + Len(b)
         /\ \A i \in 1..Len(a) : (a \o b)[i] = a[i]
         /\ \A i \in 1..Len(b) : (a \o b)[Len(a) + i] = b[i]
<1>1. /\ a \o b \in Seq(Nat) /\ Len(a \o b) = Len(a) + Len(b)
      /\ \A i \in 1..(Len(a) + Len(b)) :
           (a \o b)[i] = IF i <= Len(a) THEN a[i] ELSE b[i - Len(a)]
  BY ConcatProperties
<1> DEFINE c == a \o b
<1>2. Len(a) \in Nat /\ Len(b) \in Nat
  OBVIOUS
<1>3. \A i \in 1..(Len(a) + Len(b)) : c[i] = IF i <= Len(a) THEN a[i] ELSE b[i - Len(a)]
  BY <1>1
<1> HIDE DEF c
<1>4. \A i \in 1..Len(a) : c[i] = a[i]
  <2>1. \A i \in 1..Len(a) : i \in 1..(Len(a) + Len(b)) /\ i <= Len(a)
    BY ONLY <1>2
  <2> QED
    BY ONLY <2>1, <1>3
<1>5. \A i \in 1..Len(b) : c[Len(a) + i] = b[i]
  <2> SUFFICES ASSUME NEW i \in 1..Len(b) PROVE c[Len(a) + i] = b[i]
    OBVIOUS
  <2>1. Len(a) + i \in 1..(Len(a) + Len(b)) /\ ~(Len(a) + i <= Len(a)) /\ (Len(a) + i) - Len(a) = i
    BY ONLY <1>2, i \in 1..Len(b)
  <2> QED
    BY ONLY <2>1, <1>3
<1> QED
  BY <1>1, <1>4, <1>5 DEF c

\* The piece of memory from p on that ends at q.
LEMMA Piece ==
  ASSUME NEW mem \in Seq(Nat), NEW p \in Nat, NEW q \in Nat, p <= q, q <= Len(mem)
  PROVE  /\ SubSeq(mem, p + 1, q) \in Seq(Nat) /\ Len(SubSeq(mem, p + 1, q)) = q - p
         /\ \A i \in 1..(q - p) : SubSeq(mem, p + 1, q)[i] = mem[p + i]
<1> DEFINE m == p + 1
<1>1. m \in Int /\ q \in Int /\ m = p + 1
  OBVIOUS
<1>2. \A i \in m..q : mem[i] \in Nat
  OBVIOUS
<1> HIDE DEF m
<1>3. /\ SubSeq(mem, m, q) \in Seq(Nat)
      /\ Len(SubSeq(mem, m, q)) = IF m <= q THEN q - m + 1 ELSE 0
      /\ \A i \in 1..(q - m + 1) : SubSeq(mem, m, q)[i] = mem[m + i - 1]
  BY ONLY <1>1, <1>2, SubSeqProperties
<1>4. q - m + 1 = q - p /\ (IF m <= q THEN q - m + 1 ELSE 0) = q - p
  BY ONLY <1>1, p \in Nat, q \in Nat, p <= q
<1>5. \A i \in 1..(q - p) : m + i - 1 = p + i
  BY ONLY <1>1, p \in Nat, q \in Nat
<1> QED
  BY ONLY <1>1, <1>3, <1>4, <1>5

ToFront(mem, o, l) == SubSeq(mem, o + 1, o + l) \o SubSeq(mem, l + 1, Len(mem))
Behind(mem, at, bytes) ==
  SubSeq(mem, 1, at) \o bytes \o SubSeq(mem, at + Len(bytes) + 1, Len(mem))
Grown(mem, n) == SubSeq(mem \o [i \in 1..n |-> 0], 1, n)

\* memmove of the unread bytes to the beginning of the block.
LEMMA MovedToFront ==
  ASSUME NEW mem \in Seq(Nat), NEW o \in Nat, NEW l \in Nat, o + l <= Len(mem)
  PROVE  /\ ToFront(mem, o, l) \in Seq(Nat) /\ Len(ToFront(mem, o, l)) = Len(mem)
         /\ \A i \in 1..l : ToFront(mem, o, l)[i] = mem[o + i]
<1> DEFINE t == ToFront(mem, o, l)
           e == o + l
           n == Len(mem)
<1>0. n \in Nat /\ e \in Nat /\ o <= e /\ e <= n /\ l <= n /\ e - o = l /\ l + (n - l) = n
  OBVIOUS
<1> DEFINE a == SubSeq(mem, o + 1, e)
           z == SubSeq(mem, l + 1, n)
<1>3. t = a \o z
  BY DEF ToFront
<1> HIDE DEF t
<1>9. Len(mem) = n
  OBVIOUS
<1> HIDE DEF e, n
<1>1. a \in Seq(Nat) /\ Len(a) = l /\ \A i \in 1..l : a[i] = mem[o + i]
  <2>1. /\ a \in Seq(Nat) /\ Len(a) = e - o
        /\ \A i \in 1..(e - o) : a[i] = mem[o + i]
    BY ONLY <1>0, <1>9, mem \in Seq(Nat), o \in Nat, Piece
  <2> HIDE DEF a
  <2> QED
    BY ONLY <2>1, <1>0
<1>2. z \in Seq(Nat) /\ Len(z) = n - l
  BY ONLY <1>0, <1>9, mem \in Seq(Nat), l \in Nat, Piece
<1> HIDE DEF a, z
<1>4. /\ a \o z \in Seq(Nat) /\ Len(a \o z) = Len(a) + Len(z)
      /\ \A i \in 1..Len(a) : (a \o z)[i] = a[i]
  BY ONLY <1>1, <1>2, JoinedBytes
<1>5. t \in Seq(Nat) /\ Len(t) = n
  BY ONLY <1>0, <1>1, <1>2, <1>3, <1>4
<1>6. \A i \in 1..l : t[i] = a[i]
  BY ONLY <1>1, <1>3, <1>4
<1>7. \A i \in 1..l : t[i] = mem[o + i]
  BY ONLY <1>1, <1>6
<1> QED
  BY ONLY <1>5, <1>7, <1>9 DEF t

\* memmove of the new bytes behind the unread ones, where there is room.
LEMMA WrittenBehind ==
  ASSUME NEW mem \in Seq(Nat), NEW at \in Nat, NEW bytes \in Seq(Nat),
         at + Len(bytes) <= Len(mem)
  PROVE  /\ Behind(mem, at, bytes) \in Seq(Nat) /\ Len(Behind(mem, at, bytes)) = Len(mem)
         /\ \A i \in 1..at : Behind(mem, at, bytes)[i] = mem[i]
         /\ \A i \in 1..Len(bytes) : Behind(mem, at, bytes)[at + i] = bytes[i]
<1> DEFINE t == Behind(mem, at, bytes)
           n == Len(bytes)
           e == at + n
           k == Len(mem)
<1>0. n \in Nat /\ k \in Nat /\ e \in Nat /\ at <= k /\ e <= k /\ 0 <= at /\ at - 0 = at
      /\ e + (k - e) = k /\ 0 + 1 = 1 /\ 0 \in Nat
  OBVIOUS
<1> DEFINE a == SubSeq(mem, 1, at)
           z == SubSeq(mem, e + 1, k)
           c == a \o bytes
<1>3. t = c \o z
  BY DEF Behind
<1>9. Len(bytes) = n /\ e = at + n /\ Len(mem) = k
  OBVIOUS
<1> HIDE DEF n, e, k
<1>1. a \in Seq(Nat) /\ Len(a) = at /\ \A i \in 1..at : a[i] = mem[i]
  <2>1. /\ SubSeq(mem, 0 + 1, at) \in Seq(Nat) /\ Len(SubSeq(mem, 0 + 1, at)) = at - 0
        /\ \A i \in 1..(at - 0) : SubSeq(mem, 0 + 1, at)[i] = mem[0 + i]
    BY <1>0, <1>9, Piece
  <2>2. \A i \in 1..at : 0 + i = i
    OBVIOUS
  <2> QED
    BY ONLY <2>1, <2>2, <1>0 DEF a
<1>2. z \in Seq(Nat) /\ Len(z) = k - e
  BY <1>0, <1>9, Piece
<1> HIDE DEF a, z
<1>4. /\ c \in Seq(Nat) /\ Len(c) = e
      /\ \A i \in 1..at : c[i] = a[i]
      /\ \A i \in 1..n : c[at + i] = bytes[i]
  BY ONLY <1>1, <1>9, JoinedBytes, bytes \in Seq(Nat) DEF c
<1> HIDE DEF c
<1>5. t \in Seq(Nat) /\ Len(t) = k /\ \A i \in 1..e : t[i] = c[i]
  <2> HIDE DEF t
  <2>1. /\ c \o z \in Seq(Nat) /\ Len(c \o z) = Len(c) + Len(z)
        /\ \A i \in 1..Len(c) : (c \o z)[i] = c[i]
    BY ONLY <1>2, <1>4, JoinedBytes
  <2>2. \A i \in 1..e : t[i] = c[i]
    BY ONLY <1>3, <1>4, <2>1
  <2> QED
    BY ONLY <1>0, <1>2, <1>3, <1>4, <2>1, <2>2
<1>6. \A i \in 1..at : i \in 1..e
  BY ONLY <1>0, <1>9, at \in Nat
<1>7. \A i \in 1..n : at + i \in 1..e
  BY ONLY <1>0, <1>9, at \in Nat
<1> QED
  BY ONLY <1>1, <1>4, <1>5, <1>6, <1>7, <1>9

\* realloc to a larger block keeps what the smaller one held.
LEMMA GrownKeeps ==
  ASSUME NEW mem \in Seq(Nat), NEW n \in Nat, Len(mem) <= n
  PROVE  /\ Grown(mem, n) \in Seq(Nat) /\ Len(Grown(mem, n)) = n
         /\ \A i \in 1..Len(mem) : Grown(mem, n)[i] = mem[i]
<1> DEFINE t == Grown(mem, n)
           z == [i \in 1..n |-> 0]
           c == mem \o z
           k == Len(mem)
<1>1. z \in Seq(Nat) /\ Len(z) = n
  OBVIOUS
<1>3. t = SubSeq(c, 1, n)
  BY DEF Grown
<1> HIDE DEF z
<1>2. c \in Seq(Nat) /\ Len(c) = k + n /\ \A i \in 1..k : c[i] = mem[i]
  BY <1>1, JoinedBytes
<1>4. k \in Nat /\ k <= n /\ 0 <= n /\ n <= k + n /\ 0 + 1 = 1 /\ n - 0 = n /\ 0 \in Nat
  OBVIOUS
<1> HIDE DEF c, k
<1>5. /\ SubSeq(c, 0 + 1, n) \in Seq(Nat) /\ Len(SubSeq(c, 0 + 1, n)) = n - 0
      /\ \A i \in 1..(n - 0) : SubSeq(c, 0 + 1, n)[i] = c[0 + i]
  BY ONLY <1>2, <1>4, n \in Nat, Piece
<1>6. \A i \in 1..k : i \in 1..n /\ 0 + i = i
  BY ONLY <1>4, n \in Nat
<1> QED
  BY ONLY <1>2, <1>3, <1>4, <1>5, <1>6 DEF k
-----------------------------------------------------------------------------
(* The operations on the buffer.                                           *)

Block == [mem : Seq(Nat), alloc : Nat, offset : Nat, len : Nat, max_len : Nat, preserve : BOOLEAN]

\* What DATABUF_VALIDATE asserts of a buffer.
Valid(b) == b \in Block /\ Len(b.mem) = b.alloc /\ b.offset + b.len <= b.alloc

\* c has the unread bytes of b, at its own place.
SameUnread(b, c) ==
  /\ c.len = b.len /\ c.max_len = b.max_len /\ c.preserve = b.preserve
  /\ \A i \in 1..b.len : c.mem[c.offset + i] = b.mem[b.offset + i]

\* databuf_shift_data_to_beginning moves the unread bytes and no others, and
\* leaves a preserved buffer as it is.
LEMMA ShiftKeeps ==
  ASSUME NEW b, Valid(b), NEW c, c = databuf_shift_data_to_beginning(b)
  PROVE  /\ Valid(c) /\ SameUnread(b, c) /\ c.alloc = b.alloc
         /\ c.offset = IF b.preserve THEN b.offset ELSE 0
<1> USE DEF Valid, Block
<1>0. b \in Block
  OBVIOUS
<1>1. CASE b.preserve \/ b.offset = 0
  <2>1. c = b
    BY <1>1 DEF databuf_shift_data_to_beginning
  <2> QED
    BY <1>1, <2>1 DEF SameUnread
<1>2. CASE ~(b.preserve \/ b.offset = 0)
  <2> DEFINE t == ToFront(b.mem, b.offset, b.len)
  <2>1. c = [b EXCEPT !.offset = 0, !.mem = t]
    BY <1>2 DEF databuf_shift_data_to_beginning, ToFront
  <2>2. /\ t \in Seq(Nat) /\ Len(t) = Len(b.mem)
        /\ \A i \in 1..b.len : t[i] = b.mem[b.offset + i]
    <3>1. b.mem \in Seq(Nat) /\ b.offset \in Nat /\ b.len \in Nat /\ b.offset + b.len <= Len(b.mem)
      OBVIOUS
    <3> QED
      BY ONLY <3>1, MovedToFront
  <2> HIDE DEF t
  <2>3. /\ c.mem = t /\ c.offset = 0 /\ c.alloc = b.alloc /\ c.len = b.len
        /\ c.max_len = b.max_len /\ c.preserve = b.preserve /\ c \in Block
    BY ONLY <1>0, <2>1, <2>2 DEF Block
  <2>4. Valid(c)
    BY <2>2, <2>3
  <2>5. \A i \in 1..b.len : c.mem[c.offset + i] = b.mem[b.offset + i]
    <3>1. \A i \in 1..b.len : 0 + i = i
      OBVIOUS
    <3> QED
      BY ONLY <3>1, <2>2, <2>3
  <2> QED
    BY ONLY <1>2, <2>3, <2>4, <2>5 DEF SameUnread
<1> QED
  BY <1>1, <1>2

\* Room leaves place for n bytes behind the unread ones, whether it finds
\* it, shifts or reallocates.
LEMMA RoomKeeps ==
  ASSUME NEW b, Valid(b), NEW n \in Nat, b.preserve => b.offset = 0, NEW c, c = Room(b, n)
  PROVE  /\ Valid(c) /\ SameUnread(b, c) /\ c.offset + c.len + n <= c.alloc
         /\ b.preserve => c.offset = 0
<1> DEFINE s == databuf_shift_data_to_beginning(b)
<1>1. /\ Valid(s) /\ SameUnread(b, s) /\ s.alloc = b.alloc
      /\ s.offset = IF b.preserve THEN b.offset ELSE 0
  BY ShiftKeeps
<1> HIDE DEF s
<1>2. s.offset = 0 /\ s.len = b.len /\ s.preserve = b.preserve /\ s.max_len = b.max_len
  BY <1>1 DEF SameUnread
<1>t. /\ b.len \in Nat /\ b.alloc \in Nat /\ b.offset \in Nat /\ b.offset + b.len <= b.alloc
      /\ s.alloc \in Nat /\ s.mem \in Seq(Nat) /\ Len(s.mem) = s.alloc /\ s \in Block
  BY <1>1 DEF Valid, Block
<1>3. CASE b.len + n > b.alloc \/ (b.preserve /\ ~databuf_tail_available(b, n))
  <2> DEFINE k == b.len + n
             t == Grown(s.mem, k)
  <2>1. c = Realloc(s, k)
    BY <1>3 DEF Room, alloc_size, s
  <2>2. c = [s EXCEPT !.alloc = k, !.mem = t]
    BY <2>1 DEF Realloc, Grown
  <2>3. k \in Nat /\ b.alloc <= k /\ Len(s.mem) <= k
    <3>1. b.preserve => b.offset = 0
      OBVIOUS
    <3>2. b.len + n > b.alloc
      BY <1>3, <1>t, <3>1 DEF databuf_tail_available, databuf_tail_size, alloc_size
    <3> QED
      BY <3>2, <1>1, <1>t
  <2> HIDE DEF k
  <2>4. /\ t \in Seq(Nat) /\ Len(t) = k
        /\ \A i \in 1..Len(s.mem) : t[i] = s.mem[i]
    BY ONLY <1>t, <2>3, GrownKeeps
  <2> HIDE DEF t
  <2>5. /\ c.mem = t /\ c.offset = 0 /\ c.alloc = k /\ c.len = b.len
        /\ c.max_len = b.max_len /\ c.preserve = b.preserve /\ c \in Block
    BY <2>2, <2>3, <2>4, <1>2, <1>t DEF Block
  <2>6. \A i \in 1..b.len : c.mem[c.offset + i] = b.mem[b.offset + i]
    <3>1. \A i \in 1..b.len : 0 + i = i /\ i \in 1..Len(s.mem)
      BY <1>1, <1>t
    <3>2. \A i \in 1..b.len : s.mem[0 + i] = b.mem[b.offset + i]
      BY ONLY <1>1, <1>2 DEF SameUnread
    <3> QED
      BY ONLY <3>1, <3>2, <2>4, <2>5
  <2>7. c.offset + c.len + n <= c.alloc /\ c.offset + c.len <= c.alloc
    BY <2>5, <1>t DEF k
  <2> QED
    BY ONLY <2>4, <2>5, <2>6, <2>7 DEF Valid, SameUnread
<1>4. CASE ~(b.len + n > b.alloc \/ (b.preserve /\ ~databuf_tail_available(b, n)))
  <2>1. CASE databuf_tail_available(b, n)
    <3>1. c = b
      BY <1>4, <2>1 DEF Room, alloc_size
    <3>2. b.offset + b.len + n <= b.alloc
      BY <2>1, <1>t DEF databuf_tail_available, databuf_tail_size, alloc_size
    <3> QED
      BY <3>1, <3>2 DEF SameUnread
  <2>2. CASE ~databuf_tail_available(b, n)
    <3>1. c = s
      BY <1>4, <2>2 DEF Room, alloc_size, s
    <3>2. s.offset + s.len + n <= s.alloc
      BY <1>4, <1>1, <1>2, <1>t
    <3> QED
      BY ONLY <3>1, <3>2, <1>1, <1>2
  <2> QED
    BY <2>1, <2>2
<1> QED
  BY <1>3, <1>4

\* The new bytes end up behind the unread ones, which stay.
LEMMA WrittenKeeps ==
  ASSUME NEW b, Valid(b), NEW bytes \in Seq(Nat), b.offset + b.len + Len(bytes) <= b.alloc,
         NEW c, c = Written(b, bytes)
  PROVE  /\ Valid(c) /\ c.offset = b.offset /\ c.len = b.len + Len(bytes)
         /\ c.preserve = b.preserve
         /\ c.max_len = IF b.max_len >= c.len THEN b.max_len ELSE c.len
         /\ \A i \in 1..b.len : c.mem[b.offset + i] = b.mem[b.offset + i]
         /\ \A i \in 1..Len(bytes) : c.mem[b.offset + b.len + i] = bytes[i]
<1> DEFINE at == b.offset + b.len
           t  == Behind(b.mem, at, bytes)
           m  == Max({b.max_len, b.len + Len(bytes)})
<1>1. c = [b EXCEPT !.mem = t, !.len = b.len + Len(bytes), !.max_len = m]
  BY DEF Written, Behind, Valid, Block
<1>t. /\ b.len \in Nat /\ b.alloc \in Nat /\ b.offset \in Nat /\ b.max_len \in Nat
      /\ b.mem \in Seq(Nat) /\ Len(b.mem) = b.alloc /\ b \in Block /\ Len(bytes) \in Nat
  BY DEF Valid, Block
<1>2. m = IF b.max_len >= b.len + Len(bytes) THEN b.max_len ELSE b.len + Len(bytes)
  <2>1. b.max_len \in Int /\ b.len + Len(bytes) \in Int
    BY ONLY <1>t
  <2> QED
    BY ONLY <2>1, MaxOfTwo DEF m
<1> HIDE DEF m
<1>3. at \in Nat /\ at + Len(bytes) <= Len(b.mem) /\ b.len + Len(bytes) \in Nat /\ m \in Nat
  BY <1>t, <1>2
<1>9. at = b.offset + b.len
  OBVIOUS
<1> HIDE DEF at
<1>4. /\ t \in Seq(Nat) /\ Len(t) = Len(b.mem)
      /\ \A i \in 1..at : t[i] = b.mem[i]
      /\ \A i \in 1..Len(bytes) : t[at + i] = bytes[i]
  BY ONLY <1>t, <1>3, bytes \in Seq(Nat), WrittenBehind
<1> HIDE DEF t
<1>5. /\ c.mem = t /\ c.offset = b.offset /\ c.alloc = b.alloc /\ c.len = b.len + Len(bytes)
      /\ c.max_len = m /\ c.preserve = b.preserve /\ c \in Block
  BY ONLY <1>1, <1>3, <1>4, <1>t DEF Block
<1>6. c.offset + c.len <= c.alloc
  BY ONLY <1>5, <1>t, <1>9, <1>3
<1>7. \A i \in 1..b.len : b.offset + i \in 1..at
  BY ONLY <1>t, <1>9
<1> QED
  BY ONLY <1>2, <1>4, <1>5, <1>6, <1>7, <1>9, <1>t DEF Valid
-----------------------------------------------------------------------------
(* The buffer of a feed.                                                   *)

\* The unread bytes are those from read + 1 on; a preserved buffer has all
\* its bytes at their place, and nothing is read before the last append.
DInv ==
  /\ Valid(db) /\ dbRead \in [got : Nat, read : Nat] /\ dbSealed \in BOOLEAN
  /\ dbRead.read <= dbRead.got /\ db.len = dbRead.got - dbRead.read
  /\ \A i \in 1..db.len : db.mem[db.offset + i] = dbRead.read + i
  /\ db.preserve =>
       /\ db.offset = dbRead.read /\ db.max_len = dbRead.got
       /\ ~dbSealed => dbRead.read = 0
       /\ \A i \in 1..dbRead.got : db.mem[i] = i

\* What an append makes of b, where the bytes are numbered from got + 1.
LEMMA AppendKeeps ==
  ASSUME DInv, Append2
  PROVE  DInv'
<1> DEFINE g == dbRead.got
           e == dbRead.read
<1>t. /\ Valid(db) /\ db \in Block /\ db.len \in Nat /\ db.offset \in Nat /\ db.max_len \in Nat
      /\ g \in Nat /\ e \in Nat /\ e <= g /\ db.len = g - e /\ dbSealed = FALSE
      /\ dbRead \in [got : Nat, read : Nat]
  BY DEF DInv, Valid, Block, Append2
<1>c. \A i \in 1..db.len : db.mem[db.offset + i] = e + i
  BY DEF DInv
<1>p. db.preserve => db.offset = 0 /\ e = 0 /\ db.max_len = g
  BY <1>t DEF DInv
<1>1. PICK n \in 0..Min({MaxPiece, MaxBytes - g}), fails \in BOOLEAN :
        /\ db' = databuf_append(db, [i \in 1..n |-> g + i], fails)
        /\ dbRead' = [dbRead EXCEPT !.got = IF db'.len > db.len THEN g + n ELSE g]
        /\ dbSealed' = dbSealed
  BY <1>t DEF Append2
<1> DEFINE bytes == [i \in 1..n |-> g + i]
<1>2. n \in Nat
  <2>1. MaxPiece \in Int /\ MaxBytes - g \in Int
    BY <1>t, DataBufAssumption
  <2>2. Min({MaxPiece, MaxBytes - g}) \in Int
    BY ONLY <2>1, MinOfTwo
  <2> QED
    BY ONLY <2>2, n \in 0..Min({MaxPiece, MaxBytes - g})
<1>3. bytes \in Seq(Nat) /\ Len(bytes) = n /\ \A i \in 1..n : bytes[i] = g + i
  BY <1>2, <1>t
<1>4. db' = databuf_append(db, bytes, fails)
  BY <1>1
<1> HIDE DEF bytes, g, e
<1>5. CASE SameUnread(db, db') /\ Valid(db') /\ (db.preserve => db'.offset = 0)
  <2>1. dbRead' = dbRead
    BY <1>1, <1>5, <1>t DEF SameUnread, g
  <2>2. \A i \in 1..db'.len : db'.mem[db'.offset + i] = e + i
    BY ONLY <1>5, <1>c DEF SameUnread
  <2>3. ASSUME db.preserve PROVE \A i \in 1..g : db'.mem[i] = i
    <3>1. db'.len = g /\ db'.offset = 0 /\ e = 0
      BY ONLY <1>5, <1>t, <1>p, <2>3 DEF SameUnread
    <3>2. \A i \in 1..g : db'.mem[0 + i] = 0 + i
      BY ONLY <3>1, <2>2
    <3>3. \A i \in 1..g : 0 + i = i
      BY ONLY <1>t
    <3> QED
      BY ONLY <3>2, <3>3
  <2>4. db'.preserve = db.preserve /\ db'.len = db.len /\ db'.max_len = db.max_len
    BY ONLY <1>5 DEF SameUnread
  <2> QED
    BY <1>t, <1>p, <1>1, <1>5, <2>1, <2>2, <2>3, <2>4 DEF DInv, g, e
<1>6. CASE bytes = <<>>
  <2>1. db' = db
    BY <1>4, <1>6 DEF databuf_append
  <2> QED
    BY <1>5, <2>1, <1>t, <1>p DEF SameUnread
<1>7. CASE bytes # <<>> /\ fails /\ alloc_size(Room(db, Len(bytes))) # alloc_size(db)
  <2>1. db' = databuf_shift_data_to_beginning(db)
    BY <1>4, <1>7 DEF databuf_append
  <2>2. /\ Valid(db') /\ SameUnread(db, db')
        /\ db'.offset = IF db.preserve THEN db.offset ELSE 0
    BY ONLY <2>1, <1>t, ShiftKeeps
  <2> QED
    BY <1>5, <2>2, <1>p
<1>8. CASE bytes # <<>> /\ ~(fails /\ alloc_size(Room(db, Len(bytes))) # alloc_size(db))
  <2> DEFINE c == Room(db, n)
  <2>1. db' = Written(c, bytes)
    BY <1>4, <1>8, <1>3 DEF databuf_append
  <2>2. /\ Valid(c) /\ SameUnread(db, c) /\ c.offset + c.len + n <= c.alloc
        /\ db.preserve => c.offset = 0
    BY ONLY <1>t, <1>p, <1>2, RoomKeeps
  <2> HIDE DEF c
  <2>3. n > 0
    BY ONLY <1>2, <1>3, <1>8, EmptySeq
  <2>4. /\ Valid(db') /\ db'.offset = c.offset /\ db'.len = c.len + n
        /\ db'.preserve = c.preserve
        /\ db'.max_len = IF c.max_len >= db'.len THEN c.max_len ELSE db'.len
        /\ \A i \in 1..c.len : db'.mem[c.offset + i] = c.mem[c.offset + i]
        /\ \A i \in 1..n : db'.mem[c.offset + c.len + i] = bytes[i]
    BY ONLY <2>1, <2>2, <1>3, WrittenKeeps
  <2>5. /\ c.len = db.len /\ c.max_len = db.max_len /\ c.preserve = db.preserve
        /\ \A i \in 1..db.len : c.mem[c.offset + i] = db.mem[db.offset + i]
    BY ONLY <2>2 DEF SameUnread
  <2>o. c.offset \in Nat
    BY <2>2 DEF Valid, Block
  <2>6. dbRead' = [dbRead EXCEPT !.got = g + n]
    <3>1. db'.len > db.len
      BY ONLY <1>t, <2>3, <2>4, <2>5, <1>2
    <3> QED
      BY ONLY <1>1, <3>1
  <2>7. dbRead'.got = g + n /\ dbRead'.read = e /\ dbRead' \in [got : Nat, read : Nat]
    BY <2>6, <1>t, <1>2 DEF e
  <2>8. \A i \in 1..db'.len : db'.mem[db'.offset + i] = e + i
    <3> SUFFICES ASSUME NEW i \in 1..(db.len + n) PROVE db'.mem[c.offset + i] = e + i
      BY <2>4, <2>5
    <3>1. CASE i \in 1..db.len
      BY ONLY <3>1, <2>4, <2>5, <1>c
    <3>2. CASE i \notin 1..db.len
      <4>1. PICK j \in 1..n : i = db.len + j
        <5>1. i - db.len \in 1..n /\ i = db.len + (i - db.len)
          BY <3>2, <1>t, <1>2
        <5> QED
          BY ONLY <5>1
      <4>2. c.offset + i = c.offset + c.len + j /\ e + i = g + j
        BY <4>1, <1>t, <2>5, <2>o
      <4> QED
        BY ONLY <4>2, <2>4, <1>3
    <3> QED
      BY ONLY <3>1, <3>2
  <2>9. db'.len = dbRead'.got - dbRead'.read /\ dbRead'.read <= dbRead'.got
    BY ONLY <2>4, <2>5, <2>7, <1>t, <1>2
  <2>10. ASSUME db'.preserve
         PROVE  /\ db'.offset = e /\ db'.max_len = g + n /\ e = 0
                /\ \A i \in 1..(g + n) : db'.mem[i] = i
    <3>1. db.preserve /\ c.offset = 0 /\ e = 0 /\ db.max_len = g /\ db.len = g
      BY <2>10, <2>4, <2>5, <2>2, <1>p, <1>t
    <3>2. db'.offset = 0 /\ db'.len = g + n /\ db'.max_len = g + n
      BY ONLY <3>1, <2>4, <2>5, <1>t, <1>2
    <3>3. \A i \in 1..(g + n) : db'.mem[0 + i] = 0 + i
      BY ONLY <3>1, <3>2, <2>8
    <3>4. \A i \in 1..(g + n) : 0 + i = i
      OBVIOUS
    <3> QED
      BY ONLY <3>1, <3>2, <3>3, <3>4
  <2> QED
    BY ONLY <1>1, <1>t, <2>4, <2>7, <2>8, <2>9, <2>10 DEF DInv
<1> QED
  BY ONLY <1>6, <1>7, <1>8

LEMMA AdvanceKeeps == ASSUME DInv, Advance PROVE DInv'
<1> DEFINE g == dbRead.got
           e == dbRead.read
<1>t. /\ Valid(db) /\ db \in Block /\ db.len \in Nat /\ db.offset \in Nat /\ db.alloc \in Nat
      /\ g \in Nat /\ e \in Nat /\ e <= g /\ db.len = g - e /\ db.preserve \in BOOLEAN
      /\ dbRead \in [got : Nat, read : Nat] /\ db.offset + db.len <= db.alloc
  BY DEF DInv, Valid, Block
<1>1. PICK n \in 0..MaxPiece :
        /\ db' = databuf_advance(db, n)
        /\ dbRead' = [dbRead EXCEPT !.read = Min({g, e + n})]
        /\ dbSealed' = db.preserve
  BY DEF Advance
<1>2. n \in Nat
  BY DataBufAssumption
<1> DEFINE k == Min({n, db.len})
<1>3. k \in 0..db.len /\ Min({g, e + n}) = e + k
  <2>1. Min({n, db.len}) = IF n <= db.len THEN n ELSE db.len
    BY <1>2, <1>t, MinOfTwo
  <2>2. Min({g, e + n}) = IF g <= e + n THEN g ELSE e + n
    <3>1. g \in Int /\ e + n \in Int
      BY ONLY <1>t, <1>2
    <3> QED
      BY ONLY <3>1, MinOfTwo
  <2> HIDE DEF g, e
  <2> QED
    BY ONLY <2>1, <2>2, <1>2, <1>t
<1>4. db' = [db EXCEPT !.offset = db.offset + k, !.len = db.len - k]
  BY <1>1, <1>t DEF databuf_advance, Block
<1>5. dbRead' = [dbRead EXCEPT !.read = e + k]
  BY <1>1, <1>3
<1> HIDE DEF k
<1>6. /\ db' \in Block /\ db'.mem = db.mem /\ db'.offset = db.offset + k /\ db'.len = db.len - k
      /\ db'.alloc = db.alloc /\ db'.max_len = db.max_len /\ db'.preserve = db.preserve
  <2> DEFINE o == db.offset + k
             l == db.len - k
  <2>1. o \in Nat /\ l \in Nat /\ db' = [db EXCEPT !.offset = o, !.len = l] /\ db \in Block
    BY <1>3, <1>4, <1>t
  <2> HIDE DEF o, l
  <2>2. /\ db' \in Block /\ db'.mem = db.mem /\ db'.offset = o /\ db'.len = l
        /\ db'.alloc = db.alloc /\ db'.max_len = db.max_len /\ db'.preserve = db.preserve
    BY ONLY <2>1 DEF Block
  <2> QED
    BY ONLY <2>2 DEF o, l
<1>7. dbRead'.got = g /\ dbRead'.read = e + k /\ dbRead' \in [got : Nat, read : Nat]
  BY <1>3, <1>5, <1>t
<1> HIDE DEF g, e
<1>8. Valid(db')
  <2>1. db'.offset + db'.len = db.offset + db.len
    BY ONLY <1>6, <1>3, <1>t
  <2> QED
    BY ONLY <2>1, <1>6, <1>t DEF Valid
<1>9. \A i \in 1..db'.len : db'.mem[db'.offset + i] = dbRead'.read + i
  <2> SUFFICES ASSUME NEW i \in 1..(db.len - k) PROVE db.mem[(db.offset + k) + i] = (e + k) + i
    BY <1>6, <1>7
  <2>1. /\ k + i \in 1..db.len /\ (db.offset + k) + i = db.offset + (k + i)
        /\ (e + k) + i = e + (k + i)
    BY ONLY <1>3, <1>t, i \in 1..(db.len - k)
  <2>2. \A h \in 1..db.len : db.mem[db.offset + h] = e + h
    BY DEF DInv, e
  <2> QED
    BY ONLY <2>1, <2>2
<1>10. db'.len = dbRead'.got - dbRead'.read /\ dbRead'.read <= dbRead'.got
  BY ONLY <1>3, <1>6, <1>7, <1>t
<1>11. db'.preserve => /\ db'.offset = dbRead'.read /\ db'.max_len = dbRead'.got
                       /\ dbSealed' /\ \A i \in 1..dbRead'.got : db'.mem[i] = i
  BY <1>1, <1>6, <1>7 DEF DInv, g, e
<1> QED
  BY ONLY <1>1, <1>t, <1>7, <1>8, <1>9, <1>10, <1>11 DEF DInv

LEMMA ResetKeeps == ASSUME DInv, Reset PROVE DInv'
<1>t. /\ Valid(db) /\ db \in Block /\ db.len \in Nat /\ db.offset \in Nat /\ db.alloc \in Nat
      /\ db.max_len \in Nat /\ Len(db.mem) = db.alloc /\ db.offset + db.len <= db.alloc
      /\ dbRead \in [got : Nat, read : Nat] /\ dbRead.got \in Nat /\ dbRead.read \in Nat
      /\ dbRead.read <= dbRead.got /\ db.len = dbRead.got - dbRead.read
  BY DEF DInv, Valid, Block
<1>s. dbSealed' = dbSealed
  BY DEF Reset
<1>1. CASE ~db.preserve
  <2>1. db' = db /\ dbRead' = dbRead
    BY <1>1 DEF Reset, databuf_reset
  <2> QED
    BY <2>1, <1>s DEF DInv
<1>2. CASE db.preserve
  <2>1. db.offset = dbRead.read /\ db.max_len = dbRead.got /\ \A i \in 1..dbRead.got : db.mem[i] = i
    BY <1>2 DEF DInv
  <2>2. Min({db.alloc, db.max_len}) = dbRead.got
    <3>1. db.alloc \in Int /\ db.max_len \in Int /\ db.max_len <= db.alloc
      BY ONLY <1>t, <2>1
    <3>2. Min({db.alloc, db.max_len}) = IF db.alloc <= db.max_len THEN db.alloc ELSE db.max_len
      BY ONLY <3>1, MinOfTwo
    <3> QED
      BY ONLY <3>1, <3>2, <2>1
  <2>3. db' = [db EXCEPT !.offset = 0, !.len = dbRead.got] /\ dbRead' = [dbRead EXCEPT !.read = 0]
    BY <1>2, <2>2 DEF Reset, databuf_reset, alloc_size
  <2>4. /\ db' \in Block /\ db'.mem = db.mem /\ db'.offset = 0 /\ db'.len = dbRead.got
        /\ db'.alloc = db.alloc /\ db'.max_len = db.max_len /\ db'.preserve = db.preserve
    BY ONLY <2>3, <1>t DEF Block
  <2>5. dbRead'.got = dbRead.got /\ dbRead'.read = 0 /\ dbRead' \in [got : Nat, read : Nat]
    BY ONLY <2>3, <1>t
  <2>6. Valid(db')
    BY ONLY <2>1, <2>4, <1>t DEF Valid
  <2>7. \A i \in 1..db'.len : db'.mem[db'.offset + i] = dbRead'.read + i
    <3>1. \A i \in 1..dbRead.got : 0 + i = i
      BY ONLY <1>t
    <3> QED
      BY ONLY <3>1, <2>1, <2>4, <2>5
  <2>8. dbSealed \in BOOLEAN
    BY DEF DInv
  <2> QED
    BY ONLY <1>t, <1>s, <2>1, <2>4, <2>5, <2>6, <2>7, <2>8 DEF DInv
<1> QED
  BY <1>1, <1>2

\* Whatever the shifts, reallocations and failed reallocations of databuf_append,
\* the advances and the resets, the unread part of the buffer lies inside the
\* block and is what was appended and not yet advanced over, in order.
THEOREM BufferHoldsWhatIsUnread == DbSpec => []DbContents
<1>1. DbInit => DInv
  <2> SUFFICES ASSUME NEW p \in BOOLEAN, DbStart(p) PROVE DInv
    BY DEF DbInit
  <2>1. <<>> \in Seq(Nat) /\ Len(<<>>) = 0
    OBVIOUS
  <2> QED
    <3>1. /\ db \in Block /\ db.len = 0 /\ db.offset = 0 /\ db.alloc = 0 /\ db.max_len = 0
          /\ Len(db.mem) = 0
      BY <2>1 DEF DbStart, databuf_init, Block
    <3>2. /\ dbRead \in [got : Nat, read : Nat] /\ dbRead.got = 0 /\ dbRead.read = 0
          /\ dbSealed \in BOOLEAN
      BY DEF DbStart
    <3> QED
      BY ONLY <3>1, <3>2 DEF DInv, Valid
<1>2. DInv /\ [DbNext]_dbVars => DInv'
  <2> SUFFICES ASSUME DInv, [DbNext]_dbVars PROVE DInv'
    OBVIOUS
  <2>1. CASE UNCHANGED dbVars
    BY <2>1 DEF dbVars, DInv
  <2> QED
    BY <2>1, AppendKeeps, AdvanceKeeps, ResetKeeps DEF DbNext
<1>3. DInv => DbContents
  <2> SUFFICES ASSUME DInv PROVE DbContents
    OBVIOUS
  <2> DEFINE u == SubSeq(db.mem, db.offset + 1, db.offset + db.len)
             k == dbRead.got - dbRead.read
             w == [i \in 1..k |-> dbRead.read + i]
  <2>1. /\ db.mem \in Seq(Nat) /\ db.offset \in Nat /\ db.len \in Nat
        /\ db.offset + db.len <= Len(db.mem) /\ db.offset + db.len <= db.alloc
        /\ dbRead.read \in Nat /\ db.len = k
    BY DEF DInv, Valid, Block
  <2>2. /\ u \in Seq(Nat) /\ Len(u) = db.len
        /\ \A i \in 1..db.len : u[i] = db.mem[db.offset + i]
    <3> DEFINE q == db.offset + db.len
    <3>1. q \in Nat /\ db.offset <= q /\ q <= Len(db.mem) /\ q - db.offset = db.len
      BY ONLY <2>1
    <3> HIDE DEF q
    <3>2. /\ SubSeq(db.mem, db.offset + 1, q) \in Seq(Nat)
          /\ Len(SubSeq(db.mem, db.offset + 1, q)) = q - db.offset
          /\ \A i \in 1..(q - db.offset) : SubSeq(db.mem, db.offset + 1, q)[i] = db.mem[db.offset + i]
      BY ONLY <2>1, <3>1, Piece
    <3> QED
      BY ONLY <3>1, <3>2 DEF q
  <2> HIDE DEF u, k
  <2>3. w \in Seq(Nat) /\ Len(w) = db.len /\ \A i \in 1..db.len : w[i] = dbRead.read + i
    <3> DEFINE l == db.len
               h == dbRead.read
    <3>1. l \in Nat /\ h \in Nat /\ w = [i \in 1..l |-> h + i]
      BY <2>1
    <3> HIDE DEF l, h, w
    <3>2. w \in Seq(Nat) /\ Len(w) = l /\ \A i \in 1..l : w[i] = h + i
      BY ONLY <3>1
    <3> QED
      BY ONLY <3>2 DEF l, h
  <2>4. \A i \in 1..db.len : u[i] = w[i]
    <3>1. \A i \in 1..db.len : db.mem[db.offset + i] = dbRead.read + i
      BY DEF DInv
    <3> QED
      BY ONLY <2>2, <2>3, <3>1
  <2> HIDE DEF w
  <2>5. u = w
    BY ONLY <2>2, <2>3, <2>4, SeqEqual
  <2> QED
    BY <2>1, <2>5 DEF DbContents, alloc_size, u, w, k
<1> QED
  BY <1>1, <1>2, <1>3, PTL DEF DbSpec
=============================================================================
