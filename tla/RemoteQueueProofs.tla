-------------------------- MODULE RemoteQueueProofs --------------------------
(***************************************************************************)
(* Proofs about RemoteQueue, for every set of strings, every queue depth   *)
(* and every combination of flags.                                         *)
(***************************************************************************)
EXTENDS RemoteQueue, TLAPS

-----------------------------------------------------------------------------
(* Arithmetic of the ring. *)

\* The place of an entry, without the division.
LEMMA IndexValue ==
    \A n \in Nat \ {0} : \A h \in 0 .. n - 1 : \A i \in 0 .. n - 1 :
        Index(h, i, n) = IF h + i < n THEN h + i ELSE h + i - n
  BY DEF Index

LEMMA IndexRange ==
    \A n \in Nat \ {0} : \A h, i \in 0 .. n - 1 : Index(h, i, n) \in 0 .. n - 1
  BY IndexValue

\* Two entries of a ring never share a place.
LEMMA IndexInjective ==
    \A n \in Nat \ {0} : \A h, i, j \in 0 .. n - 1 :
        Index(h, i, n) = Index(h, j, n) => i = j
  BY IndexValue

\* Dropping the head: entry i of the new ring is entry i + 1 of the old one.
LEMMA IndexShift ==
    \A n \in Nat \ {0} : \A h, i \in 0 .. n - 1 :
        i + 1 < n => Index(IF h + 1 = n THEN 0 ELSE h + 1, i, n) = Index(h, i + 1, n)
  BY IndexValue

-----------------------------------------------------------------------------
(* The inductive invariant. *)

\* Every entry that the ring r counts is a complete string in cells.
Whole(r, cells) == \A i \in 0 .. r.len - 1 : cells[Index(r.head, i, r.num)] \in Data

SameRing(r, f) == r.num = f.num /\ r.head = f.head /\ r.len = f.len

\* EntriesWhole alone is not inductive: what the header will say next is what
\* the open queue says now (sync, copy, rename), and q_append may only reuse a
\* slot because header and queue agree when it starts (idle).
IInv ==
    /\ TypeOK
    /\ file.st = "full" => Whole(file, file.slot)
    /\ pc = "create" => /\ InFile(q) /\ q.head = 0 /\ q.len = 0
    /\ pc = "allocate" => /\ InFile(q) /\ SameRing(q, file) /\ file.len = 0
    /\ pc = "opened" => /\ InFile(q) /\ file.st = "full" /\ SameRing(q, file)
    /\ pc = "idle" /\ InFile(q) => file.st = "full" /\ SameRing(q, file)
    /\ pc = "sync" => /\ InFile(q) /\ file.st = "full" /\ q.num = file.num
                      /\ Whole(q, file.slot)
    /\ pc \in {"copy", "rename"} =>
         /\ InFile(q2) /\ tmpfile.st = "full" /\ q2.num = tmpfile.num
         /\ Whole(q2, tmpfile.slot)
    /\ pc = "rename" => SameRing(q2, tmpfile)

-----------------------------------------------------------------------------
(* What the helpers return. *)

LEMMA DepthsNat == Depths \subseteq Nat \ {0}
  BY SizesAssumption DEF Depths

\* Writing an element changes neither the size of the array nor its type.
LEMMA MemoryWritten ==
    ASSUME NEW m \in Memories, NEW i, NEW c \in Data \cup {NULL}
    PROVE  [m EXCEPT ![i] = c] \in Memories
  BY DEF Memories

LEMMA SlotsWritten ==
    ASSUME NEW s \in Slots, NEW i, NEW c \in Cell
    PROVE  /\ [s EXCEPT ![i] = c] \in Slots
           /\ DOMAIN [s EXCEPT ![i] = c] = DOMAIN s
  BY DEF Slots

\* Changing one field of a record keeps it a record of its kind.
LEMMA QueueFields ==
    ASSUME NEW r \in QueueRecords
    PROVE  /\ \A m \in Memories : [r EXCEPT !.memory = m] \in QueueRecords
           /\ \A n \in Nat : [r EXCEPT !.head = n] \in QueueRecords
           /\ \A n \in Nat : [r EXCEPT !.len = n] \in QueueRecords
  BY DEF QueueRecords

LEMMA FileFields ==
    ASSUME NEW f \in FileRecords
    PROVE  /\ \A s \in Slots : [f EXCEPT !.slot = s] \in FileRecords
           /\ \A n \in Nat : [f EXCEPT !.head = n] \in FileRecords
           /\ \A n \in Nat : [f EXCEPT !.len = n] \in FileRecords
  BY DEF FileRecords

LEMMA NewQueueType ==
    ASSUME NEW f \in SUBSET FlagNames, NEW n \in Depths
    PROVE  /\ QueueType(NewQueue(f, n))
           /\ NewQueue(f, n).flags = f /\ NewQueue(f, n).num = n
           /\ NewQueue(f, n).head = 0 /\ NewQueue(f, n).len = 0
  <1>1. [i \in 0 .. n - 1 |-> NULL] \in Memories
    BY DEF Memories
  <1>2. n \in Nat \ {0}
    BY DepthsNat
  <1> QED BY <1>1, <1>2 DEF NewQueue, QueueType, QueueRecords

LEMMA NewFileType ==
    ASSUME NEW n \in Depths, NEW st \in {"absent", "empty", "header", "full"}
    PROVE  /\ FileType(NewFile(n, st))
           /\ NewFile(n, st).st = st /\ NewFile(n, st).num = n
           /\ NewFile(n, st).head = 0 /\ NewFile(n, st).len = 0
  <1>1. [i \in 0 .. n - 1 |-> NULL] \in Slots
    BY DEF Slots, Cell
  <1>2. n \in Nat \ {0}
    BY DepthsNat
  <1> QED BY <1>1, <1>2 DEF NewFile, FileType, FileRecords

LEMMA NoFileType == FileType(NoFile) /\ NoFile.st = "absent"
  <1>1. 0 .. 1 - 1 = {0}
    OBVIOUS
  <1>2. NoFile = NewFile(1, "absent")
    BY <1>1 DEF NoFile, NewFile
  <1> QED BY <1>2, NewFileType DEF Depths

LEMMA NoQueueType == QueueType(NoQueue)
  BY NewQueueType DEF NoQueue, Depths

\* The facts about a queue that the arithmetic needs.
LEMMA QueueNumbers ==
    ASSUME NEW r, QueueType(r)
    PROVE  /\ r.num \in Nat \ {0} /\ r.head \in 0 .. r.num - 1
           /\ r.len \in 0 .. r.num
  <1>1. r.num \in Depths /\ r.head \in Nat /\ r.len \in Nat
    BY DEF QueueType, QueueRecords
  <1>2. r.num \in Nat /\ r.num # 0
    BY <1>1, DepthsNat
  <1>3. r.head < r.num /\ r.len <= r.num
    BY DEF QueueType
  <1> QED BY <1>1, <1>2, <1>3

\* g is f but for slot i.
OneSlot(g, f, i, c) == /\ g.st = f.st
                       /\ SameRing(g, f)
                       /\ g.slot = [f.slot EXCEPT ![i] = c]

LEMMA SlotWritten ==
    ASSUME NEW f, FileType(f), NEW i, NEW c \in Cell
    PROVE  FileType(Written(f, i, c)) /\ OneSlot(Written(f, i, c), f, i, c)
  <1> DEFINE s == [f.slot EXCEPT ![i] = c]
  <1>1. f \in FileRecords /\ f.slot \in Slots
    BY DEF FileType, FileRecords
  <1>2. s \in Slots /\ DOMAIN s = DOMAIN f.slot
    BY <1>1, SlotsWritten
  <1>3. Written(f, i, c) = [f EXCEPT !.slot = s]
    BY DEF Written
  <1> HIDE DEF s
  <1>4. [f EXCEPT !.slot = s] \in FileRecords
    BY <1>1, <1>2, FileFields
  <1>5. /\ [f EXCEPT !.slot = s].slot = s
        /\ [f EXCEPT !.slot = s].st = f.st
        /\ SameRing([f EXCEPT !.slot = s], f)
    BY <1>1 DEF FileRecords, SameRing
  <1>6. FileType([f EXCEPT !.slot = s])
    BY <1>2, <1>4, <1>5 DEF FileType, SameRing
  <1> QED BY <1>3, <1>5, <1>6 DEF s, OneSlot

LEMMA AppendedType ==
    ASSUME NEW r, QueueType(r), r.len < r.num, NEW d \in Data
    PROVE  /\ QueueType(Appended(r, d))
           /\ Appended(r, d).flags = r.flags /\ Appended(r, d).num = r.num
           /\ Appended(r, d).head = r.head /\ Appended(r, d).len = r.len + 1
  <1> DEFINE m == IF InMemory(r) THEN [r.memory EXCEPT ![entry_index(r)] = d]
                                 ELSE r.memory
  <1>1. r \in QueueRecords /\ r.memory \in Memories
    BY DEF QueueType, QueueRecords
  <1>2. m \in Memories
    BY <1>1, MemoryWritten
  <1>3. Appended(r, d) = [[r EXCEPT !.memory = m] EXCEPT !.len = r.len + 1]
    BY <1>1 DEF Appended, QueueRecords
  <1> HIDE DEF m
  <1>4. r.len + 1 \in Nat /\ r.len + 1 <= r.num
    BY QueueNumbers
  <1>5. Appended(r, d) \in QueueRecords
    <2>1. [r EXCEPT !.memory = m] \in QueueRecords
      BY <1>1, <1>2, QueueFields
    <2> QED BY <1>3, <1>4, <2>1, QueueFields
  <1>6. /\ Appended(r, d).flags = r.flags /\ Appended(r, d).num = r.num
        /\ Appended(r, d).head = r.head /\ Appended(r, d).len = r.len + 1
    BY <1>1, <1>3 DEF QueueRecords
  <1> QED BY <1>4, <1>5, <1>6 DEF QueueType

LEMMA DroppedType ==
    ASSUME NEW r, QueueType(r), r.len > 0
    PROVE  /\ QueueType(Dropped(r))
           /\ Dropped(r).flags = r.flags /\ Dropped(r).num = r.num
           /\ Dropped(r).head = (IF r.head + 1 = r.num THEN 0 ELSE r.head + 1)
           /\ Dropped(r).len = r.len - 1
  <1> DEFINE m == IF InMemory(r) THEN [r.memory EXCEPT ![r.head] = NULL]
                                 ELSE r.memory
             h == IF r.head + 1 = r.num THEN 0 ELSE r.head + 1
  <1>1. r \in QueueRecords /\ r.memory \in Memories
    BY DEF QueueType, QueueRecords
  <1>2. m \in Memories
    BY <1>1, MemoryWritten
  <1>3. Dropped(r) = [[[r EXCEPT !.memory = m] EXCEPT !.head = h]
                          EXCEPT !.len = r.len - 1]
    BY <1>1 DEF Dropped, QueueRecords
  <1>4. /\ r.len - 1 \in Nat /\ r.len - 1 <= r.num
        /\ h \in Nat /\ h < r.num
    BY QueueNumbers
  <1> HIDE DEF m, h
  <1>5. Dropped(r) \in QueueRecords
    <2>1. [r EXCEPT !.memory = m] \in QueueRecords
      BY <1>1, <1>2, QueueFields
    <2>2. [[r EXCEPT !.memory = m] EXCEPT !.head = h] \in QueueRecords
      BY <1>4, <2>1, QueueFields
    <2> QED BY <1>3, <1>4, <2>2, QueueFields
  <1>6. /\ Dropped(r).flags = r.flags /\ Dropped(r).num = r.num
        /\ Dropped(r).head = h /\ Dropped(r).len = r.len - 1
    BY <1>1, <1>3 DEF QueueRecords
  <1> QED BY <1>4, <1>5, <1>6 DEF QueueType, h

LEMMA SyncedType ==
    ASSUME NEW f, FileType(f), NEW r, QueueType(r), r.num = f.num
    PROVE  /\ FileType(Synced(f, r))
           /\ Synced(f, r).st = f.st /\ Synced(f, r).slot = f.slot
           /\ SameRing(r, Synced(f, r))
  <1>1. f \in FileRecords
    BY DEF FileType
  <1>2. Synced(f, r) = [[f EXCEPT !.head = r.head] EXCEPT !.len = r.len]
    BY <1>1 DEF Synced, FileRecords
  <1>3. /\ Synced(f, r) \in FileRecords
        /\ Synced(f, r).st = f.st /\ Synced(f, r).slot = f.slot
        /\ Synced(f, r).num = f.num
        /\ Synced(f, r).head = r.head /\ Synced(f, r).len = r.len
    <2>1. r.head \in Nat /\ r.len \in Nat
      BY QueueNumbers
    <2>2. [f EXCEPT !.head = r.head] \in FileRecords
      BY <1>1, <2>1, FileFields
    <2>3. Synced(f, r) \in FileRecords
      BY <1>2, <2>1, <2>2, FileFields
    <2> QED BY <1>1, <1>2, <2>3 DEF FileRecords
  <1> QED BY <1>3, QueueNumbers DEF FileType, SameRing

\* The slot q_append writes is none of those in use, so whatever ends up
\* there the entries of the ring stay complete.
LEMMA WholeElsewhere ==
    ASSUME NEW r, QueueType(r), r.len < r.num,
           NEW cells \in [0 .. r.num - 1 -> Cell], Whole(r, cells), NEW c
    PROVE  Whole(r, [cells EXCEPT ![entry_index(r)] = c])
  <1> SUFFICES ASSUME NEW i \in 0 .. r.len - 1
               PROVE  [cells EXCEPT ![entry_index(r)] = c]
                          [Index(r.head, i, r.num)] \in Data
    BY DEF Whole
  <1>1. /\ r.num \in Nat \ {0} /\ r.head \in 0 .. r.num - 1
        /\ r.len \in 0 .. r.num - 1 /\ i \in 0 .. r.num - 1
    BY QueueNumbers
  <1>2. Index(r.head, i, r.num) # entry_index(r)
    BY <1>1, IndexInjective DEF entry_index
  <1>3. Index(r.head, i, r.num) \in 0 .. r.num - 1
    BY <1>1, IndexRange
  <1> QED BY <1>2, <1>3 DEF Whole

LEMMA WholeAppended ==
    ASSUME NEW r, QueueType(r), r.len < r.num, NEW d \in Data,
           NEW cells \in [0 .. r.num - 1 -> Cell], Whole(r, cells)
    PROVE  Whole(Appended(r, d), [cells EXCEPT ![entry_index(r)] = d])
  <1> DEFINE new == [cells EXCEPT ![entry_index(r)] = d]
  <1>1. /\ r.num \in Nat \ {0} /\ r.head \in 0 .. r.num - 1
        /\ r.len \in 0 .. r.num - 1
    BY QueueNumbers
  <1>2. Whole(r, new)
    BY WholeElsewhere
  <1>3. new[Index(r.head, r.len, r.num)] = d
    BY <1>1, IndexRange DEF entry_index
  <1> HIDE DEF new
  <1>4. \A i \in 0 .. r.len : new[Index(r.head, i, r.num)] \in Data
    BY <1>1, <1>2, <1>3 DEF Whole
  <1> QED BY <1>1, <1>4, AppendedType DEF Whole, new

LEMMA WholeDropped ==
    ASSUME NEW r, QueueType(r), r.len > 0, NEW cells, Whole(r, cells)
    PROVE  Whole(Dropped(r), cells)
  <1>1. /\ r.num \in Nat \ {0} /\ r.head \in 0 .. r.num - 1
        /\ r.len \in 1 .. r.num
    BY QueueNumbers
  <1> SUFFICES ASSUME NEW i \in 0 .. r.len - 2
               PROVE  cells[Index(Dropped(r).head, i, r.num)] \in Data
    BY <1>1, DroppedType DEF Whole
  <1>2. Index(Dropped(r).head, i, r.num) = Index(r.head, i + 1, r.num)
    BY <1>1, IndexShift, DroppedType
  <1> QED BY <1>1, <1>2 DEF Whole

LEMMA SlotsOfFile ==
    ASSUME NEW f, FileType(f)
    PROVE  f.slot \in [0 .. f.num - 1 -> Cell]
  <1>1. f.slot \in Slots /\ DOMAIN f.slot = 0 .. f.num - 1
    BY DEF FileType, FileRecords
  <1>2. PICK n \in Depths : f.slot \in [0 .. n - 1 -> Cell]
    BY <1>1 DEF Slots
  <1> QED BY <1>1, <1>2

\* The invariant says the same of two rings with the same numbers.
LEMMA WholeSame ==
    ASSUME NEW r, NEW f, NEW cells, SameRing(r, f), Whole(r, cells)
    PROVE  Whole(f, cells)
  BY DEF SameRing, Whole

-----------------------------------------------------------------------------
(* Every step keeps the invariant. *)

LEMMA InitIInv == Init => IInv
  <1> SUFFICES ASSUME Init PROVE IInv
    OBVIOUS
  <1>1. TypeOK
    BY NoFileType, NoQueueType DEF Init, TypeOK, Depths
  <1>2. file.st = "absent"
    BY NoFileType DEF Init
  <1> QED BY <1>1, <1>2 DEF Init, IInv

\* The exits that give the queue up keep the file as it is.
LEMMA GoneIInv ==
    ASSUME IInv, Gone, rc' \in {-1, 0, 1}, UNCHANGED file
    PROVE  IInv'
  <1>1. TypeOK'
    BY NoFileType, NoQueueType DEF IInv, TypeOK, Gone, Depths
  <1> QED BY <1>1 DEF IInv, Gone, Whole

LEMMA UndefinedIInv ==
    ASSUME IInv, Undefined
    PROVE  IInv'
  <1>1. TypeOK'
    BY DEF IInv, TypeOK, Undefined
  <1> QED BY <1>1 DEF IInv, Undefined, Whole

LEMMA OpenFailsIInv ==
    ASSUME IInv, OpenFails
    PROVE  IInv'
  BY GoneIInv, UndefinedIInv DEF OpenFails

LEMMA QOpenIInv ==
    ASSUME IInv, NEW f \in FlagSets, NEW n \in Sizes, q_open(f, n)
    PROVE  IInv'
  <1> DEFINE r == NewQueue(f, n)
  <1>1. f \in SUBSET FlagNames /\ n \in Depths
    BY FlagsAssumption DEF Depths
  <1>2. /\ QueueType(r) /\ r.flags = f /\ r.num = n /\ r.head = 0 /\ r.len = 0
    BY <1>1, NewQueueType
  <1>3. /\ TypeOK
        /\ file.st = "full" => Whole(file, file.slot)
        /\ UNCHANGED <<tmpfile, q2>> /\ pc = "closed"
    BY DEF IInv, q_open
  <1> HIDE DEF r
  <1>4. CASE rc' = -1 /\ UNCHANGED <<file, q, req, pc>>
    <2>1. TypeOK'
      BY <1>3, <1>4 DEF TypeOK
    <2> QED BY <1>3, <1>4, <2>1 DEF IInv, Whole
  <1>5. CASE /\ "Q_IN_FILE" \notin f
             /\ q' = r
             /\ Return(0)
             /\ UNCHANGED <<file, req>>
    <2>1. TypeOK'
      BY <1>2, <1>3, <1>5 DEF TypeOK, Return
    <2>2. pc' = "idle" /\ ~InFile(q)'
      BY <1>2, <1>5 DEF Return, InFile
    <2> QED BY <1>3, <1>5, <2>1, <2>2 DEF IInv, Whole
  <1>6. CASE /\ "Q_IN_FILE" \in f
             /\ file' = [NoFile EXCEPT !.st = "empty"]
             /\ q' = r
             /\ req' = n
             /\ pc' = "create"
             /\ rc' = 0
    <2>1. FileType(file)' /\ file'.st = "empty"
      <3>1. file' = [NoFile EXCEPT !.st = "empty"]
        BY <1>6
      <3> QED BY <3>1, NoFileType DEF FileType, FileRecords
    <2>2. TypeOK'
      BY <1>1, <1>2, <1>3, <1>6, <2>1 DEF TypeOK
    <2> QED BY <1>2, <1>6, <2>1, <2>2 DEF IInv, InFile
  <1>7. CASE /\ "Q_IN_FILE" \in f
             /\ file.st = "full"
             /\ q' = [r EXCEPT !.num = file.num, !.head = file.head,
                               !.len = file.len]
             /\ req' = n
             /\ pc' = "opened"
             /\ rc' = 0
             /\ UNCHANGED file
    <2>1. FileType(file) /\ r \in QueueRecords /\ r.memory \in Memories
      BY <1>2, <1>3 DEF TypeOK, QueueType, QueueRecords
    <2>2. q' = [flags |-> r.flags, num |-> file.num, head |-> file.head,
                len |-> file.len, memory |-> r.memory]
      BY <1>7, <2>1 DEF QueueRecords
    <2>3. QueueType(q)' /\ SameRing(q, file)' /\ q'.flags = f
      BY <1>1, <1>2, <1>7, <2>1, <2>2
         DEF QueueType, QueueRecords, FileType, FileRecords, SameRing
    <2>4. TypeOK'
      BY <1>1, <1>3, <1>7, <2>3 DEF TypeOK
    <2> QED BY <1>3, <1>7, <2>3, <2>4 DEF IInv, InFile, Whole
  <1> QED BY <1>4, <1>5, <1>6, <1>7 DEF q_open, r

LEMMA CreateHeaderIInv ==
    ASSUME IInv, CreateHeader
    PROVE  IInv'
  <1>1. CASE /\ file' = NewFile(q.num, "header")
             /\ pc' = "allocate"
             /\ UNCHANGED <<tmpfile, q, q2, req, rc>>
    <2>1. q.num \in Depths /\ InFile(q) /\ q.head = 0 /\ q.len = 0
      BY DEF IInv, TypeOK, QueueType, QueueRecords, CreateHeader
    <2>2. /\ FileType(file)' /\ file'.st = "header" /\ file'.num = q.num
          /\ file'.head = 0 /\ file'.len = 0
      BY <1>1, <2>1, NewFileType
    <2>3. TypeOK'
      BY <1>1, <2>2 DEF IInv, TypeOK
    <2> QED BY <1>1, <2>1, <2>2, <2>3 DEF IInv, SameRing, InFile
  <1> QED BY <1>1, GoneIInv DEF CreateHeader

LEMMA CreateAllocateIInv ==
    ASSUME IInv, CreateAllocate
    PROVE  IInv'
  <1>1. CASE /\ file' = [file EXCEPT !.st = "full"]
             /\ pc' = "opened"
             /\ UNCHANGED <<tmpfile, q, q2, req, rc>>
    <2>1. /\ InFile(q) /\ SameRing(q, file) /\ file.len = 0 /\ FileType(file)
      BY DEF IInv, TypeOK, CreateAllocate
    <2>2. /\ FileType(file)' /\ file'.st = "full" /\ SameRing(file', file)
      BY <1>1, <2>1 DEF FileType, FileRecords, SameRing
    <2>3. TypeOK'
      BY <1>1, <2>2 DEF IInv, TypeOK
    <2>4. Whole(file, file.slot)'
      BY <2>1, <2>2 DEF SameRing, Whole
    <2> QED BY <1>1, <2>1, <2>2, <2>3, <2>4 DEF IInv, SameRing, InFile
  <1> QED BY <1>1, GoneIInv DEF CreateAllocate

LEMMA OpenedIInv ==
    ASSUME IInv, Opened
    PROVE  IInv'
  <1>1. CASE Return(0) /\ req' = 1 /\ UNCHANGED <<file, tmpfile, q, q2>>
    <2>1. TypeOK'
      BY <1>1 DEF IInv, TypeOK, Return, Depths
    <2> QED BY <1>1, <2>1 DEF IInv, Return, Opened, SameRing, InFile, Whole
  <1>2. CASE /\ tmpfile' = NewFile(req, "full")
             /\ q2' = NewQueue(q.flags \cup {"Q_CREAT", "Q_EXCL"}, req)
             /\ pc' = "copy"
             /\ UNCHANGED <<file, q, req, rc>>
    <2> DEFINE fl == q.flags \cup {"Q_CREAT", "Q_EXCL"}
    <2>1. fl \in SUBSET FlagNames /\ req \in Depths /\ "Q_IN_FILE" \in fl
      BY DEF IInv, TypeOK, QueueType, QueueRecords, Opened, InFile, FlagNames
    <2>2. /\ FileType(tmpfile)' /\ tmpfile'.st = "full" /\ tmpfile'.num = req
      BY <1>2, <2>1, NewFileType
    <2>3. /\ QueueType(q2)' /\ q2'.flags = fl /\ q2'.num = req /\ q2'.len = 0
      BY <1>2, <2>1, NewQueueType
    <2>4. TypeOK'
      BY <1>2, <2>2, <2>3 DEF IInv, TypeOK
    <2> QED BY <1>2, <2>1, <2>2, <2>3, <2>4 DEF IInv, InFile, Whole
  <1> QED BY <1>1, <1>2, OpenFailsIInv DEF Opened

LEMMA ResizeCopyIInv ==
    ASSUME IInv, ResizeCopy
    PROVE  IInv'
  <1>1. CASE Undefined \/ OpenFails
    BY <1>1, UndefinedIInv, OpenFailsIInv
  <1>2. ASSUME NEW d \in Data,
               q2.len < q2.num,
               tmpfile' = Written(tmpfile, entry_index(q2), d),
               q2' = Appended(q2, d),
               q' = Dropped(q),
               UNCHANGED <<file, req, pc, rc>>
        PROVE  IInv'
    <2>1. /\ TypeOK /\ QueueType(q) /\ QueueType(q2) /\ FileType(tmpfile)
          /\ pc = "copy" /\ q.len > 0
      BY DEF IInv, TypeOK, ResizeCopy
    <2>2. /\ InFile(q2) /\ tmpfile.st = "full" /\ q2.num = tmpfile.num
          /\ Whole(q2, tmpfile.slot)
      BY <2>1 DEF IInv
    <2>3. /\ FileType(tmpfile)' /\ tmpfile'.st = "full" /\ tmpfile'.num = tmpfile.num
          /\ tmpfile'.slot = [tmpfile.slot EXCEPT ![entry_index(q2)] = d]
      <3>1. d \in Cell
        BY DEF Cell
      <3>2. FileType(tmpfile') /\ OneSlot(tmpfile', tmpfile, entry_index(q2), d)
        BY <1>2, <2>1, <3>1, SlotWritten
      <3> QED BY <2>2, <3>2 DEF OneSlot, SameRing
    <2>4. /\ QueueType(q2)' /\ q2'.flags = q2.flags /\ q2'.num = q2.num
      BY <1>2, <2>1, AppendedType
    <2>5. Whole(q2, tmpfile.slot)'
      BY <1>2, <2>1, <2>2, <2>3, SlotsOfFile, WholeAppended
    <2>6. QueueType(q)'
      BY <1>2, <2>1, DroppedType
    <2>7. TypeOK'
      BY <1>2, <2>1, <2>3, <2>4, <2>6 DEF TypeOK
    <2> QED BY <1>2, <2>1, <2>2, <2>3, <2>4, <2>5, <2>7 DEF IInv, InFile, Whole
  <1> QED BY <1>1, <1>2 DEF ResizeCopy

LEMMA ResizeSyncIInv ==
    ASSUME IInv, ResizeSync
    PROVE  IInv'
  <1>1. CASE /\ tmpfile' = Synced(tmpfile, q2)
             /\ pc' = "rename"
             /\ UNCHANGED <<file, q, q2, req, rc>>
    <2>1. /\ TypeOK /\ QueueType(q2) /\ FileType(tmpfile)
          /\ InFile(q2) /\ tmpfile.st = "full" /\ q2.num = tmpfile.num
          /\ Whole(q2, tmpfile.slot)
      BY DEF IInv, TypeOK, ResizeSync
    <2>2. /\ FileType(tmpfile)' /\ tmpfile'.st = "full" /\ tmpfile'.slot = tmpfile.slot
          /\ SameRing(q2, tmpfile)'
      BY <1>1, <2>1, SyncedType DEF SameRing
    <2>3. TypeOK'
      BY <1>1, <2>1, <2>2 DEF TypeOK
    <2> QED BY <1>1, <2>1, <2>2, <2>3 DEF IInv, InFile, Whole, SameRing
  <1> QED BY <1>1, OpenFailsIInv DEF ResizeSync

LEMMA ResizeRenameIInv ==
    ASSUME IInv, ResizeRename
    PROVE  IInv'
  <1>1. CASE /\ file' = tmpfile
             /\ tmpfile' = NoFile
             /\ q' = q2
             /\ q2' = NoQueue
             /\ req' = 1
             /\ Return(0)
    <2>1. /\ TypeOK /\ tmpfile.st = "full" /\ Whole(q2, tmpfile.slot)
          /\ SameRing(q2, tmpfile)
      BY DEF IInv, ResizeRename
    <2>2. TypeOK'
      BY <1>1, <2>1, NoFileType, NoQueueType DEF TypeOK, Return, Depths
    <2>3. Whole(tmpfile, tmpfile.slot)
      BY <2>1, WholeSame
    <2> QED BY <1>1, <2>1, <2>2, <2>3 DEF IInv, Return, SameRing, Whole
  <1>2. CASE /\ file' = tmpfile
             /\ tmpfile' = NoFile
             /\ pc' = "undefined"
             /\ UNCHANGED <<q, q2, req, rc>>
    <2>1. /\ TypeOK /\ tmpfile.st = "full" /\ Whole(q2, tmpfile.slot)
          /\ SameRing(q2, tmpfile)
      BY DEF IInv, ResizeRename
    <2>2. TypeOK'
      BY <1>2, <2>1, NoFileType DEF TypeOK
    <2>3. Whole(tmpfile, tmpfile.slot)
      BY <2>1, WholeSame
    <2> QED BY <1>2, <2>1, <2>2, <2>3 DEF IInv, SameRing, Whole
  <1> QED BY <1>1, <1>2, OpenFailsIInv DEF ResizeRename

LEMMA QAppendIInv ==
    ASSUME IInv, NEW d \in Data \cup Long, q_append(d)
    PROVE  IInv'
  <1>1. /\ TypeOK /\ QueueType(q) /\ FileType(file) /\ pc = "idle"
        /\ UNCHANGED <<tmpfile, q2, req>>
    BY DEF IInv, TypeOK, q_append
  <1>2. CASE rc' = -1 /\ UNCHANGED <<file, q, pc>>
    <2>1. TypeOK'
      BY <1>1, <1>2 DEF TypeOK
    <2> QED BY <1>1, <1>2, <2>1 DEF IInv, InFile, SameRing, Whole
  <1>3. CASE /\ q.len < q.num /\ d \in Data /\ ~InFile(q)
             /\ q' = Appended(q, d) /\ Return(0) /\ UNCHANGED file
    <2>1. /\ QueueType(q)' /\ q'.flags = q.flags
      BY <1>1, <1>3, AppendedType
    <2>2. TypeOK'
      BY <1>1, <1>3, <2>1 DEF TypeOK, Return
    <2> QED BY <1>1, <1>3, <2>1, <2>2 DEF IInv, InFile, Return, Whole
  <1>4. ASSUME q.len < q.num, InFile(q), NEW c \in Cell,
               file' = Written(file, entry_index(q), c)
        PROVE  /\ FileType(file)' /\ file'.st = "full"
               /\ SameRing(q, file) /\ SameRing(q, file')
               /\ file'.slot = [file.slot EXCEPT ![entry_index(q)] = c]
               /\ file.slot \in [0 .. q.num - 1 -> Cell]
               /\ Whole(q, file.slot) /\ Whole(file, file.slot)'
    <2>1. /\ file.st = "full" /\ SameRing(q, file) /\ Whole(file, file.slot)
      BY <1>1, <1>4 DEF IInv
    <2>2. /\ FileType(file)' /\ file'.st = "full" /\ SameRing(q, file')
          /\ file'.slot = [file.slot EXCEPT ![entry_index(q)] = c]
      <3>1. FileType(file') /\ OneSlot(file', file, entry_index(q), c)
        BY <1>1, <1>4, SlotWritten
      <3> QED BY <2>1, <3>1 DEF OneSlot, SameRing
    <2>3. Whole(q, file.slot) /\ file.slot \in [0 .. q.num - 1 -> Cell]
      BY <1>1, <2>1, SlotsOfFile DEF SameRing, Whole
    <2>4. Whole(q, [file.slot EXCEPT ![entry_index(q)] = c])
      BY <1>1, <1>4, <2>3, WholeElsewhere
    <2> QED BY <2>1, <2>2, <2>3, <2>4 DEF Whole, SameRing
  <1>5. CASE /\ q.len < q.num /\ d \in Data /\ InFile(q)
             /\ file' = Written(file, entry_index(q), d)
             /\ q' = Appended(q, d)
             /\ pc' = "sync"
             /\ rc' = 0
    <2>1. d \in Cell
      BY <1>5 DEF Cell
    <2>2. /\ FileType(file)' /\ file'.st = "full" /\ SameRing(q, file')
          /\ file'.slot = [file.slot EXCEPT ![entry_index(q)] = d]
          /\ file.slot \in [0 .. q.num - 1 -> Cell]
          /\ Whole(q, file.slot) /\ Whole(file, file.slot)'
      BY <1>4, <1>5, <2>1
    <2>3. /\ QueueType(q)' /\ q'.flags = q.flags /\ q'.num = q.num
      BY <1>1, <1>5, AppendedType
    <2>4. Whole(q', file'.slot)
      BY <1>1, <1>5, <2>2, WholeAppended
    <2>5. TypeOK'
      BY <1>1, <1>5, <2>2, <2>3 DEF TypeOK
    <2> QED BY <1>1, <1>5, <2>2, <2>3, <2>4, <2>5 DEF IInv, InFile, SameRing
  <1>6. CASE /\ q.len < q.num /\ InFile(q)
             /\ file' = Written(file, entry_index(q), TORN)
             /\ Return(-1) /\ UNCHANGED q
    <2>1. TORN \in Cell
      BY DEF Cell
    <2>2. /\ FileType(file)' /\ file'.st = "full" /\ SameRing(q, file')
          /\ Whole(file, file.slot)'
      BY <1>4, <1>6, <2>1
    <2>3. TypeOK'
      BY <1>1, <1>6, <2>2 DEF TypeOK, Return
    <2> QED BY <1>1, <1>6, <2>2, <2>3 DEF IInv, Return, SameRing
  <1>7. CASE UNCHANGED <<file, q>> /\ Return(-1)
    <2>1. TypeOK'
      BY <1>1, <1>7 DEF TypeOK, Return
    <2> QED BY <1>1, <1>7, <2>1 DEF IInv, Return, InFile, SameRing, Whole
  <1> QED BY <1>2, <1>3, <1>5, <1>6, <1>7 DEF q_append

LEMMA QDropHeadIInv ==
    ASSUME IInv, q_drop_head
    PROVE  IInv'
  <1>1. /\ TypeOK /\ QueueType(q) /\ FileType(file) /\ pc = "idle"
        /\ UNCHANGED <<file, tmpfile, q2, req>>
    BY DEF IInv, TypeOK, q_drop_head
  <1>2. CASE Return(-1) /\ UNCHANGED q
    <2>1. TypeOK'
      BY <1>1, <1>2 DEF TypeOK, Return
    <2> QED BY <1>1, <1>2, <2>1 DEF IInv, Return, InFile, SameRing, Whole
  <1>3. CASE /\ q.len > 0
             /\ q' = Dropped(q)
             /\ pc' = IF InFile(q) THEN "sync" ELSE "idle"
             /\ rc' = 0
    <2>1. /\ QueueType(q)' /\ q'.flags = q.flags /\ q'.num = q.num
      BY <1>1, <1>3, DroppedType
    <2>2. TypeOK'
      BY <1>1, <1>3, <2>1 DEF TypeOK
    <2>3. CASE ~InFile(q)
      BY <1>1, <1>3, <2>1, <2>2, <2>3 DEF IInv, InFile, Whole
    <2>4. CASE InFile(q)
      <3>1. /\ file.st = "full" /\ SameRing(q, file) /\ Whole(file, file.slot)
        BY <1>1, <2>4 DEF IInv
      <3>2. Whole(q, file.slot)
        BY <3>1 DEF SameRing, Whole
      <3>3. Whole(q', file.slot)
        BY <1>1, <1>3, <3>2, WholeDropped
      <3> QED BY <1>1, <1>3, <2>1, <2>2, <2>4, <3>1, <3>3
              DEF IInv, InFile, SameRing, Whole
    <2> QED BY <2>3, <2>4
  <1> QED BY <1>2, <1>3 DEF q_drop_head

\* The one step that needs the caller to give up after a failed header write.
LEMMA SyncIInv ==
    ASSUME IInv, sync_fh_state, KeepGoing = FALSE
    PROVE  IInv'
  <1>1. /\ TypeOK /\ QueueType(q) /\ FileType(file) /\ file.st = "full"
        /\ InFile(q) /\ q.num = file.num /\ Whole(q, file.slot)
        /\ UNCHANGED <<tmpfile, q, q2, req>>
    BY DEF IInv, TypeOK, sync_fh_state
  <1>2. CASE file' = Synced(file, q) /\ Return(0)
    <2>1. /\ FileType(file)' /\ file'.st = "full" /\ file'.slot = file.slot
          /\ SameRing(q, file')
      BY <1>1, <1>2, SyncedType
    <2>2. TypeOK'
      BY <1>1, <1>2, <2>1 DEF TypeOK, Return
    <2>3. Whole(file', file.slot)
      BY <1>1, <2>1, WholeSame
    <2> QED BY <1>1, <1>2, <2>1, <2>2, <2>3 DEF IInv, Return, SameRing
  <1>3. CASE pc' = "failed" /\ rc' = -1 /\ UNCHANGED file
    <2>1. TypeOK'
      BY <1>1, <1>3 DEF TypeOK
    <2> QED BY <1>1, <1>3, <2>1 DEF IInv, Whole
  <1> QED BY <1>2, <1>3 DEF sync_fh_state

LEMMA QPeekIInv ==
    ASSUME IInv, q_peek
    PROVE  IInv'
  <1>1. /\ TypeOK /\ QueueType(q) /\ pc = "idle" /\ rc' \in {-1, 0, 1}
        /\ UNCHANGED <<file, tmpfile, q2, req, pc>>
    BY DEF IInv, TypeOK, q_peek
  <1>2. CASE UNCHANGED q
    <2>1. TypeOK'
      BY <1>1, <1>2 DEF TypeOK
    <2> QED BY <1>1, <1>2, <2>1 DEF IInv, InFile, SameRing, Whole
  <1>3. ASSUME NEW d \in Data, q' = [q EXCEPT !.memory[q.head] = d]
        PROVE  IInv'
    <2> DEFINE m == [q.memory EXCEPT ![q.head] = d]
    <2>1. q \in QueueRecords /\ q.memory \in Memories
      BY <1>1 DEF QueueType, QueueRecords
    <2>2. m \in Memories
      BY <2>1, MemoryWritten
    <2>3. q' = [q EXCEPT !.memory = m]
      BY <1>3
    <2> HIDE DEF m
    <2>4. q' \in QueueRecords
      BY <2>1, <2>2, <2>3, QueueFields
    <2>5. /\ q'.flags = q.flags /\ q'.num = q.num /\ q'.head = q.head
          /\ q'.len = q.len
      BY <2>1, <2>3 DEF QueueRecords
    <2>6. QueueType(q)'
      BY <1>1, <2>4, <2>5 DEF QueueType
    <2>7. TypeOK'
      BY <1>1, <2>6 DEF TypeOK
    <2> QED BY <1>1, <2>5, <2>7 DEF IInv, InFile, SameRing, Whole
  <1> QED BY <1>2, <1>3 DEF q_peek

LEMMA NextIInv ==
    ASSUME IInv, [Next]_vars, KeepGoing = FALSE
    PROVE  IInv'
  <1>1. CASE UNCHANGED vars
    <2>1. TypeOK'
      BY <1>1 DEF IInv, TypeOK, vars
    <2> QED BY <1>1, <2>1 DEF IInv, vars, InFile, SameRing, Whole
  <1>2. CASE q_close
    BY <1>2, GoneIInv DEF q_close
  <1>3. CASE Crash
    BY <1>3, GoneIInv DEF Crash
  <1> QED
    BY <1>1, <1>2, <1>3, QOpenIInv, CreateHeaderIInv, CreateAllocateIInv,
       OpenedIInv, ResizeCopyIInv, ResizeSyncIInv, ResizeRenameIInv,
       QAppendIInv, QDropHeadIInv, SyncIInv, QPeekIInv DEF Next

\* The invariant holds for as long as the caller gives up the queue after a
\* failed header write.
LEMMA Invariance ==
    ASSUME KeepGoing = FALSE
    PROVE  Spec => []IInv
  <1>1. IInv /\ [Next]_vars => IInv'
    BY NextIInv
  <1> QED BY InitIInv, <1>1, PTL DEF Spec

-----------------------------------------------------------------------------
(* The theorems. *)

\* The ring arithmetic of queue.c: head and length stay inside num_entries in
\* memory, in the file and in the temporary file, through every wraparound,
\* resize, failed write and crash.
THEOREM TypeCorrect ==
    ASSUME KeepGoing = FALSE
    PROVE  Spec => []TypeOK
  <1>1. IInv => TypeOK
    BY DEF IInv
  <1> QED BY <1>1, Invariance, PTL

\* What a crash leaves behind at any moment is a file whose counted entries
\* were all completely written (q_append writes the entry before sync_fh_state
\* counts it, and the resize renames a finished file).
THEOREM CrashSafety ==
    ASSUME KeepGoing = FALSE
    PROVE  Spec => []EntriesWhole
  <1>1. IInv => EntriesWhole
    BY DEF IInv, EntriesWhole, Whole, Used
  <1> QED BY <1>1, Invariance, PTL

-----------------------------------------------------------------------------
(***************************************************************************)
(* The queue of audisp-remote implements a FIFO with a durable copy        *)
(* (PersistentFifo), for every set of strings, every queue depth, resizing *)
(* included, and every combination of flags.                               *)
(*                                                                         *)
(* First the ring without the program: writing the entry after the last    *)
(* appends to its contents, and moving its head takes the first away.      *)
(* Then what has to be true of the copies in memory and of a resize in     *)
(* progress, and the steps.                                                *)
(***************************************************************************)

-----------------------------------------------------------------------------
(* The contents of a ring. *)

LEMMA ContentsAre ==
    ASSUME NEW r, QueueType(r), NEW cells, NEW S,
           \A i \in 0 .. r.len - 1 : cells[Index(r.head, i, r.num)] \in S
    PROVE  /\ Contents(r, cells) \in Seq(S)
           /\ Len(Contents(r, cells)) = r.len /\ r.len \in Nat
           /\ \A i \in 1 .. r.len : Contents(r, cells)[i] = cells[Index(r.head, i - 1, r.num)]
  <1>1. r.len \in Nat
    BY QueueNumbers
  <1>2. \A i \in 1 .. r.len : cells[Index(r.head, i - 1, r.num)] \in S
    BY <1>1
  <1> QED
    BY <1>1, <1>2 DEF Contents

\* Two sequences with the same elements.
LEMMA SameSequence ==
    ASSUME NEW S, NEW s \in Seq(S), NEW T, NEW t \in Seq(T), Len(s) = Len(t),
           \A i \in 1 .. Len(s) : s[i] = t[i]
    PROVE  s = t
  OBVIOUS

\* The contents depend on the entries in use only.
LEMMA ContentsSame ==
    ASSUME NEW r, NEW f, SameRing(r, f), NEW a, NEW b,
           \A i \in 0 .. r.len - 1 : a[Index(r.head, i, r.num)] = b[Index(r.head, i, r.num)],
           r.len \in Nat
    PROVE  Contents(r, a) = Contents(f, b)
  <1>1. \A i \in 1 .. r.len : a[Index(r.head, i - 1, r.num)] = b[Index(r.head, i - 1, r.num)]
    OBVIOUS
  <1> QED
    BY <1>1 DEF SameRing, Contents

LEMMA ContentsAppended ==
    ASSUME NEW r, QueueType(r), NEW t, QueueType(t), NEW a, NEW b,
           t.num = r.num, t.head = r.head, t.len = r.len + 1,
           \A i \in 0 .. r.len - 1 : b[Index(r.head, i, r.num)] = a[Index(r.head, i, r.num)]
    PROVE  Contents(t, b) = Append(Contents(r, a), b[Index(r.head, r.len, r.num)])
  <1> DEFINE S == {b[Index(r.head, i, r.num)] : i \in 0 .. r.len}
             d == b[Index(r.head, r.len, r.num)]
  <1>1. r.len \in Nat
    BY QueueNumbers
  <1>2. d \in S /\ \A i \in 0 .. r.len : b[Index(r.head, i, r.num)] \in S
    BY <1>1
  <1> HIDE DEF S
  <1>3. /\ Contents(t, b) \in Seq(S) /\ Len(Contents(t, b)) = r.len + 1
        /\ \A i \in 1 .. r.len + 1 : Contents(t, b)[i] = b[Index(r.head, i - 1, r.num)]
    <2>1. t.len = r.len + 1 /\ t.num = r.num /\ t.head = r.head
      OBVIOUS
    <2>2. \A i \in 0 .. t.len - 1 : b[Index(t.head, i, t.num)] \in S
      BY <1>1, <1>2, <2>1
    <2>3. /\ Contents(t, b) \in Seq(S) /\ Len(Contents(t, b)) = t.len
          /\ \A i \in 1 .. t.len : Contents(t, b)[i] = b[Index(t.head, i - 1, t.num)]
      BY <2>2, ContentsAre, Zenon
    <2> QED
      BY ONLY <2>1, <2>3
  <1>4. /\ Contents(r, a) \in Seq(S) /\ Len(Contents(r, a)) = r.len
        /\ \A i \in 1 .. r.len : Contents(r, a)[i] = b[Index(r.head, i - 1, r.num)]
    <2>1. \A i \in 0 .. r.len - 1 : a[Index(r.head, i, r.num)] \in S
      BY <1>1, <1>2
    <2>2. /\ Contents(r, a) \in Seq(S) /\ Len(Contents(r, a)) = r.len
          /\ \A i \in 1 .. r.len : Contents(r, a)[i] = a[Index(r.head, i - 1, r.num)]
      BY <2>1, ContentsAre, Zenon
    <2> QED
      BY <1>1, <2>2
  <1> HIDE DEF d
  <1>5. /\ Append(Contents(r, a), d) \in Seq(S) /\ Len(Append(Contents(r, a), d)) = r.len + 1
        /\ \A i \in 1 .. r.len : Append(Contents(r, a), d)[i] = Contents(r, a)[i]
        /\ Append(Contents(r, a), d)[r.len + 1] = d
    BY <1>1, <1>2, <1>4
  <1>6. \A i \in 1 .. r.len + 1 : Contents(t, b)[i] = Append(Contents(r, a), d)[i]
    BY <1>1, <1>3, <1>4, <1>5 DEF d
  <1> QED
    BY <1>3, <1>5, <1>6, SameSequence, Zenon DEF d

LEMMA ContentsDropped ==
    ASSUME NEW r, QueueType(r), r.len > 0, NEW t, QueueType(t), NEW a, NEW b,
           t.num = r.num, t.head = (IF r.head + 1 = r.num THEN 0 ELSE r.head + 1),
           t.len = r.len - 1,
           \A i \in 1 .. r.len - 1 : b[Index(r.head, i, r.num)] = a[Index(r.head, i, r.num)]
    PROVE  /\ Contents(r, a) # <<>>
           /\ Contents(t, b) = Tail(Contents(r, a))
  <1> DEFINE S == {a[Index(r.head, i, r.num)] : i \in 0 .. r.len - 1}
  <1>1. r.len \in Nat /\ r.num \in Nat \ {0} /\ r.head \in 0 .. r.num - 1 /\ r.len \in 1 .. r.num
    BY QueueNumbers
  <1>2. \A i \in 0 .. r.len - 1 : a[Index(r.head, i, r.num)] \in S
    OBVIOUS
  <1> HIDE DEF S
  <1>3. /\ Contents(r, a) \in Seq(S) /\ Len(Contents(r, a)) = r.len
        /\ \A i \in 1 .. r.len : Contents(r, a)[i] = a[Index(r.head, i - 1, r.num)]
    BY <1>2, ContentsAre, Zenon
  <1>4. \A i \in 0 .. r.len - 2 : Index(t.head, i, r.num) = Index(r.head, i + 1, r.num)
    BY <1>1, IndexShift
  <1>5. \A i \in 0 .. t.len - 1 : b[Index(t.head, i, t.num)] = a[Index(r.head, i + 1, r.num)]
    BY <1>1, <1>4
  <1>6. \A i \in 0 .. t.len - 1 : b[Index(t.head, i, t.num)] \in S
    BY <1>1, <1>2, <1>5
  <1>7. /\ Contents(t, b) \in Seq(S) /\ Len(Contents(t, b)) = r.len - 1
        /\ \A i \in 1 .. r.len - 1 : Contents(t, b)[i] = b[Index(t.head, i - 1, t.num)]
    BY <1>6, ContentsAre, Zenon
  <1>8. /\ Contents(r, a) # <<>> /\ Tail(Contents(r, a)) \in Seq(S)
        /\ Len(Tail(Contents(r, a))) = r.len - 1
        /\ \A i \in 1 .. r.len - 1 : Tail(Contents(r, a))[i] = Contents(r, a)[i + 1]
    BY <1>1, <1>3
  <1>9. \A i \in 1 .. r.len - 1 : Contents(t, b)[i] = Tail(Contents(r, a))[i]
    <2> SUFFICES ASSUME NEW i \in 1 .. r.len - 1
                 PROVE  Contents(t, b)[i] = Tail(Contents(r, a))[i]
      BY Zenon
    <2>1. Contents(t, b)[i] = b[Index(t.head, i - 1, t.num)]
      BY <1>7
    <2>2. b[Index(t.head, i - 1, t.num)] = a[Index(r.head, (i - 1) + 1, r.num)]
      BY <1>1, <1>5
    <2>3. (i - 1) + 1 = i /\ (i + 1) - 1 = i /\ i + 1 \in 1 .. r.len
      BY <1>1
    <2>4. Tail(Contents(r, a))[i] = a[Index(r.head, i, r.num)]
      BY <1>3, <1>8, <2>3
    <2> QED
      BY <2>1, <2>2, <2>3, <2>4, Zenon
  <1> QED
    BY <1>7, <1>8, <1>9, SameSequence

-----------------------------------------------------------------------------
(* The copies in memory. *)

\* The copies in memory: none outside the ring, and inside it what the file has.
\* Without a file every entry has one.
Coherent(r, cells) ==
    InMemory(r) =>
      /\ DOMAIN r.memory = 0 .. r.num - 1
      /\ \A i \in 0 .. r.num - 1 :
           LET k == Index(r.head, i, r.num)
           IN  IF i < r.len
               THEN IF InFile(r) THEN r.memory[k] \in {NULL, cells[k]} ELSE r.memory[k] # NULL
               ELSE r.memory[k] = NULL

Fresh(r) == \A i \in DOMAIN r.memory : r.memory[i] = NULL

LEMMA AppendedMemory ==
    ASSUME NEW r, QueueType(r), NEW d
    PROVE  Appended(r, d).memory =
             IF InMemory(r) THEN [r.memory EXCEPT ![entry_index(r)] = d] ELSE r.memory
  BY DEF Appended, QueueType, QueueRecords

LEMMA DroppedMemory ==
    ASSUME NEW r, QueueType(r)
    PROVE  Dropped(r).memory =
             IF InMemory(r) THEN [r.memory EXCEPT ![r.head] = NULL] ELSE r.memory
  BY DEF Dropped, QueueType, QueueRecords

LEMMA MemoryType ==
    ASSUME NEW r, QueueType(r)
    PROVE  r.memory \in [DOMAIN r.memory -> Data \cup {NULL}]
  BY Zenon DEF QueueType, QueueRecords, Memories

\* Where the entries of a ring are found.
View(r, f) == IF InFile(r) THEN f.slot ELSE r.memory

LEMMA EntryIs ==
    ASSUME NEW r, QueueType(r), NEW f, Coherent(r, f.slot), InMemory(r) \/ InFile(r)
    PROVE  \A i \in 0 .. r.len - 1 :
              Entry(r, f, Index(r.head, i, r.num)) = View(r, f)[Index(r.head, i, r.num)]
  <1> SUFFICES ASSUME NEW i \in 0 .. r.len - 1
               PROVE  Entry(r, f, Index(r.head, i, r.num)) = View(r, f)[Index(r.head, i, r.num)]
    OBVIOUS
  <1> DEFINE k == Index(r.head, i, r.num)
  <1>1. i \in 0 .. r.num - 1 /\ i < r.len
    BY QueueNumbers
  <1>2. InMemory(r) => IF InFile(r) THEN r.memory[k] \in {NULL, f.slot[k]} ELSE r.memory[k] # NULL
    BY <1>1 DEF Coherent
  <1> HIDE DEF k
  <1>3. Entry(r, f, k) = View(r, f)[k]
    BY <1>2 DEF Entry, View
  <1> QED
    BY <1>3 DEF k

\* Writing the place after the last entry leaves the entries in use alone.
LEMMA EntryWritten ==
    ASSUME NEW r, QueueType(r), r.len < r.num, NEW f, FileType(f), f.num = r.num,
           NEW g, NEW c, OneSlot(g, f, entry_index(r), c)
    PROVE  /\ g.slot[entry_index(r)] = c
           /\ \A i \in 0 .. r.len - 1 :
                 g.slot[Index(r.head, i, r.num)] = f.slot[Index(r.head, i, r.num)]
  <1>1. r.num \in Nat \ {0} /\ r.head \in 0 .. r.num - 1 /\ r.len \in 0 .. r.num - 1
    BY QueueNumbers
  <1>2. entry_index(r) \in DOMAIN f.slot
    BY <1>1, IndexRange DEF entry_index, FileType
  <1>3. ASSUME NEW i \in 0 .. r.len - 1
        PROVE  Index(r.head, i, r.num) \in DOMAIN f.slot /\ Index(r.head, i, r.num) # entry_index(r)
    <2>1. i \in 0 .. r.num - 1 /\ i # r.len
      BY <1>1
    <2> QED
      BY <1>1, <2>1, IndexRange, IndexInjective, Zenon DEF entry_index, FileType
  <1>4. g.slot = [f.slot EXCEPT ![entry_index(r)] = c]
    BY DEF OneSlot
  <1> QED
    BY ONLY <1>2, <1>3, <1>4

LEMMA CoherentSame ==
    ASSUME NEW r, NEW a, NEW b, Coherent(r, a),
           \A i \in 0 .. r.len - 1 : b[Index(r.head, i, r.num)] = a[Index(r.head, i, r.num)],
           QueueType(r)
    PROVE  Coherent(r, b)
  <1>1. r.len \in Nat
    BY QueueNumbers
  <1> QED
    BY <1>1 DEF Coherent

LEMMA CoherentFresh ==
    ASSUME NEW r, QueueType(r), NEW cells, Fresh(r), DOMAIN r.memory = 0 .. r.num - 1,
           InFile(r) \/ r.len = 0
    PROVE  Coherent(r, cells)
  <1>1. r.num \in Nat \ {0} /\ r.head \in 0 .. r.num - 1
    BY QueueNumbers
  <1>2. \A i \in 0 .. r.num - 1 : Index(r.head, i, r.num) \in 0 .. r.num - 1
    BY <1>1, IndexRange, Zenon
  <1>3. \A i \in 0 .. r.num - 1 : r.memory[Index(r.head, i, r.num)] = NULL
    BY <1>2 DEF Fresh
  <1> QED
    BY <1>3 DEF Coherent

LEMMA CoherentAppended ==
    ASSUME NEW r, QueueType(r), r.len < r.num, NEW d \in Data, NEW a, NEW b, Coherent(r, a),
           \A i \in 0 .. r.len - 1 : b[Index(r.head, i, r.num)] = a[Index(r.head, i, r.num)],
           InFile(r) => b[entry_index(r)] = d
    PROVE  Coherent(Appended(r, d), b)
  <1> DEFINE t == Appended(r, d)
  <1>1. /\ QueueType(t) /\ t.flags = r.flags /\ t.num = r.num
        /\ t.head = r.head /\ t.len = r.len + 1
    BY AppendedType
  <1>2. InMemory(r) => t.memory = [r.memory EXCEPT ![entry_index(r)] = d]
    BY AppendedMemory
  <1>3. /\ r.num \in Nat \ {0} /\ r.head \in 0 .. r.num - 1 /\ r.len \in 0 .. r.num - 1
    BY QueueNumbers
  <1>4. (InMemory(t) <=> InMemory(r)) /\ (InFile(t) <=> InFile(r))
    BY <1>1 DEF InMemory, InFile
  <1> HIDE DEF t
  <1> SUFFICES ASSUME InMemory(r) PROVE Coherent(t, b)
    BY <1>4 DEF Coherent, t
  <1>5. /\ DOMAIN r.memory = 0 .. r.num - 1 /\ DOMAIN t.memory = 0 .. t.num - 1
    BY <1>1, <1>2 DEF Coherent
  <1>6. ASSUME NEW i \in 0 .. r.num - 1
        PROVE  LET k == Index(r.head, i, r.num)
               IN  IF i < r.len + 1
                   THEN IF InFile(r) THEN t.memory[k] \in {NULL, b[k]} ELSE t.memory[k] # NULL
                   ELSE t.memory[k] = NULL
    <2> DEFINE k == Index(r.head, i, r.num)
    <2>1. k \in 0 .. r.num - 1 /\ (k = entry_index(r) <=> i = r.len)
      BY <1>3, IndexRange, IndexInjective, Zenon DEF entry_index
    <2>2. k \in DOMAIN r.memory
      BY <1>5, <2>1
    <2>3. IF i < r.len
          THEN (IF InFile(r) THEN r.memory[k] \in {NULL, a[k]} ELSE r.memory[k] # NULL) /\ b[k] = a[k]
          ELSE r.memory[k] = NULL
      BY <1>3 DEF Coherent
    <2> HIDE DEF k
    <2>4. CASE i = r.len
      <3>1. t.memory[k] = d
        BY <1>2, <2>1, <2>2, <2>4
      <3>2. d # NULL /\ (InFile(r) => b[k] = d)
        BY <2>1, <2>4, DataAssumption
      <3> QED
        BY <1>3, <2>4, <3>1, <3>2 DEF k
    <2>5. CASE i # r.len
      <3>1. t.memory[k] = r.memory[k]
        BY <1>2, <2>1, <2>2, <2>5
      <3> QED
        BY <1>3, <2>3, <2>5, <3>1 DEF k
    <2> QED
      BY <2>4, <2>5
  <1> QED
    BY <1>1, <1>4, <1>5, <1>6 DEF Coherent

LEMMA CoherentDropped ==
    ASSUME NEW r, QueueType(r), r.len > 0, NEW a, Coherent(r, a)
    PROVE  Coherent(Dropped(r), a)
  <1> DEFINE t == Dropped(r)
  <1>1. /\ QueueType(t) /\ t.flags = r.flags /\ t.num = r.num
        /\ t.head = (IF r.head + 1 = r.num THEN 0 ELSE r.head + 1) /\ t.len = r.len - 1
    BY DroppedType
  <1>2. InMemory(r) => t.memory = [r.memory EXCEPT ![r.head] = NULL]
    BY DroppedMemory
  <1>3. /\ r.num \in Nat \ {0} /\ r.head \in 0 .. r.num - 1 /\ r.len \in 1 .. r.num
    BY QueueNumbers
  <1>4. (InMemory(t) <=> InMemory(r)) /\ (InFile(t) <=> InFile(r))
    BY <1>1 DEF InMemory, InFile
  <1> HIDE DEF t
  <1> SUFFICES ASSUME InMemory(r) PROVE Coherent(t, a)
    BY <1>4 DEF Coherent, t
  <1>5. /\ DOMAIN r.memory = 0 .. r.num - 1 /\ DOMAIN t.memory = 0 .. t.num - 1
    BY <1>1, <1>2 DEF Coherent
  <1>6. ASSUME NEW i \in 0 .. r.num - 1
        PROVE  LET k == Index(t.head, i, r.num)
               IN  IF i < r.len - 1
                   THEN IF InFile(r) THEN t.memory[k] \in {NULL, a[k]} ELSE t.memory[k] # NULL
                   ELSE t.memory[k] = NULL
    <2> DEFINE k == Index(t.head, i, r.num)
    <2>1. CASE i = r.num - 1
      <3>1. k = r.head
        <4>1. t.head \in 0 .. r.num - 1
          BY <1>1, <1>3
        <4>2. k = IF t.head + i < r.num THEN t.head + i ELSE t.head + i - r.num
          BY <1>3, <4>1, IndexValue
        <4> QED
          BY <1>1, <1>3, <2>1, <4>2
      <3>2. t.memory[k] = NULL
        BY <1>2, <1>3, <1>5, <3>1
      <3> QED
        BY <1>3, <2>1, <3>2
    <2>2. CASE i # r.num - 1
      <3>1. /\ k = Index(r.head, i + 1, r.num) /\ k \in 0 .. r.num - 1 /\ k # r.head
            /\ i + 1 \in 0 .. r.num - 1
        <4>1. i + 1 \in 0 .. r.num - 1 /\ i \in 0 .. r.num - 1 /\ t.head \in 0 .. r.num - 1
          BY <1>1, <1>3, <2>2
        <4>2. k = Index(r.head, i + 1, r.num)
          BY <1>1, <1>3, <4>1, IndexShift
        <4>3. Index(r.head, 0, r.num) = r.head /\ 0 \in 0 .. r.num - 1 /\ i + 1 # 0
          BY <1>3, IndexValue
        <4>4. k \in 0 .. r.num - 1 /\ k # r.head
          BY <1>3, <4>1, <4>2, <4>3, IndexRange, IndexInjective, Zenon
        <4> QED
          BY <4>1, <4>2, <4>4
      <3> HIDE DEF k
      <3>2. IF i + 1 < r.len
            THEN IF InFile(r) THEN r.memory[k] \in {NULL, a[k]} ELSE r.memory[k] # NULL
            ELSE r.memory[k] = NULL
        BY <3>1 DEF Coherent
      <3>3. t.memory[k] = r.memory[k]
        <4>1. k \in DOMAIN r.memory /\ k # r.head
          BY <1>5, <3>1
        <4>2. t.memory = [r.memory EXCEPT ![r.head] = NULL]
          BY <1>2
        <4> QED
          BY ONLY <4>1, <4>2
      <3>4. i < r.len - 1 <=> i + 1 < r.len
        BY <1>3
      <3> QED
        BY <3>2, <3>3, <3>4 DEF k
    <2> QED
      BY <2>1, <2>2
  <1> QED
    BY <1>1, <1>4, <1>5, <1>6 DEF Coherent

-----------------------------------------------------------------------------
(* The invariant: the copies in memory are those of the file, and a resize *)
(* in progress has copied a prefix of the file's contents.                 *)

\* The first entries of f are those of r, in cells.
Prefix(r, cells, f) ==
    \A i \in 0 .. r.len - 1 :
        cells[Index(r.head, i, r.num)] = f.slot[Index(f.head, i, f.num)]

Opening == {"create", "allocate", "opened", "copy", "rename"}

CInv ==
    /\ IsOpen => /\ q.num \in Sizes /\ Coherent(q, file.slot)
                 /\ (InMemory(q) \/ InFile(q))
    /\ pc \in Opening =>
         req \in Sizes /\ InFile(q) /\ DOMAIN q.memory = 0 .. req - 1 /\ Fresh(q)
    /\ pc \in {"create", "allocate"} => file.st # "full"
    /\ pc \in {"copy", "rename"} =>
         /\ q2.num = req /\ Coherent(q2, tmpfile.slot) /\ Prefix(q2, tmpfile.slot, file)
         /\ file.st = "full" /\ q.num = file.num /\ q2.len + q.len = file.len
         /\ file.len <= req
         /\ q.len > 0 => q.head = Index(file.head, q2.len, file.num)
    /\ pc = "rename" => q.len = 0

\* CInv is about the open queue, the queue being opened and the resize.
LEMMA CInvClosed ==
    ASSUME pc \in {"closed", "undefined"}
    PROVE  CInv
  BY DEF CInv, IsOpen, Opening

LEMMA GoneCInv ==
    ASSUME Gone
    PROVE  CInv'
  BY DEF Gone, CInv, IsOpen, Opening

LEMMA OpenFailsCInv ==
    ASSUME OpenFails
    PROVE  CInv'
  BY DEF OpenFails, Undefined, Gone, CInv, IsOpen, Opening

LEMMA NewQueueMemory ==
    ASSUME NEW f, NEW n
    PROVE  /\ DOMAIN NewQueue(f, n).memory = 0 .. n - 1
           /\ Fresh(NewQueue(f, n)) /\ NewQueue(f, n).flags = f
           /\ NewQueue(f, n).num = n /\ NewQueue(f, n).len = 0
  BY DEF NewQueue, Fresh

LEMMA QOpenCInv ==
    ASSUME IInv, IInv', NEW f \in FlagSets, NEW n \in Sizes, q_open(f, n)
    PROVE  CInv'
  <1> DEFINE r == NewQueue(f, n)
  <1>1. /\ DOMAIN r.memory = 0 .. n - 1 /\ Fresh(r) /\ r.flags = f /\ r.num = n /\ r.len = 0
    BY NewQueueMemory
  <1>2. "Q_IN_MEMORY" \in f \/ "Q_IN_FILE" \in f
    BY FlagsAssumption
  <1>3. QueueType(q)'
    BY DEF IInv, TypeOK
  <1>3a. QueueType(r)
    BY NewQueueType, FlagsAssumption DEF Depths
  <1> HIDE DEF r
  <1>4. CASE UNCHANGED pc
    BY <1>4 DEF q_open, CInv, IsOpen, Opening
  <1>5. CASE q' = r /\ pc' = "idle" /\ "Q_IN_FILE" \notin f
    <2>1. Coherent(q', file'.slot)
      BY <1>1, <1>3, <1>5, CoherentFresh
    <2> QED
      BY <1>1, <1>2, <1>5, <2>1 DEF CInv, IsOpen, Opening, InMemory, InFile
  <1>6. CASE /\ q' = r /\ pc' = "create" /\ req' = n /\ "Q_IN_FILE" \in f
             /\ file' = [NoFile EXCEPT !.st = "empty"]
    <2>1. file'.st = "empty"
      BY <1>6 DEF NoFile
    <2> QED
      BY <1>1, <1>6, <2>1, Zenon DEF CInv, IsOpen, Opening, InFile, Fresh
  <1>7. CASE /\ q' = [r EXCEPT !.num = file.num, !.head = file.head, !.len = file.len]
             /\ pc' = "opened" /\ req' = n /\ "Q_IN_FILE" \in f
    <2>1. q'.memory = r.memory /\ q'.flags = r.flags
      BY <1>3a, <1>7 DEF QueueType, QueueRecords
    <2> QED
      BY <1>1, <1>7, <2>1, Zenon DEF CInv, IsOpen, Opening, InFile, Fresh
  <1> QED
    BY <1>4, <1>5, <1>6, <1>7 DEF q_open, Return, r

LEMMA CreateCInv ==
    ASSUME CInv, CreateHeader \/ CreateAllocate
    PROVE  CInv'
  <1>1. CASE /\ pc = "create" /\ pc' = "allocate" /\ UNCHANGED <<q, req>>
             /\ file' = NewFile(q.num, "header")
    <2>1. file'.st = "header"
      BY <1>1 DEF NewFile
    <2> QED
      BY <1>1, <2>1 DEF CInv, IsOpen, Opening, InFile, Fresh
  <1>2. CASE pc = "allocate" /\ pc' = "opened" /\ UNCHANGED <<q, req>>
    BY <1>2 DEF CInv, IsOpen, Opening, InFile, Fresh
  <1> QED
    BY <1>1, <1>2, GoneCInv DEF CreateHeader, CreateAllocate

LEMMA OpenedCInv ==
    ASSUME IInv, IInv', CInv, Opened
    PROVE  CInv'
  <1>0. /\ pc = "opened" /\ req \in Sizes /\ InFile(q) /\ DOMAIN q.memory = 0 .. req - 1
        /\ Fresh(q) /\ QueueType(q) /\ file.st = "full" /\ SameRing(q, file)
    BY DEF Opened, CInv, Opening, IInv, TypeOK
  <1>1. CASE q.num = req /\ pc' = "idle" /\ UNCHANGED <<file, q>>
    <2>1. Coherent(q, file.slot)
      BY <1>0, <1>1, CoherentFresh
    <2> QED
      BY <1>0, <1>1, <2>1 DEF CInv, IsOpen, Opening, InMemory, InFile, Coherent
  <1>2. CASE /\ q.len <= req /\ pc' = "copy" /\ UNCHANGED <<file, q, req>>
             /\ q2' = NewQueue(q.flags \cup {"Q_CREAT", "Q_EXCL"}, req)
    <2>1. q2'.num = req /\ q2'.len = 0 /\ Fresh(q2') /\ DOMAIN q2'.memory = 0 .. req - 1
      BY <1>2, NewQueueMemory
    <2>2. QueueType(q2)'
      BY DEF IInv, TypeOK
    <2>3. Coherent(q2', tmpfile'.slot)
      BY <2>1, <2>2, CoherentFresh
    <2>4. Prefix(q2', tmpfile'.slot, file')
      BY <2>1 DEF Prefix
    <2>5. FileType(file) /\ file.num \in Nat \ {0} /\ file.head \in 0 .. file.num - 1
      <3>1. FileType(file)
        BY DEF IInv, TypeOK
      <3>2. q.num \in Nat \ {0} /\ q.head \in 0 .. q.num - 1
        BY ONLY <1>0, QueueNumbers
      <3>3. file.num = q.num /\ file.head = q.head
        BY ONLY <1>0 DEF SameRing
      <3> QED
        BY ONLY <3>1, <3>2, <3>3
    <2>6. q.head = Index(file.head, 0, file.num) /\ q.num = file.num /\ 0 + q.len = file.len
      BY <1>0, <2>5, IndexValue, QueueNumbers DEF SameRing
    <2> QED
      <3>1. /\ q2'.len + q'.len = file'.len /\ file'.len <= req'
            /\ q'.head = Index(file'.head, q2'.len, file'.num)
        BY <1>0, <1>2, <2>1, <2>6 DEF SameRing
      <3> QED
        BY ONLY <1>0, <1>2, <2>1, <2>3, <2>4, <2>6, <3>1, Zenon DEF CInv, IsOpen, Opening, InFile, Fresh
  <1> QED
    BY <1>1, <1>2, OpenFailsCInv DEF Opened, Return

\* What one turn of the copy loop finds.
LEMMA CopyFacts ==
    ASSUME IInv, CInv, pc = "copy", q.len > 0
    PROVE  /\ Reaches(q, q.head) => HeadEntry(q, file) = file.slot[q.head]
           /\ file.slot[q.head] \in Data /\ q2.len < q2.num
           /\ InMemory(q2) => q2.memory[entry_index(q2)] = NULL
  <1>1. /\ QueueType(q) /\ QueueType(q2) /\ FileType(file) /\ InFile(q) /\ Fresh(q)
        /\ Coherent(q2, tmpfile.slot) /\ file.st = "full" /\ q.num = file.num
        /\ q2.len + q.len = file.len /\ file.len <= req /\ q2.num = req
        /\ q.head = Index(file.head, q2.len, file.num) /\ Whole(file, file.slot)
    BY DEF IInv, TypeOK, CInv, Opening
  <1>2. /\ q.num \in Nat \ {0} /\ q.len \in 0 .. q.num
        /\ q2.num \in Nat \ {0} /\ q2.len \in 0 .. q2.num /\ q2.head \in 0 .. q2.num - 1
    BY <1>1, QueueNumbers
  <1>3. Reaches(q, q.head) => HeadEntry(q, file) = file.slot[q.head]
    BY <1>1 DEF HeadEntry, Entry, Reaches, Fresh
  <1>4. q2.len < q2.num
    BY <1>1, <1>2
  <1>5. file.slot[q.head] \in Data
    <2>1. q2.len \in 0 .. file.len - 1
      BY <1>1, <1>2
    <2> QED
      BY <1>1, <2>1 DEF Whole
  <1>6. InMemory(q2) => q2.memory[entry_index(q2)] = NULL
    <2>1. q2.len \in 0 .. q2.num - 1 /\ ~(q2.len < q2.len)
      BY <1>2, <1>4
    <2> QED
      BY <1>1, <2>1 DEF Coherent, entry_index
  <1> QED
    BY <1>3, <1>4, <1>5, <1>6

LEMMA ResizeCopyCInv ==
    ASSUME IInv, IInv', CInv, ResizeCopy
    PROVE  CInv'
  <1>1. CASE Undefined \/ OpenFails
    BY <1>1, OpenFailsCInv DEF Undefined, CInv, IsOpen, Opening
  <1>2. CASE ~Undefined /\ ~OpenFails
    <2> DEFINE d == file.slot[q.head]
    <2>1. /\ pc = "copy" /\ q.len > 0 /\ Reaches(q, q.head) /\ HeadEntry(q, file) \in Data
          /\ tmpfile' = Written(tmpfile, entry_index(q2), HeadEntry(q, file))
          /\ q2' = Appended(q2, HeadEntry(q, file)) /\ q' = Dropped(q)
          /\ UNCHANGED <<file, req, pc>>
      BY <1>2 DEF ResizeCopy
    <2>2. HeadEntry(q, file) = d /\ d \in Data /\ q2.len < q2.num
      BY <2>1, CopyFacts
    <2>3. /\ QueueType(q) /\ QueueType(q2) /\ FileType(file) /\ FileType(tmpfile)
          /\ q2.num = tmpfile.num /\ InFile(q2)
      BY <2>1 DEF IInv, TypeOK
    <2>4. /\ req \in Sizes /\ InFile(q) /\ DOMAIN q.memory = 0 .. req - 1 /\ Fresh(q)
          /\ q2.num = req /\ Coherent(q2, tmpfile.slot) /\ Prefix(q2, tmpfile.slot, file)
          /\ file.st = "full" /\ q.num = file.num /\ q2.len + q.len = file.len
          /\ file.len <= req /\ q.head = Index(file.head, q2.len, file.num)
      BY <2>1 DEF CInv, Opening
    <2>5. /\ q.num \in Nat \ {0} /\ q.len \in 0 .. q.num /\ q.head \in 0 .. q.num - 1
          /\ q2.num \in Nat \ {0} /\ q2.len \in 0 .. q2.num - 1 /\ q2.head \in 0 .. q2.num - 1
          /\ file.len \in 0 .. file.num /\ file.head \in 0 .. file.num - 1
      BY <2>2, <2>3, <2>4, QueueNumbers DEF FileType, FileRecords
    <2>6. /\ q2'.num = q2.num /\ q2'.head = q2.head /\ q2'.len = q2.len + 1
          /\ q2'.flags = q2.flags
      BY <2>1, <2>2, <2>3, AppendedType
    <2>7. /\ q'.num = q.num /\ q'.len = q.len - 1 /\ q'.flags = q.flags
          /\ q'.head = IF q.head + 1 = q.num THEN 0 ELSE q.head + 1
      BY <2>1, <2>3, DroppedType
    <2>8. DOMAIN q'.memory = 0 .. req - 1 /\ Fresh(q')
      BY <2>1, <2>3, <2>4, DroppedMemory, Zenon DEF Fresh
    <2> HIDE DEF d
    <2>9. OneSlot(tmpfile', tmpfile, entry_index(q2), d)
      <3>1. d \in Cell
        BY <2>2 DEF Cell
      <3>2. OneSlot(Written(tmpfile, entry_index(q2), d), tmpfile, entry_index(q2), d)
        BY <2>3, <3>1, SlotWritten
      <3> QED
        BY <2>1, <2>2, <3>2
    <2>11. /\ tmpfile'.slot[entry_index(q2)] = d
           /\ \A i \in 0 .. q2.len - 1 :
                 tmpfile'.slot[Index(q2.head, i, q2.num)] = tmpfile.slot[Index(q2.head, i, q2.num)]
      BY <2>2, <2>3, <2>9, EntryWritten
    <2>12. Coherent(q2', tmpfile'.slot)
      BY <2>1, <2>2, <2>3, <2>4, <2>11, CoherentAppended
    <2>13. Prefix(q2', tmpfile'.slot, file')
      <3> SUFFICES ASSUME NEW i \in 0 .. q2.len
                   PROVE  tmpfile'.slot[Index(q2.head, i, q2.num)] = file.slot[Index(file.head, i, file.num)]
        BY <2>1, <2>5, <2>6 DEF Prefix
      <3>1. CASE i = q2.len
        BY <2>4, <2>11, <3>1 DEF entry_index, d
      <3>2. CASE i # q2.len
        <4>1. i \in 0 .. q2.len - 1
          BY <2>5, <3>2
        <4> QED
          BY <2>4, <2>11, <4>1 DEF Prefix
      <3> QED
        BY <3>1, <3>2
    <2>14. q'.len > 0 => q'.head = Index(file.head, q2.len + 1, file.num)
      <3> SUFFICES ASSUME q'.len > 0 PROVE q'.head = Index(file.head, q2.len + 1, file.num)
        OBVIOUS
      <3>0. /\ file.num = q.num /\ q2.len + q.len = file.len /\ q'.len = q.len - 1
            /\ q.head = Index(file.head, q2.len, file.num)
            /\ q'.head = IF q.head + 1 = q.num THEN 0 ELSE q.head + 1
            /\ q2.len \in Nat /\ q.len \in Nat /\ q.num \in Nat \ {0}
            /\ file.len \in 0 .. file.num /\ file.head \in 0 .. file.num - 1
        BY <2>4, <2>5, <2>7
      <3>1. q2.len + 1 \in 0 .. file.num - 1 /\ q2.len \in 0 .. file.num - 1 /\ file.num \in Nat \ {0}
        BY ONLY <3>0, q'.len > 0
      <3>2. /\ Index(file.head, q2.len, file.num) =
                  IF file.head + q2.len < file.num THEN file.head + q2.len
                                                   ELSE file.head + q2.len - file.num
            /\ Index(file.head, q2.len + 1, file.num) =
                  IF file.head + (q2.len + 1) < file.num THEN file.head + (q2.len + 1)
                                                         ELSE file.head + (q2.len + 1) - file.num
        BY <2>5, <3>1, IndexValue, Zenon
      <3> QED
        BY ONLY <3>0, <3>1, <3>2
    <2>15. q2'.len + q'.len = file.len
      <3>1. /\ q2.len + q.len = file.len /\ q2'.len = q2.len + 1 /\ q'.len = q.len - 1
            /\ q2.len \in Nat /\ q.len \in Nat
        BY <2>4, <2>5, <2>6, <2>7
      <3> QED
        BY ONLY <3>1
    <2> QED
      BY <2>1, <2>4, <2>6, <2>7, <2>8, <2>12, <2>13, <2>14, <2>15
         DEF CInv, IsOpen, Opening, InFile
  <1> QED
    BY <1>1, <1>2

LEMMA ResizeSyncCInv ==
    ASSUME IInv, CInv, ResizeSync
    PROVE  CInv'
  <1>1. CASE tmpfile' = Synced(tmpfile, q2) /\ pc' = "rename" /\ UNCHANGED <<file, q, q2, req>>
    <2>1. tmpfile'.slot = tmpfile.slot
      BY <1>1, SyncedType DEF IInv, TypeOK, ResizeSync
    <2> QED
      BY <1>1, <2>1 DEF ResizeSync, CInv, IsOpen, Opening, InFile, Fresh, Coherent, Prefix, InMemory
  <1> QED
    BY <1>1, OpenFailsCInv DEF ResizeSync

LEMMA ResizeRenameCInv ==
    ASSUME IInv, CInv, ResizeRename
    PROVE  CInv'
  <1>1. CASE file' = tmpfile /\ q' = q2 /\ pc' = "idle"
    BY <1>1 DEF ResizeRename, IInv, CInv, IsOpen, Opening, InFile, Coherent, InMemory
  <1>2. CASE pc' = "undefined"
    BY <1>2 DEF CInv, IsOpen, Opening
  <1> QED
    BY <1>1, <1>2, OpenFailsCInv DEF ResizeRename, Return

\* q_append writes none of the entries in use, whether or not all is written.
LEMMA AppendWrites ==
    ASSUME IInv, pc = "idle", q.len < q.num, InFile(q), NEW c \in Cell,
           file' = Written(file, entry_index(q), c)
    PROVE  /\ file'.slot[entry_index(q)] = c /\ file'.st = file.st /\ SameRing(file', file)
           /\ \A i \in 0 .. q.len - 1 :
                 file'.slot[Index(q.head, i, q.num)] = file.slot[Index(q.head, i, q.num)]
  <1>1. QueueType(q) /\ FileType(file) /\ file.num = q.num
    BY DEF IInv, TypeOK, SameRing
  <1>2. OneSlot(file', file, entry_index(q), c)
    BY <1>1, SlotWritten
  <1>3. file'.st = file.st /\ SameRing(file', file)
    BY <1>2 DEF OneSlot
  <1>4. /\ file'.slot[entry_index(q)] = c
        /\ \A i \in 0 .. q.len - 1 :
              file'.slot[Index(q.head, i, q.num)] = file.slot[Index(q.head, i, q.num)]
    BY ONLY <1>1, <1>2, q.len < q.num, EntryWritten, SMTT(30)
  <1> QED
    BY ONLY <1>3, <1>4

LEMMA QAppendCInv ==
    ASSUME IInv, IInv', CInv, NEW d \in Data \cup Long, q_append(d)
    PROVE  CInv'
  <1>1. /\ pc = "idle" /\ QueueType(q) /\ q.num \in Sizes /\ Coherent(q, file.slot)
        /\ (InMemory(q) \/ InFile(q))
    BY DEF q_append, CInv, IsOpen, IInv, TypeOK
  <1>2. CASE UNCHANGED q /\ pc' = "idle"
    <2>1. Coherent(q, file'.slot)
      <3>1. CASE UNCHANGED file
        BY <1>1, <3>1
      <3>2. CASE file' = Written(file, entry_index(q), TORN) /\ InFile(q) /\ q.len < q.num
        <4>1. TORN \in Cell
          BY DEF Cell
        <4>2. \A i \in 0 .. q.len - 1 :
                 file'.slot[Index(q.head, i, q.num)] = file.slot[Index(q.head, i, q.num)]
          BY <1>1, <3>2, <4>1, AppendWrites
        <4> QED
          BY <1>1, <4>2, CoherentSame
      <3>3. CASE q' = Appended(q, d) /\ d \in Data /\ q.len < q.num
        <4>1. q'.len = q.len + 1 /\ q.len \in Nat
          BY <1>1, <3>3, AppendedType, QueueNumbers
        <4> QED
          BY <1>2, <4>1
      <3> QED
        BY <1>2, <3>1, <3>2, <3>3 DEF q_append, Return
    <2> QED
      BY <1>1, <1>2, <2>1 DEF CInv, IsOpen, Opening
  <1>3. CASE /\ q' = Appended(q, d) /\ d \in Data /\ q.len < q.num /\ pc' \in {"idle", "sync"}
             /\ IF InFile(q) THEN file' = Written(file, entry_index(q), d) ELSE UNCHANGED file
    <2>1. /\ InFile(q) => file'.slot[entry_index(q)] = d
          /\ \A i \in 0 .. q.len - 1 :
                file'.slot[Index(q.head, i, q.num)] = file.slot[Index(q.head, i, q.num)]
      <3>1. d \in Cell
        BY <1>3 DEF Cell
      <3> QED
        BY <1>1, <1>3, <3>1, AppendWrites
    <2>2. Coherent(q', file'.slot)
      BY <1>1, <1>3, <2>1, CoherentAppended
    <2>3. q'.flags = q.flags /\ q'.num = q.num
      BY <1>1, <1>3, AppendedType
    <2> QED
      BY <1>1, <1>3, <2>2, <2>3 DEF CInv, IsOpen, Opening, InMemory, InFile
  <1> QED
    BY <1>1, <1>2, <1>3 DEF q_append, Return

LEMMA QDropHeadCInv ==
    ASSUME IInv, CInv, q_drop_head
    PROVE  CInv'
  <1>1. /\ pc = "idle" /\ QueueType(q) /\ q.num \in Sizes /\ Coherent(q, file.slot)
        /\ (InMemory(q) \/ InFile(q)) /\ UNCHANGED file
    BY DEF q_drop_head, CInv, IsOpen, IInv, TypeOK
  <1>2. CASE UNCHANGED q /\ pc' = "idle"
    BY <1>1, <1>2 DEF CInv, IsOpen, Opening, Coherent, InMemory, InFile
  <1>3. CASE q' = Dropped(q) /\ q.len > 0 /\ pc' \in {"idle", "sync"}
    <2>1. Coherent(q', file.slot)
      BY <1>1, <1>3, CoherentDropped
    <2>2. q'.flags = q.flags /\ q'.num = q.num
      BY <1>1, <1>3, DroppedType
    <2> QED
      BY <1>1, <1>3, <2>1, <2>2 DEF CInv, IsOpen, Opening, InMemory, InFile
  <1> QED
    BY <1>1, <1>2, <1>3 DEF q_drop_head, Return

LEMMA SyncCInv ==
    ASSUME IInv, CInv, sync_fh_state
    PROVE  CInv'
  <1>1. /\ pc = "sync" /\ q.num \in Sizes /\ Coherent(q, file.slot)
        /\ (InMemory(q) \/ InFile(q)) /\ UNCHANGED q /\ pc' \in {"idle", "failed"}
    BY DEF sync_fh_state, CInv, IsOpen, Return
  <1>2. file'.slot = file.slot
    BY <1>1, SyncedType DEF IInv, TypeOK, sync_fh_state
  <1> QED
    BY <1>1, <1>2 DEF CInv, IsOpen, Opening

\* What q_peek keeps in memory is the entry.
LEMMA Peeked ==
    ASSUME IInv, CInv, pc = "idle", q.len > 0, HeadEntry(q, file) \in Data, InMemory(q),
           q' = [q EXCEPT !.memory[q.head] = HeadEntry(q, file)]
    PROVE  /\ q'.flags = q.flags /\ SameRing(q', q)
           /\ q'.memory = [q.memory EXCEPT ![q.head] = View(q, file)[q.head]]
           /\ View(q, file)[q.head] # NULL
           /\ q.head \in DOMAIN q.memory /\ Index(q.head, 0, q.num) = q.head
  <1>1. /\ QueueType(q) /\ q \in QueueRecords /\ Coherent(q, file.slot)
    BY DEF IInv, TypeOK, QueueType, CInv, IsOpen
  <1>2. /\ q'.flags = q.flags /\ SameRing(q', q)
        /\ q'.memory = [q.memory EXCEPT ![q.head] = HeadEntry(q, file)]
    BY <1>1 DEF QueueRecords, SameRing
  <1>3. /\ q.num \in Nat \ {0} /\ q.head \in 0 .. q.num - 1 /\ q.len \in 1 .. q.num
        /\ 0 \in 0 .. q.len - 1 /\ 0 \in 0 .. q.num - 1
    BY <1>1, QueueNumbers
  <1>4. Index(q.head, 0, q.num) = q.head
    BY <1>3, IndexValue
  <1>5. HeadEntry(q, file) = View(q, file)[q.head]
    BY <1>1, <1>3, <1>4, EntryIs DEF HeadEntry
  <1>6. q.head \in DOMAIN q.memory
    BY <1>1, <1>3 DEF Coherent
  <1> QED
    BY <1>2, <1>4, <1>5, <1>6, DataAssumption

LEMMA QPeekCInv ==
    ASSUME IInv, CInv, q_peek
    PROVE  CInv'
  <1>1. /\ pc = "idle" /\ QueueType(q) /\ q.num \in Sizes /\ Coherent(q, file.slot)
        /\ (InMemory(q) \/ InFile(q)) /\ UNCHANGED <<file, pc>>
    BY DEF q_peek, CInv, IsOpen, IInv, TypeOK
  <1>2. CASE UNCHANGED q
    BY <1>1, <1>2 DEF CInv, IsOpen, Opening, Coherent, InMemory, InFile
  <1>3. CASE /\ q.len > 0 /\ HeadEntry(q, file) \in Data /\ InMemory(q)
             /\ q' = [q EXCEPT !.memory[q.head] = HeadEntry(q, file)]
    <2> DEFINE v == View(q, file)[q.head]
    <2>1. /\ q'.flags = q.flags /\ SameRing(q', q)
          /\ q'.memory = [q.memory EXCEPT ![q.head] = v] /\ v # NULL
          /\ q.head \in DOMAIN q.memory /\ Index(q.head, 0, q.num) = q.head
      BY <1>1, <1>3, Peeked
    <2>2. InFile(q) => v = file.slot[q.head]
      BY DEF View
    <2> HIDE DEF v
    <2>3. q.num \in Nat \ {0} /\ q.head \in 0 .. q.num - 1 /\ q.len \in 1 .. q.num
      BY <1>1, <1>3, QueueNumbers
    <2>4. DOMAIN q.memory = 0 .. q.num - 1
      BY <1>1, <1>3 DEF Coherent
    <2>5. ASSUME NEW i \in 0 .. q.num - 1
          PROVE  LET k == Index(q.head, i, q.num)
                 IN  IF i < q.len
                     THEN IF InFile(q) THEN q'.memory[k] \in {NULL, file.slot[k]}
                                       ELSE q'.memory[k] # NULL
                     ELSE q'.memory[k] = NULL
      <3>1. CASE i = 0
        <4>1. q'.memory[q.head] = v
          BY <2>1
        <4> QED
          BY <2>1, <2>2, <2>3, <3>1, <4>1
      <3>2. CASE i # 0
        <4> DEFINE k == Index(q.head, i, q.num)
        <4>0. 0 \in 0 .. q.num - 1
          BY <2>3
        <4>1. k \in 0 .. q.num - 1 /\ k # q.head
          <5>1. k # Index(q.head, 0, q.num)
            BY <2>3, <3>2, <4>0, IndexInjective
          <5> QED
            BY <2>1, <2>3, <5>1, IndexRange
        <4>2. IF i < q.len
              THEN IF InFile(q) THEN q.memory[k] \in {NULL, file.slot[k]} ELSE q.memory[k] # NULL
              ELSE q.memory[k] = NULL
          BY <1>1, <1>3 DEF Coherent
        <4> HIDE DEF k
        <4>3. q'.memory[k] = q.memory[k]
          BY <2>1, <2>4, <4>1
        <4> QED
          BY <4>2, <4>3 DEF k
      <3> QED
        BY <3>1, <3>2
    <2>6. Coherent(q', file.slot)
      <3>1. q'.num = q.num /\ q'.head = q.head /\ q'.len = q.len /\ DOMAIN q'.memory = 0 .. q.num - 1
        BY <2>1, <2>4 DEF SameRing
      <3> QED
        BY <2>1, <2>5, <3>1 DEF Coherent, InMemory, InFile
    <2> QED
      BY <1>1, <2>1, <2>6 DEF CInv, IsOpen, Opening, SameRing, InMemory, InFile
  <1> QED
    BY <1>2, <1>3 DEF q_peek

LEMMA NextCInv ==
    ASSUME IInv, IInv', CInv, [Next]_vars
    PROVE  CInv'
  <1>1. CASE UNCHANGED vars
    BY <1>1 DEF vars, CInv, IsOpen, Opening, Coherent, Prefix, Fresh, InMemory, InFile
  <1>2. CASE q_close \/ Crash
    BY <1>2, GoneCInv DEF q_close, Crash
  <1> QED
    BY <1>1, <1>2, QOpenCInv, CreateCInv, OpenedCInv, ResizeCopyCInv, ResizeSyncCInv,
       ResizeRenameCInv, QAppendCInv, QDropHeadCInv, SyncCInv, QPeekCInv DEF Next

LEMMA InitCInv == Init => CInv
  BY CInvClosed DEF Init

-----------------------------------------------------------------------------
(* What the caller sees and what a restart would find. *)

LEMMA VisibleIs ==
    ASSUME IInv, CInv, IsOpen
    PROVE  Visible = Contents(q, View(q, file)) /\ Len(Visible) = q.len
  <1>1. /\ QueueType(q) /\ Coherent(q, file.slot) /\ (InMemory(q) \/ InFile(q))
    BY DEF IInv, TypeOK, CInv
  <1>2. q.len \in Nat
    BY <1>1, QueueNumbers
  <1>3. \A i \in 0 .. q.len - 1 :
           Entry(q, file, Index(q.head, i, q.num)) = View(q, file)[Index(q.head, i, q.num)]
    BY <1>1, EntryIs
  <1>4. \A i \in 1 .. q.len :
           Entry(q, file, Index(q.head, i - 1, q.num)) = View(q, file)[Index(q.head, i - 1, q.num)]
    BY <1>2, <1>3
  <1>5. Visible = Contents(q, View(q, file))
    BY ONLY <1>4, Zenon DEF Visible, Contents
  <1>6. Len(Contents(q, View(q, file))) = q.len
    <2> DEFINE v == View(q, file)
               S == {v[Index(q.head, i, q.num)] : i \in 0 .. q.len - 1}
    <2>1. \A i \in 0 .. q.len - 1 : v[Index(q.head, i, q.num)] \in S
      OBVIOUS
    <2> HIDE DEF v, S
    <2>2. Len(Contents(q, v)) = q.len
      BY <1>1, <2>1, ContentsAre, Zenon
    <2> QED
      BY <2>2 DEF v
  <1> QED
    BY <1>5, <1>6

\* A queue in a file that the header describes.
LEMMA SettledIs ==
    ASSUME IInv, CInv, pc = "idle", InFile(q)
    PROVE  Durable = Visible
  <1>1. /\ QueueType(q) /\ file.st = "full" /\ SameRing(q, file) /\ IsOpen
    BY DEF IInv, TypeOK, IsOpen
  <1>2. q.len \in Nat /\ View(q, file) = file.slot
    BY <1>1, QueueNumbers DEF View
  <1>3. Contents(q, file.slot) = Contents(file, file.slot)
    BY <1>1, <1>2, ContentsSame
  <1> QED
    BY <1>1, <1>2, <1>3, VisibleIs DEF Durable

\* What a restart finds depends on the entries the header counts.
LEMMA DurableSame ==
    ASSUME UNCHANGED file
    PROVE  Durable' = Durable
  BY DEF Durable, Contents

LEMMA FileLen ==
    ASSUME IInv
    PROVE  file.len \in Nat /\ file.num \in Nat \ {0} /\ file.head \in Nat
  BY DepthsNat, Zenon DEF IInv, TypeOK, FileType, FileRecords

\* q_append leaves what a restart finds alone, before the header counts the entry.
LEMMA AppendDurable ==
    ASSUME IInv, pc = "idle", q.len < q.num, InFile(q), NEW c \in Cell,
           file' = Written(file, entry_index(q), c)
    PROVE  Durable' = Durable
  <1>1. /\ file'.st = file.st /\ SameRing(file', file)
        /\ \A i \in 0 .. q.len - 1 :
              file'.slot[Index(q.head, i, q.num)] = file.slot[Index(q.head, i, q.num)]
    BY AppendWrites
  <1>2. SameRing(q, file)
    BY DEF IInv
  <1>3. \A i \in 0 .. file.len - 1 :
           file.slot[Index(file.head, i, file.num)] = file'.slot[Index(file.head, i, file.num)]
    BY <1>1, <1>2 DEF SameRing
  <1>4. SameRing(file, file')
    BY <1>1 DEF SameRing
  <1>5. Contents(file, file.slot) = Contents(file', file'.slot)
    BY <1>3, <1>4, FileLen, ContentsSame
  <1> QED
    BY <1>1, <1>5 DEF Durable

\* The steps that open, refuse or resize a queue change nothing a restart finds.
LEMMA OpenDurable ==
    ASSUME IInv, CInv, NEW f \in FlagSets, NEW n \in Sizes, q_open(f, n)
    PROVE  Durable' = Durable
  <1>1. CASE UNCHANGED file
    BY <1>1, DurableSame
  <1>2. CASE file.st # "full" /\ file' = [NoFile EXCEPT !.st = "empty"]
    <2>1. file'.st # "full"
      BY <1>2 DEF NoFile
    <2> QED
      BY <1>2, <2>1 DEF Durable
  <1> QED
    BY <1>1, <1>2 DEF q_open

LEMMA CreateDurable ==
    ASSUME IInv, CInv, CreateHeader \/ CreateAllocate
    PROVE  Durable' = Durable
  <1>1. CASE UNCHANGED file
    BY <1>1, DurableSame
  <1>2. CASE CreateHeader /\ file' = NewFile(q.num, "header")
    BY <1>2 DEF CreateHeader, CInv, Durable, NewFile
  <1>3. CASE CreateAllocate /\ file' = [file EXCEPT !.st = "full"]
    <2>1. file.st # "full" /\ file.len = 0 /\ FileType(file)
      BY <1>3 DEF CreateAllocate, CInv, IInv, TypeOK
    <2>2. file'.len = 0
      BY <1>3, <2>1 DEF FileType, FileRecords
    <2>3. Contents(file', file'.slot) = <<>>
      BY <2>2 DEF Contents
    <2> QED
      BY <2>1, <2>3 DEF Durable
  <1> QED
    BY <1>1, <1>2, <1>3 DEF CreateHeader, CreateAllocate

LEMMA ResizeDurable ==
    ASSUME IInv, CInv, Opened \/ ResizeCopy \/ ResizeSync
    PROVE  Durable' = Durable
  BY DurableSame DEF Opened, ResizeCopy, ResizeSync, OpenFails, Undefined

\* The file that replaces the old one has the same entries.
LEMMA RenameDurable ==
    ASSUME IInv, CInv, ResizeRename
    PROVE  Durable' = Durable
  <1>1. CASE UNCHANGED file
    BY <1>1, DurableSame
  <1>2. CASE file' = tmpfile
    <2>1. /\ tmpfile.st = "full" /\ file.st = "full" /\ SameRing(q2, tmpfile) /\ QueueType(q2) /\ QueueType(q)
          /\ Prefix(q2, tmpfile.slot, file) /\ q2.len + q.len = file.len /\ q.len = 0
      BY DEF ResizeRename, IInv, TypeOK, CInv
    <2>2. tmpfile.len = file.len /\ file.len \in Nat /\ tmpfile.len \in Nat
      BY <2>1, FileLen, QueueNumbers DEF SameRing
    <2>3. \A i \in 0 .. file.len - 1 :
             tmpfile.slot[Index(tmpfile.head, i, tmpfile.num)] = file.slot[Index(file.head, i, file.num)]
      BY <2>1, <2>2 DEF SameRing, Prefix
    <2>4. \A i \in 1 .. file.len :
             tmpfile.slot[Index(tmpfile.head, i - 1, tmpfile.num)] = file.slot[Index(file.head, i - 1, file.num)]
      BY <2>2, <2>3
    <2>5. Contents(tmpfile, tmpfile.slot) = Contents(file, file.slot)
      BY ONLY <2>2, <2>4, Zenon DEF Contents
    <2> QED
      BY <1>2, <2>1, <2>5 DEF Durable
  <1> QED
    BY <1>1, <1>2 DEF ResizeRename, OpenFails, Undefined

\* The header after sync_fh_state describes the queue the caller has.
LEMMA SyncDurable ==
    ASSUME IInv, IInv', CInv, CInv', sync_fh_state
    PROVE  \/ Durable' = Durable
           \/ Durable' = Visible
  <1>1. CASE UNCHANGED file
    BY <1>1, DurableSame
  <1>2. CASE file' = Synced(file, q) /\ pc' = "idle"
    <2>1. UNCHANGED q /\ pc = "sync" /\ InFile(q) /\ QueueType(q) /\ file.st = "full" /\ IsOpen
      BY DEF sync_fh_state, IInv, TypeOK, IsOpen
    <2>2. file'.slot = file.slot /\ SameRing(q, file') /\ file'.st = "full" /\ q.len \in Nat
      BY <1>2, <2>1, SyncedType, QueueNumbers DEF IInv, TypeOK, SameRing
    <2>3. Contents(q, file.slot) = Contents(file', file'.slot)
      BY <2>2, ContentsSame
    <2>4. Visible = Contents(q, file.slot)
      BY <2>1, VisibleIs DEF View
    <2> QED
      BY <2>2, <2>3, <2>4 DEF Durable
  <1> QED
    BY <1>1, <1>2 DEF sync_fh_state, Return

-----------------------------------------------------------------------------
(* What a step does to the queue the caller sees. *)

Seen == IsOpen => Visible = Contents(q, View(q, file)) /\ Len(Visible) = q.len
Inv == IInv /\ CInv /\ Seen /\ DurableWhenIdle

LEMMA InvIs ==
    ASSUME IInv, CInv
    PROVE  Inv
  BY VisibleIs, SettledIs DEF Inv, Seen, DurableWhenIdle

LEMMA AppendVisible ==
    ASSUME Inv, Inv', pc = "idle", IsOpen', NEW d \in Data, q.len < q.num, q' = Appended(q, d),
           IF InFile(q) THEN file' = Written(file, entry_index(q), d) ELSE UNCHANGED file
    PROVE  /\ Visible' = Append(Visible, d) /\ Durable' = Durable /\ q'.flags = q.flags
  <1> DEFINE a == View(q, file)
             b == View(q', file')
  <1>1. /\ QueueType(q) /\ QueueType(q') /\ Coherent(q, file.slot) /\ IsOpen
        /\ InMemory(q) \/ InFile(q)
    BY Zenon DEF Inv, IInv, TypeOK, CInv, IsOpen
  <1>2. Visible = Contents(q, a) /\ Visible' = Contents(q', b)
    BY <1>1 DEF Inv, Seen
  <1>3. /\ q'.flags = q.flags /\ q'.num = q.num /\ q'.head = q.head /\ q'.len = q.len + 1
    BY <1>1, AppendedType
  <1>4. d \in Cell
    BY DEF Cell
  <1>5. CASE InFile(q)
    <2>1. InFile(q') /\ a = file.slot /\ b = file'.slot
      BY <1>3, <1>5 DEF InFile, View
    <2>2. /\ b[entry_index(q)] = d
          /\ \A i \in 0 .. q.len - 1 : b[Index(q.head, i, q.num)] = a[Index(q.head, i, q.num)]
      BY <1>4, <1>5, <2>1, AppendWrites DEF Inv
    <2> HIDE DEF a, b
    <2>3. Contents(q', b) = Append(Contents(q, a), b[Index(q.head, q.len, q.num)])
      BY ONLY <1>1, <1>3, <2>2, ContentsAppended
    <2>4. Durable' = Durable
      BY <1>4, <1>5, AppendDurable DEF Inv
    <2> QED
      BY <1>2, <1>3, <2>2, <2>3, <2>4 DEF entry_index
  <1>6. CASE ~InFile(q)
    <2>1. /\ ~InFile(q') /\ InMemory(q) /\ a = q.memory /\ b = [a EXCEPT ![entry_index(q)] = d]
      BY <1>1, <1>3, <1>6, AppendedMemory DEF InFile, View
    <2>2. DOMAIN a = 0 .. q.num - 1
      BY <1>1, <2>1 DEF Coherent
    <2> HIDE DEF a, b
    <2>3. q.num \in Nat \ {0} /\ q.head \in 0 .. q.num - 1 /\ q.len \in 0 .. q.num - 1
      BY <1>1, QueueNumbers
    <2>4. entry_index(q) \in 0 .. q.num - 1
      BY <2>3, IndexRange DEF entry_index
    <2>5. ASSUME NEW i \in 0 .. q.len - 1
          PROVE  b[Index(q.head, i, q.num)] = a[Index(q.head, i, q.num)]
      <3>1. i \in 0 .. q.num - 1 /\ i # q.len
        BY <2>3
      <3>2. Index(q.head, i, q.num) \in 0 .. q.num - 1 /\ Index(q.head, i, q.num) # entry_index(q)
        BY <2>3, <3>1, IndexRange, IndexInjective, Zenon DEF entry_index
      <3> QED
        BY <2>1, <2>2, <3>2
    <2>6. b[entry_index(q)] = d
      BY <2>1, <2>2, <2>4, Zenon
    <2>7. Contents(q', b) = Append(Contents(q, a), b[Index(q.head, q.len, q.num)])
      BY ONLY <1>1, <1>3, <2>5, ContentsAppended
    <2>8. Durable' = Durable
      BY <1>6, DurableSame
    <2> QED
      BY <1>2, <1>3, <2>6, <2>7, <2>8 DEF entry_index
  <1> QED
    BY <1>5, <1>6

LEMMA DropVisible ==
    ASSUME Inv, Inv', pc = "idle", IsOpen', q.len > 0, q' = Dropped(q), UNCHANGED file
    PROVE  /\ Visible # <<>> /\ Visible' = Tail(Visible) /\ q'.flags = q.flags
  <1> DEFINE a == View(q, file)
             b == View(q', file')
  <1>1. /\ QueueType(q) /\ QueueType(q') /\ Coherent(q, file.slot) /\ IsOpen
        /\ InMemory(q) \/ InFile(q)
    BY Zenon DEF Inv, IInv, TypeOK, CInv, IsOpen
  <1>2. Visible = Contents(q, a) /\ Visible' = Contents(q', b)
    BY <1>1 DEF Inv, Seen
  <1>3. /\ q'.flags = q.flags /\ q'.num = q.num /\ q'.len = q.len - 1
        /\ q'.head = (IF q.head + 1 = q.num THEN 0 ELSE q.head + 1)
    BY <1>1, DroppedType
  <1>4. \A i \in 1 .. q.len - 1 : b[Index(q.head, i, q.num)] = a[Index(q.head, i, q.num)]
    <2>1. CASE InFile(q)
      BY <1>3, <2>1 DEF InFile, View
    <2>2. CASE ~InFile(q)
      <3>1. /\ InMemory(q) /\ a = q.memory /\ b = [a EXCEPT ![q.head] = NULL]
        BY <1>1, <1>3, <2>2, DroppedMemory DEF InFile, View
      <3>2. DOMAIN a = 0 .. q.num - 1
        BY <1>1, <3>1 DEF Coherent
      <3> HIDE DEF a, b
      <3>3. q.num \in Nat \ {0} /\ q.head \in 0 .. q.num - 1 /\ q.len \in 0 .. q.num /\ 0 \in 0 .. q.num - 1
        BY <1>1, QueueNumbers
      <3>4. Index(q.head, 0, q.num) = q.head
        BY <3>3, IndexValue
      <3> SUFFICES ASSUME NEW i \in 1 .. q.len - 1
                   PROVE  b[Index(q.head, i, q.num)] = a[Index(q.head, i, q.num)]
        OBVIOUS
      <3>5. i \in 0 .. q.num - 1 /\ i # 0
        BY <3>3
      <3>6. Index(q.head, i, q.num) \in 0 .. q.num - 1 /\ Index(q.head, i, q.num) # q.head
        BY <3>3, <3>4, <3>5, IndexRange, IndexInjective, Zenon
      <3> QED
        BY <3>1, <3>2, <3>6
    <2> QED
      BY <2>1, <2>2
  <1> HIDE DEF a, b
  <1>5. Contents(q, a) # <<>> /\ Contents(q', b) = Tail(Contents(q, a))
    BY <1>1, <1>3, <1>4, ContentsDropped, Zenon
  <1> QED
    BY <1>2, <1>3, <1>5

\* Steps that leave the numbers of the open queue and its entries alone.
LEMMA VisibleSame ==
    ASSUME Inv, Inv', IsOpen, IsOpen', q'.flags = q.flags, SameRing(q, q'),
           \A i \in 0 .. q.len - 1 :
              View(q, file)[Index(q.head, i, q.num)] = View(q', file')[Index(q.head, i, q.num)]
    PROVE  Visible' = Visible
  <1>1. q.len \in Nat
    BY QueueNumbers DEF Inv, IInv, TypeOK
  <1>2. Contents(q, View(q, file)) = Contents(q', View(q', file'))
    BY <1>1, ContentsSame
  <1> QED
    BY <1>2 DEF Inv, Seen

LEMMA SlotsSame ==
    ASSUME Inv, Inv', IsOpen, IsOpen', UNCHANGED q,
           InFile(q) => \A i \in 0 .. q.len - 1 :
              file'.slot[Index(q.head, i, q.num)] = file.slot[Index(q.head, i, q.num)]
    PROVE  Visible' = Visible
  BY VisibleSame DEF View, SameRing, InFile

LEMMA PeekVisible ==
    ASSUME Inv, Inv', q_peek
    PROVE  Visible' = Visible /\ q'.flags = q.flags
  <1>0. pc = "idle" /\ IsOpen /\ IsOpen' /\ UNCHANGED file /\ QueueType(q)
    BY DEF q_peek, IsOpen, Inv, IInv, TypeOK
  <1>1. CASE UNCHANGED q
    BY <1>0, <1>1, SlotsSame
  <1>2. CASE /\ q.len > 0 /\ HeadEntry(q, file) \in Data /\ InMemory(q)
             /\ q' = [q EXCEPT !.memory[q.head] = HeadEntry(q, file)]
    <2>1. /\ q'.flags = q.flags /\ SameRing(q', q)
          /\ q'.memory = [q.memory EXCEPT ![q.head] = View(q, file)[q.head]]
          /\ q.head \in DOMAIN q.memory
      BY <1>0, <1>2, Peeked DEF Inv
    <2>2. CASE InFile(q)
      <3>1. View(q', file') = View(q, file)
        BY <1>0, <2>1, <2>2 DEF InFile, View
      <3> QED
        BY <1>0, <2>1, <3>1, VisibleSame DEF SameRing
    <2>3. CASE ~InFile(q)
      <3>1. View(q, file) = q.memory /\ View(q', file') = q'.memory
        BY <2>1, <2>3 DEF InFile, View
      <3>2. q.memory \in [DOMAIN q.memory -> Data \cup {NULL}]
        BY <1>0, MemoryType
      <3>3. q'.memory = q.memory
        BY <2>1, <3>1, <3>2
      <3> QED
        BY <1>0, <2>1, <3>1, <3>3, VisibleSame DEF SameRing
    <2> QED
      BY <2>1, <2>2, <2>3
  <1> QED
    BY <1>1, <1>2 DEF q_peek

\* A failed q_append has at most written a part of an entry that is not in use.
LEMMA AppendFails ==
    ASSUME Inv, Inv', NEW d, q_append(d), UNCHANGED q
    PROVE  Visible' = Visible /\ Durable' = Durable /\ IsOpen'
  <1>0. pc = "idle" /\ IsOpen /\ IInv /\ QueueType(q)
    BY DEF q_append, IsOpen, Inv, IInv, TypeOK
  <1>1. IsOpen'
    BY DEF q_append, Return, IsOpen
  <1>2. CASE UNCHANGED file
    BY <1>0, <1>1, <1>2, SlotsSame, DurableSame
  <1>3. CASE q.len < q.num /\ InFile(q) /\ file' = Written(file, entry_index(q), TORN)
    <2>1. TORN \in Cell
      BY DEF Cell
    <2>2. \A i \in 0 .. q.len - 1 :
             file'.slot[Index(q.head, i, q.num)] = file.slot[Index(q.head, i, q.num)]
      BY <1>0, <1>3, <2>1, AppendWrites
    <2>3. Durable' = Durable
      BY <1>0, <1>3, <2>1, AppendDurable
    <2> QED
      BY <1>0, <1>1, <2>2, <2>3, SlotsSame
  <1>4. CASE q.len < q.num /\ d \in Data /\ q' = Appended(q, d)
    <2>1. QueueType(q) /\ q.len < q.num /\ d \in Data
      BY <1>0, <1>4, Zenon
    <2>2. Appended(q, d).len = q.len + 1 /\ q.len \in Nat
      BY ONLY <2>1, AppendedType, QueueNumbers
    <2>3. q.len = Appended(q, d).len
      BY ONLY <1>4, UNCHANGED q
    <2> QED
      BY ONLY <2>2, <2>3
  <1> QED
    BY <1>2, <1>3, <1>4 DEF q_append

LEMMA SyncVisible ==
    ASSUME Inv, Inv', sync_fh_state
    PROVE  Visible' = Visible
  <1>1. IsOpen /\ IsOpen' /\ UNCHANGED q
    BY DEF sync_fh_state, Return, IsOpen
  <1>2. file'.slot = file.slot
    BY SyncedType DEF Inv, IInv, TypeOK, sync_fh_state
  <1> QED
    BY <1>1, <1>2, SlotsSame

-----------------------------------------------------------------------------
(* The steps. *)

LEMMA MaxSizeIs == MaxSize \in Sizes /\ \A n \in Sizes : n <= MaxSize
  BY LargestAssumption, Zenon DEF MaxSize

\* The step changes nothing an observer of the FIFO can see.
LEMMA ClosedStep ==
    ASSUME ~IsOpen, ~IsOpen', Durable' = Durable
    PROVE  UNCHANGED Fifo!vars
  <1>1. /\ IsOpen' = IsOpen
        /\ (IsOpen /\ InFile(q))' = (IsOpen /\ InFile(q))
        /\ (IF IsOpen THEN Visible ELSE <<>>)' = (IF IsOpen THEN Visible ELSE <<>>)
    BY DEF IsOpen
  <1> QED
    BY <1>1 DEF Fifo!vars

LEMMA OpenStep ==
    ASSUME IsOpen, IsOpen', Durable' = Durable, Visible' = Visible, q'.flags = q.flags
    PROVE  UNCHANGED Fifo!vars
  BY DEF Fifo!vars, InFile

LEMMA LeaveStep ==
    ASSUME Gone, UNCHANGED file
    PROVE  [Fifo!Next]_Fifo!vars
  <1>1. ~IsOpen' /\ Durable' = Durable
    BY DurableSame DEF Gone, IsOpen
  <1>2. CASE IsOpen
    BY <1>1, <1>2 DEF Fifo!Next, Fifo!Leave
  <1>3. CASE ~IsOpen
    BY <1>1, <1>3, ClosedStep
  <1> QED
    BY <1>2, <1>3

LEMMA OpenFileStep ==
    ASSUME Inv', ~IsOpen, pc' = "idle", InFile(q)', Durable' = Durable
    PROVE  [Fifo!Next]_Fifo!vars
  <1>1. IsOpen' /\ Visible' = Durable
    BY DEF IsOpen, Inv, DurableWhenIdle
  <1> QED
    BY <1>1 DEF Fifo!Next, Fifo!OpenFile

LEMMA QOpenStep ==
    ASSUME Inv, Inv', NEW f \in FlagSets, NEW n \in Sizes, q_open(f, n)
    PROVE  [Fifo!Next]_Fifo!vars
  <1>1. ~IsOpen /\ Durable' = Durable
    BY OpenDurable, Zenon DEF q_open, IsOpen, Inv
  <1>2. CASE ~IsOpen'
    BY <1>1, <1>2, ClosedStep
  <1>3. CASE IsOpen'
    <2>1. q' = NewQueue(f, n) /\ "Q_IN_FILE" \notin f
      BY <1>3 DEF q_open, IsOpen
    <2>2. ~InFile(q)' /\ q'.len = 0
      BY <2>1, NewQueueMemory DEF InFile
    <2>3. Visible' = <<>>
      BY <2>2 DEF Visible
    <2> QED
      BY <1>1, <1>3, <2>2, <2>3 DEF Fifo!Next, Fifo!OpenMemory
  <1> QED
    BY <1>2, <1>3

LEMMA OpenedStep ==
    ASSUME Inv, Inv', Opened
    PROVE  [Fifo!Next]_Fifo!vars
  <1>1. pc = "opened" /\ ~IsOpen /\ Durable' = Durable /\ InFile(q)
    BY ResizeDurable, Zenon DEF Opened, IsOpen, Inv, IInv
  <1>2. CASE pc' = "idle" /\ UNCHANGED q
    BY <1>1, <1>2, OpenFileStep DEF InFile
  <1>3. CASE ~IsOpen'
    BY <1>1, <1>3, ClosedStep
  <1> QED
    BY <1>2, <1>3 DEF Opened, OpenFails, Gone, Undefined, Return, IsOpen

LEMMA RenameStep ==
    ASSUME Inv, Inv', ResizeRename
    PROVE  [Fifo!Next]_Fifo!vars
  <1>1. pc = "rename" /\ ~IsOpen /\ Durable' = Durable /\ InFile(q2)
    BY RenameDurable DEF ResizeRename, IsOpen, Inv, IInv
  <1>2. CASE pc' = "idle" /\ q' = q2
    BY <1>1, <1>2, OpenFileStep DEF InFile
  <1>3. CASE ~IsOpen'
    BY <1>1, <1>3, ClosedStep
  <1> QED
    BY <1>2, <1>3 DEF ResizeRename, OpenFails, Gone, Undefined, Return, IsOpen

LEMMA QAppendStep ==
    ASSUME Inv, Inv', NEW d \in Data \cup Long, q_append(d)
    PROVE  [Fifo!Next]_Fifo!vars
  <1>1. pc = "idle" /\ IsOpen /\ IsOpen' /\ q.num \in Sizes /\ Len(Visible) = q.len
    BY Zenon DEF q_append, Return, IsOpen, Inv, CInv, Seen
  <1>2. CASE UNCHANGED q
    BY <1>1, <1>2, AppendFails, OpenStep
  <1>3. CASE /\ q' = Appended(q, d) /\ d \in Data /\ q.len < q.num
             /\ IF InFile(q) THEN file' = Written(file, entry_index(q), d) ELSE UNCHANGED file
    <2>1. Visible' = Append(Visible, d) /\ Durable' = Durable /\ q'.flags = q.flags
      BY <1>1, <1>3, AppendVisible
    <2>2. Len(Visible) < MaxSize
      <3>1. q.num \in Nat /\ q.len \in Nat
        BY QueueNumbers DEF Inv, IInv, TypeOK
      <3>2. q.num <= MaxSize /\ MaxSize \in Nat
        BY <1>1, MaxSizeIs, SizesAssumption, Zenon
      <3> QED
        BY <1>1, <1>3, <3>1, <3>2
    <2>3. InFile(q) => Durable = Visible
      BY <1>1 DEF Inv, DurableWhenIdle
    <2>4. Fifo!Enqueue(d)
      BY <1>1, <2>1, <2>2, <2>3 DEF Fifo!Enqueue, Fifo!Settled, InFile
    <2> QED
      BY <1>3, <2>4 DEF Fifo!Next
  <1> QED
    BY <1>2, <1>3 DEF q_append, Return

LEMMA QDropHeadStep ==
    ASSUME Inv, Inv', q_drop_head
    PROVE  [Fifo!Next]_Fifo!vars
  <1>1. pc = "idle" /\ IsOpen /\ IsOpen' /\ UNCHANGED file /\ Durable' = Durable
    BY DurableSame DEF q_drop_head, Return, IsOpen
  <1>2. CASE UNCHANGED q
    BY <1>1, <1>2, SlotsSame, OpenStep
  <1>3. CASE q' = Dropped(q) /\ q.len > 0
    <2>1. Visible # <<>> /\ Visible' = Tail(Visible) /\ q'.flags = q.flags
      BY <1>1, <1>3, DropVisible
    <2>2. InFile(q) => Durable = Visible
      BY <1>1 DEF Inv, DurableWhenIdle
    <2>3. Fifo!Dequeue
      BY <1>1, <2>1, <2>2 DEF Fifo!Dequeue, Fifo!Settled, InFile
    <2> QED
      BY <2>3 DEF Fifo!Next
  <1> QED
    BY <1>2, <1>3 DEF q_drop_head

LEMMA SyncStep ==
    ASSUME Inv, Inv', sync_fh_state
    PROVE  [Fifo!Next]_Fifo!vars
  <1>1. IsOpen /\ IsOpen' /\ InFile(q) /\ UNCHANGED q
    BY DEF sync_fh_state, Return, IsOpen, Inv, IInv
  <1>2. Visible' = Visible
    BY SyncVisible
  <1>3. CASE Durable' = Durable
    BY <1>1, <1>2, <1>3, OpenStep
  <1>4. CASE Durable' = Visible
    BY <1>1, <1>2, <1>4 DEF Fifo!Next, Fifo!Persist, InFile
  <1> QED
    BY <1>3, <1>4, SyncDurable DEF Inv

LEMMA StepRefines ==
    ASSUME Inv, Inv', [Next]_vars
    PROVE  [Fifo!Next]_Fifo!vars
  <1>1. CASE UNCHANGED vars
    BY <1>1 DEF vars, Fifo!vars, IsOpen, InFile, InMemory, Visible, Entry, Durable, Contents
  <1>2. CASE CreateHeader \/ CreateAllocate
    <2>1. ~IsOpen /\ ~IsOpen'
      BY <1>2 DEF CreateHeader, CreateAllocate, Gone, IsOpen
    <2> QED
      BY <1>2, <2>1, CreateDurable, ClosedStep DEF Inv
  <1>3. CASE ResizeCopy \/ ResizeSync
    <2>1. ~IsOpen /\ ~IsOpen'
      BY <1>3 DEF ResizeCopy, ResizeSync, OpenFails, Undefined, Gone, IsOpen
    <2> QED
      BY <1>3, <2>1, ResizeDurable, ClosedStep DEF Inv
  <1>4. CASE q_peek
    <2>1. IsOpen /\ IsOpen' /\ UNCHANGED file
      BY <1>4 DEF q_peek, IsOpen
    <2> QED
      BY <1>4, <2>1, PeekVisible, DurableSame, OpenStep
  <1>5. CASE q_close \/ Crash
    BY <1>5, LeaveStep DEF q_close, Crash
  <1> QED
    BY <1>1, <1>2, <1>3, <1>4, <1>5, QOpenStep, OpenedStep, RenameStep, QAppendStep,
       QDropHeadStep, SyncStep DEF Next

\* The three exits marked "_really_ unexpected" are never taken.
LEMMA UnexpectedIs ==
    ASSUME IInv, CInv
    PROVE  NothingUnexpected
  <1>1. ASSUME pc = "idle", q.len < q.num, InMemory(q)
        PROVE  q.memory[entry_index(q)] = NULL
    <2>1. QueueType(q) /\ Coherent(q, file.slot)
      BY <1>1 DEF IInv, TypeOK, CInv, IsOpen
    <2>2. q.len \in 0 .. q.num - 1 /\ ~(q.len < q.len)
      BY <1>1, <2>1, QueueNumbers
    <2> QED
      BY <1>1, <2>1, <2>2 DEF Coherent, entry_index
  <1>2. ASSUME pc = "idle", q.len > 0
        PROVE  HeadEntry(q, file) \in Data
    <2>1. /\ QueueType(q) /\ Coherent(q, file.slot) /\ (InMemory(q) \/ InFile(q))
      BY <1>2, Zenon DEF IInv, TypeOK, CInv, IsOpen
    <2>2. /\ q.num \in Nat \ {0} /\ q.head \in 0 .. q.num - 1 /\ q.len \in 1 .. q.num
          /\ 0 \in 0 .. q.len - 1 /\ 0 \in 0 .. q.num - 1
      BY <1>2, <2>1, QueueNumbers
    <2>3. Index(q.head, 0, q.num) = q.head
      BY <2>2, IndexValue
    <2>4. HeadEntry(q, file) = View(q, file)[q.head]
      BY <2>1, <2>2, <2>3, EntryIs DEF HeadEntry
    <2>5. CASE InFile(q)
      <3>1. SameRing(q, file) /\ Whole(file, file.slot)
        BY <1>2, <2>5 DEF IInv
      <3>2. file.slot[Index(q.head, 0, q.num)] \in Data
        BY <2>2, <3>1 DEF SameRing, Whole
      <3> QED
        BY <2>3, <2>4, <2>5, <3>2 DEF View
    <2>6. CASE ~InFile(q)
      <3>1. DOMAIN q.memory = 0 .. q.num - 1 /\ q.memory[q.head] # NULL
        BY <2>1, <2>2, <2>3, <2>6 DEF Coherent
      <3>2. q.memory \in [DOMAIN q.memory -> Data \cup {NULL}]
        BY <2>1, MemoryType
      <3>3. q.memory[q.head] \in Data
        BY <2>2, <3>1, <3>2
      <3> QED
        BY <2>4, <2>6, <3>3 DEF View
    <2> QED
      BY <2>5, <2>6
  <1>3. pc = "copy" => q2.num = req
    BY DEF CInv
  <1> QED
    BY <1>1, <1>2, <1>3, CopyFacts DEF NothingUnexpected

\* What FailedCallNoEffect says of one step.
LEMMA FailedStep ==
    ASSUME Inv, Inv', [Next]_vars, pc # "sync"
    PROVE  /\ Durable' = Durable
           /\ rc' = -1 /\ IsOpen /\ IsOpen' => Visible' = Visible
  <1>1. CASE UNCHANGED vars
    <2>1. UNCHANGED <<file, q>>
      BY <1>1 DEF vars
    <2> QED
      BY <2>1, DurableSame, SlotsSame
  <1>2. CASE \E f \in FlagSets, n \in Sizes : q_open(f, n)
    BY <1>2, OpenDurable, Zenon DEF q_open, IsOpen, Inv
  <1>3. CASE CreateHeader \/ CreateAllocate
    BY <1>3, CreateDurable DEF CreateHeader, CreateAllocate, IsOpen, Inv
  <1>4. CASE Opened \/ ResizeCopy \/ ResizeSync
    BY <1>4, ResizeDurable DEF Opened, ResizeCopy, ResizeSync, IsOpen, Inv
  <1>5. CASE ResizeRename
    BY <1>5, RenameDurable DEF ResizeRename, IsOpen, Inv
  <1>6. ASSUME NEW d \in Data \cup Long, q_append(d)
        PROVE  /\ Durable' = Durable
               /\ rc' = -1 => Visible' = Visible
    <2>1. CASE UNCHANGED q
      BY <1>6, <2>1, AppendFails
    <2>2. CASE /\ q' = Appended(q, d) /\ d \in Data /\ q.len < q.num /\ rc' = 0
               /\ IF InFile(q) THEN file' = Written(file, entry_index(q), d) ELSE UNCHANGED file
      <3>1. pc = "idle" /\ IsOpen'
        BY <1>6 DEF q_append, Return, IsOpen
      <3>2. Durable' = Durable
        BY ONLY Inv, Inv', <2>2, <3>1, AppendVisible
      <3> QED
        BY <2>2, <3>2
    <2> QED
      BY <1>6, <2>1, <2>2 DEF q_append, Return
  <1>7. CASE q_drop_head
    <2>1. UNCHANGED file /\ (rc' = -1 => UNCHANGED q)
      BY <1>7 DEF q_drop_head, Return
    <2> QED
      BY <2>1, DurableSame, SlotsSame
  <1>8. CASE q_peek
    BY <1>8, PeekVisible, DurableSame DEF q_peek
  <1>9. CASE q_close \/ Crash
    BY <1>9, DurableSame DEF q_close, Crash, Gone, IsOpen
  <1> QED
    BY <1>1, <1>2, <1>3, <1>4, <1>5, <1>6, <1>7, <1>8, <1>9 DEF Next, sync_fh_state

-----------------------------------------------------------------------------
(* The theorems. *)

LEMMA InvInvariant ==
    ASSUME KeepGoing = FALSE
    PROVE  Spec => []Inv
  <1>1. IInv /\ IInv' /\ CInv /\ [Next]_vars => CInv'
    BY NextCInv
  <1>2. IInv /\ CInv => Inv
    BY InvIs
  <1> QED
    BY <1>1, <1>2, InitCInv, Invariance, PTL DEF Spec

\* queue.c is a FIFO with a durable copy, for every queue depth and combination
\* of flags: q_append and q_drop_head act on one end of what the caller sees and
\* reach the file in one step of sync_fh_state; a crash, a failed write or a
\* resize loses, repeats or reorders nothing but the operation in progress.
THEOREM QueueIsFifo ==
    ASSUME KeepGoing = FALSE
    PROVE  Spec => RefinesFifo
  <1>1. Init => Fifo!Init
    <2> SUFFICES ASSUME Init PROVE Fifo!Init
      OBVIOUS
    <2>1. ~IsOpen /\ Durable = <<>>
      BY NoFileType DEF Init, IsOpen, Durable
    <2> QED
      BY <2>1 DEF Fifo!Init
  <1>2. Inv /\ Inv' /\ [Next]_vars => [Fifo!Next]_Fifo!vars
    BY StepRefines
  <1> QED
    BY <1>1, <1>2, InvInvariant, PTL DEF Spec, RefinesFifo, Fifo!Spec

\* Between two calls of queue.c the file has what the caller has and none of the
\* exits marked "_really_ unexpected" is taken; a call that fails before
\* sync_fh_state changes neither the queue nor what a restart would find.
THEOREM CallsAreSound ==
    ASSUME KeepGoing = FALSE
    PROVE  Spec => CallsSound
  <1>1. Inv => NothingUnexpected /\ DurableWhenIdle
    BY UnexpectedIs DEF Inv
  <1>2. Inv /\ Inv' /\ [Next]_vars =>
          [pc # "sync" /\ rc' = -1 =>
             /\ Durable' = Durable
             /\ IsOpen /\ IsOpen' => Visible' = Visible]_vars
    BY FailedStep
  <1> QED
    BY <1>1, <1>2, InvInvariant, PTL DEF Spec, CallsSound, FailedCallNoEffect
=============================================================================
