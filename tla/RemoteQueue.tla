----------------------------- MODULE RemoteQueue -----------------------------
(***************************************************************************)
(* The event queue of audisp-remote (audisp/plugins/remote/queue.c): a     *)
(* ring of num_entries strings kept in a file, in memory, or in both.      *)
(*                                                                         *)
(* One process uses the queue (q_open_file locks the file).  Every system  *)
(* call that changes the file is a step of its own and may fail; the       *)
(* process may end between any two steps (Crash).  What a crash keeps is   *)
(* what was written: the loss of written but not synced pages when the     *)
(* machine itself goes down is left out, and with it Q_SYNC.               *)
(*                                                                         *)
(* A string is a member of Data, or of Long when it does not fit an entry. *)
(* The 8 bytes of struct fh_state are written in one step.  A failed       *)
(* malloc is a failed call.                                                *)
(***************************************************************************)
EXTENDS Integers, Sequences

CONSTANTS
    Data,       \* strings that fit into an entry
    Long,       \* strings longer than an entry
    NULL,       \* a null pointer; in the file, an entry never written
    TORN,       \* an entry of the file only a part of which was written
    Sizes,      \* the values of num_entries (queue_depth) callers ask for
    FlagSets,   \* the values of q_flags they use, as sets of flag names
    KeepGoing   \* the caller goes on after a failed header write (its
                \* queue_error_action is not one of stop, single and halt)

FlagNames == {"Q_IN_MEMORY", "Q_IN_FILE", "Q_CREAT", "Q_EXCL", "Q_RESIZE"}

ASSUME SizesAssumption == Sizes \subseteq Nat \ {0}
\* depth_parser bounds queue_depth.
ASSUME LargestAssumption == \E n \in Sizes : \A m \in Sizes : m <= n
ASSUME DataAssumption ==
    /\ NULL \notin Data
    /\ TORN \notin Data
    /\ NULL # TORN
    /\ Data \cap Long = {}
ASSUME FlagsAssumption ==
    /\ KeepGoing \in BOOLEAN
    /\ FlagSets \subseteq {f \in SUBSET FlagNames :
                             "Q_IN_MEMORY" \in f \/ "Q_IN_FILE" \in f}

VARIABLES
    file,   \* the file at PATH
    tmpfile,    \* the file at tmp_path while the queue is being resized
    q, q2,  \* struct queue
    req,    \* the num_entries parameter of the q_open in progress
    pc,     \* where the process is
    rc      \* what the last call returned; 0 while a call is in progress
vars == <<file, tmpfile, q, q2, req, pc, rc>>

Cell == Data \cup {NULL, TORN}

\* st is what the size of the file says of it: nothing yet, the header only,
\* or (num_entries + 1) * entry_size.
NoFile == [st |-> "absent", num |-> 1, head |-> 0, len |-> 0,
           slot |-> [i \in {0} |-> NULL]]
NewFile(n, st) == [st |-> st, num |-> n, head |-> 0, len |-> 0,
                   slot |-> [i \in 0 .. n - 1 |-> NULL]]

\* memory has as many elements as were asked for, whatever num becomes.
NewQueue(f, n) == [flags |-> f, num |-> n, head |-> 0, len |-> 0,
                   memory |-> [i \in 0 .. n - 1 |-> NULL]]
NoQueue == NewQueue({}, 1)

InMemory(r) == "Q_IN_MEMORY" \in r.flags
InFile(r) == "Q_IN_FILE" \in r.flags

Init ==
    /\ file = NoFile
    /\ tmpfile = NoFile
    /\ q = NoQueue
    /\ q2 = NoQueue
    /\ req = 1
    /\ pc = "closed"
    /\ rc = 0

-----------------------------------------------------------------------------
(* The ring. *)

\* The place of entry i of a ring of n whose entry 0 is at h.
Index(h, i, n) == (h + i) % n

\* Mutant: the entry goes one place too far.
entry_index_OffByOne(r) == Index(r.head, r.len + 1, r.num)

\* Where the next entry goes.
entry_index(r) == Index(r.head, r.len, r.num)

\* The indices of the entries in use, and the entries, oldest first.
Used(r) == {Index(r.head, i, r.num) : i \in 0 .. r.len - 1}
Contents(r, cells) == [i \in 1 .. r.len |-> cells[Index(r.head, i - 1, r.num)]]

\* The memory an index of the ring reaches; anything else is not ours.
Reaches(r, i) == InMemory(r) => i \in DOMAIN r.memory

\* What q_peek finds at index i: the copy in memory if there is one, else
\* what the file f has there.  NULL is its "really unexpected" EIO.
Entry(r, f, i) ==
    CASE InMemory(r) /\ r.memory[i] # NULL -> r.memory[i]
      [] InFile(r) /\ ~(InMemory(r) /\ r.memory[i] # NULL) -> f.slot[i]
      [] OTHER -> NULL
HeadEntry(r, f) == Entry(r, f, r.head)

\* The file after full_pwrite put c into entry i.
Written(f, i, c) == [f EXCEPT !.slot[i] = c]

\* q_append_no_sync_fh_state once the file has the entry.
Appended(r, d) ==
    [r EXCEPT !.memory = IF InMemory(r) THEN [@ EXCEPT ![entry_index(r)] = d]
                                        ELSE @,
              !.len = @ + 1]

\* Mutants: the head does not wrap; the copy in memory is not freed.
Dropped_NoWrap(r) ==
    [r EXCEPT !.memory = IF InMemory(r) THEN [@ EXCEPT ![r.head] = NULL] ELSE @,
              !.head = @ + 1,
              !.len = @ - 1]
\* q_drop_head_memory_only.
Dropped(r) ==
    [r EXCEPT !.memory = IF InMemory(r) THEN [@ EXCEPT ![r.head] = NULL] ELSE @,
              !.head = IF @ + 1 = r.num THEN 0 ELSE @ + 1,
              !.len = @ - 1]

\* Mutants: only the length, or only the head, is written.
Synced_LengthOnly(f, r) == [f EXCEPT !.len = r.len]
Synced_HeadOnly(f, r) == [f EXCEPT !.head = r.head]

\* sync_fh_state, when its write succeeds.
Synced(f, r) == [f EXCEPT !.head = r.head, !.len = r.len]

-----------------------------------------------------------------------------
(* Ending a call. *)

Return(r) == pc' = "idle" /\ rc' = r

\* The queue is gone: q_close, the error exits of q_open, the end of the
\* process.  The temporary file is unlinked, or left under a name that no
\* later mkstemp returns.
Gone == /\ pc' = "closed"
        /\ q' = NoQueue
        /\ q2' = NoQueue
        /\ tmpfile' = NoFile
        /\ req' = 1

\* q_close frees memory[i] for every i below num_entries.
CloseFrees(r) == InMemory(r) => r.num - 1 \in DOMAIN r.memory

\* Undefined behaviour: an element past the end of memory is used.  It can do
\* anything; the model stops here.
Undefined == pc' = "undefined" /\ UNCHANGED <<file, tmpfile, q, q2, req, rc>>

\* The error exit of q_open after q_open_no_resize succeeded.
OpenFails ==
    IF CloseFrees(q) THEN Gone /\ rc' = -1 /\ UNCHANGED file ELSE Undefined

-----------------------------------------------------------------------------
(* Opening. *)

\* q_open, down to the first write to the file.
q_open(f, n) ==
    /\ pc = "closed"
    /\ \/ \* Neither created nor opened, or not a queue file of the right size.
          /\ "Q_IN_FILE" \in f
          /\ \/ file.st = "absent" /\ "Q_CREAT" \notin f
             \/ file.st # "absent" /\ "Q_EXCL" \in f
             \/ file.st = "header"
             \/ /\ file.st = "full"
                /\ file.head >= file.num \/ file.len > file.num
          /\ rc' = -1
          /\ UNCHANGED <<file, q, req, pc>>
       \/ \* A queue in memory only.
          /\ "Q_IN_FILE" \notin f
          /\ q' = NewQueue(f, n)
          /\ Return(0)
          /\ UNCHANGED <<file, req>>
       \/ \* An empty file gets a header.
          /\ "Q_IN_FILE" \in f
          /\ \/ file.st = "absent" /\ "Q_CREAT" \in f
             \/ file.st = "empty" /\ "Q_EXCL" \notin f
          /\ file' = [NoFile EXCEPT !.st = "empty"]
          /\ q' = NewQueue(f, n)
          /\ req' = n
          /\ pc' = "create"
          /\ rc' = 0
       \/ \* The header of an existing file is taken over, num_entries included.
          /\ "Q_IN_FILE" \in f
          /\ "Q_EXCL" \notin f
          /\ file.st = "full"
          /\ file.head < file.num /\ file.len <= file.num
          /\ q' = [NewQueue(f, n) EXCEPT !.num = file.num, !.head = file.head,
                                         !.len = file.len]
          /\ req' = n
          /\ pc' = "opened"
          /\ rc' = 0
          /\ UNCHANGED file
    /\ UNCHANGED <<tmpfile, q2>>

\* The header of a new file.
CreateHeader ==
    /\ pc = "create"
    /\ \/ /\ file' = NewFile(q.num, "header")
          /\ pc' = "allocate"
          /\ UNCHANGED <<tmpfile, q, q2, req, rc>>
       \/ Gone /\ rc' = -1 /\ UNCHANGED file

\* posix_fallocate of the whole file.
CreateAllocate ==
    /\ pc = "allocate"
    /\ \/ /\ file' = [file EXCEPT !.st = "full"]
          /\ pc' = "opened"
          /\ UNCHANGED <<tmpfile, q, q2, req, rc>>
       \/ Gone /\ rc' = -1 /\ UNCHANGED file

\* q_open after q_open_no_resize: done, refused, or on to a temporary file of
\* the size asked for.
Opened ==
    /\ pc = "opened"
    /\ \/ /\ q.num = req
          /\ Return(0)
          /\ req' = 1
          /\ UNCHANGED <<file, tmpfile, q, q2>>
       \/ /\ q.num # req
          /\ "Q_RESIZE" \notin q.flags \/ q.len > req
          /\ OpenFails
       \/ /\ q.num # req
          /\ "Q_RESIZE" \in q.flags
          /\ q.len <= req
          /\ \/ /\ tmpfile' = NewFile(req, "full")
                /\ q2' = NewQueue(q.flags \cup {"Q_CREAT", "Q_EXCL"}, req)
                /\ pc' = "copy"
                /\ UNCHANGED <<file, q, req, rc>>
             \/ OpenFails

\* One turn of the copy loop of q_open: q_peek(q), q_append_no_sync_fh_state(q2),
\* q_drop_head_memory_only(q).
ResizeCopy ==
    /\ pc = "copy"
    /\ q.len > 0
    /\ IF ~Reaches(q, q.head) THEN Undefined ELSE
       LET d == HeadEntry(q, file) IN
       \/ OpenFails
       \/ /\ d \in Data
          /\ q2.len < q2.num
          /\ InMemory(q2) => q2.memory[entry_index(q2)] = NULL
          /\ tmpfile' = Written(tmpfile, entry_index(q2), d)
          /\ q2' = Appended(q2, d)
          /\ q' = Dropped(q)
          /\ UNCHANGED <<file, req, pc, rc>>

\* sync_fh_state(q2) once q is empty.
ResizeSync ==
    /\ pc = "copy"
    /\ q.len = 0
    /\ \/ /\ tmpfile' = Synced(tmpfile, q2)
          /\ pc' = "rename"
          /\ UNCHANGED <<file, q, q2, req, rc>>
       \/ OpenFails

\* rename, then q_close(q), and q2 is the queue.
ResizeRename ==
    /\ pc = "rename"
    /\ \/ /\ file' = tmpfile
          /\ tmpfile' = NoFile
          /\ IF CloseFrees(q)
             THEN q' = q2 /\ q2' = NoQueue /\ req' = 1 /\ Return(0)
             ELSE pc' = "undefined" /\ UNCHANGED <<q, q2, req, rc>>
       \/ OpenFails

-----------------------------------------------------------------------------
(* Using the queue. *)

\* q_append: the entry, in the file and in memory.
q_append(d) ==
    /\ pc = "idle"
    /\ \/ \* ENOSPC, EINVAL, EIO, or no memory for the copy.
          /\ \/ q.len = q.num
             \/ d \in Long
             \/ InMemory(q)
          /\ rc' = -1
          /\ UNCHANGED <<file, q, pc>>
       \/ /\ q.len < q.num
          /\ d \in Data
          /\ InMemory(q) => q.memory[entry_index(q)] = NULL
          /\ IF InFile(q)
             THEN \/ /\ file' = Written(file, entry_index(q), d)
                     /\ q' = Appended(q, d)
                     /\ pc' = "sync"
                     /\ rc' = 0
                  \/ \* The write fails, after a part of the entry or none.
                     /\ \/ file' = Written(file, entry_index(q), TORN)
                        \/ UNCHANGED file
                     /\ Return(-1)
                     /\ UNCHANGED q
             ELSE q' = Appended(q, d) /\ Return(0) /\ UNCHANGED file
    /\ UNCHANGED <<tmpfile, q2, req>>

\* q_drop_head: the entry leaves memory first.
q_drop_head ==
    /\ pc = "idle"
    /\ \/ /\ q.len = 0
          /\ Return(-1)
          /\ UNCHANGED q
       \/ /\ q.len > 0
          /\ q' = Dropped(q)
          /\ pc' = IF InFile(q) THEN "sync" ELSE "idle"
          /\ rc' = 0
    /\ UNCHANGED <<file, tmpfile, q2, req>>

\* sync_fh_state, the end of q_append and of q_drop_head.
sync_fh_state ==
    /\ pc = "sync"
    /\ \/ file' = Synced(file, q) /\ Return(0)
       \/ /\ pc' = IF KeepGoing THEN "idle" ELSE "failed"
          /\ rc' = -1
          /\ UNCHANGED file
    /\ UNCHANGED <<tmpfile, q, q2, req>>

\* q_peek: an entry read from the file is kept in memory.
q_peek ==
    /\ pc = "idle"
    /\ \/ q.len = 0 /\ rc' = 0 /\ UNCHANGED q
       \/ \* A failed read, or an entry without its NUL.
          q.len > 0 /\ rc' = -1 /\ UNCHANGED q
       \/ \* The entry, or ERANGE if it does not fit the caller's buffer.
          /\ q.len > 0
          /\ HeadEntry(q, file) \in Data
          /\ rc' \in {1, -1}
          /\ \/ InMemory(q) /\ q' = [q EXCEPT !.memory[q.head] = HeadEntry(q, file)]
             \/ UNCHANGED q
    /\ UNCHANGED <<file, tmpfile, q2, req, pc>>

q_close ==
    /\ pc \in {"idle", "failed"}
    /\ Gone
    /\ rc' = 0
    /\ UNCHANGED file

\* The process ends, anywhere.
Crash ==
    /\ pc \notin {"closed", "undefined"}
    /\ Gone
    /\ rc' = 0
    /\ UNCHANGED file

Next ==
    \/ \E f \in FlagSets, n \in Sizes : q_open(f, n)
    \/ CreateHeader
    \/ CreateAllocate
    \/ Opened
    \/ ResizeCopy
    \/ ResizeSync
    \/ ResizeRename
    \/ \E d \in Data \cup Long : q_append(d)
    \/ q_drop_head
    \/ sync_fh_state
    \/ q_peek
    \/ q_close
    \/ Crash

Spec == Init /\ [][Next]_vars

-----------------------------------------------------------------------------
(* Properties. *)

Depths == Sizes \cup {1}
Memories == UNION {[0 .. n - 1 -> Data \cup {NULL}] : n \in Depths}
Slots == UNION {[0 .. n - 1 -> Cell] : n \in Depths}

QueueRecords == [flags : SUBSET FlagNames, num : Depths, head : Nat, len : Nat,
                 memory : Memories]
FileRecords == [st : {"absent", "empty", "header", "full"},
                num : Depths, head : Nat, len : Nat, slot : Slots]

QueueType(r) ==
    /\ r \in QueueRecords
    /\ r.head < r.num
    /\ r.len <= r.num

FileType(f) ==
    /\ f \in FileRecords
    /\ DOMAIN f.slot = 0 .. f.num - 1
    /\ f.head < f.num
    /\ f.len <= f.num

\* The types, and the ring's arithmetic: head and length stay inside
\* num_entries through every wraparound, in memory and in both files, so
\* q_open_file never finds a header it must refuse.
TypeOK ==
    /\ QueueType(q) /\ QueueType(q2)
    /\ FileType(file) /\ FileType(tmpfile)
    /\ req \in Depths
    /\ pc \in {"closed", "create", "allocate", "opened", "copy", "rename",
              "idle", "sync", "failed", "undefined"}
    /\ rc \in {-1, 0, 1}

\* Whatever a crash or a failed write leaves in the file at PATH, each entry
\* its header counts was written completely.
EntriesWhole ==
    file.st = "full" => \A i \in Used(file) : file.slot[i] \in Data

\* The three exits of queue.c marked "This is _really_ unexpected" are never
\* taken: no stale copy where q_append puts the next entry, and q_peek always
\* has a place to read the head from.
NothingUnexpected ==
    /\ pc = "idle" =>
         /\ q.len < q.num /\ InMemory(q) => q.memory[entry_index(q)] = NULL
         /\ q.len > 0 => HeadEntry(q, file) \in Data
    /\ pc = "copy" =>
         /\ q2.num = req
         /\ q.len > 0 => /\ q2.len < q2.num
                         /\ InMemory(q2) => q2.memory[entry_index(q2)] = NULL

\* The queue the caller sees.
IsOpen == pc \in {"idle", "sync", "failed"}
Visible == [i \in 1 .. q.len |-> Entry(q, file, Index(q.head, i - 1, q.num))]
Durable == IF file.st = "full" THEN Contents(file, file.slot) ELSE <<>>

\* Between calls, what a restarted process would find is what the caller has:
\* q_append and q_drop_head do not return before the file agrees with memory.
DurableWhenIdle == pc = "idle" /\ InFile(q) => Durable = Visible

MaxSize == CHOOSE n \in Sizes : \A m \in Sizes : m <= n
Fifo == INSTANCE PersistentFifo WITH
            MaxLen <- MaxSize,
            isopen <- IsOpen,
            backed <- IsOpen /\ InFile(q),
            vis <- IF IsOpen THEN Visible ELSE <<>>,
            dur <- Durable

\* The queue is a FIFO with a durable copy (PersistentFifo): crashes, failed
\* writes and resizing lose, repeat or reorder nothing but the operation in
\* progress.
RefinesFifo == Fifo!Spec

\* A call that fails before it gets to the header (a full queue, a string too
\* long, an entry half written, a refused or failed q_open) changes neither
\* the queue nor what a restart would find.
FailedCallNoEffect ==
    [][pc # "sync" /\ rc' = -1 =>
         /\ Durable' = Durable
         /\ IsOpen /\ IsOpen' => Visible' = Visible]_vars

\* Between calls memory and the file agree and each next call finds what it
\* needs; a call that fails early has no effect (q_append, q_drop_head, q_open).
CallsSound == [](NothingUnexpected /\ DurableWhenIdle) /\ FailedCallNoEffect
=============================================================================
