------------------------------- MODULE DataBuf -------------------------------
(***************************************************************************)
(* The byte buffer auparse reads from: a block of memory of which the      *)
(* bytes offset .. offset+len-1 are still to be read. A feed appends and   *)
(* advances by turns; a source of given buffers (PRESERVE_HEAD) appends    *)
(* everything first, then advances, and may be reset to read it again.     *)
(* A byte is its number in the input; 0 is memory not written yet.         *)
(***************************************************************************)
EXTENDS Integers, Sequences, SequencesExt, FiniteSetsExt

CONSTANTS
  MaxBytes,       \* bound on the bytes appended
  MaxPiece        \* bound on one append or advance

ASSUME DataBufAssumption == MaxBytes \in Nat /\ MaxPiece \in Nat

VARIABLES
  db,             \* DataBuf: [mem, alloc, offset, len, max_len, preserve]
  dbRead,         \* bytes appended, and of those advanced over
  dbSealed        \* a preserved buffer has been read from: no more appends

databuf_init(preserve) ==
  [mem |-> <<>>, alloc |-> 0, offset |-> 0, len |-> 0, max_len |-> 0, preserve |-> preserve]

alloc_size(b) == b.alloc
databuf_tail_size(b) == alloc_size(b) - (b.offset + b.len)
databuf_tail_available(b, n) == n <= databuf_tail_size(b)

databuf_shift_data_to_beginning(b) ==
  IF b.preserve \/ b.offset = 0 THEN b
  ELSE [b EXCEPT !.offset = 0,
                 !.mem = SubSeq(@, b.offset + 1, b.offset + b.len)
                           \o SubSeq(@, b.len + 1, Len(@))]

\* memmove to databuf_end, past the block when there is no room.
Written(b, bytes) ==
  LET at == b.offset + b.len
  IN  [b EXCEPT !.mem = SubSeq(@, 1, at) \o bytes \o SubSeq(@, at + Len(bytes) + 1, Len(@)),
                !.len = @ + Len(bytes),
                !.max_len = Max({@, b.len + Len(bytes)})]

Realloc(b, n) == [b EXCEPT !.alloc = n, !.mem = SubSeq(@ \o [i \in 1..n |-> 0], 1, n)]

Room_NoShift(b, n) ==
  IF b.len + n > alloc_size(b) \/ (b.preserve /\ ~databuf_tail_available(b, n))
  THEN Realloc(databuf_shift_data_to_beginning(b), b.len + n)
  ELSE b

Room(b, n) ==
  IF b.len + n > alloc_size(b) \/ (b.preserve /\ ~databuf_tail_available(b, n))
  THEN Realloc(databuf_shift_data_to_beginning(b), b.len + n)
  ELSE IF databuf_tail_available(b, n) THEN b
  ELSE databuf_shift_data_to_beginning(b)

\* When realloc fails the data may have been shifted already, and nothing
\* is appended.
databuf_append(b, bytes, fails) ==
  IF bytes = <<>> THEN b
  ELSE IF fails /\ alloc_size(Room(b, Len(bytes))) /= alloc_size(b)
  THEN databuf_shift_data_to_beginning(b)
  ELSE Written(Room(b, Len(bytes)), bytes)

databuf_advance(b, n) ==
  LET actual == Min({n, b.len}) IN [b EXCEPT !.offset = @ + actual, !.len = @ - actual]

databuf_reset(b) ==
  IF ~b.preserve THEN b ELSE [b EXCEPT !.offset = 0, !.len = Min({alloc_size(b), b.max_len})]

---------------------------------------------------------------------------
DbStart(preserve) ==
  /\ db = databuf_init(preserve)
  /\ dbRead = [got |-> 0, read |-> 0]
  /\ dbSealed = FALSE

DbInit == \E preserve \in BOOLEAN : DbStart(preserve)

Append2 ==
  /\ ~dbSealed
  /\ \E n \in 0..Min({MaxPiece, MaxBytes - dbRead.got}), fails \in BOOLEAN :
       LET bytes == [i \in 1..n |-> dbRead.got + i]
           b     == databuf_append(db, bytes, fails)
       IN  /\ db' = b
           /\ dbRead' = [dbRead EXCEPT !.got = IF b.len > db.len THEN @ + n ELSE @]
  /\ UNCHANGED dbSealed

Advance ==
  /\ \E n \in 0..MaxPiece :
       /\ db' = databuf_advance(db, n)
       /\ dbRead' = [dbRead EXCEPT !.read = Min({dbRead.got, @ + n})]
  /\ dbSealed' = db.preserve

Reset ==
  /\ db' = databuf_reset(db)
  /\ dbRead' = IF db.preserve THEN [dbRead EXCEPT !.read = 0] ELSE dbRead
  /\ UNCHANGED dbSealed

DbNext == Append2 \/ Advance \/ Reset
dbVars == <<db, dbRead, dbSealed>>
DbSpec == DbInit /\ [][DbNext]_dbVars

---------------------------------------------------------------------------
\* The unread part of the buffer is exactly what was appended and not yet
\* advanced over, in order and inside the block, whatever the shifts,
\* reallocations and failed reallocations in between; a reset makes all of
\* a preserved buffer unread again.
DbContents ==
  /\ db.offset + db.len <= alloc_size(db)
  /\ SubSeq(db.mem, db.offset + 1, db.offset + db.len)
       = [i \in 1..(dbRead.got - dbRead.read) |-> dbRead.read + i]
=============================================================================
