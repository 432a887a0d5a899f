---------------------------- MODULE EventAssembly ----------------------------
(***************************************************************************)
(* auparse puts records back together into events. Lines come from log     *)
(* files, an open stream, a buffer in memory or a feed; records of several *)
(* events are interleaved. au_lo is the list of lists: one slot for each   *)
(* event that is being built or waits to be handed out.                    *)
(*                                                                         *)
(* A line is a record [e, type, good]: the event stamp, the record type    *)
(* and whether extract_timestamp can read it. Text is a sequence of        *)
(* pieces, two to a line, so that a feed may end inside a line; a piece    *)
(* with nl ends in a newline.                                              *)
(***************************************************************************)
EXTENDS Integers, Sequences, SequencesExt, FiniteSets, FiniteSetsExt

CONSTANTS
  AsmWorlds,      \* what can be read: [lines, source, files, closed]
  ARRAY_LIMIT,    \* slots added to the list of lists at a time
  MaxResets       \* bound: calls of auparse_reset

VARIABLES
  asmWorld,       \* the member of AsmWorlds being read
  au,             \* auparse_state_t
  asmHist         \* what the caller saw: the events handed out, in order

AUDIT_FIRST_EVENT     == 1300
AUDIT_EOE             == 1320
AUDIT_PROCTITLE       == 1327
AUDIT_MAC_UNLBL_ALLOW == 1406
AUDIT_MAC_CALIPSO_DEL == 1419
AUDIT_KERNEL          == 2000
AUDIT_FIRST_ANOM_MSG  == 2100

BufSources == {"buffer", "feed"}   \* BUFFER, BUFFER_ARRAY; FEED. The others read lines

asmLines == asmWorld.lines
Stamp(k) == asmLines[k].e
Type(k)  == asmLines[k].type

\* The text of the lines numbered ks: the second piece has the newline,
\* unless the line is the last of a buffer that does not end in one.
Pieces(ks) == FlattenSeq([i \in 1..Len(ks) |->
  <<[k |-> ks[i], nl |-> FALSE],
    [k |-> ks[i], nl |-> ~(ks[i] \in asmWorld.closed)]>>])

---------------------------------------------------------------------------
(* Slots *)

NoList == <<>>                               \* a NULL event list
FreshSlot == [status |-> "EMPTY", l |-> NoList]
FreshArray == [i \in 1..ARRAY_LIMIT |-> FreshSlot]

\* An event list holds line numbers; its stamp is that of its first record.
EventOf(l) == Stamp(Head(l))

auparse_timestamp_compare(e, f) ==
  IF e.sec /= f.sec THEN (IF e.sec > f.sec THEN 1 ELSE -1)
  ELSE IF e.milli /= f.milli THEN (IF e.milli > f.milli THEN 1 ELSE -1)
  ELSE IF e.serial /= f.serial THEN (IF e.serial > f.serial THEN 1 ELSE -1)
  ELSE 0

events_are_equal(e, f) ==
  /\ e.serial = f.serial /\ e.milli = f.milli /\ e.sec = f.sec
  /\ e.host = f.host

InUse(a) == {i \in 1..a.maxi : a.lol[i].status /= "EMPTY"}

\* The slot the loop of au_get_ready_event settles on: the first of the
\* lowest stamps among the events being built or complete.
Lowest(a) ==
  CHOOSE i \in InUse(a) : \A j \in InUse(a) :
    LET c == auparse_timestamp_compare(EventOf(a.lol[i].l), EventOf(a.lol[j].l))
    IN  c < 1 /\ (c = 0 => i <= j)

ReadyIsComplete(a) == a.ready > 0 /\ InUse(a) /= {} /\ a.lol[Lowest(a)].status = "COMPLETE"

\* au_get_ready_event(au, 0), the slot it empties, 0 for NULL.
ReadySlot(a) == IF ReadyIsComplete(a) THEN Lowest(a) ELSE 0

\* The caller makes the event the current one; its first record's
\* interpretations are loaded and the cursors go to its first field.
HandOut(a, i) ==
  [a EXCEPT !.lol[i].status = "EMPTY", !.ready = @ - 1, !.le = i,
            !.rc = 1, !.out = Append(@, a.lol[i].l)]

LastOfEvent(type) ==
  \/ type \in {AUDIT_PROCTITLE, AUDIT_EOE, AUDIT_KERNEL}
  \/ type < AUDIT_FIRST_EVENT \/ type >= AUDIT_FIRST_ANOM_MSG
  \/ type \in AUDIT_MAC_UNLBL_ALLOW..AUDIT_MAC_CALIPSO_DEL

Completed(slot, sec) ==
  /\ slot.status = "BUILDING"
  /\ \/ EventOf(slot.l).sec + 2 <= sec
     \/ LastOfEvent(Type(Last(slot.l)))

Complete(a, done) ==
  [a EXCEPT !.lol = [i \in DOMAIN @ |-> IF i \in done THEN [@[i] EXCEPT !.status = "COMPLETE"] ELSE @[i]],
            !.ready = @ + Cardinality(done)]

au_check_events(a, sec) == Complete(a, {i \in 1..a.maxi : Completed(a.lol[i], sec)})

au_terminate_all_events(a) == Complete(a, {i \in 1..a.maxi : a.lol[i].status = "BUILDING"})

au_lol_append_KeepMaxi(a, l) ==
  LET empty == {i \in DOMAIN a.lol : a.lol[i].status = "EMPTY"}
      n     == Len(a.lol)
      i     == IF empty = {} THEN n + 1 ELSE Min(empty)
      grown == IF empty = {} THEN a.lol \o FreshArray ELSE a.lol
  IN  [a EXCEPT !.lol = [grown EXCEPT ![i] = [status |-> "BUILDING", l |-> l]],
                !.maxi = IF i > @ /\ empty /= {} THEN i ELSE @]

au_lol_append(a, l) ==
  LET empty == {i \in DOMAIN a.lol : a.lol[i].status = "EMPTY"}
      n     == Len(a.lol)
      i     == IF empty = {} THEN n + 1 ELSE Min(empty)
      grown == IF empty = {} THEN a.lol \o FreshArray ELSE a.lol
  IN  [a EXCEPT !.lol = [grown EXCEPT ![i] = [status |-> "BUILDING", l |-> l]],
                !.maxi = IF i > @ THEN i ELSE @]

\* Events that have been handed out are freed, which takes the current
\* event away.
FreeHandedOut(a) ==
  LET old == {i \in 1..a.maxi : a.lol[i].status = "EMPTY" /\ a.lol[i].l /= NoList}
  IN  IF old = {} THEN a
      ELSE [a EXCEPT !.lol = [i \in DOMAIN @ |-> IF i \in old THEN FreshSlot ELSE @[i]], !.le = 0]

---------------------------------------------------------------------------
(* Lines *)

\* A result of retrieve_next_line: rc as in the code, the line number.
Got(a, rc, k) == [a |-> a, rc |-> rc, k |-> k]

Newlines(d) == {i \in 1..Len(d) : d[i].nl}

\* A line is what comes before the next newline; extract_timestamp reads
\* the stamp at its head.
readline_buf(a) ==
  LET n == Newlines(a.data)
  IN  IF Len(a.data) = 0 THEN Got(a, -2, 0)
      ELSE IF n = {} THEN Got(a, 0, 0)
      ELSE Got([a EXCEPT !.data = SubSeq(@, Min(n) + 1, Len(@))], 1, Head(a.data).k)

\* a.in is the unread part of the open file, a.open whether there is one.
readline_file(a) ==
  IF ~a.open THEN Got(a, -1, 0)
  ELSE IF a.in = <<>> THEN Got(a, -2, 0)
  ELSE Got([a EXCEPT !.in = Tail(@)], 1, Head(a.in))

OpenFile(a, i) ==
  IF asmWorld.files[i].readable
  THEN Got([a EXCEPT !.idx = i, !.open = TRUE, !.in = asmWorld.files[i].ks], 1, 0)
  ELSE Got([a EXCEPT !.idx = i, !.open = FALSE, !.in = <<>>], -1, 0)

RECURSIVE ReadFiles(_)
ReadFiles(a) ==
  IF ~a.open THEN Got(a, -2, 0)
  ELSE LET r == readline_file(a)
       IN  IF r.rc /= -2 THEN r
           ELSE IF a.idx = Len(asmWorld.files)
                THEN Got([a EXCEPT !.idx = @ + 1, !.open = FALSE], -2, 0)
                ELSE LET o == OpenFile(a, a.idx + 1)
                     IN  IF o.rc < 0 THEN o ELSE ReadFiles(o.a)

retrieve_next_line(a) ==
  CASE asmWorld.source = "stream" -> readline_file(a)
    [] asmWorld.source = "file" ->
         IF a.idx = 1 /\ ~a.open
         THEN LET o == OpenFile(a, 1) IN IF o.rc < 0 THEN o ELSE ReadFiles(o.a)
         ELSE ReadFiles(a)
    [] asmWorld.source = "buffer" -> readline_buf(a)
    [] OTHER -> LET r == readline_buf(a) IN IF r.rc = -2 THEN Got(r.a, 0, 0) ELSE r

---------------------------------------------------------------------------
(* auparse_next_event *)

BuildingSlot(a, k) ==
  {i \in 1..a.maxi : a.lol[i].status = "BUILDING" /\ events_are_equal(EventOf(a.lol[i].l), Stamp(k))}

\* A record of an event that is being built goes to the end of its list.
AppendRecord(a, i, k) ==
  au_check_events([a EXCEPT !.lol[i].l = Append(@, k)], Stamp(k).sec)

NewEvent(a, k) == au_check_events(au_lol_append(a, <<k>>), Stamp(k).sec)

\* One turn of the loop for the line k: a new event may make one ready,
\* which ends the loop (rc = 1); otherwise it goes on (rc = 2).
IngestLine(a, k) ==
  LET b == BuildingSlot(a, k)
      n == NewEvent(a, k)
  IN  IF ~asmLines[k].good THEN [a EXCEPT !.rc = 2]
      ELSE IF b /= {} THEN [AppendRecord(a, Min(b), k) EXCEPT !.rc = 2]
      ELSE IF Type(k) = AUDIT_EOE THEN [a EXCEPT !.rc = 2]
      ELSE IF ReadySlot(n) > 0 THEN HandOut(n, ReadySlot(n))
      ELSE [n EXCEPT !.rc = 2]

AtEnd(a) ==
  LET t == au_terminate_all_events(a)
  IN  IF ReadySlot(t) > 0 THEN HandOut(t, ReadySlot(t)) ELSE [t EXCEPT !.rc = 0]

RECURSIVE Ingest(_)
Ingest(a) ==
  LET r == retrieve_next_line(FreeHandedOut(a))
  IN  CASE r.rc = 0  -> [r.a EXCEPT !.rc = 0]
        [] r.rc = -2 -> AtEnd(r.a)
        [] r.rc = -1 -> [r.a EXCEPT !.rc = -1]
        [] OTHER     -> LET b == IngestLine(r.a, r.k)
                        IN  IF b.rc = 1 THEN b ELSE Ingest(b)

auparse_next_event(a) ==
  LET f == FreeHandedOut(a)
  IN  IF ReadySlot(f) > 0 THEN HandOut(f, ReadySlot(f)) ELSE Ingest(f)

---------------------------------------------------------------------------
(* The feed *)

RECURSIVE CallBackEach(_)
CallBackEach(a) == LET n == auparse_next_event(a) IN IF n.rc > 0 THEN CallBackEach(n) ELSE n

RECURSIVE FlushReady(_)
FlushReady(a) == IF ReadySlot(a) > 0 THEN FlushReady(HandOut(a, ReadySlot(a))) ELSE a

consume_feed(a, flush) ==
  LET c == CallBackEach(a)
  IN  IF flush THEN FlushReady(au_terminate_all_events(c)) ELSE c

auparse_feed(a, d) == consume_feed([a EXCEPT !.data = @ \o d], FALSE)
auparse_flush_feed(a) == consume_feed(a, TRUE)
auparse_feed_age_events(a, now) == consume_feed(au_check_events(a, now), FALSE)

---------------------------------------------------------------------------
AllLines == [k \in 1..Len(asmLines) |-> k]

\* auparse_init: a buffer is copied, a stream is open, files are not.
auparse_init ==
  [lol |-> FreshArray, maxi |-> 0, ready |-> 0, le |-> 0, rc |-> 2, out |-> <<>>,
   data |-> IF asmWorld.source = "buffer" THEN Pieces(AllLines) ELSE <<>>,
   idx |-> 1, open |-> asmWorld.source = "stream",
   in |-> IF asmWorld.source = "stream" THEN AllLines ELSE <<>>]

\* auparse_reset for all but a feed: au_lol_clear(lol, 1) keeps the array
\* and its limit, files are closed, streams and buffers rewound.
auparse_reset(a) ==
  [auparse_init EXCEPT !.lol = [i \in DOMAIN a.lol |-> FreshSlot]]

AsmStart(w) ==
  /\ asmWorld = w
  /\ au = auparse_init
  /\ asmHist = [fed |-> 0, flushed |-> FALSE, aged |-> FALSE, resets |-> 0]

AsmInit == \E w \in AsmWorlds : AsmStart(w)

AllPieces == Pieces(AllLines)

\* Any number of pieces at a time; the rest of the input is still to come.
FeedSome ==
  /\ asmWorld.source = "feed" /\ ~asmHist.flushed
  /\ \E n \in 1..(Len(AllPieces) - asmHist.fed) :
       /\ au' = auparse_feed(au, SubSeq(AllPieces, asmHist.fed + 1, asmHist.fed + n))
       /\ asmHist' = [asmHist EXCEPT !.fed = @ + n]
  /\ UNCHANGED asmWorld

\* The clock is not behind the newest record fed.
AgeFeed ==
  /\ asmWorld.source = "feed" /\ ~asmHist.flushed /\ ~asmHist.aged
  /\ \E late \in {0, 2} :
       LET now == Max({Stamp(k).sec : k \in 1..Len(asmLines)}) + late
       IN  au' = auparse_feed_age_events(au, now)
  /\ asmHist' = [asmHist EXCEPT !.aged = TRUE]
  /\ UNCHANGED asmWorld

FlushFeed ==
  /\ asmWorld.source = "feed" /\ ~asmHist.flushed
  /\ asmHist.fed = Len(AllPieces)
  /\ au' = auparse_flush_feed(au)
  /\ asmHist' = [asmHist EXCEPT !.flushed = TRUE]
  /\ UNCHANGED asmWorld

\* The caller reads on until there is no more data.
ReadEvent ==
  /\ asmWorld.source /= "feed" /\ au.rc /= 0
  /\ au' = auparse_next_event(au)
  /\ UNCHANGED <<asmWorld, asmHist>>

ResetReader ==
  /\ asmWorld.source /= "feed" /\ asmHist.resets < MaxResets
  /\ au' = auparse_reset(au)
  /\ asmHist' = [asmHist EXCEPT !.resets = @ + 1]
  /\ UNCHANGED asmWorld

AsmNext == FeedSome \/ AgeFeed \/ FlushFeed \/ ReadEvent \/ ResetReader
asmVars == <<asmWorld, au, asmHist>>
AsmSpec == AsmInit /\ [][AsmNext]_asmVars

---------------------------------------------------------------------------
(* Properties *)

Held == {i \in 1..au.maxi : au.lol[i].status /= "EMPTY"}
Places(k) ==
  Cardinality({i \in DOMAIN au.out : Contains(au.out[i], k)}) +
  Cardinality({i \in Held : Contains(au.lol[i].l, k)})

\* The lines read so far.
ReadSet ==
  CASE asmWorld.source \in BufSources ->
         {k \in 1..Len(asmLines) :
            /\ asmWorld.source = "feed" => 2 * k <= asmHist.fed
            /\ \A i \in DOMAIN au.data : au.data[i].k /= k}
    [] asmWorld.source = "stream" -> {k \in 1..Len(asmLines) : ~Contains(au.in, k)}
    [] OTHER -> {k \in 1..Len(asmLines) :
                   \E i \in DOMAIN asmWorld.files :
                     /\ Contains(asmWorld.files[i].ks, k)
                     /\ i < au.idx \/ (i = au.idx /\ au.open /\ ~Contains(au.in, k))
                     /\ asmWorld.files[i].readable}

\* The slots agree with the counter that guards them, and the current
\* event is one that was handed out and is still there: au_get_ready_event
\* trusts au_ready, the accessors trust au->le.
AsmSlots ==
  /\ au.ready = Cardinality({i \in Held : au.lol[i].status = "COMPLETE"})
  /\ au.le > 0 => au.lol[au.le].l /= NoList /\ au.lol[au.le].l = Last(au.out)

\* No record is lost and none is given twice: a readable record that has
\* been read is in exactly one event, handed out or held. Only an EOE
\* record whose event is already gone is dropped.
AsmConserves ==
  \A k \in ReadSet :
    IF ~asmLines[k].good THEN Places(k) = 0
    ELSE IF Type(k) = AUDIT_EOE THEN Places(k) <= 1
    ELSE Places(k) = 1 \/ (asmWorld.closed /= {} /\ k - 1 \in asmWorld.closed)

Firsts == {k \in 1..Len(asmLines) : asmLines[k].good /\
             \A j \in 1..(k - 1) : asmLines[j].good => Stamp(j) /= Stamp(k)}
NotAfter(e, f) == auparse_timestamp_compare(e, f) < 1

\* The log is in order when events begin in the order of their stamps and
\* an event's records come before its last one and within two seconds,
\* each on a line of its own, and every file of it can be opened.
OrderedLog ==
  /\ asmWorld.closed \subseteq {Len(asmLines)}
  /\ \A i \in DOMAIN asmWorld.files : asmWorld.files[i].readable
  /\ \A j, k \in Firsts : j < k => NotAfter(Stamp(j), Stamp(k))
  /\ \A j, k \in 1..Len(asmLines) :
       j < k /\ asmLines[j].good /\ asmLines[k].good /\ Stamp(j) = Stamp(k)
         => /\ ~LastOfEvent(Type(j))
            /\ \A i \in (j + 1)..(k - 1) : asmLines[i].good => Stamp(i).sec < Stamp(k).sec + 2

\* Events of a log that is in order are handed out in the order of their
\* stamps, whatever the interleaving of their records: an event that is
\* complete waits for an older one that is still being built. (The clock of
\* auparse_feed_age_events may close an event before its last record.)
AsmInOrder ==
  OrderedLog /\ ~asmHist.aged =>
    \A i, j \in DOMAIN au.out : i < j => NotAfter(EventOf(au.out[i]), EventOf(au.out[j]))

\* In such a log an event is handed out once, with all its records in
\* their order, unless a feed's clock closed it early.
AsmWhole ==
  OrderedLog /\ ~asmHist.aged =>
    \A i \in DOMAIN au.out :
      au.out[i] = SelectSeq(AllLines, LAMBDA k :
                    asmLines[k].good /\ Stamp(k) = EventOf(au.out[i]))

\* Everything is handed out at the end: a flushed feed and a source that
\* has reported the end of data hold no event back. A buffer whose last
\* line has no newline never reports it.
AsmDrained ==
  asmHist.flushed \/ (asmWorld.source /= "feed" /\ au.rc = 0 /\ Len(asmLines) \notin asmWorld.closed)
    => Held = {}

RECURSIVE StreamAll(_)
StreamAll(a) ==
  LET f == FreeHandedOut(a)
      r == IF f.in = <<>> THEN AtEnd(f) ELSE IngestLine([f EXCEPT !.in = Tail(@)], Head(f.in))
  IN  IF ReadySlot(f) > 0 THEN StreamAll(HandOut(f, ReadySlot(f)))
      ELSE IF r.rc = 0 THEN r ELSE StreamAll(r)
StreamOut == StreamAll([auparse_init EXCEPT !.in = AllLines, !.data = <<>>]).out
\* The events a caller gets do not depend on where the lines came from or
\* on how a feed was cut: they are those of one stream with the same lines
\* that hands out an event as soon as it is complete, in its order too when
\* the log is in order.
AsmSourceFree ==
  /\ asmWorld.closed = {} /\ ~asmHist.aged /\ \A i \in DOMAIN asmWorld.files : asmWorld.files[i].readable
  /\ asmHist.flushed \/ (asmWorld.source /= "feed" /\ au.rc = 0)
  => ToSet(au.out) = ToSet(StreamOut) /\ (OrderedLog => au.out = StreamOut)

\* The records of the log come out of the list of lists as the events they
\* belong to: none lost, none twice, in order, whole, to the last one, from
\* whatever source they are read.
AsmDelivers ==
  AsmSlots /\ AsmConserves /\ AsmInOrder /\ AsmWhole /\ AsmDrained /\ AsmSourceFree
=============================================================================
