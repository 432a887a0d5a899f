------------------------------- MODULE Search --------------------------------
(***************************************************************************)
(* ausearch: it finds the log files to read, puts the records of events    *)
(* together again in a list of lists (lol), prints the events that match   *)
(* and, with --checkpoint, remembers where it stopped so that the next     *)
(* invocation goes on from there. The daemon appends to the log and        *)
(* rotates it while searches run.                                          *)
(*                                                                         *)
(* A line is [ev, k, type, node]: record k of event ev, an event being     *)
(* [sec, serial, match], match telling whether it fits the options. Types  *)
(* are "one" (an event of one record), "multi", "eoe" and "bad" (no time   *)
(* stamp); a "pause" is a silence of the pipe longer than the timeout.     *)
(* Lines are written and read whole.                                       *)
(***************************************************************************)
EXTENDS Integers, Sequences, SequencesExt, FiniteSets, FiniteSetsExt

CONSTANTS
  SearchWorlds,   \* [lines, checkpoint, justOne, start, pipe] and the
                  \* bounds searches and rotations
  LOL_LIMIT,      \* ARRAY_LIMIT
  NumLogs         \* log files kept

ASSUME SearchAssumption == LOL_LIMIT \in Nat \ {0} /\ NumLogs \in Nat \ {0}

VARIABLES
  sWorld,
  logs,           \* the log files, newest first: [ino, lines]
  written,        \* number of lines of the world already logged
  chk,            \* the checkpoint file: "none", "empty" or "saved", with its contents
  srch,           \* the running ausearch
  sHist           \* what the last finished invocation did

NoEvent == [sec |-> 0, serial |-> 0, match |-> FALSE]
NoLine  == [ev |-> NoEvent, k |-> 0, type |-> "bad", node |-> ""]
EmptySlot == [st |-> "EMPTY", recs |-> <<>>]
MAX_EVENT_DELTA_SECS == 2

---------------------------------------------------------------------------
(* The list of lists: slots 1..limit, maxi the highest slot looked at *)

lol_create == [a |-> [i \in 1..LOL_LIMIT |-> EmptySlot], maxi |-> 0, ready |-> 0]

First(slot) == slot.recs[1]
Slots(lo) == 1..lo.maxi

lol_append(lo, line) ==
  LET free == {i \in DOMAIN lo.a : lo.a[i].st = "EMPTY"}
      i    == IF free = {} THEN Len(lo.a) + 1 ELSE Min(free)
      a    == IF free = {} THEN lo.a \o [j \in 1..LOL_LIMIT |-> EmptySlot] ELSE lo.a
  IN  [lo EXCEPT !.a = [a EXCEPT ![i] = [st |-> "BUILDING", recs |-> <<line>>]],
                 !.maxi = Max({@, i})]

lol_events_are_equal(l, m) == l.ev.sec = m.ev.sec /\ l.ev.serial = m.ev.serial /\ l.node = m.node

\* -1, 0 or 1, the node not looked at.
compare_event_time(e, f) ==
  IF e.sec /= f.sec THEN IF e.sec > f.sec THEN 1 ELSE -1
  ELSE IF e.serial > f.serial THEN 1 ELSE IF e.serial < f.serial THEN -1 ELSE 0

extract_timestamp(line) == line.type /= "bad" /\ line.ev.sec >= sWorld.start

\* An event is done two seconds later, or at once when the type of its
\* first record says it is alone.
Done(lo, i, sec) ==
  /\ lo.a[i].st = "BUILDING"
  /\ First(lo.a[i]).ev.sec + 2 <= sec \/ First(lo.a[i]).type = "one"

Mark(lo, done) ==
  [lo EXCEPT !.a = [i \in DOMAIN @ |-> IF i \in done THEN [@[i] EXCEPT !.st = "COMPLETE"] ELSE @[i]],
             !.ready = @ + Cardinality(done)]

check_events(lo, sec) == Mark(lo, {i \in Slots(lo) : Done(lo, i, sec)})

Building(lo, line) ==
  {i \in Slots(lo) : lo.a[i].st = "BUILDING" /\ lol_events_are_equal(First(lo.a[i]), line)}

lol_add_record(lo, line) ==
  IF ~extract_timestamp(line) THEN [lo |-> lo, rc |-> 0]
  ELSE IF Building(lo, line) /= {}
  THEN [lo |-> [lo EXCEPT !.a[Min(Building(lo, line))].recs = Append(@, line)], rc |-> 1]
  ELSE IF line.type = "eoe" THEN [lo |-> lo, rc |-> 0]
  ELSE [lo |-> check_events(lol_append(lo, line), line.ev.sec), rc |-> 1]

terminate_all_events(lo) == Mark(lo, {i \in Slots(lo) : lo.a[i].st = "BUILDING"})

\* The slot with the lowest time stamp, the first of equals.
LowestSlot(lo) ==
  LET used == {i \in Slots(lo) : lo.a[i].st /= "EMPTY"}
  IN  Min({i \in used : \A j \in used :
             compare_event_time(First(lo.a[i]).ev, First(lo.a[j]).ev) <= 0})

ReadyIs(lo) ==
  /\ lo.ready > 0
  /\ \E i \in Slots(lo) : lo.a[i].st /= "EMPTY"
  /\ lo.a[LowestSlot(lo)].st = "COMPLETE"

\* maxi goes down over the empty slots at the top, to the first slot at most.
Consolidate(a, i, maxi) ==
  IF i /= maxi THEN maxi
  ELSE Max({1} \cup {j \in 1..maxi : a[j].st /= "EMPTY"})

get_ready_event(lo) ==
  LET i == LowestSlot(lo)
      a == [lo.a EXCEPT ![i] = EmptySlot]
  IN  [lo |-> [a |-> a, maxi |-> Consolidate(a, i, lo.maxi), ready |-> lo.ready - 1],
       recs |-> lo.a[i].recs]

---------------------------------------------------------------------------
(* One invocation. s is [pc, num, lo, can, found, last, out, lost, input,  *)
(* timeOnly, rotated, rc]; input the loaded checkpoint.                    *)

set_ChkPtLastEvent(s, line) ==
  [s EXCEPT !.last = [ev |-> line.ev, type |-> line.type, node |-> line.node]]

SameEvent(c, line) ==
  c.ev.sec = line.ev.sec /\ c.ev.serial = line.ev.serial /\ c.type = line.type /\ c.node = line.node

chkpt_output_decision_Past(s, line) ==
  CASE s.can \/ s.input.st = "none" \/ s.input.ev.sec = 0 -> 1
    [] s.timeOnly /\ s.input.ev.sec <= line.ev.sec -> 1
    [] SameEvent(s.input, line) -> 1
    [] line.ev.sec - s.input.ev.sec > MAX_EVENT_DELTA_SECS -> 3
    [] OTHER -> 0

chkpt_output_decision(s, line) ==
  CASE s.can \/ s.input.st = "none" \/ s.input.ev.sec = 0 -> 1
    [] s.timeOnly /\ s.input.ev.sec <= line.ev.sec -> 1
    [] SameEvent(s.input, line) -> 2
    [] line.ev.sec - s.input.ev.sec > MAX_EVENT_DELTA_SECS -> 3
    [] OTHER -> 0

Printed(s, recs) == [s EXCEPT !.found = TRUE, !.out = @ \o recs]

\* The body of the loop of process_log_fd for one event: go tells whether
\* the loop goes on.
Handle(s, recs) ==
  LET line == recs[1]
      d    == IF sWorld.checkpoint THEN chkpt_output_decision(s, line) ELSE 1
      m    == IF d = 0 THEN s ELSE [s EXCEPT !.can = TRUE]
      p    == IF d = 1 THEN Printed(m, recs) ELSE m
      keep == IF sWorld.checkpoint THEN set_ChkPtLastEvent(p, line) ELSE p
  IN  IF ~line.ev.match
      THEN [s |-> IF sWorld.checkpoint THEN set_ChkPtLastEvent(s, line) ELSE s, go |-> TRUE]
      ELSE IF d = 3 THEN [s |-> [s EXCEPT !.rc = 12], go |-> FALSE]
      ELSE IF sWorld.justOne THEN [s |-> p, go |-> FALSE]
      ELSE [s |-> keep, go |-> TRUE]

\* At the end of input, or when the alarm interrupts a read: the events
\* are closed when this is the last file and no checkpoint is kept.
Close(s) ==
  IF s.num = 0 /\ ~sWorld.checkpoint THEN [s EXCEPT !.lo = terminate_all_events(@)] ELSE s

\* get_record and the loop around it, from line i; fresh tells that no
\* line was read yet in this get_record (the alarm is not set then).
RECURSIVE process_log_fd(_, _, _, _)
process_log_fd(s, lines, i, fresh) ==
  LET g    == get_ready_event(s.lo)
      h    == Handle([s EXCEPT !.lo = g.lo], g.recs)
      c    == Close(s)
      add  == lol_add_record(s.lo, lines[i])
      n    == [s EXCEPT !.lo = add.lo]
  IN  IF ReadyIs(s.lo) THEN IF h.go THEN process_log_fd(h.s, lines, i, TRUE) ELSE h.s
      ELSE IF i > Len(lines) THEN IF ReadyIs(c.lo) THEN process_log_fd(c, lines, i, TRUE) ELSE s
      ELSE IF lines[i].type = "pause"
      THEN IF fresh THEN process_log_fd(s, lines, i + 1, TRUE)
           ELSE IF ReadyIs(c.lo) THEN process_log_fd(c, lines, i + 1, TRUE) ELSE c
      ELSE process_log_fd(n, lines, i + 1, FALSE)

\* Without a checkpoint the oldest file, with one the file it names.
FirstFile(timeOnly) ==
  IF sWorld.checkpoint /\ chk.st = "saved" /\ ~timeOnly
  THEN {i \in DOMAIN logs : logs[i].ino = chk.ino}
  ELSE {Len(logs)}

Fresh(num, timeOnly) ==
  [pc |-> "file", num |-> num, lo |-> lol_create, can |-> FALSE, found |-> FALSE,
   last |-> [ev |-> NoEvent, type |-> "", node |-> ""], out |-> <<>>, rc |-> 0,
   input |-> chk, timeOnly |-> timeOnly, rotated |-> FALSE, ino |-> 0, seen |-> <<>>]

Idle == [pc |-> "idle"]
NoChk == [st |-> "none", ino |-> 0, ev |-> NoEvent, type |-> "", node |-> ""]

---------------------------------------------------------------------------
SearchStart(w) ==
  /\ sWorld = w
  /\ logs = <<[ino |-> 1, lines |-> <<>>]>>
  /\ written = 0
  /\ chk = NoChk
  /\ srch = Idle
  /\ sHist = [n |-> 0, run |-> Idle]

SearchInit == \E w \in SearchWorlds : SearchStart(w)

LogLine ==
  /\ written < Len(sWorld.lines) /\ ~sWorld.pipe
  /\ written' = written + 1
  /\ logs' = [logs EXCEPT ![1].lines = Append(@, sWorld.lines[written + 1])]
  /\ UNCHANGED <<sWorld, chk, srch, sHist>>

\* The daemon rotates a log that holds something; inode numbers are new.
LogRotate ==
  /\ logs[1].lines /= <<>> /\ logs[1].ino <= sWorld.rotations
  /\ logs' = SubSeq(<<[ino |-> logs[1].ino + 1, lines |-> <<>>]>> \o logs, 1,
                    Min({NumLogs, Len(logs) + 1}))
  /\ srch' = IF srch = Idle THEN Idle ELSE [srch EXCEPT !.rotated = TRUE]
  /\ UNCHANGED <<sWorld, written, chk, sHist>>

Summary(s) == [pc |-> "done", rc |-> s.rc, out |-> s.out, seen |-> s.seen, input |-> s.input,
               timeOnly |-> s.timeOnly, rotated |-> s.rotated]

Finish(s) ==
  /\ srch' = Idle
  /\ sHist' = [sHist EXCEPT !.n = @ + 1, !.run = Summary(s)]

\* load_ChkPt, and the search for the first file.
StartSearch ==
  /\ srch = Idle /\ sHist.n < sWorld.searches /\ ~sWorld.pipe
  /\ \E timeOnly \in {FALSE} \cup {sWorld.checkpoint /\ chk.st = "saved"} :
       IF chk.st = "empty" \/ FirstFile(timeOnly) = {}
       THEN Finish([Fresh(0, timeOnly) EXCEPT !.rc = 10])
       ELSE /\ srch' = Fresh(Min(FirstFile(timeOnly)) - 1, timeOnly)
            /\ UNCHANGED sHist
  /\ UNCHANGED <<sWorld, logs, written, chk>>

\* process_file on the file that has the number now. A search that failed
\* or has its one event stops here.
ReadFile ==
  /\ srch.pc = "file" /\ srch.num < Len(logs)
  /\ LET f == logs[srch.num + 1]
         s == [process_log_fd(srch, f.lines, 1, TRUE) EXCEPT !.seen = @ \o f.lines]
     IN  IF s.rc /= 0 THEN Finish(s)
         ELSE IF (sWorld.justOne /\ s.found) \/ s.num = 0
         THEN srch' = [s EXCEPT !.pc = "details"] /\ UNCHANGED sHist
         ELSE srch' = [s EXCEPT !.num = @ - 1] /\ UNCHANGED sHist
  /\ UNCHANGED <<sWorld, logs, written, chk>>

\* set_ChkPtFileDetails asks by name: a rotation since the file was read
\* makes it another file.
FileDetails ==
  /\ srch.pc = "details"
  /\ srch' = [srch EXCEPT !.pc = "save", !.ino = logs[srch.num + 1].ino]
  /\ UNCHANGED <<sWorld, logs, written, chk, sHist>>

\* save_ChkPt: the file is truncated, then written.
TruncateChkPt ==
  /\ srch.pc = "save" /\ sWorld.checkpoint
  /\ chk' = [NoChk EXCEPT !.st = "empty"]
  /\ srch' = [srch EXCEPT !.pc = "write"]
  /\ UNCHANGED <<sWorld, logs, written, sHist>>

WriteChkPt(s) ==
  [st |-> "saved", ino |-> s.ino, ev |-> s.last.ev, type |-> s.last.type, node |-> s.last.node]

SaveChkPt ==
  /\ srch.pc = "write"
  /\ chk' = WriteChkPt(srch)
  /\ Finish(srch)
  /\ UNCHANGED <<sWorld, logs, written>>

\* The checkpoint file cannot be opened for writing: exit 11.
SaveFails ==
  /\ srch.pc = "save" /\ sWorld.checkpoint
  /\ Finish([srch EXCEPT !.rc = 11])
  /\ UNCHANGED <<sWorld, logs, written, chk>>

EndSearch ==
  /\ srch.pc = "save" /\ ~sWorld.checkpoint
  /\ Finish(srch)
  /\ UNCHANGED <<sWorld, logs, written, chk>>

\* ausearch is interrupted at any step.
KillSearch ==
  /\ srch /= Idle
  /\ srch' = Idle
  /\ sHist' = [sHist EXCEPT !.n = @ + 1]
  /\ UNCHANGED <<sWorld, logs, written, chk>>

PipeSearch ==
  /\ sWorld.pipe /\ sHist.n = 0
  /\ Finish([process_log_fd(Fresh(0, FALSE), sWorld.lines, 1, TRUE) EXCEPT !.seen = sWorld.lines])
  /\ UNCHANGED <<sWorld, logs, written, chk>>

SearchNext ==
  \/ LogLine \/ LogRotate \/ StartSearch \/ ReadFile \/ FileDetails \/ TruncateChkPt \/ SaveChkPt
  \/ SaveFails \/ EndSearch \/ KillSearch \/ PipeSearch

searchVars == <<sWorld, logs, written, chk, srch, sHist>>
SearchSpec == SearchInit /\ [][SearchNext]_searchVars

---------------------------------------------------------------------------
(* Properties *)

Run == sHist.run
Finished == Run.pc = "done" /\ Run.rc = 0

\* Events a reader of the lines would call complete: in the order of time,
\* up to the first that may still grow.
EventsOf(lines) == {lines[i].ev : i \in {j \in DOMAIN lines : lines[j].type \in {"one", "multi"}}}
Head1(lines, e) == lines[Min({i \in DOMAIN lines : lines[i].ev = e})]
Older(e, f) == e.sec < f.sec \/ (e.sec = f.sec /\ e.serial < f.serial)
Over(lines, e) == Head1(lines, e).type = "one" \/ \E f \in EventsOf(lines) : f.sec >= e.sec + 2
CompleteIn(lines) == {e \in EventsOf(lines) : \A f \in EventsOf(lines) :
                      f = e \/ Older(f, e) => Over(lines, f)}
RecordsOf(lines, es) == SelectSeq(lines, LAMBDA l : l.type \notin {"bad", "pause"} /\ l.ev \in es)
ByEvent(lines, es) ==
  FoldLeft(\o, <<>>, [i \in 1..Cardinality(es) |->
     RecordsOf(lines, {CHOOSE e \in es : Cardinality({f \in es : Older(f, e)}) = i - 1})])

\* No slot above maxi is in use and ready counts the complete events, so a
\* finished event can neither be hidden nor waited for in vain.
LolSlots ==
  srch /= Idle =>
    /\ \A i \in DOMAIN srch.lo.a : srch.lo.a[i].st /= "EMPTY" => i <= srch.lo.maxi
    /\ srch.lo.ready = Cardinality({i \in DOMAIN srch.lo.a : srch.lo.a[i].st = "COMPLETE"})

\* A search without a checkpoint prints each matching event whole, once
\* and in the order of time, across all log files and also from a pipe that
\* falls silent between events; --just-one prints the first.
SrchPrints ==
  Finished /\ ~sWorld.checkpoint /\ ~Run.rotated =>
    LET es  == {e \in EventsOf(Run.seen) : e.match /\ e.sec >= sWorld.start}
        all == ByEvent(Run.seen, es)
        one == {e \in es : \A f \in es \ {e} : Older(e, f)}
    IN  Run.out = IF sWorld.justOne THEN ByEvent(Run.seen, one) ELSE all

\* The checkpoint is one the program can go on from: its event begins in
\* the file it names and passes the filter.
Usable(c, lines) ==
  /\ c.st = "saved" /\ c.ev.sec > 0 /\ c.ev.match
  /\ c.ev \in EventsOf(lines) /\ SameEvent(c, Head1(lines, c.ev))

\* With a usable checkpoint, a search that ends well prints exactly the
\* complete matching events after the checkpointed one: none again, none
\* left out, whatever was logged since and however files were rotated
\* between the two invocations.
ChkExact ==
  Finished /\ sWorld.checkpoint /\ ~sWorld.justOne /\ ~Run.rotated /\ ~Run.timeOnly
  /\ (Run.input.st = "none" \/ Usable(Run.input, Run.seen)) =>
    Run.out = ByEvent(Run.seen, {e \in CompleteIn(Run.seen) :
                e.match /\ (Run.input.st = "none" \/ Older(Run.input.ev, e))})

\* Going on by time alone (--start checkpoint), the way out of a refused
\* checkpoint, leaves no complete event out that is at or after its time.
ChkRecovers ==
  Finished /\ Run.timeOnly /\ ~sWorld.justOne /\ ~Run.rotated =>
    \A e \in CompleteIn(Run.seen) : e.match /\ e.sec >= Run.input.ev.sec =>
      \E i \in DOMAIN Run.out : Run.out[i].ev = e

\* An invocation that fails, or is stopped while it writes the checkpoint,
\* never leaves one that skips events: the file is the old one, or empty
\* and then refused, or names the last event the search saw.
ChkSafe ==
  [][chk' /= chk => \/ chk'.st = "empty"
                    \/ chk'.st = "saved" /\ (chk'.ev = NoEvent \/ chk'.ev \in CompleteIn(srch.seen))]_searchVars

\* ausearch prints what matches once, over rotations, pipes and, with a
\* checkpoint, over two runs.
SrchExact ==
  [](LolSlots /\ SrchPrints /\ ChkExact /\ ChkRecovers) /\ ChkSafe
=============================================================================
