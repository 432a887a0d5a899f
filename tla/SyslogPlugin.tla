----------------------------- MODULE SyslogPlugin ----------------------------
(***************************************************************************)
(* audisp-syslog (plugins/syslog/audisp-syslog.c) and the line reader it   *)
(* shares with audisp-remote (common/audit-fgets.c).  The dispatcher       *)
(* writes bytes into the plugin's standard input; a byte is "x", or "nl",  *)
(* which ends a record.  What write_syslog does to the text of a record is *)
(* left out: syslog gets the line.                                         *)
(***************************************************************************)
EXTENDS Integers, Sequences, SequencesExt

CONSTANTS Streams,      \* what the dispatcher writes
          BufSize,      \* 2*BUF_SIZE
          Blen          \* MAX_AUDIT_MESSAGE_LENGTH, the blen of the calls

ASSUME SyslogAssumption == BufSize \in Nat /\ Blen \in 2..BufSize /\ Streams \subseteq Seq({"x", "nl"})

VARIABLES
    sstream,        \* the bytes, in order
    written, taken, \* how many are in the pipe or past it, how many were read
    closed,         \* the dispatcher has closed its end
    readFailed,         \* a read returned an error
    sbuffer, eof,    \* of audit-fgets.c; sbuffer is `buffer' up to current
    tmp,            \* main's line
    out,            \* lines given to syslog
    spc,            \* "select", "lines" (the inner loop), "exited"
    sstop, shup

sysVars == <<sstream, written, taken, closed, readFailed, sbuffer, eof, tmp, out, spc, sstop, shup>>

SysStart(s) ==
  /\ sstream = s /\ written = 0 /\ taken = 0 /\ closed = FALSE /\ readFailed = FALSE /\ sbuffer = <<>> /\ eof = FALSE
  /\ tmp = <<>> /\ out = <<>> /\ spc = "select" /\ sstop = FALSE /\ shup = FALSE
SysInit == \E s \in Streams : SysStart(s)

----------------------------------------------------------------------------
(* The other side: the dispatcher and the signals.                         *)
Readable == taken < written \/ closed

Write ==
  /\ ~closed /\ written < Len(sstream)
  /\ written' \in written + 1..Len(sstream)
  /\ UNCHANGED <<sstream, taken, closed, readFailed, sbuffer, eof, tmp, out, spc, sstop, shup>>

Close ==
  /\ ~closed /\ closed' = TRUE
  /\ UNCHANGED <<sstream, written, taken, readFailed, sbuffer, eof, tmp, out, spc, sstop, shup>>

SysSignal ==
  /\ spc # "exited"
  /\ \/ ~sstop /\ sstop' = TRUE /\ UNCHANGED shup
     \/ ~shup /\ shup' = TRUE /\ UNCHANGED sstop
  /\ UNCHANGED <<sstream, written, taken, closed, readFailed, sbuffer, eof, tmp, out, spc>>

----------------------------------------------------------------------------
(* audit-fgets.c.                                                          *)
HasLine(b) == \E i \in DOMAIN b : b[i] = "nl"
FirstNewline(b) == CHOOSE i \in DOMAIN b : b[i] = "nl" /\ \A j \in 1..i - 1 : b[j] # "nl"

audit_fgets_more_Any(b) == b # <<>>
audit_fgets_more(b) == HasLine(b) \/ Len(b) >= Blen - 1

(* The length of what is handed out, 0 when nothing is complete.           *)
LineLen(b) ==
  IF HasLine(b) /\ FirstNewline(b) < Blen - 1 THEN FirstNewline(b)
  ELSE IF HasLine(b) \/ Len(b) >= Blen - 1 THEN Blen - 1 ELSE 0

(* audit_fgets: takes what is complete in the buffer, after a read if      *)
(* there is nothing yet.                                                   *)
audit_fgets(b) ==
  LET n == LineLen(b)
  IN /\ sbuffer' = SubSeq(b, n + 1, Len(b))
     /\ IF n > 0 THEN tmp' = SubSeq(b, 1, n) /\ out' = Append(out, SubSeq(b, 1, n))     \* write_syslog(tmp)
        ELSE UNCHANGED <<tmp, out>>

NeedsRead == ~(HasLine(sbuffer) \/ Len(sbuffer) >= Blen - 1) /\ Len(sbuffer) < BufSize /\ ~eof

----------------------------------------------------------------------------
(* main: wait for input.  select returns on a signal as well; a pending    *)
(* SIGHUP or SIGTERM skips the reading.                                    *)
SysSelect ==
  /\ spc = "select"
  /\ IF sstop THEN spc' = "exited" /\ UNCHANGED shup
     ELSE IF shup THEN shup' = FALSE /\ UNCHANGED spc                \* reload_config
     ELSE Readable /\ spc' = "lines" /\ UNCHANGED shup
  /\ UNCHANGED <<sstream, written, taken, closed, readFailed, sbuffer, eof, tmp, out, sstop>>

(* The end of main's inner loop.                                           *)
After == spc' = IF audit_fgets_more(sbuffer') THEN "lines" ELSE IF eof' \/ sstop THEN "exited" ELSE "select"

LineBuffered ==
  /\ spc = "lines" /\ ~NeedsRead
  /\ audit_fgets(sbuffer)
  /\ UNCHANGED <<sstream, written, taken, closed, readFailed, eof, sstop, shup>>
  /\ After

LineRead ==
  /\ spc = "lines" /\ NeedsRead /\ taken < written
  /\ \E n \in 1..written - taken :
       /\ n <= BufSize - Len(sbuffer)
       /\ taken' = taken + n
       /\ audit_fgets(sbuffer \o SubSeq(sstream, taken + 1, taken + n))
  /\ UNCHANGED <<sstream, written, closed, readFailed, eof, sstop, shup>>
  /\ After

LineEnd ==
  /\ spc = "lines" /\ NeedsRead /\ taken = written /\ closed
  /\ eof' = TRUE
  /\ audit_fgets(sbuffer)
  /\ UNCHANGED <<sstream, written, taken, closed, readFailed, sstop, shup>>
  /\ After

(* The read fails: audit_fgets returns -1, which main takes for a line.    *)
LineError ==
  /\ spc = "lines" /\ NeedsRead /\ closed /\ ~readFailed
  /\ readFailed' = TRUE /\ out' = Append(out, tmp)
  /\ UNCHANGED <<sstream, written, taken, closed, sbuffer, eof, tmp, sstop, shup>>
  /\ After

SysNext == Write \/ Close \/ SysSignal \/ SysSelect \/ LineBuffered \/ LineRead \/ LineEnd \/ LineError
SysSpec == SysInit /\ [][SysNext]_sysVars

----------------------------------------------------------------------------
(* Until a read fails, syslog gets the bytes in order and cut where the    *)
(* records end: a line ends with its only newline, or fills the caller's   *)
(* buffer.                                                                 *)
SysLines ==
  ~readFailed =>
    /\ FlattenSeq(out) \o sbuffer = SubSeq(sstream, 1, taken)
    /\ \A k \in DOMAIN out :
         LET n == Len(out[k])
         IN /\ n \in 1..Blen - 1
            /\ \A i \in 1..n - 1 : out[k][i] # "nl"
            /\ out[k][n] = "nl" \/ n = Blen - 1

(* audit_fgets_more: what it reports can be processed "without blocking":  *)
(* the plugin never sits in read while signals and select wait for it.     *)
SysNoBlock == spc = "lines" /\ NeedsRead => Readable

(* A whole record is never left in the buffer while the plugin sleeps in   *)
(* select, nor when it ends for the end of its input.                      *)
SysDrained ==
  /\ spc = "select" => ~HasLine(sbuffer)
  /\ spc = "exited" /\ ~sstop => taken = written /\ ~HasLine(sbuffer)

\* audisp-syslog turns the stream into lines without losing, holding back or
\* waiting for a part of it.
SysStream == SysLines /\ SysNoBlock /\ SysDrained
=============================================================================
