------------------------------ MODULE Sessions ------------------------------
(***************************************************************************)
(* aulast: the list of sessions it builds from the log (aulast-llist.c)    *)
(* and the line it prints when one is closed.  A field of an event that is *)
(* missing is -1.  Every name is interpreted to some text, so every node   *)
(* has a name.  aulastlog follows it, a program of its own: one entry per  *)
(* account, filled from the events that a search for successful logins     *)
(* stops at.                                                               *)
(***************************************************************************)
EXTENDS Integers, Sequences, FiniteSets, SequencesExt

CONSTANTS Logins,       \* the [auid, pid, ses] seen in login events
          Ttys,         \* terminals
          AulWorlds,    \* options: [bad |-> BOOLEAN, user |-> auid or -1, cterm |-> tty or "any"]
          MaxAulEvents  \* bound on the events of one log

VARIABLES opts, l, said,
          read,         \* events read so far, the time of the last one
          event,        \* that one: [type, ids, term, res]
          aulState      \* "reading", "done" or "crashed"
aulVars == <<opts, l, said, read, event, aulState>>

----------------------------------------------------------------------------
(* The list: nodes in order and the cursor, 0 for NULL.                    *)

Get(ll) == ll.nodes[ll.cur]
Set(ll, n) == [ll EXCEPT !.nodes[ll.cur] = n]

(* A node is linked behind the last one reachable from the cursor; with a  *)
(* cursor that ran off a list that is not empty it is not linked at all.   *)
list_append(ll, node) ==
  IF ll.nodes = <<>> THEN [nodes |-> <<node>>, cur |-> 1]
  ELSE IF ll.cur # 0 THEN [nodes |-> Append(ll.nodes, node), cur |-> Len(ll.nodes) + 1]
  ELSE ll

PrevNode(ll) == IF ll.cur = 1 THEN (IF Len(ll.nodes) = 1 THEN 0 ELSE 1) ELSE ll.cur - 1
list_delete_cur(ll) == [nodes |-> RemoveAt(ll.nodes, ll.cur), cur |-> PrevNode(ll)]

(* Both searches move the cursor to the first node that fits and leave it  *)
(* alone when none does.                                                   *)
FirstWith(ll, Fits(_)) == {i \in DOMAIN ll.nodes : Fits(ll.nodes[i]) /\ \A j \in 1..(i-1) : ~Fits(ll.nodes[j])}
MoveTo(ll, found) == IF found = {} THEN ll ELSE [ll EXCEPT !.cur = CHOOSE i \in found : TRUE]
list_find_auid(ll, ids) == FirstWith(ll, LAMBDA n : n.ids = ids)
list_find_session_Auid(ll, ids) == FirstWith(ll, LAMBDA n : n.ids = ids)
list_find_session(ll, ids) == FirstWith(ll, LAMBDA n : n.ids.ses = ids.ses)

(* list_create_session: pid, session and auid 0 stand for the machine.     *)
BootIds == [auid |-> 0, pid |-> 0, ses |-> 0]
Node(serial, ids) ==
  [serial |-> serial, ids |-> ids, name |-> TRUE, term |-> "none", status |-> "LOG_IN", end |-> 0, result |-> -1]

list_update_start(ll, term, res) == Set(ll, [Get(ll) EXCEPT !.status = "SESSION_START", !.term = term, !.result = res])
list_update_logout(ll, t) == Set(ll, [Get(ll) EXCEPT !.end = t, !.status = "LOG_OUT"])

----------------------------------------------------------------------------
(* The handlers of one event read at time t, over the record [l, said].    *)

BadFlag == IF opts.bad THEN 1 ELSE 0
report_session(s, n) ==
  IF n.result # BadFlag THEN s
  ELSE [s EXCEPT !.said = Append(@, [serial |-> n.serial, ids |-> n.ids, status |-> n.status, end |-> n.end])]

Valid(ids) == ids.pid # -1 /\ ids.auid # -1 /\ ids.ses # -1

(* LOGIN.  A session that still has the number is closed out first, also   *)
(* when the new one is not wanted.                                         *)
CloseOut(s, ids, t) ==
  LET at == list_find_session(s.l, ids) ll == MoveTo(s.l, at)
      gone == [Get(ll) EXCEPT !.status = "GONE", !.end = t]
  IN IF at = {} THEN s ELSE [report_session(s, gone) EXCEPT !.l = list_delete_cur(ll)]

create_new_session(s, ids, t) ==
  LET closed == CloseOut(s, ids, t)
  IN IF ~Valid(ids) THEN s
     ELSE IF opts.user # -1 /\ opts.user # ids.auid THEN closed
     ELSE [closed EXCEPT !.l = list_append(@, Node(t, ids))]

(* USER_LOGIN with its result: 0 success, 1 failure, -1 none given.        *)
update_session_login(s, ids, term, result, t) ==
  LET at == IF result = 0 THEN list_find_auid(s.l, ids) ELSE {}
      ll == MoveTo(s.l, at)
  IN IF result # 1 /\ ~Valid(ids) THEN s
     ELSE IF at # {} THEN
       IF opts.cterm # "any" /\ opts.cterm # term THEN [s EXCEPT !.l = list_delete_cur(ll)]
       ELSE [s EXCEPT !.l = list_update_start(ll, term, result)]
     ELSE IF opts.bad /\ result = 1
       THEN report_session(s, [Node(t, ids) EXCEPT !.status = "LOG_OUT", !.end = t, !.result = 1])
     ELSE s

(* USER_END.  Every node has a start time: it is set from its LOGIN.       *)
update_session_logout(s, ids, t) ==
  LET at == list_find_auid(s.l, ids) ll == list_update_logout(MoveTo(s.l, at), t)
  IN IF ~Valid(ids) \/ at = {} THEN s ELSE [report_session(s, Get(ll)) EXCEPT !.l = list_delete_cur(ll)]

(* SYSTEM_BOOT: a first pass closes the nodes that have a name, a second   *)
(* one whatever the first did not mark, and a node for the boot follows.   *)
Pass(s, Wanted(_), status, t) ==
  LET mark(n) == IF Wanted(n) THEN [n EXCEPT !.status = status, !.end = t] ELSE n
      nodes == [i \in DOMAIN s.l.nodes |-> mark(s.l.nodes[i])]
  IN FoldSeq(LAMBDA n, x : IF n.status = status /\ n.end = t THEN report_session(x, n) ELSE x,
             [s EXCEPT !.l = [nodes |-> nodes, cur |-> 0]], Reverse(nodes))

BootNode(t) == [Node(t, BootIds) EXCEPT !.term = "system boot", !.result = 0]
SecondPass(s, t) == Pass(s, LAMBDA n : n.status # "CRASH", "DOWN", t)
process_bootup(s, t) ==
  [SecondPass(Pass(s, LAMBDA n : n.name, "CRASH", t), t)
     EXCEPT !.l = list_append([nodes |-> <<>>, cur |-> 0], BootNode(t))]

(* SYSTEM_SHUTDOWN closes the first node with a name.                      *)
process_shutdown(s, t) ==
  LET at == FirstWith(s.l, LAMBDA n : n.name)
      ll == list_update_logout(MoveTo(s.l, at), t)
  IN IF at = {} THEN [s EXCEPT !.l.cur = 0]
     ELSE [report_session(s, Get(ll)) EXCEPT !.l = list_delete_cur(ll)]

Leftovers(s) == FoldSeq(LAMBDA n, x : report_session(x, n), [s EXCEPT !.l = [nodes |-> <<>>, cur |-> 0]], Reverse(s.l.nodes))

----------------------------------------------------------------------------
NoIds == [auid |-> -1, pid |-> -1, ses |-> -1]
AulEv(type, ids, term, res) == [type |-> type, ids |-> ids, term |-> term, res |-> res]

AulStart(w) ==
  /\ opts = w /\ l = [nodes |-> <<>>, cur |-> 0] /\ said = <<>> /\ read = 0
  /\ event = AulEv("none", NoIds, "none", -1) /\ aulState = "reading"
AulInit == \E w \in AulWorlds : AulStart(w)

S == [l |-> l, said |-> said]
Becomes(s) == l' = s.l /\ said' = s.said
AulEvent(e) ==
  /\ aulState = "reading" /\ read < MaxAulEvents /\ read' = read + 1 /\ event' = e
  /\ UNCHANGED <<opts, aulState>>

LoginEvent == \E ids \in Logins :
  AulEvent(AulEv("LOGIN", ids, "none", -1)) /\ Becomes(create_new_session(S, ids, read'))
UserLogin == \E ids \in Logins, term \in Ttys, res \in -1..1 :
  AulEvent(AulEv("USER_LOGIN", ids, term, res)) /\ Becomes(update_session_login(S, ids, term, res, read'))
UserEnd == \E ids \in Logins :
  AulEvent(AulEv("USER_END", ids, "none", -1)) /\ Becomes(update_session_logout(S, ids, read'))
SystemBoot == AulEvent(AulEv("SYSTEM_BOOT", NoIds, "none", -1)) /\ Becomes(process_bootup(S, read'))
SystemShutdown == AulEvent(AulEv("SYSTEM_SHUTDOWN", NoIds, "none", -1)) /\ Becomes(process_shutdown(S, read'))

(* The leftovers are output by a loop that looks at its end whether there  *)
(* is a node: with an empty list report_session is given a null pointer.   *)
AulEnd ==
  /\ aulState = "reading" /\ aulState' = IF l.nodes = <<>> THEN "crashed" ELSE "done"
  /\ Becomes(Leftovers(S)) /\ UNCHANGED <<opts, read, event>>

AulNext == LoginEvent \/ UserLogin \/ UserEnd \/ SystemBoot \/ SystemShutdown \/ AulEnd
AulSpec == AulInit /\ [][AulNext]_aulVars

OpenSessions ==
  {[serial |-> l.nodes[i].serial, ids |-> l.nodes[i].ids, started |-> l.nodes[i].result = 0] : i \in DOMAIN l.nodes}

(* What the comments of aulast.c say of the statuses: only an unclosed     *)
(* boot is a crash, whoever else is left was logged out by it.             *)
AsMeant(line) == IF line.status = "CRASH" /\ line.ids # BootIds THEN [line EXCEPT !.status = "DOWN"] ELSE line

Meant == INSTANCE SessionTable WITH BootIdent <- BootIds, now <- read, open <- OpenSessions,
           said <- [i \in DOMAIN said |-> AsMeant(said[i])]
NoBootOpen == \A i \in DOMAIN l.nodes : l.nodes[i].ids # BootIds

(* The list with its cursor implements the table of open sessions: every   *)
(* session that was entered and started has exactly one line, printed when *)
(* it is closed and with the status of what closed it, whatever order      *)
(* logins, logouts, reused numbers, boots and shutdowns come in, and an    *)
(* event that concerns no open session changes nothing.  Two deviations    *)
(* from the table are left to Theory: process_bootup calls all sessions    *)
(* crashed, and process_shutdown without a boot record open closes another *)
(* session.                                                                *)
AulRefines ==
  Meant!TableInit /\ [][Meant!TableEvent \/ Meant!LogEnds \/ (SystemShutdown /\ NoBootOpen)]_aulVars

Theory == INSTANCE SessionTable WITH BootIdent <- BootIds, now <- read, open <- OpenSessions

(* "The theory" of main's comment, and those in process_bootup and         *)
(* process_shutdown, taken at their word: a boot makes the unclosed boot a *)
(* crash and logs everyone else out, a shutdown closes the boot record.    *)
AulTheory == Theory!TableSpec

----------------------------------------------------------------------------
(* aulastlog.                                                              *)
CONSTANT LastWorlds   \* [users |-> accounts of the report, log |-> sequence of events]
VARIABLES lastWorld, entries, place, searching
lastVars == <<lastWorld, entries, place, searching>>

Never == [sec |-> 0, host |-> "none", term |-> "none"]
LastStart(w) == lastWorld = w /\ entries = [u \in w.users |-> Never] /\ place = 1 /\ searching = TRUE
LastInit == \E w \in LastWorlds : LastStart(w)

(* ausearch_next_event from position i: the next successful USER_LOGIN.    *)
IsLogin(e) == e.type = "USER_LOGIN" /\ e.res = "success"
HitsFrom(i) == {j \in i..Len(lastWorld.log) : IsLogin(lastWorld.log[j])}

(* list_find_uid: the entry of the account, none when the report leaves    *)
(* the account out.                                                        *)
list_find_uid(u) == {u} \cap lastWorld.users

(* list_update_login, list_update_host, list_update_term: a field that the *)
(* event does not have leaves what an earlier login set.                   *)
Update(old, new) == IF new = "none" THEN old ELSE new
list_update(entry, e, sec) == [sec |-> sec, host |-> Update(entry.host, e.host), term |-> Update(entry.term, e.term)]

(* One turn of the loop: the search stops at an event, the entry takes its *)
(* time, host and terminal, and auparse_next_event moves on; the search    *)
(* that follows starts with the event after that one.                      *)
ScanLogin ==
  /\ searching /\ HitsFrom(place) # {}
  /\ LET j == CHOOSE j \in HitsFrom(place) : \A k \in HitsFrom(place) : j <= k
         e == lastWorld.log[j]
     IN /\ entries' = [u \in lastWorld.users |->
                        IF u \in list_find_uid(e.auid) THEN list_update(entries[u], e, j) ELSE entries[u]]
        /\ place' = j + 2
  /\ UNCHANGED <<lastWorld, searching>>

LastReport == searching /\ HitsFrom(place) = {} /\ searching' = FALSE /\ UNCHANGED <<lastWorld, entries, place>>

LastNext == ScanLogin \/ LastReport
LastSpec == LastInit /\ [][LastNext]_lastVars

LoginsOf(u) == {j \in DOMAIN lastWorld.log : IsLogin(lastWorld.log[j]) /\ lastWorld.log[j].auid = u}

Shows(got, u, j, f) ==
  IF lastWorld.log[j][f] # "none" THEN got = lastWorld.log[j][f]
  ELSE got = "none" \/ \E k \in LoginsOf(u) : k < j /\ got = lastWorld.log[k][f]
(* An entry of aulastlog (list_find_uid, list_update_login, _host, _term)  *)
(* is about logins of its own account only: its time is that of one, and   *)
(* its host and terminal are that login's, or an earlier one's when that   *)
(* login names none.                                                       *)
LastOwn == \A u \in lastWorld.users : entries[u] = Never \/
  \E j \in LoginsOf(u) : /\ entries[u].sec = j
                         /\ Shows(entries[u].host, u, j, "host") /\ Shows(entries[u].term, u, j, "term")

(* At the end an account's entry shows its last login, unless another      *)
(* login came directly before it: main moves to the next event after each  *)
(* login it found, and the search goes on behind that one.                 *)
LastLatest == ~searching =>
  \A u \in lastWorld.users : \A j \in LoginsOf(u) :
    (\A k \in LoginsOf(u) : k <= j) /\ (j = 1 \/ ~IsLogin(lastWorld.log[j - 1])) => entries[u].sec = j

\* aulast and aulastlog say of a login what the log says of it.
LoginsTrue == AulRefines /\ [](LastOwn /\ LastLatest)
=============================================================================
