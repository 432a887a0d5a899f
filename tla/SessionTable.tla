---------------------------- MODULE SessionTable ----------------------------
(***************************************************************************)
(* What aulast promises, after "the theory" in its main function: a table  *)
(* of open sessions without an order or a cursor, and the lines printed of *)
(* them.  A session is opened by a LOGIN event, becomes worth a line when  *)
(* the matching USER_LOGIN arrives and gets that line exactly when it is   *)
(* closed: by its USER_END, by a new login that reuses its number, by the  *)
(* next boot, or by the end of the log.  A boot is a session too, closed   *)
(* by the shutdown; the next boot makes it a crash if there was none.      *)
(* With --bad only refused logins have a line.                             *)
(***************************************************************************)
EXTENDS Integers, Sequences, FiniteSets, SequencesExt

CONSTANT BootIdent   \* [auid, pid, ses] of the pseudo user reboot

VARIABLES opts,      \* [bad, user, cterm]: --bad, --user and --tty
          now,       \* events read so far, the time of the last one
          event,     \* that one: [type, ids, term, res]
          open,      \* the open sessions: [serial, ids, started]
          said       \* the lines: [serial, ids, status, end]
tableVars == <<opts, now, event, open, said>>

TableInit == now = 0 /\ open = {} /\ said = <<>>

Session(serial, ids, started) == [serial |-> serial, ids |-> ids, started |-> started]
Line(x, status, end) == [serial |-> x.serial, ids |-> x.ids, status |-> status, end |-> end]

(* The sessions of s that have a line, oldest first.                       *)
Worth(s) == SetToSortSeq({x \in s : x.started /\ ~opts.bad}, LAMBDA x, y : x.serial < y.serial)
Lines(s, status, end) == [i \in DOMAIN Worth(s) |-> Line(Worth(s)[i], status, end)]

Of(ids) == {x \in open : x.ids = ids}
Whole(ids) == ids.auid # -1 /\ ids.pid # -1 /\ ids.ses # -1

(* "1) when LOGIN is found, create a new session node 2) if that session   *)
(* number exists, close out the old one".                                  *)
Login(e) ==
  LET gone == {x \in open : x.ids.ses = e.ids.ses}
      new == IF opts.user \in {-1, e.ids.auid} THEN {Session(now', e.ids, FALSE)} ELSE {}
  IN /\ e.type = "LOGIN" /\ Whole(e.ids)
     /\ said' = said \o Lines(gone, "GONE", now')
     /\ open' = (open \ gone) \cup new

(* "3) when USER_LOGIN is found, update session node": it is worth a line, *)
(* or forgotten when it is on another terminal than the one asked for.     *)
Started(e) ==
  /\ e.type = "USER_LOGIN" /\ e.res = 0 /\ Whole(e.ids)
  /\ open' = (open \ Of(e.ids)) \cup
        IF opts.cterm \in {"any", e.term} THEN {[x EXCEPT !.started = TRUE] : x \in Of(e.ids)} ELSE {}
  /\ UNCHANGED said

Refused(e) ==
  /\ e.type = "USER_LOGIN" /\ e.res = 1 /\ opts.bad
  /\ said' = Append(said, Line([serial |-> now', ids |-> e.ids], "LOG_OUT", now'))
  /\ UNCHANGED open

(* "4) When USER_END is found update session node and close it out".       *)
Logout(e) ==
  /\ e.type = "USER_END" /\ Whole(e.ids)
  /\ said' = said \o Lines(Of(e.ids), "LOG_OUT", now') /\ open' = open \ Of(e.ids)

(* "6) If previous boot found, set status to crash and logout everyone".   *)
Boot(e) ==
  /\ e.type = "SYSTEM_BOOT"
  /\ said' = said \o Lines(Of(BootIdent), "CRASH", now') \o Lines(open \ Of(BootIdent), "DOWN", now')
  /\ open' = {Session(now', BootIdent, TRUE)}

(* "7) When SHUTDOWN found, close out reboot record".                      *)
Shutdown(e) ==
  /\ e.type = "SYSTEM_SHUTDOWN"
  /\ said' = said \o Lines(Of(BootIdent), "LOG_OUT", now') /\ open' = open \ Of(BootIdent)

(* Events that do not say whose they are, and logins that were neither     *)
(* granted nor, with --bad, refused.                                       *)
Ignored(e) ==
  /\ \/ e.type \in {"LOGIN", "USER_END"} /\ ~Whole(e.ids)
     \/ e.type = "USER_LOGIN" /\ e.res = 0 /\ ~Whole(e.ids)
     \/ e.type = "USER_LOGIN" /\ e.res = 1 /\ ~opts.bad
     \/ e.type = "USER_LOGIN" /\ e.res = -1
  /\ UNCHANGED <<open, said>>

(* Whoever is left is still logged in, and the machine still up.           *)
LogEnds ==
  /\ UNCHANGED <<opts, now, event>>
  /\ said' = said \o [i \in DOMAIN Worth(open) |->
                        Line(Worth(open)[i], IF Worth(open)[i].ids = BootIdent THEN "LOG_IN" ELSE "SESSION_START", 0)]
  /\ open' = {}

TableEvent ==
  /\ now' = now + 1 /\ UNCHANGED opts
  /\ \/ Login(event') \/ Started(event') \/ Refused(event') \/ Logout(event')
     \/ Boot(event') \/ Shutdown(event') \/ Ignored(event')

TableSpec == TableInit /\ [][TableEvent \/ LogEnds]_tableVars
=============================================================================
