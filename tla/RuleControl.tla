---------------------------- MODULE RuleControl -----------------------------
(***************************************************************************)
(* One run of auditctl against the kernel: main, fileopt, setopt with the  *)
(* options that talk to the kernel, delete_all_rules, handle_request,      *)
(* get_reply (auditctl.c, delete_all.c, auditctl-listing.c). Meanwhile     *)
(* replies arrive late or never, and another administrator changes rules.  *)
(*                                                                         *)
(* A world is [mode, lines, rules, enabled, legacy, refuses, admin]: a     *)
(* rule file ("file") or the command line; the lines of options; the       *)
(* kernel at the start; the requests of the other administrator. -D, -l    *)
(* and -s stand first on their line.                                       *)
(***************************************************************************)
EXTENDS RuleOptions, Netlink

CONSTANT CtlWorlds

VARIABLES ctlWorld, kern, chan, ctl, hist
ctlVars == <<ctlWorld, kern, chan, ctl, hist>>

\* ctl: where the program is and its globals. s is the state of setopt; back
\* is where get_reply returns; found are the rules delete_all_rules or the
\* listing has collected. hist: the lines refused or not understood, where
\* a reply was given up, the rules when -D began.
CtlInit ==
  /\ ctlWorld \in CtlWorlds
  /\ LET w == ctlWorld
     IN  /\ kern = [rules |-> w.rules, enabled |-> w.enabled, legacy |-> w.legacy, refuses |-> w.refuses]
         /\ ctl = [pc |-> IF w.mode = "file" THEN "ready" ELSE "line", at |-> 0, rest |-> <<>>,
                   s |-> reset_vars, fd |-> w.mode = "file", list_requested |-> FALSE, ignore |-> FALSE,
                   continue_error |-> 0, key |-> <<>>, found |-> <<>>, seq |-> 0, back |-> "", exit |-> 0]
  /\ chan = audit_open
  /\ hist = [bad |-> {}, late |-> {}, rules |-> <<>>, admin |-> 0, deleted |-> FALSE]

Lines == ctlWorld.lines
Mode  == ctlWorld.mode

Go(pc)      == [ctl EXCEPT !.pc = pc]
Done(n)     == [ctl EXCEPT !.pc = "done", !.exit = n]
Sent(req)   == audit_send(kern, chan, req, ctl.seq + 1)
Bad(rc)     == IF rc = "ok" THEN hist.bad ELSE hist.bad \cup {ctl.at}

\* Sends a request; c(rc) is the program afterwards. What the kernel really
\* said goes to hist.
Ask(req, c(_)) ==
  \E a \in {Sent(req)} :
    /\ kern' = a.k /\ chan' = a.ch
    /\ ctl' = [c(a.rc) EXCEPT !.seq = ctl.seq + 1]
    /\ hist' = [hist EXCEPT !.bad = Bad(Verdict(kern, req))]
    /\ UNCHANGED ctlWorld

\* Reads a packet, if there is one.
Read(c(_)) ==
  /\ chan.sock # <<>>
  /\ chan' = [chan EXCEPT !.sock = Tail(@)]
  /\ ctl' = c(Head(chan.sock))
  /\ UNCHANGED <<ctlWorld, kern, hist>>

\* Nothing came for 40 tenths of a second.
TimesOut == chan.sock = <<>>

GiveUp(c) ==
  /\ TimesOut
  /\ ctl' = c
  /\ hist' = [hist EXCEPT !.late = @ \cup {ctl.pc}]
  /\ UNCHANGED <<ctlWorld, kern, chan>>

Silent(c, b) ==
  /\ ctl' = c
  /\ hist' = [hist EXCEPT !.bad = b]
  /\ UNCHANGED <<ctlWorld, kern, chan>>

At(pc) == ctl.pc = pc

----------------------------------------------------------------------------
\* is_ready: an immutable kernel ends the run with success.
Ready == \/ At("ready") /\ Ask(Get("get"), LAMBDA rc : Go("ready_reply"))
         \/ At("check") /\ Ask(Get("get"), LAMBDA rc : Go("check_reply"))

ReadyReply ==
  LET after == IF At("ready_reply") THEN "line" ELSE "request"
      Take(p) == IF p.t # "get" THEN Go(after) ELSE IF p.body = 2 THEN Done(0) ELSE Go(after)
  IN  /\ At("ready_reply") \/ At("check_reply")
      /\ Read(Take) \/ GiveUp(Go(after))

\* fileopt and reset_vars: the next line, on a new socket unless the last
\* line left its own open.
NextLine ==
  /\ At("line")
  /\ IF ctl.at = Len(Lines)
       THEN /\ ctl' = Done(IF ctl.continue_error < 0 THEN 1 ELSE 0) /\ UNCHANGED chan
       ELSE /\ ctl' = [Go("opt") EXCEPT !.at = @ + 1, !.rest = Lines[ctl.at + 1], !.s = reset_vars,
                                       !.key = <<>>, !.list_requested = FALSE, !.fd = TRUE]
            /\ chan' = IF ctl.fd THEN chan ELSE audit_open
  /\ UNCHANGED <<ctlWorld, kern, hist>>

\* The program after one option of setopt: retval n, "return" if stop.
Opted(n)   == [ctl EXCEPT !.pc = "opt", !.s = Ret(@, n), !.rest = Tail(@)]
Return(n)  == [ctl EXCEPT !.pc = "opt", !.s = Stop(@, n), !.rest = <<>>]

Option(os) == At("opt") /\ ctl.rest # <<>> /\ ctl.s.ret >= 0 /\ Head(ctl.rest).o \in os
Letter     == Head(ctl.rest)

\* The options that only build the rule, and the ones that are errors.
Talking == {"i", "c", "v", "e", "f", "r", "b", "t", "q", "m", "s", "signal", "l", "D"}
ParseOption ==
  /\ At("opt") /\ ctl.rest # <<>> /\ ctl.s.ret >= 0 /\ Letter.o \notin Talking
  /\ LET trim == Len(ctl.rest) > 1 /\ ctl.rest[2].o = "t"
     IN  \E s \in {RuleOption(ctl.s, Letter, trim)} :
           Silent([ctl EXCEPT !.s = s, !.rest = IF s.stop THEN <<>> ELSE Tail(@)], hist.bad)

\* -i, -c and -v
Modes ==
  /\ Option({"i", "c", "v"})
  /\ Silent([Opted(-2) EXCEPT !.ignore = @ \/ Letter.o # "v",
                              !.continue_error = IF Letter.o = "c" THEN 1 ELSE @], hist.bad)

\* -e, -f, -r, -b and --backlog_wait_time; all but -e return on failure.
SetStatus ==
  /\ Option({"e", "f", "r", "b"})
  /\ IF Letter.v \notin {"0", "1", "2"} THEN Silent(Opted(-1), hist.bad)
     ELSE LET n == CASE Letter.v = "0" -> 0 [] Letter.v = "1" -> 1 [] OTHER -> 2
          IN  Ask(Set(IF Letter.o = "e" THEN "enabled" ELSE "number", n),
                  LAMBDA rc : IF rc = "ok" THEN Go("status")
                              ELSE IF Letter.o = "e" THEN Opted(-1) ELSE Return(-1))

\* The answer is left for handle_request.
RequestStatus == At("status") /\ Ask(Get("get"), LAMBDA rc : Opted(ctl.s.ret))

\* -t, -q, -m, --loginuid-immutable, --reset-lost: the rest of the line is
\* not looked at.
Commands ==
  /\ Option({"t", "q", "m"})
  /\ IF Letter.o = "q" /\ (ctl.s.syscalladded \/ Letter.op # ",") THEN Silent(Opted(-1), hist.bad)
     ELSE Ask([t |-> "other"], LAMBDA rc : IF rc = "ok" THEN Return(-2) ELSE Opted(-1))

\* -s: the status, then the features.
ReportStatus ==
  \/ /\ Option({"s"})
     /\ Ask(Get("get"), LAMBDA rc : [Go("reply") EXCEPT !.back = "features"])
  \/ /\ At("features")
     /\ Ask(Get("feature"), LAMBDA rc : [Go("reply") EXCEPT !.back = "reported"])
  \/ At("reported") /\ Silent(Opted(-2), hist.bad)

\* --signal
send_signal ==
  LET Take(p) == CASE p.t = "error" /\ p.e = "ok" -> ctl
                   [] p.t = "done" -> Opted(-1) [] p.t = "get" -> Opted(-2) [] OTHER -> ctl
  IN  \/ Option({"signal"}) /\ Ask(Get("get"), LAMBDA rc : Go("signal"))
      \/ At("signal") /\ (Read(Take) \/ GiveUp(Opted(-1)))

----------------------------------------------------------------------------
\* -l, with an optional key that the loop does not see again.
KeyAhead == IF Len(ctl.rest) > 1 THEN <<ctl.rest[2].v>> ELSE <<>>

ListRules ==
  \/ /\ Option({"l"})
     /\ IF Len(ctl.rest) > 2 \/ (Len(ctl.rest) = 2 /\ ctl.rest[2].o # "k") THEN Silent(Opted(-1), hist.bad)
        ELSE Ask(Get("list"), LAMBDA rc :
               IF rc = "ok" THEN [Go("reply") EXCEPT !.back = "listed", !.list_requested = TRUE, !.key = KeyAhead,
                                                     !.found = <<>>, !.rest = <<Letter>>]
               ELSE Opted(-1))
  \/ At("listed") /\ Silent([Opted(-2) EXCEPT !.list_requested = TRUE], hist.bad)

Gather_Any(p) == ctl.found \o <<p.body>>
\* The rules that have the key, in the order of the kernel.
Gather(p) == IF key_match(p.body, ctl.key) THEN Append(ctl.found, p.body) ELSE ctl.found

\* delete_all_rules: list, then send each rule back. Packets of another
\* request are skipped.
DeleteAll ==
  LET Take(p) == CASE p.seq # ctl.seq -> ctl
                   [] p.seq = ctl.seq /\ p.t = "done" -> Go("delete")
                   [] p.seq = ctl.seq /\ p.t = "rule" -> [ctl EXCEPT !.found = Gather(p)]
                   [] OTHER -> ctl
  IN  \/ /\ Option({"D"})
         /\ IF Len(ctl.rest) > 2 \/ (Len(ctl.rest) = 2 /\ ctl.rest[2].o # "k") THEN Silent(Opted(-1), hist.bad)
            ELSE /\ \E a \in {Sent(Get("list"))} :
                      /\ kern' = a.k /\ chan' = a.ch
                      /\ ctl' = IF a.rc # "ok" THEN Opted(-1)
                                ELSE [Go("collect") EXCEPT !.key = KeyAhead, !.found = <<>>, !.rest = <<Letter>>,
                                                           !.seq = @ + 1]
                 /\ hist' = [hist EXCEPT !.rules = kern.rules, !.late = @ \ {"collect"}, !.deleted = FALSE]
                 /\ UNCHANGED ctlWorld
      \/ At("collect") /\ (Read(Take) \/ GiveUp(Go("delete")))
      \/ /\ At("delete") /\ ctl.found # <<>>
         /\ Ask(Change("del", Head(ctl.found)),
                LAMBDA rc : IF rc = "ok" THEN [ctl EXCEPT !.found = Tail(@)] ELSE Opted(-1))
      \/ /\ At("delete") /\ ctl.found = <<>>
         /\ \E a \in {Sent(Get("list"))} :
              /\ kern' = a.k /\ chan' = a.ch
              /\ ctl' = IF a.rc = "ok" THEN [Go("reply") EXCEPT !.back = "deleted", !.list_requested = TRUE,
                                                                !.seq = @ + 1]
                        ELSE Opted(-2)
         /\ hist' = [hist EXCEPT !.deleted = TRUE]
         /\ UNCHANGED ctlWorld
      \/ At("deleted") /\ Silent([Opted(-2) EXCEPT !.key = <<>>], hist.bad)

\* get_reply and audit_print_reply. The end of the list closes the socket.
get_reply ==
  LET Take(p) == CASE p.t = "error" /\ p.e = "ok" -> ctl
                   [] p.t = "rule" -> [ctl EXCEPT !.list_requested = FALSE]
                   [] OTHER -> Go(ctl.back)
  IN  /\ At("reply")
      /\ \/ Read(Take) /\ Head(chan.sock).t # "done"
         \/ /\ chan.sock # <<>> /\ Head(chan.sock).t = "done"
            /\ ctl' = Go(ctl.back) /\ chan' = audit_open /\ UNCHANGED <<ctlWorld, kern, hist>>
         \/ GiveUp(Go(ctl.back))

----------------------------------------------------------------------------
\* The end of setopt, and main's second look at the kernel before a rule.
EndOfLine ==
  /\ At("opt") /\ (ctl.rest = <<>> \/ ctl.s.ret < 0)
  /\ \E s \in {IF ctl.s.stop THEN ctl.s ELSE Finish(ctl.s, ctl.rest # <<>> /\ ctl.s.ret # -1, ctl.list_requested)} :
     LET next == CASE s.ret = -3 -> IF Mode = "file" THEN Go("line") ELSE Done(0)
                   [] s.ret # -3 /\ Mode = "line" /\ (s.add # Unset \/ s.del # Unset) -> Go("check")
                   [] OTHER -> Go("request")
     IN  /\ ctl' = [next EXCEPT !.s = s]
         /\ hist' = [hist EXCEPT !.bad = IF s.ret = -1 THEN @ \cup {ctl.at} ELSE @]
         /\ chan' = IF next.pc = "check" THEN audit_open ELSE chan
         /\ UNCHANGED <<ctlWorld, kern>>

\* handle_request closes the socket unless the listing has.
Close(c) == [c EXCEPT !.fd = FALSE]

\* What fileopt, or main, makes of handle_request's return code.
Outcome(c, rc) ==
  CASE Mode = "line" -> [c EXCEPT !.pc = "done", !.exit = rc]
    [] Mode = "file" /\ rc = 0 -> [c EXCEPT !.pc = "line"]
    [] Mode = "file" /\ rc = -1 /\ ~c.ignore -> [c EXCEPT !.pc = "done", !.exit = 1]
    [] OTHER -> [c EXCEPT !.pc = "line", !.continue_error = IF @ # 0 THEN -1 ELSE @]

\* A directory is sent again as a watch to a kernel that does not know it.
LegacyRule(r) == [r EXCEPT !.fields[1].f = "path"]

handle_request ==
  LET s == ctl.s
      r == IF ctl.back = "again" THEN LegacyRule(Outgoing(s)) ELSE Outgoing(s)
      t == IF s.add # Unset THEN "add" ELSE "del"
      again(rc) == rc = "EINVAL" /\ ctl.back # "again" /\ Head(r.fields \o <<[f |-> ""]>>).f = "dir"
  IN  \/ /\ At("request") /\ s.ret = 0 /\ s.syscalladded
         /\ Silent(Outcome(ctl, -1), hist.bad \cup {ctl.at})
      \/ /\ At("request") /\ s.ret = 0 /\ ~s.syscalladded
         /\ Silent([Go("reply") EXCEPT !.back = "answered"], hist.bad)
      \/ At("answered") /\ Silent(Outcome(Close([ctl EXCEPT !.back = ""]), 0), hist.bad)
      \/ At("request") /\ s.ret \in {-2, -1}
         /\ Silent(Outcome(Close(ctl), IF s.ret = -2 THEN 0 ELSE -1), hist.bad)
      \/ /\ At("request") /\ s.ret > 0 /\ s.add = Unset /\ s.del = Unset
         /\ Silent(Done(1), hist.bad)
      \/ /\ At("request") /\ s.ret > 0 /\ (s.add # Unset \/ s.del # Unset)
         /\ \E a \in {Sent(Change(t, r))} :
              /\ kern' = a.k /\ chan' = a.ch
              /\ ctl' = IF again(a.rc) THEN [ctl EXCEPT !.back = "again", !.seq = @ + 1]
                        ELSE Outcome(Close([ctl EXCEPT !.back = "", !.seq = @ + 1]), IF a.rc = "ok" THEN 0 ELSE -1)
              /\ hist' = [hist EXCEPT !.bad = IF again(a.rc) THEN @ ELSE Bad(Verdict(kern, Change(t, r)))]
              /\ UNCHANGED ctlWorld

----------------------------------------------------------------------------
\* The kernel's threads, which may be late for ever, and the other administrator.
Deliver == chan' \in Delivered(chan) /\ UNCHANGED <<ctlWorld, kern, ctl, hist>>

OtherAdmin ==
  LET todo == ctlWorld.admin
  IN  /\ hist.admin < Len(todo) /\ ctl.pc # "done"
      /\ kern' = After(kern, todo[hist.admin + 1])
      /\ hist' = [hist EXCEPT !.admin = @ + 1]
      /\ UNCHANGED <<ctlWorld, chan, ctl>>

Program ==
  \/ Ready \/ ReadyReply \/ NextLine \/ ParseOption \/ Modes \/ SetStatus \/ RequestStatus \/ Commands
  \/ ReportStatus \/ send_signal \/ ListRules \/ DeleteAll \/ get_reply \/ EndOfLine \/ handle_request

CtlNext == Program \/ (ctl.pc # "done" /\ Deliver) \/ OtherAdmin

----------------------------------------------------------------------------
Has(os)     == {i \in DOMAIN Lines : \E j \in DOMAIN Lines[i] : Lines[i][j].o \in os}
Crowded     == \E i \in Has({"e", "f", "r", "b"}) : Len(Lines[i]) > 1

\* PROPERTY: a run that ends with success has loaded everything: no line was
\* misunderstood and the kernel refused nothing (fileopt, handle_request,
\* check_ack), unless -i asked for it, a second -c forgot the failure before
\* it (case 'c'), a status answer still to come hid the refusal from check_ack
\* (after a status option on the same line, or one that is_ready or delete_all_rules gave up),
\* or is_ready found the kernel locked.
CtlHonest ==
  ctl.pc = "done" /\ ctl.exit = 0 =>
    \/ hist.bad = {}
    \/ Has({"i"}) # {} \/ Cardinality(Has({"c"})) > 1
    \/ Crowded \/ hist.late \cap {"ready_reply", "check_reply", "collect"} # {}
    \/ Mode = "line" /\ kern.enabled = 2

\* PROPERTY: when delete_all_rules succeeds and no reply was given up before,
\* of the list or of is_ready (which would hide a refusal), the rules with the key that were there when it began are gone, and
\* the others are there, but for what another administrator deleted.
CtlDelete ==
  [][hist'.deleted /\ ~hist.deleted /\ hist.late \cap {"collect", "ready_reply"} = {} =>
       \A r \in ToSet(hist.rules) :
         IF key_match(r, ctl.key) THEN r \notin ToSet(kern'.rules)
         ELSE r \in ToSet(kern'.rules) \/ Change("del", r) \in ToSet(ctlWorld.admin)]_ctlVars

\* PROPERTY: auditctl ends, whatever is lost on the way: each loop that waits
\* for the kernel stops at a reply or after four seconds without one.
CtlEnds == <>(ctl.pc \in {"idle", "done"})

\* What auditctl leaves behind: its exit status tells what became of the rules,
\* -D takes only what it was asked to take, and it comes to an end.
CtlResult == []CtlHonest /\ CtlDelete /\ CtlEnds
=============================================================================
