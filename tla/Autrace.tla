------------------------------ MODULE Autrace -------------------------------
(***************************************************************************)
(* autrace (autrace.c): the parent loads rules for a program that waits on *)
(* a pipe, lets it go, and deletes the rules when it has ended. The        *)
(* program is the parent's child; a parent that exits closes the pipe,     *)
(* which lets the child go as well.                                        *)
(*                                                                         *)
(* A rule is [flags, fields, what]: what is the field that names the child *)
(* and the syscalls. A world is [rules, enabled, net, opens, writes,       *)
(* locks]: the kernel before, whether the machine has socketcall, whether  *)
(* audit_open and the write to the pipe succeed, and whether somebody may  *)
(* lock the kernel's rules meanwhile.                                      *)
(***************************************************************************)
EXTENDS Netlink

CONSTANT AutWorlds

VARIABLES autWorld, autKern, autChan, aut
autVars == <<autWorld, autKern, autChan, aut>>

\* The socketcall numbers, two of the six.
SocketCalls == <<"connect", "bind">>

TraceRule(field, what) == [flags |-> "exit", fields |-> <<>>, what |-> <<field, what>>]
Ours == {TraceRule(f, w) : f \in {"pid", "ppid"}, w \in {"all"} \cup ToSet(SocketCalls)}

\* aut: pc of the parent; the child: "none", "waits", "runs", "ended",
\* "killed"; what the pipe holds and whether its write end is open; late:
\* a list was given up.
AutInit ==
  /\ autWorld \in AutWorlds
  /\ autKern = [rules |-> autWorld.rules, enabled |-> autWorld.enabled, legacy |-> FALSE, refuses |-> {}]
  /\ autChan = audit_open
  /\ aut = [pc |-> "count", child |-> "none", pipe |-> FALSE, open |-> FALSE, n |-> 0, field |-> "pid",
            found |-> <<>>, seq |-> 0, late |-> FALSE, exit |-> 0]

AutAt(pc) == aut.pc = pc
AutGo(pc) == [aut EXCEPT !.pc = pc]
\* exit() closes the pipe.
Exit(n)   == [aut EXCEPT !.pc = "done", !.exit = n, !.open = FALSE]

AutAsk(req, c(_)) ==
  \E a \in {audit_send(autKern, autChan, req, aut.seq + 1)} :
    /\ autKern' = a.k /\ autChan' = a.ch
    /\ aut' = [c(a.rc) EXCEPT !.seq = aut.seq + 1]
    /\ UNCHANGED autWorld

AutStep(c, ch) == aut' = c /\ autChan' = ch /\ UNCHANGED <<autWorld, autKern>>

\* count_rules: anything but an empty list ends the program.
count_rules ==
  LET p == Head(autChan.sock)
      rest == [autChan EXCEPT !.sock = Tail(@)]
  IN  \/ AutAt("count") /\ AutAsk(Get("list"), LAMBDA rc : IF rc = "ok" THEN AutGo("count_em") ELSE Exit(1))
      \/ /\ AutAt("count_em") /\ autChan.sock # <<>>
         /\ CASE p.t = "done" -> AutStep(IF aut.n = 0 THEN AutGo("fork") ELSE Exit(1), audit_open)
              [] p.t = "rule" -> AutStep([aut EXCEPT !.n = @ + 1], rest)
              [] OTHER -> AutStep(aut, rest)
      \* 40 tenths of a second without a packet: -1, or the rules so far
      \/ AutAt("count_em") /\ autChan.sock = <<>> /\ AutStep(Exit(1), autChan)

Fork ==
  /\ AutAt("fork")
  /\ \/ AutStep(Exit(1), autChan)
     \/ AutStep([AutGo("open") EXCEPT !.child = "waits", !.open = TRUE], autChan)

Abort_Late(c) == [c EXCEPT !.pc = "delete_all", !.exit = 1]
\* kill(pid, SIGTERM), then delete_all_rules, then exit(1).
Abort(c) == [c EXCEPT !.pc = "delete_all", !.exit = 1, !.child = IF @ \in {"waits", "runs"} THEN "killed" ELSE @]

OpenAudit ==
  /\ AutAt("open")
  /\ AutStep(IF autWorld.opens THEN AutGo("insert") ELSE Exit(1), audit_open)

\* insert_rule for pid, then for ppid; where the machine has socketcall one
\* rule more per call, whose errors are forgotten.
insert_rule ==
  LET after == IF aut.field = "pid" THEN [AutGo("insert") EXCEPT !.field = "ppid", !.n = 0] ELSE AutGo("go")
      net   == IF autWorld.net THEN [AutGo("net") EXCEPT !.n = 1] ELSE after
  IN  \/ /\ AutAt("insert")
         /\ AutAsk(Change("add", TraceRule(aut.field, "all")), LAMBDA rc : IF rc = "ok" THEN net ELSE Abort(aut))
      \/ /\ AutAt("net")
         /\ AutAsk(Change("add", TraceRule(aut.field, SocketCalls[aut.n])),
                   LAMBDA rc : IF aut.n + 1 \in DOMAIN SocketCalls THEN [aut EXCEPT !.n = @ + 1] ELSE after)

\* The child is told to go.
Write ==
  /\ AutAt("go")
  /\ AutStep(IF autWorld.writes THEN [AutGo("wait") EXCEPT !.pipe = TRUE] ELSE Abort(aut), autChan)

Wait == AutAt("wait") /\ aut.child \in {"ended", "killed"} /\ AutStep(AutGo("delete_all"), autChan)

\* delete_all_rules skips what does not answer its own request.
delete_all_rules ==
  LET p == Head(autChan.sock)
      rest == [autChan EXCEPT !.sock = Tail(@)]
      end == Exit(aut.exit)
  IN  \/ /\ AutAt("delete_all")
         /\ AutAsk(Get("list"), LAMBDA rc : IF rc = "ok" THEN AutGo("collect") ELSE end)
      \/ /\ AutAt("collect") /\ autChan.sock # <<>>
         /\ AutStep(CASE p.seq # aut.seq -> aut [] p.seq = aut.seq /\ p.t = "done" -> AutGo("delete")
                      [] p.seq = aut.seq /\ p.t = "rule" -> [aut EXCEPT !.found = Append(@, p.body)] [] OTHER -> aut, rest)
      \/ AutAt("collect") /\ autChan.sock = <<>> /\ AutStep([AutGo("delete") EXCEPT !.late = TRUE], autChan)
      \/ /\ AutAt("delete") /\ aut.found # <<>>
         /\ AutAsk(Change("del", Head(aut.found)),
                   LAMBDA rc : IF rc = "ok" THEN [aut EXCEPT !.found = Tail(@)] ELSE end)
      \/ AutAt("delete") /\ aut.found = <<>> /\ AutStep(end, autChan)

----------------------------------------------------------------------------
\* The child reads the pipe: a byte or its end; then it is the program, until
\* that ends.
Child ==
  \/ /\ aut.child = "waits" /\ (aut.pipe \/ ~aut.open)
     /\ AutStep([aut EXCEPT !.child = "runs"], autChan)
  \/ aut.child = "runs" /\ AutStep([aut EXCEPT !.child = "ended"], autChan)

AutDeliver == aut.pc # "done" /\ \E ch \in Delivered(autChan) : AutStep(aut, ch)

Locking == autKern.enabled # 2 /\ autWorld.locks /\ aut.pc # "done"
           /\ autKern' = [autKern EXCEPT !.enabled = 2] /\ UNCHANGED <<autWorld, autChan, aut>>

Parent == count_rules \/ Fork \/ OpenAudit \/ insert_rule \/ Write \/ Wait \/ delete_all_rules
AutNext == Parent \/ Child \/ AutDeliver \/ Locking

----------------------------------------------------------------------------
\* PROPERTY: the program runs only while the rules for it and its children
\* are loaded (main: the child waits for the byte), except when audit_open
\* failed: there the parent exits without stopping the child.
AutTraced ==
  aut.child = "runs" /\ autWorld.opens =>
    \A f \in {"pid", "ppid"} : TraceRule(f, "all") \in ToSet(autKern.rules)

\* PROPERTY: no rule of autrace outlives it, unless the kernel was locked
\* meanwhile or the list of rules was given up.
AutClean ==
  aut.pc = "done" => ToSet(autKern.rules) \cap Ours = {} \/ autKern.enabled = 2 \/ aut.late

\* PROPERTY: autrace ends, and the program it started has been run or killed.
AutEnds == <>[](aut.pc \in {"idle", "done"} /\ aut.child \in {"none", "ended", "killed"})

\* What autrace leaves behind: the program runs only under the rules, no rule
\* outlives a failed start, and both processes come to an end.
AutResult == [](AutTraced /\ AutClean) /\ AutEnds
=============================================================================
