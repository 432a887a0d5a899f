----------------------------- MODULE MCReading ------------------------------
(***************************************************************************)
(* The parts of auparse, one at a time: putting records together into      *)
(* events (EventAssembly), search expressions (Expression), searching and  *)
(* moving the cursors (EventCursor), the cache of account names (IdCache)  *)
(* and the buffer of a feed (DataBuf).  part is chosen at the start; the   *)
(* others stand still.                                                     *)
(***************************************************************************)
EXTENDS EventAssembly, EventCursor, IdCache, DataBuf

-----------------------------------------------------------------------------
(* Logs: every sequence of up to four lines of three events, one of them   *)
(* also under the name of another node, the last two seconds later, and a  *)
(* line that cannot be read.                                               *)
At(sec, serial, host) == [sec |-> sec, milli |-> 0, serial |-> serial, host |-> host]
Rec(e, type) == [e |-> e, type |-> type, good |-> TRUE]

AsmLineKinds == {
  Rec(At(1, 1, "a"), 1300), Rec(At(1, 1, "a"), AUDIT_EOE), Rec(At(1, 1, "b"), 1300),
  Rec(At(1, 2, "a"), 1300), Rec(At(1, 2, "a"), AUDIT_PROCTITLE),
  Rec(At(3, 3, "a"), 1300),
  [e |-> At(1, 1, "a"), type |-> 1300, good |-> FALSE]}

AsmLogs == [1..3 -> AsmLineKinds] \cup {<<x[1], x[2], x[3], y>> : x \in [1..3 -> AsmLineKinds], y \in
             {Rec(At(1, 1, "a"), 1300), Rec(At(1, 2, "a"), AUDIT_PROCTITLE), Rec(At(3, 3, "a"), 1300)}}

Upto(a, b) == [i \in 1..(b - a + 1) |-> a + i - 1]
OneFile(n) == <<[ks |-> Upto(1, n), readable |-> TRUE]>>
TwoFiles(n, ok1, ok2) == <<[ks |-> Upto(1, 2), readable |-> ok1], [ks |-> Upto(3, n), readable |-> ok2]>>

World(lines, source, files, closed) ==
  [lines |-> lines, source |-> source, files |-> files, closed |-> closed]

MCAsmWorlds ==
  UNION {{World(x, "feed", <<>>, {}), World(x, "stream", <<>>, {}),
          World(x, "file", OneFile(Len(x)), {}), World(x, "file", TwoFiles(Len(x), TRUE, TRUE), {}),
          World(x, "buffer", <<>>, {})} : x \in AsmLogs}
  \cup {World(x, "file", TwoFiles(3, ok, ~ok), {}) : x \in [1..3 -> AsmLineKinds], ok \in BOOLEAN}
  \cup {World(x, "buffer", <<>>, c) : x \in [1..3 -> AsmLineKinds], c \in {{1}, {3}}}

-----------------------------------------------------------------------------
(* Expressions, records and events for the search and the cursors.         *)
MCUidFields  == {"auid"}
MCTypeOfName == [x \in {"SYSCALL", "PATH"} |-> IF x = "SYSCALL" THEN 1300 ELSE 1302]
MCNumberOf   == [x \in {"0", "5", "21"} |-> IF x = "0" THEN 0 ELSE IF x = "5" THEN 5 ELSE 21]
TS(sec, serial) == [sec |-> sec, milli |-> 0, serial |-> serial]
MCStampOf    == [x \in {"ts1", "ts2"} |-> IF x = "ts1" THEN TS(1, 1) ELSE TS(2, 7)]
MCRegexps    == {"/path/"}

MCPhrases == {<<"!">>, <<"(">>, <<")">>, <<"&&">>, <<"||">>,
  <<"comm", "r=", "ls">>, <<"auid", ">=", "5">>, <<"comm", "==", "5">>,
  <<"\\", "timestamp", "<", "ts2">>, <<"\\", "regexp", "/path/">>, <<"comm">>}

Fld(name, raw, interp) == [name |-> name, raw |-> raw, interp |-> interp]
RecOf(type, t, text, fields) == [type |-> type, stamp |-> t, text |-> text, fields |-> fields]

Syscall(t, uid, comm) == RecOf(1300, t, "syscall",
  <<Fld("auid", uid, "user"), Fld("comm", comm, comm)>>)
Path(t) == RecOf(1302, t, "/path/", <<Fld("name", "x", "x"), Fld("comm", "ls", "ls")>>)
Two(t)  == RecOf(1302, t, "two", <<Fld("name", "a", "a"), Fld("name", "b", "b")>>)
Bare(t) == RecOf(1302, t, "bare", <<>>)

MCCurWorlds == {
  <<>>,
  <<<<Syscall(TS(1, 1), "0", "ls"), Path(TS(1, 1))>>, <<Two(TS(2, 7))>>>>,
  <<<<Syscall(TS(1, 1), "5", "cat"), Two(TS(1, 1)), Path(TS(1, 1))>>,
    <<Syscall(TS(2, 7), "21", "ls"), Bare(TS(2, 7))>>>>}

ItemOf(field, op, value) == [field |-> field, op |-> op, value |-> value]
MCItems == {ItemOf("comm", "=", "ls"), ItemOf("name", "!=", "a"), ItemOf("name", "exists", ""),
            ItemOf("auid", "<", "5")}
MCTexts == {<<"!", "auid", "i=", "user">>, <<"auid", "<", "5">>,
            <<"\\", "record_type", "!==", "SYSCALL">>, <<"comm", "<", "5">>}

-----------------------------------------------------------------------------
VARIABLE part

readVars == <<part, asmVars, exprVars, curVars, lruVars, dbVars>>

IdleAsm == AsmStart(World(<<>>, "feed", <<>>, {}))
IdleCur == CurStart(<<>>)
IdleLru == LruStart([u \in Uids |-> 0])
IdleDb  == DbStart(TRUE)

ReadInit ==
  \/ part = "assembly"   /\ AsmInit /\ ExprInit /\ IdleCur /\ IdleLru /\ IdleDb
  \/ part = "expression" /\ IdleAsm /\ ExprInit /\ IdleCur /\ IdleLru /\ IdleDb
  \/ part = "cursor"     /\ IdleAsm /\ ExprInit /\ CurInit /\ IdleLru /\ IdleDb
  \/ part = "cache"      /\ IdleAsm /\ ExprInit /\ IdleCur /\ LruInit /\ IdleDb
  \/ part = "buffer"     /\ IdleAsm /\ ExprInit /\ IdleCur /\ IdleLru /\ DbInit

ReadNext ==
  \/ part = "assembly"   /\ AsmNext  /\ UNCHANGED <<part, exprVars, curVars, lruVars, dbVars>>
  \/ part = "expression" /\ ExprNext /\ UNCHANGED <<part, asmVars, curVars, lruVars, dbVars>>
  \/ part = "cursor"     /\ CurNext  /\ UNCHANGED <<part, asmVars, exprVars, lruVars, dbVars>>
  \/ part = "cache"      /\ LruNext  /\ UNCHANGED <<part, asmVars, exprVars, curVars, dbVars>>
  \/ part = "buffer"     /\ DbNext   /\ UNCHANGED <<part, asmVars, exprVars, curVars, lruVars>>

Spec == ReadInit /\ [][ReadNext]_readVars
=============================================================================
