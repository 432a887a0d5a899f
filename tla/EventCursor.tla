----------------------------- MODULE EventCursor -----------------------------
(***************************************************************************)
(* Walking and searching events with auparse. The current event has a      *)
(* record cursor, every record a field cursor of its own, and one list of  *)
(* interpretations is shared by the whole process: it is loaded from the   *)
(* record the library moves to. A search evaluates an expression on each   *)
(* record (Expression), which moves field cursors too.                     *)
(*                                                                         *)
(* Events come in order from next_event (EventAssembly).           *)
(***************************************************************************)
EXTENDS Expression

CONSTANTS
  CurWorlds,      \* sequences of events; an event is a sequence of records
  Items,          \* items the caller adds: [field, op, value]
  Texts,          \* expressions it adds, as tokens
  Names,          \* field names it looks for
  MaxCalls        \* bound on the calls of one walk

VARIABLES
  curWorld,       \* the events of the input
  cur,            \* auparse_state_t: [le, rec, fld, il, expr, started, where, find]
  call            \* the last call: [op, rc, n], n the number of calls so far

Wheres == {"EVENT", "RECORD", "FIELD"}
NoTree == Junction("none", <<>>)

Event(c) == curWorld[c.le]
HasEvent(c) == c.le \in 1..Len(curWorld)
NumRecords(c) == IF HasEvent(c) THEN Len(Event(c)) ELSE 0
CurRec(c) == Event(c)[c.rec]
HasRec(c) == HasEvent(c) /\ c.rec > 0

\* A freshly parsed event: each record's field cursor is at its first field.
FreshFields(ev) == [i \in DOMAIN ev |-> FirstCur(ev[i])]

Out(c, rc) == [c |-> c, rc |-> rc]

\* At the end the current event is freed: auparse_next_event returns 0.
next_event(c) ==
  LET n == c.le + 1
  IN  IF n > Len(curWorld) THEN Out([c EXCEPT !.le = Len(curWorld) + 1, !.rec = 0, !.fld = <<>>], 0)
      ELSE Out([c EXCEPT !.le = n, !.rec = 1, !.fld = FreshFields(curWorld[n]), !.il = <<1>>], 1)

aup_list_first_field(c) ==
  IF HasRec(c) THEN [c EXCEPT !.fld[c.rec] = FirstCur(CurRec(c))] ELSE c

auparse_first_record(c) ==
  LET n == IF NumRecords(c) = 0 THEN next_event(c) ELSE Out(c, 1)
  IN  IF n.rc <= 0 THEN n
      ELSE Out(aup_list_first_field([n.c EXCEPT !.rec = 1, !.il = <<1>>]), 1)

\* aup_list_next; the new record's field cursor stays where it was.
NextRec(c) == IF c.rec \in 1..(NumRecords(c) - 1) THEN c.rec + 1 ELSE 0

\* load_interpretation_list adds a record's interpretations to the list.
LoadNext(c, r) == [c EXCEPT !.rec = r, !.il = IF r > 0 THEN Append(@, r) ELSE @]

auparse_next_record(c) ==
  LET d == [c EXCEPT !.il = <<>>]       \* free_interpretation_list
      f == IF NumRecords(d) = 0 THEN auparse_first_record(d) ELSE Out(d, 1)
  IN  IF f.rc <= 0 THEN f
      ELSE Out(LoadNext(f.c, NextRec(f.c)), IF NextRec(f.c) > 0 THEN 1 ELSE 0)

auparse_goto_record_num(c, n) ==
  IF n >= NumRecords(c) THEN Out([c EXCEPT !.il = <<>>], 0)
  ELSE Out(aup_list_first_field([c EXCEPT !.rec = n + 1, !.il = <<n + 1>>]), 1)

auparse_first_field(c) == Out(aup_list_first_field(c), IF HasRec(c) THEN 1 ELSE 0)

\* nvlist_next: past the last field the cursor is NULL and stays so.
NextFld(c) ==
  LET f == c.fld[c.rec] IN IF f \in 1..(Len(CurRec(c).fields) - 1) THEN f + 1 ELSE 0

auparse_next_field(c) ==
  IF ~HasRec(c) THEN Out(c, 0)
  ELSE Out([c EXCEPT !.fld[c.rec] = NextFld(c)], IF NextFld(c) > 0 THEN 1 ELSE 0)

auparse_goto_field_num(c, n) ==
  IF ~HasRec(c) \/ n >= Len(CurRec(c).fields) THEN Out(c, 0)
  ELSE Out([c EXCEPT !.fld[c.rec] = n + 1], 1)

\* Records after the current one are searched from their first field; the
\* interpretations of each are added to the list.
RECURSIVE FindFrom(_)
FindFrom(c) ==
  IF ~HasRec(c) THEN Out(c, 0)
  ELSE LET i == FieldAt(CurRec(c), c.find, c.fld[c.rec])
           n == NextRec(c)
           m == aup_list_first_field([c EXCEPT !.rec = n, !.il = IF n > 0 THEN Append(@, n) ELSE @])
       IN  IF i > 0 THEN Out([c EXCEPT !.fld[c.rec] = i], 1) ELSE FindFrom(m)

auparse_find_field_next(c) ==
  IF ~HasEvent(c) \/ c.find = "" \/ ~HasRec(c) THEN Out(c, 0)
  ELSE FindFrom([c EXCEPT !.fld[c.rec] = NextFld(c)])

auparse_find_field(c, name) ==
  LET f == [c EXCEPT !.find = name]
      i == f.fld[f.rec]
  IN  IF ~HasEvent(c) THEN Out(c, 0)
      ELSE IF ~HasRec(c) THEN Out(f, 0)
      ELSE IF i > 0 /\ CurRec(c).fields[i].name = name THEN Out(f, 1)
      ELSE auparse_find_field_next(f)

---------------------------------------------------------------------------
(* Searching *)

ausearch_reposition_cursors(c) ==
  CASE c.where = "EVENT"  -> aup_list_first_field([c EXCEPT !.rec = 1])
    [] c.where = "RECORD" -> aup_list_first_field(c)
    [] OTHER -> c

\* Compare the current record, go on with the next record, then with the
\* next event.
RECURSIVE SearchOn(_)
SearchOn(c) ==
  LET e == expr_eval(CurRec(c), c.expr, c.fld[c.rec])
      d == [c EXCEPT !.fld[c.rec] = e.cur]
      r == auparse_next_record(d)
      n == next_event(r.c)
  IN  IF e.v THEN Out(ausearch_reposition_cursors(d), 1)
      ELSE IF r.rc > 0 THEN SearchOn(r.c)
      ELSE IF n.rc > 0 THEN SearchOn(n.c)
      ELSE n

ausearch_next_event_Again(c) ==
  LET s == auparse_first_record(c)
      t == [s.c EXCEPT !.started = TRUE]
  IN  IF c.expr = NoTree THEN Out(c, -1)
      ELSE IF s.rc <= 0 THEN s ELSE SearchOn(t)

ausearch_next_event(c) ==
  LET s == IF c.started THEN next_event(c) ELSE auparse_first_record(c)
      t == [s.c EXCEPT !.started = TRUE]
  IN  IF c.expr = NoTree THEN Out(c, -1)
      ELSE IF s.rc <= 0 THEN s ELSE SearchOn(t)

Hows == {"CLEAR", "OR", "AND"}

add_expr(c, e, how) ==
  [c EXCEPT !.started = FALSE,
            !.expr = IF @ = NoTree \/ how = "CLEAR" THEN e
                     ELSE expr_create_binary(IF how = "OR" THEN "||" ELSE "&&", @, e)]

\* Each adds one expression or refuses with EINVAL and changes nothing.
AddIf(ok, c, e, how) == IF ok /\ how \in Hows THEN Out(add_expr(c, e, how), 0) ELSE Out(c, -1)

ausearch_add_item_internal(c, field, op, value, how, eq, ne) ==
  AddIf(op \in {"exists", "=", "!="}, c,
        CASE op = "exists" -> expr_create_field_exists(field)
          [] op = "=" -> expr_create_comparison(field, eq, value)
          [] OTHER -> expr_create_comparison(field, ne, value), how)

ausearch_add_item(c, field, op, value, how) ==
  ausearch_add_item_internal(c, field, op, value, how, "r=", "r!=")
ausearch_add_interpreted_item(c, field, op, value, how) ==
  ausearch_add_item_internal(c, field, op, value, how, "i=", "i!=")

ausearch_add_timestamp_item_ex(c, op, t, how) ==
  AddIf(op \in {"<", "<=", ">=", ">", "="} /\ StampOf[t].milli < 1000, c,
        expr_create_timestamp_comparison_ex(IF op = "=" THEN "==" ELSE op, t), how)

ausearch_add_expression(c, text, how) ==
  LET p == expr_parse(text) IN AddIf(p.ok, c, p.e, how)

ausearch_add_regex(c, re) == AddIf(TRUE, c, expr_create_regexp_expression(re), "AND")

ausearch_clear(c) == [c EXCEPT !.expr = NoTree, !.where = "EVENT"]
ausearch_set_stop(c, w) == [c EXCEPT !.where = w]

---------------------------------------------------------------------------
CurStart(w) ==
  /\ curWorld = w
  /\ cur = [le |-> 0, rec |-> 0, fld |-> <<>>, il |-> <<>>, expr |-> NoTree,
            started |-> FALSE, where |-> "EVENT", find |-> ""]
  /\ call = [op |-> "init", rc |-> 0, n |-> 0]

CurInit == \E w \in CurWorlds : CurStart(w)

Call(op, o) ==
  /\ call.n < MaxCalls
  /\ cur' = o.c
  /\ call' = [op |-> op, rc |-> o.rc, n |-> call.n + 1]
  /\ UNCHANGED curWorld

NextEvent   == Call("next_event", next_event(cur))
FirstRecord == Call("first_record", auparse_first_record(cur))
NextRecord  == Call("next_record", auparse_next_record(cur))
GotoRecord  == \E n \in 0..2 : Call("goto_record", auparse_goto_record_num(cur, n))
FirstField  == Call("first_field", auparse_first_field(cur))
NextField   == Call("next_field", auparse_next_field(cur))
GotoField   == \E n \in 0..2 : Call("goto_field", auparse_goto_field_num(cur, n))
FindField   == \E f \in Names : Call("find_field", auparse_find_field(cur, f))
FindNext    == Call("find_next", auparse_find_field_next(cur))
FindNextEvent  == Call("search", ausearch_next_event(cur))

Small == Cardinality({cur.expr} \ {NoTree}) + Len(cur.expr.sub) < 2
AddItem == Small /\ \E i \in Items, how \in Hows \cup {"bad"} :
  \/ Call("add", ausearch_add_item(cur, i.field, i.op, i.value, how))
  \/ Call("add", ausearch_add_interpreted_item(cur, i.field, i.op, i.value, how))
AddTimestamp == Small /\ \E op \in {"=", ">", "!="}, t \in DOMAIN StampOf :
  Call("add", ausearch_add_timestamp_item_ex(cur, op, t, "AND"))
AddExpression == Small /\ \E text \in Texts : Call("add", ausearch_add_expression(cur, text, "OR"))
AddRegex == Small /\ \E re \in Regexps : Call("add", ausearch_add_regex(cur, re))
SetStop     == \E w \in Wheres \ {cur.where} : Call("set_stop", Out(ausearch_set_stop(cur, w), 0))
ClearSearch == cur.expr /= NoTree /\ Call("clear", Out(ausearch_clear(cur), 0))

CurNext ==
  \/ NextEvent \/ FirstRecord \/ NextRecord \/ GotoRecord
  \/ FirstField \/ NextField \/ GotoField \/ FindField \/ FindNext
  \/ FindNextEvent \/ AddItem \/ AddTimestamp \/ AddExpression \/ AddRegex
  \/ SetStop \/ ClearSearch

curVars == <<curWorld, cur, call>>
CurSpec == CurInit /\ [][CurNext]_curVars

---------------------------------------------------------------------------
(* Properties *)

\* What an expression means for a record, without cursors.
RECURSIVE Holds(_, _)
Holds(r, e) ==
  CASE e.op = "!"  -> ~Holds(r, e.sub[1])
    [] e.op = "&&" -> Holds(r, e.sub[1]) /\ Holds(r, e.sub[2])
    [] e.op = "||" -> Holds(r, e.sub[1]) \/ Holds(r, e.sub[2])
    [] OTHER -> expr_eval(r, e, 0).v
EventHolds(i, e) == \E k \in DOMAIN curWorld[i] : Holds(curWorld[i][k], e)

\* A search finds every event that has a matching record, once and in
\* order: it stops at the first one after the current event, or at the
\* current one when the expression is new, and skips none.
CurSearch ==
  [][call'.op = "search" /\ cur.expr /= NoTree =>
       LET from == IF cur.started \/ cur.le = 0 THEN cur.le + 1 ELSE cur.le
           hits == {i \in from..Len(curWorld) : EventHolds(i, cur.expr)}
       IN  IF hits = {} THEN call'.rc = 0
           ELSE call'.rc = 1 /\ cur'.le = Min(hits)]_curVars

\* Where the search stops inside the event: at the first field of the
\* event, at the first field of its first matching record, or in that
\* record at the field the expression looked at last.
CurStop ==
  [][call'.op = "search" /\ call'.rc = 1 =>
       LET ev == curWorld[cur'.le]
           k  == Min({i \in DOMAIN ev : Holds(ev[i], cur.expr)})
       IN  CASE cur.where = "EVENT"  -> cur'.rec = 1 /\ cur'.fld[1] = FirstCur(ev[1])
             [] cur.where = "RECORD" -> cur'.rec = k /\ cur'.fld[k] = FirstCur(ev[k])
             [] OTHER -> cur'.rec = k /\ (cur.expr.op \in RawOps \cup {"exists"} =>
                           ev[k].fields[cur'.fld[k]].name = cur.expr.field)]_curVars

\* Places of the current event in reading order that carry a name.
Where2(ev, name) == {p \in (DOMAIN ev) \X (0..3) :
                       p[2] \in DOMAIN ev[p[1]].fields /\ ev[p[1]].fields[p[2]].name = name}
Later(p, q) == p[1] > q[1] \/ (p[1] = q[1] /\ p[2] > q[2])

\* auparse_find_field_next goes to the next place with the name and to no
\* other, across records: walking with it meets every occurrence once.
CurFind ==
  [][call'.op = "find_next" /\ HasRec(cur) /\ cur.find /= "" /\ cur.fld[cur.rec] > 0 =>
       LET next == {p \in Where2(Event(cur), cur.find) : Later(p, <<cur.rec, cur.fld[cur.rec]>>)}
       IN  IF next = {} THEN call'.rc = 0
           ELSE /\ call'.rc = 1
                /\ <<cur'.rec, cur'.fld[cur'.rec]>> \in next
                /\ \A p \in next : ~Later(<<cur'.rec, cur'.fld[cur'.rec]>>, p)]_curVars

\* A field is interpreted with the list its own record brought along:
\* after a call that moves to a record, the list is that record's alone.
\* Excepted are auparse_find_field and a search that stops at the event, which
\* leave more or other records' lists loaded, and an auparse_next_record that
\* has to read an event first: it moves on to the second record and leaves the
\* interpretations of both loaded, the first record's in front.
CurInterp ==
  [][call'.rc = 1 =>
       /\ call'.op \in {"next_event", "first_record", "goto_record"} => cur'.il = <<cur'.rec>>
       /\ call'.op = "next_record" =>
            cur'.il = IF NumRecords(cur) = 0 THEN <<1, 2>> ELSE <<cur'.rec>>
       /\ call'.op = "search" /\ cur'.where /= "EVENT" => cur'.il = <<cur'.rec>>]_curVars

\* What the cursors point at after a search, a stop or a find is what was
\* looked for, with its own interpretations loaded.
CurMoves == CurInterp /\ CurSearch /\ CurStop /\ CurFind
=============================================================================
