----------------------------- MODULE Expression ------------------------------
(***************************************************************************)
(* Search expressions of auparse: the recursive descent parser over the    *)
(* tokens lex() returns, the expressions built by hand, and evaluation on  *)
(* one record. A token is a string: the operators stand for themselves,    *)
(* Regexps for T_REGEXP, "?" for T_UNKNOWN, "EOF" for T_EOF, every other   *)
(* string is a T_STRING with that value.                                   *)
(*                                                                         *)
(* A record is [type, fields, text, stamp], fields a sequence of           *)
(* [name, raw, interp]; stamp is that of its event.                        *)
(***************************************************************************)
EXTENDS Integers, Sequences, SequencesExt, FiniteSets, FiniteSetsExt

CONSTANTS
  UidFields,      \* field names lookup_type calls AUPARSE_TYPE_UID or _GID
  TypeOfName,     \* audit_name_to_msg_type: function from names to types
  NumberOf,       \* strtoul: function from digit strings to numbers
  StampOf,        \* "ts:sec.milli:serial": function from those strings to stamps
  Regexps,        \* patterns in slashes; all of them compile
  UINT32,         \* 2^32
  Phrases,        \* pieces a caller writes expressions with
  MaxPhrases      \* bound on the pieces of one expression

VARIABLES
  exprText,       \* the expression being written, as tokens
  exprPhrases     \* the number of its pieces

Logical   == {"!", "&&", "||"}
RawOps    == {"r=", "r!=", "i=", "i!="}
ValueOps  == {"==", "!==", "<", "<=", ">", ">="}
Marks     == Logical \cup RawOps \cup ValueOps \cup {"(", ")", "\\", "?", "EOF"}
IsString(t) == t \notin Marks \cup Regexps
VirtualFields == {"timestamp", "record_type", "timestamp_ex"}

---------------------------------------------------------------------------
(* Trees *)

Compare(field, virtual, op, value) ==
  [op |-> op, field |-> field, virtual |-> virtual, value |-> value, sub |-> <<>>]
Junction(op, sub) ==
  [op |-> op, field |-> "", virtual |-> FALSE, value |-> "", sub |-> sub]

expr_create_field_exists(field) == Compare(field, FALSE, "exists", "")
expr_create_comparison(field, op, value) == Compare(field, FALSE, op, value)
expr_create_regexp_expression(re) == Compare("", FALSE, "regexp", re)
expr_create_timestamp_comparison_ex(op, value) == Compare("timestamp_ex", TRUE, op, value)
expr_create_binary(op, a, b) == Junction(op, <<a, b>>)

---------------------------------------------------------------------------
(* Parsing: a result is the tree and the position of the current token *)

Tok(s, i) == IF i <= Len(s) THEN s[i] ELSE "EOF"
Parsed(e, i) == [ok |-> TRUE, e |-> e, i |-> i]
Failed == [ok |-> FALSE, e |-> Junction("none", <<>>), i |-> 0]

\* The forms of value a field with a value comparison takes: timestamps
\* are checked, record types looked up; a uid or gid takes any string.
ValueFits(field, virtual, v) ==
  /\ field \in {"timestamp", "timestamp_ex"} /\ virtual => v \in DOMAIN StampOf
  /\ field = "record_type" /\ virtual => v \in DOMAIN TypeOfName

parse_comparison_regexp(s, i) ==
  IF IsString(Tok(s, i)) \/ Tok(s, i) \in Regexps
  THEN Parsed(expr_create_regexp_expression(Tok(s, i)), i + 1)
  ELSE Failed

\* The operator is at i, the value after it.
ParseOperator(s, i, field, virtual) ==
  LET op      == Tok(s, i)
      v       == Tok(s, i + 1)
      numeric == virtual \/ field \in UidFields
  IN  IF /\ IsString(v)
         /\ \/ op \in RawOps
            \/ op \in ValueOps /\ numeric /\ ValueFits(field, virtual, v)
      THEN Parsed(Compare(field, virtual, op, v), i + 2)
      ELSE Failed

parse_comparison(s, i) ==
  IF Tok(s, i) = "\\"
  THEN IF Tok(s, i + 1) = "regexp" THEN parse_comparison_regexp(s, i + 2)
       ELSE IF Tok(s, i + 1) \in VirtualFields
       THEN ParseOperator(s, i + 2, Tok(s, i + 1), TRUE)
       ELSE Failed
  ELSE ParseOperator(s, i + 1, Tok(s, i), FALSE)

RECURSIVE parse_or(_, _), parse_and(_, _), parse_primary(_, _), Chain(_, _, _, _)

parse_primary_Loose(s, i) ==
  LET e == IF Tok(s, i) = "!" THEN parse_and(s, i + 1) ELSE parse_or(s, i + 1)
  IN  CASE Tok(s, i) = "!" -> IF e.ok THEN Parsed(Junction("!", <<e.e>>), e.i) ELSE Failed
        [] Tok(s, i) = "(" -> IF e.ok /\ Tok(s, e.i) = ")" THEN Parsed(e.e, e.i + 1) ELSE Failed
        [] Tok(s, i) = "\\" \/ IsString(Tok(s, i)) -> parse_comparison(s, i)
        [] OTHER -> Failed

parse_primary(s, i) ==
  LET e == IF Tok(s, i) = "!" THEN parse_primary(s, i + 1) ELSE parse_or(s, i + 1)
  IN  CASE Tok(s, i) = "!" -> IF e.ok THEN Parsed(Junction("!", <<e.e>>), e.i) ELSE Failed
        [] Tok(s, i) = "(" -> IF e.ok /\ Tok(s, e.i) = ")" THEN Parsed(e.e, e.i + 1) ELSE Failed
        [] Tok(s, i) = "\\" \/ IsString(Tok(s, i)) -> parse_comparison(s, i)
        [] OTHER -> Failed

\* The loops of parse_and and parse_or: left, then an operand for each op.
Chain(s, left, op, i) ==
  IF ~left.ok \/ Tok(s, left.i) /= op THEN left
  ELSE LET right == IF op = "&&" THEN parse_primary(s, left.i + 1) ELSE parse_and(s, left.i + 1)
       IN  IF right.ok
           THEN Chain(s, Parsed(expr_create_binary(op, left.e, right.e), right.i), op, i)
           ELSE Failed

parse_and(s, i) == Chain(s, parse_primary(s, i), "&&", i)
parse_or(s, i)  == Chain(s, parse_and(s, i), "||", i)

expr_parse(s) ==
  LET r == parse_or(s, 1) IN IF s /= <<>> /\ r.ok /\ Tok(s, r.i) = "EOF" THEN r ELSE Failed

---------------------------------------------------------------------------
(* Evaluation. The field cursor of the record moves to the fields looked   *)
(* at: a result is the truth value and the cursor, 0 for NULL.             *)

Res(v, cur) == [v |-> v, cur |-> cur]

\* nvlist_find_name from a position: 0 when there is none, and then the
\* cursor stays.
FieldAt(r, name, from) ==
  LET found == {i \in DOMAIN r.fields : from > 0 /\ i >= from /\ r.fields[i].name = name}
  IN  IF found = {} THEN 0 ELSE Min(found)
FirstCur(r) == IF r.fields = <<>> THEN 0 ELSE 1
OnField(r, name) == IF FieldAt(r, name, 1) > 0 THEN FieldAt(r, name, 1) ELSE FirstCur(r)

strtoul(v) == IF v \in DOMAIN NumberOf THEN NumberOf[v] % UINT32 ELSE 0

Sign(a, b) == IF a < b THEN -1 ELSE IF a > b THEN 1 ELSE 0

compare_unsigned_values(a, b) == Sign(a, b)

\* \timestamp ignores the serial number, \timestamp_ex does not.
compare_values(r, e) ==
  IF e.field = "record_type" THEN Sign(r.type, TypeOfName[e.value])
  ELSE LET t == StampOf[e.value]
       IN  IF r.stamp.sec /= t.sec THEN Sign(r.stamp.sec, t.sec)
           ELSE IF r.stamp.milli /= t.milli THEN Sign(r.stamp.milli, t.milli)
           ELSE IF e.field = "timestamp" THEN 0
           ELSE Sign(r.stamp.serial, t.serial)

Ordered(op, cmp) ==
  CASE op = "==" -> cmp = 0
    [] op = "!==" -> cmp /= 0
    [] op = "<" -> cmp < 0
    [] op = "<=" -> cmp <= 0
    [] op = ">" -> cmp > 0
    [] OTHER -> cmp >= 0

eval_raw_value(r, i) == r.fields[i].raw
eval_interpreted_value(r, i) == r.fields[i].interp

EvalField(r, e, cur) ==
  LET i == FieldAt(r, e.field, 1)
      c == OnField(r, e.field)
  IN  CASE i = 0 -> Res(FALSE, c)
        [] e.op = "r="  -> Res(eval_raw_value(r, i) = e.value, c)
        [] e.op = "r!=" -> Res(eval_raw_value(r, i) /= e.value, c)
        [] e.op = "i="  -> Res(eval_interpreted_value(r, i) = e.value, c)
        [] e.op = "i!=" -> Res(eval_interpreted_value(r, i) /= e.value, c)
        [] e.op = "exists" -> Res(TRUE, c)
        [] OTHER -> Res(Ordered(e.op, compare_unsigned_values(strtoul(eval_raw_value(r, i)), strtoul(e.value))), c)

EvalVirtual(r, e, cur) ==
  Res(e.op \in ValueOps /\ Ordered(e.op, compare_values(r, e)), cur)

Matches(text, re) == text = re

RECURSIVE expr_eval(_, _, _)
expr_eval(r, e, cur) ==
  CASE e.op = "!"  -> LET a == expr_eval(r, e.sub[1], cur) IN Res(~a.v, a.cur)
    [] e.op = "&&" -> LET a == expr_eval(r, e.sub[1], cur)
                      IN  IF a.v THEN expr_eval(r, e.sub[2], a.cur) ELSE a
    [] e.op = "||" -> LET a == expr_eval(r, e.sub[1], cur)
                      IN  IF a.v THEN a ELSE expr_eval(r, e.sub[2], a.cur)
    [] e.op = "regexp" -> Res(Matches(r.text, e.value), cur)
    [] e.virtual -> EvalVirtual(r, e, cur)
    [] OTHER -> EvalField(r, e, cur)

---------------------------------------------------------------------------
(* The grammar of the comment above the parser, as the set of trees of a   *)
(* token sequence.                                                         *)

RECURSIVE OrTrees(_), AndTrees(_), PrimaryTrees(_)

Splits(s, op) == {i \in DOMAIN s : s[i] = op}
Before(s, i) == SubSeq(s, 1, i - 1)
After(s, i)  == SubSeq(s, i + 1, Len(s))

PrimaryTrees(s) ==
  LET n == Len(s)
  IN  IF n = 0 THEN {}
      ELSE {Junction("!", <<t>>) : t \in IF s[1] = "!" THEN PrimaryTrees(Tail(s)) ELSE {}}
      \cup (IF s[1] = "(" /\ s[n] = ")" THEN OrTrees(SubSeq(s, 2, n - 1)) ELSE {})
      \cup (IF n \in {3, 4} /\ (s[1] = "\\" \/ IsString(s[1])) /\ parse_comparison(s, 1).i = n + 1
            THEN {parse_comparison(s, 1).e} ELSE {})

AndTrees(s) ==
  PrimaryTrees(s) \cup
  UNION {{Junction("&&", <<a, b>>) : a \in AndTrees(Before(s, i)), b \in PrimaryTrees(After(s, i))} : i \in Splits(s, "&&")}

OrTrees(s) ==
  AndTrees(s) \cup
  UNION {{Junction("||", <<a, b>>) : a \in OrTrees(Before(s, i)), b \in AndTrees(After(s, i))} : i \in Splits(s, "||")}

---------------------------------------------------------------------------
ExprInit == exprText = <<>> /\ exprPhrases = 0

WritePhrase ==
  /\ exprPhrases < MaxPhrases
  /\ \E ph \in Phrases : exprText' = exprText \o ph
  /\ exprPhrases' = exprPhrases + 1

ExprNext == WritePhrase
exprVars == <<exprText, exprPhrases>>

\* expr_parse accepts exactly the token sequences of the grammar in the
\* comment of expression.c, and the tree it returns is the only one the
\* grammar gives: ! binds closest, && before ||, both to the left.
ExprGrammar ==
  LET r == expr_parse(exprText)
  IN  OrTrees(exprText) = IF r.ok THEN {r.e} ELSE {}
=============================================================================
