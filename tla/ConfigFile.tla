----------------------------- MODULE ConfigFile -----------------------------
(***************************************************************************)
(* How the daemon and its plugins read a configuration file.  Five files   *)
(* of the repository hold a copy of the same loader: open and check the    *)
(* file, split each line into name, value and option, look the name up in  *)
(* a table, call the keyword's parser, and check the whole at the end.     *)
(* This module is the loader; a program is the record of the ways in which *)
(* its copy differs, an operator that dispatches to its keyword parsers,   *)
(* and its sanity check.                                                   *)
(*                                                                         *)
(* A line is [kind, name, value, option, ending].  Kind "blank" is an      *)
(* empty line or a comment, "bare" one whose value nv_split leaves NULL    *)
(* (no equal sign, or nothing after it), "pair" one with a value.  Ending  *)
(* "newline" is a line that fits the buffer, "long" one that does not, and *)
(* "none" a last line without a newline.                                   *)
(*                                                                         *)
(* A value is [word, n, to]: word "#" is a number n, "%" a number and a    *)
(* percent sign, "-" a range of numbers n to `to', and any other word      *)
(* itself.  Numbers are scaled, in the order of the C limits:              *)
(* INT_MAX < 2^32 < 2^64, all above every limit the parsers spell out.     *)
(***************************************************************************)
EXTENDS Integers, Sequences, SequencesExt

NULL    == "NULL"
INT_MAX == 499999
Two32   == 1000000      \* 2^32, the width of an unsigned int
Two64   == 2000000      \* 2^64: strtoul sets errno

Ok(c)  == [conf |-> c, rc |-> 0]
Bad(c) == [conf |-> c, rc |-> 1]
Set(c, field, v) == Ok([c EXCEPT ![field] = v])

\* The table lookups: strcasecmp against each word, "Option %s not found".
Word(c, nv, field, words) ==
  IF nv.value.word \in words THEN Set(c, field, nv.value.word) ELSE Bad(c)

YesNo(c, nv, field) ==
  IF nv.value.word \in {"yes", "no"}
  THEN Set(c, field, IF nv.value.word = "yes" THEN 1 ELSE 0) ELSE Bad(c)

\* Digits only, strtoul without errno, and the range, all on an unsigned long.
Number(c, nv, field, lo, hi) ==
  IF nv.value.word = "#" /\ nv.value.n < Two64 /\ nv.value.n \in lo..hi
  THEN Set(c, field, nv.value.n) ELSE Bad(c)

Text(c, nv, field) == Set(c, field, nv.value.word)

\* A failure action: its word, and for exec the program named by the option.
Action(c, nv, field, exe, words, ExeOk(_)) ==
  CASE nv.value.word \notin words -> Bad(c)
    [] nv.value.word = "exec" ->
         IF nv.option = NULL \/ ~ExeOk(nv.option) THEN Bad(c)
         ELSE Ok([c EXCEPT ![field] = "exec", ![exe] = nv.option])
    [] OTHER -> Set(c, field, nv.value.word)

----------------------------------------------------------------------------
\* The rest of a line that did not fit the buffer of a get_line that does
\* not skip: it is read as a line of its own, and holds no equal sign.
Rest == [kind |-> "bare", name |-> NULL, value |-> [word |-> NULL, n |-> 0, to |-> 0],
         option |-> NULL, ending |-> "newline"]

\* get_line: the lines one line of the file is delivered as.
get_line(P, line) ==
  CASE P.skips /\ line.ending # "newline" -> << >>
    [] ~P.skips /\ line.ending = "long"   -> <<line, Rest>>
    [] OTHER -> <<line>>

\* nv_split, kw_lookup, the check of the options and the keyword's parser.
Take(P, Parse(_, _), ld, nv) ==
  CASE ld.rc # 0 -> ld
    [] nv.kind = "blank" -> [ld EXCEPT !.lineno = @ + 1]
    [] nv.kind = "bare"  -> [ld EXCEPT !.rc = 1]
    [] nv.kind = "pair" /\ nv.name \notin P.keywords ->
         IF P.strict THEN [ld EXCEPT !.rc = 1] ELSE [ld EXCEPT !.lineno = @ + 1]
    [] nv.kind = "pair" /\ nv.name \in P.keywords ->
         IF P.strict /\ nv.option # NULL /\ nv.name \notin P.options
         THEN [ld EXCEPT !.rc = 1]
         ELSE LET r == Parse(ld.conf, nv)
              IN  [conf |-> r.conf, rc |-> r.rc, lineno |-> ld.lineno + 1]

ReadLine(P, Parse(_, _), ld, line) ==
  LET ld1 == IF P.skips /\ line.ending = "long" THEN [ld EXCEPT !.lineno = @ + 1] ELSE ld
  IN  FoldLeft(LAMBDA l, nv : Take(P, Parse, l, nv), ld1, get_line(P, line))

\* The loader: status is what open and fstat say of the file.  The sanity
\* check is skipped when no line was counted.
Load(P, Parse(_, _), Sane(_), clear, status, file) ==
  CASE status = "missing" -> [conf |-> clear, rc |-> P.missing]
    [] status = "unsafe" /\ P.checked -> Bad(clear)
    [] OTHER ->
         LET ld == FoldLeft(LAMBDA l, line : ReadLine(P, Parse, l, line),
                            [conf |-> clear, rc |-> 0, lineno |-> 1], file)
         IN  IF ld.rc = 0 /\ ld.lineno > 1 /\ ~Sane(ld.conf)
             THEN Bad(ld.conf) ELSE [conf |-> ld.conf, rc |-> ld.rc]

----------------------------------------------------------------------------
\* Two neighbouring lines exchanged, and a file without the pairs whose
\* keyword occurs again further down: what the properties compare with.
Swapped(file, i) == [file EXCEPT ![i] = file[i + 1], ![i + 1] = file[i]]

Repeated(file, i) ==
  /\ file[i].kind = "pair"
  /\ \E j \in i + 1 .. Len(file) : file[j].kind = "pair" /\ file[j].name = file[i].name

LastOnes(file) ==
  LET kept == {i \in DOMAIN file : ~Repeated(file, i)}
  IN  [k \in 1..Cardinality(kept) |->
         file[CHOOSE i \in kept : Cardinality({j \in kept : j <= i}) = k]]
=============================================================================
