---------------------------- MODULE RuleOptions -----------------------------
(***************************************************************************)
(* How auditctl turns the options of one line into a kernel rule, and the  *)
(* rules it lists back into options: the rule options of setopt            *)
(* (auditctl.c), the audit_rule_* functions of libaudit.c, print_rule      *)
(* (auditctl-listing.c).                                                   *)
(*                                                                         *)
(* An option is a record [o, x, op, v, l]: its letter; for -a, -A, -d the  *)
(* two words x and v around the comma op, for -F and -C the field x, the   *)
(* operator op and the value v, for -S the names l, otherwise only v.      *)
(* Values are classes of text: "0" a small number, "max" 2^32-1 in digits, *)
(* "-1", "name" a name the field knows, "" nothing, "long" over the limit, *)
(* anything else a word nobody knows. Keys are not empty.                  *)
(*                                                                         *)
(* A rule keeps the texts of its fields in buf, one after the other; a     *)
(* text is a sequence of parts, several only in a joined key.              *)
(*                                                                         *)
(* The lines an administrator may type grow by one option at a time, in    *)
(* every order; each is asked for the rule auditctl would send, how the    *)
(* kernel's copy of it is listed, and what the listing makes when it is    *)
(* loaded again.  A world is [base, options, max]: how the line begins,    *)
(* the options that may follow and the number of options.                  *)
(***************************************************************************)
EXTENDS Integers, Sequences, SequencesExt, TLC

CONSTANTS
  SyscallNumber,   \* the syscall tables: [elf type -> [name -> number]]
  Digits,   \* syscalls given as a number: [text -> number]
  Features, \* the feature bits of the kernel
  RuleWorlds

VARIABLES ruleWorld, line

Native   == "elf64"
AllCalls == UNION {{SyscallNumber[e][n] : n \in DOMAIN SyscallNumber[e]} : e \in DOMAIN SyscallNumber} \cup {0, 1000}

Unset == "unset"
Lists == {"task", "exit", "user", "filesystem", "exclude"}
NoCalls == {"task", "user", "filesystem", "exclude"}

Opt(o)              == [o |-> o, x |-> "", op |-> "", v |-> "", l |-> <<>>]
Arg(o, v)           == [Opt(o) EXCEPT !.v = v]
OnList(o, x, v)     == [Opt(o) EXCEPT !.x = x, !.op = ",", !.v = v]
Calls(l)            == [Opt("S") EXCEPT !.l = l]
Field(f, op, v)     == [Opt("F") EXCEPT !.x = f, !.op = op, !.v = v]
Compare(f, op, g)   == [Opt("C") EXCEPT !.x = f, !.op = op, !.v = g]

audit_rule_init_data == [flags |-> Unset, action |-> "none", mask |-> {}, fields |-> <<>>, buf |-> <<>>]

\* What reset_vars leaves before each line.
reset_vars ==
  [ret |-> 0, stop |-> FALSE, add |-> Unset, del |-> Unset, prepend |-> FALSE, action |-> "none",
   exclude |-> FALSE, multiple |-> 0, syscalladded |-> FALSE, permadded |-> FALSE,
   exeadded |-> FALSE, filterfsadded |-> FALSE, elf |-> "none", key |-> <<>>,
   rule |-> audit_rule_init_data]

Ret(s, n)  == [s EXCEPT !.ret = n]
\* "return n" in the middle of setopt: what follows the loop is skipped.
Stop(s, n) == [s EXCEPT !.ret = n, !.stop = TRUE]

----------------------------------------------------------------------------
\* libaudit.c: building the rule.

AUDIT_MAX_FIELDS == 64
AUDIT_MAX_KEY_LEN == 3     \* in parts of a key

audit_name_to_syscall(elf, name) ==
  IF name \in DOMAIN SyscallNumber[elf] THEN SyscallNumber[elf][name]
  ELSE IF name \in DOMAIN Digits THEN Digits[name] ELSE -1

\* The rule, or nothing if the name means no syscall of that machine.
audit_rule_syscallbyname_data(rule, elf, name) ==
  LET machine == IF elf = "none" THEN Native ELSE elf
      nr == audit_name_to_syscall(machine, name)
  IN  IF name = "all" THEN {[rule EXCEPT !.mask = AllCalls]}
      ELSE {[rule EXCEPT !.mask = @ \cup {nr}] : n \in {k \in {nr} : k >= 0}}

parse_syscall(s, names) ==
  FoldLeft(LAMBDA rs, n : UNION {audit_rule_syscallbyname_data(r, s.elf, n) : r \in rs},
           {s.rule}, names)

UidFields == {"uid", "euid", "suid", "fsuid", "auid", "obj_uid"}
GidFields == {"gid", "egid", "sgid", "fsgid", "obj_gid"}
NumFields == {"pid", "ppid", "pers", "devmajor", "devminor", "inode", "success"}
ObjTexts  == {"obj_user", "obj_role", "obj_type", "obj_lev_low", "obj_lev_high"}
SubjTexts == {"subj_user", "subj_role", "subj_type", "subj_sen", "subj_clr"}
Args      == {"a0", "a1", "a2", "a3"}
Others    == {"exit", "msgtype", "path", "dir", "key", "exe", "arch", "perm", "filetype",
              "fstype", "sessionid", "saddr_fam"}
FieldNames == UidFields \cup GidFields \cup NumFields \cup ObjTexts \cup SubjTexts \cup Args \cup Others

\* The fields whose value goes to buf.
Texts == ObjTexts \cup SubjTexts \cup {"path", "dir", "key", "exe"}

\* The fields that make sense only when a system call returns.
ExitOnly == ObjTexts \cup {"exit", "path", "dir", "perm", "filetype", "ppid", "devmajor", "devminor",
                           "inode", "success"}

AllowedOn(f, list) ==
  /\ list = "exclude" =>
       \/ f = "msgtype"
       \/ "exclude_extend" \in Features /\ f \in {"pid", "uid", "gid", "auid", "exe"} \cup SubjTexts
  /\ list = "filesystem" => "filter_fs" \in Features
  /\ f = "exe" => "executable_path" \in Features
  /\ f \in ExitOnly => list = "exit"
  /\ f = "msgtype"   => list \in {"exclude", "user"}
  /\ f = "fstype"    => list = "filesystem"
  /\ f = "sessionid" => "sessionid_filter" \in Features /\ list \in {"exclude", "user", "exit"}

OperatorFor(f, op) ==
  /\ f \in {"exe", "arch", "fstype", "inode"} => op \in {"=", "!="}
  /\ f = "perm" => op = "="

Elf == ("b64" :> "elf64") @@ ("b32" :> "elf32") @@ ("0x64" :> "elf64") @@ ("0x32" :> "elf32") @@
       ("ppc64" :> "elfppc")
Perms == {"r", "rwxa"}

\* The number a value means to a field, "" if it means none. A user named
\* "name" is root, the errno "name" is -EPERM.
IdValue(f, v) ==
  CASE v \in {"0", "name"} -> "0" [] v = "max" -> "max"
    [] v \in {"-1", "unset"} /\ f \in UidFields -> "max" [] OTHER -> ""

NamedValue(f, v) ==
  CASE f = "exit"      -> CASE v = "0" -> "0" [] v \in {"max", "-1", "name"} -> "max" [] OTHER -> ""
    [] f = "msgtype"   -> CASE v \in {"0", "max"} -> v [] v = "name" -> "id" [] OTHER -> ""
    [] f = "arch"      -> IF v \in DOMAIN Elf THEN Elf[v] ELSE ""
    [] f = "perm"      -> IF v \in Perms THEN v ELSE ""
    [] f = "filetype"  -> IF v = "name" THEN "id" ELSE ""
    [] f = "fstype"    -> CASE v = "0" -> "0" [] v = "name" -> "id" [] OTHER -> ""

NumberValue(f, v) ==
  CASE f \in Args      -> CASE v = "0" -> "0" [] v \in {"max", "-1"} -> "max" [] OTHER -> ""
    [] f = "sessionid" -> IF v \in {"max", "-1", "unset"} THEN "max" ELSE "0"
    [] f = "saddr_fam" -> IF v \in {"max", "-1"} THEN "" ELSE "0"
    [] f \in NumFields -> IF v \in {"0", "max"} THEN v ELSE ""

Value(f, v) ==
  CASE f \in UidFields \cup GidFields -> IdValue(f, v)
    [] f \in {"exit", "msgtype", "arch", "perm", "filetype", "fstype"} -> NamedValue(f, v)
    [] f \in Args \cup NumFields \cup {"sessionid", "saddr_fam"} -> NumberValue(f, v)
    [] OTHER -> IF v = "long" THEN "" ELSE "text"

Keyable(s) == s.syscalladded \/ s.permadded \/ s.exeadded \/ s.filterfsadded

\* The table of the syscalls already given depends on the architecture.
ArchMisplaced(s, f) == f = "arch" /\ s.syscalladded

\* Adds field f with the text parts, or the value v; an error leaves -1.
AddField(s, f, op, v, parts, flags) ==
  LET value == Value(f, v)
      ok == /\ Len(s.rule.fields) < AUDIT_MAX_FIELDS - 1
            /\ op # "" /\ v # "" /\ f \in FieldNames
            /\ AllowedOn(f, flags) /\ OperatorFor(f, op)
            /\ ~ArchMisplaced(s, f)
            /\ f = "key" => Keyable(s)
            /\ value # ""
  IN  IF ~ok THEN Ret(s, -1)
      ELSE [s EXCEPT !.rule.fields = Append(@, [f |-> f, op |-> op, v |-> value]),
                     !.rule.buf = IF f \in Texts THEN Append(@, parts) ELSE @,
                     !.permadded = @ \/ f \in {"path", "dir", "perm"},
                     !.exeadded = @ \/ f = "exe",
                     !.filterfsadded = @ \/ f = "fstype",
                     !.elf = IF f = "arch" THEN value ELSE @]

audit_rule_fieldpair_data(s, t, flags) == AddField(s, t.x, t.op, t.v, <<t.v>>, flags)

ComparableUids(f, g) == f # g /\ {f, g} \subseteq UidFields
ComparableGids(f, g) == f # g /\ {f, g} \subseteq GidFields

\* The order in which the kernel's constants and the listing name a pair.
Rank(f) == CHOOSE i \in 1..11 :
  <<"uid", "auid", "euid", "suid", "fsuid", "obj_uid", "gid", "egid", "sgid", "fsgid", "obj_gid">>[i] = f
Ordered(f, g) == IF Rank(f) < Rank(g) THEN <<f, g>> ELSE <<g, f>>

audit_rule_interfield_comp_data(s, t, flags) ==
  LET ok == /\ Len(s.rule.fields) < AUDIT_MAX_FIELDS - 1
            /\ t.op \in {"=", "!="}
            /\ t.x \in UidFields \cup GidFields /\ t.v \in UidFields \cup GidFields
            /\ flags = "exit"
            /\ ComparableUids(t.x, t.v) \/ ComparableGids(t.x, t.v)
      pair == Ordered(t.x, t.v)
  IN  IF ~ok THEN Ret(s, -1)
      ELSE [s EXCEPT !.rule.fields = Append(@, [f |-> pair[1], op |-> t.op, v |-> pair[2]])]

audit_add_watch_dir(type, path) ==
  [audit_rule_init_data EXCEPT !.flags = "exit", !.action = "always", !.mask = AllCalls,
                               !.fields = <<[f |-> type, op |-> "=", v |-> "text"],
                                            [f |-> "perm", op |-> "=", v |-> "rwxa"]>>,
                               !.buf = <<<<path>>>>]

\* A second value replaces the first.
audit_update_watch_perms(s, v) ==
  LET fs == s.rule.fields
      at == {i \in DOMAIN fs : fs[i].f = "perm"}
  IN  CASE fs = <<>> -> Ret(s, -1)
        [] fs # <<>> /\ at # {} ->
             [Ret(s, 1) EXCEPT !.rule.fields = [i \in DOMAIN fs |-> IF i \in at THEN [fs[i] EXCEPT !.v = v]
                                                                     ELSE fs[i]], !.permadded = TRUE]
        [] fs # <<>> /\ at = {} /\ Len(fs) >= AUDIT_MAX_FIELDS - 1 -> Ret(s, -1)
        [] OTHER -> [Ret(s, 1) EXCEPT !.rule.fields = Append(@, [f |-> "perm", op |-> "=", v |-> v]),
                                      !.permadded = TRUE]

----------------------------------------------------------------------------
\* auditctl.c: one option at a time.

lookup_action(w) == CASE w \in {"never", "always"} -> 0 [] w = "possible" -> 1 [] OTHER -> 2

Multiple(s) == s.multiple # 0

\* Both orders of list and action are understood; side is "add" or "del".
audit_rule_setup(s, t, side) ==
  LET s1 == [s EXCEPT !.multiple = @ + 1]
      first == IF t.x \in Lists THEN 0 ELSE lookup_action(t.x)
      s2 == IF t.x \in Lists
              THEN [s1 EXCEPT ![side] = t.x, !.exclude = @ \/ t.x = "exclude"]
              ELSE [s1 EXCEPT !.action = t.x]
      second == IF s2[side] = Unset THEN 0 ELSE lookup_action(t.v)
      s3 == CASE s2[side] = Unset /\ t.v \in Lists -> [s2 EXCEPT ![side] = t.v, !.exclude = @ \/ t.v = "exclude"]
              [] s2[side] = Unset -> s2
              [] OTHER -> [s2 EXCEPT !.action = t.v]
  IN  CASE Multiple(s) \/ t.op # ","       -> Ret(s1, -1)
        [] first = 2                        -> Ret(s1, -1)
        [] first = 1                        -> Stop(s1, -3)
        [] first = 0 /\ second = 2          -> Ret(s2, -1)
        [] first = 0 /\ second = 1          -> Stop(s2, -3)
        [] s3[side] = Unset \/ s3.action = "none" -> Ret(s3, -1)
        [] OTHER                            -> Ret(s3, 1)

\* -a and -A
Append_rule(s, t) ==
  IF "task" \in {t.x, t.v} /\ s.syscalladded THEN Ret(s, -1) ELSE audit_rule_setup(s, t, "add")
Prepended(n) == [n EXCEPT !.prepend = @ \/ n.ret = 1]
Prepend_rule(s, t) == Prepended(Append_rule(s, t))
Delete_rule(s, t) == audit_rule_setup(s, t, "del")

\* -S
Syscall(s, t) ==
  LET e  == [s EXCEPT !.elf = IF @ = "none" THEN Native ELSE @]
      rs == parse_syscall(e, t.l)
  IN  IF {s.add, s.del} \cap {"task", "user", "filesystem"} # {} \/ s.exclude THEN Stop(s, -1)
      ELSE IF rs = {} THEN Ret(e, -1)
      ELSE [e EXCEPT !.rule = CHOOSE r \in rs : TRUE, !.syscalladded = TRUE]

ListOf(s) == IF s.add # Unset THEN s.add ELSE s.del

\* -k, and -F key=
process_keys(s, v) ==
  IF v = "long" \/ Len(s.key) + 1 > AUDIT_MAX_KEY_LEN THEN Ret(s, -1)
  ELSE [s EXCEPT !.key = Append(@, v)]

Key(s, t) ==
  IF ~Keyable(s) \/ ListOf(s) = Unset THEN Ret(s, -1) ELSE process_keys(s, t.v)

\* -F; trim: the next word of the line is -t
FieldOption(s, t, trim) ==
  CASE ListOf(s) = Unset /\ ~(trim /\ t.x = "arch" /\ t.op = "=") -> Ret(s, -1)
    [] ListOf(s) # Unset /\ t.x = "key" /\ t.op = "=" -> process_keys(s, t.v)
    [] OTHER -> audit_rule_fieldpair_data(s, t, ListOf(s))

CompareOption(s, t) == audit_rule_interfield_comp_data(s, t, ListOf(s))

\* A path is "file" or "dir" by what stat says of it, else unacceptable.
audit_setup_watch_name(s, path) ==
  IF path \notin {"file", "dir"} \/ s.rule.fields # <<>> THEN Ret(s, -1)
  ELSE [Ret(s, 1) EXCEPT !.rule = audit_add_watch_dir(IF path = "dir" THEN "dir" ELSE "path", path),
                         !.permadded = TRUE]

Watch(s, t) ==
  IF s.add # Unset \/ s.del # Unset THEN Ret(s, -1)
  ELSE audit_setup_watch_name([s EXCEPT !.add = "exit", !.action = "always", !.syscalladded = TRUE], t.v)

Unwatch(s, t) ==
  audit_setup_watch_name([s EXCEPT !.del = "exit", !.action = "always", !.syscalladded = TRUE], t.v)

\* -p; both lists "user" is the state the code takes for "no watch given".
audit_setup_perms(s, t) ==
  IF (s.add = "user" /\ ~s.prepend /\ s.del = "user") \/ t.v \notin Perms THEN Ret(s, -1)
  ELSE audit_update_watch_perms(s, t.v)

RuleOption(s, t, trim) ==
  CASE t.o = "a" -> Append_rule(s, t)   [] t.o = "A" -> Prepend_rule(s, t)
    [] t.o = "d" -> Delete_rule(s, t)   [] t.o = "S" -> Syscall(s, t)
    [] t.o = "F" -> FieldOption(s, t, trim) [] t.o = "C" -> CompareOption(s, t)
    [] t.o = "w" -> Watch(s, t)         [] t.o = "W" -> Unwatch(s, t)
    [] t.o = "k" -> Key(s, t)           [] t.o = "p" -> audit_setup_perms(s, t)
    [] OTHER     -> Ret(s, -1)

\* The end of setopt: stray words, then the keys become one field.
AddKeys(s) == AddField(s, "key", "=", "k", s.key, IF ListOf(s) = Unset THEN "user" ELSE ListOf(s))
Finish(s, stray, listed) ==
  LET n == IF stray THEN Ret(s, -1) ELSE s IN IF n.key = <<>> \/ listed THEN n ELSE AddKeys(n)

\* A line of rule options only. The loop ends at the first error.
setopt_loop(opts) ==
  FoldLeft(LAMBDA n, t : IF n.ret < 0 THEN n ELSE RuleOption(n, t, FALSE), reset_vars, opts)

setopt_end(s) == IF s.stop THEN s ELSE Finish(s, FALSE, FALSE)
setopt(opts) == setopt_end(setopt_loop(opts))

\* The rule as handle_request sends it, with every syscall if none was named.
Outgoing(s) ==
  LET r == IF ListOf(s) # "task" /\ ~s.syscalladded THEN [s.rule EXCEPT !.mask = AllCalls] ELSE s.rule
  IN  [r EXCEPT !.flags = ListOf(s), !.action = s.action]

----------------------------------------------------------------------------
\* auditctl-listing.c: a rule as the options that should make it again.

is_watch(r) ==
  /\ \A i \in DOMAIN r.fields : r.fields[i].f \in {"perm", "key", "dir", "path"}
  /\ \E i \in DOMAIN r.fields : r.fields[i].f = "perm"
  /\ r.flags \notin NoCalls => r.mask = AllCalls

\* The elf type print_rule leaves behind: the last arch field's.
ElfOf(r) ==
  LET at == {i \in DOMAIN r.fields : r.fields[i].f = "arch"}
  IN  IF at = {} THEN "none" ELSE r.fields[CHOOSE i \in at : \A j \in at : j <= i].v

print_arch(fd) == Field("arch", fd.op, IF fd.v = "elf32" THEN "b32" ELSE "b64")

SyscallName(elf, nr) ==
  LET m == IF elf = "none" THEN Native ELSE elf
      names == {n \in DOMAIN SyscallNumber[m] : SyscallNumber[m][n] = nr}
      texts == {n \in DOMAIN Digits : Digits[n] = nr}
  IN  CHOOSE n \in (IF names # {} THEN names ELSE texts) : TRUE

print_syscall(r) ==
  CASE r.flags \in NoCalls -> <<>>
    [] r.flags \notin NoCalls /\ r.mask = AllCalls -> <<Calls(<<"all">>)>>
    [] r.flags \notin NoCalls /\ r.mask = {} -> <<>>
    [] OTHER -> <<Calls(SetToSeq({SyscallName(ElfOf(r), nr) : nr \in r.mask}))>>

Chunk_Mutant(fs, i) == Cardinality({j \in 1..i : fs[j].f \in Texts \ {"exe"} \/ j = i})
\* The text of field i: as many texts precede it as print_rule has counted.
Chunk(fs, i) == Cardinality({j \in 1..i : fs[j].f \in Texts})

Number_text(f, v) ==
  CASE f = "exit" -> IF v = "max" THEN "name" ELSE v
    [] f \in Args \cup {"inode"} -> v
    [] f \in {"msgtype", "fstype"} /\ v = "id" -> "name"
    [] OTHER -> CASE v = "max" -> "-1" [] v = "id" -> "number" [] OTHER -> v

\* A watch's path is printed without a space before it: unless it comes
\* first it sticks to the word before, which makes the line unusable.
print_field(r, i) ==
  LET fd == r.fields[i]  watch == is_watch(r)  text == r.buf[Chunk(r.fields, i)]
  IN  CASE fd.f = "arch" -> <<>>
        [] fd.f \in {"path", "dir"} /\ watch -> <<IF i = 1 THEN Arg("w", text[1]) ELSE Opt("glued")>>
        [] fd.f \in {"path", "dir", "exe"} /\ ~(watch /\ fd.f # "exe") -> <<Field(fd.f, "=", text[1])>>
        [] fd.f = "key" -> [k \in DOMAIN text |-> IF watch THEN Arg("k", text[k]) ELSE Field("key", "=", text[k])]
        [] fd.f = "perm" -> <<IF watch THEN Arg("p", fd.v) ELSE Field("perm", "=", fd.v)>>
        [] fd.f \in ObjTexts \cup SubjTexts -> <<Field(fd.f, fd.op, text[1])>>
        [] fd.v \in UidFields \cup GidFields -> <<Compare(fd.f, fd.op, fd.v)>>
        [] OTHER -> <<Field(fd.f, fd.op, Number_text(fd.f, fd.v))>>

print_rule(r) ==
  LET arches == SelectSeq(r.fields, LAMBDA fd : fd.f = "arch")
      head == IF is_watch(r) THEN <<>>
              ELSE <<OnList("a", r.action, r.flags)>> \o [i \in DOMAIN arches |-> print_arch(arches[i])]
                     \o print_syscall(r)
  IN  head \o FlattenSeq([i \in DOMAIN r.fields |-> print_field(r, i)])

\* delete_all.c and the listing take the rules that have the key, in part.
key_match(r, key) ==
  \/ key = <<>>
  \/ \E i \in DOMAIN r.fields : r.fields[i].f = "key" /\ key[1] \in ToSet(r.buf[Chunk(r.fields, i)])

----------------------------------------------------------------------------
\* What the line sends to the kernel: the state and the rule, or nothing.
Request(s) == IF s.ret > 0 THEN {[add |-> s.add # Unset, rule |-> Outgoing(s)]} ELSE {}
Sends(l) == Request(setopt(l))

RuleInit ==
  /\ ruleWorld \in DOMAIN RuleWorlds
  /\ line = RuleWorlds[ruleWorld].base

RuleNext ==
  /\ Len(line) < RuleWorlds[ruleWorld].max
  /\ setopt_loop(line).ret >= 0
  /\ \E t \in RuleWorlds[ruleWorld].options : line' = Append(line, t)
  /\ UNCHANGED ruleWorld

FieldAt(r, P(_)) == \E i \in DOMAIN r.fields : P(r.fields[i])
Before(r, f, g)  == \E i, j \in DOMAIN r.fields : i < j /\ r.fields[i].f = f /\ r.fields[j].f \in g

\* A -w or -W together with a list option, which the code tells apart from
\* a plain list option only in one order.
Mixed(l) ==
  /\ \E i \in DOMAIN l : l[i].o \in {"w", "W"}
  /\ \E i \in DOMAIN l : l[i].o \in {"a", "A", "d"}

\* The rules whose listing does not make them again.
Lossy(r) ==
  \* the operator of these is printed as =
  \/ FieldAt(r, LAMBDA d : d.f \in {"path", "dir", "exe", "key"} /\ d.op # "=")
  \* a file type is printed as a number and read as a name
  \/ FieldAt(r, LAMBDA d : d.f = "filetype")
  \* 2^32-1 is printed as -1, which these do not read
  \/ FieldAt(r, LAMBDA d : d.v = "max" /\ d.f \in GidFields \cup {"msgtype"} \cup (NumFields \ {"inode"}))
  \* the architecture of another machine is printed as b64
  \/ FieldAt(r, LAMBDA d : d.v = "elfppc")
  \* the architecture is printed first
  \/ \E i, j \in DOMAIN r.fields : i < j /\ r.fields[i].f # "arch" /\ r.fields[j].f = "arch"
  \* a rule that looks like a watch is printed as -w without list and action
  \/ is_watch(r) /\ (r.action # "always" \/ r.flags # "exit" \/ r.fields[1].f \notin {"path", "dir"}
                       \/ Len(r.fields) = 1 \/ r.fields[2].f # "perm" \/ Before(r, "perm", {"path", "dir", "perm"}))
  \* syscalls given before a list that takes none, with or without a key
  \/ r.flags \in NoCalls \ {"task"} /\ r.mask # AllCalls
  \/ r.flags \in NoCalls /\ FieldAt(r, LAMBDA d : d.f = "key") /\ ~FieldAt(r, LAMBDA d : d.f \in {"exe", "fstype"})

----------------------------------------------------------------------------
\* PROPERTY: what auditctl -l prints for a rule the kernel holds, given to
\* auditctl again, makes the same rule (print_rule, audit_rule_fieldpair_data),
\* except for the rules Lossy names, which it changes or refuses.
RuleReload ==
  ~Mixed(line) =>
    \A s \in Sends(line) : s.add => (Lossy(s.rule) <=> Sends(print_rule(s.rule)) # {s})

\* PROPERTY: options mean the same in every order in which setopt takes them:
\* two accepted orders of one line make rules with the same list, action,
\* syscalls and fields. Lines with two architectures, two permissions or a
\* watch and a list are left out: there the last one wins.
RuleOrder ==
  LET Swap(i) == [k \in DOMAIN line |-> CASE k = i -> line[i+1] [] k = i + 1 -> line[i] [] OTHER -> line[k]]
      Same(r, q) == /\ r.flags = q.flags /\ r.action = q.action /\ r.mask = q.mask
                    /\ ToBag(r.fields) = ToBag(q.fields)
      Once(P(_)) == \A i, j \in DOMAIN line : P(line[i]) /\ P(line[j]) => i = j
  IN  ~Mixed(line) /\ Once(LAMBDA t : t.x = "arch") /\ Once(LAMBDA t : t.x = "perm" \/ t.o = "p") =>
        \A s \in Sends(line), i \in 1..Len(line) - 1 : \A q \in Sends(Swap(i)) : Same(s.rule, q.rule)

\* PROPERTY: no sequence of options gets a field into a rule on a list that
\* does not take it: audit_rule_fieldpair_data looks at the list when the
\* field is given and nothing changes the list afterwards.
RuleFieldsFit ==
  ~Mixed(line) =>
    \A s \in Sends(line) : \A i \in DOMAIN s.rule.fields :
      LET f == s.rule.fields[i].f IN f # "perm" => AllowedOn(f, s.rule.flags)

\* What a rule line means: the rule survives being listed and loaded again,
\* does not depend on the order of the options, and fits the list it is for.
RuleMeaning == RuleReload /\ RuleOrder /\ RuleFieldsFit
=============================================================================
