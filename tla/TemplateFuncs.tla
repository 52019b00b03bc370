---------------------------- MODULE TemplateFuncs ----------------------------
(***************************************************************************)
(* The template functions that compute on JSON values: lists, maps,        *)
(* numbers, merging and version constraints.  `args` are a function's      *)
(* arguments in the order the code takes them in.                          *)
(***************************************************************************)
EXTENDS SequencesExt, FiniteSetsExt, TLC

CONSTANT IntMax   \* the largest i64

ASSUME IntRange == IntMax \in Nat \ {0}

IntMin == - IntMax - 1

Scalar(text) == [type |-> "string", text |-> text]
Number(n) == [type |-> "number", n |-> n]
Bool(b) == [type |-> "bool", bool |-> b]
List(items) == [type |-> "array", items |-> items]
Map(fields) == [type |-> "object", fields |-> fields]
Null == [type |-> "null"]
Error == [type |-> "error"]

is_empty(value) ==
  CASE value.type = "null" -> TRUE
    [] value.type = "string" -> value.text = ""
    [] value.type = "number" -> value.n = 0
    [] value.type = "bool" -> ~ value.bool
    [] value.type = "array" -> value.items = <<>>
    [] value.type = "object" -> DOMAIN value.fields = {}

default(value, def) == IF is_empty(value) THEN def ELSE value

\* The first that is not empty, or null.
coalesce(args) ==
  LET full == {i \in DOMAIN args : ~ is_empty(args[i])}
  IN  IF full = {} THEN Null ELSE args[Min(full)]

first(value) ==
  IF value.type = "array" /\ value.items # <<>> THEN Head(value.items) ELSE Null

last(value) ==
  IF value.type = "array" /\ value.items # <<>> THEN Last(value.items) ELSE Null

append(value, item) ==
  IF value.type = "array" THEN List(Append(value.items, item)) ELSE Error

prepend(value, item) ==
  IF value.type = "array" THEN List(<<item>> \o value.items) ELSE Error

\* Lists one behind the other; anything else as an item.
concat(args) ==
  List(FoldLeft(LAMBDA items, arg :
                  IF arg.type = "array" THEN items \o arg.items ELSE Append(items, arg),
                <<>>, args))

\* Each item where it stands first.
uniq(value) ==
  IF value.type # "array" THEN Error
  ELSE List(FoldLeft(LAMBDA seen, item :
                       IF item \in Range(seen) THEN seen ELSE Append(seen, item),
                     <<>>, value.items))

-----------------------------------------------------------------------------

Has(value, key) == value.type = "object" /\ key \in DOMAIN value.fields

\* The values under a key of those maps in a list that have it.
pluck(value, key) ==
  IF value.type # "array" THEN Error
  ELSE LET having == SelectSeq(value.items, LAMBDA item : Has(item, key))
       IN  List([i \in DOMAIN having |-> having[i].fields[key]])

Restricted(fields, keys) == [k \in DOMAIN fields \cap keys |-> fields[k]]

pick(value, keys) ==
  IF value.type # "object" THEN Error ELSE Map(Restricted(value.fields, keys))

omit(value, keys) ==
  IF value.type # "object" THEN Error
  ELSE Map(Restricted(value.fields, DOMAIN value.fields \ keys))

set(value, key, new) ==
  IF value.type # "object" THEN Error ELSE Map((key :> new) @@ value.fields)

unset(value, key) == omit(value, {key})

get(value, key) ==
  IF value.type # "object" THEN Error
  ELSE IF Has(value, key) THEN value.fields[key] ELSE Scalar("")

mustGet(value, key) == IF Has(value, key) THEN value.fields[key] ELSE Error

\* Down the keys; the default where a key is missing or what is there is no map.
dig(keys, def, map) ==
  LET step(at, key) ==
        [cur |-> IF at.ok /\ Has(at.cur, key) THEN at.cur.fields[key] ELSE at.cur,
         ok |-> at.ok /\ Has(at.cur, key)]
      end == FoldLeft(step, [cur |-> map, ok |-> TRUE], keys)
  IN  IF end.ok THEN end.cur ELSE def

-----------------------------------------------------------------------------
(* Merging.                                                                *)

BothMaps(dst, src, key) == dst[key].type = "object" /\ src[key].type = "object"

\* mergeOverwrite: src wins, maps are merged.
RECURSIVE merge_into(_, _)
merge_into(dst, src) ==
  [k \in DOMAIN dst \cup DOMAIN src |->
     IF k \notin DOMAIN src THEN dst[k]
     ELSE IF k \in DOMAIN dst /\ BothMaps(dst, src, k)
          THEN Map(merge_into(dst[k].fields, src[k].fields))
     ELSE src[k]]

\* merge: what is there stays, maps are merged.
RECURSIVE merge_missing(_, _)
merge_missing(dst, src) ==
  [k \in DOMAIN dst \cup DOMAIN src |->
     IF k \notin DOMAIN dst THEN src[k]
     ELSE IF k \in DOMAIN src /\ BothMaps(dst, src, k)
          THEN Map(merge_missing(dst[k].fields, src[k].fields))
     ELSE dst[k]]

Merged(Two(_, _), args) ==
  IF args = <<>> \/ \E i \in DOMAIN args : args[i].type # "object" THEN Error
  ELSE Map(FoldLeft(LAMBDA dst, arg : Two(dst, arg.fields), Head(args).fields, Tail(args)))

merge(args) == Merged(merge_missing, args)
mergeOverwrite(args) == Merged(merge_into, args)

-----------------------------------------------------------------------------
(* Numbers.  A release build wraps where the code uses the plain operator. *)

Saturated(n) == IF n > IntMax THEN IntMax ELSE IF n < IntMin THEN IntMin ELSE n

Wrapped(n) == ((n - IntMin) % (IntMax - IntMin + 1)) + IntMin

\* Towards zero, as Rust divides.
Quotient(a, b) ==
  LET abs(n) == IF n < 0 THEN - n ELSE n
      quotient == abs(a) \div abs(b)
  IN  IF (a < 0) = (b < 0) THEN quotient ELSE - quotient

sum_numbers(ns) == FoldLeft(LAMBDA sum, n : Saturated(sum + n), 0, ns)
mul(ns) == FoldLeft(LAMBDA product, n : Saturated(product * n), 1, ns)
sub(a, b) == Wrapped(a - b)

\* The least number by -1 has no quotient: the division panics.
Panics(a, b) == a = IntMin /\ b = -1

div(a, b) ==
  IF b = 0 THEN Error ELSE IF Panics(a, b) THEN [type |-> "panic"] ELSE Number(Quotient(a, b))

mod(a, b) ==
  IF b = 0 THEN Error ELSE IF Panics(a, b) THEN [type |-> "panic"]
  ELSE Number(a - b * Quotient(a, b))

-----------------------------------------------------------------------------
(* Versions: major, minor, patch and the identifiers of a prerelease, each *)
(* a number or a word; words are told by their place in the alphabet.      *)

Compare(a, b) == IF a < b THEN -1 ELSE IF a > b THEN 1 ELSE 0

\* The first that is not zero.
Then(orders) ==
  LET decided == {i \in DOMAIN orders : orders[i] # 0}
  IN  IF decided = {} THEN 0 ELSE orders[Min(decided)]

\* Numbers come before words.
CompareIdent(x, y) ==
  IF x.number = y.number THEN Compare(x.rank, y.rank) ELSE IF x.number THEN -1 ELSE 1

\* Wrong: no prerelease comes before every prerelease, as the empty list
\* before the others.
cmp_pre_short(a, b) ==
  Then([i \in 1 .. Min({Len(a), Len(b)}) |-> CompareIdent(a[i], b[i])]
         \o <<Compare(Len(a), Len(b))>>)

\* A version without prerelease comes behind its prereleases.
cmp_pre(a, b) ==
  IF a = <<>> \/ b = <<>> THEN Compare(IF a = <<>> THEN 1 ELSE 0, IF b = <<>> THEN 1 ELSE 0)
  ELSE Then([i \in 1 .. Min({Len(a), Len(b)}) |-> CompareIdent(a[i], b[i])]
              \o <<Compare(Len(a), Len(b))>>)

cmp_semver(a, b) ==
  Then(<<Compare(a.major, b.major), Compare(a.minor, b.minor), Compare(a.patch, b.patch),
         cmp_pre(a.pre, b.pre)>>)

check_single_constraint(op, target, version) ==
  LET ord == cmp_semver(version, target)
  IN  CASE op = "==" -> ord = 0
        [] op = "!=" -> ord # 0
        [] op = ">" -> ord = 1
        [] op = "<" -> ord = -1
        [] op = ">=" -> ord # -1
        [] op = "<=" -> ord # 1
        [] op = "^" ->
             /\ ord # -1
             /\ CASE target.major > 0 -> version.major = target.major
                  [] target.major = 0 /\ target.minor > 0 ->
                       version.major = 0 /\ version.minor = target.minor
                  [] OTHER -> version.major = 0 /\ version.minor = 0
                              /\ version.patch = target.patch
        [] op = "~" ->
             ord # -1 /\ version.major = target.major /\ version.minor = target.minor

\* All clauses must hold.
semver_compare(clauses, version) ==
  \A i \in DOMAIN clauses : check_single_constraint(clauses[i].op, clauses[i].target, version)
=============================================================================
