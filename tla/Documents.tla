------------------------------ MODULE Documents ------------------------------
(***************************************************************************)
(* What becomes of the texts a user writes before anything is done by      *)
(* them: a template is made tera's, a command line becomes a document, a   *)
(* document becomes stages, and a template's functions give their results. *)
(* A text of one kind is taken at a time.                                  *)
(***************************************************************************)
EXTENDS Template, TemplateFuncs

CONSTANTS
  Lines,   \* command lines, of key=value tokens
  Nodes,   \* YAML documents
  Clouds,  \* #cloud-config documents
  Calls    \* calls of template functions

Yaml == INSTANCE YamlTree
Cloud == INSTANCE CloudConfig

VARIABLES
  kind,    \* what is taken: "template", "line", "yaml", "cloud" or "call"
  given,   \* the text once it is taken, unless it is a template
  result   \* what has been made of it

vars == <<template, tera, kind, given, result>>

Pending == [pending |-> TRUE]

Init ==
  /\ TemplateInit
  /\ given = <<>>
  /\ kind \in {"template", "line", "yaml", "cloud", "call"}
  /\ result = Pending

\* The modifier on a line, such as the kernel's.
ReadLine(line) ==
  /\ given' = <<line>>
  /\ result' = Yaml!dot_notation_modifier(line)

\* expand_merge_keys on a native config.
ExpandMergeKeys(node) ==
  /\ given' = <<node>>
  /\ result' = Yaml!expand_merges_in_node(node)

\* Config::load on a document with the header.
LoadCloudConfig(doc) ==
  /\ given' = <<doc>>
  /\ result' = Cloud!load_from_cloud_config(doc)

\* What a call comes to.
Value(call) ==
  CASE call.fn = "merge" -> merge(call.args)
    [] call.fn = "mergeOverwrite" -> mergeOverwrite(call.args)
    [] call.fn = "semverCompare" -> Bool(semver_compare(call.clauses, call.version))
    [] call.fn = "concat" -> concat(call.args)
    [] call.fn = "uniq" -> uniq(Head(call.args))
    [] call.fn = "coalesce" -> coalesce(call.args)
    [] call.fn = "append" -> append(Head(call.args), call.def)
    [] call.fn = "prepend" -> prepend(Head(call.args), call.def)
    [] call.fn = "default" -> default(Head(call.args), call.def)
    [] call.fn = "set" -> set(Head(call.args), call.key, call.def)
    [] call.fn = "pluck" -> pluck(Head(call.args), call.key)
    [] call.fn = "pick" -> pick(Head(call.args), call.keys)
    [] call.fn = "dig" -> dig(call.keys, call.def, Head(call.args))
    [] call.fn = "add" -> Number(sum_numbers(call.ns))
    [] call.fn = "mul" -> Number(mul(call.ns))
    [] call.fn = "sub" -> Number(sub(call.ns[1], call.ns[2]))
    [] call.fn = "div" -> div(call.ns[1], call.ns[2])
    [] call.fn = "mod" -> mod(call.ns[1], call.ns[2])

CallFunction(call) ==
  /\ given' = <<call>>
  /\ result' = Value(call)

\* Lines, documents and calls are taken as a whole, in one step.
Next ==
  /\ UNCHANGED kind
  /\ \/ kind = "template" /\ ReadTag /\ UNCHANGED <<given, result>>
     \/ /\ UNCHANGED <<template, tera>>
        /\ \/ kind = "line" /\ given = <<>> /\ \E line \in Lines : ReadLine(line)
           \/ kind = "yaml" /\ given = <<>> /\ \E node \in Nodes : ExpandMergeKeys(node)
           \/ kind = "cloud" /\ given = <<>> /\ \E doc \in Clouds : LoadCloudConfig(doc)
           \/ kind = "call" /\ given = <<>> /\ \E call \in Calls : CallFunction(call)

Spec == Init /\ [][Next]_vars

-----------------------------------------------------------------------------

\* What YAML's merge keys mean: the value of a key is the mapping's own, or
\* that of the first of the merged mappings that has one, merged itself.
Sources(node) ==
  IF "<<" \notin DOMAIN node.fields THEN <<>>
  ELSE LET value == node.fields["<<"]
       IN  CASE value.type = "mapping" -> <<value>>
             [] value.type = "sequence" ->
                  SelectSeq(value.items, LAMBDA item : item.type = "mapping")
             [] OTHER -> <<>>

RECURSIVE KeysOf(_)
KeysOf(node) ==
  (DOMAIN node.fields \ {"<<"})
    \cup UNION {KeysOf(Sources(node)[i]) : i \in DOMAIN Sources(node)}

RECURSIVE Meant(_, _)
Meant(node, key) ==
  IF key \in DOMAIN node.fields THEN node.fields[key]
  ELSE LET having == {i \in DOMAIN Sources(node) : key \in KeysOf(Sources(node)[i])}
       IN  Meant(Sources(node)[Min(having)], key)

RECURSIVE Means(_, _)
Means(node, made) ==
  CASE node.type = "mapping" ->
         /\ made.type = "mapping"
         /\ DOMAIN made.fields = KeysOf(node)
         /\ \A k \in KeysOf(node) : Means(Meant(node, k), made.fields[k])
    [] node.type = "sequence" ->
         /\ made.type = "sequence" /\ Len(made.items) = Len(node.items)
         /\ \A i \in DOMAIN node.items : Means(node.items[i], made.items[i])
    [] OTHER -> made = node

\* expand_merge_keys gives a document without merge keys that means the same,
\* also where a merged mapping merges others.
MergeKeysExpanded ==
  (kind = "yaml" /\ given # <<>>) => Means(given[1], result)

\* Two paths that cannot both be in one document, or where one is in the way
\* of the other.
Conflict(p, q) ==
  LET common == {n \in 0 .. Min({Len(p), Len(q)}) : \A i \in 1 .. n : p[i] = q[i]}
      n == Max(common)
  IN  \/ n \in {Len(p), Len(q)}
      \/ p[n + 1].type # q[n + 1].type

RECURSIVE At(_, _)
At(node, path) ==
  IF path = <<>> THEN node
  ELSE LET head == Head(path)
       IN  IF node.type # head.type THEN Yaml!Null
           ELSE IF head.type = "mapping"
                THEN IF head.key \in DOMAIN node.fields
                     THEN At(node.fields[head.key], Tail(path)) ELSE Yaml!Null
           ELSE IF head.index < Len(node.items)
                THEN At(node.items[head.index + 1], Tail(path)) ELSE Yaml!Null

\* Of a line whose quotes are closed, every token that looks like dot notation
\* has its value at its path, unless a later one is in its way, whatever the
\* order of indices and keys: what is behind its `=`, be that nothing, and
\* "true" without one.  The line fails only by an index that does not fit.  One
\* with a quote that is not closed is left out: all its tokens are dropped
\* without an error.
TokensKept ==
  (kind = "line" /\ given # <<>> /\ given[1].closed) =>
    LET tokens == given[1].tokens
        InTheWay(i) == {j \in i + 1 .. Len(tokens) :
                          tokens[j].dotted /\ Conflict(tokens[i].path, tokens[j].path)}
    IN  IF result.ok
        THEN \A i \in DOMAIN tokens :
               (tokens[i].dotted /\ InTheWay(i) = {}) =>
                 At(result.root, tokens[i].path) =
                   Yaml!Scalar(CASE tokens[i].assigned -> tokens[i].value
                                 [] OTHER -> "true")
        ELSE \E i \in DOMAIN tokens : tokens[i].dotted /\ ~ tokens[i].fits

\* A mode is the octal number its digits are, however it is written.
ModeMeant(permissions) ==
  IF permissions = <<>> THEN 0 ELSE Cloud!Number(Head(permissions).digits, 8)

\* No two users are listed under one name.
NamesDiffer(doc) ==
  \A i, j \in DOMAIN doc.users : doc.users[i].name = doc.users[j].name => i = j

\* The texts among the entries one behind the other, and nothing else.
TextsOf(entries, made) ==
  LET texts == {i \in DOMAIN entries : entries[i].string}
  IN  /\ Len(made) = Cardinality(texts)
      /\ \A i \in texts : made[Cardinality({j \in texts : j <= i})] = entries[i].text

HasText(entries) == \E i \in DOMAIN entries : entries[i].string

\* Of a cloud-config that loads, every text is kept: the texts among the
\* commands and packages are there in their order, the boot commands before
\* all of them; each file has its mode; a user's keys are that user's, and if
\* there is any key somebody can log in with one; the stages the document has
\* itself run behind these.  Entries that are no texts (a command written as a
\* list, a package with its version, a list of sudo lines) are dropped without
\* an error, so they are not promised.  Names may not be repeated (the later
\* user has the keys of the later entry only), and a mode may not be an
\* unquoted 0o number, which is taken for decimal.  The guide says of the whole
\* form that it is not read (docs/migrating-from-go-yip.md:146); the code does.
CloudConfigKept ==
  (kind = "cloud" /\ given # <<>>) =>
    LET doc == given[1]
        stages == result.stages
        boot == stages["boot"][1]
        sudo == SelectSeq(doc.users, LAMBDA user : /\ user.name # "" /\ user.sudo.string
                                                   /\ user.sudo.text # "")
        keyed == {user \in Range(doc.users) : user.name # "" /\ HasText(user.ssh_authorized_keys)}
        run == Len(boot.commands) - Len(sudo) - (IF doc.final_message = "" THEN 0 ELSE 1)
        later(key) == IF doc.native /\ key \in DOMAIN doc.stages THEN doc.stages[key] ELSE <<>>
    IN  (result.ok /\ NamesDiffer(doc)) =>
          /\ TextsOf(doc.runcmd, SubSeq(boot.commands, 1, run))
          /\ \A i \in DOMAIN sudo :
               boot.commands[run + i] = [sudo |-> sudo[i].sudo.text, of |-> sudo[i].name]
          /\ TextsOf(doc.packages, boot.install)
          /\ HasText(doc.bootcmd) => TextsOf(doc.bootcmd, stages["boot.before"][1].commands)
          /\ \A i \in DOMAIN doc.write_files :
               LET permissions == doc.write_files[i].permissions
               IN  (permissions = <<>> \/ Head(permissions).prefix # "0o") =>
                     /\ boot.files[i].path = doc.write_files[i].path
                     /\ boot.files[i].mode = ModeMeant(permissions)
          /\ \A user \in keyed :
               TextsOf(user.ssh_authorized_keys, boot.users[user.name].keys)
          /\ keyed = {} => TextsOf(doc.ssh_authorized_keys, boot.ssh_keys)
          /\ \A key \in DOMAIN doc.stages :
               doc.native => IsSuffix(later(key), stages[key])

\* What is written as a text, in a line, a native config or a cloud-config, has
\* its place in what is loaded: see the three parts for what each leaves out.
TextsKept == MergeKeysExpanded /\ TokensKept /\ CloudConfigKept

\* The order of two versions by the rules of semver: the first of the
\* numbers that differs; a release behind its prereleases.
RECURSIVE IdentsBefore(_, _)
IdentsBefore(p, q) ==
  IF q = <<>> THEN FALSE
  ELSE IF p = <<>> THEN TRUE
  ELSE IF p[1] = q[1] THEN IdentsBefore(Tail(p), Tail(q))
  ELSE IF p[1].number # q[1].number THEN p[1].number
  ELSE p[1].rank < q[1].rank

Before(a, b) ==
  \/ a.major < b.major
  \/ a.major = b.major /\ a.minor < b.minor
  \/ a.major = b.major /\ a.minor = b.minor /\ a.patch < b.patch
  \/ /\ a.major = b.major /\ a.minor = b.minor /\ a.patch = b.patch
     /\ a.pre # <<>>
     /\ b.pre = <<>> \/ IdentsBefore(a.pre, b.pre)

\* The version, without prerelease, in front of which ^ and ~ end.
Release(major, minor, patch) == [major |-> major, minor |-> minor, patch |-> patch, pre |-> <<>>]

Ends(op, v) ==
  CASE op = "~" -> Release(v.major, v.minor + 1, 0)
    [] v.major > 0 -> Release(v.major + 1, 0, 0)
    [] v.major = 0 /\ v.minor > 0 -> Release(0, v.minor + 1, 0)
    [] OTHER -> Release(0, 0, v.patch + 1)

SameNumbers(a, b) == a.major = b.major /\ a.minor = b.minor /\ a.patch = b.patch

\* What the comments say of a clause; of the end's own prereleases, which are
\* before it, none is in the range.
Holds(op, v, version) ==
  CASE op = "==" -> ~ Before(v, version) /\ ~ Before(version, v)
    [] op = "!=" -> Before(v, version) \/ Before(version, v)
    [] op = ">" -> Before(v, version)
    [] op = "<" -> Before(version, v)
    [] op = ">=" -> ~ Before(version, v)
    [] op = "<=" -> ~ Before(v, version)
    [] op \in {"^", "~"} -> /\ ~ Before(version, v) /\ Before(version, Ends(op, v))
                            /\ ~ SameNumbers(version, Ends(op, v))

\* What merging maps means, seen from one key: of all maps that have it, the
\* one that counts most gives the value; if that is a map, the values that
\* come next in rank are merged into it, down to the first that is no map for
\* mergeOverwrite, and whichever are maps for merge.
Having(args, key) == SelectSeq(args, LAMBDA arg : Has(arg, key))

UpToLeaf(values) ==
  LET leaves == {i \in DOMAIN values : values[i].type # "object"}
  IN  IF leaves = {} THEN values ELSE SubSeq(values, 1, Min(leaves) - 1)

RECURSIVE MergedAsMeant(_, _, _)
MergedAsMeant(fn, args, made) ==
  LET ranked == IF fn = "merge" THEN args ELSE Reverse(args)
  IN  /\ made.type = "object"
      /\ DOMAIN made.fields = UNION {DOMAIN args[i].fields : i \in DOMAIN args}
      /\ \A key \in DOMAIN made.fields :
           LET having == Having(ranked, key)
               values == [i \in DOMAIN having |-> having[i].fields[key]]
               maps == IF fn = "merge"
                       THEN SelectSeq(values, LAMBDA value : value.type = "object")
                       ELSE Reverse(UpToLeaf(values))
           IN  IF values[1].type # "object" THEN made.fields[key] = values[1]
               ELSE MergedAsMeant(fn, maps, made.fields[key])

\* What the keys lead to, if each is in a map that the ones before lead to.
RECURSIVE Leads(_, _, _)
Leads(map, keys, value) ==
  IF keys = <<>> THEN map = value
  ELSE Has(map, Head(keys)) /\ Leads(map.fields[Head(keys)], Tail(keys), value)

RECURSIVE Leading(_, _)
Leading(map, keys) ==
  keys = <<>> \/ (Has(map, Head(keys)) /\ Leading(map.fields[Head(keys)], Tail(keys)))

\* An argument as a list: its items, or itself as the only one.
AsList(arg) == IF arg.type = "array" THEN arg.items ELSE <<arg>>

InRange(n) == n \in IntMin .. IntMax

\* The result of each call is what its name promises: merging goes by rank at
\* every depth, versions compare by semver's order and ranges hold what their
\* comments say, lists come in the order of the arguments, sums, differences
\* and products are the true ones whenever no part of them is out of range,
\* and a division gives the remainder it goes with, rounding towards zero; by
\* 0 it is an error.  Left out is what the code does at the edges of i64: a
\* difference out of range wraps (a debug build panics), and the least number
\* divided by -1 panics.  The guide says that semverCompare is not there
\* (docs/migrating-from-go-yip.md:57); it is.
Promised(call) ==
  CASE call.fn \in {"merge", "mergeOverwrite"} ->
         /\ MergedAsMeant(call.fn, call.args, result)
         /\ Len(call.args) = 2 => result = (IF call.fn = "merge"
                                            THEN mergeOverwrite(Reverse(call.args))
                                            ELSE merge(Reverse(call.args)))
    [] call.fn = "semverCompare" ->
         result.bool = \A i \in DOMAIN call.clauses :
                         Holds(call.clauses[i].op, call.clauses[i].target, call.version)
    [] call.fn = "concat" ->
         result.items = FlattenSeq([i \in DOMAIN call.args |-> AsList(call.args[i])])
    [] call.fn = "uniq" ->
         /\ Range(result.items) = Range(Head(call.args).items)
         /\ IsInjective(result.items)
         /\ first(result) = first(Head(call.args))
    [] call.fn = "coalesce" ->
         \/ result = Null /\ \A arg \in Range(call.args) : is_empty(arg)
         \/ \E i \in DOMAIN call.args :
              /\ result = call.args[i] /\ ~ is_empty(result)
              /\ \A j \in 1 .. i - 1 : is_empty(call.args[j])
    [] call.fn = "append" ->
         last(result) = call.def /\ Front(result.items) = Head(call.args).items
    [] call.fn = "prepend" ->
         first(result) = call.def /\ Tail(result.items) = Head(call.args).items
    [] call.fn = "default" -> result = coalesce(<<Head(call.args), call.def>>)
    [] call.fn = "set" ->
         /\ get(result, call.key) = mergeOverwrite(<<result, Map(call.key :> call.def)>>).fields[call.key]
         /\ unset(result, call.key) = unset(Head(call.args), call.key)
    [] call.fn = "pluck" ->
         LET items == Head(call.args).items
             having == {i \in DOMAIN items : Has(items[i], call.key)}
         IN  /\ Len(result.items) = Cardinality(having)
             /\ \A i \in having :
                  result.items[Cardinality({j \in having : j <= i})] = items[i].fields[call.key]
    [] call.fn = "pick" ->
         merge(<<result, omit(Head(call.args), call.keys)>>) = Head(call.args)
    [] call.fn = "dig" ->
         IF Leading(Head(call.args), call.keys) THEN Leads(Head(call.args), call.keys, result)
         ELSE result = call.def
    [] call.fn \in {"add", "mul"} ->
         LET exact == FoldLeft(LAMBDA n, m : IF call.fn = "add" THEN n + m ELSE n * m,
                               IF call.fn = "add" THEN 0 ELSE 1, call.ns)
         IN  InRange(result.n) /\ (Len(call.ns) <= 2 /\ InRange(exact) => result.n = exact)
    [] call.fn = "sub" ->
         LET exact == call.ns[1] - call.ns[2]
         IN  InRange(exact) => result.n = exact
    [] call.fn \in {"div", "mod"} ->
         LET a == call.ns[1]
             b == call.ns[2]
         IN  CASE b = 0 -> result = Error
               [] a = IntMin /\ b = -1 -> TRUE
               [] OTHER ->
                    LET q == IF call.fn = "div" THEN result.n ELSE div(a, b).n
                        r == IF call.fn = "mod" THEN result.n ELSE mod(a, b).n
                    IN  /\ result.type = "number" /\ a = b * q + r
                        /\ r * r < b * b /\ a * r >= 0

FunctionsAsPromised == (kind = "call" /\ given # <<>>) => Promised(given[1])
=============================================================================
