------------------------------ MODULE YamlTree ------------------------------
(***************************************************************************)
(* What is done to a YAML document before it is taken for a config: merge  *)
(* keys are expanded, and for dot notation the document is put together    *)
(* from key=value tokens.                                                  *)
(***************************************************************************)
EXTENDS SequencesExt, FiniteSetsExt, TLC

\* A node: a scalar, a sequence or a mapping.  An alias is the node it is for.
Scalar(text) == [type |-> "scalar", text |-> text]
Sequence(items) == [type |-> "sequence", items |-> items]
Mapping(fields) == [type |-> "mapping", fields |-> fields]
Null == [type |-> "null"]

None == Mapping([key \in {} |-> Null])

Without(fields, key) == [k \in DOMAIN fields \ {key} |-> fields[k]]

\* Wrong: what is merged in wins.
merge_over(target, source) == source @@ target

\* Keys that are there stay.
merge_mapping(target, source) == target @@ source

\* Of a sequence each mapping in turn; anything else is nothing to merge.
merge_into(target, value) ==
  CASE value.type = "mapping" -> merge_mapping(target, value.fields)
    [] value.type = "sequence" ->
         FoldLeft(LAMBDA fields, item :
                    IF item.type = "mapping" THEN merge_mapping(fields, item.fields)
                    ELSE fields,
                  target, value.items)
    [] OTHER -> target

\* First in the values, that of `<<` among them, then here.
RECURSIVE expand_merges_in_node(_)
expand_merges_in_node(node) ==
  CASE node.type = "mapping" ->
         LET inner == [k \in DOMAIN node.fields |-> expand_merges_in_node(node.fields[k])]
         IN  Mapping(IF "<<" \in DOMAIN inner THEN merge_into(Without(inner, "<<"), inner["<<"])
                     ELSE inner)
    [] node.type = "sequence" ->
         Sequence([i \in DOMAIN node.items |-> expand_merges_in_node(node.items[i])])
    [] OTHER -> node

-----------------------------------------------------------------------------
(* Dot notation.  A path's segment is a key or an index, from 0.           *)

Key(key) == [type |-> "mapping", key |-> key]
Index(i) == [type |-> "sequence", index |-> i]

\* What is there of the kind that is needed, or an empty one.
Coerced(node, type) ==
  IF node.type = type THEN node
  ELSE IF type = "mapping" THEN None ELSE Sequence(<<>>)

RECURSIVE set_path(_, _, _)
set_path(root, path, value) ==
  IF path = <<>> THEN value
  ELSE
    LET head == Head(path)
        node == Coerced(root, head.type)
        tail(child) == set_path(child, Tail(path), value)
        key == head.key
        at == head.index + 1
        items == [i \in 1 .. Max({at, Len(node.items)}) |->
                    IF i \in DOMAIN node.items THEN node.items[i] ELSE Null]
    IN  IF head.type = "mapping"
        THEN Mapping((key :> tail(IF key \in DOMAIN node.fields THEN node.fields[key] ELSE Null))
                       @@ node.fields)
        ELSE Sequence([items EXCEPT ![at] = tail(@)])

\* A token of a line: whether its key looks like dot notation, the path this
\* is, whether the indices fit a usize, and what is behind its first `=`.
Token(dotted, path, fits, assigned, value) ==
  [dotted |-> dotted, path |-> path, fits |-> fits, assigned |-> assigned, value |-> value]

\* A token without `=` is "true"; nothing behind the `=` is the empty text.
Assigned(token) == IF token.assigned THEN token.value ELSE "true"

\* A token whose key does not look like dot notation is skipped, an index that
\* does not fit fails the whole line, and a line with a quote that is not
\* closed has no tokens.
dot_notation_modifier(line) ==
  LET dotted == SelectSeq(line.tokens, LAMBDA token : token.dotted)
  IN  IF ~ line.closed THEN [ok |-> TRUE, root |-> None]
      ELSE IF \E i \in DOMAIN dotted : ~ dotted[i].fits THEN [ok |-> FALSE, root |-> Null]
      ELSE [ok |-> TRUE,
            root |-> FoldLeft(LAMBDA root, token :
                                set_path(root, token.path, Scalar(Assigned(token))),
                              None, dotted)]
=============================================================================
