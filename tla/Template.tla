------------------------------ MODULE Template ------------------------------
(***************************************************************************)
(* `preprocess` of the template engine: from Go's template syntax to       *)
(* tera's, one {{ }} after the other.  What a name stands for in either    *)
(* language is not the program's; it is here to compare the two.           *)
(***************************************************************************)
EXTENDS SequencesExt, FiniteSetsExt

CONSTANTS
  Tags,      \* what may stand in {{ }}
  TagLimit,  \* bound: the most of them in a template
  Loops      \* the names of the loops' variables: __it1, __it2, ...

VARIABLES
  template,  \* as far as it has been read
  tera       \* what it has become, its open blocks and how many loops it had

\* A template's {{ }}, or the {{ }} or {% %} it becomes: `names` is the
\* operand, the names behind the dot (none: the dot alone), `var` the loop's
\* variable in tera.  Text between them is copied and left out.
Tag(kind, names) == [kind |-> kind, names |-> names, var |-> ""]

Bare(kind) == Tag(kind, <<>>)

\* Kinds with an operand; "call" is a function of the allowlist and its one
\* argument, which becomes a filter.
WithOperand == {"output", "call", "if", "else if", "range"}

\* What the preprocessor passes on as it is, for tera to refuse.
Untranslated == {"with", "range $"}

Kinds == WithOperand \cup Untranslated \cup {"else", "end"}

\* A block of the stack is "if" or the variable of a loop.  No field of the data
\* is called as a loop's variable or the root is.
ASSUME TemplateAssumption ==
  /\ TagLimit \in Nat
  /\ Loops \in Seq(STRING) /\ IsInjective(Loops) /\ TagLimit <= Len(Loops)
  /\ "if" \notin Range(Loops) /\ "__root__" \notin Range(Loops)
  /\ \A tag \in Tags :
       /\ tag \in [kind : Kinds, names : Seq(STRING), var : {""}]
       /\ tag.names # <<>> => Head(tag.names) \notin Range(Loops) \cup {"__root__"}

Beginning == [out |-> <<>>, stack |-> <<>>, counter |-> 0]

\* The variable of the innermost loop, or the root.
LoopVar(stack) ==
  LET loops == {i \in DOMAIN stack : stack[i] # "if"}
  IN  IF loops = {} THEN "__root__" ELSE stack[Max(loops)]

\* Leading dots go; the dot alone is what the caller says.
rewrite_field_access(names, loop_var) == IF names = <<>> THEN <<loop_var>> ELSE names

\* Conditions know no loop.
rewrite_condition(tag) ==
  [tag EXCEPT !.names = rewrite_field_access(@, "__root__")]

Put(pre, tag) == [pre EXCEPT !.out = Append(@, tag)]

\* Wrong: an `end` closes the loop around an `if`.
ClosedLoop(pre) ==
  [Put(pre, Bare(IF LoopVar(pre.stack) # "__root__" THEN "endfor" ELSE "endif"))
     EXCEPT !.stack = IF @ = <<>> THEN @ ELSE Front(@)]

\* `end` closes what was opened last; without a block it stays an end that
\* tera has no block for.
Closed(pre) ==
  LET inLoop == pre.stack # <<>> /\ Last(pre.stack) # "if"
  IN  [Put(pre, Bare(IF inLoop THEN "endfor" ELSE "endif"))
         EXCEPT !.stack = IF @ = <<>> THEN @ ELSE Front(@)]

\* One turn of the loop over the input.
preprocess(pre, tag) ==
  LET var == LoopVar(pre.stack)
      operand == rewrite_field_access(tag.names, var)
      next == Loops[pre.counter + 1]
  IN  CASE tag.kind \in {"output", "call"} -> Put(pre, [tag EXCEPT !.names = operand])
        [] tag.kind = "if" ->
             [Put(pre, rewrite_condition(tag)) EXCEPT !.stack = Append(@, "if")]
        [] tag.kind = "else if" -> Put(pre, rewrite_condition(tag))
        [] tag.kind = "else" -> Put(pre, tag)
        [] tag.kind = "range" ->
             [out |-> Append(pre.out, [kind |-> "range", names |-> operand, var |-> next]),
              stack |-> Append(pre.stack, next), counter |-> pre.counter + 1]
        [] tag.kind = "end" -> Closed(pre)
        [] tag.kind \in Untranslated -> Put(pre, Bare("raw"))

TemplateInit == template = <<>> /\ tera = Beginning

ReadTag ==
  /\ Len(template) < TagLimit
  /\ \E tag \in Tags : /\ template' = Append(template, tag)
                       /\ tera' = preprocess(tera, tag)

Preprocess == TemplateInit /\ [][ReadTag]_<<template, tera>>

-----------------------------------------------------------------------------
(* Blocks and scopes, the same in both languages.                          *)

Opens == {"if", "range", "with", "range $"}
Closes == {"end", "endif", "endfor"}

Count(tags, kinds, i, j) == Cardinality({k \in i .. j : tags[k].kind \in kinds})

\* The blocks that are open in front of i.
OpenAt(tags, i) ==
  {b \in 1 .. i - 1 :
     /\ tags[b].kind \in Opens
     /\ \A j \in b .. i - 1 : Count(tags, Closes, b, j) < Count(tags, Opens, b, j)}

\* What an `else` at e belongs to.
Owner(tags, e) == IF OpenAt(tags, e) = {} THEN 0 ELSE Max(OpenAt(tags, e))

\* The loops whose item the names at i may stand for: their `else` is for the
\* list without items.
LoopsAt(tags, i) ==
  {b \in OpenAt(tags, i) :
     /\ tags[b].kind = "range"
     /\ \A e \in b + 1 .. i - 1 : tags[e].kind = "else" => Owner(tags, e) # b}

\* What is named: the root (0) or the item of the loop at `of`, and the names
\* that lead on from it; of = -1 when there is no such variable.
Referent(of, names) == [of |-> of, names |-> names]

\* Go: the names are those of the innermost item.
GoNamed(tags, i) ==
  LET loops == LoopsAt(tags, i)
  IN  Referent(IF loops = {} THEN 0 ELSE Max(loops), tags[i].names)

\* tera: a name is a loop's variable or the root's.
TeraNamed(tags, i) ==
  LET first == Head(tags[i].names)
      loops == {b \in LoopsAt(tags, i) : tags[b].var = first}
  IN  CASE first = "__root__" -> Referent(0, Tail(tags[i].names))
        [] first \in Range(Loops) ->
             Referent(IF loops = {} THEN -1 ELSE Max(loops), Tail(tags[i].names))
        [] OTHER -> Referent(0, tags[i].names)

\* Whether tera parses it, as far as ends go: each is for what was opened last.
EndsFit(tags) ==
  \A i \in DOMAIN tags : tags[i].kind \in Closes =>
    /\ OpenAt(tags, i) # {}
    /\ tags[i].kind = (IF tags[Max(OpenAt(tags, i))].kind = "range" THEN "endfor" ELSE "endif")

\* Each `end` of the Go template has its block.
Balanced(tags) ==
  \A i \in DOMAIN tags : tags[i].kind = "end" => OpenAt(tags, i) # {}

\* Go names the item of a loop where the preprocessor leaves the root.
TakenForRoot(tags, i) ==
  LoopsAt(tags, i) # {} /\ (tags[i].names # <<>> \/ tags[i].kind \in {"if", "else if"})

\* Inside the `else` of a loop the dot is not the item any more.
InLoopElse(tags, i) ==
  \E b \in OpenAt(tags, i) \ LoopsAt(tags, i) : tags[b].kind = "range"

\* Whatever tera does not refuse stands for what it stands for in Go: every
\* operand names the same value and every `end` closes the same block, in any
\* nesting of conditions and loops.  The engine's header promises it of every
\* template; the code does it but for names and conditions inside a loop,
\* which name the root's fields, and what stands in a loop's `else`.
BoundAlike ==
  (Balanced(template) /\ \A i \in DOMAIN tera.out : tera.out[i].kind # "raw")
    => /\ EndsFit(tera.out)
       /\ \A i \in DOMAIN template :
            (template[i].kind \in WithOperand /\ ~ InLoopElse(template, i)) =>
              TeraNamed(tera.out, i) =
                (IF TakenForRoot(template, i)
                 THEN Referent(0, template[i].names) ELSE GoNamed(template, i))
=============================================================================
