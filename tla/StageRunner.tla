----------------------------- MODULE StageRunner -----------------------------
(***************************************************************************)
(* What a run of a stage promises, whatever the executor's loops look      *)
(* like: every stage of every config that can be read and ordered is       *)
(* handled exactly once, after everything it has to wait for; whatever     *)
(* cannot be read or ordered, or fails, turns the result into an error;    *)
(* nothing else does; and the run ends.                                    *)
(***************************************************************************)
EXTENDS ConfigSources

CONSTANT Invocations \* the calls considered

VARIABLES call,    \* the call: mode, modifier, stage, paths, preloaded
          handled, \* the operations that have been run or skipped
          refused, \* the sources and stage lists that have been given up
          failed,  \* whether anything has gone wrong so far
          result   \* what the call returned: "none" while it runs

vars == <<call, handled, refused, failed, result>>

\* The configs of a call, by source and place in the source.
ConfigsOf(c) ==
  IF c.mode = "apply" THEN <<[ok |-> TRUE, configs |-> c.preloaded]>>
  ELSE [s \in DOMAIN c.paths |-> Resolve(c.modifier, c.paths[s])]

ListAt(c, at) == ConfigsOf(c)[at[1]].configs[at[2]][Substages(c.stage)[at[3]]]

Lists(c) ==
  UNION {{s} \X (DOMAIN ConfigsOf(c)[s].configs) \X DOMAIN Substages(c.stage) :
           s \in DOMAIN ConfigsOf(c)}

Unorderable(c, at) == c.mode # "apply" /\ Orders(ListAt(c, at)) = {}

\* An operation is the place of its list and its own place in the list.
Work(c) ==
  UNION {{<<at[1], at[2], at[3], i>> : i \in DOMAIN ListAt(c, at)} :
           at \in {l \in Lists(c) : ~ Unorderable(c, l)}}

\* The places of sources that do not resolve and of lists with a cycle.
Hopeless(c) ==
  {<<s, 0, 0>> : s \in {t \in DOMAIN ConfigsOf(c) : ~ ConfigsOf(c)[t].ok}}
    \cup {at \in Lists(c) : Unorderable(c, at)}

\* `yip --stage X` without a source is a usage error.
Misused(c) == c.mode = "cli" /\ c.paths = <<>>

\* Sources are handled in the order given, the configs of a source and the
\* substages of a config in theirs.
Earlier(a, b) ==
  \E n \in 1 .. 3 : a[n] < b[n] /\ \A m \in 1 .. n - 1 : a[m] = b[m]

SameList(a, b) == \A n \in 1 .. 3 : a[n] = b[n]

MustPrecede(c, op1, op2) ==
  \/ Earlier(op1, op2)
  \/ /\ SameList(op1, op2)
     /\ IF c.mode = "apply" THEN op1[4] < op2[4]
        ELSE <<op1[4], op2[4]>> \in Edges(ListAt(c, op1))

Init ==
  /\ call \in Invocations
  /\ handled = {} /\ refused = {}
  /\ failed = FALSE
  /\ result = "none"

Handle(op) ==
  /\ op \in Work(call) \ handled
  /\ \A other \in Work(call) : MustPrecede(call, other, op) => other \in handled
  /\ handled' = handled \cup {op}
  /\ failed' \in {failed, TRUE}
  /\ UNCHANGED <<call, refused, result>>

\* A plugin of an operation that is not yet through fails.
Fail ==
  /\ result = "none" /\ handled # Work(call)
  /\ failed' = TRUE
  /\ UNCHANGED <<call, handled, refused, result>>

Refuse(item) ==
  /\ item \in Hopeless(call) \ refused
  /\ refused' = refused \cup {item}
  /\ failed' = TRUE
  /\ UNCHANGED <<call, handled, result>>

Finish ==
  /\ result = "none"
  /\ handled = Work(call) /\ refused = Hopeless(call)
  /\ result' = IF failed \/ Misused(call) THEN "error" ELSE "ok"
  /\ UNCHANGED <<call, handled, refused, failed>>

Next ==
  \/ \E op \in Work(call) : Handle(op)
  \/ Fail
  \/ \E item \in Hopeless(call) : Refuse(item)
  \/ Finish

Safety == Init /\ [][Next]_vars

Spec == Safety /\ WF_vars(Next)
==============================================================================
