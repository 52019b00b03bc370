------------------------------ MODULE StageDag ------------------------------
(***************************************************************************)
(* The dependency graph of one stage list: what                            *)
(* DefaultExecutor::build_dag_for_config makes of the list that a config   *)
(* holds under one stage key.  A stage is its name and the set of names    *)
(* its `after:` key lists; everything else it carries is payload for the   *)
(* plugins.  Stages are numbered from 1, the code numbers them from 0.     *)
(***************************************************************************)
EXTENDS Naturals, Sequences, FiniteSets, Functions

CONSTANTS StageNames, \* the names a stage can be given in the YAML
          Unnamed     \* the name of a stage without a `name:` key

ASSUME UnnamedAssumption == Unnamed \notin StageNames

Labels == StageNames \cup {Unnamed}

\* `after:` is free text: it may name the stage itself, a stage that does
\* not exist, or the empty name.
Stage == [name : Labels, after : SUBSET Labels]

HasDuplicateNames(stages) ==
  \E i, j \in DOMAIN stages : /\ i # j
                              /\ stages[i].name = stages[j].name
                              /\ stages[i].name # Unnamed

Explicit(stages, i) == stages[i].after # {}

Pairs(stages) == (DOMAIN stages) \X (DOMAIN stages)

\* Wrong: a dependency is only looked for among the stages declared so far.
BackwardAfterEdges(stages) ==
  {e \in Pairs(stages) : /\ e[1] < e[2]
                         /\ stages[e[1]].name \in stages[e[2]].after}

\* Every stage that carries a name listed in `after:` comes first, wherever
\* it is declared.  A name nobody carries yields no edge, and a stage never
\* depends on itself.
AfterEdges(stages) ==
  {e \in Pairs(stages) : /\ e[1] # e[2]
                         /\ stages[e[1]].name \in stages[e[2]].after}

\* Wrong: only stages declared next to each other are chained.
AdjacentLexicalEdges(stages) ==
  {e \in Pairs(stages) : /\ e[2] = e[1] + 1
                         /\ ~ Explicit(stages, e[1])
                         /\ ~ Explicit(stages, e[2])}

\* Wrong: a stage with an `after:` joins the chain like any other.
EveryLexicalEdge(stages) == {e \in Pairs(stages) : e[2] = e[1] + 1}

\* The implicit chain links each stage without `after:` to the previous one
\* without; the others neither join it nor break it.
LexicalEdges(stages) ==
  {e \in Pairs(stages) :
     /\ e[1] < e[2]
     /\ ~ Explicit(stages, e[1])
     /\ ~ Explicit(stages, e[2])
     /\ \A k \in DOMAIN stages : e[1] < k /\ k < e[2] => Explicit(stages, k)}

Edges(stages) == AfterEdges(stages) \cup LexicalEdges(stages)

Respects(order, edges) ==
  \A a, b \in DOMAIN order : <<order[a], order[b]>> \in edges => a < b

\* petgraph::algo::toposort: some topological order of the graph; it fails
\* when there is none.
Orders(stages) ==
  {order \in Bijection(DOMAIN stages, DOMAIN stages) :
     Respects(order, Edges(stages))}

\* Wrong: the places in the list are counted from 0.
ZeroBasedOrder(stages) == [i \in DOMAIN stages |-> i - 1]

\* Executor::apply goes through the list as it is declared.
DeclaredOrder(stages) == [i \in DOMAIN stages |-> i]
=============================================================================
