------------------------------- MODULE DagPlan -------------------------------
(***************************************************************************)
(* One call of DefaultExecutor::build_dag_for_config: a stage list goes    *)
(* in, and the order in which its operations run, under the names the logs *)
(* and `yip analyze` give them, or a cycle error comes out.                *)
(***************************************************************************)
EXTENDS StageDag, TLC

CONSTANT MaxStages \* bound: the longest stage list

ASSUME MaxStagesAssumption == MaxStages \in Nat

VARIABLES stages, \* the list cfg.stages[stage_key]
          plan    \* what the call returns

planVars == <<stages, plan>>

NoPlan == [status |-> "none", order |-> <<>>, names |-> <<>>]

Index(i) == ToString(i - 1)

\* The name of a list's i-th operation, up to the config's name in front.
OpName(list, i) ==
  LET raw == list[i].name
  IN  CASE HasDuplicateNames(list) -> raw \o "." \o Index(i)
        [] ~ HasDuplicateNames(list) /\ raw = Unnamed -> Index(i)
        [] OTHER -> raw

PlanInit ==
  /\ stages \in UNION {[1 .. n -> Stage] : n \in 0 .. MaxStages}
  /\ plan = NoPlan

Build ==
  /\ plan = NoPlan
  /\ \/ \E order \in Orders(stages) :
          plan' = [status |-> "ordered", order |-> order,
                   names |-> [n \in DOMAIN order |-> OpName(stages, order[n])]]
     \/ /\ Orders(stages) = {}
        /\ plan' = [NoPlan EXCEPT !.status = "cycle"]
  /\ UNCHANGED stages

Planning == PlanInit /\ [][Build]_planVars

-----------------------------------------------------------------------------

\* The place of stage i in the plan.
Position(i) == CHOOSE n \in DOMAIN plan.order : plan.order[n] = i

\* A stage runs after every other stage that carries a name its `after:`
\* lists, whether that is declared before it or behind it, and after all of
\* them when several share the name (build_dag_for_config, pass 2).
AfterHonoured ==
  plan.status = "ordered" =>
    \A i, j \in DOMAIN stages :
      i # j /\ stages[j].name \in stages[i].after => Position(j) < Position(i)

\* Stages without `after:` keep the order of their declaration, however many
\* stages with `after:` stand between them (the implicit lexical chain).
DeclarationOrderKept ==
  plan.status = "ordered" =>
    \A i, j \in DOMAIN stages :
      i < j /\ ~ Explicit(stages, i) /\ ~ Explicit(stages, j)
        => Position(i) < Position(j)

\* A list is refused exactly when some of its stages wait for each other
\* through their `after:` keys alone: the implicit chain never closes a
\* cycle (why stages with `after:` stay out of `prev`).
RefusedOnlyForAfterCycle ==
  plan.status # "none" =>
    (plan.status = "cycle" <=>
       \E knot \in SUBSET {i \in DOMAIN stages : Explicit(stages, i)} :
         /\ knot # {}
         /\ \A i \in knot : \E j \in knot \ {i} :
              stages[j].name \in stages[i].after)

==============================================================================
