------------------------------ MODULE Executor ------------------------------
(***************************************************************************)
(* DefaultExecutor::run and apply, and the command line's `yip --stage`    *)
(* around run: resolve each source, and for each of its configs and each   *)
(* substage order the stage list, then put every stage through the         *)
(* conditionals and the plugin chain.  Errors never stop the loops; they   *)
(* travel up in three buffers and make the result.                         *)
(*                                                                         *)
(* What a conditional decides and whether a plugin succeeds depends on     *)
(* the machine and is left open.                                           *)
(***************************************************************************)
EXTENDS ConfigSources, Subsequences

CONSTANTS Conditionals, \* how many conditionals are registered
          Plugins,      \* how many plugins are registered
          Invocations   \* the calls considered

\* apply is given a config, run and the command line are given paths; the
\* command line's executor is DefaultExecutor::new(), with its modifier.
Invocation == [mode : {"cli", "run", "apply"}, modifier : BOOLEAN,
               stage : StageKeys, paths : Seq(Source), preloaded : Seq(Config)]

ASSUME ExecutorAssumption == /\ Conditionals \in Nat
                             /\ Plugins \in Nat
                             /\ Invocations \subseteq Invocation

VARIABLES
  call,      \* the call being executed
  pc,        \* the loop the program is in
  src,       \* how many sources have been taken up
  configs,   \* what the current source resolved to
  cfg, key,  \* the current config and the current substage
  order, n,  \* the ordered operations of the stage list, the current one
  plugin,    \* the next plugin of the chain
  opErrs, stageErrs, errs, \* errors of the operation, the list, the call
  result,    \* what the call returned
  called,    \* history: the plugins called for the current operation
  log,       \* history: the operations that are through, in order
  failures   \* history: what went wrong, in order

loops == <<src, configs, cfg, key, order, n, plugin>>
buffers == <<opErrs, stageErrs, errs>>
history == <<called, log, failures>>
vars == <<call, pc, loops, buffers, result, history>>

Keys == Substages(call.stage)

Stages == configs[cfg][Keys[key]]

Op == <<src, cfg, key, order[n]>>

Init ==
  /\ call \in Invocations
  /\ pc = "config"
  /\ src = IF call.mode = "apply" THEN 1 ELSE 0
  /\ configs = IF call.mode = "apply" THEN call.preloaded ELSE <<>>
  /\ cfg = 1 /\ key = 1
  /\ order = <<>> /\ n = 1 /\ plugin = 1
  /\ opErrs = <<>> /\ stageErrs = <<>> /\ errs = <<>>
  /\ result = "none"
  /\ called = <<>> /\ log = <<>> /\ failures = <<>>

\* The source loop of run: a source that does not resolve is one error.
NextSource ==
  /\ pc = "config" /\ cfg > Len(configs)
  /\ call.mode # "apply" /\ src < Len(call.paths)
  /\ src' = src + 1 /\ cfg' = 1 /\ key' = 1
  /\ LET resolved == Resolve(call.modifier, call.paths[src + 1])
     IN  /\ configs' = resolved.configs
         /\ IF resolved.ok THEN UNCHANGED <<errs, failures>>
            ELSE /\ errs' = Append(errs, <<src + 1, 0, 0, 0, 0>>)
                 /\ failures' = Append(failures, <<src + 1, 0, 0, 0, 0>>)
  /\ UNCHANGED <<call, pc, order, n, plugin, opErrs, stageErrs, result,
                 called, log>>

NextConfig ==
  /\ pc = "config" /\ cfg <= Len(configs) /\ key > Len(Keys)
  /\ cfg' = cfg + 1 /\ key' = 1
  /\ UNCHANGED <<call, pc, src, configs, order, n, plugin, buffers, result, history>>

\* run_stage_for_source up to its loop: run orders the list and gives up on
\* it when there is a cycle; apply takes the list as it is declared.
OrderStages ==
  /\ pc = "config" /\ cfg <= Len(configs) /\ key <= Len(Keys)
  /\ \/ /\ order' \in IF call.mode = "apply" THEN {DeclaredOrder(Stages)}
                      ELSE Orders(Stages)
        /\ n' = 1
        /\ pc' = "stage"
        /\ UNCHANGED <<key, errs, failures>>
     \/ /\ call.mode # "apply" /\ Orders(Stages) = {}
        /\ errs' = Append(errs, <<src, cfg, key, 0, 0>>)
        /\ failures' = Append(failures, <<src, cfg, key, 0, 0>>)
        /\ key' = key + 1
        /\ UNCHANGED <<pc, order, n>>
  /\ UNCHANGED <<call, src, configs, cfg, plugin, opErrs, stageErrs, result,
                 called, log>>

\* check_conditionals: the first one that says Skip, or fails, ends the
\* operation, and neither counts as an error.
Preflight ==
  /\ pc = "stage" /\ n <= Len(order)
  /\ \E verdicts \in [1 .. Conditionals -> {"Run", "Skip", "Error"}] :
       IF \A i \in DOMAIN verdicts : verdicts[i] = "Run"
       THEN /\ pc' = "plugins"
            /\ plugin' = 1
            /\ called' = <<>>
            /\ UNCHANGED <<n, log>>
       ELSE /\ log' = Append(log, [op |-> Op, ran |-> FALSE, called |-> <<>>])
            /\ n' = n + 1
            /\ UNCHANGED <<pc, plugin, called>>
  /\ UNCHANGED <<call, src, configs, cfg, key, order, buffers, result, failures>>

\* Wrong: the first plugin that fails ends the chain.
AbortingRunPlugin ==
  /\ pc = "plugins" /\ plugin <= Plugins
  /\ called' = Append(called, plugin)
  /\ \/ /\ plugin' = plugin + 1
        /\ UNCHANGED <<opErrs, failures, pc, n, log, stageErrs>>
     \/ /\ failures' = Append(failures, <<src, cfg, key, order[n], plugin>>)
        /\ stageErrs' = Append(stageErrs, <<src, cfg, key, order[n], plugin>>)
        /\ log' = Append(log, [op |-> Op, ran |-> TRUE, called |-> called'])
        /\ n' = n + 1 /\ pc' = "stage"
        /\ UNCHANGED <<opErrs, plugin>>
  /\ UNCHANGED <<call, src, configs, cfg, key, order, errs, result>>

\* run_plugins: the next plugin runs whether or not this one fails.
RunPlugin ==
  /\ pc = "plugins" /\ plugin <= Plugins
  /\ plugin' = plugin + 1
  /\ called' = Append(called, plugin)
  /\ \/ UNCHANGED <<opErrs, failures>>
     \/ /\ opErrs' = Append(opErrs, <<src, cfg, key, order[n], plugin>>)
        /\ failures' = Append(failures, <<src, cfg, key, order[n], plugin>>)
  /\ UNCHANGED <<call, pc, src, configs, cfg, key, order, n, stageErrs, errs,
                 result, log>>

\* apply_stage returns its errors to the loop over the list.
EndStage ==
  /\ pc = "plugins" /\ plugin > Plugins
  /\ stageErrs' = stageErrs \o opErrs /\ opErrs' = <<>>
  /\ log' = Append(log, [op |-> Op, ran |-> TRUE, called |-> called])
  /\ n' = n + 1
  /\ pc' = "stage"
  /\ UNCHANGED <<call, src, configs, cfg, key, order, plugin, errs, result,
                 called, failures>>

\* Wrong: the errors of a list replace those of the lists before it.
OverwritingEndList ==
  /\ pc = "stage" /\ n > Len(order)
  /\ errs' = stageErrs /\ stageErrs' = <<>>
  /\ key' = key + 1
  /\ pc' = "config"
  /\ UNCHANGED <<call, src, configs, cfg, order, n, plugin, opErrs, result, history>>

\* Wrong: a list in which something failed is the last of its config.
StoppingEndList ==
  /\ pc = "stage" /\ n > Len(order)
  /\ errs' = errs \o stageErrs /\ stageErrs' = <<>>
  /\ key' = IF stageErrs = <<>> THEN key + 1 ELSE Len(Keys) + 1
  /\ pc' = "config"
  /\ UNCHANGED <<call, src, configs, cfg, order, n, plugin, opErrs, result, history>>

\* run_stage_for_source returns its errors to run.
EndList ==
  /\ pc = "stage" /\ n > Len(order)
  /\ errs' = errs \o stageErrs /\ stageErrs' = <<>>
  /\ key' = key + 1
  /\ pc' = "config"
  /\ UNCHANGED <<call, src, configs, cfg, order, n, plugin, opErrs, result, history>>

\* finish, and the command line's exit code: Ok and SUCCESS are "ok".
Finish ==
  /\ pc = "config" /\ cfg > Len(configs)
  /\ call.mode = "apply" \/ src = Len(call.paths)
  /\ pc' = "done"
  /\ result' = IF errs # <<>> \/ (call.mode = "cli" /\ call.paths = <<>>)
               THEN "error" ELSE "ok"
  /\ UNCHANGED <<call, loops, buffers, history>>

Next == \/ NextSource \/ NextConfig \/ OrderStages \/ Preflight
        \/ RunPlugin \/ EndStage \/ EndList \/ Finish

\* Every conditional and plugin returns: the loops go on until they end.
Spec == Init /\ [][Next]_vars /\ WF_vars(Next)

-----------------------------------------------------------------------------

Operation == Nat \X Nat \X Nat \X Nat

\* Where something failed: in a source, a stage list of it, or a plugin of an
\* operation of that; 0 stands for no deeper place.
Report == Nat \X Nat \X Nat \X Nat \X Nat

\* A line of the log: whether the conditionals let the operation run, and the
\* plugins that were called for it.
Entry == [op : Operation, ran : BOOLEAN, called : Seq(Nat)]

\* The types of the variables.
TypeOK ==
  /\ call \in Invocations
  /\ pc \in {"config", "stage", "plugins", "done"}
  /\ src \in Nat
  /\ configs \in Seq(Config)
  /\ cfg \in Nat \ {0} /\ key \in Nat \ {0}
  /\ n \in Nat \ {0} /\ plugin \in Nat \ {0}
  /\ order \in Seq(Nat \ {0})
  /\ opErrs \in Seq(Report) /\ stageErrs \in Seq(Report) /\ errs \in Seq(Report)
  /\ result \in {"none", "ok", "error"}
  /\ called \in Seq(Nat) /\ log \in Seq(Entry)
  /\ failures \in Seq(Report)

\* What the code of each loop may rely on: the inductive part of the two
\* invariants below.
Phases ==
  /\ pc # "plugins" => opErrs = <<>>
  /\ pc \in {"config", "done"} => stageErrs = <<>>
  /\ pc \in {"stage", "plugins"} =>
       /\ cfg <= Len(configs) /\ key <= Len(Keys)
       /\ IF call.mode = "apply" THEN order = DeclaredOrder(Stages)
          ELSE order \in Orders(Stages)
  /\ pc = "plugins" => n <= Len(order)
  /\ result # "none" <=> pc = "done"
  /\ result = "ok" => errs = <<>>
  /\ result = "error" => errs # <<>> \/ (call.mode = "cli" /\ call.paths = <<>>)

\* Whatever goes wrong is in exactly one of the three buffers, in the order
\* it happened, and the call succeeds only if nothing did ("errors
\* accumulate", finish).
ErrorsReported ==
  /\ errs \o stageErrs \o opErrs = failures
  /\ result = "ok" => failures = <<>>
  /\ result = "error" => \/ failures # <<>>
                         \/ call.mode = "cli" /\ call.paths = <<>>

Chain == [p \in 1 .. Plugins |-> p]

OpOf(report) == <<report[1], report[2], report[3], report[4]>>

\* An operation that the conditionals let run has had every plugin called, once
\* each and in the order of their registration, also those behind a plugin
\* that failed and after operations that failed; what fails as a plugin is one
\* of an operation that ran (run_plugins, "never aborts").
ChainWhole ==
  /\ \A l \in DOMAIN log : log[l].called = IF log[l].ran THEN Chain ELSE <<>>
  /\ \A f \in DOMAIN failures :
       failures[f][4] # 0 =>
         \/ pc = "plugins" /\ OpOf(failures[f]) = Op
         \/ \E l \in DOMAIN log : log[l].ran /\ log[l].op = OpOf(failures[f])

\* The operations of a list as the log has them, in order.
Logged(at) ==
  LET mine == Subsequence(log, {l \in DOMAIN log :
                                  <<log[l].op[1], log[l].op[2], log[l].op[3]>> = at})
  IN  [l \in DOMAIN mine |-> mine[l].op[4]]

\* What the executor's analyze says of a list: the order of its operations, or
\* nothing when it has a cycle.
Analyze(stages) == IF Orders(stages) = {} THEN {<<>>} ELSE Orders(stages)

\* When a config is through, each of its lists has run the way the executor's
\* analyze lists it for the config that run has resolved: nothing that analyze
\* shows is left out, run twice or out of order, whatever failed before.  The
\* command `yip analyze` resolves otherwise, without templates and modifier
\* (load_configs_for_analyze): of what it prints nothing is said.
AnalyzePredictsRun ==
  pc = "config" /\ call.mode # "apply" /\ cfg <= Len(configs) =>
    \A k \in 1 .. key - 1 :
      Logged(<<src, cfg, k>>) \in Analyze(configs[cfg][Keys[k]])

\* A call that succeeds has run or skipped every stage of every readable YAML
\* file it was given ("The entire stage list runs").
YamlStagesRun ==
  result = "ok" =>
    \A s \in DOMAIN call.paths :
      LET text == RenderTemplate(call.paths[s].blobs[1])
      IN  call.paths[s].node = "file" /\ text.format = "yaml" =>
            \A k \in DOMAIN Keys : \A i \in DOMAIN text.config[Keys[k]] :
              \E l \in DOMAIN log : log[l].op = <<s, 1, k, i>>

-----------------------------------------------------------------------------

Runner == INSTANCE StageRunner WITH
  handled <- {log[l].op : l \in DOMAIN log},
  refused <- {<<failures[l][1], failures[l][2], failures[l][3]>> :
                l \in {m \in DOMAIN failures : failures[m][4] = 0}},
  failed <- failures # <<>>

\* The executor keeps the promise of StageRunner: each operation once, after
\* what it waits for, an error exactly when something failed, and an end.
PromiseKept == Runner!Spec
==============================================================================
