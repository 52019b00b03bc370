----------------------------- MODULE MCExecutor -----------------------------
(* Calls for TLC: every shape of source, and stage lists with forward,      *)
(* backward, dangling and shared dependencies, and with a cycle.            *)
EXTENDS Executor

st(name, after) == [name |-> name, after |-> after]

Two     == <<st("a", {}), st("", {})>>
Forward == <<st("b", {"a"}), st("a", {}), st("a", {})>>
Free    == <<st("a", {"none"}), st("b", {})>>
Loop    == <<st("a", {"b"}), st("b", {"a"})>>

Conf(before, main, after) ==
  [NoStages EXCEPT !["X.before"] = before, !["X"] = main, !["X.after"] = after]

Sub == [NoStages EXCEPT !["X.after"] = Two]

Yaml(config) == [raw |-> [format |-> "yaml", config |-> config], renders |-> TRUE,
                 rendered |-> [format |-> "yaml", config |-> config]]

Dots(config) == [Yaml(config) EXCEPT !.rendered.format = "dots"]

\* A template that does not render, around text that is no YAML.
Broken == [Yaml(NoStages) EXCEPT !.renders = FALSE, !.raw.format = "malformed"]

\* One that does not render but is YAML all the same.
Raw(config) == [Yaml(config) EXCEPT !.renders = FALSE, !.rendered.format = "malformed"]

Src(text, node, reads, blobs) ==
  [text |-> text, node |-> node, reads |-> reads, blobs |-> blobs]

File(blob) == Src({"pathStart", "slash"}, "file", TRUE, <<blob>>)
Dir(blobs) == Src({"pathStart", "slash"}, "dir", TRUE, blobs)

Plain == Conf(<<>>, <<st("a", {})>>, <<>>)

MCPaths ==
  {<<>>,
   <<Src({"dash"}, "none", TRUE, <<Yaml(Conf(Loop, <<st("a", {})>>, <<st("b", {})>>))>>)>>,
   <<Src({"http", "slash", "colon"}, "none", FALSE, <<Yaml(Conf(Two, Two, Two))>>),
     File(Raw(Conf(<<>>, Forward, <<>>)))>>,
   <<Dir(<<Yaml(Plain), Broken>>), File(Yaml(Sub))>>,
   <<Dir(<<Yaml(Plain), Yaml(Conf(Free, <<>>, <<>>))>>)>>,
   <<Src({"slash", "slashEnd"}, "none", TRUE, <<>>),
     Src({"colon", "newline"}, "none", TRUE, <<Yaml(Conf(<<>>, <<>>, Two))>>)>>,
   <<Src({}, "none", TRUE, <<>>), File(Yaml(Conf(<<>>, Free, Loop)))>>}

Calls(modes, modifiers, stages, paths, preloaded) ==
  [mode : modes, modifier : modifiers, stage : stages, paths : paths,
   preloaded : preloaded]

MCInvocations ==
  UNION {Calls({"run"}, {FALSE}, {"X"}, MCPaths, {<<>>}),
         Calls({"run"}, {FALSE}, {"X.after", ""}, {<<File(Yaml(Sub))>>}, {<<>>}),
         Calls({"cli"}, {TRUE}, {"X"},
               {<<>>, <<Dir(<<Dots(Conf(<<>>, Loop, Two)), Broken, Yaml(Plain)>>)>>,
                <<File([Broken EXCEPT !.raw.format = "binary"]), File(Dots(Sub))>>},
               {<<>>}),
         Calls({"apply"}, {TRUE}, {"X"}, {<<>>}, {<<Conf(Loop, <<st("a", {})>>, <<>>)>>})}

ProductionInvocations ==
  Calls({"cli"}, {TRUE}, {"X"},
        {<<File(Yaml(Plain))>>, <<File(Dots(Conf(Two, Forward, Free)))>>}, {<<>>})
==============================================================================
