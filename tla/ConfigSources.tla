---------------------------- MODULE ConfigSources ----------------------------
(***************************************************************************)
(* From a command-line argument to parsed configs: resolve_source,         *)
(* load_dir and parse_bytes of the executor, with the dot-notation         *)
(* modifier that DefaultExecutor::new installs.  Everything outside the    *)
(* program (files, servers, standard input) is part of the source: its     *)
(* text's shape, what it leads to, and what that holds.                    *)
(***************************************************************************)
EXTENDS StageDag

\* One stage name, its two substages, and the empty name.
StageKeys == {"X.before", "X", "X.after", ""}

\* Only a name that is neither empty nor a substage's is expanded.
Substages(key) ==
  IF key = "X" THEN <<"X.before", "X", "X.after">> ELSE <<key>>

\* Config.stages, with the empty list under a key the config does not have.
Config == [StageKeys -> Seq(Stage)]

NoStages == [key \in StageKeys |-> <<>>]

\* What a text is: YAML, dot notation (`stages.X[0].name=a`), text that is
\* neither, or bytes that are not UTF-8.
Format == {"yaml", "dots", "malformed", "binary"}

Text == [format : Format, config : Config]

\* The bytes of one config, and what the template engine makes of them.
Blob == [raw : Text, renders : BOOLEAN, rendered : Text]

Parsed == [ok : BOOLEAN, config : Config]

\* A template that does not render is passed on as it is.
RenderTemplate(blob) == IF blob.renders THEN blob.rendered ELSE blob.raw

\* The modifier keeps the tokens that look like dot notation and drops all
\* others, so that of a YAML document, as of any other text without such
\* tokens, it leaves an empty mapping.
DotNotation(text) ==
  IF text.format = "binary" THEN text
  ELSE [format |-> "yaml",
        config |-> IF text.format = "dots" THEN text.config ELSE NoStages]

\* Config::load.
Load(text) == [ok |-> text.format = "yaml", config |-> text.config]

\* modifier: whether the executor has one; DefaultExecutor::new() installs
\* DotNotation, empty() leaves it out.
ParseBytes(modifier, blob) ==
  LET text == RenderTemplate(blob)
  IN  Load(IF modifier THEN DotNotation(text) ELSE text)

\* The features of an argument's text that resolve_source looks at:
\* it is "-", it begins with http(s)://, it begins with /, ./ or ../, it ends
\* with /, it contains a /, a : or a line break.
Feature == {"dash", "http", "pathStart", "slashEnd", "slash", "colon", "newline"}

\* node: what the argument names in the file system.  reads: whether the
\* read or the download succeeds.  blobs: the configs behind it; for a
\* directory its *.yaml and *.yml files in the order of their paths.
Source == [text : SUBSET Feature, node : {"none", "file", "dir"},
           reads : BOOLEAN, blobs : Seq(Blob)]

LooksLikeFsPath(source) ==
  \/ source.text \cap {"pathStart", "slashEnd"} # {}
  \/ "slash" \in source.text /\ "colon" \notin source.text

LooksLikeInlineYaml(source) == {"colon", "newline"} \subseteq source.text

Failure == [ok |-> FALSE, configs |-> <<>>]

\* One blob that does not parse fails the whole source.
LoadAll(modifier, blobs) ==
  LET parsed == [i \in DOMAIN blobs |-> ParseBytes(modifier, blobs[i])]
  IN  IF \A i \in DOMAIN blobs : parsed[i].ok
      THEN [ok |-> TRUE, configs |-> [i \in DOMAIN blobs |-> parsed[i].config]]
      ELSE Failure

Resolve(modifier, source) ==
  CASE \/ source.text \cap {"dash", "http"} # {}
       \/ source.node # "none" ->
         IF source.reads THEN LoadAll(modifier, source.blobs) ELSE Failure
    [] OTHER ->
         IF LooksLikeFsPath(source) THEN LoadAll(modifier, <<>>)
         ELSE IF LooksLikeInlineYaml(source) THEN LoadAll(modifier, source.blobs)
         ELSE Failure
==============================================================================
