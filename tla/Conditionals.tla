---------------------------- MODULE Conditionals ----------------------------
(***************************************************************************)
(* The conditionals that decide whether a stage runs on this machine.      *)
(***************************************************************************)
EXTENDS PluginDeeds

\* A filter is a regular expression: whether it is given, whether it
\* compiles, and the texts that it matches.
NoFilter == [given |-> FALSE, valid |-> TRUE, matches |-> {}]

\* A filter that does not compile matches nothing.
Lets(filter, texts) == filter.given => filter.valid /\ filter.matches \cap texts # {}

\* The environment's name goes before the one that the system has.
current_hostname(env, live) == IF env # "" THEN env ELSE live

node(stage, env, live) == Lets(stage.node, {current_hostname(env, live)})

\* An os-release without the field, or none at all, lets nothing through.
only_if_os(stage, os) == Lets(stage.only_if_os, {os.name} \ {""})

only_if_os_version(stage, os) == Lets(stage.only_if_os_version, {os.version} \ {""})

\* A name of Rust's for an architecture, and Go's where it is another.
go_arch_alias(arch) ==
  CASE arch = "x86_64" -> {"amd64"} [] arch = "aarch64" -> {"arm64"} [] arch = "x86" -> {"386"}
    [] arch = "powerpc64" -> {"ppc64"} [] OTHER -> {}

if_arch(stage, arch) == Lets(stage.only_if_arch, {arch} \cup go_arch_alias(arch))

Comm == <<"proc", "1", "comm">>
OpenrcRun == <<"sbin", "openrc-run">>

\* By the name of process 1; its file is empty if it cannot be read.
detect_service_manager(comm, files) ==
  CASE comm = "systemd" -> "systemd"
    [] comm = "init" /\ Exists(OpenrcRun, files) -> "openrc"
    [] OTHER -> "unknown"

if_service_manager(stage, comm, files) ==
  Lets(stage.only_if_service_manager, {detect_service_manager(comm, files)})

\* Wrong: `none` asks that one of the paths is missing.
if_files_missing(stage, files) ==
  \A kind \in DOMAIN stage.if_files :
    LET paths == ToSet(stage.if_files[kind])
        there == {path \in paths : Exists(path, files)}
    IN  paths # {} =>
          CASE kind = "any" -> there # {}
            [] kind = "all" -> there = paths
            [] kind = "none" -> there # paths

\* Every kind that has paths counts; one without does not.
if_files(stage, files) ==
  \A kind \in DOMAIN stage.if_files :
    LET paths == ToSet(stage.if_files[kind])
        there == {path \in paths : Exists(path, files)}
    IN  paths # {} =>
          CASE kind = "any" -> there # {}
            [] kind = "all" -> there = paths
            [] kind = "none" -> there = {}

=============================================================================
