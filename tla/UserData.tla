------------------------------ MODULE UserData ------------------------------
(***************************************************************************)
(* The datasource plugin: the providers of a stage are asked in their      *)
(* order until one has user data, which is written as it is, and a second  *)
(* time under a name of its own if it is a config.  The stage may be run   *)
(* again, and then the machine may have other answers.                     *)
(***************************************************************************)
EXTENDS SequencesExt, Subsequences, TLC

CONSTANTS Data,      \* user data, strings
          Empty,     \* the one without a byte
          Configs,   \* those that load as a config
          Partial,   \* what a file holds whose write broke off
          Scenarios, \* stages, what machines answer, and faults
          MaxRuns    \* bound: how often the stage is run

\* The two directories for output, /run/config and the stage's `path`.
Bases == {"run", "path"}
Default == "userdata.yaml"
FileNames == {"userdata", "meta-data", Default, "other"}

\* What a file system or a server has at a place.
FileState == Data \cup {"none", "unreadable"}
Reply == Data \cup {"unreachable", "missing", "refused", "garbled"}

\* How a machine answers the providers; `gcp` stands for all eight that
\* fetch one URL.  A guest's data does not decode if it is of another
\* encoding than it says.
Machine == [hostname : Reply, aws : Reply, azure : Reply, gcp : Reply,
            tools : BOOLEAN, guest : Data \cup {"none"}, decodes : BOOLEAN,
            cdrom : [1 .. 3 -> FileState], drive : [1 .. 2 -> FileState],
            seed : [user : FileState, meta : FileState],
            file : FileState]

Faults == {"mkdir", "write", "chmod", "crash"}

\* Two fields of a stage may be empty: the path, and the name of the copy.
ASSUME UserDataAssumption ==
  /\ MaxRuns \in Nat \ {0}
  /\ Empty \in Data /\ Configs \subseteq Data /\ Partial \notin Data
  /\ Data \cap {"none", "error", "dir", "unreadable", "unreachable", "missing",
                "refused", "garbled"} = {}
  /\ \A s \in Scenarios :
       /\ DOMAIN s = {"providers", "path", "userdata_name", "at", "machines", "faults"}
       /\ s.providers \in Seq(STRING) /\ s.path \in STRING
       /\ s.userdata_name \in FileNames \cup {""}
       /\ s.at \in FileState \cup {"dir"}
       /\ s.machines # {} /\ \A m \in s.machines : DOMAIN m = {
            "hostname", "aws", "azure", "gcp", "tools", "guest", "decodes",
            "cdrom", "drive", "seed", "file"}
       /\ s.faults \subseteq Faults

VARIABLES
  scenario, \* stays as it is
  machine,  \* its answers in this run
  at,       \* what there is at the stage's `path`
  files,    \* the output in both directories
  pc,       \* what comes next
  n,        \* the provider that is asked
  userdata, \* what it gave
  result,   \* what this run returned
  runs,     \* how often the stage has been started
  won       \* all user data that any run has taken

vars == <<scenario, machine, at, files, pc, n, userdata, result, runs, won>>
history == <<scenario, machine, runs>>

mayFail(what) == what \in scenario.faults

-----------------------------------------------------------------------------

\* dedup: the first of each.
Unique(seq) ==
  Subsequence(seq, {i \in DOMAIN seq : \A j \in 1 .. i - 1 : seq[j] # seq[i]})

Providers == Unique(scenario.providers)

\* What a provider that fetches one URL makes of the reply.
simple_userdata_get(reply) ==
  CASE reply \in Data -> reply
    [] reply \in {"unreachable", "missing"} -> "none"
    [] OTHER -> "error"

\* A reply that is no user data counts as none, like one that is no hostname.
aws_provider == IF machine.hostname \in Data /\ machine.aws \in Data THEN machine.aws
                ELSE "none"

\* Nothing is no user data, also when it came; "garbled" is no base64.
azure_provider == IF machine.azure = Empty THEN "none" ELSE simple_userdata_get(machine.azure)

vmware_provider ==
  CASE ~ machine.tools \/ machine.guest \in {"none", Empty} -> "none"
    [] machine.decodes -> machine.guest
    [] OTHER -> "error"

\* What reading a file gives; one that is there but cannot be read is an error.
Read(state) == IF state \in Data \cup {"none"} THEN state ELSE "error"

\* The first file there is counts, even if it cannot be read.
FirstOf(states) ==
  LET there == SelectSeq(states, LAMBDA s : s # "none")
  IN  IF there = <<>> THEN "none" ELSE Read(Head(there))

file_provider == Read(IF scenario.path = "" THEN machine.file ELSE at)

nocloud_provider == Read(machine.seed.user)

\* What a provider answers: user data, "none" or "error".
probe_and_extract(provider) ==
  CASE provider = "aws" -> aws_provider
    [] provider = "nocloud" -> nocloud_provider
    [] provider = "azure" -> azure_provider
    [] provider = "gcp" -> simple_userdata_get(machine.gcp)
    [] provider = "vmware" -> vmware_provider
    [] provider = "cdrom" -> FirstOf(machine.cdrom)
    [] provider = "config-drive" -> FirstOf(machine.drive)
    [] provider = "file" -> file_provider
    [] OTHER -> "none"

\* Wrong: the path counts also when it is that of the user data.
PathBase(winner) == IF scenario.path # "" THEN "path" ELSE "run"

\* Where the output goes.  The `file` provider's path is no directory.
BasePath(winner) ==
  IF scenario.path # "" /\ scenario.path # winner /\ winner # "file" THEN "path" ELSE "run"

Named == IF scenario.userdata_name = "" THEN Default ELSE scenario.userdata_name

-----------------------------------------------------------------------------

Init ==
  /\ scenario \in Scenarios
  /\ machine \in scenario.machines
  /\ at = scenario.at
  /\ files = [where \in Bases \X FileNames |-> "none"]
  /\ pc = "start" /\ n = 1 /\ userdata = "none" /\ result = "none"
  /\ runs = 1 /\ won = {}

Return(what) == pc' = "done" /\ result' = what

Down == pc' = "down" /\ UNCHANGED result

\* Nothing is done without providers; else there is always a directory.
Start ==
  /\ pc = "start"
  /\ \/ scenario.providers = <<>> /\ Return("ok")
     \/ scenario.providers # <<>> /\ pc' = "probe" /\ UNCHANGED result
     \/ scenario.providers # <<>> /\ mayFail("mkdir") /\ Return("error")
  /\ UNCHANGED <<history, at, files, n, userdata, won>>

\* Wrong: the next provider counts as the one that answered.
TakenOver(answer) ==
  /\ \/ answer \in Data /\ userdata' = answer /\ won' = won \cup {answer} /\ pc' = "base"
     \/ answer \notin Data /\ UNCHANGED <<userdata, won, pc>>
  /\ n' = n + 1

\* Wrong: an answer that is an error ends the probing.
FirstOnly(answer) ==
  /\ \/ answer \in Data /\ userdata' = answer /\ won' = won \cup {answer} /\ pc' = "base"
     \/ answer \notin Data /\ UNCHANGED <<userdata, won, pc>>
  /\ n' = IF answer = "error" THEN Len(Providers) + 1 ELSE IF answer = "none" THEN n + 1 ELSE n

\* The first provider with user data wins; errors only lead to the next one.
Taken(answer) ==
  \/ /\ answer \in Data
     /\ userdata' = answer /\ won' = won \cup {answer}
     /\ pc' = "base"
     /\ UNCHANGED n
  \/ /\ answer \notin Data
     /\ n' = n + 1
     /\ UNCHANGED <<userdata, won, pc>>

Probe ==
  /\ pc = "probe" /\ n <= Len(Providers) /\ Providers[n] # "nocloud"
  /\ Taken(probe_and_extract(Providers[n]))
  /\ UNCHANGED <<history, at, files, result>>

\* Meta data that comes with user data is copied first, whether or not the
\* copy succeeds and the user data can be read.
ProbeNocloud ==
  /\ pc = "probe" /\ n <= Len(Providers) /\ Providers[n] = "nocloud"
  /\ LET mirrored(what) == [files EXCEPT ![<<"run", "meta-data">>] = what]
         mirrors == machine.seed.user # "none" /\ machine.seed.meta \in Data
     IN  \/ /\ files' = IF mirrors THEN mirrored(machine.seed.meta) ELSE files
            /\ Taken(nocloud_provider)
            /\ UNCHANGED result
         \/ /\ mirrors /\ files' = mirrored(Partial)
            /\ \/ mayFail("write") /\ Taken(nocloud_provider) /\ UNCHANGED result
               \/ mayFail("crash") /\ Down /\ UNCHANGED <<n, userdata, won>>
  /\ UNCHANGED <<history, at>>

GiveUp ==
  /\ pc = "probe" /\ n > Len(Providers)
  /\ Return("error")
  /\ UNCHANGED <<history, at, files, n, userdata, won>>

Base == BasePath(Providers[n])

\* The path may be a file.
MakeBase ==
  /\ pc = "base"
  /\ \/ /\ Base = "path" => at \in {"none", "dir"}
        /\ at' = IF Base = "path" THEN "dir" ELSE at
        /\ pc' = "raw"
        /\ UNCHANGED result
     \/ /\ (Base = "path" /\ at \notin {"none", "dir"}) \/ mayFail("mkdir")
        /\ Return("error")
        /\ UNCHANGED at
  /\ UNCHANGED <<history, files, n, userdata, won>>

\* A file is written, then gets its mode, and `then` follows.
Write(name, then) ==
  LET written(what) == [files EXCEPT ![<<Base, name>>] = what]
  IN  \/ files' = written(userdata) /\ then
      \/ files' = written(userdata) /\ mayFail("chmod") /\ Return("error")
      \/ files' = written(Partial) /\ mayFail("write") /\ Return("error")
      \/ files' = written(Partial) /\ mayFail("crash") /\ Down

\* Wrong: the second copy is made of anything.
WriteRawAlways ==
  /\ pc = "raw"
  /\ Write("userdata", pc' = "named" /\ UNCHANGED result)
  /\ UNCHANGED <<history, at, n, userdata, won>>

WriteRaw ==
  /\ pc = "raw"
  /\ Write("userdata", IF userdata \in Configs THEN pc' = "named" /\ UNCHANGED result
                       ELSE Return("ok"))
  /\ UNCHANGED <<history, at, n, userdata, won>>

WriteNamed ==
  /\ pc = "named"
  /\ Write(Named, Return("ok"))
  /\ UNCHANGED <<history, at, n, userdata, won>>

Crash ==
  /\ mayFail("crash") /\ pc \notin {"done", "down"}
  /\ Down
  /\ UNCHANGED <<history, at, files, n, userdata, won>>

RunAgain ==
  /\ pc \in {"done", "down"} /\ runs < MaxRuns
  /\ runs' = runs + 1
  /\ machine' \in scenario.machines
  /\ pc' = "start" /\ n' = 1 /\ userdata' = "none" /\ result' = "none"
  /\ UNCHANGED <<scenario, at, files, won>>

Next ==
  \/ Start \/ Probe \/ ProbeNocloud \/ GiveUp \/ MakeBase \/ WriteRaw \/ WriteNamed
  \/ Crash \/ RunAgain

Spec == Init /\ [][Next]_vars

-----------------------------------------------------------------------------

\* The types of the variables: the probing stays in the list of providers.
TypeOK ==
  /\ scenario \in Scenarios /\ machine \in scenario.machines
  /\ at \in FileState \cup {"dir"}
  /\ files \in [Bases \X FileNames -> Data \cup {"none", Partial}]
  /\ pc \in {"start", "probe", "base", "raw", "named", "done", "down"}
  /\ n \in 1 .. Len(Providers) + 1
  /\ userdata \in Data \cup {"none"}
  /\ pc \in {"base", "raw", "named"} => n <= Len(Providers) /\ userdata \in Data
  /\ result \in {"none", "ok", "error"}
  /\ runs \in 1 .. MaxRuns
  /\ won \subseteq Data

\* What the copy of a config may be called: anything of its own if the stage
\* does not say.
CopyNames == IF scenario.userdata_name = "" THEN FileNames \ {"userdata", "meta-data"}
             ELSE {scenario.userdata_name}

Copied(base, data) == \E name \in CopyNames : files[<<base, name>>] = data

\* "The first provider to return userdata wins": after a run that returns Ok,
\* the output is what the first provider has that has any, however many before
\* it fail, and whatever earlier runs have left; a config is there twice.  The
\* name of the copy is left open where the stage gives none: datasource.rs:167
\* takes userdata.yaml, docs/configuration-reference.md:1143 says `user-data`.
FirstAnswerWins ==
  result = "ok" /\ scenario.providers # <<>> =>
    LET answers == [i \in DOMAIN scenario.providers |-> probe_and_extract(scenario.providers[i])]
        winners == {i \in DOMAIN answers : answers[i] \in Data}
        winner == Min(winners)
        base == IF scenario.path \in {"", scenario.providers[winner]}
                   \/ scenario.providers[winner] = "file" THEN "run" ELSE "path"
    IN  /\ winners # {}
        /\ files[<<base, "userdata">>] = answers[winner]
        /\ answers[winner] \in Configs => Copied(base, answers[winner])

\* A run that finds user data and can write it does not fail because of other
\* providers: without faults, an error means that none has any, or that there
\* is a file where the output belongs.
AnyAnswerSuffices ==
  result = "error" /\ scenario.faults = {} =>
    \/ \A i \in DOMAIN scenario.providers : probe_and_extract(scenario.providers[i]) \notin Data
    \/ scenario.path # "" /\ at \notin {"none", "dir"}

\* What later calls load as a config, the copy under a name of its own, is a
\* config that some run has taken as a whole, or the start of one whose write
\* broke off; the user data of a machine never gets there by another way.
NamedIsConfig ==
  Named \notin {"userdata", "meta-data"} =>
    \A b \in Bases : files[<<b, Named>>] \in (won \cap Configs) \cup {"none", Partial}

=============================================================================
