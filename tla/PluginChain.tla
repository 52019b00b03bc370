----------------------------- MODULE PluginChain -----------------------------
(***************************************************************************)
(* The smaller plugins in the order the executor calls them, on a machine  *)
(* that goes through one stage after the other, with failures and crashes. *)
(* What commands do to the machine is not the program's and is modelled    *)
(* as far as the plugins rely on it.                                       *)
(***************************************************************************)
EXTENDS Conditionals, SettingPlugins, PackagePlugins, GitPlugin

CONSTANT Scenarios \* stages that a machine goes through, the machine, and faults

Faults == {"write", "mkdir", "run", "read", "crash"}

\* The plugins of this module, in the order of DefaultExecutor::new.
Chain == <<"dns", "git", "commands", "hostname", "sysctl", "modules", "timesyncd",
           "systemctl", "environment", "systemd_firstboot", "package_pins", "packages">>

\* What a stage asks of the plugins; a map's keys are among the ordered ones.
Stage(s) ==
  /\ s.dns \in [nameservers : Seq(STRING), search : Seq(STRING), options : Seq(STRING), path : STRING]
  /\ s.git \in [url : STRING, path : STRING, branch : STRING,
                branch_only : BOOLEAN, key : BOOLEAN, fits : BOOLEAN]
  /\ {s.commands, s.hostname, s.modules} \subseteq Seq(STRING)
  /\ DOMAIN s.sysctl \subseteq ToSet(SysctlOrder)
  /\ s.systemctl \in [enable : Seq(STRING), disable : Seq(STRING), mask : Seq(STRING), start : Seq(STRING),
                      overrides : Seq([service : STRING, name : STRING, content : Seq(STRING)])]
  /\ s.environment_file \in STRING
  /\ DOMAIN s.package_pins \subseteq ToSet(PackageOrder)
  /\ s.packages \in [install : Seq(STRING), remove : Seq(STRING), refresh : BOOLEAN, upgrade : BOOLEAN]

ASSUME ChainAssumption ==
  /\ SysctlOrder \in Seq(Seq(STRING)) /\ PackageOrder \in Seq(STRING)
  /\ \A s \in Scenarios :
    /\ DOMAIN s = {"stages", "files", "installed", "known", "keys", "host", "os", "tips", "backend", "faults"}
    /\ s.stages # <<>> /\ DOMAIN s.stages = 1 .. Len(s.stages) /\ Len(s.stages) \in Nat
    /\ \A i \in DOMAIN s.stages : Stage(s.stages[i])
    /\ Len(s.tips) = Len(s.stages)
    /\ DOMAIN s.os = {"id", "like", "name", "version"}
    /\ DOMAIN s.host = {"env", "arch", "comm"} \* $HOSTNAME, and process 1
    /\ s.backend \in {"shell", "gix"}
    /\ s.faults \subseteq Faults

VARIABLES
  scenario, \* stays as it is
  files,    \* the files that are there: path -> content
  machine,  \* what commands change; see Booted
  run,      \* which stage this call is for
  plugin,   \* which plugin of the chain is next
  todo,     \* the deeds this plugin has still to do
  written,  \* whether it has written a file
  errs,     \* the plugins that have returned an error
  pc        \* "check", "chain", "deeds", "done", "skipped" or "down"

vars == <<scenario, files, machine, run, plugin, todo, written, errs, pc>>

mayFail(what) == what \in scenario.faults

stage == scenario.stages[run]

-----------------------------------------------------------------------------

\* The overrides on the disk.
Dropins(f) == {path \in DOMAIN f : Head(path) = "systemd"}

\* The machine after a boot: settings are gone, the overrides are loaded, and
\* what has been installed or checked out is there.
Booted(old, f) ==
  [old EXCEPT !.hostname = IF HostnamePath \in DOMAIN f THEN f[HostnamePath] ELSE <<>>,
              !.modules = {}, !.started = {}, !.shell = <<>>, !.flags = {},
              !.loaded = {<<path, f[path]>> : path \in Dropins(f)},
              !.key = FALSE]

WithoutSysctl(f) == [path \in {p \in DOMAIN f : Head(p) # "proc"} |-> f[path]]

\* What an installation takes: the pin in place counts for apt.
Candidate(pm, name) ==
  LET pinned == pm = "apt" /\ PrefPath(name) \in DOMAIN files
  IN  IF pinned /\ files[PrefPath(name)] # <<>> THEN Head(files[PrefPath(name)]) ELSE "newest"

\* The machines a command may leave; none if it fails.  A unit, a module, a
\* package and a command that works is known; a failing one changes nothing.
After(command) ==
  LET what == command[2]
      ok(machines) == {machines}
      known(it) == it \in scenario.known
  IN  CASE command[1] = "sethostname" -> ok([machine EXCEPT !.hostname = what])
        [] command[1] = "ssh key" -> ok([machine EXCEPT !.key = TRUE])
        [] command[1] = "firstboot" -> ok([machine EXCEPT !.flags = what])
        [] command[1] = "daemon-reload" ->
             ok([machine EXCEPT !.loaded = {<<path, files[path]>> : path \in Dropins(files)}])
        [] command[1] = "shell" ->
             IF known(what) THEN ok([machine EXCEPT !.shell = Append(@, what)]) ELSE {}
        [] command[1] = "modprobe" ->
             IF known(what) THEN ok([machine EXCEPT !.modules = @ \cup {what}]) ELSE {}
        [] command[1] = "mask" -> ok([machine EXCEPT !.masked = @ \cup {what}])
        [] command[1] \in {"enable", "disable", "start"} ->
             IF ~ known(what) \/ (what \in machine.masked /\ command[1] # "disable") THEN {}
             ELSE ok(CASE command[1] = "enable" -> [machine EXCEPT !.enabled = @ \cup {what}]
                       [] command[1] = "disable" -> [machine EXCEPT !.enabled = @ \ {what}]
                       [] command[1] = "start" -> [machine EXCEPT !.started = @ \cup {what}])
        [] command[1] \in {"refresh", "upgrade"} -> ok(machine)
        [] command[1] = "install" ->
             IF \E i \in DOMAIN command[3] : ~ known(command[3][i]) THEN {}
             ELSE ok([machine EXCEPT !.installed =
                        Over([name \in ToSet(command[3]) |-> Candidate(what, name)], @)])
        [] command[1] = "remove" ->
             IF \E i \in DOMAIN command[3] : ~ known(command[3][i]) THEN {}
             ELSE ok([machine EXCEPT !.installed =
                        [name \in DOMAIN @ \ ToSet(command[3]) |-> @[name]]])
        [] OTHER -> {[machine EXCEPT !.repo = repo] :
                       repo \in AfterGit(command, machine.repo, scenario.tips[run])}

\* What readers make of an empty file.
Empty(path) == IF path \in {WorldPath, DnfConf} THEN {} ELSE <<>>

\* A file under /proc/sys is not made by writing to it.
Writable(path) == Head(path) = "proc" => path \in scenario.keys

-----------------------------------------------------------------------------

\* What the plugin's call sets out to do.  Files are read in the call, and a
\* machine id is made in it.
Deeds(name, readable) ==
  CASE name = "dns" -> dns(stage)
    [] name = "git" -> git(stage, machine.repo, scenario.backend)
    [] name = "commands" -> commands(stage)
    [] name = "hostname" -> hostname(stage, <<run>>)
    [] name = "sysctl" -> sysctl(stage)
    [] name = "modules" -> modules(stage)
    [] name = "timesyncd" -> timesyncd(stage)
    [] name = "systemctl" -> systemctl(stage)
    [] name = "environment" -> environment(stage, files, readable)
    [] name = "systemd_firstboot" -> systemd_firstboot(stage)
    [] name = "package_pins" -> package_pins(stage, scenario.os, files, readable)
    [] name = "packages" -> packages(stage, scenario.os)

Init ==
  /\ scenario \in Scenarios
  /\ files = scenario.files
  /\ machine = Booted([hostname |-> <<>>, modules |-> {}, started |-> {}, enabled |-> {},
                       masked |-> {}, loaded |-> {}, flags |-> {}, shell |-> <<>>,
                       installed |-> scenario.installed, repo |-> NoRepo, key |-> FALSE],
                      scenario.files)
  /\ run = 1 /\ plugin = 1 /\ todo = <<>> /\ written = FALSE /\ errs = {} /\ pc = "check"

\* Whether the stage runs, by the files and the hostname of this moment.  Its
\* `if` is run only where `node` fits; one that fails skips the stage.
check_conditionals ==
  /\ pc = "check"
  /\ LET live == IF machine.hostname = <<>> THEN "" ELSE Head(machine.hostname)
         others == /\ only_if_os(stage, scenario.os) /\ only_if_os_version(stage, scenario.os)
                   /\ if_arch(stage, scenario.host.arch)
                   /\ if_service_manager(stage, scenario.host.comm, files)
                   /\ if_files(stage, files)
         ifs == {stage.if \in {""} \cup scenario.known}
                \cup (IF stage.if # "" /\ mayFail("run") THEN {FALSE} ELSE {})
     IN  \E works \in ifs :
           pc' = IF node(stage, scenario.host.env, live) /\ works /\ others
                 THEN "chain" ELSE "skipped"
  /\ UNCHANGED <<scenario, files, machine, run, plugin, todo, written, errs>>

\* The next plugin is called, whatever has become of those before.
Call ==
  /\ pc = "chain" /\ plugin <= Len(Chain)
  /\ \E readable \in {TRUE} \cup {~ mayFail("read")} : todo' = Deeds(Chain[plugin], readable)
  /\ written' = FALSE
  /\ pc' = "deeds"
  /\ UNCHANGED <<scenario, files, machine, run, plugin, errs>>

Deed(op) == pc = "deeds" /\ todo # <<>> /\ Head(todo).op = op

Done == todo' = Tail(todo) /\ UNCHANGED errs

Failed ==
  /\ todo' = CASE Head(todo).fail \in {"next", "ignore"} -> Tail(todo)
               [] Head(todo).fail = "skip" -> Tail(Tail(todo))
               [] Head(todo).fail = "return" -> <<>>
  /\ errs' = IF Head(todo).fail = "ignore" THEN errs ELSE errs \cup {Chain[plugin]}

\* A file is emptied, then written; a failure may leave it at either.
DoWrite ==
  /\ Deed("write")
  /\ LET path == Head(todo).path
         with(content) == files' = Put(files, path, content)
     IN  \/ Writable(path) /\ with(Head(todo).content) /\ written' = TRUE /\ Done
         \/ ~ Writable(path) /\ UNCHANGED <<files, written>> /\ Failed
         \/ /\ mayFail("write")
            /\ UNCHANGED files \/ (Head(path) # "proc" /\ with(Empty(path)))
            /\ UNCHANGED written
            /\ Failed
  /\ UNCHANGED <<scenario, machine, run, plugin, pc>>

DoMkdir ==
  /\ Deed("mkdir")
  /\ Done \/ (mayFail("mkdir") /\ Failed)
  /\ UNCHANGED <<scenario, files, machine, run, plugin, written, pc>>

DoRun ==
  /\ Deed("run")
  /\ LET after == After(Head(todo).command)
     IN  \/ machine' \in after /\ Done
         \/ (after = {} \/ mayFail("run")) /\ Failed /\ UNCHANGED machine
  /\ UNCHANGED <<scenario, files, run, plugin, written, pc>>

DoRunIfWritten ==
  /\ Deed("run if written")
  /\ \/ written /\ machine' \in After(Head(todo).command) /\ Done
     \/ written /\ mayFail("run") /\ Failed /\ UNCHANGED machine
     \/ ~ written /\ Done /\ UNCHANGED machine
  /\ UNCHANGED <<scenario, files, run, plugin, written, pc>>

DoRefuse ==
  /\ Deed("refuse")
  /\ Failed
  /\ UNCHANGED <<scenario, files, machine, run, plugin, written, pc>>

\* Wrong: the key file stays if the git commands have failed.
ReturnKeyKept ==
  /\ pc = "deeds" /\ todo = <<>>
  /\ machine' = [machine EXCEPT !.key = @ /\ Chain[plugin] \in errs]
  /\ plugin' = plugin + 1 /\ pc' = "chain"
  /\ UNCHANGED <<scenario, files, run, todo, written, errs>>

\* The key file goes with the call.
Return ==
  /\ pc = "deeds" /\ todo = <<>>
  /\ machine' = [machine EXCEPT !.key = FALSE]
  /\ plugin' = plugin + 1 /\ pc' = "chain"
  /\ UNCHANGED <<scenario, files, run, todo, written, errs>>

Finish ==
  /\ pc = "chain" /\ plugin > Len(Chain)
  /\ pc' = "done"
  /\ UNCHANGED <<scenario, files, machine, run, plugin, todo, written, errs>>

\* The machine goes down, and may leave a file empty or a clone in part.
Crash ==
  /\ mayFail("crash") /\ pc \in {"check", "chain", "deeds"}
  /\ LET broken(f, repo) ==
           /\ files' = WithoutSysctl(f)
           /\ machine' = Booted([machine EXCEPT !.repo = repo], WithoutSysctl(f))
         emptied(path) == Put(files, path, Empty(path))
     IN  \/ broken(files, machine.repo)
         \/ Deed("write") /\ broken(emptied(Head(todo).path), machine.repo)
         \/ /\ Deed("run") /\ Head(todo).command[1] \in {"clone", "fetch only"}
            /\ broken(files, [NoRepo EXCEPT !.state = "part"])
  /\ todo' = <<>> /\ pc' = "down"
  /\ UNCHANGED <<scenario, run, plugin, written, errs>>

\* The next stage, in the same boot if the machine is still up.
NextStage ==
  /\ pc \in {"done", "skipped", "down"} /\ run < Len(scenario.stages)
  /\ run' = run + 1
  /\ machine' = [machine EXCEPT !.shell = <<>>, !.flags = {}]
  /\ plugin' = 1 /\ written' = FALSE /\ errs' = {} /\ pc' = "check"
  /\ UNCHANGED <<scenario, files, todo>>

Next ==
  \/ check_conditionals \/ Call \/ DoWrite \/ DoMkdir \/ DoRun \/ DoRunIfWritten \/ DoRefuse \/ Return
  \/ Finish \/ Crash \/ NextStage

Spec == Init /\ [][Next]_vars

-----------------------------------------------------------------------------

\* The types of the variables.  A deed that is left out with a failed one is
\* there, and between calls no key is in a file.
TypeOK ==
  /\ run \in 1 .. Len(scenario.stages) /\ plugin \in 1 .. Len(Chain) + 1
  /\ written \in BOOLEAN
  /\ errs \subseteq ToSet(Chain)
  /\ pc \in {"check", "chain", "deeds", "done", "skipped", "down"}
  /\ \A i \in DOMAIN todo :
       todo[i].fail \in Policies /\ (todo[i].fail = "skip" => i < Len(todo))
  /\ pc # "deeds" => todo = <<>> /\ ~ machine.key

\* The value that counts of those that a stage has for one path: the last one.
LastFor(seq, path, PathOf(_)) == seq[Max({i \in DOMAIN seq : PathOf(seq[i]) = path})]

\* What stage s asks of each plugin, in files f and on machine m.
Reads(f, path, content) == Exists(path, f) /\ f[path] = content

DnsSet(s, f) ==
  s.dns.nameservers # <<>> /\ ResolvConf(s) # EnvFile(s) =>
    /\ Exists(ResolvConf(s), f)
    /\ LET of(word) == Those(f[ResolvConf(s)], LAMBDA line : line[1] = word)
       IN  /\ of("nameserver") = [i \in DOMAIN s.dns.nameservers |->
                                    <<"nameserver", <<s.dns.nameservers[i]>>>>]
           /\ of("search") = IF s.dns.search \in {<<>>, <<".">>} THEN <<>>
                             ELSE <<<<"search", s.dns.search>>>>
           /\ \A i \in DOMAIN s.dns.options : s.dns.options[i] # "" =>
                of("options") = <<<<"options", s.dns.options>>>>

NameSet(s, f) ==
  s.hostname # <<>> =>
    /\ Reads(f, HostnamePath, s.hostname)
    /\ Exists(MachineIdPath, f) /\ f[MachineIdPath] # <<>>

SysctlsSet(s, f) ==
  LET keys == Sorted(s.sysctl, SysctlOrder)
  IN  \A i \in DOMAIN keys :
        LET path == sysctl_path(keys[i])
        IN  Reads(f, path, s.sysctl[LastFor(keys, path, sysctl_path)])

UnitsSet(s, f, m) ==
  LET asked == s.systemctl
  IN  /\ ToSet(asked.enable) \ ToSet(asked.disable) \subseteq m.enabled
      /\ ToSet(asked.disable) \cap m.enabled = {}
      /\ ToSet(asked.mask) \subseteq m.masked
      /\ ToSet(asked.start) \subseteq m.started
      /\ \A i \in DOMAIN Overrides(s) :
           LET path == Dropin(Overrides(s)[i])
               content == LastFor(Overrides(s), path, Dropin).content
           IN  Reads(f, path, content) /\ <<path, content>> \in m.loaded

VariablesSet(s, f) ==
  \A v \in DOMAIN s.environment :
    /\ Exists(EnvFile(s), f)
    /\ v \in DOMAIN f[EnvFile(s)] /\ f[EnvFile(s)][v] = s.environment[v]

FlagsOf(s) == {IF s.systemd_firstboot[key] = "true" THEN <<key>>
               ELSE <<key, s.systemd_firstboot[key]>> : key \in DOMAIN s.systemd_firstboot}

\* The pins with a version, where the code can pin; with dnf just the names.
PinsSet(s, pm, f) ==
  \A p \in {q \in DOMAIN s.package_pins : s.package_pins[q] # ""} :
    /\ pm = "apt" => Reads(f, PrefPath(p), <<s.package_pins[p]>>)
    /\ pm = "dnf" => /\ Reads(f, ProtectedPath(p), <<p>>)
                     /\ Exists(DnfConf, f) /\ "versionlock" \in f[DnfConf]
    /\ pm = "apk" => /\ Exists(WorldPath, f)
                     /\ {e \in f[WorldPath] : e[1] = p} = {<<p, s.package_pins[p]>>}

\* With apt, in the versions of the pins that are in place.
PackagesSet(s, pm, pinned, m) ==
  LET gone == ToSet(s.packages.remove)
      asked == ToSet(s.packages.install) \ gone
  IN  /\ asked \subseteq DOMAIN m.installed /\ gone \cap DOMAIN m.installed = {}
      /\ pm = "apt" /\ pinned =>
           \A p \in asked \cap DOMAIN s.package_pins :
             s.package_pins[p] # "" => m.installed[p] = s.package_pins[p]

\* What the stage asks a plugin for has come true.
Applied(name) ==
  CASE name = "dns" -> DnsSet(stage, files)
    [] name = "git" -> stage.git.url # "" /\ scenario.backend = "shell" => machine.repo.state = "whole"
    [] name = "commands" -> machine.shell = stage.commands
    [] name = "hostname" -> NameSet(stage, files)
    [] name = "sysctl" -> SysctlsSet(stage, files)
    [] name = "modules" -> ToSet(stage.modules) \subseteq machine.modules
    [] name = "timesyncd" ->
         DOMAIN stage.timesyncd # {} => Reads(files, TimesyncdPath, stage.timesyncd)
    [] name = "systemctl" -> UnitsSet(stage, files, machine)
    [] name = "environment" -> VariablesSet(stage, files)
    [] name = "systemd_firstboot" -> machine.flags = FlagsOf(stage)
    [] name = "package_pins" -> PinsSet(stage, match_id(scenario.os), files)
    [] name = "packages" ->
         PackagesSet(stage, match_id(scenario.os), "package_pins" \notin errs, machine)

\* After a call that ends, what its stage asks of each plugin is there, or the
\* plugin has returned an error: whatever has failed in other plugins, and
\* whatever earlier calls that failed or broke off have left.  Not so where the
\* code returns Ok without doing what is asked, which is left out: `git` in the
\* built-in backend, which leaves the work tree empty or as it is; pins on a
\* machine with zypper or no known manager; a pin without a version; the
\* version of a pin with dnf, where only the name is protected.
AppliedOrReported == pc = "done" => \A name \in ToSet(Chain) \ errs : Applied(name)

\* What stages have asked for up to now.
Stages == {scenario.stages[i] : i \in 1 .. run}

\* What no stage names stays in the files that plugins rewrite, call after
\* call, if the files can be read and written.  Not so a variable with quotes,
\* a backslash or several lines, nor one in a file that `dns` is to write too.
OthersKept ==
  scenario.faults \cap {"read", "write", "crash"} = {} =>
    /\ \A path \in DOMAIN scenario.files
                  \cap ({EnvFile(s) : s \in Stages} \ {ResolvConf(s) : s \in Stages}) :
         \A v \in DOMAIN scenario.files[path] \ UNION {DOMAIN s.environment : s \in Stages} :
           /\ v \in DOMAIN files[path]
           /\ scenario.files[path][v].text \in {"plain", "spaced"} =>
                files[path][v] = scenario.files[path][v]
    /\ WorldPath \in DOMAIN scenario.files =>
         \A entry \in scenario.files[WorldPath] :
           entry[1] \notin UNION {DOMAIN s.package_pins : s \in Stages} => entry \in files[WorldPath]
    /\ DnfConf \in DOMAIN scenario.files => scenario.files[DnfConf] \subseteq files[DnfConf]

\* After a call of the shell backend without an error the work tree is what
\* the branch is at on the remote, also when the remote has gone on, when an
\* earlier call has failed, and when one broke off.  Not so if stages that
\* ask for one branch only ask for different ones: the branch that is on gets
\* reset before the other is checked out.  The remote is the one of the clone.
WorkTreeIsBranch ==
  LET branches == {effective_branch(s.git) : s \in {t \in Stages : t.git.url # ""}}
      steady == Cardinality(branches) <= 1 \/ \A s \in Stages : ~ s.git.branch_only
  IN  pc = "done" /\ "git" \notin errs /\ stage.git.url # "" /\ scenario.backend = "shell" /\ steady =>
        machine.repo.tree = scenario.tips[run][<<machine.repo.url, effective_branch(stage.git)>>]

\* An id that is there stays.  The code gives a new one with every name it
\* sets, against "generates a fresh v4-UUID-derived machine-id when the file
\* doesn't exist".
IdStays == MachineIdPath \in DOMAIN files /\ files[MachineIdPath] # <<>> =>
             files'[MachineIdPath] = files[MachineIdPath]

\* Stages that set the hostname only while there is no machine id leave the id
\* of an earlier boot alone, crashes and failures included.
IdKeptIfGuarded ==
  [][(\A i \in DOMAIN scenario.stages :
        LET s == scenario.stages[i]
        IN  s.hostname # <<>> =>
              "none" \in DOMAIN s.if_files /\ MachineIdPath \in ToSet(s.if_files["none"]))
     => IdStays]_vars

=============================================================================
