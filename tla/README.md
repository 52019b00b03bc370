# yip-rs: specifications, model checking and proofs

yip-rs applies a cloud-config file to a machine: `yip --stage initramfs /oem`
reads configs from files, directories, URLs or standard input, takes the list
of stages each holds under a stage name, orders it by the stages' `after:`
keys and puts every stage through a chain of plugins that edit account files,
partition disks, fetch user data and so on. It runs as root during boot, again
on every boot, and may be started several times at once.

This directory holds TLA+ modules for the parts in which order, failure,
repetition or concurrency decide whether the result is right, the
configurations that check them with TLC, and theorems about them that TLAPS
checks. Source paths are relative to the repository; `src/src/...` in
`PROJECT.json` is the crate's `src/` directory.

## 1. The system: components, state, operations

| component | state it keeps | operations | talks to |
|---|---|---|---|
| executor (`executor/`) | per call: operations graph, error buffers | `run`, `apply`, `analyze`, `load_*` | conditionals, plugins, vfs, console, modifier |
| command line (`cli/`) | none | `--stage`, `analyze`, `version` | executor |
| dot-notation modifier (`schema/dot_notation.rs`) | none | `modify` | executor (before parsing) |
| config schema (`schema/`) | none | parse, merge keys, cloud-config translation | executor |
| template engine (`template/`) | none | preprocess Go syntax, render, functions | executor, commands |
| entities (`plugins/entities.rs`) | passwd, shadow, group files; `*.yip-lock` | `ensure_entities`, `delete_entities` | vfs, flock |
| user (`plugins/user.rs`) | the same files (without the lock), homes | `apply_one` per user | vfs, ssh keys |
| ssh (`plugins/ssh.rs`) | `authorized_keys` | `ensure_keys` per user | vfs, HTTP |
| layout (`plugins/layout.rs`) | the partition table, filesystems | plan, add, format, expand | gpt crate or parted, mkfs, blkid |
| unpack_images (`plugins/unpack_image.rs`) | a directory tree | pull, extract layers | registry, vfs |
| git (`plugins/git.rs`) | a work tree, `GIT_SSH_COMMAND` | clone, update | gix or the git command |
| datasources (`plugins/datasource.rs`) | the user data files | probe providers, write | HTTP, disks, executor |
| files, directories, downloads | files, modes, owners | write, chmod, chown | vfs, HTTP |
| packages, package_pins | `/etc/apk/world`, `dnf.conf`, ... | refresh, upgrade, install, remove; pin | package manager |
| systemctl | units, overrides | enable, disable, start, mask, override | systemctl |
| commands, modules, sysctl, timesyncd, hostname, dns, environment, systemd_firstboot | one file or none | a loop of commands or one write | console, vfs |
| conditionals | none | `if`, `if_files`, `only_os`, `node`, ... | console, vfs |
| vfs, console | the filesystem; none | read, write, chmod; run | everything above |

How they interact: the command line builds one executor and calls `run` once.
The executor is sequential. For each config and each of the substages
`X.before`, `X`, `X.after` it builds a graph from the stage list and works
through its layers; for each operation it asks the conditionals and, if none
skips it, calls every plugin in a fixed order. A plugin gets the stage, the
vfs and the console and returns errors, which the executor collects. Plugins
share no memory, only the machine: `user` and `ssh` follow each other in the
chain and write the same `authorized_keys`; entities and user write the same
account files; datasources write configs that a later call reads.

### What makes it hard

* **Errors as data.** Nothing stops the loops. An error must get from a plugin
  through three buffers (operation, stage list, call) to the exit code.
* **Order.** `after:` keys may point forward, name several stages, none, or
  form a cycle; stages without one keep the order of their declaration by
  edges the executor adds, which can meet the `after:` edges.
* **Several executors at once** edit one file under a lock whose file is
  unlinked by the holder.
* **Crashes and reruns.** The machine can go down between any two writes and
  the next boot runs the same stage on what is left.
* **Texts of another program.** Templates are Go's, rendered by tera; configs
  may be cloud-init's; a kernel command line becomes a document. A wrong
  reading loads without an error and does something else.
* **State read once and used later**: the partition numbers planned before the
  tool assigns others; uids computed from a table that lacks the malformed
  lines; a table or key file that cannot be read and counts as empty.

### What makes each component correct

* executor: each stage that can be read and ordered is handled once, after all
  that it waits for; every failure is reported and nothing else is; plugins do
  not abort each other; `analyze` shows what `run` does; the run ends.
* entities: concurrent edits leave the file as if each had been made in one
  step; no lock file stays behind.
* user and ssh: ids are distinct and stay; an account reported as made is
  complete; no row or key is lost but by a write of its own file that breaks off,
  and that is reported.
* layout: nothing that holds data is formatted, moved or renamed; a call that
  reports no error has made every partition; growing is completed by a later
  call; names are not given twice.
* unpack_images: the tree is the union of the layers; nothing else in the target
  is touched. git: the work tree is the branch asked for, also after a crash.
  packages, systemctl and the setting plugins: what is not reported as failed
  has come true, and what no stage names stays. conditionals: a stage meant for
  once is run once. config schema and template engine: what is loaded and
  rendered means what the text meant. datasources: the first provider's data,
  completely written. files, directories and downloads: each entry with its
  content, mode and owner, also when a run before broke off; nothing else is
  touched.

## 2. Modules

| module | models | state and actions |
|---|---|---|
| `Subsequences` | `Iterator::filter` | operators only: what is left of a sequence at given places |
| `StageDag` | `build_dag_for_config`, `dag::Layer`s | operators only: the edges and the orders the graph allows |
| `DagPlan` | one call of it | names of operations; `Build` orders a list or refuses it |
| `ConfigSources` | `resolve_source`, `load_dir`, `parse_bytes`, the modifier | operators only: a source is what its text looks like, what it leads to and what that holds |
| `StageRunner` | (abstract) what a run promises | `handled`, `refused`, `failed`, `result`; handle an operation, fail, refuse a source or list, finish |
| `Executor` | `run`, `apply`, `--stage`, `analyze` | program counter and loop variables; an action per source, config, substage, conditional, plugin, end of each loop |
| `EntityFile` | the two edits of a passwd-style file | operators only: `merge_line` and `remove_line` on sequences of lines |
| `EntityEdits` | (abstract) edits in one step each | `file`, `todo`, `errs`; `Apply(p)`, `Fail(p)` |
| `EntityLock` | `with_passwd_lock`, `ensure_one`, `delete_one`, `RealVfs::write` | inodes, path, holders, each process's place; open, lock, read, truncate, write, unlink, close, die |
| `Accounts` | `user::apply_one`, `ssh::ensure_keys` | passwd, group, shadow, homes, keys; an action per write, one for a write that fails or is cut short (`BreakOff`), crash, rerun |
| `Layout` | `layout::run_with` | the table, the plan, the place in the run; begin, init, check, plan, add, mkfs, expand, grow, end, crash, rerun |
| `UnpackImage` | `unpack_image::run`, `extract_layer` | the tree under the target, the place in images, layers and entries; an action per kind of entry, refusal, end of each loop, crash, rerun |
| `FileTree` | `download_one`, `ensure_directory`, `write_one` | the tree, the place in the entries, which of them failed; make and write, chmod, chown per entry, the same per part of a directory's path, crash, rerun |
| `UserData` | `datasource::run`, its providers, `process_userdata` | both output directories, the machine's answers, the place in the run; probe, base directory, the two writes, crash, rerun |
| `PluginDeeds` | one write, directory or command of a plugin, and what its failure does to the rest | operators only: a deed says what it does and whether a failure ends the plugin, is noted, or skips the next |
| `SettingPlugins` | `hostname`, `sysctl`, `timesyncd`, `dns`, `environment`, `systemd_firstboot`, `modules`, `commands`, `systemctl` | operators only: each plugin gives the sequence of its deeds |
| `PackagePlugins` | `packages`, `package_pins` | the same, with the detection of the package manager |
| `GitPlugin` | `git`, both backends | the same: clone or update, and the key file around it |
| `Conditionals` | the seven conditionals | operators only: verdict or error on a host |
| `PluginChain` | `check_conditionals` and `run_plugins` over these, stage by stage, boot by boot | files, machine (units, packages, work tree), the deeds to do, which plugins failed; an action per deed and its failure, return, end, crash, next stage |
| `Template` | `preprocess` | the template so far; the output, the stack of open blocks and the number of loops: an action per tag |
| `YamlTree` | `expand_merges_in_node`, `dot_notation_modifier` | operators only (recursive) |
| `CloudConfig` | `load_from_cloud_config` | operators only |
| `TemplateFuncs` | the functions on maps, lists, numbers and versions | operators only (recursive) |
| `Documents` | what becomes of a text | `Template`'s state, and any other text with what has been made of it; an action per kind of text |

`Executor` extends `ConfigSources`, which extends `StageDag`; `DagPlan` extends
`StageDag`; `EntityLock` and `EntityEdits` extend `EntityFile`; `Executor`,
`UserData`, `Accounts`, `Layout` and `PluginDeeds` extend `Subsequences`;
`PluginChain` extends the four modules of its plugins and conditionals;
`Documents` extends `Template` and `TemplateFuncs` and takes `YamlTree` and
`CloudConfig` by `INSTANCE`. `Executor` implements `StageRunner` and
`EntityLock` implements `EntityEdits`, each by an `INSTANCE ... WITH` whose
temporal part (`PromiseKept`, `EditsAtomic`) is a property of a run. `MC*`
modules hold the constants' values for TLC, `*Proofs` modules the theorems;
`ExecutorProofs` has those of `Executor`, `DagPlan` and `UnpackImage`,
`UserDataProofs` those of `UserData` and `Template`, and `SubsequenceProofs` the
lemmas on sequences, places and prefixes of paths that the others share.

### Correspondence and abstractions

`PROJECT.json` maps every definition to the lines it stands for. In general:

* A text, a name or a payload is a member of a small set; its shape is kept
  where the code tells shapes apart (a source that starts with `/`, ends in
  one, has a colon or a newline; a passwd line that is short, odd or a row).
* A step of the model is what another process, or a crash, can see in between
  two steps of the code: one write, one command, one call of a plugin. Calls
  that only compute are joined with the step that uses them.
* `RealVfs::write` empties a file before it writes it (`real.rs:33-39`). Where
  that tells properties apart a write that breaks off leaves what it has written:
  in `EntityLock` the lines so far, in `Accounts` the first lines of a table (a
  line cut in the middle does not parse, and counts as missing), in `FileTree`,
  `UnpackImage` and `UserData` a file that is `Partial`. What a write that
  returned has written stays: losses of the page cache are left out.
* Faults (a read, write or command that fails; the machine going down) are
  part of a scenario, so that each property says under which faults it holds.
* Crashes and reruns: `Crash` forgets what the program has in memory, `RunAgain`
  starts the stage again with the machine as it is.

* A command of another program (git, apt, systemctl, modprobe) is external: the
  model says what it does to the machine when it succeeds (`After`,
  `AfterGit`), as the plugin relies on it, and nothing when it fails; a clone
  that a crash breaks off leaves its `.git`. The gix library's fetch is one command,
  with or without the remote `origin` that it looks for (`git.rs:469-484`).
* A plugin that goes through a list is a sequence of deeds, computed when the
  plugin is called, as its code reads the stage and the files at that point.

Where the model departs from the code: numbers of stages and plans start at 1
(0 in the code); `EntityLock` gives all lines one length, so that truncation
and a write at the start of a file can be said in lines; `Accounts` counts ids
up to `IdLimit` for 2^32 and starts people at `HumanIdMin` for 1000; `Layout`
uses MiB throughout, -1 for `u64::MAX`, and leaves out boot flags, the repair
of GPT headers and `partprobe`; in `PluginChain` a small file is empty or whole
after a write that broke off; `TemplateFuncs` counts integers up to `IntMax`
for 2^63 - 1, and leaves out floats.

## 3. Runs

| run | instance | what it shows |
|---|---|---|
| `dag_plan` | every list of up to 3 stages over names `a`, `1` and none, every `after:` set | `AfterHonoured`, `DeclarationOrderKept`, `RefusedOnlyForAfterCycle` (only a cycle of `after:` keys is refused) |
| `executor` | 2 plugins, 1 conditional, 7 lists of sources in three modes | `ErrorsReported`, `ChainWhole`, `AnalyzePredictsRun`, and `PromiseKept`: the executor implements `StageRunner`, including that it ends |
| `executor_production` | the executor as the command line builds it | fails `YamlStagesRun`: see the findings |
| `entity_lock` | 2 processes with an edit each, or 1 with 5 and every fault | `OneEditor`, `LockFileCleanedUp`, `EditsAtomic` |
| `entity_lock_several` | 2 processes with 2 edits each | fails `EnsuredLinesKept`: see the findings |
| `accounts` | 8 machines and stages, 2 runs each | `UidsDistinct`, `AccountsComplete`, `AccountsKept`, `KeysKept` |
| `layout` | 34 stages and disks, both backends, 3 runs each | `NamedOnce`, `CompleteAtOnce`, `Expanded`, `DataKept` |
| `unpack_image` | every image of two layers with one or two of seven entries each, an empty and a filled target; images with links, owners, whiteouts named by dots, several sources, faults and crashes; 2 runs each | `UnionExtracted`: the union of the layers, and beside it what was there |
| `file_tree` | one of 5 downloads, 4 directories and 4 files or none, and pairs that meet, an empty and a filled tree, three sets of faults; 2 runs each | `AsAsked` (and no path that no entry names is touched), `EachForItself` |
| `user_data` | every answer of every provider, alone, twice, before and after another; five machines that take turns; 2 runs each | `FirstAnswerWins`, `AnyAnswerSuffices`, `NamedIsConfig` |

| `plugin_chain` | stages with one plugin's part in every variant, in turns over 2 or 3 boots; one with something for every plugin; seven systems; remotes that move on; filters on hosts that differ; up to five kinds of faults | `AppliedOrReported`, `OthersKept`, `WorkTreeIsBranch`, `IdKeptIfGuarded` |
| `documents` | templates of up to 5 tags, command lines of up to 4 tokens, 10 000 documents with merge keys, 10 000 cloud-configs, every function on small maps, lists, versions and on all integers of 4 bits | `BoundAlike`, `TextsKept`, `FunctionsAsPromised` |

### Bounds, and why they are enough

* `dag_plan`: three stages and two names plus "none" cover every way a stage
  relates to two others: before, after, same name, self, dangling. `"1"` is a
  name that is also the index of an unnamed stage. The order properties are
  proved for every list.
* `executor`: two plugins are the least that can abort each other; the calls
  hold every shape of source, forward, backward, shared, dangling and cyclic
  `after:` keys, and every place an error can come from.
* `entity_lock`: two processes are the least that can overlap. With one edit
  each the lock file is unlinked at most twice; the run with two edits each
  shows that this bound matters for mutual exclusion. `LockFileCleanedUp` is
  proved for any number of both.
* `accounts`: three users are the least in which two new ones meet an old one;
  ids up to 8 with people from 3 on reach the end of the range.
* `layout`: ten MiB hold three partitions with a gap before, between and
  behind them. The third run is the first that can follow one broken run and
  one that returned.

* `unpack_image`: two layers are the least that have an upper one, two entries
  the least that have an order; `a`, `a/b`, `a/c` and `b` give a directory, two
  things in it and something beside it. The second run is the first on top of
  what another left.

* `file_tree`: three levels are the least at which a directory has a parent
  with a parent; one entry of each plugin in every combination gives the
  order between plugins, the pairs that within one.
* `user_data`: an answer matters by being user data, none or an error, and a
  config or not; two providers give every order of these, and two runs every
  change of one to another.

* `plugin_chain`: plugins meet only in files and in the machine, so that each
  plugin alone and one stage with all of them give what there is; three boots
  are one that breaks off, one on top of it and one on top of a whole one. Two
  branches and two keys are the least that can be taken for each other.
* `documents`: five tags nest two blocks with something inside; four tokens
  are two in each other's way and two beside them. Merge keys go two levels
  deep, into one mapping or a list of two. Integers of four bits have every
  pair of signs, overflow and the one quotient out of range.

Deadlock is not checked in any run: each of these systems stops when its call
has returned. That the executor and the editors do come to an end is
`PromiseKept` and `EditsAtomic`.

### Fairness

`Executor` has weak fairness of its next step: it is one thread and every step
is a call that returns. The code relies on the same: `Console::run` has no
timeout, so a command that hangs stops the executor, and this is a condition of
`PromiseKept`. `EntityLock` has weak fairness of each process: a process that
is able to take a step takes it; it waits only in `flock`, and is then able to
go on when the holder of that inode closes it. Dying is a step no fairness asks
for. The modules of the other plugins state no liveness and have no fairness.

### Findings (runs with expected violation)

* `executor_production`: the command line's executor passes every config
  through the dot-notation modifier, which makes nothing of plain YAML. The
  stages of a YAML file do not run, and the call succeeds.
* `entity_lock_several`: the holder unlocks the lock file and then unlinks it
  (`entities.rs:179`, `:183`), while another may have locked it. A third edit
  creates a new one, locks it and works next to the second, which holds the old
  inode. A line one of them ensured is lost.

Properties of passing runs name the scenarios they leave out, and why.

* `KeysKept` leaves out an `authorized_keys` that cannot be read as UTF-8: it
  counts as an empty file and its keys are overwritten (`ssh.rs:137`, against
  "never clobber existing keys" in `ssh.rs:13`).
* `AccountsKept` and `KeysKept` say that rows and keys are lost only by a write
  of their own file that breaks off, which the run reports unless the machine
  goes down: the code writes in place, and nothing protects what was there.
* `UidsDistinct` leaves out tables with the last id in use, after which the code
  hands out 0.
* `AnalyzePredictsRun` is of the executor's `analyze` on a config as `run` has
  resolved it. The command `yip analyze` loads its files with neither templates
  nor the modifier (`cli/mod.rs:124`), so what it prints may not be what runs,
  against "will tell you what would run" (`docs/migrating-from-go-yip.md:207`,
  also `:193`).
* `CompleteAtOnce` leaves out disks with a gap in their numbers: the planned
  number is not the one the tool gives, the new partition is not formatted and
  later calls pass over it (`layout.rs:391`, against `layout.rs:100`).
* An unreadable partition table counts as an empty one (`DataKept`,
  `NamedOnce`), a failed `blkid` counts as an unknown filesystem (`Expanded`).
* `UnionExtracted` leaves out the images in which the code does not give the
  union: hard links (they become symbolic links with a text relative to the
  image), links that another layer replaces by something else (a file is written
  through the link), owners that change back to root (they are not set), layers
  with a whiteout behind what it hides (the order of the tar decides), opaque
  whiteouts below a file, and whiteouts named `.wh..` or `.wh...`, whose name is
  joined to the path unread, so that the directory they stand in, or the one
  above, is emptied (`unpack_image.rs:215-222`; `WhiteoutDots` has them, and
  that they touch nothing else is checked; a `.wh.` with nothing behind it is
  left out). An owner that cannot be set is dropped without an error
  (`unpack_image.rs:277`): where chown fails the property speaks of paths, kinds
  and contents only (`AsIs`), and where a removal fails, whose error is dropped
  too, it is silent. It is also silent on runs that return an error: one in
  which a directory becomes a file between layers fails, and so does each one
  after it.
* `AsAsked` does not say what mode and owner a new parent of a directory gets:
  the code gives it those of the entry (`directories.rs:9`, `:80-97`), the docs
  say that only the last directory gets them
  (`docs/configuration-reference.md:1226`,
  `docs/migrating-from-go-yip.md:126-128`, `:158`), and one that was made but
  not given them when a run broke off is passed over by the next
  (`directories.rs:82`). It also leaves out the set-user-ID bit of a file that
  is given an owner, which `chown` after `chmod` takes from it (`files.rs:95`).
  After a run that broke off it is also silent on stages in which a download's
  path is a directory for another entry: what the first run left decides about
  the file's name.
* `AnyAnswerSuffices` leaves out a stage whose `path` is a file: it is the
  `file` provider's, and an earlier provider that answers would have it for a
  directory, which is an error.
* `FirstAnswerWins` says that a config is there twice, and leaves open under
  which name where the stage gives none: `userdata.yaml` in the code
  (`datasource.rs:167`), `user-data` in the docs
  (`docs/configuration-reference.md:1143`).
* `AppliedOrReported` says of a plugin that returned no error that what its part
  of the stage asks for is there, and leaves out, by name, where the code
  returns Ok without it: the built-in git backend, which fetches and leaves the
  work tree empty (`git.rs:443-452`, `:508-512`, against `git.rs:13-18`); pins
  on a system with zypper or no package manager that is known, which are skipped
  (`package_pins.rs:43-48`, `:61-64`); pins without a version; and the versions
  of dnf's pins, which are not written. A failing `sethostname` is passed over
  as well.
* `OthersKept` leaves out files that cannot be read or whose write breaks off
  (they count as empty and are overwritten) and variables with quotes, a
  backslash or several lines (they are escaped when written and not unescaped
  when read, `environment.rs:105` and `:120`).
* `WorkTreeIsBranch` leaves out the gix backend, which fetches and never fills
  the work tree, and stages that take turns with two branches under
  `branch_only`: the branch that is checked out is reset before the other is
  (`git.rs:247-281`).
* `IdKeptIfGuarded` says what a guard gives because without one each call makes
  a new machine id (`hostname.rs:54`, against "when the file doesn't exist" in
  `docs/migrating-from-go-yip.md:109`).
* `BoundAlike` says of fields and conditions inside a loop that they name the
  root's, which is what the code does and what `engine.rs:7-8` says, against the
  item's in `:14`; it leaves out a loop's `else`, where the loop variable is not
  bound.
* `TextsKept` leaves out lines with a quote that is not closed, all of whose
  tokens are dropped (`dot_notation.rs:20`); of a cloud-config every entry that
  is no text, which is dropped without an error (a command written as a list, a
  package with its version, a list of sudo lines: `config.rs:406`, `:479`,
  `:501`, `:526`, `:537`), users listed twice, whose earlier entry is lost,
  modes written as an unquoted `0o` number, which are taken for decimal digits,
  and, as documents of the run do not have them, lists that are no sequence and
  keys that a merge key brings (`config.rs:319`). That a cloud-config is read at
  all is what the code does; the docs say it is not implemented
  (`docs/migrating-from-go-yip.md:144-148`, `:196`, `:202`,
  `docs/configuration-reference.md:1219`).
* `FunctionsAsPromised` leaves out differences out of range, which wrap, and the
  lowest integer by -1, which panics (`funcs.rs:490`, `:525`, `:541`). It says
  of `semverCompare` what the code's comments promise;
  `docs/migrating-from-go-yip.md:54-57` and `:204` say that it is an error.

## 4. Proofs

TLAPS checks these for every value of the constants that satisfies the named
assumptions.

| theorem | property | argument |
|---|---|---|
| `ExecutorProofs!PlansHonourAfter` | `AfterHonoured` | an order of the graph respects each edge, and `after:` is an edge for every pair of stages it names |
| `ExecutorProofs!PlansKeepDeclaration` | `DeclarationOrderKept` | only neighbours without `after:` are joined by an edge; if a pair were out of order, take the last stage still in order and the first that follows: they are neighbours (`SubsequenceProofs!Least`, `Greatest` in place of an induction) |
| `ExecutorProofs!TypeCorrect` | `TypeOK` | inductive together with `Phases` |
| `ExecutorProofs!NoErrorLost` | `ErrorsReported` | see below |
| `ExecutorProofs!ChainsWhole` | `ChainWhole` | the calls made for the current operation are the beginning of the chain in front of the next plugin, whichever failed; its entry of the log is made at the end of the chain, and its errors are its own until then |
| `ExecutorProofs!OnlyKnotsRefused` | `RefusedOnlyForAfterCycle` | see below |
| `ExecutorProofs!RunsAsAnalyzed` | `AnalyzePredictsRun` | what is logged of the current list is the beginning of its order, and grows by the operation at its end (`SubsequenceAppend`) |
| `ExecutorProofs!PromiseSafe` | the safety part of `PromiseKept` | see below |
| `AccountsProofs!AccountsTypeCorrect` | `TypeOK` | inductive with "a write is for a user of the stage" |
| `AccountsProofs!NoKeyLost` | `KeysKept` | every write of a key file is a union with what was read of it, so that a key is lost only if less than that is written |
| `AccountsProofs!NoAccountLost` | `AccountsKept` | the uid that is written was resolved from the table it is written to (`ResolvedInv`); `Upsert` changes the first row of the name only; a table that is cut short is a beginning of one, in which the first row of a name is the same or none |
| `AccountsProofs!UidsOfTheirOwn` | `UidsDistinct` | see below |
| `AccountsProofs!AccountsLeftComplete` | `AccountsComplete` | see below |
| `EntityLockProofs!EditorsTypeCorrect` | `TypeOK` | an edit of a file of lines is a file of lines |
| `EntityLockProofs!LockFileGone` | `LockFileCleanedUp` | see below |
| `EntityLockProofs!FewEditInTurn` | `OneEditor`, under `FewEdits` | see below |
| `EntityLockProofs!FewEditsAtomic` | the safety part of `EditsAtomic`, under `FewEdits` | see below |
| `LayoutProofs!LayoutTypeCorrect` | `TypeOK` | see below |
| `LayoutProofs!NothingLost` | `DataKept` | see below |
| `LayoutProofs!NoPartTwice` | `NamedOnce` | see below |
| `LayoutProofs!WholeDiskCompleted` | `CompleteAtOnce` | see below |
| `LayoutProofs!ExpandedToTheEnd` | `Expanded` | a run that is past `resizepart` has the new end (`GrownInv`); one that finds it there grows the filesystem |
| `ExecutorProofs!UnpackTypeCorrect` | `UnpackTypeOK` | each removal takes a node with all below it, and each node is put where its directory is |
| `ExecutorProofs!LayersUnited` | `UnionExtracted` | see below |
| `FileTreeProofs!FilesTypeCorrect` | `TypeOK` | see below |
| `FileTreeProofs!OthersLeftAlone` | the first part of `AsAsked` | see below |
| `FileTreeProofs!EachMade` | `EachForItself` | see below |
| `FileTreeProofs!StageAsAsked` | `AsAsked` | see below |
| `UserDataProofs!OnlyConfigsNamed` | `NamedIsConfig` | see below |
| `UserDataProofs!UserDataTypeCorrect` | `TypeOK` | the list of providers without its repetitions is finite |
| `UserDataProofs!FirstAnswerTaken` | `FirstAnswerWins` | see below |
| `UserDataProofs!AnyAnswerTaken` | `AnyAnswerSuffices` | see below |
| `UserDataProofs!TemplatesBoundAlike` | `BoundAlike` | see below |
| `PluginChainProofs!ChainTypeCorrect` | `TypeOK` | see below |
| `PluginChainProofs!GuardedIdStays` | `IdKeptIfGuarded` | see below |
| `PluginChainProofs!ChainKeepsOthers` | `OthersKept` | see below |
| `PluginChainProofs!WorkTreeFollows` | `WorkTreeIsBranch` | see below |
| `PluginChainProofs!CallsApplyOrReport` | `AppliedOrReported` | see below |

* **NoErrorLost.** The invariant is that the failures so far are the
  concatenation of the call's, the list's and the operation's buffer, in this
  order, and that a buffer is empty in the places where the code has just moved
  it up (`Phases`). When a result is there, the inner two are empty, so the
  result is an error exactly if there was a failure.
* **PromiseSafe.** `Executor` implements `StageRunner` step by step, without
  fairness: `Spec => Runner!Safety`. The program knows only the place its four
  loops are at; the abstract run knows what is handled and refused. `Progress`
  relates them: handled are exactly the operations that lie behind the place
  (`Behind`, `Through`), refused exactly the sources that did not resolve and
  the lists with a cycle behind it. So an operation is handled once, after all
  that it waits for; a list is left only when all of it is handled, because its
  order is onto (`CurrentList`); and when the loops are through nothing is
  left. That the result is right needs the invariant of `NoErrorLost` as well.
  There is one lemma per action (`NextSourceMaps` to `FinishMaps`).
* **OnlyKnotsRefused.** An order of the graph is built when there is no knot:
  take a longest beginning that respects the edges (`BegunGoesOn`); of the
  stages that are left, one waits for none of them, else what is left of the
  stages with `after:` would be a knot (`SourceExists`). With a knot there is no
  order, because one of its stages would come first (`KnotHasNoOrder`).
* **FirstAnswerTaken, AnyAnswerTaken.** The providers are asked in the order of
  the list without its repetitions. `UniqueOrder` says what this order keeps of
  the list: each name, and whatever is named before it. (That `CHOOSE` finds
  a place for every number: the places of first occurrences, ranked, are an
  injection into as many numbers, so a surjection.) The invariant `Found` says
  that while providers are asked, none so far had user data; that the one at
  the current place is the first that has, until the run ends; and what has
  been written. Making the output directory changes what the provider `file`
  would read there, from nothing to an error, which changes no winner
  (`BaseAnswers`).
* **LockFileGone.** `LockFileCleanedUp` speaks of the end only. The invariant
  adds, for every place a process can be in, whether it has an inode open, and
  that whenever the path leads to an inode, a process that has it open is on
  its way to unlink the path (`Places`). This is where "no process dies" is
  used.
* **FewEditInTurn, FewEditsAtomic.** Of one process, or of two with one edit
  each that can open and lock the lock file (`FewEdits`). The invariant `Turns`
  says that no inode is locked twice, and that when the path no longer leads to
  an inode some process has open, the other process is through: a second lock
  file is never made while an editor holds the first. With a third edit this is
  false, as the run `entity_lock_several` shows. `Reading` says that what an
  editor has read is what is in the file until it has written. Then the write is
  the one step of `EntityEdits` and every other step a stutter, if a file that
  is emptied counts as what it was (`Contents`).
* **FilesTypeCorrect, OthersLeftAlone, EachMade.** The three are proved of one
  invariant. Every step of an entry is *framed* (`Framed`): nothing disappears
  or changes between file and directory, only paths the entry `Touches` change,
  and the directories it makes are on its way. A step that is framed and goes
  on with the same entry, or to the next one if this one has failed or is in its
  place, keeps the invariant (`StepKeeps`), which is then shown once per action:
  what comes of each action is its own frame and the place of its entry
  (`Working`). That an entry that shares no path with another is touched by no
  other is `LeftAlone`.
* **StageAsAsked.** The property compares what a run leaves with what the whole
  list of entries means, so the invariant says this of every moment (`Whole`).
  `Kept` says what is there: what the runs made is on the way of some entry, and
  the entries that had their turn are there. `Valued` says what each attribute
  of a path is, for content, mode, uid and gid alike: what it was before if no
  entry asks for it (`AsBefore`), else what the latest entry that gave it asked
  for (`ByLatest`), where a parent directory gets its attributes in the first run
  only, since a directory that is there is passed over. After a run that broke
  off, both hold only where the stage alone decides (`Certain`, `Sound`). A
  run that has failed owes nothing (`OnTrack`), and neither does a path at which
  a file is in the way of another entry (`Spoilt`): that entry fails when its turn
  comes. `ValueStep` is the step of an attribute, `GiveWhole` that of `chmod`
  and `chown`.
* **UidsOfTheirOwn.** A new uid is above all in use unless the last id is in
  use, after which the sum wraps. That the premise speaks of one state, and not
  of all states before it, needs that the last id, once given out, stays in
  use: who got it from the plugin is a user of the stage whose uid is not set to
  another (`Pinned`). This uses that the stage has each user once. A write that
  breaks off leaves the first rows of a table, the last id perhaps not among them:
  so each row is said to be apart from those before it as long as none up to it
  has the last id (`AllApart`), which a beginning of the table keeps (`CutApart`).
* **AccountsLeftComplete.** `WorkInv` says for each place in `apply_one` what is
  done for the current user, `DoneInv` that the users before it are complete as
  long as nothing failed, and so nothing was cut short. What is written for one
  user leaves another as it is (`OthersStay`): its row is the first of its name,
  and groups only grow (`Grown`), in rows and in members, so that the primary
  group stays the first of its name or number (`PrimaryAgain`).
* **LayoutTypeCorrect.** Where a planned partition starts is a recursive function
  over the list (`Starts`). That it is a function of its domain into numbers
  is shown without an induction theorem: a solution exists for every length,
  else take the least length that has none (`Begins`, `StartsExist`).
* **NothingLost.** That formatting hits no partition in use needs that the
  planned numbers are ahead of the tool's: the invariant says that they are
  consecutive and that those still to come are above every number in the table
  (`Ahead`), for both rules of numbering. It fails if the table could not be
  read, which is the scenario the theorem leaves out.
* **WholeDiskCompleted.** While nothing has gone wrong, the numbers have no gap
  and every partition but the one just added holds a filesystem (`Undisturbed`),
  so that a planned number is the one the tool gives; and what the stage lists
  is in the table or still in the plan (`CompleteInv`). The attempt to prove it
  showed that a partition that was there without a filesystem is passed over:
  the property now says so.
* **NoPartTwice.** How many partitions have a name, and how many of those still
  planned, are together no more than the greater of what the disk had and what
  the stage lists (`NamedInv`); only names that are not in the table are planned.
* **LayersUnited.** The property compares the tree at the end of a run with a
  definition by layers (`Union`); the code knows only the tree and the next
  entry. Three invariants lie between. `Originated`: a node is one the target
  had or an entry brings, a link is where a link may be, and a file's owner is
  root or one that a layer gives it, also where its chown failed; so no link is
  on the way to an entry, and each path leads where it says (`StraightWay`).
  `OthersUntouched`: what no entry is in the way of is as it was. `Stood`: of
  the entries that this run is through with, what they have made stands, what
  they hide is gone, and their directories are there, each unless a later entry
  changes it; nothing is said of what earlier runs have left, and nothing needs
  to be. Each kind of entry has a lemma on what it does to the tree
  (`WhiteoutDoes`, `DotsDoes` and so on to `FileDoes`), from which `StoodStep`
  follows for one more entry (`OneMore`). When the run is through all entries
  (`AllPassed`), the last entry for a path decides: at each path at most one
  layer is the highest that has it and is hidden by none above (`OneShows`), and
  what is there is what that layer has (`SettledIsUnion`). What a lower layer of
  an earlier run has left is gone because the entry that hides it is passed
  again.
* **OnlyConfigsNamed.** What is in a variable from the answer of a provider to
  the second write must be known to have won and, before that write, to load
  as a config (`Ready`). A write at any other name, by this run or an earlier
  one, leaves the copies alone; that is why the property leaves out a
  `userdata_name` of `userdata` or `meta-data`, where the two copies share a
  file.
* **ChainTypeCorrect.** The deeds a plugin has still to do are a rest of those
  it set out to do, so that it is enough to know of each plugin's sequence that
  all of it is `Fine`: every deed is `Proper`, and one whose failure skips the
  next has a next. A proper deed writes a file its plugin `Owns` or runs one of
  the plugin's `Commands`. This is one lemma per plugin, and what the other
  four theorems use of the ten plugins they are not about.
* **GuardedIdStays.** Only `hostname` owns the machine id (`OwnerOfId`), and in
  a stage that is guarded it is called only where there is none. So there is no
  id to lose until the id itself is written (`IdInv`), which is when the id that
  later boots keep comes to be.
* **ChainKeepsOthers.** The invariant says of each file that is there, and
  of each write that is still to be done, that it keeps what it has to
  (`Keeps`): a plugin reads a file when it is called and writes it later,
  and no other plugin is called in between. That a plugin's writes keep what a
  file has to is shown for `environment` and for `package_pins`; the others own
  none of these files (`PathsApart`), but for `dns`, which may be given the path
  of an environment file.
* **WorkTreeFollows.** `Underway` says how far a call of `git` has come by the
  deeds that are left, and for each of these places what is known of the
  repository. `RepoOk` says what holds of every repository, also one
  that a call that failed or broke off has left: the branch it is on is one that
  a stage asked for, and a clone of one branch knows of no other. With one
  branch asked for in all (`OneBranch`), or none of the stages asking for one
  branch only, the branch that is reset is then the one checked out after it.
* **CallsApplyOrReport.** While a plugin works off its deeds, each thing asked of
  it is there already, or a deed that is left brings it, and none after that one
  undoes it (`Coming`). A deed that works keeps this (`ComingOn`); one that fails
  is reported, but for `hostname`'s call of the kernel, whose failure the code
  ignores and the property does not speak of. With no deed left, what is coming
  is made (`Made`). It stays made because a later plugin writes other files
  (`OwnersDiffer`) and changes other fields of the machine (`FieldsLeft`); `dns`
  and `environment` may have the same file, and the property leaves that out.
  The commands run and the flags set are those of this stage only as both are
  empty when its chain begins, which the invariant keeps up to the plugin that
  adds to them (`AppliedInv`). Where the code returns Ok and does nothing (section 3)
  the theorem, like the property, says nothing.
* **TemplatesBoundAlike.** The property counts what opens and what closes in front
  of a tag, anew for each tag; the code has a stack. The invariant joins them:
  the open blocks, in their order, are the places `pos` at which the entries of
  the stack were made (`StackIs`), and the number of blocks opened and not closed
  since `pos[a]` is the height of the stack above it (`Nested`). So a tag that
  opens adds the innermost block and one that closes takes it away (`NestedOpen`,
  `NestedClose`), an `end` becomes that of the block it ends (`EndFits`), and the
  variable of the innermost loop is the one of Go's innermost item (`DotIs`), as
  no two loops share a variable (`LoopsDiffer`). What precedes a tag reads as before
  (`SameTags`). The theorem is of `Preprocess`, `Template`'s own specification;
  a step of `Documents` is one of it or leaves its variables alone.

Assumptions: an unnamed stage's name is no stage's name; the numbers of
plugins and conditionals are natural, that of runs positive; the invocations
and scenarios are of their types; a stage has each user once, as the map it is
read into has (`schema/stage.rs:163`); the stages, systems and hosts of
`PluginChain` are of their types (`ChainAssumption`), and so are the images and the
tree a target holds before (`UnpackAssumption`). No bound on their number is assumed.
For `Template` the variables of loops are names of their own, as many as a template
may have tags, and no field of the data is called `__root__` or as one of them
(`TemplateAssumption`): the code counts them up (`engine.rs:279-280`) and reserves
the names by their underscores only.

The attempts at proofs were also a check of the model. Those of `UidsDistinct`
and `AccountsComplete` found instances, each confirmed by TLC and now in
`MCAccounts`, where the properties as they were first stated fail and the code
does what it says: the owner of the last id is given another (`Wrapped`), two
groups of one name (`Twins`), keys that the ssh plugin overwrites after a read
error. That of `EachForItself` found a stage in which two downloads meet though
neither's target is the other's: a download into a directory that only an
earlier download makes lands elsewhere when that one fails before it
(`download.rs:159`). The property leaves such pairs out now, and `file_tree` has the
fault that tells them apart. That of `OthersKept` found a stage whose `dns.path` is
the file its `environment` rewrites (`dns.rs:45`): the file is the resolver's
then. `OthersKept` and `AppliedOrReported` leave it out. Those of `UnionExtracted`
found an opaque whiteout below a path that is a file in a lower layer: `mkdir_all`
fails, and the error is dropped (`unpack_image.rs:211`), so the file stays where the
layer has a directory. The property leaves that out (`OpaquesFit`). And a link
whose own directory is reached through the link that is removed for it cannot be
made: the model made it, and now fails as `symlink` does (`unpack_image.rs:259`).

What stays with TLC: liveness (that a run ends, in `PromiseKept`, and the
fairness of `EditsAtomic`) and whatever refers to `ENABLED`; what a folded or
recursive operator computes for every input, since the induction theorems of the
library take an operator as a parameter. `YamlTree` and `TemplateFuncs`
declare RECURSIVE operators, which follow the recursion of the code
over trees; TLAPS does not reason about these, so two invariants of `Documents` are
model-checked only, `TextsKept` and `FunctionsAsPromised`, with the fixed set of
inputs of `documents`. `OneEditor` and
`EditsAtomic` are checked for the instances of the run and proved where they
hold, for two edits in all; `EnsuredLinesKept` the code does not keep.

## 5. Not modelled, and why

* Functions of templates on text, dates, durations, hashes, regular expressions
  and random values: each hands its arguments to a library call. `sysdata`
  reads the machine's facts. `parse_sfdisk_dump`, quoting for the shell and
  formatting of lines are text to text without a state.
* The fields of the schema's structs, which serde fills by their names.
* Argument parsing and logging of the command line.
* External programs: git, package managers, systemctl, parted, mkfs. `Layout` has
  parted's and the gpt crate's rules of numbering and placing, because the
  code depends on them.
* `MemVfs`, `TempVfs` and `RecordingConsole` serve the tests. They differ from
  the real ones: `MemVfs` keeps the modes of what is removed, lets a path be a
  file and a directory, and its links overwrite.

Disagreements met while reading that no run covers: an inline YAML text that
ends in `/` is taken for a directory (`executor/default.rs:353`); one file of a
directory that does not parse drops all of them (`default.rs:387`); an error in
a conditional skips the stage without an error; `delete_entities` takes a line
for the one to delete if its identifier ends in the name (`entities.rs:408`);
user does not take the entities' lock; a malformed line of passwd is dropped
when the file is rewritten (`user.rs:264`); a group of `groups` that does not
exist is skipped, against the docs' "Auto-created if missing" (`user.rs:416`);
the ssh plugin's lookup ends silently at a short passwd line (`ssh.rs:250`);
`expand`'s size is the END that `parted resizepart` is given, against "up to
size MiB" (`schema/layout.rs:20`); a part without a pLabel is added again by
every run; a quoted number as owner is a name (`schema/file.rs:61`), against
"still parsed as numeric" (`docs/configuration-reference.md:1174`); all
providers are there, against "Stubbed" (`:1151`); the named copy of user data
stays when later user data is no config. A pin without a version takes its
package out of apk's world (`package_pins.rs:221`); comments of an environment
file are dropped; units are started before their overrides are written
(`systemctl.rs:47`); a failing `sethostname` is passed over; an update uses the
URL and credentials of the clone; the gix backend never fills the work tree,
against "observably identical" (`docs/migrating-from-go-yip.md:68`); `$HOSTNAME`
wins over `gethostname` against the comment above it (`node.rs:56`); `only_arch`
knows Go's names (`if_arch.rs:37`), against "there's no Go-style normalisation
layer" (`docs/migrating-from-go-yip.md:46`); the command of an `if` runs even
where a later filter skips the stage; an unquoted `permissions: 0644` of a
native config is the decimal 644 (`schema/file.rs:111`); keys of any user of a
cloud-config hide those for root; a cloud-config's native part that does not
parse is dropped silently, and its sudo lines are appended on every boot; a
comment of several lines may come before the `#cloud-config` header;
`semverCompare` splits its clauses at blanks, so that `>= 1.2.0` is an error;
`delete_entities` cuts out the first place where the rendered line stands, also
inside a longer one (`entities.rs:222`).

## 6. Plan

1. Done: every plugin, the conditionals, the executor, entities, loading and
   rendering, with first theorems.
2. Done: the safety part of `PromiseKept` as a step-by-step refinement, and all
   properties of `UserData`.
3. Done: every property of `DagPlan`, `Executor` (but liveness), `Layout`,
   `Accounts` and `UserData` as a theorem.
4. Done: `OneEditor` and the safety of `EditsAtomic` as far as they hold, the types
   of `FileTree`, `EachForItself` and `AsAsked`.
5. Done: the types of `PluginChain`, `WorkTreeIsBranch`, `OthersKept`,
   `IdKeptIfGuarded` and `AppliedOrReported`.
6. Done: the types of `UnpackImage`, `UnionExtracted` and `BoundAlike`, so that every
   invariant but two of `Documents` is a theorem.
7. The text functions of templates, and a contract of `Vfs` that `RealVfs`,
   `MemVfs` and `TempVfs` are checked against.
