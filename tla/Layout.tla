------------------------------- MODULE Layout -------------------------------
(***************************************************************************)
(* The layout plugin applied to one disk, by a stage that may be run again *)
(* after an end, an error or a crash: read the partition table, plan the   *)
(* partitions that are missing, add and format each, grow the last one.    *)
(*                                                                         *)
(* The plan numbers the new partitions itself; the tool that adds them     *)
(* (the gpt crate or parted, the two backends) numbers and places them by  *)
(* its own rules, while formatting goes by the planned number.             *)
(*                                                                         *)
(* Places are in MiB and a partition ends before its `to`.  A start of -1  *)
(* stands for u64::MAX, the same number in 64 bits.  Boot flags are left   *)
(* out.                                                                    *)
(***************************************************************************)
EXTENDS SequencesExt, Subsequences

CONSTANTS PartNames, \* the names partitions are asked for and may have
          DiskSize,  \* in MiB; the first is the table's
          Scenarios, \* stage, disk, backend and faults
          MaxRuns    \* bound: how often the stage is run

Growable == {"ext", "xfs", "btrfs"}
Supported == Growable \cup {"fat", "swap"}

\* An empty filesystem in the stage is ext2; an empty pLabel is "".
Part == [name : PartNames \cup {""}, size : Nat, fs : Supported \cup {"other"},
         longLabel : BOOLEAN]

\* The device: whether the stage has one, its path or a command that prints
\* it, whether a label is given, and init_disk.
Device == [given : BOOLEAN, path : {"", "path", "script"}, label : BOOLEAN, init : BOOLEAN]

NoExpand == -1

Stage == [device : Device, parts : Seq(Part), expand : Nat \cup {NoExpand}]

\* A partition: what holds the filesystem that was made in it, when, and
\* whether that reaches to its end.
Entry == [name : PartNames \cup {"primary"}, from : 1 .. DiskSize, to : 1 .. DiskSize,
          fs : Supported \cup {"none"}, made : Nat \X Nat, full : BOOLEAN]

\* A partition that is to be added; it is formatted by its number.
PartitionPlan == [part : Part, number : Nat \ {0}, from : Int, to : Int]

Faults == {"resolve", "init", "read", "add", "mkfs", "probe", "grow", "crash"}

ASSUME SizeAssumption == DiskSize \in Nat /\ DiskSize > 1 /\ MaxRuns \in Nat \ {0}

ASSUME LayoutAssumption ==
  /\ PartNames \subseteq STRING /\ {"", "primary"} \cap PartNames = {}
  /\ \A s \in Scenarios :
       /\ DOMAIN s = {"stage", "table", "backend", "faults"}
       /\ s.stage \in Stage /\ DOMAIN s.table \subseteq 1 .. DiskSize
       /\ \A n \in DOMAIN s.table : s.table[n] \in Entry
       /\ s.backend \in {"gpt", "parted"} /\ s.faults \subseteq Faults

VARIABLES
  scenario, \* stays as it is
  table,    \* the partitions of the disk, by number
  pc,       \* what comes next
  plans, k, \* the planned partitions and the current one
  failed,   \* whether this run has collected an error
  result,   \* what this run returned
  runs,     \* how often the stage has been started
  clean     \* history: no run before this one failed or broke off

vars == <<scenario, table, pc, plans, k, failed, result, runs, clean>>

stage == scenario.stage
device == stage.device
mayFail(what) == what \in scenario.faults

Highest(t) == Max(DOMAIN t \cup {0})
Used(t) == UNION {t[n].from .. t[n].to - 1 : n \in DOMAIN t}
Free(t) == (1 .. DiskSize - 1) \ Used(t)

\* The stretches of free space, as large as they go.
Gaps(t) ==
  {gap \in (1 .. DiskSize) \X (1 .. DiskSize) :
     /\ gap[1] < gap[2] /\ gap[1] .. gap[2] - 1 \subseteq Free(t)
     /\ gap[1] - 1 \notin Free(t) /\ gap[2] \notin Free(t)}

-----------------------------------------------------------------------------

Init ==
  /\ scenario \in Scenarios
  /\ table = scenario.table
  /\ pc = "begin"
  /\ plans = <<>> /\ k = 1
  /\ failed = FALSE /\ result = "none"
  /\ runs = 1 /\ clean = TRUE

Return(r) == pc' = "done" /\ result' = r

\* run_with up to init_disk.
Begin ==
  /\ pc = "begin"
  /\ \/ /\ ~ device.given
        /\ Return("ok")
     \/ /\ device.given /\ device.path = "script" /\ mayFail("resolve")
        /\ Return("error")
     \/ /\ device.given
        /\ IF ~ device.init THEN pc' = "check" /\ UNCHANGED result
           ELSE IF device.path = "" \/ device.label THEN Return("error")
           ELSE \/ pc' = "init" /\ UNCHANGED result
                \/ mayFail("resolve") /\ Return("error")
  /\ UNCHANGED <<scenario, table, plans, k, failed, runs, clean>>

\* A new, empty table, every time the stage is run.
InitDisk ==
  /\ pc = "init"
  /\ \/ /\ table' = <<>>
        /\ pc' = "check"
        /\ UNCHANGED result
     \/ /\ mayFail("init")
        /\ Return("error")
        /\ UNCHANGED table
  /\ UNCHANGED <<scenario, plans, k, failed, runs, clean>>

\* xfs labels, and the disk behind a label.
Check ==
  /\ pc = "check"
  /\ IF \E i \in DOMAIN stage.parts : stage.parts[i].fs = "xfs" /\ stage.parts[i].longLabel
     THEN Return("error")
     ELSE IF device.path = "" /\ ~ device.label THEN Return("ok")
     ELSE \/ pc' = "plan" /\ UNCHANGED result
          \/ device.path = "" /\ mayFail("resolve") /\ Return("error")
  /\ UNCHANGED <<scenario, table, plans, k, failed, runs, clean>>

\* A table that cannot be read counts as empty.
Readings == {table} \cup (IF mayFail("read") THEN {<<>>} ELSE {})

\* Wrong: a part is added whether or not it is there.
EveryPart(t) == stage.parts

\* The parts whose name no partition of the table has.
Missing(t) ==
  Subsequence(stage.parts,
              {i \in DOMAIN stage.parts :
                 \/ stage.parts[i].name = ""
                 \/ \A n \in DOMAIN t : t[n].name # stage.parts[i].name})

\* Where each of the parts begins, counted from 0: behind the last partition,
\* behind the part before it, and at u64::MAX behind one that takes the rest.
Starts(t, parts) ==
  LET start[i \in 0 .. Len(parts)] ==
        IF i = 0 THEN Max({t[n].to : n \in DOMAIN t} \cup {1})
        ELSE IF parts[i].size = 0 THEN -1 ELSE start[i - 1] + parts[i].size
  IN  start

\* Wrong: numbers go by how many partitions there are.
CountingNumber(t, i) == Cardinality(DOMAIN t) + i

\* Wrong: the first new partition gets the number of the last one there is.
ZeroBasedNumber(t, i) == Highest(t) + i - 1

\* The number of the i-th partition to be added.
PlannedNumber(t, i) == Highest(t) + i

\* plan_partitions.  An end of 0 stands for 100%, also when it has wrapped.
Plan(t) ==
  LET parts == Missing(t)
      starts == Starts(t, parts)
  IN  [i \in DOMAIN parts |->
         [part |-> parts[i], number |-> PlannedNumber(t, i), from |-> starts[i - 1],
          to |-> IF parts[i].size = 0 THEN 0 ELSE starts[i - 1] + parts[i].size]]

\* Read and plan.  The end of a part behind one that takes the rest does not
\* fit in 64 bits: the sum wraps, or the program panics where it is built
\* with overflow checks.
MakePlan ==
  /\ pc = "plan"
  /\ \E t \in Readings :
       \/ /\ \E i \in DOMAIN Missing(t) : Missing(t)[i].fs = "other"
          /\ Return("error")
          /\ UNCHANGED <<plans, k>>
       \/ /\ \A i \in DOMAIN Missing(t) : Missing(t)[i].fs # "other"
          /\ plans' = Plan(t) /\ k' = 1
          /\ pc' = "add"
          /\ UNCHANGED result
       \/ /\ \E i \in DOMAIN Plan(t) : Plan(t)[i].from = -1 /\ Plan(t)[i].part.size > 0
          /\ pc' = "down"
          /\ UNCHANGED <<plans, k, result>>
  /\ UNCHANGED <<scenario, table, failed, runs, clean>>

plan == plans[k]
NameOf(p) == IF p.name = "" THEN "primary" ELSE p.name

\* Where the tool puts the partition.  parted takes the place it is given,
\* if that is free; the gpt crate takes the first gap that is large enough,
\* or the largest for one that takes the rest.
Places ==
  IF scenario.backend = "parted"
  THEN {place \in (1 .. DiskSize) \X (1 .. DiskSize) :
          /\ place[1] = plan.from /\ place[2] = IF plan.to = 0 THEN DiskSize ELSE plan.to
          /\ place[1] < place[2] /\ place[1] .. place[2] - 1 \subseteq Free(table)}
  ELSE LET room(gap) == gap[2] - gap[1]
           size == IF plan.to = 0 THEN Max({room(gap) : gap \in Gaps(table)} \cup {0})
                   ELSE plan.part.size
           fit == {gap \in Gaps(table) : room(gap) >= size}
       IN  {place \in (1 .. DiskSize) \X (1 .. DiskSize) :
              /\ place[2] = place[1] + size
              /\ \E gap \in fit : gap[1] = place[1] /\ \A h \in fit : gap[1] <= h[1]}

\* The number the tool gives it: the lowest that is free, as far as parted
\* goes; of the gpt crate no more is assumed than that it leaves no gap above.
Numbers ==
  LET vacant == (1 .. Highest(table) + 1) \ DOMAIN table
  IN  IF scenario.backend = "parted" THEN {Min(vacant)} ELSE vacant

Added(number, place) ==
  [n \in DOMAIN table \cup {number} |->
     IF n = number THEN [name |-> NameOf(plan.part), from |-> place[1], to |-> place[2],
                         fs |-> "none", made |-> <<0, 0>>, full |-> FALSE]
     ELSE table[n]]

\* parted is then told to name the partition of the planned number.
Named(t) ==
  IF scenario.backend = "parted" /\ plan.part.name # "" /\ plan.number \in DOMAIN t
  THEN [t EXCEPT ![plan.number].name = plan.part.name] ELSE t

\* add_partition and settle.
AddPartition ==
  /\ pc = "add" /\ k \in DOMAIN plans
  /\ \/ /\ \E number \in Numbers, place \in Places : table' = Named(Added(number, place))
        /\ pc' = "mkfs"
        /\ UNCHANGED <<k, failed>>
     \/ /\ Places = {} \/ mayFail("add")
        /\ failed' = TRUE
        /\ k' = k + 1
        /\ UNCHANGED <<table, pc>>
  /\ UNCHANGED <<scenario, plans, result, runs, clean>>

\* Wrong: a partition that could not be formatted is not reported.
SilentMkfs ==
  /\ pc = "mkfs"
  /\ \/ /\ plan.number \in DOMAIN table
        /\ table' = [table EXCEPT ![plan.number].fs = plan.part.fs,
                                  ![plan.number].made = <<runs, k>>,
                                  ![plan.number].full = TRUE]
     \/ /\ plan.number \notin DOMAIN table \/ plan.part.fs = "xfs" \/ mayFail("mkfs")
        /\ UNCHANGED table
  /\ k' = k + 1
  /\ pc' = "add"
  /\ UNCHANGED <<scenario, plans, failed, result, runs, clean>>

\* mkfs on the device of the planned number.  mkfs.xfs also refuses a device
\* on which it finds the signature of an earlier filesystem.
Mkfs ==
  /\ pc = "mkfs"
  /\ \/ /\ plan.number \in DOMAIN table
        /\ table' = [table EXCEPT ![plan.number].fs = plan.part.fs,
                                  ![plan.number].made = <<runs, k>>,
                                  ![plan.number].full = TRUE]
        /\ UNCHANGED failed
     \/ /\ plan.number \notin DOMAIN table \/ plan.part.fs = "xfs" \/ mayFail("mkfs")
        /\ failed' = TRUE
        /\ UNCHANGED table
  /\ k' = k + 1
  /\ pc' = "add"
  /\ UNCHANGED <<scenario, plans, result, runs, clean>>

\* The partition with the highest number grows, wherever it lies.  parted
\* refuses to shrink one and to let two overlap.
Target == IF stage.expand = 0 THEN DiskSize ELSE stage.expand

Resizable(n) ==
  /\ n \in DOMAIN table
  /\ Target >= table[n].to /\ Target <= DiskSize
  /\ table[n].to .. Target - 1 \subseteq Free(table)

\* Wrong: a partition that reaches the target already is left alone.
SkippingExpand ==
  /\ pc = "add" /\ k \notin DOMAIN plans /\ stage.expand # NoExpand
  /\ \E t \in Readings :
       \/ /\ Resizable(Highest(t)) /\ Target > table[Highest(t)].to
          /\ table' = [table EXCEPT ![Highest(t)].to = Target, ![Highest(t)].full = FALSE]
          /\ pc' = "grow"
          /\ UNCHANGED failed
       \/ /\ Highest(t) \in DOMAIN table /\ Target = table[Highest(t)].to
          /\ pc' = "end"
          /\ UNCHANGED <<table, failed>>
       \/ /\ ~ Resizable(Highest(t)) \/ mayFail("grow")
          /\ failed' = TRUE
          /\ pc' = "end"
          /\ UNCHANGED table
  /\ UNCHANGED <<scenario, plans, k, result, runs, clean>>

\* expand_last_partition up to resizepart.
Expand ==
  /\ pc = "add" /\ k \notin DOMAIN plans /\ stage.expand # NoExpand
  /\ \E t \in Readings :
       \/ /\ Resizable(Highest(t))
          /\ table' = [table EXCEPT ![Highest(t)].to = Target,
                                    ![Highest(t)].full = @ /\ Target = table[Highest(t)].to]
          /\ pc' = "grow"
          /\ UNCHANGED failed
       \/ /\ ~ Resizable(Highest(t)) \/ mayFail("grow")
          /\ failed' = TRUE
          /\ pc' = "end"
          /\ UNCHANGED table
  /\ UNCHANGED <<scenario, plans, k, result, runs, clean>>

\* The rest of expand_last_partition: find out the filesystem, and grow it.
\* One that is not found out is passed over.
Grow ==
  /\ pc = "grow"
  /\ LET last == Highest(table)
         found == {table[last].fs} \cup (IF mayFail("probe") THEN {"none"} ELSE {})
     IN  \E fs \in found :
           \/ /\ fs = "none"
              /\ UNCHANGED <<table, failed>>
           \/ /\ fs \in Growable
              /\ table' = [table EXCEPT ![last].full = TRUE]
              /\ UNCHANGED failed
           \/ /\ fs \in {"fat", "swap"} \/ (fs \in Growable /\ mayFail("grow"))
              /\ failed' = TRUE
              /\ UNCHANGED table
  /\ pc' = "end"
  /\ UNCHANGED <<scenario, plans, k, result, runs, clean>>

End ==
  /\ \/ pc = "end"
     \/ pc = "add" /\ k \notin DOMAIN plans /\ stage.expand = NoExpand
  /\ Return(IF failed THEN "error" ELSE "ok")
  /\ UNCHANGED <<scenario, table, plans, k, failed, runs, clean>>

Crash ==
  /\ mayFail("crash") /\ pc \notin {"done", "down"}
  /\ pc' = "down"
  /\ UNCHANGED <<scenario, table, plans, k, failed, result, runs, clean>>

\* The machine boots again, or the command is repeated.
RunAgain ==
  /\ pc \in {"done", "down"} /\ runs < MaxRuns
  /\ runs' = runs + 1
  /\ clean' = (clean /\ result = "ok")
  /\ pc' = "begin" /\ plans' = <<>> /\ k' = 1 /\ failed' = FALSE /\ result' = "none"
  /\ UNCHANGED <<scenario, table>>

Next ==
  \/ Begin \/ InitDisk \/ Check \/ MakePlan \/ AddPartition \/ Mkfs
  \/ Expand \/ Grow \/ End \/ Crash \/ RunAgain

Spec == Init /\ [][Next]_vars

-----------------------------------------------------------------------------

\* The types of the variables.
TypeOK ==
  /\ scenario \in Scenarios
  /\ DOMAIN table \subseteq Nat \ {0} /\ \A n \in DOMAIN table : table[n] \in Entry
  /\ pc \in {"begin", "init", "check", "plan", "add", "mkfs", "grow", "end", "done", "down"}
  /\ plans \in Seq(PartitionPlan)
  /\ k \in 1 .. Len(plans) + 1
  /\ failed \in BOOLEAN /\ result \in {"none", "ok", "error"}
  /\ runs \in 1 .. MaxRuns /\ clean \in BOOLEAN

Addressed == device.given /\ (device.path # "" \/ device.label)

\* A disk that is not initialised, whose table can be read.
Careful == Addressed /\ ~ device.init /\ ~ mayFail("read")

\* A partition that is there keeps its number, name, place and room, and one
\* that holds a filesystem is never formatted again, though parted is told
\* to name, and mkfs to format, a number that the plan has made up.
DataKept ==
  [][Careful =>
       \A n \in DOMAIN table :
         /\ n \in DOMAIN table'
         /\ table'[n].name = table[n].name
         /\ table'[n].from = table[n].from /\ table'[n].to >= table[n].to
         /\ table[n].fs # "none" => table'[n].made = table[n].made]_vars

\* However often the stage is run and wherever a run breaks off, no more
\* partitions get a name than the stage lists for it ("skip if a partition
\* with that pLabel already exists (idempotent)").
NamedOnce ==
  ~ mayFail("read") =>
    \A name \in PartNames :
      Cardinality({n \in DOMAIN table : table[n].name = name})
        <= Max({Cardinality({n \in DOMAIN scenario.table : scenario.table[n].name = name}),
                Cardinality({i \in DOMAIN stage.parts : stage.parts[i].name = name})})

\* After a call without an error every partition the stage names is there
\* and holds a filesystem ("skip if a partition with that pLabel already
\* exists (idempotent), otherwise [...] run `parted mkpart`, then
\* `mkfs.<fs>`").
PartsFormatted ==
  result = "ok" /\ Addressed =>
    \A i \in DOMAIN stage.parts : stage.parts[i].name # "" =>
      \E n \in DOMAIN table : table[n].name = stage.parts[i].name /\ table[n].fs # "none"

\* The same where nothing went wrong in an earlier call, and the numbers of
\* the disk have no gap and can be read, and every partition that was on it
\* holds a filesystem.
CompleteAtOnce ==
  /\ clean /\ ~ mayFail("read")
  /\ DOMAIN scenario.table = 1 .. Cardinality(DOMAIN scenario.table)
  /\ \A n \in DOMAIN scenario.table : scenario.table[n].fs # "none"
  => PartsFormatted

\* After a call without an error that was to grow the last partition, it
\* reaches as far as asked and its filesystem fills it, also when an earlier
\* call broke off in between.
Expanded ==
  /\ result = "ok" /\ Addressed /\ stage.expand # NoExpand
  /\ scenario.faults \cap {"probe", "read"} = {}
  => LET last == table[Highest(table)]
     IN  last.to = Target /\ (last.fs # "none" => last.full)
=============================================================================
