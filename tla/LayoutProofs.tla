---------------------------- MODULE LayoutProofs ----------------------------
(***************************************************************************)
(* Theorems about Layout, for disks and stages of any size, either backend *)
(* and every fault that the property allows: the types; that nothing on    *)
(* the disk is lost; that the last partition is grown to the end of what   *)
(* it may have; that a first run leaves every partition made and           *)
(* formatted; and that no name is given out twice.                         *)
(*                                                                         *)
(* The main argument is that the planned numbers stay ahead of the numbers *)
(* the tool gives: the planned number is either that of the partition just *)
(* added or no partition's.                                                *)
(***************************************************************************)
EXTENDS Layout, SubsequenceProofs, NaturalsInduction

\* The highest of a bounded set of numbers is one of them.
LEMMA MaxProperty ==
  ASSUME NEW n \in Nat, NEW S, S \subseteq 0 .. n, S # {}
  PROVE  Max(S) \in S /\ \A j \in S : j <= Max(S)
<1>1. PICK i \in S : \A j \in S : j <= i
  BY Greatest
<1>2. \A j \in S : i >= j
  BY <1>1
<1>3. Max(S) \in S /\ \A y \in S : Max(S) >= y
  BY <1>2 DEF Max
<1> QED BY <1>3

Bounded(t) == \E b \in Nat : DOMAIN t \subseteq 1 .. b

\* The highest number of a table is one of its partitions', or 0.
LEMMA HighestProperty ==
  ASSUME NEW t, Bounded(t)
  PROVE  /\ Highest(t) \in Nat
         /\ \A n \in DOMAIN t : n \in Nat \ {0} /\ n <= Highest(t)
         /\ Highest(t) # 0 => Highest(t) \in DOMAIN t
<1>1. PICK b \in Nat : DOMAIN t \subseteq 1 .. b
  BY DEF Bounded
<1>2. DOMAIN t \cup {0} \subseteq 0 .. b
  BY <1>1
<1>3. /\ Highest(t) \in DOMAIN t \cup {0}
      /\ \A j \in DOMAIN t \cup {0} : j <= Highest(t)
  BY <1>2, MaxProperty DEF Highest
<1> QED BY <1>1, <1>3

-----------------------------------------------------------------------------

\* g is what the recursive definition of the starts of n parts describes.
Begins(parts, first, n, g) ==
  g = [i \in 0 .. n |-> IF i = 0 THEN first
                        ELSE IF parts[i].size = 0 THEN -1 ELSE g[i - 1] + parts[i].size]

\* The definition has a solution for any number of parts.
LEMMA StartsExist ==
  ASSUME NEW parts, NEW first, NEW n \in Nat
  PROVE  \E g : Begins(parts, first, n, g)
<1> DEFINE After(g, i) == IF parts[i].size = 0 THEN -1 ELSE g[i - 1] + parts[i].size
           Solves(g, m) == g = [i \in 0 .. m |-> IF i = 0 THEN first ELSE After(g, i)]
           unsolved == {m \in Nat : \A g : ~ Solves(g, m)}
<1>0. SUFFICES \E g : Solves(g, n)
  BY DEF Begins
<1>1. SUFFICES ASSUME unsolved # {} PROVE FALSE
  <2>1. n \notin unsolved => \E g : Solves(g, n)
    <3> HIDE DEF Solves
    <3> QED OBVIOUS
  <2> HIDE DEF unsolved, Solves
  <2> QED BY <2>1
<1>2. PICK m \in unsolved : \A j \in unsolved : m <= j
  <2> HIDE DEF unsolved
  <2>1. unsolved \subseteq Nat
    BY DEF unsolved
  <2> QED BY <1>1, <2>1, Least
<1>3. m \in Nat /\ \A g : ~ Solves(g, m)
  BY <1>2
<1>4. m # 0
  <2>1. Solves([i \in 0 .. 0 |-> first], 0)
    OBVIOUS
  <2> QED BY <1>3, <2>1
<1>5. PICK g : Solves(g, m - 1)
  <2>1. m - 1 \in Nat /\ ~ (m <= m - 1)
    BY <1>3, <1>4
  <2>2. m - 1 \notin unsolved
    <3> HIDE DEF unsolved
    <3> QED BY <1>2, <2>1
  <2> QED BY <2>1, <2>2
<1> DEFINE h == [i \in 0 .. m |-> IF i = m THEN After(g, m) ELSE g[i]]
<1>6. ASSUME NEW i \in 0 .. m
      PROVE  h[i] = IF i = 0 THEN first ELSE After(h, i)
  <2>1. CASE i = 0
    <3>1. g[0] = first
      <4>1. 0 \in 0 .. m - 1
        BY <1>3, <1>4
      <4> QED BY <1>5, <4>1
    <3> QED BY <1>4, <2>1, <3>1
  <2>2. CASE i # 0
    <3>1. i - 1 \in 0 .. m /\ i - 1 # m /\ i - 1 \in 0 .. m - 1 /\ (i # m => i \in 0 .. m - 1)
      BY <1>3, <2>2
    <3>2. h[i - 1] = g[i - 1]
      BY <3>1
    <3>3. i # m => g[i] = After(g, i)
      BY <1>5, <2>2, <3>1
    <3>4. h[i] = After(g, i)
      BY <3>3
    <3> QED BY <2>2, <3>2, <3>4
  <2> QED BY <2>1, <2>2
<1>7. h = [i \in 0 .. m |-> IF i = 0 THEN first ELSE After(h, i)]
  <2>1. h = [i \in 0 .. m |-> h[i]]
    OBVIOUS
  <2> HIDE DEF h
  <2> QED BY <1>6, <2>1
<1> QED
  <2>1. Solves(h, m)
    <3> HIDE DEF h
    <3> QED BY <1>7
  <2> HIDE DEF h, Solves
  <2> QED BY <1>3, <2>1

\* Every part starts at a number.
LEMMA StartsType ==
  ASSUME NEW parts \in Seq(Part), NEW t, \A n \in DOMAIN t : t[n] \in Entry
  PROVE  \A i \in 0 .. Len(parts) : Starts(t, parts)[i] \in Int
<1> DEFINE first == Max({t[n].to : n \in DOMAIN t} \cup {1})
           starts == Starts(t, parts)
<1>1. Len(parts) \in Nat /\ \A i \in 1 .. Len(parts) : parts[i].size \in Nat
  <2>1. Len(parts) \in Nat /\ \A i \in 1 .. Len(parts) : parts[i] \in Part
    OBVIOUS
  <2>2. \A p \in Part : p.size \in Nat
    BY DEF Part
  <2> QED BY <2>1, <2>2
<1>2. first \in Int
  <2> DEFINE ends == {t[n].to : n \in DOMAIN t} \cup {1}
  <2>1. ends \subseteq 0 .. DiskSize /\ ends # {}
    BY SizeAssumption DEF Entry
  <2> HIDE DEF ends
  <2>2. Max(ends) \in ends
    BY <2>1, SizeAssumption, MaxProperty
  <2> QED BY <2>1, <2>2, SizeAssumption DEF ends
<1> HIDE DEF first
<1>3. starts = [i \in 0 .. Len(parts) |->
                  IF i = 0 THEN first
                  ELSE IF parts[i].size = 0 THEN -1 ELSE starts[i - 1] + parts[i].size]
  <2>1. \E g : Begins(parts, first, Len(parts), g)
    BY <1>1, StartsExist
  <2>2. starts = CHOOSE g : Begins(parts, first, Len(parts), g)
    BY DEF Starts, Begins, first
  <2> HIDE DEF starts
  <2>3. Begins(parts, first, Len(parts), starts)
    BY <2>1, <2>2
  <2> QED BY <2>3 DEF Begins
<1> HIDE DEF starts
<1> DEFINE untyped == {i \in 0 .. Len(parts) : starts[i] \notin Int}
<1>4. SUFFICES ASSUME untyped # {} PROVE FALSE
  BY DEF starts
<1>5. PICK i \in untyped : \A j \in untyped : i <= j
  <2>1. untyped \subseteq Nat
    BY <1>1
  <2> HIDE DEF untyped
  <2> QED BY <1>4, <2>1, Least
<1>6. i \in 0 .. Len(parts) /\ starts[i] \notin Int
  BY <1>5
<1>7. starts[i] = IF i = 0 THEN first
                  ELSE IF parts[i].size = 0 THEN -1 ELSE starts[i - 1] + parts[i].size
  BY <1>3, <1>6
<1>8. i # 0 /\ parts[i].size # 0 /\ starts[i] = starts[i - 1] + parts[i].size
  BY <1>2, <1>6, <1>7
<1>9. i - 1 \in 0 .. Len(parts) /\ i \in 1 .. Len(parts) /\ ~ (i <= i - 1)
  BY <1>1, <1>6, <1>8
<1>10. starts[i - 1] \in Int
  <2>1. i - 1 \notin untyped
    <3> HIDE DEF untyped
    <3> QED BY <1>5, <1>9
  <2> QED BY <1>9, <2>1
<1> QED BY <1>1, <1>6, <1>8, <1>9, <1>10

\* The types of the variables, and what they rest on.
TypeInv ==
  /\ TypeOK
  /\ Bounded(table)
  /\ \A i \in DOMAIN plans : plans[i].part.fs \in Supported
  /\ pc = "mkfs" => k \in DOMAIN plans
  /\ pc = "init" => device.init

\* The types hold at the start.
LEMMA InitTypes == Init => TypeInv
<1> SUFFICES ASSUME Init PROVE TypeInv
  OBVIOUS
<1>1. /\ DOMAIN scenario.table \subseteq 1 .. DiskSize
      /\ \A n \in DOMAIN scenario.table : scenario.table[n] \in Entry
  BY LayoutAssumption DEF Init
<1>2. Bounded(table)
  BY <1>1, SizeAssumption DEF Init, Bounded
<1>3. DOMAIN table \subseteq Nat \ {0} /\ \A n \in DOMAIN table : table[n] \in Entry
  BY <1>1, SizeAssumption DEF Init
<1>4. plans \in Seq(PartitionPlan) /\ k \in 1 .. Len(plans) + 1 /\ DOMAIN plans = {}
  BY DEF Init
<1>5. 1 \in 1 .. MaxRuns
  BY SizeAssumption
<1> QED BY <1>2, <1>3, <1>4, <1>5 DEF Init, TypeInv, TypeOK

\* What the stage asks for.
LEMMA StageType ==
  ASSUME scenario \in Scenarios
  PROVE  /\ stage.parts \in Seq(Part) /\ stage.expand \in Int
         /\ Len(stage.parts) \in Nat /\ DOMAIN stage.parts = 1 .. Len(stage.parts)
         /\ Target \in Int
<1>1. scenario.stage \in Stage
  BY LayoutAssumption
<1>2. stage.parts \in Seq(Part) /\ stage.expand \in Int
  BY <1>1 DEF Stage, NoExpand, stage
<1>3. DiskSize \in Int
  BY SizeAssumption
<1> QED BY <1>2, <1>3 DEF Target

\* The missing parts are parts of the stage that the table has no name of,
\* and every such part is missing.
LEMMA MissingParts ==
  ASSUME scenario \in Scenarios, NEW t
  PROVE  /\ Missing(t) \in Seq(Part)
         /\ Len(Missing(t)) \in Nat /\ DOMAIN Missing(t) = 1 .. Len(Missing(t))
         /\ \A j \in DOMAIN Missing(t) :
              /\ Missing(t)[j] \in Part
              /\ Missing(t)[j].name # "" => \A n \in DOMAIN t : t[n].name # Missing(t)[j].name
         /\ \A i \in DOMAIN stage.parts :
              (\A n \in DOMAIN t : t[n].name # stage.parts[i].name) =>
                \E j \in DOMAIN Missing(t) : Missing(t)[j] = stage.parts[i]
<1> DEFINE places == {i \in DOMAIN stage.parts :
                        \/ stage.parts[i].name = ""
                        \/ \A n \in DOMAIN t : t[n].name # stage.parts[i].name}
           m == Missing(t)
<1>1. stage.parts \in Seq(Part) /\ places \subseteq DOMAIN stage.parts
  BY StageType
<1>2. m = Subsequence(stage.parts, places)
  BY DEF Missing
<1>3. \A i \in places : stage.parts[i].name = ""
                        \/ \A n \in DOMAIN t : t[n].name # stage.parts[i].name
  OBVIOUS
<1>4. \A i \in DOMAIN stage.parts :
        (\A n \in DOMAIN t : t[n].name # stage.parts[i].name) => i \in places
  OBVIOUS
<1> HIDE DEF places, m
<1>5. /\ m \in Seq(Part) /\ DOMAIN m = 1 .. Len(m)
      /\ \A j \in DOMAIN m : Place(places, j) \in places /\ m[j] = stage.parts[Place(places, j)]
      /\ \A i \in places : \E j \in DOMAIN m : Place(places, j) = i
  BY <1>1, <1>2, SubsequenceElements
<1>6. Len(m) \in Nat /\ \A j \in DOMAIN m : m[j] \in Part
  BY <1>5
<1>7. ASSUME NEW j \in DOMAIN m, m[j].name # ""
      PROVE  \A n \in DOMAIN t : t[n].name # m[j].name
  <2> DEFINE i == Place(places, j)
  <2>1. i \in places /\ m[j] = stage.parts[i]
    BY <1>5
  <2> HIDE DEF i
  <2>2. \A n \in DOMAIN t : t[n].name # stage.parts[i].name
    BY <1>3, <1>7, <2>1
  <2> QED BY <2>1, <2>2
<1>8. \A i \in places : \E j \in DOMAIN m : m[j] = stage.parts[i]
  BY <1>5
<1> QED BY <1>4, <1>5, <1>6, <1>7, <1>8 DEF m

\* The plan has an entry for every missing part, numbered on from the
\* highest number of the table that was read.
LEMMA PlanEntries ==
  ASSUME scenario \in Scenarios, NEW t, Bounded(t), \A n \in DOMAIN t : t[n] \in Entry
  PROVE  /\ Plan(t) \in Seq(PartitionPlan)
         /\ DOMAIN Plan(t) = DOMAIN Missing(t)
         /\ \A i \in DOMAIN Missing(t) : /\ Plan(t)[i].part = Missing(t)[i]
                                         /\ Plan(t)[i].number = Highest(t) + i
<1> DEFINE parts == Missing(t)
           starts == Starts(t, parts)
           size == Len(parts)
<1>1. parts \in Seq(Part) /\ size \in Nat /\ DOMAIN parts = 1 .. size
  BY MissingParts
<1>2. \A i \in 0 .. size : starts[i] \in Int
  <2> HIDE DEF parts
  <2> QED BY <1>1, StartsType
<1>3. Highest(t) \in Nat
  BY HighestProperty
<1>4. Plan(t) = [i \in 1 .. size |->
                   [part |-> parts[i], number |-> Highest(t) + i, from |-> starts[i - 1],
                    to |-> IF parts[i].size = 0 THEN 0 ELSE starts[i - 1] + parts[i].size]]
  <2>1. Plan(t) = [i \in DOMAIN parts |->
                     [part |-> parts[i], number |-> Highest(t) + i, from |-> starts[i - 1],
                      to |-> IF parts[i].size = 0 THEN 0 ELSE starts[i - 1] + parts[i].size]]
    BY DEF Plan, PlannedNumber
  <2> HIDE DEF parts, starts, size
  <2> QED BY <1>1, <2>1
<1> HIDE DEF parts, starts, size
<1>5. ASSUME NEW i \in 1 .. size
      PROVE  [part |-> parts[i], number |-> Highest(t) + i, from |-> starts[i - 1],
              to |-> IF parts[i].size = 0 THEN 0 ELSE starts[i - 1] + parts[i].size]
                \in PartitionPlan
  <2>1. i - 1 \in 0 .. size /\ i \in Nat \ {0}
    BY <1>1
  <2>2. parts[i] \in Part
    BY <1>1
  <2>3. parts[i].size \in Int
    <3>1. \A p \in Part : p.size \in Nat
      BY DEF Part
    <3>2. parts[i].size \in Nat
      BY <2>2, <3>1
    <3> QED BY <3>2
  <2>4. starts[i - 1] \in Int
    BY <1>2, <2>1
  <2>5. Highest(t) + i \in Nat \ {0}
    BY <1>3, <2>1
  <2> QED BY <2>2, <2>3, <2>4, <2>5 DEF PartitionPlan
<1>6. Plan(t) \in [1 .. size -> PartitionPlan]
  <2> DEFINE e(i) == [part |-> parts[i], number |-> Highest(t) + i, from |-> starts[i - 1],
                      to |-> IF parts[i].size = 0 THEN 0 ELSE starts[i - 1] + parts[i].size]
  <2>1. Plan(t) = [i \in 1 .. size |-> e(i)] /\ \A i \in 1 .. size : e(i) \in PartitionPlan
    BY <1>4, <1>5
  <2> HIDE DEF e
  <2> QED BY <2>1
<1>7. Plan(t) \in Seq(PartitionPlan) /\ DOMAIN Plan(t) = 1 .. size
  BY <1>1, <1>6
<1>8. \A i \in 1 .. size : Plan(t)[i].part = parts[i] /\ Plan(t)[i].number = Highest(t) + i
  BY <1>4
<1> QED BY <1>1, <1>7, <1>8 DEF parts

\* A table that is read is the table or an empty one.
LEMMA ReadingType ==
  ASSUME TypeInv, NEW t \in Readings
  PROVE  /\ Bounded(t) /\ \A n \in DOMAIN t : t[n] \in Entry
         /\ ~ mayFail("read") => t = table
<1>1. t = table \/ (mayFail("read") /\ t = <<>>)
  BY DEF Readings
<1>2. DOMAIN <<>> = {} /\ Bounded(<<>>)
  <2>1. DOMAIN <<>> = {} /\ 0 \in Nat
    OBVIOUS
  <2> QED BY <2>1 DEF Bounded
<1> QED BY <1>1, <1>2 DEF TypeInv, TypeOK

\* A new partition gets a number of its own, at most one above the highest.
LEMMA AddedNumber ==
  ASSUME TypeInv, NEW number \in Numbers
  PROVE  number \in Nat \ {0} /\ number \notin DOMAIN table /\ number <= Highest(table) + 1
<1> DEFINE vacant == (1 .. Highest(table) + 1) \ DOMAIN table
<1>1. /\ Highest(table) \in Nat
      /\ Highest(table) + 1 \notin DOMAIN table
  BY HighestProperty DEF TypeInv
<1>2. vacant # {} /\ vacant \subseteq Nat
  BY <1>1
<1>3. Min(vacant) \in vacant
  <2>1. \E i \in vacant : \A j \in vacant : i <= j
    BY <1>2, Least
  <2> QED BY <2>1 DEF Min
<1>4. number \in vacant
  BY <1>3 DEF Numbers
<1> QED BY <1>1, <1>4

\* What adding a partition does to the table: one entry more, and at most a
\* new name for the one that has the planned number.
LEMMA AddedTable ==
  ASSUME TypeInv, k \in DOMAIN plans, NEW number \in Numbers, NEW place \in Places,
         table' = Named(Added(number, place))
  PROVE  /\ DOMAIN table' = DOMAIN table \cup {number}
         /\ table'[number].fs = "none" /\ table'[number].name = NameOf(plan.part)
         /\ table'[number] \in Entry
         /\ \A n \in DOMAIN table :
              /\ table'[n].from = table[n].from /\ table'[n].to = table[n].to
              /\ table'[n].fs = table[n].fs /\ table'[n].made = table[n].made
              /\ n # plan.number => table'[n] = table[n]
              /\ table'[n] \in Entry
<1> DEFINE t == Added(number, place)
           name == NameOf(plan.part)
<1>1. number \notin DOMAIN table
  BY AddedNumber
<1>2. place[1] \in 1 .. DiskSize /\ place[2] \in 1 .. DiskSize
  BY DEF Places
<1>3. plan.part.name \in PartNames \cup {""} /\ name \in PartNames \cup {"primary"}
  <2>1. plan \in PartitionPlan
    BY DEF TypeInv, TypeOK, plan
  <2> QED BY <2>1 DEF PartitionPlan, Part, NameOf
<1>4. /\ DOMAIN t = DOMAIN table \cup {number}
      /\ t[number] = [name |-> name, from |-> place[1], to |-> place[2],
                      fs |-> "none", made |-> <<0, 0>>, full |-> FALSE]
      /\ \A n \in DOMAIN table : t[n] = table[n]
  BY <1>1 DEF Added
<1>5. t[number] \in Entry
  <2> DEFINE from == place[1]
             to == place[2]
             none == <<0, 0>>
  <2>1. from \in 1 .. DiskSize /\ to \in 1 .. DiskSize /\ name \in PartNames \cup {"primary"}
        /\ none \in Nat \X Nat
    BY <1>2, <1>3
  <2>2. t[number] = [name |-> name, from |-> from, to |-> to, fs |-> "none", made |-> none,
                     full |-> FALSE]
    BY <1>4
  <2> HIDE DEF t, name, from, to, none
  <2> QED BY <2>1, <2>2 DEF Entry
<1>6. \A n \in DOMAIN t : t[n] \in Entry
  BY <1>4, <1>5 DEF TypeInv, TypeOK
<1>7. table' = t \/ (/\ plan.number \in DOMAIN t /\ plan.part.name # ""
                     /\ table' = [t EXCEPT ![plan.number].name = plan.part.name])
  BY DEF Named
<1>8. t[number].fs = "none" /\ t[number].name = name
  BY <1>4
<1> HIDE DEF t
<1>9. CASE table' = t
  BY <1>4, <1>6, <1>8, <1>9
<1>10. CASE /\ plan.number \in DOMAIN t /\ plan.part.name # ""
            /\ table' = [t EXCEPT ![plan.number].name = plan.part.name]
  <2> DEFINE planned == plan.number
             given == plan.part.name
  <2>1. DOMAIN table' = DOMAIN t /\ table' = [t EXCEPT ![planned].name = given]
    BY <1>10
  <2>2. \A n \in DOMAIN t :
          /\ table'[n].from = t[n].from /\ table'[n].to = t[n].to
          /\ table'[n].fs = t[n].fs /\ table'[n].made = t[n].made
          /\ n # plan.number => table'[n] = t[n]
    <3>1. \A n \in DOMAIN t :
            /\ table'[n].from = t[n].from /\ table'[n].to = t[n].to
            /\ table'[n].fs = t[n].fs /\ table'[n].made = t[n].made
            /\ n # planned => table'[n] = t[n]
      <4> HIDE DEF planned, given
      <4> QED BY <2>1
    <3> QED BY <3>1
  <2>3. ASSUME NEW n \in DOMAIN t
        PROVE  /\ table'[n] \in Entry
               /\ n = plan.number => table'[n].name = name
    <3>1. CASE n = plan.number
      <4>1. table'[n] = [t[n] EXCEPT !.name = plan.part.name]
        BY <1>10, <3>1
      <4>2. t[n] \in Entry /\ plan.part.name \in PartNames /\ name = plan.part.name
        BY <1>3, <1>6, <1>10 DEF NameOf
      <4> HIDE DEF name
      <4> QED BY <4>1, <4>2 DEF Entry
    <3>2. CASE n # plan.number
      BY <1>6, <2>2, <3>2
    <3> QED BY <3>1, <3>2
  <2>4. table'[number].name = name
    BY <1>4, <1>8, <2>2, <2>3
  <2> QED BY <1>4, <1>8, <2>1, <2>2, <2>3, <2>4
<1> QED BY <1>7, <1>9, <1>10

\* Every step keeps the types.
LEMMA NextTypes == TypeInv /\ [Next]_vars => TypeInv'
<1> SUFFICES ASSUME TypeInv, [Next]_vars PROVE TypeInv'
  OBVIOUS
<1> DEFINE Typed == DOMAIN table \subseteq Nat \ {0} /\ \A n \in DOMAIN table : table[n] \in Entry
<1>0. /\ scenario' = scenario /\ scenario' \in Scenarios /\ device' = device
      /\ runs \in 1 .. MaxRuns /\ MaxRuns \in Nat
  BY SizeAssumption
  DEF Next, Begin, InitDisk, Check, MakePlan, AddPartition, Mkfs, Expand, Grow, End, Crash,
      RunAgain, vars, TypeInv, TypeOK, device, stage
<1>1. /\ pc' \in {"begin", "init", "check", "plan", "add", "mkfs", "grow", "end", "done", "down"}
      /\ failed' \in BOOLEAN /\ result' \in {"none", "ok", "error"} /\ clean' \in BOOLEAN
  BY DEF Next, Begin, InitDisk, Check, MakePlan, AddPartition, Mkfs, Expand, Grow, End, Crash,
         RunAgain, vars, TypeInv, TypeOK, Return
<1>2. runs' \in 1 .. MaxRuns
  <2>1. runs' = runs \/ (runs' = runs + 1 /\ runs < MaxRuns)
    BY DEF Next, Begin, InitDisk, Check, MakePlan, AddPartition, Mkfs, Expand, Grow, End, Crash,
           RunAgain, vars
  <2> QED BY <1>0, <2>1
<1>3. /\ plans' \in Seq(PartitionPlan)
      /\ \A i \in DOMAIN plans' : plans'[i].part.fs \in Supported
      /\ k' \in 1 .. Len(plans') + 1
  <2>0. /\ Len(plans) \in Nat /\ DOMAIN plans = 1 .. Len(plans) /\ k \in 1 .. Len(plans) + 1
        /\ plans \in Seq(PartitionPlan)
    BY DEF TypeInv, TypeOK
  <2>1. CASE UNCHANGED plans /\ UNCHANGED k
    BY <2>0, <2>1 DEF TypeInv
  <2>2. CASE UNCHANGED plans /\ k' = k + 1 /\ k \in DOMAIN plans
    BY <2>0, <2>2 DEF TypeInv
  <2>3. CASE plans' = <<>> /\ k' = 1
    <3>1. <<>> \in Seq(PartitionPlan) /\ Len(<<>>) = 0 /\ DOMAIN <<>> = {}
      OBVIOUS
    <3> QED BY <2>3, <3>1
  <2>4. CASE MakePlan
    <3>1. SUFFICES ASSUME NEW t \in Readings, plans' = Plan(t), k' = 1,
                          \A i \in DOMAIN Missing(t) : Missing(t)[i].fs # "other"
                   PROVE  /\ plans' \in Seq(PartitionPlan)
                          /\ \A i \in DOMAIN plans' : plans'[i].part.fs \in Supported
                          /\ k' \in 1 .. Len(plans') + 1
      BY <2>1, <2>4 DEF MakePlan
    <3>2. Bounded(t) /\ \A n \in DOMAIN t : t[n] \in Entry
      BY ReadingType
    <3>3. scenario \in Scenarios
      BY DEF TypeInv, TypeOK
    <3>4. /\ Plan(t) \in Seq(PartitionPlan) /\ DOMAIN Plan(t) = DOMAIN Missing(t)
          /\ \A i \in DOMAIN Missing(t) : Plan(t)[i].part = Missing(t)[i]
      BY <3>2, <3>3, PlanEntries
    <3>5. \A i \in DOMAIN Missing(t) : Missing(t)[i] \in Part
      BY <3>3, MissingParts
    <3>6. \A i \in DOMAIN Missing(t) : Missing(t)[i].fs \in Supported
      <4>1. \A p \in Part : p.fs \in Supported \cup {"other"}
        BY DEF Part
      <4> QED BY <3>1, <3>5, <4>1
    <3>7. Len(plans') \in Nat /\ plans' \in Seq(PartitionPlan)
      BY <3>1, <3>4
    <3>8. k' \in 1 .. Len(plans') + 1
      BY <3>1, <3>7
    <3> QED BY <3>1, <3>4, <3>6, <3>7, <3>8
  <2> QED
    BY <2>1, <2>2, <2>3, <2>4
    DEF Next, Begin, InitDisk, Check, AddPartition, Mkfs, Expand, Grow, End, Crash,
        RunAgain, vars, TypeInv
<1>4. (pc = "mkfs" => k \in DOMAIN plans)' /\ (pc' = "init" => device.init)
  BY DEF TypeInv, Next, Begin, InitDisk, Check, MakePlan, AddPartition, Mkfs, Expand, Grow, End,
         Crash, RunAgain, vars, Return
<1>5. Bounded(table') /\ Typed'
  <2>1. CASE UNCHANGED table
    BY <2>1 DEF TypeInv, TypeOK
  <2>2. CASE InitDisk
    <3>1. table' = <<>> \/ UNCHANGED table
      BY <2>2 DEF InitDisk
    <3>2. DOMAIN <<>> = {} /\ 0 \in Nat
      OBVIOUS
    <3>3. table' = <<>> => Bounded(table') /\ Typed'
      BY <3>2 DEF Bounded
    <3> QED BY <2>1, <3>1, <3>3
  <2>3. CASE AddPartition
    <3>1. SUFFICES ASSUME NEW number \in Numbers, NEW place \in Places,
                          table' = Named(Added(number, place))
                   PROVE  Bounded(table') /\ Typed'
      BY <2>1, <2>3 DEF AddPartition
    <3>2. /\ DOMAIN table' = DOMAIN table \cup {number} /\ table'[number] \in Entry
          /\ \A n \in DOMAIN table : table'[n] \in Entry
      BY <2>3, <3>1, AddedTable DEF AddPartition
    <3>3. number \in Nat \ {0} /\ number <= Highest(table) + 1
      BY AddedNumber
    <3>4. Highest(table) \in Nat /\ \A n \in DOMAIN table : n \in Nat \ {0} /\ n <= Highest(table)
      BY HighestProperty DEF TypeInv
    <3>5. Highest(table) + 1 \in Nat /\ DOMAIN table' \subseteq 1 .. Highest(table) + 1
      BY <3>2, <3>3, <3>4
    <3>6. Typed'
      BY <3>2, <3>3, <3>4
    <3> QED BY <3>5, <3>6 DEF Bounded
  <2>4. ASSUME DOMAIN table' = DOMAIN table, \A n \in DOMAIN table : table'[n] \in Entry
        PROVE  Bounded(table') /\ Typed'
    BY <2>4 DEF TypeInv, TypeOK, Bounded
  <2>5. CASE Mkfs
    <3>1. CASE table' = [table EXCEPT ![plan.number].fs = plan.part.fs,
                                      ![plan.number].made = <<runs, k>>,
                                      ![plan.number].full = TRUE]
      <4>1. plan.part.fs \in Supported
        BY <2>5 DEF TypeInv, Mkfs, plan
      <4>2. <<runs, k>> \in Nat \X Nat
        BY DEF TypeInv, TypeOK
      <4>3. \A n \in DOMAIN table :
              table'[n] = IF n = plan.number
                          THEN [table[n] EXCEPT !.fs = plan.part.fs, !.made = <<runs, k>>,
                                                !.full = TRUE]
                          ELSE table[n]
        BY <3>1
      <4>4. \A n \in DOMAIN table : table[n] \in Entry
        BY DEF TypeInv, TypeOK
      <4>5. ASSUME NEW n \in DOMAIN table
            PROVE  table'[n] \in Entry
        <5> DEFINE fs == plan.part.fs
                   made == <<runs, k>>
                   e == table[n]
        <5>1. /\ fs \in Supported /\ made \in Nat \X Nat /\ e \in Entry
              /\ table'[n] \in {e, [e EXCEPT !.fs = fs, !.made = made, !.full = TRUE]}
          BY <4>1, <4>2, <4>3, <4>4
        <5> HIDE DEF fs, made, e
        <5>2. [e EXCEPT !.fs = fs, !.made = made, !.full = TRUE] \in Entry
          BY <5>1 DEF Entry
        <5> DEFINE f == [e EXCEPT !.fs = fs, !.made = made, !.full = TRUE]
        <5>3. e \in Entry /\ f \in Entry /\ table'[n] \in {e, f}
          BY <5>1, <5>2
        <5> HIDE DEF f
        <5> QED BY <5>3
      <4>6. DOMAIN table' = DOMAIN table
        BY <3>1
      <4> QED BY <2>4, <4>5, <4>6
    <3> QED BY <2>1, <2>5, <3>1 DEF Mkfs
  <2>6. CASE Expand
    <3>1. ASSUME NEW n, Resizable(n),
                 table' = [table EXCEPT ![n].to = Target,
                                        ![n].full = @ /\ Target = table[n].to]
          PROVE  Bounded(table') /\ Typed'
      <4>1. table[n] \in Entry /\ Target \in 1 .. DiskSize
        <5>1. n \in DOMAIN table /\ Target >= table[n].to /\ Target <= DiskSize
          BY <3>1 DEF Resizable
        <5>2. table[n] \in Entry
          BY <5>1 DEF TypeInv, TypeOK
        <5>3. table[n].to \in 1 .. DiskSize
          BY <5>2 DEF Entry
        <5>4. Target \in Int
          BY StageType DEF TypeInv, TypeOK
        <5> QED BY <5>1, <5>2, <5>3, <5>4, SizeAssumption
      <4>2. [table[n] EXCEPT !.to = Target, !.full = @ /\ Target = table[n].to] \in Entry
        BY <4>1 DEF Entry
      <4>3. \A m \in DOMAIN table :
              table'[m] = IF m = n
                          THEN [table[n] EXCEPT !.to = Target, !.full = @ /\ Target = table[n].to]
                          ELSE table[m]
        BY <3>1
      <4>4. DOMAIN table' = DOMAIN table
        BY <3>1
      <4>5. \A m \in DOMAIN table : table'[m] \in Entry
        BY <4>2, <4>3 DEF TypeInv, TypeOK
      <4> QED BY <2>4, <4>4, <4>5
    <3> QED BY <2>1, <2>6, <3>1 DEF Expand
  <2>7. CASE Grow
    <3>1. ASSUME NEW n, table' = [table EXCEPT ![n].full = TRUE]
          PROVE  Bounded(table') /\ Typed'
      <4>1. ASSUME NEW e \in Entry
            PROVE  [e EXCEPT !.full = TRUE] \in Entry
        BY DEF Entry
      <4>2. /\ DOMAIN table' = DOMAIN table
            /\ \A m \in DOMAIN table :
                 table'[m] = table[m] \/ table'[m] = [table[m] EXCEPT !.full = TRUE]
        BY <3>1
      <4>3. \A m \in DOMAIN table : table'[m] \in Entry
        BY <4>1, <4>2 DEF TypeInv, TypeOK
      <4> QED BY <2>4, <4>2, <4>3
    <3> QED BY <2>1, <2>7, <3>1 DEF Grow
  <2> QED
    BY <2>1, <2>2, <2>3, <2>5, <2>6, <2>7
    DEF Next, Begin, Check, MakePlan, End, Crash, RunAgain, vars
<1> QED BY <1>0, <1>1, <1>2, <1>3, <1>4, <1>5 DEF TypeInv, TypeOK, Bounded

\* Types: what is planned can be carried out, and no step puts a partition
\* outside the disk or gives it a number that is not positive.
THEOREM LayoutTypeCorrect == Spec => []TypeOK
<1>1. TypeInv => TypeOK
  BY DEF TypeInv
<1> QED BY InitTypes, NextTypes, <1>1, PTL DEF Spec

-----------------------------------------------------------------------------

\* The numbers of the plan follow each other, and those that are still to
\* come are above every number of the table.
Ahead ==
  \E base \in Nat :
    /\ \A i \in DOMAIN plans \cap Nat : plans[i].number = base + i
    /\ pc = "add" => Highest(table) < base + k
    /\ pc = "mkfs" => /\ Highest(table) <= base + k
                      /\ k \in DOMAIN plans
                      /\ base + k \in DOMAIN table => table[base + k].fs = "none"

Inv ==
  /\ TypeInv
  /\ ~ mayFail("read") /\ pc \in {"add", "mkfs"} => Ahead

\* The invariant holds at the start.
LEMMA InitInv == Init => Inv
BY InitTypes DEF Init, Inv

\* What the proofs below need of the types.
LEMMA InvTypes ==
  ASSUME Inv
  PROVE  /\ scenario \in Scenarios /\ k \in Nat \ {0}
         /\ Bounded(table) /\ (k \in DOMAIN plans <=> k <= Len(plans))
         /\ \A n \in DOMAIN table : table[n] \in Entry
         /\ \A n \in DOMAIN table : table[n].from \in Int /\ table[n].to \in Int
<1>1. /\ scenario \in Scenarios /\ Bounded(table)
      /\ plans \in Seq(PartitionPlan) /\ k \in 1 .. Len(plans) + 1
      /\ \A n \in DOMAIN table : table[n] \in Entry
  BY DEF Inv, TypeInv, TypeOK
<1>2. \A e \in Entry : e.from \in Int /\ e.to \in Int
  BY SizeAssumption DEF Entry
<1>3. Len(plans) \in Nat /\ DOMAIN plans = 1 .. Len(plans)
  BY <1>1
<1> QED BY <1>1, <1>2, <1>3

\* A step that finds the table as it is keeps what was on it.
Kept ==
  \A n \in DOMAIN table :
    /\ n \in DOMAIN table'
    /\ table'[n].name = table[n].name
    /\ table'[n].from = table[n].from /\ table'[n].to >= table[n].to
    /\ table[n].fs # "none" => table'[n].made = table[n].made

\* Where the table stays, the data does.
LEMMA SameKept == Inv /\ UNCHANGED table => Kept
BY InvTypes DEF Kept

\* A step on a disk that is not initialised, whose table can be read, keeps
\* what is on it.
LEMMA StepKept ==
  ASSUME Inv, Careful, [Next]_vars
  PROVE  Kept
<1>1. CASE InitDisk
  BY <1>1 DEF InitDisk, Inv, TypeInv, Careful
<1>2. CASE AddPartition
  <2>1. CASE UNCHANGED table
    BY <2>1, SameKept
  <2>2. CASE \E number \in Numbers, place \in Places : table' = Named(Added(number, place))
    <3>1. PICK number \in Numbers, place \in Places : table' = Named(Added(number, place))
      BY <2>2
    <3>2. Ahead /\ pc = "add" /\ k \in DOMAIN plans /\ k \in Nat
      BY <1>2, InvTypes DEF AddPartition, Inv, Careful
    <3>3. PICK base \in Nat : plan.number = base + k /\ Highest(table) < base + k
      BY <3>2 DEF Ahead, plan
    <3>4. \A n \in DOMAIN table : n # plan.number
      BY <3>3, HighestProperty DEF Inv, TypeInv
    <3> DEFINE planned == plan.number
    <3>5. /\ DOMAIN table \subseteq DOMAIN table'
          /\ \A n \in DOMAIN table : n # planned => table'[n] = table[n]
      BY <3>1, <3>2, AddedTable DEF Inv
    <3>6. \A n \in DOMAIN table : n # planned
      BY <3>4
    <3> HIDE DEF planned
    <3>7. \A n \in DOMAIN table : n \in DOMAIN table' /\ table'[n] = table[n]
      BY <3>5, <3>6
    <3> QED BY <3>7, InvTypes DEF Kept
  <2> QED BY <1>2, <2>1, <2>2 DEF AddPartition
<1>3. CASE Mkfs
  <2>1. CASE UNCHANGED table
    BY <2>1, SameKept
  <2>2. CASE /\ plan.number \in DOMAIN table
             /\ table' = [table EXCEPT ![plan.number].fs = plan.part.fs,
                                       ![plan.number].made = <<runs, k>>,
                                       ![plan.number].full = TRUE]
    <3>1. Ahead /\ pc = "mkfs" /\ k \in Nat
      BY <1>3, InvTypes DEF Mkfs, Inv, Careful
    <3>2. table[plan.number].fs = "none"
      BY <2>2, <3>1 DEF Ahead, plan
    <3>3. \A n \in DOMAIN table :
            /\ n \in DOMAIN table' /\ table'[n].name = table[n].name
            /\ table'[n].from = table[n].from /\ table'[n].to = table[n].to
            /\ n # plan.number => table'[n] = table[n]
      BY <2>2
    <3> DEFINE number == plan.number
    <3>4. table[number].fs = "none" /\ \A n \in DOMAIN table : n # number => table'[n] = table[n]
      BY <3>2, <3>3
    <3> HIDE DEF number
    <3>5. \A n \in DOMAIN table : table[n].fs # "none" => table'[n].made = table[n].made
      BY <3>4
    <3>6. \A n \in DOMAIN table : table'[n].to >= table[n].to
      BY <3>3, InvTypes
    <3> QED BY <3>3, <3>5, <3>6 DEF Kept
  <2> QED BY <1>3, <2>1, <2>2 DEF Mkfs
<1>4. CASE Expand
  <2>1. Readings = {table}
    BY DEF Readings, Careful
  <2>2. CASE UNCHANGED table
    BY <2>2, SameKept
  <2>3. CASE /\ Resizable(Highest(table))
             /\ table' = [table EXCEPT ![Highest(table)].to = Target,
                                       ![Highest(table)].full =
                                         @ /\ Target = table[Highest(table)].to]
    <3> DEFINE last == Highest(table)
    <3>1. Target >= table[last].to
      BY <2>3 DEF Resizable
    <3> HIDE DEF last
    <3>2. \A n \in DOMAIN table :
            /\ n \in DOMAIN table' /\ table'[n].name = table[n].name
            /\ table'[n].from = table[n].from
            /\ table'[n].to = IF n = last THEN Target ELSE table[n].to
            /\ table'[n].made = table[n].made
      BY <2>3 DEF last
    <3> QED BY <3>1, <3>2, InvTypes DEF Kept
  <2> QED BY <1>4, <2>1, <2>2, <2>3 DEF Expand
<1>5. CASE Grow
  <2>1. CASE UNCHANGED table
    BY <2>1, SameKept
  <2>2. CASE table' = [table EXCEPT ![Highest(table)].full = TRUE]
    <3>1. \A n \in DOMAIN table :
            /\ n \in DOMAIN table' /\ table'[n].name = table[n].name
            /\ table'[n].from = table[n].from /\ table'[n].to = table[n].to
            /\ table'[n].made = table[n].made
      BY <2>2
    <3> QED BY <3>1, InvTypes DEF Kept
  <2> QED BY <1>5, <2>1, <2>2 DEF Grow
<1>6. CASE UNCHANGED table
  BY <1>6, SameKept
<1> QED
  BY <1>1, <1>2, <1>3, <1>4, <1>5, <1>6
  DEF Next, Begin, Check, MakePlan, End, Crash, RunAgain, vars

\* The planned numbers stay ahead.
LEMMA NextAhead ==
  ASSUME Inv, [Next]_vars, ~ mayFail("read"), pc' \in {"add", "mkfs"}
  PROVE  Ahead'
<1>1. CASE MakePlan
  <2>1. pc' = "add" /\ k' = 1 /\ UNCHANGED table
    BY <1>1 DEF MakePlan, Return
  <2>2. plans' = Plan(table)
    BY <1>1, <2>1 DEF MakePlan, Return, Readings
  <2>3. Highest(table) \in Nat
    BY HighestProperty DEF Inv, TypeInv
  <2>4. \A i \in DOMAIN plans' \cap Nat : plans'[i].number = Highest(table) + i
    BY <2>2 DEF Plan, PlannedNumber
  <2>5. Highest(table)' = Highest(table) /\ Highest(table) < Highest(table) + k'
    BY <2>1, <2>3
  <2> QED BY <2>1, <2>3, <2>4, <2>5 DEF Ahead
<1>2. CASE AddPartition
  <2>1. PICK base \in Nat :
          /\ \A i \in DOMAIN plans \cap Nat : plans[i].number = base + i
          /\ Highest(table) < base + k
    BY <1>2 DEF AddPartition, Inv, Ahead
  <2>2. k \in Nat \ {0} /\ k \in DOMAIN plans /\ plans' = plans
    BY <1>2, InvTypes DEF AddPartition
  <2>3. CASE UNCHANGED table /\ k' = k + 1 /\ pc' = "add"
    <3>1. Highest(table)' = Highest(table) /\ Highest(table) \in Nat
      BY <2>3, HighestProperty DEF Inv, TypeInv
    <3>2. Highest(table)' < base + k'
      BY <2>1, <2>2, <2>3, <3>1
    <3> QED BY <2>1, <2>2, <2>3, <3>2 DEF Ahead
  <2>4. ASSUME NEW number \in Numbers, NEW place \in Places,
               table' = Named(Added(number, place)), k' = k, pc' = "mkfs"
        PROVE  Ahead'
    <3>1. DOMAIN table' = DOMAIN table \cup {number} /\ table'[number].fs = "none"
      BY <2>2, <2>4, AddedTable DEF Inv
    <3>2. number \in Nat \ {0} /\ number <= Highest(table) + 1
      BY AddedNumber DEF Inv
    <3>3. \A n \in DOMAIN table : n \in Nat \ {0} /\ n <= Highest(table)
      BY HighestProperty DEF Inv, TypeInv
    <3>4. Highest(table) \in Nat
      BY HighestProperty DEF Inv, TypeInv
    <3>5. Bounded(table')
      BY NextTypes DEF Inv, TypeInv
    <3>6. Highest(table') \in DOMAIN table' \cup {0}
      BY <3>5, HighestProperty
    <3>7. Highest(table') <= base + k
      BY <2>1, <2>2, <3>1, <3>2, <3>3, <3>4, <3>6
    <3>8. base + k \in DOMAIN table' => base + k = number
      BY <2>1, <2>2, <3>1, <3>3, <3>4
    <3> QED BY <2>1, <2>2, <2>4, <3>1, <3>7, <3>8 DEF Ahead
  <2> QED BY <1>2, <2>3, <2>4 DEF AddPartition
<1>3. CASE Mkfs
  <2>1. PICK base \in Nat :
          /\ \A i \in DOMAIN plans \cap Nat : plans[i].number = base + i
          /\ Highest(table) <= base + k
    BY <1>3 DEF Mkfs, Inv, Ahead
  <2>2. k \in Nat \ {0} /\ k' = k + 1 /\ plans' = plans /\ pc' = "add"
    BY <1>3, InvTypes DEF Mkfs
  <2>3. DOMAIN table' = DOMAIN table
    BY <1>3 DEF Mkfs
  <2>4. Highest(table') = Highest(table) /\ Highest(table) \in Nat
    BY <2>3, HighestProperty DEF Inv, TypeInv, Highest
  <2>5. Highest(table)' < base + k'
    BY <2>1, <2>2, <2>4
  <2> QED BY <2>1, <2>2, <2>5 DEF Ahead
<1>4. CASE UNCHANGED vars
  BY <1>4 DEF vars, Inv, Ahead
<1> QED
  BY <1>1, <1>2, <1>3, <1>4
  DEF Next, Begin, InitDisk, Check, Expand, Grow, End, Crash, RunAgain, Return

\* Every step keeps the invariant.
LEMMA NextInv == Inv /\ [Next]_vars => Inv'
<1> SUFFICES ASSUME Inv, [Next]_vars PROVE Inv'
  OBVIOUS
<1>1. UNCHANGED scenario
  BY DEF Next, Begin, InitDisk, Check, MakePlan, AddPartition, Mkfs, Expand, Grow, End,
         Crash, RunAgain, vars
<1>2. mayFail("read")' <=> mayFail("read")
  BY <1>1 DEF mayFail
<1>3. (~ mayFail("read") /\ pc \in {"add", "mkfs"} => Ahead)'
  BY <1>2, NextAhead
<1> QED BY <1>3, NextTypes DEF Inv

\* Whatever stage is applied to whatever disk, and wherever it fails or
\* breaks off, no partition loses its number, name, place or room, and none
\* that holds a filesystem is formatted.
THEOREM NothingLost == Spec => DataKept
<1>1. Inv /\ [Next]_vars => [Careful => Kept]_vars
  BY StepKept
<1>2. DataKept <=> [][Careful => Kept]_vars
  BY DEF DataKept, Kept
<1> QED BY InitInv, NextInv, <1>1, <1>2, PTL DEF Spec
-----------------------------------------------------------------------------

\* The partition with the highest number reaches the target, and its
\* filesystem fills it.
Reached ==
  LET last == table[Highest(table)]
  IN  last.to = Target /\ (last.fs # "none" => last.full)

\* A last partition that is to grow, where nothing hides it.
ToGrow == Addressed /\ stage.expand # NoExpand /\ scenario.faults \cap {"probe", "read"} = {}

\* Between resizepart and the end of the run the last partition has its new
\* end, and a run that gets there without an error has grown the filesystem.
GrownInv ==
  /\ TypeInv
  /\ result # "none" => pc = "done"
  /\ ToGrow =>
       /\ pc = "grow" => Highest(table) \in DOMAIN table /\ table[Highest(table)].to = Target
       /\ pc = "end" /\ ~ failed => Reached
       /\ result = "ok" => Reached

\* resizepart leaves the highest number what it was.
LEMMA ExpandReaches ==
  ASSUME TypeInv, ToGrow, Expand, pc' = "grow"
  PROVE  Highest(table') \in DOMAIN table' /\ table'[Highest(table')].to = Target
<1>1. Readings = {table}
  BY DEF Readings, ToGrow, mayFail
<1> DEFINE last == Highest(table)
<1>2. /\ last \in DOMAIN table
      /\ table' = [table EXCEPT ![last].to = Target, ![last].full = @ /\ Target = table[last].to]
  BY <1>1 DEF Expand, Resizable
<1>3. DOMAIN table' = DOMAIN table
  BY <1>2
<1>4. Highest(table') = last
  BY <1>3 DEF Highest
<1>5. table[last] \in Entry
  BY <1>2 DEF TypeInv, TypeOK
<1> DEFINE e == table[last]
<1> HIDE DEF last
<1>6. table'[last] = [e EXCEPT !.to = Target, !.full = @ /\ Target = e.to]
  BY <1>2
<1> HIDE DEF e
<1>7. table'[last].to = Target
  BY <1>5, <1>6 DEF Entry, e
<1> QED BY <1>2, <1>3, <1>4, <1>7

\* A growing that is not reported as failed fills the partition.
LEMMA GrowReaches ==
  ASSUME TypeInv, ToGrow, Grow, ~ failed',
         Highest(table) \in DOMAIN table, table[Highest(table)].to = Target
  PROVE  Reached'
<1> DEFINE last == Highest(table)
           e == table[last]
<1>1. e \in Entry
  BY DEF TypeInv, TypeOK
<1>2. /\ DOMAIN table' = DOMAIN table
      /\ \/ e.fs = "none" /\ table' = table
         \/ table' = [table EXCEPT ![last].full = TRUE]
  BY DEF Grow, ToGrow, mayFail
<1>3. Highest(table') = last
  BY <1>2 DEF Highest
<1>4. \/ e.fs = "none" /\ table'[last] = e
      \/ table'[last] = [e EXCEPT !.full = TRUE]
  BY <1>2
<1>5. Target' = Target
  BY DEF Grow, Target, stage
<1>6. table'[last].to = Target /\ (table'[last].fs # "none" => table'[last].full)
  <2>1. e.to = Target
    OBVIOUS
  <2> HIDE DEF e, last
  <2> QED BY <1>1, <1>4, <2>1 DEF Entry
<1> HIDE DEF last
<1> QED BY <1>3, <1>5, <1>6 DEF Reached

\* Every step keeps what is known of the growth.
LEMMA NextGrown == GrownInv /\ [Next]_vars => GrownInv'
<1> SUFFICES ASSUME GrownInv, [Next]_vars PROVE GrownInv'
  OBVIOUS
<1>1. scenario' = scenario
  BY DEF Next, Begin, InitDisk, Check, MakePlan, AddPartition, Mkfs, Expand, Grow, End,
         Crash, RunAgain, vars
<1>2. (ToGrow' <=> ToGrow) /\ (ToGrow => Addressed) /\ Target' = Target
  BY <1>1 DEF ToGrow, Addressed, Target, device, stage
<1>3. TypeInv'
  BY NextTypes DEF GrownInv
<1>4. result' # "none" => pc' = "done"
  BY DEF GrownInv, Next, Begin, InitDisk, Check, MakePlan, AddPartition, Mkfs, Expand, Grow, End,
         Crash, RunAgain, vars, Return
<1>5. UNCHANGED table => (Reached' <=> Reached)
  BY <1>2 DEF Reached
<1>6. ASSUME ToGrow, pc' = "grow"
      PROVE  Highest(table') \in DOMAIN table' /\ table'[Highest(table')].to = Target'
  <2>1. CASE Expand
    BY <1>2, <1>6, <2>1, ExpandReaches DEF GrownInv
  <2>2. CASE UNCHANGED vars
    BY <1>2, <1>6, <2>2 DEF vars, GrownInv
  <2> QED
    BY <1>6, <2>1, <2>2
    DEF Next, Begin, InitDisk, Check, MakePlan, AddPartition, Mkfs, Grow, End, Crash,
        RunAgain, Return, GrownInv
<1>7. ASSUME ToGrow, pc' = "end", ~ failed'
      PROVE  Reached'
  <2>1. CASE Grow
    BY <1>7, <2>1, GrowReaches DEF GrownInv, Grow
  <2>2. CASE UNCHANGED vars
    BY <1>5, <1>7, <2>2 DEF vars, GrownInv
  <2> QED
    BY <1>7, <2>1, <2>2
    DEF Next, Begin, InitDisk, Check, MakePlan, AddPartition, Mkfs, Expand, End, Crash,
        RunAgain, Return, GrownInv
<1>8. ASSUME ToGrow, result' = "ok"
      PROVE  Reached'
  <2>1. CASE End
    <3>1. pc = "end" /\ ~ failed /\ UNCHANGED table
      BY <1>8, <2>1 DEF End, Return, ToGrow
    <3> QED BY <1>5, <1>8, <3>1 DEF GrownInv
  <2>2. CASE UNCHANGED vars
    BY <1>5, <1>8, <2>2 DEF vars, GrownInv
  <2>3. CASE Begin \/ Check
    BY <1>2, <1>8, <2>3 DEF Begin, Check, Addressed, Return, GrownInv
  <2> QED
    BY <1>8, <2>1, <2>2, <2>3
    DEF Next, InitDisk, MakePlan, AddPartition, Mkfs, Expand, Grow, Crash,
        RunAgain, Return, GrownInv
<1> QED BY <1>2, <1>3, <1>4, <1>6, <1>7, <1>8 DEF GrownInv

\* After a call without an error the last partition reaches as far as asked
\* and its filesystem fills it, whatever earlier calls left behind.
THEOREM ExpandedToTheEnd == Spec => []Expanded
<1>1. Init => GrownInv
  BY InitTypes DEF Init, GrownInv
<1>2. GrownInv => Expanded
  BY DEF GrownInv, Expanded, ToGrow, Reached
<1> QED BY NextGrown, <1>1, <1>2, PTL DEF Spec
-----------------------------------------------------------------------------

\* No fault hides the table, its numbers have no gap, and every partition
\* that was on the disk holds a filesystem.
Whole ==
  /\ ~ mayFail("read")
  /\ DOMAIN scenario.table = 1 .. Cardinality(DOMAIN scenario.table)
  /\ \A n \in DOMAIN scenario.table : scenario.table[n].fs # "none"

Formatted(but) == \A n \in DOMAIN table : n # but => table[n].fs # "none"

There(part) == \E n \in DOMAIN table : table[n].name = part.name

\* The parts that the stage names are there or still to be added.
ThereOrPlanned(from) ==
  \A i \in DOMAIN stage.parts : stage.parts[i].name # "" =>
    \/ There(stage.parts[i])
    \/ \E j \in DOMAIN plans : j >= from /\ plans[j].part = stage.parts[i]

AllThere == \A i \in DOMAIN stage.parts : stage.parts[i].name # "" => There(stage.parts[i])

\* The plan goes on behind the last partition.
GoesOn(number) == \A i \in DOMAIN plans : plans[i].number = number + (i - k)

\* As long as no call has failed, the partition that was added last has the
\* number that the plan gave it, and only that one may wait for its
\* filesystem.
Undisturbed ==
  /\ pc \in {"begin", "init", "check", "plan"} \/ result = "ok" => Formatted(0)
  /\ pc = "add" /\ ~ failed =>
       Formatted(0) /\ GoesOn(Highest(table) + 1) /\ ThereOrPlanned(k)
  /\ pc = "mkfs" /\ ~ failed =>
       Formatted(Highest(table)) /\ GoesOn(Highest(table)) /\ ThereOrPlanned(k + 1)
  /\ pc \in {"grow", "end"} /\ ~ failed => Formatted(0) /\ AllThere
  /\ result = "ok" /\ Addressed => AllThere

CompleteInv ==
  /\ TypeInv
  /\ result # "none" => pc = "done"
  /\ Whole => DOMAIN table = 1 .. Highest(table)
  /\ Whole /\ clean => Undisturbed

\* Numbers without a gap end at the highest.
LEMMA HighestOfInterval ==
  ASSUME NEW t, NEW c \in Nat, DOMAIN t = 1 .. c
  PROVE  Highest(t) = c
<1>1. Bounded(t)
  BY DEF Bounded
<1>2. /\ Highest(t) \in Nat /\ \A n \in DOMAIN t : n <= Highest(t)
      /\ Highest(t) # 0 => Highest(t) \in DOMAIN t
  BY <1>1, HighestProperty
<1>3. c # 0 => c <= Highest(t)
  BY <1>2
<1>4. Highest(t) # 0 => Highest(t) <= c
  BY <1>2
<1> QED BY <1>2, <1>3, <1>4

\* A first run starts with nothing done.
LEMMA InitComplete == Init => CompleteInv
<1> SUFFICES ASSUME Init PROVE CompleteInv
  OBVIOUS
<1> DEFINE c == Cardinality(DOMAIN scenario.table)
<1>1. c \in Nat
  <2>1. DOMAIN scenario.table \subseteq 1 .. DiskSize
    BY LayoutAssumption DEF Init
  <2>2. IsFiniteSet(1 .. DiskSize)
    BY SizeAssumption, FS_Interval
  <2> QED BY <2>1, <2>2, FS_Subset, FS_CardinalityType
<1>2. Whole => DOMAIN table = 1 .. Highest(table)
  <2>1. SUFFICES ASSUME DOMAIN table = 1 .. c PROVE DOMAIN table = 1 .. Highest(table)
    BY DEF Whole, Init
  <2>2. Highest(table) = c
    <3> HIDE DEF c
    <3> QED BY <1>1, <2>1, HighestOfInterval
  <2> QED BY <2>1, <2>2
<1>3. Whole => Formatted(0)
  BY DEF Whole, Init, Formatted
<1> QED BY <1>2, <1>3, InitTypes DEF Init, CompleteInv, Undisturbed

\* A step that leaves names and filesystems as they are.
SameContents ==
  /\ DOMAIN table' = DOMAIN table
  /\ \A n \in DOMAIN table : table'[n].name = table[n].name /\ table'[n].fs = table[n].fs

\* Where the contents stay, nothing is disturbed.
LEMMA SameContentsKept ==
  ASSUME SameContents, UNCHANGED scenario
  PROVE  /\ Highest(table') = Highest(table) /\ (AllThere => AllThere')
         /\ \A but : Formatted(but) => Formatted(but)'
BY DEF SameContents, Highest, AllThere, There, Formatted, stage

\* Growing a filesystem changes none.
LEMMA GrowthKeepsContents ==
  ASSUME Expand \/ Grow
  PROVE  SameContents
<1>1. \/ UNCHANGED table
      \/ \E n : table' = [table EXCEPT ![n].to = Target,
                                       ![n].full = @ /\ Target = table[n].to]
      \/ \E n : table' = [table EXCEPT ![n].full = TRUE]
  BY DEF Expand, Grow
<1>2. ASSUME NEW n, table' = [table EXCEPT ![n].to = Target,
                                           ![n].full = @ /\ Target = table[n].to]
      PROVE  SameContents
  BY <1>2 DEF SameContents
<1>3. ASSUME NEW n, table' = [table EXCEPT ![n].full = TRUE]
      PROVE  SameContents
  BY <1>3 DEF SameContents
<1> QED BY <1>1, <1>2, <1>3 DEF SameContents

\* The numbers of the disk get no gap.
LEMMA NoGap ==
  ASSUME CompleteInv, [Next]_vars, Whole
  PROVE  DOMAIN table' = 1 .. Highest(table')
<1>1. DOMAIN table = 1 .. Highest(table) /\ Highest(table) \in Nat
  BY HighestProperty DEF CompleteInv, TypeInv
<1>2. CASE DOMAIN table' = DOMAIN table
  BY <1>1, <1>2 DEF Highest
<1>3. CASE InitDisk
  <2>1. DOMAIN <<>> = 1 .. 0
    OBVIOUS
  <2>2. Highest(<<>>) = 0
    BY <2>1, HighestOfInterval
  <2> QED BY <1>2, <1>3, <2>1, <2>2 DEF InitDisk
<1>4. CASE AddPartition
  <2>1. SUFFICES ASSUME NEW number \in Numbers, NEW place \in Places,
                        table' = Named(Added(number, place))
                 PROVE  DOMAIN table' = 1 .. Highest(table')
    BY <1>2, <1>4 DEF AddPartition
  <2>2. DOMAIN table' = DOMAIN table \cup {number}
    BY <1>4, <2>1, AddedTable DEF AddPartition, CompleteInv
  <2>3. number \in Nat \ {0} /\ number \notin DOMAIN table /\ number <= Highest(table) + 1
    BY AddedNumber DEF CompleteInv
  <2>4. number = Highest(table) + 1
    BY <1>1, <2>3
  <2>5. number \in Nat /\ DOMAIN table' = 1 .. number
    BY <1>1, <2>2, <2>4
  <2>6. Highest(table') = number
    BY <2>5, HighestOfInterval
  <2> QED BY <2>5, <2>6
<1>5. CASE Mkfs
  BY <1>2, <1>5 DEF Mkfs
<1>6. CASE Expand \/ Grow
  BY <1>2, <1>6, GrowthKeepsContents DEF SameContents
<1>7. CASE UNCHANGED table
  BY <1>2, <1>7
<1> QED
  BY <1>3, <1>4, <1>5, <1>6, <1>7
  DEF Next, Begin, Check, MakePlan, End, Crash, RunAgain, vars

\* The plan of a disk without a gap goes on behind its last partition, and
\* has what is not there.
LEMMA PlanGoesOn ==
  ASSUME TypeInv, ~ mayFail("read"), MakePlan, pc' = "add", Formatted(0)
  PROVE  Formatted(0)' /\ GoesOn(Highest(table) + 1)' /\ ThereOrPlanned(k)'
<1>1. /\ plans' = Plan(table) /\ k' = 1 /\ UNCHANGED <<scenario, table>>
  BY DEF MakePlan, Return, Readings
<1>2. /\ Plan(table) \in Seq(PartitionPlan) /\ DOMAIN Plan(table) = DOMAIN Missing(table)
      /\ \A i \in DOMAIN Missing(table) : /\ Plan(table)[i].part = Missing(table)[i]
                                          /\ Plan(table)[i].number = Highest(table) + i
  BY PlanEntries DEF TypeInv, TypeOK
<1>3. /\ DOMAIN Missing(table) = 1 .. Len(Missing(table)) /\ Len(Missing(table)) \in Nat
      /\ \A i \in DOMAIN stage.parts :
           (\A n \in DOMAIN table : table[n].name # stage.parts[i].name) =>
             \E j \in DOMAIN Missing(table) : Missing(table)[j] = stage.parts[i]
  BY MissingParts DEF TypeInv, TypeOK
<1>4. Highest(table) \in Nat /\ Highest(table') = Highest(table)
  BY <1>1, HighestProperty DEF TypeInv
<1>5. GoesOn(Highest(table) + 1)'
  <2>1. \A i \in DOMAIN plans' : plans'[i].number = Highest(table) + i /\ i \in Int
    BY <1>1, <1>2, <1>3
  <2>2. \A i \in DOMAIN plans' : plans'[i].number = Highest(table) + 1 + (i - 1)
    BY <1>4, <2>1
  <2> QED BY <1>1, <1>4, <2>2 DEF GoesOn
<1>6. \A i \in DOMAIN stage.parts : There(stage.parts[i])
        \/ \E j \in DOMAIN plans' : j >= 1 /\ plans'[j].part = stage.parts[i]
  <2>1. \A j \in DOMAIN plans' : j >= 1 /\ plans'[j].part = Missing(table)[j]
    BY <1>1, <1>2, <1>3
  <2>2. DOMAIN plans' = DOMAIN Missing(table)
    BY <1>1, <1>2
  <2> QED BY <1>3, <2>1, <2>2 DEF There
<1>7. ThereOrPlanned(k)'
  BY <1>1, <1>6 DEF ThereOrPlanned, There, stage
<1> QED BY <1>1, <1>5, <1>7 DEF Formatted

\* On a disk without a gap a new partition gets the number that the plan has
\* for it.
LEMMA AddedAsPlanned ==
  ASSUME TypeInv, Whole, DOMAIN table = 1 .. Highest(table), AddPartition, pc' = "mkfs",
         Formatted(0), GoesOn(Highest(table) + 1), ThereOrPlanned(k)
  PROVE  Formatted(Highest(table))' /\ GoesOn(Highest(table))' /\ ThereOrPlanned(k + 1)'
<1>1. PICK number \in Numbers, place \in Places : table' = Named(Added(number, place))
  BY DEF AddPartition
<1>2. k \in DOMAIN plans /\ k' = k /\ UNCHANGED <<plans, scenario>>
  BY DEF AddPartition
<1>3. /\ DOMAIN table' = DOMAIN table \cup {number}
      /\ table'[number].name = NameOf(plan.part)
      /\ \A n \in DOMAIN table : table'[n].fs = table[n].fs /\ (n # plan.number => table'[n] = table[n])
  BY <1>1, <1>2, AddedTable
<1>4. /\ number \in Nat \ {0} /\ number \notin DOMAIN table /\ number <= Highest(table) + 1
      /\ Highest(table) \in Nat
  BY AddedNumber, HighestProperty DEF TypeInv
<1>5. number = Highest(table) + 1 /\ DOMAIN table' = 1 .. number
  BY <1>3, <1>4
<1>6. Highest(table') = number
  BY <1>4, <1>5, HighestOfInterval
<1>7. plan.number = number
  <2>1. k \in Int
    BY DEF TypeInv, TypeOK
  <2> QED BY <1>2, <1>4, <1>5, <2>1 DEF GoesOn, plan
<1>8. \A n \in DOMAIN table : table'[n] = table[n]
  <2>1. \A n \in DOMAIN table : n # plan.number
    BY <1>4, <1>7
  <2> QED BY <1>3, <2>1
<1>9. Formatted(Highest(table))'
  <2>1. \A n \in DOMAIN table : n # 0 /\ table[n].fs # "none"
    BY DEF TypeInv, TypeOK, Formatted
  <2>2. \A n \in DOMAIN table' : n # number => table'[n].fs # "none"
    BY <1>3, <1>8, <2>1
  <2> QED BY <1>6, <2>2 DEF Formatted
<1>10. GoesOn(Highest(table))'
  BY <1>2, <1>5, <1>6 DEF GoesOn
<1>11. ThereOrPlanned(k + 1)'
  <2>1. ASSUME NEW i \in DOMAIN stage.parts, stage.parts[i].name # ""
        PROVE  \/ \E n \in DOMAIN table' : table'[n].name = stage.parts[i].name
               \/ \E j \in DOMAIN plans : j >= k + 1 /\ plans[j].part = stage.parts[i]
    <3>1. CASE There(stage.parts[i])
      BY <1>3, <1>8, <3>1 DEF There
    <3>2. CASE \E j \in DOMAIN plans : j >= k /\ plans[j].part = stage.parts[i]
      <4>1. PICK j \in DOMAIN plans : j >= k /\ plans[j].part = stage.parts[i]
        BY <3>2
      <4>2. j \in Int /\ k \in Int
        BY DEF TypeInv, TypeOK
      <4>3. CASE j = k
        BY <1>3, <2>1, <4>1, <4>3 DEF NameOf, plan
      <4>4. CASE j # k
        <5>1. j >= k + 1
          BY <4>1, <4>2, <4>4
        <5> QED BY <4>1, <5>1
      <4> QED BY <4>3, <4>4
    <3> QED BY <2>1, <3>1, <3>2 DEF ThereOrPlanned
  <2> QED BY <1>2, <2>1 DEF ThereOrPlanned, There, stage
<1> QED BY <1>9, <1>10, <1>11

\* mkfs leaves the names of the partitions as they are.
LEMMA MkfsNames ==
  ASSUME TypeInv, Mkfs
  PROVE  /\ DOMAIN table' = DOMAIN table
         /\ \A n \in DOMAIN table : table'[n].name = table[n].name
<1>1. CASE UNCHANGED table
  BY <1>1
<1>2. CASE table' = [table EXCEPT ![plan.number].fs = plan.part.fs,
                                  ![plan.number].made = <<runs, k>>,
                                  ![plan.number].full = TRUE]
  <2> DEFINE number == plan.number
             fs == plan.part.fs
             made == <<runs, k>>
             f == [table[number] EXCEPT !.fs = fs, !.made = made, !.full = TRUE]
  <2>1. /\ DOMAIN table' = DOMAIN table
        /\ \A n \in DOMAIN table : table'[n] = IF n = number THEN f ELSE table[n]
    BY <1>2
  <2>2. ASSUME NEW e \in Entry
        PROVE  [e EXCEPT !.fs = fs, !.made = made, !.full = TRUE].name = e.name
    <3> HIDE DEF fs, made
    <3> QED BY DEF Entry
  <2>3. number \in DOMAIN table => f.name = table[number].name
    BY <2>2 DEF TypeInv, TypeOK
  <2> HIDE DEF f, number
  <2> QED BY <2>1, <2>3
<1> QED BY <1>1, <1>2 DEF Mkfs

\* mkfs formats the partition that was added last.
LEMMA FormattedAsPlanned ==
  ASSUME TypeInv, Mkfs, ~ failed',
         Formatted(Highest(table)), GoesOn(Highest(table)), ThereOrPlanned(k + 1)
  PROVE  Formatted(0)' /\ GoesOn(Highest(table) + 1)' /\ ThereOrPlanned(k)'
<1>1. /\ k \in DOMAIN plans /\ k' = k + 1 /\ UNCHANGED <<plans, scenario>>
      /\ plan.number \in DOMAIN table
      /\ table' = [table EXCEPT ![plan.number].fs = plan.part.fs,
                                ![plan.number].made = <<runs, k>>,
                                ![plan.number].full = TRUE]
  BY DEF Mkfs, TypeInv
<1>2. k \in Int /\ Highest(table) \in Int /\ \A i \in DOMAIN plans : i \in Int
  BY HighestProperty DEF TypeInv, TypeOK
<1>3. plan.number = Highest(table)
  BY <1>1, <1>2 DEF GoesOn, plan
<1>4. plan.part.fs \in Supported
  BY <1>1 DEF TypeInv, plan
<1> DEFINE number == plan.number
           fs == plan.part.fs
           made == <<runs, k>>
           e == table[number]
<1>5. /\ DOMAIN table' = DOMAIN table
      /\ \A n \in DOMAIN table :
           table'[n] = IF n = number THEN [e EXCEPT !.fs = fs, !.made = made, !.full = TRUE]
                       ELSE table[n]
  BY <1>1
<1>6. e \in Entry
  BY <1>1 DEF TypeInv, TypeOK
<1>7. fs # "none" /\ number \in DOMAIN table /\ number = Highest(table)
  BY <1>1, <1>3, <1>4 DEF Supported, Growable
<1>8. \A n \in DOMAIN table : table'[n].name = table[n].name
  BY MkfsNames
<1>9. Formatted(0)'
  <2> DEFINE f == [e EXCEPT !.fs = fs, !.made = made, !.full = TRUE]
  <2>1. f.fs = fs
    <3> HIDE DEF number, fs, made, e
    <3> QED BY <1>6 DEF Entry
  <2>2. \A n \in DOMAIN table : table'[n] = IF n = number THEN f ELSE table[n]
    BY <1>5
  <2> HIDE DEF f, number, fs
  <2> QED BY <1>5, <1>7, <2>1, <2>2 DEF Formatted
<1>10. Highest(table') = Highest(table)
  BY <1>5 DEF Highest
<1>11. GoesOn(Highest(table) + 1)'
  <2>1. \A i \in DOMAIN plans : Highest(table) + (i - k) = Highest(table) + 1 + (i - (k + 1))
    BY <1>2
  <2> QED BY <1>1, <1>10, <2>1 DEF GoesOn
<1>12. ThereOrPlanned(k)'
  BY <1>1, <1>5, <1>8 DEF ThereOrPlanned, There, stage
<1> QED BY <1>9, <1>11, <1>12

\* Where nothing is left to be added, everything is there.
LEMMA NothingLeft ==
  ASSUME TypeInv, k \notin DOMAIN plans, ThereOrPlanned(k)
  PROVE  AllThere
<1>1. plans \in Seq(PartitionPlan) /\ k \in 1 .. Len(plans) + 1
  BY DEF TypeInv, TypeOK
<1>2. Len(plans) \in Nat /\ DOMAIN plans = 1 .. Len(plans)
  BY <1>1
<1>3. \A j \in DOMAIN plans : ~ (j >= k)
  BY <1>1, <1>2
<1> QED BY <1>3 DEF ThereOrPlanned, AllThere

\* Every step keeps what is done.
LEMMA NextComplete == CompleteInv /\ [Next]_vars => CompleteInv'
<1> SUFFICES ASSUME CompleteInv, [Next]_vars PROVE CompleteInv'
  OBVIOUS
<1>1. scenario' = scenario /\ (clean' => clean) /\ (result' # "none" => pc' = "done")
  <2>1. scenario' = scenario
    BY DEF Next, Begin, InitDisk, Check, MakePlan, AddPartition, Mkfs, Expand, Grow, End, Crash,
           RunAgain, vars
  <2>2. clean' = clean \/ clean' = (clean /\ result = "ok")
    BY DEF Next, Begin, InitDisk, Check, MakePlan, AddPartition, Mkfs, Expand, Grow, End, Crash,
           RunAgain, vars
  <2>3. result' # "none" => pc' = "done"
    BY DEF CompleteInv, Next, Begin, InitDisk, Check, MakePlan, AddPartition, Mkfs, Expand, Grow,
           End, Crash, RunAgain, vars, Return
  <2>4. clean' => clean
    BY <2>2, Zenon
  <2> QED BY <2>1, <2>3, <2>4
<1>2. (Whole' <=> Whole) /\ (Addressed' <=> Addressed)
  BY <1>1 DEF Whole, mayFail, Addressed, device, stage
<1>3. TypeInv'
  BY NextTypes DEF CompleteInv
<1>4. Whole => (DOMAIN table = 1 .. Highest(table))'
  BY NoGap
<1>5. SUFFICES ASSUME Whole, clean, clean'
               PROVE  Undisturbed'
  BY <1>1, <1>2, <1>3, <1>4 DEF CompleteInv
<1>6. TypeInv /\ Undisturbed /\ DOMAIN table = 1 .. Highest(table) /\ ~ mayFail("read")
  BY <1>5 DEF CompleteInv, Whole
<1>7. UNCHANGED table => /\ (AllThere => AllThere') /\ \A but : Formatted(but) => Formatted(but)'
                         /\ Highest(table') = Highest(table)
  BY <1>1 DEF AllThere, There, Formatted, stage
<1>8. CASE Begin \/ Check
  <2>1. /\ pc \in {"begin", "check"} /\ UNCHANGED table
        /\ pc' \in {"init", "check", "plan", "done"} /\ (result' = "ok" => ~ Addressed)
    BY <1>8, <1>6 DEF Begin, Check, Return, Addressed, CompleteInv
  <2> QED BY <1>2, <1>6, <1>7, <2>1 DEF Undisturbed
<1>9. CASE InitDisk
  <2>1. pc = "init" /\ result = "none"
    BY <1>9 DEF InitDisk, CompleteInv
  <2>2. Formatted(0)'
    <3>1. DOMAIN <<>> = {}
      OBVIOUS
    <3>2. table' = <<>> => Formatted(0)'
      BY <3>1 DEF Formatted
    <3> QED BY <1>6, <1>7, <1>9, <2>1, <3>2 DEF InitDisk, Undisturbed
  <2> QED BY <1>9, <2>1, <2>2 DEF InitDisk, Return, Undisturbed
<1>10. CASE MakePlan
  <2>1. pc = "plan" /\ UNCHANGED table /\ pc' \in {"add", "down", "done"} /\ result' # "ok"
    BY <1>10 DEF MakePlan, Return, CompleteInv
  <2>2. pc' = "add" => Formatted(0)' /\ GoesOn(Highest(table) + 1)' /\ ThereOrPlanned(k)'
    BY <1>6, <1>10, <2>1, PlanGoesOn DEF Undisturbed
  <2> QED BY <2>1, <2>2 DEF Undisturbed
<1>11. CASE AddPartition
  <2>1. pc = "add" /\ result' # "ok" /\ ((pc' = "mkfs" /\ failed' = failed) \/ (pc' = "add" /\ failed'))
    BY <1>11 DEF AddPartition, CompleteInv
  <2>2. pc' = "mkfs" /\ ~ failed' =>
          Formatted(Highest(table))' /\ GoesOn(Highest(table))' /\ ThereOrPlanned(k + 1)'
    BY <1>5, <1>6, <1>11, <2>1, AddedAsPlanned DEF Undisturbed
  <2> QED BY <2>1, <2>2 DEF Undisturbed
<1>12. CASE Mkfs
  <2>1. pc = "mkfs" /\ pc' = "add" /\ result' # "ok" /\ (~ failed' => ~ failed)
    BY <1>12 DEF Mkfs, CompleteInv
  <2>2. ~ failed' => Formatted(0)' /\ GoesOn(Highest(table) + 1)' /\ ThereOrPlanned(k)'
    BY <1>6, <1>12, <2>1, FormattedAsPlanned DEF Undisturbed
  <2> QED BY <2>1, <2>2 DEF Undisturbed
<1>13. CASE Expand
  <2>1. pc = "add" /\ k \notin DOMAIN plans /\ pc' \in {"grow", "end"} /\ result' # "ok"
        /\ (~ failed' => ~ failed)
    BY <1>13 DEF Expand, CompleteInv
  <2>2. ~ failed' => Formatted(0)' /\ AllThere'
    BY <1>1, <1>6, <1>13, <2>1, NothingLeft, GrowthKeepsContents, SameContentsKept DEF Undisturbed
  <2> QED BY <2>1, <2>2 DEF Undisturbed
<1>14. CASE Grow
  <2>1. pc = "grow" /\ pc' = "end" /\ result' # "ok" /\ (~ failed' => ~ failed)
    BY <1>14 DEF Grow, CompleteInv
  <2>2. ~ failed' => Formatted(0)' /\ AllThere'
    BY <1>1, <1>6, <1>14, <2>1, GrowthKeepsContents, SameContentsKept DEF Undisturbed
  <2> QED BY <2>1, <2>2 DEF Undisturbed
<1>15. CASE End
  <2>1. /\ pc' = "done" /\ UNCHANGED table /\ (result' = "ok" => ~ failed)
        /\ (pc = "end" \/ (pc = "add" /\ k \notin DOMAIN plans))
    BY <1>15 DEF End, Return
  <2>2. ~ failed => Formatted(0) /\ AllThere
    BY <1>6, <2>1, NothingLeft DEF Undisturbed
  <2> QED BY <1>7, <2>1, <2>2 DEF Undisturbed
<1>16. CASE Crash
  BY <1>16 DEF Crash, CompleteInv, Undisturbed
<1>17. CASE RunAgain
  <2>1. result = "ok" /\ UNCHANGED table /\ pc' = "begin" /\ result' = "none"
    BY <1>5, <1>17 DEF RunAgain
  <2> QED BY <1>6, <1>7, <2>1 DEF Undisturbed
<1>18. CASE UNCHANGED vars
  BY <1>6, <1>18
  DEF vars, Undisturbed, Formatted, GoesOn, ThereOrPlanned, AllThere, There, Addressed, device, stage
<1> QED
  BY <1>8, <1>9, <1>10, <1>11, <1>12, <1>13, <1>14, <1>15, <1>16, <1>17, <1>18 DEF Next

\* On a disk that is whole, a stage that is run any number of times without
\* an error leaves every partition it names, with a filesystem.
THEOREM WholeDiskCompleted == Spec => []CompleteAtOnce
<1>1. CompleteInv => CompleteAtOnce
  <2> SUFFICES ASSUME CompleteInv, clean, Whole PROVE PartsFormatted
    BY DEF CompleteAtOnce, Whole
  <2>1. TypeInv /\ Undisturbed
    BY DEF CompleteInv
  <2>2. \A n \in DOMAIN table : n # 0
    BY <2>1 DEF TypeInv, TypeOK
  <2> QED BY <2>1, <2>2 DEF Undisturbed, PartsFormatted, AllThere, There, Formatted
<1> QED BY InitComplete, NextComplete, <1>1, PTL DEF Spec
-----------------------------------------------------------------------------

\* The partitions of a table that have a name, the parts of the stage that
\* have it, and those of the plan from some place on.
Holders(t, name) == {n \in DOMAIN t : t[n].name = name}
Listed(name) == {i \in DOMAIN stage.parts : stage.parts[i].name = name}
Planned(name, from) == {j \in DOMAIN plans : j >= from /\ plans[j].part.name = name}

Limit(name) == Max({Cardinality(Holders(scenario.table, name)), Cardinality(Listed(name))})

\* No more partitions have a name, or are still to get it, than may.
NamedInv ==
  /\ Inv
  /\ ~ mayFail("read") =>
       \A name \in PartNames :
         /\ Cardinality(Holders(table, name)) <= Limit(name)
         /\ pc = "add" => Cardinality(Holders(table, name)) + Cardinality(Planned(name, k))
                            <= Limit(name)
         /\ pc = "mkfs" => Cardinality(Holders(table, name)) + Cardinality(Planned(name, k + 1))
                            <= Limit(name)

\* All these sets are finite.
LEMMA HoldersFinite ==
  ASSUME NEW t, NEW name, Bounded(t)
  PROVE  IsFiniteSet(Holders(t, name)) /\ Cardinality(Holders(t, name)) \in Nat
<1>1. PICK b \in Nat : DOMAIN t \subseteq 1 .. b
  BY DEF Bounded
<1>2. IsFiniteSet(1 .. b) /\ Holders(t, name) \subseteq 1 .. b
  BY <1>1, FS_Interval DEF Holders
<1> QED BY <1>2, FS_Subset, FS_CardinalityType

\* What a stage lists is finite.
LEMMA ListedFinite ==
  ASSUME scenario \in Scenarios, NEW name
  PROVE  IsFiniteSet(Listed(name)) /\ Cardinality(Listed(name)) \in Nat
<1>1. Len(stage.parts) \in Nat /\ Listed(name) \subseteq 1 .. Len(stage.parts)
  BY StageType DEF Listed
<1>2. IsFiniteSet(1 .. Len(stage.parts))
  BY <1>1, FS_Interval
<1> QED BY <1>1, <1>2, FS_Subset, FS_CardinalityType

\* What is planned is finite, and less of it is left from plan to plan.
LEMMA PlannedFinite ==
  ASSUME TypeInv, NEW name, NEW from \in Nat
  PROVE  /\ IsFiniteSet(Planned(name, from)) /\ Cardinality(Planned(name, from)) \in Nat
         /\ Planned(name, from + 1) = Planned(name, from) \ {from}
         /\ Cardinality(Planned(name, from + 1)) <= Cardinality(Planned(name, from))
         /\ from \in Planned(name, from) =>
              Cardinality(Planned(name, from)) = Cardinality(Planned(name, from + 1)) + 1
<1>1. plans \in Seq(PartitionPlan)
  BY DEF TypeInv, TypeOK
<1>2. Len(plans) \in Nat /\ DOMAIN plans = 1 .. Len(plans)
  BY <1>1
<1>3. IsFiniteSet(1 .. Len(plans))
  BY <1>2, FS_Interval
<1> DEFINE later == Planned(name, from + 1)
           now == Planned(name, from)
<1>4. now \subseteq 1 .. Len(plans) /\ later = now \ {from}
  BY <1>2 DEF Planned
<1> HIDE DEF later, now
<1>5. IsFiniteSet(now) /\ Cardinality(now) \in Nat
  BY <1>3, <1>4, FS_Subset, FS_CardinalityType
<1>6. from \in now => Cardinality(later) = Cardinality(now) - 1
  BY <1>4, <1>5, FS_RemoveElement
<1>7. from \notin now => later = now
  BY <1>4
<1>8. Cardinality(later) <= Cardinality(now) /\ (from \in now => Cardinality(now) = Cardinality(later) + 1)
  BY <1>5, <1>6, <1>7
<1> QED BY <1>4, <1>5, <1>8 DEF later, now

\* The limit is as large as either number.
LEMMA LimitProperty ==
  ASSUME scenario \in Scenarios, NEW name
  PROVE  /\ Limit(name) \in Nat
         /\ Cardinality(Holders(scenario.table, name)) <= Limit(name)
         /\ Cardinality(Listed(name)) <= Limit(name)
<1> DEFINE a == Cardinality(Holders(scenario.table, name))
           b == Cardinality(Listed(name))
<1>1. Bounded(scenario.table)
  BY LayoutAssumption, SizeAssumption DEF Bounded
<1>2. a \in Nat /\ b \in Nat
  BY <1>1, HoldersFinite, ListedFinite
<1>3. Limit(name) = Max({a, b})
  BY DEF Limit
<1> HIDE DEF a, b
<1>4. a + b \in Nat /\ {a, b} \subseteq 0 .. a + b /\ {a, b} # {}
  BY <1>2
<1>5. Max({a, b}) \in {a, b} /\ \A j \in {a, b} : j <= Max({a, b})
  <2> DEFINE S == {a, b}
  <2>1. S \subseteq 0 .. a + b /\ S # {}
    BY <1>4
  <2> HIDE DEF S
  <2>2. Max(S) \in S /\ \A j \in S : j <= Max(S)
    BY <1>4, <2>1, MaxProperty
  <2> QED BY <2>2 DEF S
<1> QED BY <1>2, <1>3, <1>5 DEF a, b

\* No more of the missing parts have a name than the stage lists.
LEMMA MissingCount ==
  ASSUME scenario \in Scenarios, NEW t, NEW name
  PROVE  /\ IsFiniteSet({j \in DOMAIN Missing(t) : Missing(t)[j].name = name})
         /\ Cardinality({j \in DOMAIN Missing(t) : Missing(t)[j].name = name})
              <= Cardinality(Listed(name))
<1> DEFINE places == {i \in DOMAIN stage.parts :
                        \/ stage.parts[i].name = ""
                        \/ \A n \in DOMAIN t : t[n].name # stage.parts[i].name}
           m == Missing(t)
           named == {j \in DOMAIN m : m[j].name = name}
<1>1. stage.parts \in Seq(Part) /\ places \subseteq DOMAIN stage.parts
  BY StageType
<1>2. m = Subsequence(stage.parts, places)
  BY DEF Missing
<1> HIDE DEF places, m
<1>3. /\ DOMAIN m = 1 .. Len(m) /\ m \in Seq(Part)
      /\ \A j \in DOMAIN m : Place(places, j) \in places /\ m[j] = stage.parts[Place(places, j)]
      /\ \A i, j \in DOMAIN m : i < j => Place(places, i) < Place(places, j)
  BY <1>1, <1>2, SubsequenceElements
<1>4. Len(m) \in Nat
  BY <1>3
<1> DEFINE f == [j \in named |-> Place(places, j)]
<1>5. f \in [named -> Listed(name)]
  BY <1>1, <1>3 DEF Listed
<1>6. ASSUME NEW i \in named, NEW j \in named, f[i] = f[j]
      PROVE  i = j
  <2>1. i \in 1 .. Len(m) /\ j \in 1 .. Len(m) /\ Place(places, i) = Place(places, j)
    BY <1>3, <1>6
  <2>2. Place(places, i) \in Nat
    BY <1>1, <1>3, <2>1, StageType
  <2>3. ~ (i < j) /\ ~ (j < i)
    BY <1>3, <2>1, <2>2
  <2> QED BY <1>4, <2>1, <2>3
<1>7. f \in Injection(named, Listed(name))
  <2> HIDE DEF f, named
  <2> QED BY <1>5, <1>6 DEF Injection, IsInjective
<1>8. IsFiniteSet(Listed(name))
  BY ListedFinite
<1> HIDE DEF named, f
<1>9. IsFiniteSet(named) /\ Cardinality(named) <= Cardinality(Listed(name))
  BY <1>7, <1>8, FS_Injection
<1> QED BY <1>9 DEF named, m

\* A step that leaves the names of the partitions as they are.
LEMMA SameHolders ==
  ASSUME DOMAIN table' = DOMAIN table, \A n \in DOMAIN table : table'[n].name = table[n].name,
         NEW name
  PROVE  Holders(table', name) = Holders(table, name)
BY DEF Holders

\* Adding a partition takes one from the plan.
LEMMA AddCounts ==
  ASSUME Inv, AddPartition, pc' = "mkfs", ~ mayFail("read"), NEW name \in PartNames
  PROVE  Cardinality(Holders(table', name)) + Cardinality(Planned(name, k + 1))
           <= Cardinality(Holders(table, name)) + Cardinality(Planned(name, k))
<1>1. PICK number \in Numbers, place \in Places : table' = Named(Added(number, place))
  BY DEF AddPartition
<1>2. k \in DOMAIN plans /\ Ahead /\ pc = "add" /\ k \in Nat
  BY InvTypes DEF AddPartition, Inv
<1>3. PICK base \in Nat : plan.number = base + k /\ Highest(table) < base + k
  BY <1>2 DEF Ahead, plan
<1>4. \A n \in DOMAIN table : n # plan.number
  BY <1>3, HighestProperty DEF Inv, TypeInv
<1>5. /\ DOMAIN table' = DOMAIN table \cup {number}
      /\ table'[number].name = NameOf(plan.part)
      /\ \A n \in DOMAIN table : n # plan.number => table'[n] = table[n]
  BY <1>1, <1>2, AddedTable DEF Inv
<1>6. number \notin DOMAIN table /\ \A n \in DOMAIN table : table'[n] = table[n]
  BY <1>1, <1>4, <1>5, AddedNumber DEF Inv
<1> DEFINE before == Holders(table, name)
           after == Holders(table', name)
           now == Planned(name, k)
           later == Planned(name, k + 1)
<1>7. IsFiniteSet(before) /\ Cardinality(before) \in Nat
  BY HoldersFinite DEF Inv, TypeInv
<1>8. /\ Cardinality(later) \in Nat /\ Cardinality(now) \in Nat
      /\ Cardinality(later) <= Cardinality(now)
      /\ k \in now => Cardinality(now) = Cardinality(later) + 1
  <2>1. TypeInv /\ k + 1 \in Nat
    BY <1>2 DEF Inv
  <2> QED BY <1>2, <2>1, PlannedFinite
<1>9. name # "" /\ name # "primary"
  BY LayoutAssumption
<1>10. CASE NameOf(plan.part) = name
  <2>1. plan.part.name = name
    BY <1>9, <1>10 DEF NameOf
  <2>2. k \in now
    BY <1>2, <2>1 DEF Planned, plan
  <2>3. after = before \cup {number} /\ number \notin before
    BY <1>5, <1>6, <1>10 DEF Holders
  <2> HIDE DEF before, after, now, later
  <2>4. Cardinality(after) = Cardinality(before) + 1
    BY <1>7, <2>3, FS_AddElement
  <2>5. Cardinality(after) + Cardinality(later) <= Cardinality(before) + Cardinality(now)
    BY <1>7, <1>8, <2>2, <2>4
  <2> QED BY <2>5 DEF before, after, now, later
<1>11. CASE NameOf(plan.part) # name
  <2>1. after = before
    BY <1>5, <1>6, <1>11 DEF Holders
  <2> HIDE DEF before, after, now, later
  <2>2. Cardinality(after) + Cardinality(later) <= Cardinality(before) + Cardinality(now)
    BY <1>7, <1>8, <2>1
  <2> QED BY <2>2 DEF before, after, now, later
<1> QED BY <1>10, <1>11

\* A plan has a name no more often than the stage, and only one that no
\* partition has.
LEMMA PlanCounts ==
  ASSUME Inv, MakePlan, pc' = "add", ~ mayFail("read"), NEW name \in PartNames,
         Cardinality(Holders(table, name)) <= Limit(name)
  PROVE  Cardinality(Holders(table, name)) + Cardinality(Planned(name, k))' <= Limit(name)
<1>1. plans' = Plan(table) /\ k' = 1
  BY DEF MakePlan, Return, Readings
<1> DEFINE m == Missing(table)
           named == {j \in DOMAIN m : m[j].name = name}
<1>2. scenario \in Scenarios /\ Bounded(table) /\ \A n \in DOMAIN table : table[n] \in Entry
  BY DEF Inv, TypeInv, TypeOK
<1>3. DOMAIN Plan(table) = DOMAIN m /\ \A i \in DOMAIN m : Plan(table)[i].part = m[i]
  BY <1>2, PlanEntries
<1>4. /\ Len(m) \in Nat /\ DOMAIN m = 1 .. Len(m)
      /\ \A j \in DOMAIN m : m[j].name # "" => \A n \in DOMAIN table : table[n].name # m[j].name
  BY <1>2, MissingParts
<1>5. Planned(name, k)' = named
  <2> DEFINE p == Plan(table)
  <2>1. \A j \in DOMAIN m : j >= 1
    <3>1. DOMAIN m = 1 .. Len(m) /\ Len(m) \in Nat
      BY <1>4
    <3> HIDE DEF m
    <3> QED BY <3>1
  <2>2. Planned(name, k)' = {j \in DOMAIN p : j >= 1 /\ p[j].part.name = name}
    BY <1>1 DEF Planned
  <2>3. DOMAIN p = DOMAIN m /\ \A j \in DOMAIN m : p[j].part = m[j]
    BY <1>3
  <2> HIDE DEF m, p
  <2> QED BY <2>1, <2>2, <2>3
<1>6. Cardinality(named) <= Cardinality(Listed(name)) /\ IsFiniteSet(named)
  BY <1>2, MissingCount
<1>7. /\ Cardinality(Holders(table, name)) \in Nat /\ Limit(name) \in Nat
      /\ Cardinality(Listed(name)) \in Nat /\ Cardinality(Listed(name)) <= Limit(name)
  BY <1>2, HoldersFinite, ListedFinite, LimitProperty
<1>8. Cardinality({}) = 0 /\ name # ""
  BY FS_EmptySet, LayoutAssumption
<1>9. Cardinality(named) \in Nat
  BY <1>6, FS_CardinalityType
<1>10. ASSUME NEW j \in named, NEW n \in Holders(table, name)
       PROVE  FALSE
  <2>1. j \in DOMAIN m /\ m[j].name = name /\ n \in DOMAIN table /\ table[n].name = name
    BY DEF Holders
  <2> HIDE DEF m
  <2> QED BY <1>4, <1>8, <2>1
<1>11. named = {} \/ Holders(table, name) = {}
  BY <1>10
<1> DEFINE held == Cardinality(Holders(table, name))
           limit == Limit(name)
           c == Cardinality(named)
<1>12. /\ held \in Nat /\ limit \in Nat /\ c \in Nat /\ held <= limit
       /\ c = 0 \/ held = 0
  BY <1>7, <1>8, <1>9, <1>11
<1>13. c <= limit
  <2> DEFINE listed == Cardinality(Listed(name))
  <2>1. listed \in Nat /\ listed <= limit /\ c <= listed
    BY <1>6, <1>7
  <2> HIDE DEF listed, limit, c
  <2> QED BY <1>12, <2>1
<1>14. held + c <= limit
  <2> HIDE DEF held, limit, c
  <2> QED BY <1>12, <1>13
<1> QED BY <1>5, <1>14

\* Every step keeps the names apart.
LEMMA NextNamed == NamedInv /\ [Next]_vars => NamedInv'
<1> SUFFICES ASSUME NamedInv, [Next]_vars PROVE NamedInv'
  OBVIOUS
<1>1. Inv /\ Inv' /\ TypeInv
  BY NextInv DEF NamedInv, Inv
<1>2. scenario' = scenario
  BY DEF Next, Begin, InitDisk, Check, MakePlan, AddPartition, Mkfs, Expand, Grow, End, Crash,
         RunAgain, vars
<1>3. (mayFail("read")' <=> mayFail("read")) /\ \A name : Limit(name)' = Limit(name)
  BY <1>2 DEF mayFail, Limit, Listed, stage
<1>4. SUFFICES ASSUME ~ mayFail("read"), NEW name \in PartNames
               PROVE  /\ Cardinality(Holders(table', name)) <= Limit(name)
                      /\ pc' = "add" => Cardinality(Holders(table', name))
                                          + Cardinality(Planned(name, k))' <= Limit(name)
                      /\ pc' = "mkfs" => Cardinality(Holders(table', name))
                                           + Cardinality(Planned(name, k + 1))' <= Limit(name)
  BY <1>1, <1>3 DEF NamedInv
<1> DEFINE before == Cardinality(Holders(table, name))
           after == Cardinality(Holders(table', name))
           now == Cardinality(Planned(name, k))
           later == Cardinality(Planned(name, k + 1))
           limit == Limit(name)
<1>5. /\ before <= limit /\ (pc = "add" => before + now <= limit)
      /\ (pc = "mkfs" => before + later <= limit)
  BY <1>4 DEF NamedInv
<1>6. before \in Nat /\ now \in Nat /\ later \in Nat /\ later <= now /\ limit \in Nat
  <2>1. scenario \in Scenarios /\ k \in Nat /\ k + 1 \in Nat /\ Bounded(table)
    BY <1>1, InvTypes
  <2> QED BY <1>1, <2>1, HoldersFinite, PlannedFinite, LimitProperty
<1>7. after \in Nat
  BY <1>1, HoldersFinite DEF Inv, TypeInv, Bounded
<1>8. CASE AddPartition
  <2>1. pc = "add" /\ UNCHANGED plans
    BY <1>8 DEF AddPartition
  <2>2. CASE UNCHANGED table /\ k' = k + 1 /\ pc' = "add"
    <3>1. after = before /\ Cardinality(Planned(name, k))' = later
      BY <2>1, <2>2 DEF Planned
    <3> HIDE DEF before, after, now, later, limit
    <3>2. after <= limit /\ after + later <= limit
      BY <1>5, <1>6, <2>1, <3>1
    <3> QED BY <2>2, <3>1, <3>2 DEF before, after, now, later, limit
  <2>3. CASE k' = k /\ pc' = "mkfs"
    <3>1. Cardinality(Planned(name, k + 1))' = later
      BY <2>1, <2>3 DEF Planned
    <3>2. after + later <= before + now
      BY <1>1, <1>4, <1>8, <2>3, AddCounts
    <3> HIDE DEF before, after, now, later, limit
    <3>3. after <= limit /\ after + later <= limit
      BY <1>5, <1>6, <1>7, <2>1, <3>2
    <3> QED BY <2>3, <3>1, <3>3 DEF before, after, now, later, limit
  <2> QED BY <1>8, <2>2, <2>3 DEF AddPartition
<1>9. CASE Mkfs
  <2>1. pc = "mkfs" /\ UNCHANGED plans /\ k' = k + 1 /\ pc' = "add"
    BY <1>9 DEF Mkfs
  <2>2. Cardinality(Planned(name, k))' = later
    BY <2>1 DEF Planned
  <2>3. DOMAIN table' = DOMAIN table /\ \A n \in DOMAIN table : table'[n].name = table[n].name
    BY <1>1, <1>9, MkfsNames
  <2>4. after = before
    BY <2>3, SameHolders
  <2> HIDE DEF before, after, now, later, limit
  <2>5. after <= limit /\ after + later <= limit
    BY <1>5, <1>6, <2>1, <2>4
  <2> QED BY <2>1, <2>2, <2>5 DEF before, after, now, later, limit
<1>10. CASE MakePlan
  <2>1. UNCHANGED table /\ pc' # "mkfs" /\ after = before
    BY <1>10 DEF MakePlan, Return
  <2>2. pc' = "add" => before + Cardinality(Planned(name, k))' <= limit
    BY <1>1, <1>4, <1>5, <1>10, PlanCounts
  <2> QED BY <1>5, <2>1, <2>2
<1>11. CASE InitDisk
  <2>1. pc' \in {"check", "done"} /\ (table' = <<>> \/ UNCHANGED table)
    BY <1>11 DEF InitDisk, Return
  <2>2. table' = <<>> => after = 0
    <3>1. DOMAIN <<>> = {}
      OBVIOUS
    <3>2. Holders(<<>>, name) = {}
      BY <3>1 DEF Holders
    <3> QED BY <3>2, FS_EmptySet
  <2>3. UNCHANGED table => after = before
    OBVIOUS
  <2> HIDE DEF before, after, now, later, limit
  <2>4. after <= limit
    BY <1>5, <1>6, <2>1, <2>2, <2>3
  <2> QED BY <2>1, <2>4 DEF after, limit
<1>12. CASE Expand \/ Grow
  <2>1. pc' \in {"grow", "end"}
    BY <1>12 DEF Expand, Grow
  <2>2. after = before
    BY <1>12, GrowthKeepsContents, SameHolders DEF SameContents
  <2> QED BY <1>5, <2>1, <2>2
<1>13. CASE Begin \/ Check \/ End \/ Crash \/ RunAgain
  <2>1. pc' \notin {"add", "mkfs"} /\ UNCHANGED table
    BY <1>13 DEF Begin, Check, End, Crash, RunAgain, Return
  <2> QED BY <1>5, <2>1
<1>14. CASE UNCHANGED vars
  BY <1>5, <1>14 DEF vars, Planned
<1> QED
  BY <1>8, <1>9, <1>10, <1>11, <1>12, <1>13, <1>14 DEF Next

\* However often the stage is run, and wherever a run fails or breaks off,
\* no more partitions get a name than the stage lists for it, if the table
\* could be read.
THEOREM NoPartTwice == Spec => []NamedOnce
<1>1. Init => NamedInv
  <2> SUFFICES ASSUME Init PROVE NamedInv
    OBVIOUS
  <2>1. scenario \in Scenarios /\ table = scenario.table /\ pc = "begin"
    BY DEF Init
  <2>2. \A name : Cardinality(Holders(table, name)) <= Limit(name)
    BY <2>1, LimitProperty
  <2> QED BY <2>1, <2>2, InitInv DEF NamedInv
<1>2. NamedInv => NamedOnce
  BY DEF NamedInv, NamedOnce, Limit, Holders, Listed
<1> QED BY NextNamed, <1>1, <1>2, PTL DEF Spec
=============================================================================
