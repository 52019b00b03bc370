--------------------------- MODULE UserDataProofs ---------------------------
(***************************************************************************)
(* Theorems about UserData, for every stage, every answer of a machine     *)
(* that may change between runs, every fault and any number of runs: the   *)
(* first provider with user data wins and one is enough, and what later    *)
(* calls load as a config is one.  Below them about Template, the other    *)
(* part that takes texts written for another program: of every template,   *)
(* that its blocks and names are bound as in Go.                           *)
(***************************************************************************)
EXTENDS UserData, Template, SubsequenceProofs

\* What is to be written has won, and is a config before the second write.
Ready ==
  /\ pc \in {"base", "raw", "named"} => userdata \in won
  /\ pc = "named" => userdata \in Configs

Invariant ==
  /\ files \in [Bases \X FileNames -> Data \cup {"none", Partial}]
  /\ won \subseteq Data
  /\ Ready
  /\ NamedIsConfig

\* At first there is no output.
LEMMA InitInvariant == Init => Invariant
<1> SUFFICES ASSUME Init PROVE Invariant
  OBVIOUS
<1>1. Named \in FileNames
  BY UserDataAssumption DEF Init, Named, Default, FileNames
<1>2. files = [where \in Bases \X FileNames |-> "none"] /\ won = {} /\ pc = "start"
  BY DEF Init
<1> QED BY <1>1, <1>2 DEF Invariant, Ready, NamedIsConfig

\* The stage does not change, nor does the name of its copy.
LEMMA SameName == ASSUME UNCHANGED scenario PROVE Named' = Named
  BY DEF Named

\* What is written at a name other than the copy's, or is a config that has won
\* or the start of one, leaves all copies configs.
LEMMA Written ==
  ASSUME Invariant, NEW b \in Bases, NEW f \in FileNames,
         NEW what \in Data \cup {Partial},
         (f = Named /\ what # Partial => what \in won \cap Configs)
           \/ Named \in {"userdata", "meta-data"},
         files' = [files EXCEPT ![<<b, f>>] = what], UNCHANGED scenario,
         won \subseteq won', won' \subseteq Data
  PROVE  /\ files' \in [Bases \X FileNames -> Data \cup {"none", Partial}]
         /\ NamedIsConfig'
<1>1. files' \in [Bases \X FileNames -> Data \cup {"none", Partial}]
  BY DEF Invariant
<1>2. ASSUME NEW base \in Bases, Named \notin {"userdata", "meta-data"}
      PROVE  files'[<<base, Named>>] \in (won' \cap Configs) \cup {"none", Partial}
  <2>1. files[<<base, Named>>] \in (won \cap Configs) \cup {"none", Partial}
    BY <1>2 DEF Invariant, NamedIsConfig
  <2>2. files'[<<base, Named>>] \in {files[<<base, Named>>]} \cup (IF f = Named THEN {what} ELSE {})
    BY <1>1 DEF Invariant
  <2> QED BY <2>1, <2>2, <1>2
<1> QED BY <1>1, <1>2, SameName DEF NamedIsConfig

\* Without a write the copies stay configs.
LEMMA Unwritten ==
  ASSUME Invariant, UNCHANGED <<files, scenario>>, won \subseteq won'
  PROVE  /\ files' \in [Bases \X FileNames -> Data \cup {"none", Partial}]
         /\ NamedIsConfig'
  BY SameName DEF Invariant, NamedIsConfig

\* Asking a provider keeps what is taken among the winners.
LEMMA TakenReady ==
  ASSUME Invariant, NEW answer, Taken(answer), pc = "probe"
  PROVE  Ready' /\ won \subseteq won' /\ won' \subseteq Data
  BY DEF Invariant, Ready, Taken

\* Every step keeps the invariant.
LEMMA StepInvariant == Invariant /\ [Next]_vars => Invariant'
<1> SUFFICES ASSUME Invariant, [Next]_vars PROVE Invariant'
  OBVIOUS
<1> USE DEF history
<1>1. CASE Start
  BY <1>1, Unwritten DEF Start, Return, Invariant, Ready
<1>2. CASE Probe
  <2>1. Ready' /\ won \subseteq won' /\ won' \subseteq Data
    BY <1>2, TakenReady DEF Probe
  <2> QED BY <1>2, <2>1, Unwritten DEF Probe, Invariant
<1>3. CASE ProbeNocloud
  <2>1. UNCHANGED scenario
    BY <1>3 DEF ProbeNocloud
  <2>2. Ready' /\ won \subseteq won' /\ won' \subseteq Data
    BY <1>3, TakenReady DEF ProbeNocloud, Down, Invariant, Ready
  <2>3. \/ UNCHANGED files
        \/ \E what \in Data \cup {Partial} : files' = [files EXCEPT ![<<"run", "meta-data">>] = what]
    BY <1>3 DEF ProbeNocloud
  <2>4. files' \in [Bases \X FileNames -> Data \cup {"none", Partial}] /\ NamedIsConfig'
    <3>1. CASE UNCHANGED files
      BY <3>1, <2>1, <2>2, Unwritten
    <3>2. ASSUME NEW what \in Data \cup {Partial},
                 files' = [files EXCEPT ![<<"run", "meta-data">>] = what]
          PROVE  files' \in [Bases \X FileNames -> Data \cup {"none", Partial}] /\ NamedIsConfig'
      <4>1. "run" \in Bases /\ "meta-data" \in FileNames
        BY DEF Bases, FileNames
      <4>2. "meta-data" = Named => Named \in {"userdata", "meta-data"}
        OBVIOUS
      <4> QED BY <3>2, <4>1, <4>2, <2>1, <2>2, Written
    <3> QED BY <2>3, <3>1, <3>2
  <2> QED BY <2>2, <2>4 DEF Invariant
<1>4. CASE GiveUp
  BY <1>4, Unwritten DEF GiveUp, Return, Invariant, Ready
<1>5. CASE MakeBase
  BY <1>5, Unwritten DEF MakeBase, Return, Invariant, Ready
<1>6. CASE WriteRaw
  <2>1. UNCHANGED <<scenario, userdata, won>>
    BY <1>6 DEF WriteRaw
  <2>2. userdata \in Data
    BY <1>6 DEF WriteRaw, Invariant, Ready
  <2>3. Ready'
    BY <1>6, <2>1 DEF WriteRaw, Write, Return, Down, Invariant, Ready
  <2>4. PICK what \in Data \cup {Partial} : files' = [files EXCEPT ![<<Base, "userdata">>] = what]
    BY <1>6, <2>2 DEF WriteRaw, Write
  <2>5. Base \in Bases /\ "userdata" \in FileNames
    BY DEF Base, BasePath, Bases, FileNames
  <2>6. "userdata" = Named => Named \in {"userdata", "meta-data"}
    OBVIOUS
  <2> QED BY <2>1, <2>3, <2>4, <2>5, <2>6, Written DEF Invariant
<1>7. CASE WriteNamed
  <2>1. UNCHANGED <<scenario, userdata, won>>
    BY <1>7 DEF WriteNamed
  <2>2. userdata \in won \cap Configs /\ userdata \in Data
    BY <1>7 DEF WriteNamed, Invariant, Ready
  <2>3. Ready'
    BY <1>7, <2>1 DEF WriteNamed, Write, Return, Down, Invariant, Ready
  <2>4. PICK what \in {userdata, Partial} : files' = [files EXCEPT ![<<Base, Named>>] = what]
    BY <1>7 DEF WriteNamed, Write
  <2>5. Base \in Bases
    BY DEF Base, BasePath, Bases
  <2>6. CASE Named \in FileNames
    BY <2>1, <2>2, <2>3, <2>4, <2>5, <2>6, Written DEF Invariant
  <2>7. CASE Named \notin FileNames
    <3>1. UNCHANGED files
      BY <2>4, <2>7 DEF Invariant
    <3> QED BY <2>1, <2>3, <3>1, Unwritten DEF Invariant
  <2> QED BY <2>6, <2>7
<1>8. CASE Crash
  BY <1>8, Unwritten DEF Crash, Down, Invariant, Ready
<1>9. CASE RunAgain
  BY <1>9, Unwritten DEF RunAgain, Invariant, Ready
<1>10. CASE UNCHANGED vars
  BY <1>10, Unwritten DEF vars, Invariant, Ready
<1> QED BY <1>1, <1>2, <1>3, <1>4, <1>5, <1>6, <1>7, <1>8, <1>9, <1>10 DEF Next

\* Whatever the providers answer in one run after the other, and wherever a
\* run breaks off, the named copy is a config that some run has taken as a
\* whole, or the start of one.
THEOREM OnlyConfigsNamed == Spec => []NamedIsConfig
<1>1. Invariant => NamedIsConfig
  BY DEF Invariant
<1> QED BY <1>1, InitInvariant, StepInvariant, PTL DEF Spec

-----------------------------------------------------------------------------

\* There are finitely many providers, whatever the stage repeats.
LEMMA ProvidersNumbered ==
  ASSUME scenario \in Scenarios
  PROVE  Len(Providers) \in Nat
<1> DEFINE seq == scenario.providers
           firsts == {i \in DOMAIN seq : \A j \in 1 .. i - 1 : seq[j] # seq[i]}
<1>1. seq \in Seq(STRING)
  BY UserDataAssumption
<1>2. firsts \subseteq DOMAIN seq
  OBVIOUS
<1>3. Providers = Subsequence(seq, firsts)
  BY DEF Providers, Unique
<1> HIDE DEF firsts, seq
<1>4. Subsequence(seq, firsts) \in Seq(STRING)
  BY <1>1, <1>2, SubsequenceElements
<1> QED BY <1>3, <1>4

\* Asking a provider goes on to the next or to the output.
LEMMA TakenType ==
  ASSUME TypeOK, NEW answer, Taken(answer), pc = "probe", n <= Len(Providers)
  PROVE  /\ n' \in 1 .. Len(Providers) + 1
         /\ userdata' \in Data \cup {"none"} /\ won' \subseteq Data
         /\ pc' \in {"probe", "base"}
         /\ pc' = "base" => n' <= Len(Providers) /\ userdata' \in Data
<1>1. Len(Providers) \in Nat
  BY ProvidersNumbered DEF TypeOK
<1> QED BY <1>1 DEF TypeOK, Taken

\* A step keeps the types; the writes, the type of the output.
LEMMA StepType == TypeOK /\ [Next]_vars => TypeOK'
<1> SUFFICES ASSUME TypeOK, [Next]_vars PROVE TypeOK'
  OBVIOUS
<1> USE DEF history
<1>1. Len(Providers) \in Nat /\ (UNCHANGED scenario => Providers' = Providers)
  BY ProvidersNumbered DEF TypeOK, Providers
<1>2. CASE Start
  BY <1>1, <1>2 DEF Start, Return, TypeOK
<1>3. CASE Probe
  <2>1. /\ n' \in 1 .. Len(Providers) + 1
        /\ userdata' \in Data \cup {"none"} /\ won' \subseteq Data
        /\ pc' \in {"probe", "base"}
        /\ pc' = "base" => n' <= Len(Providers) /\ userdata' \in Data
    BY <1>3, TakenType DEF Probe
  <2> QED BY <1>1, <1>3, <2>1 DEF Probe, TypeOK
<1>4. CASE ProbeNocloud
  <2>1. /\ n' \in 1 .. Len(Providers) + 1
        /\ userdata' \in Data \cup {"none"} /\ won' \subseteq Data
        /\ pc' \in {"probe", "base", "down"}
        /\ pc' = "base" => n' <= Len(Providers) /\ userdata' \in Data
    BY <1>4, TakenType DEF ProbeNocloud, Down, TypeOK
  <2>2. files' \in [Bases \X FileNames -> Data \cup {"none", Partial}]
    BY <1>4 DEF ProbeNocloud, TypeOK
  <2>3. UNCHANGED <<history, at, result>>
    BY <1>4 DEF ProbeNocloud, Down
  <2> QED BY <1>1, <2>1, <2>2, <2>3 DEF TypeOK
<1>5. CASE GiveUp
  BY <1>1, <1>5 DEF GiveUp, Return, TypeOK
<1>6. CASE MakeBase
  BY <1>1, <1>6 DEF MakeBase, Return, TypeOK
<1>7. CASE WriteRaw
  <2>1. files' \in [Bases \X FileNames -> Data \cup {"none", Partial}]
    BY <1>7 DEF WriteRaw, Write, TypeOK
  <2>2. pc' \in {"named", "done", "down"} /\ result' \in {"none", "ok", "error"}
    BY <1>7 DEF WriteRaw, Write, Return, Down, TypeOK
  <2>3. n <= Len(Providers) /\ userdata \in Data /\ UNCHANGED <<history, at, n, userdata, won>>
    BY <1>7 DEF WriteRaw, TypeOK
  <2> QED BY <1>1, <2>1, <2>2, <2>3 DEF TypeOK
<1>8. CASE WriteNamed
  <2>1. files' \in [Bases \X FileNames -> Data \cup {"none", Partial}]
    BY <1>8 DEF WriteNamed, Write, TypeOK
  <2>2. pc' \in {"done", "down"} /\ result' \in {"none", "ok", "error"}
    BY <1>8 DEF WriteNamed, Write, Return, Down, TypeOK
  <2>3. UNCHANGED <<history, at, n, userdata, won>>
    BY <1>8 DEF WriteNamed
  <2> QED BY <1>1, <2>1, <2>2, <2>3 DEF TypeOK
<1>9. CASE Crash
  BY <1>1, <1>9 DEF Crash, Down, TypeOK
<1>10. CASE RunAgain
  <2>1. runs' \in 1 .. MaxRuns
    <3>1. MaxRuns \in Nat
      BY UserDataAssumption
    <3> QED BY <1>10, <3>1 DEF RunAgain, TypeOK
  <2> QED BY <1>1, <1>10, <2>1 DEF RunAgain, TypeOK
<1>11. CASE UNCHANGED vars
  BY <1>1, <1>11 DEF vars, TypeOK
<1> QED BY <1>2, <1>3, <1>4, <1>5, <1>6, <1>7, <1>8, <1>9, <1>10, <1>11 DEF Next

\* At first the types are right.
LEMMA InitType == Init => TypeOK
<1> SUFFICES ASSUME Init PROVE TypeOK
  OBVIOUS
<1>1. Len(Providers) \in Nat
  BY ProvidersNumbered DEF Init
<1>2. runs \in 1 .. MaxRuns
  <2>1. MaxRuns \in Nat \ {0}
    BY UserDataAssumption
  <2> QED BY <2>1 DEF Init
<1>3. at \in FileState \cup {"dir"}
  BY UserDataAssumption DEF Init
<1> QED BY <1>1, <1>2, <1>3 DEF Init, TypeOK

\* The probing stays in the list of providers, and only user data is written.
THEOREM UserDataTypeCorrect == Spec => []TypeOK
BY InitType, StepType, PTL DEF Spec

-----------------------------------------------------------------------------

\* Without its repetitions a list of providers names the same ones, and each
\* where the list names it first.
LEMMA UniqueOrder ==
  ASSUME NEW seq \in Seq(STRING)
  PROVE  /\ Len(Unique(seq)) \in Nat /\ DOMAIN Unique(seq) = 1 .. Len(Unique(seq))
         /\ \A i \in DOMAIN seq : \E m \in DOMAIN Unique(seq) : Unique(seq)[m] = seq[i]
         /\ \A k \in DOMAIN Unique(seq) : \E i \in DOMAIN seq :
              /\ Unique(seq)[k] = seq[i]
              /\ \A j \in 1 .. i - 1 : \E m \in 1 .. k - 1 : Unique(seq)[m] = seq[j]
<1> DEFINE firsts == {i \in DOMAIN seq : \A j \in 1 .. i - 1 : seq[j] # seq[i]}
           unique == Subsequence(seq, firsts)
           pos(k) == Place(firsts, k)
<1>1. DOMAIN seq = 1 .. Len(seq) /\ Len(seq) \in Nat /\ firsts \subseteq DOMAIN seq
  OBVIOUS
<1>2. Unique(seq) = unique
  BY DEF Unique
<1>3. \A i \in DOMAIN seq : \E l \in firsts : l <= i /\ seq[l] = seq[i]
  <2> SUFFICES ASSUME NEW i \in DOMAIN seq
               PROVE  \E l \in firsts : l <= i /\ seq[l] = seq[i]
    OBVIOUS
  <2> DEFINE same == {l \in DOMAIN seq : seq[l] = seq[i]}
  <2>1. same \subseteq Nat /\ i \in same
    BY <1>1
  <2>2. PICK l \in same : \A j \in same : l <= j
    BY <2>1, Least
  <2>3. l <= i /\ seq[l] = seq[i] /\ l \in DOMAIN seq
    BY <2>1, <2>2
  <2>4. \A j \in 1 .. l - 1 : seq[j] # seq[l]
    BY <1>1, <2>2, <2>3
  <2> QED BY <2>3, <2>4
<1> HIDE DEF firsts
<1>4. /\ unique \in Seq(STRING) /\ DOMAIN unique = 1 .. Len(unique)
      /\ \A k \in DOMAIN unique : pos(k) \in firsts /\ unique[k] = seq[pos(k)]
      /\ \A i \in firsts : \E k \in DOMAIN unique : pos(k) = i
      /\ \A k, l \in DOMAIN unique : k < l => pos(k) < pos(l)
  BY <1>1, SubsequenceElements
<1> HIDE DEF unique, pos
<1>5. Len(unique) \in Nat
  BY <1>4
<1>6. ASSUME NEW i \in DOMAIN seq
      PROVE  \E m \in DOMAIN unique : unique[m] = seq[i]
  BY <1>3, <1>4
<1>7. ASSUME NEW k \in DOMAIN unique
      PROVE  \E i \in DOMAIN seq :
               /\ unique[k] = seq[i]
               /\ \A j \in 1 .. i - 1 : \E m \in 1 .. k - 1 : unique[m] = seq[j]
  <2>1. pos(k) \in DOMAIN seq /\ unique[k] = seq[pos(k)]
    BY <1>1, <1>4
  <2>2. ASSUME NEW j \in 1 .. pos(k) - 1
        PROVE  \E m \in 1 .. k - 1 : unique[m] = seq[j]
    <3>1. j \in DOMAIN seq /\ j < pos(k)
      BY <1>1, <2>1
    <3>2. PICK l \in firsts : l <= j /\ seq[l] = seq[j]
      BY <1>3, <3>1
    <3>3. l < pos(k) /\ l \in Nat /\ pos(k) \in Nat
      BY <1>1, <2>1, <3>1, <3>2
    <3>4. PICK m \in DOMAIN unique : pos(m) = l
      BY <1>4
    <3>5. k \in Nat /\ m \in Nat /\ 1 <= m
      BY <1>4, <1>5
    <3>6. m < k
      BY <1>4, <3>3, <3>4, <3>5
    <3>7. m \in 1 .. k - 1
      BY <3>5, <3>6
    <3> QED BY <1>4, <3>2, <3>4, <3>7
  <2> QED BY <2>1, <2>2
<1> QED BY <1>2, <1>4, <1>5, <1>6, <1>7

-----------------------------------------------------------------------------

\* What the provider at a place of the list answers.
Answer(k) == probe_and_extract(Providers[k])

\* None of the providers before place k has user data.
NoneBefore(k) == \A m \in 1 .. k - 1 : Answer(m) \notin Data

\* None of the providers has.
Exhausted == \A m \in 1 .. Len(Providers) : Answer(m) \notin Data

\* The provider at the current place is the first that has user data.
Winner == n <= Len(Providers) /\ NoneBefore(n) /\ Answer(n) \in Data

\* What each phase has found out: the inductive part of the two properties.
Found ==
  /\ result # "none" => pc = "done"
  /\ pc = "start" => n = 1
  /\ pc \in {"probe", "base", "raw", "named"} => scenario.providers # <<>>
  /\ pc = "probe" => NoneBefore(n)
  /\ pc \in {"base", "raw", "named"} => Winner /\ userdata = Answer(n)
  /\ pc = "named" => userdata \in Configs /\ files[<<Base, "userdata">>] = userdata
  /\ result = "ok" /\ scenario.providers # <<>> =>
       /\ Winner
       /\ files[<<Base, "userdata">>] = Answer(n)
       /\ Answer(n) \in Configs => files[<<Base, Named>>] = Answer(n)
  /\ result = "error" /\ scenario.faults = {} =>
       \/ Exhausted
       \/ scenario.path # "" /\ at \notin {"none", "dir"}

\* Whether a provider has user data, and what, does not change within a run.
LEMMA SameAnswers ==
  ASSUME UNCHANGED <<scenario, machine, at>>
  PROVE  /\ Providers' = Providers /\ Named' = Named
         /\ \A k : Answer(k)' = Answer(k)
         /\ \A k : NoneBefore(k)' <=> NoneBefore(k)
         /\ Exhausted' <=> Exhausted
         /\ UNCHANGED n => (Winner' <=> Winner) /\ Base' = Base
<1>1. Providers' = Providers /\ Named' = Named
  BY DEF Providers, Named
<1>2. \A k : Answer(k)' = Answer(k)
  BY <1>1 DEF Answer, probe_and_extract, simple_userdata_get, aws_provider, azure_provider,
              vmware_provider, FirstOf, file_provider, nocloud_provider
<1>3. \A k : NoneBefore(k)' <=> NoneBefore(k)
  BY <1>2 DEF NoneBefore
<1>4. UNCHANGED n => (Winner' <=> Winner) /\ Base' = Base
  BY <1>1, <1>2, <1>3 DEF Winner, Base, BasePath
<1>5. Exhausted' <=> Exhausted
  BY <1>1, <1>2 DEF Exhausted
<1> QED BY <1>1, <1>2, <1>3, <1>4, <1>5

\* Making the directory changes what the provider `file` reads, from nothing to
\* an error, and no user data.
LEMMA BaseAnswers ==
  ASSUME UNCHANGED <<scenario, machine, n>>, Winner,
         Base = "path", at \in {"none", "dir"}, at' = "dir"
  PROVE  Winner' /\ Answer(n)' = Answer(n) /\ Base' = Base
<1>1. Providers' = Providers
  BY DEF Providers
<1>2. "none" \notin Data /\ "error" \notin Data /\ "dir" \notin Data
  BY UserDataAssumption
<1>3. Read(at) \notin Data /\ Read(at') \notin Data
  BY <1>2 DEF Read
<1>4. \A k : \/ Answer(k)' = Answer(k)
             \/ Providers[k] = "file" /\ Answer(k) \notin Data /\ Answer(k)' \notin Data
  <2> SUFFICES ASSUME NEW k
               PROVE  \/ Answer(k)' = Answer(k)
                      \/ Providers[k] = "file" /\ Answer(k) \notin Data /\ Answer(k)' \notin Data
    OBVIOUS
  <2>1. CASE Providers[k] # "file"
    BY <1>1, <2>1 DEF Answer, probe_and_extract, simple_userdata_get, aws_provider,
                      azure_provider, vmware_provider, FirstOf, nocloud_provider
  <2>2. CASE Providers[k] = "file"
    <3>1. Answer(k) = file_provider /\ Answer(k)' = file_provider'
      BY <1>1, <2>2 DEF Answer, probe_and_extract
    <3>2. scenario.path # "" /\ scenario'.path # ""
      BY DEF Base, BasePath
    <3>3. file_provider = Read(at) /\ file_provider' = Read(at')
      BY <3>2 DEF file_provider
    <3> QED BY <1>3, <2>2, <3>1, <3>3
  <2> QED BY <2>1, <2>2
<1>5. Providers[n] # "file"
  BY DEF Base, BasePath
<1>6. Answer(n)' = Answer(n)
  BY <1>4, <1>5
<1>7. NoneBefore(n)'
  BY <1>4 DEF Winner, NoneBefore
<1> QED BY <1>1, <1>6, <1>7 DEF Winner, Base, BasePath

\* The invariant of both: types, and what each phase has found out.
Probing == TypeOK /\ Found

\* A step that keeps the answers and the output keeps what was found.
LEMMA StepFound ==
  ASSUME Probing, [Next]_vars
  PROVE  Found'
<1> USE DEF history, Probing
<1>1. Len(Providers) \in Nat
  BY ProvidersNumbered DEF TypeOK
<1>2. ASSUME NEW answer, Taken(answer), answer = Answer(n), pc = "probe", result = "none",
             n <= Len(Providers), UNCHANGED <<scenario, machine, at, result>>
      PROVE  Found'
  <2>1. CASE answer \in Data
    <3>1. pc' = "base" /\ userdata' = answer /\ UNCHANGED n
      BY <1>2, <2>1 DEF Taken
    <3>2. Winner' /\ Answer(n)' = Answer(n) /\ scenario.providers # <<>>
      BY <1>2, <2>1, <3>1, SameAnswers DEF Found, Winner
    <3> QED BY <1>2, <3>1, <3>2 DEF Found
  <2>2. CASE answer \notin Data
    <3>1. pc' = "probe" /\ n' = n + 1
      BY <1>2, <2>2 DEF Taken
    <3>2. NoneBefore(n + 1)
      BY <1>2, <2>2 DEF Found, NoneBefore, TypeOK
    <3>3. (NoneBefore(n))'
      BY <1>2, <3>1, <3>2, SameAnswers DEF NoneBefore
    <3> QED BY <1>2, <3>1, <3>3 DEF Found
  <2> QED BY <2>1, <2>2
<1>3. CASE Start
  <2>1. UNCHANGED <<scenario, machine, at, files, n>> /\ n = 1
    BY <1>3 DEF Start, Found
  <2>2. NoneBefore(n)'
    BY <2>1 DEF NoneBefore
  <2>3. \/ pc' = "probe" /\ result' = "none" /\ scenario.providers # <<>>
        \/ pc' = "done" /\ result' = "ok" /\ scenario.providers = <<>>
        \/ pc' = "done" /\ result' = "error" /\ scenario.faults # {}
    BY <1>3 DEF Start, Return, Found, mayFail
  <2> QED BY <2>1, <2>2, <2>3 DEF Found
<1>4. CASE Probe
  <2>1. /\ pc = "probe" /\ n <= Len(Providers) /\ Taken(Answer(n))
        /\ UNCHANGED <<scenario, machine, at, result>> /\ result = "none"
    BY <1>4 DEF Probe, Answer, Found
  <2> QED BY <1>2, <2>1
<1>5. CASE ProbeNocloud
  <2>1. /\ pc = "probe" /\ n <= Len(Providers) /\ result = "none"
        /\ UNCHANGED <<scenario, machine, at>>
    BY <1>5 DEF ProbeNocloud, Found
  <2>2. CASE Taken(nocloud_provider) /\ UNCHANGED result
    <3>1. Answer(n) = nocloud_provider
      BY <1>5 DEF ProbeNocloud, Answer, probe_and_extract
    <3> QED BY <1>2, <2>1, <2>2, <3>1
  <2>3. CASE Down
    BY <2>1, <2>3 DEF Down, Found
  <2> QED BY <1>5, <2>2, <2>3 DEF ProbeNocloud
<1>6. CASE GiveUp
  <2>1. pc = "probe" /\ n > Len(Providers) /\ pc' = "done" /\ result' = "error"
        /\ UNCHANGED <<scenario, machine, at>>
    BY <1>6 DEF GiveUp, Return
  <2>2. Exhausted
    <3>1. NoneBefore(n)
      BY <2>1 DEF Found
    <3>2. n \in Nat
      BY <1>1 DEF TypeOK
    <3>3. 1 .. Len(Providers) \subseteq 1 .. n - 1
      BY <1>1, <2>1, <3>2
    <3> QED BY <3>1, <3>3 DEF NoneBefore, Exhausted
  <2>3. Exhausted'
    BY <2>1, <2>2, SameAnswers
  <2> QED BY <2>1, <2>3 DEF Found
<1>7. CASE MakeBase
  <2>1. /\ pc = "base" /\ result = "none" /\ UNCHANGED <<scenario, machine, files, n, userdata>>
        /\ Winner /\ userdata = Answer(n) /\ scenario.providers # <<>>
    BY <1>7 DEF MakeBase, Found
  <2>2. CASE pc' = "raw" /\ UNCHANGED result /\ Base = "path" /\ at \in {"none", "dir"} /\ at' = "dir"
    <3>1. Winner' /\ Answer(n)' = Answer(n)
      BY <2>1, <2>2, BaseAnswers
    <3> QED BY <2>1, <2>2, <3>1 DEF Found
  <2>3. CASE pc' = "raw" /\ UNCHANGED <<result, at>>
    <3>1. Winner' /\ Answer(n)' = Answer(n)
      BY <2>1, <2>3, SameAnswers
    <3> QED BY <2>1, <2>3, <3>1 DEF Found
  <2>4. CASE /\ (Base = "path" /\ at \notin {"none", "dir"}) \/ mayFail("mkdir")
             /\ pc' = "done" /\ result' = "error" /\ UNCHANGED at
    <3>1. Base = "path" => scenario.path # ""
      BY DEF Base, BasePath
    <3> QED BY <2>1, <2>4, <3>1 DEF Found, mayFail
  <2> QED BY <1>7, <2>2, <2>3, <2>4 DEF MakeBase, Return
<1>8. CASE WriteRaw \/ WriteNamed
  <2>1. /\ pc \in {"raw", "named"} /\ result = "none"
        /\ UNCHANGED <<scenario, machine, at, n, userdata>>
        /\ Winner /\ userdata = Answer(n) /\ scenario.providers # <<>>
    BY <1>8 DEF WriteRaw, WriteNamed, Found
  <2>2. Winner' /\ Answer(n)' = Answer(n) /\ Base' = Base /\ Named' = Named
    BY <2>1, SameAnswers
  <2>3. Base \in Bases /\ "userdata" \in FileNames /\ Named \in FileNames
    <3>1. Named \in FileNames
      BY UserDataAssumption DEF TypeOK, Named, Default, FileNames
    <3> QED BY <3>1 DEF Base, BasePath, Bases, FileNames
  <2>4. CASE pc' = "done" /\ result' = "error" /\ scenario.faults # {}
    BY <2>1, <2>4 DEF Found
  <2>5. CASE pc' = "down" /\ UNCHANGED result
    BY <2>1, <2>5 DEF Found
  <2>6. CASE WriteRaw /\ files' = [files EXCEPT ![<<Base, "userdata">>] = userdata]
             /\ IF userdata \in Configs THEN pc' = "named" /\ UNCHANGED result
                ELSE pc' = "done" /\ result' = "ok"
    <3>1. files'[<<Base, "userdata">>] = userdata
      BY <2>3, <2>6 DEF TypeOK
    <3> QED BY <2>1, <2>2, <2>6, <3>1 DEF Found
  <2>7. CASE WriteNamed /\ files' = [files EXCEPT ![<<Base, Named>>] = userdata]
             /\ pc' = "done" /\ result' = "ok"
    <3>1. files[<<Base, "userdata">>] = userdata
      BY <2>7 DEF WriteNamed, Found
    <3>2. files'[<<Base, "userdata">>] = userdata /\ files'[<<Base, Named>>] = userdata
      BY <2>3, <2>7, <3>1 DEF TypeOK
    <3> QED BY <2>1, <2>2, <2>7, <3>2 DEF Found
  <2> QED BY <1>8, <2>4, <2>5, <2>6, <2>7 DEF WriteRaw, WriteNamed, Write, Return, Down, mayFail
<1>9. CASE Crash
  BY <1>9 DEF Crash, Down, Found
<1>10. CASE RunAgain
  BY <1>10 DEF RunAgain, Found
<1>11. CASE UNCHANGED vars
  <2>1. UNCHANGED <<scenario, machine, at, files, pc, n, userdata, result>>
    BY <1>11 DEF vars
  <2>2. /\ Providers' = Providers /\ Named' = Named /\ Base' = Base /\ (Winner' <=> Winner)
        /\ Answer(n)' = Answer(n) /\ (NoneBefore(n)' <=> NoneBefore(n))
    BY <2>1, SameAnswers DEF Answer, NoneBefore
  <2>3. Exhausted' <=> Exhausted
    BY <2>1, SameAnswers
  <2> QED BY <2>1, <2>2, <2>3 DEF Found
<1> QED BY <1>3, <1>4, <1>5, <1>6, <1>7, <1>8, <1>9, <1>10, <1>11 DEF Next

\* At first no provider has been asked.
LEMMA InitProbing == Init => Probing
<1> SUFFICES ASSUME Init PROVE Probing
  OBVIOUS
<1>1. TypeOK
  BY InitType
<1> QED BY <1>1 DEF Probing, Init, Found

\* Every step keeps what probing means.
LEMMA StepProbing == Probing /\ [Next]_vars => Probing'
BY StepType, StepFound DEF Probing

\* The first provider with user data is the one whose data is the output.
LEMMA WinnerIsFirst ==
  ASSUME Probing, Winner, n \in Nat \ {0}
  PROVE  \E i \in DOMAIN scenario.providers :
           /\ Providers[n] = scenario.providers[i]
           /\ probe_and_extract(scenario.providers[i]) \in Data
           /\ \A j \in 1 .. i - 1 : probe_and_extract(scenario.providers[j]) \notin Data
<1>1. scenario.providers \in Seq(STRING)
  BY UserDataAssumption DEF Probing, TypeOK
<1>2. /\ Len(Providers) \in Nat /\ DOMAIN Providers = 1 .. Len(Providers)
      /\ \A k \in DOMAIN Providers : \E i \in DOMAIN scenario.providers :
           /\ Providers[k] = scenario.providers[i]
           /\ \A j \in 1 .. i - 1 : \E m \in 1 .. k - 1 : Providers[m] = scenario.providers[j]
  BY <1>1, UniqueOrder DEF Providers
<1>3. n \in DOMAIN Providers
  BY <1>2 DEF Winner
<1>4. PICK i \in DOMAIN scenario.providers :
        /\ Providers[n] = scenario.providers[i]
        /\ \A j \in 1 .. i - 1 : \E m \in 1 .. n - 1 : Providers[m] = scenario.providers[j]
  BY <1>2, <1>3
<1>5. \A j \in 1 .. i - 1 : probe_and_extract(scenario.providers[j]) \notin Data
  <2> SUFFICES ASSUME NEW j \in 1 .. i - 1
               PROVE  probe_and_extract(scenario.providers[j]) \notin Data
    OBVIOUS
  <2>1. PICK m \in 1 .. n - 1 : Providers[m] = scenario.providers[j]
    BY <1>4
  <2>2. Answer(m) \notin Data
    BY DEF Winner, NoneBefore
  <2> QED BY <2>1, <2>2 DEF Answer
<1>6. probe_and_extract(scenario.providers[i]) \in Data
  BY <1>4 DEF Winner, Answer
<1> QED BY <1>4, <1>5, <1>6

\* Whatever the others answer, and whatever earlier runs have left, the output
\* of a run that returns Ok is what the first provider has that has any.
THEOREM FirstAnswerTaken == Spec => []FirstAnswerWins
<1>1. Probing => FirstAnswerWins
  <2> SUFFICES ASSUME Probing, result = "ok", scenario.providers # <<>>
               PROVE  FirstAnswerWins
    BY DEF FirstAnswerWins
  <2> DEFINE answers == [i \in DOMAIN scenario.providers |->
                           probe_and_extract(scenario.providers[i])]
             winners == {i \in DOMAIN answers : answers[i] \in Data}
             winner == Min(winners)
             base == IF scenario.path \in {"", scenario.providers[winner]}
                        \/ scenario.providers[winner] = "file" THEN "run" ELSE "path"
  <2>1. /\ Winner /\ files[<<Base, "userdata">>] = Answer(n)
        /\ Answer(n) \in Configs => files[<<Base, Named>>] = Answer(n)
    BY DEF Probing, Found
  <2>2. n \in Nat \ {0}
    BY ProvidersNumbered DEF Probing, TypeOK
  <2>3. PICK i \in DOMAIN scenario.providers :
          /\ Providers[n] = scenario.providers[i]
          /\ probe_and_extract(scenario.providers[i]) \in Data
          /\ \A j \in 1 .. i - 1 : probe_and_extract(scenario.providers[j]) \notin Data
    BY <2>1, <2>2, WinnerIsFirst
  <2>4. DOMAIN scenario.providers = 1 .. Len(scenario.providers)
        /\ Len(scenario.providers) \in Nat
    <3>1. scenario.providers \in Seq(STRING)
      BY UserDataAssumption DEF Probing, TypeOK
    <3> QED BY <3>1
  <2>5. i \in winners /\ \A j \in winners : i <= j
    BY <2>3, <2>4
  <2>6. winner = i
    <3>1. \A j \in winners : j \in Nat
      BY <2>4
    <3> HIDE DEF winners
    <3> QED BY <2>5, <3>1 DEF Min
  <2>7. answers[winner] = Answer(n) /\ scenario.providers[winner] = Providers[n]
    BY <2>3, <2>6 DEF Answer
  <2>8. base = Base
    BY <2>7 DEF Base, BasePath
  <2>9. Named \in CopyNames
    BY DEF Named, CopyNames, Default, FileNames
  <2>10. /\ winners # {} /\ files[<<base, "userdata">>] = answers[winner]
         /\ answers[winner] \in Configs => Copied(base, answers[winner])
    BY <2>1, <2>5, <2>7, <2>8, <2>9 DEF Copied
  <2> QED BY <2>10 DEF FirstAnswerWins
<1> QED BY InitProbing, StepProbing, <1>1, PTL DEF Spec

\* One provider with user data is enough for a run without faults.
THEOREM AnyAnswerTaken == Spec => []AnyAnswerSuffices
<1>1. Probing => AnyAnswerSuffices
  <2> SUFFICES ASSUME Probing, result = "error", scenario.faults = {},
                      ~ (scenario.path # "" /\ at \notin {"none", "dir"}),
                      NEW i \in DOMAIN scenario.providers
               PROVE  probe_and_extract(scenario.providers[i]) \notin Data
    BY DEF AnyAnswerSuffices
  <2>1. Exhausted
    BY DEF Probing, Found
  <2>2. scenario.providers \in Seq(STRING)
    BY UserDataAssumption DEF Probing, TypeOK
  <2>3. PICK m \in DOMAIN Providers : Providers[m] = scenario.providers[i]
    BY <2>2, UniqueOrder DEF Providers
  <2>4. DOMAIN Providers = 1 .. Len(Providers) /\ Len(Providers) \in Nat
    BY <2>2, UniqueOrder DEF Providers
  <2>5. Answer(m) \notin Data
    BY <2>1, <2>3, <2>4 DEF Exhausted
  <2> QED BY <2>3, <2>5 DEF Answer
<1> QED BY InitProbing, StepProbing, <1>1, PTL DEF Spec

-----------------------------------------------------------------------------
(* Template.                                                                *)

\* Two sequences of tags that open, close and part blocks at the same places.
Alike(s, t, end) ==
  \A k \in 1 .. end :
    /\ s[k].kind \in Opens <=> t[k].kind \in Opens
    /\ s[k].kind \in Closes <=> t[k].kind \in Closes
    /\ s[k].kind = "range" <=> t[k].kind = "range"
    /\ s[k].kind = "else" <=> t[k].kind = "else"

\* How many blocks there are open after `end` tags, of those from b on.
Depth(tags, b, end) == Count(tags, Opens, b, end) - Count(tags, Closes, b, end)

\* The blocks open after `end` tags, the innermost last.
Nested(tags, end, pos) ==
  /\ pos \in Seq(1 .. end)
  /\ OpenAt(tags, end + 1) = Range(pos)
  /\ \A a, c \in DOMAIN pos : a < c => pos[a] < pos[c]
  /\ \A a \in DOMAIN pos : Depth(tags, pos[a], end) = Len(pos) - a + 1

\* A count is a number, of one tag it is 0 or 1, and it grows by the next one.
LEMMA CountIs ==
  ASSUME NEW tags, NEW kinds, NEW i \in Nat, NEW j \in Nat
  PROVE  Count(tags, kinds, i, j) \in Nat
<1>1. IsFiniteSet(i .. j)
  BY FS_Interval
<1>2. IsFiniteSet({k \in i .. j : tags[k].kind \in kinds})
  BY <1>1, FS_Subset
<1> QED BY <1>2, FS_CardinalityType DEF Count

LEMMA CountNext ==
  ASSUME NEW tags, NEW kinds, NEW i \in Nat, NEW j \in Nat, i <= j + 1
  PROVE  Count(tags, kinds, i, j + 1)
           = Count(tags, kinds, i, j) + (IF tags[j + 1].kind \in kinds THEN 1 ELSE 0)
<1> DEFINE S == {k \in i .. j : tags[k].kind \in kinds}
           T == {k \in i .. j + 1 : tags[k].kind \in kinds}
<1>1. IsFiniteSet(S)
  BY FS_Interval, FS_Subset, IsFiniteSet(i .. j)
<1>2. j + 1 \notin S
  OBVIOUS
<1>3. CASE tags[j + 1].kind \in kinds
  <2>1. T = S \cup {j + 1}
    BY <1>3
  <2>2. Cardinality(T) = Cardinality(S) + 1
    BY <2>1, <1>1, <1>2, FS_AddElement
  <2> QED BY <2>2, <1>3 DEF Count
<1>4. CASE tags[j + 1].kind \notin kinds
  <2>1. \A k \in i .. j + 1 : k \in i .. j \/ k = j + 1
    OBVIOUS
  <2>2. T = S
    BY <2>1, <1>4
  <2>3. Cardinality(S) \in Nat
    BY <1>1, FS_CardinalityType
  <2> HIDE DEF S, T
  <2>4. Cardinality(T) = Cardinality(S) + 0
    BY <2>2, <2>3
  <2> QED BY <2>4, <1>4 DEF Count, S, T
<1> QED BY <1>3, <1>4

LEMMA CountNone ==
  ASSUME NEW tags, NEW kinds, NEW i \in Nat
  PROVE  Count(tags, kinds, i + 1, i) = 0
<1>1. {k \in i + 1 .. i : tags[k].kind \in kinds} = {}
  OBVIOUS
<1> QED BY <1>1, FS_EmptySet DEF Count

LEMMA CountSame ==
  ASSUME NEW s, NEW t, NEW end \in Nat, Alike(s, t, end), NEW i \in Nat \ {0}, NEW j \in 0 .. end
  PROVE  /\ Count(s, Opens, i, j) = Count(t, Opens, i, j)
         /\ Count(s, Closes, i, j) = Count(t, Closes, i, j)
<1>1. \A k \in i .. j : k \in 1 .. end
  OBVIOUS
<1>2. {k \in i .. j : s[k].kind \in Opens} = {k \in i .. j : t[k].kind \in Opens}
  BY <1>1 DEF Alike
<1>3. {k \in i .. j : s[k].kind \in Closes} = {k \in i .. j : t[k].kind \in Closes}
  BY <1>1 DEF Alike
<1> QED BY <1>2, <1>3 DEF Count

\* Sequences that are alike have the same blocks, and the same loops around a tag.
LEMMA AlikeOpen ==
  ASSUME NEW s, NEW t, NEW end \in Nat, Alike(s, t, end), NEW i \in 1 .. end + 1
  PROVE  OpenAt(s, i) = OpenAt(t, i)
<1>1. ASSUME NEW b \in 1 .. i - 1, NEW j \in b .. i - 1
      PROVE  /\ Count(s, Opens, b, j) = Count(t, Opens, b, j)
             /\ Count(s, Closes, b, j) = Count(t, Closes, b, j)
  <2>1. b \in Nat \ {0} /\ j \in 0 .. end
    OBVIOUS
  <2> QED BY <2>1, CountSame
<1>2. \A b \in 1 .. i - 1 : s[b].kind \in Opens <=> t[b].kind \in Opens
  BY DEF Alike
<1> QED BY <1>1, <1>2 DEF OpenAt

LEMMA AlikeLoops ==
  ASSUME NEW s, NEW t, NEW end \in Nat, Alike(s, t, end), NEW i \in 1 .. end + 1
  PROVE  LoopsAt(s, i) = LoopsAt(t, i)
<1>1. OpenAt(s, i) = OpenAt(t, i) /\ OpenAt(t, i) \subseteq 1 .. i - 1
  BY AlikeOpen DEF OpenAt
<1>2. ASSUME NEW b \in 1 .. i - 1
      PROVE  s[b].kind = "range" <=> t[b].kind = "range"
  BY <1>2 DEF Alike
<1>3. ASSUME NEW b \in 1 .. i - 1, NEW e \in b + 1 .. i - 1
      PROVE  /\ s[e].kind = "else" <=> t[e].kind = "else"
             /\ Owner(s, e) = Owner(t, e)
  <2>1. e \in 1 .. end /\ e \in 1 .. end + 1
    OBVIOUS
  <2>2. s[e].kind = "else" <=> t[e].kind = "else"
    BY <2>1 DEF Alike
  <2>3. OpenAt(s, e) = OpenAt(t, e)
    BY <2>1, AlikeOpen
  <2>4. Owner(s, e) = Owner(t, e)
    BY <2>3 DEF Owner
  <2> QED BY <2>2, <2>4
<1> QED BY <1>1, <1>2, <1>3 DEF LoopsAt

\* What is open at the next tag was open before, or is this tag.
LEMMA OpenStep ==
  ASSUME NEW tags, NEW end \in Nat
  PROVE  /\ OpenAt(tags, end + 1) \subseteq 1 .. end
         /\ OpenAt(tags, end + 2) \subseteq OpenAt(tags, end + 1) \cup {end + 1}
         /\ end + 1 \in OpenAt(tags, end + 2) <=> tags[end + 1].kind \in Opens
         /\ \A b \in OpenAt(tags, end + 1) :
              b \in OpenAt(tags, end + 2) <=> Depth(tags, b, end + 1) > 0
<1>0. end + 1 - 1 = end /\ end + 2 - 1 = end + 1
  OBVIOUS
<1>1. OpenAt(tags, end + 1) \subseteq 1 .. end
  BY <1>0 DEF OpenAt
<1>2. ASSUME NEW b \in OpenAt(tags, end + 2), b # end + 1
      PROVE  b \in OpenAt(tags, end + 1)
  <2>1. b \in 1 .. end /\ \A j \in b .. end : j \in b .. end + 1
    BY <1>2, <1>0 DEF OpenAt
  <2> QED BY <2>1, <1>0 DEF OpenAt
<1>3. end + 1 \in OpenAt(tags, end + 2) <=> tags[end + 1].kind \in Opens
  <2>1. \A kinds : Count(tags, kinds, end + 1, end + 1)
                     = 0 + (IF tags[end + 1].kind \in kinds THEN 1 ELSE 0)
    BY CountNext, CountNone
  <2>2. Opens \cap Closes = {}
    BY DEF Opens, Closes
  <2>3. tags[end + 1].kind \in Opens =>
          Count(tags, Closes, end + 1, end + 1) < Count(tags, Opens, end + 1, end + 1)
    BY <2>1, <2>2
  <2>4. \A j \in end + 1 .. end + 1 : j = end + 1
    OBVIOUS
  <2>5. end + 1 \in 1 .. end + 1
    OBVIOUS
  <2> QED BY <2>3, <2>4, <2>5, <1>0 DEF OpenAt
<1>4. ASSUME NEW b \in OpenAt(tags, end + 1)
      PROVE  b \in OpenAt(tags, end + 2) <=> Depth(tags, b, end + 1) > 0
  <2>1. b \in 1 .. end /\ b \in 1 .. end + 1 /\ b \in Nat
    BY <1>1
  <2>2. \A j \in b .. end + 1 : j \in b .. end \/ j = end + 1
    BY <2>1
  <2>3. end + 1 \in b .. end + 1
    BY <2>1
  <2>4. Count(tags, Opens, b, end + 1) \in Nat /\ Count(tags, Closes, b, end + 1) \in Nat
    BY <2>1, CountIs
  <2>5. Depth(tags, b, end + 1) > 0 <=>
          Count(tags, Closes, b, end + 1) < Count(tags, Opens, b, end + 1)
    BY <2>4 DEF Depth
  <2> QED BY <2>1, <2>2, <2>3, <2>5, <1>0 DEF OpenAt
<1> QED BY <1>1, <1>2, <1>3, <1>4

LEMMA DepthStep ==
  ASSUME NEW tags, NEW end \in Nat, NEW b \in 1 .. end + 1
  PROVE  /\ Depth(tags, b, end) \in Int
         /\ tags[end + 1].kind \in Opens => Depth(tags, b, end + 1) = Depth(tags, b, end) + 1
         /\ tags[end + 1].kind \in Closes => Depth(tags, b, end + 1) = Depth(tags, b, end) - 1
         /\ tags[end + 1].kind \notin Opens \cup Closes =>
              Depth(tags, b, end + 1) = Depth(tags, b, end)
         /\ b = end + 1 => Depth(tags, b, end) = 0
<1>1. Count(tags, Opens, b, end) \in Nat /\ Count(tags, Closes, b, end) \in Nat
  BY CountIs
<1>2. \A kinds : Count(tags, kinds, b, end + 1)
                   = Count(tags, kinds, b, end) + (IF tags[end + 1].kind \in kinds THEN 1 ELSE 0)
  BY CountNext
<1>3. Opens \cap Closes = {}
  BY DEF Opens, Closes
<1>4. b = end + 1 => Count(tags, Opens, b, end) = 0 /\ Count(tags, Closes, b, end) = 0
  BY CountNone
<1> QED BY <1>1, <1>2, <1>3, <1>4 DEF Depth

\* What is on a stack after a push and after a pop.
LEMMA PushedIs ==
  ASSUME NEW S, NEW t \in Seq(S), NEW e
  PROVE  /\ Len(Append(t, e)) = Len(t) + 1 /\ DOMAIN Append(t, e) = 1 .. Len(t) + 1
         /\ \A k \in 1 .. Len(t) : Append(t, e)[k] = t[k]
         /\ Append(t, e)[Len(t) + 1] = e
OBVIOUS

LEMMA PoppedIs ==
  ASSUME NEW S, NEW t \in Seq(S), t # <<>>
  PROVE  /\ Front(t) \in Seq(S) /\ Len(Front(t)) = Len(t) - 1
         /\ DOMAIN Front(t) = 1 .. Len(t) - 1
         /\ \A k \in 1 .. Len(t) - 1 : Front(t)[k] = t[k]
<1> DEFINE m == Len(t) - 1
<1>1. m \in 0 .. Len(t)
  OBVIOUS
<1> HIDE DEF m
<1>2. /\ SubSeq(t, 1, m) \in Seq(S) /\ Len(SubSeq(t, 1, m)) = m
      /\ DOMAIN SubSeq(t, 1, m) = 1 .. m
      /\ \A k \in 1 .. m : SubSeq(t, 1, m)[k] = t[k]
  BY <1>1
<1> QED BY <1>2 DEF Front, m

\* Nesting is a matter of what opens and closes blocks.
LEMMA NestedSame ==
  ASSUME NEW s, NEW t, NEW end \in Nat, Alike(s, t, end), NEW pos, Nested(s, end, pos)
  PROVE  Nested(t, end, pos)
<1>1. OpenAt(s, end + 1) = OpenAt(t, end + 1)
  BY AlikeOpen
<1>2. ASSUME NEW a \in DOMAIN pos
      PROVE  Depth(s, pos[a], end) = Depth(t, pos[a], end)
  <2>1. pos[a] \in Nat \ {0} /\ end \in 0 .. end
    BY DEF Nested
  <2> QED BY <2>1, CountSame DEF Depth
<1> QED BY <1>1, <1>2 DEF Nested

\* A tag that opens a block adds it as the innermost, one that closes a block
\* ends the innermost, any other leaves all as they are.
LEMMA NestedOpen ==
  ASSUME NEW tags, NEW end \in Nat, NEW pos, Nested(tags, end, pos),
         tags[end + 1].kind \in Opens
  PROVE  Nested(tags, end + 1, Append(pos, end + 1))
<1> DEFINE new == Append(pos, end + 1)
<1>0. pos \in Seq(1 .. end) /\ Range(pos) = OpenAt(tags, end + 1)
  BY DEF Nested
<1>1. pos \in Seq(1 .. end + 1)
  <2>1. \A a \in DOMAIN pos : pos[a] \in 1 .. end + 1
    BY <1>0
  <2> QED BY <1>0, <2>1
<1>2. /\ new \in Seq(1 .. end + 1) /\ Len(new) = Len(pos) + 1
      /\ DOMAIN new = DOMAIN pos \cup {Len(pos) + 1}
      /\ \A a \in DOMAIN pos : new[a] = pos[a] /\ a <= Len(pos) /\ a \in Nat
      /\ new[Len(pos) + 1] = end + 1
  BY <1>0, <1>1
<1>3. ASSUME NEW a \in DOMAIN pos
      PROVE  /\ Depth(tags, pos[a], end + 1) = Len(pos) - a + 2
             /\ pos[a] \in OpenAt(tags, end + 2) /\ pos[a] <= end
  <2>1. pos[a] \in 1 .. end /\ pos[a] \in 1 .. end + 1 /\ pos[a] \in OpenAt(tags, end + 1)
    BY <1>0 DEF Range
  <2>2. Depth(tags, pos[a], end + 1) = Depth(tags, pos[a], end) + 1
    BY <2>1, DepthStep
  <2>3. Depth(tags, pos[a], end) = Len(pos) - a + 1
    BY DEF Nested
  <2>4. Depth(tags, pos[a], end + 1) = Len(pos) - a + 2
    BY <2>2, <2>3, <1>2
  <2>5. Depth(tags, pos[a], end + 1) > 0
    BY <2>4, <1>2
  <2>6. pos[a] \in OpenAt(tags, end + 2)
    BY <2>1, <2>5, OpenStep
  <2> QED BY <2>1, <2>4, <2>6
<1>4. Depth(tags, end + 1, end + 1) = 1
  BY DepthStep, end + 1 \in 1 .. end + 1
<1>5. OpenAt(tags, end + 2) = Range(new)
  <2>1. Range(new) = Range(pos) \cup {end + 1}
    BY <1>2 DEF Range
  <2>2. Range(pos) \subseteq OpenAt(tags, end + 2)
    BY <1>3 DEF Range
  <2> QED BY <2>1, <2>2, <1>0, OpenStep
<1>6. ASSUME NEW a \in DOMAIN new, NEW c \in DOMAIN new, a < c
      PROVE  new[a] < new[c]
  <2>1. a \in DOMAIN pos
    BY <1>6, <1>2
  <2>2. CASE c \in DOMAIN pos
    BY <2>1, <2>2, <1>2, <1>6 DEF Nested
  <2>3. CASE c = Len(pos) + 1
    BY <2>1, <2>3, <1>2, <1>3, <1>0
  <2> QED BY <2>2, <2>3, <1>2
<1>7. ASSUME NEW a \in DOMAIN new
      PROVE  Depth(tags, new[a], end + 1) = Len(new) - a + 1
  <2>1. CASE a \in DOMAIN pos
    BY <2>1, <1>2, <1>3
  <2>2. CASE a = Len(pos) + 1
    BY <2>2, <1>2, <1>4
  <2> QED BY <2>1, <2>2, <1>2
<1>8. end + 1 + 1 = end + 2
  OBVIOUS
<1> HIDE DEF new
<1> QED BY <1>2, <1>5, <1>6, <1>7, <1>8 DEF Nested, new

LEMMA NestedClose ==
  ASSUME NEW tags, NEW end \in Nat, NEW pos, Nested(tags, end, pos),
         tags[end + 1].kind \in Closes, pos # <<>>
  PROVE  Nested(tags, end + 1, Front(pos))
<1> DEFINE new == Front(pos)
<1>0. pos \in Seq(1 .. end) /\ Range(pos) = OpenAt(tags, end + 1) /\ Len(pos) \in Nat \ {0}
  BY DEF Nested
<1>1. pos \in Seq(1 .. end + 1)
  <2>1. \A a \in DOMAIN pos : pos[a] \in 1 .. end + 1
    BY <1>0
  <2> QED BY <1>0, <2>1
<1>2. /\ new \in Seq(1 .. end + 1) /\ Len(new) = Len(pos) - 1
      /\ DOMAIN new = 1 .. Len(pos) - 1
      /\ DOMAIN pos = 1 .. Len(pos)
      /\ \A a \in 1 .. Len(pos) - 1 : new[a] = pos[a]
  <2> HIDE DEF new
  <2>1. /\ new \in Seq(1 .. end + 1) /\ Len(new) = Len(pos) - 1
        /\ DOMAIN new = 1 .. Len(pos) - 1
        /\ \A a \in 1 .. Len(pos) - 1 : new[a] = pos[a]
    BY <1>1, PoppedIs DEF new
  <2> QED BY <2>1, <1>0
<1>9. ASSUME NEW a \in DOMAIN new
      PROVE  a \in DOMAIN pos /\ new[a] = pos[a] /\ a < Len(pos) /\ a \in Nat
  <2>1. a \in 1 .. Len(pos) - 1
    BY <1>2
  <2> HIDE DEF new
  <2> QED BY <2>1, <1>2, <1>0
<1>3. ASSUME NEW a \in DOMAIN pos
      PROVE  /\ Depth(tags, pos[a], end + 1) = Len(pos) - a
             /\ pos[a] \in OpenAt(tags, end + 2) <=> a < Len(pos)
  <2>1. pos[a] \in 1 .. end + 1 /\ pos[a] \in OpenAt(tags, end + 1)
    BY <1>0 DEF Range
  <2>2. Depth(tags, pos[a], end + 1) = Depth(tags, pos[a], end) - 1
    BY <2>1, DepthStep
  <2>3. Depth(tags, pos[a], end) = Len(pos) - a + 1
    BY DEF Nested
  <2>4. Depth(tags, pos[a], end + 1) = Len(pos) - a
    BY <2>2, <2>3, <1>2, <1>0
  <2>5. Depth(tags, pos[a], end + 1) > 0 <=> a < Len(pos)
    BY <2>4, <1>2, <1>0
  <2> QED BY <2>1, <2>4, <2>5, OpenStep
<1>4. tags[end + 1].kind \notin Opens
  BY DEF Opens, Closes
<1>5. OpenAt(tags, end + 2) = Range(new)
  <2>1. OpenAt(tags, end + 2) \subseteq Range(pos)
    BY <1>4, <1>0, OpenStep
  <2>2. ASSUME NEW b \in OpenAt(tags, end + 2) PROVE b \in Range(new)
    <3>1. PICK a \in DOMAIN pos : b = pos[a]
      BY <2>1 DEF Range
    <3>2. a \in 1 .. Len(pos) - 1
      BY <3>1, <1>3, <1>2, <1>0
    <3> QED BY <3>1, <3>2, <1>2 DEF Range
  <2>3. ASSUME NEW a \in DOMAIN new PROVE new[a] \in OpenAt(tags, end + 2)
    <3> HIDE DEF new
    <3> QED BY <1>9, <1>3
  <2> QED BY <2>2, <2>3 DEF Range
<1>6. \A a, c \in DOMAIN new : a < c => new[a] < new[c]
  <2>1. \A a, c \in DOMAIN pos : a < c => pos[a] < pos[c]
    BY DEF Nested
  <2> HIDE DEF new
  <2> QED BY <2>1, <1>9
<1>7. \A a \in DOMAIN new : Depth(tags, new[a], end + 1) = Len(new) - a + 1
  <2> HIDE DEF new
  <2> QED BY <1>2, <1>3, <1>9, <1>0
<1>8. end + 1 + 1 = end + 2
  OBVIOUS
<1> HIDE DEF new
<1> QED BY <1>2, <1>5, <1>6, <1>7, <1>8 DEF Nested, new

LEMMA NestedOther ==
  ASSUME NEW tags, NEW end \in Nat, NEW pos, Nested(tags, end, pos),
         tags[end + 1].kind \notin Opens \cup Closes
  PROVE  Nested(tags, end + 1, pos)
<1>0. pos \in Seq(1 .. end) /\ Range(pos) = OpenAt(tags, end + 1)
  BY DEF Nested
<1>1. pos \in Seq(1 .. end + 1)
  <2>1. \A a \in DOMAIN pos : pos[a] \in 1 .. end + 1
    BY <1>0
  <2> QED BY <1>0, <2>1
<1>2. ASSUME NEW a \in DOMAIN pos
      PROVE  /\ Depth(tags, pos[a], end + 1) = Len(pos) - a + 1
             /\ pos[a] \in OpenAt(tags, end + 2)
  <2>1. pos[a] \in 1 .. end + 1 /\ pos[a] \in OpenAt(tags, end + 1)
    BY <1>0 DEF Range
  <2>2. Depth(tags, pos[a], end + 1) = Depth(tags, pos[a], end)
    BY <2>1, DepthStep
  <2>3. Depth(tags, pos[a], end) = Len(pos) - a + 1
    BY DEF Nested
  <2>4. Depth(tags, pos[a], end + 1) > 0
    BY <2>2, <2>3, <1>0
  <2> QED BY <2>1, <2>2, <2>3, <2>4, OpenStep
<1>3. OpenAt(tags, end + 2) = Range(pos)
  <2>1. OpenAt(tags, end + 2) \subseteq Range(pos)
    BY <1>0, OpenStep
  <2>2. Range(pos) \subseteq OpenAt(tags, end + 2)
    BY <1>2 DEF Range
  <2> QED BY <2>1, <2>2
<1>4. end + 1 + 1 = end + 2
  OBVIOUS
<1> QED BY <1>1, <1>2, <1>3, <1>4 DEF Nested

\* The block opened last is the last of them.
LEMMA Innermost ==
  ASSUME NEW tags, NEW end \in Nat, NEW pos, Nested(tags, end, pos)
  PROVE  /\ OpenAt(tags, end + 1) = {} <=> pos = <<>>
         /\ pos # <<>> => /\ Len(pos) \in DOMAIN pos
                          /\ Max(OpenAt(tags, end + 1)) = pos[Len(pos)]
<1>0. /\ pos \in Seq(1 .. end) /\ Range(pos) = OpenAt(tags, end + 1)
      /\ DOMAIN pos = 1 .. Len(pos) /\ Len(pos) \in Nat
  BY DEF Nested
<1>1. OpenAt(tags, end + 1) = {} <=> pos = <<>>
  <2>1. pos # <<>> => 1 \in DOMAIN pos
    BY <1>0
  <2>2. pos = <<>> => DOMAIN pos = {}
    OBVIOUS
  <2> QED BY <2>1, <2>2, <1>0 DEF Range
<1>2. ASSUME pos # <<>>
      PROVE  Len(pos) \in DOMAIN pos /\ Max(OpenAt(tags, end + 1)) = pos[Len(pos)]
  <2>1. Len(pos) \in DOMAIN pos
    BY <1>0, <1>2
  <2>2. ASSUME NEW a \in DOMAIN pos
        PROVE  pos[a] <= pos[Len(pos)] /\ pos[a] \in Nat
    <3>1. pos[a] \in Nat /\ pos[Len(pos)] \in Nat
      BY <1>0, <2>1
    <3>2. a < Len(pos) => pos[a] < pos[Len(pos)]
      BY <2>1 DEF Nested
    <3>3. a < Len(pos) \/ a = Len(pos)
      BY <1>0
    <3> QED BY <3>1, <3>2, <3>3
  <2>3. \A x \in Range(pos) : x \in Nat /\ pos[Len(pos)] >= x
    BY <2>2 DEF Range
  <2>4. pos[Len(pos)] \in Range(pos)
    BY <2>1 DEF Range
  <2>5. \A x \in Range(pos) : (\A y \in Range(pos) : x >= y) => x = pos[Len(pos)]
    BY <2>3, <2>4
  <2> QED BY <2>1, <2>3, <2>4, <2>5, <1>0 DEF Max
<1> QED BY <1>1, <1>2

\* A name, and a tag of tera's.
Word == STRING \cup {"__root__", "if"}

TeraTag == [kind : Kinds \cup {"endif", "endfor", "raw"}, names : Seq(Word),
            var : {""} \cup Range(Loops)]

TemplateTypes ==
  /\ template \in Seq(Tags) /\ Len(template) <= TagLimit
  /\ tera \in [out : Seq(TeraTag), stack : Seq({"if"} \cup Range(Loops)), counter : Nat]
  /\ Len(tera.out) = Len(template) /\ tera.counter <= Len(template)

\* What preprocess adds to the output for a tag, and what it does to the stack.
InLoop == tera.stack # <<>> /\ Last(tera.stack) # "if"

Operand(tag) ==
  rewrite_field_access(tag.names,
    IF tag.kind \in {"if", "else if"} THEN "__root__" ELSE LoopVar(tera.stack))

Made(tag) ==
  IF tag.kind \in WithOperand
  THEN [kind |-> tag.kind, names |-> Operand(tag),
        var |-> IF tag.kind = "range" THEN Loops[tera.counter + 1] ELSE tag.var]
  ELSE IF tag.kind = "else" THEN tag
  ELSE IF tag.kind = "end" THEN Bare(IF InLoop THEN "endfor" ELSE "endif")
  ELSE Bare("raw")

Stacked(tag) ==
  IF tag.kind = "if" THEN Append(tera.stack, "if")
  ELSE IF tag.kind = "range" THEN Append(tera.stack, Loops[tera.counter + 1])
  ELSE IF tag.kind = "end" /\ tera.stack # <<>> THEN Front(tera.stack)
  ELSE tera.stack

Counted(tag) == IF tag.kind = "range" THEN tera.counter + 1 ELSE tera.counter

\* Of a tag.
LEMMA TagIs ==
  ASSUME NEW tag \in Tags
  PROVE  /\ tag = [kind |-> tag.kind, names |-> tag.names, var |-> tag.var]
         /\ tag.kind \in Kinds /\ tag.names \in Seq(STRING) /\ tag.var = ""
         /\ tag.names # <<>> => Head(tag.names) \notin Range(Loops) \cup {"__root__"}
BY TemplateAssumption

\* A tag with other names, and a list of one name.
LEMMA Renamed ==
  ASSUME NEW tag, tag = [kind |-> tag.kind, names |-> tag.names, var |-> tag.var], NEW names
  PROVE  [tag EXCEPT !.names = names] = [kind |-> tag.kind, names |-> names, var |-> tag.var]
OBVIOUS

LEMMA ShortIs ==
  ASSUME NEW S
  PROVE  <<>> \in Seq(S) /\ \A x \in S : <<x>> \in Seq(S)
OBVIOUS

LEMMA SeqMore ==
  ASSUME NEW S, NEW T, S \subseteq T, NEW s \in Seq(S)
  PROVE  s \in Seq(T)
OBVIOUS

\* One turn of preprocess's loop, by its parts.
LEMMA ReadIs ==
  ASSUME TemplateTypes, NEW tag \in Tags
  PROVE  preprocess(tera, tag)
           = [out |-> Append(tera.out, Made(tag)), stack |-> Stacked(tag), counter |-> Counted(tag)]
<1>1. tera = [out |-> tera.out, stack |-> tera.stack, counter |-> tera.counter]
  BY DEF TemplateTypes
<1>2. /\ tag = [kind |-> tag.kind, names |-> tag.names, var |-> tag.var]
      /\ tag.kind \in Kinds
  BY TagIs
<1> DEFINE operand == rewrite_field_access(tag.names, LoopVar(tera.stack))
<1>3. CASE tag.kind \in {"output", "call"}
  <2>1. preprocess(tera, tag) = Put(tera, [tag EXCEPT !.names = operand])
    BY <1>3 DEF preprocess, Untranslated
  <2>2. Made(tag) = [tag EXCEPT !.names = operand]
    <3>1. tag.kind \in WithOperand /\ tag.kind # "range" /\ tag.kind \notin {"if", "else if"}
      BY <1>3 DEF WithOperand
    <3>2. Operand(tag) = operand
      BY <3>1 DEF Operand
    <3>3. Made(tag) = [kind |-> tag.kind, names |-> operand, var |-> tag.var]
      BY <3>1, <3>2 DEF Made
    <3> QED BY <3>3, <1>2, Renamed
  <2>3. Stacked(tag) = tera.stack /\ Counted(tag) = tera.counter
    BY <1>3 DEF Stacked, Counted
  <2> QED BY <1>1, <2>1, <2>2, <2>3 DEF Put
<1>4. CASE tag.kind = "if"
  <2>1. preprocess(tera, tag)
          = [Put(tera, rewrite_condition(tag)) EXCEPT !.stack = Append(@, "if")]
    BY <1>4 DEF preprocess, Untranslated
  <2>2. Made(tag) = rewrite_condition(tag)
    <3>1. tag.kind \in WithOperand /\ tag.kind # "range" /\ tag.kind \in {"if", "else if"}
      BY <1>4 DEF WithOperand
    <3>2. Operand(tag) = rewrite_field_access(tag.names, "__root__")
      BY <3>1 DEF Operand
    <3>3. Made(tag) = [kind |-> tag.kind, names |-> Operand(tag), var |-> tag.var]
      BY <3>1 DEF Made
    <3>4. rewrite_condition(tag)
            = [tag EXCEPT !.names = rewrite_field_access(tag.names, "__root__")]
      BY DEF rewrite_condition
    <3> QED BY <3>2, <3>3, <3>4, <1>2, Renamed
  <2>3. Stacked(tag) = Append(tera.stack, "if") /\ Counted(tag) = tera.counter
    BY <1>4 DEF Stacked, Counted
  <2> QED BY <1>1, <2>1, <2>2, <2>3 DEF Put
<1>5. CASE tag.kind = "else if"
  <2>1. preprocess(tera, tag) = Put(tera, rewrite_condition(tag))
    BY <1>5 DEF preprocess, Untranslated
  <2>2. Made(tag) = rewrite_condition(tag)
    <3>1. tag.kind \in WithOperand /\ tag.kind # "range" /\ tag.kind \in {"if", "else if"}
      BY <1>5 DEF WithOperand
    <3>2. Operand(tag) = rewrite_field_access(tag.names, "__root__")
      BY <3>1 DEF Operand
    <3>3. Made(tag) = [kind |-> tag.kind, names |-> Operand(tag), var |-> tag.var]
      BY <3>1 DEF Made
    <3>4. rewrite_condition(tag)
            = [tag EXCEPT !.names = rewrite_field_access(tag.names, "__root__")]
      BY DEF rewrite_condition
    <3> QED BY <3>2, <3>3, <3>4, <1>2, Renamed
  <2>3. Stacked(tag) = tera.stack /\ Counted(tag) = tera.counter
    BY <1>5 DEF Stacked, Counted
  <2> QED BY <1>1, <2>1, <2>2, <2>3 DEF Put
<1>6. CASE tag.kind = "else"
  <2>1. preprocess(tera, tag) = Put(tera, tag)
    BY <1>6 DEF preprocess, Untranslated
  <2>2. Made(tag) = tag /\ Stacked(tag) = tera.stack /\ Counted(tag) = tera.counter
    BY <1>6 DEF Made, WithOperand, Stacked, Counted
  <2> QED BY <1>1, <2>1, <2>2 DEF Put
<1>7. CASE tag.kind = "range"
  <2> DEFINE next == Loops[tera.counter + 1]
  <2>1. preprocess(tera, tag)
          = [out |-> Append(tera.out, [kind |-> "range", names |-> operand, var |-> next]),
             stack |-> Append(tera.stack, next), counter |-> tera.counter + 1]
    BY <1>7 DEF preprocess, Untranslated
  <2>2. Made(tag) = [kind |-> "range", names |-> operand, var |-> next]
    BY <1>2, <1>7 DEF Made, Operand, WithOperand
  <2>3. Stacked(tag) = Append(tera.stack, next) /\ Counted(tag) = tera.counter + 1
    BY <1>7 DEF Stacked, Counted
  <2> QED BY <2>1, <2>2, <2>3
<1>8. CASE tag.kind = "end"
  <2>1. preprocess(tera, tag) = Closed(tera)
    BY <1>8 DEF preprocess, Untranslated
  <2>2. Closed(tera) = [Put(tera, Bare(IF InLoop THEN "endfor" ELSE "endif"))
                          EXCEPT !.stack = IF @ = <<>> THEN @ ELSE Front(@)]
    BY DEF Closed, InLoop
  <2>3. Made(tag) = Bare(IF InLoop THEN "endfor" ELSE "endif") /\ Counted(tag) = tera.counter
    BY <1>8 DEF Made, WithOperand, Counted
  <2>4. Stacked(tag) = (IF tera.stack = <<>> THEN tera.stack ELSE Front(tera.stack))
    BY <1>8 DEF Stacked
  <2> QED BY <1>1, <2>1, <2>2, <2>3, <2>4 DEF Put
<1>9. CASE tag.kind \in Untranslated
  <2>1. preprocess(tera, tag) = Put(tera, Bare("raw"))
    BY <1>9 DEF preprocess, Untranslated
  <2>2. Made(tag) = Bare("raw") /\ Stacked(tag) = tera.stack /\ Counted(tag) = tera.counter
    BY <1>9 DEF Made, WithOperand, Stacked, Counted, Untranslated
  <2> QED BY <1>1, <2>1, <2>2 DEF Put
<1> QED BY <1>2, <1>3, <1>4, <1>5, <1>6, <1>7, <1>8, <1>9 DEF Kinds, WithOperand

\* Where the names of an innermost loop come from.
LEMMA LoopVarIs ==
  ASSUME NEW stack \in Seq({"if"} \cup Range(Loops))
  PROVE  \/ /\ LoopVar(stack) = "__root__"
            /\ \A a \in DOMAIN stack : stack[a] = "if"
         \/ \E m \in DOMAIN stack :
              /\ LoopVar(stack) = stack[m] /\ stack[m] # "if"
              /\ \A a \in DOMAIN stack : stack[a] # "if" => a <= m
<1> DEFINE loops == {a \in DOMAIN stack : stack[a] # "if"}
<1>1. CASE loops = {}
  BY <1>1 DEF LoopVar
<1>2. CASE loops # {}
  <2>0. loops \subseteq 1 .. Len(stack) /\ Len(stack) \in Nat
    OBVIOUS
  <2>1. \E m \in loops : \A a \in loops : a <= m
    <3>1. loops \subseteq 0 .. Len(stack)
      BY <2>0
    <3> HIDE DEF loops
    <3> QED BY <3>1, <1>2, <2>0, Greatest
  <2>2. PICK m \in loops : \A a \in loops : a <= m
    BY <2>1
  <2>3. \A x \in loops : x \in Nat
    BY <2>0
  <2>4. Max(loops) = m
    <3> HIDE DEF loops
    <3>1. \A y \in loops : m >= y
      BY <2>2, <2>3
    <3>2. \A x \in loops : (\A y \in loops : x >= y) => x = m
      BY <2>2, <2>3
    <3> QED BY <3>1, <3>2 DEF Max
  <2>5. LoopVar(stack) = stack[m]
    BY <1>2, <2>4 DEF LoopVar
  <2> QED BY <2>2, <2>5
<1> QED BY <1>1, <1>2

LEMMA TemplateTypesStep ==
  ASSUME TemplateTypes, ReadTag
  PROVE  TemplateTypes'
<1>1. PICK tag \in Tags : template' = Append(template, tag) /\ tera' = preprocess(tera, tag)
  BY DEF ReadTag
<1>2. tera' = [out |-> Append(tera.out, Made(tag)), stack |-> Stacked(tag), counter |-> Counted(tag)]
  BY <1>1, ReadIs
<1>3. template' \in Seq(Tags) /\ Len(template') = Len(template) + 1 /\ Len(template') <= TagLimit
  <2>1. template \in Seq(Tags) /\ Len(template) < TagLimit /\ TagLimit \in Nat
    BY TemplateAssumption DEF TemplateTypes, ReadTag
  <2> QED BY <1>1, <2>1
<1>4. /\ tag.kind \in Kinds /\ tag.names \in Seq(Word)
      /\ tag = [kind |-> tag.kind, names |-> tag.names, var |-> tag.var] /\ tag.var = ""
  <2>1. STRING \subseteq Word
    BY DEF Word
  <2>2. \A names \in Seq(STRING) : names \in Seq(Word)
    BY <2>1, SeqMore
  <2> QED BY TagIs, <2>2
<1>5. /\ tera.out \in Seq(TeraTag) /\ tera.stack \in Seq({"if"} \cup Range(Loops))
      /\ tera.counter \in Nat /\ Len(tera.out) = Len(template) /\ tera.counter <= Len(template)
      /\ Len(template) \in Nat /\ Len(template) < TagLimit
  BY DEF TemplateTypes, ReadTag
<1>6. Loops[tera.counter + 1] \in Range(Loops) /\ Range(Loops) \subseteq STRING
  <2>1. Loops \in Seq(STRING) /\ TagLimit \in Nat /\ TagLimit <= Len(Loops)
    BY TemplateAssumption
  <2>2. tera.counter + 1 \in DOMAIN Loops
    BY <2>1, <1>5
  <2>3. \A a \in DOMAIN Loops : Loops[a] \in STRING
    BY <2>1
  <2> QED BY <2>2, <2>3 DEF Range
<1>7. Operand(tag) \in Seq(Word)
  <2>1. LoopVar(tera.stack) \in Word
    <3>1. \A a \in DOMAIN tera.stack : tera.stack[a] \in {"if"} \cup Range(Loops)
      BY <1>5
    <3>2. LoopVar(tera.stack) = "__root__"
          \/ \E a \in DOMAIN tera.stack : LoopVar(tera.stack) = tera.stack[a]
      BY <1>5, LoopVarIs
    <3>3. "if" \in Word /\ "__root__" \in Word /\ STRING \subseteq Word
      BY DEF Word
    <3>4. CASE LoopVar(tera.stack) = "__root__"
      BY <3>3, <3>4
    <3>5. CASE \E a \in DOMAIN tera.stack : LoopVar(tera.stack) = tera.stack[a]
      BY <1>6, <3>1, <3>3, <3>5
    <3> QED BY <3>2, <3>4, <3>5
  <2> DEFINE other == IF tag.kind \in {"if", "else if"} THEN "__root__" ELSE LoopVar(tera.stack)
  <2>2. other \in Word
    <3>1. "__root__" \in Word
      BY DEF Word
    <3> QED BY <2>1, <3>1
  <2> HIDE DEF other
  <2>3. <<other>> \in Seq(Word)
    BY <2>2, ShortIs
  <2>4. rewrite_field_access(tag.names, other) \in Seq(Word)
    BY <1>4, <2>3 DEF rewrite_field_access
  <2> QED BY <2>4 DEF Operand, other
<1>8. Made(tag) \in TeraTag
  <2>1. tag.var \in {""} \cup Range(Loops) /\ <<>> \in Seq(Word)
    BY <1>4, ShortIs
  <2>2. \A kind, names, var :
          kind \in Kinds \cup {"endif", "endfor", "raw"} /\ names \in Seq(Word)
            /\ var \in {""} \cup Range(Loops)
          => [kind |-> kind, names |-> names, var |-> var] \in TeraTag
    BY DEF TeraTag
  <2>3. \A kind : kind \in {"endif", "endfor", "raw"} => Bare(kind) \in TeraTag
    BY <2>1, <2>2 DEF Bare, Tag
  <2>4. tag \in TeraTag
    BY <1>4, <2>1, <2>2
  <2>5. tag.kind \in WithOperand => Made(tag) \in TeraTag
    BY <1>4, <1>6, <1>7, <2>1, <2>2 DEF Made
  <2> QED BY <2>3, <2>4, <2>5 DEF Made
<1>9. Stacked(tag) \in Seq({"if"} \cup Range(Loops))
  <2>1. tera.stack # <<>> => Front(tera.stack) \in Seq({"if"} \cup Range(Loops))
    BY <1>5, PoppedIs
  <2> QED BY <1>5, <1>6, <2>1 DEF Stacked
<1>10. Append(tera.out, Made(tag)) \in Seq(TeraTag)
       /\ Len(Append(tera.out, Made(tag))) = Len(template) + 1
  BY <1>5, <1>8
<1>11. Counted(tag) \in Nat /\ Counted(tag) <= Len(template) + 1
  BY <1>5 DEF Counted
<1> QED BY <1>2, <1>3, <1>9, <1>10, <1>11 DEF TemplateTypes

\* What the property says of one tag.
BoundHere(tags, out, i) ==
  (tags[i].kind \in WithOperand /\ ~ InLoopElse(tags, i)) =>
    TeraNamed(out, i) =
      (IF TakenForRoot(tags, i) THEN Referent(0, tags[i].names) ELSE GoNamed(tags, i))

\* The templates it speaks of.
Sound == Balanced(template) /\ \A i \in DOMAIN tera.out : tera.out[i].kind # "raw"

\* The stack is that of the blocks at `pos`.
StackIs(stack, tags, out, pos) ==
  /\ Len(stack) = Len(pos)
  /\ \A a \in DOMAIN pos :
       stack[a] = (IF tags[pos[a]].kind = "range" THEN out[pos[a]].var ELSE "if")

\* Each loop has a variable of its own.
LoopsDiffer ==
  /\ \A i \in DOMAIN tera.out : tera.out[i].kind = "range" =>
       \E c \in 1 .. tera.counter : tera.out[i].var = Loops[c]
  /\ \A i, j \in DOMAIN tera.out :
       tera.out[i].kind = "range" /\ tera.out[j].kind = "range" /\ i # j =>
         tera.out[i].var # tera.out[j].var

Translated ==
  /\ \A i \in DOMAIN template : template[i].kind \notin Untranslated
  /\ Alike(template, tera.out, Len(template))
  /\ \E pos : Nested(template, Len(template), pos) /\ StackIs(tera.stack, template, tera.out, pos)
  /\ LoopsDiffer

TemplateInv == TemplateTypes /\ (Sound => Translated) /\ BoundAlike

\* One turn of the loop, place by place.
LEMMA TurnIs ==
  ASSUME TemplateTypes, NEW tag \in Tags,
         template' = Append(template, tag), tera' = preprocess(tera, tag)
  PROVE  /\ Len(template) \in Nat /\ Len(template') = Len(template) + 1
         /\ DOMAIN template = 1 .. Len(template) /\ DOMAIN template' = 1 .. Len(template) + 1
         /\ DOMAIN tera.out = 1 .. Len(template) /\ DOMAIN tera.out' = 1 .. Len(template) + 1
         /\ \A i \in 1 .. Len(template) :
              template'[i] = template[i] /\ tera.out'[i] = tera.out[i]
         /\ template'[Len(template) + 1] = tag /\ tera.out'[Len(template) + 1] = Made(tag)
         /\ tera.stack' = Stacked(tag) /\ tera.counter' = Counted(tag)
         /\ Alike(template, template', Len(template))
         /\ Alike(tera.out, tera.out', Len(template))
<1>1. tera' = [out |-> Append(tera.out, Made(tag)), stack |-> Stacked(tag), counter |-> Counted(tag)]
  BY ReadIs
<1>2. template \in Seq(Tags) /\ Len(tera.out) = Len(template) /\ tera.out \in Seq(TeraTag)
  BY DEF TemplateTypes
<1>3. /\ Len(template) \in Nat /\ Len(template') = Len(template) + 1
      /\ DOMAIN template = 1 .. Len(template) /\ DOMAIN template' = 1 .. Len(template) + 1
      /\ \A i \in 1 .. Len(template) : template'[i] = template[i]
      /\ template'[Len(template) + 1] = tag
  BY <1>2
<1>4. tera'.out = Append(tera.out, Made(tag))
  BY <1>1
<1>5. /\ DOMAIN tera.out = 1 .. Len(template) /\ DOMAIN tera'.out = 1 .. Len(template) + 1
      /\ \A i \in 1 .. Len(template) : tera'.out[i] = tera.out[i]
      /\ tera'.out[Len(template) + 1] = Made(tag)
  <2>1. DOMAIN tera.out = 1 .. Len(tera.out)
    BY <1>2
  <2> QED BY <1>2, <1>4, <2>1, PushedIs
<1>6. tera'.stack = Stacked(tag) /\ tera'.counter = Counted(tag)
  BY <1>1
<1> QED BY <1>3, <1>5, <1>6 DEF Alike

\* A template that is balanced after a tag was so before, and an `end` has its block.
LEMMA SoundBefore ==
  ASSUME TemplateTypes, NEW tag \in Tags,
         template' = Append(template, tag), tera' = preprocess(tera, tag), Sound'
  PROVE  /\ Sound /\ Made(tag).kind # "raw"
         /\ tag.kind = "end" => OpenAt(template, Len(template) + 1) # {}
<1>1. ASSUME NEW i \in DOMAIN template PROVE OpenAt(template', i) = OpenAt(template, i)
  <2>1. i \in 1 .. Len(template) + 1 /\ Len(template) \in Nat
    BY TurnIs
  <2> QED BY <2>1, TurnIs, AlikeOpen
<1>2. Balanced(template)
  <2>1. ASSUME NEW i \in DOMAIN template, template[i].kind = "end"
        PROVE  OpenAt(template, i) # {}
    <3>1. i \in DOMAIN template' /\ template'[i] = template[i]
      BY TurnIs
    <3>2. OpenAt(template', i) # {}
      BY <2>1, <3>1 DEF Sound, Balanced
    <3> QED BY <3>2, <1>1
  <2> QED BY <2>1 DEF Balanced
<1>3. \A i \in DOMAIN tera.out : i \in DOMAIN tera.out' /\ tera.out'[i] = tera.out[i]
  BY TurnIs
<1>4. Len(template) + 1 \in DOMAIN tera.out' /\ Len(template) + 1 \in DOMAIN template'
  BY TurnIs
<1>5. Made(tag).kind # "raw"
  BY <1>4, TurnIs DEF Sound
<1>6. ASSUME tag.kind = "end" PROVE OpenAt(template, Len(template) + 1) # {}
  <2>1. OpenAt(template', Len(template) + 1) # {}
    BY <1>4, <1>6, TurnIs DEF Sound, Balanced
  <2>2. Len(template) \in Nat /\ Len(template) + 1 \in 1 .. Len(template) + 1
    BY TurnIs
  <2> QED BY <2>1, <2>2, TurnIs, AlikeOpen
<1> QED BY <1>2, <1>3, <1>5, <1>6 DEF Sound

\* What a tag is made of the same kind, but for an `end`.
LEMMA MadeIs ==
  ASSUME NEW tag \in Tags, Made(tag).kind # "raw"
  PROVE  /\ tag.kind \notin Untranslated
         /\ tag.kind # "end" => Made(tag).kind = tag.kind
         /\ tag.kind = "end" => Made(tag).kind = (IF InLoop THEN "endfor" ELSE "endif")
<1>1. tag.kind \in WithOperand \cup Untranslated \cup {"else", "end"}
  BY TagIs DEF Kinds
<1>2. \A kind : Bare(kind).kind = kind
  BY DEF Bare, Tag
<1>3. CASE tag.kind \in WithOperand
  <2>1. Made(tag).kind = tag.kind
    BY <1>3 DEF Made
  <2>2. tag.kind \notin Untranslated /\ tag.kind # "end"
    BY <1>3 DEF WithOperand, Untranslated
  <2> QED BY <2>1, <2>2
<1>4. CASE tag.kind = "else"
  BY <1>4 DEF Made, WithOperand, Untranslated
<1>5. CASE tag.kind = "end"
  BY <1>5, <1>2 DEF Made, WithOperand, Untranslated
<1>6. CASE tag.kind \in Untranslated
  <2>1. Made(tag) = Bare("raw")
    BY <1>6 DEF Made, WithOperand, Untranslated
  <2> QED BY <2>1, <1>2
<1> QED BY <1>1, <1>3, <1>4, <1>5, <1>6

\* The blocks that are open after a tag, and the stack then.
LEMMA StackStep ==
  ASSUME TemplateTypes, NEW tag \in Tags,
         template' = Append(template, tag), tera' = preprocess(tera, tag),
         tag.kind = "end" => OpenAt(template, Len(template) + 1) # {},
         tag.kind \notin Untranslated,
         NEW pos, Nested(template, Len(template), pos), StackIs(tera.stack, template, tera.out, pos)
  PROVE  \E new : Nested(template', Len(template) + 1, new) /\ StackIs(tera.stack', template', tera.out', new)
<1> DEFINE end == Len(template)
<1>1. /\ end \in Nat /\ template'[end + 1] = tag /\ tera.out'[end + 1] = Made(tag)
      /\ \A i \in 1 .. end : template'[i] = template[i] /\ tera.out'[i] = tera.out[i]
      /\ tera.stack' = Stacked(tag)
  BY TurnIs
<1>2. Nested(template', end, pos)
  BY <1>1, TurnIs, NestedSame
<1>3. /\ pos \in Seq(1 .. end) /\ Len(pos) \in Nat /\ DOMAIN pos = 1 .. Len(pos)
      /\ tera.stack \in Seq({"if"} \cup Range(Loops)) /\ Len(tera.stack) = Len(pos)
      /\ DOMAIN tera.stack = 1 .. Len(pos)
  BY DEF Nested, StackIs, TemplateTypes
<1>4. ASSUME NEW a \in 1 .. Len(pos)
      PROVE  tera.stack[a] = (IF template'[pos[a]].kind = "range"
                              THEN tera.out'[pos[a]].var ELSE "if")
  <2>1. pos[a] \in 1 .. end
    BY <1>3
  <2>2. a \in DOMAIN pos
    BY <1>3
  <2> QED BY <2>1, <2>2, <1>1 DEF StackIs
<1> HIDE DEF end
<1>5. CASE tag.kind \in {"if", "range"}
  <2> DEFINE new == Append(pos, end + 1)
             top == IF tag.kind = "range" THEN Loops[tera.counter + 1] ELSE "if"
  <2>1. Nested(template', end + 1, new)
    BY <1>1, <1>2, <1>5, NestedOpen DEF Opens
  <2>2. tera.stack' = Append(tera.stack, top)
    BY <1>1, <1>5 DEF Stacked
  <2>3. tag.kind = "range" => Made(tag).var = Loops[tera.counter + 1]
    BY DEF Made, WithOperand
  <2>4. /\ Len(new) = Len(pos) + 1 /\ DOMAIN new = 1 .. Len(pos) + 1
        /\ \A a \in 1 .. Len(pos) : new[a] = pos[a]
        /\ new[Len(pos) + 1] = end + 1
    BY <1>3, PushedIs
  <2>5. /\ Len(tera.stack') = Len(pos) + 1
        /\ \A a \in 1 .. Len(pos) : tera.stack'[a] = tera.stack[a]
        /\ tera.stack'[Len(pos) + 1] = top
    <3> HIDE DEF top
    <3>1. /\ Len(Append(tera.stack, top)) = Len(tera.stack) + 1
          /\ \A a \in 1 .. Len(tera.stack) : Append(tera.stack, top)[a] = tera.stack[a]
          /\ Append(tera.stack, top)[Len(tera.stack) + 1] = top
      BY <1>3, PushedIs
    <3> QED BY <2>2, <1>3, <3>1
  <2>6. \A a \in 1 .. Len(pos) + 1 : a \in 1 .. Len(pos) \/ a = Len(pos) + 1
    BY <1>3
  <2> HIDE DEF new
  <2>7. ASSUME NEW a \in DOMAIN new
        PROVE  tera.stack'[a] = (IF template'[new[a]].kind = "range"
                                 THEN tera.out'[new[a]].var ELSE "if")
    <3>1. CASE a \in 1 .. Len(pos)
      BY <3>1, <1>4, <2>4, <2>5
    <3>2. CASE a = Len(pos) + 1
      BY <3>2, <1>1, <2>3, <2>4, <2>5
    <3> QED BY <3>1, <3>2, <2>4, <2>6
  <2>8. StackIs(tera.stack', template', tera.out', new)
    BY <2>4, <2>5, <2>7 DEF StackIs
  <2> QED BY <2>1, <2>8 DEF end
<1>6. CASE tag.kind = "end"
  <2>1. pos # <<>>
    BY <1>6, <1>1, Innermost DEF end
  <2>2. Len(pos) > 0
    BY <1>3, <2>1
  <2>3. tera.stack # <<>>
    BY <1>3, <2>2
  <2>4. Nested(template', end + 1, Front(pos))
    BY <1>1, <1>2, <1>6, <2>1, NestedClose DEF Closes
  <2>5. /\ Len(Front(pos)) = Len(pos) - 1 /\ DOMAIN Front(pos) = 1 .. Len(pos) - 1
        /\ \A a \in 1 .. Len(pos) - 1 : Front(pos)[a] = pos[a]
    BY <1>3, <2>1, PoppedIs
  <2>6. tera.stack' = Front(tera.stack)
    BY <1>1, <1>6, <2>3 DEF Stacked
  <2>7. /\ Len(tera.stack') = Len(pos) - 1
        /\ \A a \in 1 .. Len(pos) - 1 : tera.stack'[a] = tera.stack[a]
    BY <1>3, <2>3, <2>6, PoppedIs
  <2>8. \A a \in 1 .. Len(pos) - 1 : a \in 1 .. Len(pos)
    BY <1>3
  <2>9. StackIs(tera.stack', template', tera.out', Front(pos))
    BY <2>5, <2>7, <2>8, <1>4 DEF StackIs
  <2> QED BY <2>4, <2>9 DEF end
<1>7. CASE tag.kind \notin {"if", "range", "end"}
  <2>1. tag.kind \notin Opens \cup Closes
    <3>1. tag.kind \in Kinds
      BY TagIs
    <3> QED BY <3>1, <1>7 DEF Kinds, WithOperand, Untranslated, Opens, Closes
  <2>2. Nested(template', end + 1, pos)
    BY <1>1, <1>2, <2>1, NestedOther
  <2>3. tera.stack' = tera.stack
    BY <1>1, <1>7 DEF Stacked
  <2>4. StackIs(tera.stack', template', tera.out', pos)
    BY <2>3, <1>3, <1>4 DEF StackIs
  <2> QED BY <2>2, <2>4 DEF end
<1> QED BY <1>5, <1>6, <1>7

\* The variable of a loop that is opened is a new one.
LEMMA LoopsDifferStep ==
  ASSUME TemplateTypes, NEW tag \in Tags, Len(template) < TagLimit,
         template' = Append(template, tag), tera' = preprocess(tera, tag),
         Made(tag).kind # "raw", LoopsDiffer
  PROVE  LoopsDiffer'
<1> DEFINE end == Len(template)
<1>1. /\ end \in Nat /\ tera.out'[end + 1] = Made(tag) /\ tera.counter' = Counted(tag)
      /\ \A i \in 1 .. end : tera.out'[i] = tera.out[i]
      /\ DOMAIN tera.out = 1 .. end /\ DOMAIN tera.out' = 1 .. end + 1
  BY TurnIs
<1>2. /\ tera.counter \in Nat /\ tera.counter < Len(Loops)
      /\ \A c, d \in 1 .. Len(Loops) : Loops[c] = Loops[d] => c = d
  <2>1. /\ TagLimit \in Nat /\ TagLimit <= Len(Loops) /\ Loops \in Seq(STRING)
        /\ IsInjective(Loops)
    BY TemplateAssumption
  <2>2. tera.counter \in Nat /\ tera.counter <= end
    BY DEF TemplateTypes
  <2>3. \A c, d \in 1 .. Len(Loops) : Loops[c] = Loops[d] => c = d
    BY <2>1 DEF IsInjective
  <2> QED BY <1>1, <2>1, <2>2, <2>3
<1> HIDE DEF end
<1>3. tera.counter' \in {tera.counter, tera.counter + 1}
  BY <1>1 DEF Counted
<1>4. \A i \in 1 .. end + 1 : i \in 1 .. end \/ i = end + 1
  BY <1>1
<1>5. tera.out'[end + 1].kind = "range" =>
        /\ tera.counter' = tera.counter + 1
        /\ tera.out'[end + 1].var = Loops[tera.counter + 1]
  <2>1. Made(tag).kind = "range" => tag.kind = "range"
    BY MadeIs
  <2>2. tag.kind = "range" => Made(tag).var = Loops[tera.counter + 1]
    BY DEF Made, WithOperand
  <2> QED BY <1>1, <2>1, <2>2 DEF Counted
<1>6. ASSUME NEW i \in 1 .. end, tera.out[i].kind = "range"
      PROVE  /\ \E c \in 1 .. tera.counter' : tera.out[i].var = Loops[c]
             /\ tera.out[i].var # Loops[tera.counter + 1]
  <2>1. PICK c \in 1 .. tera.counter : tera.out[i].var = Loops[c]
    BY <1>1, <1>6 DEF LoopsDiffer
  <2>2. c \in 1 .. tera.counter'
    BY <1>2, <1>3
  <2>3. c \in 1 .. Len(Loops) /\ tera.counter + 1 \in 1 .. Len(Loops) /\ c # tera.counter + 1
    <3>1. Loops \in Seq(STRING)
      BY TemplateAssumption
    <3>2. Len(Loops) \in Nat
      BY <3>1
    <3> QED BY <1>2, <3>2
  <2> QED BY <2>1, <2>2, <2>3, <1>2
<1>7. ASSUME NEW i \in 1 .. end + 1, tera.out'[i].kind = "range"
      PROVE  \E c \in 1 .. tera.counter' : tera.out'[i].var = Loops[c]
  <2>1. CASE i \in 1 .. end
    BY <2>1, <1>1, <1>6, <1>7
  <2>2. CASE i = end + 1
    <3>1. tera.counter + 1 \in 1 .. tera.counter + 1
      BY <1>2
    <3> QED BY <2>2, <3>1, <1>5, <1>7
  <2> QED BY <2>1, <2>2, <1>4
<1>8. ASSUME NEW i \in 1 .. end + 1, NEW j \in 1 .. end + 1, i # j,
             tera.out'[i].kind = "range", tera.out'[j].kind = "range"
      PROVE  tera.out'[i].var # tera.out'[j].var
  <2>1. CASE i \in 1 .. end /\ j \in 1 .. end
    BY <2>1, <1>1, <1>8 DEF LoopsDiffer
  <2>2. CASE i = end + 1 /\ j \in 1 .. end
    BY <2>2, <1>1, <1>5, <1>6, <1>8
  <2>3. CASE i \in 1 .. end /\ j = end + 1
    BY <2>3, <1>1, <1>5, <1>6, <1>8
  <2> QED BY <2>1, <2>2, <2>3, <1>4, <1>8
<1> QED BY <1>1, <1>7, <1>8 DEF LoopsDiffer

\* What is known of a template stays so for one more tag.
LEMMA TranslatedStep ==
  ASSUME TemplateTypes, NEW tag \in Tags, Len(template) < TagLimit,
         template' = Append(template, tag), tera' = preprocess(tera, tag),
         Sound => Translated, Sound'
  PROVE  Translated'
<1> DEFINE end == Len(template)
<1>1. /\ Translated /\ Made(tag).kind # "raw"
      /\ tag.kind = "end" => OpenAt(template, Len(template) + 1) # {}
  BY SoundBefore
<1>2. /\ end \in Nat /\ template'[end + 1] = tag /\ tera.out'[end + 1] = Made(tag)
      /\ \A i \in 1 .. end : template'[i] = template[i] /\ tera.out'[i] = tera.out[i]
      /\ DOMAIN template = 1 .. end /\ DOMAIN template' = 1 .. end + 1
      /\ Len(template') = end + 1
  BY TurnIs
<1>3. /\ tag.kind \notin Untranslated
      /\ tag.kind # "end" => Made(tag).kind = tag.kind
      /\ tag.kind = "end" => Made(tag).kind \in {"endfor", "endif"}
  BY <1>1, MadeIs
<1> HIDE DEF end
<1>4. \A i \in 1 .. end + 1 : i \in 1 .. end \/ i = end + 1
  BY <1>2
<1>5. \A i \in DOMAIN template' : template'[i].kind \notin Untranslated
  BY <1>1, <1>2, <1>3, <1>4 DEF Translated
<1>6. Alike(template', tera.out', end + 1)
  <2>1. Alike(template, tera.out, end)
    BY <1>1 DEF Translated, end
  <2>2. CASE tag.kind # "end"
    BY <2>1, <2>2, <1>2, <1>3, <1>4 DEF Alike
  <2>3. CASE tag.kind = "end"
    <3>1. /\ tag.kind \in Closes /\ Made(tag).kind \in Closes
          /\ tag.kind \notin Opens /\ Made(tag).kind \notin Opens
          /\ tag.kind \notin {"range", "else"} /\ Made(tag).kind \notin {"range", "else"}
      BY <2>3, <1>3 DEF Closes, Opens
    <3> QED BY <2>1, <3>1, <1>2, <1>4 DEF Alike
  <2> QED BY <2>2, <2>3
<1>7. \E new : Nested(template', end + 1, new) /\ StackIs(tera.stack', template', tera.out', new)
  <2>1. PICK pos : Nested(template, Len(template), pos) /\ StackIs(tera.stack, template, tera.out, pos)
    BY <1>1 DEF Translated
  <2> QED BY <2>1, <1>1, <1>3, StackStep DEF end
<1>8. LoopsDiffer'
  BY <1>1, LoopsDifferStep DEF Translated
<1> QED BY <1>2, <1>5, <1>6, <1>7, <1>8 DEF Translated

\* The innermost block is one of the open ones.
LEMMA OwnerIsOpen ==
  ASSUME NEW tags, NEW i \in Nat \ {0}, OpenAt(tags, i) # {}
  PROVE  Max(OpenAt(tags, i)) \in OpenAt(tags, i)
<1>1. OpenAt(tags, i) \subseteq 0 .. i - 1 /\ i - 1 \in Nat
  BY DEF OpenAt
<1>2. PICK m \in OpenAt(tags, i) : \A k \in OpenAt(tags, i) : k <= m
  BY <1>1, Greatest
<1>3. \A k \in OpenAt(tags, i) : m >= k
  BY <1>1, <1>2
<1> QED BY <1>2, <1>3 DEF Max

\* What is said of a tag is a matter of the tags up to it.
LEMMA SameTags ==
  ASSUME NEW s, NEW t, NEW end \in Nat, \A k \in 1 .. end : s[k] = t[k], NEW i \in 1 .. end
  PROVE  /\ OpenAt(s, i) = OpenAt(t, i) /\ LoopsAt(s, i) = LoopsAt(t, i)
         /\ InLoopElse(s, i) = InLoopElse(t, i) /\ TakenForRoot(s, i) = TakenForRoot(t, i)
         /\ GoNamed(s, i) = GoNamed(t, i) /\ TeraNamed(s, i) = TeraNamed(t, i)
<1>1. Alike(s, t, end) /\ i \in 1 .. end + 1 /\ s[i] = t[i]
  BY DEF Alike
<1>2. OpenAt(s, i) = OpenAt(t, i) /\ LoopsAt(s, i) = LoopsAt(t, i)
  BY <1>1, AlikeOpen, AlikeLoops
<1>3. \A b \in OpenAt(t, i) : s[b] = t[b]
  <2>1. \A b \in 1 .. i - 1 : b \in 1 .. end
    OBVIOUS
  <2> QED BY <2>1 DEF OpenAt
<1>4. LoopsAt(t, i) \subseteq OpenAt(t, i)
  BY DEF LoopsAt
<1>5. InLoopElse(s, i) = InLoopElse(t, i)
  BY <1>2, <1>3 DEF InLoopElse
<1>6. TakenForRoot(s, i) = TakenForRoot(t, i)
  BY <1>1, <1>2 DEF TakenForRoot
<1>7. GoNamed(s, i) = GoNamed(t, i)
  BY <1>1, <1>2 DEF GoNamed
<1>8. TeraNamed(s, i) = TeraNamed(t, i)
  <2>1. \A first : {b \in LoopsAt(s, i) : s[b].var = first} = {b \in LoopsAt(t, i) : t[b].var = first}
    BY <1>2, <1>3, <1>4
  <2> QED BY <1>1, <2>1 DEF TeraNamed
<1> QED BY <1>2, <1>5, <1>6, <1>7, <1>8

\* A loop's place in the stack has the variable of the loop, any other is "if".
LEMMA StackHas ==
  ASSUME TemplateTypes, Translated,
         NEW pos, Nested(template, Len(template), pos),
         StackIs(tera.stack, template, tera.out, pos), NEW a \in DOMAIN pos
  PROVE  /\ template[pos[a]].kind = "range" =>
               tera.stack[a] = tera.out[pos[a]].var /\ tera.stack[a] # "if"
         /\ template[pos[a]].kind # "range" => tera.stack[a] = "if"
<1>1. /\ Len(template) \in Nat /\ DOMAIN tera.out = 1 .. Len(template)
      /\ pos[a] \in 1 .. Len(template)
  BY DEF TemplateTypes, Nested
<1>2. tera.stack[a] = (IF template[pos[a]].kind = "range" THEN tera.out[pos[a]].var ELSE "if")
  BY DEF StackIs
<1>3. ASSUME template[pos[a]].kind = "range"
      PROVE  \E c \in 1 .. tera.counter : tera.out[pos[a]].var = Loops[c]
  BY <1>3, <1>1 DEF Translated, LoopsDiffer, Alike
<1>4. \A c \in 1 .. tera.counter : Loops[c] \in Range(Loops)
  <2>1. /\ tera.counter \in Nat /\ tera.counter <= Len(template) /\ Len(template) <= TagLimit
        /\ TagLimit \in Nat /\ TagLimit <= Len(Loops) /\ Loops \in Seq(STRING)
    BY TemplateAssumption DEF TemplateTypes
  <2>2. \A c \in 1 .. tera.counter : c \in DOMAIN Loops
    BY <2>1, <1>1
  <2> QED BY <2>2 DEF Range
<1> QED BY <1>2, <1>3, <1>4, TemplateAssumption

\* Outside of the `else` of a loop, the dot of a new tag is the item of the
\* innermost loop.
LEMMA DotIs ==
  ASSUME TemplateTypes, Translated, ~ InLoopElse(template, Len(template) + 1)
  PROVE  LET end == Len(template)
             loops == LoopsAt(template, end + 1)
             var == LoopVar(tera.stack)
         IN  \/ var = "__root__" /\ loops = {}
             \/ /\ loops # {} /\ var \in Range(Loops)
                /\ {b \in loops : tera.out[b].var = var} = {Max(loops)}
                /\ loops \subseteq 1 .. end
<1> DEFINE end == Len(template)
           loops == LoopsAt(template, end + 1)
           var == LoopVar(tera.stack)
<1>1. PICK pos : Nested(template, end, pos) /\ StackIs(tera.stack, template, tera.out, pos)
  BY DEF Translated
<1>2. /\ end \in Nat /\ DOMAIN tera.out = 1 .. end
      /\ tera.stack \in Seq({"if"} \cup Range(Loops))
      /\ pos \in Seq(1 .. end) /\ DOMAIN pos = DOMAIN tera.stack
      /\ DOMAIN pos \subseteq Nat
      /\ Range(pos) = OpenAt(template, end + 1)
  BY <1>1 DEF TemplateTypes, Nested, StackIs
<1>3. loops = {b \in Range(pos) : template[b].kind = "range"}
  BY <1>2 DEF InLoopElse, LoopsAt
<1>4. /\ \A a \in DOMAIN pos : pos[a] \in 1 .. end
      /\ \A i \in 1 .. end : tera.out[i].kind = "range" <=> template[i].kind = "range"
  BY <1>2 DEF Translated, Alike
<1>5. \A a \in DOMAIN pos :
        /\ template[pos[a]].kind = "range" =>
             tera.stack[a] = tera.out[pos[a]].var /\ tera.stack[a] # "if"
        /\ template[pos[a]].kind # "range" => tera.stack[a] = "if"
  BY <1>1, StackHas
<1> HIDE DEF end, loops
<1>6. CASE \A a \in DOMAIN tera.stack : tera.stack[a] = "if"
  <2>1. var = "__root__"
    BY <1>2, <1>6, LoopVarIs
  <2>2. loops = {}
    BY <1>2, <1>3, <1>5, <1>6 DEF Range
  <2> QED BY <2>1, <2>2 DEF end, loops
<1>7. CASE ~ \A a \in DOMAIN tera.stack : tera.stack[a] = "if"
  <2>1. PICK m \in DOMAIN tera.stack :
          /\ var = tera.stack[m] /\ tera.stack[m] # "if"
          /\ \A a \in DOMAIN tera.stack : tera.stack[a] # "if" => a <= m
    BY <1>2, <1>7, LoopVarIs
  <2>2. /\ pos[m] \in loops /\ tera.out[pos[m]].var = var
        /\ var \in Range(Loops) /\ pos[m] \in 1 .. end
    BY <1>2, <1>3, <1>4, <1>5, <2>1 DEF Range
  <2>3. ASSUME NEW b \in loops
        PROVE  /\ b <= pos[m] /\ b \in 1 .. end
               /\ tera.out[b].var = var => b = pos[m]
    <3>1. PICK a \in DOMAIN pos : b = pos[a] /\ template[pos[a]].kind = "range"
      BY <1>3 DEF Range
    <3>2. a <= m
      BY <3>1, <1>2, <1>5, <2>1
    <3>3. a < m => pos[a] < pos[m]
      BY <1>1, <1>2, <2>1 DEF Nested
    <3>4. b \in 1 .. end
      BY <3>1, <1>4
    <3>5. b <= pos[m]
      BY <3>1, <3>2, <3>3, <3>4, <2>2, <1>2, <2>1
    <3>6. template[pos[m]].kind = "range" /\ template[b].kind = "range"
      BY <2>2, <1>3
    <3>7. tera.out[b].var = var => b = pos[m]
      BY <3>4, <3>6, <2>2, <1>2, <1>4 DEF Translated, LoopsDiffer
    <3> QED BY <3>4, <3>5, <3>7
  <2>4. Max(loops) = pos[m]
    <3>1. \A y \in loops : pos[m] >= y
      BY <2>2, <2>3, <1>2
    <3>2. \A x \in loops : (\A y \in loops : x >= y) => x = pos[m]
      BY <2>2, <2>3, <1>2
    <3> QED BY <2>2, <3>1, <3>2 DEF Max
  <2>5. {b \in loops : tera.out[b].var = var} = {Max(loops)}
    BY <2>2, <2>3, <2>4
  <2> QED BY <2>2, <2>3, <2>5 DEF end, loops
<1> QED BY <1>6, <1>7

\* What a name is to tera, case by case.
LoopsOf(out, i, first) == {b \in LoopsAt(out, i) : out[b].var = first}

LEMMA TeraNamedIs ==
  ASSUME NEW out, NEW i
  PROVE  /\ Head(out[i].names) = "__root__" =>
              TeraNamed(out, i) = Referent(0, Tail(out[i].names))
         /\ Head(out[i].names) \in Range(Loops) =>
              TeraNamed(out, i)
                = Referent(IF LoopsOf(out, i, Head(out[i].names)) = {} THEN -1
                           ELSE Max(LoopsOf(out, i, Head(out[i].names))), Tail(out[i].names))
         /\ Head(out[i].names) \notin Range(Loops) \cup {"__root__"} =>
              TeraNamed(out, i) = Referent(0, out[i].names)
<1> DEFINE first == Head(out[i].names)
           loops == LoopsOf(out, i, first)
<1>1. TeraNamed(out, i)
        = CASE first = "__root__" -> Referent(0, Tail(out[i].names))
            [] first \in Range(Loops) ->
                 Referent(IF loops = {} THEN -1 ELSE Max(loops), Tail(out[i].names))
            [] OTHER -> Referent(0, out[i].names)
  BY Zenon DEF TeraNamed, LoopsOf
<1> HIDE DEF first, loops
<1>2. "__root__" \notin Range(Loops)
  BY TemplateAssumption
<1>3. /\ first = "__root__" => TeraNamed(out, i) = Referent(0, Tail(out[i].names))
      /\ first \in Range(Loops) =>
           TeraNamed(out, i) = Referent(IF loops = {} THEN -1 ELSE Max(loops), Tail(out[i].names))
      /\ first \notin Range(Loops) \cup {"__root__"} => TeraNamed(out, i) = Referent(0, out[i].names)
  BY <1>1, <1>2
<1> QED BY <1>3 DEF first, loops

\* A new tag's names stand for what they stand for in Go, or for the root's.
LEMMA BoundNew ==
  ASSUME TemplateTypes, Translated, NEW tag \in Tags,
         template' = Append(template, tag), tera' = preprocess(tera, tag)
  PROVE  BoundHere(template', tera.out', Len(template) + 1)
<1> DEFINE end == Len(template)
           loops == LoopsAt(template, end + 1)
           var == LoopVar(tera.stack)
<1>0. SUFFICES ASSUME tag.kind \in WithOperand, ~ InLoopElse(template', end + 1)
               PROVE  TeraNamed(tera.out', end + 1)
                        = (IF TakenForRoot(template', end + 1)
                           THEN Referent(0, tag.names) ELSE GoNamed(template', end + 1))
  <2>1. /\ Len(template') = end + 1 /\ template'[end + 1] = tag /\ end \in Nat
    BY TurnIs
  <2> QED BY <2>1 DEF BoundHere
<1>1. /\ end \in Nat /\ end + 1 \in 1 .. end + 1
      /\ template'[end + 1] = tag /\ tera.out'[end + 1] = Made(tag)
      /\ \A i \in 1 .. end : template'[i] = template[i] /\ tera.out'[i] = tera.out[i]
  BY TurnIs
<1>2. /\ LoopsAt(template', end + 1) = loops
      /\ OpenAt(template', end + 1) = OpenAt(template, end + 1)
  BY <1>1, TurnIs, AlikeOpen, AlikeLoops
<1>3. LoopsAt(tera.out', end + 1) = loops
  <2>1. LoopsAt(tera.out', end + 1) = LoopsAt(tera.out, end + 1)
    BY <1>1, TurnIs, AlikeLoops
  <2>2. LoopsAt(tera.out, end + 1) = LoopsAt(template, end + 1)
    BY <1>1, AlikeLoops DEF Translated
  <2> QED BY <2>1, <2>2
<1>4. ~ InLoopElse(template, end + 1)
  <2>1. \A b \in OpenAt(template, end + 1) : template'[b] = template[b]
    BY <1>1, OpenStep
  <2> QED BY <1>0, <1>2, <2>1 DEF InLoopElse
<1>5. Made(tag).names = Operand(tag)
  BY <1>0 DEF Made
<1>6. TakenForRoot(template', end + 1)
        = (loops # {} /\ (tag.names # <<>> \/ tag.kind \in {"if", "else if"}))
  BY <1>1, <1>2 DEF TakenForRoot
<1>7. GoNamed(template', end + 1) = Referent(IF loops = {} THEN 0 ELSE Max(loops), tag.names)
  BY <1>1, <1>2 DEF GoNamed
<1>8. \A name : Head(<<name>>) = name /\ Tail(<<name>>) = <<>>
  OBVIOUS
<1>9. "__root__" \notin Range(Loops)
  BY TemplateAssumption
<1>10. Made(tag).names # <<>> /\ Head(Made(tag).names) = "__root__"
         => TeraNamed(tera.out', end + 1) = Referent(0, Tail(Made(tag).names))
  <2>1. Head(tera.out'[end + 1].names) = "__root__" =>
          TeraNamed(tera.out', end + 1) = Referent(0, Tail(tera.out'[end + 1].names))
    BY TeraNamedIs
  <2> QED BY <2>1, <1>1
<1>11. CASE tag.names # <<>>
  <2>1. Operand(tag) = tag.names /\ Head(tag.names) \notin Range(Loops) \cup {"__root__"}
    BY <1>11, TagIs DEF Operand, rewrite_field_access
  <2>2. TeraNamed(tera.out', end + 1) = Referent(0, tag.names)
    <3>1. Head(tera.out'[end + 1].names) \notin Range(Loops) \cup {"__root__"} =>
            TeraNamed(tera.out', end + 1) = Referent(0, tera.out'[end + 1].names)
      BY TeraNamedIs
    <3> QED BY <3>1, <1>1, <1>5, <2>1
  <2> QED BY <1>6, <1>7, <1>11, <2>2
<1>12. CASE tag.names = <<>> /\ tag.kind \in {"if", "else if"}
  <2>1. Operand(tag) = <<"__root__">>
    BY <1>12 DEF Operand, rewrite_field_access
  <2>2. TeraNamed(tera.out', end + 1) = Referent(0, <<>>)
    BY <1>5, <1>8, <1>10, <2>1
  <2> QED BY <1>6, <1>7, <1>12, <2>2
<1>13. CASE tag.names = <<>> /\ tag.kind \notin {"if", "else if"}
  <2>1. Operand(tag) = <<var>>
    BY <1>13 DEF Operand, rewrite_field_access
  <2>2. CASE var = "__root__" /\ loops = {}
    <3>1. TeraNamed(tera.out', end + 1) = Referent(0, <<>>)
      BY <1>5, <1>8, <1>10, <2>1, <2>2
    <3> QED BY <1>6, <1>7, <1>13, <2>2, <3>1
  <2>3. CASE /\ loops # {} /\ var \in Range(Loops)
             /\ {b \in loops : tera.out[b].var = var} = {Max(loops)}
             /\ loops \subseteq 1 .. end
    <3>1. {b \in loops : tera.out'[b].var = var} = {Max(loops)}
      BY <1>1, <2>3
    <3>2. Max({Max(loops)}) = Max(loops)
      <4>1. Max(loops) \in 1 .. end
        BY <2>3
      <4>2. \A m \in Nat : Max({m}) = m
        BY DEF Max
      <4>3. Max(loops) \in Nat
        BY <4>1, <1>1
      <4> QED BY <4>2, <4>3
    <3>3. Made(tag).names = <<var>> /\ Head(Made(tag).names) = var /\ Tail(Made(tag).names) = <<>>
      BY <1>5, <1>8, <2>1
    <3>4. var # "__root__"
      BY <2>3, <1>9
    <3>5. TeraNamed(tera.out', end + 1) = Referent(Max(loops), <<>>)
      <4> DEFINE loop == LoopsOf(tera.out', end + 1, var)
      <4>1. loop = {Max(loops)}
        BY <1>3, <3>1 DEF LoopsOf
      <4>2. Head(tera.out'[end + 1].names) = var /\ Tail(tera.out'[end + 1].names) = <<>>
        BY <1>1, <3>3
      <4>3. Head(tera.out'[end + 1].names) \in Range(Loops) =>
              TeraNamed(tera.out', end + 1)
                = Referent(IF LoopsOf(tera.out', end + 1, Head(tera.out'[end + 1].names)) = {} THEN -1
                           ELSE Max(LoopsOf(tera.out', end + 1, Head(tera.out'[end + 1].names))),
                           Tail(tera.out'[end + 1].names))
        BY TeraNamedIs
      <4>4. TeraNamed(tera.out', end + 1)
              = Referent(IF loop = {} THEN -1 ELSE Max(loop), <<>>)
        BY <2>3, <4>2, <4>3
      <4> QED BY <4>1, <4>4, <3>2
    <3> QED BY <1>6, <1>7, <1>13, <2>3, <3>5
  <2> QED BY <1>4, <2>2, <2>3, DotIs
<1> QED BY <1>11, <1>12, <1>13

\* An `end` becomes that of the block it ends.
LEMMA EndFits ==
  ASSUME TemplateTypes, Translated, NEW tag \in Tags,
         template' = Append(template, tag), tera' = preprocess(tera, tag),
         tag.kind = "end", OpenAt(template, Len(template) + 1) # {}
  PROVE  /\ OpenAt(tera.out', Len(template) + 1) # {}
         /\ Made(tag).kind
              = (IF tera.out'[Max(OpenAt(tera.out', Len(template) + 1))].kind = "range"
                 THEN "endfor" ELSE "endif")
<1> DEFINE end == Len(template)
<1>1. /\ end \in Nat /\ end + 1 \in 1 .. end + 1
      /\ \A i \in 1 .. end : tera.out'[i] = tera.out[i]
  BY TurnIs
<1>2. OpenAt(tera.out', end + 1) = OpenAt(template, end + 1)
  <2>1. OpenAt(tera.out', end + 1) = OpenAt(tera.out, end + 1)
    BY <1>1, TurnIs, AlikeOpen
  <2>2. OpenAt(tera.out, end + 1) = OpenAt(template, end + 1)
    BY <1>1, AlikeOpen DEF Translated
  <2> QED BY <2>1, <2>2
<1>3. PICK pos : Nested(template, end, pos) /\ StackIs(tera.stack, template, tera.out, pos)
  BY DEF Translated
<1>4. pos # <<>> /\ Len(pos) \in DOMAIN pos /\ Max(OpenAt(template, end + 1)) = pos[Len(pos)]
  BY <1>1, <1>3, Innermost
<1>5. /\ pos[Len(pos)] \in 1 .. end /\ Len(tera.stack) = Len(pos) /\ Len(pos) > 0
  <2>1. pos \in Seq(1 .. end) /\ Len(tera.stack) = Len(pos)
    BY <1>3 DEF Nested, StackIs
  <2>2. pos[Len(pos)] \in 1 .. end
    BY <2>1, <1>4
  <2>3. DOMAIN pos = 1 .. Len(pos) /\ Len(pos) \in Nat
    BY <2>1
  <2> QED BY <2>1, <2>2, <2>3, <1>4
<1>6. Last(tera.stack) = tera.stack[Len(pos)] /\ tera.stack # <<>>
  BY <1>5 DEF Last
<1>7. tera.out[pos[Len(pos)]].kind = "range" <=> template[pos[Len(pos)]].kind = "range"
  BY <1>5 DEF Translated, Alike
<1>8. InLoop <=> tera.out'[pos[Len(pos)]].kind = "range"
  BY <1>1, <1>3, <1>4, <1>5, <1>6, <1>7, StackHas DEF InLoop
<1>9. Made(tag).kind = (IF InLoop THEN "endfor" ELSE "endif")
  BY DEF Made, WithOperand, Bare, Tag
<1> QED BY <1>2, <1>4, <1>8, <1>9

LEMMA BoundStep ==
  ASSUME TemplateTypes, NEW tag \in Tags,
         template' = Append(template, tag), tera' = preprocess(tera, tag),
         Sound => Translated, BoundAlike
  PROVE  BoundAlike'
<1> DEFINE end == Len(template)
<1>0. SUFFICES ASSUME Sound'
               PROVE  EndsFit(tera.out') /\ \A i \in DOMAIN template' : BoundHere(template', tera.out', i)
  BY DEF BoundAlike, Sound, BoundHere
<1>1. /\ Sound /\ Translated /\ Made(tag).kind # "raw"
      /\ tag.kind = "end" => OpenAt(template, end + 1) # {}
  BY <1>0, SoundBefore
<1>2. EndsFit(tera.out) /\ \A i \in DOMAIN template : BoundHere(template, tera.out, i)
  BY <1>1 DEF BoundAlike, Sound, BoundHere
<1>3. /\ end \in Nat /\ tera.out'[end + 1] = Made(tag)
      /\ \A i \in 1 .. end : template'[i] = template[i] /\ tera.out'[i] = tera.out[i]
      /\ DOMAIN template = 1 .. end /\ DOMAIN template' = 1 .. end + 1
      /\ DOMAIN tera.out = 1 .. end /\ DOMAIN tera.out' = 1 .. end + 1
  BY TurnIs
<1> HIDE DEF end
<1>4. \A i \in 1 .. end + 1 : i \in 1 .. end \/ i = end + 1
  BY <1>3
<1>5. ASSUME NEW i \in 1 .. end PROVE BoundHere(template', tera.out', i)
  <2>1. /\ InLoopElse(template', i) = InLoopElse(template, i)
        /\ TakenForRoot(template', i) = TakenForRoot(template, i)
        /\ GoNamed(template', i) = GoNamed(template, i)
        /\ TeraNamed(tera.out', i) = TeraNamed(tera.out, i)
    <3>1. /\ InLoopElse(template', i) = InLoopElse(template, i)
          /\ TakenForRoot(template', i) = TakenForRoot(template, i)
          /\ GoNamed(template', i) = GoNamed(template, i)
      <4>1. end \in Nat /\ \A k \in 1 .. end : template'[k] = template[k]
        BY <1>3
      <4> QED BY <4>1, SameTags
    <3>2. TeraNamed(tera.out', i) = TeraNamed(tera.out, i)
      <4>1. end \in Nat /\ \A k \in 1 .. end : tera.out'[k] = tera.out[k]
        BY <1>3
      <4> QED BY <4>1, SameTags
    <3> QED BY <3>1, <3>2
  <2>2. BoundHere(template, tera.out, i) /\ template'[i] = template[i]
    BY <1>2, <1>3
  <2> QED BY <2>1, <2>2 DEF BoundHere
<1>6. BoundHere(template', tera.out', end + 1)
  <2>1. BoundHere(template', tera.out', Len(template) + 1)
    BY <1>1, BoundNew
  <2> QED BY <2>1 DEF end
<1>7. ASSUME NEW i \in 1 .. end + 1, tera.out'[i].kind \in Closes
      PROVE  /\ OpenAt(tera.out', i) # {}
             /\ tera.out'[i].kind = (IF tera.out'[Max(OpenAt(tera.out', i))].kind = "range"
                                     THEN "endfor" ELSE "endif")
  <2>1. CASE i \in 1 .. end
    <3>1. OpenAt(tera.out', i) = OpenAt(tera.out, i) /\ tera.out'[i] = tera.out[i]
      BY <2>1, <1>3, SameTags
    <3>2. /\ OpenAt(tera.out, i) # {}
          /\ tera.out[i].kind = (IF tera.out[Max(OpenAt(tera.out, i))].kind = "range"
                                 THEN "endfor" ELSE "endif")
      BY <2>1, <3>1, <1>2, <1>3, <1>7 DEF EndsFit
    <3>3. Max(OpenAt(tera.out, i)) \in 1 .. end
      <4>1. Max(OpenAt(tera.out, i)) \in OpenAt(tera.out, i)
        BY <2>1, <3>2, <1>3, OwnerIsOpen
      <4>2. OpenAt(tera.out, i) \subseteq 1 .. i - 1
        BY DEF OpenAt
      <4> QED BY <4>1, <4>2, <2>1, <1>3
    <3> QED BY <3>1, <3>2, <3>3, <1>3
  <2>2. CASE i = end + 1
    <3>1. tag.kind = "end"
      <4>1. tag.kind # "end" => Made(tag).kind = tag.kind
        BY <1>1, MadeIs
      <4>2. tag.kind \in Kinds
        BY TagIs
      <4> QED BY <4>1, <4>2, <2>2, <1>3, <1>7 DEF Kinds, WithOperand, Untranslated, Closes
    <3> QED BY <3>1, <2>2, <1>1, <1>3, EndFits DEF end
  <2> QED BY <2>1, <2>2, <1>4
<1>8. EndsFit(tera.out')
  BY <1>3, <1>7 DEF EndsFit
<1> QED BY <1>3, <1>4, <1>5, <1>6, <1>8

LEMMA TemplateStart == TemplateInit => TemplateInv
<1> SUFFICES ASSUME TemplateInit PROVE TemplateInv
  OBVIOUS
<1>1. /\ template = <<>> /\ tera.out = <<>> /\ tera.stack = <<>> /\ tera.counter = 0
      /\ tera = [out |-> <<>>, stack |-> <<>>, counter |-> 0]
  BY DEF TemplateInit, Beginning
<1>2. DOMAIN template = {} /\ DOMAIN tera.out = {} /\ Len(template) = 0 /\ Len(tera.out) = 0
  BY <1>1
<1>3. TemplateTypes
  <2>1. tera \in [out : Seq(TeraTag), stack : Seq({"if"} \cup Range(Loops)), counter : Nat]
    <3>1. <<>> \in Seq(TeraTag) /\ <<>> \in Seq({"if"} \cup Range(Loops))
      BY ShortIs
    <3> QED BY <1>1, <3>1
  <2>2. template \in Seq(Tags)
    BY <1>1
  <2>3. 0 <= TagLimit
    <3>1. TagLimit \in Nat
      BY TemplateAssumption
    <3> QED BY <3>1
  <2> QED BY <2>1, <2>2, <2>3, <1>1, <1>2 DEF TemplateTypes
<1>4. Translated
  <2>1. Nested(template, 0, <<>>)
    <3>1. OpenAt(template, 0 + 1) = {}
      BY DEF OpenAt
    <3>2. Range(<<>>) = {}
      BY DEF Range
    <3>3. <<>> \in Seq(1 .. 0) /\ DOMAIN <<>> = {}
      BY ShortIs
    <3> QED BY <3>1, <3>2, <3>3 DEF Nested
  <2>2. StackIs(tera.stack, template, tera.out, <<>>)
    BY <1>1 DEF StackIs
  <2>3. Alike(template, tera.out, 0)
    BY DEF Alike
  <2>4. LoopsDiffer
    BY <1>2 DEF LoopsDiffer
  <2> QED BY <1>2, <2>1, <2>2, <2>3, <2>4 DEF Translated
<1>5. BoundAlike
  BY <1>2 DEF BoundAlike, EndsFit
<1> QED BY <1>3, <1>4, <1>5 DEF TemplateInv

LEMMA TemplateStep == TemplateInv /\ [ReadTag]_<<template, tera>> => TemplateInv'
<1> SUFFICES ASSUME TemplateInv, [ReadTag]_<<template, tera>> PROVE TemplateInv'
  OBVIOUS
<1>1. CASE ReadTag
  <2>1. PICK tag \in Tags : template' = Append(template, tag) /\ tera' = preprocess(tera, tag)
    BY <1>1 DEF ReadTag
  <2>2. TemplateTypes' /\ Len(template) < TagLimit
    BY <1>1, TemplateTypesStep DEF TemplateInv, ReadTag
  <2>3. Sound' => Translated'
    BY <2>1, <2>2, TranslatedStep DEF TemplateInv
  <2>4. BoundAlike'
    BY <2>1, BoundStep DEF TemplateInv
  <2> QED BY <2>2, <2>3, <2>4 DEF TemplateInv
<1>2. CASE UNCHANGED <<template, tera>>
  BY <1>2 DEF TemplateInv, TemplateTypes, Sound, Balanced, Translated, LoopsDiffer, BoundAlike
<1> QED BY <1>1, <1>2

\* Of any template, however long and deeply nested.
THEOREM TemplatesBoundAlike == Preprocess => []BoundAlike
<1>1. TemplateInv => BoundAlike
  BY DEF TemplateInv
<1> QED BY <1>1, TemplateStart, TemplateStep, PTL DEF Preprocess
=============================================================================
